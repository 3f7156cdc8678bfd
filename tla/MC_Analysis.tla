---------------------------- MODULE MC_Analysis ----------------------------
(* What is worked out beside collecting: counts of addresses and how many     *)
(* lookups are in flight, layout searches, the scope of hop limits and named  *)
(* groups, the searches over saved spends, where lineages meet, and the       *)
(* compaction of a layout.                                                    *)
(* They do not interact; a behaviour has one of them.                         *)
EXTENDS Naturals, TLC

CONSTANTS None, NoTx, u1, u2, v1, a1, s1, s2, tA, t1, t2, t3, t4, oa, ob, oc, od, oe, of,
          j1, j2, lg, p1, i1, i2, i3, g1, g2

VARIABLES json, rows, main, exists, wal, reviews, lookup, reader, clock, starts, deaths
countVars == <<json, rows, main, exists, wal, reviews, lookup, reader, clock, starts, deaths>>
VARIABLES target, ceiling, peak, next, hold, seen, completed, pressure, grown, pressed
targetVars == <<target, ceiling, peak, next, hold, seen, completed, pressure, grown, pressed>>
A == INSTANCE AddressCounts WITH Lookups <- {u1, u2}, Readers <- {v1}, Addresses <- {a1},
                                 MaxClock <- 3, MaxStarts <- 3, MaxDeaths <- 1,
                                 Most <- 5, Default <- 2, Fixed <- 0, Initial <- 2,
                                 Total <- 9, Ceilings <- {2, 5}, MaxPressure <- 2

VARIABLES jobs, pool, queue, search, workers, asked
elkVars == <<jobs, pool, queue, search, workers, asked>>
E == INSTANCE ElkSearch WITH Searches <- {s1, s2}, Sections <- {s2},
                             Number <- (s1 :> 3 @@ s2 :> 1), Machine <- 4, Cpus <- 2,
                             HeapLimit <- 0, Pilot <- 1, Peaks <- {1}, Stoppable <- {s1}

VARIABLES out, links, saved, rules, paths, waiting, depths, heap, admitted, agenda, adding,
          current, step, runs, complete, view
hopVars == <<out, links, saved, rules, paths, waiting, depths, heap, admitted, agenda, adding,
             current, step, runs, complete, view>>
\* A diamond of two routes, one longer, whose halves meet before the last spend.
H == INSTANCE HopScope WITH
  Txs <- {tA, t1, t2, t3, t4}, Outputs <- {oa, ob, oc, od, oe, of},
  TxOf <- (oa :> tA @@ ob :> t1 @@ oc :> t1 @@ od :> t2 @@ oe :> t3 @@ of :> t4),
  Spender <- (oa :> t1 @@ ob :> t2 @@ oc :> t3 @@ od :> t4 @@ oe :> t2 @@ of :> NoTx),
  Spendable <- {oa, ob, oc, od, oe, of}, Seeds <- {oa}, Group <- {oe},
  CapOf <- (oa :> 6 @@ ob :> 1 @@ oc :> 6 @@ od :> 6 @@ oe :> 3 @@ of :> 6),
  StopChoices <- {{}, {ob}}, Ceilings <- {1, 4}, MaxRuns <- 2, queue <- agenda

VARIABLES question, answer
pathVars == <<question, answer>>
Free == [k \in 1..9 |-> 6]
Capped == {[Free EXCEPT ![3] = 1, ![4] = 2], [Free EXCEPT ![1] = 3, ![2] = 0]}
Asked(modes, seeds, known, caps, unspent, limits, least, amounts) ==
  [mode : modes, seeds : seeds, saved : known, caps : caps, seen : unspent, limit : limits,
   least : least, target : amounts]
Starters == {{1, 7}, {1, 2, 5}, {1, 4, 9}}
First == {{1}, {1, 2}, {2, 3, 6}}
Known == {1..5, {1, 2, 3, 5}}
Questions ==
  Asked({"all_saved", "hop_limited", "shortest"}, Starters, Known, {Free}, {{}}, {1, 2, 3}, {0}, {1})
  \cup Asked({"bounded"}, Starters, Known, Capped, {{}}, {1, 2, 3}, {0}, {1})
  \cup Asked({"endpoints", "named"}, First, Known, Capped, {{}}, {2, 3}, {0, 2}, {1})
  \cup Asked({"amount"}, First, {1..5}, Capped, {{}}, {2, 4}, {0, 2}, {1, 3})
  \cup Asked({"project"}, First \cup Starters, {1..5}, {Free}, {{}, {3, 6}}, {1}, {0}, {1})
  \cup Asked({"reachable"}, First, Known, {Free}, {{3, 6}}, 0..6, {0}, {1})
  \cup Asked({"connected", "shortest_view"}, Starters, Known, {Free}, {{3, 6}}, {0, 1, 2, 3, 6}, {0}, {1})
  \cup Asked({"scope"}, First, {1..4}, Capped, {{3, 8}}, {2, 4}, {0}, {1})
P == INSTANCE SavedPaths WITH
  Txs <- 1..5, Outputs <- 1..9, TxOf <- <<1, 1, 2, 2, 3, 3, 4, 5, 5>>,
  Spender <- <<2, 3, 4, 3, 4, 0, 5, 0, 0>>, Endpoints <- {6, 8, 9}, Group <- {4, 7},
  Amount <- (6 :> 1 @@ 8 :> 2 @@ 9 :> 1), NoTx <- 0

VARIABLES inputs, moments, tracing, archive, preview, numbers, job, changes
previewVars == <<inputs, moments, tracing, archive, preview, numbers, job, changes>>
V == INSTANCE Previews WITH Jobs <- {j1, j2}, Publishers <- {j2}, Previews <- {lg, p1},
                            Legacy <- lg, MaxChanges <- 2

VARIABLES evidence, kept, active, damage, controls, analysis, program, publisher
searchVars == <<evidence, kept, active, damage>>
scopeVars == <<controls, analysis, program, publisher>>
S == INSTANCE SavedSearches WITH Ids <- 1..3, Facts <- {t1, t2}, Origin <- t1, Programs <- {g1, g2},
                                 Settings <- {i1, i2, i3}, MaxDamage <- 1, saved <- kept

\* Two transactions with branches, one of them behind an elbow; an input address,
\* the context of its transaction; and a transaction that pays a fee.
VARIABLES phase, start, at, points, label, todo, bounds, corners, spent
compactVars == <<phase, start, at, points, label, todo, bounds, corners, spent>>
Finished(y2, x3, y3, y4, x5, y5) ==
  [at |-> <<<<0, 20>>, <<60, y2>>, <<x3, y3>>, <<34, y4>>, <<x5, y5>>, <<x5 - 30, y5>>, <<10, 130>>, <<70, 70>>>>,
   route |-> [e \in 1..5 |-> IF e = 3 THEN <<<<0, 0>>, <<12, 20>>, <<12, y4>>, <<0, 0>>>> ELSE <<>>],
   label |-> [e \in 1..5 |-> IF e = 1 THEN <<10, 6, 14, 9>> ELSE None]]
K == INSTANCE Compaction WITH
  Transactions <- {1, 2, 5, 8}, Locals <- {3, 4, 6}, Fees <- {7}, Half <- [n \in 1..8 |-> <<3, 2>>],
  Edges <- 1..5, Source <- <<1, 3, 1, 6, 8>>, Target <- <<3, 2, 4, 5, 7>>,
  Bent <- {3}, Captioned <- {1, 4}, Returning <- {}, Columns <- <<0, 2, 1, 1, 1, 0, 0, 2>>,
  Layouts <- {Finished(y2, x3, y3, y4, x5, y5) : y2 \in {4, 36}, x3 \in {24, 36}, y3 \in {4, 20, 36},
                                               y4 \in {4, 20, 36}, x5 \in {40, 100}, y5 \in {56, 112}},
  Locked <- {}, Core <- {}, Context <- {6}, Frames <- {{1, 2, 3, 4}, {5, 6}}, CaptionHalf <- <<2, 1>>, CaptionRise <- 3,
  LinkGap <- 8, NodeGap <- 6, NearEdge <- 4, EdgeGap <- 2, ComponentGap <- 8, Padding <- 3, Title <- 4

\* Two starts whose outputs meet in the third transaction and again in the last,
\* or in a cycle; with one spend missing, one transaction not saved, a stop, and
\* limits that run out on the way.
VARIABLES case, stage, visited, origins, left, brought, merges, addresses
lineageVars == <<case, stage, visited, origins, left, brought, merges, addresses>>
Spends(f) == [o \in 1..6 |-> IF f[o] = 0 THEN None ELSE f[o]]
Recorded == <<3, 4, 3, 4, 4, 0>>
Traces == {<<1..4, Recorded, Recorded>>, <<1..4, Recorded, <<3, 0, 3, 4, 4, 0>>>>, <<{1, 2, 4}, Recorded, Recorded>>,
           <<1..4, <<3, 4, 3, 4, 4, 1>>, <<3, 4, 3, 4, 4, 1>>>>, <<1..4, <<2, 3, 3, 4, 4, 0>>, <<2, 3, 3, 4, 4, 0>>>>,
           <<1..4, Recorded, <<4, 4, 3, 4, 4, 0>>>>}
Lineage(trace, seeds, catalog, labels, cap, flags) ==
  [saved |-> trace[1], inputs |-> Spends(trace[2]), link |-> Spends(trace[3]), seeds |-> seeds,
   catalog |-> catalog, spendable |-> 1..6, stopped |-> labels[1], exact |-> labels[2], cap |-> cap,
   limits |-> flags[1], respectHops |-> flags[2], respectStops |-> flags[3]]
L == INSTANCE Convergence WITH
  Txs <- 1..4, Outputs <- 1..6, TxOf <- <<1, 1, 2, 2, 3, 4>>, AddressOf <- <<None, 1, 2, 1, 2, None>>, Inf <- 9,
  Cases <- {Lineage(trace, seeds, catalog, labels, cap, flags) :
              trace \in Traces, seeds \in {{1, 3}, {1, 2, 3, 5}}, catalog \in {{1}, {1, 2}, {1, 2, 3}},
              labels \in {<<{}, {}>>, <<{1}, {}>>, <<{}, {3}>>},
              cap \in {<<9, 9, 9, 9, 9, 9>>, <<1, 9, 2, 9, 9, 9>>},
              flags \in {<<TRUE, TRUE, TRUE>>, <<TRUE, TRUE, FALSE>>, <<TRUE, FALSE, TRUE>>, <<FALSE, TRUE, TRUE>>}},
  phase <- stage, inputs <- brought

ASSUME L!ConvergenceAssumption
ASSUME K!Compactable
ASSUME A!CountAssumption
ASSUME E!ElkAssumption
ASSUME H!HopAssumption
ASSUME P!PathsAssumption
ASSUME V!PreviewsAssumption
ASSUME S!SearchesAssumption

VARIABLE part  \* what this behaviour is about
AllVars == <<part, countVars, targetVars, elkVars, hopVars, pathVars, previewVars, searchVars, scopeVars, compactVars, lineageVars>>
AnyInit ==
  /\ part \in {"counts", "target", "layout", "hops", "paths", "previews", "searches", "scopes", "compaction", "lineages"}
  /\ A!Init /\ E!Init /\ H!Init /\ V!Init /\ S!Init
  /\ part # "target" => ceiling = 2
  /\ part # "previews" => preview[lg] = None
  /\ part # "scopes" => controls = i1
  /\ answer = None
  /\ IF part = "compaction" THEN K!Init
     ELSE phase = None /\ start = None /\ at = None /\ points = None /\ label = None /\ todo = None
          /\ bounds = None /\ corners = None /\ spent = None
  /\ IF part = "lineages" THEN L!Init
     ELSE case = None /\ stage = None /\ visited = None /\ origins = None /\ left = None
          /\ brought = None /\ merges = None /\ addresses = None
  /\ question \in IF part = "paths" THEN Questions ELSE {None}
AnyNext ==
  /\ UNCHANGED part
  /\ \/ part = "counts" /\ A!CacheNext
        /\ UNCHANGED <<targetVars, elkVars, hopVars, pathVars, previewVars, searchVars, scopeVars, compactVars, lineageVars>>
     \/ part = "target" /\ A!PolicyNext
        /\ UNCHANGED <<countVars, elkVars, hopVars, pathVars, previewVars, searchVars, scopeVars, compactVars, lineageVars>>
     \/ part = "layout" /\ E!Next
        /\ UNCHANGED <<countVars, targetVars, hopVars, pathVars, previewVars, searchVars, scopeVars, compactVars, lineageVars>>
     \/ part = "hops" /\ H!Next
        /\ UNCHANGED <<countVars, targetVars, elkVars, pathVars, previewVars, searchVars, scopeVars, compactVars, lineageVars>>
     \/ part = "paths" /\ P!Next
        /\ UNCHANGED <<countVars, targetVars, elkVars, hopVars, previewVars, searchVars, scopeVars, compactVars, lineageVars>>
     \/ part = "previews" /\ V!Next
        /\ UNCHANGED <<countVars, targetVars, elkVars, hopVars, pathVars, searchVars, scopeVars, compactVars, lineageVars>>
     \/ part = "searches" /\ S!SearchNext
        /\ UNCHANGED <<countVars, targetVars, elkVars, hopVars, pathVars, previewVars, scopeVars, compactVars, lineageVars>>
     \/ part = "scopes" /\ S!ScopeNext
        /\ UNCHANGED <<countVars, targetVars, elkVars, hopVars, pathVars, previewVars, searchVars, compactVars, lineageVars>>
     \/ part = "compaction" /\ K!Next
        /\ UNCHANGED <<countVars, targetVars, elkVars, hopVars, pathVars, previewVars, searchVars, scopeVars, lineageVars>>
     \/ part = "lineages" /\ L!Next
        /\ UNCHANGED <<countVars, targetVars, elkVars, hopVars, pathVars, previewVars, searchVars, scopeVars, compactVars>>
AnySpec ==
  /\ AnyInit /\ [][AnyNext]_AllVars
  /\ WF_countVars(part = "counts" /\ A!Working)
  /\ \A s \in {s1, s2} : WF_elkVars(part = "layout" /\ E!Proceed(s))

\* Every variable has its type.
AnalysisTypeOK ==
  /\ A!TypeOK /\ E!TypeOK /\ H!TypeOK /\ V!TypeOK /\ S!TypeOK
  /\ part = "compaction" => K!TypeOK
  /\ part = "lineages" => L!TypeOK
\* No step takes a committed count away, raises the concurrency without a full
\* batch free of pressure, takes more of the machine while a lease is held,
\* gives a preview another number, or changes a sealed search or analysis.
StepsAreEarned ==
  A!CommittedStays /\ A!GrowthIsEarned /\ E!LeasesAreKept /\ V!NumbersAreKept /\ S!SealedIsFinal
\* Every lookup and reader of counts comes to rest, and every layout search ends
\* with its permits returned, again and again.
AnalysisEnds == []<>(A!AllAtRest /\ (part = "layout" => E!SearchesEnd))
=============================================================================
