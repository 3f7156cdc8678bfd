------------------------------- MODULE MC_Runs -------------------------------
(* The traversal, on five transactions; the searches that read other chains   *)
(* and explorers: peg-ins, Bitcoin payouts and Lightning; and what is made of *)
(* a sealed run: its summary, its verified index and projections.  They share *)
(* nothing that changes; a behaviour has one of them.                         *)
EXTENDS Trace, TLC

\* Five transactions.  Seed p of P is spent by T; seed q of Q by R, and r of R by
\* T too, so that T's output k has a path of one spend and one of two; U spends
\* k.  "w" is an address of p, so a stop on w leaves k only its longer path.
Tx == {"P", "Q", "R", "T", "U"}
Out == {"p", "q", "r", "k", "u"}
Of == [o \in Out |-> CASE o = "p" -> "P" [] o = "q" -> "Q" [] o = "r" -> "R" [] o = "k" -> "T" [] o = "u" -> "U"]
By == [o \in Out |-> CASE o = "p" -> "T" [] o = "q" -> "R" [] o = "r" -> "T" [] o = "k" -> "U" [] o = "u" -> NoTx]
Pays == [o \in Out |-> IF o = "p" THEN "w" ELSE "other"]
Kind == [o \in Out |-> "spendable"]
KindFee == [Kind EXCEPT !["u"] = "fee"]
Seed == {"p", "q"}
NoLimits == {Unlimited}
\* The narrow budget ends a run at its first or second check.
SomeLimits == {[outpoints |-> 5, transactions |-> 4], [outpoints |-> 2, transactions |-> 1]}

VARIABLES moment, task, sessions, index, deposits, claims, rows, previous, payouts
pegVars == <<index, deposits, claims>>
payoutVars == <<rows, previous, payouts>>
searchVars == <<moment, task, sessions>>

\* Two reorganisations: the third chain drops what the second added, and has
\* the claim of deposit 1 or the payment 4 in another block.
PegBlock == "b1" :> <<0, 1, 2, 3>> @@ "b2" :> <<0, 4>> @@ "b3" :> <<0>> @@ "b4" :> <<0, 6>>
            @@ "c4" :> <<0, 5>> @@ "c5" :> <<0>>
G == INSTANCE PegMatching WITH
  Deposits <- {1, 2}, Block <- PegBlock, ClaimOf <- <<2, 0, 0, 0, 1, 0>>,
  Chains <- <<<<"b1", "b2", "b3">>, <<"b1", "b2", "b3", "b4">>, <<"b1", "b2", "b3", "c4", "c5">>>>,
  Time <- <<1, 2, 3, 4, 5>>, Windows <- {[start |-> 1, end |-> 2], [start |-> 1, end |-> 4]},
  PageSize <- 2, MaxPages <- 3, MaxSessions <- 2, rows <- deposits, report <- claims
PayBlock == "b1" :> <<1>> @@ "b2" :> <<2, 3>> @@ "b3" :> <<4>> @@ "b4" :> <<5>> @@ "c3" :> <<6>> @@ "c4" :> <<4>>
O == INSTANCE PayoutSearch WITH
  Scripts <- <<{1, 2}>>, Block <- PayBlock, ScriptOf <- <<1, 1, 1, 2, 1, 1>>, Agrees <- {1, 3, 4, 6},
  Chains <- <<<<"b1", "b2", "b3">>, <<"b1", "b2", "b3", "b4">>, <<"b1", "b2", "c3", "c4">>>>,
  Time <- <<1, 2, 3, 4>>, Query <- [start |-> 2, end |-> 3],
  PageSize <- 2, MaxPages <- 3, MaxSessions <- 2, report <- payouts

VARIABLES query, step, samples, cache, used, late, todo, asked, lookup
lightningVars == <<query, step, samples, cache, used, late, todo, asked, lookup>>
Paid(height, ins, outs, spenders) ==
  [height |-> height, ins |-> ins, outs |-> outs, spenders |-> spenders]
Spent(t, vin) == [tx |-> t, vin |-> vin]
Unspent == Spent("none", 0)
Channel(id, role, fund, value, height) ==
  [id |-> id, role |-> role, fund |-> fund, value |-> value, height |-> height,
   closing |-> IF role = "closure" THEN "q" ELSE "none"]
Right == {Channel(1, "funding", <<"q", 1>>, 5, 3), Channel(2, "closure", <<"f", 1>>, 9, 2)}
Opened == Channel(1, "funding", <<"q", 1>>, 5, 3)
\* s has more inputs, outputs and spenders than are inspected.
L == INSTANCE Lightning WITH
  Queries <- {"q", "s"},
  TxOf <- ("q" :> Paid(3, <<<<"f", 1>>, <<"g", 1>>>>, <<5, 6>>, <<Spent("x", 1), Unspent>>) @@
           "s" :> Paid(0, <<<<"x", 1>>, <<"x", 2>>, <<"x", 3>>>>, <<1, 1, 2, 3>>,
                       <<Spent("x", 1), Spent("y", 1), Spent("x", 2), Unspent>>) @@
           "f" :> Paid(2, <<<<"g", 2>>>>, <<9, 7>>, <<Spent("q", 1), Unspent>>) @@
           "x" :> Paid(4, <<<<"q", 1>>, <<"s", 3>>>>, <<5>>, <<Unspent>>) @@
           "y" :> Paid(4, <<<<"s", 2>>>>, <<1>>, <<Unspent>>)),
  Answers <- {{}, {Opened}, Right, {Opened, Channel(2, "closure", <<"f", 2>>, 7, 2)},
              {Opened, Channel(1, "closure", <<"f", 1>>, 9, 2)}},
  Swaps <- {"q", "f"},
  Template <- (<<"q", 1>> :> "candidate" @@ <<"q", 2>> :> "hidden" @@ <<"x", 1>> :> "hidden" @@
               <<"x", 2>> :> "candidate" @@ <<"s", 1>> :> "bad" @@ <<"s", 2>> :> "unsupported" @@
               <<"y", 1>> :> "candidate"),
  MaxInputs <- 2, MaxOutputs <- 3, MaxSpenders <- 1, MaxRequests <- 8, report <- lookup

ASSUME G!PegAssumption
ASSUME O!PayoutAssumption
ASSUME L!LightningAssumption

VARIABLES disk, files, results, awaited, pending, worker, page, lock, sealed, asks
summaryVars == <<disk, files, results, awaited, pending, worker, page, lock, sealed, asks>>
VARIABLES archive, identity, db, catalog, gate, shelf, target, job, starts
snapshotVars == <<archive, identity, db, catalog, gate, shelf, target, job, starts>>
VARIABLE changes  \* how much changed on disk
S == INSTANCE RunSummaries WITH
  Archives <- {"a1", "a2"}, Latest <- "a1", Pages <- {"p1"}, QueueLimit <- 1, Kept <- 1,
  MaxAsks <- 2, MaxChanges <- 1, cache <- files, queue <- awaited
N == INSTANCE SnapshotIndex WITH Jobs <- {"j1", "j2"}, Reads <- 1, MaxStarts <- 3, MaxChanges <- 1

ASSUME S!SummariesAssumption
ASSUME N!SnapshotAssumption

VARIABLE part  \* what this behaviour is about
archiveVars == <<summaryVars, snapshotVars, changes>>
otherVars == <<searchVars, pegVars, payoutVars, lightningVars, archiveVars>>
RunsInit ==
  /\ part \in {"trace", "pegins", "payouts", "lightning", "summaries", "snapshots"}
  /\ Init /\ L!Init /\ S!Init /\ N!Init
  /\ index = G!Empty /\ deposits = G!NoReport.rows /\ claims = G!NoReport
  /\ rows = O!NoRows /\ previous = O!NoRows /\ payouts = O!NoReport
  /\ moment = 1 /\ sessions = 0 /\ task = IF part = "payouts" THEN O!Free ELSE G!Free
  /\ part # "lightning" => query = "q"
RunsNext ==
  /\ UNCHANGED part
  /\ \/ part = "trace" /\ Next /\ UNCHANGED otherVars
     \/ part = "pegins" /\ G!Next /\ UNCHANGED <<vars, payoutVars, lightningVars, archiveVars>>
     \/ part = "payouts" /\ O!Next /\ UNCHANGED <<vars, pegVars, lightningVars, archiveVars>>
     \/ part = "lightning" /\ L!Next /\ UNCHANGED <<vars, searchVars, pegVars, payoutVars, archiveVars>>
     \/ /\ part = "summaries" /\ S!Next
        /\ UNCHANGED <<vars, searchVars, pegVars, payoutVars, lightningVars, snapshotVars>>
     \/ /\ part = "snapshots" /\ N!Next
        /\ UNCHANGED <<vars, searchVars, pegVars, payoutVars, lightningVars, summaryVars>>
RunsSpec ==
  /\ RunsInit /\ [][RunsNext]_<<part, vars, otherVars>>
  /\ WF_vars(part = "trace" /\ (Examine \/ End))
  /\ WF_<<summaryVars, changes>>(part = "summaries" /\ S!Working)
  /\ WF_<<summaryVars, changes>>(part = "summaries" /\ \E p \in {"p1"} : S!Displace(p))
  /\ \A j \in {"j1", "j2"} : WF_<<snapshotVars, changes>>(part = "snapshots" /\ N!Proceed(j))

\* The traversal alone, for what it does not keep.
TraceSpec == RunsInit /\ part = "trace" /\ [][RunsNext]_<<part, vars, otherVars>>

\* Every variable has its type.
SearchTypeOK == CASE part = "pegins" -> G!TypeOK [] part = "payouts" -> O!TypeOK
                     [] part = "summaries" -> S!TypeOK [] part = "snapshots" -> N!TypeOK [] OTHER -> L!TypeOK
\* What a search says it has read, it has read: the index of claims covers what
\* it calls covered and a session goes on until that is the whole window (G!);
\* the part of a history that a later session skips hides no payout (O!); and a
\* Lightning report passes its own validation, has exactly the channels that
\* were checked, and an inspection that does not depend on them (L!).  What is
\* made of a sealed run is true to its archive: a summary on a page is that of
\* the files the page names, and what waits for the reader is in its queue (S!);
\* a projection has only what the archive was sealed with, and is not refused
\* without a cause (N!).
ReportsAreHonest ==
  /\ part = "pegins" => G!CoverageIsHonest /\ G!NeverStalls
  /\ part = "payouts" => O!PrefixIsKept
  /\ L!ReportIsValid /\ L!MatchesAreTrue /\ L!InspectionIsIndependent
  /\ part = "summaries" => S!PendingIsQueued /\ S!AnswersAreCurrent
  /\ part = "snapshots" => N!ProjectionIsSealed /\ N!ErrorsHaveCauses
\* A search for a peg-in that ends without one, and one for payouts that ends,
\* have found all that the chain of that moment has in the window (G!, O!).
ResultsAreExact == G!NoMatchIsTrue /\ O!ResultIsExact
\* Every run ends (RunEnds), the reader of summaries comes to the end of its
\* queue (S!), and every job that opens an index or projects ends (N!).
EveryRunEnds ==
  /\ RunEnds
  /\ []<>((part = "summaries" => S!QueueDrains) /\ (part = "snapshots" => N!JobsEnd))
=============================================================================
