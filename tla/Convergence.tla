---------------------------- MODULE Convergence ----------------------------
(* liquid_tracer/convergence.py: which starting transactions each saved       *)
(* output descends from, where they meet in a spend, and which addresses       *)
(* received from more than one.  Transactions are taken in an order in which   *)
(* parents come first; what a label stops or limits bounds how far a start     *)
(* is followed.  Hop limits are those of a path, not of an output: HopScope    *)
(* models the scope they give to a collection.                                 *)
EXTENDS Integers, Sequences, FiniteSets, FiniteSetsExt

CONSTANTS
  Txs, Outputs,
  TxOf,        \* the transaction of an output
  AddressOf,   \* the address it pays, or None
  Inf,         \* no hop limit
  None,
  Cases        \* saved traces, their labels and the rules of a plot

\* inputs[o] is the saved transaction with o among its inputs, link[o] the
\* spend recorded for it.  `stopped' outputs pay a service where a trace
\* stops, `exact' ones are stopped by another label.
Case ==
  [saved : SUBSET Txs, inputs : [Outputs -> Txs \cup {None}], link : [Outputs -> Txs \cup {None}],
   seeds : SUBSET Outputs, catalog : SUBSET Txs, spendable : SUBSET Outputs,
   stopped : SUBSET Outputs, exact : SUBSET Outputs, cap : [Outputs -> 0..Inf],
   limits : BOOLEAN, respectHops : BOOLEAN, respectStops : BOOLEAN]
ConvergenceAssumption ==
  /\ IsFiniteSet(Txs) /\ None \notin Txs /\ Inf \in Nat \ {0}
  /\ TxOf \in [Outputs -> Txs] /\ Cases \subseteq Case

VARIABLES
  case,      \* never changes
  phase,     \* "check", "walk", "walked", "done", or "refused"
  visited,
  origins,   \* of every output: the starts it descends from
  left,      \* and the hops each may still be followed, 0 when it may not
  inputs,    \* of every spent output: the starts it brought into its spend
  merges,    \* transactions marked INPUT MERGE
  addresses  \* addresses marked, or None before they are looked at
vars == <<case, phase, visited, origins, left, inputs, merges, addresses>>

Several(set) == \E a, b \in set : a # b
Less(n) == IF n = Inf THEN n ELSE n - 1
Few(m, n) == IF m < n THEN m ELSE n
limited == case.respectHops /\ case.limits  \* some label has a hop limit
output_budget(o) ==
  IF ~limited THEN Inf
  ELSE IF case.respectStops /\ o \in case.stopped \cup case.exact THEN 0
  ELSE case.cap[o]
allowed(o) ==
  /\ o \in case.spendable
  /\ case.respectStops => o \notin case.stopped /\ (case.respectHops \/ o \notin case.exact)

Incoming(t) == {o \in Outputs : case.link[o] = t}
Parents(t) == {TxOf[o] : o \in Incoming(t)}
Linked == {o \in Outputs : case.link[o] # None}
Agrees(o) == TxOf[o] \in case.saved /\ case.link[o] \in case.saved /\ case.link[o] = case.inputs[o]
own(t) == {t} \cap case.catalog

Init ==
  /\ case \in Cases /\ phase = "check" /\ visited = {}
  /\ origins = [o \in Outputs |-> {}] /\ left = [o \in Outputs |-> [r \in Txs |-> 0]]
  /\ inputs = [o \in Outputs |-> {}] /\ merges = {} /\ addresses = None

\* One starting transaction has nothing to meet; a spend that the saved
\* inputs do not bear out is no evidence.
Check ==
  /\ phase = "check"
  /\ \/ ~Several(case.catalog) /\ phase' = "walked" /\ UNCHANGED origins
     \/ /\ Several(case.catalog) /\ \E o \in Linked : ~Agrees(o)
        /\ phase' = "refused" /\ UNCHANGED origins
     \/ /\ Several(case.catalog) /\ \A o \in Linked : Agrees(o)
        /\ phase' = "walk"
        /\ origins' = [o \in Outputs |-> IF o \in case.seeds THEN own(TxOf[o]) ELSE {}]
  /\ UNCHANGED <<case, visited, left, inputs, merges, addresses>>

active_origins(o) == {r \in origins[o] : left[o][r] > 0}
contributing(t) == {o \in Incoming(t) : active_origins(o) # {} /\ allowed(o)}
input_bits(t) == UNION {active_origins(o) : o \in contributing(t)}
combined(t) == input_bits(t) \cup own(t)
groups(t) == ({active_origins(o) : o \in contributing(t)} \cup {own(t)}) \ {{}}
\* The hops that are left of a start after the spend by t.
incoming_budget(t, r) == Max({0} \cup {Less(left[o][r]) : o \in {k \in contributing(t) : left[k][r] > 0}})
Arriving(t, o) == input_bits(t) \cup (IF o \in case.seeds THEN own(t) ELSE {})
Budget(t, o, r) ==
  Few(IF o \in case.seeds /\ r \in own(t) THEN Inf ELSE incoming_budget(t, r), output_budget(o))

\* A transaction all of whose parents were taken.
_lineage_analysis(t) ==
  /\ phase = "walk" /\ t \in case.saved \ visited /\ Parents(t) \subseteq visited
  /\ visited' = visited \cup {t}
  /\ inputs' = [o \in Outputs |-> IF o \in contributing(t) THEN active_origins(o) ELSE inputs[o]]
  /\ merges' = IF Several(groups(t)) /\ Several(combined(t)) THEN merges \cup {t} ELSE merges
  /\ origins' = [o \in Outputs |-> IF TxOf[o] = t THEN Arriving(t, o) ELSE origins[o]]
  /\ left' = [o \in Outputs |-> IF TxOf[o] # t THEN left[o]
                ELSE [r \in Txs |-> IF r \in Arriving(t, o) THEN Budget(t, o, r) ELSE 0]]
  /\ UNCHANGED <<case, phase, addresses>>
\* What is left when nothing is ready is a cycle.
Walked ==
  /\ phase = "walk" /\ \A t \in case.saved \ visited : ~(Parents(t) \subseteq visited)
  /\ phase' = IF visited = case.saved THEN "walked" ELSE "refused"
  /\ UNCHANGED <<case, visited, origins, left, inputs, merges, addresses>>

\* Receipts that are saved, by address; no lineage passes through an address.
receipts(a) ==
  {o \in case.spendable : AddressOf[o] = a /\ TxOf[o] \in case.saved /\ origins[o] # {}}
Converging(a) ==
  LET sets == {origins[o] : o \in receipts(a)} IN Several(sets) /\ Several(UNION sets)
branch_interactions ==
  /\ phase = "walked" /\ phase' = "done"
  /\ addresses' = {a \in {AddressOf[o] : o \in Outputs} \ {None} : Converging(a)}
  /\ UNCHANGED <<case, visited, origins, left, inputs, merges>>

\* What a plot shows: the starts of a transaction, of the occurrences of an
\* address and of a line into or out of a transaction; and who sent to an
\* address that is marked.
_branch_structure ==
  [txs   |-> [t \in visited |-> own(t) \cup UNION {inputs[o] : o \in Incoming(t)}],
   nodes |-> [a \in {AddressOf[o] : o \in Outputs} \ {None} |-> UNION {origins[o] : o \in {o \in Outputs : AddressOf[o] = a}}],
   out |-> origins, in |-> inputs]
annotate_branch_interactions == {t \in visited : \E a \in addresses : \E o \in receipts(a) : TxOf[o] = t}

Next == Check \/ (\E t \in Txs : _lineage_analysis(t)) \/ Walked \/ branch_interactions
Spec == Init /\ [][Next]_vars

-----------------------------------------------------------------------------
\* A start r comes to an output along recorded spends, none of them through
\* an output that stops it, and no limit on the way runs out before the last.
Route(r, s) ==
  /\ s[1] \in case.seeds /\ r = TxOf[s[1]] /\ r \in case.catalog
  /\ \A i \in 1..(Len(s) - 1) :
       /\ case.link[s[i]] = TxOf[s[i + 1]] /\ allowed(s[i])
       /\ \A k \in 1..i : output_budget(s[k]) = Inf \/ output_budget(s[k]) > i - k
\* It may go on from the last output of the route.
Onward(s) ==
  allowed(s[Len(s)]) /\ \A k \in 1..Len(s) : output_budget(s[k]) = Inf \/ output_budget(s[k]) > Len(s) - k
RoutesTo(r, o) == {s \in UNION {[1..n -> Outputs] : n \in 1..Cardinality(Txs)} : s[Len(s)] = o /\ Route(r, s)}
From(o) == {r \in Txs : RoutesTo(r, o) # {}}
Through(o) == {r \in Txs : \E s \in RoutesTo(r, o) : Onward(s)}

TypeOK ==
  /\ case \in Cases /\ phase \in {"check", "walk", "walked", "done", "refused"}
  /\ visited \subseteq case.saved /\ merges \subseteq visited
  /\ origins \in [Outputs -> SUBSET case.catalog] /\ inputs \in [Outputs -> SUBSET case.catalog]
  /\ left \in [Outputs -> [Txs -> 0..Inf]]

\* Whatever the order of the transactions, an output carries a start exactly
\* when some route of spends that the labels allow leads from that start to it.
LineagesAreExact ==
  Several(case.catalog) /\ phase = "done" => \A o \in Outputs : TxOf[o] \in case.saved => origins[o] = From(o)
\* A transaction is marked exactly when its inputs, and itself if it is a start,
\* bring together starts that were not together on each of them.
MeetingsAreExact ==
  Several(case.catalog) /\ phase = "done" => \A t \in case.saved :
    LET sets == ({Through(o) : o \in Incoming(t)} \cup {own(t)}) \ {{}}
    IN t \in merges <=> Several(sets) /\ Several(UNION sets)
\* Evidence in which transactions precede themselves is refused, all other
\* evidence that is borne out is not.
CyclesAreRefused ==
  LET Circular == {set \in SUBSET case.saved : set # {} /\ \A t \in set : Parents(t) \cap set # {}}
  IN /\ phase = "done" /\ Several(case.catalog) => Circular = {}
     /\ phase = "refused" /\ (\A o \in Linked : Agrees(o)) => Circular # {}
=============================================================================
