------------------------------- MODULE Trace -------------------------------
(***************************************************************************)
(* The forward traversal of liquid_tracer/trace.py: from seed outputs along *)
(* observed spends, breadth first over a heap, bounded by a hop ceiling and *)
(* work budgets, held back by the stop rules of services.ServiceScope, and  *)
(* continued from saved runs.                                               *)
(*                                                                         *)
(* The chain is the environment: transactions appear in the mempool and    *)
(* confirm while a collection reads them.  A response is the chain as it   *)
(* was when its endpoint was first fetched in the run (api.get fetches an  *)
(* endpoint once per run), which is earlier than its use when the rolling  *)
(* look-ahead of prepare_frontier fetched it.  Response contents that      *)
(* contradict each other are the environment's "error" outcome.            *)
(***************************************************************************)
EXTENDS Naturals, FiniteSets

CONSTANTS
  Txs,            \* transactions of the chain
  Outputs,        \* outpoints "txid:vout"
  Addresses,      \* output addresses a stop rule can name
  TxOf,           \* [Outputs -> Txs]
  Spender,        \* [Outputs -> Txs \cup {NoTx}]: who ever spends it
  AddressOf,      \* [Outputs -> Addresses \cup {NoAddress}]
  KindOf,         \* [Outputs -> kinds]: output_kind
  Seeds,          \* the analyst's starting outputs
  Confirmed0,     \* transactions confirmed before the first run
  HopChoices,     \* the hop ceilings a run may be given
  StopChoices,    \* the sets of stop-labelled addresses a run may be given
  OnlyChoices,    \* the selections "--only" may name
  MaxRuns,        \* bound on the number of runs
  Budgets,        \* the work limits a run may be given
  Unconfirmed,    \* include_unconfirmed
  Failures,       \* the stop reasons the environment may raise
  InterruptInAdd, \* may a KeyboardInterrupt land while children are added
  NoTx, NoAddress, None

Terminal == {"spent", "fee", "pegout", "provably_unspendable"}
Kinds == {"spendable", "fee", "pegout", "provably_unspendable"}
\* services.SERVICE_STATUSES
Holds == {"suspected_service_stop", "held_behind_service"}
Reasons == {"outpoint_limit", "transaction_limit", "request_limit", "error", "interrupted"}
Statuses == Terminal \cup Holds \cup Reasons \cup
  {"pending", "unconfirmed_funding", "hop_limit", "unspent_at_observation", "unconfirmed_spend"}
Seen == {"absent", "mempool", "confirmed"}

\* limits.max_outpoints and limits.max_transactions, 0 = none
Limits == [outpoints : Nat, transactions : Nat]
Unlimited == [outpoints |-> 0, transactions |-> 0]

\* state["outputs"][key]: "hold" and "prev" are trace_control's reason and
\* previous_status, both None while nothing holds the output.
Record ==
  {r \in [depth : Nat, status : Statuses, hold : Holds \cup {None}, prev : Statuses \cup {None}] :
     r.hold = None <=> r.prev = None}

ASSUME TraceAssumption ==
  /\ IsFiniteSet(Txs)
  /\ TxOf \in [Outputs -> Txs]
  /\ Spender \in [Outputs -> Txs \cup {NoTx}] /\ NoTx \notin Txs
  /\ AddressOf \in [Outputs -> Addresses \cup {NoAddress}] /\ NoAddress \notin Addresses
  /\ KindOf \in [Outputs -> Kinds]
  /\ \A o \in Outputs : Spender[o] # NoTx => KindOf[o] = "spendable"
  /\ \E rank \in [Txs -> 1..Cardinality(Txs)] :  \* no transaction spends its own future
       \A o \in Outputs : Spender[o] # NoTx => rank[TxOf[o]] < rank[Spender[o]]
  /\ Seeds \subseteq Outputs /\ Seeds # {}
  /\ Confirmed0 \subseteq Txs
  /\ HopChoices \subseteq Nat
  /\ StopChoices \subseteq SUBSET Addresses
  /\ OnlyChoices \subseteq SUBSET Outputs
  /\ MaxRuns \in Nat /\ Budgets \subseteq Limits
  /\ Unconfirmed \in BOOLEAN /\ InterruptInAdd \in BOOLEAN
  /\ Failures \subseteq Reasons
  /\ None \notin Outputs /\ None \notin Nat /\ None \notin Statuses /\ None \notin Record
  /\ None \notin [Outputs -> Seen]

VARIABLES
  chain,    \* [Txs -> Seen]: the explorer's chain
  latest,   \* the sealed run case.json's latest_run names, or None
  runs,     \* how many runs were started
  pc,       \* where trace() is
  out,      \* state["outputs"]: a record per known output, else None
  links,    \* the outputs with an entry in state["links"]
  data,     \* state["transactions"]: the confirmation status saved with each
  queue,    \* the heap: how often it holds each (depth, output)
  depths,   \* scope.depths: shortest depth the current rules allow, or None
  active,   \* scope.active
  stops,    \* scope.addresses
  hops,     \* limits.max_hops
  budget,   \* the work limits of the run
  only,     \* the selected frontier, or None
  current,  \* the output being examined, or None
  children, \* the child outputs add() has still to be called for
  count,    \* outputs examined by this run
  fetched,  \* new transactions fetched by this run
  gotTx,    \* the run's response to /tx/T
  gotSpend, \* the run's response to /tx/T/outspends
  reason    \* stop_reason, or None

saveVars == <<out, links, data>>
runVars == <<stops, hops, only, active, budget>>
loopVars == <<queue, depths, current, children, count, fetched, reason>>
memoVars == <<gotTx, gotSpend>>
vars == <<chain, latest, runs, pc, saveVars, runVars, loopVars, memoVars>>

MaxDepth == Cardinality(Txs)
Depths == 0..MaxDepth
Entries == Nat \X Outputs

Known(rs) == {o \in Outputs : rs[o] # None}
OutputsOf(t) == {o \in Outputs : TxOf[o] = t}
Held(rs, o) == rs[o].hold # None

-----------------------------------------------------------------------------
(* ServiceScope                                                            *)

\* An output of a saved transaction that pays a stop-labelled address.
StopAddress(o, rules, saved) ==
  saved[TxOf[o]] # "absent" /\ KindOf[o] = "spendable" /\ AddressOf[o] \in rules

Restored(r) ==
  [r EXCEPT !.hold = None, !.prev = None,
            !.status = IF r.hold # None /\ r.status \in Holds THEN r.prev ELSE r.status]

HoldFor(r, why) ==
  [r EXCEPT !.hold = why, !.prev = r.status,
            !.status = IF r.status \in Terminal THEN r.status ELSE why]

\* The outputs at exactly n spends from the starts, passing no stopped output.
Layer(starts, known, linked, stopped) ==
  LET L[n \in Depths] ==
        known \cap ({o \in known : <<n, o>> \in starts} \cup
                    (IF n = 0 THEN {}
                     ELSE UNION {OutputsOf(Spender[p]) : p \in (L[n - 1] \cap linked) \ stopped}))
  IN L

\* Mutant: a depth once given to an output is never improved.
WalkedOnce(starts, old, known, linked, stopped) ==
  LET L == Layer(starts, known, linked, stopped)
  IN [o \in Outputs |->
        LET ns == {n \in Depths : o \in L[n]}
        IN IF ns = {} \/ old[o] # None THEN old[o] ELSE CHOOSE n \in ns : \A k \in ns : n <= k]

\* scope.depths after _walk(starts): the shorter of the old and the new depth.
Walked(starts, old, known, linked, stopped) ==
  LET L == Layer(starts, known, linked, stopped)
      at == [n \in Depths |-> known \cap L[n]]
  IN [o \in Outputs |->
        LET ns == {n \in Depths : o \in at[n]}
        IN IF ns = {} THEN old[o]
           ELSE LET m == CHOOSE n \in ns : \A k \in ns : n <= k
                IN IF old[o] = None \/ m < old[o] THEN m ELSE old[o]]

\* The outputs _walk visited: those whose depth it improved.
Visited(old, new) == {o \in Outputs : new[o] # old[o]}

\* _walk restores what it visits and holds it again when it is a stop.
AfterWalk(rs, visited, stopped) ==
  [o \in Outputs |->
     IF o \notin visited THEN rs[o]
     ELSE IF o \in stopped THEN HoldFor(Restored(rs[o]), "suspected_service_stop")
          ELSE Restored(rs[o])]

NoDepths == [o \in Outputs |-> None]

ScopeDepth(o, rs, ds) == IF ds[o] # None THEN ds[o] ELSE rs[o].depth

-----------------------------------------------------------------------------
(* The heap, and add()                                                     *)

\* A heap is a bag of entries: a function to how often it holds each.
EmptyQueue == [e \in {} |-> 0]

Push(q, es) ==
  [e \in DOMAIN q \cup es |-> (IF e \in DOMAIN q THEN q[e] ELSE 0) + (IF e \in es THEN 1 ELSE 0)]

\* Mutant: the entry is read and left in the heap.
PoppedNot(q, e) == q
Popped(q, e) == IF q[e] = 1 THEN [x \in DOMAIN q \ {e} |-> q[x]] ELSE [q EXCEPT ![e] = q[e] - 1]

\* Waiting work: pushed with the depth the scope gives it now.
\* Mutant: pushed with the depth recorded as evidence.
ReadyByDepth(rs, ds, os) == {<<rs[o].depth, o>> : o \in os}
Ready(rs, ds, os) == {<<ScopeDepth(o, rs, ds), o>> : o \in os}

\* The record add() leaves before the scope sees the arrival.
Arrived(r, d) ==
  IF r = None THEN [depth |-> d, status |-> "pending", hold |-> None, prev |-> None]
  ELSE IF d < r.depth THEN [r EXCEPT !.depth = d, !.status = "pending"]
  ELSE r

\* add(c, d) under an inactive scope.
AddPlain(c, d) ==
  LET rs == [out EXCEPT ![c] = Arrived(out[c], d)]
  IN /\ out' = rs
     /\ queue' = IF rs[c].status = "pending" THEN Push(queue, {<<d, c>>}) ELSE queue
     /\ UNCHANGED depths

\* The outputs an arrival makes waiting work: those the walk released, and the
\* arrival itself while it is pending.
Candidates(released, rs, c, isNew) ==
  {o \in released \cup (IF isNew \/ rs[c].status = "pending" THEN {c} ELSE {}) :
     ~Held(rs, o) /\ rs[o].status \notin Terminal}

\* add(c, d) under an active scope: the walk from the arrival may release
\* outputs that were held, and every one of them becomes waiting work.
AddScoped(c, d) ==
  \E rs \in {[out EXCEPT ![c] = Arrived(out[c], d)]} :
    LET known == Known(rs)
        stopped == {o \in known : StopAddress(o, stops, data)}
    IN \E ds \in {IF depths[c] # None /\ depths[c] <= d THEN depths
                   ELSE Walked({<<d, c>>}, depths, known, links, stopped)} :
         LET visited == Visited(depths, ds)
             walked == AfterWalk(rs, visited, stopped)
             cand == Candidates(visited \ stopped, walked, c, out[c] = None)
         IN /\ out' = [o \in Outputs |-> IF o \in cand THEN [walked[o] EXCEPT !.status = "pending"]
                                         ELSE walked[o]]
            /\ queue' = Push(queue, Ready(walked, ds, cand))
            /\ depths' = ds

Add(c, d) == IF active THEN AddScoped(c, d) ELSE AddPlain(c, d)

-----------------------------------------------------------------------------
(* Starting a run                                                          *)

\* ServiceScope.__init__ over the outputs a continuation inherits.
ScopedOutputs(rs, ds, stopped) ==
  LET all == [o \in Outputs |-> IF rs[o] = None THEN None ELSE Restored(rs[o])]
      seen == AfterWalk(all, {o \in Known(rs) : ds[o] # None}, stopped)
  IN [o \in Outputs |-> IF rs[o] # None /\ ds[o] = None
                        THEN HoldFor(seen[o], "held_behind_service") ELSE seen[o]]

\* A fresh run: every seed is added at hop 0.
Start(h, rules, limits) ==
  /\ budget' = limits
  /\ pc = "idle" /\ runs < MaxRuns
  /\ out' = [o \in Outputs |-> IF o \in Seeds THEN Arrived(None, 0) ELSE None]
  /\ links' = {} /\ data' = [t \in Txs |-> "absent"]
  /\ stops' = rules /\ active' = (rules # {})
  /\ depths' = [o \in Outputs |-> IF rules # {} /\ o \in Seeds THEN 0 ELSE None]
  /\ queue' = Push(EmptyQueue, {0} \X Seeds)
  /\ hops' = h /\ only' = None
  /\ pc' = "loop" /\ runs' = runs + 1
  /\ current' = None /\ children' = {} /\ count' = 0 /\ fetched' = 0 /\ reason' = None
  /\ gotTx' = [t \in Txs |-> "none"] /\ gotSpend' = [t \in Txs |-> None]
  /\ UNCHANGED <<chain, latest>>

\* A continuation of the latest sealed run.  Its hop ceiling cannot be lower
\* (cli.run_trace); a selection must lie on the saved frontier.
Continue(h, rules, limits, selection) ==
  /\ budget' = limits
  /\ pc = "idle" /\ runs < MaxRuns /\ latest # None
  /\ h >= latest.hops
  /\ LET known == Known(latest.out)
         on == rules # {} \/ \E o \in known : Held(latest.out, o)
         stopped == {o \in known : StopAddress(o, rules, latest.data)}
         ds == IF on THEN Walked({0} \X Seeds, NoDepths, known, latest.links, stopped)
               ELSE NoDepths
         rs == IF on THEN ScopedOutputs(latest.out, ds, stopped) ELSE latest.out
         available == {o \in known : rs[o].status \notin Terminal}
         chosen == {o \in (IF selection = None THEN available ELSE selection) : ~Held(rs, o)}
     IN /\ selection # None => selection \subseteq available
        /\ active' = on /\ depths' = ds
        /\ out' = [o \in Outputs |-> IF o \in chosen THEN [rs[o] EXCEPT !.status = "pending"]
                                     ELSE rs[o]]
        /\ queue' = Push(EmptyQueue, Ready(rs, ds, chosen))
  /\ links' = latest.links /\ data' = latest.data
  /\ stops' = rules /\ hops' = h /\ only' = selection
  /\ pc' = "loop" /\ runs' = runs + 1
  /\ current' = None /\ children' = {} /\ count' = 0 /\ fetched' = 0 /\ reason' = None
  /\ gotTx' = [t \in Txs |-> "none"] /\ gotSpend' = [t \in Txs |-> None]
  /\ UNCHANGED <<chain, latest>>

Begin == \E h \in HopChoices, rules \in StopChoices, limits \in Budgets :
           \/ Start(h, rules, limits)
           \/ \E selection \in OnlyChoices \cup {None} : Continue(h, rules, limits, selection)

-----------------------------------------------------------------------------
(* One output                                                              *)

\* heappop, and the guard that skips entries that went stale in the heap.
Pop ==
  /\ pc = "loop" /\ DOMAIN queue # {}
  /\ ~(budget.outpoints # 0 /\ count >= budget.outpoints)
  /\ \E e \in DOMAIN queue :
       /\ \A f \in DOMAIN queue : e[1] <= f[1]
       /\ queue' = Popped(queue, e)
       /\ LET o == e[2]
          IN IF e[1] # ScopeDepth(o, out, depths) \/ out[o].status # "pending" \/ Held(out, o)
             THEN UNCHANGED <<pc, current, count>>
             ELSE current' = o /\ count' = count + 1 /\ pc' = "fund"
  /\ UNCHANGED <<chain, latest, runs, saveVars, runVars, depths, children, fetched, memoVars, reason>>

\* The response an endpoint gives now, if it was not fetched before.
TxResponse(t) == IF gotTx[t] = "none" THEN chain[t] ELSE gotTx[t]
SpendSeen == [o \in Outputs |-> IF Spender[o] = NoTx THEN "absent" ELSE chain[Spender[o]]]
SpendResponse(t) == IF gotSpend[t] = None THEN SpendSeen ELSE gotSpend[t]

\* get_tx: a saved confirmed transaction is reused, any other is fetched; one
\* the explorer does not have is an error.
TransactionLimit(t) ==
  data[t] = "absent" /\ budget.transactions # 0 /\ fetched >= budget.transactions
GetTx(t) ==
  /\ ~TransactionLimit(t)
  /\ IF data[t] = "confirmed" THEN UNCHANGED <<gotTx, data, fetched>>
     ELSE /\ TxResponse(t) # "absent"
          /\ gotTx' = [gotTx EXCEPT ![t] = TxResponse(t)]
          /\ data' = [data EXCEPT ![t] = TxResponse(t)]
          /\ fetched' = IF data[t] = "absent" THEN fetched + 1 ELSE fetched

Fund ==
  /\ pc = "fund" /\ GetTx(TxOf[current])
  /\ pc' = "classify"
  /\ UNCHANGED <<chain, latest, runs, out, links, runVars, queue, depths, current, children, count,
                 gotSpend, reason>>

\* current["status"] = status; current = None; save().
\* Mutant: the examination goes on after its verdict.
ConcludeOnly(r) == out' = [out EXCEPT ![current] = r] /\ current' = None /\ pc' = "spend"
Conclude(r) ==
  /\ out' = [out EXCEPT ![current] = r]
  /\ current' = None /\ pc' = "loop"

\* scope.mark_stop
Marked(r) == HoldFor(Restored(r), "suspected_service_stop")

Classify ==
  /\ pc = "classify"
  /\ LET o == current
         t == TxOf[o]
         with(status) == [out[o] EXCEPT !.status = status]
     IN IF KindOf[o] # "spendable" THEN Conclude(with(KindOf[o]))
        ELSE IF AddressOf[o] \in stops THEN Conclude(Marked(out[o]))
        ELSE IF ~Unconfirmed /\ data[t] # "confirmed" THEN Conclude(with("unconfirmed_funding"))
        ELSE IF ScopeDepth(o, out, depths) >= hops THEN Conclude(with("hop_limit"))
        ELSE pc' = "spend" /\ UNCHANGED <<out, current>>
  /\ UNCHANGED <<chain, latest, runs, links, data, runVars, queue, depths, children, count, fetched,
                 memoVars, reason>>

ReadSpend ==
  /\ pc = "spend"
  /\ LET t == TxOf[current]
         seen == SpendResponse(t)[current]
         with(status) == [out[current] EXCEPT !.status = status]
     IN /\ gotSpend' = [gotSpend EXCEPT ![t] = SpendResponse(t)]
        /\ IF seen = "absent" THEN Conclude(with("unspent_at_observation"))
           ELSE IF ~Unconfirmed /\ seen # "confirmed" THEN Conclude(with("unconfirmed_spend"))
           ELSE pc' = "child" /\ UNCHANGED <<out, current>>
  /\ UNCHANGED <<chain, latest, runs, links, data, runVars, queue, depths, children, count, fetched,
                 gotTx, reason>>

FetchChild ==
  /\ pc = "child" /\ GetTx(Spender[current])
  /\ pc' = "link"
  /\ UNCHANGED <<chain, latest, runs, out, links, runVars, queue, depths, current, children, count,
                 gotSpend, reason>>

\* state["links"][key] and status "spent", then add() for every output of the
\* spending transaction.  The look-ahead can have fetched it before it confirmed.
Link ==
  /\ pc = "link"
  /\ IF ~Unconfirmed /\ data[Spender[current]] # "confirmed"
     THEN Conclude([out[current] EXCEPT !.status = "unconfirmed_spend"]) /\ UNCHANGED <<links, children>>
     ELSE /\ links' = links \cup {current}
          /\ out' = [out EXCEPT ![current].status = "spent"]
          /\ children' = OutputsOf(Spender[current])
          /\ pc' = "add" /\ UNCHANGED current
  /\ UNCHANGED <<chain, latest, runs, data, runVars, queue, depths, count, fetched, memoVars, reason>>

AddChild ==
  /\ pc = "add" /\ children # {}
  /\ \E c \in children :
       /\ children' = children \ {c}
       /\ Add(c, ScopeDepth(current, out, depths) + 1)
  /\ UNCHANGED <<chain, latest, runs, pc, links, data, runVars, current, count, fetched, memoVars, reason>>

Added ==
  /\ pc = "add" /\ children = {}
  /\ current' = None /\ pc' = "loop"
  /\ UNCHANGED <<chain, latest, runs, saveVars, runVars, queue, depths, children, count, fetched,
                 memoVars, reason>>

-----------------------------------------------------------------------------
(* The rolling look-ahead (prepare_frontier, schedule_window)              *)

\* The selected outputs at the front hop whose endpoints may be fetched early.
Window ==
  {o \in Known(out) : /\ out[o].status = "pending" /\ ~Held(out, o)
                      /\ <<ScopeDepth(o, out, depths), o>> \in DOMAIN queue
                      /\ \A e \in DOMAIN queue : ScopeDepth(o, out, depths) <= e[1]}

\* What is known of a funding transaction: saved, or already responded.
Funding(t) == IF data[t] = "confirmed" THEN data[t] ELSE gotTx[t]

Eligible(o) ==
  /\ ~Held(out, o) /\ ScopeDepth(o, out, depths) < hops
  /\ KindOf[o] = "spendable" /\ AddressOf[o] \notin stops
  /\ Unconfirmed \/ Funding(TxOf[o]) = "confirmed"

FetchFunding ==
  \E o \in Window :
    /\ data[TxOf[o]] # "confirmed" /\ gotTx[TxOf[o]] = "none" /\ chain[TxOf[o]] # "absent"
    /\ gotTx' = [gotTx EXCEPT ![TxOf[o]] = chain[TxOf[o]]] /\ UNCHANGED gotSpend

FetchOutspends ==
  \E o \in Window :
    /\ Funding(TxOf[o]) # "none" /\ Eligible(o) /\ gotSpend[TxOf[o]] = None
    /\ gotSpend' = [gotSpend EXCEPT ![TxOf[o]] = SpendSeen] /\ UNCHANGED gotTx

FetchSpender ==
  \E o \in Window :
    /\ Eligible(o) /\ gotSpend[TxOf[o]] # None
    /\ gotSpend[TxOf[o]][o] # "absent" /\ (Unconfirmed \/ gotSpend[TxOf[o]][o] = "confirmed")
    /\ data[Spender[o]] # "confirmed" /\ gotTx[Spender[o]] = "none"
    /\ gotTx' = [gotTx EXCEPT ![Spender[o]] = chain[Spender[o]]] /\ UNCHANGED gotSpend

Lookahead ==
  /\ pc = "loop"
  /\ FetchFunding \/ FetchOutspends \/ FetchSpender
  /\ UNCHANGED <<chain, latest, runs, pc, saveVars, runVars, loopVars>>

-----------------------------------------------------------------------------
(* The end of a run                                                        *)

\* finally: what was still pending takes the reason the run stopped for.
Finish(why) ==
  /\ out' = [o \in Outputs |-> IF why # None /\ out[o] # None /\ out[o].status = "pending"
                               THEN [out[o] EXCEPT !.status = why] ELSE out[o]]
  /\ reason' = why /\ pc' = "finished" /\ current' = None /\ children' = {}
  /\ UNCHANGED <<chain, latest, runs, links, data, runVars, queue, depths, count, fetched, memoVars>>

BoundedComplete == pc = "loop" /\ DOMAIN queue = {} /\ Finish(None)

OutpointLimit ==
  /\ pc = "loop" /\ DOMAIN queue # {}
  /\ budget.outpoints # 0 /\ count >= budget.outpoints
  /\ Finish("outpoint_limit")

TransactionLimited ==
  \/ pc = "fund" /\ TransactionLimit(TxOf[current]) /\ Finish("transaction_limit")
  \/ pc = "child" /\ TransactionLimit(Spender[current]) /\ Finish("transaction_limit")

\* Mutant: a budget is also checked between the children of one transaction.
CanStopAnywhere(why) ==
  pc \in {"fund", "spend", "child", "add"} \/ (pc = "loop" /\ DOMAIN queue # {})
\* Where a stop can land: a budget at the checks of the loop and of get(), an
\* error in a response or its validation, an interrupt at any call.
CanStopBy(why) ==
  \/ pc \in {"fund", "spend", "child"}
  \/ pc = "loop" /\ DOMAIN queue # {}
  \/ pc \in {"classify", "link"} /\ why \in {"error", "interrupted"}
  \/ pc = "add" /\ why = "interrupted" /\ InterruptInAdd

Stopped == \E why \in Failures : CanStopBy(why) /\ Finish(why)

\* The process is gone, and the memory of the run with it.
Gone ==
  /\ pc' = "idle"
  /\ out' = [o \in Outputs |-> None] /\ links' = {} /\ data' = [t \in Txs |-> "absent"]
  /\ queue' = EmptyQueue /\ depths' = NoDepths /\ active' = FALSE /\ stops' = {}
  /\ hops' = 0 /\ budget' = Unlimited /\ only' = None /\ current' = None /\ children' = {}
  /\ count' = 0 /\ fetched' = 0 /\ reason' = None
  /\ gotTx' = [t \in Txs |-> "none"] /\ gotSpend' = [t \in Txs |-> None]

\* export_run seals the checkpoint and save_latest points at it.
Export ==
  /\ pc = "finished"
  /\ latest' = [out |-> out, links |-> links, data |-> data, hops |-> hops]
  /\ Gone /\ UNCHANGED <<chain, runs>>

\* An abrupt kill: the unsealed run is abandoned.
Kill ==
  /\ pc # "idle"
  /\ Gone /\ UNCHANGED <<chain, latest, runs>>

-----------------------------------------------------------------------------
(* The chain                                                               *)

\* A transaction enters the mempool once its inputs are there, then confirms.
Parents(t) == {TxOf[o] : o \in {x \in Outputs : Spender[x] = t}}
ChainGrows ==
  /\ \E t \in Txs :
       \/ /\ chain[t] = "absent" /\ \A p \in Parents(t) : chain[p] # "absent"
          /\ chain' = [chain EXCEPT ![t] = "mempool"]
       \/ /\ chain[t] = "mempool" /\ \A p \in Parents(t) : chain[p] = "confirmed"
          /\ chain' = [chain EXCEPT ![t] = "confirmed"]
  /\ UNCHANGED <<latest, runs, pc, saveVars, runVars, loopVars, memoVars>>

Init ==
  /\ chain = [t \in Txs |-> IF t \in Confirmed0 THEN "confirmed" ELSE "absent"]
  /\ latest = None /\ runs = 0 /\ pc = "idle"
  /\ out = [o \in Outputs |-> None] /\ links = {} /\ data = [t \in Txs |-> "absent"]
  /\ queue = EmptyQueue /\ depths = NoDepths /\ active = FALSE /\ stops = {}
  /\ hops = 0 /\ budget = Unlimited /\ only = None /\ current = None /\ children = {}
  /\ count = 0 /\ fetched = 0 /\ reason = None
  /\ gotTx = [t \in Txs |-> "none"] /\ gotSpend = [t \in Txs |-> None]

Examine == Pop \/ Fund \/ Classify \/ ReadSpend \/ FetchChild \/ Link \/ AddChild \/ Added
End == BoundedComplete \/ OutpointLimit \/ TransactionLimited
Next == Begin \/ Examine \/ Lookahead \/ End \/ Stopped \/ Export \/ Kill \/ ChainGrows

Spec == Init /\ [][Next]_vars

\* The collector keeps running; nothing is assumed of the chain or of failures.
FairSpec == Spec /\ WF_vars(Examine \/ End)

-----------------------------------------------------------------------------
(* Properties                                                              *)

\* What a sealed run holds.
Saved == [out : [Outputs -> Record \cup {None}], links : SUBSET Outputs,
          data : [Txs -> Seen], hops : Nat]

PCs == {"idle", "loop", "fund", "classify", "spend", "child", "link", "add", "finished"}

\* Every variable has its type; an output is being examined exactly between its
\* pop and its verdict, and it is a known one.
TypeOK ==
  /\ chain \in [Txs -> Seen] /\ pc \in PCs /\ runs \in 0..MaxRuns
  /\ latest \in Saved \cup {None}
  /\ out \in [Outputs -> Record \cup {None}]
  /\ links \subseteq Outputs /\ data \in [Txs -> Seen]
  /\ DOMAIN queue \subseteq Entries /\ \A e \in DOMAIN queue : queue[e] \in Nat \ {0}
  /\ depths \in [Outputs -> Nat \cup {None}]
  /\ active \in BOOLEAN /\ stops \subseteq Addresses /\ hops \in Nat /\ budget \in Limits
  /\ only \in (SUBSET Outputs) \cup {None}
  /\ current \in Outputs \cup {None} /\ children \subseteq Outputs
  /\ count \in Nat /\ fetched \in Nat /\ reason \in Reasons \cup {None}
  /\ gotTx \in [Txs -> Seen \cup {"none"}]
  /\ gotSpend \in [Txs -> [Outputs -> Seen] \cup {None}]
  /\ pc \in {"fund", "classify", "spend", "child", "link", "add"} => current # None

Finished == pc = "finished"
Complete == Finished /\ reason = None

StoppedNow == {o \in Known(out) : StopAddress(o, stops, data)}
\* The walk from scratch: the shortest depth over links that passes no stop.
Distance == Walked({0} \X Seeds, NoDepths, Known(out), links, StoppedNow)

\* What the sealed run left pending, openly or behind a stop, and the selection
\* of this run leaves out.
SetAside ==
  IF only = None THEN {}
  ELSE {o \in Known(latest.out) \ only :
          latest.out[o].status = "pending" \/ latest.out[o].prev = "pending"}

\* A pending output that no stop rule holds is in the heap under the depth the
\* scope gives it now, unless it is the one being examined or the selection left
\* it out: an entry that goes stale is always replaced, so the skip of stale
\* entries forgets no work.
PendingIsQueued ==
  pc \notin {"idle", "finished"} =>
    \A o \in Known(out) :
      out[o].status = "pending" /\ ~Held(out, o) /\ (o # current \/ pc = "add")
      => <<ScopeDepth(o, out, depths), o>> \in DOMAIN queue \/ o \in SetAside

\* Between two outputs, the incrementally maintained scope is the one a walk
\* from the seeds would compute: what is held is exactly what is stopped or
\* reachable only across a stop (ServiceScope's docstring).  The one stop not yet
\* held is a starting output whose own turn has not come: it is followed by no
\* link, and a run that completes without a selection leaves none.
ScopeIsExact ==
  (pc = "loop" \/ Complete) /\ active =>
    /\ depths = Distance
    /\ \A o \in Known(out) :
         /\ Held(out, o) => o \in StoppedNow \/ Distance[o] = None
         /\ Distance[o] = None => Held(out, o)
         /\ o \in StoppedNow => Held(out, o) \/ (o \in Seeds \ links /\ ~(Complete /\ only = None))

\* An output the run has settled: it cannot be followed, or a response fetched in
\* this run said why it is not, or the ceiling cuts it.
Answered(o) ==
  \/ out[o].status \in Terminal
  \/ /\ out[o].status \in {"unspent_at_observation", "unconfirmed_spend"}
     /\ gotSpend[TxOf[o]] # None
  \/ out[o].status = "unconfirmed_funding" /\ gotTx[TxOf[o]] # "none"
  \/ out[o].status = "hop_limit" /\ ScopeDepth(o, out, depths) >= hops

\* A run that ends bounded_complete examined every output it had to: nothing it
\* knows and may follow is left without an answer fetched in this run.
CompleteIsExamined == Complete /\ only = None => \A o \in Known(out) : Held(out, o) \/ Answered(o)

\* Every output of a transaction that spends a followed output is a candidate
\* (trace()'s docstring): a saved run never holds a spent output whose spending
\* transaction has an output the run does not know.
EveryChildIsCandidate ==
  Finished => \A o \in Known(out) : out[o].status = "spent" => OutputsOf(Spender[o]) \subseteq Known(out)

\* A finished checkpoint holds no pending output (collection_recovery._verify
\* refuses one), but for two cases of a run that ends bounded_complete: an output
\* a stop holds, which add() made pending again at a smaller depth, and one that
\* the stop rules of an earlier run held and the selection of this one leaves out.
NonePending ==
  Finished => \A o \in Known(out) :
    out[o].status = "pending" => reason = None /\ (Held(out, o) \/ o \in SetAside)

\* In a finished checkpoint an output is spent exactly when it has a link
\* (collection_recovery._verify refuses any other).
SpentIffLinked == Finished => \A o \in Known(out) : out[o].status = "spent" <=> o \in links

\* A hop ceiling cuts only what the shortest path the current rules allow puts
\* beyond it ("Bounds now use the shortest path allowed by this run's current
\* service rules").
BoundIsShortest ==
  Complete /\ only = None =>
    \A o \in Known(out) : out[o].status = "hop_limit" => Distance[o] # None /\ Distance[o] >= hops

\* No spending information is requested for a transaction none of whose known
\* outputs may be followed: stops and the ceiling bound the requests too, the
\* early ones of the look-ahead included.
RequestsInScope ==
  \A t \in Txs : gotSpend[t] # None =>
    \E o \in OutputsOf(t) \cap Known(out) :
      KindOf[o] = "spendable" /\ AddressOf[o] \notin stops /\ ~Held(out, o)
      /\ ScopeDepth(o, out, depths) < hops

\* No work is forgotten: neither by the heap of a running collection, nor in what
\* a finished one saved, nor by one that calls itself complete.
WorkIsKept ==
  /\ PendingIsQueued
  /\ NonePending
  /\ CompleteIsExamined

\* The rules of the run bound it exactly: what is held, and what is requested.
ScopeHolds == ScopeIsExact /\ RequestsInScope

\* A collection ends: re-queued outputs and shallower arrivals cannot keep the
\* loop busy for ever.
RunEnds == (pc = "loop") ~> (pc \in {"finished", "idle"})
=============================================================================
