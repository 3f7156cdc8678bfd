----------------------------- MODULE Frontier -----------------------------
(***************************************************************************)
(* FrontierFetcher of liquid_tracer/trace_fetch.py: one coordinating thread *)
(* keeps requests moving while consumers, which it calls itself, add the    *)
(* requests that depend on their results.  The requests complete by         *)
(* themselves, in any order, between its steps.                             *)
(***************************************************************************)
EXTENDS Naturals, FiniteSets, Sequences, SequencesExt

CONSTANTS
  Endpoints,  \* the endpoints of a frontier
  Roots,      \* those the traversal itself adds
  Deps,       \* [Endpoints -> SUBSET Endpoints]: what a consumer adds
  Demanded,   \* those the traversal waits for with get
  MaxTarget,  \* the largest concurrency target
  None

VARIABLES
  ready,     \* endpoints to submit, in order
  callbacks, \* an endpoint's consumers (the endpoints that added it, or None)
  waiting,   \* the keys of callbacks
  results,   \* "none", "ok", "error" or "stop"
  pending,   \* endpoints with a future the fetcher waits for
  future,    \* "none", "running", "ok", "error" or "stop"
  target,    \* the concurrency target of this pump
  stopError, \* stop_error is set
  calls,     \* consumers whose endpoint has its result: <<endpoint, consumer>>
  at,        \* "caller", "pump" or "aborted"
  demand,    \* the endpoint get waits for
  asked,     \* history: every consumer ever added
  called,    \* history: every consumer called
  again      \* history: a consumer was called or an endpoint submitted twice

work == <<ready, callbacks, waiting, results, pending, future>>
vars == <<work, target, stopError, calls, at, demand, asked, called, again>>

FrontierAssumption ==
  /\ IsFiniteSet(Endpoints) /\ None \notin Endpoints
  /\ Roots \subseteq Endpoints /\ Demanded \subseteq Endpoints
  /\ Deps \in [Endpoints -> SUBSET Endpoints]
  /\ MaxTarget \in Nat \ {0}

-----------------------------------------------------------------------------
(* add                                                                     *)

IsNew(e) == e \notin waiting

\* Adding the endpoints es while the calls left are to be made: the consumer
\* of an endpoint with a result is called at once.
Add(es, consumer, left) ==
  LET known == {e \in es : results[e] # "none"}
      new == {e \in es \ known : IsNew(e)}
  IN /\ calls' = left \cup {<<e, consumer>> : e \in known}
     /\ waiting' = waiting \cup new
     /\ \E order \in SetToSeqs(new) : ready' = ready \o order
     /\ callbacks' = [e \in Endpoints |->
                        IF e \in es \ known THEN callbacks[e] \cup {consumer} ELSE callbacks[e]]
     /\ asked' = asked \cup {<<e, consumer>> : e \in es}

AddRoot(e) ==
  /\ at = "caller" /\ demand = None /\ calls = {} /\ <<e, None>> \notin asked
  /\ Add({e}, None, {})
  /\ UNCHANGED <<results, pending, future, target, stopError, at, demand, called, again>>

\* A consumer is called; with a good result it adds what depends on it.
Call(e, consumer) ==
  /\ at # "aborted" /\ <<e, consumer>> \in calls
  /\ called' = called \cup {<<e, consumer>>} /\ again' = (again \/ <<e, consumer>> \in called)
  /\ Add({d \in Deps[e] : results[e] = "ok" /\ <<d, e>> \notin asked}, e, calls \ {<<e, consumer>>})
  /\ UNCHANGED <<results, pending, future, target, stopError, at, demand>>

\* A consumer that raises, or an interruption of pump, closes the client.
Abort ==
  /\ at # "aborted" /\ (at = "pump" \/ calls # {})
  /\ at' = "aborted" /\ calls' = {}
  /\ UNCHANGED <<work, target, stopError, demand, asked, called, again>>

-----------------------------------------------------------------------------
(* pump and get                                                            *)

\* Mutant: a stop counts only if no other request of the group succeeded.
StopsAlone(es) == stopError \/ \E e \in es : future[e] = "stop" /\ \A d \in es : future[d] = "stop"
\* Every error of the group is inspected before a consumer can add work.
Stops(es) == stopError \/ \E e \in es : future[e] = "stop"

\* Mutant: the consumers of a result stay registered while they are called.
HarvestKeeping ==
  LET done == {e \in pending : future[e] # "running"}
  IN /\ at = "caller" /\ calls = {} /\ at' = "pump"
     /\ \E n \in 1..MaxTarget : target' = n
     /\ pending' = pending \ done
     /\ results' = [e \in Endpoints |-> IF e \in done THEN future[e] ELSE results[e]]
     /\ stopError' = Stops(done)
     /\ calls' = {<<e, c>> : e \in done, c \in Endpoints \cup {None}} \cap asked
     /\ UNCHANGED <<ready, callbacks, waiting, future, demand, asked, called, again>>
\* The requests that completed give their results; their consumers are popped.
Harvest ==
  LET done == {e \in pending : future[e] # "running"}
  IN /\ at = "caller" /\ calls = {} /\ at' = "pump"
     /\ \E n \in 1..MaxTarget : target' = n
     /\ pending' = pending \ done
     /\ results' = [e \in Endpoints |-> IF e \in done THEN future[e] ELSE results[e]]
     /\ stopError' = Stops(done)
     /\ calls' = UNION {{<<e, c>> : c \in callbacks[e]} : e \in done}
     /\ waiting' = waiting \ done
     /\ callbacks' = [e \in Endpoints |-> IF e \in done THEN {} ELSE callbacks[e]]
     /\ UNCHANGED <<ready, future, demand, asked, called, again>>

\* Mutant: the requests in flight are not counted.
MaySubmitMore == ~stopError /\ ready # <<>>
MaySubmit == ~stopError /\ ready # <<>> /\ Cardinality(pending) < target

\* _submit, one endpoint: the client may refuse it, which is its result.
Submit ==
  LET e == Head(ready)
  IN /\ at = "pump" /\ calls = {} /\ MaySubmit
     /\ ready' = Tail(ready)
     /\ \/ /\ future' = [future EXCEPT ![e] = "running"] /\ pending' = pending \cup {e}
           /\ again' = (again \/ future[e] # "none")
           /\ UNCHANGED <<callbacks, waiting, results, stopError, calls>>
        \/ \E refusal \in {"error", "stop"} :
             /\ results' = [results EXCEPT ![e] = refusal]
             /\ stopError' = (refusal = "stop")
             /\ calls' = {<<e, c>> : c \in callbacks[e]}
             /\ callbacks' = [callbacks EXCEPT ![e] = {}] /\ waiting' = waiting \ {e}
             /\ UNCHANGED <<future, pending, again>>
     /\ UNCHANGED <<target, at, demand, asked, called>>

PumpEnd ==
  /\ at = "pump" /\ calls = {} /\ ~MaySubmit /\ at' = "caller"
  /\ UNCHANGED <<work, target, stopError, calls, demand, asked, called, again>>

\* What get waits for is submitted next.
Foremost(e, queue) ==
  IF \E i \in DOMAIN queue : queue[i] = e
  THEN <<e>> \o RemoveAt(queue, CHOOSE i \in DOMAIN queue : queue[i] = e)
  ELSE queue

\* get: e is added without a consumer and its wait begins.
Get(e) ==
  /\ at = "caller" /\ calls = {} /\ demand = None /\ results[e] = "none"
  /\ demand' = e /\ waiting' = waiting \cup {e}
  /\ ready' = Foremost(e, IF IsNew(e) THEN Append(ready, e) ELSE ready)
  /\ UNCHANGED <<callbacks, results, pending, future, target, stopError, calls, at, asked, called, again>>

\* Mutant: get waits for its result even after a stop.
GotResult ==
  /\ at = "caller" /\ calls = {} /\ demand # None /\ results[demand] # "none" /\ demand' = None
  /\ UNCHANGED <<work, target, stopError, calls, at, asked, called, again>>
\* get returns its result or raises the error that stopped the submissions.
Got ==
  /\ at = "caller" /\ calls = {} /\ demand # None
  /\ results[demand] # "none" \/ stopError
  /\ demand' = None
  /\ UNCHANGED <<work, target, stopError, calls, at, asked, called, again>>

\* A request completes, in a thread of the client.
Complete(e) ==
  /\ future[e] = "running"
  /\ \E outcome \in {"ok", "error", "stop"} : future' = [future EXCEPT ![e] = outcome]
  /\ UNCHANGED <<ready, callbacks, waiting, results, pending, target, stopError, calls, at, demand,
                 asked, called, again>>

Init ==
  /\ ready = <<>> /\ callbacks = [e \in Endpoints |-> {}] /\ waiting = {}
  /\ results = [e \in Endpoints |-> "none"] /\ pending = {}
  /\ future = [e \in Endpoints |-> "none"]
  /\ target = 1 /\ stopError = FALSE /\ calls = {} /\ at = "caller" /\ demand = None
  /\ asked = {} /\ called = {} /\ again = FALSE

Next ==
  \/ \E e \in Roots : AddRoot(e)
  \/ \E e \in Endpoints : \E c \in Endpoints \cup {None} : Call(e, c)
  \/ \E e \in Demanded : Get(e)
  \/ \E e \in Endpoints : Complete(e)
  \/ Harvest \/ Submit \/ PumpEnd \/ Got \/ Abort

Spec == Init /\ [][Next]_vars

\* A thread that is in get pumps until it returns, and requests complete.
Pumping ==
  \/ demand # None /\ Harvest
  \/ Submit \/ PumpEnd
  \/ \E e \in Endpoints, c \in Endpoints \cup {None} : Call(e, c)
Completing == \E e \in Endpoints : Complete(e)
Fairness == WF_vars(Pumping) /\ WF_vars(Completing) /\ SF_vars(Got)

-----------------------------------------------------------------------------
(* Properties                                                              *)

\* Every variable has its type and the requests in flight keep to the limit.
TypeOK ==
  /\ ready \in Seq(Endpoints) /\ waiting \subseteq Endpoints
  /\ callbacks \in [Endpoints -> SUBSET (Endpoints \cup {None})]
  /\ results \in [Endpoints -> {"none", "ok", "error", "stop"}]
  /\ pending \subseteq Endpoints /\ Cardinality(pending) <= MaxTarget
  /\ demand \in Endpoints \cup {None} /\ at \in {"caller", "pump", "aborted"}

\* An endpoint that was added and has no result is queued exactly once or in
\* flight: no request and no consumer is dropped on the way.
NothingForgotten ==
  \A e \in Endpoints :
    LET queued == Cardinality({i \in DOMAIN ready : ready[i] = e})
        flying == IF e \in pending THEN 1 ELSE 0
    IN queued + flying = IF e \in waiting THEN 1 ELSE 0

\* Every consumer of a result is called, whether it was added before or after
\* the result arrived.
EveryConsumerCalled ==
  at # "aborted" => \A add \in asked : results[add[1]] # "none" => add \in calls \cup called

\* No consumer runs twice, whatever raises, and no endpoint is submitted twice.
NothingTwice == ~again

\* After one request of a group asked the run to stop nothing is submitted, even
\* by the consumers of the others.
NoSubmitAfterStop ==
  [][pending' \subseteq pending \/ \A e \in Endpoints : results[e] # "stop"]_vars

\* A demanded endpoint does not wait behind speculative work.
DemandFirst ==
  [][(demand # None /\ ~(pending' \subseteq pending) /\ \E i \in DOMAIN ready : ready[i] = demand)
       => demand \in pending']_vars

\* get returns or raises, unless the fetcher was aborted.
GetEnds == []<>(demand = None \/ at = "aborted")
=============================================================================
