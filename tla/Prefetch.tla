----------------------------- MODULE Prefetch -----------------------------
(***************************************************************************)
(* Esplora.prefetch of liquid_tracer/api.py: a list of endpoints, a rolling *)
(* number of jobs, a consumer called once for each result on the calling    *)
(* thread, and the ways it ends: all done, a hard limit, a consumer that    *)
(* wants no more, an interruption, a consumer that raises.                  *)
(***************************************************************************)
EXTENDS Naturals, FiniteSets

CONSTANTS
  Endpoints,  \* the unique endpoints of the call
  MaxTarget   \* worker_ceiling

VARIABLES
  remaining, \* the endpoints not submitted yet
  pending,   \* those with a job
  job,       \* "none", "running", "ok", "error", "stop" or "cancelled"
  held,      \* the endpoints whose future the client holds
  results,   \* "none", "ok", "error", "stop" or "never" (prefetch stopped)
  batch,     \* the completed jobs whose results are being delivered
  delivered, \* the endpoints whose consumer was called
  stop,      \* a hard limit, or a consumer that wants no more, was seen
  target,    \* the concurrency of this refill
  at,        \* "idle" (not called), "submit", "wait", "deliver", "closing", "returned" or "raised"
  keyboard,  \* the call was interrupted from the keyboard
  failed,    \* a consumer raised
  calls,     \* history: how often a consumer was called with a result
  retain     \* retain_results

vars == <<remaining, pending, job, held, results, batch, delivered, stop, target, at,
          keyboard, failed, calls, retain>>

PrefetchAssumption == IsFiniteSet(Endpoints) /\ MaxTarget \in Nat \ {0}

Done == {e \in pending : job[e] # "running"}

\* submit(): jobs are started up to the target.  A limit found there is a
\* result like one found by a job.
SubmitOne ==
  /\ at = "submit" /\ Cardinality(pending) < target
  /\ \E e \in remaining :
       /\ remaining' = remaining \ {e} /\ pending' = pending \cup {e}
       /\ \/ /\ job' = [job EXCEPT ![e] = "running"] /\ held' = held \cup {e}
             /\ UNCHANGED at
          \/ job' = [job EXCEPT ![e] = "stop"] /\ at' = "wait" /\ UNCHANGED held
  /\ UNCHANGED <<results, batch, delivered, stop, target, keyboard, failed, calls, retain>>

SubmitEnd ==
  /\ at = "submit" /\ (remaining = {} \/ Cardinality(pending) >= target)
  /\ at' = "wait"
  /\ UNCHANGED <<remaining, pending, job, held, results, batch, delivered, stop, target, keyboard,
                 failed, calls, retain>>

HardLimit(es) == \E e \in es : job[e] = "stop"

\* wait(): every completed job gives its result before any consumer is called.
Collect ==
  /\ at = "wait" /\ Done # {} /\ at' = "deliver"
  /\ \A e \in Done : job[e] # "cancelled"
  /\ batch' = Done
  /\ results' = [e \in Endpoints |-> IF e \in Done THEN job[e] ELSE results[e]]
  /\ stop' = (stop \/ HardLimit(Done))
  /\ UNCHANGED <<remaining, pending, job, held, delivered, target, keyboard, failed, calls, retain>>

\* Forget the completed future of es, and their results unless they are kept.
Forget(es) ==
  IF retain THEN held' = held ELSE held' = held \ es

\* deliver and release: the endpoint is marked first.  Its consumer accepts the
\* result, wants no more, or raises (it may be interrupted from the keyboard).
Deliver(e) ==
  /\ at = "deliver" /\ e \in batch /\ e \notin delivered
  /\ calls' = [calls EXCEPT ![e] = @ + 1]
  /\ delivered' = delivered \cup {e}
  /\ \/ /\ batch' = batch \ {e} /\ pending' = pending \ {e} /\ Forget({e})
        /\ stop' = TRUE \/ UNCHANGED stop
        /\ UNCHANGED <<at, keyboard, failed>>
     \/ /\ at' = "closing" /\ keyboard' \in BOOLEAN /\ failed' = TRUE
        /\ UNCHANGED <<batch, pending, held, stop>>
  /\ UNCHANGED <<remaining, job, results, target, retain>>

\* The group is delivered: refill, unless something stopped the call.
Refill ==
  /\ at = "deliver" /\ batch = {}
  /\ IF stop THEN at' = "wait" /\ UNCHANGED target
     ELSE at' = "submit" /\ \E n \in 1..MaxTarget : target' = n
  /\ UNCHANGED <<remaining, pending, job, held, results, batch, delivered, stop, keyboard, failed, calls, retain>>

\* Nothing is pending: what never started is answered with the reason.
Return ==
  /\ at = "wait" /\ pending = {} /\ at' = "returned"
  /\ results' = IF retain THEN [e \in Endpoints |-> IF e \in remaining THEN "never" ELSE results[e]]
                ELSE results
  /\ UNCHANGED <<remaining, pending, job, held, batch, delivered, stop, target, keyboard, failed, calls, retain>>

\* A future somebody else cancelled raises when its result is read.
CancelledFuture ==
  /\ at = "wait" /\ \E e \in Done : job[e] = "cancelled"
  /\ at' = "closing"
  /\ UNCHANGED <<remaining, pending, job, held, results, batch, delivered, stop, target, keyboard, failed, calls, retain>>

\* An interruption from the keyboard outside a consumer, or a submission to a
\* client that was closed.
Interrupted ==
  /\ at \in {"submit", "wait", "deliver"}
  /\ \/ keyboard' = TRUE
     \/ at = "submit" /\ remaining # {} /\ UNCHANGED keyboard
  /\ at' = "closing"
  /\ UNCHANGED <<remaining, pending, job, held, results, batch, delivered, stop, target, failed, calls, retain>>

\* close() has drained the jobs.  After an interruption the results that
\* arrived meanwhile are delivered, up to a consumer that raises again.
Raise ==
  /\ at = "closing" /\ \A e \in pending : job[e] # "running"
  /\ at' = "raised"
  /\ LET due == {e \in pending : job[e] \in {"ok"} /\ e \notin delivered}
     IN IF keyboard
        THEN \E es \in SUBSET due :
               /\ delivered' = delivered \cup es
               /\ results' = [e \in Endpoints |-> IF e \in es THEN job[e] ELSE results[e]]
               /\ calls' = [e \in Endpoints |-> IF e \in es THEN calls[e] + 1 ELSE calls[e]]
               /\ failed' = (failed \/ es # due)
        ELSE UNCHANGED <<delivered, results, calls, failed>>
  /\ Forget(pending)
  /\ UNCHANGED <<remaining, pending, job, batch, stop, target, keyboard, retain>>

\* A job completes, or close or another caller cancels it.
Complete(e) ==
  /\ job[e] = "running"
  /\ \E outcome \in {"ok", "error", "stop", "cancelled"} : job' = [job EXCEPT ![e] = outcome]
  /\ UNCHANGED <<remaining, pending, held, results, batch, delivered, stop, target, at, keyboard,
                 failed, calls, retain>>

Init ==
  /\ remaining = Endpoints /\ pending = {} /\ job = [e \in Endpoints |-> "none"]
  /\ held = {} /\ results = [e \in Endpoints |-> "none"] /\ batch = {} /\ delivered = {}
  /\ stop = FALSE /\ target = 1 /\ at = "idle" /\ keyboard = FALSE
  /\ failed = FALSE /\ calls = [e \in Endpoints |-> 0] /\ retain = TRUE

\* prefetch is called.
Begin ==
  /\ at = "idle" /\ at' = "submit" /\ target' \in 1..MaxTarget /\ retain' \in BOOLEAN
  /\ UNCHANGED <<remaining, pending, job, held, results, batch, delivered, stop, keyboard, failed, calls>>

Proceed ==
  \/ SubmitOne \/ SubmitEnd \/ Collect \/ Refill \/ Return \/ CancelledFuture \/ Raise
  \/ \E e \in Endpoints : Deliver(e)

Next == Begin \/ Proceed \/ Interrupted \/ \E e \in Endpoints : Complete(e)

Spec == Init /\ [][Next]_vars

\* The calling thread goes on and jobs complete; nobody has to interrupt it.
Completing == \E e \in Endpoints : Complete(e)
Fairness == WF_vars(Proceed) /\ WF_vars(Completing)

-----------------------------------------------------------------------------
(* Properties                                                              *)

\* Every variable has its type, and the jobs keep to the concurrency limit.
TypeOK ==
  /\ remaining \subseteq Endpoints /\ pending \subseteq Endpoints /\ remaining \cap pending = {}
  /\ job \in [Endpoints -> {"none", "running", "ok", "error", "stop", "cancelled"}]
  /\ results \in [Endpoints -> {"none", "ok", "error", "stop", "never"}]
  /\ batch \subseteq pending /\ Cardinality(pending) <= MaxTarget
  /\ calls \in [Endpoints -> Nat]

\* No consumer gets a result twice: not when it raised while it was writing it,
\* and not when the call is interrupted while it delivers a group.
ConsumedOnce == \A e \in Endpoints : calls[e] <= 1

\* A call that returns has an answer for every endpoint, and its consumer saw
\* every result of a job.
AnsweredCompletely ==
  at = "returned" =>
    \A e \in Endpoints : /\ retain => results[e] # "none"
                         /\ results[e] \in {"ok", "error", "stop"} => calls[e] = 1

\* After a hard limit, or a consumer that wants no more, no job is started.
NoJobAfterStop == [][remaining' = remaining \/ ~stop]_vars

\* Results that arrived are consumed when the call is interrupted from the
\* keyboard, unless a consumer raised.
InterruptionKeepsResults ==
  at = "raised" /\ keyboard /\ ~failed =>
    \A e \in Endpoints : job[e] = "ok" => calls[e] = 1

\* A call that does not retain results leaves no future of its jobs behind,
\* however it ends.
NothingHeld == ~retain /\ at \in {"returned", "raised"} => held = {}

\* A call ends.
PrefetchEnds == []<>(at \in {"idle", "returned", "raised"})
=============================================================================
