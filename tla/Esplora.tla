------------------------------ MODULE Esplora ------------------------------
(***************************************************************************)
(* The explorer client of liquid_tracer/api.py: one future for an endpoint, *)
(* worker threads that authenticate, pass the shared gate, send, archive    *)
(* the answer and decide to retry, a token shared by all of them, and the   *)
(* close that drains them before the evidence store is closed.              *)
(*                                                                         *)
(* An answer is one of: "ok", "denied" (401), "busy" (429), "down" (5xx),   *)
(* "net" (a transient connection error), "refused" (any other answer or     *)
(* error).  "busyStop" and "downStop" carry a delay the run may not wait.   *)
(***************************************************************************)
EXTENDS Naturals, FiniteSets

CONSTANTS
  Endpoints,   \* the endpoints a run asks for
  Workers,     \* the threads of the pool
  Settings,    \* the run's settings: [adaptive: BOOLEAN, limited: BOOLEAN] records,
               \* api_rate_mode = "adaptive" and whether the run has a time limit
  Tries,       \* attempts before retries are exhausted (4)
  RateTries,   \* 429 answers before an adaptive client gives up (16)
  MaxRequests, \* the run's request limit
  Revocations, \* bound on the tokens the server revokes
  QuotaFails,  \* whether the shared pacing may break
  Answers,     \* the answers the server may give
  None

VARIABLES
  setting,    \* the settings of this run
  future,     \* "none", "queued", "running", "ok", "error" or "cancelled"
  job,        \* where the thread of an endpoint is
  lock,       \* the endpoint whose thread holds _token_lock
  token,      \* whether a token is held
  generation, \* _token_generation
  revoked,    \* the last generation the server revoked
  authError,  \* _auth_error is set
  stopReason, \* _stop_reason is set
  pacingError,\* _pacing_error is set
  cooling,    \* the gate is in a cooldown
  late,       \* the run's time is over
  cancelled,  \* _cancelled is set
  client,     \* "open", "closing" or "closed"
  requests,   \* budget.requests
  saved,      \* the endpoints answered "ok" in this run's evidence
  archived,   \* history: the answers recorded
  twice,      \* history: an endpoint was fetched again although it was saved
  lost        \* history: tokens that were lost without being revoked

auth == <<lock, token, generation, revoked, authError>>
gate == <<stopReason, pacingError, cooling>>
run == <<setting, late, cancelled, client>>
vars == <<future, job, auth, gate, run, requests, saved, archived, twice, lost>>

EsploraAssumption ==
  /\ IsFiniteSet(Endpoints) /\ Workers \in Nat \ {0} /\ Settings \subseteq [adaptive : BOOLEAN, limited : BOOLEAN]
  /\ Tries \in Nat \ {0} /\ RateTries \in Nat \ {0}
  /\ MaxRequests \in Nat /\ Revocations \in Nat /\ QuotaFails \in BOOLEAN
  /\ Answers \subseteq {"ok", "denied", "busy", "busyStop", "down", "downStop", "net", "refused"}
  /\ None \notin Endpoints

Fresh == [all |-> 0, rate |-> 0, other |-> 0]
NoJob == [at |-> "idle", call |-> "api", got |-> "none", api |-> Fresh, tok |-> Fresh,
         gen |-> 0, reauth |-> FALSE]
Running == {e \in Endpoints : future[e] = "running"}
TriesOf(e) == IF job[e].call = "api" THEN job[e].api ELSE job[e].tok
Throttled(got) == got \in {"busy", "busyStop"}

-----------------------------------------------------------------------------
(* Futures: get, submit, drain_pending and close                           *)

\* The thread of e ends: its lock is released with it.
End(e, result) ==
  /\ future' = [future EXCEPT ![e] = result]
  /\ job' = [job EXCEPT ![e] = NoJob]
  /\ lock' = IF lock = e THEN None ELSE lock

\* An error below bearer() is kept: no other thread tries to authenticate.
Fail(e) == End(e, "error") /\ authError' = (authError \/ job[e].call = "token")

\* get and submit: an endpoint with a future coalesces and changes nothing.
Submit(e) ==
  /\ client = "open" /\ ~late /\ future[e] = "none"
  /\ future' = [future EXCEPT ![e] = "queued"]
  /\ UNCHANGED <<job, auth, gate, run, requests, saved, archived, twice, lost>>

\* A thread resolves a future: _resolve, and the cache lookup of _get_response.
Start(e) ==
  /\ future[e] = "queued" /\ Cardinality(Running) < Workers
  /\ IF late \/ e \in saved
     THEN future' = [future EXCEPT ![e] = IF late THEN "error" ELSE "ok"] /\ UNCHANGED job
     ELSE /\ future' = [future EXCEPT ![e] = "running"]
          /\ job' = [job EXCEPT ![e].at = "auth", ![e].api.all = 1]
  /\ UNCHANGED <<auth, gate, run, requests, saved, archived, twice, lost>>

\* prefetch with retain_results=False: a finished future is forgotten.
Release(e) ==
  /\ client = "open" /\ future[e] \in {"ok", "error", "cancelled"}
  /\ future' = [future EXCEPT ![e] = "none"]
  /\ UNCHANGED <<job, auth, gate, run, requests, saved, archived, twice, lost>>

DropQueued == [e \in Endpoints |-> IF future[e] = "queued" THEN "cancelled" ELSE future[e]]

\* drain_pending(cancel=True) cancels what has not started.
CancelQueued ==
  /\ client = "open" /\ \E e \in Endpoints : future[e] = "queued"
  /\ future' = DropQueued
  /\ UNCHANGED <<job, auth, gate, run, requests, saved, archived, twice, lost>>

Close ==
  /\ client = "open" /\ client' = "closing" /\ cancelled' = TRUE
  /\ future' = DropQueued
  /\ UNCHANGED <<job, auth, gate, setting, late, requests, saved, archived, twice, lost>>

\* Mutant: close does not drain the requests that started.
ClosedEarly ==
  /\ client = "closing" /\ client' = "closed"
  /\ UNCHANGED <<future, job, auth, gate, setting, late, cancelled, requests, saved, archived, twice, lost>>
\* close has drained the futures and shut the pool down.
Closed ==
  /\ client = "closing" /\ Running = {} /\ client' = "closed"
  /\ UNCHANGED <<future, job, auth, gate, setting, late, cancelled, requests, saved, archived, twice, lost>>

-----------------------------------------------------------------------------
(* bearer and the gate                                                     *)

\* bearer: one thread at a time, and a token that is held is used.
Authenticate(e) ==
  /\ job[e].at = "auth" /\ lock = None
  /\ IF authError THEN End(e, "error") /\ UNCHANGED <<token, generation, revoked, authError>>
     ELSE IF token
     THEN /\ job' = [job EXCEPT ![e].at = "gate", ![e].gen = generation]
          /\ UNCHANGED <<future, auth>>
     ELSE /\ job' = [job EXCEPT ![e].at = "gate", ![e].call = "token", ![e].tok = [Fresh EXCEPT !.all = 1]]
          /\ lock' = e
          /\ UNCHANGED <<future, token, generation, revoked, authError>>
  /\ UNCHANGED <<gate, run, requests, saved, archived, twice, lost>>

Spent == late \/ requests >= MaxRequests
Stopped == Spent \/ cancelled \/ stopReason \/ pacingError

\* Mutant: cancellation does not reach a thread that waits at the gate.
TurnedAwayUnlessCancelled(e) ==
  /\ job[e].at = "gate" /\ (Spent \/ stopReason \/ pacingError \/ (cooling /\ setting.limited))
  /\ Fail(e)
  /\ UNCHANGED <<token, generation, revoked, gate, run, requests, saved, archived, twice, lost>>
\* _reserve_request raises, also out of its wait or before one that would
\* outlast the run's time.
TurnedAway(e) ==
  /\ job[e].at = "gate" /\ (Stopped \/ (cooling /\ setting.limited))
  /\ Fail(e)
  /\ UNCHANGED <<token, generation, revoked, gate, run, requests, saved, archived, twice, lost>>

\* Mutant: the reasons to stop are read before the wait, not after it.
AdmittedUnchecked(e) ==
  /\ job[e].at = "gate" /\ ~Spent /\ ~cooling
  /\ requests' = requests + 1
  /\ job' = [job EXCEPT ![e].at = "sent"]
  /\ UNCHANGED <<future, auth, gate, run, saved, archived, twice, lost>>
\* _reserve_request admits and counts a request, and its start is recorded.
Admitted(e) ==
  /\ job[e].at = "gate" /\ ~Stopped /\ ~cooling
  /\ requests' = requests + 1
  /\ job' = [job EXCEPT ![e].at = "sent"]
  /\ UNCHANGED <<future, auth, gate, run, saved, archived, twice, lost>>

\* The server refuses a token exactly when it revoked it.
Possible(e, got) ==
  IF job[e].call = "token" THEN got # "denied"
  ELSE IF job[e].gen <= revoked THEN got \in {"denied", "net"} ELSE got # "denied"
Answered(e) ==
  /\ job[e].at = "sent"
  /\ \E got \in Answers : Possible(e, got) /\ job' = [job EXCEPT ![e].at = "got", ![e].got = got]
  /\ UNCHANGED <<future, auth, gate, run, requests, saved, archived, twice, lost>>

\* _rate_feedback and the first _cooldown of an answer: shared, given up
\* because the run ends, or refused by a broken quota.
Publish(got) ==
  LET ends == got = "busyStop"
  IN \/ cooling' = TRUE /\ stopReason' = (stopReason \/ ends) /\ UNCHANGED pacingError
     \/ /\ late \/ cancelled
        /\ stopReason' = (stopReason \/ setting.adaptive) /\ UNCHANGED <<cooling, pacingError>>
     \/ QuotaFails /\ pacingError' = TRUE /\ UNCHANGED <<stopReason, cooling>>
Publishes(got) == Throttled(got) \/ (setting.adaptive /\ got \in {"down", "downStop", "net"})

\* _call: the shared gate hears of the answer first, and whatever that raises
\* the answer is recorded.
Archive(e) ==
  LET good == job[e].got = "ok" /\ job[e].call = "api"
  IN /\ job[e].at = "got"
     /\ IF Publishes(job[e].got) THEN Publish(job[e].got) ELSE UNCHANGED gate
     /\ job' = [job EXCEPT ![e].at = "decide"] /\ archived' = archived + 1
     /\ saved' = IF good THEN saved \cup {e} ELSE saved
     /\ twice' = (twice \/ (good /\ e \in saved))
     /\ UNCHANGED <<future, auth, run, requests, lost>>

-----------------------------------------------------------------------------
(* The retry loops of _get_response and _bearer                            *)

\* Mutant: each kind of failure starts the count of the other again.
NotedAlternately(w, got) ==
  IF Throttled(got) THEN [w EXCEPT !.rate = @ + 1, !.other = 0] ELSE [w EXCEPT !.other = @ + 1, !.rate = 0]
\* _RetryWindow.feedback.
Noted(w, got) ==
  IF Throttled(got) THEN [w EXCEPT !.rate = @ + 1] ELSE [w EXCEPT !.other = @ + 1]
Exhausted(w, got) ==
  IF ~setting.adaptive THEN w.all >= Tries
  ELSE IF Throttled(got) THEN w.rate >= RateTries ELSE w.other >= Tries

\* The job with its window w, back at the gate (a token request) or at bearer.
Again(e, w) ==
  LET next == [w EXCEPT !.all = @ + 1]
  IN IF job[e].call = "api"
     THEN [job[e] EXCEPT !.at = "auth", !.api = next, !.got = "none"]
     ELSE [job[e] EXCEPT !.at = "gate", !.tok = next, !.got = "none"]

\* _get_response accepted the answer, or _bearer the token.
Accept(e) ==
  /\ job[e].at = "decide" /\ job[e].got = "ok"
  /\ IF job[e].call = "api"
     THEN End(e, "ok") /\ UNCHANGED <<token, generation>>
     ELSE /\ token' = TRUE /\ generation' = generation + 1 /\ lock' = None
          /\ job' = [job EXCEPT ![e].at = "gate", ![e].call = "api", ![e].got = "none",
                                ![e].tok = Fresh, ![e].gen = generation + 1]
          /\ UNCHANGED future
  /\ UNCHANGED <<revoked, authError, gate, run, requests, saved, archived, twice, lost>>

\* A 401 drops the token it refused, not one acquired since.
RefusesCurrent(e) == job[e].gen = generation

Deny(e) ==
  /\ job[e].at = "decide" /\ job[e].got = "denied"
  /\ IF job[e].reauth
     THEN End(e, "error") /\ UNCHANGED <<token, lost>>
     ELSE /\ lock = None
          /\ token' = (token /\ ~RefusesCurrent(e))
          /\ lost' = IF token /\ ~token' /\ generation > revoked THEN lost + 1 ELSE lost
          /\ IF ~setting.adaptive /\ job[e].api.all >= Tries
             THEN End(e, "error")
             ELSE /\ job' = [job EXCEPT ![e] = [Again(e, job[e].api) EXCEPT !.reauth = TRUE]]
                  /\ UNCHANGED <<future, lock>>
  /\ UNCHANGED <<generation, revoked, authError, gate, run, requests, saved, archived, twice>>

\* A 429, a 5xx or a transient connection error: the second _cooldown of a
\* 429, the end of the retries, and the pause before the next attempt.
Retry(e) ==
  LET got == job[e].got
      w == Noted(TriesOf(e), got)
      stops == got \in {"busyStop", "downStop"}
  IN /\ job[e].at = "decide" /\ got \in {"busy", "busyStop", "down", "downStop", "net"}
     /\ \/ /\ got # "net" /\ pacingError
           /\ Fail(e) /\ UNCHANGED gate
        \/ /\ Throttled(got) /\ ~pacingError
           /\ \/ /\ cooling' = TRUE /\ stopReason' = (stopReason \/ got = "busyStop")
                 /\ UNCHANGED pacingError
                 /\ IF Exhausted(w, got) \/ stops THEN Fail(e)
                    ELSE job' = [job EXCEPT ![e] = Again(e, w)] /\ UNCHANGED <<future, lock, authError>>
              \/ (late \/ cancelled \/ QuotaFails) /\ Fail(e) /\ UNCHANGED gate
        \/ /\ ~Throttled(got) /\ (got = "net" \/ ~pacingError)
           /\ IF Exhausted(w, got) \/ stops THEN Fail(e)
              ELSE /\ job' = [job EXCEPT ![e] = IF job[e].call = "api"
                                THEN [@ EXCEPT !.at = "pause", !.api = w]
                                ELSE [@ EXCEPT !.at = "pause", !.tok = w]]
                   /\ UNCHANGED <<future, lock, authError>>
           /\ UNCHANGED gate
     /\ UNCHANGED <<token, generation, revoked, run, requests, saved, archived, twice, lost>>

Refused(e) ==
  /\ job[e].at = "decide" /\ job[e].got = "refused"
  /\ Fail(e)
  /\ UNCHANGED <<token, generation, revoked, gate, run, requests, saved, archived, twice, lost>>

\* _pause_retry: a limit or a cancellation ends the wait.
Pause(e) ==
  /\ job[e].at = "pause"
  /\ \/ (Spent \/ cancelled \/ setting.limited) /\ Fail(e)
     \/ /\ ~Spent /\ ~cancelled
        /\ job' = [job EXCEPT ![e] = Again(e, TriesOf(e))] /\ UNCHANGED <<future, lock, authError>>
  /\ UNCHANGED <<token, generation, revoked, gate, run, requests, saved, archived, twice, lost>>

-----------------------------------------------------------------------------
(* Time, other clients and the server                                      *)

\* The cooldown of this and of other clients ends.
CoolEnds ==
  /\ cooling /\ cooling' = FALSE
  /\ UNCHANGED <<future, job, auth, stopReason, pacingError, run, requests, saved, archived, twice, lost>>
TimeUp ==
  /\ setting.limited /\ ~late /\ late' = TRUE
  /\ UNCHANGED <<future, job, auth, gate, setting, cancelled, client, requests, saved, archived, twice, lost>>
Revoke ==
  /\ token /\ revoked < generation /\ generation <= Revocations
  /\ revoked' = generation
  /\ UNCHANGED <<future, job, lock, token, generation, authError, gate, run, requests, saved, archived, twice, lost>>

Init ==
  /\ setting \in Settings
  /\ future = [e \in Endpoints |-> "none"] /\ job = [e \in Endpoints |-> NoJob]
  /\ lock = None /\ token = FALSE /\ generation = 0 /\ revoked = 0 /\ authError = FALSE
  /\ stopReason = FALSE /\ pacingError = FALSE /\ cooling = FALSE
  /\ late = FALSE /\ cancelled = FALSE /\ client = "open" /\ requests = 0
  /\ saved = {} /\ archived = 0 /\ twice = FALSE /\ lost = 0

Step(e) ==
  \/ Authenticate(e) \/ TurnedAway(e) \/ Answered(e) \/ Archive(e)
  \/ Accept(e) \/ Deny(e) \/ Retry(e) \/ Refused(e) \/ Pause(e)
Next ==
  \/ \E e \in Endpoints : Submit(e) \/ Start(e) \/ Release(e) \/ Step(e) \/ Admitted(e)
  \/ CancelQueued \/ Close \/ Closed \/ CoolEnds \/ TimeUp \/ Revoke

Spec == Init /\ [][Next]_vars

\* Threads run and requests are answered or time out.  That the shared pacing
\* ever admits a request is not assumed: other clients may keep it closed.
Going == (\E e \in Endpoints : Step(e) \/ Start(e)) \/ Closed
Fairness == WF_vars(Going)
FairSpec == Spec /\ Fairness

-----------------------------------------------------------------------------
(* Properties                                                              *)

\* An endpoint gets a bounded number of requests, however its failures and its
\* one re-authentication are mixed.
AttemptsBounded ==
  \A e \in Endpoints :
    IF setting.adaptive THEN job[e].api.all <= Tries + RateTries ELSE job[e].api.all <= Tries

\* Every variable has its type, attempts are bounded, and the token lock is held
\* by a thread that asks for a token.
TypeOK ==
  /\ future \in [Endpoints -> {"none", "queued", "running", "ok", "error", "cancelled"}]
  /\ \A e \in Endpoints : (job[e].at = "idle") <=> (future[e] # "running")
  /\ lock \in Endpoints \cup {None}
  /\ \A e \in Endpoints : (lock = e) <=> (job[e].call = "token")
  /\ generation \in Nat /\ revoked \in 0..generation
  /\ requests \in 0..MaxRequests
  /\ client \in {"open", "closing", "closed"}
  /\ AttemptsBounded

\* After a close no thread runs: none can write to the evidence store its
\* owner closes next.
ClosedIsQuiet == client = "closed" => Running = {}

\* Every answer is recorded, also when it stops the run or its pacing cannot be
\* shared: what was sent is recorded or still with its thread.
EveryAnswerArchived ==
  requests = archived + Cardinality({e \in Endpoints : job[e].at \in {"sent", "got"}})

\* Once the server asked the run to stop, or the shared pacing broke, no thread
\* sends another request, also none that was already waiting at the gate.
NoStartAfterStop == [][requests' > requests => ~stopReason /\ ~pacingError]_vars

\* Threads that are refused with the same token do not each acquire a new one:
\* no token that still works is dropped.
NoGoodTokenDropped == lost = 0

\* An endpoint whose answer is in this run's evidence is not asked for again.
FetchedOnce == ~twice

\* Nothing the explorer gave is lost: no answer, no result, no token.
NothingLost == EveryAnswerArchived /\ FetchedOnce /\ NoGoodTokenDropped

\* A close ends although other clients keep the gate closed for good.
CloseEnds == []<>(client # "closing")
=============================================================================
