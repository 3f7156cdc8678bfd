---------------------------- MODULE MiroRequests ----------------------------
(***************************************************************************)
(* MiroRequests.map of liquid_tracer/miro_requests.py running the creation  *)
(* jobs of miro._create_items: a coordinator journals an intent per job,    *)
(* worker threads pace and send the POST, and the coordinator commits what  *)
(* their results prove.                                                     *)
(*                                                                         *)
(* Miro itself is the environment: it executes a POST or refuses it, and    *)
(* the answer may be lost.  Time is its effects: a rate-limit window that   *)
(* resets and a cooldown that ends.                                         *)
(***************************************************************************)
EXTENDS Naturals, FiniteSets, FiniteSetsExt

CONSTANTS
  Jobs,          \* the creation jobs of one map call
  Workers,       \* requests in flight at most (4 in the code)
  MaxTries,      \* sends of a job that Miro rate-limits (4 in the code)
  Budget,        \* the credits Miro grants per window; a job costs one
  MaxInterrupts, \* bound on the interruptions of the coordinator
  None

Statuses == {"ok", "rejected", "limited", "failed"}
Replies == [status : Statuses, left : 0..Budget \cup {None}, live : BOOLEAN]

MiroRequestsAssumption ==
  /\ IsFiniteSet(Jobs) /\ None \notin Jobs /\ None \notin Nat /\ None \notin Replies
  /\ Workers \in Nat \ {0} /\ MaxTries \in Nat \ {0} /\ Budget \in Nat /\ MaxInterrupts \in Nat

VARIABLES
  coord,      \* the coordinator: "idle" (map not called), "loop", "final" (the finally clause) or "ended"
  todo,       \* jobs the iterator has left
  drawn,      \* the job taken from the iterator and not yet submitted, or None
  pending,    \* jobs with a registered future
  stray,      \* jobs the executor queued although submit raised
  firstError, \* first_error is set
  interrupts, \* interruptions so far
  faltered,   \* history: a commit, a reading or a submission was cut short
  work,       \* where a job's worker is
  tries,      \* its sends
  reply,      \* the answer on its way: [status, left, live]
  outcome,    \* its future's result
  cancel,     \* the _cancel event
  blocked,    \* _blocked_error is set
  cooldown,   \* _cooldown_until is ahead
  known,      \* _remaining, or None
  knownLive,  \* _quota_reset is ahead
  flying,     \* _inflight_credits
  left,       \* Miro: the credits of this window
  late,       \* Miro: requests it may still receive after their connection was lost
  landed,     \* Miro: how often a job's POST was executed
  unseen,     \* history: credits of this window whose charge no reply told
  intents,    \* journal: pending_creations
  mapped      \* journal: items

coordinator == <<coord, todo, drawn, pending, stray, firstError, interrupts, faltered>>
pacing == <<blocked, cooldown, known, knownLive, flying>>
miro == <<left, late, landed, unseen>>
journal == <<intents, mapped>>
vars == <<coordinator, work, tries, reply, outcome, cancel, pacing, miro, journal>>

Outcomes == {"ok", "rejected", "limited", "failed", "lost", "notsent", "cancelled"}

-----------------------------------------------------------------------------
(* A worker thread: _create_items' worker, send, _start and _observe       *)

Begin(j) ==
  /\ work[j] = "queued" /\ work' = [work EXCEPT ![j] = "pacing"]
  /\ UNCHANGED <<coordinator, tries, reply, outcome, cancel, pacing, miro, journal>>

\* The future's result: nothing is left of the request.
Finish(j, result) ==
  /\ work' = [work EXCEPT ![j] = "done"] /\ outcome' = [outcome EXCEPT ![j] = result]

\* Mutant: a blocked thread waits for its turn.
RefusedCancelled(j) ==
  /\ work[j] = "pacing" /\ cancel
  /\ Finish(j, "notsent")
  /\ UNCHANGED <<coordinator, tries, reply, cancel, pacing, miro, journal>>
\* _start while it waits: the batch failed, or no request can start any more.
Refused(j) ==
  /\ work[j] = "pacing" /\ (cancel \/ blocked)
  /\ Finish(j, "notsent")
  /\ UNCHANGED <<coordinator, tries, reply, cancel, pacing, miro, journal>>

\* A budget of a window that is over counts for nothing.
Affordable == known # None /\ knownLive => known >= 1

Reserve(j) ==
  /\ work[j] = "pacing" /\ ~cancel /\ ~blocked /\ ~cooldown /\ Affordable
  /\ work' = [work EXCEPT ![j] = "ready"]
  /\ known' = IF known = None \/ ~knownLive THEN None ELSE known - 1
  /\ flying' = flying + 1
  /\ UNCHANGED <<coordinator, tries, reply, outcome, cancel, blocked, cooldown, knownLive, miro, journal>>

\* Mutant: a reserved request is sent whatever happened meanwhile.
SendReserved(j) ==
  /\ work[j] = "ready"
  /\ work' = [work EXCEPT ![j] = "sending"] /\ tries' = [tries EXCEPT ![j] = @ + 1]
  /\ UNCHANGED <<outcome, flying, coordinator, reply, cancel, blocked, cooldown, known, knownLive, miro, journal>>
\* Mutant: a reserved request that is not sent keeps its credit.
SendLeaking(j) ==
  /\ work[j] = "ready"
  /\ \/ cancel /\ Finish(j, "notsent") /\ UNCHANGED <<flying, tries>>
     \/ /\ ~cancel /\ work' = [work EXCEPT ![j] = "sending"]
        /\ tries' = [tries EXCEPT ![j] = @ + 1] /\ UNCHANGED <<outcome, flying>>
  /\ UNCHANGED <<coordinator, reply, cancel, blocked, cooldown, known, knownLive, miro, journal>>
Send(j) ==
  /\ work[j] = "ready"
  /\ \/ /\ cancel /\ Finish(j, "notsent") /\ flying' = flying - 1 /\ UNCHANGED tries
     \/ /\ ~cancel /\ work' = [work EXCEPT ![j] = "sending"]
        /\ tries' = [tries EXCEPT ![j] = @ + 1] /\ UNCHANGED <<outcome, flying>>
  /\ UNCHANGED <<coordinator, reply, cancel, blocked, cooldown, known, knownLive, miro, journal>>

\* Replies arrive out of order: the budget never grows within a window, and
\* what is in flight may not be accounted for.  The reply's own credit is not
\* in flight any more.
BudgetAfter(r) ==
  LET others == flying - 1
      budget == IF r.left > others THEN r.left - others ELSE 0
  IN IF known = None \/ ~knownLive THEN budget ELSE Min({known, budget})

Observe(r) ==
  /\ flying' = flying - 1
  /\ IF r.left # None /\ r.live
     THEN known' = BudgetAfter(r) /\ knownLive' = TRUE
     ELSE UNCHANGED <<known, knownLive>>

\* A charge that no reply tells.
Untold(r) == IF r.live /\ r.status # "limited" THEN 1 ELSE 0

\* Only a known rejection is retried.
Retries(j) == reply[j].status = "limited" /\ tries[j] < MaxTries

\* The answer arrives.  A rate limit without a usable delay, or a quota cache
\* that cannot be written, blocks every later request.
Receive(j) ==
  /\ work[j] = "served"
  /\ Observe(reply[j])
  /\ \E nodelay, nocache \in BOOLEAN :
       /\ nodelay => reply[j].status = "limited"
       /\ blocked' = (blocked \/ nodelay \/ nocache)
       /\ cooldown' = (cooldown \/ (reply[j].status = "limited" /\ ~nodelay))
       /\ \/ /\ ~nodelay /\ Retries(j)
             /\ work' = [work EXCEPT ![j] = "pacing"] /\ UNCHANGED outcome
          \/ /\ nodelay \/ ~Retries(j)
             /\ Finish(j, reply[j].status)
  /\ reply' = [reply EXCEPT ![j] = None]
  /\ unseen' = IF reply[j].left = None THEN unseen + Untold(reply[j]) ELSE unseen
  /\ UNCHANGED <<coordinator, tries, cancel, left, late, landed, journal>>

\* The transport raises.  Miro has executed the request, or may do so later.
Lose(j) ==
  /\ work[j] \in {"sending", "served"}
  /\ Finish(j, "lost") /\ flying' = flying - 1
  /\ reply' = [reply EXCEPT ![j] = None]
  /\ IF work[j] = "sending"
     THEN /\ late' \in {late, late \cup {j}} /\ UNCHANGED unseen
     ELSE /\ unseen' = unseen + Untold(reply[j]) /\ UNCHANGED late
  /\ UNCHANGED <<coordinator, tries, cancel, blocked, cooldown, known, knownLive, left, landed, journal>>

-----------------------------------------------------------------------------
(* Miro, and time                                                          *)

\* A request is executed or refused.  An error status says nothing about
\* whether it was executed.
Serve(j) ==
  /\ work[j] = "sending"
  /\ work' = [work EXCEPT ![j] = "served"]
  /\ \E status \in Statuses, told \in BOOLEAN :
       /\ status # "limited" => left > 0
       /\ left' = IF status = "limited" THEN left ELSE left - 1
       /\ reply' = [reply EXCEPT ![j] = [status |-> status, left |-> IF told THEN left' ELSE None, live |-> TRUE]]
       /\ \/ status \in {"ok", "failed"} /\ landed' = [landed EXCEPT ![j] = @ + 1]
          \/ status # "ok" /\ UNCHANGED landed
  /\ UNCHANGED <<coordinator, tries, outcome, cancel, pacing, late, unseen, journal>>

ServeLate(j) ==
  /\ j \in late /\ left > 0
  /\ late' = late \ {j} /\ landed' = [landed EXCEPT ![j] = @ + 1]
  /\ left' = left - 1 /\ unseen' = unseen + 1
  /\ UNCHANGED <<coordinator, work, tries, reply, outcome, cancel, pacing, journal>>

\* The rate-limit window resets, for Miro and for the clock of _start.
WindowReset ==
  /\ left < Budget \/ knownLive
  /\ left' = Budget /\ unseen' = 0 /\ knownLive' = FALSE
  /\ reply' = [j \in Jobs |-> IF reply[j] = None THEN None ELSE [reply[j] EXCEPT !.live = FALSE]]
  /\ UNCHANGED <<coordinator, work, tries, outcome, cancel, blocked, cooldown, known, flying, late, landed, journal>>

CooldownEnds ==
  /\ cooldown /\ cooldown' = FALSE
  /\ UNCHANGED <<coordinator, work, tries, reply, outcome, cancel, blocked, known, knownLive, flying, miro, journal>>

-----------------------------------------------------------------------------
(* The coordinator                                                         *)

\* fail(error) while the futures of jobs remain: those still queued are
\* cancelled, the threads are told to stop.
Fail(jobs) ==
  LET queued == {j \in jobs : work[j] = "queued"}
  IN /\ firstError' = TRUE /\ cancel' = TRUE
     /\ work' = [j \in Jobs |-> IF j \in queued THEN "done" ELSE work[j]]
     /\ outcome' = [j \in Jobs |-> IF j \in queued THEN "cancelled" ELSE outcome[j]]

\* map is called.
Call ==
  /\ coord = "idle" /\ coord' = "loop"
  /\ UNCHANGED <<todo, drawn, pending, stray, firstError, interrupts, faltered, work, tries, reply,
                 outcome, cancel, pacing, miro, journal>>

\* Every completed future was handled before another job is taken.
MayDraw ==
  /\ todo # {} /\ ~firstError /\ Cardinality(pending) < Workers
  /\ \A j \in pending : work[j] # "done"

\* next(iterator): journal_job commits the intent before it yields the job.
Draw(j) ==
  /\ coord = "loop" /\ drawn = None /\ MayDraw /\ j \in todo
  /\ todo' = todo \ {j}
  /\ \/ /\ drawn' = j /\ intents' = intents \cup {j}
        /\ UNCHANGED <<firstError, faltered, work, outcome, cancel>>
     \/ /\ Fail(pending) /\ faltered' = TRUE /\ UNCHANGED <<drawn, intents>>
  /\ UNCHANGED <<coord, pending, stray, interrupts, tries, reply, pacing, miro, mapped>>

\* executor.submit: it registers the future; or it refuses, which proves that
\* nothing was queued; or it raises after queuing the job.
Dispatch ==
  /\ drawn # None /\ drawn' = None
  /\ \/ /\ work' = [work EXCEPT ![drawn] = "queued"] /\ pending' = pending \cup {drawn}
        /\ UNCHANGED <<stray, firstError, faltered, outcome, cancel, intents>>
     \/ /\ Fail(pending) /\ intents' = intents \ {drawn}
        /\ UNCHANGED <<pending, stray, faltered>>
     \/ /\ firstError' = TRUE /\ cancel' = TRUE /\ faltered' = TRUE
        /\ work' = [j \in Jobs |-> IF j = drawn THEN "queued"
                                   ELSE IF j \in pending /\ work[j] = "queued" THEN "done" ELSE work[j]]
        /\ outcome' = [j \in Jobs |-> IF j \in pending /\ work[j] = "queued" THEN "cancelled" ELSE outcome[j]]
        /\ stray' = stray \cup {drawn} /\ UNCHANGED <<pending, intents>>
  /\ UNCHANGED <<coord, todo, interrupts, tries, reply, pacing, miro, mapped>>

\* Mutant: every failed job is taken for one never sent.
ProvenAll == Outcomes \ {"ok"}
\* Results that prove that the POST was not executed: reject's NotSent, and
\* accept's 4xx.
Proven == {"cancelled", "notsent", "rejected", "limited"}

\* accept_done: what the result proves is committed, or raised before it is.
AcceptDone(j) ==
  /\ coord # "ended" /\ drawn = None /\ j \in pending /\ work[j] = "done"
  /\ pending' = pending \ {j}
  /\ \E committed, raised \in BOOLEAN :
       /\ ~committed \/ outcome[j] \notin {"ok", "cancelled"} => raised
       /\ intents' = IF committed /\ outcome[j] \in Proven \cup {"ok"} THEN intents \ {j} ELSE intents
       /\ mapped' = IF committed /\ outcome[j] = "ok" THEN mapped \cup {j} ELSE mapped
       /\ faltered' = (faltered \/ ~committed)
       /\ IF raised THEN Fail(pending') ELSE UNCHANGED <<firstError, work, outcome, cancel>>
  /\ UNCHANGED <<coord, todo, drawn, stray, interrupts, tries, reply, pacing, miro>>

\* An interruption: in the body of the loop, where it counts as an error, or in
\* the handler of another, which leaves the loop for its finally clause.
Interrupt ==
  /\ coord \in {"loop", "final"} /\ interrupts < MaxInterrupts /\ interrupts' = interrupts + 1
  /\ drawn' = None /\ faltered' = (faltered \/ drawn # None)
  /\ \/ Fail(pending) /\ UNCHANGED coord
     \/ coord = "loop" /\ coord' = "final" /\ UNCHANGED <<firstError, work, outcome, cancel>>
  /\ UNCHANGED <<todo, pending, stray, tries, reply, pacing, miro, journal>>

MayEnd == pending = {} /\ (coord = "final" \/ todo = {} \/ firstError)

End ==
  /\ coord # "ended" /\ drawn = None /\ MayEnd
  /\ coord' = "ended" /\ cancel' = FALSE
  /\ UNCHANGED <<todo, drawn, pending, stray, firstError, interrupts, faltered, work, tries, reply,
                 outcome, pacing, miro, journal>>

-----------------------------------------------------------------------------
Init ==
  /\ coord = "idle" /\ todo = Jobs /\ drawn = None /\ pending = {} /\ stray = {}
  /\ firstError = FALSE /\ interrupts = 0 /\ faltered = FALSE
  /\ work = [j \in Jobs |-> "none"] /\ tries = [j \in Jobs |-> 0]
  /\ reply = [j \in Jobs |-> None] /\ outcome = [j \in Jobs |-> "none"]
  /\ cancel = FALSE /\ blocked = FALSE /\ cooldown = FALSE
  /\ known = None /\ knownLive = FALSE /\ flying = 0
  /\ left = Budget /\ late = {} /\ landed = [j \in Jobs |-> 0] /\ unseen = 0
  /\ intents = {} /\ mapped = {}

Worker(j) == Begin(j) \/ Refused(j) \/ Reserve(j) \/ Send(j) \/ Receive(j) \/ Lose(j)

Next ==
  \/ \E j \in Jobs : Worker(j) \/ Serve(j) \/ ServeLate(j) \/ Draw(j) \/ AcceptDone(j)
  \/ WindowReset \/ CooldownEnds \/ Call \/ Dispatch \/ Interrupt \/ End

Spec == Init /\ [][Next]_vars

\* Some thread that can go on does, Miro answers or the transport times out, and
\* time passes.
Goes ==
  \/ \E j \in Jobs : Worker(j) \/ Serve(j) \/ Draw(j) \/ AcceptDone(j)
  \/ WindowReset \/ CooldownEnds \/ Dispatch \/ End
Fairness == WF_vars(Goes)

-----------------------------------------------------------------------------
(* Properties                                                              *)

InFlight == {j \in Jobs : work[j] \in {"ready", "sending", "served"}}

\* Every variable has its type, at most Workers futures exist and the credits in
\* flight are those of the requests in flight.
TypeOK ==
  /\ coord \in {"idle", "loop", "final", "ended"} /\ drawn \in Jobs \cup {None}
  /\ todo \subseteq Jobs /\ pending \subseteq Jobs /\ stray \subseteq Jobs
  /\ Cardinality(pending) <= Workers
  /\ work \in [Jobs -> {"none", "queued", "pacing", "ready", "sending", "served", "done"}]
  /\ outcome \in [Jobs -> Outcomes \cup {"none"}] /\ tries \in [Jobs -> 0..MaxTries]
  /\ reply \in [Jobs -> Replies \cup {None}] /\ left \in 0..Budget
  /\ known \in 0..Budget \cup {None} /\ flying = Cardinality(InFlight)
  /\ intents \subseteq Jobs /\ mapped \subseteq Jobs

\* A POST that Miro executed, or may still execute, is mapped or has an intent:
\* no object of the board is ever forgotten, whatever failed meanwhile.
LandedIsKnown == \A j \in Jobs : landed[j] > 0 \/ j \in late => j \in mapped \cup intents

\* No object is created twice.
PostedOnce == \A j \in Jobs : landed[j] <= 1

\* Unless a commit or a submission was cut short, an intent outlives the call
\* only if nobody can know whether its POST was executed.
NoFalseUncertainty ==
  coord = "ended" /\ ~faltered => \A j \in intents : outcome[j] \in {"lost", "failed"}

\* When map returns or raises no thread works for it: what was sent has been
\* acknowledged.  (A job queued by a submit that raised is not registered.)
AllDrained == coord = "ended" => \A j \in Jobs \ stray : work[j] \in {"none", "done"}

\* The journal tells what the board may hold: every POST that was executed is
\* known, once; what is left uncertain really is; and nothing is still under way.
JournalHonest ==
  /\ LandedIsKnown
  /\ PostedOnce
  /\ NoFalseUncertainty
  /\ AllDrained

\* After the first error nothing more reaches the transport.
QuietAfterError ==
  [][firstError /\ coord # "ended" => \A j \in Jobs : work'[j] = "sending" => work[j] = "sending"]_vars

\* The known budget never promises credits that Miro does not have: what it
\* holds and what is still to be charged fit the window, but for the charges
\* whose reply was lost.
BudgetHonest ==
  known # None /\ knownLive /\ known > 0
    => known + Cardinality({j \in Jobs : work[j] \in {"ready", "sending"}}) <= left + unseen
=============================================================================
