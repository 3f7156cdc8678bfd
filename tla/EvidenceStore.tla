---------------------------- MODULE EvidenceStore ----------------------------
(***************************************************************************)
(* The group-commit protocol of liquid_tracer/store.py.  Callers of Store  *)
(* append a write job to one FIFO; whichever caller finds no leader claims *)
(* a cohort, executes it in one SQLite transaction, publishes the verdicts *)
(* and gives leadership up.  There is no background writer.  Any step of   *)
(* an interruptible caller may be cut by KeyboardInterrupt, ordinary       *)
(* exceptions may escape a claim, a transaction may fail with an uncertain *)
(* outcome, close() may race everything, and the process may die.          *)
(*                                                                         *)
(* One action is one critical section of _pending_condition, one hold of   *)
(* the connection lock, or one exception landing between them.  Exceptions *)
(* that land inside the handlers of _submit and close are left out.        *)
(***************************************************************************)
EXTENDS Integers, Sequences, Functions

CONSTANTS
  Threads,        \* callers of the Store: the main thread and fetch workers
  Interruptible,  \* threads Python delivers KeyboardInterrupt to (main)
  Jobs,           \* write jobs, one per call of _submit
  NoThread, NoJob,
  BatchSize,      \* EVIDENCE_BATCH_SIZE
  Capacity,       \* EVIDENCE_QUEUE_CAPACITY
  MaxFaults,      \* bound: exceptions injected into callers, and deaths, together
  MaxCloses,      \* bound: calls of close()
  MaxCrashes      \* bound: deaths of the process

ASSUME StoreAssumption ==
  /\ Interruptible \subseteq Threads
  /\ NoThread \notin Threads
  /\ NoJob \notin Jobs
  /\ BatchSize \in Nat \ {0}
  /\ Capacity \in Nat \ {0}
  /\ MaxFaults \in Nat /\ MaxCloses \in Nat /\ MaxCrashes \in Nat

VARIABLES
  \* guarded by _pending_condition
  pending,        \* _pending: accepted jobs no leader has claimed
  active,         \* _active_batch
  started,        \* _batch_started: SQL of the active batch may have run
  writerActive, owner,
  closing, closed,
  sleeping,       \* threads inside _pending_condition.wait()
  \* guarded by _lock
  dbLock, dbOpen,
  txn,            \* jobs inserted by the open transaction
  durable,        \* jobs whose rows are committed, in id order
  \* the jobs
  accepted,       \* history: jobs in the order _pending received them
  done, err,      \* _WriteJob.done, _WriteJob.error
  told,           \* what the caller of _submit has been told
  \* the callers' stacks
  pc, mine, batch,
  raised,         \* exception being handled: `failure' or `error'
  intr,           \* `interrupted is not None'
  \* bounds
  faults, closes, crashes

queueVars == <<pending, active, started, writerActive, owner, closing, closed, sleeping>>
dbVars    == <<dbLock, dbOpen, txn, durable>>
jobVars   == <<accepted, done, err, told>>
callVars  == <<pc, mine, batch, raised, intr>>
bounds    == <<faults, closes, crashes>>
vars      == <<queueVars, dbVars, jobVars, callVars, bounds>>

Verdicts == {"unsent", "pending", "stored", "rejected", "failed",
             "interrupted", "refused", "lost"}
Labels   == {"idle", "enter", "recheck", "settle", "begin", "lock", "execute",
             "commit", "publish", "recover", "rollback", "recovered", "forget",
             "close", "closeDb", "markClosed"}

(* The sequences left of s when some elements are dropped, and the ones    *)
(* left when exactly the elements of K are (one, if s has no duplicates).  *)
Subsequences(s) ==
  {r \in UNION {[1..n -> Range(s)] : n \in 0..Len(s)} :
     \E f \in [DOMAIN r -> DOMAIN s] :
       /\ \A i, k \in DOMAIN r : i < k => f[i] < f[k]
       /\ \A i \in DOMAIN r : r[i] = s[f[i]]}
Without(s, K) == {r \in Subsequences(s) : Range(r) = Range(s) \ K}

In(j, s) == \E i \in DOMAIN s : s[i] = j
Depth == Len(pending) + IF started THEN 0 ELSE Len(active)
Goto(t, label) == pc' = [pc EXCEPT ![t] = label]
Loop(t) == IF mine[t] = NoJob THEN "close" ELSE "settle"
NotifyAll == sleeping' = {}
Tell(t, verdict) == told' = [told EXCEPT ![mine[t]] = verdict]

Init ==
  /\ pending = <<>> /\ active = <<>> /\ started = FALSE
  /\ writerActive = FALSE /\ owner = NoThread
  /\ closing = FALSE /\ closed = FALSE /\ sleeping = {}
  /\ dbLock = NoThread /\ dbOpen = TRUE /\ txn = <<>> /\ durable = <<>>
  /\ accepted = <<>> /\ done = {}
  /\ err = [j \in Jobs |-> "none"] /\ told = [j \in Jobs |-> "unsent"]
  /\ pc = [t \in Threads |-> "idle"] /\ mine = [t \in Threads |-> NoJob]
  /\ batch = [t \in Threads |-> <<>>]
  /\ raised = [t \in Threads |-> "none"] /\ intr = [t \in Threads |-> FALSE]
  /\ faults = 0 /\ closes = 0 /\ crashes = 0

(* An exception of the given kind is delivered to t: "cancel" is Keyboard- *)
(* Interrupt or SystemExit, "error" any other.                             *)
Raise(t, kind) ==
  /\ faults + crashes < MaxFaults
  /\ kind = "cancel" => t \in Interruptible
  /\ faults' = faults + 1
  /\ UNCHANGED <<closes, crashes>>

-----------------------------------------------------------------------------
(* Accepting a job: _submit up to the end of its first critical section.   *)

Submit(t, j) ==
  /\ pc[t] = "idle" /\ told[j] = "unsent"
  /\ told' = [told EXCEPT ![j] = "pending"]
  /\ mine' = [mine EXCEPT ![t] = j]
  /\ intr' = [intr EXCEPT ![t] = FALSE]
  /\ Goto(t, "enter")
  /\ UNCHANGED <<queueVars, dbVars, accepted, done, err, batch, raised, bounds>>

WaitForCapacity(t) ==
  /\ pc[t] = "enter" /\ t \notin sleeping
  /\ Depth >= Capacity /\ ~closing
  /\ sleeping' = sleeping \cup {t}
  /\ UNCHANGED <<pending, active, started, writerActive, owner, closing, closed,
                 dbVars, jobVars, callVars, bounds>>

RefuseClosing(t) ==
  /\ pc[t] = "enter" /\ t \notin sleeping
  /\ closing
  /\ Tell(t, "refused") /\ Goto(t, "idle")
  /\ UNCHANGED <<queueVars, dbVars, accepted, done, err, mine, batch, raised, intr, bounds>>

Append1(t) ==
  /\ pc[t] = "enter" /\ t \notin sleeping
  /\ Depth < Capacity /\ ~closing
  /\ pending' = Append(pending, mine[t])
  /\ accepted' = Append(accepted, mine[t])

Accept(t) ==
  /\ Append1(t) /\ NotifyAll /\ Goto(t, "settle")
  /\ UNCHANGED <<active, started, writerActive, owner, closing, closed, dbVars,
                 done, err, told, mine, batch, raised, intr, bounds>>

(* Interrupted while entering or waiting for room, or between the append   *)
(* and the notification: the handler re-reads whether the job is out.      *)
InterruptEnter(t) ==
  /\ pc[t] = "enter" /\ Raise(t, "cancel")
  /\ sleeping' = sleeping \ {t} /\ Goto(t, "recheck")
  /\ UNCHANGED <<pending, active, started, writerActive, owner, closing, closed,
                 dbVars, jobVars, mine, batch, raised, intr>>

InterruptAccept(t) ==
  /\ Append1(t) /\ Raise(t, "cancel") /\ Goto(t, "recheck")
  /\ UNCHANGED <<active, started, writerActive, owner, closing, closed, sleeping,
                 dbVars, done, err, told, mine, batch, raised, intr>>

Accepted(t) == mine[t] \in done \/ In(mine[t], pending) \/ In(mine[t], active)

RecheckAccepted(t) ==
  /\ pc[t] = "recheck" /\ Accepted(t)
  /\ NotifyAll /\ intr' = [intr EXCEPT ![t] = TRUE] /\ Goto(t, "settle")
  /\ UNCHANGED <<pending, active, started, writerActive, owner, closing, closed,
                 dbVars, jobVars, mine, batch, raised, bounds>>

RecheckAbsent(t) ==
  /\ pc[t] = "recheck" /\ ~Accepted(t)
  /\ Tell(t, "interrupted") /\ Goto(t, "idle")
  /\ UNCHANGED <<queueVars, dbVars, accepted, done, err, mine, batch, raised, intr, bounds>>

-----------------------------------------------------------------------------
(* The loops of _submit and close: claim a cohort, wait, or return.        *)

(* Mutant: job.error is not consulted.                                     *)
VerdictWithoutError(t) == IF intr[t] THEN "interrupted" ELSE "stored"
Verdict(t) ==
  IF err[mine[t]] # "none" THEN err[mine[t]]
  ELSE IF intr[t] THEN "interrupted" ELSE "stored"

Return(t) ==
  /\ pc[t] = "settle" /\ t \notin sleeping
  /\ mine[t] \in done
  /\ Tell(t, Verdict(t)) /\ Goto(t, "idle")
  /\ UNCHANGED <<queueVars, dbVars, accepted, done, err, mine, batch, raised, intr, bounds>>

(* A caller at the head of its loop that still has something to wait for.  *)
Looping(t) ==
  /\ t \notin sleeping
  /\ \/ pc[t] = "settle" /\ mine[t] \notin done /\ UNCHANGED closing
     \/ pc[t] = "close" /\ ~closed /\ closing' = TRUE

Cohort == SubSeq(pending, 1, IF Len(pending) < BatchSize THEN Len(pending) ELSE BatchSize)
Remaining == SubSeq(pending, Len(Cohort) + 1, Len(pending))

(* The assignments of _claim_batch.                                        *)
TakeCohort(t) ==
  /\ Looping(t) /\ ~writerActive /\ pending # <<>>
  /\ active' = Cohort /\ started' = FALSE
  /\ owner' = t /\ writerActive' = TRUE
  /\ pending' = Remaining

ClaimBatch(t) ==
  /\ TakeCohort(t) /\ NotifyAll
  /\ batch' = [batch EXCEPT ![t] = Cohort] /\ Goto(t, "begin")
  /\ UNCHANGED <<closed, dbVars, jobVars, mine, raised, intr, bounds>>

(* Waiting behind a leader, or behind one that left nothing to claim.  A   *)
(* closer announces itself first, which wakes everyone else.               *)
WaitForLeader(t) ==
  /\ Looping(t) /\ (writerActive \/ (pc[t] = "settle" /\ pending = <<>>))
  /\ sleeping' = IF pc[t] = "close" THEN {t} ELSE sleeping \cup {t}
  /\ UNCHANGED <<pending, active, started, writerActive, owner, closed,
                 dbVars, jobVars, callVars, bounds>>

(* An exception in the loop that changed nothing (it may end a wait).      *)
InterruptLoop(t, kind) ==
  /\ pc[t] \in {"settle", "close"} /\ Raise(t, kind)
  /\ sleeping' = sleeping \ {t}
  /\ raised' = [raised EXCEPT ![t] = kind] /\ Goto(t, "recover")
  /\ UNCHANGED <<pending, active, started, writerActive, owner, closing, closed,
                 dbVars, jobVars, mine, batch, intr>>

(* _claim_batch cut before it took ownership (the batch is already on the  *)
(* Store; nothing but an interrupt can come there) or after it, with or    *)
(* without its notification.                                               *)
InterruptClaim(t, kind) ==
  /\ Raise(t, kind)
  /\ \/ /\ kind = "cancel" /\ Looping(t) /\ ~writerActive /\ pending # <<>>
        /\ active' = Cohort /\ started' = FALSE
        /\ UNCHANGED <<owner, writerActive, pending, sleeping>>
     \/ TakeCohort(t) /\ sleeping' \in {sleeping, {}}
  /\ raised' = [raised EXCEPT ![t] = kind] /\ Goto(t, "recover")
  /\ UNCHANGED <<closed, dbVars, jobVars, mine, batch, intr>>

-----------------------------------------------------------------------------
(* _commit_batch.                                                          *)

Begin(t) ==
  /\ pc[t] = "begin"
  /\ started' = TRUE /\ NotifyAll /\ Goto(t, "lock")
  /\ UNCHANGED <<pending, active, writerActive, owner, closing, closed, dbVars,
                 jobVars, mine, batch, raised, intr, bounds>>

Lock(t) ==
  /\ pc[t] = "lock" /\ dbLock = NoThread
  /\ dbLock' = t /\ Goto(t, "execute")
  /\ UNCHANGED <<queueVars, dbOpen, txn, durable, jobVars, mine, batch, raised, intr, bounds>>

(* Interrupted before any SQL: the whole cohort fails, it is not requeued. *)
InterruptBeforeSql(t) ==
  /\ pc[t] \in {"begin", "lock"} /\ Raise(t, "cancel")
  /\ raised' = [raised EXCEPT ![t] = "cancel"] /\ Goto(t, "publish")
  /\ UNCHANGED <<queueVars, dbVars, jobVars, mine, batch, intr>>

(* BEGIN and one savepoint per job: a malformed job is rejected alone.     *)
Inserted(t, bad) == Without(batch[t], bad)

Execute(t) ==
  /\ pc[t] = "execute" /\ dbOpen
  /\ \E bad \in SUBSET Range(batch[t]) :
       /\ err' = [j \in Jobs |-> IF j \in bad THEN "rejected" ELSE err[j]]
       /\ txn' \in Inserted(t, bad)
  /\ Goto(t, "commit")
  /\ UNCHANGED <<queueVars, dbLock, dbOpen, durable, accepted, done, told,
                 mine, batch, raised, intr, bounds>>

(* Journal selection, BEGIN, an insert or a savepoint failed, or the       *)
(* leader was interrupted there: nothing of the transaction survives.      *)
ExecuteFails(t) ==
  /\ pc[t] = "execute"
  /\ dbLock' = NoThread /\ raised' = [raised EXCEPT ![t] = "error"]
  /\ Goto(t, "publish")
  /\ UNCHANGED <<queueVars, dbOpen, txn, durable, jobVars, mine, batch, intr, bounds>>

Commit(t) ==
  /\ pc[t] = "commit"
  /\ durable' = durable \o txn /\ txn' = <<>> /\ dbLock' = NoThread
  /\ Goto(t, "publish")
  /\ UNCHANGED <<queueVars, dbOpen, jobVars, mine, batch, raised, intr, bounds>>

(* COMMIT raised: it may or may not have reached the disk.                 *)
CommitUncertain(t) ==
  /\ pc[t] = "commit"
  /\ durable' \in {durable, durable \o txn} /\ txn' = <<>> /\ dbLock' = NoThread
  /\ raised' = [raised EXCEPT ![t] = "error"] /\ Goto(t, "publish")
  /\ UNCHANGED <<queueVars, dbOpen, jobVars, mine, batch, intr, bounds>>

(* The assignments of _release_leader.                                     *)
ReleaseLeader ==
  /\ writerActive' = FALSE /\ owner' = NoThread /\ active' = <<>> /\ started' = FALSE

(* The verdicts of the first k jobs of t's batch are published.            *)
(* Mutant: a failed transaction is not recorded in its jobs.               *)
SettleWithoutFailure(t, k) == done' = done \cup {batch[t][i] : i \in 1..k} /\ UNCHANGED err
Settle(t, k) ==
  LET some == {batch[t][i] : i \in 1..k}
  IN  /\ done' = done \cup some
      /\ err' = [j \in Jobs |-> IF j \in some /\ raised[t] # "none" THEN "failed" ELSE err[j]]

Publish(t) ==
  /\ pc[t] = "publish"
  /\ Settle(t, Len(batch[t])) /\ ReleaseLeader /\ NotifyAll
  /\ batch' = [batch EXCEPT ![t] = <<>>]
  /\ raised' = [raised EXCEPT ![t] = "none"] /\ Goto(t, Loop(t))
  /\ UNCHANGED <<pending, closing, closed, dbVars, accepted, told, mine, intr, bounds>>

(* Publication cut after k verdicts, or after leadership was dropped but   *)
(* before its notification.                                                *)
InterruptPublish(t) ==
  /\ pc[t] = "publish" /\ Raise(t, "cancel")
  /\ \/ /\ \E k \in 0..Len(batch[t]) : Settle(t, k)
        /\ UNCHANGED <<writerActive, owner, active, started>>
     \/ Settle(t, Len(batch[t])) /\ ReleaseLeader
  /\ batch' = [batch EXCEPT ![t] = <<>>]
  /\ raised' = [raised EXCEPT ![t] = "cancel"] /\ Goto(t, "recover")
  /\ UNCHANGED <<pending, closing, closed, sleeping, dbVars, accepted, told, mine, intr>>

-----------------------------------------------------------------------------
(* _recover_leader and what its callers do next.                           *)

(* A cancellation is remembered and the loop resumes; an ordinary error    *)
(* makes close() raise and _submit withdraw its own job.                   *)
AfterRecovery(t) ==
  /\ intr' = [intr EXCEPT ![t] = @ \/ raised[t] = "cancel"]
  /\ Goto(t, IF raised[t] = "cancel" THEN Loop(t)
             ELSE IF mine[t] = NoJob THEN "idle" ELSE "forget")
  /\ raised' = [raised EXCEPT ![t] = "none"]

Remainders == Without(pending, Range(active))

(* Mutant: a caller that no longer leads wakes nobody.                     *)
RecoverFollowerSilently(t) ==
  /\ pc[t] = "recover" /\ owner # t
  /\ AfterRecovery(t)
  /\ UNCHANGED <<queueVars, dbVars, jobVars, mine, batch, bounds>>

RecoverFollower(t) ==
  /\ pc[t] = "recover" /\ owner # t
  /\ NotifyAll /\ AfterRecovery(t)
  /\ UNCHANGED <<pending, active, started, writerActive, owner, closing, closed,
                 dbVars, jobVars, mine, batch, bounds>>

(* Mutant: the interrupted cohort goes behind later jobs.                  *)
RequeuedBehind == {rest \o active : rest \in Remainders}
Requeued == {active \o rest : rest \in Remainders}

(* Mutant: the caller's job is requeued instead of its cohort.             *)
RequeueOwnJob(t) ==
  /\ pc[t] = "recover" /\ owner = t /\ ~started /\ raised[t] = "cancel"
  /\ pending' \in {<<mine[t]>> \o rest : rest \in Remainders}
  /\ ReleaseLeader /\ NotifyAll /\ AfterRecovery(t)
  /\ UNCHANGED <<closing, closed, dbVars, jobVars, mine, batch, bounds>>

RequeueCohort(t) ==
  /\ pc[t] = "recover" /\ owner = t /\ ~started /\ raised[t] = "cancel"
  /\ pending' \in Requeued
  /\ ReleaseLeader /\ NotifyAll /\ AfterRecovery(t)
  /\ UNCHANGED <<closing, closed, dbVars, jobVars, mine, batch, bounds>>

FailCohort(t) ==
  /\ pc[t] = "recover" /\ owner = t /\ ~started /\ raised[t] = "error"
  /\ pending' \in Remainders
  /\ done' = done \cup Range(active)
  /\ err' = [j \in Jobs |-> IF In(j, active) THEN "failed" ELSE err[j]]
  /\ ReleaseLeader /\ NotifyAll /\ AfterRecovery(t)
  /\ UNCHANGED <<closing, closed, dbVars, accepted, told, mine, batch, bounds>>

RecoverStarted(t) ==
  /\ pc[t] = "recover" /\ owner = t /\ started
  /\ batch' = [batch EXCEPT ![t] = active] /\ Goto(t, "rollback")
  /\ UNCHANGED <<queueVars, dbVars, jobVars, mine, raised, intr, bounds>>

Rollback(t) ==
  /\ pc[t] = "rollback" /\ dbLock = NoThread
  /\ txn' = <<>> /\ Goto(t, "recovered")
  /\ UNCHANGED <<queueVars, dbLock, dbOpen, durable, jobVars, mine, batch, raised, intr, bounds>>

Unsettled(t) == Range(batch[t]) \ done

Recovered(t) ==
  /\ pc[t] = "recovered"
  /\ done' = done \cup Unsettled(t)
  /\ err' = [j \in Jobs |-> IF j \in Unsettled(t) THEN "failed" ELSE err[j]]
  /\ ReleaseLeader /\ NotifyAll /\ AfterRecovery(t)
  /\ batch' = [batch EXCEPT ![t] = <<>>]
  /\ UNCHANGED <<pending, closing, closed, dbVars, accepted, told, mine, bounds>>

Forget(t) ==
  /\ pc[t] = "forget"
  /\ IF In(mine[t], pending)
     THEN /\ pending' \in Without(pending, {mine[t]})
          /\ done' = done \cup {mine[t]} /\ err' = [err EXCEPT ![mine[t]] = "failed"]
          /\ NotifyAll
     ELSE UNCHANGED <<pending, done, err, sleeping>>
  /\ intr' = [intr EXCEPT ![t] = TRUE] /\ Goto(t, "settle")
  /\ UNCHANGED <<active, started, writerActive, owner, closing, closed, dbVars,
                 accepted, told, mine, batch, raised, bounds>>

-----------------------------------------------------------------------------
(* close().                                                                *)

CallClose(t) ==
  /\ pc[t] = "idle" /\ closes < MaxCloses
  /\ closes' = closes + 1
  /\ mine' = [mine EXCEPT ![t] = NoJob]
  /\ intr' = [intr EXCEPT ![t] = FALSE] /\ Goto(t, "close")
  /\ UNCHANGED <<queueVars, dbVars, jobVars, batch, raised, faults, crashes>>

CloseReturns(t) ==
  /\ pc[t] = "close" /\ t \notin sleeping /\ closed
  /\ Goto(t, "idle")
  /\ UNCHANGED <<queueVars, dbVars, jobVars, mine, batch, raised, intr, bounds>>

ReserveClose(t) ==
  /\ pc[t] = "close" /\ Looping(t) /\ ~writerActive /\ pending = <<>>
  /\ active' = <<>> /\ started' = FALSE /\ owner' = t /\ writerActive' = TRUE
  /\ NotifyAll /\ Goto(t, "closeDb")
  /\ UNCHANGED <<pending, closed, dbVars, jobVars, mine, batch, raised, intr, bounds>>

CloseDb(t) ==
  /\ pc[t] = "closeDb" /\ dbLock = NoThread
  /\ dbOpen' = FALSE /\ Goto(t, "markClosed")
  /\ UNCHANGED <<queueVars, dbLock, txn, durable, jobVars, mine, batch, raised, intr, bounds>>

MarkClosed(t) ==
  /\ pc[t] = "markClosed"
  /\ closed' = TRUE /\ ReleaseLeader /\ NotifyAll /\ Goto(t, "idle")
  /\ UNCHANGED <<pending, closing, dbVars, jobVars, mine, batch, raised, intr, bounds>>

(* db.close() raised, or the closer was interrupted before or after it.    *)
InterruptClose(t, kind) ==
  /\ Raise(t, kind)
  /\ pc[t] = "closeDb" \/ (pc[t] = "markClosed" /\ kind = "cancel")
  /\ raised' = [raised EXCEPT ![t] = kind] /\ Goto(t, "recover")
  /\ UNCHANGED <<queueVars, dbVars, jobVars, mine, batch, intr>>

-----------------------------------------------------------------------------
(* The process dies: SQLite keeps what was committed, nothing else stays.  *)
Crash ==
  /\ crashes < MaxCrashes /\ faults + crashes < MaxFaults /\ crashes' = crashes + 1
  /\ pending' = <<>> /\ active' = <<>> /\ started' = FALSE
  /\ writerActive' = FALSE /\ owner' = NoThread
  /\ closing' = FALSE /\ closed' = FALSE /\ sleeping' = {}
  /\ dbLock' = NoThread /\ dbOpen' = TRUE /\ txn' = <<>>
  /\ done' = {} /\ err' = [j \in Jobs |-> "none"]
  /\ told' = [j \in Jobs |-> IF told[j] = "pending" THEN "lost" ELSE told[j]]
  /\ pc' = [t \in Threads |-> "idle"] /\ mine' = [t \in Threads |-> NoJob]
  /\ batch' = [t \in Threads |-> <<>>]
  /\ raised' = [t \in Threads |-> "none"] /\ intr' = [t \in Threads |-> FALSE]
  /\ UNCHANGED <<durable, accepted, faults, closes>>

(* Steps the scheduler owes a caller that is inside the Store.             *)
Step(t) ==
  \/ WaitForCapacity(t) \/ RefuseClosing(t) \/ Accept(t)
  \/ RecheckAccepted(t) \/ RecheckAbsent(t)
  \/ Return(t) \/ ClaimBatch(t) \/ WaitForLeader(t)
  \/ Begin(t) \/ Lock(t) \/ Execute(t) \/ ExecuteFails(t)
  \/ Commit(t) \/ CommitUncertain(t) \/ Publish(t)
  \/ RecoverFollower(t) \/ RequeueCohort(t) \/ FailCohort(t)
  \/ RecoverStarted(t) \/ Rollback(t) \/ Recovered(t) \/ Forget(t)
  \/ CloseReturns(t) \/ ReserveClose(t) \/ CloseDb(t) \/ MarkClosed(t)

(* Steps nobody owes anybody: new calls and exceptions.                    *)
Disturb(t) ==
  \/ \E j \in Jobs : Submit(t, j)
  \/ CallClose(t)
  \/ InterruptEnter(t) \/ InterruptAccept(t)
  \/ \E kind \in {"cancel", "error"} :
       InterruptLoop(t, kind) \/ InterruptClaim(t, kind) \/ InterruptClose(t, kind)
  \/ InterruptBeforeSql(t) \/ InterruptPublish(t)

Next == (\E t \in Threads : Step(t) \/ Disturb(t)) \/ Crash

Spec == Init /\ [][Next]_vars

(* Threads are preemptively scheduled and every wait in the Store is on a  *)
(* lock some running thread releases, so each caller keeps taking steps.   *)
FairSpec == Spec /\ \A t \in Threads : WF_vars(Step(t))
-----------------------------------------------------------------------------
QueueType ==
  /\ pending \in Seq(Jobs) /\ active \in Seq(Jobs) /\ started \in BOOLEAN
  /\ writerActive \in BOOLEAN /\ owner \in Threads \cup {NoThread}
  /\ closing \in BOOLEAN /\ closed \in BOOLEAN /\ sleeping \subseteq Threads
DbType ==
  /\ dbLock \in Threads \cup {NoThread} /\ dbOpen \in BOOLEAN
  /\ txn \in Seq(Jobs) /\ durable \in Seq(Jobs)
JobType ==
  /\ accepted \in Seq(Jobs) /\ done \subseteq Jobs
  /\ err \in [Jobs -> {"none", "rejected", "failed"}] /\ told \in [Jobs -> Verdicts]
CallType ==
  /\ pc \in [Threads -> Labels] /\ mine \in [Threads -> Jobs \cup {NoJob}]
  /\ batch \in [Threads -> Seq(Jobs)] /\ intr \in [Threads -> BOOLEAN]
  /\ raised \in [Threads -> {"none", "cancel", "error"}]
BoundType == faults \in 0..MaxFaults /\ closes \in 0..MaxCloses /\ crashes \in 0..MaxCrashes

(* Type invariant of the Store's fields, its database and its callers.     *)
TypeOK == QueueType /\ DbType /\ JobType /\ CallType /\ BoundType

(* An observation or attempt whose caller got a normal return is in the    *)
(* database, whoever led its cohort and whatever interrupted or crashed.   *)
AcknowledgedIsDurable ==
  \A j \in Jobs : told[j] = "stored" => j \in Range(durable)

(* Recovery never replays an executed job: nothing is inserted twice, and  *)
(* what a leader could have committed is never in the queue again.         *)
NeverReplayed ==
  /\ IsInjective(durable)
  /\ Range(pending) \cap Range(durable) = {}

(* Evidence ids follow the order of acceptance, also across a requeued     *)
(* cohort, so "the latest row" of cached() is the latest accepted one.     *)
FifoEvidence ==
  \A i, k \in DOMAIN durable : \A a, b \in DOMAIN accepted :
    i < k /\ accepted[a] = durable[i] /\ accepted[b] = durable[k] => a < b

(* One leader at a time, and nobody else thinks it leads.                  *)
SingleLeader ==
  \A t \in Threads :
    pc[t] \in {"begin", "lock", "execute", "commit", "publish", "rollback",
               "recovered", "closeDb", "markClosed"} => writerActive /\ owner = t

(* The connection is closed only when every accepted job has its verdict,  *)
(* so no accepted response fails because close() overtook it.              *)
ClosedAfterLastJob ==
  ~dbOpen \/ closed =>
    \A t \in Threads : pc[t] \in {"settle", "recheck"} /\ In(mine[t], accepted) => mine[t] \in done

(* An accepted job is never abandoned by its caller (store.py:325, "Once   *)
(* accepted, do not abandon a response"): no call returns before the       *)
(* verdict of its job is published.                                        *)
AcceptedNotAbandoned ==
  \A j \in Jobs :
    In(j, accepted) /\ crashes = 0 /\ told[j] # "pending" => j \in done

(* The queue is served in order and by one caller at a time: a recovery     *)
(* replays nothing, evidence ids follow acceptance, and close waits for the *)
(* verdict of every accepted job.                                          *)
OrderlyQueue ==
  /\ NeverReplayed
  /\ FifoEvidence
  /\ SingleLeader
  /\ ClosedAfterLastJob
  /\ AcceptedNotAbandoned

(* Every call of _submit and of close comes back: no follower is stranded  *)
(* by an interrupted, failed or closing leader, and no wake-up is lost.    *)
EveryCallReturns == \A t \in Threads : (pc[t] # "idle") ~> (pc[t] = "idle")

(* The Store implements the abstract evidence log.                         *)
Log == INSTANCE EvidenceLog WITH log <- durable, answer <- told
ImplementsLog == Log!Spec
=============================================================================
