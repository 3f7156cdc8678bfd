------------------------- MODULE EvidenceStoreProofs -------------------------
(***************************************************************************)
(* Proofs about EvidenceStore for any number of callers and jobs, any      *)
(* queue and batch size and any number of exceptions and crashes.          *)
(***************************************************************************)
EXTENDS EvidenceStore, SequenceTheorems, TLAPS

(* Dropping elements of a sequence of jobs leaves a sequence of jobs with  *)
(* no element that was not there.                                          *)
LEMMA SubsequenceType ==
  ASSUME NEW S, NEW s \in Seq(S), NEW r \in Subsequences(s)
  PROVE  r \in Seq(S) /\ Range(r) \subseteq Range(s)
<1>1. PICK n \in 0..Len(s) : r \in [1..n -> Range(s)]
  BY DEF Subsequences
<1>2. Range(s) \subseteq S
  BY DEF Range
<1>3. n \in Nat
  BY <1>1
<1>4. r \in Seq(S)
  BY <1>1, <1>2, <1>3, SeqDef
<1>5. Range(r) \subseteq Range(s)
  BY <1>1 DEF Range
<1> QED BY <1>4, <1>5

LEMMA WithoutType ==
  ASSUME NEW S, NEW s \in Seq(S), NEW K, NEW r \in Without(s, K)
  PROVE  r \in Seq(S) /\ Range(r) = Range(s) \ K
BY SubsequenceType DEF Without

(* What a leader claims and what it leaves are sequences of pending jobs.  *)
LEMMA CohortType ==
  ASSUME pending \in Seq(Jobs)
  PROVE  Cohort \in Seq(Jobs) /\ Remaining \in Seq(Jobs)
<1> USE StoreAssumption DEF StoreAssumption
<1>1. Cohort \in Seq(Jobs)
  BY DEF Cohort
<1>2. Len(Cohort) + 1 \in 1..(Len(pending) + 1)
  BY DEF Cohort
<1>3. Remaining \in Seq(Jobs)
  BY <1>2 DEF Remaining
<1> QED BY <1>1, <1>3

-----------------------------------------------------------------------------
(* Type correctness.                                                       *)

(* A call that has entered _submit and not returned holds its job.         *)
CallersHoldJobs ==
  \A t \in Threads :
    pc[t] \in {"enter", "recheck", "settle", "forget"} => mine[t] \in Jobs

LEMMA AfterRecoveryType ==
  ASSUME TypeOK, NEW t \in Threads, AfterRecovery(t)
  PROVE  /\ pc' \in [Threads -> Labels]
         /\ raised' \in [Threads -> {"none", "cancel", "error"}]
         /\ intr' \in [Threads -> BOOLEAN]
<1>1. pc' \in [Threads -> Labels] /\ raised' \in [Threads -> {"none", "cancel", "error"}]
  BY DEF AfterRecovery, TypeOK, CallType, Goto, Loop, Labels
<1>2. intr' \in [Threads -> BOOLEAN]
  BY DEF AfterRecovery, TypeOK, CallType
<1> QED BY <1>1, <1>2

LEMMA InitType == Init => TypeOK
<1> SUFFICES ASSUME Init PROVE TypeOK
  OBVIOUS
<1> USE StoreAssumption DEF StoreAssumption, Init
<1>1. QueueType BY EmptySeq DEF QueueType
<1>2. DbType BY DEF DbType
<1>3. JobType BY DEF JobType, Verdicts
<1>4. CallType BY DEF CallType, Labels
<1>5. BoundType BY DEF BoundType
<1> QED BY <1>1, <1>2, <1>3, <1>4, <1>5 DEF TypeOK

LEMMA StepType ==
  ASSUME TypeOK, CallersHoldJobs, NEW t \in Threads, Step(t)
  PROVE  TypeOK'
<1> USE StoreAssumption, EmptySeq
    DEF StoreAssumption, TypeOK, QueueType, DbType, JobType, CallType, BoundType, CallersHoldJobs, Verdicts, Labels, queueVars, dbVars,
        jobVars, callVars, bounds, Goto, Loop, NotifyAll, Tell, ReleaseLeader
<1>1. CASE WaitForCapacity(t) BY <1>1 DEF WaitForCapacity
<1>2. CASE RefuseClosing(t) BY <1>2 DEF RefuseClosing
<1>3. CASE Accept(t) BY <1>3 DEF Accept, Append1
<1>4. CASE RecheckAccepted(t) BY <1>4 DEF RecheckAccepted
<1>5. CASE RecheckAbsent(t) BY <1>5 DEF RecheckAbsent
<1>6. CASE Return(t) BY <1>6 DEF Return, Verdict
<1>7. CASE ClaimBatch(t) BY <1>7, CohortType DEF ClaimBatch, TakeCohort, Looping
<1>8. CASE WaitForLeader(t) BY <1>8 DEF WaitForLeader, Looping
<1>9. CASE Begin(t) BY <1>9 DEF Begin
<1>10. CASE Lock(t) BY <1>10 DEF Lock
<1>11. CASE Execute(t)
  BY <1>11, WithoutType DEF Execute, Inserted
<1>12. CASE ExecuteFails(t) BY <1>12 DEF ExecuteFails
<1>13. CASE Commit(t) BY <1>13 DEF Commit
<1>14. CASE CommitUncertain(t)
  <2> USE <1>14 DEF CommitUncertain
  <2>1. QueueType' OBVIOUS
  <2>2. DbType'
    <3>1. durable \o txn \in Seq(Jobs) BY ConcatProperties
    <3> QED BY <3>1
  <2>3. JobType' OBVIOUS
  <2>4. CallType' OBVIOUS
  <2>5. BoundType' OBVIOUS
  <2> QED BY <2>1, <2>2, <2>3, <2>4, <2>5
<1>15. CASE Publish(t)
  <2> USE <1>15 DEF Publish
  <2>1. QueueType' OBVIOUS
  <2>2. DbType' OBVIOUS
  <2>3. JobType' BY DEF Settle
  <2>4. CallType' OBVIOUS
  <2>5. BoundType' OBVIOUS
  <2> QED BY <2>1, <2>2, <2>3, <2>4, <2>5
<1>16. CASE RecoverFollower(t) BY <1>16, AfterRecoveryType DEF RecoverFollower
<1>17. CASE RequeueCohort(t)
  <2> USE <1>17 DEF RequeueCohort
  <2>1. QueueType'
    <3>1. PICK rest \in Remainders : pending' = active \o rest
      BY DEF Requeued
    <3>2. rest \in Seq(Jobs)
      BY WithoutType DEF Remainders
    <3>3. active \o rest \in Seq(Jobs)
      BY <3>2, ConcatProperties
    <3> QED BY <3>1, <3>3
  <2>2. DbType' OBVIOUS
  <2>3. JobType' OBVIOUS
  <2>4. CallType' BY AfterRecoveryType
  <2>5. BoundType' OBVIOUS
  <2> QED BY <2>1, <2>2, <2>3, <2>4, <2>5
<1>18. CASE FailCohort(t)
  <2> USE <1>18 DEF FailCohort
  <2>1. QueueType' BY WithoutType DEF Remainders
  <2>2. DbType' OBVIOUS
  <2>3. JobType' BY DEF Range
  <2>4. CallType' BY AfterRecoveryType
  <2>5. BoundType' OBVIOUS
  <2> QED BY <2>1, <2>2, <2>3, <2>4, <2>5
<1>19. CASE RecoverStarted(t) BY <1>19 DEF RecoverStarted
<1>20. CASE Rollback(t) BY <1>20 DEF Rollback
<1>21. CASE Recovered(t)
  <2> USE <1>21 DEF Recovered
  <2>1. QueueType' OBVIOUS
  <2>2. DbType' OBVIOUS
  <2>3. JobType' BY DEF Unsettled, Range
  <2>4. CallType' BY AfterRecoveryType
  <2>5. BoundType' OBVIOUS
  <2> QED BY <2>1, <2>2, <2>3, <2>4, <2>5
<1>22. CASE Forget(t)
  <2> USE <1>22 DEF Forget
  <2>1. QueueType' BY WithoutType
  <2>2. DbType' OBVIOUS
  <2>3. JobType'
    <3>1. CASE In(mine[t], pending) BY <3>1
    <3>2. CASE ~In(mine[t], pending) BY <3>2
    <3> QED BY <3>1, <3>2
  <2>4. CallType' OBVIOUS
  <2>5. BoundType' OBVIOUS
  <2> QED BY <2>1, <2>2, <2>3, <2>4, <2>5
<1>23. CASE CloseReturns(t) BY <1>23 DEF CloseReturns
<1>24. CASE ReserveClose(t) BY <1>24 DEF ReserveClose, Looping
<1>25. CASE CloseDb(t) BY <1>25 DEF CloseDb
<1>26. CASE MarkClosed(t)
  <2> USE <1>26 DEF MarkClosed
  <2>1. QueueType' OBVIOUS
  <2>2. DbType' OBVIOUS
  <2>3. JobType' OBVIOUS
  <2>4. CallType' OBVIOUS
  <2>5. BoundType' OBVIOUS
  <2> QED BY <2>1, <2>2, <2>3, <2>4, <2>5
<1> QED BY <1>1, <1>2, <1>3, <1>4, <1>5, <1>6, <1>7, <1>8, <1>9, <1>10, <1>11,
           <1>12, <1>13, <1>14, <1>15, <1>16, <1>17, <1>18, <1>19, <1>20, <1>21,
           <1>22, <1>23, <1>24, <1>25, <1>26 DEF Step
LEMMA DisturbType ==
  ASSUME TypeOK, CallersHoldJobs, NEW t \in Threads, Disturb(t)
  PROVE  TypeOK'
<1> USE StoreAssumption, EmptySeq
    DEF StoreAssumption, TypeOK, QueueType, DbType, JobType, CallType, BoundType, Verdicts,
        Labels, queueVars, dbVars, jobVars, callVars, bounds, Goto, NotifyAll, Tell,
        ReleaseLeader, Raise
<1>1. CASE \E j \in Jobs : Submit(t, j) BY <1>1 DEF Submit
<1>2. CASE CallClose(t) BY <1>2 DEF CallClose
<1>3. CASE InterruptEnter(t) BY <1>3 DEF InterruptEnter
<1>4. CASE InterruptAccept(t)
  <2>1. mine[t] \in Jobs
    BY <1>4 DEF InterruptAccept, Append1, CallersHoldJobs
  <2> QED BY <1>4, <2>1 DEF InterruptAccept, Append1
<1>5. ASSUME NEW kind \in {"cancel", "error"}, InterruptLoop(t, kind)
      PROVE TypeOK'
  BY <1>5 DEF InterruptLoop
<1>6. ASSUME NEW kind \in {"cancel", "error"}, InterruptClaim(t, kind)
      PROVE TypeOK'
  <2> USE <1>6 DEF InterruptClaim
  <2>1. QueueType'
    <3>1. CASE TakeCohort(t) BY <3>1, CohortType DEF TakeCohort, Looping
    <3>2. CASE ~TakeCohort(t)
      <4>1. /\ active' = Cohort /\ started' = FALSE /\ UNCHANGED <<owner, writerActive, pending, sleeping, closed>>
            /\ closing' = closing \/ closing' = TRUE
        BY <3>2 DEF Looping
      <4> QED BY <4>1, CohortType
    <3> QED BY <3>1, <3>2
  <2>2. DbType' OBVIOUS
  <2>3. JobType' OBVIOUS
  <2>4. CallType' OBVIOUS
  <2>5. BoundType' OBVIOUS
  <2> QED BY <2>1, <2>2, <2>3, <2>4, <2>5
<1>7. ASSUME NEW kind \in {"cancel", "error"}, InterruptClose(t, kind)
      PROVE TypeOK'
  <2> USE <1>7 DEF InterruptClose
  <2>1. QueueType' OBVIOUS
  <2>2. DbType' OBVIOUS
  <2>3. JobType' OBVIOUS
  <2>4. CallType' OBVIOUS
  <2>5. BoundType' OBVIOUS
  <2> QED BY <2>1, <2>2, <2>3, <2>4, <2>5
<1>8. CASE InterruptBeforeSql(t) BY <1>8 DEF InterruptBeforeSql
<1>9. CASE InterruptPublish(t)
  <2> USE <1>9 DEF InterruptPublish
  <2>1. QueueType'
    <3>1. ReleaseLeader \/ UNCHANGED <<writerActive, owner, active, started>>
      OBVIOUS
    <3>2. UNCHANGED <<pending, closing, closed, sleeping>>
      OBVIOUS
    <3> QED
      BY <3>1, <3>2 DEF ReleaseLeader
  <2>2. DbType' OBVIOUS
  <2>3. JobType'
    <3>1. PICK k \in 0..Len(batch[t]) : Settle(t, k)
      OBVIOUS
    <3> QED BY <3>1 DEF Settle
  <2>4. CallType' OBVIOUS
  <2>5. BoundType' OBVIOUS
  <2> QED BY <2>1, <2>2, <2>3, <2>4, <2>5
<1> QED BY <1>1, <1>2, <1>3, <1>4, <1>5, <1>6, <1>7, <1>8, <1>9 DEF Disturb

LEMMA CrashType == TypeOK /\ Crash => TypeOK'
<1> SUFFICES ASSUME TypeOK, Crash PROVE TypeOK'
  OBVIOUS
<1> USE StoreAssumption, EmptySeq DEF StoreAssumption, Crash, TypeOK
<1>1. QueueType' BY DEF QueueType
<1>2. DbType' BY DEF DbType
<1>3. JobType' BY DEF JobType, Verdicts
<1>4. CallType' BY DEF CallType, Labels
<1>5. BoundType' BY DEF BoundType
<1> QED BY <1>1, <1>2, <1>3, <1>4, <1>5

-----------------------------------------------------------------------------
(* Who holds a job.                                                        *)

LEMMA StepHolds ==
  ASSUME TypeOK, CallersHoldJobs, NEW t \in Threads, Step(t)
  PROVE  CallersHoldJobs'
<1> USE DEF TypeOK, CallType, CallersHoldJobs, Labels, callVars, Goto
<1>1. mine' = mine
  BY DEF Step, WaitForCapacity, RefuseClosing, Accept, RecheckAccepted, RecheckAbsent, Return,
         ClaimBatch, WaitForLeader, Begin, Lock, Execute, ExecuteFails, Commit, CommitUncertain,
         Publish, RecoverFollower, RequeueCohort, FailCohort, RecoverStarted, Rollback,
         Recovered, Forget, CloseReturns, ReserveClose, CloseDb, MarkClosed
<1>2. \/ pc' = pc
      \/ \E l \in Labels \ {"enter", "recheck", "settle", "forget"} : Goto(t, l)
      \/ pc[t] \in {"enter", "recheck", "forget"} /\ Goto(t, "settle")
      \/ Goto(t, Loop(t)) \/ (mine[t] # NoJob /\ Goto(t, "forget"))
  BY DEF Step, WaitForCapacity, RefuseClosing, Accept, Append1, RecheckAccepted, RecheckAbsent,
         Return, ClaimBatch, WaitForLeader, Begin, Lock, Execute, ExecuteFails, Commit,
         CommitUncertain, Publish, RecoverFollower, RequeueCohort, FailCohort, RecoverStarted,
         Rollback, Recovered, Forget, CloseReturns, ReserveClose, CloseDb, MarkClosed,
         AfterRecovery
<1>3. CASE pc' = pc
  BY <1>1, <1>3
<1>4. CASE \E l \in Labels \ {"enter", "recheck", "settle", "forget"} : Goto(t, l)
  BY <1>1, <1>4
<1>5. CASE pc[t] \in {"enter", "recheck", "forget"} /\ Goto(t, "settle")
  BY <1>1, <1>5
<1>6. CASE Goto(t, Loop(t))
  BY <1>1, <1>6 DEF Loop
<1>7. CASE mine[t] # NoJob /\ Goto(t, "forget")
  BY <1>1, <1>7
<1> QED BY <1>2, <1>3, <1>4, <1>5, <1>6, <1>7

LEMMA DisturbHolds ==
  ASSUME TypeOK, CallersHoldJobs, NEW t \in Threads, Disturb(t)
  PROVE  CallersHoldJobs'
<1> USE DEF TypeOK, CallType, CallersHoldJobs, Labels, callVars, Goto
<1>1. CASE \E j \in Jobs : Submit(t, j) BY <1>1 DEF Submit
<1>2. CASE CallClose(t) BY <1>2 DEF CallClose
<1>3. CASE InterruptEnter(t) BY <1>3 DEF InterruptEnter
<1>4. CASE InterruptAccept(t) BY <1>4 DEF InterruptAccept, Append1
<1>5. ASSUME NEW kind \in {"cancel", "error"},
             InterruptLoop(t, kind) \/ InterruptClaim(t, kind) \/ InterruptClose(t, kind)
      PROVE CallersHoldJobs'
  BY <1>5 DEF InterruptLoop, InterruptClaim, InterruptClose
<1>6. CASE InterruptBeforeSql(t) BY <1>6 DEF InterruptBeforeSql
<1>7. CASE InterruptPublish(t) BY <1>7 DEF InterruptPublish
<1> QED BY <1>1, <1>2, <1>3, <1>4, <1>5, <1>6, <1>7 DEF Disturb

(* Type correctness of every behaviour.                                    *)
TypeInv == TypeOK /\ CallersHoldJobs

LEMMA TypeInvNext == TypeInv /\ [Next]_vars => TypeInv'
<1> SUFFICES ASSUME TypeInv, [Next]_vars PROVE TypeInv'
  OBVIOUS
<1>1. ASSUME NEW t \in Threads, Step(t) PROVE TypeInv'
  BY <1>1, StepType, StepHolds DEF TypeInv
<1>2. ASSUME NEW t \in Threads, Disturb(t) PROVE TypeInv'
  BY <1>2, DisturbType, DisturbHolds DEF TypeInv
<1>3. CASE Crash
  <2>1. CallersHoldJobs'
    BY <1>3 DEF Crash, CallersHoldJobs
  <2> QED BY <1>3, <2>1, CrashType DEF TypeInv
<1>4. CASE UNCHANGED vars
  BY <1>4 DEF TypeInv, TypeOK, QueueType, DbType, JobType, CallType, BoundType,
     CallersHoldJobs, vars, queueVars, dbVars, jobVars, callVars, bounds
<1> QED BY <1>1, <1>2, <1>3, <1>4 DEF Next

(* Every field of the Store, every row list and every caller's frame keeps *)
(* its type in every behaviour.                                            *)
THEOREM TypeCorrect == Spec => []TypeOK
<1>1. Init => TypeInv
  BY InitType DEF TypeInv, CallersHoldJobs, Init
<1>2. TypeInv => TypeOK
  BY DEF TypeInv
<1> QED BY <1>1, <1>2, TypeInvNext, PTL DEF Spec

-----------------------------------------------------------------------------
(* A normal return is backed by a committed row.  The invariant follows a  *)
(* clean job from the open transaction (only the holder of the connection  *)
(* writes to it), through the commit, to the published verdict.            *)

HoldsConnection ==
  \A t \in Threads : pc[t] \in {"execute", "commit"} => dbLock = t

CleanIsInserted ==
  \A t \in Threads : pc[t] = "commit" =>
    \A j \in Range(batch[t]) : err[j] = "none" => j \in Range(txn)

CleanIsCommitted ==
  \A t \in Threads : pc[t] = "publish" /\ raised[t] = "none" =>
    \A j \in Range(batch[t]) : err[j] = "none" => j \in Range(durable)

CleanIsDurable == \A j \in done : err[j] = "none" => j \in Range(durable)

AckInv ==
  /\ TypeInv /\ HoldsConnection /\ CleanIsInserted /\ CleanIsCommitted
  /\ CleanIsDurable /\ AcknowledgedIsDurable

(* What an action of t leaves to the other callers.                        *)
OthersUntouched(t) ==
  \A u \in Threads \ {t} :
    pc'[u] = pc[u] /\ batch'[u] = batch[u] /\ raised'[u] = raised[u]

ErrorsStay == \A j \in Jobs : err'[j] = "none" => err[j] = "none"

DurableGrows == Range(durable) \subseteq Range(durable')

LEMMA CommitGrows ==
  ASSUME TypeOK, durable' \in {durable, durable \o txn}
  PROVE  DurableGrows
<1>1. Range(durable \o txn) = Range(durable) \cup Range(txn)
  BY RangeConcatenation DEF TypeOK, DbType
<1> QED BY <1>1 DEF DurableGrows

LEMMA StepFrame ==
  ASSUME TypeOK, NEW t \in Threads, Step(t) \/ Disturb(t)
  PROVE  OthersUntouched(t) /\ ErrorsStay /\ DurableGrows
<1> USE DEF TypeOK, CallType, JobType, Goto, callVars, jobVars, dbVars, AfterRecovery
<1>1. OthersUntouched(t)
  BY DEF OthersUntouched, Step, WaitForCapacity, RefuseClosing, Accept, RecheckAccepted,
     RecheckAbsent, Return, ClaimBatch, WaitForLeader, Begin, Lock, Execute, ExecuteFails,
     Commit, CommitUncertain, Publish, RecoverFollower, RequeueCohort, FailCohort,
     RecoverStarted, Rollback, Recovered, Forget, CloseReturns, ReserveClose, CloseDb,
     MarkClosed, Disturb, Submit, CallClose, InterruptEnter, InterruptAccept, InterruptLoop,
     InterruptClaim, InterruptClose, InterruptBeforeSql, InterruptPublish
<1>2. ErrorsStay
  BY DEF ErrorsStay, Settle, Step, WaitForCapacity, RefuseClosing, Accept, RecheckAccepted,
     RecheckAbsent, Return, ClaimBatch, WaitForLeader, Begin, Lock, Execute, ExecuteFails,
     Commit, CommitUncertain, Publish, RecoverFollower, RequeueCohort, FailCohort,
     RecoverStarted, Rollback, Recovered, Forget, CloseReturns, ReserveClose, CloseDb,
     MarkClosed, Disturb, Submit, CallClose, InterruptEnter, InterruptAccept, InterruptLoop,
     InterruptClaim, InterruptClose, InterruptBeforeSql, InterruptPublish
<1>3. durable' \in {durable, durable \o txn}
  BY DEF Step, WaitForCapacity, RefuseClosing, Accept, RecheckAccepted,
     RecheckAbsent, Return, ClaimBatch, WaitForLeader, Begin, Lock, Execute, ExecuteFails,
     Commit, CommitUncertain, Publish, RecoverFollower, RequeueCohort, FailCohort,
     RecoverStarted, Rollback, Recovered, Forget, CloseReturns, ReserveClose, CloseDb,
     MarkClosed, Disturb, Submit, CallClose, InterruptEnter, InterruptAccept, InterruptLoop,
     InterruptClaim, InterruptClose, InterruptBeforeSql, InterruptPublish
<1> QED BY <1>1, <1>2, <1>3, CommitGrows
LEMMA ConnectionNext ==
  ASSUME AckInv, NEW t \in Threads, Step(t) \/ Disturb(t)
  PROVE  /\ HoldsConnection'
         /\ \A u \in Threads \ {t} : pc[u] = "commit" => txn' = txn
<1> USE StoreAssumption
    DEF StoreAssumption, AckInv, TypeInv, TypeOK, CallType, DbType, Labels, HoldsConnection,
        Goto, callVars, dbVars, AfterRecovery
<1>1. \/ /\ UNCHANGED <<dbLock, txn>>
         /\ pc'[t] \in {"execute", "commit"} => pc'[t] = pc[t]
      \/ dbLock = NoThread /\ dbLock' \in {NoThread, t} /\ (dbLock' = t \/ pc'[t] = "recovered")
      \/ dbLock = t /\ dbLock' = t
      \/ dbLock = t /\ pc'[t] = "publish"
  BY DEF Loop, Step, WaitForCapacity, RefuseClosing, Accept, RecheckAccepted, RecheckAbsent,
     Return, ClaimBatch, WaitForLeader, Begin, Lock, Execute, ExecuteFails, Commit,
     CommitUncertain, Publish, RecoverFollower, RequeueCohort, FailCohort, RecoverStarted,
     Rollback, Recovered, Forget, CloseReturns, ReserveClose, CloseDb, MarkClosed, Disturb,
     Submit, CallClose, InterruptEnter, InterruptAccept, InterruptLoop, InterruptClaim,
     InterruptClose, InterruptBeforeSql, InterruptPublish
<1>2. OthersUntouched(t)
  BY StepFrame
<1> QED BY <1>1, <1>2 DEF OthersUntouched

(* An action of t moves t's own clean jobs one stage on.                   *)
LEMMA OwnCohortNext ==
  ASSUME AckInv, NEW t \in Threads, Step(t) \/ Disturb(t)
  PROVE  /\ pc'[t] = "commit" =>
              \A j \in Range(batch'[t]) : err'[j] = "none" => j \in Range(txn')
         /\ pc'[t] = "publish" /\ raised'[t] = "none" =>
              \A j \in Range(batch'[t]) : err'[j] = "none" => j \in Range(durable')
<1> USE DEF AckInv, TypeInv, TypeOK, CallType, JobType, DbType, Labels, Goto, callVars
<1>0. batch[t] \in Seq(Jobs) /\ Range(batch[t]) \subseteq Jobs
  BY DEF Range
<1>1. CASE Execute(t)
  <2>1. PICK bad \in SUBSET Range(batch[t]) :
          /\ err' = [j \in Jobs |-> IF j \in bad THEN "rejected" ELSE err[j]]
          /\ txn' \in Inserted(t, bad)
    BY <1>1 DEF Execute
  <2>2. Range(txn') = Range(batch[t]) \ bad
    BY <1>0, <2>1, WithoutType DEF Inserted
  <2>3. pc'[t] = "commit" /\ batch' = batch
    BY <1>1 DEF Execute
  <2> QED BY <1>0, <2>1, <2>2, <2>3
<1>2. CASE Commit(t)
  <2>1. Range(durable') = Range(durable) \cup Range(txn)
    BY <1>2, RangeConcatenation DEF Commit
  <2>2. pc[t] = "commit" /\ pc'[t] = "publish" /\ batch' = batch /\ err' = err
    BY <1>2 DEF Commit, jobVars
  <2> QED BY <2>1, <2>2 DEF CleanIsInserted
<1>3. CASE ~Execute(t) /\ ~Commit(t)
  <2>1. \/ \E l \in Labels \ {"commit", "publish"} : Goto(t, l)
        \/ Goto(t, Loop(t)) \/ AfterRecovery(t)
        \/ Goto(t, "publish") /\ raised'[t] # "none"
        \/ pc' = pc /\ pc[t] \notin {"commit", "publish"}
    BY <1>3 DEF Looping, Step, WaitForCapacity, RefuseClosing, Accept, RecheckAccepted, RecheckAbsent,
     Return, ClaimBatch, WaitForLeader, Begin, Lock, Execute, ExecuteFails, Commit,
     CommitUncertain, Publish, RecoverFollower, RequeueCohort, FailCohort, RecoverStarted,
     Rollback, Recovered, Forget, CloseReturns, ReserveClose, CloseDb, MarkClosed, Disturb,
     Submit, CallClose, InterruptEnter, InterruptAccept, InterruptLoop, InterruptClaim,
     InterruptClose, InterruptBeforeSql, InterruptPublish
  <2>2. AfterRecovery(t) => pc'[t] \notin {"commit", "publish"}
    BY DEF AfterRecovery, Loop
  <2>3. pc'[t] # "commit" /\ (pc'[t] = "publish" => raised'[t] # "none")
    BY <2>1, <2>2 DEF Loop
  <2> QED BY <2>3
<1> QED BY <1>1, <1>2, <1>3

LEMMA CohortsNext ==
  ASSUME AckInv, NEW t \in Threads, Step(t) \/ Disturb(t)
  PROVE  CleanIsInserted' /\ CleanIsCommitted'
<1>1. OthersUntouched(t) /\ ErrorsStay /\ DurableGrows
  BY StepFrame DEF AckInv, TypeInv
<1>2. \A u \in Threads : Range(batch[u]) \subseteq Jobs
  BY DEF AckInv, TypeInv, TypeOK, CallType, Range
<1>3. ASSUME NEW u \in Threads, u # t
      PROVE  /\ pc'[u] = "commit" =>
                  \A j \in Range(batch'[u]) : err'[j] = "none" => j \in Range(txn')
             /\ pc'[u] = "publish" /\ raised'[u] = "none" =>
                  \A j \in Range(batch'[u]) : err'[j] = "none" => j \in Range(durable')
  BY <1>1, <1>2, <1>3, ConnectionNext
     DEF AckInv, OthersUntouched, ErrorsStay, DurableGrows, CleanIsInserted, CleanIsCommitted
<1> QED BY <1>3, OwnCohortNext DEF CleanIsInserted, CleanIsCommitted

(* Whatever publishes verdicts publishes a clean one only for a row.       *)
LEMMA VerdictsNext ==
  ASSUME AckInv, NEW t \in Threads, Step(t) \/ Disturb(t)
  PROVE  CleanIsDurable'
<1> USE DEF AckInv, TypeInv, TypeOK, CallType, JobType, DbType, jobVars
<1>1. ErrorsStay /\ DurableGrows
  BY StepFrame
<1>2. \A j \in done : err'[j] = "none" => j \in Range(durable')
  BY <1>1 DEF ErrorsStay, DurableGrows, CleanIsDurable
<1>3. CASE \E k \in 0..Len(batch[t]) : pc[t] = "publish" /\ Settle(t, k)
  <2>1. PICK k \in 0..Len(batch[t]) : pc[t] = "publish" /\ Settle(t, k)
    BY <1>3
  <2> DEFINE some == {batch[t][i] : i \in 1..k}
  <2>2. some \subseteq Range(batch[t]) /\ some \subseteq Jobs
    BY DEF Range
  <2>3. done' = done \cup some
    BY <2>1 DEF Settle
  <2>4. \A j \in some : err'[j] = "none" => raised[t] = "none" /\ err[j] = "none"
    BY <2>1, <2>2 DEF Settle
  <2>5. \A j \in some : err'[j] = "none" => j \in Range(durable')
    BY <1>1, <2>1, <2>2, <2>4 DEF CleanIsCommitted, DurableGrows
  <2> QED BY <1>2, <2>3, <2>5 DEF CleanIsDurable
<1>4. CASE \A j \in done' \ done : err'[j] # "none"
  BY <1>2, <1>4 DEF CleanIsDurable
<1>5. CASE Publish(t) \/ InterruptPublish(t)
  <2>1. Len(batch[t]) \in 0..Len(batch[t])
    OBVIOUS
  <2> QED BY <1>3, <1>5, <2>1 DEF Publish, InterruptPublish
<1>6. CASE FailCohort(t)
  <2>1. \A j \in done' \ done : j \in Jobs /\ err'[j] = "failed"
    BY <1>6 DEF FailCohort, QueueType, In, Range
  <2>2. \A j \in done' \ done : err'[j] # "none"
    BY <2>1
  <2> QED BY <1>4, <2>2
<1>7. CASE Recovered(t)
  <2>1. \A j \in done' \ done : j \in Jobs /\ err'[j] = "failed"
    BY <1>7 DEF Recovered, Unsettled, Range
  <2>2. \A j \in done' \ done : err'[j] # "none"
    BY <2>1
  <2> QED BY <1>4, <2>2
<1>8. CASE Forget(t)
  <2>1. \A j \in done' \ done : j \in Jobs /\ err'[j] = "failed"
    BY <1>8 DEF Forget, CallersHoldJobs
  <2>2. \A j \in done' \ done : err'[j] # "none"
    BY <2>1
  <2> QED BY <1>4, <2>2
<1>9. CASE /\ ~Publish(t) /\ ~InterruptPublish(t) /\ ~FailCohort(t)
           /\ ~Recovered(t) /\ ~Forget(t)
  <2>1. done' = done
    BY <1>9 DEF Step, WaitForCapacity, RefuseClosing, Accept, RecheckAccepted, RecheckAbsent,
     Return, ClaimBatch, WaitForLeader, Begin, Lock, Execute, ExecuteFails, Commit,
     CommitUncertain, RecoverFollower, RequeueCohort, RecoverStarted,
     Rollback, CloseReturns, ReserveClose, CloseDb, MarkClosed, Disturb,
     Submit, CallClose, InterruptEnter, InterruptAccept, InterruptLoop, InterruptClaim,
     InterruptClose, InterruptBeforeSql
  <2> QED BY <1>4, <2>1
<1> QED BY <1>5, <1>6, <1>7, <1>8, <1>9

LEMMA AnswersNext ==
  ASSUME AckInv, NEW t \in Threads, Step(t) \/ Disturb(t)
  PROVE  AcknowledgedIsDurable'
<1> USE DEF AckInv, TypeInv, TypeOK, CallType, JobType, DbType, jobVars
<1>1. DurableGrows
  BY StepFrame
<1>2. CASE Return(t)
  <2>1. mine[t] \in Jobs /\ mine[t] \in done /\ durable' = durable
    BY <1>2 DEF Return, CallersHoldJobs, dbVars
  <2>2. \A j \in Jobs : told'[j] = "stored" =>
          told[j] = "stored" \/ (j = mine[t] /\ err[j] = "none")
    BY <1>2, <2>1 DEF Return, Tell, Verdict
  <2> QED BY <2>1, <2>2 DEF AcknowledgedIsDurable, CleanIsDurable
<1>3. CASE ~Return(t)
  <2>1. \A j \in Jobs : told'[j] = "stored" => told[j] = "stored"
    BY <1>3 DEF Tell, Step, WaitForCapacity, RefuseClosing, Accept, RecheckAccepted, RecheckAbsent,
     Return, ClaimBatch, WaitForLeader, Begin, Lock, Execute, ExecuteFails, Commit,
     CommitUncertain, Publish, RecoverFollower, RequeueCohort, FailCohort, RecoverStarted,
     Rollback, Recovered, Forget, CloseReturns, ReserveClose, CloseDb, MarkClosed, Disturb,
     Submit, CallClose, InterruptEnter, InterruptAccept, InterruptLoop, InterruptClaim,
     InterruptClose, InterruptBeforeSql, InterruptPublish
  <2> QED BY <1>1, <2>1 DEF AcknowledgedIsDurable, DurableGrows
<1> QED BY <1>2, <1>3

LEMMA AckInvNext == AckInv /\ [Next]_vars => AckInv'
<1> SUFFICES ASSUME AckInv, [Next]_vars PROVE AckInv'
  OBVIOUS
<1>1. TypeInv'
  BY TypeInvNext DEF AckInv
<1>2. ASSUME NEW t \in Threads, Step(t) \/ Disturb(t) PROVE AckInv'
  BY <1>1, <1>2, ConnectionNext, CohortsNext, VerdictsNext, AnswersNext DEF AckInv
<1>3. CASE Crash
  BY <1>1, <1>3 DEF Crash, AckInv, HoldsConnection, CleanIsInserted, CleanIsCommitted,
     CleanIsDurable, AcknowledgedIsDurable
<1>4. CASE UNCHANGED vars
  BY <1>1, <1>4 DEF AckInv, HoldsConnection, CleanIsInserted, CleanIsCommitted,
     CleanIsDurable, AcknowledgedIsDurable, vars, dbVars, jobVars, callVars
<1> QED BY <1>2, <1>3, <1>4 DEF Next

LEMMA AckInvInit == Init => AckInv
BY InitType DEF Init, AckInv, TypeInv, CallersHoldJobs, HoldsConnection, CleanIsInserted,
   CleanIsCommitted, CleanIsDurable, AcknowledgedIsDurable

(* A caller that returned normally has its row in the database, in every   *)
(* behaviour: any leader, any cohort, any interrupt and any crash.         *)
THEOREM AcknowledgedDurable == Spec => []AcknowledgedIsDurable
<1>2. AckInv => AcknowledgedIsDurable
  BY DEF AckInv
<1> QED BY AckInvInit, <1>2, AckInvNext, PTL DEF Spec
-----------------------------------------------------------------------------
(* The queue is served in order.  The invariant has five parts: calls hold *)
(* different jobs, one caller leads and its cohort is _active_batch, what  *)
(* is durable was accepted before what a leader holds and that before what *)
(* is pending, a job that was accepted is somewhere, and a connection is   *)
(* closed over an empty queue only.                                        *)

Working == {"begin", "lock", "execute", "commit", "publish", "rollback", "recovered"}
Closing == {"closeDb", "markClosed"}
Calling(t) == pc[t] # "idle" /\ mine[t] # NoJob

(* Order in a sequence q without duplicates: the acceptance order.         *)
Before(q, a, b) == \E i, k \in DOMAIN q : i < k /\ q[i] = a /\ q[k] = b
Ordered(q, s) == \A i, k \in DOMAIN s : i < k => Before(q, s[i], s[k])
Precedes(q, A, B) == \A a \in A, b \in B : Before(q, a, b)

CallsAreDistinct ==
  /\ \A t \in Threads : Calling(t) => told[mine[t]] = "pending"
  /\ \A t, u \in Threads : t # u /\ Calling(t) /\ Calling(u) => mine[t] # mine[u]
  /\ \A t \in Threads : pc[t] = "enter" => mine[t] \notin Range(accepted)
  /\ \A j \in Range(accepted) : told[j] # "unsent"
  /\ IsInjective(accepted)

OneLeader ==
  /\ writerActive <=> owner # NoThread
  /\ started => writerActive
  /\ \A t \in Threads : pc[t] \in Working => owner = t /\ batch[t] = active
  /\ \A t \in Threads : pc[t] \in Closing => owner = t /\ active = <<>> /\ ~started
  /\ \A t \in Threads : pc[t] \in {"lock", "execute", "commit"} => started
  /\ \A t \in Threads : pc[t] = "begin" => ~started
  /\ \A t \in Threads : owner = t => pc[t] \in Working \cup Closing \cup {"recover"}

QueueInOrder ==
  /\ Ordered(accepted, pending) /\ Ordered(accepted, active) /\ Ordered(accepted, durable)
  /\ Range(pending) \cup Range(active) \cup Range(durable) \subseteq Range(accepted)
  /\ writerActive => Precedes(accepted, Range(active), Range(pending))
  /\ Precedes(accepted, Range(durable), Range(pending))
  /\ ~started \/ (\E t \in Threads : pc[t] \in {"lock", "execute", "commit"})
       => Precedes(accepted, Range(durable), Range(active))
  /\ \A t \in Threads : pc[t] = "commit" => Ordered(accepted, txn) /\ Range(txn) \subseteq Range(active)

Followed == done \cup Range(pending) \cup (IF writerActive THEN Range(active) ELSE {})
JobsAreFollowed ==
  \A t \in Threads : pc[t] # "idle" /\ mine[t] \in Range(accepted) => mine[t] \in Followed

ClosedIsEmpty ==
  closed \/ ~dbOpen \/ (\E t \in Threads : pc[t] \in Closing)
    => closing /\ pending = <<>> /\ active = <<>>

QueueInv ==
  /\ AckInv /\ CallsAreDistinct /\ OneLeader /\ QueueInOrder /\ JobsAreFollowed
  /\ ClosedIsEmpty /\ AcceptedNotAbandoned

-----------------------------------------------------------------------------
(* Order in sequences.                                                     *)

LEMMA InIsRange == \A j, s : In(j, s) <=> j \in Range(s)
BY DEF In, Range

LEMMA AppendRange ==
  ASSUME NEW S, NEW q \in Seq(S), NEW m \in S
  PROVE  /\ Append(q, m) \in Seq(S)
         /\ DOMAIN Append(q, m) = 1..(Len(q) + 1) /\ DOMAIN q = 1..Len(q)
         /\ \A i \in 1..Len(q) : Append(q, m)[i] = q[i]
         /\ Append(q, m)[Len(q) + 1] = m
         /\ Range(Append(q, m)) = Range(q) \cup {m}
<1>1. /\ Append(q, m) \in Seq(S)
      /\ DOMAIN Append(q, m) = 1..(Len(q) + 1) /\ DOMAIN q = 1..Len(q)
      /\ \A i \in 1..Len(q) : Append(q, m)[i] = q[i]
      /\ Append(q, m)[Len(q) + 1] = m
  OBVIOUS
<1>2. Range(Append(q, m)) = Range(q) \cup {m}
  BY <1>1 DEF Range
<1> QED BY <1>1, <1>2

(* A later acceptance changes no order, and comes after everything.        *)
LEMMA BeforeGrows ==
  ASSUME NEW S, NEW q \in Seq(S), NEW m \in S
  PROVE  /\ \A a, b : Before(q, a, b) => Before(Append(q, m), a, b)
         /\ \A a \in Range(q) : Before(Append(q, m), a, m)
<1>1. ASSUME NEW a, NEW b, Before(q, a, b) PROVE Before(Append(q, m), a, b)
  BY <1>1, AppendRange DEF Before
<1>2. ASSUME NEW a \in Range(q) PROVE Before(Append(q, m), a, m)
  <2>1. PICK i \in DOMAIN q : q[i] = a
    BY DEF Range
  <2>2. i \in 1..Len(q) /\ i < Len(q) + 1 /\ Len(q) + 1 \in 1..(Len(q) + 1)
    OBVIOUS
  <2> QED BY <2>1, <2>2, AppendRange DEF Before
<1> QED BY <1>1, <1>2

LEMMA OrderGrows ==
  ASSUME NEW S, NEW q \in Seq(S), NEW m \in S
  PROVE  /\ \A s : Ordered(q, s) => Ordered(Append(q, m), s)
         /\ \A A, B : Precedes(q, A, B) => Precedes(Append(q, m), A, B)
BY BeforeGrows DEF Ordered, Precedes

(* Without duplicates the order is strict.                                 *)
LEMMA BeforeStrict ==
  ASSUME NEW S, NEW q \in Seq(S), IsInjective(q), NEW a, NEW b, Before(q, a, b)
  PROVE  a # b
BY DEF Before, IsInjective

(* Dropping elements keeps the order.                                      *)
LEMMA OrderedWithout ==
  ASSUME NEW S, NEW q \in Seq(S), NEW s \in Seq(S), NEW K, NEW r \in Without(s, K), Ordered(q, s)
  PROVE  Ordered(q, r)
<1>1. r \in Subsequences(s) /\ r \in Seq(S)
  BY SubsequenceType DEF Without
<1>2. PICK f \in [DOMAIN r -> DOMAIN s] :
        /\ \A i, k \in DOMAIN r : i < k => f[i] < f[k]
        /\ \A i \in DOMAIN r : r[i] = s[f[i]]
  BY <1>1 DEF Subsequences
<1> QED BY <1>2 DEF Ordered

LEMMA OrderedConcat ==
  ASSUME NEW S, NEW q \in Seq(S), NEW s \in Seq(S), NEW r \in Seq(S),
         Ordered(q, s), Ordered(q, r), Precedes(q, Range(s), Range(r))
  PROVE  Ordered(q, s \o r)
<1> SUFFICES ASSUME NEW i \in DOMAIN (s \o r), NEW k \in DOMAIN (s \o r), i < k
             PROVE  Before(q, (s \o r)[i], (s \o r)[k])
  BY DEF Ordered
<1>1. /\ i \in 1..(Len(s) + Len(r)) /\ k \in 1..(Len(s) + Len(r))
      /\ Len(s) \in Nat /\ Len(r) \in Nat
  OBVIOUS
<1>2. CASE k <= Len(s)
  BY <1>1, <1>2 DEF Ordered
<1>3. CASE i <= Len(s) /\ k > Len(s)
  <2>1. (s \o r)[i] = s[i] /\ (s \o r)[k] = r[k - Len(s)]
    BY <1>1, <1>3
  <2>2. s[i] \in Range(s) /\ r[k - Len(s)] \in Range(r)
    BY <1>1, <1>3 DEF Range
  <2> QED BY <2>1, <2>2 DEF Precedes
<1>4. CASE i > Len(s)
  BY <1>1, <1>4 DEF Ordered
<1> QED BY <1>1, <1>2, <1>3, <1>4

(* What a leader claims comes before what it leaves.                       *)
LEMMA CohortOrder ==
  ASSUME pending \in Seq(Jobs), NEW q \in Seq(Jobs), Ordered(q, pending)
  PROVE  /\ Ordered(q, Cohort) /\ Ordered(q, Remaining)
         /\ Range(pending) = Range(Cohort) \cup Range(Remaining)
         /\ Precedes(q, Range(Cohort), Range(Remaining))
<1> USE StoreAssumption DEF StoreAssumption
<1> DEFINE n == IF Len(pending) < BatchSize THEN Len(pending) ELSE BatchSize
<1>1. n \in 0..Len(pending) /\ Len(pending) \in Nat
  OBVIOUS
<1>2. Cohort = SubSeq(pending, 1, n)
  BY DEF Cohort
<1> HIDE DEF n
<1>3. /\ Cohort \in Seq(Jobs) /\ Len(Cohort) = n
      /\ \A i \in 1..n : Cohort[i] = pending[i]
  BY <1>1, <1>2
<1>4. Remaining = SubSeq(pending, n + 1, Len(pending))
  BY <1>3 DEF Remaining
<1>5. /\ Remaining \in Seq(Jobs) /\ Len(Remaining) = Len(pending) - n
      /\ \A i \in 1..(Len(pending) - n) : Remaining[i] = pending[n + i]
  BY <1>1, <1>4
<1>6. Ordered(q, Cohort)
  BY <1>1, <1>3 DEF Ordered
<1>7. Ordered(q, Remaining)
  <2> SUFFICES ASSUME NEW i \in DOMAIN Remaining, NEW k \in DOMAIN Remaining, i < k
               PROVE  Before(q, Remaining[i], Remaining[k])
    BY DEF Ordered
  <2>1. i \in 1..(Len(pending) - n) /\ k \in 1..(Len(pending) - n)
    BY <1>5
  <2>2. n + i \in DOMAIN pending /\ n + k \in DOMAIN pending /\ n + i < n + k
    BY <1>1, <2>1
  <2>3. Remaining[i] = pending[n + i] /\ Remaining[k] = pending[n + k]
    BY <1>5, <2>1
  <2> QED BY <2>2, <2>3 DEF Ordered
<1>8. Range(Cohort) = {pending[i] : i \in 1..n}
  BY <1>1, <1>3 DEF Range
<1>9. Range(Remaining) = {pending[i] : i \in (n + 1)..Len(pending)}
  <2>1. \A i \in (n + 1)..Len(pending) : i - n \in 1..(Len(pending) - n) /\ pending[i] = Remaining[i - n]
    BY <1>1, <1>5
  <2>2. DOMAIN Remaining = 1..(Len(pending) - n)
    BY <1>5
  <2>3. \A i \in DOMAIN Remaining : n + i \in (n + 1)..Len(pending) /\ Remaining[i] = pending[n + i]
    BY <1>1, <1>5, <2>2
  <2> QED BY <2>1, <2>2, <2>3 DEF Range
<1>10. Range(pending) = Range(Cohort) \cup Range(Remaining)
  <2>1. DOMAIN pending = 1..Len(pending)
    OBVIOUS
  <2>2. \A i \in Int : i \in 1..Len(pending) <=> i \in 1..n \/ i \in (n + 1)..Len(pending)
    BY <1>1
  <2>3. DOMAIN pending = (1..n) \cup ((n + 1)..Len(pending))
    BY <2>1, <2>2
  <2> QED BY <1>8, <1>9, <2>3 DEF Range
<1>11. Precedes(q, Range(Cohort), Range(Remaining))
  BY <1>1, <1>8, <1>9 DEF Precedes, Ordered
<1> QED BY <1>6, <1>7, <1>10, <1>11
-----------------------------------------------------------------------------
(* Calls.                                                                  *)

LEMMA CallEffect ==
  ASSUME TypeInv, NEW t \in Threads, Step(t) \/ Disturb(t)
  PROVE  \/ \E j \in Jobs : Submit(t, j)
         \/ CallClose(t)
         \/ Append1(t) /\ UNCHANGED <<mine, told>> /\ Goto(t, "settle")
         \/ Append1(t) /\ UNCHANGED <<mine, told>> /\ Goto(t, "recheck")
         \/ /\ UNCHANGED <<accepted, mine, told>> /\ pc[t] # "idle"
            /\ pc'[t] # "enter" \/ pc'[t] = pc[t]
         \/ /\ UNCHANGED <<accepted, mine>> /\ pc[t] \in {"enter", "recheck", "settle"}
            /\ \E v \in Verdicts \ {"unsent"} : Tell(t, v) /\ Goto(t, "idle")
<1> USE DEF TypeInv, TypeOK, CallType, JobType, Labels, Verdicts, Goto, jobVars, callVars
<1>1. CASE Step(t)
  <2>1. CASE WaitForCapacity(t) BY <2>1 DEF WaitForCapacity
  <2>2. CASE RefuseClosing(t) BY <2>2 DEF RefuseClosing
  <2>3. CASE Accept(t) BY <2>3 DEF Accept
  <2>4. CASE RecheckAccepted(t) BY <2>4 DEF RecheckAccepted
  <2>5. CASE RecheckAbsent(t) BY <2>5 DEF RecheckAbsent
  <2>6. CASE Return(t) BY <2>6 DEF Return, Verdict
  <2>7. CASE WaitForLeader(t) BY <2>7 DEF WaitForLeader, Looping
  <2>8. CASE ClaimBatch(t) \/ ReserveClose(t) \/ CloseReturns(t)
    BY <2>8 DEF ClaimBatch, ReserveClose, CloseReturns, TakeCohort, Looping
  <2>9. CASE \/ Begin(t) \/ Lock(t) \/ Execute(t) \/ ExecuteFails(t) \/ Commit(t)
             \/ CommitUncertain(t) \/ RecoverStarted(t) \/ Rollback(t)
             \/ CloseDb(t) \/ MarkClosed(t) \/ Forget(t)
    BY <2>9 DEF Begin, Lock, Execute, ExecuteFails, Commit, CommitUncertain, RecoverStarted,
       Rollback, CloseDb, MarkClosed, Forget
  <2>10. CASE \/ Publish(t) \/ RecoverFollower(t) \/ RequeueCohort(t) \/ FailCohort(t)
              \/ Recovered(t)
    BY <2>10 DEF Publish, RecoverFollower, RequeueCohort, FailCohort, Recovered,
       AfterRecovery, Loop
  <2> QED BY <1>1, <2>1, <2>2, <2>3, <2>4, <2>5, <2>6, <2>7, <2>8, <2>9, <2>10 DEF Step
<1>2. CASE Disturb(t)
  <2>1. CASE (\E j \in Jobs : Submit(t, j)) \/ CallClose(t) BY <2>1
  <2>2. CASE InterruptEnter(t) BY <2>2 DEF InterruptEnter
  <2>3. CASE InterruptAccept(t) BY <2>3 DEF InterruptAccept
  <2>4. ASSUME NEW kind \in {"cancel", "error"},
               InterruptLoop(t, kind) \/ InterruptClaim(t, kind) \/ InterruptClose(t, kind)
        PROVE  /\ UNCHANGED <<accepted, mine, told>> /\ pc[t] # "idle"
               /\ pc'[t] # "enter"
    BY <2>4 DEF InterruptLoop, InterruptClaim, InterruptClose, TakeCohort, Looping
  <2>5. CASE InterruptBeforeSql(t) \/ InterruptPublish(t)
    BY <2>5 DEF InterruptBeforeSql, InterruptPublish
  <2> QED BY <1>2, <2>1, <2>2, <2>3, <2>4, <2>5 DEF Disturb
<1> QED BY <1>1, <1>2

LEMMA CallsNext ==
  ASSUME TypeInv, CallsAreDistinct, NEW t \in Threads, Step(t) \/ Disturb(t)
  PROVE  CallsAreDistinct'
<1> USE StoreAssumption DEF StoreAssumption, TypeInv, TypeOK, CallType, JobType, Goto
<1>1. OthersUntouched(t)
  BY StepFrame
<1>2. CASE \E j \in Jobs : Submit(t, j)
  <2>1. PICK j \in Jobs : Submit(t, j)
    BY <1>2
  <2>2. /\ mine' = [mine EXCEPT ![t] = j] /\ told' = [told EXCEPT ![j] = "pending"]
        /\ accepted' = accepted /\ told[j] = "unsent" /\ pc[t] = "idle"
    BY <2>1 DEF Submit
  <2>3. j \notin Range(accepted) /\ \A u \in Threads \ {t} : Calling(u) => mine[u] # j
    BY <2>2 DEF CallsAreDistinct
  <2>4. \A u \in Threads \ {t} : Calling(u)' <=> Calling(u)
    BY <1>1, <2>2 DEF Calling, OthersUntouched
  <2> QED BY <1>1, <2>2, <2>3, <2>4 DEF CallsAreDistinct, Calling, OthersUntouched
<1>3. CASE CallClose(t)
  <2>1. mine' = [mine EXCEPT ![t] = NoJob] /\ UNCHANGED <<accepted, told>> /\ pc'[t] = "close"
    BY <1>3 DEF CallClose, jobVars
  <2>2. \A u \in Threads \ {t} : (Calling(u)' <=> Calling(u)) /\ mine'[u] = mine[u] /\ pc'[u] = pc[u]
    BY <1>1, <2>1 DEF Calling, OthersUntouched
  <2>3. ~Calling(t)'
    BY <2>1 DEF Calling
  <2> QED BY <2>1, <2>2, <2>3 DEF CallsAreDistinct
<1>4. CASE /\ UNCHANGED <<accepted, mine, told>> /\ pc[t] # "idle"
           /\ pc'[t] # "enter" \/ pc'[t] = pc[t]
  <2>1. \A u \in Threads : Calling(u)' => Calling(u) /\ mine'[u] = mine[u]
    BY <1>1, <1>4 DEF Calling, OthersUntouched
  <2>2. \A u \in Threads : pc'[u] = "enter" => pc[u] = "enter"
    BY <1>1, <1>4 DEF OthersUntouched
  <2> QED BY <1>4, <2>1, <2>2 DEF CallsAreDistinct
<1>5. CASE /\ UNCHANGED <<accepted, mine>> /\ pc[t] \in {"enter", "recheck", "settle"}
           /\ \E v \in Verdicts \ {"unsent"} : Tell(t, v) /\ Goto(t, "idle")
  <2>1. PICK v \in Verdicts \ {"unsent"} : Tell(t, v) /\ Goto(t, "idle")
    BY <1>5
  <2>2. told' = [told EXCEPT ![mine[t]] = v] /\ Calling(t) /\ mine[t] \in Jobs
    BY <1>5, <2>1 DEF Tell, Calling, CallersHoldJobs
  <2>3. \A u \in Threads : Calling(u)' => u # t /\ Calling(u) /\ mine'[u] = mine[u]
    BY <1>1, <1>5, <2>1 DEF Calling, OthersUntouched
  <2>4. \A u \in Threads : pc'[u] = "enter" => pc[u] = "enter"
    BY <1>1, <2>1 DEF OthersUntouched
  <2> QED BY <1>5, <2>2, <2>3, <2>4 DEF CallsAreDistinct
<1>6. CASE Append1(t) /\ UNCHANGED <<mine, told>> /\ pc'[t] # "enter"
  <2>1. mine[t] \in Jobs /\ accepted' = Append(accepted, mine[t]) /\ pc[t] = "enter"
    BY <1>6 DEF Append1, CallersHoldJobs
  <2>2. Range(accepted') = Range(accepted) \cup {mine[t]}
    BY <2>1, AppendRange
  <2>3. \A u \in Threads : Calling(u)' => Calling(u) /\ mine'[u] = mine[u]
    BY <1>1, <1>6, <2>1 DEF Calling, OthersUntouched
  <2>4. Calling(t)
    BY <2>1 DEF Calling
  <2>5. \A u \in Threads : pc'[u] = "enter" => pc[u] = "enter" /\ u # t /\ Calling(u)
    BY <1>1, <1>6 DEF OthersUntouched, Calling, CallersHoldJobs
  <2>6. IsInjective(accepted')
    <3>1. mine[t] \notin Range(accepted) /\ IsInjective(accepted)
      BY <2>1 DEF CallsAreDistinct
    <3> QED BY <2>1, <3>1, AppendRange DEF IsInjective, Range
  <2> QED BY <1>6, <2>1, <2>2, <2>3, <2>4, <2>5, <2>6 DEF CallsAreDistinct
<1>7. CASE Append1(t) /\ UNCHANGED <<mine, told>> /\ (Goto(t, "settle") \/ Goto(t, "recheck"))
  BY <1>6, <1>7
<1> QED BY <1>2, <1>3, <1>4, <1>5, <1>7, CallEffect
-----------------------------------------------------------------------------
(* The leader.                                                             *)

LEMMA LeaderStep ==
  ASSUME TypeInv, OneLeader, NEW t \in Threads, Step(t)
  PROVE  OneLeader'
<1> USE StoreAssumption
    DEF StoreAssumption, TypeInv, TypeOK, CallType, QueueType, Labels, Goto, Working, Closing,
        OneLeader, queueVars, callVars, ReleaseLeader, OthersUntouched
<1>0. OthersUntouched(t)
  BY StepFrame
<1>1. CASE WaitForCapacity(t) BY <1>0, <1>1 DEF WaitForCapacity
<1>2. CASE RefuseClosing(t) BY <1>0, <1>2 DEF RefuseClosing
<1>3. CASE Accept(t) BY <1>0, <1>3 DEF Accept, Append1
<1>4. CASE RecheckAccepted(t) BY <1>0, <1>4 DEF RecheckAccepted
<1>5. CASE RecheckAbsent(t) BY <1>0, <1>5 DEF RecheckAbsent
<1>6. CASE Return(t) BY <1>0, <1>6 DEF Return
<1>7. CASE ClaimBatch(t) BY <1>0, <1>7 DEF ClaimBatch, TakeCohort, Looping
<1>8. CASE WaitForLeader(t) BY <1>0, <1>8 DEF WaitForLeader, Looping
<1>9. CASE Begin(t) BY <1>0, <1>9 DEF Begin
<1>10. CASE Lock(t) BY <1>0, <1>10 DEF Lock
<1>11. CASE Execute(t) BY <1>0, <1>11 DEF Execute
<1>12. CASE ExecuteFails(t) BY <1>0, <1>12 DEF ExecuteFails
<1>13. CASE Commit(t) BY <1>0, <1>13 DEF Commit
<1>14. CASE CommitUncertain(t) BY <1>0, <1>14 DEF CommitUncertain
<1>15. CASE Publish(t) BY <1>0, <1>15 DEF Publish, Loop
<1>16. CASE RecoverFollower(t) BY <1>0, <1>16 DEF RecoverFollower, AfterRecovery, Loop
<1>17. CASE RequeueCohort(t) BY <1>0, <1>17 DEF RequeueCohort, AfterRecovery, Loop
<1>18. CASE FailCohort(t) BY <1>0, <1>18 DEF FailCohort, AfterRecovery, Loop
<1>19. CASE RecoverStarted(t) BY <1>0, <1>19 DEF RecoverStarted
<1>20. CASE Rollback(t) BY <1>0, <1>20 DEF Rollback
<1>21. CASE Recovered(t) BY <1>0, <1>21 DEF Recovered, AfterRecovery, Loop
<1>22. CASE Forget(t) BY <1>0, <1>22 DEF Forget
<1>23. CASE CloseReturns(t) BY <1>0, <1>23 DEF CloseReturns
<1>24. CASE ReserveClose(t) BY <1>0, <1>24 DEF ReserveClose, Looping
<1>25. CASE CloseDb(t) BY <1>0, <1>25 DEF CloseDb
<1>26. CASE MarkClosed(t) BY <1>0, <1>26 DEF MarkClosed
<1> QED BY <1>1, <1>2, <1>3, <1>4, <1>5, <1>6, <1>7, <1>8, <1>9, <1>10, <1>11,
           <1>12, <1>13, <1>14, <1>15, <1>16, <1>17, <1>18, <1>19, <1>20, <1>21,
           <1>22, <1>23, <1>24, <1>25, <1>26 DEF Step

LEMMA LeaderDisturb ==
  ASSUME TypeInv, OneLeader, NEW t \in Threads, Disturb(t)
  PROVE  OneLeader'
<1> USE StoreAssumption
    DEF StoreAssumption, TypeInv, TypeOK, CallType, QueueType, Labels, Goto, Working, Closing,
        OneLeader, queueVars, callVars, ReleaseLeader, OthersUntouched
<1>0. OthersUntouched(t)
  BY StepFrame
<1>1. CASE \E j \in Jobs : Submit(t, j) BY <1>0, <1>1 DEF Submit
<1>2. CASE CallClose(t) BY <1>0, <1>2 DEF CallClose
<1>3. CASE InterruptEnter(t) BY <1>0, <1>3 DEF InterruptEnter
<1>4. CASE InterruptAccept(t) BY <1>0, <1>4 DEF InterruptAccept, Append1
<1>5. ASSUME NEW kind \in {"cancel", "error"}, InterruptLoop(t, kind)
      PROVE OneLeader'
  BY <1>0, <1>5 DEF InterruptLoop
<1>6. ASSUME NEW kind \in {"cancel", "error"}, InterruptClaim(t, kind)
      PROVE OneLeader'
  <2>1. CASE TakeCohort(t) BY <1>0, <1>6, <2>1 DEF InterruptClaim, TakeCohort, Looping
  <2>2. CASE ~TakeCohort(t) BY <1>0, <1>6, <2>2 DEF InterruptClaim, Looping
  <2> QED BY <2>1, <2>2
<1>7. ASSUME NEW kind \in {"cancel", "error"}, InterruptClose(t, kind)
      PROVE OneLeader'
  BY <1>0, <1>7 DEF InterruptClose
<1>8. CASE InterruptBeforeSql(t) BY <1>0, <1>8 DEF InterruptBeforeSql
<1>9. CASE InterruptPublish(t) BY <1>0, <1>9 DEF InterruptPublish
<1> QED BY <1>1, <1>2, <1>3, <1>4, <1>5, <1>6, <1>7, <1>8, <1>9 DEF Disturb
-----------------------------------------------------------------------------
(* The order of the queue.  Most steps leave it alone.                     *)

QueueAlone ==
  UNCHANGED <<pending, active, started, writerActive, durable, accepted>>
Ordering == {"lock", "execute", "commit"}

LEMMA OrderAlone ==
  ASSUME TypeInv, OneLeader, QueueInOrder, NEW t \in Threads, OthersUntouched(t), QueueAlone,
         pc'[t] \in Ordering => started /\ pc[t] \in Ordering,
         pc'[t] = "commit" => Ordered(accepted, txn') /\ Range(txn') \subseteq Range(active),
         \A u \in Threads \ {t} : pc[u] = "commit" => txn' = txn
  PROVE  QueueInOrder'
<1>1. \A u \in Threads : pc'[u] \in Ordering => pc[u] \in Ordering
  BY DEF OthersUntouched
<1>2. \A u \in Threads : pc'[u] = "commit" =>
         Ordered(accepted, txn') /\ Range(txn') \subseteq Range(active)
  BY DEF OthersUntouched, QueueInOrder
<1> QED BY <1>1, <1>2 DEF QueueInOrder, QueueAlone, Ordering

(* The transaction holds jobs of the cohort, in their order.               *)
LEMMA InsertedOrder ==
  ASSUME TypeInv, OneLeader, QueueInOrder, NEW t \in Threads, Execute(t)
  PROVE  Ordered(accepted, txn') /\ Range(txn') \subseteq Range(active)
<1>1. /\ batch[t] = active /\ active \in Seq(Jobs) /\ accepted \in Seq(Jobs)
  BY DEF Execute, OneLeader, Working, TypeInv, TypeOK, QueueType, JobType
<1>2. PICK bad \in SUBSET Range(batch[t]) : txn' \in Inserted(t, bad)
  BY DEF Execute
<1>3. txn' \in Without(active, bad)
  BY <1>1, <1>2 DEF Inserted
<1> QED BY <1>1, <1>3, OrderedWithout, WithoutType DEF QueueInOrder

(* A step of another caller leaves the transaction of a committing one.    *)
LEMMA TxnFrame ==
  ASSUME AckInv, NEW t \in Threads, Step(t) \/ Disturb(t)
  PROVE  \A u \in Threads \ {t} : pc[u] = "commit" => txn' = txn
BY ConnectionNext

LEMMA AcceptOrder ==
  ASSUME TypeInv, OneLeader, QueueInOrder, NEW t \in Threads, OthersUntouched(t), Append1(t),
         UNCHANGED <<active, started, writerActive, durable, txn>>,
         pc'[t] \notin Ordering
  PROVE  QueueInOrder'
<1> USE DEF TypeInv, TypeOK, QueueType, JobType, DbType, QueueInOrder
<1>1. /\ mine[t] \in Jobs /\ pending \in Seq(Jobs) /\ accepted \in Seq(Jobs)
      /\ pending' = Append(pending, mine[t]) /\ accepted' = Append(accepted, mine[t])
  BY DEF Append1, CallersHoldJobs
<1>2. /\ Range(pending') = Range(pending) \cup {mine[t]}
      /\ Range(accepted') = Range(accepted) \cup {mine[t]}
  BY <1>1, AppendRange
<1>3. \A s : Ordered(accepted, s) => Ordered(accepted', s)
  BY <1>1, OrderGrows
<1>4. \A A, B : Precedes(accepted, A, B) => Precedes(accepted', A, B)
  BY <1>1, OrderGrows
<1>5. \A a \in Range(accepted) : Before(accepted', a, mine[t])
  BY <1>1, BeforeGrows
<1>6. \A A : A \subseteq Range(accepted) /\ Precedes(accepted, A, Range(pending))
         => Precedes(accepted', A, Range(pending'))
  BY <1>2, <1>4, <1>5 DEF Precedes
<1>7. Ordered(accepted', pending')
  <2> SUFFICES ASSUME NEW i \in DOMAIN pending', NEW k \in DOMAIN pending', i < k
               PROVE  Before(accepted', pending'[i], pending'[k])
    BY DEF Ordered
  <2>1. i \in 1..Len(pending) /\ k \in 1..(Len(pending) + 1) /\ pending'[i] = pending[i]
    BY <1>1, AppendRange
  <2>2. CASE k \in 1..Len(pending)
    <3>1. pending'[k] = pending[k] /\ Before(accepted, pending[i], pending[k])
      BY <1>1, <2>1, <2>2, AppendRange DEF Ordered
    <3> QED BY <1>1, <2>1, <3>1, BeforeGrows
  <2>3. CASE k = Len(pending) + 1
    <3>1. pending'[k] = mine[t]
      BY <1>1, <2>3, AppendRange
    <3>2. pending[i] \in Range(pending)
      BY <1>1, <2>1 DEF Range
    <3> QED BY <1>5, <2>1, <3>1, <3>2
  <2> QED BY <2>1, <2>2, <2>3
<1>8. \A u \in Threads : pc'[u] \in Ordering => pc[u] \in Ordering
  BY DEF OthersUntouched
<1>9. \A u \in Threads : pc'[u] = "commit" => pc[u] = "commit"
  BY DEF OthersUntouched, Ordering
<1> QED BY <1>2, <1>3, <1>4, <1>6, <1>7, <1>8, <1>9 DEF Ordering
LEMMA ClaimOrder ==
  ASSUME TypeInv, OneLeader, QueueInOrder, NEW t \in Threads, OthersUntouched(t),
         ~writerActive, active' = Cohort, started' = FALSE, UNCHANGED <<durable, accepted, txn>>,
         \/ pending' = Remaining
         \/ UNCHANGED <<pending, writerActive>>,
         pc'[t] \notin Ordering
  PROVE  QueueInOrder'
<1> USE DEF TypeInv, TypeOK, QueueType, JobType, QueueInOrder
<1>1. /\ Ordered(accepted, Cohort) /\ Ordered(accepted, Remaining)
      /\ Range(pending) = Range(Cohort) \cup Range(Remaining)
      /\ Precedes(accepted, Range(Cohort), Range(Remaining))
  BY CohortOrder
<1>2. \A u \in Threads : pc'[u] \notin Ordering
  BY DEF OthersUntouched, OneLeader, Working, Ordering
<1>3. Precedes(accepted, Range(durable), Range(Cohort)) /\ Precedes(accepted, Range(durable), Range(Remaining))
  BY <1>1 DEF Precedes
<1>4. CASE pending' = Remaining
  BY <1>1, <1>2, <1>3, <1>4 DEF Ordering
<1>5. CASE UNCHANGED <<pending, writerActive>>
  BY <1>1, <1>2, <1>3, <1>5 DEF Ordering
<1> QED BY <1>4, <1>5

LEMMA CommitOrder ==
  ASSUME TypeInv, OneLeader, QueueInOrder, NEW t \in Threads, OthersUntouched(t),
         pc[t] = "commit", pc'[t] = "publish", durable' \in {durable, durable \o txn},
         UNCHANGED <<pending, active, started, writerActive, accepted>>
  PROVE  QueueInOrder'
<1> USE DEF TypeInv, TypeOK, QueueType, JobType, DbType, QueueInOrder
<1>1. owner = t /\ started /\ writerActive
  BY DEF OneLeader, Working
<1>2. \A u \in Threads : pc'[u] \notin Ordering
  BY <1>1 DEF OthersUntouched, OneLeader, Working, Ordering
<1>3. Precedes(accepted, Range(durable), Range(active))
  OBVIOUS
<1>4. Ordered(accepted, txn) /\ Range(txn) \subseteq Range(active)
  OBVIOUS
<1>5. Precedes(accepted, Range(durable), Range(txn)) /\ Precedes(accepted, Range(txn), Range(pending))
  BY <1>1, <1>3, <1>4 DEF Precedes
<1>6. Ordered(accepted, durable \o txn) /\ Range(durable \o txn) = Range(durable) \cup Range(txn)
  BY <1>4, <1>5, OrderedConcat, RangeConcatenation
<1>7. Precedes(accepted, Range(durable \o txn), Range(pending))
  BY <1>5, <1>6 DEF Precedes
<1> QED BY <1>1, <1>2, <1>4, <1>6, <1>7 DEF Ordering

LEMMA ReleaseOrder ==
  ASSUME TypeInv, OneLeader, QueueInOrder, NEW t \in Threads, OthersUntouched(t), owner = t,
         ReleaseLeader, pc'[t] \notin Ordering, UNCHANGED <<durable, accepted>>,
         \/ UNCHANGED pending
         \/ pending' \in Remainders
         \/ ~started /\ pending' \in Requeued
  PROVE  QueueInOrder'
<1> USE DEF TypeInv, TypeOK, QueueType, JobType, DbType, QueueInOrder
<1>1. active' = <<>> /\ ~writerActive' /\ ~started' /\ Range(<<>>) = {}
  BY DEF ReleaseLeader, Range
<1>2. \A u \in Threads : pc'[u] \notin Ordering
  BY DEF OthersUntouched, OneLeader, Working, Ordering
<1>3. Ordered(accepted, <<>>) /\ Precedes(accepted, Range(durable), Range(<<>>))
  BY <1>1 DEF Ordered, Precedes
<1>4. ASSUME NEW rest \in Remainders
      PROVE  /\ rest \in Seq(Jobs) /\ Ordered(accepted, rest)
             /\ Range(rest) = Range(pending) \ Range(active)
  BY OrderedWithout, WithoutType DEF Remainders
<1>5. writerActive
  BY StoreAssumption DEF OneLeader, StoreAssumption
<1>6. Ordered(accepted, pending') /\ Range(pending') \subseteq Range(accepted)
      /\ Precedes(accepted, Range(durable), Range(pending'))
  <2>1. CASE UNCHANGED pending
    BY <2>1
  <2>2. CASE pending' \in Remainders
    BY <1>4, <2>2 DEF Precedes
  <2>3. CASE ~started /\ pending' \in Requeued
    <3>1. PICK rest \in Remainders : pending' = active \o rest
      BY <2>3 DEF Requeued
    <3>2. rest \in Seq(Jobs) /\ Ordered(accepted, rest) /\ Range(rest) \subseteq Range(pending)
      BY <1>4
    <3>3. Precedes(accepted, Range(active), Range(rest))
      BY <1>5, <3>2 DEF Precedes
    <3>4. Ordered(accepted, active \o rest) /\ Range(active \o rest) = Range(active) \cup Range(rest)
      BY <3>2, <3>3, OrderedConcat, RangeConcatenation
    <3>5. Precedes(accepted, Range(durable), Range(active)) /\ Precedes(accepted, Range(durable), Range(rest))
      BY <2>3, <3>2 DEF Precedes
    <3> QED BY <3>1, <3>2, <3>4, <3>5 DEF Precedes
  <2> QED BY <2>1, <2>2, <2>3
<1> QED BY <1>1, <1>2, <1>3, <1>6 DEF Ordering

LEMMA ForgetOrder ==
  ASSUME TypeInv, OneLeader, QueueInOrder, NEW t \in Threads, OthersUntouched(t),
         \E K : pending' \in Without(pending, K), pc[t] \notin Working, pc'[t] \notin Ordering,
         UNCHANGED <<active, started, writerActive, durable, accepted, txn>>
  PROVE  QueueInOrder'
<1> USE DEF TypeInv, TypeOK, QueueType, JobType, DbType, QueueInOrder
<1>1. PICK K : pending' \in Without(pending, K)
  OBVIOUS
<1>2. Ordered(accepted, pending') /\ Range(pending') \subseteq Range(pending)
  BY <1>1, OrderedWithout, WithoutType
<1>3. \A A : Precedes(accepted, A, Range(pending)) => Precedes(accepted, A, Range(pending'))
  BY <1>2 DEF Precedes
<1>4. \A u \in Threads : pc'[u] \in Ordering => pc[u] \in Ordering
  BY DEF OthersUntouched
<1>5. \A u \in Threads : pc'[u] = "commit" => pc[u] = "commit"
  BY DEF OthersUntouched, Ordering
<1> QED BY <1>2, <1>3, <1>4, <1>5 DEF Ordering
LEMMA OrderStep ==
  ASSUME AckInv, OneLeader, QueueInOrder, NEW t \in Threads, Step(t)
  PROVE  QueueInOrder'
<1> USE DEF AckInv, QueueAlone, Ordering, queueVars, dbVars, jobVars, Goto
<1>0. OthersUntouched(t) /\ TypeInv
  BY StepFrame DEF TypeInv
<1>a. \A u \in Threads \ {t} : pc[u] = "commit" => txn' = txn
  BY TxnFrame
<1>p. pc \in [Threads -> Labels]
  BY DEF TypeInv, TypeOK, CallType
<1>1. CASE \/ WaitForCapacity(t) \/ RefuseClosing(t) \/ RecheckAccepted(t) \/ RecheckAbsent(t)
           \/ Return(t) \/ WaitForLeader(t) \/ CloseReturns(t)
  <2>1. QueueAlone /\ pc'[t] \notin Ordering
    BY <1>p, <1>1 DEF WaitForCapacity, RefuseClosing, RecheckAccepted, RecheckAbsent, Return,
       WaitForLeader, Looping, CloseReturns, callVars
  <2> QED BY <1>0, <1>a, <2>1, OrderAlone
<1>2. CASE Lock(t) \/ ExecuteFails(t) \/ RecoverStarted(t) \/ Rollback(t) \/ CloseDb(t)
           \/ RecoverFollower(t)
  <2>1. /\ QueueAlone
        /\ pc'[t] \in Ordering => started /\ pc[t] \in Ordering
        /\ pc'[t] # "commit"
    BY <1>p, <1>2 DEF Lock, ExecuteFails, RecoverStarted, Rollback, CloseDb, RecoverFollower,
       AfterRecovery, Loop, OneLeader
  <2> QED BY <1>0, <1>a, <2>1, OrderAlone
<1>3. CASE Accept(t)
  BY <1>0, <1>p, <1>3, AcceptOrder DEF Accept
<1>4. CASE ClaimBatch(t)
  BY <1>0, <1>p, <1>4, ClaimOrder DEF ClaimBatch, TakeCohort
<1>5. CASE Begin(t)
  <2>1. /\ UNCHANGED <<pending, active, writerActive, durable, accepted, txn>>
        /\ pc[t] = "begin" /\ pc'[t] = "lock" /\ started'
    BY <1>p, <1>5 DEF Begin
  <2>2. \A u \in Threads : pc'[u] # "commit"
    BY <1>0, <2>1 DEF OthersUntouched, OneLeader, Working
  <2>3. Precedes(accepted, Range(durable), Range(active))
    BY <2>1 DEF QueueInOrder, OneLeader
  <2> QED BY <2>1, <2>2, <2>3 DEF QueueInOrder
<1>6. CASE Execute(t)
  <2>1. QueueAlone /\ pc[t] = "execute" /\ pc'[t] = "commit"
    BY <1>p, <1>6 DEF Execute
  <2>2. started
    BY <2>1 DEF OneLeader
  <2> QED BY <1>0, <1>a, <1>6, <2>1, <2>2, OrderAlone, InsertedOrder
<1>7. CASE Commit(t) \/ CommitUncertain(t)
  BY <1>0, <1>p, <1>7, CommitOrder DEF Commit, CommitUncertain
<1>8. CASE Publish(t)
  BY <1>0, <1>p, <1>8, ReleaseOrder DEF Publish, OneLeader, Working, Loop
<1>9. CASE RequeueCohort(t)
  BY <1>0, <1>p, <1>9, ReleaseOrder DEF RequeueCohort, AfterRecovery, Loop
<1>10. CASE FailCohort(t)
  BY <1>0, <1>p, <1>10, ReleaseOrder DEF FailCohort, AfterRecovery, Loop
<1>11. CASE Recovered(t)
  BY <1>0, <1>p, <1>11, ReleaseOrder DEF Recovered, AfterRecovery, Loop, OneLeader, Working
<1>12. CASE Forget(t)
  <2>1. CASE In(mine[t], pending)
    BY <1>0, <1>p, <1>12, <2>1, ForgetOrder DEF Forget, Working
  <2>2. CASE ~In(mine[t], pending)
    <3>1. QueueAlone /\ pc'[t] \notin Ordering
      BY <1>p, <1>12, <2>2 DEF Forget
    <3> QED BY <1>0, <1>a, <3>1, OrderAlone
  <2> QED BY <2>1, <2>2
<1>13. CASE ReserveClose(t)
  <2>1. /\ pending = <<>> /\ active' = <<>> /\ ~started' /\ UNCHANGED <<pending, durable, accepted, txn>>
        /\ ~writerActive /\ pc'[t] = "closeDb"
    BY <1>p, <1>13 DEF ReserveClose
  <2>2. \A u \in Threads : pc'[u] # "commit"
    BY <1>0, <2>1, StoreAssumption DEF OthersUntouched, OneLeader, Working, StoreAssumption
  <2>3. Ordered(accepted, <<>>) /\ Range(<<>>) = {}
    BY DEF Ordered, Range
  <2> QED BY <2>1, <2>2, <2>3 DEF QueueInOrder, Precedes
<1>14. CASE MarkClosed(t)
  BY <1>0, <1>p, <1>14, ReleaseOrder DEF MarkClosed, OneLeader, Closing
<1> QED BY <1>1, <1>2, <1>3, <1>4, <1>5, <1>6, <1>7, <1>8, <1>9, <1>10, <1>11,
           <1>12, <1>13, <1>14 DEF Step

LEMMA OrderDisturb ==
  ASSUME AckInv, OneLeader, QueueInOrder, NEW t \in Threads, Disturb(t)
  PROVE  QueueInOrder'
<1> USE DEF AckInv, QueueAlone, Ordering, queueVars, dbVars, jobVars, Goto
<1>0. OthersUntouched(t) /\ TypeInv
  BY StepFrame DEF TypeInv
<1>a. \A u \in Threads \ {t} : pc[u] = "commit" => txn' = txn
  BY TxnFrame
<1>p. pc \in [Threads -> Labels]
  BY DEF TypeInv, TypeOK, CallType
<1>1. CASE (\E j \in Jobs : Submit(t, j)) \/ CallClose(t) \/ InterruptEnter(t)
           \/ InterruptBeforeSql(t)
  <2>1. QueueAlone /\ pc'[t] \notin Ordering
    BY <1>p, <1>1 DEF Submit, CallClose, InterruptEnter, InterruptBeforeSql
  <2> QED BY <1>0, <1>a, <2>1, OrderAlone
<1>2. ASSUME NEW kind \in {"cancel", "error"}, InterruptLoop(t, kind) \/ InterruptClose(t, kind)
      PROVE  QueueInOrder'
  <2>1. QueueAlone /\ pc'[t] \notin Ordering
    BY <1>p, <1>2 DEF InterruptLoop, InterruptClose
  <2> QED BY <1>0, <1>a, <2>1, OrderAlone
<1>3. CASE InterruptAccept(t)
  BY <1>0, <1>p, <1>3, AcceptOrder DEF InterruptAccept
<1>4. ASSUME NEW kind \in {"cancel", "error"}, InterruptClaim(t, kind)
      PROVE  QueueInOrder'
  BY <1>0, <1>p, <1>4, ClaimOrder DEF InterruptClaim, TakeCohort
<1>5. CASE InterruptPublish(t)
  <2>1. CASE ReleaseLeader
    BY <1>0, <1>p, <1>5, <2>1, ReleaseOrder DEF InterruptPublish, OneLeader, Working
  <2>2. CASE UNCHANGED <<writerActive, owner, active, started>>
    <3>1. QueueAlone /\ pc'[t] \notin Ordering
      BY <1>p, <1>5, <2>2 DEF InterruptPublish
    <3> QED BY <1>0, <1>a, <3>1, OrderAlone
  <2> QED BY <1>5, <2>1, <2>2 DEF InterruptPublish
<1> QED BY <1>1, <1>2, <1>3, <1>4, <1>5 DEF Disturb
-----------------------------------------------------------------------------
(* An accepted job stays in the queue, with a leader, or settled.          *)

LEMMA FollowedStep ==
  ASSUME TypeInv, OneLeader, QueueInOrder, NEW t \in Threads, Step(t)
  PROVE  done \subseteq done' /\ Followed \subseteq Followed' /\ crashes' = crashes
<1> USE DEF queueVars, jobVars, bounds
<1>0. /\ pending \in Seq(Jobs) /\ active \in Seq(Jobs) /\ accepted \in Seq(Jobs)
      /\ Ordered(accepted, pending) /\ Range(<<>>) = {}
      /\ batch \in [Threads -> Seq(Jobs)]
  BY DEF TypeInv, TypeOK, QueueType, CallType, JobType, QueueInOrder, Range
<1>1. CASE \/ WaitForCapacity(t) \/ RefuseClosing(t) \/ RecheckAccepted(t) \/ RecheckAbsent(t)
           \/ Return(t) \/ WaitForLeader(t) \/ CloseReturns(t) \/ Begin(t) \/ Lock(t)
           \/ ExecuteFails(t) \/ CommitUncertain(t) \/ RecoverStarted(t) \/ Rollback(t)
           \/ CloseDb(t) \/ RecoverFollower(t) \/ Execute(t) \/ Commit(t)
  <2>1. UNCHANGED <<done, pending, active, writerActive, crashes>>
    BY <1>1 DEF WaitForCapacity, RefuseClosing, RecheckAccepted, RecheckAbsent, Return,
       WaitForLeader, CloseReturns, Begin, Lock, ExecuteFails, CommitUncertain, RecoverStarted,
       Rollback, CloseDb, RecoverFollower, Execute, Commit
  <2> QED BY <2>1 DEF Followed
<1>2. CASE Accept(t)
  <2>1. UNCHANGED <<done, active, writerActive, crashes>> /\ pending' = Append(pending, mine[t])
        /\ mine[t] \in Jobs
    BY <1>2 DEF Accept, Append1, TypeInv, CallersHoldJobs
  <2> QED BY <1>0, <2>1, AppendRange DEF Followed
<1>3. CASE ClaimBatch(t)
  <2>1. UNCHANGED <<done, crashes>> /\ ~writerActive /\ writerActive'
        /\ active' = Cohort /\ pending' = Remaining
    BY <1>3 DEF ClaimBatch, TakeCohort
  <2> QED BY <1>0, <2>1, CohortOrder DEF Followed
<1>4. CASE Publish(t)
  <2>1. batch[t] = active /\ active \in Seq(Jobs)
    BY <1>0, <1>4 DEF Publish, OneLeader, Working
  <2>2. done' = done \cup Range(active)
    BY <1>4, <2>1 DEF Publish, Settle, Range
  <2> QED BY <1>4, <2>2 DEF Publish, Followed
<1>5. CASE RequeueCohort(t)
  <2>1. PICK rest \in Remainders : pending' = active \o rest
    BY <1>5 DEF RequeueCohort, Requeued
  <2>2. rest \in Seq(Jobs) /\ Range(rest) = Range(pending) \ Range(active)
    BY <1>0, WithoutType DEF Remainders
  <2>3. Range(pending') = Range(active) \cup Range(rest)
    BY <1>0, <2>1, <2>2, RangeConcatenation
  <2> QED BY <1>5, <2>2, <2>3 DEF RequeueCohort, Followed
<1>6. CASE FailCohort(t)
  <2>1. Range(pending') = Range(pending) \ Range(active)
    BY <1>0, <1>6, WithoutType DEF FailCohort, Remainders
  <2> QED BY <1>6, <2>1 DEF FailCohort, Followed
<1>7. CASE Recovered(t)
  BY <1>7 DEF Recovered, Unsettled, OneLeader, Working, Followed
<1>8. CASE Forget(t)
  <2>1. CASE In(mine[t], pending)
    <3>1. Range(pending') = Range(pending) \ {mine[t]}
      BY <1>0, <1>8, <2>1, WithoutType DEF Forget
    <3> QED BY <1>8, <2>1, <3>1 DEF Forget, Followed
  <2>2. CASE ~In(mine[t], pending)
    BY <1>8, <2>2 DEF Forget, Followed
  <2> QED BY <2>1, <2>2
<1>9. CASE ReserveClose(t)
  BY <1>0, <1>9 DEF ReserveClose, Followed
<1>10. CASE MarkClosed(t)
  BY <1>0, <1>10 DEF MarkClosed, OneLeader, Closing, Followed
<1> QED BY <1>1, <1>2, <1>3, <1>4, <1>5, <1>6, <1>7, <1>8, <1>9, <1>10 DEF Step

LEMMA FollowedDisturb ==
  ASSUME TypeInv, OneLeader, QueueInOrder, NEW t \in Threads, Disturb(t)
  PROVE  done \subseteq done' /\ Followed \subseteq Followed' /\ crashes' = crashes
<1> USE DEF queueVars, jobVars, bounds, Raise
<1>0. /\ pending \in Seq(Jobs) /\ active \in Seq(Jobs) /\ accepted \in Seq(Jobs)
      /\ Ordered(accepted, pending)
      /\ batch \in [Threads -> Seq(Jobs)]
  BY DEF TypeInv, TypeOK, QueueType, CallType, JobType, QueueInOrder
<1>1. CASE (\E j \in Jobs : Submit(t, j)) \/ CallClose(t) \/ InterruptEnter(t)
           \/ InterruptBeforeSql(t)
  <2>1. UNCHANGED <<done, pending, active, writerActive, crashes>>
    BY <1>1 DEF Submit, CallClose, InterruptEnter, InterruptBeforeSql
  <2> QED BY <2>1 DEF Followed
<1>2. ASSUME NEW kind \in {"cancel", "error"}, InterruptLoop(t, kind) \/ InterruptClose(t, kind)
      PROVE  done \subseteq done' /\ Followed \subseteq Followed' /\ crashes' = crashes
  BY <1>2 DEF InterruptLoop, InterruptClose, Followed
<1>3. CASE InterruptAccept(t)
  <2>1. UNCHANGED <<done, active, writerActive, crashes>> /\ pending' = Append(pending, mine[t])
        /\ mine[t] \in Jobs
    BY <1>3 DEF InterruptAccept, Append1, TypeInv, CallersHoldJobs
  <2> QED BY <1>0, <2>1, AppendRange DEF Followed
<1>4. ASSUME NEW kind \in {"cancel", "error"}, InterruptClaim(t, kind)
      PROVE  done \subseteq done' /\ Followed \subseteq Followed' /\ crashes' = crashes
  <2>1. UNCHANGED <<done, crashes>> /\ ~writerActive
    BY <1>4 DEF InterruptClaim, TakeCohort
  <2>2. CASE TakeCohort(t)
    BY <1>0, <2>1, <2>2, CohortOrder DEF TakeCohort, Followed
  <2>3. CASE UNCHANGED <<writerActive, pending>>
    BY <2>1, <2>3 DEF Followed
  <2> QED BY <1>4, <2>2, <2>3 DEF InterruptClaim
<1>5. CASE InterruptPublish(t)
  <2>1. batch[t] = active
    BY <1>5 DEF InterruptPublish, OneLeader, Working
  <2>2. CASE UNCHANGED <<writerActive, active>>
    BY <1>5, <2>2 DEF InterruptPublish, Settle, Followed
  <2>3. CASE Settle(t, Len(batch[t]))
    <3>1. done' = done \cup Range(active)
      BY <1>0, <2>1, <2>3 DEF Settle, Range
    <3> QED BY <1>5, <3>1 DEF InterruptPublish, Followed
  <2> QED BY <1>5, <2>2, <2>3 DEF InterruptPublish
<1> QED BY <1>1, <1>2, <1>3, <1>4, <1>5 DEF Disturb

LEMMA JobsNext ==
  ASSUME TypeInv, CallsAreDistinct, OneLeader, QueueInOrder, JobsAreFollowed, NEW t \in Threads,
         Step(t) \/ Disturb(t)
  PROVE  JobsAreFollowed'
<1> USE DEF TypeInv, TypeOK, CallType, JobType, QueueType
<1>0. OthersUntouched(t) /\ Followed \subseteq Followed'
  BY StepFrame, FollowedStep, FollowedDisturb
<1>1. CASE \E j \in Jobs : Submit(t, j)
  <2>1. PICK j \in Jobs : Submit(t, j)
    BY <1>1
  <2>2. mine' = [mine EXCEPT ![t] = j] /\ accepted' = accepted /\ j \notin Range(accepted)
    BY <2>1 DEF Submit, CallsAreDistinct
  <2> QED BY <1>0, <2>2 DEF JobsAreFollowed, OthersUntouched
<1>2. CASE CallClose(t)
  <2>1. mine' = [mine EXCEPT ![t] = NoJob] /\ accepted' = accepted
    BY <1>2 DEF CallClose, jobVars
  <2>2. NoJob \notin Range(accepted)
    BY StoreAssumption DEF StoreAssumption, Range
  <2> QED BY <1>0, <2>1, <2>2 DEF JobsAreFollowed, OthersUntouched
<1>3. CASE Append1(t) /\ UNCHANGED mine
  <2>1. /\ mine[t] \in Jobs /\ accepted' = Append(accepted, mine[t])
        /\ pending' = Append(pending, mine[t]) /\ pc[t] = "enter"
    BY <1>3 DEF Append1, CallersHoldJobs
  <2>2. Range(accepted') = Range(accepted) \cup {mine[t]} /\ mine[t] \in Range(pending')
    BY <2>1, AppendRange
  <2> QED BY <1>0, <1>3, <2>1, <2>2 DEF JobsAreFollowed, OthersUntouched, Followed
<1>4. CASE UNCHANGED <<accepted, mine>> /\ pc[t] # "idle"
  BY <1>0, <1>4 DEF JobsAreFollowed, OthersUntouched
<1> QED BY <1>1, <1>2, <1>3, <1>4, CallEffect

(* Only three steps answer a caller.                                       *)
LEMMA AnswerEffect ==
  ASSUME NEW t \in Threads, Step(t) \/ Disturb(t)
  PROVE  \/ RefuseClosing(t) \/ RecheckAbsent(t) \/ Return(t)
         \/ UNCHANGED <<accepted, told>>
         \/ Append1(t) /\ UNCHANGED <<mine, told>>
         \/ \E j \in Jobs : Submit(t, j)
<1> USE DEF jobVars, callVars
<1>1. CASE Step(t)
  <2>1. CASE \/ WaitForCapacity(t) \/ RecheckAccepted(t) \/ WaitForLeader(t) \/ ClaimBatch(t)
             \/ ReserveClose(t) \/ CloseReturns(t) \/ Begin(t) \/ Lock(t) \/ Execute(t)
             \/ ExecuteFails(t) \/ Commit(t) \/ CommitUncertain(t) \/ RecoverStarted(t)
             \/ Rollback(t) \/ CloseDb(t) \/ MarkClosed(t) \/ Forget(t) \/ Publish(t)
             \/ RecoverFollower(t) \/ RequeueCohort(t) \/ FailCohort(t) \/ Recovered(t)
    BY <2>1 DEF WaitForCapacity, RecheckAccepted, WaitForLeader, ClaimBatch, ReserveClose,
       CloseReturns, Begin, Lock, Execute, ExecuteFails, Commit, CommitUncertain, RecoverStarted,
       Rollback, CloseDb, MarkClosed, Forget, Publish, RecoverFollower, RequeueCohort, FailCohort,
       Recovered
  <2>2. CASE Accept(t) BY <2>2 DEF Accept
  <2> QED BY <1>1, <2>1, <2>2 DEF Step
<1>2. CASE Disturb(t)
  BY <1>2 DEF Disturb, CallClose, InterruptEnter, InterruptAccept, InterruptLoop, InterruptClaim,
     InterruptClose, InterruptBeforeSql, InterruptPublish
<1> QED BY <1>1, <1>2

-----------------------------------------------------------------------------
(* The connection is closed over an empty queue.                           *)

IsClosed == closed \/ ~dbOpen \/ (\E t \in Threads : pc[t] \in Closing)

LEMMA EmptyRange ==
  ASSUME NEW S, NEW s \in Seq(S), Range(s) = {}
  PROVE  s = <<>>
<1>1. DOMAIN s = 1..Len(s) /\ Len(s) \in Nat
  OBVIOUS
<1>2. Len(s) = 0
  <2>1. Len(s) # 0 => 1 \in DOMAIN s
    BY <1>1
  <2> QED BY <2>1 DEF Range
<1> QED BY <1>2

LEMMA ClosedStep ==
  ASSUME TypeInv, OneLeader, ClosedIsEmpty, NEW t \in Threads, Step(t)
  PROVE  ClosedIsEmpty'
<1> USE DEF Goto, queueVars, dbVars, callVars
<1>0. /\ OthersUntouched(t) /\ pc \in [Threads -> Labels] /\ pending \in Seq(Jobs)
  BY StepFrame DEF TypeInv, TypeOK, CallType, QueueType
<1>1. CASE \/ WaitForCapacity(t) \/ RefuseClosing(t) \/ RecheckAccepted(t) \/ RecheckAbsent(t)
           \/ Return(t) \/ WaitForLeader(t) \/ CloseReturns(t) \/ Begin(t) \/ Lock(t)
           \/ Execute(t) \/ ExecuteFails(t) \/ Commit(t) \/ CommitUncertain(t) \/ RecoverStarted(t)
           \/ Rollback(t) \/ RecoverFollower(t) \/ Publish(t) \/ Recovered(t)
  <2>1. /\ UNCHANGED <<closed, dbOpen, pending>> /\ active' \in {active, <<>>}
        /\ closing => closing'
        /\ pc'[t] \notin Closing
    BY <1>0, <1>1 DEF WaitForCapacity, RefuseClosing, RecheckAccepted, RecheckAbsent, Return,
       WaitForLeader, Looping, CloseReturns, Begin, Lock, Execute, ExecuteFails, Commit,
       CommitUncertain, RecoverStarted, Rollback, RecoverFollower, AfterRecovery, Loop, Publish,
       Recovered, ReleaseLeader, Closing
  <2>2. IsClosed' => IsClosed
    BY <1>0, <2>1 DEF IsClosed, OthersUntouched
  <2> QED BY <2>1, <2>2 DEF ClosedIsEmpty, IsClosed
<1>2. CASE Accept(t) \/ ClaimBatch(t)
  <2>1. ~closing \/ pending # <<>>
    BY <1>2 DEF Accept, Append1, ClaimBatch, TakeCohort
  <2>2. UNCHANGED <<closed, dbOpen>> /\ pc'[t] \notin Closing
    BY <1>0, <1>2 DEF Accept, ClaimBatch, Closing
  <2>3. IsClosed' => IsClosed
    BY <1>0, <2>2 DEF IsClosed, OthersUntouched
  <2> QED BY <2>1, <2>3 DEF ClosedIsEmpty, IsClosed
<1>3. CASE RequeueCohort(t) \/ FailCohort(t) \/ Forget(t)
  <2>1. /\ UNCHANGED <<closed, dbOpen, closing>> /\ active' \in {active, <<>>}
        /\ pc'[t] \notin Closing
    BY <1>0, <1>3 DEF RequeueCohort, FailCohort, Forget, AfterRecovery, Loop, ReleaseLeader, Closing
  <2>2. IsClosed' => IsClosed
    BY <1>0, <2>1 DEF IsClosed, OthersUntouched
  <2>3. ASSUME pending = <<>>, active = <<>> PROVE pending' = <<>>
    <3>1. Range(<<>>) = {} /\ <<>> \in Seq(Jobs)
      BY DEF Range
    <3>2. ASSUME NEW K, NEW rest \in Without(pending, K) PROVE rest = <<>>
      <4>1. rest \in Seq(Jobs) /\ Range(rest) = Range(<<>>) \ K
        BY <1>0, <2>3, WithoutType
      <4> QED BY <3>1, <4>1, EmptyRange
    <3>3. <<>> \o <<>> = <<>>
      OBVIOUS
    <3>4. CASE RequeueCohort(t)
      BY <2>3, <3>2, <3>3, <3>4 DEF RequeueCohort, Requeued, Remainders
    <3>5. CASE FailCohort(t)
      BY <3>2, <3>5 DEF FailCohort, Remainders
    <3>6. CASE Forget(t)
      BY <3>2, <3>6, <2>3 DEF Forget
    <3> QED BY <1>3, <3>4, <3>5, <3>6
  <2> QED BY <2>1, <2>2, <2>3 DEF ClosedIsEmpty, IsClosed
<1>4. CASE ReserveClose(t)
  BY <1>4 DEF ReserveClose, Looping, ClosedIsEmpty
<1>5. CASE CloseDb(t) \/ MarkClosed(t)
  <2>1. pc[t] \in Closing
    BY <1>5 DEF CloseDb, MarkClosed, Closing
  <2>2. closing' /\ pending' = <<>> /\ active' = <<>>
    BY <1>5, <2>1 DEF CloseDb, MarkClosed, ReleaseLeader, ClosedIsEmpty
  <2> QED BY <2>2 DEF ClosedIsEmpty
<1> QED BY <1>1, <1>2, <1>3, <1>4, <1>5 DEF Step

LEMMA ClosedDisturb ==
  ASSUME TypeInv, OneLeader, ClosedIsEmpty, NEW t \in Threads, Disturb(t)
  PROVE  ClosedIsEmpty'
<1> USE DEF Goto, queueVars, dbVars, callVars
<1>0. /\ OthersUntouched(t) /\ pc \in [Threads -> Labels]
  BY StepFrame DEF TypeInv, TypeOK, CallType
<1>1. CASE \/ \E j \in Jobs : Submit(t, j)
           \/ CallClose(t) \/ InterruptEnter(t) \/ InterruptBeforeSql(t) \/ InterruptPublish(t)
           \/ \E kind \in {"cancel", "error"} : InterruptLoop(t, kind) \/ InterruptClose(t, kind)
  <2>1. /\ UNCHANGED <<closed, dbOpen, pending, closing>> /\ active' \in {active, <<>>}
        /\ pc'[t] \notin Closing
    BY <1>0, <1>1 DEF Submit, CallClose, InterruptEnter, InterruptBeforeSql, InterruptPublish,
       InterruptLoop, InterruptClose, ReleaseLeader, Closing
  <2>2. IsClosed' => IsClosed
    BY <1>0, <2>1 DEF IsClosed, OthersUntouched
  <2> QED BY <2>1, <2>2 DEF ClosedIsEmpty, IsClosed
<1>2. CASE InterruptAccept(t) \/ (\E kind \in {"cancel", "error"} : InterruptClaim(t, kind))
  <2>1. ~closing \/ pending # <<>>
    BY <1>2 DEF InterruptAccept, Append1, InterruptClaim, TakeCohort
  <2>2. UNCHANGED <<closed, dbOpen>> /\ pc'[t] \notin Closing
    BY <1>0, <1>2 DEF InterruptAccept, InterruptClaim, Closing
  <2>3. IsClosed' => IsClosed
    BY <1>0, <2>2 DEF IsClosed, OthersUntouched
  <2> QED BY <2>1, <2>3 DEF ClosedIsEmpty, IsClosed
<1> QED BY <1>1, <1>2 DEF Disturb

-----------------------------------------------------------------------------
(* A caller is answered after the verdict of its accepted job.             *)

LEMMA AnsweredNext ==
  ASSUME TypeInv, CallsAreDistinct, OneLeader, QueueInOrder, JobsAreFollowed,
         AcceptedNotAbandoned, NEW t \in Threads, Step(t) \/ Disturb(t)
  PROVE  AcceptedNotAbandoned'
<1> USE DEF TypeInv, TypeOK, CallType, JobType, QueueType, Goto
<1>0. done \subseteq done' /\ crashes' = crashes
  BY FollowedStep, FollowedDisturb
<1>i. \A j : In(j, accepted) <=> j \in Range(accepted)
  BY InIsRange
<1>j. \A j : In(j, accepted)' <=> j \in Range(accepted')
  BY InIsRange DEF In
<1>1. CASE \E j \in Jobs : Submit(t, j)
  <2>1. PICK j \in Jobs : Submit(t, j)
    BY <1>1
  <2>2. told' = [told EXCEPT ![j] = "pending"] /\ accepted' = accepted
    BY <2>1 DEF Submit
  <2> QED BY <1>0, <1>i, <1>j, <2>2 DEF AcceptedNotAbandoned
<1>2. CASE CallClose(t) \/ UNCHANGED <<accepted, told>>
  <2>1. UNCHANGED <<accepted, told>>
    BY <1>2 DEF CallClose, jobVars
  <2> QED BY <1>0, <1>i, <1>j, <2>1 DEF AcceptedNotAbandoned
<1>3. CASE Append1(t) /\ UNCHANGED <<mine, told>>
  <2>1. /\ mine[t] \in Jobs /\ accepted' = Append(accepted, mine[t]) /\ pc[t] = "enter"
        /\ UNCHANGED told
    BY <1>3 DEF Append1, CallersHoldJobs
  <2>2. Range(accepted') = Range(accepted) \cup {mine[t]}
    BY <2>1, AppendRange
  <2>3. told[mine[t]] = "pending"
    BY <2>1, StoreAssumption DEF CallsAreDistinct, Calling, StoreAssumption
  <2> QED BY <1>0, <1>i, <1>j, <2>1, <2>2, <2>3 DEF AcceptedNotAbandoned
<1>4. CASE RefuseClosing(t) \/ RecheckAbsent(t) \/ Return(t)
  <2>1. /\ mine[t] \in Jobs /\ accepted' = accepted
        /\ \A j \in Jobs : j # mine[t] => told'[j] = told[j]
    BY <1>4 DEF RefuseClosing, RecheckAbsent, Return, Tell, CallersHoldJobs, jobVars
  <2>2. mine[t] \in Range(accepted) => mine[t] \in done
    <3>1. CASE RefuseClosing(t)
      BY <3>1 DEF RefuseClosing, CallsAreDistinct
    <3>2. CASE RecheckAbsent(t)
      <4>1. mine[t] \notin Followed /\ pc[t] # "idle"
        BY <3>2, InIsRange DEF RecheckAbsent, Accepted, Followed
      <4> QED BY <4>1 DEF JobsAreFollowed
    <3>3. CASE Return(t)
      BY <3>3 DEF Return
    <3> QED BY <1>4, <3>1, <3>2, <3>3
  <2> QED BY <1>0, <1>i, <1>j, <2>1, <2>2 DEF AcceptedNotAbandoned
<1>5. \/ RefuseClosing(t) \/ RecheckAbsent(t) \/ Return(t)
      \/ UNCHANGED <<accepted, told>>
      \/ Append1(t) /\ UNCHANGED <<mine, told>>
      \/ \E j \in Jobs : Submit(t, j)
  BY AnswerEffect
<1> QED BY <1>1, <1>2, <1>3, <1>4, <1>5

LEMMA QueueInvNext == QueueInv /\ [Next]_vars => QueueInv'
<1> SUFFICES ASSUME QueueInv, [Next]_vars PROVE QueueInv'
  OBVIOUS
<1> USE DEF QueueInv
<1>0. AckInv' /\ TypeInv
  BY AckInvNext DEF AckInv
<1>1. ASSUME NEW t \in Threads, Step(t) \/ Disturb(t) PROVE QueueInv'
  <2>1. CallsAreDistinct'
    BY <1>0, <1>1, CallsNext
  <2>2. OneLeader'
    BY <1>0, <1>1, LeaderStep, LeaderDisturb
  <2>3. QueueInOrder'
    BY <1>1, OrderStep, OrderDisturb
  <2>4. JobsAreFollowed'
    BY <1>0, <1>1, JobsNext
  <2>5. ClosedIsEmpty'
    BY <1>0, <1>1, ClosedStep, ClosedDisturb
  <2>6. AcceptedNotAbandoned'
    BY <1>0, <1>1, AnsweredNext
  <2> QED BY <1>0, <2>1, <2>2, <2>3, <2>4, <2>5, <2>6
<1>2. CASE Crash
  <2> USE <1>2, StoreAssumption DEF Crash, StoreAssumption, TypeInv, TypeOK, JobType
  <2>1. CallsAreDistinct'
    <3>1. Range(accepted) \subseteq Jobs
      BY <1>0 DEF Range
    <3>2. \A j \in Range(accepted) : told'[j] # "unsent"
      BY <3>1 DEF CallsAreDistinct
    <3>3. \A t \in Threads : pc'[t] = "idle"
      OBVIOUS
    <3> QED BY <3>2, <3>3 DEF CallsAreDistinct, Calling
  <2>2. OneLeader'
    BY DEF OneLeader, Working, Closing
  <2>3. QueueInOrder'
    <3>1. Range(<<>>) = {} /\ Ordered(accepted, <<>>)
      BY DEF Range, Ordered
    <3> QED BY <3>1 DEF QueueInOrder, Precedes
  <2>4. JobsAreFollowed'
    BY DEF JobsAreFollowed
  <2>5. ClosedIsEmpty'
    BY DEF ClosedIsEmpty, Closing
  <2>6. AcceptedNotAbandoned'
    <3>1. crashes' # 0
      BY <1>0 DEF BoundType
    <3> QED BY <3>1 DEF AcceptedNotAbandoned
  <2> QED BY <1>0, <2>1, <2>2, <2>3, <2>4, <2>5, <2>6
<1>3. CASE UNCHANGED vars
  <2> USE <1>3 DEF vars, queueVars, dbVars, jobVars, callVars, bounds
  <2>1. CallsAreDistinct' /\ OneLeader'
    BY DEF CallsAreDistinct, Calling, OneLeader
  <2>2. QueueInOrder' /\ JobsAreFollowed'
    BY DEF QueueInOrder, JobsAreFollowed, Followed
  <2>3. ClosedIsEmpty' /\ AcceptedNotAbandoned'
    BY DEF ClosedIsEmpty, AcceptedNotAbandoned, In
  <2> QED BY <1>0, <2>1, <2>2, <2>3
<1> QED BY <1>1, <1>2, <1>3 DEF Next

LEMMA QueueInvInit == Init => QueueInv
<1> SUFFICES ASSUME Init PROVE QueueInv
  OBVIOUS
<1> USE StoreAssumption DEF Init, StoreAssumption
<1>1. Range(<<>>) = {} /\ (\A q : Ordered(q, <<>>))
  BY DEF Range, Ordered
<1>2. AckInv
  BY <1>1, AckInvInit
<1>3. CallsAreDistinct
  BY <1>1 DEF CallsAreDistinct, Calling, IsInjective
<1>4. OneLeader
  BY DEF OneLeader, Working, Closing
<1>5. QueueInOrder
  BY <1>1 DEF QueueInOrder, Precedes
<1>6. JobsAreFollowed /\ ClosedIsEmpty
  BY DEF JobsAreFollowed, ClosedIsEmpty, Closing
<1>7. AcceptedNotAbandoned
  BY DEF AcceptedNotAbandoned, In
<1> QED BY <1>2, <1>3, <1>4, <1>5, <1>6, <1>7 DEF QueueInv

(* What the invariant says of the promise.                                 *)
LEMMA QueueIsOrderly == QueueInv => OrderlyQueue
<1> SUFFICES ASSUME QueueInv PROVE OrderlyQueue
  OBVIOUS
<1> USE DEF QueueInv, AckInv, TypeInv, TypeOK, QueueType, DbType, JobType, CallType
<1>0. /\ accepted \in Seq(Jobs) /\ IsInjective(accepted) /\ durable \in Seq(Jobs)
      /\ Ordered(accepted, durable) /\ DOMAIN durable = 1..Len(durable)
      /\ DOMAIN accepted = 1..Len(accepted)
  BY DEF CallsAreDistinct, QueueInOrder
<1>1. \A a, b : Before(accepted, a, b) => a # b
  BY <1>0, BeforeStrict
<1>2. NeverReplayed
  <2>1. ASSUME NEW i \in DOMAIN durable, NEW k \in DOMAIN durable, i # k
        PROVE  durable[i] # durable[k]
    <3>1. i < k \/ k < i
      BY <1>0, <2>1
    <3> QED BY <1>0, <1>1, <3>1 DEF Ordered
  <2>2. Range(pending) \cap Range(durable) = {}
    BY <1>1 DEF QueueInOrder, Precedes
  <2> QED BY <2>1, <2>2 DEF NeverReplayed, IsInjective
<1>3. FifoEvidence
  <2> SUFFICES ASSUME NEW i \in DOMAIN durable, NEW k \in DOMAIN durable,
                      NEW a \in DOMAIN accepted, NEW b \in DOMAIN accepted,
                      i < k, accepted[a] = durable[i], accepted[b] = durable[k]
               PROVE  a < b
    BY DEF FifoEvidence
  <2>1. PICK c, d \in DOMAIN accepted : c < d /\ accepted[c] = durable[i] /\ accepted[d] = durable[k]
    BY <1>0 DEF Ordered, Before
  <2>2. c = a /\ d = b
    BY <1>0, <2>1 DEF IsInjective
  <2> QED BY <2>1, <2>2
<1>4. SingleLeader
  <2>1. ASSUME NEW t \in Threads, pc[t] \in Working \cup Closing
        PROVE  writerActive /\ owner = t
    BY <2>1, StoreAssumption DEF OneLeader, StoreAssumption
  <2> QED BY <2>1 DEF SingleLeader, Working, Closing
<1>5. ClosedAfterLastJob
  <2>1. ASSUME ~dbOpen \/ closed, NEW t \in Threads, pc[t] \in {"settle", "recheck"},
               In(mine[t], accepted)
        PROVE  mine[t] \in done
    <3>1. Range(pending) = {} /\ Range(active) = {}
      BY <2>1 DEF ClosedIsEmpty, Range
    <3> QED BY <2>1, <3>1, InIsRange DEF JobsAreFollowed, Followed
  <2> QED BY <2>1 DEF ClosedAfterLastJob
<1> QED BY <1>2, <1>3, <1>4, <1>5 DEF OrderlyQueue

(* The queue is served in order and by one caller at a time: no executed   *)
(* job is ever inserted again or waits in the queue, evidence ids follow   *)
(* acceptance, the connection is closed after the last verdict, and no     *)
(* call returns before the verdict of its accepted job (store.py,          *)
(* _claim_batch to close).                                                 *)
THEOREM QueueOrderly == Spec => []OrderlyQueue
<1>1. Init => QueueInv
  BY QueueInvInit
<1> QED BY <1>1, QueueInvNext, QueueIsOrderly, PTL DEF Spec

-----------------------------------------------------------------------------
(* The Store implements the abstract log.  A job is out of reach once its  *)
(* caller was told that it will never be stored, or is about to be: such a *)
(* job is never again in a cohort that can be committed.                   *)

OutOfReach(j) == told[j] \in {"rejected", "refused", "lost"} \/ err[j] = "rejected"

OutInv ==
  /\ \A j \in Range(pending) : ~OutOfReach(j)
  /\ \A j \in Range(active) : OutOfReach(j) => started
  /\ \A t \in Threads : pc[t] \in {"lock", "execute"} => \A j \in Range(active) : ~OutOfReach(j)
  /\ \A t \in Threads : pc[t] = "commit" => \A j \in Range(txn) : ~OutOfReach(j)
  /\ \A j \in Jobs : err[j] = "rejected" => j \in Range(accepted) \ Range(durable)

LogInv == QueueInv /\ OutInv

(* A step after which no more jobs are out of reach.                       *)
LEMMA OutFewer ==
  ASSUME OutInv, TypeInv, NEW t \in Threads, OthersUntouched(t),
         \A j \in Jobs : OutOfReach(j)' => OutOfReach(j),
         \A j \in Jobs : err'[j] = "rejected" => err[j] = "rejected",
         \A j \in Range(pending') : j \in Jobs /\ ~OutOfReach(j),
         \/ active' = active /\ (started => started')
         \/ Range(active') \subseteq Range(pending),
         \A j \in Range(durable') : j \in Range(durable) \/ ~OutOfReach(j),
         Range(accepted) \subseteq Range(accepted'),
         pc'[t] \in {"lock", "execute"} => active' = active /\ (~started \/ pc[t] \in {"lock", "execute"}),
         pc'[t] # "commit",
         \A u \in Threads \ {t} : pc[u] = "commit" => txn' = txn
  PROVE  OutInv'
<1> USE DEF OutInv
<1>0. Range(pending) \subseteq Jobs /\ Range(active) \subseteq Jobs /\ Range(txn) \subseteq Jobs
  BY DEF TypeInv, TypeOK, QueueType, DbType, Range
<1>1. \A j \in Range(pending') : ~OutOfReach(j)'
  OBVIOUS
<1>2. \A j \in Range(active') : OutOfReach(j)' => started'
  BY <1>0
<1>3. \A u \in Threads : pc'[u] \in {"lock", "execute"} => \A j \in Range(active') : ~OutOfReach(j)'
  BY <1>0 DEF OthersUntouched
<1>4. \A u \in Threads : pc'[u] = "commit" => \A j \in Range(txn') : ~OutOfReach(j)'
  BY <1>0 DEF OthersUntouched
<1>5. \A j \in Jobs : err'[j] = "rejected" => j \in Range(accepted') \ Range(durable')
  BY DEF OutOfReach
<1> QED BY <1>1, <1>2, <1>3, <1>4, <1>5

LEMMA OutStep ==
  ASSUME QueueInv, OutInv, NEW t \in Threads, Step(t)
  PROVE  OutInv'
<1> USE DEF QueueInv, AckInv, Goto, queueVars, dbVars, jobVars, OutOfReach
<1>0. /\ OthersUntouched(t) /\ TypeInv /\ CallersHoldJobs
      /\ \A u \in Threads \ {t} : pc[u] = "commit" => txn' = txn
  BY StepFrame, TxnFrame DEF TypeInv
<1>p. /\ pc \in [Threads -> Labels] /\ pending \in Seq(Jobs) /\ active \in Seq(Jobs)
      /\ told \in [Jobs -> Verdicts] /\ err \in [Jobs -> {"none", "rejected", "failed"}]
      /\ batch \in [Threads -> Seq(Jobs)] /\ mine \in [Threads -> Jobs \cup {NoJob}]
      /\ durable \in Seq(Jobs) /\ txn \in Seq(Jobs) /\ accepted \in Seq(Jobs)
  BY DEF TypeInv, TypeOK, CallType, QueueType, JobType, DbType
<1>r. \A j \in Range(pending) : j \in Jobs /\ ~OutOfReach(j)
  BY <1>p DEF OutInv, Range
<1>e. Range(<<>>) = {}
  BY DEF Range
<1>1. CASE \/ WaitForCapacity(t) \/ RecheckAccepted(t) \/ WaitForLeader(t) \/ CloseReturns(t)
           \/ ExecuteFails(t) \/ RecoverStarted(t) \/ Rollback(t) \/ CloseDb(t)
           \/ RecoverFollower(t) \/ Lock(t) \/ Begin(t)
  <2>1. /\ UNCHANGED <<pending, active, told, err, durable, accepted>> /\ (started => started')
        /\ pc'[t] # "commit"
        /\ pc'[t] \in {"lock", "execute"} => ~started \/ pc[t] \in {"lock", "execute"}
    BY <1>p, <1>1 DEF WaitForCapacity, RecheckAccepted, WaitForLeader, Looping, CloseReturns,
       ExecuteFails, RecoverStarted, Rollback, CloseDb, RecoverFollower, AfterRecovery, Loop,
       Lock, Begin, OneLeader, callVars
  <2> QED BY <1>0, <1>r, <2>1, OutFewer
<1>2. CASE Return(t) \/ RecheckAbsent(t)
  <2>1. mine[t] \in Jobs
    BY <1>0, <1>2 DEF Return, RecheckAbsent, CallersHoldJobs
  <2>2. /\ UNCHANGED <<pending, active, started, err, durable, accepted>> /\ pc'[t] = "idle"
        /\ \A j \in Jobs : OutOfReach(j)' => OutOfReach(j)
    BY <1>p, <1>2, <2>1 DEF Return, RecheckAbsent, Tell, Verdict
  <2> QED BY <1>0, <1>r, <2>2, OutFewer
<1>3. CASE RefuseClosing(t)
  <2>1. /\ UNCHANGED <<queueVars, dbVars, accepted, err>> /\ pc[t] = "enter" /\ pc'[t] = "idle"
        /\ \A j \in Jobs \ {mine[t]} : told'[j] = told[j]
    BY <1>p, <1>3 DEF RefuseClosing, Tell
  <2>2. /\ mine[t] \notin Range(accepted)
        /\ mine[t] \notin Range(pending) \cup Range(active)
    BY <2>1 DEF CallsAreDistinct, QueueInOrder
  <2>3. \A u \in Threads : pc[u] = "commit" => Range(txn) \subseteq Range(active)
    BY DEF QueueInOrder
  <2>4. Range(pending) \subseteq Jobs /\ Range(active) \subseteq Jobs
    BY <1>p DEF Range
  <2>5. \A u \in Threads : pc'[u] \in {"lock", "execute", "commit"} => pc'[u] = pc[u]
    BY <1>0, <2>1 DEF OthersUntouched
  <2>6. \A j \in Range(pending) \cup Range(active) : OutOfReach(j)' <=> OutOfReach(j)
    BY <2>1, <2>2, <2>4
  <2> QED BY <2>1, <2>3, <2>5, <2>6 DEF OutInv
<1>4. CASE Accept(t)
  <2>1. /\ mine[t] \in Jobs /\ pending' = Append(pending, mine[t]) /\ pc[t] = "enter"
        /\ accepted' = Append(accepted, mine[t]) /\ pc'[t] = "settle"
        /\ UNCHANGED <<told, err, active, started, durable>>
    BY <1>0, <1>p, <1>4 DEF Accept, Append1, CallersHoldJobs
  <2>2. told[mine[t]] = "pending" /\ mine[t] \notin Range(accepted)
    BY <2>1, StoreAssumption DEF CallsAreDistinct, Calling, StoreAssumption
  <2>3. ~OutOfReach(mine[t])
    BY <2>1, <2>2 DEF OutInv
  <2>4. Range(pending') = Range(pending) \cup {mine[t]} /\ Range(accepted') = Range(accepted) \cup {mine[t]}
    BY <1>p, <2>1, AppendRange
  <2> QED BY <1>0, <1>r, <2>1, <2>3, <2>4, OutFewer
<1>5. CASE ClaimBatch(t)
  <2>1. Range(pending) = Range(Cohort) \cup Range(Remaining)
    BY <1>p, CohortOrder DEF QueueInOrder
  <2>2. /\ active' = Cohort /\ pending' = Remaining /\ UNCHANGED <<told, err, durable, accepted>>
        /\ pc'[t] = "begin"
    BY <1>p, <1>5 DEF ClaimBatch, TakeCohort
  <2> QED BY <1>0, <1>r, <2>1, <2>2, OutFewer
<1>6. CASE Execute(t)
  <2>1. PICK bad \in SUBSET Range(batch[t]) :
          /\ err' = [j \in Jobs |-> IF j \in bad THEN "rejected" ELSE err[j]]
          /\ txn' \in Inserted(t, bad)
    BY <1>6 DEF Execute
  <2>2. /\ pc[t] = "execute" /\ pc'[t] = "commit" /\ UNCHANGED <<pending, active, started, told>>
        /\ UNCHANGED <<durable, accepted>> /\ batch[t] = active /\ started /\ writerActive
    BY <1>p, <1>6, StoreAssumption DEF Execute, OneLeader, Working, StoreAssumption
  <2>3. Range(txn') = Range(active) \ bad
    BY <1>p, <2>1, <2>2, WithoutType DEF Inserted
  <2>4. /\ Range(active) \cap Range(pending) = {} /\ Range(active) \cap Range(durable) = {}
        /\ Range(active) \subseteq Range(accepted)
    BY <1>p, <2>2, BeforeStrict DEF QueueInOrder, Precedes, CallsAreDistinct
  <2>5. \A u \in Threads : pc'[u] \in {"lock", "execute", "commit"} => u = t
    BY <1>0, <2>2 DEF OthersUntouched, OneLeader, Working
  <2>6. \A j \in Range(active) : ~OutOfReach(j) /\ j \in Jobs
    BY <1>p, <2>2 DEF OutInv, Range
  <2>7. \A j \in Jobs : OutOfReach(j)' => OutOfReach(j) \/ j \in bad
    BY <2>1, <2>2
  <2>8. \A j \in Range(pending') : ~OutOfReach(j)'
    BY <1>r, <2>1, <2>2, <2>4, <2>7
  <2>9. \A j \in Range(txn') : ~OutOfReach(j)'
    BY <2>3, <2>6, <2>7
  <2>10. \A j \in Jobs : err'[j] = "rejected" => j \in Range(accepted') \ Range(durable')
    BY <2>1, <2>2, <2>4 DEF OutInv
  <2> QED BY <2>2, <2>5, <2>8, <2>9, <2>10 DEF OutInv
<1>7. CASE Commit(t) \/ CommitUncertain(t)
  <2>1. /\ pc[t] = "commit" /\ pc'[t] = "publish" /\ durable' \in {durable, durable \o txn}
        /\ UNCHANGED <<pending, active, started, told, err, accepted>>
    BY <1>p, <1>7 DEF Commit, CommitUncertain
  <2>2. Range(durable \o txn) = Range(durable) \cup Range(txn)
    BY <1>p, RangeConcatenation
  <2>3. \A j \in Range(durable') : j \in Range(durable) \/ ~OutOfReach(j)
    BY <2>1, <2>2 DEF OutInv
  <2> QED BY <1>0, <1>r, <2>1, <2>3, OutFewer
<1>8. CASE Publish(t) \/ Recovered(t) \/ MarkClosed(t) \/ ReserveClose(t)
  <2>1. /\ UNCHANGED <<pending, told, durable, accepted>> /\ active' = <<>>
        /\ \A j \in Jobs : err'[j] = "rejected" => err[j] = "rejected"
        /\ pc'[t] \notin {"lock", "execute", "commit"}
    BY <1>p, <1>8 DEF Publish, Settle, Recovered, AfterRecovery, Loop, MarkClosed, ReserveClose,
       ReleaseLeader
  <2> QED BY <1>0, <1>r, <1>e, <2>1, OutFewer
<1>9. CASE RequeueCohort(t) \/ FailCohort(t)
  <2>1. /\ UNCHANGED <<told, durable, accepted>> /\ active' = <<>> /\ ~started
        /\ \A j \in Jobs : err'[j] = "rejected" => err[j] = "rejected"
        /\ pc'[t] \notin {"lock", "execute", "commit"}
    BY <1>p, <1>9 DEF RequeueCohort, FailCohort, AfterRecovery, Loop, ReleaseLeader
  <2>2. ASSUME NEW rest \in Remainders PROVE rest \in Seq(Jobs) /\ Range(rest) \subseteq Range(pending)
    BY <1>p, WithoutType DEF Remainders
  <2>3. \A j \in Range(active) : j \in Jobs /\ ~OutOfReach(j)
    BY <1>p, <2>1 DEF OutInv, Range
  <2>4. Range(pending') \subseteq Range(pending) \cup Range(active)
    <3>1. CASE FailCohort(t)
      BY <2>2, <3>1 DEF FailCohort
    <3>2. CASE RequeueCohort(t)
      <4>1. PICK rest \in Remainders : pending' = active \o rest
        BY <3>2 DEF RequeueCohort, Requeued
      <4>2. Range(pending') = Range(active) \cup Range(rest)
        BY <1>p, <2>2, <4>1, RangeConcatenation
      <4> QED BY <2>2, <4>2
    <3> QED BY <1>9, <3>1, <3>2
  <2> QED BY <1>0, <1>r, <1>e, <2>1, <2>3, <2>4, OutFewer
<1>10. CASE Forget(t)
  <2>1. /\ UNCHANGED <<told, durable, accepted, active, started>> /\ pc'[t] = "settle"
        /\ \A j \in Jobs : err'[j] = "rejected" => err[j] = "rejected"
    BY <1>p, <1>10 DEF Forget
  <2>2. Range(pending') \subseteq Range(pending)
    BY <1>p, <1>10, WithoutType DEF Forget
  <2> QED BY <1>0, <1>r, <2>1, <2>2, OutFewer
<1> QED BY <1>1, <1>2, <1>3, <1>4, <1>5, <1>6, <1>7, <1>8, <1>9, <1>10 DEF Step

(* Only a commit changes what is durable.                                  *)
LEMMA DurableEffect ==
  ASSUME NEW t \in Threads, Step(t) \/ Disturb(t), ~Commit(t), ~CommitUncertain(t)
  PROVE  durable' = durable
<1> USE DEF dbVars
<1>1. CASE Step(t)
  BY <1>1 DEF Step, WaitForCapacity, RefuseClosing, Accept, RecheckAccepted, RecheckAbsent, Return,
     WaitForLeader, ClaimBatch, ReserveClose, CloseReturns, Begin, Lock, Execute, ExecuteFails,
     RecoverStarted, Rollback, CloseDb, MarkClosed, Forget, Publish, RecoverFollower,
     RequeueCohort, FailCohort, Recovered
<1>2. CASE Disturb(t)
  BY <1>2 DEF Disturb, Submit, CallClose, InterruptEnter, InterruptAccept, InterruptLoop,
     InterruptClaim, InterruptClose, InterruptBeforeSql, InterruptPublish
<1> QED BY <1>1, <1>2

LEMMA OutDisturb ==
  ASSUME QueueInv, OutInv, NEW t \in Threads, Disturb(t)
  PROVE  OutInv'
<1> USE DEF QueueInv, AckInv, Goto, queueVars, dbVars, jobVars, OutOfReach
<1>0. /\ OthersUntouched(t) /\ TypeInv /\ CallersHoldJobs
      /\ \A u \in Threads \ {t} : pc[u] = "commit" => txn' = txn
  BY StepFrame, TxnFrame DEF TypeInv
<1>p. /\ pc \in [Threads -> Labels] /\ pending \in Seq(Jobs) /\ active \in Seq(Jobs)
      /\ told \in [Jobs -> Verdicts] /\ err \in [Jobs -> {"none", "rejected", "failed"}]
      /\ mine \in [Threads -> Jobs \cup {NoJob}] /\ accepted \in Seq(Jobs)
  BY DEF TypeInv, TypeOK, CallType, QueueType, JobType
<1>r. \A j \in Range(pending) : j \in Jobs /\ ~OutOfReach(j)
  BY <1>p DEF OutInv, Range
<1>e. Range(<<>>) = {}
  BY DEF Range
<1>1. CASE \E j \in Jobs : Submit(t, j)
  <2>1. PICK j \in Jobs : told' = [told EXCEPT ![j] = "pending"]
    BY <1>1 DEF Submit
  <2>2. /\ UNCHANGED <<pending, active, started, err, durable, accepted>> /\ pc'[t] = "enter"
        /\ \A i \in Jobs : OutOfReach(i)' => OutOfReach(i)
    BY <1>p, <1>1, <2>1 DEF Submit
  <2> QED BY <1>0, <1>r, <2>2, OutFewer
<1>2. CASE CallClose(t) \/ InterruptEnter(t) \/ InterruptBeforeSql(t)
           \/ (\E kind \in {"cancel", "error"} : InterruptLoop(t, kind) \/ InterruptClose(t, kind))
  <2>1. /\ UNCHANGED <<pending, active, started, told, err, durable, accepted>>
        /\ pc'[t] \notin {"lock", "execute", "commit"}
    BY <1>p, <1>2 DEF CallClose, InterruptEnter, InterruptBeforeSql, InterruptLoop, InterruptClose
  <2> QED BY <1>0, <1>r, <2>1, OutFewer
<1>3. CASE InterruptAccept(t)
  <2>1. /\ mine[t] \in Jobs /\ pending' = Append(pending, mine[t]) /\ pc[t] = "enter"
        /\ accepted' = Append(accepted, mine[t]) /\ pc'[t] = "recheck"
        /\ UNCHANGED <<told, err, active, started, durable>>
    BY <1>0, <1>p, <1>3 DEF InterruptAccept, Append1, CallersHoldJobs
  <2>2. told[mine[t]] = "pending" /\ mine[t] \notin Range(accepted)
    BY <2>1, StoreAssumption DEF CallsAreDistinct, Calling, StoreAssumption
  <2>3. ~OutOfReach(mine[t])
    BY <2>1, <2>2 DEF OutInv
  <2>4. Range(pending') = Range(pending) \cup {mine[t]} /\ Range(accepted') = Range(accepted) \cup {mine[t]}
    BY <1>p, <2>1, AppendRange
  <2> QED BY <1>0, <1>r, <2>1, <2>3, <2>4, OutFewer
<1>4. ASSUME NEW kind \in {"cancel", "error"}, InterruptClaim(t, kind)
      PROVE  OutInv'
  <2>1. Range(pending) = Range(Cohort) \cup Range(Remaining)
    BY <1>p, CohortOrder DEF QueueInOrder
  <2>2. /\ active' = Cohort /\ pending' \in {pending, Remaining}
        /\ UNCHANGED <<told, err, durable, accepted>> /\ pc'[t] = "recover"
    BY <1>p, <1>4 DEF InterruptClaim, TakeCohort
  <2> QED BY <1>0, <1>r, <2>1, <2>2, OutFewer
<1>5. CASE InterruptPublish(t)
  <2>1. /\ UNCHANGED <<pending, told, durable, accepted>> /\ pc'[t] = "recover"
        /\ active' = <<>> \/ UNCHANGED <<active, started>>
        /\ \A j \in Jobs : err'[j] = "rejected" => err[j] = "rejected"
    BY <1>p, <1>5 DEF InterruptPublish, Settle, ReleaseLeader
  <2> QED BY <1>0, <1>r, <1>e, <2>1, OutFewer
<1> QED BY <1>1, <1>2, <1>3, <1>4, <1>5 DEF Disturb

LEMMA LogInvNext == LogInv /\ [Next]_vars => LogInv'
<1> SUFFICES ASSUME LogInv, [Next]_vars PROVE LogInv'
  OBVIOUS
<1> USE DEF LogInv
<1>0. QueueInv'
  BY QueueInvNext
<1>1. ASSUME NEW t \in Threads, Step(t) \/ Disturb(t) PROVE OutInv'
  BY <1>1, OutStep, OutDisturb
<1>2. ASSUME Crash PROVE OutInv'
  <2>1. Range(<<>>) = {}
    BY DEF Range
  <2> QED BY <1>2, <2>1 DEF Crash, OutInv
<1>3. ASSUME UNCHANGED vars PROVE OutInv'
  BY <1>3 DEF OutInv, OutOfReach, vars, queueVars, dbVars, jobVars, callVars
<1> QED BY <1>0, <1>1, <1>2, <1>3 DEF Next

LEMMA LogInvInit == Init => LogInv
<1>1. Range(<<>>) = {}
  BY DEF Range
<1> QED BY <1>1, QueueInvInit DEF Init, LogInv, OutInv

LEMMA LogSequences ==
  ASSUME NEW s
  PROVE  Log!Range(s) = Range(s) /\ (Log!IsInjective(s) <=> IsInjective(s))
BY DEF Log!Range, Range, Log!IsInjective, IsInjective

(* The group a commit adds to the log.                                     *)
LEMMA CommitAppends ==
  ASSUME LogInv, NEW t \in Threads, pc[t] = "commit", durable' = durable \o txn, told' = told
  PROVE  Log!Append1(SubSeq(durable', Len(durable) + 1, Len(durable')))
<1> USE DEF LogInv, QueueInv, AckInv, TypeInv, TypeOK, DbType, JobType, QueueType
<1>1. SubSeq(durable', Len(durable) + 1, Len(durable')) = txn
  BY SubSeqProperties, ConcatProperties
<1>2. writerActive /\ Ordered(accepted, txn) /\ Range(txn) \subseteq Range(active)
  BY StoreAssumption DEF OneLeader, Working, QueueInOrder, StoreAssumption
<1>3. \A a, b : Before(accepted, a, b) => a # b
  BY BeforeStrict DEF CallsAreDistinct
<1>4. IsInjective(txn)
  <2>1. ASSUME NEW i \in DOMAIN txn, NEW k \in DOMAIN txn, i # k
        PROVE  txn[i] # txn[k]
    <3>1. i < k \/ k < i
      BY <2>1
    <3> QED BY <1>2, <1>3, <3>1 DEF Ordered
  <2> QED BY <2>1 DEF IsInjective
<1>5. Range(txn) \cap Range(durable) = {}
  BY <1>2, <1>3 DEF QueueInOrder, Precedes
<1>6. ASSUME NEW j \in Range(txn)
      PROVE  j \in Jobs /\ told[j] \in {"pending", "interrupted", "failed"}
  <2>1. j \in Jobs
    BY DEF Range
  <2>4. ~OutOfReach(j)
    BY DEF OutInv
  <2>5. told[j] # "unsent"
    BY <1>2 DEF CallsAreDistinct, QueueInOrder
  <2>2. told[j] # "stored"
    BY <1>5, <2>1 DEF AcknowledgedIsDurable
  <2> QED BY <2>1, <2>4, <2>5, <2>2 DEF OutOfReach, Verdicts
<1> QED BY <1>1, <1>4, <1>5, <1>6, LogSequences DEF Log!Append1

LEMMA StepImplements ==
  ASSUME LogInv, NEW t \in Threads, Step(t) \/ Disturb(t)
  PROVE  Log!Next \/ UNCHANGED <<durable, told>>
<1> USE DEF LogInv, QueueInv, AckInv, TypeInv, TypeOK, DbType, JobType, CallType, dbVars
<1>1. CASE Commit(t) \/ CommitUncertain(t)
  <2>1. /\ pc[t] = "commit" /\ told' = told /\ durable' \in {durable, durable \o txn}
    BY <1>1 DEF Commit, CommitUncertain, jobVars
  <2> QED BY <2>1, CommitAppends DEF Log!Next
<1>2. CASE \E j \in Jobs : Submit(t, j)
  BY <1>2 DEF Submit, Log!Next, Log!Call
<1>3. CASE RefuseClosing(t) \/ RecheckAbsent(t) \/ Return(t)
  <2>1. mine[t] \in Jobs /\ told[mine[t]] = "pending" /\ durable' = durable
    BY <1>3, StoreAssumption DEF RefuseClosing, RecheckAbsent, Return, CallersHoldJobs,
       CallsAreDistinct, Calling, StoreAssumption
  <2>2. CASE RefuseClosing(t)
    <3>1. mine[t] \notin Range(durable)
      BY <2>2 DEF RefuseClosing, CallsAreDistinct, QueueInOrder
    <3> QED BY <2>1, <2>2, <3>1, LogSequences DEF RefuseClosing, Tell, Log!Next, Log!Answer
  <2>3. CASE RecheckAbsent(t)
    BY <2>1, <2>3 DEF RecheckAbsent, Tell, Log!Next, Log!Answer
  <2>4. CASE Return(t)
    <3>1. CASE err[mine[t]] = "rejected"
      <4>1. mine[t] \notin Range(durable)
        BY <2>1, <3>1 DEF OutInv
      <4>2. told' = [told EXCEPT ![mine[t]] = "rejected"]
        BY <2>4, <3>1 DEF Return, Tell, Verdict
      <4>3. Log!Answer(mine[t])
        BY <2>1, <4>1, <4>2, LogSequences DEF Log!Answer
      <4> QED BY <2>1, <4>3 DEF Log!Next
    <3>2. CASE err[mine[t]] = "failed"
      <4>1. told' = [told EXCEPT ![mine[t]] = "failed"]
        BY <2>4, <3>2 DEF Return, Tell, Verdict
      <4>2. Log!Answer(mine[t])
        BY <2>1, <4>1 DEF Log!Answer
      <4> QED BY <2>1, <4>2 DEF Log!Next
    <3>3. CASE err[mine[t]] = "none"
      <4>1. mine[t] \in Range(durable)
        BY <2>4, <3>3 DEF Return, CleanIsDurable
      <4>2. \E a \in {"stored", "interrupted"} : told' = [told EXCEPT ![mine[t]] = a]
        BY <2>4, <3>3 DEF Return, Tell, Verdict
      <4>3. CASE told' = [told EXCEPT ![mine[t]] = "stored"]
        <5>1. Log!Answer(mine[t])
          BY <2>1, <4>1, <4>3, LogSequences DEF Log!Answer
        <5> QED BY <2>1, <5>1 DEF Log!Next
      <4>4. CASE told' = [told EXCEPT ![mine[t]] = "interrupted"]
        <5>1. Log!Answer(mine[t])
          BY <2>1, <4>4 DEF Log!Answer
        <5> QED BY <2>1, <5>1 DEF Log!Next
      <4> QED BY <4>2, <4>3, <4>4
    <3> QED BY <2>1, <3>1, <3>2, <3>3
  <2> QED BY <1>3, <2>2, <2>3, <2>4
<1>4. ASSUME ~Commit(t), ~CommitUncertain(t) PROVE durable' = durable
  BY <1>4, DurableEffect
<1> QED BY <1>1, <1>2, <1>3, <1>4, AnswerEffect

(* Callers see the abstract log, whatever leads, interrupts or crashes: a  *)
(* row enters at most once and only for a caller that was not told that    *)
(* its write is refused or rejected, and answers are final (store.py,      *)
(* _submit).                                                               *)
THEOREM StoreImplementsLog == Spec => ImplementsLog
<1>1. Init => Log!Init
  BY DEF Init, Log!Init
<1>2. LogInv /\ [Next]_vars => [Log!Next]_(Log!logVars)
  <2> SUFFICES ASSUME LogInv, [Next]_vars PROVE Log!Next \/ UNCHANGED <<durable, told>>
    BY DEF Log!logVars
  <2>1. CASE \E t \in Threads : Step(t) \/ Disturb(t)
    BY <2>1, StepImplements
  <2>2. CASE Crash
    BY <2>2 DEF Crash, Log!Next, Log!Lose
  <2>3. CASE UNCHANGED vars
    BY <2>3 DEF vars, dbVars, jobVars
  <2> QED BY <2>1, <2>2, <2>3 DEF Next
<1> QED BY <1>1, <1>2, LogInvInit, LogInvNext, PTL DEF Spec, ImplementsLog, Log!Spec
=============================================================================
