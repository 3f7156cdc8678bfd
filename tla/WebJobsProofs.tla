---------------------------- MODULE WebJobsProofs ----------------------------
(***************************************************************************)
(* What the local server promises of its jobs: those that would disturb     *)
(* each other are never active together, one provider at a time has the     *)
(* terminal, an active job stays known and can be cancelled, and a          *)
(* cancelled job never reports success.                                     *)
(***************************************************************************)
EXTENDS WebJobs, FiniteSetTheorems, TLAPS

-----------------------------------------------------------------------------
(* The invariant                                                           *)

Outcomes == {"succeeded", "failed", "canceled"}
Threads ==
  [pc : {"none", "gate", "spawn", "handoff", "watch", "judge", "finish", "report", "ended"},
   gated : BOOLEAN, previous : {None, <<None>>}, outcome : Outcomes \cup {None}]
Typed == TypeOK /\ thread \in [Jobs -> Threads] /\ active \in Jobs \cup {None}

Ended == {"none", "done", "failed"}
\* The worker has come as far as the step of its thread says.
WorkerInStep(j) ==
  /\ thread[j].pc \in {"none", "gate", "spawn"} => worker[j] = "none"
  /\ thread[j].pc = "handoff" => worker[j] \in {"prompting", "ready", "failed"}
  /\ thread[j].pc = "judge" => worker[j] \in {"done", "failed"}
  /\ thread[j].pc \in {"finish", "report", "ended"} => worker[j] \in Ended
\* A thread holds the gate from the step that won it to the step that gives it
\* back, and whoever asks or has the terminal is the one that holds it.
GateInStep(j) ==
  /\ thread[j].gated <=> gate = j
  /\ thread[j].gated => thread[j].pc \in {"spawn", "handoff", "watch", "finish"}
  /\ thread[j].pc = "handoff" => thread[j].gated
  /\ thread[j].pc = "spawn" /\ job[j].request.credentials => thread[j].gated
  /\ worker[j] \in {"prompting", "ready"} => thread[j].gated
TerminalInStep(j) ==
  /\ thread[j].previous # None => thread[j].gated /\ thread[j].pc \in {"watch", "finish"}
  /\ terminal = j => thread[j].previous # None /\ worker[j] # "working"
\* A thread that runs is that of an active job, and its outcome is success only
\* for a worker that ended well and was not cancelled before.
JobInStep(j) ==
  /\ thread[j].pc \notin {"none", "ended"} => IsActive(j)
  /\ thread[j].pc \in {"finish", "report"} => thread[j].outcome \in Outcomes
  /\ thread[j].outcome = "succeeded" => worker[j] = "done" /\ job[j].status # "cancelling"
\* The server names an active job as long as there is one.
ActiveNamed ==
  /\ active = None => \A j \in Jobs : ~IsActive(j)
  /\ active # None => IsActive(active)
\* No two active jobs reserve what conflicts, nor does one beside a saving.
Apart ==
  /\ \A i, j \in Jobs : IsActive(i) /\ IsActive(j) /\ i # j => ~conflicts(resource(i), resource(j))
  /\ \A c \in saving, j \in Jobs : IsActive(j) => job[j].request.case # c
  /\ saving # {} => \A j \in Jobs : IsActive(j) => resource(j).kind # "shared_collection"
JobsInv ==
  /\ Typed
  /\ \A j \in Jobs : WorkerInStep(j) /\ GateInStep(j) /\ TerminalInStep(j) /\ JobInStep(j)
  /\ ActiveNamed /\ Apart

-----------------------------------------------------------------------------
(* Steps of a thread or a worker                                           *)

\* Where no job starts, is cancelled or reports, the same jobs are active.
LEMMA SameJobs ==
  ASSUME ActiveNamed, Apart, UNCHANGED <<job, active>>, saving' \subseteq saving
  PROVE  ActiveNamed' /\ Apart'
<1>1. ActiveNamed'
  BY DEF ActiveNamed, IsActive
<1>2. Apart'
  BY DEF Apart, IsActive, resource
<1> QED
  BY <1>1, <1>2


LEMMA AwaitGateKeeps ==
  ASSUME WebJobsAssumption, JobsInv, NEW j \in Jobs, AwaitGate(j)
  PROVE  JobsInv'
<1>1. UNCHANGED <<job, active, saving>>
  BY DEF AwaitGate
<1>2. ActiveNamed' /\ Apart'
  BY <1>1, SameJobs DEF JobsInv
<1>3. Typed'
  <2>1. thread \in [Jobs -> Threads]
    BY DEF JobsInv, Typed
  <2>2. DOMAIN thread' = Jobs /\ thread' = [k \in Jobs |-> thread'[k]]
    BY <2>1 DEF AwaitGate, End
  <2>3. ASSUME NEW k \in Jobs PROVE thread'[k] \in Threads
    BY <2>1 DEF AwaitGate, End, Threads, Outcomes
  <2>4. thread' \in [Jobs -> Threads]
    BY <2>2, <2>3
  <2>5. TypeOK'
    BY DEF AwaitGate, JobsInv, Typed, TypeOK
  <2> QED
    BY <1>1, <2>4, <2>5 DEF JobsInv, Typed
<1>4. ASSUME NEW k \in Jobs
      PROVE  WorkerInStep(k)' /\ GateInStep(k)' /\ TerminalInStep(k)' /\ JobInStep(k)'
  <2>1. WorkerInStep(k)'
    BY <1>4 DEF AwaitGate, End, JobsInv, Typed, Threads, WorkerInStep, Ended
  <2>2. GateInStep(k)'
    BY <1>4 DEF AwaitGate, End, JobsInv, Typed, Threads, GateInStep
  <2>3. TerminalInStep(k)'
    BY <1>4 DEF AwaitGate, End, JobsInv, Typed, Threads, TerminalInStep
  <2>4. JobInStep(k)'
    <3>1. k # j => thread'[k] = thread[k]
      BY DEF AwaitGate, End, JobsInv, Typed
    <3>2. k = j => thread'[k].outcome \in {thread[k].outcome, "failed", "canceled"}
                   /\ (thread'[k].pc = "finish" => thread'[k].outcome \in Outcomes)
                   /\ thread'[k].pc \in {"spawn", "finish"} /\ thread[k].pc = "gate"
      BY DEF AwaitGate, End, JobsInv, Typed, Threads, Outcomes
    <3>3. worker' = worker /\ (IsActive(k)' <=> IsActive(k))
      BY <1>1 DEF AwaitGate, IsActive
    <3> QED
      BY <1>1, <3>1, <3>2, <3>3 DEF JobsInv, JobInStep
  <2> QED
    BY <2>1, <2>2, <2>3, <2>4
<1> QED
  BY <1>2, <1>3, <1>4 DEF JobsInv

LEMMA SpawnKeeps ==
  ASSUME WebJobsAssumption, JobsInv, NEW j \in Jobs, Spawn(j)
  PROVE  JobsInv'
<1>1. UNCHANGED <<job, active, saving>>
  BY DEF Spawn
<1>2. ActiveNamed' /\ Apart'
  BY <1>1, SameJobs DEF JobsInv
<1>3. Typed'
  <2>1. thread \in [Jobs -> Threads]
    BY DEF JobsInv, Typed
  <2>2. DOMAIN thread' = Jobs /\ thread' = [k \in Jobs |-> thread'[k]]
    BY <2>1 DEF Spawn, End
  <2>3. ASSUME NEW k \in Jobs PROVE thread'[k] \in Threads
    BY <2>1 DEF Spawn, End, Threads, Outcomes
  <2>4. thread' \in [Jobs -> Threads]
    BY <2>2, <2>3
  <2>5. TypeOK'
    BY DEF Spawn, End, WebJobsAssumption, JobsInv, Typed, TypeOK, Threads
  <2> QED
    BY <1>1, <2>4, <2>5 DEF JobsInv, Typed
<1>4. ASSUME NEW k \in Jobs
      PROVE  WorkerInStep(k)' /\ GateInStep(k)' /\ TerminalInStep(k)' /\ JobInStep(k)'
  <2>1. WorkerInStep(k)'
    BY <1>4 DEF Spawn, End, JobsInv, Typed, TypeOK, Threads, WorkerInStep, Ended, Stopping
  <2>2. GateInStep(k)'
    <3>1. /\ worker \in [Jobs -> {"none", "prompting", "ready", "working", "done", "failed"}]
          /\ thread \in [Jobs -> Threads] /\ gate' = gate /\ job' = job
          /\ GateInStep(k) /\ WorkerInStep(k)
      BY <1>4 DEF Spawn, JobsInv, Typed, TypeOK
    <3>2. CASE k # j
      <4>1. thread'[k] = thread[k] /\ worker'[k] = worker[k]
        BY <3>1, <3>2 DEF Spawn, End
      <4> QED
        BY <3>1, <4>1 DEF GateInStep
    <3>3. CASE k = j
      <4>1. thread'[j].gated = thread[j].gated /\ thread[j].pc = "spawn"
        BY <3>1 DEF Spawn, End, Threads
      <4>2. \/ thread'[j].pc = "finish" /\ worker' = worker
            \/ /\ thread'[j].pc = IF job[j].request.credentials THEN "handoff" ELSE "watch"
               /\ worker'[j] = IF job[j].request.credentials THEN "prompting" ELSE "working"
        BY <3>1 DEF Spawn, End, Threads
      <4> QED
        BY <3>1, <3>3, <4>1, <4>2 DEF GateInStep
    <3> QED
      BY <3>2, <3>3
  <2>3. TerminalInStep(k)'
    BY <1>4 DEF Spawn, End, JobsInv, Typed, TypeOK, Threads, TerminalInStep
  <2>4. JobInStep(k)'
    BY <1>4 DEF Spawn, End, JobsInv, Typed, TypeOK, Threads, Outcomes, WorkerInStep, JobInStep, IsActive
  <2> QED
    BY <2>1, <2>2, <2>3, <2>4
<1> QED
  BY <1>2, <1>3, <1>4 DEF JobsInv

LEMMA handoff_terminalKeeps ==
  ASSUME WebJobsAssumption, JobsInv, NEW j \in Jobs, handoff_terminal(j)
  PROVE  JobsInv'
<1>1. UNCHANGED <<job, active, saving>>
  BY DEF handoff_terminal
<1>2. ActiveNamed' /\ Apart'
  BY <1>1, SameJobs DEF JobsInv
<1>3. Typed'
  <2>1. thread \in [Jobs -> Threads]
    BY DEF JobsInv, Typed
  <2>2. DOMAIN thread' = Jobs /\ thread' = [k \in Jobs |-> thread'[k]]
    BY <2>1 DEF handoff_terminal
  <2>3. terminal = None
    BY DEF handoff_terminal, JobsInv, Typed, TypeOK, GateInStep, TerminalInStep
  <2>4. ASSUME NEW k \in Jobs PROVE thread'[k] \in Threads
    <3>1. CASE k # j
      BY <2>1, <3>1 DEF handoff_terminal
    <3>2. CASE k = j
      <4>1. thread'[k] = [thread[k] EXCEPT !.pc = "watch", !.previous = <<None>>]
        BY <2>1, <2>3, <3>2 DEF handoff_terminal
      <4>2. thread[k] \in Threads
        BY <2>1
      <4> QED
        BY <4>1, <4>2 DEF Threads
    <3> QED
      BY <3>1, <3>2
  <2>5. thread' \in [Jobs -> Threads]
    BY <2>2, <2>4
  <2>6. TypeOK'
    BY DEF handoff_terminal, WebJobsAssumption, JobsInv, Typed, TypeOK, Threads
  <2> QED
    BY <1>1, <2>5, <2>6 DEF JobsInv, Typed
<1>4. ASSUME NEW k \in Jobs
      PROVE  WorkerInStep(k)' /\ GateInStep(k)' /\ TerminalInStep(k)' /\ JobInStep(k)'
  <2>1. WorkerInStep(k)'
    BY <1>4 DEF handoff_terminal, JobsInv, Typed, WorkerInStep
  <2>2. GateInStep(k)'
    BY <1>4 DEF handoff_terminal, JobsInv, Typed, GateInStep
  <2>3. TerminalInStep(k)'
    BY <1>4 DEF handoff_terminal, WebJobsAssumption, JobsInv, Typed, TypeOK, WorkerInStep, GateInStep, TerminalInStep
  <2>4. JobInStep(k)'
    BY <1>4 DEF handoff_terminal, JobsInv, Typed, JobInStep, IsActive
  <2> QED
    BY <2>1, <2>2, <2>3, <2>4
<1> QED
  BY <1>2, <1>3, <1>4 DEF JobsInv

LEMMA AcknowledgeCredentialsKeeps ==
  ASSUME WebJobsAssumption, JobsInv, NEW j \in Jobs, AcknowledgeCredentials(j)
  PROVE  JobsInv'
<1>1. UNCHANGED <<job, active, saving>>
  BY DEF AcknowledgeCredentials
<1>2. ActiveNamed' /\ Apart'
  BY <1>1, SameJobs DEF JobsInv
<1>3. Typed'
  BY DEF AcknowledgeCredentials, Relinquish, JobsInv, Typed, Threads
<1>4. ASSUME NEW k \in Jobs
      PROVE  WorkerInStep(k)' /\ GateInStep(k)' /\ TerminalInStep(k)' /\ JobInStep(k)'
  <2>1. WorkerInStep(k)'
    BY <1>4 DEF AcknowledgeCredentials, Relinquish, JobsInv, Typed, WorkerInStep
  <2>2. GateInStep(k)'
    BY <1>4 DEF AcknowledgeCredentials, Relinquish, JobsInv, Typed, Threads
  <2>3. TerminalInStep(k)'
    BY <1>4 DEF AcknowledgeCredentials, Relinquish, JobsInv, Typed, Threads
  <2>4. JobInStep(k)'
    BY <1>4 DEF AcknowledgeCredentials, Relinquish, JobsInv, Typed, JobInStep, IsActive
  <2> QED
    BY <2>1, <2>2, <2>3, <2>4
<1> QED
  BY <1>2, <1>3, <1>4 DEF JobsInv

LEMMA StopWorkerKeeps ==
  ASSUME WebJobsAssumption, JobsInv, NEW j \in Jobs, StopWorker(j)
  PROVE  JobsInv'
<1>1. UNCHANGED <<job, active, saving>>
  BY DEF StopWorker
<1>2. ActiveNamed' /\ Apart'
  BY <1>1, SameJobs DEF JobsInv
<1>3. Typed'
  <2>1. thread \in [Jobs -> Threads]
    BY DEF JobsInv, Typed
  <2>2. DOMAIN thread' = Jobs /\ thread' = [k \in Jobs |-> thread'[k]]
    BY <2>1 DEF StopWorker, End, StopReason
  <2>3. ASSUME NEW k \in Jobs PROVE thread'[k] \in Threads
    BY <2>1 DEF StopWorker, End, StopReason, Threads, Outcomes
  <2>4. thread' \in [Jobs -> Threads]
    BY <2>2, <2>3
  <2>5. TypeOK'
    BY DEF StopWorker, JobsInv, Typed, TypeOK
  <2> QED
    BY <1>1, <2>4, <2>5 DEF JobsInv, Typed
<1>4. ASSUME NEW k \in Jobs
      PROVE  WorkerInStep(k)' /\ GateInStep(k)' /\ TerminalInStep(k)' /\ JobInStep(k)'
  <2>1. WorkerInStep(k)'
    BY <1>4 DEF StopWorker, End, JobsInv, Typed, TypeOK, WorkerInStep, Ended
  <2>2. GateInStep(k)'
    BY <1>4 DEF StopWorker, End, JobsInv, Typed, GateInStep
  <2>3. TerminalInStep(k)'
    BY <1>4 DEF StopWorker, End, JobsInv, Typed, TerminalInStep
  <2>4. JobInStep(k)'
    BY <1>4 DEF StopWorker, End, StopReason, JobsInv, Typed, Outcomes, JobInStep, IsActive
  <2> QED
    BY <2>1, <2>2, <2>3, <2>4
<1> QED
  BY <1>2, <1>3, <1>4 DEF JobsInv

LEMMA WorkerExitedKeeps ==
  ASSUME WebJobsAssumption, JobsInv, NEW j \in Jobs, WorkerExited(j)
  PROVE  JobsInv'
<1>1. UNCHANGED <<job, active, saving>>
  BY DEF WorkerExited
<1>2. ActiveNamed' /\ Apart'
  BY <1>1, SameJobs DEF JobsInv
<1>3. Typed'
  <2>1. thread \in [Jobs -> Threads]
    BY DEF JobsInv, Typed
  <2>2. DOMAIN thread' = Jobs /\ thread' = [k \in Jobs |-> thread'[k]]
    BY <2>1 DEF WorkerExited, restore_terminal, ReleaseGate, Relinquish
  <2>3. ASSUME NEW k \in Jobs PROVE thread'[k] \in Threads
    BY <2>1 DEF WorkerExited, restore_terminal, ReleaseGate, Relinquish, Threads, Outcomes
  <2>4. thread' \in [Jobs -> Threads]
    BY <2>2, <2>3
  <2>5. TypeOK'
    BY DEF WorkerExited, restore_terminal, ReleaseGate, JobsInv, Typed, TypeOK, Threads
  <2> QED
    BY <1>1, <2>4, <2>5 DEF JobsInv, Typed
<1>4. ASSUME NEW k \in Jobs
      PROVE  WorkerInStep(k)' /\ GateInStep(k)' /\ TerminalInStep(k)' /\ JobInStep(k)'
  <2>1. WorkerInStep(k)'
    BY <1>4 DEF WorkerExited, Relinquish, JobsInv, Typed, WorkerInStep
  <2>2. GateInStep(k)'
    BY <1>4 DEF WorkerExited, ReleaseGate, Relinquish, JobsInv, Typed, Threads, GateInStep
  <2>3. TerminalInStep(k)'
    BY <1>4 DEF WorkerExited, restore_terminal, Relinquish, JobsInv, Typed, Threads, TerminalInStep
  <2>4. JobInStep(k)'
    BY <1>4 DEF WorkerExited, Relinquish, JobsInv, Typed, JobInStep, IsActive
  <2> QED
    BY <2>1, <2>2, <2>3, <2>4
<1> QED
  BY <1>2, <1>3, <1>4 DEF JobsInv

LEMMA JudgeKeeps ==
  ASSUME WebJobsAssumption, JobsInv, NEW j \in Jobs, Judge(j)
  PROVE  JobsInv'
<1>1. UNCHANGED <<job, active, saving>>
  BY DEF Judge
<1>2. ActiveNamed' /\ Apart'
  BY <1>1, SameJobs DEF JobsInv
<1>3. Typed'
  <2>1. thread \in [Jobs -> Threads]
    BY DEF JobsInv, Typed
  <2>2. DOMAIN thread' = Jobs /\ thread' = [k \in Jobs |-> thread'[k]]
    BY <2>1 DEF Judge, End
  <2>3. ASSUME NEW k \in Jobs PROVE thread'[k] \in Threads
    BY <2>1 DEF Judge, End, Threads, Outcomes
  <2>4. thread' \in [Jobs -> Threads]
    BY <2>2, <2>3
  <2>5. TypeOK'
    BY DEF Judge, JobsInv, Typed, TypeOK
  <2> QED
    BY <1>1, <2>4, <2>5 DEF JobsInv, Typed
<1>4. ASSUME NEW k \in Jobs
      PROVE  WorkerInStep(k)' /\ GateInStep(k)' /\ TerminalInStep(k)' /\ JobInStep(k)'
  <2>1. WorkerInStep(k)'
    BY <1>4 DEF Judge, End, JobsInv, Typed, Threads, WorkerInStep, Ended
  <2>2. GateInStep(k)'
    BY <1>4 DEF Judge, End, JobsInv, Typed, Threads, GateInStep
  <2>3. TerminalInStep(k)'
    BY <1>4 DEF Judge, End, JobsInv, Typed, Threads, TerminalInStep
  <2>4. JobInStep(k)'
    BY <1>4 DEF Judge, End, JobsInv, Typed, Threads, Outcomes, JobInStep, IsActive
  <2> QED
    BY <2>1, <2>2, <2>3, <2>4
<1> QED
  BY <1>2, <1>3, <1>4 DEF JobsInv

LEMMA UnwindKeeps ==
  ASSUME WebJobsAssumption, JobsInv, NEW j \in Jobs, Unwind(j)
  PROVE  JobsInv'
<1>1. UNCHANGED <<job, active, saving>>
  BY DEF Unwind
<1>2. ActiveNamed' /\ Apart'
  BY <1>1, SameJobs DEF JobsInv
<1>3. Typed'
  <2>1. thread \in [Jobs -> Threads]
    BY DEF JobsInv, Typed
  <2>2. DOMAIN thread' = Jobs /\ thread' = [k \in Jobs |-> thread'[k]]
    BY <2>1 DEF Unwind, restore_terminal, ReleaseGate, Relinquish
  <2>3. ASSUME NEW k \in Jobs PROVE thread'[k] \in Threads
    BY <2>1 DEF Unwind, restore_terminal, ReleaseGate, Relinquish, Threads, Outcomes
  <2>4. thread' \in [Jobs -> Threads]
    BY <2>2, <2>3
  <2>5. TypeOK'
    BY DEF Unwind, restore_terminal, ReleaseGate, JobsInv, Typed, TypeOK, Threads
  <2> QED
    BY <1>1, <2>4, <2>5 DEF JobsInv, Typed
<1>4. ASSUME NEW k \in Jobs
      PROVE  WorkerInStep(k)' /\ GateInStep(k)' /\ TerminalInStep(k)' /\ JobInStep(k)'
  <2>1. WorkerInStep(k)'
    BY <1>4 DEF Unwind, Relinquish, JobsInv, Typed, WorkerInStep
  <2>2. GateInStep(k)'
    BY <1>4 DEF Unwind, ReleaseGate, Relinquish, JobsInv, Typed, Threads, GateInStep
  <2>3. TerminalInStep(k)'
    BY <1>4 DEF Unwind, restore_terminal, Relinquish, JobsInv, Typed, Threads, TerminalInStep
  <2>4. JobInStep(k)'
    BY <1>4 DEF Unwind, Relinquish, JobsInv, Typed, JobInStep, IsActive
  <2> QED
    BY <2>1, <2>2, <2>3, <2>4
<1> QED
  BY <1>2, <1>3, <1>4 DEF JobsInv

LEMMA WorkerReadyKeeps ==
  ASSUME WebJobsAssumption, JobsInv, NEW j \in Jobs, WorkerReady(j)
  PROVE  JobsInv'
<1>1. UNCHANGED <<job, active, saving>>
  BY DEF WorkerReady
<1>2. ActiveNamed' /\ Apart'
  BY <1>1, SameJobs DEF JobsInv
<1>3. Typed'
  BY DEF WorkerReady, WebJobsAssumption, JobsInv, Typed, TypeOK, Threads, Outcomes
<1>4. ASSUME NEW k \in Jobs
      PROVE  WorkerInStep(k)' /\ GateInStep(k)' /\ TerminalInStep(k)' /\ JobInStep(k)'
  <2>1. WorkerInStep(k)'
    BY <1>4 DEF WorkerReady, JobsInv, WorkerInStep, Ended
  <2>2. GateInStep(k)'
    BY <1>4 DEF WorkerReady, JobsInv, GateInStep
  <2>3. TerminalInStep(k)'
    BY <1>4 DEF WorkerReady, JobsInv, TerminalInStep
  <2>4. JobInStep(k)'
    BY <1>4 DEF WorkerReady, JobsInv, JobInStep, IsActive
  <2> QED
    BY <2>1, <2>2, <2>3, <2>4
<1> QED
  BY <1>2, <1>3, <1>4 DEF JobsInv

LEMMA WorkerEndsKeeps ==
  ASSUME WebJobsAssumption, JobsInv, NEW j \in Jobs, WorkerEnds(j)
  PROVE  JobsInv'
<1>1. UNCHANGED <<job, active, saving>>
  BY DEF WorkerEnds
<1>2. ActiveNamed' /\ Apart'
  BY <1>1, SameJobs DEF JobsInv
<1>3. Typed'
  BY DEF WorkerEnds, WebJobsAssumption, JobsInv, Typed, TypeOK, Threads, Outcomes
<1>4. ASSUME NEW k \in Jobs
      PROVE  WorkerInStep(k)' /\ GateInStep(k)' /\ TerminalInStep(k)' /\ JobInStep(k)'
  <2>1. WorkerInStep(k)'
    BY <1>4 DEF WorkerEnds, JobsInv, Typed, TypeOK, WorkerInStep, Ended
  <2>2. GateInStep(k)'
    BY <1>4 DEF WorkerEnds, JobsInv, Typed, TypeOK, GateInStep
  <2>3. TerminalInStep(k)'
    BY <1>4 DEF WorkerEnds, JobsInv, Typed, TypeOK, TerminalInStep
  <2>4. JobInStep(k)'
    BY <1>4 DEF WorkerEnds, JobsInv, Typed, TypeOK, JobInStep, IsActive
  <2> QED
    BY <2>1, <2>2, <2>3, <2>4
<1> QED
  BY <1>2, <1>3, <1>4 DEF JobsInv

-----------------------------------------------------------------------------
(* Steps of the server                                                     *)

JobRecords ==
  {Unknown} \cup
    [status : {"running", "cancelling", "succeeded", "failed", "canceled"}, request : Requests]

\* Forgetting jobs leaves every job as it is, or forgets one that had ended
\* before.
LEMMA Trimming ==
  ASSUME NEW all \in [Jobs -> JobRecords], NEW new \in Trimmed(all)
  PROVE  /\ new \in [Jobs -> JobRecords]
         /\ \A k \in Jobs : new[k] = all[k] \/ (new[k] = Unknown /\ k \in Finished)
<1>1. CASE new = all
  BY <1>1
<1>2. CASE \E j \in Finished : new = [all EXCEPT ![j] = Unknown]
  BY <1>2 DEF JobRecords, Finished
<1> QED
  BY <1>1, <1>2 DEF Trimmed

\* Of two resources that conflict each conflicts with the other.
LEMMA ConflictsBothWays ==
  ASSUME NEW a, NEW b, conflicts(a, b)
  PROVE  conflicts(b, a)
<1>1. {a.kind, b.kind} = {b.kind, a.kind}
  OBVIOUS
<1> QED
  BY <1>1 DEF conflicts

LEMMA start_jobKeeps ==
  ASSUME WebJobsAssumption, JobsInv, NEW j \in Jobs, NEW r \in Requests, start_job(j, r)
  PROVE  JobsInv'
<1> DEFINE started == [job EXCEPT ![j] = [status |-> "running", request |-> r]]
<1>1. job \in [Jobs -> JobRecords] /\ thread \in [Jobs -> Threads]
  BY DEF JobsInv, Typed, TypeOK, JobRecords
<1>2. started \in [Jobs -> JobRecords]
  BY <1>1 DEF JobRecords
<1>3. /\ job' \in [Jobs -> JobRecords]
      /\ \A k \in Jobs : job'[k] = started[k] \/ (job'[k] = Unknown /\ k \in Finished)
  <2>1. job' \in Trimmed(started)
    BY DEF start_job
  <2> HIDE DEF started
  <2> QED
    BY <1>2, <2>1, Trimming
<1>4. job[j].status = "unknown" /\ thread[j].pc = "none" /\ ~Reserved(r)
  BY DEF start_job
<1>5. job'[j] = [status |-> "running", request |-> r]
  BY <1>1, <1>3, <1>4 DEF Finished
<1>6. ASSUME NEW k \in Jobs, k # j
      PROVE  job'[k] = job[k] \/ (job'[k] = Unknown /\ k \in Finished)
  BY <1>3, <1>6
<1>7. ASSUME NEW k \in Jobs, k # j
      PROVE  (IsActive(k)' <=> IsActive(k)) /\ (IsActive(k) => job'[k] = job[k])
  BY <1>6, <1>7 DEF Finished, IsActive, Unknown
<1>8. Typed'
  <2>1. thread' \in [Jobs -> Threads]
    BY <1>1 DEF start_job, NoThread, Threads, Outcomes
  <2> QED
    BY <1>3, <2>1 DEF start_job, JobsInv, Typed, TypeOK, JobRecords
<1>9. ActiveNamed'
  BY <1>5, <1>7 DEF start_job, JobsInv, Typed, ActiveNamed, IsActive, WebJobsAssumption
<1>10. Apart'
  <2>1. ASSUME NEW k \in Jobs, IsActive(k), k # j
        PROVE  ~conflicts(resource(k), Resource(r)) /\ ~conflicts(Resource(r), resource(k))
    BY <1>4, <2>1, ConflictsBothWays DEF Reserved, Active
  <2>2. ASSUME NEW i \in Jobs, NEW k \in Jobs, IsActive(i)', IsActive(k)', i # k
        PROVE  ~conflicts(resource(i), resource(k))'
    <3>1. CASE i = j
      <4>1. resource(i)' = Resource(r) /\ resource(k)' = resource(k) /\ IsActive(k)
        BY <1>5, <1>7, <2>2, <3>1 DEF resource
      <4> QED
        BY <2>1, <2>2, <3>1, <4>1
    <3>2. CASE k = j
      <4>1. resource(k)' = Resource(r) /\ resource(i)' = resource(i) /\ IsActive(i)
        BY <1>5, <1>7, <2>2, <3>2 DEF resource
      <4> QED
        BY <2>1, <2>2, <3>2, <4>1
    <3>3. CASE i # j /\ k # j
      <4>1. resource(i)' = resource(i) /\ resource(k)' = resource(k) /\ IsActive(i) /\ IsActive(k)
        BY <1>7, <2>2, <3>3 DEF resource
      <4> QED
        BY <2>2, <4>1 DEF JobsInv, Apart
    <3> QED
      BY <3>1, <3>2, <3>3
  <2>3. ASSUME NEW c \in saving', NEW k \in Jobs, IsActive(k)'
        PROVE  job'[k].request.case # c
    BY <1>4, <1>5, <1>7, <2>3 DEF start_job, JobsInv, Apart, Reserved
  <2>4. ASSUME saving' # {}, NEW k \in Jobs, IsActive(k)'
        PROVE  resource(k)'.kind # "shared_collection"
    <3>1. CASE k = j
      BY <1>4, <1>5, <2>4, <3>1 DEF start_job, resource, Resource, Reserved
    <3>2. CASE k # j
      BY <1>7, <2>4, <3>2 DEF start_job, JobsInv, Apart, resource
    <3> QED
      BY <3>1, <3>2
  <2> QED
    BY <2>2, <2>3, <2>4 DEF Apart
<1>11. ASSUME NEW k \in Jobs
       PROVE  WorkerInStep(k)' /\ GateInStep(k)' /\ TerminalInStep(k)' /\ JobInStep(k)'
  <2>1. CASE k = j
    <3>1. thread'[k] = [NoThread EXCEPT !.pc = IF r.credentials THEN "gate" ELSE "spawn"]
      BY <1>1, <2>1 DEF start_job
    <3>2. WorkerInStep(k)'
      BY <1>4, <2>1, <3>1 DEF start_job, NoThread, JobsInv, WorkerInStep
    <3>3. GateInStep(k)'
      BY <1>1, <1>4, <1>5, <2>1, <3>1 DEF start_job, NoThread, JobsInv, GateInStep, WorkerInStep
    <3>4. TerminalInStep(k)'
      BY <1>4, <2>1, <3>1 DEF start_job, NoThread, JobsInv, TerminalInStep
    <3>5. JobInStep(k)'
      BY <1>5, <2>1, <3>1 DEF start_job, NoThread, JobInStep, IsActive, Outcomes, JobsInv, WebJobsAssumption
    <3> QED
      BY <3>2, <3>3, <3>4, <3>5
  <2>2. CASE k # j
    <3>1. thread'[k] = thread[k] /\ UNCHANGED <<worker, gate, terminal>>
      BY <1>1, <2>2 DEF start_job
    <3>2. WorkerInStep(k)' /\ TerminalInStep(k)'
      BY <3>1 DEF JobsInv, WorkerInStep, TerminalInStep
    <3>3. GateInStep(k)'
      BY <1>7, <2>2, <3>1 DEF JobsInv, GateInStep, JobInStep
    <3>4. JobInStep(k)'
      BY <1>6, <1>7, <2>2, <3>1 DEF JobsInv, JobInStep, IsActive, Unknown
    <3> QED
      BY <3>2, <3>3, <3>4
  <2> QED
    BY <2>1, <2>2
<1> QED
  BY <1>8, <1>9, <1>10, <1>11 DEF JobsInv

LEMMA ReportKeeps ==
  ASSUME WebJobsAssumption, JobsInv, NEW j \in Jobs, Report(j)
  PROVE  JobsInv'
<1> DEFINE told == [job EXCEPT ![j].status = thread[j].outcome]
<1>1. job \in [Jobs -> JobRecords] /\ thread \in [Jobs -> Threads]
  BY DEF JobsInv, Typed, TypeOK, JobRecords
<1>2. thread[j].pc = "report" /\ IsActive(j) /\ thread[j].outcome \in Outcomes
  BY DEF Report, Step, JobsInv, JobInStep
<1>3. told \in [Jobs -> JobRecords]
  <2>1. job[j] \in [status : {"running", "cancelling", "succeeded", "failed", "canceled"}, request : Requests]
    BY <1>1, <1>2 DEF JobRecords, IsActive, Unknown
  <2> QED
    BY <1>1, <1>2, <2>1 DEF JobRecords, Outcomes
<1>4. /\ job' \in [Jobs -> JobRecords]
      /\ \A k \in Jobs : job'[k] = told[k] \/ (job'[k] = Unknown /\ k \in Finished)
  <2>1. job' \in Trimmed(told)
    BY DEF Report
  <2> HIDE DEF told
  <2> QED
    BY <1>3, <2>1, Trimming
<1>5. job'[j].status = thread[j].outcome
  <2>1. job'[j] = told[j]
    BY <1>2, <1>4 DEF Finished, IsActive
  <2>2. job[j] \in [status : {"running", "cancelling", "succeeded", "failed", "canceled"}, request : Requests]
    BY <1>1, <1>2 DEF JobRecords, IsActive, Unknown
  <2> QED
    BY <1>1, <2>1, <2>2
<1>6. ASSUME NEW k \in Jobs, k # j
      PROVE  /\ job'[k] = job[k] \/ (job'[k] = Unknown /\ k \in Finished)
             /\ IsActive(k)' <=> IsActive(k)
             /\ IsActive(k) => job'[k] = job[k]
  <2>1. job'[k] = job[k] \/ (job'[k] = Unknown /\ k \in Finished)
    BY <1>1, <1>4, <1>6
  <2> QED
    BY <2>1 DEF Finished, IsActive, Unknown
<1>7. ~IsActive(j)'
  BY <1>2, <1>5 DEF IsActive, Outcomes
<1>8. Typed'
  <2>1. thread' \in [Jobs -> Threads]
    BY <1>1 DEF Report, Step, Threads
  <2>2. active' \in Jobs \cup {None}
    BY DEF Report, Active
  <2> QED
    BY <1>4, <2>1, <2>2 DEF Report, JobsInv, Typed, TypeOK, JobRecords
<1>9. ActiveNamed'
  <2>1. CASE Active \ {j} = {}
    <3>1. active' = None
      BY <2>1 DEF Report
    <3>2. \A k \in Jobs : ~IsActive(k)'
      BY <1>6, <1>7, <2>1 DEF Active
    <3> QED
      BY <3>1, <3>2 DEF ActiveNamed
  <2>2. CASE Active \ {j} # {}
    <3>1. active' \in Active /\ active' # j
      BY <2>2 DEF Report
    <3>2. active' \in Jobs /\ IsActive(active')
      BY <3>1 DEF Active
    <3>3. \A k \in Jobs : k # j => (IsActive(k)' <=> IsActive(k))
      BY <1>6
    <3>4. job'[active'].status \in {"running", "cancelling"}
      BY <3>1, <3>2, <3>3 DEF IsActive
    <3> QED
      BY <3>2, <3>4 DEF ActiveNamed, IsActive, WebJobsAssumption
  <2> QED
    BY <2>1, <2>2
<1>10. Apart'
  <2>1. \A k \in Jobs : IsActive(k)' => k # j /\ IsActive(k) /\ job'[k] = job[k] /\ resource(k)' = resource(k)
    BY <1>6, <1>7 DEF resource
  <2>2. saving' = saving
    BY DEF Report
  <2> QED
    BY <2>1, <2>2 DEF JobsInv, Apart
<1>11. ASSUME NEW k \in Jobs
       PROVE  WorkerInStep(k)' /\ GateInStep(k)' /\ TerminalInStep(k)' /\ JobInStep(k)'
  <2>1. UNCHANGED <<worker, gate, terminal>>
    BY DEF Report
  <2>2. CASE k = j
    <3>1. thread'[k] = [thread[k] EXCEPT !.pc = "ended"]
      BY <1>1, <2>2 DEF Report, Step
    <3>2. WorkerInStep(k)' /\ GateInStep(k)' /\ TerminalInStep(k)'
      BY <1>1, <1>2, <2>1, <2>2, <3>1 DEF JobsInv, WorkerInStep, GateInStep, TerminalInStep, Threads
    <3>3. JobInStep(k)'
      BY <1>1, <1>2, <1>5, <2>1, <2>2, <3>1 DEF JobsInv, JobInStep, Threads, Outcomes
    <3> QED
      BY <3>2, <3>3
  <2>3. CASE k # j
    <3>1. thread'[k] = thread[k]
      BY <1>1, <2>3 DEF Report, Step
    <3>2. WorkerInStep(k)' /\ TerminalInStep(k)'
      BY <2>1, <3>1 DEF JobsInv, WorkerInStep, TerminalInStep
    <3>3. GateInStep(k)'
      BY <1>6, <2>1, <2>3, <3>1 DEF JobsInv, GateInStep, JobInStep
    <3>4. JobInStep(k)'
      BY <1>6, <2>1, <2>3, <3>1 DEF JobsInv, JobInStep, IsActive, Unknown
    <3> QED
      BY <3>2, <3>3, <3>4
  <2> QED
    BY <2>2, <2>3
<1> QED
  BY <1>8, <1>9, <1>10, <1>11 DEF JobsInv

LEMMA cancel_jobKeeps ==
  ASSUME WebJobsAssumption, JobsInv, NEW j \in Jobs, cancel_job(j)
  PROVE  JobsInv'
<1>1. job \in [Jobs -> JobRecords]
  BY DEF JobsInv, Typed, TypeOK, JobRecords
<1>2. job[j] \in [status : {"running", "cancelling", "succeeded", "failed", "canceled"}, request : Requests]
  BY <1>1 DEF cancel_job, JobRecords, Unknown
<1>3. \A k \in Jobs : job'[k] = IF k = j THEN [job[k] EXCEPT !.status = "cancelling"] ELSE job[k]
  BY <1>1 DEF cancel_job
<1>4. \A k \in Jobs : (IsActive(k)' <=> IsActive(k)) /\ job'[k].request = job[k].request /\ resource(k)' = resource(k)
  BY <1>2, <1>3 DEF cancel_job, IsActive, resource
<1>5. Typed'
  BY <1>1, <1>2 DEF cancel_job, JobsInv, Typed, TypeOK, JobRecords
<1>6. ActiveNamed'
  BY <1>4 DEF cancel_job, JobsInv, Typed, ActiveNamed, IsActive
<1>7. Apart'
  BY <1>4 DEF cancel_job, JobsInv, Apart
<1>8. ASSUME NEW k \in Jobs
      PROVE  WorkerInStep(k)' /\ GateInStep(k)' /\ TerminalInStep(k)' /\ JobInStep(k)'
  <2>1. WorkerInStep(k)' /\ TerminalInStep(k)'
    BY DEF cancel_job, JobsInv, WorkerInStep, TerminalInStep
  <2>2. GateInStep(k)'
    BY <1>4 DEF cancel_job, JobsInv, GateInStep
  <2>3. JobInStep(k)'
    BY <1>3, <1>4 DEF cancel_job, JobsInv, JobInStep
  <2> QED
    BY <2>1, <2>2, <2>3
<1> QED
  BY <1>5, <1>6, <1>7, <1>8 DEF JobsInv

LEMMA ReserveSeedsKeeps ==
  ASSUME JobsInv, NEW c \in Cases, ReserveSeeds(c)
  PROVE  JobsInv'
<1>1. UNCHANGED <<job, thread, worker, gate, terminal, active>>
  BY DEF ReserveSeeds
<1>2. Typed' /\ ActiveNamed'
  BY <1>1 DEF ReserveSeeds, JobsInv, Typed, TypeOK, ActiveNamed, IsActive
<1>3. Apart'
  BY <1>1 DEF ReserveSeeds, JobsInv, Apart, Active, IsActive, resource
<1>4. \A k \in Jobs : WorkerInStep(k)' /\ GateInStep(k)' /\ TerminalInStep(k)' /\ JobInStep(k)'
  BY <1>1 DEF JobsInv, WorkerInStep, GateInStep, TerminalInStep, JobInStep, IsActive
<1> QED
  BY <1>2, <1>3, <1>4 DEF JobsInv

\* Savings that end, a shutdown that begins and stuttering disturb nothing.
LEMMA QuietKeeps ==
  ASSUME JobsInv, UNCHANGED <<job, thread, worker, gate, terminal, active>>, saving' \subseteq saving
  PROVE  JobsInv'
<1>1. Typed'
  BY DEF JobsInv, Typed, TypeOK
<1>2. ActiveNamed' /\ Apart'
  BY SameJobs DEF JobsInv
<1>3. \A k \in Jobs : WorkerInStep(k)' /\ GateInStep(k)' /\ TerminalInStep(k)' /\ JobInStep(k)'
  BY DEF JobsInv, WorkerInStep, GateInStep, TerminalInStep, JobInStep, IsActive
<1> QED
  BY <1>1, <1>2, <1>3 DEF JobsInv

LEMMA JobsInvInit == WebJobsAssumption /\ Init => JobsInv
<1> SUFFICES ASSUME WebJobsAssumption, Init PROVE JobsInv
  OBVIOUS
<1>1. Typed
  BY DEF Init, Typed, TypeOK, Threads, NoThread
<1>2. ActiveNamed /\ Apart
  BY DEF Init, ActiveNamed, Apart, IsActive, Unknown
<1>3. \A k \in Jobs : WorkerInStep(k) /\ GateInStep(k) /\ TerminalInStep(k) /\ JobInStep(k)
  BY DEF Init, WebJobsAssumption, NoThread, Outcomes, WorkerInStep, GateInStep, TerminalInStep, JobInStep
<1> QED
  BY <1>1, <1>2, <1>3 DEF JobsInv

LEMMA JobsInvNext == WebJobsAssumption /\ JobsInv /\ [Next]_vars => JobsInv'
<1> SUFFICES ASSUME WebJobsAssumption, JobsInv, [Next]_vars PROVE JobsInv'
  OBVIOUS
<1>1. ASSUME NEW j \in Jobs, NEW r \in Requests, start_job(j, r) PROVE JobsInv'
  BY <1>1, start_jobKeeps
<1>2. ASSUME NEW j \in Jobs, cancel_job(j) PROVE JobsInv'
  BY <1>2, cancel_jobKeeps
<1>3. ASSUME NEW j \in Jobs, run_job(j) PROVE JobsInv'
  BY <1>3, AwaitGateKeeps, SpawnKeeps, handoff_terminalKeeps, AcknowledgeCredentialsKeeps,
     StopWorkerKeeps, WorkerExitedKeeps, JudgeKeeps, UnwindKeeps, ReportKeeps DEF run_job
<1>4. ASSUME NEW j \in Jobs, WorkerReady(j) \/ WorkerEnds(j) PROVE JobsInv'
  BY <1>4, WorkerReadyKeeps, WorkerEndsKeeps
<1>5. ASSUME NEW c \in Cases, ReserveSeeds(c) PROVE JobsInv'
  BY <1>5, ReserveSeedsKeeps
<1>6. ASSUME NEW c \in Cases, SeedsSaved(c) PROVE JobsInv'
  BY <1>6, QuietKeeps DEF SeedsSaved
<1>7. ASSUME server_close PROVE JobsInv'
  BY <1>7, QuietKeeps DEF server_close
<1>8. ASSUME UNCHANGED vars PROVE JobsInv'
  BY <1>8, QuietKeeps DEF vars
<1> QED
  BY <1>1, <1>2, <1>3, <1>4, <1>5, <1>6, <1>7, <1>8 DEF Next

THEOREM JobsInvHolds == ASSUME WebJobsAssumption PROVE Spec => []JobsInv
<1>1. Init => JobsInv
  BY JobsInvInit
<1>2. JobsInv /\ [Next]_vars => JobsInv'
  BY JobsInvNext
<1> QED
  BY <1>1, <1>2, PTL DEF Spec
-----------------------------------------------------------------------------
(* What the server promises                                                *)

\* Resources of one case that collect, of one board, and of a deletion and what
\* it removes conflict.
LEMMA ConflictCases ==
  ASSUME NEW a, NEW b
  PROVE  /\ (/\ a.kind \in {"board", "board_delete"} /\ b.kind \in {"board", "board_delete"}
             /\ a.key = b.key /\ a.key # None /\ a.key # NewBoard) => conflicts(a, b)
         /\ (/\ a.kind = b.kind /\ a.kind \in {"collection", "exclusive"}
             /\ a.case # None /\ a.case = b.case) => conflicts(a, b)
         /\ (/\ a.kind = "shared_collection" /\ b.kind = "shared_collection"
             /\ a.key # None /\ a.key = b.key) => conflicts(a, b)
         /\ (/\ a.kind = "investigation_delete"
             /\ (a.case # None /\ a.case = b.case) \/ b.kind = "shared_collection") => conflicts(a, b)
<1>1. ASSUME a.kind = "board", b.kind = "board", a.key = b.key, a.key # None, a.key # NewBoard
      PROVE  conflicts(a, b)
  <2>1. {a.kind, b.kind} = {"board"} /\ "investigation_delete" \notin {a.kind, b.kind}
        /\ "board_delete" \notin {a.kind, b.kind} /\ "shared_collection" \notin {a.kind, b.kind}
    BY <1>1
  <2> QED
    BY <1>1, <2>1 DEF conflicts
<1>2. ASSUME a.kind \in {"board", "board_delete"}, b.kind \in {"board", "board_delete"},
             a.kind = "board_delete" \/ b.kind = "board_delete",
             a.key = b.key, a.key # None, a.key # NewBoard
      PROVE  conflicts(a, b)
  <2>1. "investigation_delete" \notin {a.kind, b.kind} /\ "board_delete" \in {a.kind, b.kind}
        /\ {a.kind, b.kind} \subseteq BoardKinds
    BY <1>2 DEF BoardKinds
  <2> QED
    BY <1>2, <2>1 DEF conflicts
<1>3. ASSUME a.kind = b.kind, a.kind \in {"collection", "exclusive"}, a.case # None, a.case = b.case
      PROVE  conflicts(a, b)
  <2>1. /\ "investigation_delete" \notin {a.kind, b.kind} /\ "board_delete" \notin {a.kind, b.kind}
        /\ "shared_collection" \notin {a.kind, b.kind}
        /\ "exclusive" \in {a.kind, b.kind} \/ {a.kind, b.kind} = {"collection"}
    BY <1>3
  <2> QED
    BY <1>3, <2>1 DEF conflicts
<1>4. ASSUME a.kind = "shared_collection", b.kind = "shared_collection", a.key # None, a.key = b.key
      PROVE  conflicts(a, b)
  <2>1. /\ "investigation_delete" \notin {a.kind, b.kind} /\ "board_delete" \notin {a.kind, b.kind}
        /\ "shared_collection" \in {a.kind, b.kind}
    BY <1>4
  <2> QED
    BY <1>4, <2>1 DEF conflicts
<1>5. ASSUME a.kind = "investigation_delete",
             (a.case # None /\ a.case = b.case) \/ b.kind = "shared_collection"
      PROVE  conflicts(a, b)
  <2>1. /\ "investigation_delete" \in {a.kind, b.kind}
        /\ (a.case # None /\ a.case = b.case) \/ "shared_collection" \in {a.kind, b.kind}
    BY <1>5
  <2> QED
    BY <2>1 DEF conflicts
<1> QED
  BY <1>1, <1>2, <1>3, <1>4, <1>5

\* Of two active jobs that would clash each reserved what the other did.
LEMMA ClashConflicts ==
  ASSUME WebJobsAssumption, NEW i \in Jobs, NEW j \in Jobs, Clash(i, j)
  PROVE  conflicts(resource(i), resource(j))
<1> DEFINE a == resource(i)
           b == resource(j)
<1>1. /\ a.case = job[i].request.case /\ b.case = job[j].request.case
      /\ a.kind = Kind(job[i].request) /\ a.key = Key(job[i].request)
      /\ b.kind = Kind(job[j].request) /\ b.key = Key(job[j].request)
  BY DEF resource, Resource
<1>2. a.kind = "shared_collection" => a.key = "workspace"
  BY <1>1 DEF Kind, Key
<1>3. b.kind = "shared_collection" => b.key = "workspace"
  BY <1>1 DEF Kind, Key
<1>4. CASE \E r \in Requests : r.board # None /\ Writes(i, r.board) /\ Writes(j, r.board)
  <2>1. PICK r \in Requests : r.board # None /\ Writes(i, r.board) /\ Writes(j, r.board)
    BY <1>4
  <2>2. /\ a.kind \in {"board", "board_delete"} /\ b.kind \in {"board", "board_delete"}
        /\ a.key = b.key /\ a.key # None /\ a.key # NewBoard
    BY <2>1 DEF Writes, WebJobsAssumption
  <2>3. conflicts(a, b)
    <3> HIDE DEF a, b
    <3> QED
      BY <2>2, ConflictCases
  <2> QED
    BY <2>3
<1>5. CASE a.kind = b.kind /\ Collects(i) /\ (SameCase(i, j) \/ a.kind = "shared_collection")
  <2>1. /\ a.kind = b.kind /\ a.kind \in {"collection", "shared_collection", "exclusive"}
        /\ (a.case # None /\ a.case = b.case) \/ a.kind = "shared_collection"
        /\ a.kind = "shared_collection" => a.key = b.key /\ a.key # None
    BY <1>1, <1>2, <1>3, <1>5 DEF Collects, SameCase, WebJobsAssumption
  <2>2. conflicts(a, b)
    <3> HIDE DEF a, b
    <3> QED
      BY <2>1, ConflictCases
  <2> QED
    BY <2>2
<1>6. CASE Deletes(i) /\ (SameCase(i, j) \/ b.kind = "shared_collection")
  <2>1. a.kind = "investigation_delete" /\ ((a.case # None /\ a.case = b.case) \/ b.kind = "shared_collection")
    BY <1>1, <1>6 DEF Deletes, SameCase
  <2>2. conflicts(a, b)
    <3> HIDE DEF a, b
    <3> QED
      BY <2>1, ConflictCases
  <2> QED
    BY <2>2
<1> QED
  BY <1>4, <1>5, <1>6 DEF Clash

LEMMA PromisesFollow == WebJobsAssumption /\ JobsInv => JobsAreApart /\ OneAtTheTerminal /\ ActiveIsKnown
<1> SUFFICES ASSUME WebJobsAssumption, JobsInv PROVE JobsAreApart /\ OneAtTheTerminal /\ ActiveIsKnown
  OBVIOUS
<1>1. JobsAreApart
  <2>1. \A i, j \in Active : i # j => ~Clash(i, j)
    BY ClashConflicts DEF JobsInv, Apart, Active
  <2> QED
    BY <2>1 DEF JobsInv, Apart, Active, JobsAreApart
<1>2. OneAtTheTerminal
  <2> DEFINE asking == {j \in Jobs : worker[j] = "prompting"}
  <2>1. \A i, j \in asking : i = j
    BY DEF JobsInv, GateInStep
  <2>2. Cardinality(asking) <= 1
    <3>1. CASE asking = {}
      BY <3>1, FS_EmptySet
    <3>2. CASE asking # {}
      <4>1. PICK j : j \in asking
        BY <3>2
      <4>2. asking = {j}
        BY <2>1, <4>1
      <4> HIDE DEF asking
      <4> QED
        BY <4>2, FS_Singleton
    <3> QED
      BY <3>1, <3>2
  <2>3. \A j \in Jobs : terminal = j => gate = j /\ worker[j] # "working"
    BY DEF JobsInv, GateInStep, TerminalInStep
  <2>4. \A j \in Jobs : gate = j => IsActive(j)
    BY DEF JobsInv, GateInStep, JobInStep
  <2> QED
    BY <2>2, <2>3, <2>4 DEF OneAtTheTerminal
<1>3. ActiveIsKnown
  <2>1. active = None <=> Active = {}
    BY DEF JobsInv, Typed, ActiveNamed, Active, WebJobsAssumption
  <2>2. \A j \in Finished : worker[j] \in {"none", "done", "failed"}
    <3>1. ASSUME NEW j \in Jobs, j \in Finished PROVE worker[j] \in {"none", "done", "failed"}
      <4>1. ~IsActive(j)
        BY <3>1 DEF Finished, IsActive
      <4>2. thread[j].pc \in {"none", "ended"}
        BY <4>1 DEF JobsInv, JobInStep
      <4> QED
        BY <4>2 DEF JobsInv, WorkerInStep, Ended
    <3> QED
      BY <3>1 DEF Finished
  <2> QED
    BY <2>1, <2>2 DEF JobsInv, ActiveNamed, JobInStep, ActiveIsKnown
<1> QED
  BY <1>1, <1>2, <1>3

\* Admission keeps apart what would disturb each other: two writers of a board,
\* two collections of a case or of the workspace, a deletion beside what it may
\* pull away, and a saving of seeds beside a job that reads them
\* (web._start_job, job_resources.conflicts).
THEOREM ApartKept == ASSUME WebJobsAssumption PROVE Spec => []JobsAreApart
<1>1. Init => JobsInv
  BY JobsInvInit
<1>2. JobsInv /\ [Next]_vars => JobsInv'
  BY JobsInvNext
<1>3. JobsInv => JobsAreApart
  BY PromisesFollow
<1> QED
  BY <1>1, <1>2, <1>3, PTL DEF Spec

\* One worker at a time asks for credentials, the terminal is the server's again
\* before its work starts, and no job that ended holds either
\* (web.run_job, handoff_terminal and restore_terminal).
THEOREM TerminalKept == ASSUME WebJobsAssumption PROVE Spec => []OneAtTheTerminal
<1>1. Init => JobsInv
  BY JobsInvInit
<1>2. JobsInv /\ [Next]_vars => JobsInv'
  BY JobsInvNext
<1>3. JobsInv => OneAtTheTerminal
  BY PromisesFollow
<1> QED
  BY <1>1, <1>2, <1>3, PTL DEF Spec

\* The server forgets only jobs that ended, names an active job while there is
\* one, and leaves no live worker behind a job that ended (web.trim_jobs, run_job).
THEOREM ActiveKept == ASSUME WebJobsAssumption PROVE Spec => []ActiveIsKnown
<1>1. Init => JobsInv
  BY JobsInvInit
<1>2. JobsInv /\ [Next]_vars => JobsInv'
  BY JobsInvNext
<1>3. JobsInv => ActiveIsKnown
  BY PromisesFollow
<1> QED
  BY <1>1, <1>2, <1>3, PTL DEF Spec

-----------------------------------------------------------------------------
(* Cancellation                                                            *)

\* Only the report of a job that is being cancelled takes it out of that state.
LEMMA CancelStep ==
  ASSUME WebJobsAssumption, JobsInv, [Next]_vars, NEW j \in Jobs, job[j].status = "cancelling"
  PROVE  job'[j].status \in {"cancelling", "canceled", "failed", "unknown"}
<1>1. job \in [Jobs -> JobRecords] /\ thread \in [Jobs -> Threads]
  BY DEF JobsInv, Typed, TypeOK, JobRecords
<1>2. ASSUME job' = job PROVE job'[j].status = "cancelling"
  BY <1>2
<1>3. ASSUME NEW i \in Jobs, NEW r \in Requests, start_job(i, r)
      PROVE  job'[j].status \in {"cancelling", "unknown"}
  <2> DEFINE started == [job EXCEPT ![i] = [status |-> "running", request |-> r]]
  <2>1. started \in [Jobs -> JobRecords] /\ job' \in Trimmed(started)
    BY <1>1, <1>3 DEF start_job, JobRecords
  <2>2. i # j /\ started[j] = job[j]
    BY <1>1, <1>3 DEF start_job
  <2> HIDE DEF started
  <2>3. job'[j] = job[j] \/ job'[j] = Unknown
    BY <2>1, <2>2, Trimming
  <2> QED
    BY <2>3 DEF Unknown
<1>4. ASSUME NEW i \in Jobs, cancel_job(i)
      PROVE  job'[j].status = "cancelling"
  <2>1. i # j
    BY <1>4 DEF cancel_job
  <2> QED
    BY <1>1, <1>4, <2>1 DEF cancel_job
<1>5. ASSUME NEW i \in Jobs, Report(i)
      PROVE  job'[j].status \in {"cancelling", "canceled", "failed", "unknown"}
  <2> DEFINE told == [job EXCEPT ![i].status = thread[i].outcome]
  <2>1. thread[i].pc = "report" /\ IsActive(i) /\ thread[i].outcome \in Outcomes
    BY <1>5 DEF Report, Step, JobsInv, JobInStep
  <2>2. job[i] \in [status : {"running", "cancelling", "succeeded", "failed", "canceled"}, request : Requests]
    BY <1>1, <2>1 DEF JobRecords, IsActive, Unknown
  <2>3. told \in [Jobs -> JobRecords] /\ job' \in Trimmed(told)
    BY <1>1, <1>5, <2>1, <2>2 DEF Report, JobRecords, Outcomes
  <2>4. told[j].status \in {"cancelling", "canceled", "failed"}
    <3>1. CASE i = j
      BY <1>1, <2>1, <2>2, <3>1 DEF JobsInv, JobInStep, Outcomes
    <3>2. CASE i # j
      BY <1>1, <3>2
    <3> QED
      BY <3>1, <3>2
  <2> HIDE DEF told
  <2>5. job'[j] = told[j] \/ job'[j] = Unknown
    BY <2>3, Trimming
  <2> QED
    BY <2>4, <2>5 DEF Unknown
<1>6. ASSUME NEW i \in Jobs, run_job(i)
      PROVE  job' = job \/ Report(i)
  BY <1>6 DEF run_job, AwaitGate, Spawn, handoff_terminal, AcknowledgeCredentials, StopWorker,
     WorkerExited, Judge, Unwind
<1>7. ASSUME NEW i \in Jobs, WorkerReady(i) \/ WorkerEnds(i)
      PROVE  job' = job
  BY <1>7 DEF WorkerReady, WorkerEnds
<1>8. ASSUME NEW c \in Cases, ReserveSeeds(c) \/ SeedsSaved(c)
      PROVE  job' = job
  BY <1>8 DEF ReserveSeeds, SeedsSaved
<1>9. ASSUME server_close \/ UNCHANGED vars
      PROVE  job' = job
  BY <1>9 DEF server_close, vars
<1> QED
  BY <1>2, <1>3, <1>4, <1>5, <1>6, <1>7, <1>8, <1>9 DEF Next

\* A job that was cancelled never reports success, whichever of its last steps
\* the cancellation meets (web.cancel_job, run_job).
THEOREM CancelKept == ASSUME WebJobsAssumption PROVE Spec => CancelHolds
<1>1. Init => JobsInv
  BY JobsInvInit
<1>2. JobsInv /\ [Next]_vars => JobsInv'
  BY JobsInvNext
<1>3. JobsInv /\ [Next]_vars => [\A j \in Jobs : job[j].status = "cancelling"
           => job'[j].status \in {"cancelling", "canceled", "failed", "unknown"}]_vars
  BY CancelStep
<1> QED
  BY <1>1, <1>2, <1>3, PTL DEF Spec, CancelHolds
=============================================================================
