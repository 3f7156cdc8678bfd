------------------------------ MODULE WebJobs ------------------------------
(* The jobs of the local web server (liquid_tracer/web.py, job_resources.py  *)
(* and web_worker.py): admission by resource, the thread of each job with    *)
(* its worker process, the one terminal in which providers ask for           *)
(* credentials, cancellation, saving of seeds and shutdown.  Handlers run    *)
(* under job_lock; the thread of a job takes it for single steps only.       *)
EXTENDS Naturals, FiniteSets

CONSTANTS
  Jobs,      \* identities of jobs
  Requests,  \* what browsers ask for: action, case, board, layout, preview
  Cases,     \* investigations
  History,   \* bound: finished jobs the server remembers
  MaxEdits,  \* bound: savings of seeds
  None

VARIABLES
  job,       \* what the server says of a job
  thread,    \* its thread: next step, credential gate held, terminal to restore, outcome
  worker,    \* its worker process
  gate,      \* the job that holds credential_lock
  terminal,  \* the job whose process group has the terminal
  active,    \* active_job
  saving,    \* pending_seed_edits
  closing,
  edits
vars == <<job, thread, worker, gate, terminal, active, saving, closing, edits>>

NewBoard == "new-board"
\* No job, outcome, record of a terminal or resource is the absence of one, and
\* a board of Miro is not called what the server calls one to be created.
WebJobsAssumption ==
  /\ None \notin Jobs /\ None \notin {"succeeded", "failed", "canceled"}
  /\ None # <<None>> /\ None # "workspace"
  /\ \A r \in Requests : r.board # NewBoard

-----------------------------------------------------------------------------
\* job_resources: what an action reserves
Cancellable == {"plot", "pegin-match", "lightning-lookup"}
Parallel == {"plot", "plot-sync", "board-create", "board-create-sync", "board-link", "board-sync"}
Kind(r) ==
  CASE r.action = "investigation-delete" -> "investigation_delete"
    [] r.action = "board-delete" -> "board_delete"
    [] r.action = "shared-trace" -> "shared_collection"
    [] r.action = "lightning-lookup" -> "lightning_lookup"
    [] r.action = "pegin-outputs" -> "pegin_lookup"
    [] r.action = "pegin-match" -> "pegin_index"
    [] r.action \in {"trace", "address-counts"} -> "collection"
    [] r.action = "scope-analyze" \/ (r.action = "plot" /\ ~r.updates) -> "plot"
    [] r.action \in Parallel /\ (r.action # "plot" \/ r.updates) ->
         IF r.legacy THEN "exclusive" ELSE "board"
    [] OTHER -> "exclusive"
\* One collection and one peg-in index for the workspace; a board by its id.
Key(r) ==
  IF r.action \in {"shared-trace", "pegin-match"} THEN "workspace"
  ELSE IF Kind(r) = "board" /\ r.board = None THEN NewBoard
  ELSE r.board
Resource(r) == [case |-> r.case, kind |-> Kind(r), key |-> Key(r)]

\* conflicts
BoardKinds == {"board", "board_delete", "exclusive"}
conflicts(a, b) ==
  LET sameCase == a.case # None /\ a.case = b.case
      sameKey == a.key # None /\ a.key = b.key
      kinds == {a.kind, b.kind}
  IN IF "investigation_delete" \in kinds THEN sameCase \/ "shared_collection" \in kinds
     ELSE IF "board_delete" \in kinds
     THEN sameCase \/ (sameKey /\ a.key # NewBoard /\ kinds \subseteq BoardKinds)
     ELSE IF "shared_collection" \in kinds THEN a.kind = b.kind /\ sameKey
     ELSE \/ sameCase /\ ("exclusive" \in kinds \/ kinds = {"collection"})
          \/ kinds \in {{"lightning_lookup"}, {"pegin_lookup"}}
          \/ kinds = {"pegin_index"} /\ sameKey
          \/ kinds = {"board"} /\ sameKey /\ (a.key # NewBoard \/ sameCase)

-----------------------------------------------------------------------------
Unknown == [status |-> "unknown", request |-> None]
NoThread == [pc |-> "none", gated |-> FALSE, previous |-> None, outcome |-> None]
IsActive(j) == job[j].status \in {"running", "cancelling"}
Active == {j \in Jobs : IsActive(j)}
Finished == {j \in Jobs : job[j].status \in {"succeeded", "failed", "canceled"}}
resource(j) == Resource(job[j].request)
Step(j, from, to) == thread[j].pc = from /\ thread' = [thread EXCEPT ![j].pc = to]
End(j, outcome) == thread' = [thread EXCEPT ![j].pc = "finish", ![j].outcome = outcome]
Stopping(j) == closing \/ job[j].status = "cancelling"
StopReason(j) == IF job[j].status = "cancelling" THEN "canceled" ELSE "failed"

\* trim_jobs forgets finished jobs, never active ones.
Trimmed(all) ==
  LET ended == {j \in Jobs : all[j].status \in {"succeeded", "failed", "canceled"}}
  IN IF Cardinality(ended) <= History THEN {all}
     ELSE {[all EXCEPT ![j] = Unknown] : j \in ended \cap Finished}

\* _start_job, with ensure_resources_available: all under job_lock.
\* The mutant: a save under way is not looked at.
ReservedIgnoringEdits(r) == closing \/ \E j \in Active : conflicts(resource(j), Resource(r))
Reserved(r) ==
  \/ closing
  \/ r.case \in saving
  \/ saving # {} /\ Kind(r) = "shared_collection"
  \/ \E j \in Active : conflicts(resource(j), Resource(r))
start_job(j, r) ==
  /\ job[j].status = "unknown" /\ thread[j].pc = "none" /\ ~Reserved(r)
  /\ job' \in Trimmed([job EXCEPT ![j] = [status |-> "running", request |-> r]])
  /\ active' = IF active = None THEN j ELSE active
  /\ thread' = [thread EXCEPT ![j] = [NoThread EXCEPT !.pc = IF r.credentials THEN "gate" ELSE "spawn"]]
  /\ UNCHANGED <<worker, gate, terminal, saving, closing, edits>>

\* cancel_job: the answer of a process that ended already stands.
cancel_job(j) ==
  /\ job[j].status = "running" /\ job[j].request.action \in Cancellable
  /\ worker[j] \notin {"done", "failed"}
  /\ job' = [job EXCEPT ![j].status = "cancelling"]
  /\ UNCHANGED <<thread, worker, gate, terminal, active, saving, closing, edits>>

\* save_case_seeds: reserved under job_lock, saved without it.
ReserveSeeds(c) ==
  /\ ~closing /\ c \notin saving /\ edits < MaxEdits
  /\ \A j \in Active : resource(j).kind # "shared_collection" /\ job[j].request.case # c
  /\ saving' = saving \cup {c} /\ edits' = edits + 1
  /\ UNCHANGED <<job, thread, worker, gate, terminal, active, closing>>
SeedsSaved(c) ==
  /\ c \in saving /\ saving' = saving \ {c}
  /\ UNCHANGED <<job, thread, worker, gate, terminal, active, closing, edits>>

\* server_close then joins the threads.
server_close ==
  /\ ~closing /\ closing' = TRUE
  /\ UNCHANGED <<job, thread, worker, gate, terminal, active, saving, edits>>

-----------------------------------------------------------------------------
\* run_job.  The wait for the gate checks for a stop every quarter of a second;
\* the gate may also be won after the check.
AwaitGate(j) ==
  /\ thread[j].pc = "gate"
  /\ \/ /\ gate = None /\ gate' = j
        /\ thread' = [thread EXCEPT ![j].pc = "spawn", ![j].gated = TRUE]
     \/ Stopping(j) /\ End(j, IF closing THEN "failed" ELSE "canceled") /\ UNCHANGED gate
  /\ UNCHANGED <<job, worker, terminal, active, saving, closing, edits>>
Spawn(j) ==
  /\ thread[j].pc = "spawn"
  /\ IF Stopping(j)
     THEN End(j, IF closing THEN "failed" ELSE "canceled") /\ UNCHANGED worker
     ELSE /\ worker' = [worker EXCEPT ![j] =
                          IF job[j].request.credentials THEN "prompting" ELSE "working"]
          /\ thread' = [thread EXCEPT ![j].pc = IF job[j].request.credentials THEN "handoff" ELSE "watch"]
  /\ UNCHANGED <<job, gate, terminal, active, saving, closing, edits>>
handoff_terminal(j) ==
  /\ thread[j].pc = "handoff"
  /\ terminal' = j
  /\ thread' = [thread EXCEPT ![j].pc = "watch", ![j].previous = <<terminal>>]
  /\ UNCHANGED <<job, worker, gate, active, saving, closing, edits>>

restore_terminal(j) ==
  terminal' = IF thread[j].previous = None THEN terminal ELSE thread[j].previous[1]
ReleaseGate(j) == gate' = IF thread[j].gated THEN None ELSE gate
Relinquish(j, pc) ==
  thread' = [thread EXCEPT ![j].pc = pc, ![j].gated = FALSE, ![j].previous = None]

\* The worker has its credentials and left the terminal: take that back, let
\* the worker go on and pass the gate to the next.
AcknowledgeCredentials(j) ==
  /\ thread[j].pc = "watch" /\ thread[j].gated /\ worker[j] = "ready"
  /\ restore_terminal(j) /\ ReleaseGate(j) /\ Relinquish(j, "watch")
  /\ worker' = [worker EXCEPT ![j] = "working"]
  /\ UNCHANGED <<job, active, saving, closing, edits>>
\* stop_worker: SIGTERM, then SIGKILL.
StopWorker(j) ==
  /\ thread[j].pc = "watch" /\ Stopping(j)
  /\ End(j, StopReason(j))
  /\ worker' = [worker EXCEPT ![j] = IF worker[j] = "done" THEN "done" ELSE "failed"]
  /\ UNCHANGED <<job, gate, terminal, active, saving, closing, edits>>
\* A provider that failed still relinquishes the gate.
WorkerExited(j) ==
  /\ thread[j].pc = "watch" /\ worker[j] \in {"done", "failed"}
  /\ restore_terminal(j) /\ ReleaseGate(j) /\ Relinquish(j, "judge")
  /\ UNCHANGED <<job, worker, active, saving, closing, edits>>
\* A worker that ended well may have left no valid result.
Judge(j) ==
  /\ thread[j].pc = "judge"
  /\ IF job[j].status = "cancelling" THEN End(j, "canceled")
     ELSE \/ worker[j] = "done" /\ End(j, "succeeded")
          \/ End(j, "failed")
  /\ UNCHANGED <<job, worker, gate, terminal, active, saving, closing, edits>>
Unwind(j) ==
  /\ thread[j].pc = "finish"
  /\ restore_terminal(j) /\ ReleaseGate(j) /\ Relinquish(j, "report")
  /\ UNCHANGED <<job, worker, active, saving, closing, edits>>
Report(j) ==
  /\ Step(j, "report", "ended")
  /\ job' \in Trimmed([job EXCEPT ![j].status = thread[j].outcome])
  /\ LET others == Active \ {j}
     IN IF others = {} THEN active' = None ELSE active' \in others
  /\ UNCHANGED <<worker, gate, terminal, saving, closing, edits>>

-----------------------------------------------------------------------------
\* The worker process (finish_terminal_handoff): it starts its work when the
\* server has acknowledged that it left the terminal, and gives up after 30 s.
WorkerReady(j) ==
  /\ worker[j] = "prompting" /\ worker' = [worker EXCEPT ![j] = "ready"]
  /\ UNCHANGED <<job, thread, gate, terminal, active, saving, closing, edits>>
WorkerEnds(j) ==
  /\ \/ worker[j] = "working" /\ worker' = [worker EXCEPT ![j] = "done"]
     \/ /\ worker[j] \in {"prompting", "ready", "working"}
        /\ worker' = [worker EXCEPT ![j] = "failed"]
  /\ UNCHANGED <<job, thread, gate, terminal, active, saving, closing, edits>>

Init ==
  /\ job = [j \in Jobs |-> Unknown] /\ thread = [j \in Jobs |-> NoThread]
  /\ worker = [j \in Jobs |-> "none"] /\ gate = None /\ terminal = None
  /\ active = None /\ saving = {} /\ closing = FALSE /\ edits = 0
run_job(j) ==
  \/ AwaitGate(j) \/ Spawn(j) \/ handoff_terminal(j) \/ AcknowledgeCredentials(j)
  \/ StopWorker(j) \/ WorkerExited(j) \/ Judge(j) \/ Unwind(j) \/ Report(j)
Next ==
  \/ \E j \in Jobs, r \in Requests : start_job(j, r)
  \/ \E j \in Jobs : cancel_job(j) \/ run_job(j) \/ WorkerReady(j) \/ WorkerEnds(j)
  \/ \E c \in Cases : ReserveSeeds(c) \/ SeedsSaved(c)
  \/ server_close
\* Python runs some thread that can go on; a worker may wait for a person for
\* ever.
Fairness == WF_vars(\E j \in Jobs : run_job(j))
Spec == Init /\ [][Next]_vars /\ Fairness

-----------------------------------------------------------------------------
\* Every variable has its type.
TypeOK ==
  /\ job \in [Jobs -> {Unknown} \cup
       [status : {"running", "cancelling", "succeeded", "failed", "canceled"}, request : Requests]]
  /\ worker \in [Jobs -> {"none", "prompting", "ready", "working", "done", "failed"}]
  /\ gate \in Jobs \cup {None} /\ terminal \in Jobs \cup {None} /\ saving \subseteq Cases

\* What must not run at the same time: two writers of one board, two
\* collections of a case or of the workspace, and a deletion beside anything it
\* may pull away.
Writes(j, board) == resource(j).kind \in {"board", "board_delete"} /\ resource(j).key = board
Deletes(j) == resource(j).kind = "investigation_delete"
Collects(j) == resource(j).kind \in {"collection", "shared_collection", "exclusive"}
SameCase(i, j) == job[i].request.case # None /\ job[i].request.case = job[j].request.case
Clash(i, j) ==
  \/ \E r \in Requests : r.board # None /\ Writes(i, r.board) /\ Writes(j, r.board)
  \/ resource(i).kind = resource(j).kind /\ Collects(i)
       /\ (SameCase(i, j) \/ resource(i).kind = "shared_collection")
  \/ Deletes(i) /\ (SameCase(i, j) \/ resource(j).kind = "shared_collection")
\* Jobs that would disturb each other are never active together, and no seeds
\* are saved beside a job that collects from them.
JobsAreApart ==
  /\ \A i, j \in Active : i # j => ~Clash(i, j)
  /\ \A c \in saving, j \in Active : job[j].request.case # c
  /\ saving # {} => \A j \in Active : resource(j).kind # "shared_collection"
\* One provider at a time asks in the terminal, a worker starts its work only
\* after the terminal was taken back, and a job that ended holds neither the
\* gate nor the terminal.
OneAtTheTerminal ==
  /\ Cardinality({j \in Jobs : worker[j] = "prompting"}) <= 1
  /\ \A j \in Jobs : terminal = j => gate = j /\ worker[j] # "working"
  /\ \A j \in Jobs : gate = j => IsActive(j)
\* An active job keeps its cancel button: the server never forgets it, and
\* names one as long as there is one.  A job that ended has no live worker.
ActiveIsKnown ==
  /\ active = None <=> Active = {}
  /\ active # None => IsActive(active)
  /\ \A j \in Jobs : thread[j].pc \notin {"none", "ended"} => IsActive(j)
  /\ \A j \in Finished : worker[j] \in {"none", "done", "failed"}
\* A job that was cancelled never reports success.
CancelHolds ==
  [][\A j \in Jobs : job[j].status = "cancelling"
       => job'[j].status \in {"cancelling", "canceled", "failed", "unknown"}]_vars
\* A job whose worker ended, that was cancelled or that a shutdown meets ends,
\* whatever its worker does.
Unended(j) == IsActive(j) /\ (Stopping(j) \/ worker[j] \in {"done", "failed"})
StopsEnd == []<>(\A j \in Jobs : ~Unended(j))
=============================================================================
