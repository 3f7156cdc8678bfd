----------------------------- MODULE Collections -----------------------------
(* The archives of a case and its pointer to the latest one: collecting a    *)
(* run and sealing it (cli.run_trace, export.export_run), continuing a shared *)
(* collection from a frozen request (shared_collection.py), and publishing a *)
(* finished run whose worker died before it was sealed                       *)
(* (collection_recovery.py).                                                 *)
(*                                                                           *)
(* A collector or a recovery holds trace.lock from beginning to end.  The    *)
(* files of an archive are written one by one; SHA256SUMS seals it.          *)
EXTENDS Naturals, FiniteSets

CONSTANTS
  Runs,        \* identities of runs
  MaxFaults,   \* bound: deaths of the collector or of the recovery
  None

VARIABLES
  shared,      \* whether the case is the shared dataset of a workspace
  run,         \* the archive of each run
  latest,      \* latest_run in case.json
  requests,    \* prepared collections, by the run each continues
  proc,        \* the process that holds trace.lock
  faults
vars == <<shared, run, latest, requests, proc, faults>>

\* trace.json: the checkpoint, finished by the traversal and written again by
\* the export; or what a recovery made of a checkpoint.
Original == {"finished", "exported"}
Traces == {"none", "running", "recovered"} \cup Original
Empty == [trace |-> "none", of |-> None, parent |-> None, backup |-> None, audit |-> FALSE, sums |-> "none"]
Free == [pc |-> "free", run |-> None, original |-> None]

\* verify_export
Verified(r) == run[r].sums = "whole"
\* A previous interrupted installation keeps the original bytes.
Checkpoint(r) == IF run[r].backup # None THEN run[r].backup ELSE run[r].trace
Finished(r) == Checkpoint(r) \in Original
Go(pc) == proc' = [proc EXCEPT !.pc = pc]
Write(r, archive) == run' = [run EXCEPT ![r] = archive]

-----------------------------------------------------------------------------
\* prepare_collection freezes a request without holding trace.lock: the latest
\* run to continue, or a fresh collection.
prepare_collection ==
  /\ shared
  /\ \E resume \in {None} \cup {r \in Runs : r = latest /\ Verified(r)} :
       requests' = requests \cup {<<resume>>}
  /\ requests' # requests
  /\ UNCHANGED <<shared, run, latest, proc, faults>>

\* run_trace.  A private case may continue any verified run; a shared one only
\* the run its request names, if that is still the latest.
ContinuesAny(resume) == shared => <<resume>> \in requests /\ resume \in {None, latest}
Continues(resume) ==
  /\ resume # None => Verified(resume)
  /\ shared => <<resume>> \in requests /\ resume \in {None, latest}
Collect(r, resume) ==
  /\ proc = Free /\ run[r] = Empty /\ Continues(resume)
  /\ Write(r, [Empty EXCEPT !.trace = "running", !.parent = resume])
  /\ proc' = [Free EXCEPT !.pc = "tracing", !.run = r]
  /\ UNCHANGED <<shared, latest, requests, faults>>
Trace ==
  /\ proc.pc = "tracing"
  /\ Write(proc.run, [run[proc.run] EXCEPT !.trace = "finished"]) /\ Go("export")
  /\ UNCHANGED <<shared, latest, requests, faults>>
ExportTrace ==
  /\ proc.pc = "export"
  /\ Write(proc.run, [run[proc.run] EXCEPT !.trace = "exported"]) /\ Go("seal")
  /\ UNCHANGED <<shared, latest, requests, faults>>
Seal ==
  /\ proc.pc = "seal"
  /\ Write(proc.run, [run[proc.run] EXCEPT !.sums = "whole"]) /\ Go("point")
  /\ UNCHANGED <<shared, latest, requests, faults>>
save_latest ==
  /\ proc.pc = "point" /\ latest' = proc.run /\ proc' = Free
  /\ UNCHANGED <<shared, run, requests, faults>>

-----------------------------------------------------------------------------
\* recover_collection.  The candidates of _select: finished and unsealed, or
\* sealed by a recovery that did not come to the pointer.
OwnSealed(r) == run[r].sums # "none" /\ run[r].audit /\ latest # r /\ latest = run[r].parent
Candidates == {r \in Runs : (run[r].sums = "none" /\ Finished(r)) \/ OwnSealed(r)}
Selected(r) == Candidates = {r}
\* _verify: the parent is still the latest run, and intact.
Recoverable(r) ==
  /\ Finished(r) /\ latest = run[r].parent
  /\ run[r].parent # None => Verified(run[r].parent)
\* The run may be named; otherwise there must be one candidate.
Recover(r, named) ==
  /\ proc = Free /\ (named \/ Selected(r))
  /\ run[r].sums = "none" /\ Recoverable(r)
  /\ proc' = [pc |-> "backup", run |-> r, original |-> Checkpoint(r)]
  /\ UNCHANGED <<shared, run, latest, requests, faults>>
\* _finish_sealed_recovery
FinishSealed(r, named) ==
  /\ proc = Free /\ (named \/ Selected(r))
  /\ run[r].sums # "none" /\ latest # r /\ Verified(r)
  /\ run[r].audit /\ run[r].backup # None /\ run[r].trace = "recovered" /\ run[r].of = run[r].backup
  /\ Recoverable(r)
  /\ latest' = r
  /\ UNCHANGED <<shared, run, requests, proc, faults>>
\* The installation replaces the files of the archive, the original first and
\* SHA256SUMS last.
InstallBackup ==
  /\ proc.pc = "backup"
  /\ Write(proc.run, [run[proc.run] EXCEPT !.backup = proc.original]) /\ Go("audit")
  /\ UNCHANGED <<shared, latest, requests, faults>>
InstallAudit ==
  /\ proc.pc = "audit"
  /\ Write(proc.run, [run[proc.run] EXCEPT !.audit = TRUE]) /\ Go("trace")
  /\ UNCHANGED <<shared, latest, requests, faults>>
InstallTrace ==
  /\ proc.pc = "trace"
  /\ Write(proc.run, [run[proc.run] EXCEPT !.trace = "recovered", !.of = proc.original]) /\ Go("install")
  /\ UNCHANGED <<shared, latest, requests, faults>>
InstallSums ==
  /\ proc.pc = "install"
  /\ Write(proc.run, [run[proc.run] EXCEPT !.sums = "whole"]) /\ Go("point")
  /\ UNCHANGED <<shared, latest, requests, faults>>

\* The process dies; export_run may leave a partial SHA256SUMS, a recovery
\* renames a whole one into place.
Die ==
  /\ proc # Free /\ faults < MaxFaults /\ faults' = faults + 1
  /\ proc' = Free
  /\ \/ UNCHANGED run
     \/ /\ proc.pc = "seal"
        /\ Write(proc.run, [run[proc.run] EXCEPT !.sums = "partial"])
  /\ UNCHANGED <<shared, latest, requests>>

-----------------------------------------------------------------------------
Init ==
  /\ shared \in BOOLEAN /\ run = [r \in Runs |-> Empty] /\ latest = None /\ requests = {}
  /\ proc = Free /\ faults = 0
Collecting == Trace \/ ExportTrace \/ Seal \/ save_latest
Installing == InstallBackup \/ InstallAudit \/ InstallTrace \/ InstallSums
Recovering == \E r \in Runs : Recover(r, TRUE) \/ FinishSealed(r, TRUE)
Next ==
  \/ prepare_collection
  \/ \E r \in Runs, resume \in Runs \cup {None} : Collect(r, resume)
  \/ Collecting \/ Installing \/ Die
  \/ \E r \in Runs, named \in BOOLEAN : Recover(r, named) \/ FinishSealed(r, named)
\* A process that runs goes on; the investigator repeats a recovery.
Fairness == WF_vars(Collecting \/ Installing) /\ WF_vars(Recovering)
Spec == Init /\ [][Next]_vars /\ Fairness

-----------------------------------------------------------------------------
\* Every variable has its type.
TypeOK ==
  /\ run \in [Runs -> [trace : Traces, of : Traces \cup {None}, parent : Runs \cup {None},
                       audit : BOOLEAN, backup : Traces \cup {None},
                       sums : {"none", "partial", "whole"}]]
  /\ shared \in BOOLEAN /\ latest \in Runs \cup {None} /\ requests \subseteq {<<r>> : r \in Runs \cup {None}}
\* The pointer names a sealed archive, and so does every parent on the way to
\* the first run: what a case shows can be verified and continued.
LatestIsSealed ==
  /\ latest # None => Verified(latest)
  /\ \A r \in Runs : run[r].parent # None => Verified(run[r].parent)
\* A recovery publishes the checkpoint as the traversal or the export left it,
\* also when an earlier recovery died half way, and keeps those bytes.
OriginalIsKept ==
  \A r \in Runs :
    /\ run[r].backup # None => run[r].backup \in Original
    /\ run[r].audit /\ Verified(r) => run[r].trace = "recovered" /\ run[r].of = run[r].backup
\* A sealed archive never changes, and the shared collection moves on only from
\* its latest run or afresh: of two requests prepared for one run, the second
\* is refused.
SealedIsFrozen == [][\A r \in Runs : Verified(r) => run'[r] = run[r]]_vars
SharedAdvances == [][latest' # latest /\ shared => run[latest'].parent \in {None, latest}]_vars
\* A finished run whose worker died is published by a repeated recovery,
\* unless the case moved on.
Waiting(r) == run[r].sums = "none" /\ Recoverable(r)
RecoveryPublishes == []<>(\A r \in Runs : ~Waiting(r))
\* A collection whose traversal finished can be used or recovered, wherever the
\* phase after it was interrupted.
InterruptedIsRecoverable ==
  proc = Free => \A r \in Runs :
    run[r].trace \in Original /\ latest = run[r].parent => Verified(r) \/ run[r].sums = "none"
=============================================================================
