--------------------------- MODULE CollectionsProofs ---------------------------
(* What the operations on the files of a workspace keep (FilesAreKept of      *)
(* MC_Workspace).  First, that what a case shows is always sealed and          *)
(* complete, that a recovery keeps the original, and that a shared collection  *)
(* moves on from its latest run, for any number of runs, requests and deaths   *)
(* of a process.  Then the deletion of an investigation (CaseDeletion), the     *)
(* creation and the rebuild of its board (BoardRebuild), and the index of a     *)
(* shared collection with its projections (SnapshotIndex).                      *)
EXTENDS Collections, FiniteSets, FiniteSetTheorems, TLAPS

-----------------------------------------------------------------------------
(* The invariant                                                              *)

\* The process that holds trace.lock knows its archive: it is unsealed until the
\* last file is written, a collector's has no audit, a recovery's keeps the
\* original from the step that wrote it, and it goes on from the run that is
\* still the latest.
CollectorPcs == {"tracing", "export", "seal"}
RecoveryPcs == {"backup", "audit", "trace", "install"}
ProcOK ==
  /\ proc \in [pc : {"free", "point"} \cup CollectorPcs \cup RecoveryPcs, run : Runs \cup {None},
              original : Traces \cup {None}]
  /\ proc.pc # "free" => proc.run \in Runs
  /\ proc.pc \in CollectorPcs => run[proc.run].sums = "none" /\ ~run[proc.run].audit
  /\ proc.pc \in RecoveryPcs => run[proc.run].sums = "none" /\ proc.original \in Original
  /\ proc.pc \in {"audit", "trace", "install"} => run[proc.run].backup = proc.original
  /\ proc.pc = "install" => run[proc.run].trace = "recovered" /\ run[proc.run].of = proc.original
  /\ proc.pc = "point" => Verified(proc.run)
  /\ proc.pc # "free" /\ shared => run[proc.run].parent \in {None, latest}
IInv == TypeOK /\ ProcOK /\ LatestIsSealed /\ OriginalIsKept

Archives ==
  [trace : Traces, of : Traces \cup {None}, parent : Runs \cup {None}, audit : BOOLEAN,
   backup : Traces \cup {None}, sums : {"none", "partial", "whole"}]

\* What a recovery writes into an archive is an archive.
LEMMA ArchiveSets ==
  ASSUME NEW a \in Archives
  PROVE  /\ [a EXCEPT !.audit = TRUE] \in Archives
         /\ \A t \in Traces : [a EXCEPT !.trace = "recovered", !.of = t] \in Archives
<1>1. [a EXCEPT !.audit = TRUE] \in Archives
  BY DEF Archives
<1>2. "recovered" \in Traces
  BY DEF Traces
<1>3. ASSUME NEW t \in Traces PROVE [a EXCEPT !.trace = "recovered", !.of = t] \in Archives
  BY <1>2 DEF Archives
<1> QED
  BY <1>1, <1>3

LEMMA InitIInv == Init => IInv
BY DEF Init, IInv, TypeOK, ProcOK, LatestIsSealed, OriginalIsKept, Empty, Free, Traces, Original,
       CollectorPcs, RecoveryPcs

-----------------------------------------------------------------------------
(* Steps                                                                      *)

LEMMA PrepareKeeps ==
  ASSUME IInv, prepare_collection
  PROVE  IInv'
<1>1. TypeOK'
  BY DEF prepare_collection, IInv, TypeOK
<1>2. ProcOK'
  BY DEF prepare_collection, IInv, ProcOK, Verified
<1>3. LatestIsSealed'
  BY DEF prepare_collection, IInv, LatestIsSealed, Verified
<1>4. OriginalIsKept'
  BY DEF prepare_collection, IInv, OriginalIsKept, Verified
<1> QED
  BY <1>1, <1>2, <1>3, <1>4 DEF IInv

LEMMA CollectKeeps ==
  ASSUME IInv, NEW r \in Runs, NEW resume \in Runs \cup {None}, Collect(r, resume)
  PROVE  IInv'
<1>1. TypeOK'
  BY DEF Collect, Write, Empty, IInv, TypeOK, Traces
<1>2. ProcOK'
  BY DEF Collect, Continues, Write, Empty, IInv, TypeOK, ProcOK, CollectorPcs, RecoveryPcs
<1>3. LatestIsSealed'
  BY DEF Collect, Continues, Write, IInv, LatestIsSealed, Verified
<1>4. OriginalIsKept'
  BY DEF Collect, Write, Empty, IInv, OriginalIsKept, Verified
<1> QED
  BY <1>1, <1>2, <1>3, <1>4 DEF IInv

LEMMA TraceKeeps ==
  ASSUME IInv, Trace
  PROVE  IInv'
<1>1. TypeOK'
  BY DEF Trace, Write, IInv, TypeOK, ProcOK, Original, Traces
<1>2. ProcOK'
  BY DEF Trace, Write, Go, IInv, ProcOK, CollectorPcs, RecoveryPcs
<1>3. LatestIsSealed'
  BY DEF Trace, Write, IInv, LatestIsSealed, Verified
<1>4. OriginalIsKept'
  BY DEF Trace, Write, IInv, ProcOK, OriginalIsKept, Verified
<1> QED
  BY <1>1, <1>2, <1>3, <1>4 DEF IInv

LEMMA ExportTraceKeeps ==
  ASSUME IInv, ExportTrace
  PROVE  IInv'
<1>1. TypeOK'
  BY DEF ExportTrace, Write, IInv, TypeOK, ProcOK, Original, Traces
<1>2. ProcOK'
  BY DEF ExportTrace, Write, Go, IInv, ProcOK, CollectorPcs, RecoveryPcs
<1>3. LatestIsSealed'
  BY DEF ExportTrace, Write, IInv, LatestIsSealed, Verified
<1>4. OriginalIsKept'
  BY DEF ExportTrace, Write, IInv, ProcOK, OriginalIsKept, Verified
<1> QED
  BY <1>1, <1>2, <1>3, <1>4 DEF IInv

LEMMA SealKeeps ==
  ASSUME IInv, Seal
  PROVE  IInv'
<1>1. TypeOK'
  BY DEF Seal, Write, IInv, TypeOK, ProcOK
<1>2. ProcOK'
  BY DEF Seal, Write, Go, IInv, TypeOK, ProcOK, Verified, CollectorPcs, RecoveryPcs
<1>3. LatestIsSealed'
  BY DEF Seal, Write, IInv, LatestIsSealed, Verified
<1>4. OriginalIsKept'
  BY DEF Seal, Write, IInv, ProcOK, OriginalIsKept, Verified, RecoveryPcs
<1> QED
  BY <1>1, <1>2, <1>3, <1>4 DEF IInv

LEMMA InstallBackupKeeps ==
  ASSUME IInv, InstallBackup
  PROVE  IInv'
<1>1. TypeOK'
  BY DEF InstallBackup, Write, IInv, TypeOK, ProcOK
<1>2. ProcOK'
  BY DEF InstallBackup, Write, Go, IInv, TypeOK, ProcOK, CollectorPcs, RecoveryPcs
<1>3. LatestIsSealed'
  BY DEF InstallBackup, Write, IInv, LatestIsSealed, Verified
<1>4. OriginalIsKept'
  BY DEF InstallBackup, Write, IInv, ProcOK, OriginalIsKept, Verified, RecoveryPcs
<1> QED
  BY <1>1, <1>2, <1>3, <1>4 DEF IInv

LEMMA InstallAuditKeeps ==
  ASSUME IInv, InstallAudit
  PROVE  IInv'
<1>1. TypeOK'
  <2>1. run \in [Runs -> Archives] /\ proc.run \in Runs
    BY DEF InstallAudit, IInv, TypeOK, ProcOK, Archives
  <2>2. [run[proc.run] EXCEPT !.audit = TRUE] \in Archives
    BY <2>1, ArchiveSets
  <2>3. run' \in [Runs -> Archives]
    BY <2>1, <2>2 DEF InstallAudit, Write
  <2> QED
    BY <2>3 DEF InstallAudit, IInv, TypeOK, Archives
<1>2. ProcOK'
  <2>1. /\ proc.run \in Runs /\ run[proc.run] \in Archives
        /\ UNCHANGED <<latest, shared>>
    BY DEF InstallAudit, IInv, TypeOK, ProcOK, Archives
  <2>2. /\ proc' = [pc |-> "trace", run |-> proc.run, original |-> proc.original]
        /\ proc.original \in Original
    BY DEF InstallAudit, Go, IInv, ProcOK, RecoveryPcs
  <2>3. run'[proc.run] = [run[proc.run] EXCEPT !.audit = TRUE]
    BY <2>1 DEF InstallAudit, Write, IInv, TypeOK
  <2>4. /\ run'[proc.run].backup = proc.original /\ run'[proc.run].sums = "none"
        /\ run'[proc.run].parent = run[proc.run].parent
    BY <2>1, <2>3 DEF InstallAudit, IInv, ProcOK, RecoveryPcs, Archives
  <2>5. shared => run[proc.run].parent \in {None, latest}
    BY DEF InstallAudit, IInv, ProcOK
  <2> QED
    BY <2>1, <2>2, <2>4, <2>5 DEF ProcOK, CollectorPcs, RecoveryPcs, Original, Traces
<1>3. LatestIsSealed'
  BY DEF InstallAudit, Write, IInv, LatestIsSealed, Verified
<1>4. OriginalIsKept'
  BY DEF InstallAudit, Write, IInv, ProcOK, OriginalIsKept, Verified
<1> QED
  BY <1>1, <1>2, <1>3, <1>4 DEF IInv

LEMMA InstallTraceKeeps ==
  ASSUME IInv, InstallTrace
  PROVE  IInv'
<1>1. TypeOK'
  <2>1. run \in [Runs -> Archives] /\ proc.run \in Runs
    BY DEF InstallTrace, IInv, TypeOK, ProcOK, Archives
  <2>2. [run[proc.run] EXCEPT !.trace = "recovered", !.of = proc.original] \in Archives
    <3>1. proc.original \in Traces
      BY DEF InstallTrace, IInv, ProcOK, RecoveryPcs, Traces, Original
    <3> QED
      BY <2>1, <3>1, ArchiveSets
  <2>3. run' \in [Runs -> Archives]
    <3> DEFINE new == [run[proc.run] EXCEPT !.trace = "recovered", !.of = proc.original]
    <3>1. run' = [run EXCEPT ![proc.run] = new]
      BY DEF InstallTrace, Write
    <3> HIDE DEF new
    <3>2. new \in Archives
      BY <2>2 DEF new
    <3> QED
      BY <2>1, <3>1, <3>2
  <2> QED
    BY <2>3 DEF InstallTrace, IInv, TypeOK, Archives
<1>2. ProcOK'
  <2>1. /\ proc.run \in Runs /\ run[proc.run] \in Archives
        /\ UNCHANGED <<latest, shared>>
    BY DEF InstallTrace, IInv, TypeOK, ProcOK, Archives
  <2>2. /\ proc' = [pc |-> "install", run |-> proc.run, original |-> proc.original]
        /\ proc.original \in Original
    BY DEF InstallTrace, Go, IInv, ProcOK, RecoveryPcs
  <2>3. run'[proc.run] = [run[proc.run] EXCEPT !.trace = "recovered", !.of = proc.original]
    BY <2>1 DEF InstallTrace, Write, IInv, TypeOK
  <2>4. /\ run'[proc.run].backup = proc.original /\ run'[proc.run].sums = "none"
        /\ run'[proc.run].parent = run[proc.run].parent
        /\ run'[proc.run].trace = "recovered" /\ run'[proc.run].of = proc.original
    BY <2>1, <2>3 DEF InstallTrace, IInv, ProcOK, RecoveryPcs, Archives
  <2>5. shared => run[proc.run].parent \in {None, latest}
    BY DEF InstallTrace, IInv, ProcOK
  <2> QED
    BY <2>1, <2>2, <2>4, <2>5 DEF ProcOK, CollectorPcs, RecoveryPcs, Original, Traces
<1>3. LatestIsSealed'
  BY DEF InstallTrace, Write, IInv, LatestIsSealed, Verified
<1>4. OriginalIsKept'
  BY DEF InstallTrace, Write, IInv, ProcOK, OriginalIsKept, Verified
<1> QED
  BY <1>1, <1>2, <1>3, <1>4 DEF IInv

LEMMA InstallSumsKeeps ==
  ASSUME IInv, InstallSums
  PROVE  IInv'
<1>1. TypeOK'
  BY DEF InstallSums, Write, IInv, TypeOK, ProcOK
<1>2. ProcOK'
  BY DEF InstallSums, Write, Go, IInv, TypeOK, ProcOK, Verified, CollectorPcs, RecoveryPcs
<1>3. LatestIsSealed'
  BY DEF InstallSums, Write, IInv, LatestIsSealed, Verified
<1>4. OriginalIsKept'
  BY DEF InstallSums, Write, IInv, ProcOK, OriginalIsKept, Verified
<1> QED
  BY <1>1, <1>2, <1>3, <1>4 DEF IInv

LEMMA save_latestKeeps ==
  ASSUME IInv, save_latest
  PROVE  IInv'
<1>1. TypeOK'
  BY DEF save_latest, IInv, TypeOK, ProcOK
<1>2. ProcOK'
  BY DEF save_latest, Free, ProcOK, CollectorPcs, RecoveryPcs
<1>3. LatestIsSealed'
  BY DEF save_latest, IInv, ProcOK, LatestIsSealed, Verified
<1>4. OriginalIsKept'
  BY DEF save_latest, IInv, OriginalIsKept, Verified
<1> QED
  BY <1>1, <1>2, <1>3, <1>4 DEF IInv

LEMMA RecoverKeeps ==
  ASSUME IInv, NEW r \in Runs, NEW named, Recover(r, named)
  PROVE  IInv'
<1>1. TypeOK'
  BY DEF Recover, IInv, TypeOK
<1>2. ProcOK'
  BY DEF Recover, Recoverable, Finished, ProcOK, Traces, CollectorPcs, RecoveryPcs
<1>3. LatestIsSealed'
  BY DEF Recover, IInv, LatestIsSealed, Verified
<1>4. OriginalIsKept'
  BY DEF Recover, IInv, OriginalIsKept, Verified
<1> QED
  BY <1>1, <1>2, <1>3, <1>4 DEF IInv

LEMMA FinishSealedKeeps ==
  ASSUME IInv, NEW r \in Runs, NEW named, FinishSealed(r, named)
  PROVE  IInv'
<1>1. TypeOK'
  BY DEF FinishSealed, IInv, TypeOK
<1>2. ProcOK'
  BY DEF FinishSealed, Free, ProcOK, CollectorPcs, RecoveryPcs
<1>3. LatestIsSealed'
  BY DEF FinishSealed, IInv, LatestIsSealed, Verified
<1>4. OriginalIsKept'
  BY DEF FinishSealed, IInv, OriginalIsKept, Verified
<1> QED
  BY <1>1, <1>2, <1>3, <1>4 DEF IInv

LEMMA DieKeeps ==
  ASSUME IInv, Die
  PROVE  IInv'
<1>1. TypeOK'
  BY DEF Die, Write, IInv, TypeOK
<1>2. ProcOK'
  BY DEF Die, Free, ProcOK, CollectorPcs, RecoveryPcs
<1>3. LatestIsSealed'
  BY DEF Die, Write, IInv, TypeOK, ProcOK, LatestIsSealed, Verified
<1>4. OriginalIsKept'
  BY DEF Die, Write, IInv, TypeOK, OriginalIsKept, Verified
<1> QED
  BY <1>1, <1>2, <1>3, <1>4 DEF IInv

LEMMA NextIInv == IInv /\ [Next]_vars => IInv'
<1> SUFFICES ASSUME IInv, [Next]_vars PROVE IInv'
  OBVIOUS
<1>1. ASSUME prepare_collection PROVE IInv'
  BY <1>1, PrepareKeeps
<1>2. ASSUME NEW r \in Runs, NEW resume \in Runs \cup {None}, Collect(r, resume) PROVE IInv'
  BY <1>2, CollectKeeps
<1>3. ASSUME Collecting PROVE IInv'
  BY <1>3, TraceKeeps, ExportTraceKeeps, SealKeeps, save_latestKeeps DEF Collecting
<1>4. ASSUME Installing PROVE IInv'
  BY <1>4, InstallBackupKeeps, InstallAuditKeeps, InstallTraceKeeps, InstallSumsKeeps DEF Installing
<1>5. ASSUME Die PROVE IInv'
  BY <1>5, DieKeeps
<1>6. ASSUME NEW r \in Runs, NEW named \in BOOLEAN, Recover(r, named) \/ FinishSealed(r, named)
      PROVE  IInv'
  BY <1>6, RecoverKeeps, FinishSealedKeeps
<1>7. ASSUME UNCHANGED vars PROVE IInv'
  BY <1>7 DEF vars, IInv, TypeOK, ProcOK, LatestIsSealed, OriginalIsKept, Verified
<1> QED
  BY <1>1, <1>2, <1>3, <1>4, <1>5, <1>6, <1>7 DEF Next

\* A step writes the archive of its process while that is unsealed, or a new one.
LEMMA SealedStays == IInv /\ [Next]_vars => \A r \in Runs : Verified(r) => run'[r] = run[r]
<1> SUFFICES ASSUME IInv, [Next]_vars, NEW r \in Runs, Verified(r) PROVE run'[r] = run[r]
  OBVIOUS
<1> DEFINE Same == run'[r] = run[r]
<1>1. ASSUME NEW q \in Runs, NEW resume \in Runs \cup {None}, Collect(q, resume) PROVE Same
  BY <1>1 DEF Collect, Write, Empty, Verified, IInv, TypeOK
<1>2. ASSUME Collecting PROVE Same
  BY <1>2 DEF Collecting, Trace, ExportTrace, Seal, save_latest, Write, Verified, IInv, TypeOK,
              ProcOK, CollectorPcs
<1>3. ASSUME Installing PROVE Same
  BY <1>3 DEF Installing, InstallBackup, InstallAudit, InstallTrace, InstallSums, Write, Verified,
              IInv, TypeOK, ProcOK, RecoveryPcs
<1>4. ASSUME Die PROVE Same
  BY <1>4 DEF Die, Write, Verified, IInv, TypeOK, ProcOK, CollectorPcs
<1>5. ASSUME NEW q \in Runs, NEW named \in BOOLEAN, Recover(q, named) \/ FinishSealed(q, named)
      PROVE  Same
  BY <1>5 DEF Recover, FinishSealed
<1>6. ASSUME prepare_collection \/ UNCHANGED vars PROVE Same
  BY <1>6 DEF prepare_collection, vars
<1> QED
  BY <1>1, <1>2, <1>3, <1>4, <1>5, <1>6 DEF Next

\* Whoever moves the pointer moves it to a run that continues the latest one.
LEMMA LatestAdvances ==
  IInv /\ [Next]_vars => (latest' # latest /\ shared => run[latest'].parent \in {None, latest})
<1> SUFFICES ASSUME IInv, [Next]_vars, latest' # latest, shared
             PROVE  run[latest'].parent \in {None, latest}
  OBVIOUS
<1>1. CASE save_latest
  BY <1>1 DEF save_latest, IInv, ProcOK
<1>2. CASE \E q \in Runs, named \in BOOLEAN : FinishSealed(q, named)
  BY <1>2 DEF FinishSealed, Recoverable
<1>3. save_latest \/ \E q \in Runs, named \in BOOLEAN : FinishSealed(q, named)
  BY DEF Next, prepare_collection, Collect, Collecting, Trace, ExportTrace, Seal, Installing,
         InstallBackup, InstallAudit, InstallTrace, InstallSums, Die, Recover, vars
<1> QED
  BY <1>1, <1>2, <1>3

-----------------------------------------------------------------------------
(* What is promised                                                           *)

\* What a case shows can be verified and continued, and so can every parent on
\* the way to the first run, wherever a collector or a recovery dies
\* (cli.run_trace, export.export_run, collection_recovery.recover_collection).
THEOREM LatestSealed == Spec => []LatestIsSealed
<1>1. Init => IInv
  BY InitIInv
<1>2. IInv /\ [Next]_vars => IInv'
  BY NextIInv
<1>3. IInv => LatestIsSealed
  BY DEF IInv
<1> QED
  BY <1>1, <1>2, <1>3, PTL DEF Spec

\* A recovery publishes the checkpoint it found and keeps its bytes, also after
\* recoveries that died half way (collection_recovery._install).
THEOREM OriginalKept == Spec => []OriginalIsKept
<1>1. Init => IInv
  BY InitIInv
<1>2. IInv /\ [Next]_vars => IInv'
  BY NextIInv
<1>3. IInv => OriginalIsKept
  BY DEF IInv
<1> QED
  BY <1>1, <1>2, <1>3, PTL DEF Spec

\* No step changes a sealed archive.
THEOREM SealedFrozen == Spec => SealedIsFrozen
<1>1. Init => IInv
  BY InitIInv
<1>2. IInv /\ [Next]_vars => IInv'
  BY NextIInv
<1>3. IInv /\ [Next]_vars => [\A r \in Runs : Verified(r) => run'[r] = run[r]]_vars
  BY SealedStays
<1> QED
  BY <1>1, <1>2, <1>3, PTL DEF Spec, SealedIsFrozen

\* Of two requests prepared to continue one run of the shared collection, the
\* second is refused (shared_collection.prepare_collection, cli.run_trace).
THEOREM SharedMovesOn == Spec => SharedAdvances
<1>1. Init => IInv
  BY InitIInv
<1>2. IInv /\ [Next]_vars => IInv'
  BY NextIInv
<1>3. IInv /\ [Next]_vars =>
        [latest' # latest /\ shared => run[latest'].parent \in {None, latest}]_vars
  BY LatestAdvances
<1> QED
  BY <1>1, <1>2, <1>3, PTL DEF Spec, SharedAdvances

-----------------------------------------------------------------------------
(* The deletion of an investigation, for any number of commands, editors,     *)
(* deletions and changes of the directory under its name.                     *)
CONSTANTS Commands, Editors, Confirmed, Other, MaxSwaps, MaxDeletions

VARIABLES at, trash, content, record, deletion, user, ghost, swaps, deletions

D == INSTANCE CaseDeletion

DeletionSteps == {"rest", "opened", "locked", "checked", "recorded", "move", "moved", "cleanup"}
Recorded == {"recorded", "move", "moved", "cleanup"}
FilesLocked == Recorded \cup {"checked"}

\* The types; and a process that is at work has pinned a directory.
DeletionTypes ==
  /\ D!TypeOK /\ swaps \in Nat
  /\ deletion \in [pc : DeletionSteps, dir : D!Dirs \cup {None}, moved : D!Dirs \cup {None}]
  /\ deletion.pc # "rest" => deletion.dir \in D!Dirs
  /\ \A u \in D!Users : user[u].pc # "rest" => user[u].dir \in D!Dirs

\* What the deletion has checked, written and moved at each of its steps.
StepInv ==
  /\ deletion.pc \in FilesLocked => deletion.dir = Confirmed
  /\ deletion.pc \in Recorded => record[Confirmed] # None
  /\ deletion.pc \in {"moved", "cleanup"} => deletion.moved \in trash
  /\ deletion.pc = "cleanup" => deletion.moved = Confirmed

\* The locks exclude each other: the directory's that of commands, the files' that
\* of editors.
LockInv ==
  /\ \A u \in Commands : user[u].pc \in {"locked", "working"} => ~D!Deleting(user[u].dir)
  /\ \A u \in Editors : user[u].pc \in {"locked", "working"} => ~D!HoldsFiles(user[u].dir)

\* What has the name was not moved; and while nobody swaps directories the name is
\* the confirmed one's, and stays there as long as an edit works.
NameInv ==
  /\ at \notin trash
  /\ swaps = 0 =>
       /\ at # Other /\ \A u \in D!Users : user[u].dir # Other
       /\ \A u \in Editors : user[u].pc = "working" => at # None

DeletionInv == DeletionTypes /\ StepInv /\ LockInv /\ NameInv /\ D!WorkIsInPlace /\ D!OnlyConfirmedIsRemoved

\* The steps of a deletion that change several things.
LEMMA MoveCases ==
  ASSUME D!CaseDeletionAssumption, DeletionTypes, D!Move
  PROVE  /\ deletion.pc = "move" /\ UNCHANGED <<content, record, user, ghost, swaps, deletions>>
         /\ \/ at = None /\ UNCHANGED <<at, trash>> /\ deletion'.pc = "rest"
               /\ deletion'.dir = None /\ deletion'.moved = None
            \/ at \in D!Dirs /\ trash' = trash \cup {at} /\ at' = None /\ deletion'.pc = "moved"
               /\ deletion'.dir = deletion.dir /\ deletion'.moved = at
         /\ deletion' \in [pc : DeletionSteps, dir : D!Dirs \cup {None}, moved : D!Dirs \cup {None}]
<1>1. deletion \in [pc : DeletionSteps, dir : D!Dirs \cup {None}, moved : D!Dirs \cup {None}]
  BY DEF DeletionTypes
<1>2. CASE at = None
  BY <1>2 DEF D!Move, D!Rest, DeletionSteps
<1>3. CASE at # None
  <2>1. at \in D!Dirs
    BY <1>3 DEF DeletionTypes, D!TypeOK
  <2>2. deletion' = [deletion EXCEPT !.pc = "moved", !.moved = at]
    BY <1>3 DEF D!Move
  <2>3. deletion' = [pc |-> "moved", dir |-> deletion.dir, moved |-> at]
    BY <1>1, <2>2
  <2> QED
    BY <1>1, <1>3, <2>1, <2>3 DEF D!Move, DeletionSteps
<1> QED
  BY <1>2, <1>3

LEMMA ReceiptWritten ==
  ASSUME D!CaseDeletionAssumption, DeletionTypes, StepInv, D!WriteReceipt
  PROVE  /\ deletion.pc = "checked" /\ deletion'.pc = "recorded" /\ deletion.dir = Confirmed
         /\ deletion'.dir = deletion.dir /\ deletion'.moved = deletion.moved
         /\ record'[Confirmed] = "cleanup_pending" /\ "cleanup_pending" # None
         /\ UNCHANGED <<at, trash, content, user, ghost, swaps, deletions>>
<1>1. deletion \in [pc : DeletionSteps, dir : D!Dirs \cup {None}, moved : D!Dirs \cup {None}]
  BY DEF DeletionTypes
<1>2. deletion.dir = Confirmed /\ record \in [D!Dirs -> {None, "cleanup_pending", "deleted"}]
  BY DEF D!WriteReceipt, StepInv, FilesLocked, DeletionTypes, D!TypeOK
<1> QED
  BY <1>1, <1>2 DEF D!WriteReceipt, D!Go, D!Dirs, D!CaseDeletionAssumption

LEMMA DeletionTypesKept ==
  ASSUME D!CaseDeletionAssumption, DeletionTypes, [D!Next]_(D!vars)
  PROVE  DeletionTypes'
<1> USE DEF D!CaseDeletionAssumption, D!In, D!Become, D!Leave, D!Go, D!Rest, D!Users, D!Dirs,
    DeletionTypes, D!TypeOK, DeletionSteps
<1>1. ASSUME NEW u \in D!Users, D!OpenCase(u) PROVE DeletionTypes'
  BY <1>1 DEF D!OpenCase
<1>2. ASSUME NEW u \in D!Users, D!Guard(u) PROVE DeletionTypes'
  BY <1>2 DEF D!Guard
<1>3. ASSUME NEW u \in D!Users, D!SameDirectory(u) PROVE DeletionTypes'
  BY <1>3 DEF D!SameDirectory
<1>4. ASSUME NEW u \in D!Users, D!EndCommand(u) PROVE DeletionTypes'
  BY <1>4 DEF D!EndCommand
<1>5. ASSUME NEW u \in D!Users, D!LockSettings(u) PROVE DeletionTypes'
  BY <1>5 DEF D!LockSettings, D!Editing
<1>6. ASSUME NEW u \in D!Users, D!ReadCase(u) PROVE DeletionTypes'
  BY <1>6 DEF D!ReadCase
<1>7. ASSUME NEW u \in D!Users, D!SaveSettings(u) PROVE DeletionTypes'
  BY <1>7 DEF D!SaveSettings
<1>8. CASE D!Begin
  BY <1>8 DEF D!Begin
<1>9. CASE D!LockDirectory
  BY <1>9 DEF D!LockDirectory, D!Guarded
<1>10. CASE D!LockFiles
  BY <1>10 DEF D!LockFiles, D!Editing
<1>11. CASE D!WriteReceipt
  BY <1>11 DEF D!WriteReceipt
<1>12. CASE D!CheckAgain
  BY <1>12 DEF D!CheckAgain
<1>13. CASE D!Move
  <2>1. UNCHANGED <<content, record, user, ghost, swaps>> /\ at' \in D!Dirs \cup {None} /\ trash' \subseteq D!Dirs
    BY <1>13, MoveCases
  <2>2. /\ deletion' \in [pc : DeletionSteps, dir : D!Dirs \cup {None}, moved : D!Dirs \cup {None}]
        /\ deletion'.pc # "rest" => deletion'.dir \in D!Dirs
    BY <1>13, MoveCases
  <2> QED
    BY <2>1, <2>2
<1>14. CASE D!VerifyMoved
  BY <1>14 DEF D!VerifyMoved, D!IsOwn
<1>15. CASE D!Cleanup
  BY <1>15 DEF D!Cleanup
<1>16. CASE D!DeletionStops
  BY <1>16 DEF D!DeletionStops
<1>17. CASE D!Swap
  BY <1>17 DEF D!Swap
<1>18. CASE UNCHANGED D!vars
  BY <1>18 DEF D!vars
<1> QED
  BY <1>1, <1>2, <1>3, <1>4, <1>5, <1>6, <1>7, <1>8, <1>9, <1>10, <1>11, <1>12, <1>13, <1>14, <1>15,
      <1>16, <1>17, <1>18 DEF D!Next, D!Use, D!Remove

LEMMA StepsKept ==
  ASSUME D!CaseDeletionAssumption, DeletionTypes, StepInv, [D!Next]_(D!vars)
  PROVE  StepInv'
<1> USE DEF D!CaseDeletionAssumption, D!In, D!Become, D!Leave, D!Go, D!Rest, D!Users, D!Dirs,
    DeletionTypes, D!TypeOK, StepInv, DeletionSteps, Recorded, FilesLocked
<1>1. ASSUME NEW u \in D!Users, D!OpenCase(u) PROVE StepInv'
  BY <1>1 DEF D!OpenCase
<1>2. ASSUME NEW u \in D!Users, D!Guard(u) PROVE StepInv'
  BY <1>2 DEF D!Guard
<1>3. ASSUME NEW u \in D!Users, D!SameDirectory(u) PROVE StepInv'
  BY <1>3 DEF D!SameDirectory
<1>4. ASSUME NEW u \in D!Users, D!EndCommand(u) PROVE StepInv'
  BY <1>4 DEF D!EndCommand
<1>5. ASSUME NEW u \in D!Users, D!LockSettings(u) PROVE StepInv'
  BY <1>5 DEF D!LockSettings, D!Editing
<1>6. ASSUME NEW u \in D!Users, D!ReadCase(u) PROVE StepInv'
  BY <1>6 DEF D!ReadCase
<1>7. ASSUME NEW u \in D!Users, D!SaveSettings(u) PROVE StepInv'
  BY <1>7 DEF D!SaveSettings
<1>8. CASE D!Begin
  BY <1>8 DEF D!Begin
<1>9. CASE D!LockDirectory
  BY <1>9 DEF D!LockDirectory, D!Guarded
<1>10. CASE D!LockFiles
  BY <1>10 DEF D!LockFiles, D!Editing
<1>11. CASE D!WriteReceipt
  BY <1>11, ReceiptWritten
<1>12. CASE D!CheckAgain
  BY <1>12 DEF D!CheckAgain
<1>13. CASE D!Move
  BY <1>13, MoveCases
<1>14. CASE D!VerifyMoved
  BY <1>14 DEF D!VerifyMoved, D!IsOwn
<1>15. CASE D!Cleanup
  BY <1>15 DEF D!Cleanup
<1>16. CASE D!DeletionStops
  BY <1>16 DEF D!DeletionStops
<1>17. CASE D!Swap
  BY <1>17 DEF D!Swap
<1>18. CASE UNCHANGED D!vars
  BY <1>18 DEF D!vars
<1> QED
  BY <1>1, <1>2, <1>3, <1>4, <1>5, <1>6, <1>7, <1>8, <1>9, <1>10, <1>11, <1>12, <1>13, <1>14, <1>15,
      <1>16, <1>17, <1>18 DEF D!Next, D!Use, D!Remove

LEMMA LocksKept ==
  ASSUME D!CaseDeletionAssumption, DeletionTypes, StepInv, LockInv, [D!Next]_(D!vars)
  PROVE  LockInv'
<1> USE DEF D!CaseDeletionAssumption, D!In, D!Become, D!Leave, D!Go, D!Rest, D!Users, D!Dirs,
    DeletionTypes, D!TypeOK, LockInv, StepInv, FilesLocked, Recorded, D!Deleting, D!HoldsFiles
<1>1. ASSUME NEW u \in D!Users, D!OpenCase(u) PROVE LockInv'
  BY <1>1 DEF D!OpenCase
<1>2. ASSUME NEW u \in D!Users, D!Guard(u) PROVE LockInv'
  BY <1>2 DEF D!Guard
<1>3. ASSUME NEW u \in D!Users, D!SameDirectory(u) PROVE LockInv'
  BY <1>3 DEF D!SameDirectory
<1>4. ASSUME NEW u \in D!Users, D!EndCommand(u) PROVE LockInv'
  BY <1>4 DEF D!EndCommand
<1>5. ASSUME NEW u \in D!Users, D!LockSettings(u) PROVE LockInv'
  BY <1>5 DEF D!LockSettings, D!Editing
<1>6. ASSUME NEW u \in D!Users, D!ReadCase(u) PROVE LockInv'
  BY <1>6 DEF D!ReadCase
<1>7. ASSUME NEW u \in D!Users, D!SaveSettings(u) PROVE LockInv'
  BY <1>7 DEF D!SaveSettings
<1>8. CASE D!Begin
  BY <1>8 DEF D!Begin
<1>9. CASE D!LockDirectory
  BY <1>9 DEF D!LockDirectory, D!Guarded
<1>10. CASE D!LockFiles
  BY <1>10 DEF D!LockFiles, D!Editing
<1>11. CASE D!WriteReceipt
  BY <1>11 DEF D!WriteReceipt
<1>12. CASE D!CheckAgain
  BY <1>12 DEF D!CheckAgain
<1>13. CASE D!Move
  BY <1>13, MoveCases
<1>14. CASE D!VerifyMoved
  BY <1>14 DEF D!VerifyMoved, D!IsOwn
<1>15. CASE D!Cleanup
  BY <1>15 DEF D!Cleanup
<1>16. CASE D!DeletionStops
  BY <1>16 DEF D!DeletionStops
<1>17. CASE D!Swap
  BY <1>17 DEF D!Swap
<1>18. CASE UNCHANGED D!vars
  BY <1>18 DEF D!vars
<1> QED
  BY <1>1, <1>2, <1>3, <1>4, <1>5, <1>6, <1>7, <1>8, <1>9, <1>10, <1>11, <1>12, <1>13, <1>14, <1>15,
      <1>16, <1>17, <1>18 DEF D!Next, D!Use, D!Remove

LEMMA NameKept ==
  ASSUME D!CaseDeletionAssumption, DeletionTypes, StepInv, LockInv, NameInv, [D!Next]_(D!vars)
  PROVE  NameInv'
<1> USE DEF D!CaseDeletionAssumption, D!In, D!Become, D!Leave, D!Go, D!Rest, D!Users, D!Dirs,
    DeletionTypes, D!TypeOK, NameInv, LockInv, StepInv, Recorded, FilesLocked, D!Deleting, D!HoldsFiles
<1>1. ASSUME NEW u \in D!Users, D!OpenCase(u) PROVE NameInv'
  BY <1>1 DEF D!OpenCase
<1>2. ASSUME NEW u \in D!Users, D!Guard(u) PROVE NameInv'
  BY <1>2 DEF D!Guard
<1>3. ASSUME NEW u \in D!Users, D!SameDirectory(u) PROVE NameInv'
  BY <1>3 DEF D!SameDirectory
<1>4. ASSUME NEW u \in D!Users, D!EndCommand(u) PROVE NameInv'
  BY <1>4 DEF D!EndCommand
<1>5. ASSUME NEW u \in D!Users, D!LockSettings(u) PROVE NameInv'
  BY <1>5 DEF D!LockSettings, D!Editing
<1>6. ASSUME NEW u \in D!Users, D!ReadCase(u) PROVE NameInv'
  BY <1>6 DEF D!ReadCase
<1>7. ASSUME NEW u \in D!Users, D!SaveSettings(u) PROVE NameInv'
  BY <1>7 DEF D!SaveSettings
<1>8. CASE D!Begin
  BY <1>8 DEF D!Begin
<1>9. CASE D!LockDirectory
  BY <1>9 DEF D!LockDirectory, D!Guarded
<1>10. CASE D!LockFiles
  BY <1>10 DEF D!LockFiles, D!Editing
<1>11. CASE D!WriteReceipt
  BY <1>11 DEF D!WriteReceipt
<1>12. CASE D!CheckAgain
  BY <1>12 DEF D!CheckAgain
<1>13. CASE D!Move
  BY <1>13 DEF D!Move
<1>14. CASE D!VerifyMoved
  BY <1>14 DEF D!VerifyMoved, D!IsOwn
<1>15. CASE D!Cleanup
  BY <1>15 DEF D!Cleanup
<1>16. CASE D!DeletionStops
  BY <1>16 DEF D!DeletionStops
<1>17. CASE D!Swap
  BY <1>17 DEF D!Swap
<1>18. CASE UNCHANGED D!vars
  BY <1>18 DEF D!vars
<1> QED
  BY <1>1, <1>2, <1>3, <1>4, <1>5, <1>6, <1>7, <1>8, <1>9, <1>10, <1>11, <1>12, <1>13, <1>14, <1>15,
      <1>16, <1>17, <1>18 DEF D!Next, D!Use, D!Remove

LEMMA ConfirmedKept ==
  ASSUME D!CaseDeletionAssumption, DeletionTypes, StepInv, NameInv, D!OnlyConfirmedIsRemoved,
      [D!Next]_(D!vars)
  PROVE  D!OnlyConfirmedIsRemoved'
<1> USE DEF D!CaseDeletionAssumption, D!In, D!Become, D!Leave, D!Go, D!Rest, D!Users, D!Dirs,
    DeletionTypes, D!TypeOK, NameInv, StepInv, Recorded, FilesLocked, D!OnlyConfirmedIsRemoved
<1>1. ASSUME NEW u \in D!Users, D!OpenCase(u) PROVE D!OnlyConfirmedIsRemoved'
  BY <1>1 DEF D!OpenCase
<1>2. ASSUME NEW u \in D!Users, D!Guard(u) PROVE D!OnlyConfirmedIsRemoved'
  BY <1>2 DEF D!Guard
<1>3. ASSUME NEW u \in D!Users, D!SameDirectory(u) PROVE D!OnlyConfirmedIsRemoved'
  BY <1>3 DEF D!SameDirectory
<1>4. ASSUME NEW u \in D!Users, D!EndCommand(u) PROVE D!OnlyConfirmedIsRemoved'
  BY <1>4 DEF D!EndCommand
<1>5. ASSUME NEW u \in D!Users, D!LockSettings(u) PROVE D!OnlyConfirmedIsRemoved'
  BY <1>5 DEF D!LockSettings, D!Editing
<1>6. ASSUME NEW u \in D!Users, D!ReadCase(u) PROVE D!OnlyConfirmedIsRemoved'
  BY <1>6 DEF D!ReadCase
<1>7. ASSUME NEW u \in D!Users, D!SaveSettings(u) PROVE D!OnlyConfirmedIsRemoved'
  BY <1>7 DEF D!SaveSettings
<1>8. CASE D!Begin
  BY <1>8 DEF D!Begin
<1>9. CASE D!LockDirectory
  BY <1>9 DEF D!LockDirectory, D!Guarded
<1>10. CASE D!LockFiles
  BY <1>10 DEF D!LockFiles, D!Editing
<1>11. CASE D!WriteReceipt
  BY <1>11, ReceiptWritten
<1>12. CASE D!CheckAgain
  BY <1>12 DEF D!CheckAgain
<1>13. CASE D!Move
  BY <1>13 DEF D!Move
<1>14. CASE D!VerifyMoved
  BY <1>14 DEF D!VerifyMoved, D!IsOwn
<1>15. CASE D!Cleanup
  <2>1. deletion.dir = Confirmed /\ deletion.moved = Confirmed /\ Confirmed \in trash /\ record[Confirmed] # None
    BY <1>15 DEF D!Cleanup
  <2>2. content'[Other] = content[Other] /\ UNCHANGED <<at, trash>>
    BY <1>15, <2>1 DEF D!Cleanup
  <2>3. record'[Confirmed] # None
    BY <1>15, <2>1 DEF D!Cleanup
  <2> QED
    BY <2>1, <2>2, <2>3
<1>16. CASE D!DeletionStops
  BY <1>16 DEF D!DeletionStops
<1>17. CASE D!Swap
  BY <1>17 DEF D!Swap
<1>18. CASE UNCHANGED D!vars
  BY <1>18 DEF D!vars
<1> QED
  BY <1>1, <1>2, <1>3, <1>4, <1>5, <1>6, <1>7, <1>8, <1>9, <1>10, <1>11, <1>12, <1>13, <1>14, <1>15,
      <1>16, <1>17, <1>18 DEF D!Next, D!Use, D!Remove

LEMMA WorkKept ==
  ASSUME D!CaseDeletionAssumption, DeletionTypes, StepInv, LockInv, NameInv, D!OnlyConfirmedIsRemoved,
      D!WorkIsInPlace, [D!Next]_(D!vars)
  PROVE  D!WorkIsInPlace'
<1> USE DEF D!CaseDeletionAssumption, D!In, D!Become, D!Leave, D!Go, D!Rest, D!Users, D!Dirs,
    DeletionTypes, D!TypeOK, NameInv, LockInv, StepInv, Recorded, FilesLocked, D!Deleting, D!HoldsFiles,
    D!OnlyConfirmedIsRemoved, D!WorkIsInPlace
<1>1. ASSUME NEW u \in D!Users, D!OpenCase(u) PROVE D!WorkIsInPlace'
  BY <1>1 DEF D!OpenCase
<1>2. ASSUME NEW u \in D!Users, D!Guard(u) PROVE D!WorkIsInPlace'
  BY <1>2 DEF D!Guard
<1>3. ASSUME NEW u \in D!Users, D!SameDirectory(u) PROVE D!WorkIsInPlace'
  BY <1>3 DEF D!SameDirectory
<1>4. ASSUME NEW u \in D!Users, D!EndCommand(u) PROVE D!WorkIsInPlace'
  BY <1>4 DEF D!EndCommand
<1>5. ASSUME NEW u \in D!Users, D!LockSettings(u) PROVE D!WorkIsInPlace'
  BY <1>5 DEF D!LockSettings, D!Editing
<1>6. ASSUME NEW u \in D!Users, D!ReadCase(u) PROVE D!WorkIsInPlace'
  BY <1>6 DEF D!ReadCase
<1>7. ASSUME NEW u \in D!Users, D!SaveSettings(u) PROVE D!WorkIsInPlace'
  BY <1>7 DEF D!SaveSettings
<1>8. CASE D!Begin
  BY <1>8 DEF D!Begin
<1>9. CASE D!LockDirectory
  BY <1>9 DEF D!LockDirectory, D!Guarded
<1>10. CASE D!LockFiles
  BY <1>10 DEF D!LockFiles, D!Editing
<1>11. CASE D!WriteReceipt
  BY <1>11 DEF D!WriteReceipt
<1>12. CASE D!CheckAgain
  BY <1>12 DEF D!CheckAgain
<1>13. CASE D!Move
  BY <1>13 DEF D!Move
<1>14. CASE D!VerifyMoved
  BY <1>14 DEF D!VerifyMoved, D!IsOwn
<1>15. CASE D!Cleanup
  BY <1>15 DEF D!Cleanup
<1>16. CASE D!DeletionStops
  BY <1>16 DEF D!DeletionStops
<1>17. CASE D!Swap
  BY <1>17 DEF D!Swap
<1>18. CASE UNCHANGED D!vars
  BY <1>18 DEF D!vars
<1> QED
  BY <1>1, <1>2, <1>3, <1>4, <1>5, <1>6, <1>7, <1>8, <1>9, <1>10, <1>11, <1>12, <1>13, <1>14, <1>15,
      <1>16, <1>17, <1>18 DEF D!Next, D!Use, D!Remove

LEMMA DeletionInit == ASSUME D!CaseDeletionAssumption, D!Init PROVE DeletionInv
<1> USE DEF D!CaseDeletionAssumption, D!Init, D!Rest, D!Dirs, D!Users
<1>1. DeletionTypes
  BY DEF DeletionTypes, D!TypeOK, DeletionSteps
<1>2. StepInv /\ LockInv /\ NameInv
  BY DEF StepInv, LockInv, NameInv, FilesLocked, Recorded
<1>3. D!WorkIsInPlace /\ D!OnlyConfirmedIsRemoved
  BY DEF D!WorkIsInPlace, D!OnlyConfirmedIsRemoved
<1> QED
  BY <1>1, <1>2, <1>3 DEF DeletionInv

LEMMA DeletionSafe == ASSUME D!CaseDeletionAssumption PROVE D!Spec => []DeletionInv
<1>1. D!Init => DeletionInv
  BY DeletionInit
<1>2. DeletionInv /\ [D!Next]_(D!vars) => DeletionInv'
  <2> SUFFICES ASSUME DeletionInv, [D!Next]_(D!vars) PROVE DeletionInv'
    OBVIOUS
  <2>1. DeletionTypes /\ StepInv /\ LockInv /\ NameInv /\ D!WorkIsInPlace /\ D!OnlyConfirmedIsRemoved
    BY DEF DeletionInv
  <2>2. DeletionTypes'
    BY <2>1, DeletionTypesKept
  <2>3. StepInv'
    BY <2>1, StepsKept
  <2>4. LockInv'
    BY <2>1, LocksKept
  <2>5. NameInv'
    BY <2>1, NameKept
  <2>6. D!OnlyConfirmedIsRemoved'
    BY <2>1, ConfirmedKept
  <2>7. D!WorkIsInPlace'
    BY <2>1, WorkKept
  <2> QED
    BY <2>2, <2>3, <2>4, <2>5, <2>6, <2>7 DEF DeletionInv
<1> QED
  BY <1>1, <1>2, PTL DEF D!Spec

\* Deleting an investigation pulls no directory away from a command that works in
\* it, and no edit makes files where the investigation was, unless another process
\* gave its name to another directory.
THEOREM WorkInPlace == ASSUME D!CaseDeletionAssumption PROVE D!Spec => []D!WorkIsInPlace
<1>1. DeletionInv => D!WorkIsInPlace
  BY DEF DeletionInv
<1> QED
  BY <1>1, DeletionSafe, PTL

\* Only the directory the user confirmed is emptied, after it has left its place
\* and a receipt said so, whatever crashes and whoever swaps directories.
THEOREM ConfirmedRemoved == ASSUME D!CaseDeletionAssumption PROVE D!Spec => []D!OnlyConfirmedIsRemoved
<1>1. DeletionInv => D!OnlyConfirmedIsRemoved
  BY DEF DeletionInv
<1> QED
  BY <1>1, DeletionSafe, PTL

-----------------------------------------------------------------------------
(* The board of an investigation, for any number of boards, operations, edits *)
(* and faults.                                                                *)
CONSTANTS Boards, Own, MaxStarts

VARIABLES mainLink, creation, rebuild, planFile, mapping, deleted, style, creator, pub, madeBy, begun,
          failures

B == INSTANCE BoardRebuild WITH link <- mainLink, op <- creator, maker <- madeBy, starts <- begun,
                                faults <- failures

CreateSteps == {"create", "created", "refused", "linking"}
MakeSteps == {"prepare", "intend", "post", "posted", "rejected"}
ShowSteps == {"check", "link", "mark", "publish", "publishing", "complete"}
NoBoard == {"none", "prepared", "pending", "rejected"}
WithBoard == {"created", "syncing", "complete"}
Receipts ==
  [status : NoBoard \cup WithBoard, board : Boards \cup {None}, plan : Nat, checked : BOOLEAN, at : Nat]
Creators ==
  [pc : {"idle"} \cup CreateSteps \cup MakeSteps \cup ShowSteps, source : Boards \cup {None},
   board : Boards \cup {None}]
Mappings == [Boards -> [plan : Nat, done : BOOLEAN]]
Makers == Boards \cup {"owner", "creation", None}

\* The types; and what is published has a plan.
RebuildTypes ==
  /\ mainLink \in Boards \cup {None} /\ deleted \subseteq Boards
  /\ creation \in [status : {"none", "pending", "rejected", "created"}, board : Boards \cup {None}]
  /\ creation.status = "created" <=> creation.board # None
  /\ rebuild \in [Boards -> Receipts] /\ madeBy \in [Boards -> Makers]
  /\ \A s \in Boards : rebuild[s].board # None <=> rebuild[s].status \in WithBoard
  /\ planFile \in [Boards -> Nat] /\ mapping \in Mappings
  /\ style \in Nat \ {0} /\ begun \in Nat
  /\ creator \in Creators
  /\ creator.pc \in {"created", "linking", "posted"} \cup ShowSteps => creator.board \in Boards
  /\ creator.pc \in MakeSteps \cup ShowSteps => creator.source \in Boards
  /\ pub \in [pc : {"idle", "prepared", "sync", "writing"}, board : Boards \cup {None}, plan : Nat]
  /\ pub.pc # "idle" => pub.board \in Boards /\ pub.plan # 0

\* A POST is sent while nothing was made for it, and its answer names what was.
MadeInv ==
  /\ \A b, c \in Boards : madeBy[b] = madeBy[c] /\ madeBy[b] \in Boards \cup {"creation"} => b = c
  /\ \A b \in Boards : madeBy[b] = "creation" => creation.status = "pending" \/ creation.board = b
  /\ \A s, b \in Boards : madeBy[b] = s => rebuild[s].status = "pending" \/ rebuild[s].board = b
  /\ creator.pc \in {"create", "refused"} => \A b \in Boards : madeBy[b] # "creation"
  /\ creator.pc = "created" => madeBy[creator.board] = "creation"
  /\ creator.pc \in {"prepare", "intend", "post", "rejected"} => \A b \in Boards : madeBy[b] # creator.source
  /\ creator.pc = "posted" => madeBy[creator.board] = creator.source

\* What the receipt of the rebuild under way says at each of its steps.
ReceiptInv ==
  /\ creator.pc \in {"create", "created", "refused"} => creation.status = "pending"
  /\ creator.pc \in {"post", "posted", "rejected"} => rebuild[creator.source].status = "pending"
  /\ creator.pc \in MakeSteps => rebuild[creator.source].status \in NoBoard
  /\ creator.pc \in MakeSteps \ {"prepare"} => rebuild[creator.source].plan = planFile[creator.source]
  /\ creator.pc \in ShowSteps => rebuild[creator.source].board = creator.board

\* The plan of a board is there from before its POST, and is not made again.
FrozenInv ==
  /\ creator.pc \in MakeSteps => planFile[creator.source] # 0
  /\ \A s \in Boards : rebuild[s].board # None => planFile[s] # 0 /\ planFile[s] = rebuild[s].plan

\* What was once published to a board stays there.
Shown(b) == mapping[b] # B!NoMapping
ShownInv ==
  /\ creator.pc \in {"publishing", "complete"} => Shown(creator.board)
  /\ \A s \in Boards : rebuild[s].status = "complete" => Shown(rebuild[s].board)

RebuildInv == RebuildTypes /\ MadeInv /\ ReceiptInv /\ FrozenInv /\ ShownInv

\* A receipt that is saved again differs in what was changed.
LEMMA ReceiptMarked ==
  ASSUME NEW r \in Receipts, NEW new \in NoBoard \cup WithBoard
  PROVE  /\ [r EXCEPT !.status = new] \in Receipts
         /\ [r EXCEPT !.status = new].status = new /\ [r EXCEPT !.status = new].board = r.board
BY DEF Receipts
LEMMA ReceiptMade ==
  ASSUME NEW r \in Receipts, NEW b \in Boards
  PROVE  /\ [r EXCEPT !.status = "created", !.board = b] \in Receipts
         /\ [r EXCEPT !.status = "created", !.board = b].status = "created"
         /\ [r EXCEPT !.status = "created", !.board = b].board = b
BY DEF Receipts, WithBoard
LEMMA ReceiptChecked ==
  ASSUME NEW r \in Receipts
  PROVE  /\ [r EXCEPT !.checked = TRUE] \in Receipts /\ [r EXCEPT !.checked = TRUE].status = r.status
         /\ [r EXCEPT !.checked = TRUE].board = r.board
BY DEF Receipts

LEMMA ReceiptSaved ==
  ASSUME RebuildTypes, NEW s \in Boards, NEW r \in Receipts, r.board # None <=> r.status \in WithBoard,
         B!Receipt(s, r)
  PROVE  /\ rebuild' \in [Boards -> Receipts]
         /\ \A t \in Boards : rebuild'[t].board # None <=> rebuild'[t].status \in WithBoard
         /\ \A t \in Boards : rebuild'[t] = IF t = s THEN r ELSE rebuild[t]
<1>1. rebuild \in [Boards -> Receipts] /\ rebuild' = [rebuild EXCEPT ![s] = r]
  BY DEF RebuildTypes, B!Receipt
<1>2. rebuild' \in [Boards -> Receipts] /\ \A t \in Boards : rebuild'[t] = IF t = s THEN r ELSE rebuild[t]
  BY <1>1
<1>3. \A t \in Boards : rebuild[t].board # None <=> rebuild[t].status \in WithBoard
  BY DEF RebuildTypes
<1> QED
  BY <1>2, <1>3

\* A publication writes into a mapping.
LEMMA MappingSaved ==
  ASSUME mapping \in Mappings, NEW b \in Boards, NEW p \in Nat
  PROVE  /\ [mapping EXCEPT ![b] = [plan |-> p, done |-> FALSE]] \in Mappings
         /\ [mapping EXCEPT ![b].done = TRUE] \in Mappings
<1>1. [plan |-> p, done |-> FALSE] \in [plan : Nat, done : BOOLEAN]
  OBVIOUS
<1>2. [mapping[b] EXCEPT !.done = TRUE] \in [plan : Nat, done : BOOLEAN]
  BY DEF Mappings
<1> QED
  BY <1>1, <1>2 DEF Mappings

\* The answer of a POST comes, or it does not and the board may be there.
LEMMA CreateCases ==
  ASSUME RebuildTypes, B!CreateAnswered
  PROVE  /\ creator.pc = "create" /\ creator' \in Creators
         /\ UNCHANGED <<mainLink, creation, rebuild, planFile, mapping, deleted, style, pub, begun, failures>>
         /\ \/ UNCHANGED madeBy /\ creator'.pc \in {"refused", "idle"}
            \/ \E b \in Boards : /\ B!Made(b, "creation") /\ creator'.pc \in {"created", "idle"}
                                 /\ creator'.pc = "created" => creator'.board = b
<1>1. creator \in Creators /\ B!Rest \in Creators /\ B!Rest.pc = "idle"
  BY DEF RebuildTypes, Creators, B!Rest
<1>2. creator.pc = "create"
      /\ UNCHANGED <<mainLink, creation, rebuild, planFile, mapping, deleted, style, pub, begun, failures>>
  BY DEF B!CreateAnswered, B!counts
<1>3. ASSUME NEW b \in Boards, B!Made(b, "creation"), creator' = [creator EXCEPT !.pc = "created", !.board = b]
      PROVE  creator' \in Creators /\ creator'.pc = "created" /\ creator'.board = b
  BY <1>1, <1>3 DEF Creators, CreateSteps
<1>4. ASSUME B!Go("refused") PROVE creator' \in Creators /\ creator'.pc = "refused"
  BY <1>1, <1>4 DEF B!Go, Creators, CreateSteps
<1> QED
  BY <1>1, <1>2, <1>3, <1>4 DEF B!CreateAnswered

LEMMA PostCases ==
  ASSUME RebuildTypes, B!PostAnswered
  PROVE  /\ creator.pc = "post" /\ creator' \in Creators /\ creator.source \in Boards
         /\ UNCHANGED <<mainLink, creation, rebuild, planFile, mapping, deleted, style, pub, begun, failures>>
         /\ creator'.pc # "idle" => creator'.source = creator.source
         /\ \/ UNCHANGED madeBy /\ creator'.pc \in {"rejected", "idle"}
            \/ \E b \in Boards : /\ B!Made(b, creator.source) /\ creator'.pc \in {"posted", "idle"}
                                 /\ creator'.pc = "posted" => creator'.board = b
<1>1. creator \in Creators /\ B!Rest \in Creators /\ B!Rest.pc = "idle"
  BY DEF RebuildTypes, Creators, B!Rest
<1>2. creator.pc = "post" /\ creator.source \in Boards
      /\ UNCHANGED <<mainLink, creation, rebuild, planFile, mapping, deleted, style, pub, begun, failures>>
  BY DEF B!PostAnswered, B!counts, RebuildTypes, MakeSteps
<1>3. ASSUME NEW b \in Boards, B!Made(b, creator.source),
             creator' = [creator EXCEPT !.pc = "posted", !.board = b]
      PROVE  creator' \in Creators /\ creator'.pc = "posted" /\ creator'.board = b
             /\ creator'.source = creator.source
  BY <1>1, <1>3 DEF Creators, MakeSteps
<1>4. ASSUME B!Go("rejected")
      PROVE  creator' \in Creators /\ creator'.pc = "rejected" /\ creator'.source = creator.source
  BY <1>1, <1>4 DEF B!Go, Creators, MakeSteps
<1> QED
  BY <1>1, <1>2, <1>3, <1>4 DEF B!PostAnswered

LEMMA RebuildTypesKept ==
  ASSUME B!BoardRebuildAssumption, RebuildTypes, ReceiptInv, FrozenInv, [B!Next]_(B!vars)
  PROVE  RebuildTypes'
<1> USE DEF B!BoardRebuildAssumption, B!counts, B!Rest, B!Idle, B!Go, B!Receipt, B!Counted, B!Made,
    CreateSteps, MakeSteps, ShowSteps, RebuildTypes, NoBoard, WithBoard, Receipts, Makers, Creators,
    Mappings, ReceiptInv, FrozenInv, B!NoRebuild, B!NoMapping
<1>1. CASE B!CreateBoard
  BY <1>1 DEF B!CreateBoard
<1>2. CASE B!LinkCreated
  BY <1>2 DEF B!LinkCreated
<1>3. CASE B!CreateAnswered
  <2>1. madeBy' \in [Boards -> Makers]
    BY <1>3, CreateCases
  <2>2. creator'.pc \in {"idle", "refused", "created"} /\ (creator'.pc = "created" => creator'.board \in Boards)
    BY <1>3, CreateCases
  <2> QED
    BY <1>3, <2>1, <2>2, CreateCases
<1>4. CASE B!SaveCreated
  BY <1>4 DEF B!SaveCreated
<1>5. CASE B!SaveRefused
  BY <1>5 DEF B!SaveRefused
<1>6. CASE B!SaveLink
  BY <1>6 DEF B!SaveLink
<1>7. CASE B!Prepare
  BY <1>7 DEF B!Prepare
<1>8. CASE B!Intend
  <2> DEFINE old == rebuild[creator.source]
             new == [old EXCEPT !.status = "pending"]
  <2>1. creator.source \in Boards /\ old.board = None /\ None \notin Boards
    BY <1>8 DEF B!Intend
  <2>2. old \in Receipts
    BY <2>1
  <2>3. new \in Receipts /\ (new.board # None <=> new.status \in WithBoard)
    <3> HIDE DEF old, RebuildTypes, ReceiptInv, FrozenInv
    <3> QED
      BY <2>1, <2>2
  <2>4. B!Receipt(creator.source, new)
    BY <1>8 DEF B!Intend
  <2>5. /\ rebuild' \in [Boards -> Receipts]
        /\ \A t \in Boards : rebuild'[t].board # None <=> rebuild'[t].status \in WithBoard
    <3> HIDE DEF new
    <3> QED
      BY <2>1, <2>3, <2>4, ReceiptSaved
  <2> HIDE DEF new, old, Receipts
  <2> QED
    BY <1>8, <2>5 DEF B!Intend
<1>9. CASE B!PostAnswered
  <2>1. madeBy' \in [Boards -> Makers]
    BY <1>9, PostCases
  <2>2. /\ creator'.pc \in {"idle", "rejected", "posted"} /\ (creator'.pc = "posted" => creator'.board \in Boards)
        /\ creator'.pc # "idle" => creator'.source \in Boards
    BY <1>9, PostCases
  <2> QED
    BY <1>9, <2>1, <2>2, PostCases
<1>10. CASE B!SavePosted
  <2> DEFINE old == rebuild[creator.source]
             new == [old EXCEPT !.status = "created", !.board = creator.board]
  <2>1. creator.source \in Boards /\ creator.board \in Boards
    BY <1>10 DEF B!SavePosted
  <2>2. old \in Receipts
    BY <2>1
  <2>3. new \in Receipts /\ (new.board # None <=> new.status \in WithBoard)
    <3> HIDE DEF old, RebuildTypes, ReceiptInv, FrozenInv
    <3> QED
      BY <2>1, <2>2
  <2>4. B!Receipt(creator.source, new)
    BY <1>10 DEF B!SavePosted
  <2>5. /\ rebuild' \in [Boards -> Receipts]
        /\ \A t \in Boards : rebuild'[t].board # None <=> rebuild'[t].status \in WithBoard
    <3> HIDE DEF new
    <3> QED
      BY <2>1, <2>3, <2>4, ReceiptSaved
  <2> HIDE DEF new, old, Receipts
  <2> QED
    BY <1>10, <2>5 DEF B!SavePosted
<1>11. CASE B!SaveRejected
  <2> DEFINE old == rebuild[creator.source]
             new == [old EXCEPT !.status = "rejected"]
  <2>1. creator.source \in Boards /\ old.board = None /\ None \notin Boards
    BY <1>11 DEF B!SaveRejected
  <2>2. old \in Receipts
    BY <2>1
  <2>3. new \in Receipts /\ (new.board # None <=> new.status \in WithBoard)
    <3> HIDE DEF old, RebuildTypes, ReceiptInv, FrozenInv
    <3> QED
      BY <2>1, <2>2
  <2>4. B!Receipt(creator.source, new)
    BY <1>11 DEF B!SaveRejected
  <2>5. /\ rebuild' \in [Boards -> Receipts]
        /\ \A t \in Boards : rebuild'[t].board # None <=> rebuild'[t].status \in WithBoard
    <3> HIDE DEF new
    <3> QED
      BY <2>1, <2>3, <2>4, ReceiptSaved
  <2> HIDE DEF new, old, Receipts
  <2> QED
    BY <1>11, <2>5 DEF B!SaveRejected
<1>12. CASE B!CheckMapping
  <2> DEFINE old == rebuild[creator.source]
             new == [old EXCEPT !.checked = TRUE]
  <2>1. creator.source \in Boards /\ old \in Receipts
    BY <1>12 DEF B!CheckMapping
  <2>2. creator' \in Creators /\ creator'.pc \in {"idle", "link"}
        /\ (creator'.pc = "link" => creator'.board \in Boards /\ creator'.source \in Boards)
    BY <1>12 DEF B!CheckMapping
  <2>3. CASE UNCHANGED rebuild
    <3> HIDE DEF Creators
    <3> QED
      BY <1>12, <2>2, <2>3 DEF B!CheckMapping
  <2>4. CASE B!Receipt(creator.source, new)
    <3>1. new \in Receipts /\ (new.board # None <=> new.status \in WithBoard)
      <4>1. old.board # None <=> old.status \in WithBoard
        BY <2>1
      <4> HIDE DEF old, RebuildTypes, ReceiptInv, FrozenInv
      <4> QED
        BY <2>1, <4>1
    <3>2. /\ rebuild' \in [Boards -> Receipts]
          /\ \A t \in Boards : rebuild'[t].board # None <=> rebuild'[t].status \in WithBoard
      <4> HIDE DEF new
      <4> QED
        BY <2>1, <2>4, <3>1, ReceiptSaved
    <3> HIDE DEF Creators, Receipts, new, old
    <3> QED
      BY <1>12, <2>2, <3>2 DEF B!CheckMapping
  <2> QED
    BY <1>12, <2>3, <2>4 DEF B!CheckMapping
<1>13. CASE B!LinkReplacement
  BY <1>13 DEF B!LinkReplacement
<1>14. CASE B!MarkSyncing
  <2> DEFINE old == rebuild[creator.source]
             new == [old EXCEPT !.status = "syncing"]
  <2>1. creator.source \in Boards /\ old.board \in Boards
    BY <1>14 DEF B!MarkSyncing
  <2>2. old \in Receipts
    BY <2>1
  <2>3. new \in Receipts /\ (new.board # None <=> new.status \in WithBoard)
    <3> HIDE DEF old, RebuildTypes, ReceiptInv, FrozenInv
    <3> QED
      BY <2>1, <2>2
  <2>4. B!Receipt(creator.source, new)
    BY <1>14 DEF B!MarkSyncing
  <2>5. /\ rebuild' \in [Boards -> Receipts]
        /\ \A t \in Boards : rebuild'[t].board # None <=> rebuild'[t].status \in WithBoard
    <3> HIDE DEF new
    <3> QED
      BY <2>1, <2>3, <2>4, ReceiptSaved
  <2> HIDE DEF new, old, Receipts
  <2> QED
    BY <1>14, <2>5 DEF B!MarkSyncing
<1>15. CASE B!Publish
  <2>1. creator.board \in Boards /\ planFile[creator.source] \in Nat
    BY <1>15 DEF B!Publish
  <2>2. [mapping EXCEPT ![creator.board] = [plan |-> planFile[creator.source], done |-> FALSE]] \in Mappings
        /\ [mapping EXCEPT ![creator.board].done = TRUE] \in Mappings
    BY <2>1, MappingSaved
  <2>3. mapping' \in Mappings
    BY <1>15, <2>2 DEF B!Publish
  <2> HIDE DEF Mappings
  <2> QED
    BY <1>15, <2>3 DEF B!Publish
<1>16. CASE B!Published
  <2>1. creator.board \in Boards /\ 0 \in Nat
    BY <1>16 DEF B!Published
  <2>2. [mapping EXCEPT ![creator.board] = [plan |-> 0, done |-> FALSE]] \in Mappings
        /\ [mapping EXCEPT ![creator.board].done = TRUE] \in Mappings
    BY <2>1, MappingSaved
  <2>3. mapping' \in Mappings
    BY <1>16, <2>2 DEF B!Published
  <2> HIDE DEF Mappings
  <2> QED
    BY <1>16, <2>3 DEF B!Published
<1>17. CASE B!Complete
  <2> DEFINE old == rebuild[creator.source]
             new == [old EXCEPT !.status = "complete"]
  <2>1. creator.source \in Boards /\ old.board \in Boards
    BY <1>17 DEF B!Complete
  <2>2. old \in Receipts
    BY <2>1
  <2>3. new \in Receipts /\ (new.board # None <=> new.status \in WithBoard)
    <3> HIDE DEF old, RebuildTypes, ReceiptInv, FrozenInv
    <3> QED
      BY <2>1, <2>2
  <2>4. B!Receipt(creator.source, new)
    BY <1>17 DEF B!Complete
  <2>5. /\ rebuild' \in [Boards -> Receipts]
        /\ \A t \in Boards : rebuild'[t].board # None <=> rebuild'[t].status \in WithBoard
    <3> HIDE DEF new
    <3> QED
      BY <2>1, <2>3, <2>4, ReceiptSaved
  <2> HIDE DEF new, old, Receipts
  <2> QED
    BY <1>17, <2>5 DEF B!Complete
<1>18. CASE B!Stop
  BY <1>18 DEF B!Stop
<1>19. CASE B!SyncLink
  BY <1>19 DEF B!SyncLink
<1>20. CASE B!SyncWrite
  <2>1. pub.board \in Boards /\ pub.plan \in Nat
    BY <1>20 DEF B!SyncWrite
  <2>2. [mapping EXCEPT ![pub.board] = [plan |-> pub.plan, done |-> FALSE]] \in Mappings
        /\ [mapping EXCEPT ![pub.board].done = TRUE] \in Mappings
    BY <2>1, MappingSaved
  <2>3. mapping' \in Mappings
    BY <1>20, <2>2 DEF B!SyncWrite
  <2> HIDE DEF Mappings
  <2> QED
    BY <1>20, <2>3 DEF B!SyncWrite
<1>21. CASE B!SyncEnd
  <2>1. pub.board \in Boards /\ 0 \in Nat
    BY <1>21 DEF B!SyncEnd
  <2>2. [mapping EXCEPT ![pub.board] = [plan |-> 0, done |-> FALSE]] \in Mappings
        /\ [mapping EXCEPT ![pub.board].done = TRUE] \in Mappings
    BY <2>1, MappingSaved
  <2>3. mapping' \in Mappings
    BY <1>21, <2>2 DEF B!SyncEnd
  <2> HIDE DEF Mappings
  <2> QED
    BY <1>21, <2>3 DEF B!SyncEnd
<1>22. CASE B!EditStyle
  BY <1>22 DEF B!EditStyle
<1>23. ASSUME NEW b \in Boards, B!FreezePlan(b) PROVE RebuildTypes'
  <2>1. creator' = [pc |-> "prepare", source |-> b, board |-> None]
    BY <1>23 DEF B!FreezePlan
  <2>2. planFile' \in [Boards -> Nat]
    BY <1>23 DEF B!FreezePlan
  <2>3. creator' \in Creators /\ creator'.pc = "prepare" /\ creator'.source = b
    BY <2>1
  <2> HIDE DEF Creators
  <2> QED
    BY <1>23, <2>2, <2>3 DEF B!FreezePlan
<1>24. ASSUME NEW b \in Boards, B!Resume(b) PROVE RebuildTypes'
  BY <1>24 DEF B!Resume, B!Admitted, B!HasBoard
<1>25. ASSUME NEW b \in Boards, B!Relink(b) PROVE RebuildTypes'
  BY <1>25 DEF B!Relink, B!Admitted, B!HasBoard
<1>26. ASSUME NEW b \in Boards, B!SyncRun(b) PROVE RebuildTypes'
  BY <1>26 DEF B!SyncRun
<1>27. ASSUME NEW b \in Boards, B!DeleteBoard(b) PROVE RebuildTypes'
  BY <1>27 DEF B!DeleteBoard
<1>28. ASSUME NEW b \in Boards \cup {None}, B!LinkSetting(b) PROVE RebuildTypes'
  BY <1>28 DEF B!LinkSetting
<1>29. CASE UNCHANGED B!vars
  BY <1>29 DEF B!vars
<1> QED
  BY <1>1, <1>2, <1>3, <1>4, <1>5, <1>6, <1>7, <1>8, <1>9, <1>10, <1>11, <1>12, <1>13, <1>14, <1>15,
      <1>16, <1>17, <1>18, <1>19, <1>20, <1>21, <1>22, <1>23, <1>24, <1>25, <1>26, <1>27, <1>28, <1>29
      DEF B!Next, B!Creating, B!Rebuilding, B!Syncing

LEMMA MadeKept ==
  ASSUME B!BoardRebuildAssumption, RebuildTypes, ReceiptInv, MadeInv, [B!Next]_(B!vars)
  PROVE  MadeInv'
<1> USE DEF B!BoardRebuildAssumption, B!counts, B!Rest, B!Idle, B!Go, B!Receipt, B!Counted, B!Made,
    CreateSteps, MakeSteps, ShowSteps, RebuildTypes, NoBoard, WithBoard, Receipts, Makers, Creators,
    Mappings, ReceiptInv, MadeInv, B!NoRebuild
<1>1. CASE B!CreateBoard
  BY <1>1 DEF B!CreateBoard
<1>2. CASE B!LinkCreated
  BY <1>2 DEF B!LinkCreated
<1>3. CASE B!CreateAnswered
  <2>1. CASE UNCHANGED madeBy
    BY <1>3, <2>1, CreateCases
  <2>2. ASSUME NEW b \in Boards, B!Made(b, "creation"), creator'.pc \in {"created", "idle"},
               creator'.pc = "created" => creator'.board = b
        PROVE  MadeInv'
    BY <1>3, <2>2, CreateCases
  <2> QED
    BY <1>3, <2>1, <2>2, CreateCases
<1>4. CASE B!SaveCreated
  BY <1>4 DEF B!SaveCreated
<1>5. CASE B!SaveRefused
  BY <1>5 DEF B!SaveRefused
<1>6. CASE B!SaveLink
  BY <1>6 DEF B!SaveLink
<1>7. CASE B!Prepare
  BY <1>7 DEF B!Prepare
<1>8. CASE B!Intend
  BY <1>8 DEF B!Intend
<1>9. CASE B!PostAnswered
  <2>1. CASE UNCHANGED madeBy
    BY <1>9, <2>1, PostCases
  <2>2. ASSUME NEW b \in Boards, B!Made(b, creator.source), creator'.pc \in {"posted", "idle"},
               creator'.pc = "posted" => creator'.board = b
        PROVE  MadeInv'
    BY <1>9, <2>2, PostCases
  <2> QED
    BY <1>9, <2>1, <2>2, PostCases
<1>10. CASE B!SavePosted
  BY <1>10 DEF B!SavePosted
<1>11. CASE B!SaveRejected
  BY <1>11 DEF B!SaveRejected
<1>12. CASE B!CheckMapping
  <2>1. creator.source \in Boards /\ creator'.pc \in {"idle", "link"} /\ UNCHANGED <<madeBy, creation>>
    BY <1>12 DEF B!CheckMapping
  <2>2. \A t \in Boards : rebuild'[t].status = rebuild[t].status /\ rebuild'[t].board = rebuild[t].board
    BY <1>12, <2>1 DEF B!CheckMapping
  <2> QED
    BY <2>1, <2>2
<1>13. CASE B!LinkReplacement
  BY <1>13 DEF B!LinkReplacement
<1>14. CASE B!MarkSyncing
  BY <1>14 DEF B!MarkSyncing
<1>15. CASE B!Publish
  BY <1>15 DEF B!Publish
<1>16. CASE B!Published
  BY <1>16 DEF B!Published
<1>17. CASE B!Complete
  <2>1. creator.source \in Boards /\ creator'.pc = "idle" /\ UNCHANGED <<madeBy, creation>>
    BY <1>17 DEF B!Complete
  <2>2. \A t \in Boards : rebuild'[t].board = rebuild[t].board /\ (t # creator.source => rebuild'[t] = rebuild[t])
    BY <1>17, <2>1 DEF B!Complete
  <2>3. rebuild[creator.source].status # "pending"
    BY <1>17 DEF B!Complete
  <2> QED
    BY <2>1, <2>2, <2>3
<1>18. CASE B!Stop
  <2>1. /\ creator'.pc = "idle" /\ UNCHANGED <<creation, rebuild>>
        /\ \/ UNCHANGED madeBy
           \/ creator.pc = "create" /\ \E b \in Boards : B!Made(b, "creation")
           \/ creator.pc = "post" /\ \E b \in Boards : B!Made(b, creator.source)
    BY <1>18 DEF B!Stop
  <2>2. CASE UNCHANGED madeBy
    BY <2>1, <2>2
  <2>3. CASE creator.pc = "create" /\ \E b \in Boards : B!Made(b, "creation")
    <3>1. PICK b \in Boards : B!Made(b, "creation")
      BY <2>3
    <3>2. /\ creation.status = "pending" /\ \A c \in Boards : madeBy[c] # "creation"
          /\ \A c \in Boards : madeBy'[c] = IF c = b THEN "creation" ELSE madeBy[c]
      BY <2>3, <3>1
    <3> QED
      BY <2>1, <3>2
  <2>4. CASE creator.pc = "post" /\ \E b \in Boards : B!Made(b, creator.source)
    <3>1. PICK b \in Boards : B!Made(b, creator.source)
      BY <2>4
    <3>2. /\ creator.source \in Boards /\ rebuild[creator.source].status = "pending"
          /\ \A c \in Boards : madeBy[c] # creator.source
          /\ \A c \in Boards : madeBy'[c] = IF c = b THEN creator.source ELSE madeBy[c]
      BY <2>4, <3>1
    <3>3. \A s \in Boards : rebuild'[s] = rebuild[s] /\ creator'.pc = "idle" /\ creation' = creation
      BY <2>1
    <3>4. \A c, d \in Boards : madeBy'[c] = madeBy'[d] /\ madeBy'[c] \in Boards \cup {"creation"} => c = d
      BY <3>2
    <3>5. \A c \in Boards : madeBy'[c] = "creation" => creation.status = "pending" \/ creation.board = c
      BY <3>2
    <3>6. \A s, c \in Boards : madeBy'[c] = s => rebuild[s].status = "pending" \/ rebuild[s].board = c
      BY <3>2
    <3> QED
      BY <3>3, <3>4, <3>5, <3>6
  <2> QED
    BY <2>1, <2>2, <2>3, <2>4
<1>19. CASE B!SyncLink
  BY <1>19 DEF B!SyncLink
<1>20. CASE B!SyncWrite
  BY <1>20 DEF B!SyncWrite
<1>21. CASE B!SyncEnd
  BY <1>21 DEF B!SyncEnd
<1>22. CASE B!EditStyle
  BY <1>22 DEF B!EditStyle
<1>23. ASSUME NEW b \in Boards, B!FreezePlan(b) PROVE MadeInv'
  BY <1>23 DEF B!FreezePlan, B!Admitted, B!HasBoard
<1>24. ASSUME NEW b \in Boards, B!Resume(b) PROVE MadeInv'
  BY <1>24 DEF B!Resume, B!Admitted, B!HasBoard
<1>25. ASSUME NEW b \in Boards, B!Relink(b) PROVE MadeInv'
  BY <1>25 DEF B!Relink, B!Admitted, B!HasBoard
<1>26. ASSUME NEW b \in Boards, B!SyncRun(b) PROVE MadeInv'
  BY <1>26 DEF B!SyncRun
<1>27. ASSUME NEW b \in Boards, B!DeleteBoard(b) PROVE MadeInv'
  BY <1>27 DEF B!DeleteBoard
<1>28. ASSUME NEW b \in Boards \cup {None}, B!LinkSetting(b) PROVE MadeInv'
  BY <1>28 DEF B!LinkSetting
<1>29. CASE UNCHANGED B!vars
  BY <1>29 DEF B!vars
<1> QED
  BY <1>1, <1>2, <1>3, <1>4, <1>5, <1>6, <1>7, <1>8, <1>9, <1>10, <1>11, <1>12, <1>13, <1>14, <1>15,
      <1>16, <1>17, <1>18, <1>19, <1>20, <1>21, <1>22, <1>23, <1>24, <1>25, <1>26, <1>27, <1>28, <1>29
      DEF B!Next, B!Creating, B!Rebuilding, B!Syncing

LEMMA ReceiptKept ==
  ASSUME B!BoardRebuildAssumption, RebuildTypes, ReceiptInv, [B!Next]_(B!vars)
  PROVE  ReceiptInv'
<1> USE DEF B!BoardRebuildAssumption, B!counts, B!Rest, B!Idle, B!Go, B!Receipt, B!Counted, B!Made,
    CreateSteps, MakeSteps, ShowSteps, RebuildTypes, NoBoard, WithBoard, Receipts, Makers, Creators,
    Mappings, ReceiptInv, B!NoRebuild
<1>1. CASE B!CreateBoard
  BY <1>1 DEF B!CreateBoard
<1>2. CASE B!LinkCreated
  BY <1>2 DEF B!LinkCreated
<1>3. CASE B!CreateAnswered
  BY <1>3, CreateCases
<1>4. CASE B!SaveCreated
  BY <1>4 DEF B!SaveCreated
<1>5. CASE B!SaveRefused
  BY <1>5 DEF B!SaveRefused
<1>6. CASE B!SaveLink
  BY <1>6 DEF B!SaveLink
<1>7. CASE B!Prepare
  BY <1>7 DEF B!Prepare
<1>8. CASE B!Intend
  BY <1>8 DEF B!Intend
<1>9. CASE B!PostAnswered
  BY <1>9, PostCases
<1>10. CASE B!SavePosted
  BY <1>10 DEF B!SavePosted
<1>11. CASE B!SaveRejected
  BY <1>11 DEF B!SaveRejected
<1>12. CASE B!CheckMapping
  BY <1>12 DEF B!CheckMapping
<1>13. CASE B!LinkReplacement
  BY <1>13 DEF B!LinkReplacement
<1>14. CASE B!MarkSyncing
  BY <1>14 DEF B!MarkSyncing
<1>15. CASE B!Publish
  BY <1>15 DEF B!Publish
<1>16. CASE B!Published
  BY <1>16 DEF B!Published
<1>17. CASE B!Complete
  BY <1>17 DEF B!Complete
<1>18. CASE B!Stop
  BY <1>18 DEF B!Stop
<1>19. CASE B!SyncLink
  BY <1>19 DEF B!SyncLink
<1>20. CASE B!SyncWrite
  BY <1>20 DEF B!SyncWrite
<1>21. CASE B!SyncEnd
  BY <1>21 DEF B!SyncEnd
<1>22. CASE B!EditStyle
  BY <1>22 DEF B!EditStyle
<1>23. ASSUME NEW b \in Boards, B!FreezePlan(b) PROVE ReceiptInv'
  BY <1>23 DEF B!FreezePlan, B!Admitted, B!HasBoard
<1>24. ASSUME NEW b \in Boards, B!Resume(b) PROVE ReceiptInv'
  BY <1>24 DEF B!Resume, B!Admitted, B!HasBoard
<1>25. ASSUME NEW b \in Boards, B!Relink(b) PROVE ReceiptInv'
  BY <1>25 DEF B!Relink, B!Admitted, B!HasBoard
<1>26. ASSUME NEW b \in Boards, B!SyncRun(b) PROVE ReceiptInv'
  BY <1>26 DEF B!SyncRun
<1>27. ASSUME NEW b \in Boards, B!DeleteBoard(b) PROVE ReceiptInv'
  BY <1>27 DEF B!DeleteBoard
<1>28. ASSUME NEW b \in Boards \cup {None}, B!LinkSetting(b) PROVE ReceiptInv'
  BY <1>28 DEF B!LinkSetting
<1>29. CASE UNCHANGED B!vars
  BY <1>29 DEF B!vars
<1> QED
  BY <1>1, <1>2, <1>3, <1>4, <1>5, <1>6, <1>7, <1>8, <1>9, <1>10, <1>11, <1>12, <1>13, <1>14, <1>15,
      <1>16, <1>17, <1>18, <1>19, <1>20, <1>21, <1>22, <1>23, <1>24, <1>25, <1>26, <1>27, <1>28, <1>29
      DEF B!Next, B!Creating, B!Rebuilding, B!Syncing

LEMMA FrozenKept ==
  ASSUME B!BoardRebuildAssumption, RebuildTypes, ReceiptInv, FrozenInv, [B!Next]_(B!vars)
  PROVE  FrozenInv'
<1> USE DEF B!BoardRebuildAssumption, B!counts, B!Rest, B!Idle, B!Go, B!Receipt, B!Counted, B!Made,
    CreateSteps, MakeSteps, ShowSteps, RebuildTypes, NoBoard, WithBoard, Receipts, Makers, Creators,
    Mappings, ReceiptInv, FrozenInv, B!NoRebuild
<1>1. CASE B!CreateBoard
  BY <1>1 DEF B!CreateBoard
<1>2. CASE B!LinkCreated
  BY <1>2 DEF B!LinkCreated
<1>3. CASE B!CreateAnswered
  BY <1>3, CreateCases
<1>4. CASE B!SaveCreated
  BY <1>4 DEF B!SaveCreated
<1>5. CASE B!SaveRefused
  BY <1>5 DEF B!SaveRefused
<1>6. CASE B!SaveLink
  BY <1>6 DEF B!SaveLink
<1>7. CASE B!Prepare
  BY <1>7 DEF B!Prepare
<1>8. CASE B!Intend
  BY <1>8 DEF B!Intend
<1>9. CASE B!PostAnswered
  BY <1>9, PostCases
<1>10. CASE B!SavePosted
  BY <1>10 DEF B!SavePosted
<1>11. CASE B!SaveRejected
  BY <1>11 DEF B!SaveRejected
<1>12. CASE B!CheckMapping
  BY <1>12 DEF B!CheckMapping
<1>13. CASE B!LinkReplacement
  BY <1>13 DEF B!LinkReplacement
<1>14. CASE B!MarkSyncing
  BY <1>14 DEF B!MarkSyncing
<1>15. CASE B!Publish
  BY <1>15 DEF B!Publish
<1>16. CASE B!Published
  BY <1>16 DEF B!Published
<1>17. CASE B!Complete
  BY <1>17 DEF B!Complete
<1>18. CASE B!Stop
  BY <1>18 DEF B!Stop
<1>19. CASE B!SyncLink
  BY <1>19 DEF B!SyncLink
<1>20. CASE B!SyncWrite
  BY <1>20 DEF B!SyncWrite
<1>21. CASE B!SyncEnd
  BY <1>21 DEF B!SyncEnd
<1>22. CASE B!EditStyle
  BY <1>22 DEF B!EditStyle
<1>23. ASSUME NEW b \in Boards, B!FreezePlan(b) PROVE FrozenInv'
  BY <1>23 DEF B!FreezePlan, B!Admitted, B!HasBoard
<1>24. ASSUME NEW b \in Boards, B!Resume(b) PROVE FrozenInv'
  BY <1>24 DEF B!Resume, B!Admitted, B!HasBoard
<1>25. ASSUME NEW b \in Boards, B!Relink(b) PROVE FrozenInv'
  BY <1>25 DEF B!Relink, B!Admitted, B!HasBoard
<1>26. ASSUME NEW b \in Boards, B!SyncRun(b) PROVE FrozenInv'
  BY <1>26 DEF B!SyncRun
<1>27. ASSUME NEW b \in Boards, B!DeleteBoard(b) PROVE FrozenInv'
  BY <1>27 DEF B!DeleteBoard
<1>28. ASSUME NEW b \in Boards \cup {None}, B!LinkSetting(b) PROVE FrozenInv'
  BY <1>28 DEF B!LinkSetting
<1>29. CASE UNCHANGED B!vars
  BY <1>29 DEF B!vars
<1> QED
  BY <1>1, <1>2, <1>3, <1>4, <1>5, <1>6, <1>7, <1>8, <1>9, <1>10, <1>11, <1>12, <1>13, <1>14, <1>15,
      <1>16, <1>17, <1>18, <1>19, <1>20, <1>21, <1>22, <1>23, <1>24, <1>25, <1>26, <1>27, <1>28, <1>29
      DEF B!Next, B!Creating, B!Rebuilding, B!Syncing

LEMMA ShownKept ==
  ASSUME B!BoardRebuildAssumption, RebuildTypes, ReceiptInv, FrozenInv, ShownInv, [B!Next]_(B!vars)
  PROVE  ShownInv'
<1> USE DEF B!BoardRebuildAssumption, B!counts, B!Rest, B!Idle, B!Go, B!Receipt, B!Counted, B!Made,
    CreateSteps, MakeSteps, ShowSteps, RebuildTypes, NoBoard, WithBoard, Receipts, Makers, Creators,
    Mappings, ReceiptInv, FrozenInv, ShownInv, Shown, B!NoMapping, B!NoRebuild
<1>1. CASE B!CreateBoard
  BY <1>1 DEF B!CreateBoard
<1>2. CASE B!LinkCreated
  BY <1>2 DEF B!LinkCreated
<1>3. CASE B!CreateAnswered
  BY <1>3, CreateCases
<1>4. CASE B!SaveCreated
  BY <1>4 DEF B!SaveCreated
<1>5. CASE B!SaveRefused
  BY <1>5 DEF B!SaveRefused
<1>6. CASE B!SaveLink
  BY <1>6 DEF B!SaveLink
<1>7. CASE B!Prepare
  BY <1>7 DEF B!Prepare
<1>8. CASE B!Intend
  BY <1>8 DEF B!Intend
<1>9. CASE B!PostAnswered
  BY <1>9, PostCases
<1>10. CASE B!SavePosted
  BY <1>10 DEF B!SavePosted
<1>11. CASE B!SaveRejected
  BY <1>11 DEF B!SaveRejected
<1>12. CASE B!CheckMapping
  BY <1>12 DEF B!CheckMapping
<1>13. CASE B!LinkReplacement
  BY <1>13 DEF B!LinkReplacement
<1>14. CASE B!MarkSyncing
  BY <1>14 DEF B!MarkSyncing
<1>15. CASE B!Publish
  BY <1>15 DEF B!Publish
<1>16. CASE B!Published
  BY <1>16 DEF B!Published
<1>17. CASE B!Complete
  BY <1>17 DEF B!Complete
<1>18. CASE B!Stop
  BY <1>18 DEF B!Stop
<1>19. CASE B!SyncLink
  BY <1>19 DEF B!SyncLink
<1>20. CASE B!SyncWrite
  BY <1>20 DEF B!SyncWrite
<1>21. CASE B!SyncEnd
  BY <1>21 DEF B!SyncEnd
<1>22. CASE B!EditStyle
  BY <1>22 DEF B!EditStyle
<1>23. ASSUME NEW b \in Boards, B!FreezePlan(b) PROVE ShownInv'
  BY <1>23 DEF B!FreezePlan, B!Admitted, B!HasBoard
<1>24. ASSUME NEW b \in Boards, B!Resume(b) PROVE ShownInv'
  BY <1>24 DEF B!Resume, B!Admitted, B!HasBoard
<1>25. ASSUME NEW b \in Boards, B!Relink(b) PROVE ShownInv'
  BY <1>25 DEF B!Relink, B!Admitted, B!HasBoard
<1>26. ASSUME NEW b \in Boards, B!SyncRun(b) PROVE ShownInv'
  BY <1>26 DEF B!SyncRun
<1>27. ASSUME NEW b \in Boards, B!DeleteBoard(b) PROVE ShownInv'
  BY <1>27 DEF B!DeleteBoard
<1>28. ASSUME NEW b \in Boards \cup {None}, B!LinkSetting(b) PROVE ShownInv'
  BY <1>28 DEF B!LinkSetting
<1>29. CASE UNCHANGED B!vars
  BY <1>29 DEF B!vars
<1> QED
  BY <1>1, <1>2, <1>3, <1>4, <1>5, <1>6, <1>7, <1>8, <1>9, <1>10, <1>11, <1>12, <1>13, <1>14, <1>15,
      <1>16, <1>17, <1>18, <1>19, <1>20, <1>21, <1>22, <1>23, <1>24, <1>25, <1>26, <1>27, <1>28, <1>29
      DEF B!Next, B!Creating, B!Rebuilding, B!Syncing

LEMMA RebuildInit == ASSUME B!BoardRebuildAssumption, B!Init PROVE RebuildInv
<1> USE DEF B!BoardRebuildAssumption, B!Init, B!Rest, B!NoRebuild, B!NoMapping
<1>1. RebuildTypes
  BY DEF RebuildTypes, Receipts, Makers, Creators, Mappings, NoBoard, WithBoard, CreateSteps, MakeSteps, ShowSteps
<1>2. MadeInv
  BY DEF MadeInv
<1>3. ReceiptInv /\ FrozenInv /\ ShownInv
  BY DEF ReceiptInv, FrozenInv, ShownInv, CreateSteps, MakeSteps, ShowSteps
<1> QED
  BY <1>1, <1>2, <1>3 DEF RebuildInv

LEMMA RebuildSafe == ASSUME B!BoardRebuildAssumption PROVE B!Spec => []RebuildInv
<1>1. B!Init => RebuildInv
  BY RebuildInit
<1>2. RebuildInv /\ [B!Next]_(B!vars) => RebuildInv'
  <2> SUFFICES ASSUME RebuildInv, [B!Next]_(B!vars) PROVE RebuildInv'
    OBVIOUS
  <2>1. RebuildTypes /\ MadeInv /\ ReceiptInv /\ FrozenInv /\ ShownInv
    BY DEF RebuildInv
  <2>2. RebuildTypes'
    BY <2>1, RebuildTypesKept
  <2>3. MadeInv'
    BY <2>1, MadeKept
  <2>4. ReceiptInv'
    BY <2>1, ReceiptKept
  <2>5. FrozenInv'
    BY <2>1, FrozenKept
  <2>6. ShownInv'
    BY <2>1, ShownKept
  <2> QED
    BY <2>2, <2>3, <2>4, <2>5, <2>6 DEF RebuildInv
<1> QED
  BY <1>1, <1>2, PTL DEF B!Spec

\* No POST of a board is forgotten or sent again while its outcome is open: a board
\* that was made is named by the receipt of the operation that made it, or that
\* receipt still says pending, whatever crashes, fails or is refused; and no operation
\* makes two.
THEOREM BoardsKnown == ASSUME B!BoardRebuildAssumption PROVE B!Spec => []B!EveryBoardIsKnown
<1>1. RebuildInv => B!EveryBoardIsKnown
  <2> SUFFICES ASSUME RebuildInv, NEW by \in Boards \cup {"creation"}
               PROVE  B!Cardinality({b \in Boards : madeBy[b] = by}) <= 1
    BY DEF RebuildInv, MadeInv, B!EveryBoardIsKnown
  <2> DEFINE made == {b \in Boards : madeBy[b] = by}
  <2>1. \A b, c \in made : b = c
    BY DEF RebuildInv, MadeInv
  <2>2. \A S : B!Cardinality(S) = Cardinality(S)
    BY DEF B!Cardinality, Cardinality, B!IsFiniteSet, IsFiniteSet
  <2>3. CASE made = {}
    BY <2>2, <2>3, FS_EmptySet
  <2>4. ASSUME NEW b \in made PROVE B!Cardinality(made) <= 1
    <3>1. made = {b}
      BY <2>1
    <3>2. Cardinality(made) = 1
      BY <3>1, FS_Singleton
    <3> QED
      BY <2>2, <3>2
  <2>5. CASE made # {}
    BY <2>4, <2>5
  <2> QED
    BY <2>3, <2>5
<1> QED
  BY <1>1, RebuildSafe, PTL

\* A rebuild that has its board can be resumed with the plan of its receipt, and one
\* that is complete was published to its board, whoever relinks, edits or publishes
\* meanwhile.
THEOREM RebuildsHold == ASSUME B!BoardRebuildAssumption PROVE B!Spec => [](B!PlanIsFrozen /\ B!CompleteIsShown)
<1>1. RebuildInv => B!PlanIsFrozen /\ B!CompleteIsShown
  BY DEF RebuildInv, FrozenInv, ShownInv, Shown, B!PlanIsFrozen, B!CompleteIsShown, B!HasBoard
<1> QED
  BY <1>1, RebuildSafe, PTL

\* Every variable of the creation, the rebuild and the publication has its type.
THEOREM RebuildTyped == ASSUME B!BoardRebuildAssumption PROVE B!Spec => []B!TypeOK
<1>1. RebuildInv => B!TypeOK
  BY DEF RebuildInv, RebuildTypes, Receipts, NoBoard, WithBoard, B!TypeOK, B!HasBoard
<1> QED
  BY <1>1, RebuildSafe, PTL

-----------------------------------------------------------------------------
(* The verified index of a shared collection, for any number of jobs, reads,  *)
(* deaths and changes of archives and cache files.                            *)

CONSTANTS Jobs, Reads, MaxJobs, MaxChanges
VARIABLES archive, identity, db, catalog, gate, shelf, target, job, jobsStarted, changes
N == INSTANCE SnapshotIndex WITH MaxStarts <- MaxJobs, starts <- jobsStarted

\* A job, and the steps at which it holds the gate of the archive it is about.
Steps == {"free", "error", "gate", "cached", "verify", "load", "recheck", "publish", "catalog", "reopen",
          "shelf", "read", "rename"}
Building == {"verify", "load", "recheck", "publish", "catalog", "reopen"}
JobRecords == [pc : Steps, about : N!Archives, seen : 0..MaxChanges, sealed : BOOLEAN,
               index : N!Serials \cup {None}, left : 0..Reads, disturbed : BOOLEAN]

\* Every variable has its type; each change of an archive is a change.
SnapshotTypes ==
  /\ N!TypeOK
  /\ changes \in 0..MaxChanges /\ jobsStarted \in Nat
  /\ archive \in [N!Archives -> [stat : Nat, bad : SUBSET N!Files]]
  /\ \A a \in N!Archives : archive[a].stat <= changes
  /\ job \in [Jobs -> JobRecords]

\* What a job knows of its archive: the stat it began with is an earlier one,
\* and the current one unless something changed; what it loaded from an archive
\* that passed and did not change is what was sealed.
SeenInv ==
  \A j \in Jobs :
    LET a == job[j].about
        same == archive[a].stat = job[j].seen
    IN N!Working(j) =>
         /\ job[j].seen <= archive[a].stat
         /\ ~job[j].disturbed => same /\ \A b \in N!Archives : archive[b].bad = {}
         /\ same /\ job[j].pc = "load" => archive[a].bad = {}
         /\ same /\ job[j].pc = "recheck" => job[j].sealed
         /\ job[j].pc \in {"catalog", "reopen", "shelf", "read", "rename"} => a = "shared"

\* Only what is sealed is published, and so nothing else is projected.
SealedInv ==
  /\ \A j \in Jobs : job[j].pc \in {"publish", "catalog", "reopen", "shelf", "read", "rename"} =>
      job[j].sealed
  /\ db # None => db.rows # "other"
  /\ target # "other"

\* One job prepares an archive at a time.
GateInv ==
  \A j \in Jobs : job[j].pc \in Building \cup {"cached"} => gate[job[j].about] = j

\* What a job that nothing disturbed relies on stays: no other one replaces the
\* index it has opened, because the catalog is good for whoever opens it.
Settled(j) ==
  /\ N!_cached(job[j].seen) /\ db.stat = job[j].index /\ db.rows # "damaged"
  /\ \A k \in Jobs : job[k].about = "shared" =>
       /\ job[k].pc \notin Building
       /\ job[k].pc = "cached" => job[k].seen = archive["shared"].stat
IndexInv ==
  \A j \in Jobs : ~job[j].disturbed =>
    /\ job[j].pc = "catalog" => db # None
    /\ job[j].pc = "reopen" => N!_cached(job[j].seen)
    /\ job[j].pc \in {"shelf", "read"} => Settled(j)

SnapshotInv == SnapshotTypes /\ SeenInv /\ SealedInv /\ GateInv /\ IndexInv /\ N!ErrorsHaveCauses

LEMMA SnapshotConstants ==
  ASSUME N!SnapshotAssumption
  PROVE  /\ Reads \in Nat \ {0} /\ MaxJobs \in Nat \ {0} /\ MaxChanges \in Nat \ {0}
         /\ None \notin Jobs /\ None \notin N!Serials /\ None \notin N!Databases /\ None \notin N!Catalogs
  BY DEF N!SnapshotAssumption

\* The model counts as the library does.
LEMMA CountingIndexes == \A S : (N!IsFiniteSet(S) <=> IsFiniteSet(S)) /\ N!Cardinality(S) = Cardinality(S)
<1>1. \A S : N!IsFiniteSet(S) <=> IsFiniteSet(S)
  BY DEF N!IsFiniteSet, IsFiniteSet
<1>2. \A S : N!Cardinality(S) = Cardinality(S)
  BY DEF N!Cardinality, Cardinality
<1> QED
  BY <1>1, <1>2

\* There is a stat that no database has: all of them are stats of the two
\* files, or known to a job.
LEMMA UnusedIsSerial ==
  ASSUME N!SnapshotAssumption, SnapshotTypes
  PROVE  N!Unused \in N!Serials
<1> DEFINE Known == {job[k].index : k \in Jobs}
           OfDb == IF db = None THEN {} ELSE {db.stat}
           OfCatalog == IF catalog = None THEN {} ELSE {catalog.stat}
           used == Known \cup (OfDb \cup OfCatalog)
<1>1. IsFiniteSet(Jobs) /\ Cardinality(Jobs) \in Nat
  <2>1. IsFiniteSet(Jobs)
    BY CountingIndexes DEF N!SnapshotAssumption
  <2> QED
    BY <2>1, FS_CardinalityType
<1>2. IsFiniteSet(Known) /\ Cardinality(Known) <= Cardinality(Jobs)
  <2> DEFINE f == [k \in Jobs |-> job[k].index]
  <2>1. f \in Surjection(Jobs, Known)
    BY DEF Surjection
  <2> QED
    BY <1>1, <2>1, FS_Surjection, Zenon
<1>3. IsFiniteSet(OfDb) /\ Cardinality(OfDb) <= 1 /\ IsFiniteSet(OfCatalog) /\ Cardinality(OfCatalog) <= 1
  <2>1. \A x : IsFiniteSet({x}) /\ Cardinality({x}) = 1
    BY FS_Singleton
  <2>2. IsFiniteSet({}) /\ Cardinality({}) = 0
    BY FS_EmptySet
  <2>3. IsFiniteSet(OfDb) /\ Cardinality(OfDb) <= 1
    <3>1. CASE db = None
      BY <2>2, <3>1
    <3>2. CASE db # None
      <4>1. OfDb = {db.stat}
        BY <3>2
      <4>2. IsFiniteSet(OfDb) /\ Cardinality(OfDb) = 1
        BY <2>1, <4>1, Zenon
      <4> QED
        BY <4>2
    <3> QED
      BY <3>1, <3>2
  <2>4. IsFiniteSet(OfCatalog) /\ Cardinality(OfCatalog) <= 1
    <3>1. CASE catalog = None
      BY <2>2, <3>1
    <3>2. CASE catalog # None
      <4>1. OfCatalog = {catalog.stat}
        BY <3>2
      <4>2. IsFiniteSet(OfCatalog) /\ Cardinality(OfCatalog) = 1
        BY <2>1, <4>1, Zenon
      <4> QED
        BY <4>2
    <3> QED
      BY <3>1, <3>2
  <2> QED
    BY <2>3, <2>4
<1>4. IsFiniteSet(OfDb \cup OfCatalog) /\ Cardinality(OfDb \cup OfCatalog) <= 2
  <2>1. IsFiniteSet(OfDb \cup OfCatalog)
        /\ Cardinality(OfDb \cup OfCatalog)
             = Cardinality(OfDb) + Cardinality(OfCatalog) - Cardinality(OfDb \cap OfCatalog)
    BY <1>3, FS_Union
  <2>2. IsFiniteSet(OfDb \cap OfCatalog)
    BY <1>3, FS_Intersection
  <2> QED
    BY <1>3, <2>1, <2>2, FS_CardinalityType
<1>5. IsFiniteSet(used) /\ Cardinality(used) <= Cardinality(Jobs) + 2
  <2>1. /\ IsFiniteSet(used)
        /\ Cardinality(used) = Cardinality(Known) + Cardinality(OfDb \cup OfCatalog)
                                 - Cardinality(Known \cap (OfDb \cup OfCatalog))
    BY <1>2, <1>4, FS_Union
  <2>2. IsFiniteSet(Known \cap (OfDb \cup OfCatalog))
    BY <1>2, <1>4, FS_Intersection
  <2> QED
    BY <1>1, <1>2, <1>4, <2>1, <2>2, FS_CardinalityType
<1>6. IsFiniteSet(N!Serials) /\ Cardinality(N!Serials) = Cardinality(Jobs) + 3
  <2>1. 0 \in Int /\ 2 + Cardinality(Jobs) \in Int /\ 0 <= 2 + Cardinality(Jobs)
    BY <1>1
  <2>2. IsFiniteSet(0..(2 + Cardinality(Jobs)))
        /\ Cardinality(0..(2 + Cardinality(Jobs))) = 2 + Cardinality(Jobs) - 0 + 1
    BY <1>1, <2>1, FS_Interval
  <2> QED
    BY <1>1, <2>2, CountingIndexes DEF N!Serials
<1>7. ~(N!Serials \subseteq used)
  BY <1>1, <1>5, <1>6, FS_Subset, FS_CardinalityType
<1>8. PICK n \in N!Serials : n \notin used
  BY <1>7
<1>9. used = {job[j].index : j \in Jobs} \cup (IF db = None THEN {} ELSE {db.stat})
              \cup (IF catalog = None THEN {} ELSE {catalog.stat})
  OBVIOUS
<1> QED
  BY <1>8, <1>9, Zenon DEF N!Unused

About(j, a, pc) == job[j].about = a /\ job[j].pc = pc

\* A change is noted by every job that works.
LEMMA Noted ==
  ASSUME N!SnapshotAssumption, SnapshotTypes, N!Happens
  PROVE  /\ job' \in [Jobs -> JobRecords] /\ changes' \in 0..MaxChanges /\ changes' = changes + 1
         /\ \A k \in Jobs : job'[k].left = job[k].left /\ job'[k].index = job[k].index
<1>1. changes' \in 0..MaxChanges /\ changes' = changes + 1
  BY SnapshotConstants DEF N!Happens, SnapshotTypes
<1>2. ASSUME NEW k \in Jobs
      PROVE  job'[k] \in JobRecords /\ job'[k].left = job[k].left /\ job'[k].index = job[k].index
  BY DEF N!Happens, SnapshotTypes, JobRecords, Steps
<1>3. job' \in [Jobs -> JobRecords]
  BY <1>2 DEF N!Happens
<1> QED
  BY <1>1, <1>2, <1>3

\* What each step makes of the record of its job: it starts.
AfterStarted(j, r) ==
  /\ job' = [job EXCEPT ![j] = r]
  /\ r.pc = "gate"
  /\ r.about = "private"
  /\ r.seen = archive["private"].stat
  /\ r.sealed = TRUE
  /\ r.index = None
  /\ r.left = 0
  /\ r.disturbed = N!Damage
LEMMA Started ==
  ASSUME N!SnapshotAssumption, SnapshotTypes, NEW j \in Jobs, N!Start(j)
  PROVE  \E r \in JobRecords : AfterStarted(j, r)
<1> DEFINE r == [N!Free EXCEPT !.pc = "gate", !.seen = archive["private"].stat, !.disturbed = N!Damage]
<1>1. job' = [job EXCEPT ![j] = r]
  BY DEF N!Start, N!Goes, N!_inventory, N!About
<1>2. job[j] \in JobRecords
  BY DEF SnapshotTypes
<1>3. archive["private"].stat \in 0..MaxChanges /\ N!Damage \in BOOLEAN /\ 0 \in 0..Reads
  BY <1>2, SnapshotConstants DEF JobRecords, SnapshotTypes, N!TypeOK, N!Databases, N!_cached, N!_read,
      N!Has, N!Archives, N!_inventory, N!Damage
<1>4. r \in JobRecords /\ AfterStarted(j, r)
  BY <1>1, <1>2, <1>3 DEF AfterStarted, JobRecords, Steps, N!Archives, N!Free
<1> QED
  BY <1>4

\* It loads its archive.
AfterLoaded(j, r) ==
  /\ job' = [job EXCEPT ![j] = r]
  /\ r.pc = "recheck"
  /\ r.about = job[j].about
  /\ r.seen = job[j].seen
  /\ r.sealed = ("trace" \notin archive[job[j].about].bad)
  /\ r.index = job[j].index
  /\ r.left = job[j].left
  /\ r.disturbed = job[j].disturbed
LEMMA Loaded ==
  ASSUME N!SnapshotAssumption, SnapshotTypes, NEW j \in Jobs, N!_build(j)
  PROVE  \E r \in JobRecords : AfterLoaded(j, r)
<1> DEFINE r == [job[j] EXCEPT !.pc = "recheck", !.sealed = ("trace" \notin archive[job[j].about].bad)]
<1>1. job' = [job EXCEPT ![j] = r]
  BY DEF N!_build, N!Goes, N!_inventory, N!About
<1>2. job[j] \in JobRecords
  BY DEF SnapshotTypes
<1>3. TRUE
  BY <1>2, SnapshotConstants DEF JobRecords, SnapshotTypes, N!TypeOK, N!Databases, N!_cached, N!_read,
      N!Has, N!Archives, N!_inventory
<1>4. r \in JobRecords /\ AfterLoaded(j, r)
  BY <1>1, <1>2, <1>3 DEF AfterLoaded, JobRecords, Steps, N!Archives
<1> QED
  BY <1>4

\* It has finished the projection.
AfterRenamed(j, r) ==
  /\ job' = [job EXCEPT ![j] = r]
  /\ r.pc = "free"
  /\ r.about = job[j].about
  /\ r.seen = job[j].seen
  /\ r.sealed = job[j].sealed
  /\ r.index = None
  /\ r.left = job[j].left
  /\ r.disturbed = job[j].disturbed
LEMMA Renamed ==
  ASSUME N!SnapshotAssumption, SnapshotTypes, NEW j \in Jobs, N!Rename(j)
  PROVE  \E r \in JobRecords : AfterRenamed(j, r)
<1> DEFINE r == [job[j] EXCEPT !.pc = "free", !.index = None]
<1>1. job' = [job EXCEPT ![j] = r]
  BY DEF N!Rename, N!Goes, N!_inventory, N!About
<1>2. job[j] \in JobRecords
  BY DEF SnapshotTypes
<1>3. TRUE
  BY <1>2, SnapshotConstants DEF JobRecords, SnapshotTypes, N!TypeOK, N!Databases, N!_cached, N!_read,
      N!Has, N!Archives, N!_inventory
<1>4. r \in JobRecords /\ AfterRenamed(j, r)
  BY <1>1, <1>2, <1>3 DEF AfterRenamed, JobRecords, Steps, N!Archives
<1> QED
  BY <1>4

\* It opens the index.
AfterOpened(j, r) ==
  /\ job' = [job EXCEPT ![j] = r]
  /\ r.pc = "shelf"
  /\ r.about = job[j].about
  /\ r.seen = job[j].seen
  /\ r.sealed = TRUE
  /\ r.index = db.stat
  /\ r.left = job[j].left
  /\ r.disturbed = (job[j].disturbed \/ db.rows = "damaged")
LEMMA Opened ==
  ASSUME N!SnapshotAssumption, SnapshotTypes, NEW j \in Jobs, N!Opens(j), N!_cached(job[j].seen)
  PROVE  \E r \in JobRecords : AfterOpened(j, r)
<1> DEFINE r == [job[j] EXCEPT !.pc = "shelf", !.index = db.stat, !.sealed = TRUE, !.disturbed =
    (job[j].disturbed \/ db.rows = "damaged")]
<1>1. job' = [job EXCEPT ![j] = r]
  BY DEF N!Opens, N!Goes, N!_inventory, N!About
<1>2. job[j] \in JobRecords
  BY DEF SnapshotTypes
<1>3. db.stat \in N!Serials
  BY <1>2, SnapshotConstants DEF JobRecords, SnapshotTypes, N!TypeOK, N!Databases, N!_cached, N!_read,
      N!Has, N!Archives, N!_inventory
<1>4. r \in JobRecords /\ AfterOpened(j, r)
  BY <1>1, <1>2, <1>3 DEF AfterOpened, JobRecords, Steps, N!Archives
<1> QED
  BY <1>4

\* It turns to the shared archive.
AfterTurned(j, r) ==
  /\ job' = [job EXCEPT ![j] = r]
  /\ r.pc = "gate"
  /\ r.about = "shared"
  /\ r.seen = archive["shared"].stat
  /\ r.sealed = TRUE
  /\ r.index = job[j].index
  /\ r.left = job[j].left
  /\ r.disturbed = job[j].disturbed
LEMMA Turned ==
  ASSUME N!SnapshotAssumption, SnapshotTypes, NEW j \in Jobs, N!ToShared(j)
  PROVE  \E r \in JobRecords : AfterTurned(j, r)
<1> DEFINE r == [job[j] EXCEPT !.pc = "gate", !.about = "shared", !.seen = archive["shared"].stat,
    !.sealed = TRUE]
<1>1. job' = [job EXCEPT ![j] = r]
  BY DEF N!ToShared, N!Goes, N!_inventory, N!About
<1>2. job[j] \in JobRecords
  BY DEF SnapshotTypes
<1>3. archive["shared"].stat \in 0..MaxChanges
  BY <1>2, SnapshotConstants DEF JobRecords, SnapshotTypes, N!TypeOK, N!Databases, N!_cached, N!_read,
      N!Has, N!Archives, N!_inventory
<1>4. r \in JobRecords /\ AfterTurned(j, r)
  BY <1>1, <1>2, <1>3 DEF AfterTurned, JobRecords, Steps, N!Archives
<1> QED
  BY <1>4

\* It finds a projection that is there, or begins one, or copies a record.
AfterReused(j, r) ==
  /\ job' = [job EXCEPT ![j] = r]
  /\ r.pc = "free"
  /\ r.about = job[j].about
  /\ r.seen = job[j].seen
  /\ r.sealed = job[j].sealed
  /\ r.index = None
  /\ r.left = job[j].left
  /\ r.disturbed = job[j].disturbed
LEMMA Reused ==
  ASSUME N!SnapshotAssumption, SnapshotTypes, NEW j \in Jobs, N!_materialize(j), target = "sealed"
  PROVE  \E r \in JobRecords : AfterReused(j, r)
<1> DEFINE r == [job[j] EXCEPT !.pc = "free", !.index = None]
<1>1. job' = [job EXCEPT ![j] = r]
  BY DEF N!_materialize, N!Goes, N!_inventory, N!About
<1>2. job[j] \in JobRecords
  BY DEF SnapshotTypes
<1>3. TRUE
  BY <1>2, SnapshotConstants DEF JobRecords, SnapshotTypes, N!TypeOK, N!Databases, N!_cached, N!_read,
      N!Has, N!Archives, N!_inventory
<1>4. r \in JobRecords /\ AfterReused(j, r)
  BY <1>1, <1>2, <1>3 DEF AfterReused, JobRecords, Steps, N!Archives
<1> QED
  BY <1>4

AfterBegun(j, r) ==
  /\ job' = [job EXCEPT ![j] = r]
  /\ r.pc = "read"
  /\ r.about = job[j].about
  /\ r.seen = job[j].seen
  /\ r.sealed = job[j].sealed
  /\ r.index = job[j].index
  /\ r.left = Reads
  /\ r.disturbed = job[j].disturbed
LEMMA Begun ==
  ASSUME N!SnapshotAssumption, SnapshotTypes, NEW j \in Jobs, N!_materialize(j), target \notin
      {"sealed", "other"}
  PROVE  \E r \in JobRecords : AfterBegun(j, r)
<1> DEFINE r == [job[j] EXCEPT !.pc = "read", !.left = Reads]
<1>1. job' = [job EXCEPT ![j] = r]
  BY DEF N!_materialize, N!Goes, N!_inventory, N!About
<1>2. job[j] \in JobRecords
  BY DEF SnapshotTypes
<1>3. Reads \in 0..Reads
  BY <1>2, SnapshotConstants DEF JobRecords, SnapshotTypes, N!TypeOK, N!Databases, N!_cached, N!_read,
      N!Has, N!Archives, N!_inventory
<1>4. r \in JobRecords /\ AfterBegun(j, r)
  BY <1>1, <1>2, <1>3 DEF AfterBegun, JobRecords, Steps, N!Archives
<1> QED
  BY <1>4

AfterCopied(j, r) ==
  /\ job' = [job EXCEPT ![j] = r]
  /\ r.pc = "read"
  /\ r.about = job[j].about
  /\ r.seen = job[j].seen
  /\ r.sealed = (job[j].sealed /\ db.rows = "sealed")
  /\ r.index = job[j].index
  /\ r.left = job[j].left - 1
  /\ r.disturbed = job[j].disturbed
LEMMA Copied ==
  ASSUME N!SnapshotAssumption, SnapshotTypes, NEW j \in Jobs, N!_read(j), db # None /\ db.stat =
      job[j].index /\ db.rows # "damaged"
  PROVE  \E r \in JobRecords : AfterCopied(j, r)
<1> DEFINE r == [job[j] EXCEPT !.left = job[j].left - 1, !.sealed = (job[j].sealed /\ db.rows = "sealed")]
<1>1. job' = [job EXCEPT ![j] = r]
  BY DEF N!_read, N!Goes, N!_inventory, N!About
<1>2. job[j] \in JobRecords
  BY DEF SnapshotTypes
<1>3. job[j].left - 1 \in 0..Reads /\ job[j].pc = "read"
  BY <1>2, SnapshotConstants DEF JobRecords, SnapshotTypes, N!TypeOK, N!Databases, N!_cached, N!_read,
      N!Has, N!Archives, N!_inventory
<1>4. r \in JobRecords /\ AfterCopied(j, r)
  BY <1>1, <1>2, <1>3 DEF AfterCopied, JobRecords, Steps, N!Archives
<1> QED
  BY <1>4

LEMMA SnapshotTypesKept ==
  ASSUME N!SnapshotAssumption, SnapshotTypes, SealedInv, [N!Next]_(N!vars)
  PROVE  SnapshotTypes'
<1> USE SnapshotConstants DEF N!Caches, N!Counts, N!Locks, N!Has, N!About, N!_inventory, N!Error,
    N!Leaves, N!Rows, N!Happens, SnapshotTypes, N!TypeOK, JobRecords, Steps, N!Archives, N!Files,
    N!Databases, N!Catalogs, SealedInv
<1>1. ASSUME NEW j \in Jobs, N!Start(j) PROVE SnapshotTypes'
  <2>1. PICK r \in JobRecords : AfterStarted(j, r)
    BY <1>1, Started DEF N!Start
  <2>2. job' \in [Jobs -> JobRecords]
    BY <2>1 DEF AfterStarted
  <2>3. jobsStarted' \in Nat
    BY <1>1 DEF N!Start
  <2>4. \A k \in Jobs : job'[k].left \in 0..Reads /\ job'[k].index \in N!Serials \cup {None}
    BY <2>2 DEF JobRecords
  <2> QED
    BY <1>1, <2>2, <2>3, <2>4 DEF N!Start
<1>2. ASSUME NEW j \in Jobs, N!_gate(j) PROVE SnapshotTypes'
  BY <1>2 DEF N!_gate, N!Goes
<1>3. ASSUME NEW j \in Jobs, N!open_snapshot_index(j) PROVE SnapshotTypes'
  <2>1. CASE N!_cached(job[j].seen)
    <3>1. PICK r \in JobRecords : AfterOpened(j, r)
      BY <1>3, <2>1, Opened DEF N!open_snapshot_index
    <3> QED
      BY <1>3, <2>1, <3>1 DEF N!open_snapshot_index, N!Opens, AfterOpened
  <2>2. CASE ~N!_cached(job[j].seen)
    BY <1>3, <2>2 DEF N!open_snapshot_index, N!Opens, N!Goes
  <2> QED
    BY <1>3, <2>1, <2>2
<1>4. ASSUME NEW j \in Jobs, N!verified_source_identity(j) PROVE SnapshotTypes'
  <2>1. CASE identity = job[j].seen
    <3>1. PICK r \in JobRecords : AfterTurned(j, r)
      BY <1>4, <2>1, Turned DEF N!verified_source_identity
    <3> QED
      BY <1>4, <2>1, <3>1 DEF N!verified_source_identity, N!ToShared, AfterTurned
  <2>2. CASE identity # job[j].seen
    BY <1>4, <2>2 DEF N!verified_source_identity, N!ToShared, N!Goes
  <2> QED
    BY <1>4, <2>1, <2>2
<1>5. ASSUME NEW j \in Jobs, N!verify_export(j) PROVE SnapshotTypes'
  BY <1>5 DEF N!verify_export, N!Goes
<1>6. ASSUME NEW j \in Jobs, N!_build(j) PROVE SnapshotTypes'
  <2>1. PICK r \in JobRecords : AfterLoaded(j, r)
    BY <1>6, Loaded DEF N!_build
  <2> QED
    BY <1>6, <2>1 DEF N!_build, AfterLoaded
<1>7. ASSUME NEW j \in Jobs, N!Recheck(j) PROVE SnapshotTypes'
  BY <1>7 DEF N!Recheck, N!Goes
<1>8. ASSUME NEW j \in Jobs, N!SaveIdentity(j) PROVE SnapshotTypes'
  <2>1. PICK r \in JobRecords : AfterTurned(j, r)
    BY <1>8, Turned DEF N!SaveIdentity
  <2> QED
    BY <1>8, <2>1 DEF N!SaveIdentity, N!ToShared, AfterTurned
<1>9. ASSUME NEW j \in Jobs, N!ReplaceDatabase(j) PROVE SnapshotTypes'
  <2>1. db' \in N!Databases
    BY <1>9, UnusedIsSerial DEF N!ReplaceDatabase, N!Databases
  <2>2. job' \in [Jobs -> JobRecords] /\ \A k \in Jobs : job'[k].left = job[k].left /\ job'[k].index =
      job[k].index
    BY <1>9 DEF N!ReplaceDatabase, N!Goes
  <2> QED
    BY <1>9, <2>1, <2>2 DEF N!ReplaceDatabase
<1>10. ASSUME NEW j \in Jobs, N!ReplaceCatalog(j) PROVE SnapshotTypes'
  BY <1>10 DEF N!ReplaceCatalog, N!Databases, N!Catalogs, N!Goes
<1>11. ASSUME NEW j \in Jobs, N!Reopen(j) PROVE SnapshotTypes'
  <2>1. CASE N!_cached(job[j].seen)
    <3>1. PICK r \in JobRecords : AfterOpened(j, r)
      BY <1>11, <2>1, Opened DEF N!Reopen
    <3> QED
      BY <1>11, <2>1, <3>1 DEF N!Reopen, N!Opens, AfterOpened
  <2>2. CASE ~N!_cached(job[j].seen)
    BY <1>11, <2>2 DEF N!Reopen, N!Opens, N!Goes
  <2> QED
    BY <1>11, <2>1, <2>2
<1>12. ASSUME NEW j \in Jobs, N!_materialize(j) PROVE SnapshotTypes'
  <2>1. CASE target = "other"
    BY <1>12, <2>1 DEF N!_materialize, N!Goes
  <2>2. CASE target = "sealed"
    <3>1. PICK r \in JobRecords : AfterReused(j, r)
      BY <1>12, <2>2, Reused DEF N!_materialize
    <3> QED
      BY <1>12, <2>2, <3>1 DEF N!_materialize, AfterReused
  <2>3. CASE target \notin {"sealed", "other"}
    <3>1. PICK r \in JobRecords : AfterBegun(j, r)
      BY <1>12, <2>3, Begun DEF N!_materialize
    <3> QED
      BY <1>12, <2>3, <3>1 DEF N!_materialize, AfterBegun
  <2> QED
    BY <1>12, <2>1, <2>2, <2>3 DEF SnapshotTypes, N!TypeOK
<1>13. ASSUME NEW j \in Jobs, N!_read(j) PROVE SnapshotTypes'
  <2>1. CASE db # None /\ db.stat = job[j].index /\ db.rows # "damaged"
    <3>1. PICK r \in JobRecords : AfterCopied(j, r)
      BY <1>13, <2>1, Copied DEF N!_read
    <3> QED
      BY <1>13, <2>1, <3>1 DEF N!_read, N!Databases, AfterCopied
  <2>2. CASE ~(db # None /\ db.stat = job[j].index /\ db.rows # "damaged")
    BY <1>13, <2>2 DEF N!_read, N!Databases, N!Goes
  <2> QED
    BY <1>13, <2>1, <2>2
<1>14. ASSUME NEW j \in Jobs, N!_copy_observations(j) PROVE SnapshotTypes'
  <2>1. CASE "evidence" \in archive["shared"].bad
    BY <1>14, <2>1 DEF N!_copy_observations, N!Goes
  <2>2. CASE "evidence" \notin archive["shared"].bad
    BY <1>14, <2>2 DEF N!_copy_observations, N!Goes
  <2> QED
    BY <2>1, <2>2
<1>15. ASSUME NEW j \in Jobs, N!Rename(j) PROVE SnapshotTypes'
  <2>1. PICK r \in JobRecords : AfterRenamed(j, r)
    BY <1>15, Renamed DEF N!Rename
  <2> QED
    BY <1>15, <2>1 DEF N!Rename, AfterRenamed
<1>16. ASSUME NEW j \in Jobs, N!Die(j) PROVE SnapshotTypes'
  BY <1>16 DEF N!Die, N!Free
<1>17. CASE N!DatabaseChanges
  <2>1. CASE db' = None
    BY <1>17, <2>1, Noted DEF N!DatabaseChanges
  <2>2. CASE db' = [stat |-> N!Unused, rows |-> "damaged"]
    BY <1>17, <2>2, Noted, UnusedIsSerial DEF N!DatabaseChanges, N!Databases
  <2> QED
    BY <1>17, <2>1, <2>2 DEF N!DatabaseChanges
<1>18. CASE N!CatalogLost
  BY <1>18, Noted DEF N!CatalogLost
<1>19. ASSUME NEW a \in N!Archives, N!ArchiveChanges(a) PROVE SnapshotTypes'
  <2>1. PICK bad \in SUBSET N!Files : archive' = [archive EXCEPT ![a] = [stat |-> archive[a].stat + 1,
      bad |-> bad]]
    BY <1>19 DEF N!ArchiveChanges
  <2>2. changes' = changes + 1 /\ changes' \in 0..MaxChanges
    BY <1>19, Noted DEF N!ArchiveChanges
  <2>3. archive' \in [N!Archives -> [stat : Nat, bad : SUBSET N!Files]]
    BY <2>1
  <2>4. \A b \in N!Archives : archive'[b].stat \in Nat /\ archive'[b].bad \subseteq N!Files
    BY <2>3
  <2>5. \A b \in N!Archives : archive'[b].stat <= archive[b].stat + 1
    BY <2>1
  <2>6. \A b \in N!Archives : archive'[b].stat <= changes' /\ archive'[b].stat \in 0..MaxChanges
    BY <2>2, <2>4, <2>5
  <2> QED
    BY <1>19, <2>2, <2>3, <2>4, <2>6, Noted DEF N!ArchiveChanges
<1>20. CASE UNCHANGED N!vars
  BY <1>20 DEF N!vars
<1> QED
  BY <1>1, <1>2, <1>3, <1>4, <1>5, <1>6, <1>7, <1>8, <1>9, <1>10, <1>11, <1>12, <1>13, <1>14, <1>15,
      <1>16, <1>17, <1>18, <1>19, <1>20 DEF N!Next, N!Proceed

LEMMA SeenKept ==
  ASSUME N!SnapshotAssumption, SnapshotTypes, SeenInv, [N!Next]_(N!vars)
  PROVE  SeenInv'
<1> USE SnapshotConstants DEF N!Caches, N!Counts, N!Locks, N!Has, N!About, N!_inventory, N!Error,
    N!Leaves, N!Rows, N!Happens, SnapshotTypes, N!TypeOK, JobRecords, Steps, N!Archives, N!Files,
    SeenInv, N!Working
<1>1. ASSUME NEW j \in Jobs, N!Start(j) PROVE SeenInv'
  <2>1. PICK r \in JobRecords : AfterStarted(j, r)
    BY <1>1, Started DEF N!Start
  <2>2. ~r.disturbed => \A b \in N!Archives : archive[b].bad = {}
    BY <2>1 DEF AfterStarted, N!Damage
  <2>3. job'[j] = r /\ archive' = archive /\ \A k \in Jobs \ {j} : job'[k] = job[k]
    BY <1>1, <2>1 DEF AfterStarted, N!Start
  <2>4. archive["private"].stat \in Nat
    OBVIOUS
  <2> QED
    BY <2>1, <2>2, <2>3, <2>4 DEF AfterStarted
<1>2. ASSUME NEW j \in Jobs, N!_gate(j) PROVE SeenInv'
  BY <1>2 DEF N!_gate, N!Goes
<1>3. ASSUME NEW j \in Jobs, N!open_snapshot_index(j) PROVE SeenInv'
  <2>1. CASE N!_cached(job[j].seen)
    <3>1. PICK r \in JobRecords : AfterOpened(j, r)
      BY <1>3, <2>1, Opened DEF N!open_snapshot_index
    <3> QED
      BY <1>3, <2>1, <3>1 DEF N!open_snapshot_index, N!Opens, AfterOpened
  <2>2. CASE ~N!_cached(job[j].seen)
    BY <1>3, <2>2 DEF N!open_snapshot_index, N!Opens, N!Goes
  <2> QED
    BY <1>3, <2>1, <2>2
<1>4. ASSUME NEW j \in Jobs, N!verified_source_identity(j) PROVE SeenInv'
  <2>1. CASE identity = job[j].seen
    <3>1. PICK r \in JobRecords : AfterTurned(j, r)
      BY <1>4, <2>1, Turned DEF N!verified_source_identity
    <3> QED
      BY <1>4, <2>1, <3>1 DEF N!verified_source_identity, N!ToShared, AfterTurned
  <2>2. CASE identity # job[j].seen
    BY <1>4, <2>2 DEF N!verified_source_identity, N!ToShared, N!Goes
  <2> QED
    BY <1>4, <2>1, <2>2
<1>5. ASSUME NEW j \in Jobs, N!verify_export(j) PROVE SeenInv'
  BY <1>5 DEF N!verify_export, N!Goes
<1>6. ASSUME NEW j \in Jobs, N!_build(j) PROVE SeenInv'
  <2>1. PICK r \in JobRecords : AfterLoaded(j, r)
    BY <1>6, Loaded DEF N!_build
  <2> QED
    BY <1>6, <2>1 DEF N!_build, AfterLoaded
<1>7. ASSUME NEW j \in Jobs, N!Recheck(j) PROVE SeenInv'
  BY <1>7 DEF N!Recheck, N!Goes
<1>8. ASSUME NEW j \in Jobs, N!SaveIdentity(j) PROVE SeenInv'
  <2>1. PICK r \in JobRecords : AfterTurned(j, r)
    BY <1>8, Turned DEF N!SaveIdentity
  <2> QED
    BY <1>8, <2>1 DEF N!SaveIdentity, N!ToShared, AfterTurned
<1>9. ASSUME NEW j \in Jobs, N!ReplaceDatabase(j) PROVE SeenInv'
  BY <1>9 DEF N!ReplaceDatabase, N!Databases, N!Goes
<1>10. ASSUME NEW j \in Jobs, N!ReplaceCatalog(j) PROVE SeenInv'
  BY <1>10 DEF N!ReplaceCatalog, N!Databases, N!Catalogs, N!Goes
<1>11. ASSUME NEW j \in Jobs, N!Reopen(j) PROVE SeenInv'
  <2>1. CASE N!_cached(job[j].seen)
    <3>1. PICK r \in JobRecords : AfterOpened(j, r)
      BY <1>11, <2>1, Opened DEF N!Reopen
    <3> QED
      BY <1>11, <2>1, <3>1 DEF N!Reopen, N!Opens, AfterOpened
  <2>2. CASE ~N!_cached(job[j].seen)
    BY <1>11, <2>2 DEF N!Reopen, N!Opens, N!Goes
  <2> QED
    BY <1>11, <2>1, <2>2
<1>12. ASSUME NEW j \in Jobs, N!_materialize(j) PROVE SeenInv'
  <2>1. CASE target = "other"
    BY <1>12, <2>1 DEF N!_materialize, N!Goes
  <2>2. CASE target = "sealed"
    <3>1. PICK r \in JobRecords : AfterReused(j, r)
      BY <1>12, <2>2, Reused DEF N!_materialize
    <3> QED
      BY <1>12, <2>2, <3>1 DEF N!_materialize, AfterReused
  <2>3. CASE target \notin {"sealed", "other"}
    <3>1. PICK r \in JobRecords : AfterBegun(j, r)
      BY <1>12, <2>3, Begun DEF N!_materialize
    <3> QED
      BY <1>12, <2>3, <3>1 DEF N!_materialize, AfterBegun
  <2> QED
    BY <1>12, <2>1, <2>2, <2>3 DEF SnapshotTypes, N!TypeOK
<1>13. ASSUME NEW j \in Jobs, N!_read(j) PROVE SeenInv'
  <2>1. CASE db # None /\ db.stat = job[j].index /\ db.rows # "damaged"
    <3>1. PICK r \in JobRecords : AfterCopied(j, r)
      BY <1>13, <2>1, Copied DEF N!_read
    <3> QED
      BY <1>13, <2>1, <3>1 DEF N!_read, N!Databases, AfterCopied
  <2>2. CASE ~(db # None /\ db.stat = job[j].index /\ db.rows # "damaged")
    BY <1>13, <2>2 DEF N!_read, N!Databases, N!Goes
  <2> QED
    BY <1>13, <2>1, <2>2
<1>14. ASSUME NEW j \in Jobs, N!_copy_observations(j) PROVE SeenInv'
  <2>1. CASE "evidence" \in archive["shared"].bad
    BY <1>14, <2>1 DEF N!_copy_observations, N!Goes
  <2>2. CASE "evidence" \notin archive["shared"].bad
    BY <1>14, <2>2 DEF N!_copy_observations, N!Goes
  <2> QED
    BY <2>1, <2>2
<1>15. ASSUME NEW j \in Jobs, N!Rename(j) PROVE SeenInv'
  <2>1. PICK r \in JobRecords : AfterRenamed(j, r)
    BY <1>15, Renamed DEF N!Rename
  <2> QED
    BY <1>15, <2>1 DEF N!Rename, AfterRenamed
<1>16. ASSUME NEW j \in Jobs, N!Die(j) PROVE SeenInv'
  BY <1>16 DEF N!Die, N!Free
<1>17. CASE N!DatabaseChanges
  BY <1>17 DEF N!DatabaseChanges
<1>18. CASE N!CatalogLost
  BY <1>18 DEF N!CatalogLost
<1>19. ASSUME NEW a \in N!Archives, N!ArchiveChanges(a) PROVE SeenInv'
  BY <1>19 DEF N!ArchiveChanges
<1>20. CASE UNCHANGED N!vars
  BY <1>20 DEF N!vars
<1> QED
  BY <1>1, <1>2, <1>3, <1>4, <1>5, <1>6, <1>7, <1>8, <1>9, <1>10, <1>11, <1>12, <1>13, <1>14, <1>15,
      <1>16, <1>17, <1>18, <1>19, <1>20 DEF N!Next, N!Proceed

LEMMA SealsKept ==
  ASSUME N!SnapshotAssumption, SnapshotTypes, SeenInv, SealedInv, [N!Next]_(N!vars)
  PROVE  SealedInv'
<1> USE SnapshotConstants DEF N!Caches, N!Counts, N!Locks, N!Has, N!About, N!_inventory, N!Error,
    N!Leaves, N!Rows, N!Happens, SnapshotTypes, N!TypeOK, JobRecords, Steps, N!Archives, N!Files,
    SeenInv, SealedInv, N!Working
<1>1. ASSUME NEW j \in Jobs, N!Start(j) PROVE SealedInv'
  <2>1. PICK r \in JobRecords : AfterStarted(j, r)
    BY <1>1, Started DEF N!Start
  <2> QED
    BY <1>1, <2>1 DEF N!Start, AfterStarted
<1>2. ASSUME NEW j \in Jobs, N!_gate(j) PROVE SealedInv'
  BY <1>2 DEF N!_gate, N!Goes
<1>3. ASSUME NEW j \in Jobs, N!open_snapshot_index(j) PROVE SealedInv'
  <2>1. CASE N!_cached(job[j].seen)
    <3>1. PICK r \in JobRecords : AfterOpened(j, r)
      BY <1>3, <2>1, Opened DEF N!open_snapshot_index
    <3> QED
      BY <1>3, <2>1, <3>1 DEF N!open_snapshot_index, N!Opens, AfterOpened
  <2>2. CASE ~N!_cached(job[j].seen)
    BY <1>3, <2>2 DEF N!open_snapshot_index, N!Opens, N!Goes
  <2> QED
    BY <1>3, <2>1, <2>2
<1>4. ASSUME NEW j \in Jobs, N!verified_source_identity(j) PROVE SealedInv'
  <2>1. CASE identity = job[j].seen
    <3>1. PICK r \in JobRecords : AfterTurned(j, r)
      BY <1>4, <2>1, Turned DEF N!verified_source_identity
    <3> QED
      BY <1>4, <2>1, <3>1 DEF N!verified_source_identity, N!ToShared, AfterTurned
  <2>2. CASE identity # job[j].seen
    BY <1>4, <2>2 DEF N!verified_source_identity, N!ToShared, N!Goes
  <2> QED
    BY <1>4, <2>1, <2>2
<1>5. ASSUME NEW j \in Jobs, N!verify_export(j) PROVE SealedInv'
  BY <1>5 DEF N!verify_export, N!Goes
<1>6. ASSUME NEW j \in Jobs, N!_build(j) PROVE SealedInv'
  <2>1. PICK r \in JobRecords : AfterLoaded(j, r)
    BY <1>6, Loaded DEF N!_build
  <2> QED
    BY <1>6, <2>1 DEF N!_build, AfterLoaded
<1>7. ASSUME NEW j \in Jobs, N!Recheck(j) PROVE SealedInv'
  BY <1>7 DEF N!Recheck, N!Goes
<1>8. ASSUME NEW j \in Jobs, N!SaveIdentity(j) PROVE SealedInv'
  <2>1. PICK r \in JobRecords : AfterTurned(j, r)
    BY <1>8, Turned DEF N!SaveIdentity
  <2> QED
    BY <1>8, <2>1 DEF N!SaveIdentity, N!ToShared, AfterTurned
<1>9. ASSUME NEW j \in Jobs, N!ReplaceDatabase(j) PROVE SealedInv'
  BY <1>9 DEF N!ReplaceDatabase, N!Databases, N!Goes
<1>10. ASSUME NEW j \in Jobs, N!ReplaceCatalog(j) PROVE SealedInv'
  BY <1>10 DEF N!ReplaceCatalog, N!Databases, N!Catalogs, N!Goes
<1>11. ASSUME NEW j \in Jobs, N!Reopen(j) PROVE SealedInv'
  <2>1. CASE N!_cached(job[j].seen)
    <3>1. PICK r \in JobRecords : AfterOpened(j, r)
      BY <1>11, <2>1, Opened DEF N!Reopen
    <3> QED
      BY <1>11, <2>1, <3>1 DEF N!Reopen, N!Opens, AfterOpened
  <2>2. CASE ~N!_cached(job[j].seen)
    BY <1>11, <2>2 DEF N!Reopen, N!Opens, N!Goes
  <2> QED
    BY <1>11, <2>1, <2>2
<1>12. ASSUME NEW j \in Jobs, N!_materialize(j) PROVE SealedInv'
  <2>1. CASE target = "other"
    BY <1>12, <2>1 DEF N!_materialize, N!Goes
  <2>2. CASE target = "sealed"
    <3>1. PICK r \in JobRecords : AfterReused(j, r)
      BY <1>12, <2>2, Reused DEF N!_materialize
    <3> QED
      BY <1>12, <2>2, <3>1 DEF N!_materialize, AfterReused
  <2>3. CASE target \notin {"sealed", "other"}
    <3>1. PICK r \in JobRecords : AfterBegun(j, r)
      BY <1>12, <2>3, Begun DEF N!_materialize
    <3> QED
      BY <1>12, <2>3, <3>1 DEF N!_materialize, AfterBegun
  <2> QED
    BY <1>12, <2>1, <2>2, <2>3 DEF SnapshotTypes, N!TypeOK
<1>13. ASSUME NEW j \in Jobs, N!_read(j) PROVE SealedInv'
  <2>1. CASE db # None /\ db.stat = job[j].index /\ db.rows # "damaged"
    <3>1. PICK r \in JobRecords : AfterCopied(j, r)
      BY <1>13, <2>1, Copied DEF N!_read
    <3> QED
      BY <1>13, <2>1, <3>1 DEF N!_read, N!Databases, AfterCopied
  <2>2. CASE ~(db # None /\ db.stat = job[j].index /\ db.rows # "damaged")
    BY <1>13, <2>2 DEF N!_read, N!Databases, N!Goes
  <2> QED
    BY <1>13, <2>1, <2>2
<1>14. ASSUME NEW j \in Jobs, N!_copy_observations(j) PROVE SealedInv'
  <2>1. CASE "evidence" \in archive["shared"].bad
    BY <1>14, <2>1 DEF N!_copy_observations, N!Goes
  <2>2. CASE "evidence" \notin archive["shared"].bad
    BY <1>14, <2>2 DEF N!_copy_observations, N!Goes
  <2> QED
    BY <2>1, <2>2
<1>15. ASSUME NEW j \in Jobs, N!Rename(j) PROVE SealedInv'
  <2>1. PICK r \in JobRecords : AfterRenamed(j, r)
    BY <1>15, Renamed DEF N!Rename
  <2> QED
    BY <1>15, <2>1 DEF N!Rename, AfterRenamed
<1>16. ASSUME NEW j \in Jobs, N!Die(j) PROVE SealedInv'
  BY <1>16 DEF N!Die, N!Free
<1>17. CASE N!DatabaseChanges
  BY <1>17 DEF N!DatabaseChanges
<1>18. CASE N!CatalogLost
  BY <1>18 DEF N!CatalogLost
<1>19. ASSUME NEW a \in N!Archives, N!ArchiveChanges(a) PROVE SealedInv'
  BY <1>19 DEF N!ArchiveChanges
<1>20. CASE UNCHANGED N!vars
  BY <1>20 DEF N!vars
<1> QED
  BY <1>1, <1>2, <1>3, <1>4, <1>5, <1>6, <1>7, <1>8, <1>9, <1>10, <1>11, <1>12, <1>13, <1>14, <1>15,
      <1>16, <1>17, <1>18, <1>19, <1>20 DEF N!Next, N!Proceed

LEMMA GatesKept ==
  ASSUME N!SnapshotAssumption, SnapshotTypes, GateInv, [N!Next]_(N!vars)
  PROVE  GateInv'
<1> USE SnapshotConstants DEF N!Caches, N!Counts, N!Locks, N!Has, N!About, N!_inventory, N!Error,
    N!Leaves, N!Rows, N!Happens, SnapshotTypes, N!TypeOK, JobRecords, Steps, N!Archives, N!Files,
    GateInv, Building
<1>1. ASSUME NEW j \in Jobs, N!Start(j) PROVE GateInv'
  <2>1. PICK r \in JobRecords : AfterStarted(j, r)
    BY <1>1, Started DEF N!Start
  <2> QED
    BY <1>1, <2>1 DEF N!Start, AfterStarted
<1>2. ASSUME NEW j \in Jobs, N!_gate(j) PROVE GateInv'
  BY <1>2 DEF N!_gate, N!Goes
<1>3. ASSUME NEW j \in Jobs, N!open_snapshot_index(j) PROVE GateInv'
  <2>1. CASE N!_cached(job[j].seen)
    <3>1. PICK r \in JobRecords : AfterOpened(j, r)
      BY <1>3, <2>1, Opened DEF N!open_snapshot_index
    <3> QED
      BY <1>3, <2>1, <3>1 DEF N!open_snapshot_index, N!Opens, AfterOpened
  <2>2. CASE ~N!_cached(job[j].seen)
    BY <1>3, <2>2 DEF N!open_snapshot_index, N!Opens, N!Goes
  <2> QED
    BY <1>3, <2>1, <2>2
<1>4. ASSUME NEW j \in Jobs, N!verified_source_identity(j) PROVE GateInv'
  <2>1. CASE identity = job[j].seen
    <3>1. PICK r \in JobRecords : AfterTurned(j, r)
      BY <1>4, <2>1, Turned DEF N!verified_source_identity
    <3> QED
      BY <1>4, <2>1, <3>1 DEF N!verified_source_identity, N!ToShared, AfterTurned
  <2>2. CASE identity # job[j].seen
    BY <1>4, <2>2 DEF N!verified_source_identity, N!ToShared, N!Goes
  <2> QED
    BY <1>4, <2>1, <2>2
<1>5. ASSUME NEW j \in Jobs, N!verify_export(j) PROVE GateInv'
  BY <1>5 DEF N!verify_export, N!Goes
<1>6. ASSUME NEW j \in Jobs, N!_build(j) PROVE GateInv'
  <2>1. PICK r \in JobRecords : AfterLoaded(j, r)
    BY <1>6, Loaded DEF N!_build
  <2> QED
    BY <1>6, <2>1 DEF N!_build, AfterLoaded
<1>7. ASSUME NEW j \in Jobs, N!Recheck(j) PROVE GateInv'
  BY <1>7 DEF N!Recheck, N!Goes
<1>8. ASSUME NEW j \in Jobs, N!SaveIdentity(j) PROVE GateInv'
  <2>1. PICK r \in JobRecords : AfterTurned(j, r)
    BY <1>8, Turned DEF N!SaveIdentity
  <2> QED
    BY <1>8, <2>1 DEF N!SaveIdentity, N!ToShared, AfterTurned
<1>9. ASSUME NEW j \in Jobs, N!ReplaceDatabase(j) PROVE GateInv'
  BY <1>9 DEF N!ReplaceDatabase, N!Databases, N!Goes
<1>10. ASSUME NEW j \in Jobs, N!ReplaceCatalog(j) PROVE GateInv'
  BY <1>10 DEF N!ReplaceCatalog, N!Databases, N!Catalogs, N!Goes
<1>11. ASSUME NEW j \in Jobs, N!Reopen(j) PROVE GateInv'
  <2>1. CASE N!_cached(job[j].seen)
    <3>1. PICK r \in JobRecords : AfterOpened(j, r)
      BY <1>11, <2>1, Opened DEF N!Reopen
    <3> QED
      BY <1>11, <2>1, <3>1 DEF N!Reopen, N!Opens, AfterOpened
  <2>2. CASE ~N!_cached(job[j].seen)
    BY <1>11, <2>2 DEF N!Reopen, N!Opens, N!Goes
  <2> QED
    BY <1>11, <2>1, <2>2
<1>12. ASSUME NEW j \in Jobs, N!_materialize(j) PROVE GateInv'
  <2>1. CASE target = "other"
    BY <1>12, <2>1 DEF N!_materialize, N!Goes
  <2>2. CASE target = "sealed"
    <3>1. PICK r \in JobRecords : AfterReused(j, r)
      BY <1>12, <2>2, Reused DEF N!_materialize
    <3> QED
      BY <1>12, <2>2, <3>1 DEF N!_materialize, AfterReused
  <2>3. CASE target \notin {"sealed", "other"}
    <3>1. PICK r \in JobRecords : AfterBegun(j, r)
      BY <1>12, <2>3, Begun DEF N!_materialize
    <3> QED
      BY <1>12, <2>3, <3>1 DEF N!_materialize, AfterBegun
  <2> QED
    BY <1>12, <2>1, <2>2, <2>3 DEF SnapshotTypes, N!TypeOK
<1>13. ASSUME NEW j \in Jobs, N!_read(j) PROVE GateInv'
  <2>1. CASE db # None /\ db.stat = job[j].index /\ db.rows # "damaged"
    <3>1. PICK r \in JobRecords : AfterCopied(j, r)
      BY <1>13, <2>1, Copied DEF N!_read
    <3> QED
      BY <1>13, <2>1, <3>1 DEF N!_read, N!Databases, AfterCopied
  <2>2. CASE ~(db # None /\ db.stat = job[j].index /\ db.rows # "damaged")
    BY <1>13, <2>2 DEF N!_read, N!Databases, N!Goes
  <2> QED
    BY <1>13, <2>1, <2>2
<1>14. ASSUME NEW j \in Jobs, N!_copy_observations(j) PROVE GateInv'
  <2>1. CASE "evidence" \in archive["shared"].bad
    BY <1>14, <2>1 DEF N!_copy_observations, N!Goes
  <2>2. CASE "evidence" \notin archive["shared"].bad
    BY <1>14, <2>2 DEF N!_copy_observations, N!Goes
  <2> QED
    BY <2>1, <2>2
<1>15. ASSUME NEW j \in Jobs, N!Rename(j) PROVE GateInv'
  <2>1. PICK r \in JobRecords : AfterRenamed(j, r)
    BY <1>15, Renamed DEF N!Rename
  <2> QED
    BY <1>15, <2>1 DEF N!Rename, AfterRenamed
<1>16. ASSUME NEW j \in Jobs, N!Die(j) PROVE GateInv'
  BY <1>16 DEF N!Die, N!Free
<1>17. CASE N!DatabaseChanges
  BY <1>17 DEF N!DatabaseChanges
<1>18. CASE N!CatalogLost
  BY <1>18 DEF N!CatalogLost
<1>19. ASSUME NEW a \in N!Archives, N!ArchiveChanges(a) PROVE GateInv'
  BY <1>19 DEF N!ArchiveChanges
<1>20. CASE UNCHANGED N!vars
  BY <1>20 DEF N!vars
<1> QED
  BY <1>1, <1>2, <1>3, <1>4, <1>5, <1>6, <1>7, <1>8, <1>9, <1>10, <1>11, <1>12, <1>13, <1>14, <1>15,
      <1>16, <1>17, <1>18, <1>19, <1>20 DEF N!Next, N!Proceed

LEMMA IndexKept ==
  ASSUME N!SnapshotAssumption, SnapshotTypes, SeenInv, SealedInv, GateInv, IndexInv, [N!Next]_(N!vars)
  PROVE  IndexInv'
<1> USE SnapshotConstants DEF N!Caches, N!Counts, N!Locks, N!Has, N!About, N!_inventory, N!Error,
    N!Leaves, N!Rows, N!Happens, SnapshotTypes, N!TypeOK, JobRecords, Steps, N!Archives, N!Files,
    SeenInv, GateInv, IndexInv, Settled, Building, N!Working, N!_cached
<1>1. ASSUME NEW j \in Jobs, N!Start(j) PROVE IndexInv'
  <2>1. PICK r \in JobRecords : AfterStarted(j, r)
    BY <1>1, Started DEF N!Start
  <2> QED
    BY <1>1, <2>1 DEF N!Start, AfterStarted
<1>2. ASSUME NEW j \in Jobs, N!_gate(j) PROVE IndexInv'
  BY <1>2 DEF N!_gate, N!Goes
<1>3. ASSUME NEW j \in Jobs, N!open_snapshot_index(j) PROVE IndexInv'
  <2>1. CASE N!_cached(job[j].seen)
    <3>1. PICK r \in JobRecords : AfterOpened(j, r)
      BY <1>3, <2>1, Opened DEF N!open_snapshot_index
    <3> QED
      BY <1>3, <2>1, <3>1 DEF N!open_snapshot_index, N!Opens, AfterOpened
  <2>2. CASE ~N!_cached(job[j].seen)
    BY <1>3, <2>2 DEF N!open_snapshot_index, N!Opens, N!Goes
  <2> QED
    BY <1>3, <2>1, <2>2
<1>4. ASSUME NEW j \in Jobs, N!verified_source_identity(j) PROVE IndexInv'
  <2>1. CASE identity = job[j].seen
    <3>1. PICK r \in JobRecords : AfterTurned(j, r)
      BY <1>4, <2>1, Turned DEF N!verified_source_identity
    <3> QED
      BY <1>4, <2>1, <3>1 DEF N!verified_source_identity, N!ToShared, AfterTurned
  <2>2. CASE identity # job[j].seen
    BY <1>4, <2>2 DEF N!verified_source_identity, N!ToShared, N!Goes
  <2> QED
    BY <1>4, <2>1, <2>2
<1>5. ASSUME NEW j \in Jobs, N!verify_export(j) PROVE IndexInv'
  BY <1>5 DEF N!verify_export, N!Goes
<1>6. ASSUME NEW j \in Jobs, N!_build(j) PROVE IndexInv'
  <2>1. PICK r \in JobRecords : AfterLoaded(j, r)
    BY <1>6, Loaded DEF N!_build
  <2> QED
    BY <1>6, <2>1 DEF N!_build, AfterLoaded
<1>7. ASSUME NEW j \in Jobs, N!Recheck(j) PROVE IndexInv'
  BY <1>7 DEF N!Recheck, N!Goes
<1>8. ASSUME NEW j \in Jobs, N!SaveIdentity(j) PROVE IndexInv'
  <2>1. PICK r \in JobRecords : AfterTurned(j, r)
    BY <1>8, Turned DEF N!SaveIdentity
  <2> QED
    BY <1>8, <2>1 DEF N!SaveIdentity, N!ToShared, AfterTurned
<1>9. ASSUME NEW j \in Jobs, N!ReplaceDatabase(j) PROVE IndexInv'
  <2>1. About(j, "shared", "publish")
    BY <1>9 DEF N!ReplaceDatabase, About
  <2>2. \A k \in Jobs : job[k].about = "shared" /\ job[k].pc \in Building => k = j
    BY <2>1 DEF About
  <2>3. \A k \in Jobs : job[k].pc \in {"shelf", "read"} => job[k].disturbed
    BY <2>1 DEF About
  <2>4. \A k \in Jobs : k # j => job'[k] = job[k]
    BY <1>9 DEF N!ReplaceDatabase, N!Goes
  <2>5. job'[j].pc = "catalog" /\ db' # None
    BY <1>9, UnusedIsSerial DEF N!ReplaceDatabase, N!Goes, N!Databases
  <2>6. \A k \in Jobs : job[k].pc \in {"catalog", "reopen"} /\ k # j => job[k].disturbed \/ job[k].about
      # "shared"
    BY <2>2
  <2> QED
    BY <2>2, <2>3, <2>4, <2>5, <2>6
<1>10. ASSUME NEW j \in Jobs, N!ReplaceCatalog(j) PROVE IndexInv'
  BY <1>10 DEF N!ReplaceCatalog, N!Databases, N!Catalogs, N!Goes
<1>11. ASSUME NEW j \in Jobs, N!Reopen(j) PROVE IndexInv'
  <2>1. CASE N!_cached(job[j].seen)
    <3>1. PICK r \in JobRecords : AfterOpened(j, r)
      BY <1>11, <2>1, Opened DEF N!Reopen
    <3> QED
      BY <1>11, <2>1, <3>1 DEF N!Reopen, N!Opens, AfterOpened
  <2>2. CASE ~N!_cached(job[j].seen)
    BY <1>11, <2>2 DEF N!Reopen, N!Opens, N!Goes
  <2> QED
    BY <1>11, <2>1, <2>2
<1>12. ASSUME NEW j \in Jobs, N!_materialize(j) PROVE IndexInv'
  <2>1. CASE target = "other"
    BY <1>12, <2>1 DEF N!_materialize, N!Goes
  <2>2. CASE target = "sealed"
    <3>1. PICK r \in JobRecords : AfterReused(j, r)
      BY <1>12, <2>2, Reused DEF N!_materialize
    <3> QED
      BY <1>12, <2>2, <3>1 DEF N!_materialize, AfterReused
  <2>3. CASE target \notin {"sealed", "other"}
    <3>1. PICK r \in JobRecords : AfterBegun(j, r)
      BY <1>12, <2>3, Begun DEF N!_materialize
    <3> QED
      BY <1>12, <2>3, <3>1 DEF N!_materialize, AfterBegun
  <2> QED
    BY <1>12, <2>1, <2>2, <2>3 DEF SnapshotTypes, N!TypeOK
<1>13. ASSUME NEW j \in Jobs, N!_read(j) PROVE IndexInv'
  <2>1. CASE db # None /\ db.stat = job[j].index /\ db.rows # "damaged"
    <3>1. PICK r \in JobRecords : AfterCopied(j, r)
      BY <1>13, <2>1, Copied DEF N!_read
    <3> QED
      BY <1>13, <2>1, <3>1 DEF N!_read, N!Databases, AfterCopied
  <2>2. CASE ~(db # None /\ db.stat = job[j].index /\ db.rows # "damaged")
    BY <1>13, <2>2 DEF N!_read, N!Databases, N!Goes
  <2> QED
    BY <1>13, <2>1, <2>2
<1>14. ASSUME NEW j \in Jobs, N!_copy_observations(j) PROVE IndexInv'
  <2>1. CASE "evidence" \in archive["shared"].bad
    BY <1>14, <2>1 DEF N!_copy_observations, N!Goes
  <2>2. CASE "evidence" \notin archive["shared"].bad
    BY <1>14, <2>2 DEF N!_copy_observations, N!Goes
  <2> QED
    BY <2>1, <2>2
<1>15. ASSUME NEW j \in Jobs, N!Rename(j) PROVE IndexInv'
  <2>1. PICK r \in JobRecords : AfterRenamed(j, r)
    BY <1>15, Renamed DEF N!Rename
  <2> QED
    BY <1>15, <2>1 DEF N!Rename, AfterRenamed
<1>16. ASSUME NEW j \in Jobs, N!Die(j) PROVE IndexInv'
  BY <1>16 DEF N!Die, N!Free
<1>17. CASE N!DatabaseChanges
  BY <1>17 DEF N!DatabaseChanges
<1>18. CASE N!CatalogLost
  BY <1>18 DEF N!CatalogLost
<1>19. ASSUME NEW a \in N!Archives, N!ArchiveChanges(a) PROVE IndexInv'
  BY <1>19 DEF N!ArchiveChanges
<1>20. CASE UNCHANGED N!vars
  BY <1>20 DEF N!vars
<1> QED
  BY <1>1, <1>2, <1>3, <1>4, <1>5, <1>6, <1>7, <1>8, <1>9, <1>10, <1>11, <1>12, <1>13, <1>14, <1>15,
      <1>16, <1>17, <1>18, <1>19, <1>20 DEF N!Next, N!Proceed

LEMMA CausesKept ==
  ASSUME N!SnapshotAssumption, SnapshotTypes, SeenInv, SealedInv, IndexInv, N!ErrorsHaveCauses,
      [N!Next]_(N!vars)
  PROVE  N!ErrorsHaveCauses'
<1> USE SnapshotConstants DEF N!Caches, N!Counts, N!Locks, N!Has, N!About, N!_inventory, N!Error,
    N!Leaves, N!Rows, N!Happens, SnapshotTypes, N!TypeOK, JobRecords, Steps, N!Archives, N!Files,
    SeenInv, SealedInv, IndexInv, N!ErrorsHaveCauses, Settled, N!Working, N!_cached
<1>1. ASSUME NEW j \in Jobs, N!Start(j) PROVE N!ErrorsHaveCauses'
  <2>1. PICK r \in JobRecords : AfterStarted(j, r)
    BY <1>1, Started DEF N!Start
  <2> QED
    BY <1>1, <2>1 DEF N!Start, AfterStarted
<1>2. ASSUME NEW j \in Jobs, N!_gate(j) PROVE N!ErrorsHaveCauses'
  BY <1>2 DEF N!_gate, N!Goes
<1>3. ASSUME NEW j \in Jobs, N!open_snapshot_index(j) PROVE N!ErrorsHaveCauses'
  <2>1. CASE N!_cached(job[j].seen)
    <3>1. PICK r \in JobRecords : AfterOpened(j, r)
      BY <1>3, <2>1, Opened DEF N!open_snapshot_index
    <3> QED
      BY <1>3, <2>1, <3>1 DEF N!open_snapshot_index, N!Opens, AfterOpened
  <2>2. CASE ~N!_cached(job[j].seen)
    BY <1>3, <2>2 DEF N!open_snapshot_index, N!Opens, N!Goes
  <2> QED
    BY <1>3, <2>1, <2>2
<1>4. ASSUME NEW j \in Jobs, N!verified_source_identity(j) PROVE N!ErrorsHaveCauses'
  <2>1. CASE identity = job[j].seen
    <3>1. PICK r \in JobRecords : AfterTurned(j, r)
      BY <1>4, <2>1, Turned DEF N!verified_source_identity
    <3> QED
      BY <1>4, <2>1, <3>1 DEF N!verified_source_identity, N!ToShared, AfterTurned
  <2>2. CASE identity # job[j].seen
    BY <1>4, <2>2 DEF N!verified_source_identity, N!ToShared, N!Goes
  <2> QED
    BY <1>4, <2>1, <2>2
<1>5. ASSUME NEW j \in Jobs, N!verify_export(j) PROVE N!ErrorsHaveCauses'
  BY <1>5 DEF N!verify_export, N!Goes
<1>6. ASSUME NEW j \in Jobs, N!_build(j) PROVE N!ErrorsHaveCauses'
  <2>1. PICK r \in JobRecords : AfterLoaded(j, r)
    BY <1>6, Loaded DEF N!_build
  <2> QED
    BY <1>6, <2>1 DEF N!_build, AfterLoaded
<1>7. ASSUME NEW j \in Jobs, N!Recheck(j) PROVE N!ErrorsHaveCauses'
  BY <1>7 DEF N!Recheck, N!Goes
<1>8. ASSUME NEW j \in Jobs, N!SaveIdentity(j) PROVE N!ErrorsHaveCauses'
  <2>1. PICK r \in JobRecords : AfterTurned(j, r)
    BY <1>8, Turned DEF N!SaveIdentity
  <2> QED
    BY <1>8, <2>1 DEF N!SaveIdentity, N!ToShared, AfterTurned
<1>9. ASSUME NEW j \in Jobs, N!ReplaceDatabase(j) PROVE N!ErrorsHaveCauses'
  BY <1>9 DEF N!ReplaceDatabase, N!Databases, N!Goes
<1>10. ASSUME NEW j \in Jobs, N!ReplaceCatalog(j) PROVE N!ErrorsHaveCauses'
  BY <1>10 DEF N!ReplaceCatalog, N!Databases, N!Catalogs, N!Goes
<1>11. ASSUME NEW j \in Jobs, N!Reopen(j) PROVE N!ErrorsHaveCauses'
  <2>1. CASE N!_cached(job[j].seen)
    <3>1. PICK r \in JobRecords : AfterOpened(j, r)
      BY <1>11, <2>1, Opened DEF N!Reopen
    <3> QED
      BY <1>11, <2>1, <3>1 DEF N!Reopen, N!Opens, AfterOpened
  <2>2. CASE ~N!_cached(job[j].seen)
    BY <1>11, <2>2 DEF N!Reopen, N!Opens, N!Goes
  <2> QED
    BY <1>11, <2>1, <2>2
<1>12. ASSUME NEW j \in Jobs, N!_materialize(j) PROVE N!ErrorsHaveCauses'
  <2>1. CASE target = "other"
    BY <1>12, <2>1 DEF N!_materialize, N!Goes
  <2>2. CASE target = "sealed"
    <3>1. PICK r \in JobRecords : AfterReused(j, r)
      BY <1>12, <2>2, Reused DEF N!_materialize
    <3> QED
      BY <1>12, <2>2, <3>1 DEF N!_materialize, AfterReused
  <2>3. CASE target \notin {"sealed", "other"}
    <3>1. PICK r \in JobRecords : AfterBegun(j, r)
      BY <1>12, <2>3, Begun DEF N!_materialize
    <3> QED
      BY <1>12, <2>3, <3>1 DEF N!_materialize, AfterBegun
  <2> QED
    BY <1>12, <2>1, <2>2, <2>3 DEF SnapshotTypes, N!TypeOK
<1>13. ASSUME NEW j \in Jobs, N!_read(j) PROVE N!ErrorsHaveCauses'
  <2>1. CASE db # None /\ db.stat = job[j].index /\ db.rows # "damaged"
    <3>1. PICK r \in JobRecords : AfterCopied(j, r)
      BY <1>13, <2>1, Copied DEF N!_read
    <3> QED
      BY <1>13, <2>1, <3>1 DEF N!_read, N!Databases, AfterCopied
  <2>2. CASE ~(db # None /\ db.stat = job[j].index /\ db.rows # "damaged")
    BY <1>13, <2>2 DEF N!_read, N!Databases, N!Goes
  <2> QED
    BY <1>13, <2>1, <2>2
<1>14. ASSUME NEW j \in Jobs, N!_copy_observations(j) PROVE N!ErrorsHaveCauses'
  <2>1. CASE "evidence" \in archive["shared"].bad
    BY <1>14, <2>1 DEF N!_copy_observations, N!Goes
  <2>2. CASE "evidence" \notin archive["shared"].bad
    BY <1>14, <2>2 DEF N!_copy_observations, N!Goes
  <2> QED
    BY <2>1, <2>2
<1>15. ASSUME NEW j \in Jobs, N!Rename(j) PROVE N!ErrorsHaveCauses'
  <2>1. PICK r \in JobRecords : AfterRenamed(j, r)
    BY <1>15, Renamed DEF N!Rename
  <2> QED
    BY <1>15, <2>1 DEF N!Rename, AfterRenamed
<1>16. ASSUME NEW j \in Jobs, N!Die(j) PROVE N!ErrorsHaveCauses'
  BY <1>16 DEF N!Die, N!Free
<1>17. CASE N!DatabaseChanges
  BY <1>17 DEF N!DatabaseChanges
<1>18. CASE N!CatalogLost
  BY <1>18 DEF N!CatalogLost
<1>19. ASSUME NEW a \in N!Archives, N!ArchiveChanges(a) PROVE N!ErrorsHaveCauses'
  BY <1>19 DEF N!ArchiveChanges
<1>20. CASE UNCHANGED N!vars
  BY <1>20 DEF N!vars
<1> QED
  BY <1>1, <1>2, <1>3, <1>4, <1>5, <1>6, <1>7, <1>8, <1>9, <1>10, <1>11, <1>12, <1>13, <1>14, <1>15,
      <1>16, <1>17, <1>18, <1>19, <1>20 DEF N!Next, N!Proceed

\* The invariant holds of the beginning, and every step keeps it.
LEMMA SnapshotInitial ==
  ASSUME N!SnapshotAssumption, N!Init
  PROVE  SnapshotInv
<1>1. \A k \in Jobs : job[k] = N!Free
  BY DEF N!Init
<1>2. Reads \in Nat /\ MaxChanges \in Nat /\ None \in N!Serials \cup {None}
  BY SnapshotConstants
<1>3. N!Free \in JobRecords
  BY <1>2 DEF N!Free, JobRecords, Steps, N!Archives
<1>4. job \in [Jobs -> JobRecords]
  BY <1>3 DEF N!Init
<1>5. \A k \in Jobs : job[k].left \in 0..Reads /\ job[k].index \in N!Serials \cup {None}
  BY <1>4 DEF JobRecords
<1>6. /\ archive \in [N!Archives -> [stat : Nat, bad : SUBSET N!Files]]
      /\ \A a \in N!Archives : archive[a].stat = 0 /\ archive[a].bad = {}
  BY DEF N!Init
<1>7. gate \in [N!Archives -> Jobs \cup {None}]
  BY DEF N!Init
<1>8. SnapshotTypes
  BY <1>2, <1>4, <1>5, <1>6, <1>7 DEF SnapshotTypes, N!Init, N!TypeOK
<1> QED
  BY <1>1, <1>8 DEF SnapshotInv, N!Init, N!Free, SeenInv, SealedInv, GateInv, IndexInv, N!ErrorsHaveCauses,
      N!Working, N!Has, Building

LEMMA SnapshotStep ==
  ASSUME N!SnapshotAssumption, SnapshotInv, [N!Next]_(N!vars)
  PROVE  SnapshotInv'
  BY SnapshotTypesKept, SeenKept, SealsKept, GatesKept, IndexKept, CausesKept DEF SnapshotInv

LEMMA SnapshotSafe == ASSUME N!SnapshotAssumption PROVE N!Spec => []SnapshotInv
<1>1. N!Init => SnapshotInv
  BY SnapshotInitial
<1>2. SnapshotInv /\ [N!Next]_(N!vars) => SnapshotInv'
  BY SnapshotStep
<1> QED
  BY <1>1, <1>2, PTL DEF N!Spec

\* Every variable of the index has its type: a stat that no database has is
\* always left for the next one.
THEOREM SnapshotTyped == ASSUME N!SnapshotAssumption PROVE N!Spec => []N!TypeOK
<1>1. SnapshotInv => N!TypeOK
  BY DEF SnapshotInv, SnapshotTypes
<1> QED
  BY <1>1, SnapshotSafe, PTL

\* Whatever changes or dies while an archive is verified, indexed, read or
\* copied, a projection has only what the archive was sealed with, and a job
\* fails only because something changed while it ran or was damaged.
THEOREM ProjectionsAreSealed ==
  ASSUME N!SnapshotAssumption PROVE N!Spec => [](N!ProjectionIsSealed /\ N!ErrorsHaveCauses)
<1>1. SnapshotInv => N!ProjectionIsSealed /\ N!ErrorsHaveCauses
  BY DEF SnapshotInv, SealedInv, N!ProjectionIsSealed
<1> QED
  BY <1>1, SnapshotSafe, PTL
=============================================================================
