---------------------------- MODULE BoardRebuild ----------------------------
(* The main board of one investigation: creating it (boards.py), rebuilding  *)
(* the graph on a new board (board_rebuild.py) and publishing to the linked  *)
(* board (cli.sync_run).                                                     *)
(*                                                                           *)
(* Creating, rebuilding, deleting and relinking hold case.lock exclusively,  *)
(* so one of them runs at a time, the creator; publishing takes the lock only*)
(* to save the link and works on without it.  A plan is the presentation of  *)
(* the latest run under the settings of the moment.                          *)
EXTENDS Naturals, FiniteSets

CONSTANTS
  Boards,      \* Miro boards that may ever exist
  Own,         \* the boards the investigator already has
  MaxStarts,   \* bound: operations and settings edits
  MaxFaults,   \* bound: crashes, failed saves and refused dry runs
  None

BoardRebuildAssumption ==
  /\ Own \subseteq Boards /\ {None, "owner", "creation"} \cap Boards = {}
  /\ None \notin {"owner", "creation"} /\ {MaxStarts, MaxFaults} \subseteq Nat

VARIABLES
  link,        \* the board of case.json
  creation,    \* board-creation.json
  rebuild,     \* receipt.json of the rebuild of each source board
  planFile,    \* miro-plan.json beside it
  mapping,     \* the synchronisation map of each board: its plan, and if it is complete
  deleted,     \* boards with a deletion receipt
  style,       \* the presentation settings
  op,          \* the creator
  pub,         \* sync_run
  maker,       \* what made a board: an owner, the creation, the rebuild of a source
  starts, faults
vars == <<link, creation, rebuild, planFile, mapping, deleted, style, op, pub, maker, starts, faults>>
counts == <<starts, faults>>

NoRebuild == [status |-> "none", board |-> None, plan |-> 0, checked |-> FALSE, at |-> 0]
Rest == [pc |-> "idle", source |-> None, board |-> None]
NoMapping == [plan |-> 0, done |-> FALSE]
Writable(b) == b \notin deleted
HasBoard(s) == rebuild[s].board # None
Idle == op.pc = "idle"
Go(pc) == op' = [op EXCEPT !.pc = pc]
\* The lock of a board, which a publication holds while it writes.
BoardIsFree(b) == ~(pub.pc = "writing" /\ pub.board = b)
Counted == starts < MaxStarts /\ starts' = starts + 1 /\ UNCHANGED faults
Made(b, by) == maker[b] = None /\ maker' = [maker EXCEPT ![b] = by]

-----------------------------------------------------------------------------
\* create_board: the intent before the POST, the receipt before the link.
\* The mutant: an attempt without an answer does not stop another.
CreateBoardAgain ==
  /\ Idle /\ link = None /\ creation.status # "created" /\ Counted
  /\ creation' = [status |-> "pending", board |-> None] /\ Go("create")
  /\ UNCHANGED <<link, rebuild, planFile, mapping, deleted, style, pub, maker>>
CreateBoard ==
  /\ Idle /\ link = None /\ creation.status \in {"none", "rejected"} /\ Counted
  /\ creation' = [status |-> "pending", board |-> None] /\ Go("create")
  /\ UNCHANGED <<link, rebuild, planFile, mapping, deleted, style, pub, maker>>
\* A receipt whose link was not saved is used again.
LinkCreated ==
  /\ Idle /\ link = None /\ creation.status = "created" /\ Writable(creation.board) /\ Counted
  /\ link' = creation.board
  /\ UNCHANGED <<creation, rebuild, planFile, mapping, deleted, style, op, pub, maker>>
CreateAnswered ==
  /\ op.pc = "create"
  /\ \/ \E b \in Boards : Made(b, "creation") /\ op' = [op EXCEPT !.pc = "created", !.board = b]
     \/ Go("refused") /\ UNCHANGED maker
     \/ op' = Rest /\ (UNCHANGED maker \/ \E b \in Boards : Made(b, "creation"))
  /\ UNCHANGED <<link, creation, rebuild, planFile, mapping, deleted, style, pub, counts>>
SaveCreated ==
  /\ op.pc = "created"
  /\ creation' = [status |-> "created", board |-> op.board] /\ Go("linking")
  /\ UNCHANGED <<link, rebuild, planFile, mapping, deleted, style, pub, maker, counts>>
SaveRefused ==
  /\ op.pc = "refused"
  /\ creation' = [status |-> "rejected", board |-> None] /\ op' = Rest
  /\ UNCHANGED <<link, rebuild, planFile, mapping, deleted, style, pub, maker, counts>>
SaveLink ==
  /\ op.pc = "linking" /\ link' = op.board /\ op' = Rest
  /\ UNCHANGED <<creation, rebuild, planFile, mapping, deleted, style, pub, maker, counts>>

-----------------------------------------------------------------------------
\* rebuild_status: an ordinary publication can finish a replacement too.
Finished(s) ==
  \/ rebuild[s].status = "complete"
  \/ rebuild[s].status = "syncing" /\ rebuild[s].board = link /\ mapping[link].done
Matches == {s \in Boards : rebuild[s] # NoRebuild /\ link \in {s, rebuild[s].board}}
Rank(s) == IF Finished(s) THEN rebuild[s].at ELSE rebuild[s].at + MaxStarts + 1
Active == {s \in Matches : \A t \in Matches : Rank(t) <= Rank(s)}
UnfinishedElsewhere(s) == \E t \in Active : ~Finished(t) /\ t # s
\* What rebuild_board checks under the lock before it does anything.
Admitted(s) ==
  /\ Idle /\ Writable(s) /\ BoardIsFree(s) /\ link # None
  /\ ~UnfinishedElsewhere(s)
  /\ link \in {s, rebuild[s].board} /\ rebuild[s].status # "pending"
\* A rebuild without a board freezes the plan of the present settings, before
\* its receipt and before a POST.
FreezePlan(s) ==
  /\ Admitted(s) /\ ~HasBoard(s) /\ Counted
  /\ planFile' = [planFile EXCEPT ![s] = style]
  /\ op' = [Rest EXCEPT !.pc = "prepare", !.source = s]
  /\ UNCHANGED <<link, creation, rebuild, mapping, deleted, style, pub, maker>>
Receipt(s, changed) == rebuild' = [rebuild EXCEPT ![s] = changed]
Prepare ==
  /\ op.pc = "prepare"
  /\ Receipt(op.source, [NoRebuild EXCEPT !.status = "prepared", !.plan = planFile[op.source],
                                          !.at = starts])
  /\ Go("intend")
  /\ UNCHANGED <<link, creation, planFile, mapping, deleted, style, pub, maker, counts>>
Intend ==
  /\ op.pc = "intend"
  /\ Receipt(op.source, [rebuild[op.source] EXCEPT !.status = "pending"]) /\ Go("post")
  /\ UNCHANGED <<link, creation, planFile, mapping, deleted, style, pub, maker, counts>>
PostAnswered ==
  /\ op.pc = "post"
  /\ \/ \E b \in Boards : Made(b, op.source) /\ op' = [op EXCEPT !.pc = "posted", !.board = b]
     \/ Go("rejected") /\ UNCHANGED maker
     \/ op' = Rest /\ (UNCHANGED maker \/ \E b \in Boards : Made(b, op.source))
  /\ UNCHANGED <<link, creation, rebuild, planFile, mapping, deleted, style, pub, counts>>
\* The mutant: the board of the answer is not saved with the status.
SavePostedWithoutBoard ==
  /\ op.pc = "posted"
  /\ Receipt(op.source, [rebuild[op.source] EXCEPT !.status = "created"])
  /\ Go("check")
  /\ UNCHANGED <<link, creation, planFile, mapping, deleted, style, pub, maker, counts>>
SavePosted ==
  /\ op.pc = "posted"
  /\ Receipt(op.source, [rebuild[op.source] EXCEPT !.status = "created", !.board = op.board])
  /\ Go("check")
  /\ UNCHANGED <<link, creation, planFile, mapping, deleted, style, pub, maker, counts>>
SaveRejected ==
  /\ op.pc = "rejected"
  /\ Receipt(op.source, [rebuild[op.source] EXCEPT !.status = "rejected"]) /\ op' = Rest
  /\ UNCHANGED <<link, creation, planFile, mapping, deleted, style, pub, maker, counts>>
\* The mutant: a publication that was interrupted is not resumed.
ResumeCreated(s) ==
  /\ Admitted(s) /\ HasBoard(s) /\ Writable(rebuild[s].board)
  /\ planFile[s] = rebuild[s].plan
  /\ rebuild[s].status = "created"
  /\ op' = [pc |-> "check", source |-> s, board |-> rebuild[s].board]
  /\ UNCHANGED <<link, creation, rebuild, planFile, mapping, deleted, style, pub, maker, counts>>
\* A rebuild with a board resumes with the plan it froze.
Resume(s) ==
  /\ Admitted(s) /\ HasBoard(s) /\ Writable(rebuild[s].board)
  /\ planFile[s] = rebuild[s].plan
  /\ rebuild[s].status # "complete"
  /\ op' = [pc |-> "check", source |-> s, board |-> rebuild[s].board]
  /\ UNCHANGED <<link, creation, rebuild, planFile, mapping, deleted, style, pub, maker, counts>>
Relink(s) ==
  /\ Admitted(s) /\ rebuild[s].status = "complete" /\ Counted
  /\ planFile[s] = rebuild[s].plan
  /\ Writable(rebuild[s].board) /\ BoardIsFree(rebuild[s].board)
  /\ link' = rebuild[s].board
  /\ UNCHANGED <<creation, rebuild, planFile, mapping, deleted, style, op, pub, maker>>
\* A mapping that is there before the first publication belongs to someone else.
CheckMapping ==
  /\ op.pc = "check"
  /\ IF rebuild[op.source].checked THEN Go("link") /\ UNCHANGED rebuild
     ELSE IF mapping[op.board] # NoMapping THEN op' = Rest /\ UNCHANGED rebuild
     ELSE Receipt(op.source, [rebuild[op.source] EXCEPT !.checked = TRUE]) /\ Go("link")
  /\ UNCHANGED <<link, creation, planFile, mapping, deleted, style, pub, maker, counts>>
LinkReplacement ==
  /\ op.pc = "link"
  /\ IF BoardIsFree(op.board) THEN link' = op.board /\ Go("mark") ELSE op' = Rest /\ UNCHANGED link
  /\ UNCHANGED <<creation, rebuild, planFile, mapping, deleted, style, pub, maker, counts>>
MarkSyncing ==
  /\ op.pc = "mark"
  /\ Receipt(op.source, [rebuild[op.source] EXCEPT !.status = "syncing"]) /\ Go("publish")
  /\ UNCHANGED <<link, creation, planFile, mapping, deleted, style, pub, maker, counts>>
Publish ==
  /\ op.pc = "publish"
  /\ IF BoardIsFree(op.board)
     THEN /\ mapping' = [mapping EXCEPT ![op.board] = [plan |-> planFile[op.source], done |-> FALSE]]
          /\ Go("publishing")
     ELSE op' = Rest /\ UNCHANGED mapping
  /\ UNCHANGED <<link, creation, rebuild, planFile, deleted, style, pub, maker, counts>>
Published ==
  /\ op.pc = "publishing"
  /\ mapping' = [mapping EXCEPT ![op.board].done = TRUE] /\ Go("complete")
  /\ UNCHANGED <<link, creation, rebuild, planFile, deleted, style, pub, maker, counts>>
Complete ==
  /\ op.pc = "complete"
  /\ Receipt(op.source, [rebuild[op.source] EXCEPT !.status = "complete"]) /\ op' = Rest
  /\ UNCHANGED <<link, creation, planFile, mapping, deleted, style, pub, maker, counts>>
\* A crash, a failed save, a refused dry run or a failed publication.
Stop ==
  /\ ~Idle /\ faults < MaxFaults /\ faults' = faults + 1
  /\ op' = Rest
  /\ \/ UNCHANGED maker
     \/ op.pc = "create" /\ \E b \in Boards : Made(b, "creation")
     \/ op.pc = "post" /\ \E b \in Boards : Made(b, op.source)
  /\ UNCHANGED <<link, creation, rebuild, planFile, mapping, deleted, style, pub, starts>>

-----------------------------------------------------------------------------
\* sync_run reads the link, or is given a board, prepares its plan, links that
\* board and publishes; the link may have moved since it read it.
SyncRun(b) ==
  /\ pub.pc = "idle" /\ maker[b] # None /\ Counted
  /\ pub' = [pc |-> "prepared", board |-> b, plan |-> style]
  /\ UNCHANGED <<link, creation, rebuild, planFile, mapping, deleted, style, op, maker>>
SyncLink ==
  /\ pub.pc = "prepared"
  /\ IF Idle THEN link' = pub.board /\ pub' = [pub EXCEPT !.pc = "sync"]
     ELSE pub' = [pub EXCEPT !.pc = "idle"] /\ UNCHANGED link
  /\ UNCHANGED <<creation, rebuild, planFile, mapping, deleted, style, op, maker, counts>>
SyncWrite ==
  /\ pub.pc = "sync"
  /\ IF Writable(pub.board) /\ ~(op.pc = "publishing" /\ op.board = pub.board)
                            /\ op.source # pub.board
     THEN /\ mapping' = [mapping EXCEPT ![pub.board] = [plan |-> pub.plan, done |-> FALSE]]
          /\ pub' = [pub EXCEPT !.pc = "writing"]
     ELSE pub' = [pub EXCEPT !.pc = "idle"] /\ UNCHANGED mapping
  /\ UNCHANGED <<link, creation, rebuild, planFile, deleted, style, op, maker, counts>>
SyncEnd ==
  /\ pub.pc = "writing" /\ pub' = [pub EXCEPT !.pc = "idle"]
  /\ \/ mapping' = [mapping EXCEPT ![pub.board].done = TRUE]
     \/ UNCHANGED mapping
  /\ UNCHANGED <<link, creation, rebuild, planFile, deleted, style, op, maker, counts>>

\* Other operations under case.lock.
LinkSetting(b) ==
  /\ Idle /\ b # link /\ (b # None => maker[b] # None) /\ Counted
  /\ link' = b
  /\ UNCHANGED <<creation, rebuild, planFile, mapping, deleted, style, op, pub, maker>>
EditStyle ==
  /\ Idle /\ Counted /\ style' = style + 1
  /\ UNCHANGED <<link, creation, rebuild, planFile, mapping, deleted, op, pub, maker>>
DeleteBoard(b) ==
  /\ Idle /\ maker[b] # None /\ Writable(b) /\ BoardIsFree(b) /\ Counted
  /\ deleted' = deleted \cup {b} /\ link' = IF link = b THEN None ELSE link
  /\ UNCHANGED <<creation, rebuild, planFile, mapping, style, op, pub, maker>>

-----------------------------------------------------------------------------
Init ==
  /\ link \in Own \cup {None} /\ creation = [status |-> "none", board |-> None]
  /\ rebuild = [s \in Boards |-> NoRebuild] /\ planFile = [s \in Boards |-> 0]
  /\ mapping = [b \in Boards |-> NoMapping] /\ deleted = {} /\ style = 1
  /\ op = Rest /\ pub = [pc |-> "idle", board |-> None, plan |-> 0]
  /\ maker = [b \in Boards |-> IF b \in Own THEN "owner" ELSE None] /\ starts = 0 /\ faults = 0
Creating == CreateAnswered \/ SaveCreated \/ SaveRefused \/ SaveLink
Rebuilding ==
  \/ Prepare \/ Intend \/ PostAnswered \/ SavePosted \/ SaveRejected \/ CheckMapping
  \/ LinkReplacement \/ MarkSyncing \/ Publish \/ Published \/ Complete
Syncing == SyncLink \/ SyncWrite \/ SyncEnd
Next ==
  \/ CreateBoard \/ LinkCreated \/ Creating \/ Rebuilding \/ Stop \/ Syncing \/ EditStyle
  \/ \E b \in Boards : \/ FreezePlan(b) \/ Resume(b) \/ Relink(b) \/ SyncRun(b) \/ DeleteBoard(b)
  \/ \E b \in Boards \cup {None} : LinkSetting(b)
\* The operating system runs both processes, and the investigator repeats a
\* rebuild that can be resumed.
Fairness ==
  /\ WF_vars(Creating \/ Rebuilding)
  /\ WF_vars(Syncing)
  /\ WF_vars(\E s \in Boards : Resume(s))
Spec == Init /\ [][Next]_vars /\ Fairness

-----------------------------------------------------------------------------
\* Every variable has its type.
TypeOK ==
  /\ link \in Boards \cup {None} /\ deleted \subseteq Boards
  /\ creation.status \in {"none", "pending", "rejected", "created"}
  /\ \A s \in Boards : /\ rebuild[s].status \in {"none", "prepared", "pending", "rejected",
                                                 "created", "syncing", "complete"}
                       /\ HasBoard(s) <=> rebuild[s].status \in {"created", "syncing", "complete"}
\* No POST is forgotten or repeated while its outcome is open: a board that an
\* operation made is named by the receipt of that operation, or the receipt
\* still says pending, so neither makes a second one.
EveryBoardIsKnown ==
  /\ \A b \in Boards : maker[b] = "creation" =>
       creation.status = "pending" \/ creation.board = b
  /\ \A s, b \in Boards : maker[b] = s => rebuild[s].status = "pending" \/ rebuild[s].board = b
  /\ \A by \in Boards \cup {"creation"} : Cardinality({b \in Boards : maker[b] = by}) <= 1
\* A rebuild that has its board can always be resumed with the plan of its
\* receipt: the files that were saved one after the other agree.
PlanIsFrozen == \A s \in Boards : HasBoard(s) => planFile[s] = rebuild[s].plan
\* A rebuild is complete only after something was published to its board.
CompleteIsShown ==
  \A s \in Boards : rebuild[s].status = "complete" => mapping[rebuild[s].board] # NoMapping
\* What may stop a rebuild for good: a deletion, a changed link, another
\* rebuild, or a mapping that someone else made for the new board.
Obstructed(s) ==
  \/ link \notin {s, rebuild[s].board} \/ ~Writable(s) \/ ~Writable(rebuild[s].board)
  \/ UnfinishedElsewhere(s)
  \/ ~rebuild[s].checked /\ mapping[rebuild[s].board] # NoMapping
\* A rebuild that has its board completes when it is repeated.
AllShown == Idle /\ \A s \in Boards : HasBoard(s) => rebuild[s].status = "complete" \/ Obstructed(s)
RebuildCompletes == []<>AllShown
=============================================================================
