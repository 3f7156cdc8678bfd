------------------------------- MODULE Boards -------------------------------
(* The named Miro boards of one investigation: creating a board for a saved  *)
(* plot, linking one by hand, publishing a plot to it and deleting it        *)
(* (liquid_tracer/investigation_boards.py, board_deletion.py and             *)
(* board_write_guard.py).                                                    *)
(*                                                                           *)
(* Each member of Procs is one program instance: a worker of the local       *)
(* server, a command line, or another investigation that publishes to a      *)
(* shared board.  They meet in four files: the registry miro/boards.json,    *)
(* the synchronisation map of an entry, the deletion receipt of a board,     *)
(* which all investigations of the workspace share, and case.json.  The      *)
(* locks are flock()s: a crash drops them, the files stay.                   *)
EXTENDS Naturals, FiniteSets

CONSTANTS
  Procs,        \* program instances
  Boards,       \* Miro boards that may ever exist
  Own,          \* the boards the investigator already has
  Fresh,        \* saved plots to get a board of their own
  Updates,      \* saved plots made for an existing board
  MaxEntries,   \* bound: entries of the registry
  MaxStarts,    \* bound: operations started
  MaxFaults,    \* bound: crashes and failed saves
  None

ASSUME BoardsAssumption ==
  /\ IsFiniteSet(Procs) /\ Own \subseteq Boards
  /\ Fresh \cap Updates = {}
  /\ None \notin {"pending", "uncertain", "rejected", "deleted"} \cup Procs \cup Boards \cup Fresh \cup Updates
  /\ MaxEntries \in Nat /\ MaxStarts \in Nat /\ MaxFaults \in Nat

Entries == 1..MaxEntries
Plots == Fresh \cup Updates

VARIABLES
  entry,      \* the registry
  map,        \* what the sync map of an entry says: empty, unfinished, complete
  receipt,    \* the deletion receipt of a board
  link,       \* the board of case.json
  held,       \* the locks of each instance
  op,         \* the operation of each instance
  remote,     \* what Miro has: never, live, gone
  maker,      \* the plot whose POST made a board
  doomed,     \* boards with a DELETE under way that nobody waits for
  starts, faults
vars == <<entry, map, receipt, link, held, op, remote, maker, doomed, starts, faults>>
files == <<entry, map, receipt, link>>
world == <<remote, maker, doomed>>
counts == <<starts, faults>>

Statuses == {"pending_creation", "creation_rejected", "linked", "syncing", "synced", "sync_error"}
Unused == [status |-> "unused", board |-> None, born |-> None, plot |-> None]
Idle == [pc |-> "idle", entry |-> 0, plot |-> None, board |-> None, doubt |-> FALSE]

-----------------------------------------------------------------------------
\* Locks
Registry == <<"registry", 0>>
Case(mode) == <<"case", mode>>
Entry(e) == <<"entry", e>>
Board(b) == <<"board", b>>
IsFree(lock) == \A p \in Procs : lock \notin held[p]
IsFreeFor(p, lock) == \A q \in Procs \ {p} : lock \notin held[q]
CaseIsFree == \A mode \in {"shared", "exclusive"} : IsFree(Case(mode))

\* The registry
Used == {e \in Entries : entry[e].status # "unused"}
NextEntry == CHOOSE e \in Entries : e \notin Used
\* A registry with two entries of one board is rejected by every read.
Readable == \A e, f \in Used : e # f /\ entry[e].board # None => entry[e].board # entry[f].board
\* A pending, uncertain or acknowledged deletion forbids every write.
Writable(b) == receipt[b] \notin {"pending", "uncertain", "deleted"}
IsDeleted(e) == entry[e].board # None /\ receipt[entry[e].board] = "deleted"
CanSync(e) == e \in Used /\ entry[e].board # None /\ Writable(entry[e].board)
\* A deleted entry is not listed, and so does not count.
TakenBy(b, e) == \E f \in Used \ {e} : entry[f].board = b /\ ~IsDeleted(f)
\* The mutant: an entry without a board counts as never created.
EarlierBound(q) == {e \in Used : entry[e].born = q /\ entry[e].board # None /\ ~IsDeleted(e)}
Earlier(q) == {e \in Used : entry[e].born = q /\ ~IsDeleted(e)}

Finish(p) == /\ op' = [op EXCEPT ![p] = Idle]
             /\ held' = [held EXCEPT ![p] = {}]
Goto(p, pc) == op' = [op EXCEPT ![p].pc = pc]
Keep(p, locks) == held' = [held EXCEPT ![p] = locks]
Put(e, value) == entry' = [entry EXCEPT ![e] = value]

-----------------------------------------------------------------------------
\* Starting an operation
Begin(p, pc, e, q, b) ==
  /\ op[p].pc = "idle" /\ starts < MaxStarts
  /\ op' = [op EXCEPT ![p] = [Idle EXCEPT !.pc = pc, !.entry = e, !.plot = q, !.board = b]]
  /\ starts' = starts + 1
  /\ UNCHANGED <<files, world, faults>>

\* The bound MaxEntries: room for the entries the running operations append.
Appending == {p \in Procs : \/ op[p].pc \in {"check", "create"}
                            \/ op[p].pc = "link" /\ op[p].entry = 0}
Room == Cardinality(Used) + Cardinality(Appending) < MaxEntries

StartGenerate(p, q) == Room /\ Begin(p, "check", 0, q, None) /\ UNCHANGED held
StartCreate(p, q) == Room /\ Begin(p, "create", 0, q, None) /\ UNCHANGED held
StartSync(p, e, q) == e \in Used /\ Begin(p, "sync", e, q, None) /\ UNCHANGED held

\* An update layout is generated and published under the lock of its entry,
\* which must have no publication to resume.
StartUpdate(p, e, q) ==
  /\ Readable /\ CanSync(e) /\ map[e] # "unfinished" /\ entry[e].status # "syncing"
  /\ IsFree(Entry(e))
  /\ Begin(p, "sync", e, q, None) /\ Keep(p, {Entry(e)})

\* The investigator is asked to recover a pending entry with the board its own
\* POST made, but any board can be given.
StartLink(p, e, b) ==
  /\ remote[b] = "live" /\ Writable(b)
  /\ IF e = 0 THEN Room ELSE e \in Used
  /\ Begin(p, "link", e, None, b) /\ UNCHANGED held

\* delete_board holds case.lock exclusively to its end.
StartDelete(p, e) ==
  /\ e \in Used /\ entry[e].board # None /\ CaseIsFree
  /\ Begin(p, "delete", e, None, entry[e].board) /\ Keep(p, {Case("exclusive")})

\* Another investigation writes to b, under the lock of the board.
StartOther(p, b) ==
  /\ remote[b] # "never" /\ IsFree(Board(b)) /\ Writable(b)
  /\ Begin(p, "other", 0, None, b) /\ Keep(p, {Board(b)})
EndOther(p) == op[p].pc = "other" /\ Finish(p) /\ UNCHANGED <<files, world, counts>>

\* The settings of the investigation may link any board.
LinkSetting(b) ==
  /\ CaseIsFree /\ link # b /\ starts < MaxStarts
  /\ link' = b /\ starts' = starts + 1
  /\ UNCHANGED <<entry, map, receipt, held, op, world, faults>>

\* case.lock is taken without waiting, the registry lock with waiting.
Sharing == {"check", "create", "link"}
Registering == Sharing \cup {"acknowledge", "refuse", "sync", "mark", "failed", "published", "delete"}
Share(p) ==
  /\ op[p].pc \in Sharing /\ Case("shared") \notin held[p]
  /\ IF IsFree(Case("exclusive"))
     THEN Keep(p, held[p] \cup {Case("shared")}) /\ UNCHANGED op
     ELSE Finish(p)
  /\ UNCHANGED <<files, world, counts>>
Enter(p) ==
  /\ op[p].pc \in Registering /\ IsFree(Registry)
  /\ op[p].pc \in Sharing => Case("shared") \in held[p]
  /\ IF Readable
     THEN Keep(p, held[p] \cup {Registry}) /\ UNCHANGED op
     ELSE Finish(p)
  /\ UNCHANGED <<files, world, counts>>
In(p, pc) == op[p].pc = pc /\ Registry \in held[p]

-----------------------------------------------------------------------------
\* Creating a board: the intent is saved before the POST.  An abandoned
\* creation blocks every new one, an active one does not.
Check(p) ==
  /\ In(p, "check")
  /\ IF \E e \in Used : /\ entry[e].status = "pending_creation" /\ entry[e].born # None
                        /\ IsFree(Entry(e))
     THEN Finish(p)
     ELSE Goto(p, "create") /\ Keep(p, {})
  /\ UNCHANGED <<files, world, counts>>
Intent(q) == [status |-> "pending_creation", board |-> None, born |-> q, plot |-> q]
Post(p, e) ==
  /\ Put(e, Intent(op[p].plot))
  /\ op' = [op EXCEPT ![p].pc = "post", ![p].entry = e]
  /\ Keep(p, {Entry(e)})
CreateNew(p) ==
  /\ In(p, "create") /\ Earlier(op[p].plot) = {}
  /\ Post(p, NextEntry)
  /\ UNCHANGED <<map, receipt, link, world, counts>>
CreateAgain(p) ==
  /\ In(p, "create")
  /\ \E e \in Earlier(op[p].plot) :
       \/ /\ \/ ~IsFree(Entry(e))
             \/ entry[e].status = "pending_creation"
             \/ entry[e].board # None /\ ~Writable(entry[e].board)
          /\ Finish(p) /\ UNCHANGED entry
       \/ /\ IsFree(Entry(e)) /\ CanSync(e)
          /\ op' = [op EXCEPT ![p].pc = "sync", ![p].entry = e]
          /\ Keep(p, {}) /\ UNCHANGED entry
       \/ /\ IsFree(Entry(e)) /\ entry[e].board = None /\ entry[e].status # "pending_creation"
          /\ Post(p, e)
  /\ UNCHANGED <<map, receipt, link, world, counts>>

Made(b, q) ==
  /\ remote[b] = "never"
  /\ remote' = [remote EXCEPT ![b] = "live"] /\ maker' = [maker EXCEPT ![b] = q]
\* The answer arrives: a board, or a definite refusal.
PostAnswered(p) ==
  /\ op[p].pc = "post"
  /\ \/ \E b \in Boards :
          Made(b, op[p].plot) /\ op' = [op EXCEPT ![p].pc = "acknowledge", ![p].board = b]
     \/ Goto(p, "refuse") /\ UNCHANGED <<remote, maker>>
  /\ UNCHANGED <<files, held, doomed, counts>>
\* No usable answer: the board may exist, the entry stays pending.
PostLost(p) ==
  /\ op[p].pc = "post"
  /\ \/ \E b \in Boards : Made(b, op[p].plot)
     \/ UNCHANGED <<remote, maker>>
  /\ Finish(p) /\ UNCHANGED <<files, doomed, counts>>
\* create_and_sync goes on to publish the plot to the new board.
Acknowledge(p) ==
  /\ In(p, "acknowledge")
  /\ LET e == op[p].entry IN
     IF TakenBy(op[p].board, e) THEN Finish(p) /\ UNCHANGED entry
     ELSE /\ Put(e, [entry[e] EXCEPT !.board = op[p].board, !.status = "linked"])
          /\ Goto(p, "sync") /\ Keep(p, {})
  /\ UNCHANGED <<map, receipt, link, world, counts>>
Refuse(p) ==
  /\ In(p, "refuse")
  /\ Put(op[p].entry, [entry[op[p].entry] EXCEPT !.status = "creation_rejected"])
  /\ Finish(p) /\ UNCHANGED <<map, receipt, link, world, counts>>

\* Linking a board by hand, also to recover an uncertain creation
Bound(b, old) == [old EXCEPT !.board = b, !.status = "linked"]
Recoverable(e) ==
  /\ IsFree(Entry(e)) /\ entry[e].board = None
  /\ entry[e].status \in {"pending_creation", "creation_rejected"}
Link(p) ==
  /\ In(p, "link")
  /\ LET b == op[p].board   e == op[p].entry   refused == ~Writable(b) \/ TakenBy(b, e) IN
     IF e = 0 /\ ~refused THEN Put(NextEntry, Bound(b, Unused))
     ELSE IF e # 0 /\ ~refused /\ Recoverable(e) THEN Put(e, Bound(b, entry[e]))
     ELSE UNCHANGED entry
  /\ Finish(p) /\ UNCHANGED <<map, receipt, link, world, counts>>

-----------------------------------------------------------------------------
\* Publishing a plot.  A fresh plot belongs to the board made for it; an
\* interrupted publication is finished with its own plot before another.
SuitsPlot(q, e) == q \in Fresh => entry[e].born = q /\ (map[e] # "empty" => entry[e].plot = q)
Suits(q, e) ==
  /\ q \in Fresh => entry[e].born = q /\ (map[e] # "empty" => entry[e].plot = q)
  /\ map[e] = "unfinished" => entry[e].plot = q
Sync(p) ==
  /\ In(p, "sync")
  /\ LET e == op[p].entry IN
     IF CanSync(e) /\ IsFreeFor(p, Entry(e)) /\ Suits(op[p].plot, e)
     THEN op' = [op EXCEPT ![p].pc = "mark", ![p].board = entry[e].board] /\ Keep(p, {Entry(e)})
     ELSE Finish(p)
  /\ UNCHANGED <<files, world, counts>>
Mark(p) ==
  /\ In(p, "mark")
  /\ Put(op[p].entry, [entry[op[p].entry] EXCEPT !.status = "syncing", !.plot = op[p].plot])
  /\ Goto(p, "write") /\ Keep(p, held[p] \ {Registry})
  /\ UNCHANGED <<map, receipt, link, world, counts>>
\* state_board_lock: the lock of the board without waiting, then its receipt.
Write(p) ==
  /\ op[p].pc = "write"
  /\ LET b == op[p].board IN
     IF IsFree(Board(b)) /\ Writable(b)
     THEN /\ map' = [map EXCEPT ![op[p].entry] = "unfinished"]
          /\ Goto(p, "writing") /\ Keep(p, held[p] \cup {Board(b)})
     ELSE Goto(p, "failed") /\ UNCHANGED <<map, held>>
  /\ UNCHANGED <<entry, receipt, link, world, counts>>
EndWrite(p) ==
  /\ op[p].pc = "writing"
  /\ \/ map' = [map EXCEPT ![op[p].entry] = "complete"] /\ Goto(p, "published")
     \/ UNCHANGED map /\ Goto(p, "failed")
  /\ Keep(p, held[p] \ {Board(op[p].board)})
  /\ UNCHANGED <<entry, receipt, link, world, counts>>
Record(p) ==
  /\ Registry \in held[p] /\ op[p].pc \in {"failed", "published"}
  /\ Put(op[p].entry, [entry[op[p].entry] EXCEPT
       !.status = IF op[p].pc = "failed" THEN "sync_error" ELSE "synced"])
  /\ Finish(p) /\ UNCHANGED <<map, receipt, link, world, counts>>

-----------------------------------------------------------------------------
\* Deleting a board: delete_board
Select(p) ==
  /\ In(p, "delete")
  /\ IF entry[op[p].entry].board = op[p].board /\ IsFree(Entry(op[p].entry))
     THEN Goto(p, "intend") /\ Keep(p, {Case("exclusive"), Entry(op[p].entry)})
     ELSE Finish(p)
  /\ UNCHANGED <<files, world, counts>>
Unlinked(b) == IF link = b THEN None ELSE link
\* The mutant: an intent without an answer counts as never sent.
InDoubtUncertain(b) == receipt[b] = "uncertain"
\* A rejected retry cannot resolve an earlier DELETE whose answer was lost.
InDoubt(b) == receipt[b] \in {"pending", "uncertain"}
\* The intent is durable before the DELETE; a deletion that was acknowledged
\* only finishes locally.
Intend(p) ==
  /\ op[p].pc = "intend"
  /\ LET b == op[p].board IN
     IF ~IsFree(Board(b)) THEN Finish(p) /\ UNCHANGED <<receipt, link>>
     ELSE IF receipt[b] = "deleted" THEN link' = Unlinked(b) /\ Finish(p) /\ UNCHANGED receipt
     ELSE /\ receipt' = [receipt EXCEPT ![b] = "pending"]
          /\ op' = [op EXCEPT ![p].pc = "send", ![p].doubt = InDoubt(b)]
          /\ Keep(p, held[p] \cup {Board(b)}) /\ UNCHANGED link
  /\ UNCHANGED <<entry, map, world, counts>>
Gone(b) == remote' = [remote EXCEPT ![b] = "gone"] /\ UNCHANGED <<maker, doomed>>
\* 204
DeleteConfirmed(p) ==
  /\ op[p].pc = "send" /\ remote[op[p].board] = "live"
  /\ Gone(op[p].board)
  /\ receipt' = [receipt EXCEPT ![op[p].board] = "deleted"]
  /\ Goto(p, "unlink") /\ UNCHANGED <<entry, map, link, held, counts>>
\* Miro refuses: 400, 401, 403, 405, 422 or 429.
Rejected(p) ==
  /\ op[p].pc = "send"
  /\ receipt' = [receipt EXCEPT ![op[p].board] = IF op[p].doubt THEN "uncertain" ELSE "rejected"]
  /\ Finish(p) /\ UNCHANGED <<entry, map, link, world, counts>>
\* No answer, or one that proves nothing: the DELETE took effect, never will,
\* or is still under way.
Unanswered(p) ==
  /\ op[p].pc = "send"
  /\ LET b == op[p].board IN
       /\ \/ remote[b] = "live" /\ Gone(b)
          \/ remote[b] = "live" /\ doomed' = doomed \cup {b} /\ UNCHANGED <<remote, maker>>
          \/ UNCHANGED world
       /\ receipt' = [receipt EXCEPT ![b] = "uncertain"]
  /\ Finish(p) /\ UNCHANGED <<entry, map, link, counts>>
LateDelete(b) ==
  /\ b \in doomed
  /\ doomed' = doomed \ {b} /\ remote' = [remote EXCEPT ![b] = "gone"]
  /\ UNCHANGED <<files, held, op, maker, counts>>
Unlink(p) ==
  /\ op[p].pc = "unlink" /\ link' = Unlinked(op[p].board) /\ Finish(p)
  /\ UNCHANGED <<entry, map, receipt, world, counts>>

\* An instance dies, or a save fails and its operation ends there; a request
\* that was sent may still take effect.
Fault(p) ==
  /\ op[p].pc # "idle" /\ faults < MaxFaults /\ faults' = faults + 1
  /\ \/ UNCHANGED world
     \/ /\ op[p].pc = "send" /\ remote[op[p].board] = "live"
        /\ \/ Gone(op[p].board)
           \/ doomed' = doomed \cup {op[p].board} /\ UNCHANGED <<remote, maker>>
  /\ Finish(p) /\ UNCHANGED <<files, starts>>

-----------------------------------------------------------------------------
Init ==
  /\ entry = [e \in Entries |-> Unused] /\ map = [e \in Entries |-> "empty"]
  /\ receipt = [b \in Boards |-> None] /\ link = None
  /\ held = [p \in Procs |-> {}] /\ op = [p \in Procs |-> Idle]
  /\ remote = [b \in Boards |-> IF b \in Own THEN "live" ELSE "never"]
  /\ maker = [b \in Boards |-> None] /\ doomed = {} /\ starts = 0 /\ faults = 0

Start(p) ==
  \/ \E q \in Fresh : StartGenerate(p, q) \/ StartCreate(p, q)
  \/ \E e \in 0..MaxEntries, b \in Boards : StartLink(p, e, b)
  \/ \E e \in Entries, q \in Plots : StartSync(p, e, q)
  \/ \E e \in Entries, q \in Updates : StartUpdate(p, e, q)
  \/ \E e \in Entries : StartDelete(p, e)
  \/ \E b \in Boards : StartOther(p, b)
Create(p) ==
  CreateNew(p) \/ CreateAgain(p) \/ PostAnswered(p) \/ PostLost(p) \/ Acknowledge(p) \/ Refuse(p)
Publish(p) == Sync(p) \/ Mark(p) \/ Write(p) \/ EndWrite(p) \/ Record(p)
Delete(p) == Select(p) \/ Intend(p) \/ DeleteConfirmed(p) \/ Rejected(p) \/ Unanswered(p) \/ Unlink(p)
Step(p) == Share(p) \/ Enter(p) \/ Check(p) \/ Create(p) \/ Link(p) \/ Publish(p) \/ Delete(p)
           \/ EndOther(p)
Next ==
  \/ \E p \in Procs : Start(p) \/ Step(p) \/ Fault(p)
  \/ \E b \in Boards : LinkSetting(b) \/ LateDelete(b)

\* The operating system runs some instance that can go on, and a request
\* returns or times out.
Fairness == WF_vars(\E p \in Procs : Step(p))
Spec == Init /\ [][Next]_vars /\ Fairness

-----------------------------------------------------------------------------
\* Every variable has its type.
TypeOK ==
  /\ \A e \in Entries : entry[e] = Unused \/ entry[e] \in
       [status : Statuses, board : Boards \cup {None}, born : Fresh \cup {None},
        plot : Plots \cup {None}]
  /\ map \in [Entries -> {"empty", "unfinished", "complete"}]
  /\ receipt \in [Boards -> {None, "pending", "uncertain", "rejected", "deleted"}]
  /\ link \in Boards \cup {None}
  /\ remote \in [Boards -> {"never", "live", "gone"}] /\ doomed \subseteq Boards

Writing(p, b) == op[p].pc \in {"writing", "other"} /\ op[p].board = b
\* Nobody writes to a board while a DELETE of it may still take effect, even
\* when a retry was refused, and a board recorded as deleted is gone.
DeletionIsFinal ==
  /\ \A p \in Procs, b \in Boards : Writing(p, b) => b \notin doomed /\ remote[b] = "live"
  /\ \A b \in Boards : receipt[b] = "deleted" => remote[b] = "gone"
\* A saved plot never gets a second board before the first is deleted, however
\* its creations were interrupted, answered late, repeated or recovered by
\* linking the board they made; and no two listed entries share a board.
OneBoardPerPlot ==
  /\ \A q \in Fresh :
       (\A e \in Used : entry[e].born = q /\ entry[e].board # None => maker[entry[e].board] = q)
       => Cardinality({b \in Boards : maker[b] = q /\ receipt[b] # "deleted"}) <= 1
  /\ \A e \in Used : entry[e].board # None /\ ~IsDeleted(e) => ~TakenBy(entry[e].board, e)
\* The program can read the registry it wrote: _read rejects one in which two
\* entries, deleted or not, are bound to one board.
RegistryIsReadable == Readable
\* An interrupted publication is finished with its own plot.
InterruptedIsResumed ==
  [][\A e \in Entries : map[e] = "unfinished" /\ map'[e] = "unfinished"
       => entry'[e].plot = entry[e].plot]_vars
\* The locks are taken in an order in which no operation waits for ever.
AllIdle == \A p \in Procs : op[p].pc = "idle"
OperationsEnd == []<>AllIdle
=============================================================================
