---------------------------- MODULE CaseDeletion ----------------------------
(* Deleting the files of an investigation while other program instances use  *)
(* it (liquid_tracer/investigation_deletion.py).  A command holds a shared   *)
(* lock on the directory, not on its name; an edit of the settings holds     *)
(* locks on files inside; the deletion holds both, moves the directory to    *)
(* the trash by name and removes it there.  Another process of the machine   *)
(* may put another directory under the name at any moment.                   *)
EXTENDS Naturals

CONSTANTS
  Commands,      \* processes under operation_guard
  Editors,       \* processes that edit settings or seeds
  Confirmed,     \* the directory of the investigation the user confirmed
  Other,         \* another directory that may take its name
  MaxSwaps,      \* bound: times the name is given to Other
  MaxDeletions,  \* bound: deletions started
  None

CaseDeletionAssumption ==
  /\ Confirmed # Other /\ None \notin {Confirmed, Other, "cleanup_pending", "deleted"}
  /\ Commands \cap Editors = {}
  /\ MaxSwaps \in Nat /\ MaxDeletions \in Nat

Dirs == {Confirmed, Other}
Users == Commands \cup Editors

VARIABLES
  at,         \* the directory under the name of the case
  trash,      \* directories moved to the trash
  content,    \* the files of a directory: whole, partly removed or removed
  record,     \* receipt.json of the deletion of a directory
  deletion,   \* the deletion: its step, the directory it pinned and the one it moved
  user,       \* the other processes: their step and the directory they pinned
  ghost,      \* an edit made files where there was no investigation
  swaps, deletions
vars == <<at, trash, content, record, deletion, user, ghost, swaps, deletions>>

Rest == [pc |-> "rest", dir |-> None, moved |-> None]
Deleting(d) == deletion.dir = d /\ deletion.pc \notin {"rest", "opened"}
HoldsFiles(d) == Deleting(d) /\ deletion.pc # "locked"
In(u, pc) == user[u].pc = pc
Become(u, pc, d) == user' = [user EXCEPT ![u] = [pc |-> pc, dir |-> d]]
Leave(u) == Become(u, "rest", None)

-----------------------------------------------------------------------------
\* operation_guard: pin the directory under the name, lock it shared without
\* waiting, and check that the name still leads to it.
OpenCase(u) ==
  /\ In(u, "rest") /\ at # None
  /\ Become(u, "opened", at)
  /\ UNCHANGED <<at, trash, content, record, deletion, ghost, swaps, deletions>>
Guard(u) ==
  /\ u \in Commands /\ In(u, "opened")
  /\ IF Deleting(user[u].dir) THEN Leave(u) ELSE Become(u, "locked", user[u].dir)
  /\ UNCHANGED <<at, trash, content, record, deletion, ghost, swaps, deletions>>
SameDirectory(u) ==
  /\ u \in Commands /\ In(u, "locked")
  /\ IF at = user[u].dir THEN Become(u, "working", at) ELSE Leave(u)
  /\ UNCHANGED <<at, trash, content, record, deletion, ghost, swaps, deletions>>

\* A settings edit opens trace.lock and case.lock by path, locks them without
\* waiting, reads case.json by path again and saves by path.
Editing(d) == \E u \in Editors : user[u].dir = d /\ user[u].pc \in {"locked", "working"}
LockSettings(u) ==
  /\ u \in Editors /\ In(u, "opened")
  /\ IF HoldsFiles(user[u].dir) \/ Editing(user[u].dir)
     THEN Leave(u) ELSE Become(u, "locked", user[u].dir)
  /\ UNCHANGED <<at, trash, content, record, deletion, ghost, swaps, deletions>>
ReadCase(u) ==
  /\ u \in Editors /\ In(u, "locked")
  /\ IF at # None THEN Become(u, "working", user[u].dir) ELSE Leave(u)
  /\ UNCHANGED <<at, trash, content, record, deletion, ghost, swaps, deletions>>
SaveSettings(u) ==
  /\ u \in Editors /\ In(u, "working")
  /\ ghost' = (ghost \/ at = None)
  /\ Leave(u)
  /\ UNCHANGED <<at, trash, content, record, deletion, swaps, deletions>>
EndCommand(u) ==
  /\ u \in Commands /\ In(u, "working")
  /\ Leave(u)
  /\ UNCHANGED <<at, trash, content, record, deletion, ghost, swaps, deletions>>

-----------------------------------------------------------------------------
\* delete_investigation
Go(pc) == deletion' = [deletion EXCEPT !.pc = pc]
Begin ==
  /\ deletion = Rest /\ at # None /\ deletions < MaxDeletions
  /\ deletion' = [Rest EXCEPT !.pc = "opened", !.dir = at]
  /\ deletions' = deletions + 1
  /\ UNCHANGED <<at, trash, content, record, user, ghost, swaps>>
Guarded(d) == \E u \in Commands : user[u].dir = d /\ user[u].pc \in {"locked", "working"}
LockDirectory ==
  /\ deletion.pc = "opened"
  /\ IF Guarded(deletion.dir) THEN deletion' = Rest ELSE Go("locked")
  /\ UNCHANGED <<at, trash, content, record, user, ghost, swaps, deletions>>
\* The files are locked, and the identity and name are those confirmed.
LockFiles ==
  /\ deletion.pc = "locked"
  /\ IF Editing(deletion.dir) \/ deletion.dir # Confirmed THEN deletion' = Rest ELSE Go("checked")
  /\ UNCHANGED <<at, trash, content, record, user, ghost, swaps, deletions>>
\* The receipt is durable before the move.
WriteReceipt ==
  /\ deletion.pc = "checked"
  /\ record' = [record EXCEPT ![deletion.dir] = "cleanup_pending"]
  /\ Go("recorded")
  /\ UNCHANGED <<at, trash, content, user, ghost, swaps, deletions>>
CheckAgain ==
  /\ deletion.pc = "recorded"
  /\ IF at = deletion.dir THEN Go("move") ELSE deletion' = Rest
  /\ UNCHANGED <<at, trash, content, record, user, ghost, swaps, deletions>>
\* The rename takes whatever has the name now.
Move ==
  /\ deletion.pc = "move"
  /\ IF at = None THEN deletion' = Rest /\ UNCHANGED <<at, trash>>
     ELSE /\ deletion' = [deletion EXCEPT !.pc = "moved", !.moved = at]
          /\ trash' = trash \cup {at} /\ at' = None
  /\ UNCHANGED <<content, record, user, ghost, swaps, deletions>>
IsOwn == deletion.moved = deletion.dir
VerifyMoved ==
  /\ deletion.pc = "moved"
  /\ IF IsOwn THEN Go("cleanup") ELSE deletion' = Rest
  /\ UNCHANGED <<at, trash, content, record, user, ghost, swaps, deletions>>
\* Removal succeeds, or fails part way and leaves the receipt pending.
Cleanup ==
  /\ deletion.pc = "cleanup"
  /\ \/ /\ content' = [content EXCEPT ![deletion.moved] = "removed"]
        /\ record' = [record EXCEPT ![deletion.dir] = "deleted"]
     \/ /\ content' = [content EXCEPT ![deletion.moved] = "partly"]
        /\ UNCHANGED record
  /\ deletion' = Rest
  /\ UNCHANGED <<at, trash, user, ghost, swaps, deletions>>
\* A crash, an interrupt or a file error ends it at any step.
DeletionStops ==
  /\ deletion.pc \notin {"rest", "opened"}
  /\ deletion' = Rest
  /\ UNCHANGED <<at, trash, content, record, user, ghost, swaps, deletions>>

\* Another process gives the name to the other directory.
Swap ==
  /\ swaps < MaxSwaps /\ at # Other /\ Other \notin trash
  /\ at' = Other /\ swaps' = swaps + 1
  /\ UNCHANGED <<trash, content, record, deletion, user, ghost, deletions>>

-----------------------------------------------------------------------------
Init ==
  /\ at = Confirmed /\ trash = {}
  /\ content = [d \in Dirs |-> "whole"] /\ record = [d \in Dirs |-> None]
  /\ deletion = Rest /\ user = [u \in Users |-> [pc |-> "rest", dir |-> None]]
  /\ ghost = FALSE /\ swaps = 0 /\ deletions = 0

Use(u) ==
  \/ OpenCase(u) \/ Guard(u) \/ SameDirectory(u) \/ EndCommand(u)
  \/ LockSettings(u) \/ ReadCase(u) \/ SaveSettings(u)
Remove ==
  \/ Begin \/ LockDirectory \/ LockFiles \/ WriteReceipt \/ CheckAgain
  \/ Move \/ VerifyMoved \/ Cleanup \/ DeletionStops
Next == (\E u \in Users : Use(u)) \/ Remove \/ Swap
Spec == Init /\ [][Next]_vars

-----------------------------------------------------------------------------
\* Every variable has its type.
TypeOK ==
  /\ at \in Dirs \cup {None} /\ trash \subseteq Dirs /\ ghost \in BOOLEAN
  /\ content \in [Dirs -> {"whole", "partly", "removed"}]
  /\ record \in [Dirs -> {None, "cleanup_pending", "deleted"}]
  /\ user \in [Users -> [pc : {"rest", "opened", "locked", "working"}, dir : Dirs \cup {None}]]

\* A command never works on a directory that was moved away or emptied by a
\* deletion, unless another process took its name from under it.
WorkIsInPlace ==
  /\ \A u \in Commands : user[u].pc = "working" =>
       content[user[u].dir] = "whole" /\ (user[u].dir \in trash => swaps > 0)
  /\ ghost => swaps > 0
\* Only the directory the user confirmed is ever emptied, after it left its
\* place and a receipt said so.
OnlyConfirmedIsRemoved ==
  /\ content[Other] = "whole"
  /\ content[Confirmed] # "whole" =>
       Confirmed \in trash /\ at # Confirmed /\ record[Confirmed] # None
=============================================================================
