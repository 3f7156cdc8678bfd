---------------------------- MODULE BoardsProofs ----------------------------
(* Proofs about Boards: a board that may be deleted is not written to, an     *)
(* interrupted publication is resumed with its own plot, and a saved plot has *)
(* one board, for any number of program instances, boards, plots and faults.  *)
EXTENDS Boards, FiniteSetTheorems, TLAPS

-----------------------------------------------------------------------------
(* Types, and where an operation has its entry, plot and board                *)

EntryRecord ==
  [status : Statuses \cup {"unused"}, board : Boards \cup {None}, born : Fresh \cup {None},
   plot : Plots \cup {None}]
Places == {"idle", "check", "create", "post", "acknowledge", "refuse", "link", "sync", "mark", "write",
           "writing", "failed", "published", "delete", "intend", "send", "unlink", "other"}
OpRecord ==
  [pc : Places, entry : 0..MaxEntries, plot : Plots \cup {None}, board : Boards \cup {None},
   doubt : BOOLEAN]
Locks ==
  {Registry, Case("shared"), Case("exclusive")} \cup {Entry(e) : e \in Entries} \cup {Board(b) : b \in Boards}

WithEntry == {"post", "acknowledge", "refuse", "sync", "mark", "write", "writing", "failed", "published",
              "delete", "intend", "send", "unlink"}
WithBoard == {"acknowledge", "link", "mark", "write", "writing", "delete", "intend", "send", "unlink", "other"}
WithPlot == {"sync", "mark", "write", "writing"}

Shapes ==
  /\ entry \in [Entries -> EntryRecord] /\ map \in [Entries -> {"empty", "unfinished", "complete"}]
  /\ receipt \in [Boards -> {None, "pending", "uncertain", "rejected", "deleted"}]
  /\ link \in Boards \cup {None} /\ held \in [Procs -> SUBSET Locks] /\ op \in [Procs -> OpRecord]
  /\ remote \in [Boards -> {"never", "live", "gone"}] /\ maker \in [Boards -> Fresh \cup {None}]
  /\ doomed \subseteq Boards
\* An operation has what its place needs, and unused entries are blank.
OpEquipped(p) ==
  /\ op[p].pc \in WithEntry => op[p].entry \in Used
  /\ op[p].pc = "link" => op[p].entry = 0 \/ op[p].entry \in Used
  /\ op[p].pc \in WithBoard => op[p].board \in Boards
  /\ op[p].pc \in {"check", "create", "post", "acknowledge", "refuse"} => op[p].plot \in Fresh
  /\ op[p].pc \in WithPlot => op[p].plot \in Plots
Blank == \A e \in Entries : entry[e].status = "unused" => entry[e] = Unused
Equipped == (\A p \in Procs : OpEquipped(p)) /\ Blank
\* The bound on entries leaves room for those that running operations append.
Roomy == Cardinality(Used) + Cardinality(Appending) <= MaxEntries
ShapeInv == Shapes /\ Equipped /\ Roomy

\* The names of locks are apart.
LEMMA LockNames ==
  /\ \A b, c : Board(b) = Board(c) => b = c
  /\ \A e, f : Entry(e) = Entry(f) => e = f
  /\ \A b, e, m : /\ Board(b) # Entry(e) /\ Board(b) # Registry /\ Board(b) # Case(m)
                  /\ Entry(e) # Registry /\ Entry(e) # Case(m) /\ Registry # Case(m)
BY DEF Board, Entry, Registry, Case

\* None is no name of a status, a board or a plot.
LEMMA Names == None \notin {"pending", "uncertain", "rejected", "deleted"} \cup Procs \cup Boards \cup Fresh \cup Updates
BY BoardsAssumption

\* The entries are finitely many.
LEMMA EntriesFinite ==
  /\ MaxEntries \in Nat /\ IsFiniteSet(Entries) /\ Cardinality(Entries) = MaxEntries /\ Entries \subseteq Nat \ {0}
<1>1. MaxEntries \in Nat
  BY BoardsAssumption
<1>2. IsFiniteSet(1..MaxEntries) /\ Cardinality(1..MaxEntries) = IF 1 > MaxEntries THEN 0 ELSE MaxEntries - 1 + 1
  BY <1>1, FS_Interval
<1> QED
  BY <1>1, <1>2 DEF Entries

\* Used entries and appending operations are finitely many.
LEMMA CountsAreNat ==
  /\ IsFiniteSet(Used) /\ Cardinality(Used) \in Nat
  /\ IsFiniteSet(Appending) /\ Cardinality(Appending) \in Nat
<1>1. Used \subseteq Entries /\ Appending \subseteq Procs /\ IsFiniteSet(Procs)
  BY BoardsAssumption  DEF Used, Appending
<1>2. IsFiniteSet(Used) /\ IsFiniteSet(Appending)
  BY <1>1, EntriesFinite, FS_Subset
<1> QED
  BY <1>2, FS_CardinalityType

\* An operation that is about to append an entry finds an unused one.
LEMMA NextIsUnused ==
  ASSUME Roomy, NEW p \in Procs, p \in Appending
  PROVE  NextEntry \in Entries /\ NextEntry \notin Used
<1>1. Cardinality(Appending) # 0
  BY CountsAreNat, FS_EmptySet
<1>2. Used # Entries
  BY <1>1, CountsAreNat, EntriesFinite DEF Roomy
<1>3. Used \subseteq Entries
  BY DEF Used
<1>4. \E e \in Entries : e \notin Used
  BY <1>2, <1>3
<1> QED
  BY <1>4 DEF NextEntry
\* What the operations hold are locks.
LEMMA LocksAre ==
  /\ Registry \in Locks /\ Case("shared") \in Locks /\ Case("exclusive") \in Locks
  /\ \A e \in Entries : Entry(e) \in Locks
  /\ \A b \in Boards : Board(b) \in Locks
BY DEF Locks

\* What the step of an operation does to its record.
LEMMA OpGoes ==
  ASSUME Shapes, NEW p \in Procs
  PROVE  /\ Finish(p) => op' \in [Procs -> OpRecord] /\ op'[p] = Idle
         /\ \A pc \in Places : Goto(p, pc) =>
              /\ op' \in [Procs -> OpRecord] /\ op'[p].pc = pc /\ op'[p].entry = op[p].entry
              /\ op'[p].board = op[p].board /\ op'[p].plot = op[p].plot /\ op'[p].doubt = op[p].doubt
<1>0. Idle \in OpRecord
  BY EntriesFinite DEF Idle, OpRecord, Places
<1>1. op \in [Procs -> OpRecord]
  BY DEF Shapes
<1>2. Finish(p) => op' \in [Procs -> OpRecord] /\ op'[p] = Idle
  BY <1>0, <1>1 DEF Finish
<1>3. ASSUME NEW pc \in Places, Goto(p, pc)
      PROVE  /\ op' \in [Procs -> OpRecord] /\ op'[p].pc = pc /\ op'[p].entry = op[p].entry
             /\ op'[p].board = op[p].board /\ op'[p].plot = op[p].plot /\ op'[p].doubt = op[p].doubt
  BY <1>1, <1>3 DEF Goto, OpRecord
<1> QED
  BY <1>2, <1>3

\* A record of an operation with new fields is a record of an operation.
LEMMA RecordSets ==
  ASSUME NEW r \in OpRecord, NEW pc \in Places
  PROVE  /\ \A e \in Entries : [r EXCEPT !.pc = pc, !.entry = e] \in OpRecord
         /\ \A b \in Boards \cup {None} : [r EXCEPT !.pc = pc, !.board = b] \in OpRecord
         /\ \A d \in BOOLEAN : [r EXCEPT !.pc = pc, !.doubt = d] \in OpRecord
<1>1. Entries \subseteq 0..MaxEntries
  BY EntriesFinite DEF Entries
<1> QED
  BY <1>1 DEF OpRecord

\* Two fields of one operation's record change together.
LEMMA OpSets ==
  ASSUME Shapes, NEW p \in Procs, NEW pc \in Places
  PROVE  /\ \A e \in Entries : [op EXCEPT ![p].pc = pc, ![p].entry = e] \in [Procs -> OpRecord]
         /\ \A b \in Boards \cup {None} :
              [op EXCEPT ![p].pc = pc, ![p].board = b] \in [Procs -> OpRecord]
         /\ \A d \in BOOLEAN : [op EXCEPT ![p].pc = pc, ![p].doubt = d] \in [Procs -> OpRecord]
<1>1. op \in [Procs -> OpRecord] /\ op[p] \in OpRecord
  BY DEF Shapes
<1>2. \A new \in OpRecord : [op EXCEPT ![p] = new] \in [Procs -> OpRecord]
  BY <1>1
<1>3. ASSUME NEW e \in Entries PROVE [op EXCEPT ![p].pc = pc, ![p].entry = e] \in [Procs -> OpRecord]
  <2>1. [op EXCEPT ![p].pc = pc, ![p].entry = e] = [op EXCEPT ![p] = [op[p] EXCEPT !.pc = pc, !.entry = e]]
    BY <1>1
  <2> QED
    BY <1>1, <1>2, <2>1, RecordSets
<1>4. ASSUME NEW b \in Boards \cup {None}
      PROVE  [op EXCEPT ![p].pc = pc, ![p].board = b] \in [Procs -> OpRecord]
  <2>1. [op EXCEPT ![p].pc = pc, ![p].board = b] = [op EXCEPT ![p] = [op[p] EXCEPT !.pc = pc, !.board = b]]
    BY <1>1
  <2> QED
    BY <1>1, <1>2, <2>1, RecordSets
<1>5. ASSUME NEW d \in BOOLEAN PROVE [op EXCEPT ![p].pc = pc, ![p].doubt = d] \in [Procs -> OpRecord]
  <2>1. [op EXCEPT ![p].pc = pc, ![p].doubt = d] = [op EXCEPT ![p] = [op[p] EXCEPT !.pc = pc, !.doubt = d]]
    BY <1>1
  <2> QED
    BY <1>1, <1>2, <2>1, RecordSets
<1> QED
  BY <1>3, <1>4, <1>5

\* The record of an operation that starts.
LEMMA OpBegins ==
  ASSUME Shapes, NEW p \in Procs, NEW pc \in Places, NEW e \in 0..MaxEntries,
         NEW q \in Plots \cup {None}, NEW b \in Boards \cup {None}, Begin(p, pc, e, q, b)
  PROVE  op' \in [Procs -> OpRecord]
<1>1. [Idle EXCEPT !.pc = pc, !.entry = e, !.plot = q, !.board = b] \in OpRecord
  BY DEF Idle, OpRecord
<1> QED
  BY <1>1 DEF Begin, Shapes

\* A change of one entry keeps the registry well formed.
LEMMA EntryPut ==
  ASSUME Shapes, NEW e, NEW value \in EntryRecord, Put(e, value)
  PROVE  entry' \in [Entries -> EntryRecord]
BY DEF Shapes, Put

\* The changes of an entry that operations make keep its type and say what they changed.
LEMMA EntryChanged ==
  ASSUME Shapes, NEW e \in Entries
  PROVE  /\ \A s \in Statuses :
              LET value == [entry[e] EXCEPT !.status = s]
              IN  /\ value \in EntryRecord /\ value.status = s /\ value.status # "unused" /\ value.board = entry[e].board
                  /\ value.born = entry[e].born /\ value.plot = entry[e].plot
         /\ \A s \in Statuses, b \in Boards :
              LET value == [entry[e] EXCEPT !.board = b, !.status = s]
              IN  /\ value \in EntryRecord /\ value.status = s /\ value.status # "unused" /\ value.board = b
                  /\ value.born = entry[e].born /\ value.plot = entry[e].plot
         /\ \A s \in Statuses, q \in Plots :
              LET value == [entry[e] EXCEPT !.status = s, !.plot = q]
              IN  /\ value \in EntryRecord /\ value.status = s /\ value.status # "unused" /\ value.board = entry[e].board
                  /\ value.born = entry[e].born /\ value.plot = q
<1>1. entry[e] \in EntryRecord
  BY DEF Shapes
<1>2. \A s \in Statuses : s # "unused"
  BY DEF Statuses
<1> QED
  BY <1>1, <1>2 DEF EntryRecord

\* The entries that operations write are entries.
LEMMA EntrySets ==
  ASSUME Shapes, NEW e \in Entries, NEW s \in Statuses
  PROVE  /\ [entry[e] EXCEPT !.status = s] \in EntryRecord
         /\ \A b \in Boards : [entry[e] EXCEPT !.board = b, !.status = s] \in EntryRecord
         /\ \A q \in Plots : [entry[e] EXCEPT !.status = s, !.plot = q] \in EntryRecord
<1>1. entry[e] \in EntryRecord
  BY DEF Shapes
<1> QED
  BY <1>1 DEF EntryRecord

\* Every step keeps the types.
LEMMA ShapesStep ==
  ASSUME ShapeInv, [Next]_vars
  PROVE  Shapes'
<1>0. Shapes /\ Equipped /\ Roomy /\ Used \subseteq Entries /\ Entries \subseteq 0..MaxEntries /\ Idle \in OpRecord
  BY EntriesFinite DEF ShapeInv, Used, Idle, OpRecord, Places, Entries
<1>1. ASSUME NEW p \in Procs, NEW q \in Fresh, StartGenerate(p, q) PROVE Shapes'
  <2>1. op' \in [Procs -> OpRecord]
    BY <1>0, <1>1, EntriesFinite, OpBegins DEF StartGenerate, Places, Plots
  <2>2. held' \in [Procs -> SUBSET Locks]
    BY <1>0, <1>1, LocksAre, NextIsUnused DEF StartGenerate, Begin, Shapes, Equipped, OpEquipped,
       WithEntry, WithBoard, files, world, Appending
  <2>3. entry' \in [Entries -> EntryRecord]
    BY <1>0, <1>1, Names DEF StartGenerate, Begin, EntryRecord, Statuses, Shapes, Equipped,
       OpEquipped, WithBoard, WithPlot, Plots, files, Unused
  <2> QED
    BY <1>0, <2>1, <2>2, <2>3, <1>1, Names DEF StartGenerate, Begin, Shapes, Equipped, OpEquipped,
       WithBoard, files, world, counts
<1>2. ASSUME NEW p \in Procs, NEW q \in Fresh, StartCreate(p, q) PROVE Shapes'
  <2>1. op' \in [Procs -> OpRecord]
    BY <1>0, <1>2, EntriesFinite, OpBegins DEF StartCreate, Places, Plots
  <2>2. held' \in [Procs -> SUBSET Locks]
    BY <1>0, <1>2, LocksAre, NextIsUnused DEF StartCreate, Begin, Shapes, Equipped, OpEquipped,
       WithEntry, WithBoard, files, world, Appending
  <2>3. entry' \in [Entries -> EntryRecord]
    BY <1>0, <1>2, Names DEF StartCreate, Begin, EntryRecord, Statuses, Shapes, Equipped,
       OpEquipped, WithBoard, WithPlot, Plots, files, Unused
  <2> QED
    BY <1>0, <2>1, <2>2, <2>3, <1>2, Names DEF StartCreate, Begin, Shapes, Equipped, OpEquipped,
       WithBoard, files, world, counts
<1>3. ASSUME NEW p \in Procs, NEW e \in 0..MaxEntries, NEW b \in Boards, StartLink(p, e, b)
      PROVE Shapes'
  <2>1. op' \in [Procs -> OpRecord]
    BY <1>0, <1>3, OpBegins DEF StartLink, Places
  <2>2. held' \in [Procs -> SUBSET Locks]
    BY <1>0, <1>3, LocksAre, NextIsUnused DEF StartLink, Begin, Writable, Shapes, Equipped,
       OpEquipped, WithEntry, WithBoard, files, world, Appending
  <2>3. entry' \in [Entries -> EntryRecord]
    BY <1>0, <1>3, Names DEF StartLink, Begin, Writable, EntryRecord, Statuses, Shapes, Equipped,
       OpEquipped, WithBoard, WithPlot, Plots, files, Unused
  <2> QED
    BY <1>0, <2>1, <2>2, <2>3, <1>3, Names DEF StartLink, Begin, Writable, Shapes, Equipped,
       OpEquipped, WithBoard, files, world, counts
<1>4. ASSUME NEW p \in Procs, NEW e \in Entries, NEW q \in Plots, StartSync(p, e, q) PROVE Shapes'
  <2>1. op' \in [Procs -> OpRecord]
    BY <1>0, <1>4, OpBegins DEF StartSync, Places, Plots, Entries
  <2>2. held' \in [Procs -> SUBSET Locks]
    BY <1>0, <1>4, LocksAre, NextIsUnused DEF StartSync, Begin, Shapes, Equipped, OpEquipped,
       WithEntry, WithBoard, files, world, Appending
  <2>3. entry' \in [Entries -> EntryRecord]
    BY <1>0, <1>4, Names DEF StartSync, Begin, EntryRecord, Statuses, Shapes, Equipped, OpEquipped,
       WithBoard, WithPlot, Plots, files, Unused
  <2> QED
    BY <1>0, <2>1, <2>2, <2>3, <1>4, Names DEF StartSync, Begin, Shapes, Equipped, OpEquipped,
       WithBoard, files, world, counts
<1>5. ASSUME NEW p \in Procs, NEW e \in Entries, NEW q \in Updates, StartUpdate(p, e, q)
      PROVE Shapes'
  <2>1. op' \in [Procs -> OpRecord]
    BY <1>0, <1>5, OpBegins DEF StartUpdate, Places, Plots, Entries
  <2>2. held' \in [Procs -> SUBSET Locks]
    BY <1>0, <1>5, LocksAre, NextIsUnused DEF StartUpdate, Begin, CanSync, Keep, Shapes, Equipped,
       OpEquipped, WithEntry, WithBoard, files, world, Appending
  <2>3. entry' \in [Entries -> EntryRecord]
    BY <1>0, <1>5, Names DEF StartUpdate, Begin, CanSync, Keep, EntryRecord, Statuses, Shapes,
       Equipped, OpEquipped, WithBoard, WithPlot, Plots, files, Unused
  <2> QED
    BY <1>0, <2>1, <2>2, <2>3, <1>5, Names DEF StartUpdate, Begin, CanSync, Keep, Shapes, Equipped,
       OpEquipped, WithBoard, files, world, counts
<1>6. ASSUME NEW p \in Procs, NEW e \in Entries, StartDelete(p, e) PROVE Shapes'
  <2>1. op' \in [Procs -> OpRecord]
    BY <1>0, <1>6, OpBegins DEF StartDelete, Places, Shapes, EntryRecord, Entries
  <2>2. held' \in [Procs -> SUBSET Locks]
    BY <1>0, <1>6, LocksAre, NextIsUnused DEF StartDelete, Begin, Keep, Shapes, Equipped,
       OpEquipped, WithEntry, WithBoard, files, world, Appending
  <2>3. entry' \in [Entries -> EntryRecord]
    BY <1>0, <1>6, Names DEF StartDelete, Begin, Keep, EntryRecord, Statuses, Shapes, Equipped,
       OpEquipped, WithBoard, WithPlot, Plots, files, Unused
  <2> QED
    BY <1>0, <2>1, <2>2, <2>3, <1>6, Names DEF StartDelete, Begin, Keep, Shapes, Equipped,
       OpEquipped, WithBoard, files, world, counts
<1>7. ASSUME NEW p \in Procs, NEW b \in Boards, StartOther(p, b) PROVE Shapes'
  <2>1. op' \in [Procs -> OpRecord]
    BY <1>0, <1>7, EntriesFinite, OpBegins DEF StartOther, Places
  <2>2. held' \in [Procs -> SUBSET Locks]
    BY <1>0, <1>7, LocksAre, NextIsUnused DEF StartOther, Begin, Keep, Writable, Shapes, Equipped,
       OpEquipped, WithEntry, WithBoard, files, world, Appending
  <2>3. entry' \in [Entries -> EntryRecord]
    BY <1>0, <1>7, Names DEF StartOther, Begin, Keep, Writable, EntryRecord, Statuses, Shapes,
       Equipped, OpEquipped, WithBoard, WithPlot, Plots, files, Unused
  <2> QED
    BY <1>0, <2>1, <2>2, <2>3, <1>7, Names DEF StartOther, Begin, Keep, Writable, Shapes, Equipped,
       OpEquipped, WithBoard, files, world, counts
<1>8. ASSUME NEW p \in Procs, Share(p) PROVE Shapes'
  <2>1. op' \in [Procs -> OpRecord]
    BY <1>0, <1>8, OpGoes DEF Share, Places, Shapes
  <2>2. held' \in [Procs -> SUBSET Locks]
    BY <1>0, <1>8, LocksAre, NextIsUnused DEF Share, Sharing, Keep, Finish, Shapes, Equipped,
       OpEquipped, WithEntry, WithBoard, files, world, Appending
  <2>3. entry' \in [Entries -> EntryRecord]
    BY <1>0, <1>8, Names DEF Share, Sharing, Keep, Finish, EntryRecord, Statuses, Shapes, Equipped,
       OpEquipped, WithBoard, WithPlot, Plots, files, Unused
  <2> QED
    BY <1>0, <2>1, <2>2, <2>3, <1>8, Names DEF Share, Sharing, Keep, Finish, Shapes, Equipped,
       OpEquipped, WithBoard, files, world, counts
<1>9. ASSUME NEW p \in Procs, Enter(p) PROVE Shapes'
  <2>1. op' \in [Procs -> OpRecord]
    BY <1>0, <1>9, OpGoes DEF Enter, Places, Shapes
  <2>2. held' \in [Procs -> SUBSET Locks]
    BY <1>0, <1>9, LocksAre, NextIsUnused DEF Enter, Keep, Finish, Shapes, Equipped, OpEquipped,
       WithEntry, WithBoard, files, world, Appending
  <2>3. entry' \in [Entries -> EntryRecord]
    BY <1>0, <1>9, Names DEF Enter, Keep, Finish, EntryRecord, Statuses, Shapes, Equipped,
       OpEquipped, WithBoard, WithPlot, Plots, files, Unused
  <2> QED
    BY <1>0, <2>1, <2>2, <2>3, <1>9, Names DEF Enter, Keep, Finish, Shapes, Equipped, OpEquipped,
       WithBoard, files, world, counts
<1>10. ASSUME NEW p \in Procs, Check(p) PROVE Shapes'
  <2>1. op' \in [Procs -> OpRecord]
    BY <1>0, <1>10, OpGoes DEF Check, Places
  <2>2. held' \in [Procs -> SUBSET Locks]
    BY <1>0, <1>10, LocksAre, NextIsUnused DEF Check, In, Goto, Keep, Finish, Shapes, Equipped,
       OpEquipped, WithEntry, WithBoard, files, world, Appending
  <2>3. entry' \in [Entries -> EntryRecord]
    BY <1>0, <1>10, Names DEF Check, In, Goto, Keep, Finish, EntryRecord, Statuses, Shapes,
       Equipped, OpEquipped, WithBoard, WithPlot, Plots, files, Unused
  <2> QED
    BY <1>0, <2>1, <2>2, <2>3, <1>10, Names DEF Check, In, Goto, Keep, Finish, Shapes, Equipped,
       OpEquipped, WithBoard, files, world, counts
<1>11. ASSUME NEW p \in Procs, CreateNew(p) PROVE Shapes'
  <2>1. op' \in [Procs -> OpRecord]
    BY <1>0, <1>11, NextIsUnused, OpSets DEF CreateNew, In, Post, Appending, Places
  <2>2. held' \in [Procs -> SUBSET Locks]
    BY <1>0, <1>11, LocksAre, NextIsUnused DEF CreateNew, In, Post, Put, Keep, Intent, Earlier,
       Shapes, Equipped, OpEquipped, WithEntry, WithBoard, files, world, Appending
  <2>3. entry' \in [Entries -> EntryRecord]
    BY <1>0, <1>11, Names DEF CreateNew, In, Post, Put, Keep, Intent, Earlier, EntryRecord,
       Statuses, Shapes, Equipped, OpEquipped, WithBoard, WithPlot, Plots, files, Unused
  <2> QED
    BY <1>0, <2>1, <2>2, <2>3, <1>11, Names DEF CreateNew, In, Post, Put, Keep, Intent, Earlier,
       Shapes, Equipped, OpEquipped, WithBoard, files, world, counts
<1>12. ASSUME NEW p \in Procs, CreateAgain(p) PROVE Shapes'
  <2>1. op' \in [Procs -> OpRecord]
    <3>1. \/ Finish(p)
          \/ \E e \in Entries : op' = [op EXCEPT ![p].pc = "sync", ![p].entry = e]
          \/ \E e \in Entries : op' = [op EXCEPT ![p].pc = "post", ![p].entry = e]
      BY <1>0, <1>12 DEF CreateAgain, Earlier, Post
    <3>2. ASSUME NEW e \in Entries, op' = [op EXCEPT ![p].pc = "sync", ![p].entry = e] PROVE op' \in [Procs -> OpRecord]
      BY <1>0, <3>2, OpSets DEF Places
    <3>3. ASSUME NEW e \in Entries, op' = [op EXCEPT ![p].pc = "post", ![p].entry = e] PROVE op' \in [Procs -> OpRecord]
      BY <1>0, <3>3, OpSets DEF Places
    <3>4. Finish(p) => op' \in [Procs -> OpRecord]
      BY <1>0, OpGoes
    <3> QED
      BY <3>1, <3>2, <3>3, <3>4
  <2>2. held' \in [Procs -> SUBSET Locks]
    BY <1>0, <1>12, LocksAre, NextIsUnused DEF CreateAgain, In, Post, Put, Keep, Intent, Finish,
       Earlier, CanSync, Shapes, Equipped, OpEquipped, WithEntry, WithBoard, files, world, Appending
  <2>3. entry' \in [Entries -> EntryRecord]
    BY <1>0, <1>12, Names DEF CreateAgain, In, Post, Put, Keep, Intent, Finish, Earlier, CanSync,
       EntryRecord, Statuses, Shapes, Equipped, OpEquipped, WithBoard, WithPlot, Plots, files,
       Unused
  <2> QED
    BY <1>0, <2>1, <2>2, <2>3, <1>12, Names DEF CreateAgain, In, Post, Put, Keep, Intent, Finish,
       Earlier, CanSync, Shapes, Equipped, OpEquipped, WithBoard, files, world, counts
<1>13. ASSUME NEW p \in Procs, PostAnswered(p) PROVE Shapes'
  <2>1. op' \in [Procs -> OpRecord]
    <3>1. ASSUME NEW b \in Boards PROVE [op EXCEPT ![p].pc = "acknowledge", ![p].board = b] \in [Procs -> OpRecord]
      BY <1>0, OpSets DEF Places
    <3> QED
      BY <1>0, <1>13, <3>1, OpGoes DEF PostAnswered, Places
  <2>2. held' \in [Procs -> SUBSET Locks]
    BY <1>0, <1>13, LocksAre, NextIsUnused DEF PostAnswered, Made, Goto, Shapes, Equipped,
       OpEquipped, WithEntry, WithBoard, files, world, Appending
  <2>3. entry' \in [Entries -> EntryRecord]
    BY <1>0, <1>13, Names DEF PostAnswered, Made, Goto, EntryRecord, Statuses, Shapes, Equipped,
       OpEquipped, WithBoard, WithPlot, Plots, files, Unused
  <2> QED
    BY <1>0, <2>1, <2>2, <2>3, <1>13, Names DEF PostAnswered, Made, Goto, Shapes, Equipped,
       OpEquipped, WithBoard, files, world, counts
<1>14. ASSUME NEW p \in Procs, PostLost(p) PROVE Shapes'
  <2>1. op' \in [Procs -> OpRecord]
    BY <1>0, <1>14, OpGoes DEF PostLost, Places
  <2>2. held' \in [Procs -> SUBSET Locks]
    BY <1>0, <1>14, LocksAre, NextIsUnused DEF PostLost, Made, Finish, Shapes, Equipped, OpEquipped,
       WithEntry, WithBoard, files, world, Appending
  <2>3. entry' \in [Entries -> EntryRecord]
    BY <1>0, <1>14, Names DEF PostLost, Made, Finish, EntryRecord, Statuses, Shapes, Equipped,
       OpEquipped, WithBoard, WithPlot, Plots, files, Unused
  <2> QED
    BY <1>0, <2>1, <2>2, <2>3, <1>14, Names DEF PostLost, Made, Finish, Shapes, Equipped,
       OpEquipped, WithBoard, files, world, counts
<1>15. ASSUME NEW p \in Procs, Acknowledge(p) PROVE Shapes'
  <2>1. op' \in [Procs -> OpRecord]
    BY <1>0, <1>15, OpGoes DEF Acknowledge, Places
  <2>2. held' \in [Procs -> SUBSET Locks]
    BY <1>0, <1>15, LocksAre, NextIsUnused DEF Acknowledge, In, Put, Goto, Keep, Finish, Shapes,
       Equipped, OpEquipped, WithEntry, WithBoard, files, world, Appending
  <2>3. entry' \in [Entries -> EntryRecord]
    <3>1. op[p].entry \in Entries /\ op[p].board \in Boards
      BY <1>0, <1>15 DEF Acknowledge, In, Equipped, OpEquipped, WithEntry, WithBoard
    <3>2. [entry[op[p].entry] EXCEPT !.board = op[p].board, !.status = "linked"] \in EntryRecord
      BY <1>0, <3>1, EntrySets DEF Statuses
    <3> QED
      BY <1>0, <1>15, <3>2, EntryPut DEF Acknowledge, Shapes
  <2> QED
    BY <1>0, <2>1, <2>2, <2>3, <1>15, Names DEF Acknowledge, In, Put, Goto, Keep, Finish, Shapes,
       Equipped, OpEquipped, WithBoard, files, world, counts
<1>16. ASSUME NEW p \in Procs, Refuse(p) PROVE Shapes'
  <2>1. op' \in [Procs -> OpRecord]
    BY <1>0, <1>16, OpGoes DEF Refuse, Places
  <2>2. held' \in [Procs -> SUBSET Locks]
    BY <1>0, <1>16, LocksAre, NextIsUnused DEF Refuse, In, Put, Finish, Shapes, Equipped,
       OpEquipped, WithEntry, WithBoard, files, world, Appending
  <2>3. entry' \in [Entries -> EntryRecord]
    <3>1. op[p].entry \in Entries
      BY <1>0, <1>16 DEF Refuse, In, Equipped, OpEquipped, WithEntry
    <3>2. [entry[op[p].entry] EXCEPT !.status = "creation_rejected"] \in EntryRecord
      BY <1>0, <3>1, EntrySets DEF Statuses
    <3> QED
      BY <1>0, <1>16, <3>2, EntryPut DEF Refuse
  <2> QED
    BY <1>0, <2>1, <2>2, <2>3, <1>16, Names DEF Refuse, In, Put, Finish, Shapes, Equipped,
       OpEquipped, WithBoard, files, world, counts
<1>17. ASSUME NEW p \in Procs, Link(p) PROVE Shapes'
  <2>1. op' \in [Procs -> OpRecord]
    BY <1>0, <1>17, OpGoes DEF Link, Places
  <2>2. held' \in [Procs -> SUBSET Locks]
    BY <1>0, <1>17, LocksAre, NextIsUnused DEF Link, In, Put, Finish, Bound, Recoverable, Shapes,
       Equipped, OpEquipped, WithEntry, WithBoard, files, world, Appending
  <2>3. entry' \in [Entries -> EntryRecord]
    <3>1. op[p].board \in Boards /\ (op[p].entry # 0 => op[p].entry \in Entries)
      BY <1>0, <1>17 DEF Link, In, Equipped, OpEquipped, WithBoard
    <3>2. Bound(op[p].board, Unused) \in EntryRecord
      BY <3>1, Names DEF Bound, Unused, EntryRecord, Statuses
    <3>3. op[p].entry # 0 => Bound(op[p].board, entry[op[p].entry]) \in EntryRecord
      BY <1>0, <3>1, EntrySets DEF Bound, Statuses
    <3> QED
      BY <1>0, <1>17, <3>2, <3>3, EntryPut DEF Link, Shapes
  <2> QED
    BY <1>0, <2>1, <2>2, <2>3, <1>17, Names DEF Link, In, Put, Finish, Bound, Recoverable, Shapes,
       Equipped, OpEquipped, WithBoard, files, world, counts
<1>18. ASSUME NEW p \in Procs, Sync(p) PROVE Shapes'
  <2>1. op' \in [Procs -> OpRecord]
    <3>1. Finish(p) \/ \E b \in Boards \cup {None} : op' = [op EXCEPT ![p].pc = "mark", ![p].board = b]
      BY <1>0, <1>18 DEF Sync, CanSync, Shapes, EntryRecord
    <3>2. ASSUME NEW b \in Boards \cup {None} PROVE [op EXCEPT ![p].pc = "mark", ![p].board = b] \in [Procs -> OpRecord]
      BY <1>0, OpSets DEF Places
    <3> QED
      BY <1>0, <3>1, <3>2, OpGoes
  <2>2. held' \in [Procs -> SUBSET Locks]
    BY <1>0, <1>18, LocksAre, NextIsUnused DEF Sync, In, CanSync, Keep, Finish, Shapes, Equipped,
       OpEquipped, WithEntry, WithBoard, files, world, Appending
  <2>3. entry' \in [Entries -> EntryRecord]
    BY <1>0, <1>18, Names DEF Sync, In, CanSync, Keep, Finish, EntryRecord, Statuses, Shapes,
       Equipped, OpEquipped, WithBoard, WithPlot, Plots, files, Unused
  <2> QED
    BY <1>0, <2>1, <2>2, <2>3, <1>18, Names DEF Sync, In, CanSync, Keep, Finish, Shapes, Equipped,
       OpEquipped, WithBoard, files, world, counts
<1>19. ASSUME NEW p \in Procs, Mark(p) PROVE Shapes'
  <2>1. op' \in [Procs -> OpRecord]
    BY <1>0, <1>19, OpGoes DEF Mark, Places
  <2>2. held' \in [Procs -> SUBSET Locks]
    BY <1>0, <1>19, LocksAre, NextIsUnused DEF Mark, In, Put, Goto, Keep, Shapes, Equipped,
       OpEquipped, WithEntry, WithBoard, files, world, Appending
  <2>3. entry' \in [Entries -> EntryRecord]
    <3>1. op[p].entry \in Entries /\ op[p].plot \in Plots
      BY <1>0, <1>19 DEF Mark, In, Equipped, OpEquipped, WithEntry, WithPlot
    <3>2. [entry[op[p].entry] EXCEPT !.status = "syncing", !.plot = op[p].plot] \in EntryRecord
      BY <1>0, <3>1, EntrySets DEF Statuses
    <3> QED
      BY <1>0, <1>19, <3>2, EntryPut DEF Mark
  <2> QED
    BY <1>0, <2>1, <2>2, <2>3, <1>19, Names DEF Mark, In, Put, Goto, Keep, Shapes, Equipped,
       OpEquipped, WithBoard, files, world, counts
<1>20. ASSUME NEW p \in Procs, Write(p) PROVE Shapes'
  <2>1. op' \in [Procs -> OpRecord]
    BY <1>0, <1>20, OpGoes DEF Write, Places
  <2>2. held' \in [Procs -> SUBSET Locks]
    BY <1>0, <1>20, LocksAre, NextIsUnused DEF Write, Goto, Keep, Shapes, Equipped, OpEquipped,
       WithEntry, WithBoard, files, world, Appending
  <2>3. entry' \in [Entries -> EntryRecord]
    BY <1>0, <1>20, Names DEF Write, Goto, Keep, EntryRecord, Statuses, Shapes, Equipped,
       OpEquipped, WithBoard, WithPlot, Plots, files, Unused
  <2> QED
    BY <1>0, <2>1, <2>2, <2>3, <1>20, Names DEF Write, Goto, Keep, Shapes, Equipped, OpEquipped,
       WithBoard, files, world, counts
<1>21. ASSUME NEW p \in Procs, EndWrite(p) PROVE Shapes'
  <2>1. op' \in [Procs -> OpRecord]
    BY <1>0, <1>21, OpGoes DEF EndWrite, Places
  <2>2. held' \in [Procs -> SUBSET Locks]
    BY <1>0, <1>21, LocksAre, NextIsUnused DEF EndWrite, Goto, Keep, Shapes, Equipped, OpEquipped,
       WithEntry, WithBoard, files, world, Appending
  <2>3. entry' \in [Entries -> EntryRecord]
    BY <1>0, <1>21, Names DEF EndWrite, Goto, Keep, EntryRecord, Statuses, Shapes, Equipped,
       OpEquipped, WithBoard, WithPlot, Plots, files, Unused
  <2> QED
    BY <1>0, <2>1, <2>2, <2>3, <1>21, Names DEF EndWrite, Goto, Keep, Shapes, Equipped, OpEquipped,
       WithBoard, files, world, counts
<1>22. ASSUME NEW p \in Procs, Record(p) PROVE Shapes'
  <2>1. op' \in [Procs -> OpRecord]
    BY <1>0, <1>22, OpGoes DEF Record, Places
  <2>2. held' \in [Procs -> SUBSET Locks]
    BY <1>0, <1>22, LocksAre, NextIsUnused DEF Record, Put, Finish, Shapes, Equipped, OpEquipped,
       WithEntry, WithBoard, files, world, Appending
  <2>3. entry' \in [Entries -> EntryRecord]
    <3>1. op[p].entry \in Entries
      BY <1>0, <1>22 DEF Record, Equipped, OpEquipped, WithEntry
    <3>2. \A s \in Statuses : [entry[op[p].entry] EXCEPT !.status = s] \in EntryRecord
      BY <1>0, <3>1, EntrySets
    <3>3. (IF op[p].pc = "failed" THEN "sync_error" ELSE "synced") \in Statuses
      BY DEF Statuses
    <3> QED
      BY <1>0, <1>22, <3>2, <3>3, EntryPut DEF Record
  <2> QED
    BY <1>0, <2>1, <2>2, <2>3, <1>22, Names DEF Record, Put, Finish, Shapes, Equipped, OpEquipped,
       WithBoard, files, world, counts
<1>23. ASSUME NEW p \in Procs, Select(p) PROVE Shapes'
  <2>1. op' \in [Procs -> OpRecord]
    BY <1>0, <1>23, OpGoes DEF Select, Places
  <2>2. held' \in [Procs -> SUBSET Locks]
    BY <1>0, <1>23, LocksAre, NextIsUnused DEF Select, In, Goto, Keep, Finish, Shapes, Equipped,
       OpEquipped, WithEntry, WithBoard, files, world, Appending
  <2>3. entry' \in [Entries -> EntryRecord]
    BY <1>0, <1>23, Names DEF Select, In, Goto, Keep, Finish, EntryRecord, Statuses, Shapes,
       Equipped, OpEquipped, WithBoard, WithPlot, Plots, files, Unused
  <2> QED
    BY <1>0, <2>1, <2>2, <2>3, <1>23, Names DEF Select, In, Goto, Keep, Finish, Shapes, Equipped,
       OpEquipped, WithBoard, files, world, counts
<1>24. ASSUME NEW p \in Procs, Intend(p) PROVE Shapes'
  <2>1. op' \in [Procs -> OpRecord]
    <3>0. InDoubt(op[p].board) \in BOOLEAN
      BY DEF InDoubt
    <3>1. Finish(p) \/ \E d \in BOOLEAN : op' = [op EXCEPT ![p].pc = "send", ![p].doubt = d]
      BY <3>0, <1>24 DEF Intend
    <3>2. ASSUME NEW d \in BOOLEAN PROVE [op EXCEPT ![p].pc = "send", ![p].doubt = d] \in [Procs -> OpRecord]
      BY <1>0, OpSets DEF Places
    <3> QED
      BY <1>0, <3>1, <3>2, OpGoes
  <2>2. held' \in [Procs -> SUBSET Locks]
    BY <1>0, <1>24, LocksAre, NextIsUnused DEF Intend, Finish, Keep, InDoubt, Shapes, Equipped,
       OpEquipped, WithEntry, WithBoard, files, world, Appending
  <2>3. entry' \in [Entries -> EntryRecord]
    BY <1>0, <1>24, Names DEF Intend, Finish, Keep, InDoubt, EntryRecord, Statuses, Shapes,
       Equipped, OpEquipped, WithBoard, WithPlot, Plots, files, Unused
  <2> QED
    BY <1>0, <2>1, <2>2, <2>3, <1>24, Names DEF Intend, Finish, Keep, InDoubt, Unlinked, Shapes,
       Equipped, OpEquipped, WithBoard, files, world, counts
<1>25. ASSUME NEW p \in Procs, DeleteConfirmed(p) PROVE Shapes'
  <2>1. op' \in [Procs -> OpRecord]
    BY <1>0, <1>25, OpGoes DEF DeleteConfirmed, Places
  <2>2. held' \in [Procs -> SUBSET Locks]
    BY <1>0, <1>25, LocksAre, NextIsUnused DEF DeleteConfirmed, Gone, Goto, Shapes, Equipped,
       OpEquipped, WithEntry, WithBoard, files, world, Appending
  <2>3. entry' \in [Entries -> EntryRecord]
    BY <1>0, <1>25, Names DEF DeleteConfirmed, Gone, Goto, EntryRecord, Statuses, Shapes, Equipped,
       OpEquipped, WithBoard, WithPlot, Plots, files, Unused
  <2> QED
    BY <1>0, <2>1, <2>2, <2>3, <1>25, Names DEF DeleteConfirmed, Gone, Goto, Shapes, Equipped,
       OpEquipped, WithBoard, files, world, counts
<1>26. ASSUME NEW p \in Procs, Rejected(p) PROVE Shapes'
  <2>1. op' \in [Procs -> OpRecord]
    BY <1>0, <1>26, OpGoes DEF Rejected, Places
  <2>2. held' \in [Procs -> SUBSET Locks]
    BY <1>0, <1>26, LocksAre, NextIsUnused DEF Rejected, Finish, Shapes, Equipped, OpEquipped,
       WithEntry, WithBoard, files, world, Appending
  <2>3. entry' \in [Entries -> EntryRecord]
    BY <1>0, <1>26, Names DEF Rejected, Finish, EntryRecord, Statuses, Shapes, Equipped, OpEquipped,
       WithBoard, WithPlot, Plots, files, Unused
  <2> QED
    BY <1>0, <2>1, <2>2, <2>3, <1>26, Names DEF Rejected, Finish, Shapes, Equipped, OpEquipped,
       WithBoard, files, world, counts
<1>27. ASSUME NEW p \in Procs, Unanswered(p) PROVE Shapes'
  <2>1. op' \in [Procs -> OpRecord]
    BY <1>0, <1>27, OpGoes DEF Unanswered, Places
  <2>2. held' \in [Procs -> SUBSET Locks]
    BY <1>0, <1>27, LocksAre, NextIsUnused DEF Unanswered, Gone, Finish, Shapes, Equipped,
       OpEquipped, WithEntry, WithBoard, files, world, Appending
  <2>3. entry' \in [Entries -> EntryRecord]
    BY <1>0, <1>27, Names DEF Unanswered, Gone, Finish, EntryRecord, Statuses, Shapes, Equipped,
       OpEquipped, WithBoard, WithPlot, Plots, files, Unused
  <2> QED
    BY <1>0, <2>1, <2>2, <2>3, <1>27, Names DEF Unanswered, Gone, Finish, Shapes, Equipped,
       OpEquipped, WithBoard, files, world, counts
<1>28. ASSUME NEW p \in Procs, Unlink(p) PROVE Shapes'
  <2>1. op' \in [Procs -> OpRecord]
    BY <1>0, <1>28, OpGoes DEF Unlink, Places
  <2>2. held' \in [Procs -> SUBSET Locks]
    BY <1>0, <1>28, LocksAre, NextIsUnused DEF Unlink, Finish, Shapes, Equipped, OpEquipped,
       WithEntry, WithBoard, files, world, Appending
  <2>3. entry' \in [Entries -> EntryRecord]
    BY <1>0, <1>28, Names DEF Unlink, Finish, EntryRecord, Statuses, Shapes, Equipped, OpEquipped,
       WithBoard, WithPlot, Plots, files, Unused
  <2> QED
    BY <1>0, <2>1, <2>2, <2>3, <1>28, Names DEF Unlink, Finish, Unlinked, Shapes, Equipped,
       OpEquipped, WithBoard, files, world, counts
<1>29. ASSUME NEW p \in Procs, EndOther(p) PROVE Shapes'
  <2>1. op' \in [Procs -> OpRecord]
    BY <1>0, <1>29, OpGoes DEF EndOther, Places
  <2>2. held' \in [Procs -> SUBSET Locks]
    BY <1>0, <1>29, LocksAre, NextIsUnused DEF EndOther, Finish, Shapes, Equipped, OpEquipped,
       WithEntry, WithBoard, files, world, Appending
  <2>3. entry' \in [Entries -> EntryRecord]
    BY <1>0, <1>29, Names DEF EndOther, Finish, EntryRecord, Statuses, Shapes, Equipped, OpEquipped,
       WithBoard, WithPlot, Plots, files, Unused
  <2> QED
    BY <1>0, <2>1, <2>2, <2>3, <1>29, Names DEF EndOther, Finish, Shapes, Equipped, OpEquipped,
       WithBoard, files, world, counts
<1>30. ASSUME NEW p \in Procs, Fault(p) PROVE Shapes'
  <2>1. op' \in [Procs -> OpRecord]
    BY <1>0, <1>30, OpGoes DEF Fault, Places
  <2>2. held' \in [Procs -> SUBSET Locks]
    BY <1>0, <1>30, LocksAre, NextIsUnused DEF Fault, Gone, Finish, Shapes, Equipped, OpEquipped,
       WithEntry, WithBoard, files, world, Appending
  <2>3. entry' \in [Entries -> EntryRecord]
    BY <1>0, <1>30, Names DEF Fault, Gone, Finish, EntryRecord, Statuses, Shapes, Equipped,
       OpEquipped, WithBoard, WithPlot, Plots, files, Unused
  <2> QED
    BY <1>0, <2>1, <2>2, <2>3, <1>30, Names DEF Fault, Gone, Finish, Shapes, Equipped, OpEquipped,
       WithBoard, files, world, counts
<1>31. ASSUME NEW b \in Boards, LinkSetting(b) PROVE Shapes'
  BY <1>0, <1>31 DEF LinkSetting, Shapes, world
<1>32. ASSUME NEW b \in Boards, LateDelete(b) PROVE Shapes'
  BY <1>0, <1>32 DEF LateDelete, Shapes, files
<1>33. CASE UNCHANGED vars
  BY <1>0, <1>33 DEF vars, Shapes
<1> QED
  BY <1>1, <1>2, <1>3, <1>4, <1>5, <1>6, <1>7, <1>8, <1>9, <1>10, <1>11, <1>12, <1>13, 
     <1>14, <1>15, <1>16, <1>17, <1>18, <1>19, <1>20, <1>21, <1>22, <1>23, <1>24, 
     <1>25, <1>26, <1>27, <1>28, <1>29, <1>30, <1>31, <1>32, <1>33 DEF Next, Start, Step, Create, Publish, Delete


\* Writing to the registry uses the entry and no other.
LEMMA PutUses ==
  ASSUME Shapes, Blank, NEW e, NEW value, value.status # "unused", Put(e, value)
  PROVE  /\ Used \subseteq Used' /\ Used' \subseteq Used \cup {e} /\ Blank' /\ (e \in Entries => e \in Used')
BY DEF Shapes, Blank, Put, Used

\* An operation keeps what it has while others go on.
LEMMA OthersKeep ==
  ASSUME NEW q \in Procs, OpEquipped(q), op'[q] = op[q], Used \subseteq Used'
  PROVE  OpEquipped(q)'
BY DEF OpEquipped

\* A step of one operation equips all.
LEMMA Bystanders ==
  ASSUME Equipped, NEW p \in Procs, \A q \in Procs : q # p => op'[q] = op[q],
         Used \subseteq Used', Blank', OpEquipped(p)'
  PROVE  Equipped'
BY OthersKeep DEF Equipped

\* Every step leaves each operation what its place needs, and frees no entry.
LEMMA EquippedStep ==
  ASSUME ShapeInv, [Next]_vars
  PROVE  Equipped' /\ Used \subseteq Used'
<1>0. Shapes /\ Equipped /\ Roomy /\ Used \subseteq Entries /\ Entries \subseteq (0..MaxEntries) \ {0} /\ Blank
  BY EntriesFinite DEF ShapeInv, Used, Entries, Equipped
<1>1. ASSUME NEW p \in Procs, NEW q \in Fresh, StartGenerate(p, q)
      PROVE Equipped' /\ Used \subseteq Used'
  <2>1. Used \subseteq Used' /\ Blank'
    BY <1>0, <1>1 DEF StartGenerate, Begin, files, Used, Blank
  <2>2. \A r \in Procs : r # p => op'[r] = op[r]
    BY <1>0, <1>1 DEF StartGenerate, Begin, Shapes
  <2>3. OpEquipped(p)'
    BY <1>0, <2>1, <1>1, Names, NextIsUnused DEF StartGenerate, Begin, Shapes, Equipped, OpEquipped,
       WithEntry, WithBoard, WithPlot, Plots, Idle, OpRecord, EntryRecord, Used, Appending, files,
       world
  <2> QED
    BY <1>0, <2>1, <2>2, <2>3, Bystanders
<1>2. ASSUME NEW p \in Procs, NEW q \in Fresh, StartCreate(p, q)
      PROVE Equipped' /\ Used \subseteq Used'
  <2>1. Used \subseteq Used' /\ Blank'
    BY <1>0, <1>2 DEF StartCreate, Begin, files, Used, Blank
  <2>2. \A r \in Procs : r # p => op'[r] = op[r]
    BY <1>0, <1>2 DEF StartCreate, Begin, Shapes
  <2>3. OpEquipped(p)'
    BY <1>0, <2>1, <1>2, Names, NextIsUnused DEF StartCreate, Begin, Shapes, Equipped, OpEquipped,
       WithEntry, WithBoard, WithPlot, Plots, Idle, OpRecord, EntryRecord, Used, Appending, files,
       world
  <2> QED
    BY <1>0, <2>1, <2>2, <2>3, Bystanders
<1>3. ASSUME NEW p \in Procs, NEW e \in 0..MaxEntries, NEW b \in Boards, StartLink(p, e, b)
      PROVE Equipped' /\ Used \subseteq Used'
  <2>1. Used \subseteq Used' /\ Blank'
    BY <1>0, <1>3 DEF StartLink, Begin, Writable, files, Used, Blank
  <2>2. \A r \in Procs : r # p => op'[r] = op[r]
    BY <1>0, <1>3 DEF StartLink, Begin, Writable, Shapes
  <2>3. OpEquipped(p)'
    BY <1>0, <2>1, <1>3, Names, NextIsUnused DEF StartLink, Begin, Writable, Shapes, Equipped,
       OpEquipped, WithEntry, WithBoard, WithPlot, Plots, Idle, OpRecord, EntryRecord, Used,
       Appending, files, world
  <2> QED
    BY <1>0, <2>1, <2>2, <2>3, Bystanders
<1>4. ASSUME NEW p \in Procs, NEW e \in Entries, NEW q \in Plots, StartSync(p, e, q)
      PROVE Equipped' /\ Used \subseteq Used'
  <2>1. Used \subseteq Used' /\ Blank'
    BY <1>0, <1>4 DEF StartSync, Begin, files, Used, Blank
  <2>2. \A r \in Procs : r # p => op'[r] = op[r]
    BY <1>0, <1>4 DEF StartSync, Begin, Shapes
  <2>3. OpEquipped(p)'
    BY <1>0, <2>1, <1>4, Names, NextIsUnused DEF StartSync, Begin, Shapes, Equipped, OpEquipped,
       WithEntry, WithBoard, WithPlot, Plots, Idle, OpRecord, EntryRecord, Used, Appending, files,
       world
  <2> QED
    BY <1>0, <2>1, <2>2, <2>3, Bystanders
<1>5. ASSUME NEW p \in Procs, NEW e \in Entries, NEW q \in Updates, StartUpdate(p, e, q)
      PROVE Equipped' /\ Used \subseteq Used'
  <2>1. Used \subseteq Used' /\ Blank'
    BY <1>0, <1>5 DEF StartUpdate, Begin, CanSync, Keep, files, Used, Blank
  <2>2. \A r \in Procs : r # p => op'[r] = op[r]
    BY <1>0, <1>5 DEF StartUpdate, Begin, CanSync, Keep, Shapes
  <2>3. OpEquipped(p)'
    BY <1>0, <2>1, <1>5, Names, NextIsUnused DEF StartUpdate, Begin, CanSync, Keep, Shapes,
       Equipped, OpEquipped, WithEntry, WithBoard, WithPlot, Plots, Idle, OpRecord, EntryRecord,
       Used, Appending, files, world
  <2> QED
    BY <1>0, <2>1, <2>2, <2>3, Bystanders
<1>6. ASSUME NEW p \in Procs, NEW e \in Entries, StartDelete(p, e)
      PROVE Equipped' /\ Used \subseteq Used'
  <2>1. Used \subseteq Used' /\ Blank'
    BY <1>0, <1>6 DEF StartDelete, Begin, Keep, files, Used, Blank
  <2>2. \A r \in Procs : r # p => op'[r] = op[r]
    BY <1>0, <1>6 DEF StartDelete, Begin, Keep, Shapes
  <2>3. OpEquipped(p)'
    BY <1>0, <2>1, <1>6, Names, NextIsUnused DEF StartDelete, Begin, Keep, Shapes, Equipped,
       OpEquipped, WithEntry, WithBoard, WithPlot, Plots, Idle, OpRecord, EntryRecord, Used,
       Appending, files, world
  <2> QED
    BY <1>0, <2>1, <2>2, <2>3, Bystanders
<1>7. ASSUME NEW p \in Procs, NEW b \in Boards, StartOther(p, b)
      PROVE Equipped' /\ Used \subseteq Used'
  <2>1. Used \subseteq Used' /\ Blank'
    BY <1>0, <1>7 DEF StartOther, Begin, Keep, Writable, files, Used, Blank
  <2>2. \A r \in Procs : r # p => op'[r] = op[r]
    BY <1>0, <1>7 DEF StartOther, Begin, Keep, Writable, Shapes
  <2>3. OpEquipped(p)'
    BY <1>0, <2>1, <1>7, Names, NextIsUnused DEF StartOther, Begin, Keep, Writable, Shapes,
       Equipped, OpEquipped, WithEntry, WithBoard, WithPlot, Plots, Idle, OpRecord, EntryRecord,
       Used, Appending, files, world
  <2> QED
    BY <1>0, <2>1, <2>2, <2>3, Bystanders
<1>8. ASSUME NEW p \in Procs, Share(p) PROVE Equipped' /\ Used \subseteq Used'
  <2>1. Used \subseteq Used' /\ Blank'
    BY <1>0, <1>8 DEF Share, Sharing, Keep, Finish, files, Used, Blank
  <2>2. \A r \in Procs : r # p => op'[r] = op[r]
    BY <1>0, <1>8 DEF Share, Sharing, Keep, Finish, Shapes
  <2>3. OpEquipped(p)'
    BY <1>0, <2>1, <1>8, Names, NextIsUnused DEF Share, Sharing, Keep, Finish, Shapes, Equipped,
       OpEquipped, WithEntry, WithBoard, WithPlot, Plots, Idle, OpRecord, EntryRecord, Used,
       Appending, files, world
  <2> QED
    BY <1>0, <2>1, <2>2, <2>3, Bystanders
<1>9. ASSUME NEW p \in Procs, Enter(p) PROVE Equipped' /\ Used \subseteq Used'
  <2>1. Used \subseteq Used' /\ Blank'
    BY <1>0, <1>9 DEF Enter, Keep, Finish, files, Used, Blank
  <2>2. \A r \in Procs : r # p => op'[r] = op[r]
    BY <1>0, <1>9 DEF Enter, Keep, Finish, Shapes
  <2>3. OpEquipped(p)'
    BY <1>0, <2>1, <1>9, Names, NextIsUnused DEF Enter, Keep, Finish, Shapes, Equipped, OpEquipped,
       WithEntry, WithBoard, WithPlot, Plots, Idle, OpRecord, EntryRecord, Used, Appending, files,
       world
  <2> QED
    BY <1>0, <2>1, <2>2, <2>3, Bystanders
<1>10. ASSUME NEW p \in Procs, Check(p) PROVE Equipped' /\ Used \subseteq Used'
  <2>1. Used \subseteq Used' /\ Blank'
    BY <1>0, <1>10 DEF Check, In, Goto, Keep, Finish, files, Used, Blank
  <2>2. \A r \in Procs : r # p => op'[r] = op[r]
    BY <1>0, <1>10 DEF Check, In, Goto, Keep, Finish, Shapes
  <2>3. OpEquipped(p)'
    BY <1>0, <2>1, <1>10, Names, NextIsUnused DEF Check, In, Goto, Keep, Finish, Shapes, Equipped,
       OpEquipped, WithEntry, WithBoard, WithPlot, Plots, Idle, OpRecord, EntryRecord, Used,
       Appending, files, world
  <2> QED
    BY <1>0, <2>1, <2>2, <2>3, Bystanders
<1>11. ASSUME NEW p \in Procs, CreateNew(p) PROVE Equipped' /\ Used \subseteq Used'
  <2>1. Used \subseteq Used' /\ Blank'
    BY <1>0, <1>11, PutUses DEF CreateNew, In, Post, Keep, Intent, Earlier, Statuses, files, Blank,
       Used, Shapes, EntryRecord
  <2>2. \A r \in Procs : r # p => op'[r] = op[r]
    BY <1>0, <1>11 DEF CreateNew, In, Post, Put, Keep, Intent, Earlier, Shapes
  <2>3. OpEquipped(p)'
    <3>1. NextEntry \in Entries /\ op[p].plot \in Fresh /\ op[p] \in OpRecord
      BY <1>0, <1>11, NextIsUnused DEF CreateNew, In, Appending, Equipped, OpEquipped, Shapes
    <3>2. op'[p] = [op[p] EXCEPT !.pc = "post", !.entry = NextEntry]
      BY <1>0, <1>11 DEF CreateNew, Post, Shapes
    <3>3. entry' = [entry EXCEPT ![NextEntry] = Intent(op[p].plot)]
      BY <1>11 DEF CreateNew, Post, Put
    <3>4. NextEntry \in Used'
      BY <1>0, <3>1, <3>3 DEF Intent, Used, Shapes
    <3>5. op'[p].pc = "post" /\ op'[p].entry = NextEntry /\ op'[p].plot = op[p].plot
      BY <3>1, <3>2 DEF OpRecord
    <3> QED
      BY <3>1, <3>4, <3>5 DEF OpEquipped, WithEntry, WithBoard, WithPlot, Plots
  <2> QED
    BY <1>0, <2>1, <2>2, <2>3, Bystanders
<1>12. ASSUME NEW p \in Procs, CreateAgain(p) PROVE Equipped' /\ Used \subseteq Used'
  <2>1. Used \subseteq Used' /\ Blank'
    BY <1>0, <1>12, PutUses DEF CreateAgain, In, Post, Keep, Intent, Finish, Earlier, CanSync,
       Statuses, files, Blank, Used, Shapes, EntryRecord
  <2>2. \A r \in Procs : r # p => op'[r] = op[r]
    BY <1>0, <1>12 DEF CreateAgain, In, Post, Put, Keep, Intent, Finish, Earlier, CanSync, Shapes
  <2>3. OpEquipped(p)'
    BY <1>0, <2>1, <1>12, Names, NextIsUnused DEF CreateAgain, In, Post, Put, Keep, Intent, Finish,
       Earlier, CanSync, Shapes, Equipped, OpEquipped, WithEntry, WithBoard, WithPlot, Plots, Idle,
       OpRecord, EntryRecord, Used, Appending, files, world
  <2> QED
    BY <1>0, <2>1, <2>2, <2>3, Bystanders
<1>13. ASSUME NEW p \in Procs, PostAnswered(p) PROVE Equipped' /\ Used \subseteq Used'
  <2>1. Used \subseteq Used' /\ Blank'
    BY <1>0, <1>13 DEF PostAnswered, Made, Goto, files, Used, Blank
  <2>2. \A r \in Procs : r # p => op'[r] = op[r]
    BY <1>0, <1>13 DEF PostAnswered, Made, Goto, Shapes
  <2>3. OpEquipped(p)'
    BY <1>0, <2>1, <1>13, Names, NextIsUnused DEF PostAnswered, Made, Goto, Shapes, Equipped,
       OpEquipped, WithEntry, WithBoard, WithPlot, Plots, Idle, OpRecord, EntryRecord, Used,
       Appending, files, world
  <2> QED
    BY <1>0, <2>1, <2>2, <2>3, Bystanders
<1>14. ASSUME NEW p \in Procs, PostLost(p) PROVE Equipped' /\ Used \subseteq Used'
  <2>1. Used \subseteq Used' /\ Blank'
    BY <1>0, <1>14 DEF PostLost, Made, Finish, files, Used, Blank
  <2>2. \A r \in Procs : r # p => op'[r] = op[r]
    BY <1>0, <1>14 DEF PostLost, Made, Finish, Shapes
  <2>3. OpEquipped(p)'
    BY <1>0, <2>1, <1>14, Names, NextIsUnused DEF PostLost, Made, Finish, Shapes, Equipped,
       OpEquipped, WithEntry, WithBoard, WithPlot, Plots, Idle, OpRecord, EntryRecord, Used,
       Appending, files, world
  <2> QED
    BY <1>0, <2>1, <2>2, <2>3, Bystanders
<1>15. ASSUME NEW p \in Procs, Acknowledge(p) PROVE Equipped' /\ Used \subseteq Used'
  <2>1. Used \subseteq Used' /\ Blank'
    <3>1. op[p].entry \in Entries /\ op[p].board \in Boards
      BY <1>0, <1>15 DEF Acknowledge, In, Equipped, OpEquipped, WithEntry, WithBoard, WithPlot
    <3>2. ([entry[op[p].entry] EXCEPT !.board = op[p].board, !.status = "linked"]).status # "unused"
      BY <1>0, <3>1 DEF Shapes, EntryRecord, Statuses, Bound
    <3> QED
      BY <1>0, <3>2, <1>15, PutUses DEF Acknowledge, Used, Blank
  <2>2. \A r \in Procs : r # p => op'[r] = op[r]
    BY <1>0, <1>15 DEF Acknowledge, In, Put, Goto, Keep, Finish, Shapes
  <2>3. OpEquipped(p)'
    <3>1. OpEquipped(p) /\ Idle.pc = "idle"
      BY <1>0 DEF Equipped, Idle
    <3>2. op[p].pc = "acknowledge" /\ (Finish(p) \/ Goto(p, "sync")) /\ op[p].plot \in Plots
      BY <1>0, <3>1, <1>15 DEF Acknowledge, In, OpEquipped, Plots
    <3> QED
      BY <1>0, <2>1, <3>1, <3>2, OpGoes DEF OpEquipped, WithEntry, WithBoard, WithPlot, Places
  <2> QED
    BY <1>0, <2>1, <2>2, <2>3, Bystanders
<1>16. ASSUME NEW p \in Procs, Refuse(p) PROVE Equipped' /\ Used \subseteq Used'
  <2>1. Used \subseteq Used' /\ Blank'
    <3>1. op[p].entry \in Entries
      BY <1>0, <1>16 DEF Refuse, In, Equipped, OpEquipped, WithEntry, WithBoard, WithPlot
    <3>2. ([entry[op[p].entry] EXCEPT !.status = "creation_rejected"]).status # "unused"
      BY <1>0, <3>1 DEF Shapes, EntryRecord, Statuses, Bound
    <3> QED
      BY <1>0, <3>2, <1>16, PutUses DEF Refuse, Used, Blank
  <2>2. \A r \in Procs : r # p => op'[r] = op[r]
    BY <1>0, <1>16 DEF Refuse, In, Put, Finish, Shapes
  <2>3. OpEquipped(p)'
    BY <1>0, <2>1, <1>16, Names, NextIsUnused DEF Refuse, In, Put, Finish, Shapes, Equipped,
       OpEquipped, WithEntry, WithBoard, WithPlot, Plots, Idle, OpRecord, EntryRecord, Used,
       Appending, files, world
  <2> QED
    BY <1>0, <2>1, <2>2, <2>3, Bystanders
<1>17. ASSUME NEW p \in Procs, Link(p) PROVE Equipped' /\ Used \subseteq Used'
  <2>1. Used \subseteq Used' /\ Blank'
    <3>1. op[p].board \in Boards /\ (op[p].entry # 0 => op[p].entry \in Entries)
      BY <1>0, <1>17 DEF Link, In, Equipped, OpEquipped, WithEntry, WithBoard, WithPlot
    <3>2. op[p].entry # 0 => (Bound(op[p].board, entry[op[p].entry])).status # "unused"
      BY <1>0, <3>1 DEF Shapes, EntryRecord, Statuses, Bound
    <3>3. Bound(op[p].board, Unused).status # "unused"
      BY DEF Bound, Unused
    <3> QED
      BY <1>0, <3>2, <3>3, <1>17, PutUses DEF Link, Used, Blank
  <2>2. \A r \in Procs : r # p => op'[r] = op[r]
    BY <1>0, <1>17 DEF Link, In, Put, Finish, Bound, Recoverable, Shapes
  <2>3. OpEquipped(p)'
    BY <1>0, <2>1, <1>17, Names, NextIsUnused DEF Link, In, Put, Finish, Bound, Recoverable, Shapes,
       Equipped, OpEquipped, WithEntry, WithBoard, WithPlot, Plots, Idle, OpRecord, EntryRecord,
       Used, Appending, files, world
  <2> QED
    BY <1>0, <2>1, <2>2, <2>3, Bystanders
<1>18. ASSUME NEW p \in Procs, Sync(p) PROVE Equipped' /\ Used \subseteq Used'
  <2>1. Used \subseteq Used' /\ Blank'
    BY <1>0, <1>18 DEF Sync, In, CanSync, Keep, Finish, files, Used, Blank
  <2>2. \A r \in Procs : r # p => op'[r] = op[r]
    BY <1>0, <1>18 DEF Sync, In, CanSync, Keep, Finish, Shapes
  <2>3. OpEquipped(p)'
    BY <1>0, <2>1, <1>18, Names, NextIsUnused DEF Sync, In, CanSync, Keep, Finish, Shapes, Equipped,
       OpEquipped, WithEntry, WithBoard, WithPlot, Plots, Idle, OpRecord, EntryRecord, Used,
       Appending, files, world
  <2> QED
    BY <1>0, <2>1, <2>2, <2>3, Bystanders
<1>19. ASSUME NEW p \in Procs, Mark(p) PROVE Equipped' /\ Used \subseteq Used'
  <2>1. Used \subseteq Used' /\ Blank'
    <3>1. op[p].entry \in Entries /\ op[p].plot \in Plots
      BY <1>0, <1>19 DEF Mark, In, Equipped, OpEquipped, WithEntry, WithBoard, WithPlot
    <3>2. ([entry[op[p].entry] EXCEPT !.status = "syncing", !.plot = op[p].plot]).status # "unused"
      BY <1>0, <3>1 DEF Shapes, EntryRecord, Statuses, Bound
    <3> QED
      BY <1>0, <3>2, <1>19, PutUses DEF Mark, Used, Blank
  <2>2. \A r \in Procs : r # p => op'[r] = op[r]
    BY <1>0, <1>19 DEF Mark, In, Put, Goto, Keep, Shapes
  <2>3. OpEquipped(p)'
    BY <1>0, <2>1, <1>19, Names, NextIsUnused DEF Mark, In, Put, Goto, Keep, Shapes, Equipped,
       OpEquipped, WithEntry, WithBoard, WithPlot, Plots, Idle, OpRecord, EntryRecord, Used,
       Appending, files, world
  <2> QED
    BY <1>0, <2>1, <2>2, <2>3, Bystanders
<1>20. ASSUME NEW p \in Procs, Write(p) PROVE Equipped' /\ Used \subseteq Used'
  <2>1. Used \subseteq Used' /\ Blank'
    BY <1>0, <1>20 DEF Write, Goto, Keep, files, Used, Blank
  <2>2. \A r \in Procs : r # p => op'[r] = op[r]
    BY <1>0, <1>20 DEF Write, Goto, Keep, Shapes
  <2>3. OpEquipped(p)'
    <3>1. OpEquipped(p) /\ Idle.pc = "idle"
      BY <1>0 DEF Equipped, Idle
    <3> QED
      BY <1>0, <2>1, <3>1, <1>20, OpGoes DEF Write, Keep, OpEquipped, WithEntry, WithBoard,
         WithPlot, Places
  <2> QED
    BY <1>0, <2>1, <2>2, <2>3, Bystanders
<1>21. ASSUME NEW p \in Procs, EndWrite(p) PROVE Equipped' /\ Used \subseteq Used'
  <2>1. Used \subseteq Used' /\ Blank'
    BY <1>0, <1>21 DEF EndWrite, Goto, Keep, files, Used, Blank
  <2>2. \A r \in Procs : r # p => op'[r] = op[r]
    BY <1>0, <1>21 DEF EndWrite, Goto, Keep, Shapes
  <2>3. OpEquipped(p)'
    <3>1. OpEquipped(p) /\ Idle.pc = "idle"
      BY <1>0 DEF Equipped, Idle
    <3> QED
      BY <1>0, <2>1, <3>1, <1>21, OpGoes DEF EndWrite, Keep, OpEquipped, WithEntry, WithBoard,
         WithPlot, Places
  <2> QED
    BY <1>0, <2>1, <2>2, <2>3, Bystanders
<1>22. ASSUME NEW p \in Procs, Record(p) PROVE Equipped' /\ Used \subseteq Used'
  <2>1. Used \subseteq Used' /\ Blank'
    <3>1. op[p].entry \in Entries
      BY <1>0, <1>22 DEF Record, In, Equipped, OpEquipped, WithEntry, WithBoard, WithPlot
    <3>2. ([entry[op[p].entry] EXCEPT !.status = IF op[p].pc = "failed" THEN "sync_error" ELSE "synced"]).status # "unused"
      BY <1>0, <3>1 DEF Shapes, EntryRecord, Statuses, Bound
    <3> QED
      BY <1>0, <3>2, <1>22, PutUses DEF Record, Used, Blank
  <2>2. \A r \in Procs : r # p => op'[r] = op[r]
    BY <1>0, <1>22 DEF Record, Put, Finish, Shapes
  <2>3. OpEquipped(p)'
    BY <1>0, <2>1, <1>22, Names, NextIsUnused DEF Record, Put, Finish, Shapes, Equipped, OpEquipped,
       WithEntry, WithBoard, WithPlot, Plots, Idle, OpRecord, EntryRecord, Used, Appending, files,
       world
  <2> QED
    BY <1>0, <2>1, <2>2, <2>3, Bystanders
<1>23. ASSUME NEW p \in Procs, Select(p) PROVE Equipped' /\ Used \subseteq Used'
  <2>1. Used \subseteq Used' /\ Blank'
    BY <1>0, <1>23 DEF Select, In, Goto, Keep, Finish, files, Used, Blank
  <2>2. \A r \in Procs : r # p => op'[r] = op[r]
    BY <1>0, <1>23 DEF Select, In, Goto, Keep, Finish, Shapes
  <2>3. OpEquipped(p)'
    <3>1. OpEquipped(p) /\ Idle.pc = "idle"
      BY <1>0 DEF Equipped, Idle
    <3> QED
      BY <1>0, <2>1, <3>1, <1>23, OpGoes DEF Select, In, Keep, OpEquipped, WithEntry, WithBoard,
         WithPlot, Places
  <2> QED
    BY <1>0, <2>1, <2>2, <2>3, Bystanders
<1>24. ASSUME NEW p \in Procs, Intend(p) PROVE Equipped' /\ Used \subseteq Used'
  <2>1. Used \subseteq Used' /\ Blank'
    BY <1>0, <1>24 DEF Intend, Finish, Keep, InDoubt, files, Used, Blank
  <2>2. \A r \in Procs : r # p => op'[r] = op[r]
    BY <1>0, <1>24 DEF Intend, Finish, Keep, InDoubt, Shapes
  <2>3. OpEquipped(p)'
    BY <1>0, <2>1, <1>24, Names, NextIsUnused DEF Intend, Finish, Keep, InDoubt, Shapes, Equipped,
       OpEquipped, WithEntry, WithBoard, WithPlot, Plots, Idle, OpRecord, EntryRecord, Used,
       Appending, files, world
  <2> QED
    BY <1>0, <2>1, <2>2, <2>3, Bystanders
<1>25. ASSUME NEW p \in Procs, DeleteConfirmed(p) PROVE Equipped' /\ Used \subseteq Used'
  <2>1. Used \subseteq Used' /\ Blank'
    BY <1>0, <1>25 DEF DeleteConfirmed, Gone, Goto, files, Used, Blank
  <2>2. \A r \in Procs : r # p => op'[r] = op[r]
    BY <1>0, <1>25 DEF DeleteConfirmed, Gone, Goto, Shapes
  <2>3. OpEquipped(p)'
    BY <1>0, <2>1, <1>25, Names, NextIsUnused DEF DeleteConfirmed, Gone, Goto, Shapes, Equipped,
       OpEquipped, WithEntry, WithBoard, WithPlot, Plots, Idle, OpRecord, EntryRecord, Used,
       Appending, files, world
  <2> QED
    BY <1>0, <2>1, <2>2, <2>3, Bystanders
<1>26. ASSUME NEW p \in Procs, Rejected(p) PROVE Equipped' /\ Used \subseteq Used'
  <2>1. Used \subseteq Used' /\ Blank'
    BY <1>0, <1>26 DEF Rejected, Finish, files, Used, Blank
  <2>2. \A r \in Procs : r # p => op'[r] = op[r]
    BY <1>0, <1>26 DEF Rejected, Finish, Shapes
  <2>3. OpEquipped(p)'
    BY <1>0, <2>1, <1>26, Names, NextIsUnused DEF Rejected, Finish, Shapes, Equipped, OpEquipped,
       WithEntry, WithBoard, WithPlot, Plots, Idle, OpRecord, EntryRecord, Used, Appending, files,
       world
  <2> QED
    BY <1>0, <2>1, <2>2, <2>3, Bystanders
<1>27. ASSUME NEW p \in Procs, Unanswered(p) PROVE Equipped' /\ Used \subseteq Used'
  <2>1. Used \subseteq Used' /\ Blank'
    BY <1>0, <1>27 DEF Unanswered, Gone, Finish, files, Used, Blank
  <2>2. \A r \in Procs : r # p => op'[r] = op[r]
    BY <1>0, <1>27 DEF Unanswered, Gone, Finish, Shapes
  <2>3. OpEquipped(p)'
    BY <1>0, <2>1, <1>27, Names, NextIsUnused DEF Unanswered, Gone, Finish, Shapes, Equipped,
       OpEquipped, WithEntry, WithBoard, WithPlot, Plots, Idle, OpRecord, EntryRecord, Used,
       Appending, files, world
  <2> QED
    BY <1>0, <2>1, <2>2, <2>3, Bystanders
<1>28. ASSUME NEW p \in Procs, Unlink(p) PROVE Equipped' /\ Used \subseteq Used'
  <2>1. Used \subseteq Used' /\ Blank'
    BY <1>0, <1>28 DEF Unlink, Finish, files, Used, Blank
  <2>2. \A r \in Procs : r # p => op'[r] = op[r]
    BY <1>0, <1>28 DEF Unlink, Finish, Shapes
  <2>3. OpEquipped(p)'
    BY <1>0, <2>1, <1>28, Names, NextIsUnused DEF Unlink, Finish, Shapes, Equipped, OpEquipped,
       WithEntry, WithBoard, WithPlot, Plots, Idle, OpRecord, EntryRecord, Used, Appending, files,
       world
  <2> QED
    BY <1>0, <2>1, <2>2, <2>3, Bystanders
<1>29. ASSUME NEW p \in Procs, EndOther(p) PROVE Equipped' /\ Used \subseteq Used'
  <2>1. Used \subseteq Used' /\ Blank'
    BY <1>0, <1>29 DEF EndOther, Finish, files, Used, Blank
  <2>2. \A r \in Procs : r # p => op'[r] = op[r]
    BY <1>0, <1>29 DEF EndOther, Finish, Shapes
  <2>3. OpEquipped(p)'
    BY <1>0, <2>1, <1>29, Names, NextIsUnused DEF EndOther, Finish, Shapes, Equipped, OpEquipped,
       WithEntry, WithBoard, WithPlot, Plots, Idle, OpRecord, EntryRecord, Used, Appending, files,
       world
  <2> QED
    BY <1>0, <2>1, <2>2, <2>3, Bystanders
<1>30. ASSUME NEW p \in Procs, Fault(p) PROVE Equipped' /\ Used \subseteq Used'
  <2>1. Used \subseteq Used' /\ Blank'
    BY <1>0, <1>30 DEF Fault, Gone, Finish, files, Used, Blank
  <2>2. \A r \in Procs : r # p => op'[r] = op[r]
    BY <1>0, <1>30 DEF Fault, Gone, Finish, Shapes
  <2>3. OpEquipped(p)'
    BY <1>0, <2>1, <1>30, Names, NextIsUnused DEF Fault, Gone, Finish, Shapes, Equipped, OpEquipped,
       WithEntry, WithBoard, WithPlot, Plots, Idle, OpRecord, EntryRecord, Used, Appending, files,
       world
  <2> QED
    BY <1>0, <2>1, <2>2, <2>3, Bystanders
<1>31. ASSUME NEW b \in Boards, LinkSetting(b) PROVE Equipped' /\ Used \subseteq Used'
  BY <1>0, <1>31 DEF LinkSetting, Equipped, OpEquipped, Used, Blank
<1>32. ASSUME NEW b \in Boards, LateDelete(b) PROVE Equipped' /\ Used \subseteq Used'
  BY <1>0, <1>32 DEF LateDelete, Equipped, OpEquipped, Used, Blank, files
<1>33. CASE UNCHANGED vars
  BY <1>0, <1>33 DEF vars, Equipped, OpEquipped, Used, Blank
<1> QED
  BY <1>1, <1>2, <1>3, <1>4, <1>5, <1>6, <1>7, <1>8, <1>9, <1>10, <1>11, <1>12, <1>13, 
     <1>14, <1>15, <1>16, <1>17, <1>18, <1>19, <1>20, <1>21, <1>22, <1>23, <1>24, 
     <1>25, <1>26, <1>27, <1>28, <1>29, <1>30, <1>31, <1>32, <1>33 DEF Next, Start, Step, Create, Publish, Delete

\* How the room changes: not at all, by an entry appended, by an operation that
\* is let in.
\* No entry is appended and nobody begins to append one.
LEMMA RoomKept ==
  ASSUME Roomy, Used' = Used, Appending' \subseteq Appending
  PROVE  Roomy'
<1>1. Cardinality(Appending') <= Cardinality(Appending) /\ Cardinality(Appending') \in Nat
  BY CountsAreNat, FS_Subset, FS_CardinalityType
<1> QED
  BY <1>1, CountsAreNat, EntriesFinite DEF Roomy

\* An operation that appends its entry gives its place up.
LEMMA RoomTaken ==
  ASSUME Roomy, NEW p \in Appending, NEW e, Used' \subseteq Used \cup {e}, Appending' \subseteq Appending \ {p}
  PROVE  Roomy'
<1>1. /\ IsFiniteSet(Appending \ {p}) /\ Cardinality(Appending \ {p}) = Cardinality(Appending) - 1
  BY CountsAreNat, FS_RemoveElement
<1>2. /\ IsFiniteSet(Used \cup {e}) /\ Cardinality(Used \cup {e}) \in Nat
      /\ Cardinality(Used \cup {e}) <= Cardinality(Used) + 1
  <2>1. IsFiniteSet(Used \cup {e}) /\ (Cardinality(Used \cup {e}) = Cardinality(Used) \/ Cardinality(Used \cup {e}) = Cardinality(Used) + 1)
    BY CountsAreNat, FS_AddElement, Zenon
  <2> QED
    BY <2>1, CountsAreNat
<1>3. /\ Cardinality(Appending') <= Cardinality(Appending \ {p}) /\ Cardinality(Appending') \in Nat
      /\ Cardinality(Used') <= Cardinality(Used \cup {e}) /\ Cardinality(Used') \in Nat
  BY <1>1, <1>2, FS_Subset, FS_CardinalityType
<1> QED
  BY <1>1, <1>2, <1>3, CountsAreNat, EntriesFinite DEF Roomy

\* An operation begins to append when there is room.
LEMMA RoomGiven ==
  ASSUME Room, NEW p \in Procs, Used' = Used, Appending' \subseteq Appending \cup {p}
  PROVE  Roomy'
<1>1. /\ IsFiniteSet(Appending \cup {p}) /\ Cardinality(Appending \cup {p}) \in Nat
      /\ Cardinality(Appending \cup {p}) <= Cardinality(Appending) + 1
  <2>1. IsFiniteSet(Appending \cup {p}) /\ (Cardinality(Appending \cup {p}) = Cardinality(Appending) \/ Cardinality(Appending \cup {p}) = Cardinality(Appending) + 1)
    BY CountsAreNat, FS_AddElement, Zenon
  <2> QED
    BY <2>1, CountsAreNat
<1>2. Cardinality(Appending') <= Cardinality(Appending \cup {p}) /\ Cardinality(Appending') \in Nat
  BY <1>1, FS_Subset, FS_CardinalityType
<1> QED
  BY <1>1, <1>2, CountsAreNat, EntriesFinite DEF Roomy, Room

\* A step of one operation changes only whether it appends.
LEMMA AppendingOf ==
  ASSUME NEW p \in Procs, \A r \in Procs : r # p => op'[r] = op[r]
  PROVE  /\ Appending' \subseteq Appending \cup {p}
         /\ p \notin Appending' => Appending' \subseteq Appending \ {p}
         /\ p \in Appending => Appending' \subseteq Appending
BY DEF Appending

\* Every step leaves room for the entries that running operations append.
LEMMA RoomyStep ==
  ASSUME ShapeInv, [Next]_vars
  PROVE  Roomy'
<1>0. Shapes /\ Equipped /\ Roomy /\ Used \subseteq Entries /\ Entries \subseteq (0..MaxEntries) \ {0} /\ Blank
  BY EntriesFinite DEF ShapeInv, Used, Entries, Equipped
<1>1. ASSUME NEW p \in Procs, NEW q \in Fresh, StartGenerate(p, q) PROVE Roomy'
  <2>1. Used' = Used
    BY <1>0, <1>1 DEF StartGenerate, Begin, files, Used
  <2>2. \A r \in Procs : r # p => op'[r] = op[r]
    BY <1>0, <1>1 DEF StartGenerate, Begin, Shapes
  <2> QED
    BY <2>1, <2>2, <1>1, AppendingOf, RoomGiven DEF StartGenerate
<1>2. ASSUME NEW p \in Procs, NEW q \in Fresh, StartCreate(p, q) PROVE Roomy'
  <2>1. Used' = Used
    BY <1>0, <1>2 DEF StartCreate, Begin, files, Used
  <2>2. \A r \in Procs : r # p => op'[r] = op[r]
    BY <1>0, <1>2 DEF StartCreate, Begin, Shapes
  <2> QED
    BY <2>1, <2>2, <1>2, AppendingOf, RoomGiven DEF StartCreate
<1>3. ASSUME NEW p \in Procs, NEW e \in 0..MaxEntries, NEW b \in Boards, StartLink(p, e, b)
      PROVE Roomy'
  <2>1. Used' = Used
    BY <1>0, <1>3 DEF StartLink, Begin, Writable, files, Used
  <2>2. \A r \in Procs : r # p => op'[r] = op[r]
    BY <1>0, <1>3 DEF StartLink, Begin, Writable, Shapes
  <2>3. e # 0 => p \notin Appending'
    BY <1>0, <1>3 DEF StartLink, Begin, Shapes, OpRecord, Appending, Idle
  <2> QED
    BY <1>0, <2>1, <2>2, <2>3, <1>3, AppendingOf, RoomKept, RoomGiven DEF StartLink
<1>4. ASSUME NEW p \in Procs, NEW e \in Entries, NEW q \in Plots, StartSync(p, e, q) PROVE Roomy'
  <2>1. Used' = Used
    BY <1>0, <1>4 DEF StartSync, Begin, files, Used
  <2>2. \A r \in Procs : r # p => op'[r] = op[r]
    BY <1>0, <1>4 DEF StartSync, Begin, Shapes
  <2>3. p \notin Appending'
    BY <1>0, <1>4, Names DEF StartSync, Begin, Shapes, OpRecord, Appending, Idle
  <2> QED
    BY <1>0, <2>1, <2>2, <2>3, AppendingOf, RoomKept
<1>5. ASSUME NEW p \in Procs, NEW e \in Entries, NEW q \in Updates, StartUpdate(p, e, q)
      PROVE Roomy'
  <2>1. Used' = Used
    BY <1>0, <1>5 DEF StartUpdate, Begin, CanSync, Keep, files, Used
  <2>2. \A r \in Procs : r # p => op'[r] = op[r]
    BY <1>0, <1>5 DEF StartUpdate, Begin, CanSync, Keep, Shapes
  <2>3. p \notin Appending'
    BY <1>0, <1>5, Names DEF StartUpdate, Begin, CanSync, Keep, Shapes, OpRecord, Appending, Idle
  <2> QED
    BY <1>0, <2>1, <2>2, <2>3, AppendingOf, RoomKept
<1>6. ASSUME NEW p \in Procs, NEW e \in Entries, StartDelete(p, e) PROVE Roomy'
  <2>1. Used' = Used
    BY <1>0, <1>6 DEF StartDelete, Begin, Keep, files, Used
  <2>2. \A r \in Procs : r # p => op'[r] = op[r]
    BY <1>0, <1>6 DEF StartDelete, Begin, Keep, Shapes
  <2>3. p \notin Appending'
    BY <1>0, <1>6, Names DEF StartDelete, Begin, Keep, Shapes, OpRecord, Appending, Idle
  <2> QED
    BY <1>0, <2>1, <2>2, <2>3, AppendingOf, RoomKept
<1>7. ASSUME NEW p \in Procs, NEW b \in Boards, StartOther(p, b) PROVE Roomy'
  <2>1. Used' = Used
    BY <1>0, <1>7 DEF StartOther, Begin, Keep, Writable, files, Used
  <2>2. \A r \in Procs : r # p => op'[r] = op[r]
    BY <1>0, <1>7 DEF StartOther, Begin, Keep, Writable, Shapes
  <2>3. p \notin Appending'
    BY <1>0, <1>7, Names DEF StartOther, Begin, Keep, Writable, Shapes, OpRecord, Appending, Idle
  <2> QED
    BY <1>0, <2>1, <2>2, <2>3, AppendingOf, RoomKept
<1>8. ASSUME NEW p \in Procs, Share(p) PROVE Roomy'
  <2>1. Used' = Used
    BY <1>0, <1>8 DEF Share, Sharing, Keep, Finish, files, Used
  <2>2. \A r \in Procs : r # p => op'[r] = op[r]
    BY <1>0, <1>8 DEF Share, Sharing, Keep, Finish, Shapes
  <2>3. op' = op \/ p \notin Appending'
    BY <1>0, <1>8 DEF Share, Sharing, Keep, Finish, Shapes, OpRecord, Appending, Idle
  <2>4. op' = op => Appending' = Appending
    BY DEF Appending
  <2> QED
    BY <1>0, <2>1, <2>2, <2>3, <2>4, AppendingOf, RoomKept
<1>9. ASSUME NEW p \in Procs, Enter(p) PROVE Roomy'
  <2>1. Used' = Used
    BY <1>0, <1>9 DEF Enter, Keep, Finish, files, Used
  <2>2. \A r \in Procs : r # p => op'[r] = op[r]
    BY <1>0, <1>9 DEF Enter, Keep, Finish, Shapes
  <2>3. op' = op \/ p \notin Appending'
    BY <1>0, <1>9 DEF Enter, Keep, Finish, Shapes, OpRecord, Appending, Idle
  <2>4. op' = op => Appending' = Appending
    BY DEF Appending
  <2> QED
    BY <1>0, <2>1, <2>2, <2>3, <2>4, AppendingOf, RoomKept
<1>10. ASSUME NEW p \in Procs, Check(p) PROVE Roomy'
  <2>1. Used' = Used
    BY <1>0, <1>10 DEF Check, In, Goto, Keep, Finish, files, Used
  <2>2. \A r \in Procs : r # p => op'[r] = op[r]
    BY <1>0, <1>10 DEF Check, In, Goto, Keep, Finish, Shapes
  <2>3. p \in Appending
    BY <1>10 DEF Check, In, Appending
  <2> QED
    BY <1>0, <2>1, <2>2, <2>3, AppendingOf, RoomKept
<1>11. ASSUME NEW p \in Procs, CreateNew(p) PROVE Roomy'
  <2>1. \A r \in Procs : r # p => op'[r] = op[r]
    BY <1>0, <1>11 DEF CreateNew, In, Post, Put, Keep, Intent, Earlier, Shapes
  <2>2. p \in Appending /\ p \notin Appending'
    BY <1>0, <1>11 DEF CreateNew, In, Post, Keep, Shapes, OpRecord, Appending
  <2>3. Intent(op[p].plot).status # "unused"
    BY DEF Intent
  <2>4. Used' \subseteq Used \cup {NextEntry}
    BY <1>0, <2>3, <1>11, PutUses DEF CreateNew, Post
  <2> QED
    BY <1>0, <2>1, <2>2, <2>4, AppendingOf, RoomTaken
<1>12. ASSUME NEW p \in Procs, CreateAgain(p) PROVE Roomy'
  <2>1. Used' = Used
    <3>1. \A q : Intent(q).status # "unused"
      BY DEF Intent
    <3> QED
      BY <1>0, <3>1, <1>12, PutUses DEF CreateAgain, Earlier, Post, Used
  <2>2. \A r \in Procs : r # p => op'[r] = op[r]
    BY <1>0, <1>12 DEF CreateAgain, In, Post, Put, Keep, Intent, Finish, Earlier, CanSync, Shapes
  <2>3. p \notin Appending'
    BY <1>0, <1>12, Names DEF CreateAgain, In, Post, Put, Keep, Intent, Finish, Earlier, CanSync,
       Shapes, OpRecord, Appending, Idle
  <2> QED
    BY <1>0, <2>1, <2>2, <2>3, AppendingOf, RoomKept
<1>13. ASSUME NEW p \in Procs, PostAnswered(p) PROVE Roomy'
  <2>1. Used' = Used
    BY <1>0, <1>13 DEF PostAnswered, Made, Goto, files, Used
  <2>2. \A r \in Procs : r # p => op'[r] = op[r]
    BY <1>0, <1>13 DEF PostAnswered, Made, Goto, Shapes
  <2>3. p \notin Appending'
    BY <1>0, <1>13, Names DEF PostAnswered, Made, Goto, Shapes, OpRecord, Appending, Idle
  <2> QED
    BY <1>0, <2>1, <2>2, <2>3, AppendingOf, RoomKept
<1>14. ASSUME NEW p \in Procs, PostLost(p) PROVE Roomy'
  <2>1. Used' = Used
    BY <1>0, <1>14 DEF PostLost, Made, Finish, files, Used
  <2>2. \A r \in Procs : r # p => op'[r] = op[r]
    BY <1>0, <1>14 DEF PostLost, Made, Finish, Shapes
  <2>3. p \notin Appending'
    BY <1>0, <1>14, Names DEF PostLost, Made, Finish, Shapes, OpRecord, Appending, Idle
  <2> QED
    BY <1>0, <2>1, <2>2, <2>3, AppendingOf, RoomKept
<1>15. ASSUME NEW p \in Procs, Acknowledge(p) PROVE Roomy'
  <2>1. Used' = Used
    <3>1. op[p].entry \in Used
      BY <1>0, <1>15 DEF Acknowledge, In, Equipped, OpEquipped, WithEntry
    <3>2. ([entry[op[p].entry] EXCEPT !.board = op[p].board, !.status = "linked"]).status # "unused"
      BY <1>0, <3>1 DEF Shapes, EntryRecord, Statuses
    <3>3. Used' = Used \/ (Used \subseteq Used' /\ Used' \subseteq Used \cup {op[p].entry})
      <4>1. entry' = entry => Used' = Used
        BY DEF Used
      <4>2. entry' = entry \/ Put(op[p].entry, [entry[op[p].entry] EXCEPT !.board = op[p].board, !.status = "linked"])
        BY <1>15 DEF Acknowledge
      <4> DEFINE value == [entry[op[p].entry] EXCEPT !.board = op[p].board, !.status = "linked"]
      <4>3. value.status # "unused" /\ (entry' = entry \/ Put(op[p].entry, value))
        BY <3>2, <4>2
      <4> HIDE DEF value
      <4> QED
        BY <1>0, <4>1, <4>3, PutUses
    <3> QED
      BY <3>1, <3>3
  <2>2. \A r \in Procs : r # p => op'[r] = op[r]
    BY <1>0, <1>15 DEF Acknowledge, In, Put, Goto, Keep, Finish, Shapes
  <2>3. p \notin Appending'
    BY <1>0, <1>15, Names DEF Acknowledge, In, Put, Goto, Keep, Finish, Shapes, OpRecord, Appending,
       Idle
  <2> QED
    BY <1>0, <2>1, <2>2, <2>3, AppendingOf, RoomKept
<1>16. ASSUME NEW p \in Procs, Refuse(p) PROVE Roomy'
  <2>1. Used' = Used
    <3>1. op[p].entry \in Used
      BY <1>0, <1>16 DEF Refuse, In, Equipped, OpEquipped, WithEntry
    <3>2. ([entry[op[p].entry] EXCEPT !.status = "creation_rejected"]).status # "unused"
      BY <1>0, <3>1 DEF Shapes, EntryRecord, Statuses
    <3>3. Used' = Used \/ (Used \subseteq Used' /\ Used' \subseteq Used \cup {op[p].entry})
      <4>1. entry' = entry => Used' = Used
        BY DEF Used
      <4>2. entry' = entry \/ Put(op[p].entry, [entry[op[p].entry] EXCEPT !.status = "creation_rejected"])
        BY <1>16 DEF Refuse
      <4> DEFINE value == [entry[op[p].entry] EXCEPT !.status = "creation_rejected"]
      <4>3. value.status # "unused" /\ (entry' = entry \/ Put(op[p].entry, value))
        BY <3>2, <4>2
      <4> HIDE DEF value
      <4> QED
        BY <1>0, <4>1, <4>3, PutUses
    <3> QED
      BY <3>1, <3>3
  <2>2. \A r \in Procs : r # p => op'[r] = op[r]
    BY <1>0, <1>16 DEF Refuse, In, Put, Finish, Shapes
  <2>3. p \notin Appending'
    BY <1>0, <1>16, Names DEF Refuse, In, Put, Finish, Shapes, OpRecord, Appending, Idle
  <2> QED
    BY <1>0, <2>1, <2>2, <2>3, AppendingOf, RoomKept
<1>17. ASSUME NEW p \in Procs, Link(p) PROVE Roomy'
  <2>1. \A r \in Procs : r # p => op'[r] = op[r]
    BY <1>0, <1>17 DEF Link, In, Put, Finish, Bound, Recoverable, Shapes
  <2>2. p \notin Appending' /\ (op[p].entry = 0 => p \in Appending) /\ (op[p].entry # 0 => op[p].entry \in Used)
    BY <1>0, <1>17 DEF Link, In, Finish, Idle, Shapes, Appending, Equipped, OpEquipped
  <2>3. \/ Used' = Used
        \/ op[p].entry = 0 /\ Used' \subseteq Used \cup {NextEntry}
        \/ op[p].entry # 0 /\ Used' \subseteq Used \cup {op[p].entry} /\ Used \subseteq Used'
    <3>1. op[p].entry # 0 => Bound(op[p].board, entry[op[p].entry]).status # "unused"
      BY <1>0, <2>2 DEF Shapes, EntryRecord, Statuses, Bound
    <3>2. Bound(op[p].board, Unused).status # "unused"
      BY DEF Bound, Unused
    <3>3. entry' = entry => Used' = Used
      BY DEF Used
    <3> QED
      BY <1>0, <3>1, <3>2, <3>3, <1>17, PutUses DEF Link
  <2>4. op[p].entry # 0 => Used' = Used
    BY <2>2, <2>3
  <2> QED
    BY <1>0, <2>1, <2>2, <2>3, <2>4, AppendingOf, RoomTaken, RoomKept
<1>18. ASSUME NEW p \in Procs, Sync(p) PROVE Roomy'
  <2>1. Used' = Used
    BY <1>0, <1>18 DEF Sync, In, CanSync, Keep, Finish, files, Used
  <2>2. \A r \in Procs : r # p => op'[r] = op[r]
    BY <1>0, <1>18 DEF Sync, In, CanSync, Keep, Finish, Shapes
  <2>3. p \notin Appending'
    BY <1>0, <1>18, Names DEF Sync, In, CanSync, Keep, Finish, Shapes, OpRecord, Appending, Idle
  <2> QED
    BY <1>0, <2>1, <2>2, <2>3, AppendingOf, RoomKept
<1>19. ASSUME NEW p \in Procs, Mark(p) PROVE Roomy'
  <2>1. Used' = Used
    <3>1. op[p].entry \in Used
      BY <1>0, <1>19 DEF Mark, In, Equipped, OpEquipped, WithEntry
    <3>2. ([entry[op[p].entry] EXCEPT !.status = "syncing", !.plot = op[p].plot]).status # "unused"
      BY <1>0, <3>1 DEF Shapes, EntryRecord, Statuses
    <3>3. Used' = Used \/ (Used \subseteq Used' /\ Used' \subseteq Used \cup {op[p].entry})
      <4>1. entry' = entry => Used' = Used
        BY DEF Used
      <4>2. entry' = entry \/ Put(op[p].entry, [entry[op[p].entry] EXCEPT !.status = "syncing", !.plot = op[p].plot])
        BY <1>19 DEF Mark
      <4> DEFINE value == [entry[op[p].entry] EXCEPT !.status = "syncing", !.plot = op[p].plot]
      <4>3. value.status # "unused" /\ (entry' = entry \/ Put(op[p].entry, value))
        BY <3>2, <4>2
      <4> HIDE DEF value
      <4> QED
        BY <1>0, <4>1, <4>3, PutUses
    <3> QED
      BY <3>1, <3>3
  <2>2. \A r \in Procs : r # p => op'[r] = op[r]
    BY <1>0, <1>19 DEF Mark, In, Put, Goto, Keep, Shapes
  <2>3. p \notin Appending'
    BY <1>0, <1>19, Names DEF Mark, In, Put, Goto, Keep, Shapes, OpRecord, Appending, Idle
  <2> QED
    BY <1>0, <2>1, <2>2, <2>3, AppendingOf, RoomKept
<1>20. ASSUME NEW p \in Procs, Write(p) PROVE Roomy'
  <2>1. Used' = Used
    BY <1>0, <1>20 DEF Write, Goto, Keep, files, Used
  <2>2. \A r \in Procs : r # p => op'[r] = op[r]
    BY <1>0, <1>20 DEF Write, Goto, Keep, Shapes
  <2>3. p \notin Appending'
    BY <1>0, <1>20, Names DEF Write, Goto, Keep, Shapes, OpRecord, Appending, Idle
  <2> QED
    BY <1>0, <2>1, <2>2, <2>3, AppendingOf, RoomKept
<1>21. ASSUME NEW p \in Procs, EndWrite(p) PROVE Roomy'
  <2>1. Used' = Used
    BY <1>0, <1>21 DEF EndWrite, Goto, Keep, files, Used
  <2>2. \A r \in Procs : r # p => op'[r] = op[r]
    BY <1>0, <1>21 DEF EndWrite, Goto, Keep, Shapes
  <2>3. p \notin Appending'
    BY <1>0, <1>21, Names DEF EndWrite, Goto, Keep, Shapes, OpRecord, Appending, Idle
  <2> QED
    BY <1>0, <2>1, <2>2, <2>3, AppendingOf, RoomKept
<1>22. ASSUME NEW p \in Procs, Record(p) PROVE Roomy'
  <2>1. Used' = Used
    <3>1. op[p].entry \in Used
      BY <1>0, <1>22 DEF Record, Equipped, OpEquipped, WithEntry
    <3>2. ([entry[op[p].entry] EXCEPT !.status = IF op[p].pc = "failed" THEN "sync_error" ELSE "synced"]).status # "unused"
      BY <1>0, <3>1 DEF Shapes, EntryRecord, Statuses
    <3>3. Used' = Used \/ (Used \subseteq Used' /\ Used' \subseteq Used \cup {op[p].entry})
      <4>1. entry' = entry => Used' = Used
        BY DEF Used
      <4>2. entry' = entry \/ Put(op[p].entry, [entry[op[p].entry] EXCEPT !.status = IF op[p].pc = "failed" THEN "sync_error" ELSE "synced"])
        BY <1>22 DEF Record
      <4> DEFINE value == [entry[op[p].entry] EXCEPT !.status = IF op[p].pc = "failed" THEN "sync_error" ELSE "synced"]
      <4>3. value.status # "unused" /\ (entry' = entry \/ Put(op[p].entry, value))
        BY <3>2, <4>2
      <4> HIDE DEF value
      <4> QED
        BY <1>0, <4>1, <4>3, PutUses
    <3> QED
      BY <3>1, <3>3
  <2>2. \A r \in Procs : r # p => op'[r] = op[r]
    BY <1>0, <1>22 DEF Record, Put, Finish, Shapes
  <2>3. p \notin Appending'
    BY <1>0, <1>22, Names DEF Record, Put, Finish, Shapes, OpRecord, Appending, Idle
  <2> QED
    BY <1>0, <2>1, <2>2, <2>3, AppendingOf, RoomKept
<1>23. ASSUME NEW p \in Procs, Select(p) PROVE Roomy'
  <2>1. Used' = Used
    BY <1>0, <1>23 DEF Select, In, Goto, Keep, Finish, files, Used
  <2>2. \A r \in Procs : r # p => op'[r] = op[r]
    BY <1>0, <1>23 DEF Select, In, Goto, Keep, Finish, Shapes
  <2>3. p \notin Appending'
    BY <1>0, <1>23, Names DEF Select, In, Goto, Keep, Finish, Shapes, OpRecord, Appending, Idle
  <2> QED
    BY <1>0, <2>1, <2>2, <2>3, AppendingOf, RoomKept
<1>24. ASSUME NEW p \in Procs, Intend(p) PROVE Roomy'
  <2>1. Used' = Used
    BY <1>0, <1>24 DEF Intend, Finish, Keep, InDoubt, files, Used
  <2>2. \A r \in Procs : r # p => op'[r] = op[r]
    BY <1>0, <1>24 DEF Intend, Finish, Keep, InDoubt, Shapes
  <2>3. p \notin Appending'
    BY <1>0, <1>24, Names DEF Intend, Finish, Keep, InDoubt, Shapes, OpRecord, Appending, Idle
  <2> QED
    BY <1>0, <2>1, <2>2, <2>3, AppendingOf, RoomKept
<1>25. ASSUME NEW p \in Procs, DeleteConfirmed(p) PROVE Roomy'
  <2>1. Used' = Used
    BY <1>0, <1>25 DEF DeleteConfirmed, Gone, Goto, files, Used
  <2>2. \A r \in Procs : r # p => op'[r] = op[r]
    BY <1>0, <1>25 DEF DeleteConfirmed, Gone, Goto, Shapes
  <2>3. p \notin Appending'
    BY <1>0, <1>25, Names DEF DeleteConfirmed, Gone, Goto, Shapes, OpRecord, Appending, Idle
  <2> QED
    BY <1>0, <2>1, <2>2, <2>3, AppendingOf, RoomKept
<1>26. ASSUME NEW p \in Procs, Rejected(p) PROVE Roomy'
  <2>1. Used' = Used
    BY <1>0, <1>26 DEF Rejected, Finish, files, Used
  <2>2. \A r \in Procs : r # p => op'[r] = op[r]
    BY <1>0, <1>26 DEF Rejected, Finish, Shapes
  <2>3. p \notin Appending'
    BY <1>0, <1>26, Names DEF Rejected, Finish, Shapes, OpRecord, Appending, Idle
  <2> QED
    BY <1>0, <2>1, <2>2, <2>3, AppendingOf, RoomKept
<1>27. ASSUME NEW p \in Procs, Unanswered(p) PROVE Roomy'
  <2>1. Used' = Used
    BY <1>0, <1>27 DEF Unanswered, Gone, Finish, files, Used
  <2>2. \A r \in Procs : r # p => op'[r] = op[r]
    BY <1>0, <1>27 DEF Unanswered, Gone, Finish, Shapes
  <2>3. p \notin Appending'
    BY <1>0, <1>27, Names DEF Unanswered, Gone, Finish, Shapes, OpRecord, Appending, Idle
  <2> QED
    BY <1>0, <2>1, <2>2, <2>3, AppendingOf, RoomKept
<1>28. ASSUME NEW p \in Procs, Unlink(p) PROVE Roomy'
  <2>1. Used' = Used
    BY <1>0, <1>28 DEF Unlink, Finish, files, Used
  <2>2. \A r \in Procs : r # p => op'[r] = op[r]
    BY <1>0, <1>28 DEF Unlink, Finish, Shapes
  <2>3. p \notin Appending'
    BY <1>0, <1>28, Names DEF Unlink, Finish, Shapes, OpRecord, Appending, Idle
  <2> QED
    BY <1>0, <2>1, <2>2, <2>3, AppendingOf, RoomKept
<1>29. ASSUME NEW p \in Procs, EndOther(p) PROVE Roomy'
  <2>1. Used' = Used
    BY <1>0, <1>29 DEF EndOther, Finish, files, Used
  <2>2. \A r \in Procs : r # p => op'[r] = op[r]
    BY <1>0, <1>29 DEF EndOther, Finish, Shapes
  <2>3. p \notin Appending'
    BY <1>0, <1>29, Names DEF EndOther, Finish, Shapes, OpRecord, Appending, Idle
  <2> QED
    BY <1>0, <2>1, <2>2, <2>3, AppendingOf, RoomKept
<1>30. ASSUME NEW p \in Procs, Fault(p) PROVE Roomy'
  <2>1. Used' = Used
    BY <1>0, <1>30 DEF Fault, Gone, Finish, files, Used
  <2>2. \A r \in Procs : r # p => op'[r] = op[r]
    BY <1>0, <1>30 DEF Fault, Gone, Finish, Shapes
  <2>3. p \notin Appending'
    BY <1>0, <1>30, Names DEF Fault, Gone, Finish, Shapes, OpRecord, Appending, Idle
  <2> QED
    BY <1>0, <2>1, <2>2, <2>3, AppendingOf, RoomKept
<1>31. ASSUME NEW b \in Boards, LinkSetting(b) PROVE Roomy'
  <2>1. Used' = Used /\ Appending' = Appending
    BY <1>31 DEF LinkSetting, Used, Appending
  <2> QED
    BY <1>0, <2>1, RoomKept
<1>32. ASSUME NEW b \in Boards, LateDelete(b) PROVE Roomy'
  <2>1. Used' = Used /\ Appending' = Appending
    BY <1>32 DEF LateDelete, files, Used, Appending
  <2> QED
    BY <1>0, <2>1, RoomKept
<1>33. CASE UNCHANGED vars
  <2>1. Used' = Used /\ Appending' = Appending
    BY <1>33 DEF vars, Used, Appending
  <2> QED
    BY <1>0, <2>1, RoomKept
<1> QED
  BY <1>1, <1>2, <1>3, <1>4, <1>5, <1>6, <1>7, <1>8, <1>9, <1>10, <1>11, <1>12, <1>13, 
     <1>14, <1>15, <1>16, <1>17, <1>18, <1>19, <1>20, <1>21, <1>22, <1>23, <1>24, 
     <1>25, <1>26, <1>27, <1>28, <1>29, <1>30, <1>31, <1>32, <1>33 DEF Next, Start, Step, Create, Publish, Delete

\* They hold at the start.
LEMMA ShapeInit == Init => ShapeInv
<1> SUFFICES ASSUME Init PROVE ShapeInv
  OBVIOUS
<1>1. Shapes
  BY Names, EntriesFinite, BoardsAssumption
     DEF Init, Shapes, EntryRecord, Unused, OpRecord, Places, Idle
<1>2. Equipped
  BY Names DEF Init, Equipped, OpEquipped, Blank, Idle, WithEntry, WithBoard, WithPlot
<1>3. Used = {} /\ Appending = {}
  BY DEF Init, Used, Unused, Appending, Idle
<1> QED
  BY <1>1, <1>2, <1>3, FS_EmptySet, EntriesFinite DEF ShapeInv, Roomy

\* The three together are inductive.
LEMMA ShapeStep ==
  ASSUME ShapeInv, [Next]_vars
  PROVE  ShapeInv'
BY ShapesStep, EquippedStep, RoomyStep DEF ShapeInv

\* No step frees an entry.
LEMMA UsedGrows ==
  ASSUME ShapeInv, [Next]_vars
  PROVE  Used \subseteq Used'
BY EquippedStep

\* Every file, lock and operation keeps its type, for any number of program
\* instances, boards, saved plots and faults.
THEOREM TypeCorrect == Spec => []TypeOK
<1>1. ShapeInv => TypeOK
  BY DEF ShapeInv, Shapes, Equipped, Blank, TypeOK, EntryRecord, Statuses
<1> QED
  BY <1>1, ShapeInit, ShapeStep, PTL DEF Spec

-----------------------------------------------------------------------------
(* Deletion: the lock of the board and its receipt together keep every writer *)
(* away from a DELETE that may still take effect.                             *)

Guarding == {"writing", "other", "send"}
\* A deletion that is sent has its intent saved, and knows whether an earlier
\* DELETE of the board may have taken effect or still may.
OpSafe(p) ==
  /\ op[p].pc \in Guarding => Board(op[p].board) \in held[p]
  /\ op[p].board # None => remote[op[p].board] # "never"
  /\ op[p].pc = "send" =>
       /\ receipt[op[p].board] = "pending"
       /\ op[p].doubt \/ (remote[op[p].board] = "live" /\ op[p].board \notin doomed)
  /\ op[p].pc \in {"writing", "other"} => Writable(op[p].board)
BoardSafe(b) ==
  /\ b \in doomed \/ remote[b] = "gone" => ~Writable(b)
  /\ receipt[b] = "deleted" => remote[b] = "gone"
LocksApart ==
  \A b \in Boards, p \in Procs, r \in Procs : Board(b) \in held[p] /\ Board(b) \in held[r] => p = r
EntriesKnown == \A e \in Entries : entry[e].board # None => remote[entry[e].board] # "never"
DeletionInv ==
  /\ \A p \in Procs : OpSafe(p)
  /\ \A b \in Boards : BoardSafe(b)
  /\ LocksApart /\ EntriesKnown

\* A step of one instance leaves what another relies on alone, as long as it
\* changes no board the other holds, but for the deletion that was awaited.
LEMMA OthersSafe ==
  ASSUME Shapes, Equipped, NEW r \in Procs, OpSafe(r), op'[r] = op[r], held'[r] = held[r],
         \A b \in Boards :
           /\ remote[b] # "never" => remote'[b] # "never"
           /\ Board(b) \in held[r] =>
                /\ receipt'[b] = receipt[b]
                /\ b \in doomed' \/ remote'[b] # "live" => b \in doomed \/ remote[b] # "live"
  PROVE  OpSafe(r)'
<1>1. op[r].board \in Boards \cup {None} /\ (op[r].pc \in Guarding => op[r].board \in Boards)
  BY DEF Shapes, Equipped, OpEquipped, OpRecord, WithBoard, Guarding
<1> QED
  BY <1>1 DEF OpSafe, Writable, Guarding

\* Nobody takes the lock of a board another holds.
LEMMA ApartStep ==
  ASSUME LocksApart, NEW p \in Procs, \A r \in Procs : r # p => held'[r] = held[r],
         \A b \in Boards : Board(b) \in held'[p] => Board(b) \in held[p] \/ IsFree(Board(b))
  PROVE  LocksApart'
BY DEF LocksApart, IsFree

\* What a step of p does to a board that another may rely on
LeavesBoard(p, c) ==
  /\ remote[c] # "never" => remote'[c] # "never"
  /\ Board(c) \notin held[p] /\ ~IsFree(Board(c)) =>
       /\ receipt'[c] = receipt[c]
       /\ c \in doomed' \/ remote'[c] # "live" => c \in doomed \/ remote[c] # "live"

\* A step of p keeps the invariant when its own part and the files do.
LEMMA DeletionKept ==
  ASSUME Shapes, Equipped, LocksApart, \A r \in Procs : OpSafe(r), NEW p \in Procs,
         \A r \in Procs : r # p => op'[r] = op[r] /\ held'[r] = held[r],
         \A c \in Boards : Board(c) \in held'[p] => Board(c) \in held[p] \/ IsFree(Board(c)),
         \A c \in Boards : LeavesBoard(p, c),
         EntriesKnown', OpSafe(p)', \A c \in Boards : BoardSafe(c)'
  PROVE  DeletionInv'
<1>1. ASSUME NEW r \in Procs, r # p PROVE OpSafe(r)'
  <2>1. \A c \in Boards : Board(c) \in held[r] => Board(c) \notin held[p] /\ ~IsFree(Board(c))
    BY <1>1 DEF LocksApart, IsFree
  <2> QED
    BY <1>1, <2>1, OthersSafe DEF LeavesBoard
<1> QED
  BY <1>1, ApartStep DEF DeletionInv

\* Every step keeps the invariant of deletions.
LEMMA DeletionStep ==
  ASSUME ShapeInv, DeletionInv, [Next]_vars
  PROVE  DeletionInv'
<1>0. /\ Shapes /\ Equipped /\ Used \subseteq Entries
      /\ LocksApart /\ EntriesKnown /\ \A b \in Boards : BoardSafe(b)
      /\ \A p \in Procs : OpSafe(p) /\ OpEquipped(p)
  BY DEF ShapeInv, DeletionInv, Used, Equipped
<1>1. ASSUME NEW p \in Procs, NEW q \in Fresh, StartGenerate(p, q) PROVE DeletionInv'
  <2>1. \A r \in Procs : r # p => op'[r] = op[r] /\ held'[r] = held[r]
    BY <1>0, <1>1 DEF StartGenerate, Begin, Shapes, files, world
  <2>2. \A c \in Boards : Board(c) \in held'[p] => Board(c) \in held[p] \/ IsFree(Board(c))
    BY <1>0, <1>1, LockNames DEF StartGenerate, Begin, Shapes, files, world
  <2>3. \A c \in Boards : LeavesBoard(p, c)
    BY <1>0, <1>1 DEF LeavesBoard, StartGenerate, Begin, Shapes, OpSafe, Guarding, OpEquipped,
       WithBoard, files, world
  <2>4. EntriesKnown'
    BY <1>0, <2>3, <1>1, Names DEF LeavesBoard, StartGenerate, Begin, Shapes, EntriesKnown,
       EntryRecord, OpSafe, OpEquipped, WithBoard, files, Unused
  <2>5. OpSafe(p)'
    BY <1>0, <2>3, <1>1, Names, LockNames DEF LeavesBoard, StartGenerate, Begin, Shapes, OpRecord,
       OpSafe, BoardSafe, Writable, Guarding, OpEquipped, WithBoard, Idle, files, world,
       EntriesKnown
  <2>6. \A c \in Boards : BoardSafe(c)'
    BY <1>0, <1>1 DEF StartGenerate, Begin, Shapes, OpSafe, BoardSafe, Writable, Guarding,
       OpEquipped, WithBoard, files, world
  <2> QED
    BY <1>0, <2>1, <2>2, <2>3, <2>4, <2>5, <2>6, DeletionKept
<1>2. ASSUME NEW p \in Procs, NEW q \in Fresh, StartCreate(p, q) PROVE DeletionInv'
  <2>1. \A r \in Procs : r # p => op'[r] = op[r] /\ held'[r] = held[r]
    BY <1>0, <1>2 DEF StartCreate, Begin, Shapes, files, world
  <2>2. \A c \in Boards : Board(c) \in held'[p] => Board(c) \in held[p] \/ IsFree(Board(c))
    BY <1>0, <1>2, LockNames DEF StartCreate, Begin, Shapes, files, world
  <2>3. \A c \in Boards : LeavesBoard(p, c)
    BY <1>0, <1>2 DEF LeavesBoard, StartCreate, Begin, Shapes, OpSafe, Guarding, OpEquipped,
       WithBoard, files, world
  <2>4. EntriesKnown'
    BY <1>0, <2>3, <1>2, Names DEF LeavesBoard, StartCreate, Begin, Shapes, EntriesKnown,
       EntryRecord, OpSafe, OpEquipped, WithBoard, files, Unused
  <2>5. OpSafe(p)'
    BY <1>0, <2>3, <1>2, Names, LockNames DEF LeavesBoard, StartCreate, Begin, Shapes, OpRecord,
       OpSafe, BoardSafe, Writable, Guarding, OpEquipped, WithBoard, Idle, files, world,
       EntriesKnown
  <2>6. \A c \in Boards : BoardSafe(c)'
    BY <1>0, <1>2 DEF StartCreate, Begin, Shapes, OpSafe, BoardSafe, Writable, Guarding, OpEquipped,
       WithBoard, files, world
  <2> QED
    BY <1>0, <2>1, <2>2, <2>3, <2>4, <2>5, <2>6, DeletionKept
<1>3. ASSUME NEW p \in Procs, NEW e \in 0..MaxEntries, NEW b \in Boards, StartLink(p, e, b)
      PROVE DeletionInv'
  <2>1. \A r \in Procs : r # p => op'[r] = op[r] /\ held'[r] = held[r]
    BY <1>0, <1>3 DEF StartLink, Begin, Writable, Shapes, files, world
  <2>2. \A c \in Boards : Board(c) \in held'[p] => Board(c) \in held[p] \/ IsFree(Board(c))
    BY <1>0, <1>3, LockNames DEF StartLink, Begin, Writable, Shapes, files, world
  <2>3. \A c \in Boards : LeavesBoard(p, c)
    BY <1>0, <1>3 DEF LeavesBoard, StartLink, Begin, Writable, Shapes, OpSafe, Guarding, OpEquipped,
       WithBoard, files, world
  <2>4. EntriesKnown'
    BY <1>0, <2>3, <1>3, Names DEF LeavesBoard, StartLink, Begin, Writable, Shapes, EntriesKnown,
       EntryRecord, OpSafe, OpEquipped, WithBoard, files, Unused
  <2>5. OpSafe(p)'
    BY <1>0, <2>3, <1>3, Names, LockNames DEF LeavesBoard, StartLink, Begin, Writable, Shapes,
       OpRecord, OpSafe, BoardSafe, Writable, Guarding, OpEquipped, WithBoard, Idle, files, world,
       EntriesKnown
  <2>6. \A c \in Boards : BoardSafe(c)'
    BY <1>0, <1>3 DEF StartLink, Begin, Writable, Shapes, OpSafe, BoardSafe, Writable, Guarding,
       OpEquipped, WithBoard, files, world
  <2> QED
    BY <1>0, <2>1, <2>2, <2>3, <2>4, <2>5, <2>6, DeletionKept
<1>4. ASSUME NEW p \in Procs, NEW e \in Entries, NEW q \in Plots, StartSync(p, e, q)
      PROVE DeletionInv'
  <2>1. \A r \in Procs : r # p => op'[r] = op[r] /\ held'[r] = held[r]
    BY <1>0, <1>4 DEF StartSync, Begin, Shapes, files, world
  <2>2. \A c \in Boards : Board(c) \in held'[p] => Board(c) \in held[p] \/ IsFree(Board(c))
    BY <1>0, <1>4, LockNames DEF StartSync, Begin, Shapes, files, world
  <2>3. \A c \in Boards : LeavesBoard(p, c)
    BY <1>0, <1>4 DEF LeavesBoard, StartSync, Begin, Shapes, OpSafe, Guarding, OpEquipped,
       WithBoard, files, world
  <2>4. EntriesKnown'
    BY <1>0, <2>3, <1>4, Names DEF LeavesBoard, StartSync, Begin, Shapes, EntriesKnown, EntryRecord,
       OpSafe, OpEquipped, WithBoard, files, Unused
  <2>5. OpSafe(p)'
    BY <1>0, <2>3, <1>4, Names, LockNames DEF LeavesBoard, StartSync, Begin, Shapes, OpRecord,
       OpSafe, BoardSafe, Writable, Guarding, OpEquipped, WithBoard, Idle, files, world,
       EntriesKnown
  <2>6. \A c \in Boards : BoardSafe(c)'
    BY <1>0, <1>4 DEF StartSync, Begin, Shapes, OpSafe, BoardSafe, Writable, Guarding, OpEquipped,
       WithBoard, files, world
  <2> QED
    BY <1>0, <2>1, <2>2, <2>3, <2>4, <2>5, <2>6, DeletionKept
<1>5. ASSUME NEW p \in Procs, NEW e \in Entries, NEW q \in Updates, StartUpdate(p, e, q)
      PROVE DeletionInv'
  <2>1. \A r \in Procs : r # p => op'[r] = op[r] /\ held'[r] = held[r]
    BY <1>0, <1>5 DEF StartUpdate, Begin, CanSync, Keep, Shapes, files, world
  <2>2. \A c \in Boards : Board(c) \in held'[p] => Board(c) \in held[p] \/ IsFree(Board(c))
    BY <1>0, <1>5, LockNames DEF StartUpdate, Begin, CanSync, Keep, Shapes, files, world
  <2>3. \A c \in Boards : LeavesBoard(p, c)
    BY <1>0, <1>5 DEF LeavesBoard, StartUpdate, Begin, CanSync, Keep, Shapes, OpSafe, Guarding,
       OpEquipped, WithBoard, files, world
  <2>4. EntriesKnown'
    BY <1>0, <2>3, <1>5, Names DEF LeavesBoard, StartUpdate, Begin, CanSync, Keep, Shapes,
       EntriesKnown, EntryRecord, OpSafe, OpEquipped, WithBoard, files, Unused
  <2>5. OpSafe(p)'
    BY <1>0, <2>3, <1>5, Names, LockNames DEF LeavesBoard, StartUpdate, Begin, CanSync, Keep,
       Shapes, OpRecord, OpSafe, BoardSafe, Writable, Guarding, OpEquipped, WithBoard, Idle, files,
       world, EntriesKnown
  <2>6. \A c \in Boards : BoardSafe(c)'
    BY <1>0, <1>5 DEF StartUpdate, Begin, CanSync, Keep, Shapes, OpSafe, BoardSafe, Writable,
       Guarding, OpEquipped, WithBoard, files, world
  <2> QED
    BY <1>0, <2>1, <2>2, <2>3, <2>4, <2>5, <2>6, DeletionKept
<1>6. ASSUME NEW p \in Procs, NEW e \in Entries, StartDelete(p, e) PROVE DeletionInv'
  <2>1. \A r \in Procs : r # p => op'[r] = op[r] /\ held'[r] = held[r]
    BY <1>0, <1>6 DEF StartDelete, Begin, Keep, Shapes, files, world
  <2>2. \A c \in Boards : Board(c) \in held'[p] => Board(c) \in held[p] \/ IsFree(Board(c))
    BY <1>0, <1>6, LockNames DEF StartDelete, Begin, Keep, Shapes, files, world
  <2>3. \A c \in Boards : LeavesBoard(p, c)
    BY <1>0, <1>6 DEF LeavesBoard, StartDelete, Begin, Keep, Shapes, OpSafe, Guarding, OpEquipped,
       WithBoard, files, world
  <2>4. EntriesKnown'
    BY <1>0, <2>3, <1>6, Names DEF LeavesBoard, StartDelete, Begin, Keep, Shapes, EntriesKnown,
       EntryRecord, OpSafe, OpEquipped, WithBoard, files, Unused
  <2>5. OpSafe(p)'
    BY <1>0, <2>3, <1>6, Names, LockNames DEF LeavesBoard, StartDelete, Begin, Keep, Shapes,
       OpRecord, OpSafe, BoardSafe, Writable, Guarding, OpEquipped, WithBoard, Idle, files, world,
       EntriesKnown
  <2>6. \A c \in Boards : BoardSafe(c)'
    BY <1>0, <1>6 DEF StartDelete, Begin, Keep, Shapes, OpSafe, BoardSafe, Writable, Guarding,
       OpEquipped, WithBoard, files, world
  <2> QED
    BY <1>0, <2>1, <2>2, <2>3, <2>4, <2>5, <2>6, DeletionKept
<1>7. ASSUME NEW p \in Procs, NEW b \in Boards, StartOther(p, b) PROVE DeletionInv'
  <2>1. \A r \in Procs : r # p => op'[r] = op[r] /\ held'[r] = held[r]
    BY <1>0, <1>7 DEF StartOther, Begin, Keep, Writable, Shapes, files, world
  <2>2. \A c \in Boards : Board(c) \in held'[p] => Board(c) \in held[p] \/ IsFree(Board(c))
    BY <1>0, <1>7, LockNames DEF StartOther, Begin, Keep, Writable, Shapes, files, world
  <2>3. \A c \in Boards : LeavesBoard(p, c)
    BY <1>0, <1>7 DEF LeavesBoard, StartOther, Begin, Keep, Writable, Shapes, OpSafe, Guarding,
       OpEquipped, WithBoard, files, world
  <2>4. EntriesKnown'
    BY <1>0, <2>3, <1>7, Names DEF LeavesBoard, StartOther, Begin, Keep, Writable, Shapes,
       EntriesKnown, EntryRecord, OpSafe, OpEquipped, WithBoard, files, Unused
  <2>5. OpSafe(p)'
    BY <1>0, <2>3, <1>7, Names, LockNames DEF LeavesBoard, StartOther, Begin, Keep, Writable,
       Shapes, OpRecord, OpSafe, BoardSafe, Writable, Guarding, OpEquipped, WithBoard, Idle, files,
       world, EntriesKnown
  <2>6. \A c \in Boards : BoardSafe(c)'
    BY <1>0, <1>7 DEF StartOther, Begin, Keep, Writable, Shapes, OpSafe, BoardSafe, Writable,
       Guarding, OpEquipped, WithBoard, files, world
  <2> QED
    BY <1>0, <2>1, <2>2, <2>3, <2>4, <2>5, <2>6, DeletionKept
<1>8. ASSUME NEW p \in Procs, Share(p) PROVE DeletionInv'
  <2>1. \A r \in Procs : r # p => op'[r] = op[r] /\ held'[r] = held[r]
    BY <1>0, <1>8 DEF Share, Sharing, Keep, Finish, Shapes, files, world
  <2>2. \A c \in Boards : Board(c) \in held'[p] => Board(c) \in held[p] \/ IsFree(Board(c))
    BY <1>0, <1>8, LockNames DEF Share, Sharing, Keep, Finish, Shapes, files, world
  <2>3. \A c \in Boards : LeavesBoard(p, c)
    BY <1>0, <1>8 DEF LeavesBoard, Share, Sharing, Keep, Finish, Shapes, OpSafe, Guarding,
       OpEquipped, WithBoard, files, world
  <2>4. EntriesKnown'
    BY <1>0, <2>3, <1>8, Names DEF LeavesBoard, Share, Sharing, Keep, Finish, Shapes, EntriesKnown,
       EntryRecord, OpSafe, OpEquipped, WithBoard, files, Unused
  <2>5. OpSafe(p)'
    BY <1>0, <2>3, <1>8, Names, LockNames DEF LeavesBoard, Share, Sharing, Keep, Finish, Shapes,
       OpRecord, OpSafe, BoardSafe, Writable, Guarding, OpEquipped, WithBoard, Idle, files, world,
       EntriesKnown
  <2>6. \A c \in Boards : BoardSafe(c)'
    BY <1>0, <1>8 DEF Share, Sharing, Keep, Finish, Shapes, OpSafe, BoardSafe, Writable, Guarding,
       OpEquipped, WithBoard, files, world
  <2> QED
    BY <1>0, <2>1, <2>2, <2>3, <2>4, <2>5, <2>6, DeletionKept
<1>9. ASSUME NEW p \in Procs, Enter(p) PROVE DeletionInv'
  <2>1. \A r \in Procs : r # p => op'[r] = op[r] /\ held'[r] = held[r]
    BY <1>0, <1>9 DEF Enter, Keep, Finish, Shapes, files, world
  <2>2. \A c \in Boards : Board(c) \in held'[p] => Board(c) \in held[p] \/ IsFree(Board(c))
    BY <1>0, <1>9, LockNames DEF Enter, Keep, Finish, Shapes, files, world
  <2>3. \A c \in Boards : LeavesBoard(p, c)
    BY <1>0, <1>9 DEF LeavesBoard, Enter, Keep, Finish, Shapes, OpSafe, Guarding, OpEquipped,
       WithBoard, files, world
  <2>4. EntriesKnown'
    BY <1>0, <2>3, <1>9, Names DEF LeavesBoard, Enter, Keep, Finish, Shapes, EntriesKnown,
       EntryRecord, OpSafe, OpEquipped, WithBoard, files, Unused
  <2>5. OpSafe(p)'
    BY <1>0, <2>3, <1>9, Names, LockNames DEF LeavesBoard, Enter, Keep, Finish, Shapes, OpRecord,
       OpSafe, BoardSafe, Writable, Guarding, OpEquipped, WithBoard, Idle, files, world,
       EntriesKnown
  <2>6. \A c \in Boards : BoardSafe(c)'
    BY <1>0, <1>9 DEF Enter, Keep, Finish, Shapes, OpSafe, BoardSafe, Writable, Guarding,
       OpEquipped, WithBoard, files, world
  <2> QED
    BY <1>0, <2>1, <2>2, <2>3, <2>4, <2>5, <2>6, DeletionKept
<1>10. ASSUME NEW p \in Procs, Check(p) PROVE DeletionInv'
  <2>1. \A r \in Procs : r # p => op'[r] = op[r] /\ held'[r] = held[r]
    BY <1>0, <1>10 DEF Check, In, Goto, Keep, Finish, Shapes, files, world
  <2>2. \A c \in Boards : Board(c) \in held'[p] => Board(c) \in held[p] \/ IsFree(Board(c))
    BY <1>0, <1>10, LockNames DEF Check, In, Goto, Keep, Finish, Shapes, files, world
  <2>3. \A c \in Boards : LeavesBoard(p, c)
    BY <1>0, <1>10 DEF LeavesBoard, Check, In, Goto, Keep, Finish, Shapes, OpSafe, Guarding,
       OpEquipped, WithBoard, files, world
  <2>4. EntriesKnown'
    BY <1>0, <2>3, <1>10, Names DEF LeavesBoard, Check, In, Goto, Keep, Finish, Shapes,
       EntriesKnown, EntryRecord, OpSafe, OpEquipped, WithBoard, files, Unused
  <2>5. OpSafe(p)'
    BY <1>0, <2>3, <1>10, Names, LockNames DEF LeavesBoard, Check, In, Goto, Keep, Finish, Shapes,
       OpRecord, OpSafe, BoardSafe, Writable, Guarding, OpEquipped, WithBoard, Idle, files, world,
       EntriesKnown
  <2>6. \A c \in Boards : BoardSafe(c)'
    BY <1>0, <1>10 DEF Check, In, Goto, Keep, Finish, Shapes, OpSafe, BoardSafe, Writable, Guarding,
       OpEquipped, WithBoard, files, world
  <2> QED
    BY <1>0, <2>1, <2>2, <2>3, <2>4, <2>5, <2>6, DeletionKept
<1>11. ASSUME NEW p \in Procs, CreateNew(p) PROVE DeletionInv'
  <2>1. \A r \in Procs : r # p => op'[r] = op[r] /\ held'[r] = held[r]
    BY <1>0, <1>11 DEF CreateNew, In, Post, Put, Keep, Intent, Earlier, Shapes, files, world
  <2>2. \A c \in Boards : Board(c) \in held'[p] => Board(c) \in held[p] \/ IsFree(Board(c))
    BY <1>0, <1>11, LockNames DEF CreateNew, In, Post, Put, Keep, Intent, Earlier, Shapes, files,
       world
  <2>3. \A c \in Boards : LeavesBoard(p, c)
    BY <1>0, <1>11 DEF LeavesBoard, CreateNew, In, Post, Put, Keep, Intent, Earlier, Shapes, OpSafe,
       Guarding, OpEquipped, WithBoard, files, world
  <2>4. EntriesKnown'
    BY <1>0, <2>3, <1>11, Names DEF LeavesBoard, CreateNew, In, Post, Put, Keep, Intent, Earlier,
       Shapes, EntriesKnown, EntryRecord, OpSafe, OpEquipped, WithBoard, files, Unused
  <2>5. OpSafe(p)'
    BY <1>0, <2>3, <1>11, Names, LockNames DEF LeavesBoard, CreateNew, In, Post, Put, Keep, Intent,
       Earlier, Shapes, OpRecord, OpSafe, BoardSafe, Writable, Guarding, OpEquipped, WithBoard,
       Idle, files, world, EntriesKnown
  <2>6. \A c \in Boards : BoardSafe(c)'
    BY <1>0, <1>11 DEF CreateNew, In, Post, Put, Keep, Intent, Earlier, Shapes, OpSafe, BoardSafe,
       Writable, Guarding, OpEquipped, WithBoard, files, world
  <2> QED
    BY <1>0, <2>1, <2>2, <2>3, <2>4, <2>5, <2>6, DeletionKept
<1>12. ASSUME NEW p \in Procs, CreateAgain(p) PROVE DeletionInv'
  <2>1. \A r \in Procs : r # p => op'[r] = op[r] /\ held'[r] = held[r]
    BY <1>0, <1>12 DEF CreateAgain, In, Post, Put, Keep, Intent, Finish, Earlier, CanSync, Shapes,
       files, world
  <2>2. \A c \in Boards : Board(c) \in held'[p] => Board(c) \in held[p] \/ IsFree(Board(c))
    BY <1>0, <1>12, LockNames DEF CreateAgain, In, Post, Put, Keep, Intent, Finish, Earlier,
       CanSync, Shapes, files, world
  <2>3. \A c \in Boards : LeavesBoard(p, c)
    BY <1>0, <1>12 DEF LeavesBoard, CreateAgain, In, Post, Put, Keep, Intent, Finish, Earlier,
       CanSync, Shapes, OpSafe, Guarding, OpEquipped, WithBoard, files, world
  <2>4. EntriesKnown'
    BY <1>0, <2>3, <1>12, Names DEF LeavesBoard, CreateAgain, In, Post, Put, Keep, Intent, Finish,
       Earlier, CanSync, Shapes, EntriesKnown, EntryRecord, OpSafe, OpEquipped, WithBoard, files,
       Unused
  <2>5. OpSafe(p)'
    BY <1>0, <2>3, <1>12, Names, LockNames DEF LeavesBoard, CreateAgain, In, Post, Put, Keep,
       Intent, Finish, Earlier, CanSync, Shapes, OpRecord, OpSafe, BoardSafe, Writable, Guarding,
       OpEquipped, WithBoard, Idle, files, world, EntriesKnown
  <2>6. \A c \in Boards : BoardSafe(c)'
    BY <1>0, <1>12 DEF CreateAgain, In, Post, Put, Keep, Intent, Finish, Earlier, CanSync, Shapes,
       OpSafe, BoardSafe, Writable, Guarding, OpEquipped, WithBoard, files, world
  <2> QED
    BY <1>0, <2>1, <2>2, <2>3, <2>4, <2>5, <2>6, DeletionKept
<1>13. ASSUME NEW p \in Procs, PostAnswered(p) PROVE DeletionInv'
  <2>1. \A r \in Procs : r # p => op'[r] = op[r] /\ held'[r] = held[r]
    BY <1>0, <1>13 DEF PostAnswered, Made, Goto, Shapes, files, world
  <2>2. \A c \in Boards : Board(c) \in held'[p] => Board(c) \in held[p] \/ IsFree(Board(c))
    BY <1>0, <1>13, LockNames DEF PostAnswered, Made, Goto, Shapes, files, world
  <2>3. \A c \in Boards : LeavesBoard(p, c)
    BY <1>0, <1>13 DEF LeavesBoard, PostAnswered, Made, Goto, Shapes, OpSafe, Guarding, OpEquipped,
       WithBoard, files, world
  <2>4. EntriesKnown'
    BY <1>0, <2>3, <1>13, Names DEF LeavesBoard, PostAnswered, Made, Goto, Shapes, EntriesKnown,
       EntryRecord, OpSafe, OpEquipped, WithBoard, files, Unused
  <2>5. OpSafe(p)'
    BY <1>0, <2>3, <1>13, Names, LockNames DEF LeavesBoard, PostAnswered, Made, Goto, Shapes,
       OpRecord, OpSafe, BoardSafe, Writable, Guarding, OpEquipped, WithBoard, Idle, files, world,
       EntriesKnown
  <2>6. \A c \in Boards : BoardSafe(c)'
    BY <1>0, <1>13 DEF PostAnswered, Made, Goto, Shapes, OpSafe, BoardSafe, Writable, Guarding,
       OpEquipped, WithBoard, files, world
  <2> QED
    BY <1>0, <2>1, <2>2, <2>3, <2>4, <2>5, <2>6, DeletionKept
<1>14. ASSUME NEW p \in Procs, PostLost(p) PROVE DeletionInv'
  <2>1. \A r \in Procs : r # p => op'[r] = op[r] /\ held'[r] = held[r]
    BY <1>0, <1>14 DEF PostLost, Made, Finish, Shapes, files, world
  <2>2. \A c \in Boards : Board(c) \in held'[p] => Board(c) \in held[p] \/ IsFree(Board(c))
    BY <1>0, <1>14, LockNames DEF PostLost, Made, Finish, Shapes, files, world
  <2>3. \A c \in Boards : LeavesBoard(p, c)
    BY <1>0, <1>14 DEF LeavesBoard, PostLost, Made, Finish, Shapes, OpSafe, Guarding, OpEquipped,
       WithBoard, files, world
  <2>4. EntriesKnown'
    BY <1>0, <2>3, <1>14, Names DEF LeavesBoard, PostLost, Made, Finish, Shapes, EntriesKnown,
       EntryRecord, OpSafe, OpEquipped, WithBoard, files, Unused
  <2>5. OpSafe(p)'
    BY <1>0, <2>3, <1>14, Names, LockNames DEF LeavesBoard, PostLost, Made, Finish, Shapes,
       OpRecord, OpSafe, BoardSafe, Writable, Guarding, OpEquipped, WithBoard, Idle, files, world,
       EntriesKnown
  <2>6. \A c \in Boards : BoardSafe(c)'
    BY <1>0, <1>14 DEF PostLost, Made, Finish, Shapes, OpSafe, BoardSafe, Writable, Guarding,
       OpEquipped, WithBoard, files, world
  <2> QED
    BY <1>0, <2>1, <2>2, <2>3, <2>4, <2>5, <2>6, DeletionKept
<1>15. ASSUME NEW p \in Procs, Acknowledge(p) PROVE DeletionInv'
  <2>1. \A r \in Procs : r # p => op'[r] = op[r] /\ held'[r] = held[r]
    BY <1>0, <1>15 DEF Acknowledge, In, Put, Goto, Keep, Finish, Shapes, files, world
  <2>2. \A c \in Boards : Board(c) \in held'[p] => Board(c) \in held[p] \/ IsFree(Board(c))
    BY <1>0, <1>15, LockNames DEF Acknowledge, In, Put, Goto, Keep, Finish, Shapes, files, world
  <2>3. \A c \in Boards : LeavesBoard(p, c)
    BY <1>0, <1>15 DEF LeavesBoard, Acknowledge, In, Put, Goto, Keep, Finish, Shapes, OpSafe,
       Guarding, OpEquipped, WithBoard, files, world
  <2>4. EntriesKnown'
    <3>1. op[p].board # None /\ remote[op[p].board] # "never" /\ op[p].board \in Boards
      BY <1>0, <1>15, Names DEF Acknowledge, In, OpSafe, OpEquipped, WithBoard
    <3>2. op[p].entry \in Entries => ([entry[op[p].entry] EXCEPT !.board = op[p].board, !.status = "linked"]).board = op[p].board
      BY <1>0, <3>1 DEF Shapes, EntryRecord
    <3>3. \A e \in Entries : entry'[e].board = entry[e].board \/ entry'[e].board = op[p].board
      BY <1>0, <3>2, <1>15 DEF Acknowledge, Put, Shapes
    <3>4. \A e \in Entries : entry[e].board \in Boards \cup {None}
      BY <1>0 DEF Shapes, EntryRecord
    <3> QED
      BY <1>0, <2>3, <3>1, <3>3, <3>4 DEF LeavesBoard, EntriesKnown
  <2>5. OpSafe(p)'
    BY <1>0, <2>3, <1>15, Names, LockNames DEF LeavesBoard, Acknowledge, In, Put, Goto, Keep,
       Finish, Shapes, OpRecord, OpSafe, BoardSafe, Writable, Guarding, OpEquipped, WithBoard, Idle,
       files, world, EntriesKnown
  <2>6. \A c \in Boards : BoardSafe(c)'
    BY <1>0, <1>15 DEF Acknowledge, In, Put, Goto, Keep, Finish, Shapes, OpSafe, BoardSafe,
       Writable, Guarding, OpEquipped, WithBoard, files, world
  <2> QED
    BY <1>0, <2>1, <2>2, <2>3, <2>4, <2>5, <2>6, DeletionKept
<1>16. ASSUME NEW p \in Procs, Refuse(p) PROVE DeletionInv'
  <2>1. \A r \in Procs : r # p => op'[r] = op[r] /\ held'[r] = held[r]
    BY <1>0, <1>16 DEF Refuse, In, Put, Finish, Shapes, files, world
  <2>2. \A c \in Boards : Board(c) \in held'[p] => Board(c) \in held[p] \/ IsFree(Board(c))
    BY <1>0, <1>16, LockNames DEF Refuse, In, Put, Finish, Shapes, files, world
  <2>3. \A c \in Boards : LeavesBoard(p, c)
    BY <1>0, <1>16 DEF LeavesBoard, Refuse, In, Put, Finish, Shapes, OpSafe, Guarding, OpEquipped,
       WithBoard, files, world
  <2>4. EntriesKnown'
    BY <1>0, <2>3, <1>16, Names DEF LeavesBoard, Refuse, In, Put, Finish, Shapes, EntriesKnown,
       EntryRecord, OpSafe, OpEquipped, WithBoard, files, Unused
  <2>5. OpSafe(p)'
    BY <1>0, <2>3, <1>16, Names, LockNames DEF LeavesBoard, Refuse, In, Put, Finish, Shapes,
       OpRecord, OpSafe, BoardSafe, Writable, Guarding, OpEquipped, WithBoard, Idle, files, world,
       EntriesKnown
  <2>6. \A c \in Boards : BoardSafe(c)'
    BY <1>0, <1>16 DEF Refuse, In, Put, Finish, Shapes, OpSafe, BoardSafe, Writable, Guarding,
       OpEquipped, WithBoard, files, world
  <2> QED
    BY <1>0, <2>1, <2>2, <2>3, <2>4, <2>5, <2>6, DeletionKept
<1>17. ASSUME NEW p \in Procs, Link(p) PROVE DeletionInv'
  <2>1. \A r \in Procs : r # p => op'[r] = op[r] /\ held'[r] = held[r]
    BY <1>0, <1>17 DEF Link, In, Put, Finish, Bound, Recoverable, Shapes, files, world
  <2>2. \A c \in Boards : Board(c) \in held'[p] => Board(c) \in held[p] \/ IsFree(Board(c))
    BY <1>0, <1>17, LockNames DEF Link, In, Put, Finish, Bound, Recoverable, Shapes, files, world
  <2>3. \A c \in Boards : LeavesBoard(p, c)
    BY <1>0, <1>17 DEF LeavesBoard, Link, In, Put, Finish, Bound, Recoverable, Shapes, OpSafe,
       Guarding, OpEquipped, WithBoard, files, world
  <2>4. EntriesKnown'
    <3>1. op[p].board # None /\ remote[op[p].board] # "never" /\ op[p].board \in Boards
      BY <1>0, <1>17, Names DEF Link, In, OpSafe, OpEquipped, WithBoard
    <3>2. op[p].entry \in Entries => (Bound(op[p].board, entry[op[p].entry])).board = op[p].board
      BY <1>0, <3>1 DEF Shapes, EntryRecord, Bound
    <3>3. \A e \in Entries : entry'[e].board = entry[e].board \/ entry'[e].board = op[p].board
      BY <1>0, <3>2, <1>17 DEF Link, Put, Shapes, Bound, Unused, In, Recoverable
    <3>4. \A e \in Entries : entry[e].board \in Boards \cup {None}
      BY <1>0 DEF Shapes, EntryRecord
    <3> QED
      BY <1>0, <2>3, <3>1, <3>3, <3>4 DEF LeavesBoard, EntriesKnown
  <2>5. OpSafe(p)'
    BY <1>0, <2>3, <1>17, Names, LockNames DEF LeavesBoard, Link, In, Put, Finish, Bound,
       Recoverable, Shapes, OpRecord, OpSafe, BoardSafe, Writable, Guarding, OpEquipped, WithBoard,
       Idle, files, world, EntriesKnown
  <2>6. \A c \in Boards : BoardSafe(c)'
    BY <1>0, <1>17 DEF Link, In, Put, Finish, Bound, Recoverable, Shapes, OpSafe, BoardSafe,
       Writable, Guarding, OpEquipped, WithBoard, files, world
  <2> QED
    BY <1>0, <2>1, <2>2, <2>3, <2>4, <2>5, <2>6, DeletionKept
<1>18. ASSUME NEW p \in Procs, Sync(p) PROVE DeletionInv'
  <2>1. \A r \in Procs : r # p => op'[r] = op[r] /\ held'[r] = held[r]
    BY <1>0, <1>18 DEF Sync, In, CanSync, Keep, Finish, Shapes, files, world
  <2>2. \A c \in Boards : Board(c) \in held'[p] => Board(c) \in held[p] \/ IsFree(Board(c))
    BY <1>0, <1>18, LockNames DEF Sync, In, CanSync, Keep, Finish, Shapes, files, world
  <2>3. \A c \in Boards : LeavesBoard(p, c)
    BY <1>0, <1>18 DEF LeavesBoard, Sync, In, CanSync, Keep, Finish, Shapes, OpSafe, Guarding,
       OpEquipped, WithBoard, files, world
  <2>4. EntriesKnown'
    BY <1>0, <2>3, <1>18, Names DEF LeavesBoard, Sync, In, CanSync, Keep, Finish, Shapes,
       EntriesKnown, EntryRecord, OpSafe, OpEquipped, WithBoard, files, Unused
  <2>5. OpSafe(p)'
    BY <1>0, <2>3, <1>18, Names, LockNames DEF LeavesBoard, Sync, In, CanSync, Keep, Finish, Shapes,
       OpRecord, OpSafe, BoardSafe, Writable, Guarding, OpEquipped, WithBoard, Idle, files, world,
       EntriesKnown
  <2>6. \A c \in Boards : BoardSafe(c)'
    BY <1>0, <1>18 DEF Sync, In, CanSync, Keep, Finish, Shapes, OpSafe, BoardSafe, Writable,
       Guarding, OpEquipped, WithBoard, files, world
  <2> QED
    BY <1>0, <2>1, <2>2, <2>3, <2>4, <2>5, <2>6, DeletionKept
<1>19. ASSUME NEW p \in Procs, Mark(p) PROVE DeletionInv'
  <2>1. \A r \in Procs : r # p => op'[r] = op[r] /\ held'[r] = held[r]
    BY <1>0, <1>19 DEF Mark, In, Put, Goto, Keep, Shapes, files, world
  <2>2. \A c \in Boards : Board(c) \in held'[p] => Board(c) \in held[p] \/ IsFree(Board(c))
    BY <1>0, <1>19, LockNames DEF Mark, In, Put, Goto, Keep, Shapes, files, world
  <2>3. \A c \in Boards : LeavesBoard(p, c)
    BY <1>0, <1>19 DEF LeavesBoard, Mark, In, Put, Goto, Keep, Shapes, OpSafe, Guarding, OpEquipped,
       WithBoard, files, world
  <2>4. EntriesKnown'
    BY <1>0, <2>3, <1>19, Names DEF LeavesBoard, Mark, In, Put, Goto, Keep, Shapes, EntriesKnown,
       EntryRecord, OpSafe, OpEquipped, WithBoard, files, Unused
  <2>5. OpSafe(p)'
    BY <1>0, <2>3, <1>19, Names, LockNames DEF LeavesBoard, Mark, In, Put, Goto, Keep, Shapes,
       OpRecord, OpSafe, BoardSafe, Writable, Guarding, OpEquipped, WithBoard, Idle, files, world,
       EntriesKnown
  <2>6. \A c \in Boards : BoardSafe(c)'
    BY <1>0, <1>19 DEF Mark, In, Put, Goto, Keep, Shapes, OpSafe, BoardSafe, Writable, Guarding,
       OpEquipped, WithBoard, files, world
  <2> QED
    BY <1>0, <2>1, <2>2, <2>3, <2>4, <2>5, <2>6, DeletionKept
<1>20. ASSUME NEW p \in Procs, Write(p) PROVE DeletionInv'
  <2>1. \A r \in Procs : r # p => op'[r] = op[r] /\ held'[r] = held[r]
    BY <1>0, <1>20 DEF Write, Goto, Keep, Shapes, files, world
  <2>2. \A c \in Boards : Board(c) \in held'[p] => Board(c) \in held[p] \/ IsFree(Board(c))
    BY <1>0, <1>20, LockNames DEF Write, Goto, Keep, Shapes, files, world
  <2>3. \A c \in Boards : LeavesBoard(p, c)
    BY <1>0, <1>20 DEF LeavesBoard, Write, Goto, Keep, Shapes, OpSafe, Guarding, OpEquipped,
       WithBoard, files, world
  <2>4. EntriesKnown'
    BY <1>0, <2>3, <1>20, Names DEF LeavesBoard, Write, Goto, Keep, Shapes, EntriesKnown,
       EntryRecord, OpSafe, OpEquipped, WithBoard, files, Unused
  <2>5. OpSafe(p)'
    BY <1>0, <2>3, <1>20, Names, LockNames DEF LeavesBoard, Write, Goto, Keep, Shapes, OpRecord,
       OpSafe, BoardSafe, Writable, Guarding, OpEquipped, WithBoard, Idle, files, world,
       EntriesKnown
  <2>6. \A c \in Boards : BoardSafe(c)'
    BY <1>0, <1>20 DEF Write, Goto, Keep, Shapes, OpSafe, BoardSafe, Writable, Guarding, OpEquipped,
       WithBoard, files, world
  <2> QED
    BY <1>0, <2>1, <2>2, <2>3, <2>4, <2>5, <2>6, DeletionKept
<1>21. ASSUME NEW p \in Procs, EndWrite(p) PROVE DeletionInv'
  <2>1. \A r \in Procs : r # p => op'[r] = op[r] /\ held'[r] = held[r]
    BY <1>0, <1>21 DEF EndWrite, Goto, Keep, Shapes, files, world
  <2>2. \A c \in Boards : Board(c) \in held'[p] => Board(c) \in held[p] \/ IsFree(Board(c))
    BY <1>0, <1>21, LockNames DEF EndWrite, Goto, Keep, Shapes, files, world
  <2>3. \A c \in Boards : LeavesBoard(p, c)
    BY <1>0, <1>21 DEF LeavesBoard, EndWrite, Goto, Keep, Shapes, OpSafe, Guarding, OpEquipped,
       WithBoard, files, world
  <2>4. EntriesKnown'
    BY <1>0, <2>3, <1>21, Names DEF LeavesBoard, EndWrite, Goto, Keep, Shapes, EntriesKnown,
       EntryRecord, OpSafe, OpEquipped, WithBoard, files, Unused
  <2>5. OpSafe(p)'
    BY <1>0, <2>3, <1>21, Names, LockNames DEF LeavesBoard, EndWrite, Goto, Keep, Shapes, OpRecord,
       OpSafe, BoardSafe, Writable, Guarding, OpEquipped, WithBoard, Idle, files, world,
       EntriesKnown
  <2>6. \A c \in Boards : BoardSafe(c)'
    BY <1>0, <1>21 DEF EndWrite, Goto, Keep, Shapes, OpSafe, BoardSafe, Writable, Guarding,
       OpEquipped, WithBoard, files, world
  <2> QED
    BY <1>0, <2>1, <2>2, <2>3, <2>4, <2>5, <2>6, DeletionKept
<1>22. ASSUME NEW p \in Procs, Record(p) PROVE DeletionInv'
  <2>1. \A r \in Procs : r # p => op'[r] = op[r] /\ held'[r] = held[r]
    BY <1>0, <1>22 DEF Record, Put, Finish, Shapes, files, world
  <2>2. \A c \in Boards : Board(c) \in held'[p] => Board(c) \in held[p] \/ IsFree(Board(c))
    BY <1>0, <1>22, LockNames DEF Record, Put, Finish, Shapes, files, world
  <2>3. \A c \in Boards : LeavesBoard(p, c)
    BY <1>0, <1>22 DEF LeavesBoard, Record, Put, Finish, Shapes, OpSafe, Guarding, OpEquipped,
       WithBoard, files, world
  <2>4. EntriesKnown'
    BY <1>0, <2>3, <1>22, Names DEF LeavesBoard, Record, Put, Finish, Shapes, EntriesKnown,
       EntryRecord, OpSafe, OpEquipped, WithBoard, files, Unused
  <2>5. OpSafe(p)'
    BY <1>0, <2>3, <1>22, Names, LockNames DEF LeavesBoard, Record, Put, Finish, Shapes, OpRecord,
       OpSafe, BoardSafe, Writable, Guarding, OpEquipped, WithBoard, Idle, files, world,
       EntriesKnown
  <2>6. \A c \in Boards : BoardSafe(c)'
    BY <1>0, <1>22 DEF Record, Put, Finish, Shapes, OpSafe, BoardSafe, Writable, Guarding,
       OpEquipped, WithBoard, files, world
  <2> QED
    BY <1>0, <2>1, <2>2, <2>3, <2>4, <2>5, <2>6, DeletionKept
<1>23. ASSUME NEW p \in Procs, Select(p) PROVE DeletionInv'
  <2>1. \A r \in Procs : r # p => op'[r] = op[r] /\ held'[r] = held[r]
    BY <1>0, <1>23 DEF Select, In, Goto, Keep, Finish, Shapes, files, world
  <2>2. \A c \in Boards : Board(c) \in held'[p] => Board(c) \in held[p] \/ IsFree(Board(c))
    BY <1>0, <1>23, LockNames DEF Select, In, Goto, Keep, Finish, Shapes, files, world
  <2>3. \A c \in Boards : LeavesBoard(p, c)
    BY <1>0, <1>23 DEF LeavesBoard, Select, In, Goto, Keep, Finish, Shapes, OpSafe, Guarding,
       OpEquipped, WithBoard, files, world
  <2>4. EntriesKnown'
    BY <1>0, <2>3, <1>23, Names DEF LeavesBoard, Select, In, Goto, Keep, Finish, Shapes,
       EntriesKnown, EntryRecord, OpSafe, OpEquipped, WithBoard, files, Unused
  <2>5. OpSafe(p)'
    BY <1>0, <2>3, <1>23, Names, LockNames DEF LeavesBoard, Select, In, Goto, Keep, Finish, Shapes,
       OpRecord, OpSafe, BoardSafe, Writable, Guarding, OpEquipped, WithBoard, Idle, files, world,
       EntriesKnown
  <2>6. \A c \in Boards : BoardSafe(c)'
    BY <1>0, <1>23 DEF Select, In, Goto, Keep, Finish, Shapes, OpSafe, BoardSafe, Writable,
       Guarding, OpEquipped, WithBoard, files, world
  <2> QED
    BY <1>0, <2>1, <2>2, <2>3, <2>4, <2>5, <2>6, DeletionKept
<1>24. ASSUME NEW p \in Procs, Intend(p) PROVE DeletionInv'
  <2>1. \A r \in Procs : r # p => op'[r] = op[r] /\ held'[r] = held[r]
    BY <1>0, <1>24 DEF Intend, Finish, Keep, InDoubt, Shapes, files, world
  <2>2. \A c \in Boards : Board(c) \in held'[p] => Board(c) \in held[p] \/ IsFree(Board(c))
    BY <1>0, <1>24, LockNames DEF Intend, Finish, Keep, InDoubt, Shapes, files, world
  <2>3. \A c \in Boards : LeavesBoard(p, c)
    BY <1>0, <1>24 DEF LeavesBoard, Intend, Finish, Keep, InDoubt, Shapes, OpSafe, Guarding,
       OpEquipped, WithBoard, files, world
  <2>4. EntriesKnown'
    BY <1>0, <2>3, <1>24, Names DEF LeavesBoard, Intend, Finish, Keep, InDoubt, Shapes,
       EntriesKnown, EntryRecord, OpSafe, OpEquipped, WithBoard, files, Unused
  <2>5. OpSafe(p)'
    BY <1>0, <2>3, <1>24, Names, LockNames DEF LeavesBoard, Intend, Finish, Keep, InDoubt, Shapes,
       OpRecord, OpSafe, BoardSafe, Writable, Guarding, OpEquipped, WithBoard, Idle, files, world,
       EntriesKnown
  <2>6. \A c \in Boards : BoardSafe(c)'
    BY <1>0, <1>24 DEF Intend, Finish, Keep, InDoubt, Shapes, OpSafe, BoardSafe, Writable, Guarding,
       OpEquipped, WithBoard, files, world
  <2> QED
    BY <1>0, <2>1, <2>2, <2>3, <2>4, <2>5, <2>6, DeletionKept
<1>25. ASSUME NEW p \in Procs, DeleteConfirmed(p) PROVE DeletionInv'
  <2>1. \A r \in Procs : r # p => op'[r] = op[r] /\ held'[r] = held[r]
    BY <1>0, <1>25 DEF DeleteConfirmed, Gone, Goto, Shapes, files, world
  <2>2. \A c \in Boards : Board(c) \in held'[p] => Board(c) \in held[p] \/ IsFree(Board(c))
    BY <1>0, <1>25, LockNames DEF DeleteConfirmed, Gone, Goto, Shapes, files, world
  <2>3. \A c \in Boards : LeavesBoard(p, c)
    BY <1>0, <1>25 DEF LeavesBoard, DeleteConfirmed, Gone, Goto, Shapes, OpSafe, Guarding,
       OpEquipped, WithBoard, files, world
  <2>4. EntriesKnown'
    BY <1>0, <2>3, <1>25, Names DEF LeavesBoard, DeleteConfirmed, Gone, Goto, Shapes, EntriesKnown,
       EntryRecord, OpSafe, OpEquipped, WithBoard, files, Unused
  <2>5. OpSafe(p)'
    BY <1>0, <2>3, <1>25, Names, LockNames DEF LeavesBoard, DeleteConfirmed, Gone, Goto, Shapes,
       OpRecord, OpSafe, BoardSafe, Writable, Guarding, OpEquipped, WithBoard, Idle, files, world,
       EntriesKnown
  <2>6. \A c \in Boards : BoardSafe(c)'
    BY <1>0, <1>25 DEF DeleteConfirmed, Gone, Goto, Shapes, OpSafe, BoardSafe, Writable, Guarding,
       OpEquipped, WithBoard, files, world
  <2> QED
    BY <1>0, <2>1, <2>2, <2>3, <2>4, <2>5, <2>6, DeletionKept
<1>26. ASSUME NEW p \in Procs, Rejected(p) PROVE DeletionInv'
  <2>1. \A r \in Procs : r # p => op'[r] = op[r] /\ held'[r] = held[r]
    BY <1>0, <1>26 DEF Rejected, Finish, Shapes, files, world
  <2>2. \A c \in Boards : Board(c) \in held'[p] => Board(c) \in held[p] \/ IsFree(Board(c))
    BY <1>0, <1>26, LockNames DEF Rejected, Finish, Shapes, files, world
  <2>3. \A c \in Boards : LeavesBoard(p, c)
    BY <1>0, <1>26 DEF LeavesBoard, Rejected, Finish, Shapes, OpSafe, Guarding, OpEquipped,
       WithBoard, files, world
  <2>4. EntriesKnown'
    BY <1>0, <2>3, <1>26, Names DEF LeavesBoard, Rejected, Finish, Shapes, EntriesKnown,
       EntryRecord, OpSafe, OpEquipped, WithBoard, files, Unused
  <2>5. OpSafe(p)'
    BY <1>0, <2>3, <1>26, Names, LockNames DEF LeavesBoard, Rejected, Finish, Shapes, OpRecord,
       OpSafe, BoardSafe, Writable, Guarding, OpEquipped, WithBoard, Idle, files, world,
       EntriesKnown
  <2>6. \A c \in Boards : BoardSafe(c)'
    BY <1>0, <1>26 DEF Rejected, Finish, Shapes, OpSafe, BoardSafe, Writable, Guarding, OpEquipped,
       WithBoard, files, world
  <2> QED
    BY <1>0, <2>1, <2>2, <2>3, <2>4, <2>5, <2>6, DeletionKept
<1>27. ASSUME NEW p \in Procs, Unanswered(p) PROVE DeletionInv'
  <2>1. \A r \in Procs : r # p => op'[r] = op[r] /\ held'[r] = held[r]
    BY <1>0, <1>27 DEF Unanswered, Gone, Finish, Shapes, files, world
  <2>2. \A c \in Boards : Board(c) \in held'[p] => Board(c) \in held[p] \/ IsFree(Board(c))
    BY <1>0, <1>27, LockNames DEF Unanswered, Gone, Finish, Shapes, files, world
  <2>3. \A c \in Boards : LeavesBoard(p, c)
    BY <1>0, <1>27 DEF LeavesBoard, Unanswered, Gone, Finish, Shapes, OpSafe, Guarding, OpEquipped,
       WithBoard, files, world
  <2>4. EntriesKnown'
    BY <1>0, <2>3, <1>27, Names DEF LeavesBoard, Unanswered, Gone, Finish, Shapes, EntriesKnown,
       EntryRecord, OpSafe, OpEquipped, WithBoard, files, Unused
  <2>5. OpSafe(p)'
    BY <1>0, <2>3, <1>27, Names, LockNames DEF LeavesBoard, Unanswered, Gone, Finish, Shapes,
       OpRecord, OpSafe, BoardSafe, Writable, Guarding, OpEquipped, WithBoard, Idle, files, world,
       EntriesKnown
  <2>6. \A c \in Boards : BoardSafe(c)'
    BY <1>0, <1>27 DEF Unanswered, Gone, Finish, Shapes, OpSafe, BoardSafe, Writable, Guarding,
       OpEquipped, WithBoard, files, world
  <2> QED
    BY <1>0, <2>1, <2>2, <2>3, <2>4, <2>5, <2>6, DeletionKept
<1>28. ASSUME NEW p \in Procs, Unlink(p) PROVE DeletionInv'
  <2>1. \A r \in Procs : r # p => op'[r] = op[r] /\ held'[r] = held[r]
    BY <1>0, <1>28 DEF Unlink, Finish, Shapes, files, world
  <2>2. \A c \in Boards : Board(c) \in held'[p] => Board(c) \in held[p] \/ IsFree(Board(c))
    BY <1>0, <1>28, LockNames DEF Unlink, Finish, Shapes, files, world
  <2>3. \A c \in Boards : LeavesBoard(p, c)
    BY <1>0, <1>28 DEF LeavesBoard, Unlink, Finish, Shapes, OpSafe, Guarding, OpEquipped, WithBoard,
       files, world
  <2>4. EntriesKnown'
    BY <1>0, <2>3, <1>28, Names DEF LeavesBoard, Unlink, Finish, Shapes, EntriesKnown, EntryRecord,
       OpSafe, OpEquipped, WithBoard, files, Unused
  <2>5. OpSafe(p)'
    BY <1>0, <2>3, <1>28, Names, LockNames DEF LeavesBoard, Unlink, Finish, Shapes, OpRecord,
       OpSafe, BoardSafe, Writable, Guarding, OpEquipped, WithBoard, Idle, files, world,
       EntriesKnown
  <2>6. \A c \in Boards : BoardSafe(c)'
    BY <1>0, <1>28 DEF Unlink, Finish, Shapes, OpSafe, BoardSafe, Writable, Guarding, OpEquipped,
       WithBoard, files, world
  <2> QED
    BY <1>0, <2>1, <2>2, <2>3, <2>4, <2>5, <2>6, DeletionKept
<1>29. ASSUME NEW p \in Procs, EndOther(p) PROVE DeletionInv'
  <2>1. \A r \in Procs : r # p => op'[r] = op[r] /\ held'[r] = held[r]
    BY <1>0, <1>29 DEF EndOther, Finish, Shapes, files, world
  <2>2. \A c \in Boards : Board(c) \in held'[p] => Board(c) \in held[p] \/ IsFree(Board(c))
    BY <1>0, <1>29, LockNames DEF EndOther, Finish, Shapes, files, world
  <2>3. \A c \in Boards : LeavesBoard(p, c)
    BY <1>0, <1>29 DEF LeavesBoard, EndOther, Finish, Shapes, OpSafe, Guarding, OpEquipped,
       WithBoard, files, world
  <2>4. EntriesKnown'
    BY <1>0, <2>3, <1>29, Names DEF LeavesBoard, EndOther, Finish, Shapes, EntriesKnown,
       EntryRecord, OpSafe, OpEquipped, WithBoard, files, Unused
  <2>5. OpSafe(p)'
    BY <1>0, <2>3, <1>29, Names, LockNames DEF LeavesBoard, EndOther, Finish, Shapes, OpRecord,
       OpSafe, BoardSafe, Writable, Guarding, OpEquipped, WithBoard, Idle, files, world,
       EntriesKnown
  <2>6. \A c \in Boards : BoardSafe(c)'
    BY <1>0, <1>29 DEF EndOther, Finish, Shapes, OpSafe, BoardSafe, Writable, Guarding, OpEquipped,
       WithBoard, files, world
  <2> QED
    BY <1>0, <2>1, <2>2, <2>3, <2>4, <2>5, <2>6, DeletionKept
<1>30. ASSUME NEW p \in Procs, Fault(p) PROVE DeletionInv'
  <2>1. \A r \in Procs : r # p => op'[r] = op[r] /\ held'[r] = held[r]
    BY <1>0, <1>30 DEF Fault, Gone, Finish, Shapes, files, world
  <2>2. \A c \in Boards : Board(c) \in held'[p] => Board(c) \in held[p] \/ IsFree(Board(c))
    BY <1>0, <1>30, LockNames DEF Fault, Gone, Finish, Shapes, files, world
  <2>3. \A c \in Boards : LeavesBoard(p, c)
    BY <1>0, <1>30 DEF LeavesBoard, Fault, Gone, Finish, Shapes, OpSafe, Guarding, OpEquipped,
       WithBoard, files, world
  <2>4. EntriesKnown'
    BY <1>0, <2>3, <1>30, Names DEF LeavesBoard, Fault, Gone, Finish, Shapes, EntriesKnown,
       EntryRecord, OpSafe, OpEquipped, WithBoard, files, Unused
  <2>5. OpSafe(p)'
    BY <1>0, <2>3, <1>30, Names, LockNames DEF LeavesBoard, Fault, Gone, Finish, Shapes, OpRecord,
       OpSafe, BoardSafe, Writable, Guarding, OpEquipped, WithBoard, Idle, files, world,
       EntriesKnown
  <2>6. \A c \in Boards : BoardSafe(c)'
    BY <1>0, <1>30 DEF Fault, Gone, Finish, Shapes, OpSafe, BoardSafe, Writable, Guarding,
       OpEquipped, WithBoard, files, world
  <2> QED
    BY <1>0, <2>1, <2>2, <2>3, <2>4, <2>5, <2>6, DeletionKept
<1>31. ASSUME NEW b \in Boards, LinkSetting(b) PROVE DeletionInv'
  BY <1>0, <1>31 DEF LinkSetting, DeletionInv, OpSafe, BoardSafe, Writable, LocksApart,
     EntriesKnown, world
<1>32. ASSUME NEW b \in Boards, LateDelete(b) PROVE DeletionInv'
  <2>1. \A r \in Procs : OpSafe(r)'
    BY <1>0, <1>32, OthersSafe DEF LateDelete, Shapes, files
  <2>2. \A c \in Boards : BoardSafe(c)'
    BY <1>0, <1>32 DEF LateDelete, Shapes, BoardSafe, Writable, files
  <2> QED
    BY <1>0, <2>1, <2>2, <1>32 DEF LateDelete, DeletionInv, LocksApart, EntriesKnown, files, Shapes,
       EntryRecord
<1>33. CASE UNCHANGED vars
  BY <1>0, <1>33 DEF vars, DeletionInv, OpSafe, BoardSafe, Writable, LocksApart, EntriesKnown
<1> QED
  BY <1>1, <1>2, <1>3, <1>4, <1>5, <1>6, <1>7, <1>8, <1>9, <1>10, <1>11, <1>12, <1>13, 
     <1>14, <1>15, <1>16, <1>17, <1>18, <1>19, <1>20, <1>21, <1>22, <1>23, <1>24, 
     <1>25, <1>26, <1>27, <1>28, <1>29, <1>30, <1>31, <1>32, <1>33 DEF Next, Start, Step, Create, Publish, Delete

\* It holds at the start.
LEMMA DeletionInit == Init => DeletionInv
<1> SUFFICES ASSUME Init PROVE DeletionInv
  OBVIOUS
<1>1. \A p \in Procs : OpSafe(p)
  BY DEF Init, OpSafe, Idle, Guarding
<1>2. \A b \in Boards : BoardSafe(b)
  BY Names DEF Init, BoardSafe
<1>3. LocksApart /\ EntriesKnown
  BY DEF Init, LocksApart, EntriesKnown, Unused
<1> QED
  BY <1>1, <1>2, <1>3 DEF DeletionInv

\* Nobody writes to a board while a DELETE of it may still take effect, and a
\* board recorded as deleted is gone, for any number of instances that delete,
\* retry, publish and die.
THEOREM DeletionFinal == Spec => []DeletionIsFinal
<1>1. ShapeInv /\ DeletionInv => DeletionIsFinal
  BY Names DEF ShapeInv, Shapes, Equipped, OpEquipped, WithBoard, OpRecord, DeletionInv,
     DeletionIsFinal, OpSafe, BoardSafe, Writing
<1> QED
  BY <1>1, DeletionInit, DeletionStep, ShapeInit, ShapeStep, PTL DEF Spec

-----------------------------------------------------------------------------
(* Publishing: an entry belongs to the operation that holds its lock.         *)

Publishing == {"mark", "write", "writing", "failed", "published"}
Creating == {"post", "acknowledge", "refuse"}
\* A creation has its intent in the registry until its answer is recorded; a
\* publication has the board of its entry, and a plot that suits what was
\* interrupted.
OpHolds(p) ==
  /\ op[p].pc \in Publishing \cup Creating => Entry(op[p].entry) \in held[p]
  /\ op[p].pc \in Publishing => op[p].board # None /\ entry[op[p].entry].board = op[p].board
  /\ op[p].pc = "mark" /\ map[op[p].entry] = "unfinished" => entry[op[p].entry].plot = op[p].plot
  /\ op[p].pc \in Creating =>
       /\ entry[op[p].entry].board = None /\ entry[op[p].entry].status = "pending_creation"
       /\ entry[op[p].entry].born = op[p].plot
\* An entry without a board was created for a plot and never published.
EntrySafe(e) ==
  entry[e].board = None =>
    /\ map[e] = "empty"
    /\ e \in Used => entry[e].status \in {"pending_creation", "creation_rejected"} /\ entry[e].born \in Fresh
EntriesApart ==
  \A e \in Entries, p \in Procs, r \in Procs : Entry(e) \in held[p] /\ Entry(e) \in held[r] => p = r
LockedIsUsed == \A e \in Entries, p \in Procs : Entry(e) \in held[p] => e \in Used
PublishInv ==
  /\ \A p \in Procs : OpHolds(p)
  /\ \A e \in Entries : EntrySafe(e)
  /\ EntriesApart /\ LockedIsUsed

\* An operation keeps the entry it locked while others go on.
LEMMA OthersHold ==
  ASSUME Shapes, Equipped, NEW r \in Procs, OpHolds(r), op'[r] = op[r], held'[r] = held[r],
         \A e \in Entries : Entry(e) \in held[r] => entry'[e] = entry[e] /\ map'[e] = map[e]
  PROVE  OpHolds(r)'
<1>1. op[r].pc \in Publishing \cup Creating => op[r].entry \in Entries
  BY DEF Equipped, OpEquipped, WithEntry, Publishing, Creating, Used
<1>2. op[r].pc \in Publishing \cup Creating =>
        entry'[op[r].entry] = entry[op[r].entry] /\ map'[op[r].entry] = map[op[r].entry]
  BY <1>1 DEF OpHolds
<1> QED
  BY <1>2 DEF OpHolds, Publishing, Creating

\* Nobody takes the lock of an entry another holds.
LEMMA EntriesApartStep ==
  ASSUME EntriesApart, NEW p \in Procs, \A r \in Procs : r # p => held'[r] = held[r],
         \A e \in Entries : Entry(e) \in held'[p] => Entry(e) \in held[p] \/ IsFreeFor(p, Entry(e))
  PROVE  EntriesApart'
BY DEF EntriesApart, IsFreeFor

\* Nobody holds an entry that is not there yet.
LEMMA UnusedIsFree ==
  ASSUME LockedIsUsed, NEW e \in Entries, e \notin Used
  PROVE  IsFree(Entry(e))
BY DEF LockedIsUsed, IsFree

\* The plot of an interrupted publication stays while it is unfinished.
KeepsPlot == \A e \in Entries : map[e] = "unfinished" /\ map'[e] = "unfinished" => entry'[e].plot = entry[e].plot

\* A step of p keeps the invariant when its own part and the registry do.
LEMMA PublishKept ==
  ASSUME Shapes, Equipped, EntriesApart, LockedIsUsed, Used \subseteq Used', \A r \in Procs : OpHolds(r), NEW p \in Procs,
         \A r \in Procs : r # p => op'[r] = op[r] /\ held'[r] = held[r],
         \A e \in Entries : Entry(e) \in held'[p] => (Entry(e) \in held[p] \/ IsFreeFor(p, Entry(e))) /\ e \in Used',
         \A e \in Entries : Entry(e) \notin held[p] /\ ~IsFree(Entry(e)) => entry'[e] = entry[e] /\ map'[e] = map[e],
         OpHolds(p)', \A e \in Entries : EntrySafe(e)'
  PROVE  PublishInv'
<1>1. ASSUME NEW r \in Procs, r # p PROVE OpHolds(r)'
  <2>1. \A e \in Entries : Entry(e) \in held[r] => Entry(e) \notin held[p] /\ ~IsFree(Entry(e))
    BY <1>1 DEF EntriesApart, IsFree
  <2> QED
    BY <1>1, <2>1, OthersHold
<1>2. LockedIsUsed'
  BY DEF LockedIsUsed
<1> QED
  BY <1>1, <1>2, EntriesApartStep DEF PublishInv

\* Every step keeps the invariant of publications, and the plot of an interrupted one.
LEMMA PublishStep ==
  ASSUME ShapeInv, PublishInv, [Next]_vars
  PROVE  PublishInv' /\ KeepsPlot
<1>0. /\ Shapes /\ Equipped /\ Roomy /\ Used \subseteq Entries /\ Blank
      /\ Used \subseteq Used' /\ Equipped'
      /\ EntriesApart /\ LockedIsUsed /\ (\A e \in Entries : EntrySafe(e))
      /\ \A p \in Procs : OpHolds(p) /\ OpEquipped(p)
  BY UsedGrows, EquippedStep DEF ShapeInv, PublishInv, Used, Equipped
<1>1. ASSUME NEW p \in Procs, NEW q \in Fresh, StartGenerate(p, q) PROVE PublishInv' /\ KeepsPlot
  <2>1. \A r \in Procs : r # p => op'[r] = op[r] /\ held'[r] = held[r]
    BY <1>0, <1>1 DEF StartGenerate, Begin, Shapes, files, world
  <2>2. \A e \in Entries : Entry(e) \in held'[p] => (Entry(e) \in held[p] \/ IsFreeFor(p, Entry(e))) /\ e \in Used'
    BY <1>0, <1>1, LockNames DEF StartGenerate, Begin, Shapes, files, world, LockedIsUsed, IsFree,
       IsFreeFor, OpEquipped, WithEntry, Earlier, Equipped
  <2>3. \A e \in Entries : Entry(e) \notin held[p] /\ ~IsFree(Entry(e)) => entry'[e] = entry[e] /\ map'[e] = map[e]
    BY <1>0, <1>1 DEF StartGenerate, Begin, Shapes, files, OpHolds, Publishing, Creating
  <2>4. OpHolds(p)'
    BY <1>0, <1>1, LockNames DEF StartGenerate, Begin, Shapes, OpRecord, OpHolds, Publishing,
       Creating, Idle, files, world, OpEquipped, WithBoard, WithEntry
  <2>5. \A e \in Entries : EntrySafe(e)'
    BY <1>0, <1>1, Names DEF StartGenerate, Begin, Shapes, EntrySafe, OpHolds, Publishing, Creating,
       files, Used
  <2>6. KeepsPlot
    BY <1>0, <1>1 DEF StartGenerate, Begin, Shapes, EntrySafe, OpHolds, Publishing, Creating, files,
       KeepsPlot
  <2> QED
    BY <1>0, <2>1, <2>2, <2>3, <2>4, <2>5, <2>6, PublishKept
<1>2. ASSUME NEW p \in Procs, NEW q \in Fresh, StartCreate(p, q) PROVE PublishInv' /\ KeepsPlot
  <2>1. \A r \in Procs : r # p => op'[r] = op[r] /\ held'[r] = held[r]
    BY <1>0, <1>2 DEF StartCreate, Begin, Shapes, files, world
  <2>2. \A e \in Entries : Entry(e) \in held'[p] => (Entry(e) \in held[p] \/ IsFreeFor(p, Entry(e))) /\ e \in Used'
    BY <1>0, <1>2, LockNames DEF StartCreate, Begin, Shapes, files, world, LockedIsUsed, IsFree,
       IsFreeFor, OpEquipped, WithEntry, Earlier, Equipped
  <2>3. \A e \in Entries : Entry(e) \notin held[p] /\ ~IsFree(Entry(e)) => entry'[e] = entry[e] /\ map'[e] = map[e]
    BY <1>0, <1>2 DEF StartCreate, Begin, Shapes, files, OpHolds, Publishing, Creating
  <2>4. OpHolds(p)'
    BY <1>0, <1>2, LockNames DEF StartCreate, Begin, Shapes, OpRecord, OpHolds, Publishing,
       Creating, Idle, files, world, OpEquipped, WithBoard, WithEntry
  <2>5. \A e \in Entries : EntrySafe(e)'
    BY <1>0, <1>2, Names DEF StartCreate, Begin, Shapes, EntrySafe, OpHolds, Publishing, Creating,
       files, Used
  <2>6. KeepsPlot
    BY <1>0, <1>2 DEF StartCreate, Begin, Shapes, EntrySafe, OpHolds, Publishing, Creating, files,
       KeepsPlot
  <2> QED
    BY <1>0, <2>1, <2>2, <2>3, <2>4, <2>5, <2>6, PublishKept
<1>3. ASSUME NEW p \in Procs, NEW f \in 0..MaxEntries, NEW b \in Boards, StartLink(p, f, b)
      PROVE PublishInv' /\ KeepsPlot
  <2>1. \A r \in Procs : r # p => op'[r] = op[r] /\ held'[r] = held[r]
    BY <1>0, <1>3 DEF StartLink, Begin, Writable, Shapes, files, world
  <2>2. \A e \in Entries : Entry(e) \in held'[p] => (Entry(e) \in held[p] \/ IsFreeFor(p, Entry(e))) /\ e \in Used'
    BY <1>0, <1>3, LockNames DEF StartLink, Begin, Writable, Shapes, files, world, LockedIsUsed,
       IsFree, IsFreeFor, OpEquipped, WithEntry, Earlier, Equipped
  <2>3. \A e \in Entries : Entry(e) \notin held[p] /\ ~IsFree(Entry(e)) => entry'[e] = entry[e] /\ map'[e] = map[e]
    BY <1>0, <1>3 DEF StartLink, Begin, Writable, Shapes, files, OpHolds, Publishing, Creating
  <2>4. OpHolds(p)'
    BY <1>0, <1>3, LockNames DEF StartLink, Begin, Writable, Shapes, OpRecord, OpHolds, Publishing,
       Creating, Idle, files, world, OpEquipped, WithBoard, WithEntry
  <2>5. \A e \in Entries : EntrySafe(e)'
    BY <1>0, <1>3, Names DEF StartLink, Begin, Writable, Shapes, EntrySafe, OpHolds, Publishing,
       Creating, files, Used
  <2>6. KeepsPlot
    BY <1>0, <1>3 DEF StartLink, Begin, Writable, Shapes, EntrySafe, OpHolds, Publishing, Creating,
       files, KeepsPlot
  <2> QED
    BY <1>0, <2>1, <2>2, <2>3, <2>4, <2>5, <2>6, PublishKept
<1>4. ASSUME NEW p \in Procs, NEW f \in Entries, NEW q \in Plots, StartSync(p, f, q)
      PROVE PublishInv' /\ KeepsPlot
  <2>1. \A r \in Procs : r # p => op'[r] = op[r] /\ held'[r] = held[r]
    BY <1>0, <1>4 DEF StartSync, Begin, Shapes, files, world
  <2>2. \A e \in Entries : Entry(e) \in held'[p] => (Entry(e) \in held[p] \/ IsFreeFor(p, Entry(e))) /\ e \in Used'
    BY <1>0, <1>4, LockNames DEF StartSync, Begin, Shapes, files, world, LockedIsUsed, IsFree,
       IsFreeFor, OpEquipped, WithEntry, Earlier, Equipped
  <2>3. \A e \in Entries : Entry(e) \notin held[p] /\ ~IsFree(Entry(e)) => entry'[e] = entry[e] /\ map'[e] = map[e]
    BY <1>0, <1>4 DEF StartSync, Begin, Shapes, files, OpHolds, Publishing, Creating
  <2>4. OpHolds(p)'
    BY <1>0, <1>4, LockNames DEF StartSync, Begin, Shapes, OpRecord, OpHolds, Publishing, Creating,
       Idle, files, world, OpEquipped, WithBoard, WithEntry
  <2>5. \A e \in Entries : EntrySafe(e)'
    BY <1>0, <1>4, Names DEF StartSync, Begin, Shapes, EntrySafe, OpHolds, Publishing, Creating,
       files, Used
  <2>6. KeepsPlot
    BY <1>0, <1>4 DEF StartSync, Begin, Shapes, EntrySafe, OpHolds, Publishing, Creating, files,
       KeepsPlot
  <2> QED
    BY <1>0, <2>1, <2>2, <2>3, <2>4, <2>5, <2>6, PublishKept
<1>5. ASSUME NEW p \in Procs, NEW f \in Entries, NEW q \in Updates, StartUpdate(p, f, q)
      PROVE PublishInv' /\ KeepsPlot
  <2>1. \A r \in Procs : r # p => op'[r] = op[r] /\ held'[r] = held[r]
    BY <1>0, <1>5 DEF StartUpdate, Begin, CanSync, Keep, Shapes, files, world
  <2>2. \A e \in Entries : Entry(e) \in held'[p] => (Entry(e) \in held[p] \/ IsFreeFor(p, Entry(e))) /\ e \in Used'
    BY <1>0, <1>5, LockNames DEF StartUpdate, Begin, CanSync, Keep, Shapes, files, world,
       LockedIsUsed, IsFree, IsFreeFor, OpEquipped, WithEntry, Earlier, Equipped
  <2>3. \A e \in Entries : Entry(e) \notin held[p] /\ ~IsFree(Entry(e)) => entry'[e] = entry[e] /\ map'[e] = map[e]
    BY <1>0, <1>5 DEF StartUpdate, Begin, CanSync, Keep, Shapes, files, OpHolds, Publishing,
       Creating
  <2>4. OpHolds(p)'
    BY <1>0, <1>5, LockNames DEF StartUpdate, Begin, CanSync, Keep, Shapes, OpRecord, OpHolds,
       Publishing, Creating, Idle, files, world, OpEquipped, WithBoard, WithEntry
  <2>5. \A e \in Entries : EntrySafe(e)'
    BY <1>0, <1>5, Names DEF StartUpdate, Begin, CanSync, Keep, Shapes, EntrySafe, OpHolds,
       Publishing, Creating, files, Used
  <2>6. KeepsPlot
    BY <1>0, <1>5 DEF StartUpdate, Begin, CanSync, Keep, Shapes, EntrySafe, OpHolds, Publishing,
       Creating, files, KeepsPlot
  <2> QED
    BY <1>0, <2>1, <2>2, <2>3, <2>4, <2>5, <2>6, PublishKept
<1>6. ASSUME NEW p \in Procs, NEW f \in Entries, StartDelete(p, f) PROVE PublishInv' /\ KeepsPlot
  <2>1. \A r \in Procs : r # p => op'[r] = op[r] /\ held'[r] = held[r]
    BY <1>0, <1>6 DEF StartDelete, Begin, Keep, Shapes, files, world
  <2>2. \A e \in Entries : Entry(e) \in held'[p] => (Entry(e) \in held[p] \/ IsFreeFor(p, Entry(e))) /\ e \in Used'
    BY <1>0, <1>6, LockNames DEF StartDelete, Begin, Keep, Shapes, files, world, LockedIsUsed,
       IsFree, IsFreeFor, OpEquipped, WithEntry, Earlier, Equipped
  <2>3. \A e \in Entries : Entry(e) \notin held[p] /\ ~IsFree(Entry(e)) => entry'[e] = entry[e] /\ map'[e] = map[e]
    BY <1>0, <1>6 DEF StartDelete, Begin, Keep, Shapes, files, OpHolds, Publishing, Creating
  <2>4. OpHolds(p)'
    BY <1>0, <1>6, LockNames DEF StartDelete, Begin, Keep, Shapes, OpRecord, OpHolds, Publishing,
       Creating, Idle, files, world, OpEquipped, WithBoard, WithEntry
  <2>5. \A e \in Entries : EntrySafe(e)'
    BY <1>0, <1>6, Names DEF StartDelete, Begin, Keep, Shapes, EntrySafe, OpHolds, Publishing,
       Creating, files, Used
  <2>6. KeepsPlot
    BY <1>0, <1>6 DEF StartDelete, Begin, Keep, Shapes, EntrySafe, OpHolds, Publishing, Creating,
       files, KeepsPlot
  <2> QED
    BY <1>0, <2>1, <2>2, <2>3, <2>4, <2>5, <2>6, PublishKept
<1>7. ASSUME NEW p \in Procs, NEW b \in Boards, StartOther(p, b) PROVE PublishInv' /\ KeepsPlot
  <2>1. \A r \in Procs : r # p => op'[r] = op[r] /\ held'[r] = held[r]
    BY <1>0, <1>7 DEF StartOther, Begin, Keep, Writable, Shapes, files, world
  <2>2. \A e \in Entries : Entry(e) \in held'[p] => (Entry(e) \in held[p] \/ IsFreeFor(p, Entry(e))) /\ e \in Used'
    BY <1>0, <1>7, LockNames DEF StartOther, Begin, Keep, Writable, Shapes, files, world,
       LockedIsUsed, IsFree, IsFreeFor, OpEquipped, WithEntry, Earlier, Equipped
  <2>3. \A e \in Entries : Entry(e) \notin held[p] /\ ~IsFree(Entry(e)) => entry'[e] = entry[e] /\ map'[e] = map[e]
    BY <1>0, <1>7 DEF StartOther, Begin, Keep, Writable, Shapes, files, OpHolds, Publishing,
       Creating
  <2>4. OpHolds(p)'
    BY <1>0, <1>7, LockNames DEF StartOther, Begin, Keep, Writable, Shapes, OpRecord, OpHolds,
       Publishing, Creating, Idle, files, world, OpEquipped, WithBoard, WithEntry
  <2>5. \A e \in Entries : EntrySafe(e)'
    BY <1>0, <1>7, Names DEF StartOther, Begin, Keep, Writable, Shapes, EntrySafe, OpHolds,
       Publishing, Creating, files, Used
  <2>6. KeepsPlot
    BY <1>0, <1>7 DEF StartOther, Begin, Keep, Writable, Shapes, EntrySafe, OpHolds, Publishing,
       Creating, files, KeepsPlot
  <2> QED
    BY <1>0, <2>1, <2>2, <2>3, <2>4, <2>5, <2>6, PublishKept
<1>8. ASSUME NEW p \in Procs, Share(p) PROVE PublishInv' /\ KeepsPlot
  <2>h. held'[p] = {} \/ held'[p] = held[p] \cup {Case("shared")}
    BY <1>0, <1>8 DEF Share, Keep, Finish, Shapes
  <2>1. \A r \in Procs : r # p => op'[r] = op[r] /\ held'[r] = held[r]
    BY <1>0, <1>8 DEF Share, Sharing, Keep, Finish, Shapes, files, world
  <2>2. \A e \in Entries : Entry(e) \in held'[p] => (Entry(e) \in held[p] \/ IsFreeFor(p, Entry(e))) /\ e \in Used'
    BY <1>0, <2>h, LockNames DEF LockedIsUsed, IsFree, IsFreeFor
  <2>3. \A e \in Entries : Entry(e) \notin held[p] /\ ~IsFree(Entry(e)) => entry'[e] = entry[e] /\ map'[e] = map[e]
    BY <1>0, <1>8 DEF Share, Sharing, Keep, Finish, Shapes, files, OpHolds, Publishing, Creating
  <2>4. OpHolds(p)'
    BY <1>0, <1>8, LockNames DEF Share, Sharing, Keep, Finish, Shapes, OpRecord, OpHolds,
       Publishing, Creating, Idle, files, world, OpEquipped, WithBoard, WithEntry
  <2>5. \A e \in Entries : EntrySafe(e)'
    BY <1>0, <1>8, Names DEF Share, Sharing, Keep, Finish, Shapes, EntrySafe, OpHolds, Publishing,
       Creating, files, Used
  <2>6. KeepsPlot
    BY <1>0, <1>8 DEF Share, Sharing, Keep, Finish, Shapes, EntrySafe, OpHolds, Publishing,
       Creating, files, KeepsPlot
  <2> QED
    BY <1>0, <2>1, <2>2, <2>3, <2>4, <2>5, <2>6, PublishKept
<1>9. ASSUME NEW p \in Procs, Enter(p) PROVE PublishInv' /\ KeepsPlot
  <2>h. held'[p] = {} \/ held'[p] = held[p] \cup {Registry}
    BY <1>0, <1>9 DEF Enter, Keep, Finish, Shapes
  <2>1. \A r \in Procs : r # p => op'[r] = op[r] /\ held'[r] = held[r]
    BY <1>0, <1>9 DEF Enter, Keep, Finish, Shapes, files, world
  <2>2. \A e \in Entries : Entry(e) \in held'[p] => (Entry(e) \in held[p] \/ IsFreeFor(p, Entry(e))) /\ e \in Used'
    BY <1>0, <2>h, LockNames DEF LockedIsUsed, IsFree, IsFreeFor
  <2>3. \A e \in Entries : Entry(e) \notin held[p] /\ ~IsFree(Entry(e)) => entry'[e] = entry[e] /\ map'[e] = map[e]
    BY <1>0, <1>9 DEF Enter, Keep, Finish, Shapes, files, OpHolds, Publishing, Creating
  <2>4. OpHolds(p)'
    BY <1>0, <1>9, LockNames DEF Enter, Keep, Finish, Shapes, OpRecord, OpHolds, Publishing,
       Creating, Idle, files, world, OpEquipped, WithBoard, WithEntry
  <2>5. \A e \in Entries : EntrySafe(e)'
    BY <1>0, <1>9, Names DEF Enter, Keep, Finish, Shapes, EntrySafe, OpHolds, Publishing, Creating,
       files, Used
  <2>6. KeepsPlot
    BY <1>0, <1>9 DEF Enter, Keep, Finish, Shapes, EntrySafe, OpHolds, Publishing, Creating, files,
       KeepsPlot
  <2> QED
    BY <1>0, <2>1, <2>2, <2>3, <2>4, <2>5, <2>6, PublishKept
<1>10. ASSUME NEW p \in Procs, Check(p) PROVE PublishInv' /\ KeepsPlot
  <2>1. \A r \in Procs : r # p => op'[r] = op[r] /\ held'[r] = held[r]
    BY <1>0, <1>10 DEF Check, In, Goto, Keep, Finish, Shapes, files, world
  <2>2. \A e \in Entries : Entry(e) \in held'[p] => (Entry(e) \in held[p] \/ IsFreeFor(p, Entry(e))) /\ e \in Used'
    BY <1>0, <1>10, LockNames DEF Check, In, Goto, Keep, Finish, Shapes, files, world, LockedIsUsed,
       IsFree, IsFreeFor, OpEquipped, WithEntry, Earlier, Equipped
  <2>3. \A e \in Entries : Entry(e) \notin held[p] /\ ~IsFree(Entry(e)) => entry'[e] = entry[e] /\ map'[e] = map[e]
    BY <1>0, <1>10 DEF Check, In, Goto, Keep, Finish, Shapes, files, OpHolds, Publishing, Creating
  <2>4. OpHolds(p)'
    BY <1>0, <1>10, LockNames DEF Check, In, Goto, Keep, Finish, Shapes, OpRecord, OpHolds,
       Publishing, Creating, Idle, files, world, OpEquipped, WithBoard, WithEntry
  <2>5. \A e \in Entries : EntrySafe(e)'
    BY <1>0, <1>10, Names DEF Check, In, Goto, Keep, Finish, Shapes, EntrySafe, OpHolds, Publishing,
       Creating, files, Used
  <2>6. KeepsPlot
    BY <1>0, <1>10 DEF Check, In, Goto, Keep, Finish, Shapes, EntrySafe, OpHolds, Publishing,
       Creating, files, KeepsPlot
  <2> QED
    BY <1>0, <2>1, <2>2, <2>3, <2>4, <2>5, <2>6, PublishKept
<1>11. ASSUME NEW p \in Procs, CreateNew(p) PROVE PublishInv' /\ KeepsPlot
  <2>0. /\ NextEntry \in Entries /\ NextEntry \notin Used /\ IsFree(Entry(NextEntry)) /\ op[p].plot \in Fresh
        /\ entry[NextEntry].board = None
    <3>1. p \in Appending /\ op[p].plot \in Fresh
      BY <1>0, <1>11 DEF CreateNew, In, Appending, OpEquipped
    <3> QED
      BY <1>0, <3>1, NextIsUnused, UnusedIsFree DEF Blank, Used, Unused
  <2>1. \A r \in Procs : r # p => op'[r] = op[r] /\ held'[r] = held[r]
    BY <1>0, <1>11 DEF CreateNew, In, Post, Put, Keep, Intent, Earlier, Shapes, files, world
  <2>2. \A e \in Entries : Entry(e) \in held'[p] => (Entry(e) \in held[p] \/ IsFreeFor(p, Entry(e))) /\ e \in Used'
    BY <1>0, <2>0, <1>11, LockNames DEF CreateNew, In, Post, Put, Keep, Intent, Earlier, Shapes,
       files, world, LockedIsUsed, IsFree, IsFreeFor, OpEquipped, WithEntry, Earlier, Equipped
  <2>3. \A e \in Entries : Entry(e) \notin held[p] /\ ~IsFree(Entry(e)) => entry'[e] = entry[e] /\ map'[e] = map[e]
    BY <1>0, <2>0, <1>11 DEF CreateNew, In, Post, Put, Keep, Intent, Earlier, Shapes, files,
       OpHolds, Publishing, Creating
  <2>4. OpHolds(p)'
    BY <1>0, <2>0, <1>11, LockNames DEF CreateNew, In, Post, Put, Keep, Intent, Earlier, Shapes,
       OpRecord, OpHolds, Publishing, Creating, Idle, files, world, OpEquipped, WithBoard, WithEntry
  <2>5. \A e \in Entries : EntrySafe(e)'
    BY <1>0, <2>0, <1>11, Names DEF CreateNew, In, Post, Put, Keep, Intent, Earlier, Shapes,
       EntrySafe, OpHolds, Publishing, Creating, files, Used
  <2>6. KeepsPlot
    BY <1>0, <2>0, <1>11 DEF CreateNew, In, Post, Put, Keep, Intent, Earlier, Shapes, EntrySafe,
       OpHolds, Publishing, Creating, files, KeepsPlot
  <2> QED
    BY <1>0, <2>1, <2>2, <2>3, <2>4, <2>5, <2>6, PublishKept
<1>12. ASSUME NEW p \in Procs, CreateAgain(p) PROVE PublishInv' /\ KeepsPlot
  <2>1. \A r \in Procs : r # p => op'[r] = op[r] /\ held'[r] = held[r]
    BY <1>0, <1>12 DEF CreateAgain, In, Post, Put, Keep, Intent, Finish, Earlier, CanSync, Shapes,
       files, world
  <2>2. \A e \in Entries : Entry(e) \in held'[p] => (Entry(e) \in held[p] \/ IsFreeFor(p, Entry(e))) /\ e \in Used'
    BY <1>0, <1>12, LockNames DEF CreateAgain, In, Post, Put, Keep, Intent, Finish, Earlier,
       CanSync, Shapes, files, world, LockedIsUsed, IsFree, IsFreeFor, OpEquipped, WithEntry,
       Earlier, Equipped
  <2>3. \A e \in Entries : Entry(e) \notin held[p] /\ ~IsFree(Entry(e)) => entry'[e] = entry[e] /\ map'[e] = map[e]
    BY <1>0, <1>12 DEF CreateAgain, In, Post, Put, Keep, Intent, Finish, Earlier, CanSync, Shapes,
       files, OpHolds, Publishing, Creating
  <2>4. OpHolds(p)'
    BY <1>0, <1>12, LockNames DEF CreateAgain, In, Post, Put, Keep, Intent, Finish, Earlier,
       CanSync, Shapes, OpRecord, OpHolds, Publishing, Creating, Idle, files, world, OpEquipped,
       WithBoard, WithEntry
  <2>5. \A e \in Entries : EntrySafe(e)'
    BY <1>0, <1>12, Names DEF CreateAgain, In, Post, Put, Keep, Intent, Finish, Earlier, CanSync,
       Shapes, EntrySafe, OpHolds, Publishing, Creating, files, Used
  <2>6. KeepsPlot
    BY <1>0, <1>12 DEF CreateAgain, In, Post, Put, Keep, Intent, Finish, Earlier, CanSync, Shapes,
       EntrySafe, OpHolds, Publishing, Creating, files, KeepsPlot
  <2> QED
    BY <1>0, <2>1, <2>2, <2>3, <2>4, <2>5, <2>6, PublishKept
<1>13. ASSUME NEW p \in Procs, PostAnswered(p) PROVE PublishInv' /\ KeepsPlot
  <2>1. \A r \in Procs : r # p => op'[r] = op[r] /\ held'[r] = held[r]
    BY <1>0, <1>13 DEF PostAnswered, Made, Goto, Shapes, files, world
  <2>2. \A e \in Entries : Entry(e) \in held'[p] => (Entry(e) \in held[p] \/ IsFreeFor(p, Entry(e))) /\ e \in Used'
    BY <1>0, <1>13, LockNames DEF PostAnswered, Made, Goto, Shapes, files, world, LockedIsUsed,
       IsFree, IsFreeFor, OpEquipped, WithEntry, Earlier, Equipped
  <2>3. \A e \in Entries : Entry(e) \notin held[p] /\ ~IsFree(Entry(e)) => entry'[e] = entry[e] /\ map'[e] = map[e]
    BY <1>0, <1>13 DEF PostAnswered, Made, Goto, Shapes, files, OpHolds, Publishing, Creating
  <2>4. OpHolds(p)'
    BY <1>0, <1>13, LockNames DEF PostAnswered, Made, Goto, Shapes, OpRecord, OpHolds, Publishing,
       Creating, Idle, files, world, OpEquipped, WithBoard, WithEntry
  <2>5. \A e \in Entries : EntrySafe(e)'
    BY <1>0, <1>13, Names DEF PostAnswered, Made, Goto, Shapes, EntrySafe, OpHolds, Publishing,
       Creating, files, Used
  <2>6. KeepsPlot
    BY <1>0, <1>13 DEF PostAnswered, Made, Goto, Shapes, EntrySafe, OpHolds, Publishing, Creating,
       files, KeepsPlot
  <2> QED
    BY <1>0, <2>1, <2>2, <2>3, <2>4, <2>5, <2>6, PublishKept
<1>14. ASSUME NEW p \in Procs, PostLost(p) PROVE PublishInv' /\ KeepsPlot
  <2>1. \A r \in Procs : r # p => op'[r] = op[r] /\ held'[r] = held[r]
    BY <1>0, <1>14 DEF PostLost, Made, Finish, Shapes, files, world
  <2>2. \A e \in Entries : Entry(e) \in held'[p] => (Entry(e) \in held[p] \/ IsFreeFor(p, Entry(e))) /\ e \in Used'
    BY <1>0, <1>14, LockNames DEF PostLost, Made, Finish, Shapes, files, world, LockedIsUsed,
       IsFree, IsFreeFor, OpEquipped, WithEntry, Earlier, Equipped
  <2>3. \A e \in Entries : Entry(e) \notin held[p] /\ ~IsFree(Entry(e)) => entry'[e] = entry[e] /\ map'[e] = map[e]
    BY <1>0, <1>14 DEF PostLost, Made, Finish, Shapes, files, OpHolds, Publishing, Creating
  <2>4. OpHolds(p)'
    BY <1>0, <1>14, LockNames DEF PostLost, Made, Finish, Shapes, OpRecord, OpHolds, Publishing,
       Creating, Idle, files, world, OpEquipped, WithBoard, WithEntry
  <2>5. \A e \in Entries : EntrySafe(e)'
    BY <1>0, <1>14, Names DEF PostLost, Made, Finish, Shapes, EntrySafe, OpHolds, Publishing,
       Creating, files, Used
  <2>6. KeepsPlot
    BY <1>0, <1>14 DEF PostLost, Made, Finish, Shapes, EntrySafe, OpHolds, Publishing, Creating,
       files, KeepsPlot
  <2> QED
    BY <1>0, <2>1, <2>2, <2>3, <2>4, <2>5, <2>6, PublishKept
<1>15. ASSUME NEW p \in Procs, Acknowledge(p) PROVE PublishInv' /\ KeepsPlot
  <2>0. /\ op[p].entry \in Used /\ op[p].board # None /\ op[p].pc = "acknowledge"
        /\ \/ Finish(p) /\ entry' = entry
           \/ /\ Goto(p, "sync") /\ Keep(p, {}) /\ (\A e \in Entries : e # op[p].entry => entry'[e] = entry[e])
              /\ entry'[op[p].entry].board = op[p].board /\ entry'[op[p].entry].plot = entry[op[p].entry].plot
    <3>1. op[p].entry \in Used /\ op[p].board # None /\ op[p].pc = "acknowledge" /\ entry[op[p].entry] \in EntryRecord
      BY <1>0, <1>15, Names DEF Acknowledge, In, OpEquipped, WithEntry, WithBoard, Shapes
    <3>2. CASE TakenBy(op[p].board, op[p].entry)
      BY <3>1, <3>2, <1>15 DEF Acknowledge
    <3>3. CASE ~TakenBy(op[p].board, op[p].entry)
      <4>1. /\ Put(op[p].entry, [entry[op[p].entry] EXCEPT !.board = op[p].board, !.status = "linked"])
            /\ Goto(p, "sync") /\ Keep(p, {})
        BY <3>3, <1>15 DEF Acknowledge
      <4>2. op[p].entry \in Entries /\ entry \in [Entries -> EntryRecord]
        BY <1>0, <3>1 DEF Shapes
      <4>3. entry'[op[p].entry] = [entry[op[p].entry] EXCEPT !.board = op[p].board, !.status = "linked"]
        BY <4>1, <4>2 DEF Put
      <4>4. \A e \in Entries : e # op[p].entry => entry'[e] = entry[e]
        BY <4>1, <4>2 DEF Put
      <4>5. entry'[op[p].entry].board = op[p].board /\ entry'[op[p].entry].plot = entry[op[p].entry].plot
        BY <3>1, <4>3 DEF EntryRecord
      <4> QED
        BY <3>1, <4>1, <4>4, <4>5
    <3> QED
      BY <3>2, <3>3
  <2>1. \A r \in Procs : r # p => op'[r] = op[r] /\ held'[r] = held[r]
    BY <1>0, <1>15 DEF Acknowledge, In, Put, Goto, Keep, Finish, Shapes, files, world
  <2>2. \A e \in Entries : Entry(e) \in held'[p] => (Entry(e) \in held[p] \/ IsFreeFor(p, Entry(e))) /\ e \in Used'
    BY <1>0, <2>0, <1>15, LockNames DEF Acknowledge, In, Put, Goto, Keep, Finish, Shapes, files,
       world, LockedIsUsed, IsFree, IsFreeFor, OpEquipped, WithEntry, Earlier, Equipped
  <2>3. \A e \in Entries : Entry(e) \notin held[p] /\ ~IsFree(Entry(e)) => entry'[e] = entry[e] /\ map'[e] = map[e]
    BY <1>0, <2>0, <1>15 DEF Goto, Keep, Finish, Acknowledge, Shapes, files, OpHolds, Publishing,
       Creating
  <2>4. OpHolds(p)'
    BY <1>0, <2>0, <1>15, LockNames DEF Goto, Keep, Finish, Acknowledge, Shapes, OpRecord, OpHolds,
       Publishing, Creating, Idle, files, world, OpEquipped, WithBoard, WithEntry
  <2>5. \A e \in Entries : EntrySafe(e)'
    BY <1>0, <2>0, <1>15, Names DEF Goto, Keep, Finish, Acknowledge, Shapes, EntrySafe, OpHolds,
       Publishing, Creating, files, Used
  <2>6. KeepsPlot
    BY <1>0, <2>0, <1>15 DEF Goto, Keep, Finish, Acknowledge, Shapes, EntrySafe, OpHolds,
       Publishing, Creating, files, KeepsPlot
  <2> QED
    BY <1>0, <2>1, <2>2, <2>3, <2>4, <2>5, <2>6, PublishKept
<1>16. ASSUME NEW p \in Procs, Refuse(p) PROVE PublishInv' /\ KeepsPlot
  <2>0. /\ op[p].entry \in Used /\ op[p].pc = "refuse" /\ Finish(p) /\ (\A e \in Entries : e # op[p].entry => entry'[e] = entry[e])
        /\ entry'[op[p].entry].board = entry[op[p].entry].board /\ entry'[op[p].entry].plot = entry[op[p].entry].plot
        /\ entry'[op[p].entry].status = "creation_rejected" /\ entry'[op[p].entry].born = entry[op[p].entry].born
    <3>1. op[p].entry \in Used /\ entry[op[p].entry] \in EntryRecord
      BY <1>0, <1>16 DEF Refuse, In, OpEquipped, WithEntry, Shapes
    <3> QED
      BY <1>0, <3>1, <1>16 DEF Refuse, In, Put, Shapes, EntryRecord
  <2>1. \A r \in Procs : r # p => op'[r] = op[r] /\ held'[r] = held[r]
    BY <1>0, <1>16 DEF Refuse, In, Put, Finish, Shapes, files, world
  <2>2. \A e \in Entries : Entry(e) \in held'[p] => (Entry(e) \in held[p] \/ IsFreeFor(p, Entry(e))) /\ e \in Used'
    BY <1>0, <2>0, <1>16, LockNames DEF Refuse, In, Put, Finish, Shapes, files, world, LockedIsUsed,
       IsFree, IsFreeFor, OpEquipped, WithEntry, Earlier, Equipped
  <2>3. \A e \in Entries : Entry(e) \notin held[p] /\ ~IsFree(Entry(e)) => entry'[e] = entry[e] /\ map'[e] = map[e]
    BY <1>0, <2>0, <1>16 DEF Finish, Refuse, Shapes, files, OpHolds, Publishing, Creating
  <2>4. OpHolds(p)'
    BY <1>0, <2>0, <1>16, LockNames DEF Finish, Refuse, Shapes, OpRecord, OpHolds, Publishing,
       Creating, Idle, files, world, OpEquipped, WithBoard, WithEntry
  <2>5. \A e \in Entries : EntrySafe(e)'
    BY <1>0, <2>0, <1>16, Names DEF Finish, Refuse, Shapes, EntrySafe, OpHolds, Publishing,
       Creating, files, Used
  <2>6. KeepsPlot
    BY <1>0, <2>0, <1>16 DEF Finish, Refuse, Shapes, EntrySafe, OpHolds, Publishing, Creating,
       files, KeepsPlot
  <2> QED
    BY <1>0, <2>1, <2>2, <2>3, <2>4, <2>5, <2>6, PublishKept
<1>17. ASSUME NEW p \in Procs, Link(p) PROVE PublishInv' /\ KeepsPlot
  <2>0. /\ op[p].board # None /\ Finish(p)
        /\ \/ entry' = entry
           \/ \E f \in Entries : /\ (\A g \in Entries : g # f => entry'[g] = entry[g]) /\ entry'[f].board = op[p].board
                                  /\ IsFree(Entry(f)) /\ entry[f].board = None
    <3>1. op[p].board # None /\ op[p].pc = "link" /\ Finish(p)
      BY <1>0, <1>17, Names DEF Link, In, OpEquipped, WithBoard
    <3>2. CASE op[p].entry = 0 /\ Put(NextEntry, Bound(op[p].board, Unused))
      <4>1. NextEntry \in Entries /\ NextEntry \notin Used
        BY <1>0, <3>1, <3>2, NextIsUnused DEF Appending
      <4>2. IsFree(Entry(NextEntry)) /\ entry[NextEntry].board = None
        BY <1>0, <4>1, UnusedIsFree DEF Used, Blank, Unused
      <4>3. entry'[NextEntry].board = op[p].board /\ \A e \in Entries : e # NextEntry => entry'[e] = entry[e]
        BY <1>0, <3>2, <4>1 DEF Put, Shapes, Bound, Unused
      <4> QED
        BY <3>1, <4>1, <4>2, <4>3
    <3>3. CASE op[p].entry # 0 /\ Recoverable(op[p].entry) /\ Put(op[p].entry, Bound(op[p].board, entry[op[p].entry]))
      <4>1. op[p].entry \in Entries
        BY <1>0, <3>1, <3>3 DEF OpEquipped
      <4>2. entry[op[p].entry] \in EntryRecord
        BY <1>0, <4>1 DEF Shapes
      <4>3. entry'[op[p].entry].board = op[p].board /\ \A e \in Entries : e # op[p].entry => entry'[e] = entry[e]
        BY <1>0, <3>3, <4>1, <4>2 DEF Put, Shapes, Bound, EntryRecord
      <4> QED
        BY <3>1, <3>3, <4>1, <4>3 DEF Recoverable
    <3> QED
      BY <3>1, <3>2, <3>3, <1>17 DEF Link
  <2>1. \A r \in Procs : r # p => op'[r] = op[r] /\ held'[r] = held[r]
    BY <1>0, <1>17 DEF Link, In, Put, Finish, Bound, Recoverable, Shapes, files, world
  <2>2. \A e \in Entries : Entry(e) \in held'[p] => (Entry(e) \in held[p] \/ IsFreeFor(p, Entry(e))) /\ e \in Used'
    BY <1>0, <2>0, <1>17, LockNames DEF Link, In, Put, Finish, Bound, Recoverable, Shapes, files,
       world, LockedIsUsed, IsFree, IsFreeFor, OpEquipped, WithEntry, Earlier, Equipped
  <2>3. \A e \in Entries : Entry(e) \notin held[p] /\ ~IsFree(Entry(e)) => entry'[e] = entry[e] /\ map'[e] = map[e]
    BY <1>0, <2>0, <1>17 DEF Finish, Link, Shapes, files, OpHolds, Publishing, Creating
  <2>4. OpHolds(p)'
    BY <1>0, <2>0, <1>17, LockNames DEF Finish, Link, Shapes, OpRecord, OpHolds, Publishing,
       Creating, Idle, files, world, OpEquipped, WithBoard, WithEntry
  <2>5. \A e \in Entries : EntrySafe(e)'
    BY <1>0, <2>0, <1>17, Names DEF Finish, Link, Shapes, EntrySafe, OpHolds, Publishing, Creating,
       files, Used
  <2>6. KeepsPlot
    BY <1>0, <2>0, <1>17 DEF Finish, Link, Shapes, EntrySafe, OpHolds, Publishing, Creating, files,
       KeepsPlot
  <2> QED
    BY <1>0, <2>1, <2>2, <2>3, <2>4, <2>5, <2>6, PublishKept
<1>18. ASSUME NEW p \in Procs, Sync(p) PROVE PublishInv' /\ KeepsPlot
  <2>1. \A r \in Procs : r # p => op'[r] = op[r] /\ held'[r] = held[r]
    BY <1>0, <1>18 DEF Sync, In, CanSync, Keep, Finish, Shapes, files, world
  <2>2. \A e \in Entries : Entry(e) \in held'[p] => (Entry(e) \in held[p] \/ IsFreeFor(p, Entry(e))) /\ e \in Used'
    BY <1>0, <1>18, LockNames DEF Sync, In, CanSync, Keep, Finish, Shapes, files, world,
       LockedIsUsed, IsFree, IsFreeFor, OpEquipped, WithEntry, Earlier, Equipped
  <2>3. \A e \in Entries : Entry(e) \notin held[p] /\ ~IsFree(Entry(e)) => entry'[e] = entry[e] /\ map'[e] = map[e]
    BY <1>0, <1>18 DEF Sync, In, CanSync, Keep, Finish, Shapes, files, OpHolds, Publishing, Creating
  <2>4. OpHolds(p)'
    <3>1. CASE Finish(p)
      BY <1>0, <3>1, OpGoes DEF OpHolds, Publishing, Creating, Idle
    <3>2. CASE ~Finish(p)
      <4>1. /\ CanSync(op[p].entry) /\ Suits(op[p].plot, op[p].entry) /\ entry' = entry /\ map' = map
            /\ op' = [op EXCEPT ![p].pc = "mark", ![p].board = entry[op[p].entry].board] /\ Keep(p, {Entry(op[p].entry)})
        BY <3>2, <1>18 DEF Sync, files
      <4>2. /\ op'[p].pc = "mark" /\ op'[p].entry = op[p].entry /\ op'[p].plot = op[p].plot
            /\ op'[p].board = entry[op[p].entry].board /\ held'[p] = {Entry(op[p].entry)}
        BY <1>0, <4>1 DEF Shapes, OpRecord, Keep
      <4> QED
        BY <4>1, <4>2 DEF OpHolds, Publishing, Creating, CanSync, Suits
    <3> QED
      BY <3>1, <3>2
  <2>5. \A e \in Entries : EntrySafe(e)'
    BY <1>0, <1>18, Names DEF Sync, In, CanSync, Keep, Finish, Shapes, EntrySafe, OpHolds,
       Publishing, Creating, files, Used
  <2>6. KeepsPlot
    BY <1>0, <1>18 DEF Sync, In, CanSync, Keep, Finish, Shapes, EntrySafe, OpHolds, Publishing,
       Creating, files, KeepsPlot
  <2> QED
    BY <1>0, <2>1, <2>2, <2>3, <2>4, <2>5, <2>6, PublishKept
<1>19. ASSUME NEW p \in Procs, Mark(p) PROVE PublishInv' /\ KeepsPlot
  <2>0. /\ op[p].entry \in Used /\ op[p].pc = "mark" /\ Goto(p, "write") /\ Keep(p, held[p] \ {Registry})
        /\ (\A e \in Entries : e # op[p].entry => entry'[e] = entry[e])
        /\ entry'[op[p].entry].board = entry[op[p].entry].board /\ entry'[op[p].entry].plot = op[p].plot
        /\ entry'[op[p].entry].status = "syncing" /\ entry'[op[p].entry].born = entry[op[p].entry].born
    <3>1. op[p].entry \in Used /\ entry[op[p].entry] \in EntryRecord
      BY <1>0, <1>19 DEF Mark, In, OpEquipped, WithEntry, Shapes
    <3> QED
      BY <1>0, <3>1, <1>19 DEF Mark, In, Put, Shapes, EntryRecord
  <2>1. \A r \in Procs : r # p => op'[r] = op[r] /\ held'[r] = held[r]
    BY <1>0, <1>19 DEF Mark, In, Put, Goto, Keep, Shapes, files, world
  <2>2. \A e \in Entries : Entry(e) \in held'[p] => (Entry(e) \in held[p] \/ IsFreeFor(p, Entry(e))) /\ e \in Used'
    BY <1>0, <2>0, <1>19, LockNames DEF Mark, In, Put, Goto, Keep, Shapes, files, world,
       LockedIsUsed, IsFree, IsFreeFor, OpEquipped, WithEntry, Earlier, Equipped
  <2>3. \A e \in Entries : Entry(e) \notin held[p] /\ ~IsFree(Entry(e)) => entry'[e] = entry[e] /\ map'[e] = map[e]
    BY <1>0, <2>0, <1>19 DEF Goto, Keep, Mark, Shapes, files, OpHolds, Publishing, Creating
  <2>4. OpHolds(p)'
    <3>1. /\ op'[p].pc = "write" /\ op'[p].entry = op[p].entry /\ op'[p].board = op[p].board /\ op'[p].plot = op[p].plot
          /\ held'[p] = held[p] \ {Registry}
      BY <1>0, <2>0, OpGoes DEF Places, Keep, Shapes
    <3>2. /\ Entry(op[p].entry) \in held[p] /\ op[p].board # None /\ entry[op[p].entry].board = op[p].board
      BY <1>0, <2>0 DEF OpHolds, Publishing
    <3>3. Entry(op[p].entry) \in held'[p]
      BY <3>1, <3>2, LockNames
    <3>4. entry'[op[p].entry].board = op[p].board
      BY <2>0, <3>2
    <3> QED
      BY <3>1, <3>2, <3>3, <3>4 DEF OpHolds, Publishing, Creating
  <2>5. \A e \in Entries : EntrySafe(e)'
    BY <1>0, <2>0, <1>19, Names DEF Goto, Keep, Mark, Shapes, EntrySafe, OpHolds, Publishing,
       Creating, files, Used
  <2>6. KeepsPlot
    BY <1>0, <2>0, <1>19 DEF Goto, Keep, Mark, Shapes, EntrySafe, OpHolds, Publishing, Creating,
       files, KeepsPlot
  <2> QED
    BY <1>0, <2>1, <2>2, <2>3, <2>4, <2>5, <2>6, PublishKept
<1>20. ASSUME NEW p \in Procs, Write(p) PROVE PublishInv' /\ KeepsPlot
  <2>h. held'[p] = held[p] \/ held'[p] = held[p] \cup {Board(op[p].board)}
    BY <1>0, <1>20 DEF Write, Keep, Shapes
  <2>g. /\ op[p].pc = "write" /\ op'[p].pc \in {"writing", "failed"} /\ op'[p].entry = op[p].entry
        /\ op'[p].board = op[p].board /\ op'[p].plot = op[p].plot /\ entry' = entry /\ held[p] \subseteq held'[p]
    BY <1>0, <1>20, OpGoes DEF Write, Places, Keep, Shapes
  <2>1. \A r \in Procs : r # p => op'[r] = op[r] /\ held'[r] = held[r]
    BY <1>0, <1>20 DEF Write, Goto, Keep, Shapes, files, world
  <2>2. \A e \in Entries : Entry(e) \in held'[p] => (Entry(e) \in held[p] \/ IsFreeFor(p, Entry(e))) /\ e \in Used'
    BY <1>0, <2>h, LockNames DEF LockedIsUsed, IsFree, IsFreeFor
  <2>3. \A e \in Entries : Entry(e) \notin held[p] /\ ~IsFree(Entry(e)) => entry'[e] = entry[e] /\ map'[e] = map[e]
    BY <1>0, <1>20 DEF Write, Goto, Keep, Shapes, files, OpHolds, Publishing, Creating
  <2>4. OpHolds(p)'
    BY <1>0, <2>g, LockNames DEF OpHolds, Publishing, Creating, OpEquipped, WithEntry, WithBoard
  <2>5. \A e \in Entries : EntrySafe(e)'
    BY <1>0, <1>20, Names DEF Write, Goto, Keep, Shapes, EntrySafe, OpHolds, Publishing, Creating,
       files, Used
  <2>6. KeepsPlot
    BY <1>0, <1>20 DEF Write, Goto, Keep, Shapes, EntrySafe, OpHolds, Publishing, Creating, files,
       KeepsPlot
  <2> QED
    BY <1>0, <2>1, <2>2, <2>3, <2>4, <2>5, <2>6, PublishKept
<1>21. ASSUME NEW p \in Procs, EndWrite(p) PROVE PublishInv' /\ KeepsPlot
  <2>g. /\ op[p].pc = "writing" /\ op'[p].pc \in {"published", "failed"} /\ op'[p].entry = op[p].entry
        /\ op'[p].board = op[p].board /\ op'[p].plot = op[p].plot /\ entry' = entry /\ held'[p] = held[p] \ {Board(op[p].board)}
    BY <1>0, <1>21, OpGoes DEF EndWrite, Places, Keep, Shapes
  <2>1. \A r \in Procs : r # p => op'[r] = op[r] /\ held'[r] = held[r]
    BY <1>0, <1>21 DEF EndWrite, Goto, Keep, Shapes, files, world
  <2>2. \A e \in Entries : Entry(e) \in held'[p] => (Entry(e) \in held[p] \/ IsFreeFor(p, Entry(e))) /\ e \in Used'
    BY <1>0, <1>21, LockNames DEF EndWrite, Goto, Keep, Shapes, files, world, LockedIsUsed, IsFree,
       IsFreeFor, OpEquipped, WithEntry, Earlier, Equipped
  <2>3. \A e \in Entries : Entry(e) \notin held[p] /\ ~IsFree(Entry(e)) => entry'[e] = entry[e] /\ map'[e] = map[e]
    BY <1>0, <1>21 DEF EndWrite, Goto, Keep, Shapes, files, OpHolds, Publishing, Creating
  <2>4. OpHolds(p)'
    BY <1>0, <2>g, LockNames DEF OpHolds, Publishing, Creating, OpEquipped, WithEntry, WithBoard
  <2>5. \A e \in Entries : EntrySafe(e)'
    BY <1>0, <1>21, Names DEF EndWrite, Goto, Keep, Shapes, EntrySafe, OpHolds, Publishing,
       Creating, files, Used
  <2>6. KeepsPlot
    BY <1>0, <1>21 DEF EndWrite, Goto, Keep, Shapes, EntrySafe, OpHolds, Publishing, Creating,
       files, KeepsPlot
  <2> QED
    BY <1>0, <2>1, <2>2, <2>3, <2>4, <2>5, <2>6, PublishKept
<1>22. ASSUME NEW p \in Procs, Record(p) PROVE PublishInv' /\ KeepsPlot
  <2>0. /\ op[p].entry \in Used /\ op[p].pc \in Publishing /\ Finish(p)
        /\ (\A e \in Entries : e # op[p].entry => entry'[e] = entry[e])
        /\ entry'[op[p].entry].board = entry[op[p].entry].board /\ entry'[op[p].entry].plot = entry[op[p].entry].plot
        /\ entry'[op[p].entry].born = entry[op[p].entry].born
    <3>1. op[p].entry \in Used /\ entry[op[p].entry] \in EntryRecord
      BY <1>0, <1>22 DEF Record, OpEquipped, WithEntry, Shapes
    <3> QED
      BY <1>0, <3>1, <1>22 DEF Record, Put, Shapes, EntryRecord, Publishing
  <2>1. \A r \in Procs : r # p => op'[r] = op[r] /\ held'[r] = held[r]
    BY <1>0, <1>22 DEF Record, Put, Finish, Shapes, files, world
  <2>2. \A e \in Entries : Entry(e) \in held'[p] => (Entry(e) \in held[p] \/ IsFreeFor(p, Entry(e))) /\ e \in Used'
    BY <1>0, <2>0, <1>22, LockNames DEF Record, Put, Finish, Shapes, files, world, LockedIsUsed,
       IsFree, IsFreeFor, OpEquipped, WithEntry, Earlier, Equipped
  <2>3. \A e \in Entries : Entry(e) \notin held[p] /\ ~IsFree(Entry(e)) => entry'[e] = entry[e] /\ map'[e] = map[e]
    BY <1>0, <2>0, <1>22 DEF Finish, Record, Shapes, files, OpHolds, Publishing, Creating
  <2>4. OpHolds(p)'
    BY <1>0, <2>0, <1>22, LockNames DEF Finish, Record, Shapes, OpRecord, OpHolds, Publishing,
       Creating, Idle, files, world, OpEquipped, WithBoard, WithEntry
  <2>5. \A e \in Entries : EntrySafe(e)'
    BY <1>0, <2>0, <1>22, Names DEF Finish, Record, Shapes, EntrySafe, OpHolds, Publishing,
       Creating, files, Used
  <2>6. KeepsPlot
    BY <1>0, <2>0, <1>22 DEF Finish, Record, Shapes, EntrySafe, OpHolds, Publishing, Creating,
       files, KeepsPlot
  <2> QED
    BY <1>0, <2>1, <2>2, <2>3, <2>4, <2>5, <2>6, PublishKept
<1>23. ASSUME NEW p \in Procs, Select(p) PROVE PublishInv' /\ KeepsPlot
  <2>h. held'[p] = {} \/ (held'[p] = {Case("exclusive"), Entry(op[p].entry)} /\ IsFree(Entry(op[p].entry)) /\ op[p].entry \in Used)
    BY <1>0, <1>23 DEF Select, In, Keep, Finish, Shapes, OpEquipped, WithEntry
  <2>1. \A r \in Procs : r # p => op'[r] = op[r] /\ held'[r] = held[r]
    BY <1>0, <1>23 DEF Select, In, Goto, Keep, Finish, Shapes, files, world
  <2>2. \A e \in Entries : Entry(e) \in held'[p] => (Entry(e) \in held[p] \/ IsFreeFor(p, Entry(e))) /\ e \in Used'
    BY <1>0, <2>h, LockNames DEF LockedIsUsed, IsFree, IsFreeFor
  <2>3. \A e \in Entries : Entry(e) \notin held[p] /\ ~IsFree(Entry(e)) => entry'[e] = entry[e] /\ map'[e] = map[e]
    BY <1>0, <1>23 DEF Select, In, Goto, Keep, Finish, Shapes, files, OpHolds, Publishing, Creating
  <2>4. OpHolds(p)'
    BY <1>0, <1>23, LockNames DEF Select, In, Goto, Keep, Finish, Shapes, OpRecord, OpHolds,
       Publishing, Creating, Idle, files, world, OpEquipped, WithBoard, WithEntry
  <2>5. \A e \in Entries : EntrySafe(e)'
    BY <1>0, <1>23, Names DEF Select, In, Goto, Keep, Finish, Shapes, EntrySafe, OpHolds,
       Publishing, Creating, files, Used
  <2>6. KeepsPlot
    BY <1>0, <1>23 DEF Select, In, Goto, Keep, Finish, Shapes, EntrySafe, OpHolds, Publishing,
       Creating, files, KeepsPlot
  <2> QED
    BY <1>0, <2>1, <2>2, <2>3, <2>4, <2>5, <2>6, PublishKept
<1>24. ASSUME NEW p \in Procs, Intend(p) PROVE PublishInv' /\ KeepsPlot
  <2>h. held'[p] = {} \/ held'[p] = held[p] \cup {Board(op[p].board)}
    BY <1>0, <1>24 DEF Intend, Keep, Finish, Shapes
  <2>1. \A r \in Procs : r # p => op'[r] = op[r] /\ held'[r] = held[r]
    BY <1>0, <1>24 DEF Intend, Finish, Keep, InDoubt, Shapes, files, world
  <2>2. \A e \in Entries : Entry(e) \in held'[p] => (Entry(e) \in held[p] \/ IsFreeFor(p, Entry(e))) /\ e \in Used'
    BY <1>0, <2>h, LockNames DEF LockedIsUsed, IsFree, IsFreeFor
  <2>3. \A e \in Entries : Entry(e) \notin held[p] /\ ~IsFree(Entry(e)) => entry'[e] = entry[e] /\ map'[e] = map[e]
    BY <1>0, <1>24 DEF Intend, Finish, Keep, InDoubt, Shapes, files, OpHolds, Publishing, Creating
  <2>4. OpHolds(p)'
    BY <1>0, <1>24, LockNames DEF Intend, Finish, Keep, InDoubt, Shapes, OpRecord, OpHolds,
       Publishing, Creating, Idle, files, world, OpEquipped, WithBoard, WithEntry
  <2>5. \A e \in Entries : EntrySafe(e)'
    BY <1>0, <1>24, Names DEF Intend, Finish, Keep, InDoubt, Shapes, EntrySafe, OpHolds, Publishing,
       Creating, files, Used
  <2>6. KeepsPlot
    BY <1>0, <1>24 DEF Intend, Finish, Keep, InDoubt, Shapes, EntrySafe, OpHolds, Publishing,
       Creating, files, KeepsPlot
  <2> QED
    BY <1>0, <2>1, <2>2, <2>3, <2>4, <2>5, <2>6, PublishKept
<1>25. ASSUME NEW p \in Procs, DeleteConfirmed(p) PROVE PublishInv' /\ KeepsPlot
  <2>1. \A r \in Procs : r # p => op'[r] = op[r] /\ held'[r] = held[r]
    BY <1>0, <1>25 DEF DeleteConfirmed, Gone, Goto, Shapes, files, world
  <2>2. \A e \in Entries : Entry(e) \in held'[p] => (Entry(e) \in held[p] \/ IsFreeFor(p, Entry(e))) /\ e \in Used'
    BY <1>0, <1>25, LockNames DEF DeleteConfirmed, Gone, Goto, Shapes, files, world, LockedIsUsed,
       IsFree, IsFreeFor, OpEquipped, WithEntry, Earlier, Equipped
  <2>3. \A e \in Entries : Entry(e) \notin held[p] /\ ~IsFree(Entry(e)) => entry'[e] = entry[e] /\ map'[e] = map[e]
    BY <1>0, <1>25 DEF DeleteConfirmed, Gone, Goto, Shapes, files, OpHolds, Publishing, Creating
  <2>4. OpHolds(p)'
    BY <1>0, <1>25, LockNames DEF DeleteConfirmed, Gone, Goto, Shapes, OpRecord, OpHolds,
       Publishing, Creating, Idle, files, world, OpEquipped, WithBoard, WithEntry
  <2>5. \A e \in Entries : EntrySafe(e)'
    BY <1>0, <1>25, Names DEF DeleteConfirmed, Gone, Goto, Shapes, EntrySafe, OpHolds, Publishing,
       Creating, files, Used
  <2>6. KeepsPlot
    BY <1>0, <1>25 DEF DeleteConfirmed, Gone, Goto, Shapes, EntrySafe, OpHolds, Publishing,
       Creating, files, KeepsPlot
  <2> QED
    BY <1>0, <2>1, <2>2, <2>3, <2>4, <2>5, <2>6, PublishKept
<1>26. ASSUME NEW p \in Procs, Rejected(p) PROVE PublishInv' /\ KeepsPlot
  <2>1. \A r \in Procs : r # p => op'[r] = op[r] /\ held'[r] = held[r]
    BY <1>0, <1>26 DEF Rejected, Finish, Shapes, files, world
  <2>2. \A e \in Entries : Entry(e) \in held'[p] => (Entry(e) \in held[p] \/ IsFreeFor(p, Entry(e))) /\ e \in Used'
    BY <1>0, <1>26, LockNames DEF Rejected, Finish, Shapes, files, world, LockedIsUsed, IsFree,
       IsFreeFor, OpEquipped, WithEntry, Earlier, Equipped
  <2>3. \A e \in Entries : Entry(e) \notin held[p] /\ ~IsFree(Entry(e)) => entry'[e] = entry[e] /\ map'[e] = map[e]
    BY <1>0, <1>26 DEF Rejected, Finish, Shapes, files, OpHolds, Publishing, Creating
  <2>4. OpHolds(p)'
    BY <1>0, <1>26, LockNames DEF Rejected, Finish, Shapes, OpRecord, OpHolds, Publishing, Creating,
       Idle, files, world, OpEquipped, WithBoard, WithEntry
  <2>5. \A e \in Entries : EntrySafe(e)'
    BY <1>0, <1>26, Names DEF Rejected, Finish, Shapes, EntrySafe, OpHolds, Publishing, Creating,
       files, Used
  <2>6. KeepsPlot
    BY <1>0, <1>26 DEF Rejected, Finish, Shapes, EntrySafe, OpHolds, Publishing, Creating, files,
       KeepsPlot
  <2> QED
    BY <1>0, <2>1, <2>2, <2>3, <2>4, <2>5, <2>6, PublishKept
<1>27. ASSUME NEW p \in Procs, Unanswered(p) PROVE PublishInv' /\ KeepsPlot
  <2>1. \A r \in Procs : r # p => op'[r] = op[r] /\ held'[r] = held[r]
    BY <1>0, <1>27 DEF Unanswered, Gone, Finish, Shapes, files, world
  <2>2. \A e \in Entries : Entry(e) \in held'[p] => (Entry(e) \in held[p] \/ IsFreeFor(p, Entry(e))) /\ e \in Used'
    BY <1>0, <1>27, LockNames DEF Unanswered, Gone, Finish, Shapes, files, world, LockedIsUsed,
       IsFree, IsFreeFor, OpEquipped, WithEntry, Earlier, Equipped
  <2>3. \A e \in Entries : Entry(e) \notin held[p] /\ ~IsFree(Entry(e)) => entry'[e] = entry[e] /\ map'[e] = map[e]
    BY <1>0, <1>27 DEF Unanswered, Gone, Finish, Shapes, files, OpHolds, Publishing, Creating
  <2>4. OpHolds(p)'
    BY <1>0, <1>27, LockNames DEF Unanswered, Gone, Finish, Shapes, OpRecord, OpHolds, Publishing,
       Creating, Idle, files, world, OpEquipped, WithBoard, WithEntry
  <2>5. \A e \in Entries : EntrySafe(e)'
    BY <1>0, <1>27, Names DEF Unanswered, Gone, Finish, Shapes, EntrySafe, OpHolds, Publishing,
       Creating, files, Used
  <2>6. KeepsPlot
    BY <1>0, <1>27 DEF Unanswered, Gone, Finish, Shapes, EntrySafe, OpHolds, Publishing, Creating,
       files, KeepsPlot
  <2> QED
    BY <1>0, <2>1, <2>2, <2>3, <2>4, <2>5, <2>6, PublishKept
<1>28. ASSUME NEW p \in Procs, Unlink(p) PROVE PublishInv' /\ KeepsPlot
  <2>1. \A r \in Procs : r # p => op'[r] = op[r] /\ held'[r] = held[r]
    BY <1>0, <1>28 DEF Unlink, Finish, Shapes, files, world
  <2>2. \A e \in Entries : Entry(e) \in held'[p] => (Entry(e) \in held[p] \/ IsFreeFor(p, Entry(e))) /\ e \in Used'
    BY <1>0, <1>28, LockNames DEF Unlink, Finish, Shapes, files, world, LockedIsUsed, IsFree,
       IsFreeFor, OpEquipped, WithEntry, Earlier, Equipped
  <2>3. \A e \in Entries : Entry(e) \notin held[p] /\ ~IsFree(Entry(e)) => entry'[e] = entry[e] /\ map'[e] = map[e]
    BY <1>0, <1>28 DEF Unlink, Finish, Shapes, files, OpHolds, Publishing, Creating
  <2>4. OpHolds(p)'
    BY <1>0, <1>28, LockNames DEF Unlink, Finish, Shapes, OpRecord, OpHolds, Publishing, Creating,
       Idle, files, world, OpEquipped, WithBoard, WithEntry
  <2>5. \A e \in Entries : EntrySafe(e)'
    BY <1>0, <1>28, Names DEF Unlink, Finish, Shapes, EntrySafe, OpHolds, Publishing, Creating,
       files, Used
  <2>6. KeepsPlot
    BY <1>0, <1>28 DEF Unlink, Finish, Shapes, EntrySafe, OpHolds, Publishing, Creating, files,
       KeepsPlot
  <2> QED
    BY <1>0, <2>1, <2>2, <2>3, <2>4, <2>5, <2>6, PublishKept
<1>29. ASSUME NEW p \in Procs, EndOther(p) PROVE PublishInv' /\ KeepsPlot
  <2>1. \A r \in Procs : r # p => op'[r] = op[r] /\ held'[r] = held[r]
    BY <1>0, <1>29 DEF EndOther, Finish, Shapes, files, world
  <2>2. \A e \in Entries : Entry(e) \in held'[p] => (Entry(e) \in held[p] \/ IsFreeFor(p, Entry(e))) /\ e \in Used'
    BY <1>0, <1>29, LockNames DEF EndOther, Finish, Shapes, files, world, LockedIsUsed, IsFree,
       IsFreeFor, OpEquipped, WithEntry, Earlier, Equipped
  <2>3. \A e \in Entries : Entry(e) \notin held[p] /\ ~IsFree(Entry(e)) => entry'[e] = entry[e] /\ map'[e] = map[e]
    BY <1>0, <1>29 DEF EndOther, Finish, Shapes, files, OpHolds, Publishing, Creating
  <2>4. OpHolds(p)'
    BY <1>0, <1>29, LockNames DEF EndOther, Finish, Shapes, OpRecord, OpHolds, Publishing, Creating,
       Idle, files, world, OpEquipped, WithBoard, WithEntry
  <2>5. \A e \in Entries : EntrySafe(e)'
    BY <1>0, <1>29, Names DEF EndOther, Finish, Shapes, EntrySafe, OpHolds, Publishing, Creating,
       files, Used
  <2>6. KeepsPlot
    BY <1>0, <1>29 DEF EndOther, Finish, Shapes, EntrySafe, OpHolds, Publishing, Creating, files,
       KeepsPlot
  <2> QED
    BY <1>0, <2>1, <2>2, <2>3, <2>4, <2>5, <2>6, PublishKept
<1>30. ASSUME NEW p \in Procs, Fault(p) PROVE PublishInv' /\ KeepsPlot
  <2>1. \A r \in Procs : r # p => op'[r] = op[r] /\ held'[r] = held[r]
    BY <1>0, <1>30 DEF Fault, Gone, Finish, Shapes, files, world
  <2>2. \A e \in Entries : Entry(e) \in held'[p] => (Entry(e) \in held[p] \/ IsFreeFor(p, Entry(e))) /\ e \in Used'
    BY <1>0, <1>30, LockNames DEF Fault, Gone, Finish, Shapes, files, world, LockedIsUsed, IsFree,
       IsFreeFor, OpEquipped, WithEntry, Earlier, Equipped
  <2>3. \A e \in Entries : Entry(e) \notin held[p] /\ ~IsFree(Entry(e)) => entry'[e] = entry[e] /\ map'[e] = map[e]
    BY <1>0, <1>30 DEF Fault, Gone, Finish, Shapes, files, OpHolds, Publishing, Creating
  <2>4. OpHolds(p)'
    BY <1>0, <1>30, LockNames DEF Fault, Gone, Finish, Shapes, OpRecord, OpHolds, Publishing,
       Creating, Idle, files, world, OpEquipped, WithBoard, WithEntry
  <2>5. \A e \in Entries : EntrySafe(e)'
    BY <1>0, <1>30, Names DEF Fault, Gone, Finish, Shapes, EntrySafe, OpHolds, Publishing, Creating,
       files, Used
  <2>6. KeepsPlot
    BY <1>0, <1>30 DEF Fault, Gone, Finish, Shapes, EntrySafe, OpHolds, Publishing, Creating, files,
       KeepsPlot
  <2> QED
    BY <1>0, <2>1, <2>2, <2>3, <2>4, <2>5, <2>6, PublishKept
<1>31. ASSUME NEW b \in Boards, LinkSetting(b) PROVE PublishInv' /\ KeepsPlot
  BY <1>0, <1>31 DEF LinkSetting, world, PublishInv, OpHolds, EntrySafe, EntriesApart, LockedIsUsed,
     KeepsPlot, Used
<1>32. ASSUME NEW b \in Boards, LateDelete(b) PROVE PublishInv' /\ KeepsPlot
  BY <1>0, <1>32 DEF LateDelete, files, PublishInv, OpHolds, EntrySafe, EntriesApart, LockedIsUsed,
     KeepsPlot, Used
<1>33. CASE UNCHANGED vars
  BY <1>0, <1>33 DEF vars, PublishInv, OpHolds, EntrySafe, EntriesApart, LockedIsUsed, KeepsPlot,
     Used
<1> QED
  BY <1>1, <1>2, <1>3, <1>4, <1>5, <1>6, <1>7, <1>8, <1>9, <1>10, <1>11, <1>12, <1>13, 
     <1>14, <1>15, <1>16, <1>17, <1>18, <1>19, <1>20, <1>21, <1>22, <1>23, <1>24, 
     <1>25, <1>26, <1>27, <1>28, <1>29, <1>30, <1>31, <1>32, <1>33 DEF Next, Start, Step, Create, Publish, Delete

\* It holds at the start.
LEMMA PublishInit == Init => PublishInv
BY Names DEF Init, PublishInv, OpHolds, EntrySafe, EntriesApart, LockedIsUsed, Idle, Unused, Used,
   Publishing, Creating

\* A publication that was interrupted is finished with its own plot, whoever
\* links, creates, publishes or deletes in between.
THEOREM ResumedWithOwnPlot == Spec => InterruptedIsResumed
<1>1. ShapeInv /\ PublishInv /\ [Next]_vars => KeepsPlot
  BY PublishStep
<1>2. ShapeInv /\ PublishInv /\ [Next]_vars => PublishInv'
  BY PublishStep
<1> QED
  BY <1>1, <1>2, PublishInit, ShapeInit, ShapeStep, PTL DEF Spec, InterruptedIsResumed, KeepsPlot

-----------------------------------------------------------------------------
(* One board for a plot: an uncertain creation keeps its entry listed, and an *)
(* entry that is listed keeps the plot from another.                          *)

\* The boards made for a plot that nobody recorded as deleted
Kept(q) == {b \in Boards : maker[b] = q /\ receipt[b] # "deleted"}
\* No entry of the plot was linked by hand to a board that is not the plot's.
Recovered(q) == \A e \in Used : entry[e].born = q /\ entry[e].board # None => maker[entry[e].board] = q
\* Two entries share a board only when it is deleted.
BoundOnce ==
  \A e \in Used, f \in Used :
    e # f /\ entry[e].board # None /\ entry[f].board = entry[e].board => receipt[entry[e].board] = "deleted"
ListedOnce == \A q \in Fresh, e \in Entries, f \in Entries : e \in Earlier(q) /\ f \in Earlier(q) => e = f
\* The entry that stands for a board of the plot: linked to it, or pending.
StandsFor(e, b) == entry[e].board = b \/ (entry[e].board = None /\ entry[e].status = "pending_creation")
MadeOnce ==
  \A q \in Fresh : Recovered(q) =>
    /\ \A b \in Kept(q), c \in Kept(q) : b = c
    /\ \A b \in Kept(q) : \E e \in Earlier(q) : StandsFor(e, b)
MadeKnown == \A b \in Boards : maker[b] # None => remote[b] # "never"
\* What a creation knows before and after the answer to its POST
CreatesOnce(p) ==
  /\ op[p].pc \in {"post", "refuse"} => (Recovered(op[p].plot) => Kept(op[p].plot) = {})
  /\ op[p].pc = "acknowledge" =>
       /\ maker[op[p].board] = op[p].plot
       /\ Recovered(op[p].plot) => Kept(op[p].plot) \subseteq {op[p].board}
UniqueInv ==
  /\ BoundOnce /\ ListedOnce /\ MadeOnce /\ MadeKnown
  /\ \A p \in Procs : CreatesOnce(p)

\* Entries, deletions and makers are never taken back.
History ==
  /\ Used \subseteq Used'
  /\ \A e \in Used :
       entry'[e].born = entry[e].born /\ (entry[e].board # None => entry'[e].board = entry[e].board)
  /\ \A b \in Boards :
       /\ receipt[b] = "deleted" => receipt'[b] = "deleted"
       /\ remote[b] # "never" => remote'[b] # "never" /\ maker'[b] = maker[b]

\* Every step adds to the history and takes nothing back.
LEMMA HistoryStep ==
  ASSUME ShapeInv, DeletionInv, PublishInv, [Next]_vars
  PROVE  History
<1>0. /\ Shapes /\ Roomy /\ Used \subseteq Entries /\ Used \subseteq Used'
      /\ \A p \in Procs : OpSafe(p) /\ OpEquipped(p) /\ OpHolds(p)
  BY UsedGrows DEF ShapeInv, DeletionInv, PublishInv, Used, Equipped
<1>1. ASSUME NEW p \in Procs, NEW q \in Fresh, StartGenerate(p, q) PROVE History
  BY <1>0, <1>1 DEF StartGenerate, Begin, History, Shapes, Used, files, world, OpSafe, OpEquipped,
     WithBoard
<1>2. ASSUME NEW p \in Procs, NEW q \in Fresh, StartCreate(p, q) PROVE History
  BY <1>0, <1>2 DEF StartCreate, Begin, History, Shapes, Used, files, world, OpSafe, OpEquipped,
     WithBoard
<1>3. ASSUME NEW p \in Procs, NEW f \in 0..MaxEntries, NEW b \in Boards, StartLink(p, f, b)
      PROVE History
  BY <1>0, <1>3 DEF StartLink, Begin, Writable, History, Shapes, Used, files, world, OpSafe,
     OpEquipped, WithBoard
<1>4. ASSUME NEW p \in Procs, NEW f \in Entries, NEW q \in Plots, StartSync(p, f, q) PROVE History
  BY <1>0, <1>4 DEF StartSync, Begin, History, Shapes, Used, files, world, OpSafe, OpEquipped,
     WithBoard
<1>5. ASSUME NEW p \in Procs, NEW f \in Entries, NEW q \in Updates, StartUpdate(p, f, q)
      PROVE History
  BY <1>0, <1>5 DEF StartUpdate, Begin, CanSync, History, Shapes, Used, files, world, OpSafe,
     OpEquipped, WithBoard
<1>6. ASSUME NEW p \in Procs, NEW f \in Entries, StartDelete(p, f) PROVE History
  BY <1>0, <1>6 DEF StartDelete, Begin, History, Shapes, Used, files, world, OpSafe, OpEquipped,
     WithBoard
<1>7. ASSUME NEW p \in Procs, NEW b \in Boards, StartOther(p, b) PROVE History
  BY <1>0, <1>7 DEF StartOther, Begin, Writable, History, Shapes, Used, files, world, OpSafe,
     OpEquipped, WithBoard
<1>8. ASSUME NEW p \in Procs, Share(p) PROVE History
  BY <1>0, <1>8 DEF Share, History, Shapes, Used, files, world, OpSafe, OpEquipped, WithBoard
<1>9. ASSUME NEW p \in Procs, Enter(p) PROVE History
  BY <1>0, <1>9 DEF Enter, History, Shapes, Used, files, world, OpSafe, OpEquipped, WithBoard
<1>10. ASSUME NEW p \in Procs, Check(p) PROVE History
  BY <1>0, <1>10 DEF Check, In, History, Shapes, Used, files, world, OpSafe, OpEquipped, WithBoard
<1>11. ASSUME NEW p \in Procs, CreateNew(p) PROVE History
  <2>1. NextEntry \notin Used
    BY <1>0, <1>11, NextIsUnused DEF CreateNew, In, Appending
  <2> QED
    BY <1>0, <2>1, <1>11 DEF CreateNew, Post, Put, History, world, Shapes
<1>12. ASSUME NEW p \in Procs, CreateAgain(p) PROVE History
  <2>1. entry' = entry \/ \E e \in Entries : entry[e].board = None /\ entry[e].born = op[p].plot /\ Put(e, Intent(op[p].plot))
    BY <1>0, <1>12 DEF CreateAgain, Post, Earlier, Used
  <2> QED
    BY <1>0, <2>1, <1>12 DEF CreateAgain, Put, Intent, History, world, Shapes
<1>13. ASSUME NEW p \in Procs, PostAnswered(p) PROVE History
  BY <1>0, <1>13 DEF PostAnswered, Made, History, Shapes, Used, files, world, OpSafe, OpEquipped,
     WithBoard
<1>14. ASSUME NEW p \in Procs, PostLost(p) PROVE History
  BY <1>0, <1>14 DEF PostLost, Made, History, Shapes, Used, files, world, OpSafe, OpEquipped,
     WithBoard
<1>15. ASSUME NEW p \in Procs, Acknowledge(p) PROVE History
  <2>1. op[p].entry \in Used /\ entry[op[p].entry] \in EntryRecord /\ entry[op[p].entry].board = None
    BY <1>0, <1>15 DEF Acknowledge, In, OpEquipped, WithEntry, Shapes, OpHolds, Creating
  <2>2. CASE entry' = entry
    BY <1>0, <2>2, <1>15 DEF Acknowledge, History, world
  <2>3. CASE Put(op[p].entry, [entry[op[p].entry] EXCEPT !.board = op[p].board, !.status = "linked"])
    <3> DEFINE value == [entry[op[p].entry] EXCEPT !.board = op[p].board, !.status = "linked"]
    <3>1. value.born = entry[op[p].entry].born
      BY <2>1 DEF EntryRecord
    <3>2. Put(op[p].entry, value)
      BY <2>3
    <3> HIDE DEF value
    <3> QED
      BY <1>0, <2>1, <3>1, <3>2, <1>15 DEF Acknowledge, Put, History, world, Shapes
  <2> QED
    BY <2>2, <2>3, <1>15 DEF Acknowledge
<1>16. ASSUME NEW p \in Procs, Refuse(p) PROVE History
  <2>1. op[p].entry \in Used /\ entry[op[p].entry] \in EntryRecord
    BY <1>0, <1>16 DEF Refuse, In, OpEquipped, WithEntry, Shapes
  <2> QED
    BY <1>0, <2>1, <1>16 DEF Refuse, Put, History, world, Shapes, EntryRecord
<1>17. ASSUME NEW p \in Procs, Link(p) PROVE History
  <2>1. p \in Appending \/ op[p].entry # 0
    BY <1>17 DEF Link, In, Appending
  <2>2. p \in Appending => NextEntry \notin Used
    BY <1>0, NextIsUnused
  <2>3. CASE entry' = entry
    BY <1>0, <2>3, <1>17 DEF Link, History, world
  <2>4. CASE op[p].entry = 0 /\ Put(NextEntry, Bound(op[p].board, Unused))
    <3> DEFINE value == Bound(op[p].board, Unused)
    <3>1. Put(NextEntry, value)
      BY <2>4
    <3> HIDE DEF value
    <3> QED
      BY <1>0, <2>1, <2>2, <2>4, <3>1, <1>17 DEF Link, Put, History, world, Shapes
  <2>5. CASE op[p].entry # 0 /\ Recoverable(op[p].entry) /\ Put(op[p].entry, Bound(op[p].board, entry[op[p].entry]))
    <3> DEFINE value == Bound(op[p].board, entry[op[p].entry])
    <3>1. op[p].entry \in Used
      BY <1>0, <2>5, <1>17 DEF Link, In, OpEquipped
    <3>2. value.born = entry[op[p].entry].born /\ entry[op[p].entry].board = None
      BY <1>0, <2>5, <3>1 DEF Bound, Recoverable, Shapes, EntryRecord
    <3>3. Put(op[p].entry, value)
      BY <2>5
    <3> HIDE DEF value
    <3> QED
      BY <1>0, <3>1, <3>2, <3>3, <1>17 DEF Link, Put, History, world, Shapes
  <2> QED
    BY <2>3, <2>4, <2>5, <1>17 DEF Link
<1>18. ASSUME NEW p \in Procs, Sync(p) PROVE History
  BY <1>0, <1>18 DEF Sync, In, CanSync, History, Shapes, Used, files, world, OpSafe, OpEquipped,
     WithBoard
<1>19. ASSUME NEW p \in Procs, Mark(p) PROVE History
  <2>1. op[p].entry \in Used /\ entry[op[p].entry] \in EntryRecord
    BY <1>0, <1>19 DEF Mark, In, OpEquipped, WithEntry, Shapes
  <2> QED
    BY <1>0, <2>1, <1>19 DEF Mark, Put, History, world, Shapes, EntryRecord
<1>20. ASSUME NEW p \in Procs, Write(p) PROVE History
  BY <1>0, <1>20 DEF Write, History, Shapes, Used, files, world, OpSafe, OpEquipped, WithBoard
<1>21. ASSUME NEW p \in Procs, EndWrite(p) PROVE History
  BY <1>0, <1>21 DEF EndWrite, History, Shapes, Used, files, world, OpSafe, OpEquipped, WithBoard
<1>22. ASSUME NEW p \in Procs, Record(p) PROVE History
  <2>1. op[p].entry \in Used /\ entry[op[p].entry] \in EntryRecord
    BY <1>0, <1>22 DEF Record, In, OpEquipped, WithEntry, Shapes
  <2> QED
    BY <1>0, <2>1, <1>22 DEF Record, Put, History, world, Shapes, EntryRecord
<1>23. ASSUME NEW p \in Procs, Select(p) PROVE History
  BY <1>0, <1>23 DEF Select, In, History, Shapes, Used, files, world, OpSafe, OpEquipped, WithBoard
<1>24. ASSUME NEW p \in Procs, Intend(p) PROVE History
  BY <1>0, <1>24 DEF Intend, History, Shapes, Used, world
<1>25. ASSUME NEW p \in Procs, DeleteConfirmed(p) PROVE History
  BY <1>0, <1>25 DEF DeleteConfirmed, Gone, History, Shapes, Used, files, world, OpSafe, OpEquipped,
     WithBoard
<1>26. ASSUME NEW p \in Procs, Rejected(p) PROVE History
  BY <1>0, <1>26 DEF Rejected, History, Shapes, Used, files, world, OpSafe, OpEquipped, WithBoard
<1>27. ASSUME NEW p \in Procs, Unanswered(p) PROVE History
  BY <1>0, <1>27 DEF Unanswered, Gone, History, Shapes, Used, files, world, OpSafe, OpEquipped,
     WithBoard
<1>28. ASSUME NEW p \in Procs, Unlink(p) PROVE History
  BY <1>0, <1>28 DEF Unlink, History, Shapes, Used, files, world, OpSafe, OpEquipped, WithBoard
<1>29. ASSUME NEW p \in Procs, EndOther(p) PROVE History
  BY <1>0, <1>29 DEF EndOther, History, Shapes, Used, files, world, OpSafe, OpEquipped, WithBoard
<1>30. ASSUME NEW p \in Procs, Fault(p) PROVE History
  BY <1>0, <1>30 DEF Fault, Gone, History, Shapes, Used, files, world, OpSafe, OpEquipped, WithBoard
<1>31. ASSUME NEW b \in Boards, LinkSetting(b) PROVE History
  BY <1>0, <1>31 DEF LinkSetting, History, Used, world
<1>32. ASSUME NEW b \in Boards, LateDelete(b) PROVE History
  BY <1>0, <1>32 DEF LateDelete, History, Shapes, Used, files
<1>33. CASE UNCHANGED vars
  BY <1>0, <1>33 DEF History, vars, Used
<1> QED
  BY <1>1, <1>2, <1>3, <1>4, <1>5, <1>6, <1>7, <1>8, <1>9, <1>10, <1>11, <1>12, <1>13, 
     <1>14, <1>15, <1>16, <1>17, <1>18, <1>19, <1>20, <1>21, <1>22, <1>23, <1>24, 
     <1>25, <1>26, <1>27, <1>28, <1>29, <1>30, <1>31, <1>32, <1>33 DEF Next, Start, Step, Create, Publish, Delete

\* Going back over a step: a plot that is recovered was, and its listed entries
\* were listed unless they are new.
LEMMA HistoryBack ==
  ASSUME Shapes, EntriesKnown, History, NEW q \in Fresh
  PROVE  /\ Recovered(q)' => Recovered(q)
         /\ \A e \in Used : e \in Earlier(q)' => e \in Earlier(q)
<1>1. \A e \in Used : entry[e].board \in Boards \cup {None}
  BY DEF Shapes, Used, EntryRecord
<1>2. ASSUME Recovered(q)' PROVE Recovered(q)
  <2> SUFFICES ASSUME NEW e \in Used, entry[e].born = q, entry[e].board # None
               PROVE  maker[entry[e].board] = q
    BY DEF Recovered
  <2>1. e \in Used' /\ entry'[e].born = q /\ entry'[e].board = entry[e].board /\ entry[e].board \in Boards
    BY <1>1 DEF History
  <2>2. maker'[entry[e].board] = q
    BY <1>2, <2>1 DEF Recovered
  <2>3. remote[entry[e].board] # "never"
    BY DEF EntriesKnown, Used
  <2> QED
    BY <2>1, <2>2, <2>3 DEF History
<1>3. ASSUME NEW e \in Used, e \in Earlier(q)' PROVE e \in Earlier(q)
  BY <1>1, <1>3 DEF Earlier, IsDeleted, History
<1> QED
  BY <1>2, <1>3

\* A step that makes no board and binds none, and takes the intent of a creation
\* back only when it made no board
Quiet ==
  /\ maker' = maker /\ Used' = Used
  /\ \A e \in Used :
       /\ entry'[e].board = entry[e].board
       /\ entry[e].board = None /\ entry[e].status = "pending_creation" =>
            entry'[e].status = "pending_creation" \/ (Recovered(entry[e].born) => Kept(entry[e].born) = {})

\* The boards of a plot are only those it had.
LEMMA KeptBack ==
  ASSUME History, maker' = maker, NEW q
  PROVE  Kept(q)' \subseteq Kept(q)
BY DEF Kept, History

\* An entry that stands for a board that is kept is listed.
LEMMA StandingStays ==
  ASSUME Shapes, History, Quiet, NEW q \in Fresh, Recovered(q), NEW b \in Kept(q)', NEW e \in Earlier(q),
         StandsFor(e, b)
  PROVE  e \in Earlier(q)' /\ StandsFor(e, b)'
<1>1. e \in Used /\ e \in Used' /\ entry[e].born = q /\ entry'[e].born = q /\ entry'[e].board = entry[e].board
  BY DEF Earlier, History, Quiet
<1>2. b # None /\ receipt'[b] # "deleted" /\ Kept(q) # {}
  BY Names, KeptBack DEF Kept, Quiet
<1>3. ~IsDeleted(e)' /\ StandsFor(e, b)'
  BY <1>1, <1>2 DEF StandsFor, IsDeleted, Quiet
<1> QED
  BY <1>1, <1>3 DEF Earlier

\* A creation that goes on knows what it knew, as long as nobody makes a board.
LEMMA CreatesKept ==
  ASSUME Shapes, Equipped, EntriesKnown, History, maker' = maker, NEW p \in Procs, CreatesOnce(p),
         op'[p].pc \in Creating => op'[p] = op[p]
  PROVE  CreatesOnce(p)'
<1>1. CASE op'[p].pc \notin Creating
  BY <1>1 DEF CreatesOnce, Creating
<1>2. CASE op'[p].pc \in Creating
  <2>1. op'[p] = op[p]
    BY <1>2
  <2>2. PICK q \in Fresh : q = op[p].plot
    BY <1>2, <2>1 DEF Creating, Equipped, OpEquipped
  <2>3. (Recovered(q)' => Recovered(q)) /\ Kept(q)' \subseteq Kept(q)
    BY HistoryBack, KeptBack
  <2>4. op[p].pc \in {"post", "refuse"} => (Recovered(q)' => Kept(q)' = {})
    BY <2>2, <2>3 DEF CreatesOnce
  <2>5. op[p].pc = "acknowledge" => maker[op[p].board] = q /\ (Recovered(q)' => Kept(q)' \subseteq {op[p].board})
    BY <2>2, <2>3 DEF CreatesOnce
  <2> QED
    BY <2>1, <2>2, <2>4, <2>5 DEF CreatesOnce, Recovered, Kept
<1> QED
  BY <1>1, <1>2

\* A quiet step keeps one board for each plot.
LEMMA QuietStep ==
  ASSUME Shapes, EntriesKnown, UniqueInv, History, Quiet, \A p \in Procs : CreatesOnce(p)'
  PROVE  UniqueInv'
<1>1. BoundOnce'
  BY DEF UniqueInv, BoundOnce, History, Quiet, Shapes, Used, EntryRecord
<1>2. \A q \in Fresh : Earlier(q)' \subseteq Earlier(q)
  BY HistoryBack DEF Quiet, Earlier
<1>3. ListedOnce'
  BY <1>2 DEF UniqueInv, ListedOnce
<1>4. MadeOnce'
  <2> SUFFICES ASSUME NEW q \in Fresh, Recovered(q)'
               PROVE  /\ \A b \in Kept(q)', c \in Kept(q)' : b = c
                      /\ \A b \in Kept(q)' : \E e \in Earlier(q)' : StandsFor(e, b)'
    BY DEF MadeOnce
  <2>1. Recovered(q) /\ Kept(q)' \subseteq Kept(q)
    BY HistoryBack, KeptBack DEF Quiet
  <2>2. \A b \in Kept(q), c \in Kept(q) : b = c
    BY <2>1 DEF UniqueInv, MadeOnce
  <2>3. \A b \in Kept(q)' : \E e \in Earlier(q) : StandsFor(e, b)
    BY <2>1 DEF UniqueInv, MadeOnce
  <2>4. \A b \in Kept(q)' : \E e \in Earlier(q)' : StandsFor(e, b)'
    BY <2>1, <2>3, StandingStays
  <2> QED
    BY <2>1, <2>2, <2>4
<1>5. MadeKnown'
  BY DEF UniqueInv, MadeKnown, Quiet, History
<1> QED
  BY <1>1, <1>3, <1>4, <1>5 DEF UniqueInv

\* A new entry has a board that is free, or is the first of its plot.
LEMMA AppendStep ==
  ASSUME Shapes, EntriesKnown, UniqueInv, History, maker' = maker, \A p \in Procs : CreatesOnce(p)',
         NEW n \in Entries, n \notin Used, Used' = Used \cup {n}, \A e \in Used : entry'[e] = entry[e],
         entry'[n].board # None => ~TakenBy(entry'[n].board, 0) /\ entry'[n].board \in Boards,
         entry'[n].born # None => Earlier(entry'[n].born) = {}
  PROVE  UniqueInv'
<1>1. BoundOnce'
  <2> SUFFICES ASSUME NEW e \in Used', NEW f \in Used', e # f, entry'[e].board # None, entry'[f].board = entry'[e].board
               PROVE  receipt'[entry'[e].board] = "deleted"
    BY DEF BoundOnce
  <2>1. CASE e \in Used /\ f \in Used
    BY <2>1 DEF UniqueInv, BoundOnce, History, Shapes, Used, EntryRecord
  <2>2. CASE e = n \/ f = n
    <3>1. PICK g \in Used : entry[g].board = entry'[n].board /\ entry'[n].board = entry'[e].board
      BY <2>2
    <3>2. IsDeleted(g) /\ entry'[e].board \in Boards
      BY <3>1 DEF TakenBy, Used, Entries
    <3> QED
      BY <3>1, <3>2 DEF IsDeleted, History
  <2> QED
    BY <2>1, <2>2
<1>2. \A q \in Fresh : (\A e \in Used : e \in Earlier(q)' => e \in Earlier(q)) /\ (n \in Earlier(q)' => Earlier(q) = {})
  BY HistoryBack, Names DEF Earlier
<1>3. ListedOnce'
  <2>1. \A q \in Fresh : Earlier(q)' \subseteq Used \cup {n}
    BY DEF Earlier
  <2> QED
    BY <1>2, <2>1 DEF UniqueInv, ListedOnce
<1>4. MadeOnce'
  <2> SUFFICES ASSUME NEW q \in Fresh, Recovered(q)'
               PROVE  /\ \A b \in Kept(q)', c \in Kept(q)' : b = c
                      /\ \A b \in Kept(q)' : \E e \in Earlier(q)' : StandsFor(e, b)'
    BY DEF MadeOnce
  <2>1. Recovered(q) /\ Kept(q)' \subseteq Kept(q)
    BY HistoryBack, KeptBack
  <2>2. \A b \in Kept(q), c \in Kept(q) : b = c
    BY <2>1 DEF UniqueInv, MadeOnce
  <2>3. ASSUME NEW b \in Kept(q)' PROVE \E e \in Earlier(q)' : StandsFor(e, b)'
    <3>1. PICK e \in Earlier(q) : StandsFor(e, b)
      BY <2>1 DEF UniqueInv, MadeOnce
    <3>2. e \in Used /\ entry'[e] = entry[e] /\ entry[e].born = q
      BY <3>1 DEF Earlier
    <3>3. StandsFor(e, b)' /\ ~IsDeleted(e)'
      BY <3>1, <3>2, Names DEF StandsFor, IsDeleted, Kept
    <3> QED
      BY <3>2, <3>3 DEF Earlier
  <2> QED
    BY <2>1, <2>2, <2>3
<1>5. MadeKnown'
  BY DEF UniqueInv, MadeKnown, History
<1> QED
  BY <1>1, <1>3, <1>4, <1>5 DEF UniqueInv

\* An entry without a board is linked to one that is free; when it is the
\* plot's own it is the only one the plot has.
LEMMA BindStep ==
  ASSUME Shapes, EntriesKnown, UniqueInv, History, maker' = maker, \A p \in Procs : CreatesOnce(p)',
         NEW e \in Used, entry[e].board = None, NEW b \in Boards, ~TakenBy(b, e), Used' = Used,
         entry'[e].board = b, \A f \in Used : f # e => entry'[f] = entry[f],
         \A q \in Fresh : entry[e].born = q /\ Recovered(q)' => Kept(q) \subseteq {b}
  PROVE  UniqueInv'
<1>1. BoundOnce'
  <2> SUFFICES ASSUME NEW f \in Used, NEW g \in Used, f # g, entry'[f].board # None, entry'[g].board = entry'[f].board
               PROVE  receipt'[entry'[f].board] = "deleted"
    BY DEF BoundOnce
  <2>1. CASE f # e /\ g # e
    BY <2>1 DEF UniqueInv, BoundOnce, History, Shapes, Used, EntryRecord
  <2>2. CASE f = e \/ g = e
    <3>1. PICK h \in Used \ {e} : entry[h].board = b /\ entry'[f].board = b
      BY <2>2
    <3>2. IsDeleted(h)
      BY <3>1 DEF TakenBy
    <3> QED
      BY <3>1, <3>2 DEF IsDeleted, History
  <2> QED
    BY <2>1, <2>2
<1>2. \A q \in Fresh : Earlier(q)' \subseteq Earlier(q)
  BY HistoryBack DEF Earlier
<1>3. ListedOnce'
  BY <1>2 DEF UniqueInv, ListedOnce
<1>4. MadeOnce'
  <2> SUFFICES ASSUME NEW q \in Fresh, Recovered(q)'
               PROVE  /\ \A c \in Kept(q)', d \in Kept(q)' : c = d
                      /\ \A c \in Kept(q)' : \E f \in Earlier(q)' : StandsFor(f, c)'
    BY DEF MadeOnce
  <2>1. Recovered(q) /\ Kept(q)' \subseteq Kept(q)
    BY HistoryBack, KeptBack
  <2>2. \A c \in Kept(q), d \in Kept(q) : c = d
    BY <2>1 DEF UniqueInv, MadeOnce
  <2>3. ASSUME NEW c \in Kept(q)' PROVE \E f \in Earlier(q)' : StandsFor(f, c)'
    <3>1. PICK f \in Earlier(q) : StandsFor(f, c)
      BY <2>1 DEF UniqueInv, MadeOnce
    <3>2. f \in Used /\ entry[f].born = q /\ entry'[f].born = q /\ receipt'[c] # "deleted" /\ c # None
      BY <3>1, Names DEF Earlier, History, Kept
    <3>3. StandsFor(f, c)' /\ ~IsDeleted(f)'
      <4>1. CASE f # e
        BY <3>1, <3>2, <4>1 DEF StandsFor, IsDeleted
      <4>2. CASE f = e
        <5>1. c = b
          BY <2>1, <3>2, <4>2
        <5> QED
          BY <3>2, <4>2, <5>1 DEF StandsFor, IsDeleted
      <4> QED
        BY <4>1, <4>2
    <3> QED
      BY <3>2, <3>3 DEF Earlier
  <2> QED
    BY <2>1, <2>2, <2>3
<1>5. MadeKnown'
  BY DEF UniqueInv, MadeKnown, History
<1> QED
  BY <1>1, <1>3, <1>4, <1>5 DEF UniqueInv

\* The POST of the only creation of a plot makes the only board of the plot.
LEMMA MadeStep ==
  ASSUME Shapes, Equipped, EntriesKnown, EntriesApart, UniqueInv, History, NEW p \in Procs, op[p].pc = "post",
         \A r \in Procs : OpHolds(r), NEW b \in Boards, Made(b, op[p].plot), entry' = entry, receipt' = receipt,
         \A r \in Procs : r # p => op'[r] = op[r],
         op'[p].pc \notin Creating \/ (op'[p].pc = "acknowledge" /\ op'[p].board = b /\ op'[p].plot = op[p].plot)
  PROVE  UniqueInv'
<1>1. PICK q \in Fresh : q = op[p].plot
  BY DEF Equipped, OpEquipped
<1>2. PICK e \in Entries : e = op[p].entry /\ e \in Earlier(q) /\ Entry(e) \in held[p] /\ \A c : StandsFor(e, c)
  BY <1>1 DEF Equipped, OpEquipped, WithEntry, OpHolds, Creating, Earlier, IsDeleted, StandsFor,
     Used
<1>3. /\ remote[b] = "never" /\ maker[b] = None /\ maker'[b] = q
      /\ \A c \in Boards : c # b => maker'[c] = maker[c] /\ remote'[c] = remote[c]
      /\ remote'[b] = "live"
  BY <1>1 DEF Made, UniqueInv, MadeKnown, Shapes
<1>4. Used' = Used /\ (\A s : Earlier(s)' = Earlier(s)) /\ \A f, c : StandsFor(f, c)' <=> StandsFor(f, c)
  BY DEF Used, Earlier, IsDeleted, StandsFor
<1>5. BoundOnce' /\ ListedOnce'
  BY <1>4 DEF UniqueInv, BoundOnce, ListedOnce
<1>6. \A s \in Fresh : (Recovered(s)' => Recovered(s)) /\ (s # q => Kept(s)' \subseteq Kept(s))
  BY <1>1, <1>3, HistoryBack DEF Kept
<1>7. Recovered(q)' => Kept(q)' \subseteq {b}
  <2>1. CreatesOnce(p)
    BY DEF UniqueInv
  <2>2. Recovered(q)' => Kept(q) = {}
    BY <1>1, <1>6, <2>1 DEF CreatesOnce
  <2>3. Kept(q)' \subseteq Kept(q) \cup {b}
    BY <1>3 DEF Kept
  <2> QED
    BY <2>2, <2>3
<1>8. MadeOnce'
  <2> SUFFICES ASSUME NEW s \in Fresh, Recovered(s)'
               PROVE  /\ \A c \in Kept(s)', d \in Kept(s)' : c = d
                      /\ \A c \in Kept(s)' : \E f \in Earlier(s)' : StandsFor(f, c)'
    BY DEF MadeOnce
  <2>1. CASE s = q
    BY <1>2, <1>4, <1>7, <2>1
  <2>2. CASE s # q
    <3>1. Recovered(s) /\ Kept(s)' \subseteq Kept(s)
      BY <1>6, <2>2
    <3> QED
      BY <1>4, <3>1 DEF UniqueInv, MadeOnce
  <2> QED
    BY <2>1, <2>2
<1>9. MadeKnown'
  BY <1>3 DEF UniqueInv, MadeKnown
<1>10. ASSUME NEW r \in Procs PROVE CreatesOnce(r)'
  <2>1. CASE op'[r].pc \notin Creating
    BY <2>1 DEF CreatesOnce, Creating
  <2>2. CASE r = p /\ op'[r].pc \in Creating
    BY <1>1, <1>3, <1>7, <2>2 DEF CreatesOnce, Recovered, Kept
  <2>3. CASE r # p /\ op'[r].pc \in Creating
    <3>1. op'[r] = op[r] /\ CreatesOnce(r)
      BY <2>3 DEF UniqueInv
    <3>2. PICK s \in Fresh : s = op[r].plot
      BY <2>3, <3>1 DEF Creating, Equipped, OpEquipped
    <3>3. op[r].entry \in Earlier(s) /\ op[r].entry \in Entries /\ Entry(op[r].entry) \in held[r]
      BY <2>3, <3>1, <3>2 DEF Equipped, OpEquipped, WithEntry, OpHolds, Creating, Earlier,
         IsDeleted, Used
    <3>4. s # q
      BY <1>2, <2>3, <3>3 DEF UniqueInv, ListedOnce, EntriesApart
    <3>5. (Recovered(s)' => Recovered(s)) /\ Kept(s)' \subseteq Kept(s)
      BY <1>6, <3>4
    <3>6. op[r].pc \in {"post", "refuse"} => (Recovered(s)' => Kept(s)' = {})
      BY <3>1, <3>2, <3>5 DEF CreatesOnce
    <3>7. op[r].pc = "acknowledge" => maker'[op[r].board] = s /\ (Recovered(s)' => Kept(s)' \subseteq {op[r].board})
      <4>1. op[r].pc = "acknowledge" => op[r].board \in Boards /\ maker[op[r].board] = s
        BY <3>1, <3>2 DEF CreatesOnce, Equipped, OpEquipped, WithBoard
      <4>2. op[r].pc = "acknowledge" => op[r].board # b
        BY <1>3, <3>2, <4>1, Names
      <4> QED
        BY <1>3, <3>1, <3>2, <3>5, <4>1, <4>2 DEF CreatesOnce
    <3> QED
      BY <3>1, <3>2, <3>6, <3>7 DEF CreatesOnce, Recovered, Kept
  <2> QED
    BY <2>1, <2>2, <2>3
<1> QED
  BY <1>5, <1>8, <1>9, <1>10 DEF UniqueInv

\* Every step keeps one board for each plot.
LEMMA UniqueStep ==
  ASSUME ShapeInv, DeletionInv, PublishInv, UniqueInv, [Next]_vars
  PROVE  UniqueInv'
<1>0. /\ Shapes /\ Equipped /\ Roomy /\ EntriesKnown /\ EntriesApart /\ UniqueInv /\ History
      /\ Used \subseteq Entries
      /\ \A r \in Procs : OpHolds(r) /\ OpEquipped(r) /\ CreatesOnce(r)
  BY HistoryStep DEF ShapeInv, DeletionInv, PublishInv, Equipped, UniqueInv, Used
<1>1. ASSUME NEW p \in Procs, NEW q \in Fresh, StartGenerate(p, q) PROVE UniqueInv'
  <2>1. Quiet /\ \A r \in Procs : op'[r].pc \in Creating => op'[r] = op[r]
    BY <1>0, <1>1 DEF StartGenerate, Begin, Idle, files, world, Quiet, Used, Creating, Shapes
  <2> QED
    BY <1>0, <2>1, CreatesKept, QuietStep DEF Quiet
<1>2. ASSUME NEW p \in Procs, NEW q \in Fresh, StartCreate(p, q) PROVE UniqueInv'
  <2>1. Quiet /\ \A r \in Procs : op'[r].pc \in Creating => op'[r] = op[r]
    BY <1>0, <1>2 DEF StartCreate, Begin, Idle, files, world, Quiet, Used, Creating, Shapes
  <2> QED
    BY <1>0, <2>1, CreatesKept, QuietStep DEF Quiet
<1>3. ASSUME NEW p \in Procs, NEW f \in 0..MaxEntries, NEW b \in Boards, StartLink(p, f, b)
      PROVE UniqueInv'
  <2>1. Quiet /\ \A r \in Procs : op'[r].pc \in Creating => op'[r] = op[r]
    BY <1>0, <1>3 DEF StartLink, Begin, Writable, Idle, files, world, Quiet, Used, Creating, Shapes
  <2> QED
    BY <1>0, <2>1, CreatesKept, QuietStep DEF Quiet
<1>4. ASSUME NEW p \in Procs, NEW f \in Entries, NEW q \in Plots, StartSync(p, f, q)
      PROVE UniqueInv'
  <2>1. Quiet /\ \A r \in Procs : op'[r].pc \in Creating => op'[r] = op[r]
    BY <1>0, <1>4 DEF StartSync, Begin, Idle, files, world, Quiet, Used, Creating, Shapes
  <2> QED
    BY <1>0, <2>1, CreatesKept, QuietStep DEF Quiet
<1>5. ASSUME NEW p \in Procs, NEW f \in Entries, NEW q \in Updates, StartUpdate(p, f, q)
      PROVE UniqueInv'
  <2>1. Quiet /\ \A r \in Procs : op'[r].pc \in Creating => op'[r] = op[r]
    BY <1>0, <1>5 DEF StartUpdate, Begin, CanSync, Idle, files, world, Quiet, Used, Creating, Shapes
  <2> QED
    BY <1>0, <2>1, CreatesKept, QuietStep DEF Quiet
<1>6. ASSUME NEW p \in Procs, NEW f \in Entries, StartDelete(p, f) PROVE UniqueInv'
  <2>1. Quiet /\ \A r \in Procs : op'[r].pc \in Creating => op'[r] = op[r]
    BY <1>0, <1>6 DEF StartDelete, Begin, Idle, files, world, Quiet, Used, Creating, Shapes
  <2> QED
    BY <1>0, <2>1, CreatesKept, QuietStep DEF Quiet
<1>7. ASSUME NEW p \in Procs, NEW b \in Boards, StartOther(p, b) PROVE UniqueInv'
  <2>1. Quiet /\ \A r \in Procs : op'[r].pc \in Creating => op'[r] = op[r]
    BY <1>0, <1>7 DEF StartOther, Begin, Writable, Idle, files, world, Quiet, Used, Creating, Shapes
  <2> QED
    BY <1>0, <2>1, CreatesKept, QuietStep DEF Quiet
<1>8. ASSUME NEW p \in Procs, Share(p) PROVE UniqueInv'
  <2>1. Quiet /\ \A r \in Procs : op'[r].pc \in Creating => op'[r] = op[r]
    BY <1>0, <1>8 DEF Share, Finish, Idle, files, world, Quiet, Used, Creating, Shapes
  <2> QED
    BY <1>0, <2>1, CreatesKept, QuietStep DEF Quiet
<1>9. ASSUME NEW p \in Procs, Enter(p) PROVE UniqueInv'
  <2>1. Quiet /\ \A r \in Procs : op'[r].pc \in Creating => op'[r] = op[r]
    BY <1>0, <1>9 DEF Enter, Finish, Idle, files, world, Quiet, Used, Creating, Shapes
  <2> QED
    BY <1>0, <2>1, CreatesKept, QuietStep DEF Quiet
<1>10. ASSUME NEW p \in Procs, Check(p) PROVE UniqueInv'
  <2>1. \A r \in Procs : r # p => op'[r] = op[r]
    BY <1>0, <1>10 DEF Check, Goto, Finish, Shapes
  <2>2. op'[p].pc \notin Creating
    BY <1>0, <1>10, OpGoes DEF Check, Idle, Creating, Places
  <2>3. Quiet
    BY <1>10 DEF Check, Quiet, Used, files, world
  <2> QED
    BY <1>0, <2>1, <2>2, <2>3, CreatesKept, QuietStep DEF Quiet
<1>11. ASSUME NEW p \in Procs, CreateNew(p) PROVE UniqueInv'
  <2>1. /\ NextEntry \in Entries /\ NextEntry \notin Used
        /\ op[p].plot \in Fresh /\ Earlier(op[p].plot) = {}
    BY <1>0, <1>11, NextIsUnused DEF CreateNew, In, Appending, OpEquipped
  <2>2. PICK n \in Entries : n = NextEntry /\ n \notin Used
    BY <2>1
  <2>3. PICK q \in Fresh : q = op[p].plot
    BY <2>1
  <2>4. /\ entry' = [entry EXCEPT ![n] = Intent(q)] /\ op' = [op EXCEPT ![p].pc = "post", ![p].entry = n]
        /\ maker' = maker
    BY <2>2, <2>3, <1>11 DEF CreateNew, Post, Put, world
  <2>5. /\ entry'[n] = Intent(q) /\ (\A e \in Used : entry'[e] = entry[e]) /\ Used' = Used \cup {n}
        /\ entry'[n].board = None /\ entry'[n].born = q
    BY <1>0, <2>2, <2>4 DEF Shapes, Used, Intent
  <2>6. op'[p].pc = "post" /\ op'[p].plot = q /\ \A r \in Procs : r # p => op'[r] = op[r]
    BY <1>0, <2>3, <2>4 DEF Shapes, OpRecord
  <2>7. Recovered(q)' => Kept(q)' = {}
    BY <1>0, <2>1, <2>3, <2>4, HistoryBack, KeptBack DEF UniqueInv, MadeOnce
  <2>8. ASSUME NEW r \in Procs PROVE CreatesOnce(r)'
    <3>1. CASE r = p
      BY <2>6, <2>7, <3>1 DEF CreatesOnce, Recovered, Kept
    <3>2. CASE r # p
      BY <1>0, <2>4, <2>6, <3>2, CreatesKept
    <3> QED
      BY <3>1, <3>2
  <2> QED
    BY <1>0, <2>1, <2>2, <2>3, <2>4, <2>5, <2>8, AppendStep
<1>12. ASSUME NEW p \in Procs, CreateAgain(p) PROVE UniqueInv'
  <2>1. CASE entry' = entry /\ op'[p].pc \notin Creating
    <3>1. Quiet /\ \A r \in Procs : op'[r].pc \in Creating => op'[r] = op[r]
      BY <1>0, <2>1, <1>12 DEF CreateAgain, Post, Finish, Quiet, Used, Creating, Shapes, world
    <3> QED
      BY <1>0, <3>1, CreatesKept, QuietStep DEF Quiet
  <2>2. CASE \E e \in Earlier(op[p].plot) :
               /\ entry[e].board = None /\ entry[e].status # "pending_creation" /\ Post(p, e)
    <3>1. PICK q \in Fresh : q = op[p].plot
      BY <1>0, <1>12 DEF CreateAgain, In, OpEquipped
    <3>2. PICK e \in Earlier(q) : entry[e].board = None /\ entry[e].status # "pending_creation" /\ Post(p, e)
      BY <2>2, <3>1
    <3>3. e \in Used /\ e \in Entries /\ maker' = maker
      BY <3>2, <1>12 DEF Earlier, Used, CreateAgain, world
    <3>4. entry' = [entry EXCEPT ![e] = Intent(q)] /\ op' = [op EXCEPT ![p].pc = "post", ![p].entry = e]
      BY <3>1, <3>2 DEF Post, Put
    <3>5. Quiet
      BY <1>0, <3>2, <3>3, <3>4 DEF Quiet, Intent, Shapes, Used
    <3>6. op'[p].pc = "post" /\ op'[p].plot = q /\ \A r \in Procs : r # p => op'[r] = op[r]
      BY <1>0, <3>1, <3>4 DEF Shapes, OpRecord
    <3>7. Recovered(q) => Kept(q) = {}
      <4>1. \A f \in Earlier(q) : f = e
        BY <1>0, <3>2 DEF UniqueInv, ListedOnce, Earlier, Used
      <4>2. \A b \in Kept(q) : ~StandsFor(e, b)
        BY <3>2, Names DEF StandsFor, Kept
      <4> QED
        BY <1>0, <4>1, <4>2 DEF UniqueInv, MadeOnce
    <3>8. Recovered(q)' => Kept(q)' = {}
      BY <1>0, <3>3, <3>7, HistoryBack, KeptBack
    <3>9. ASSUME NEW r \in Procs PROVE CreatesOnce(r)'
      <4>1. CASE r = p
        BY <3>6, <3>8, <4>1 DEF CreatesOnce, Recovered, Kept
      <4>2. CASE r # p
        BY <1>0, <3>3, <3>6, <4>2, CreatesKept
      <4> QED
        BY <4>1, <4>2
    <3> QED
      BY <1>0, <3>5, <3>9, QuietStep
  <2>3. ASSUME NEW e \in Earlier(op[p].plot), op' = [op EXCEPT ![p].pc = "sync", ![p].entry = e] PROVE op'[p].pc = "sync"
    BY <1>0, <2>3 DEF Shapes, OpRecord
  <2>4. Finish(p) => op'[p].pc = "idle"
    BY <1>0 DEF Finish, Shapes, Idle
  <2> QED
    BY <2>1, <2>2, <2>3, <2>4, <1>12 DEF CreateAgain, Creating
<1>13. ASSUME NEW p \in Procs, PostAnswered(p) PROVE UniqueInv'
  <2>1. ASSUME NEW b \in Boards, Made(b, op[p].plot), op' = [op EXCEPT ![p].pc = "acknowledge", ![p].board = b]
        PROVE  UniqueInv'
    <3>1. /\ op'[p].pc = "acknowledge" /\ op'[p].board = b /\ op'[p].plot = op[p].plot
          /\ \A r \in Procs : r # p => op'[r] = op[r]
      BY <1>0, <2>1 DEF Shapes, OpRecord
    <3> QED
      BY <1>0, <2>1, <3>1, <1>13, MadeStep DEF PostAnswered, files
  <2>2. CASE Goto(p, "refuse") /\ maker' = maker
    <3>1. /\ op'[p].pc = "refuse" /\ op'[p].plot = op[p].plot /\ op[p].pc = "post"
          /\ \A r \in Procs : r # p => op'[r] = op[r]
      BY <1>0, <2>2, <1>13 DEF Shapes, OpRecord, Goto, PostAnswered
    <3>2. PICK q \in Fresh : q = op[p].plot
      BY <1>0, <3>1 DEF OpEquipped
    <3>3. (Recovered(q)' => Recovered(q)) /\ Kept(q)' \subseteq Kept(q) /\ (Recovered(q) => Kept(q) = {})
      BY <1>0, <2>2, <3>1, <3>2, HistoryBack, KeptBack DEF UniqueInv, CreatesOnce
    <3>4. ASSUME NEW r \in Procs PROVE CreatesOnce(r)'
      <4>1. CASE r = p
        BY <3>1, <3>2, <3>3, <4>1 DEF CreatesOnce, Recovered, Kept
      <4>2. CASE r # p
        BY <1>0, <2>2, <3>1, <4>2, CreatesKept
      <4> QED
        BY <4>1, <4>2
    <3>5. Quiet
      BY <2>2, <1>13 DEF PostAnswered, files, Quiet, Used
    <3> QED
      BY <1>0, <3>4, <3>5, QuietStep
  <2> QED
    BY <2>1, <2>2, <1>13 DEF PostAnswered
<1>14. ASSUME NEW p \in Procs, PostLost(p) PROVE UniqueInv'
  <2>1. op[p].pc = "post" /\ entry' = entry /\ receipt' = receipt /\ op'[p].pc = "idle" /\ \A r \in Procs : r # p => op'[r] = op[r]
    BY <1>0, <1>14 DEF PostLost, Finish, Idle, files, Shapes
  <2>2. ASSUME NEW b \in Boards, Made(b, op[p].plot) PROVE UniqueInv'
    BY <1>0, <2>1, <2>2, MadeStep DEF Creating
  <2>3. CASE maker' = maker
    <3>1. Quiet /\ \A r \in Procs : op'[r].pc \in Creating => op'[r] = op[r]
      BY <2>1, <2>3 DEF Quiet, Used, Creating
    <3> QED
      BY <1>0, <2>3, <3>1, CreatesKept, QuietStep
  <2> QED
    BY <2>2, <2>3, <1>14 DEF PostLost
<1>15. ASSUME NEW p \in Procs, Acknowledge(p) PROVE UniqueInv'
  <2>1. \A r \in Procs : op'[r].pc \in Creating => op'[r] = op[r]
    BY <1>0, <1>15 DEF Acknowledge, Finish, Goto, Idle, Creating, Shapes, OpRecord
  <2>2. maker' = maker /\ \A r \in Procs : CreatesOnce(r)'
    BY <1>0, <2>1, <1>15, CreatesKept DEF Acknowledge, world, UniqueInv
  <2>3. CASE entry' = entry
    BY <1>0, <2>2, <2>3, QuietStep DEF Quiet, Used
  <2>4. CASE entry' # entry
    <3>1. PICK e \in Used : e = op[p].entry /\ entry[e].board = None /\ entry[e].born = op[p].plot /\ entry[e] \in EntryRecord
      BY <1>0, <1>15 DEF Acknowledge, In, OpEquipped, WithEntry, OpHolds, Creating, Shapes
    <3>2. PICK b \in Boards : b = op[p].board
      BY <1>0, <1>15 DEF Acknowledge, In, OpEquipped, WithBoard
    <3>3. ~TakenBy(b, e) /\ entry' = [entry EXCEPT ![e] = [entry[e] EXCEPT !.board = b, !.status = "linked"]]
      BY <2>4, <3>1, <3>2, <1>15 DEF Acknowledge, Put
    <3>4. entry'[e] = [entry[e] EXCEPT !.board = b, !.status = "linked"] /\ \A f \in Used : f # e => entry'[f] = entry[f]
      BY <1>0, <3>1, <3>3 DEF Shapes
    <3>5. entry'[e].board = b /\ entry'[e].status = "linked"
      BY <3>1, <3>4 DEF EntryRecord
    <3>6. Used' = Used
      <4>1. \A f \in Entries : f # e => entry'[f] = entry[f]
        BY <1>0, <3>1, <3>3 DEF Shapes
      <4> QED
        BY <3>1, <3>5, <4>1 DEF Used
    <3>7. \A q \in Fresh : entry[e].born = q /\ Recovered(q)' => Kept(q) \subseteq {b}
      BY <1>0, <3>1, <3>2, <1>15, HistoryBack DEF Acknowledge, In, UniqueInv, CreatesOnce
    <3> QED
      BY <1>0, <2>2, <3>1, <3>2, <3>3, <3>4, <3>5, <3>6, <3>7, BindStep
  <2> QED
    BY <2>3, <2>4
<1>16. ASSUME NEW p \in Procs, Refuse(p) PROVE UniqueInv'
  <2>1. /\ op[p].entry \in Used /\ entry[op[p].entry].board = None /\ entry[op[p].entry].born = op[p].plot
        /\ entry[op[p].entry] \in EntryRecord /\ op[p].pc = "refuse"
    BY <1>0, <1>16 DEF Refuse, In, OpEquipped, WithEntry, OpHolds, Creating, Shapes
  <2>2. Recovered(entry[op[p].entry].born) => Kept(entry[op[p].entry].born) = {}
    BY <1>0, <2>1 DEF UniqueInv, CreatesOnce
  <2>3. Quiet
    BY <1>0, <2>1, <2>2, <1>16 DEF Refuse, Put, Quiet, world, Shapes, Used, EntryRecord
  <2>4. \A r \in Procs : op'[r].pc \in Creating => op'[r] = op[r]
    BY <1>0, <1>16 DEF Refuse, Finish, Idle, Creating, Shapes
  <2> QED
    BY <1>0, <2>3, <2>4, CreatesKept, QuietStep DEF Quiet
<1>17. ASSUME NEW p \in Procs, Link(p) PROVE UniqueInv'
  <2>1. \A r \in Procs : op'[r].pc \in Creating => op'[r] = op[r]
    BY <1>0, <1>17 DEF Link, Finish, Idle, Creating, Shapes
  <2>2. maker' = maker /\ \A r \in Procs : CreatesOnce(r)'
    BY <1>0, <2>1, <1>17, CreatesKept DEF Link, world, UniqueInv
  <2>3. PICK b \in Boards : b = op[p].board
    BY <1>0, <1>17 DEF Link, In, OpEquipped, WithBoard
  <2>4. CASE entry' = entry
    BY <1>0, <2>2, <2>4, QuietStep DEF Quiet, Used
  <2>5. CASE op[p].entry = 0 /\ entry' # entry
    <3>1. PICK n \in Entries : n = NextEntry /\ n \notin Used
      BY <1>0, <2>5, <1>17, NextIsUnused DEF Link, In, Appending
    <3>2. ~TakenBy(b, 0) /\ entry' = [entry EXCEPT ![n] = Bound(b, Unused)]
      BY <2>3, <2>5, <3>1, <1>17 DEF Link, Put
    <3>3. /\ entry'[n] = Bound(b, Unused) /\ (\A e \in Used : entry'[e] = entry[e])
          /\ entry'[n].board = b /\ entry'[n].born = None /\ Used' = Used \cup {n}
      BY <1>0, <3>1, <3>2 DEF Shapes, Used, Bound, Unused
    <3> QED
      BY <1>0, <2>2, <3>1, <3>2, <3>3, AppendStep
  <2>6. CASE op[p].entry # 0 /\ entry' # entry
    <3>1. PICK e \in Used : e = op[p].entry /\ entry[e] \in EntryRecord
      BY <1>0, <2>6, <1>17 DEF Link, In, OpEquipped, Shapes
    <3>2. /\ ~TakenBy(b, e) /\ Writable(b) /\ entry[e].board = None
          /\ entry' = [entry EXCEPT ![e] = Bound(b, entry[e])]
      BY <2>3, <2>6, <3>1, <1>17 DEF Link, Put, Recoverable
    <3>3. entry'[e] = Bound(b, entry[e]) /\ \A f \in Entries : f # e => entry'[f] = entry[f]
      BY <1>0, <3>1, <3>2 DEF Shapes
    <3>4. entry'[e].board = b /\ entry'[e].status = "linked" /\ entry'[e].born = entry[e].born
      BY <3>1, <3>3 DEF EntryRecord, Bound
    <3>5. Used' = Used
      BY <3>1, <3>3, <3>4 DEF Used
    <3>6. \A q \in Fresh : entry[e].born = q /\ Recovered(q)' => Kept(q) \subseteq {b}
      <4> SUFFICES ASSUME NEW q \in Fresh, entry[e].born = q, Recovered(q)' PROVE Kept(q) \subseteq {b}
        OBVIOUS
      <4>1. Recovered(q) /\ maker'[b] = q
        BY <1>0, <2>3, <3>1, <3>4, <3>5, HistoryBack, Names DEF Recovered
      <4>2. b \in Kept(q)
        BY <2>2, <3>2, <4>1 DEF Kept, Writable
      <4> QED
        BY <1>0, <4>1, <4>2 DEF UniqueInv, MadeOnce
    <3> QED
      BY <1>0, <2>2, <2>3, <3>1, <3>2, <3>3, <3>4, <3>5, <3>6, BindStep
  <2> QED
    BY <2>4, <2>5, <2>6
<1>18. ASSUME NEW p \in Procs, Sync(p) PROVE UniqueInv'
  <2>1. \A r \in Procs : r # p => op'[r] = op[r]
    BY <1>0, <1>18 DEF Sync, Finish, Shapes
  <2>2. op'[p].pc \notin Creating
    BY <1>0, <1>18, OpGoes DEF Sync, Idle, Creating, Places, Shapes, OpRecord
  <2>3. Quiet
    BY <1>18 DEF Sync, Quiet, Used, files, world
  <2> QED
    BY <1>0, <2>1, <2>2, <2>3, CreatesKept, QuietStep DEF Quiet
<1>19. ASSUME NEW p \in Procs, Mark(p) PROVE UniqueInv'
  <2>1. op[p].entry \in Used /\ entry[op[p].entry].board # None /\ entry[op[p].entry] \in EntryRecord
    BY <1>0, <1>19 DEF Mark, In, OpEquipped, WithEntry, OpHolds, Publishing, Shapes
  <2>2. Quiet
    BY <1>0, <2>1, <1>19 DEF Mark, Put, Quiet, world, Shapes, Used, Statuses, EntryRecord
  <2>3. \A r \in Procs : op'[r].pc \in Creating => op'[r] = op[r]
    BY <1>0, <1>19 DEF Mark, Goto, Finish, Idle, Creating, Shapes
  <2> QED
    BY <1>0, <2>2, <2>3, CreatesKept, QuietStep DEF Quiet
<1>20. ASSUME NEW p \in Procs, Write(p) PROVE UniqueInv'
  <2>1. \A r \in Procs : r # p => op'[r] = op[r]
    BY <1>0, <1>20 DEF Write, Goto, Shapes
  <2>2. op'[p].pc \notin Creating
    BY <1>0, <1>20, OpGoes DEF Write, Idle, Creating, Places
  <2>3. Quiet
    BY <1>20 DEF Write, Quiet, Used, files, world
  <2> QED
    BY <1>0, <2>1, <2>2, <2>3, CreatesKept, QuietStep DEF Quiet
<1>21. ASSUME NEW p \in Procs, EndWrite(p) PROVE UniqueInv'
  <2>1. \A r \in Procs : r # p => op'[r] = op[r]
    BY <1>0, <1>21 DEF EndWrite, Goto, Shapes
  <2>2. op'[p].pc \notin Creating
    BY <1>0, <1>21, OpGoes DEF EndWrite, Idle, Creating, Places
  <2>3. Quiet
    BY <1>21 DEF EndWrite, Quiet, Used, files, world
  <2> QED
    BY <1>0, <2>1, <2>2, <2>3, CreatesKept, QuietStep DEF Quiet
<1>22. ASSUME NEW p \in Procs, Record(p) PROVE UniqueInv'
  <2>1. op[p].entry \in Used /\ entry[op[p].entry].board # None /\ entry[op[p].entry] \in EntryRecord
    BY <1>0, <1>22 DEF Record, In, OpEquipped, WithEntry, OpHolds, Publishing, Shapes
  <2>2. Quiet
    BY <1>0, <2>1, <1>22 DEF Record, Put, Quiet, world, Shapes, Used, Statuses, EntryRecord
  <2>3. \A r \in Procs : op'[r].pc \in Creating => op'[r] = op[r]
    BY <1>0, <1>22 DEF Record, Goto, Finish, Idle, Creating, Shapes
  <2> QED
    BY <1>0, <2>2, <2>3, CreatesKept, QuietStep DEF Quiet
<1>23. ASSUME NEW p \in Procs, Select(p) PROVE UniqueInv'
  <2>1. \A r \in Procs : r # p => op'[r] = op[r]
    BY <1>0, <1>23 DEF Select, Goto, Finish, Shapes
  <2>2. op'[p].pc \notin Creating
    BY <1>0, <1>23, OpGoes DEF Select, Idle, Creating, Places
  <2>3. Quiet
    BY <1>23 DEF Select, Quiet, Used, files, world
  <2> QED
    BY <1>0, <2>1, <2>2, <2>3, CreatesKept, QuietStep DEF Quiet
<1>24. ASSUME NEW p \in Procs, Intend(p) PROVE UniqueInv'
  <2>1. \A r \in Procs : r # p => op'[r] = op[r]
    BY <1>0, <1>24 DEF Intend, Finish, Shapes
  <2>2. op'[p].pc \notin Creating
    BY <1>0, <1>24, OpGoes DEF Intend, Idle, Creating, Places, Shapes, OpRecord
  <2>3. Quiet
    BY <1>24 DEF Intend, Quiet, Used, files, world
  <2> QED
    BY <1>0, <2>1, <2>2, <2>3, CreatesKept, QuietStep DEF Quiet
<1>25. ASSUME NEW p \in Procs, DeleteConfirmed(p) PROVE UniqueInv'
  <2>1. Quiet /\ \A r \in Procs : op'[r].pc \in Creating => op'[r] = op[r]
    BY <1>0, <1>25 DEF DeleteConfirmed, Gone, Goto, Idle, files, world, Quiet, Used, Creating,
       Shapes
  <2> QED
    BY <1>0, <2>1, CreatesKept, QuietStep DEF Quiet
<1>26. ASSUME NEW p \in Procs, Rejected(p) PROVE UniqueInv'
  <2>1. Quiet /\ \A r \in Procs : op'[r].pc \in Creating => op'[r] = op[r]
    BY <1>0, <1>26 DEF Rejected, Finish, Idle, files, world, Quiet, Used, Creating, Shapes
  <2> QED
    BY <1>0, <2>1, CreatesKept, QuietStep DEF Quiet
<1>27. ASSUME NEW p \in Procs, Unanswered(p) PROVE UniqueInv'
  <2>1. Quiet /\ \A r \in Procs : op'[r].pc \in Creating => op'[r] = op[r]
    BY <1>0, <1>27 DEF Unanswered, Gone, Finish, Idle, files, world, Quiet, Used, Creating, Shapes
  <2> QED
    BY <1>0, <2>1, CreatesKept, QuietStep DEF Quiet
<1>28. ASSUME NEW p \in Procs, Unlink(p) PROVE UniqueInv'
  <2>1. Quiet /\ \A r \in Procs : op'[r].pc \in Creating => op'[r] = op[r]
    BY <1>0, <1>28 DEF Unlink, Finish, Idle, files, world, Quiet, Used, Creating, Shapes
  <2> QED
    BY <1>0, <2>1, CreatesKept, QuietStep DEF Quiet
<1>29. ASSUME NEW p \in Procs, EndOther(p) PROVE UniqueInv'
  <2>1. Quiet /\ \A r \in Procs : op'[r].pc \in Creating => op'[r] = op[r]
    BY <1>0, <1>29 DEF EndOther, Finish, Idle, files, world, Quiet, Used, Creating, Shapes
  <2> QED
    BY <1>0, <2>1, CreatesKept, QuietStep DEF Quiet
<1>30. ASSUME NEW p \in Procs, Fault(p) PROVE UniqueInv'
  <2>1. Quiet /\ \A r \in Procs : op'[r].pc \in Creating => op'[r] = op[r]
    BY <1>0, <1>30 DEF Fault, Gone, Finish, Idle, files, world, Quiet, Used, Creating, Shapes
  <2> QED
    BY <1>0, <2>1, CreatesKept, QuietStep DEF Quiet
<1>31. ASSUME NEW b \in Boards, LinkSetting(b) PROVE UniqueInv'
  <2>1. Quiet /\ \A r \in Procs : op'[r].pc \in Creating => op'[r] = op[r]
    BY <1>0, <1>31 DEF LinkSetting, world, Quiet, Used, Creating, Shapes
  <2> QED
    BY <1>0, <2>1, CreatesKept, QuietStep DEF Quiet
<1>32. ASSUME NEW b \in Boards, LateDelete(b) PROVE UniqueInv'
  <2>1. Quiet /\ \A r \in Procs : op'[r].pc \in Creating => op'[r] = op[r]
    BY <1>0, <1>32 DEF LateDelete, files, Quiet, Used, Creating, Shapes
  <2> QED
    BY <1>0, <2>1, CreatesKept, QuietStep DEF Quiet
<1>33. CASE UNCHANGED vars
  <2>1. Quiet /\ \A r \in Procs : op'[r].pc \in Creating => op'[r] = op[r]
    BY <1>0, <1>33 DEF vars, Quiet, Used, Creating, Shapes
  <2> QED
    BY <1>0, <2>1, CreatesKept, QuietStep DEF Quiet
<1> QED
  BY <1>1, <1>2, <1>3, <1>4, <1>5, <1>6, <1>7, <1>8, <1>9, <1>10, <1>11, <1>12, <1>13, 
     <1>14, <1>15, <1>16, <1>17, <1>18, <1>19, <1>20, <1>21, <1>22, <1>23, <1>24, 
     <1>25, <1>26, <1>27, <1>28, <1>29, <1>30, <1>31, <1>32, <1>33 DEF Next, Start, Step, Create, Publish, Delete

\* It holds at the start.
LEMMA UniqueInit == Init => UniqueInv
<1> SUFFICES ASSUME Init PROVE UniqueInv
  OBVIOUS
<1>1. Used = {} /\ \A b \in Boards : maker[b] = None
  BY DEF Init, Used, Unused
<1>2. \A q \in Fresh : Earlier(q) = {} /\ Kept(q) = {}
  BY <1>1, Names DEF Earlier, Kept
<1>3. BoundOnce /\ ListedOnce /\ MadeOnce /\ MadeKnown
  BY <1>1, <1>2 DEF BoundOnce, ListedOnce, MadeOnce, MadeKnown
<1>4. \A p \in Procs : CreatesOnce(p)
  BY DEF Init, CreatesOnce, Idle
<1> QED
  BY <1>3, <1>4 DEF UniqueInv

\* A saved plot never gets a second board before the first is deleted, and no
\* two listed entries share a board, for any number of instances that create,
\* retry, link, publish, delete and die.
THEOREM OneBoard == Spec => []OneBoardPerPlot
<1>1. ShapeInv /\ UniqueInv => OneBoardPerPlot
  <2> SUFFICES ASSUME ShapeInv, UniqueInv PROVE OneBoardPerPlot
    OBVIOUS
  <2>1. ASSUME NEW q \in Fresh, Recovered(q) PROVE Cardinality(Kept(q)) <= 1
    <3>1. CASE Kept(q) = {}
      BY <3>1, FS_EmptySet
    <3>2. CASE Kept(q) # {}
      <4>1. PICK b \in Kept(q) : Kept(q) = {b}
        BY <2>1, <3>2 DEF UniqueInv, MadeOnce
      <4>2. Cardinality({b}) = 1
        BY FS_Singleton
      <4> QED
        BY <4>1, <4>2
    <3> QED
      BY <3>1, <3>2
  <2>2. \A e \in Used : entry[e].board # None /\ ~IsDeleted(e) => ~TakenBy(entry[e].board, e)
    BY DEF UniqueInv, BoundOnce, TakenBy, IsDeleted
  <2> QED
    BY <2>1, <2>2 DEF OneBoardPerPlot, Recovered, Kept
<1>2. ShapeInv /\ DeletionInv /\ PublishInv /\ [Next]_vars => DeletionInv' /\ PublishInv'
  BY DeletionStep, PublishStep
<1> QED
  BY <1>1, <1>2, UniqueInit, UniqueStep, PublishInit, DeletionInit, ShapeInit, ShapeStep, PTL
     DEF Spec
=============================================================================
