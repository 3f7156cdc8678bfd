-------------------------- MODULE MiroStateProofs --------------------------
(***************************************************************************)
(* That the board mapping survives every crash and is never resumed from an *)
(* older file, for any number of commits, sessions and readers' attempts;   *)
(* that a batch of creations journals honestly (the second part), the       *)
(* conversion of a board loses nothing on it (the third), a patch replayed   *)
(* overwrites nobody's work (the fourth), and frames take nothing with them   *)
(* (the fifth).                                                               *)
(***************************************************************************)
EXTENDS MiroState, FiniteSets, FiniteSetTheorems, TLAPS

Unmarked(s) == s # None /\ s.marker = None

\* A snapshot that would be believed without its sidecar is the durable state.
Clean(s) == (s = None => durable = 0) /\ (Unmarked(s) => s.state = durable)

\* The sidecar replays to the durable state, and accepts only snapshots that
\* refer to it or are themselves the durable state.
SideInv ==
  side \in Sidecars =>
    /\ side.state = durable
    /\ \A s \in side.hashes : Clean(s) /\ (s # None /\ s.marker # None => s.marker = side.token)
    /\ ~tampered => snap \in side.hashes

\* Without a sidecar to judge it, the snapshot can be believed.
SnapInv ==
  /\ side = None => Clean(snap)
  /\ ~tampered /\ side \in {None, Blank} => Clean(snap) /\ (snap = None \/ snap.marker = None)

Accepted == snap \in side.hashes
Marked == \A s \in side.hashes : s # None /\ s.marker # None

\* Where the session is, its memory and the files agree.
SessionInv ==
  /\ pc = "loaded" => mem = Load(snap, side)
  /\ pc = "base" => /\ mem = durable
                    /\ side = Blank => Clean(snap) /\ (snap = None \/ snap.marker = None)
                    /\ side # Blank => side \in Sidecars /\ Accepted
  /\ pc \in {"write", "accept", "open", "unlink"} => mem = durable /\ Accepted
  /\ pc \in {"write", "accept", "unlink"} =>
       /\ text \in side.hashes /\ text.state = durable
       /\ phase \in {"enter", "check", "exit"}
       /\ phase = "exit" => text.marker = None
       /\ phase # "exit" => text.marker = side.token
  /\ pc \in {"accept", "unlink"} => snap = text
  /\ pc = "unlink" => phase = "exit"
  /\ pc = "open" \/ (pc \in {"write", "accept"} /\ phase = "check") => Marked

\* What the reader read was durable since it started.
ReaderInv ==
  /\ rpc # "idle" => durable \in seen
  /\ rpc \in {"sidecar", "database"} =>
       tampered \/ ((rsnap = None => 0 \in seen) /\ (Unmarked(rsnap) => rsnap.state \in seen))
  /\ rpc = "done" => tampered \/ result \in seen \cup {None, Broken}

Inv == TypeOK /\ SideInv /\ SnapInv /\ SessionInv /\ ReaderInv

LEMMA Distinct ==
  /\ None \notin Nat /\ Broken \notin Nat /\ Broken # None /\ Blank # None
  /\ None \notin Snapshots /\ None \notin Sidecars /\ Blank \notin Sidecars
  BY MiroStateAssumption DEF MiroStateAssumption

LEMMA TextType == ASSUME NEW v \in Nat, NEW m \in Nat \cup {None}
                  PROVE  /\ Text(v, m) \in Snapshots
                         /\ Text(v, m).state = v /\ Text(v, m).marker = m
  BY DEF Text, Snapshots

\* What a load that succeeds finds.
LEMMA LoadIsDurable ==
  ASSUME TypeOK, SideInv, SnapInv
  PROVE  /\ Load(snap, side) \in {durable, Broken}
         /\ ~tampered /\ side # Blank => Load(snap, side) = durable
         /\ side \in Sidecars /\ Load(snap, side) # Broken => Accepted
<1>1. CASE side = None
  <2>1. Clean(snap)
    BY <1>1 DEF SnapInv
  <2>2. ~tampered => snap = None \/ snap.marker = None
    BY <1>1 DEF SnapInv
  <2> QED
    BY <1>1, <2>1, <2>2, Distinct DEF Load, FromSnapshot, Clean, Unmarked
<1>2. CASE side = Blank
  BY <1>2, Distinct DEF Load, FromSidecar
<1>3. CASE side \in Sidecars
  <2>1. Load(snap, side) = IF snap \notin side.hashes THEN Broken
                           ELSE IF snap # None /\ snap.marker # None /\ snap.marker # side.token THEN Broken
                           ELSE side.state
    BY <1>3, Distinct DEF Load, FromSidecar
  <2> QED
    BY <1>3, <2>1, Distinct DEF SideInv, Accepted
<1> QED
  BY <1>1, <1>2, <1>3 DEF TypeOK

LEMMA InitHolds == Init => Inv
<1> SUFFICES ASSUME Init PROVE Inv
  OBVIOUS
<1>1. TypeOK
  BY DEF Init, TypeOK, PCs
<1>2. SideInv /\ SnapInv
  BY Distinct DEF Init, SideInv, SnapInv, Clean, Unmarked
<1>3. SessionInv /\ ReaderInv
  BY DEF Init, SessionInv, ReaderInv
<1> QED
  BY <1>1, <1>2, <1>3 DEF Inv

\* A step of the session that leaves the files alone.
LEMMA QuietStep ==
  ASSUME Inv, UNCHANGED <<disk, durable, tampered, text, phase, tokens, reader>>,
         \/ pc = "idle" /\ pc' = "loaded" /\ Load(snap, side) # Broken /\ mem' = Load(snap, side)
         \/ pc' = "idle" /\ mem' = mem
         \/ pc \in {"write", "accept"} /\ phase = "check" /\ pc' = "open" /\ mem' = mem
  PROVE  Inv'
<1> USE DEF Inv
<1>1. mem' \in Nat
  <2>1. Load(snap, side) \in {durable, Broken}
    BY LoadIsDurable
  <2> QED
    BY <2>1 DEF TypeOK
<1>2. TypeOK'
  BY <1>1 DEF TypeOK, PCs, disk, reader
<1>3. SideInv' /\ SnapInv'
  BY DEF SideInv, SnapInv, Clean, Unmarked, disk
<1>4. SessionInv'
  BY DEF SessionInv, Accepted, Marked, Load, FromSnapshot, FromSidecar, disk
<1>5. ReaderInv'
  BY DEF ReaderInv, Unmarked, reader
<1> QED
  BY <1>2, <1>3, <1>4, <1>5

\* The reader's and the history's part of a step that changes a file.
LEMMA ReaderKept ==
  ASSUME ReaderInv, Quiet,
         \/ durable' = durable /\ UNCHANGED <<seen, tampered>>
         \/ durable' = durable /\ UNCHANGED seen /\ tampered' = TRUE
         \/ /\ seen' = IF rpc = "idle" THEN seen ELSE seen \cup {durable + 1}
            /\ durable' = durable + 1 /\ UNCHANGED tampered
  PROVE  ReaderInv'
  BY DEF ReaderInv, Quiet, Unmarked

LEMMA CreateStep == Inv /\ Create => Inv'
<1> SUFFICES ASSUME Inv, Create PROVE Inv'
  OBVIOUS
<1> USE DEF Inv
<1>1. /\ pc = "loaded" /\ pc' = "base" /\ EnterOk
      /\ side' = IF side = None THEN Blank ELSE side
      /\ raced' = TRUE
      /\ UNCHANGED <<snap, mem, text, phase, tokens, durable, tampered, seen, rpc, rsnap, tries, result>>
  BY DEF Create, DiskStep, Touch, Quiet
<1>2. mem = Load(snap, side) /\ Load(snap, side) = durable
  BY <1>1, LoadIsDurable, Distinct DEF SessionInv, TypeOK
<1>3. side # Blank
  BY <1>2, Distinct DEF Load, FromSidecar, TypeOK
<1>4. TypeOK'
  BY <1>1, Distinct DEF TypeOK, PCs
<1>5. SideInv' /\ SnapInv'
  BY <1>1, <1>3, Distinct DEF SideInv, SnapInv, Clean, Unmarked
<1>6. side = None => Clean(snap) /\ (snap = None \/ snap.marker = None)
  BY <1>2, Distinct DEF SnapInv, Load, FromSnapshot, TypeOK
<1>7. side # None => side \in Sidecars /\ Accepted
  BY <1>2, <1>3, LoadIsDurable, Distinct DEF TypeOK
<1>8. SessionInv'
  BY <1>1, <1>2, <1>3, <1>6, <1>7 DEF SessionInv, Accepted, Clean, Unmarked
<1>9. ReaderInv'
  BY <1>1, ReaderKept DEF Quiet
<1> QED
  BY <1>4, <1>5, <1>8, <1>9

LEMMA EnterBaseStep == Inv /\ EnterBase => Inv'
<1> SUFFICES ASSUME Inv, EnterBase PROVE Inv'
  OBVIOUS
<1> USE DEF Inv
<1> DEFINE t == Text(mem, Token)
<1>1. /\ pc = "base" /\ pc' = "write" /\ phase' = "enter"
      /\ tokens' = IF side = Blank THEN tokens + 1 ELSE tokens
      /\ text' = t /\ side' = [token |-> Token, state |-> mem, hashes |-> {snap, t}]
      /\ raced' = TRUE
      /\ UNCHANGED <<snap, mem, durable, tampered, seen, rpc, rsnap, tries, result>>
  BY DEF EnterBase, ReplaceBase, DiskStep, Touch, Quiet
<1>2. /\ mem = durable
      /\ side = Blank => Clean(snap) /\ (snap = None \/ snap.marker = None)
      /\ side # Blank => side \in Sidecars /\ Accepted
  BY <1>1 DEF SessionInv
<1>3. Token \in Nat /\ (side # Blank => Token = side.token)
  BY <1>2 DEF Token, TypeOK, Sidecars
<1>4. t \in Snapshots /\ t.state = durable /\ t.marker = Token
  BY <1>2, <1>3, TextType DEF TypeOK
<1> HIDE DEF t
<1>5. /\ side' \in Sidecars /\ side'.state = durable /\ side'.token = Token /\ side'.hashes = {snap, t}
  BY <1>1, <1>2, <1>3, <1>4 DEF TypeOK, Sidecars
<1>6. Clean(t) /\ t # None /\ t.marker # None
  BY <1>3, <1>4, Distinct DEF Clean, Unmarked
<1>7. Clean(snap) /\ (snap # None /\ snap.marker # None => snap.marker = Token)
  BY <1>2, <1>3 DEF SideInv, Accepted
<1>8. TypeOK'
  <2>1. tokens' \in Nat /\ text' \in Snapshots
    BY <1>1, <1>4 DEF TypeOK
  <2> QED
    BY <1>1, <1>5, <2>1 DEF TypeOK, PCs
<1>9. SideInv' /\ SnapInv'
  <2>1. snap' = snap /\ durable' = durable
    BY <1>1
  <2>2. SideInv'
    BY <2>1, <1>4, <1>5, <1>6, <1>7 DEF SideInv, Clean, Unmarked
  <2>3. SnapInv'
    BY <1>5, Distinct DEF SnapInv
  <2> QED
    BY <2>2, <2>3
<1>10. SessionInv'
  BY <1>1, <1>2, <1>4, <1>5 DEF SessionInv, Accepted, Marked
<1>11. ReaderInv'
  BY <1>1, ReaderKept DEF Quiet
<1> QED
  BY <1>8, <1>9, <1>10, <1>11

LEMMA WriteStep == Inv /\ WriteSnapshot => Inv'
<1> SUFFICES ASSUME Inv, WriteSnapshot PROVE Inv'
  OBVIOUS
<1> USE DEF Inv
<1>1. /\ pc = "write" /\ pc' = "accept" /\ snap' = text /\ raced' = TRUE
      /\ UNCHANGED <<side, mem, text, phase, tokens, durable, tampered, seen, rpc, rsnap, tries, result>>
  BY DEF WriteSnapshot, DiskStep, Touch, Quiet
<1>2. TypeOK'
  BY <1>1 DEF TypeOK, PCs
<1>3. SideInv' /\ SnapInv'
  BY <1>1, Distinct DEF TypeOK, SideInv, SnapInv, SessionInv, Clean, Unmarked
<1>4. SessionInv'
  BY <1>1 DEF SessionInv, Accepted, Marked
<1>5. ReaderInv'
  BY <1>1, ReaderKept DEF Quiet
<1> QED
  BY <1>2, <1>3, <1>4, <1>5

LEMMA AcceptStep == Inv /\ Accept => Inv'
<1> SUFFICES ASSUME Inv, Accept PROVE Inv'
  OBVIOUS
<1> USE DEF Inv
<1>1. /\ pc = "accept" /\ pc' = IF phase = "exit" THEN "unlink" ELSE "open"
      /\ side' = [side EXCEPT !.hashes = {text}] /\ raced' = TRUE
      /\ UNCHANGED <<snap, mem, text, phase, tokens, durable, tampered, seen, rpc, rsnap, tries, result>>
  BY DEF Accept, DiskStep, Touch, Quiet
<1>2. side \in Sidecars /\ text \in Snapshots /\ snap = text /\ text \in side.hashes
  BY <1>1 DEF TypeOK, SessionInv
<1>3. /\ side' \in Sidecars /\ side'.hashes = {text}
      /\ side'.state = side.state /\ side'.token = side.token
  BY <1>1, <1>2 DEF Sidecars
<1>4. TypeOK'
  BY <1>1, <1>2, <1>3 DEF TypeOK, PCs
<1>5. SideInv' /\ SnapInv'
  BY <1>1, <1>2, <1>3, Distinct DEF SideInv, SnapInv, Clean, Unmarked
<1>6. phase # "exit" => text # None /\ text.marker # None
  BY <1>1, <1>2, Distinct DEF SessionInv, Sidecars
<1>7. SessionInv'
  BY <1>1, <1>2, <1>3, <1>6 DEF SessionInv, Accepted, Marked
<1>8. ReaderInv'
  BY <1>1, ReaderKept DEF Quiet
<1> QED
  BY <1>4, <1>5, <1>7, <1>8

LEMMA CommitStep == Inv /\ Commit => Inv'
<1> SUFFICES ASSUME Inv, Commit PROVE Inv'
  OBVIOUS
<1> USE DEF Inv
<1>1. /\ pc = "open" /\ side' = [side EXCEPT !.state = side.state + 1] /\ mem' = mem + 1
      /\ durable' = durable + 1 /\ raced' = TRUE
      /\ seen' = IF rpc = "idle" THEN seen ELSE seen \cup {durable + 1}
      /\ UNCHANGED <<snap, tampered, pc, text, phase, tokens, rpc, rsnap, tries, result>>
  BY DEF Commit, Touch, Quiet
<1>2. side \in Sidecars /\ side.state = durable /\ mem = durable /\ Accepted /\ Marked
  BY <1>1 DEF TypeOK, SideInv, SessionInv
<1>3. /\ side' \in Sidecars /\ side'.state = durable + 1
      /\ side'.hashes = side.hashes /\ side'.token = side.token
  BY <1>1, <1>2 DEF Sidecars, TypeOK
<1>4. TypeOK'
  BY <1>1, <1>3 DEF TypeOK, PCs
<1>5. SideInv' /\ SnapInv'
  BY <1>1, <1>2, <1>3, Distinct DEF SideInv, SnapInv, Clean, Unmarked, Marked
<1>6. SessionInv'
  BY <1>1, <1>2, <1>3 DEF SessionInv, Accepted, Marked
<1>7. ReaderInv'
  BY <1>1, ReaderKept DEF Quiet
<1> QED
  BY <1>4, <1>5, <1>6, <1>7

LEMMA CheckpointStep ==
  ASSUME Inv, NEW why \in {"check", "exit"}, Checkpoint(why)
  PROVE  Inv'
<1> USE DEF Inv
<1> DEFINE t == Text(side.state, IF why = "exit" THEN None ELSE side.token)
<1>1. /\ pc = "open" /\ pc' = "write" /\ phase' = why
      /\ text' = t /\ side' = [token |-> side.token, state |-> side.state, hashes |-> {snap, t}]
      /\ raced' = TRUE
      /\ UNCHANGED <<snap, mem, tokens, durable, tampered, seen, rpc, rsnap, tries, result>>
  BY DEF Checkpoint, ReplaceBase, DiskStep, Touch, Quiet
<1>2. side \in Sidecars /\ side.state = durable /\ mem = durable /\ Accepted /\ Marked
  BY <1>1 DEF TypeOK, SideInv, SessionInv
<1>3. t \in Snapshots /\ t.state = durable /\ t.marker = IF why = "exit" THEN None ELSE side.token
  BY <1>2, TextType DEF Sidecars
<1> HIDE DEF t
<1>4. side' \in Sidecars /\ side'.state = durable /\ side'.token = side.token /\ side'.hashes = {snap, t}
  BY <1>1, <1>2, <1>3 DEF TypeOK, Sidecars
<1>5. Clean(t) /\ t # None /\ (why = "check" => t.marker # None)
  BY <1>2, <1>3, Distinct DEF Clean, Unmarked, Sidecars
<1>6. TypeOK'
  BY <1>1, <1>3, <1>4 DEF TypeOK, PCs
<1>7. SideInv' /\ SnapInv'
  BY <1>1, <1>2, <1>3, <1>4, <1>5, Distinct DEF SideInv, SnapInv, Clean, Unmarked, Accepted
<1>8. SessionInv'
  BY <1>1, <1>2, <1>3, <1>4, <1>5 DEF SessionInv, Accepted, Marked
<1>9. ReaderInv'
  BY <1>1, ReaderKept DEF Quiet
<1> QED
  BY <1>6, <1>7, <1>8, <1>9

\* The sidecar goes: closing a session, or a user's mistake.
LEMMA SideGone ==
  ASSUME Inv, Unlink \/ LoseSidecar
  PROVE  Inv'
<1> USE DEF Inv
<1>1. /\ side' = None /\ pc' = "idle" /\ raced' = TRUE
      /\ \/ pc = "unlink" /\ tampered' = tampered
         \/ ~tampered /\ tampered' = TRUE
      /\ UNCHANGED <<snap, mem, text, phase, tokens, durable, seen, rpc, rsnap, tries, result>>
  BY DEF Unlink, LoseSidecar, DiskStep, Touch, Quiet, writer
<1>2. Clean(snap) /\ (pc = "unlink" => snap.marker = None)
  BY <1>1, Distinct DEF SideInv, SnapInv, SessionInv, TypeOK, Accepted
<1>3. TypeOK'
  BY <1>1 DEF TypeOK, PCs
<1>4. SideInv' /\ SnapInv'
  BY <1>1, <1>2, Distinct DEF SideInv, SnapInv, Clean, Unmarked
<1>5. SessionInv'
  BY <1>1 DEF SessionInv
<1>6. ReaderInv'
  BY <1>1, ReaderKept DEF Quiet
<1> QED
  BY <1>3, <1>4, <1>5, <1>6

LEMMA RestoreStep == Inv /\ RestoreSnapshot => Inv'
<1> SUFFICES ASSUME Inv, RestoreSnapshot PROVE Inv'
  OBVIOUS
<1> USE DEF Inv
<1>1. /\ pc = "idle" /\ side # None /\ tampered' = TRUE /\ raced' = TRUE
      /\ UNCHANGED <<pc, side, mem, text, phase, tokens, durable, seen, rpc, rsnap, tries, result>>
  BY DEF RestoreSnapshot, Touch, Quiet, writer
<1>2. snap' \in Snapshots
  <2>1. PICK v \in 0..durable, m \in {None} \cup (1..tokens) : snap' = Text(v, m)
    BY DEF RestoreSnapshot
  <2>2. v \in Nat /\ m \in Nat \cup {None}
    BY <2>1 DEF TypeOK
  <2> QED
    BY <2>1, <2>2, TextType
<1>3. TypeOK'
  BY <1>1, <1>2 DEF TypeOK, PCs
<1>4. SideInv' /\ SnapInv'
  BY <1>1, Distinct DEF SideInv, SnapInv, Clean, Unmarked
<1>5. SessionInv'
  BY <1>1 DEF SessionInv
<1>6. ReaderInv'
  BY <1>1, ReaderKept DEF Quiet
<1> QED
  BY <1>3, <1>4, <1>5, <1>6

\* A reader's step leaves the files and the session alone.
LEMMA ReaderOnly ==
  ASSUME Inv, UNCHANGED <<disk, durable, tampered, writer>>, ReaderInv',
         rpc' \in {"idle", "snapshot", "sidecar", "database", "done"},
         rsnap' \in Snapshots \cup {None}, raced' \in BOOLEAN, tries' \in Nat,
         seen' \subseteq Nat, result' \in Nat \cup {None, Broken}
  PROVE  Inv'
<1> USE DEF Inv
<1>1. UNCHANGED <<snap, side, durable, tampered, pc, mem, text, phase, tokens>>
  BY DEF disk, writer
<1>2. TypeOK'
  BY <1>1 DEF TypeOK
<1>3. SideInv' /\ SnapInv'
  BY <1>1 DEF SideInv, SnapInv, Clean, Unmarked
<1>4. SessionInv'
  BY <1>1 DEF SessionInv, Accepted, Marked, Load, FromSnapshot, FromSidecar, Clean, Unmarked
<1> QED
  BY <1>2, <1>3, <1>4

\* An answer keeps the reader's types, and is one of its call's states.
LEMMA AnswerKept ==
  ASSUME Inv, NEW value \in Nat \cup {Broken}, tampered \/ value \in seen \cup {Broken}, Answer(value),
         rpc \in {"sidecar", "database"},
         UNCHANGED <<disk, durable, tampered, writer, rsnap, seen>>
  PROVE  Inv'
<1>1. /\ rpc' \in {"snapshot", "done"} /\ raced' \in BOOLEAN /\ tries' \in Nat
      /\ result' \in Nat \cup {None, Broken}
      /\ rpc' = "done" => tampered \/ result' \in seen \cup {None, Broken}
  <2>1. tries \in Nat /\ raced \in BOOLEAN /\ result \in Nat \cup {None, Broken}
    BY DEF Inv, TypeOK
  <2>2. CASE value # Broken
    BY <2>1, <2>2 DEF Answer
  <2>3. CASE value = Broken /\ ~raced
    BY <2>1, <2>3 DEF Answer
  <2>4. CASE value = Broken /\ raced /\ tries < MaxTries
    <3>1. rpc' = "snapshot" /\ raced' = FALSE /\ tries' = tries + 1 /\ result' = result
      BY <2>4 DEF Answer
    <3>2. raced' \in BOOLEAN /\ rpc' # "done" /\ rpc' \in {"snapshot", "done"}
      BY <3>1, Zenon
    <3>3. tries' \in Nat /\ result' \in Nat \cup {None, Broken}
      BY <2>1, <3>1
    <3> QED
      BY <3>2, <3>3, Zenon
  <2>5. CASE value = Broken /\ raced /\ ~(tries < MaxTries)
    BY <2>1, <2>5 DEF Answer
  <2> QED
    BY <2>2, <2>3, <2>4, <2>5
<1>2. ReaderInv'
  BY <1>1 DEF ReaderInv, Inv, Unmarked
<1> QED
  BY <1>1, <1>2, ReaderOnly DEF Inv, TypeOK

LEMMA ReaderStep == Inv /\ Reader => Inv'
<1> SUFFICES ASSUME Inv, Reader PROVE Inv'
  OBVIOUS
<1>1. CASE RStart
  <2>1. ReaderInv'
    BY <1>1 DEF RStart, ReaderInv
  <2> QED
    BY <1>1, <2>1, ReaderOnly DEF RStart, Inv, TypeOK
<1>2. CASE RSnapshot
  <2>1. ~tampered => (snap = None => durable = 0) /\ (Unmarked(snap) => snap.state = durable)
    <3>1. side \in {None, Blank} \cup Sidecars
      BY DEF Inv, TypeOK
    <3>2. CASE side \in {None, Blank}
      BY <3>2 DEF Inv, SnapInv, Clean
    <3>3. CASE side \in Sidecars
      BY <3>3 DEF Inv, SideInv, Clean
    <3> QED
      BY <3>1, <3>2, <3>3
  <2>2. ReaderInv'
    BY <1>2, <2>1 DEF RSnapshot, ReaderInv, Inv, Unmarked
  <2> QED
    BY <1>2, <2>2, ReaderOnly DEF RSnapshot, Inv, TypeOK
<1>3. CASE RSidecar /\ side = None
  <2>1. /\ Answer(FromSnapshot(rsnap)) /\ rpc = "sidecar"
        /\ UNCHANGED <<disk, durable, tampered, writer, rsnap, seen>>
    BY <1>3 DEF RSidecar
  <2>2. FromSnapshot(rsnap) \in Nat \cup {Broken}
    BY DEF FromSnapshot, Inv, TypeOK, Snapshots
  <2>3. tampered \/ FromSnapshot(rsnap) \in seen \cup {Broken}
    BY <2>1 DEF FromSnapshot, Inv, ReaderInv, Unmarked
  <2> QED
    BY <2>1, <2>2, <2>3, AnswerKept
<1>4. CASE RSidecar /\ side # None
  <2>1. /\ rpc = "sidecar" /\ rpc' = "database" /\ UNCHANGED <<raced, tries, result>>
        /\ UNCHANGED <<disk, durable, tampered, writer, rsnap, seen>>
    BY <1>4 DEF RSidecar
  <2>2. ReaderInv'
    BY <2>1 DEF ReaderInv, Inv, Unmarked
  <2> QED
    BY <2>1, <2>2, ReaderOnly DEF Inv, TypeOK
<1>5. CASE RDatabase
  <2> DEFINE value == IF side = None THEN Broken ELSE FromSidecar(rsnap, side)
  <2>1. /\ Answer(value) /\ rpc = "database"
        /\ UNCHANGED <<disk, durable, tampered, writer, rsnap, seen>>
    BY <1>5 DEF RDatabase
  <2>2. value \in {durable, Broken}
    BY DEF FromSidecar, Inv, SideInv, TypeOK
  <2>3. durable \in Nat /\ durable \in seen
    BY <2>1 DEF Inv, ReaderInv, TypeOK
  <2> HIDE DEF value
  <2> QED
    BY <2>1, <2>2, <2>3, AnswerKept
<1>6. CASE RDone
  <2>1. ReaderInv'
    BY <1>6 DEF RDone, ReaderInv
  <2> QED
    BY <1>6, <2>1, ReaderOnly DEF RDone, Inv, TypeOK
<1> QED
  BY <1>1, <1>2, <1>3, <1>4, <1>5, <1>6 DEF Reader

LEMMA Invariant == Spec => []Inv
<1>1. Inv /\ [Next]_vars => Inv'
  <2> SUFFICES ASSUME Inv, [Next]_vars PROVE Inv'
    OBVIOUS
  <2>1. CASE Read \/ Abort \/ CheckpointFails
    BY <2>1, QuietStep DEF Read, Abort, CheckpointFails
  <2>2. CASE Session /\ ~(Read \/ Abort \/ CheckpointFails)
    BY <2>2, CreateStep, EnterBaseStep, WriteStep, AcceptStep, CommitStep, CheckpointStep, SideGone DEF Session
  <2>3. CASE Reader
    BY <2>3, ReaderStep
  <2>4. CASE LoseSidecar \/ RestoreSnapshot
    BY <2>4, SideGone, RestoreStep
  <2>5. CASE UNCHANGED vars
    <3>1. UNCHANGED <<disk, durable, tampered, writer>> /\ UNCHANGED <<rpc, rsnap, raced, tries, seen, result>>
      BY <2>5 DEF vars, reader
    <3>2. ReaderInv'
      BY <3>1 DEF Inv, ReaderInv, Unmarked
    <3> QED
      BY <3>1, <3>2, ReaderOnly DEF Inv, TypeOK
  <2> QED
    BY <2>1, <2>2, <2>3, <2>4, <2>5 DEF Next
<1> QED
  BY <1>1, InitHolds, PTL DEF Spec

\* Every variable keeps its type, and a session past its first transaction has
\* a sidecar with metadata.
THEOREM TypeCorrect == Spec => []TypeOK
<1>1. Inv => TypeOK
  BY DEF Inv
<1> QED
  BY <1>1, Invariant, PTL

\* load_state gives exactly what was committed, between any two steps of any
\* number of sessions, crashes and failures, unless the sidecar has no metadata.
THEOREM Recovered == Spec => []RecoveredIsDurable
<1>1. Inv => RecoveredIsDurable
  BY LoadIsDurable DEF Inv, RecoveredIsDurable
<1> QED
  BY <1>1, Invariant, PTL

\* A lost sidecar or an older snapshot beside a sidecar is refused or harmless.
THEOREM FailsClosed == Spec => []NeverStale
<1>1. Inv => NeverStale
  BY LoadIsDurable DEF Inv, NeverStale
<1> QED
  BY <1>1, Invariant, PTL

\* What every load gives: what was committed, or a refusal.
THEOREM LoadsAreSound == Spec => []LoadIsSound
<1>1. RecoveredIsDurable /\ NeverStale => LoadIsSound
  BY DEF LoadIsSound
<1> QED
  BY <1>1, Recovered, FailsClosed, PTL

\* A reader without a lock returns a state that was durable during its call.
THEOREM ReadsAreCurrent == Spec => []ReadIsCurrent
<1>1. Inv => ReadIsCurrent
  BY DEF Inv, ReaderInv, ReadIsCurrent
<1> QED
  BY <1>1, Invariant, PTL

-----------------------------------------------------------------------------
(* What a reader reports                                                   *)

\* As long as an attempt was not raced it judges the files that are there.
AttemptInv ==
  /\ rpc \in {"sidecar", "database"} /\ ~raced => rsnap = snap
  /\ rpc = "database" /\ ~raced => side # None

\* A step of the writer or of a user changes no file, or races the reader.
LEMMA FilesTouched ==
  ASSUME Session \/ LoseSidecar \/ RestoreSnapshot
  PROVE  /\ UNCHANGED <<rpc, rsnap, result>>
         /\ raced' = TRUE \/ UNCHANGED <<snap, side, raced>>
<1> USE DEF DiskStep, Touch, Quiet, reader, disk
<1>1. CASE Read \/ Abort \/ CheckpointFails
  BY <1>1 DEF Read, Abort, CheckpointFails
<1>2. CASE Create \/ EnterBase \/ WriteSnapshot \/ Accept \/ Commit \/ Unlink
  BY <1>2 DEF Create, EnterBase, WriteSnapshot, Accept, Commit, Unlink
<1>3. CASE \E why \in {"check", "exit"} : Checkpoint(why)
  BY <1>3 DEF Checkpoint
<1>4. CASE LoseSidecar \/ RestoreSnapshot
  BY <1>4 DEF LoseSidecar, RestoreSnapshot
<1> QED
  BY <1>1, <1>2, <1>3, <1>4 DEF Session

LEMMA AttemptNext == AttemptInv /\ [Next]_vars => AttemptInv'
<1> SUFFICES ASSUME AttemptInv, [Next]_vars PROVE AttemptInv'
  OBVIOUS
<1>1. CASE Session \/ LoseSidecar \/ RestoreSnapshot
  BY <1>1, FilesTouched DEF AttemptInv
<1>2. CASE Reader
  BY <1>2 DEF Reader, RStart, RSnapshot, RSidecar, RDatabase, RDone, Answer, AttemptInv, disk
<1>3. CASE UNCHANGED vars
  BY <1>3 DEF vars, disk, reader, AttemptInv
<1> QED
  BY <1>1, <1>2, <1>3 DEF Next

\* A reader that gives up on damage looked at the files as they are.
LEMMA AlarmIsTrue ==
  ASSUME AttemptInv, [Next]_vars, rpc # "done", rpc' = "done", result' = Broken
  PROVE  Load(snap, side) = Broken
<1>1. ~(Session \/ LoseSidecar \/ RestoreSnapshot)
  BY FilesTouched
<1>2. CASE RSidecar
  BY <1>2, Distinct DEF RSidecar, Answer, AttemptInv, Load
<1>3. CASE RDatabase
  BY <1>3, Distinct DEF RDatabase, Answer, AttemptInv, Load
<1>4. RSidecar \/ RDatabase
  BY <1>1 DEF Next, Reader, RStart, RSnapshot, RDone, vars, reader
<1> QED
  BY <1>2, <1>3, <1>4

\* A race with a running session is never reported as damage: load_state raises
\* only if the files that it read are still those on disk and are damaged.
THEOREM AlarmsAreTrue == Spec => NoFalseAlarm
<1>1. Init => AttemptInv
  BY DEF Init, AttemptInv
<1>2. AttemptInv /\ [Next]_vars =>
        [rpc # "done" /\ rpc' = "done" /\ result' = Broken => Load(snap, side) = Broken]_vars
  BY AlarmIsTrue
<1> QED
  BY <1>1, <1>2, AttemptNext, PTL DEF Spec, NoFalseAlarm

-----------------------------------------------------------------------------
(***************************************************************************)
(* A batch of creations (MiroRequests): that the journal never forgets a    *)
(* POST that Miro executed or may execute, and that the budget known is     *)
(* never more than Miro has.                                                *)
(***************************************************************************)
CONSTANTS Jobs, Workers, MaxSends, Budget, MaxInterrupts

VARIABLES coord, todo, drawn, pending, stray, firstError, interrupts, faltered, work, sends, reply,
          outcome, cancel, blocked, cooldown, known, knownLive, flying, left, late, landed, unseen,
          intents, mapped

Q == INSTANCE MiroRequests WITH MaxTries <- MaxSends, tries <- sends

Reserved == {j \in Jobs : work[j] \in {"ready", "sending"}}
\* The other requests whose charges a reply on its way may not tell.
Charged(j) == {k \in Jobs \ {j} : work[k] = "served" /\ reply[k].live /\ reply[k].status # "limited"}

WorkStates == {"none", "queued", "pacing", "ready", "sending", "served", "done"}

\* The types, as far as they are inductive by themselves.
RangeInv ==
  /\ coord \in {"idle", "loop", "final", "ended"} /\ drawn \in Jobs \cup {None}
  /\ todo \subseteq Jobs /\ pending \subseteq Jobs /\ stray \subseteq Jobs
  /\ work \in [Jobs -> WorkStates] /\ outcome \in [Jobs -> Q!Outcomes \cup {"none"}]
  /\ sends \in [Jobs -> 0..MaxSends] /\ reply \in [Jobs -> Q!Replies \cup {None}]
  /\ known \in 0..Budget \cup {None} /\ left \in 0..Budget /\ unseen \in Nat
  /\ intents \subseteq Jobs /\ mapped \subseteq Jobs /\ late \subseteq Jobs
  /\ landed \in [Jobs -> Nat] /\ knownLive \in BOOLEAN

\* A job that may still be sent has a send left; an answer is on its way exactly
\* to a job that was served.
StageInv ==
  \A j \in Jobs :
    /\ work[j] \in {"none", "queued"} => sends[j] = 0
    /\ work[j] \in {"pacing", "ready"} => sends[j] < MaxSends
    /\ work[j] = "served" <=> reply[j] # None

\* A job is drawn only when there is room for its future.
PendingInv ==
  /\ Q!Cardinality(pending) <= Workers
  /\ drawn # None => Q!Cardinality(pending) < Workers

\* Each request in flight holds one credit.
FlyingInv == flying = Q!Cardinality(Q!InFlight)

TypesInv == RangeInv /\ StageInv /\ PendingInv /\ FlyingInv

\* A worker works only for a job with a registered or a stray future; one that is
\* to be drawn or submitted has none; and until the call ends an error cancels.
OwnerInv ==
  /\ pending \cap stray = {} /\ drawn \notin todo
  /\ \A j \in Jobs : j \in todo \/ j = drawn => work[j] = "none" /\ j \notin pending \cup stray
  /\ \A j \in Jobs : j \notin pending \cup stray => work[j] \in {"none", "done"}
  /\ coord = "ended" => drawn = None /\ pending = {}
  /\ firstError /\ coord # "ended" => cancel

\* What a worker or a result says about the executions of its POST: none before
\* it was served, none if the result proves so, at most one at last, and one that
\* may come late belongs to a job that was lost.
LandingInv ==
  \A j \in Jobs :
    /\ work[j] \in {"none", "queued", "pacing", "ready", "sending"} => landed[j] = 0
    /\ work[j] = "served" => landed[j] <= 1 /\ (reply[j].status \in Q!Proven => landed[j] = 0)
    /\ work[j] = "done" => outcome[j] \in Q!Outcomes /\ landed[j] <= 1
    /\ work[j] = "done" /\ outcome[j] \in Q!Proven => landed[j] = 0
    /\ j \in late => work[j] = "done" /\ outcome[j] = "lost" /\ landed[j] = 0

\* Every job with a future has its intent, what landed is known, and without a
\* fault of the journal only jobs in doubt keep an intent without a future.
IntentInv ==
  /\ pending \cup stray \subseteq intents /\ (drawn # None => drawn \in intents)
  /\ Q!LandedIsKnown
  /\ ~faltered => /\ stray = {}
                  /\ \A j \in intents : j = drawn \/ j \in pending \/ outcome[j] \in {"lost", "failed"}

\* The known budget is covered by the window.  While nothing is known of this
\* window a reply on its way promises at most what is left, the untold charges
\* and those of the other replies on their way: they may arrive before it.
QuotaInv ==
  /\ knownLive => known # None
  /\ Q!BudgetHonest
  /\ ~knownLive => \A j \in Jobs :
       work[j] = "served" /\ reply[j].live /\ reply[j].left # None
         => reply[j].left <= left + unseen + Q!Cardinality(Charged(j))

SafeInv == TypesInv /\ OwnerInv /\ LandingInv /\ IntentInv /\ QuotaInv

\* The batch counts as FiniteSets does.
LEMMA Counting == \A S : (Q!IsFiniteSet(S) <=> IsFiniteSet(S)) /\ Q!Cardinality(S) = Cardinality(S)
<1>1. \A S : Q!IsFiniteSet(S) <=> IsFiniteSet(S)
  BY DEF Q!IsFiniteSet, IsFiniteSet
<1>2. \A S : Q!Cardinality(S) = Cardinality(S)
  BY DEF Q!Cardinality, Cardinality
<1> QED
  BY <1>1, <1>2

LEMMA Cards ==
  ASSUME Q!MiroRequestsAssumption, NEW S \in SUBSET Jobs, NEW j \in Jobs
  PROVE  /\ Q!IsFiniteSet(S) /\ Q!Cardinality(S) \in Nat
         /\ j \notin S => Q!Cardinality(S \cup {j}) = Q!Cardinality(S) + 1
         /\ j \in S => Q!Cardinality(S \ {j}) = Q!Cardinality(S) - 1 /\ Q!Cardinality(S) >= 1
<1>1. Q!IsFiniteSet(S)
  BY Counting, FS_Subset DEF Q!MiroRequestsAssumption
<1>2. Q!Cardinality(S) \in Nat
  BY Counting, <1>1, FS_CardinalityType
<1>3. j \notin S => Q!Cardinality(S \cup {j}) = Q!Cardinality(S) + 1
  BY Counting, <1>1, FS_AddElement
<1>4. ASSUME j \in S PROVE Q!Cardinality(S \ {j}) = Q!Cardinality(S) - 1 /\ Q!Cardinality(S) >= 1
  <2>1. Q!Cardinality(S \ {j}) = Q!Cardinality(S) - 1
    BY Counting, <1>1, <1>4, FS_RemoveElement
  <2>2. Q!Cardinality(S \ {j}) \in Nat
    BY Counting, <1>1, FS_Subset, FS_CardinalityType
  <2> QED
    BY <1>2, <2>1, <2>2
<1> QED
  BY <1>1, <1>2, <1>3, <1>4

LEMMA Smaller == ASSUME NEW a \in Nat, NEW b \in Nat
                 PROVE  Q!Min({a, b}) \in {a, b} /\ Q!Min({a, b}) <= a /\ Q!Min({a, b}) <= b
<1>1. \E x \in {a, b} : \A y \in {a, b} : x <= y
  <2>1. CASE a <= b
    BY <2>1
  <2>2. CASE b <= a
    BY <2>2
  <2> QED
    BY <2>1, <2>2
<1>2. Q!Min({a, b}) \in {a, b} /\ \A y \in {a, b} : Q!Min({a, b}) <= y
  BY <1>1 DEF Q!Min
<1> QED
  BY <1>2

\* What is promised after a reply lies within the window.
LEMMA BudgetRange ==
  ASSUME Q!MiroRequestsAssumption, NEW r \in Q!Replies, r.left # None, flying \in Nat, flying >= 1,
         known \in 0..Budget \cup {None}
  PROVE  /\ Q!BudgetAfter(r) \in 0..Budget
         /\ Q!BudgetAfter(r) > 0 => Q!BudgetAfter(r) <= r.left - (flying - 1)
         /\ knownLive /\ known # None => Q!BudgetAfter(r) <= known
<1> DEFINE budget == IF r.left > flying - 1 THEN r.left - (flying - 1) ELSE 0
<1>1. r.left \in 0..Budget /\ Budget \in Nat
  BY DEF Q!Replies, Q!MiroRequestsAssumption
<1>2. budget \in 0..Budget /\ (budget > 0 => budget <= r.left - (flying - 1))
  BY <1>1
<1>3. Q!BudgetAfter(r) = IF known = None \/ ~knownLive THEN budget ELSE Q!Min({known, budget})
  BY DEF Q!BudgetAfter
<1>4. CASE known = None \/ ~knownLive
  BY <1>2, <1>3, <1>4
<1>5. CASE ~(known = None \/ ~knownLive)
  <2> DEFINE least == Q!Min({known, budget})
  <2> HIDE DEF budget
  <2>1. known \in Nat /\ budget \in Nat /\ known <= Budget
    BY <1>1, <1>2, <1>5
  <2>2. least \in {known, budget} /\ least <= known /\ least <= budget
    BY <2>1, Smaller
  <2>3. least \in Nat /\ least <= Budget
    BY <2>1, <2>2, <1>1
  <2>4. Q!BudgetAfter(r) = least
    BY <1>3, <1>5
  <2>5. least > 0 => budget > 0
    BY <2>1, <2>2, <2>3
  <2>6. least > 0 => least <= r.left - (flying - 1)
    BY <1>1, <1>2, <2>1, <2>2, <2>3, <2>5
  <2> HIDE DEF least
  <2> QED
    BY <1>1, <2>2, <2>3, <2>4, <2>6
<1> QED
  BY <1>4, <1>5

LEMMA FailEffect ==
  ASSUME RangeInv, NEW P \in SUBSET Jobs, Q!Fail(P)
  PROVE  /\ firstError' = TRUE /\ cancel' = TRUE
         /\ work' \in [Jobs -> WorkStates] /\ outcome' \in [Jobs -> Q!Outcomes \cup {"none"}]
         /\ \A j \in Jobs : \/ work'[j] = work[j] /\ outcome'[j] = outcome[j]
                            \/ work[j] = "queued" /\ work'[j] = "done" /\ outcome'[j] = "cancelled"
  BY DEF RangeInv, Q!Fail, WorkStates, Q!Outcomes

\* What the coordinator does to the workers: it cancels jobs that wait in the queue.
LEMMA CoordinatorEffect ==
  ASSUME RangeInv, (\E j \in Jobs : Q!Draw(j) \/ Q!AcceptDone(j)) \/ Q!Interrupt
  PROVE  \A k \in Jobs : \/ work'[k] = work[k] /\ outcome'[k] = outcome[k]
                         \/ work[k] = "queued" /\ work'[k] = "done" /\ outcome'[k] = "cancelled"
<1>1. CASE Q!Fail(pending) \/ Q!Fail(pending')
  <2>1. pending \in SUBSET Jobs /\ pending' \in SUBSET Jobs
    BY DEF RangeInv, Q!Draw, Q!AcceptDone, Q!Interrupt
  <2> QED
    BY <1>1, <2>1, FailEffect
<1>2. CASE ~(Q!Fail(pending) \/ Q!Fail(pending'))
  BY <1>2 DEF Q!Draw, Q!AcceptDone, Q!Interrupt
<1> QED
  BY <1>1, <1>2

\* Dispatch may queue the job it has drawn as well.
LEMMA DispatchEffect ==
  ASSUME RangeInv, OwnerInv, Q!Dispatch
  PROVE  /\ drawn \in Jobs /\ work[drawn] = "none" /\ drawn \notin pending \cup stray /\ drawn \notin todo
         /\ \A k \in Jobs : \/ work'[k] = work[k] /\ outcome'[k] = outcome[k]
                            \/ work[k] = "queued" /\ work'[k] = "done" /\ outcome'[k] = "cancelled"
                            \/ /\ k = drawn /\ work'[k] = "queued" /\ outcome'[k] = outcome[k]
                               /\ drawn \in pending' \cup stray'
<1>1. drawn \in Jobs /\ work[drawn] = "none" /\ drawn \notin pending \cup stray /\ drawn \notin todo
  BY DEF RangeInv, OwnerInv, Q!Dispatch
<1>2. CASE Q!Fail(pending)
  BY <1>1, <1>2, FailEffect DEF RangeInv
<1>3. CASE ~Q!Fail(pending)
  BY <1>1, <1>3 DEF Q!Dispatch, RangeInv
<1> QED
  BY <1>1, <1>2, <1>3

LEMMA RangeStep ==
  ASSUME Q!MiroRequestsAssumption, TypesInv, LandingInv, QuotaInv, Q!Next
  PROVE  RangeInv'
<1> USE DEF TypesInv, RangeInv, Q!coordinator, Q!pacing, Q!miro, Q!journal
<1>k. known = None \/ ~knownLive \/ (known \in Nat /\ known <= Budget)
  BY DEF Q!MiroRequestsAssumption
<1>n. None \notin Nat /\ Budget \in Nat /\ MaxSends \in Nat
  BY DEF Q!MiroRequestsAssumption
<1>1. ASSUME NEW j \in Jobs, Q!Begin(j) PROVE RangeInv'
  BY <1>1 DEF Q!Begin, WorkStates
<1>2. ASSUME NEW j \in Jobs, Q!Refused(j) PROVE RangeInv'
  BY <1>2 DEF Q!Refused, Q!Finish, WorkStates, Q!Outcomes
<1>3. ASSUME NEW j \in Jobs, Q!Reserve(j) PROVE RangeInv'
  <2>1. known' \in 0..Budget \cup {None}
    BY <1>3, <1>k, <1>n DEF Q!Reserve, Q!Affordable
  <2> QED
    BY <1>3, <2>1 DEF Q!Reserve, WorkStates
<1>4. ASSUME NEW j \in Jobs, Q!Send(j) PROVE RangeInv'
  <2>1. sends' \in [Jobs -> 0..MaxSends]
    BY <1>4, <1>n DEF Q!Send, StageInv
  <2> QED
    BY <1>4, <2>1 DEF Q!Send, Q!Finish, WorkStates, Q!Outcomes
<1>5. ASSUME NEW j \in Jobs, Q!Receive(j) PROVE RangeInv'
  <2>1. reply[j] \in Q!Replies /\ work[j] = "served"
    BY <1>5 DEF Q!Receive, StageInv
  <2>2. flying \in Nat /\ flying >= 1
    <3>1. j \in Q!InFlight /\ Q!InFlight \in SUBSET Jobs
      BY <2>1 DEF Q!InFlight
    <3> QED
      BY <3>1, Cards DEF FlyingInv
  <2>3. known' \in 0..Budget \cup {None} /\ knownLive' \in BOOLEAN
    <3>1. CASE reply[j].left # None /\ reply[j].live
      <4>1. Q!BudgetAfter(reply[j]) \in 0..Budget
        BY <2>1, <2>2, <3>1, BudgetRange
      <4> QED
        BY <1>5, <3>1, <4>1 DEF Q!Receive, Q!Observe
    <3>2. CASE ~(reply[j].left # None /\ reply[j].live)
      BY <1>5, <3>2 DEF Q!Receive, Q!Observe
    <3> QED
      BY <3>1, <3>2
  <2>4. reply[j].status \in Q!Outcomes
    BY <2>1 DEF Q!Replies, Q!Statuses, Q!Outcomes
  <2>5. work' \in [Jobs -> WorkStates] /\ outcome' \in [Jobs -> Q!Outcomes \cup {"none"}]
    BY <1>5, <2>4 DEF Q!Receive, Q!Finish, WorkStates
  <2>6. unseen' \in Nat /\ reply' \in [Jobs -> Q!Replies \cup {None}]
    BY <1>5 DEF Q!Receive, Q!Untold
  <2>7. UNCHANGED <<Q!coordinator, sends, left, late, landed, Q!journal>>
    BY <1>5 DEF Q!Receive
  <2> QED
    BY <2>3, <2>5, <2>6, <2>7
<1>6. ASSUME NEW j \in Jobs, Q!Lose(j) PROVE RangeInv'
  BY <1>6 DEF Q!Lose, Q!Finish, WorkStates, Q!Outcomes, Q!Untold
<1>7. ASSUME NEW j \in Jobs, Q!Serve(j) PROVE RangeInv'
  <2>1. PICK status \in Q!Statuses, told \in BOOLEAN :
          /\ status # "limited" => left > 0
          /\ left' = IF status = "limited" THEN left ELSE left - 1
          /\ reply' = [reply EXCEPT ![j] = [status |-> status, left |-> IF told THEN left' ELSE None, live |-> TRUE]]
          /\ \/ landed' = [landed EXCEPT ![j] = @ + 1]
             \/ UNCHANGED landed
    BY <1>7 DEF Q!Serve
  <2>2. left' \in 0..Budget
    BY <2>1, <1>n
  <2>3. [status |-> status, left |-> IF told THEN left' ELSE None, live |-> TRUE] \in Q!Replies
    BY <2>1, <2>2 DEF Q!Replies
  <2>4. reply' \in [Jobs -> Q!Replies \cup {None}] /\ landed' \in [Jobs -> Nat]
    BY <2>1, <2>3
  <2> QED
    BY <1>7, <2>2, <2>4 DEF Q!Serve, WorkStates
<1>8. ASSUME NEW j \in Jobs, Q!ServeLate(j) PROVE RangeInv'
  BY <1>8, <1>n DEF Q!ServeLate
<1>9. ASSUME NEW j \in Jobs, Q!Draw(j) PROVE RangeInv'
  <2>1. CASE Q!Fail(pending)
    BY <1>9, <2>1, FailEffect DEF Q!Draw
  <2>2. CASE ~Q!Fail(pending)
    BY <1>9, <2>2 DEF Q!Draw
  <2> QED
    BY <2>1, <2>2
<1>10. ASSUME NEW j \in Jobs, Q!AcceptDone(j) PROVE RangeInv'
  <2>1. pending' \in SUBSET Jobs /\ intents' \subseteq Jobs /\ mapped' \subseteq Jobs
    BY <1>10 DEF Q!AcceptDone
  <2>2. work' \in [Jobs -> WorkStates] /\ outcome' \in [Jobs -> Q!Outcomes \cup {"none"}]
    <3>1. CASE Q!Fail(pending')
      BY <2>1, <3>1, FailEffect
    <3>2. CASE ~Q!Fail(pending')
      BY <1>10, <3>2 DEF Q!AcceptDone
    <3> QED
      BY <3>1, <3>2
  <2> QED
    BY <1>10, <2>1, <2>2 DEF Q!AcceptDone
<1>11. CASE Q!WindowReset
  <2>1. ASSUME NEW j \in Jobs, reply[j] # None PROVE [reply[j] EXCEPT !.live = FALSE] \in Q!Replies
    BY <2>1 DEF Q!Replies
  <2>2. reply' \in [Jobs -> Q!Replies \cup {None}]
    BY <1>11, <2>1 DEF Q!WindowReset
  <2>3. left' = Budget /\ unseen' = 0 /\ knownLive' = FALSE
    BY <1>11 DEF Q!WindowReset
  <2>4. UNCHANGED <<Q!coordinator, work, sends, outcome, known, late, landed, Q!journal>>
    BY <1>11 DEF Q!WindowReset
  <2>5. left' \in 0..Budget /\ unseen' \in Nat
    BY <2>3, <1>n
  <2> QED
    BY <2>2, <2>3, <2>4, <2>5
<1>12. CASE Q!CooldownEnds \/ Q!Call \/ Q!End
  BY <1>12 DEF Q!CooldownEnds, Q!Call, Q!End
<1>13. CASE Q!Dispatch
  <2>1. CASE Q!Fail(pending)
    BY <1>13, <2>1, FailEffect DEF Q!Dispatch, WorkStates
  <2>2. CASE ~Q!Fail(pending)
    BY <1>13, <2>2 DEF Q!Dispatch, WorkStates, Q!Outcomes
  <2> QED
    BY <2>1, <2>2
<1>14. CASE Q!Interrupt
  <2>1. CASE Q!Fail(pending)
    BY <1>14, <2>1, FailEffect DEF Q!Interrupt
  <2>2. CASE ~Q!Fail(pending)
    BY <1>14, <2>2 DEF Q!Interrupt
  <2> QED
    BY <2>1, <2>2
<1> QED
  BY <1>1, <1>2, <1>3, <1>4, <1>5, <1>6, <1>7, <1>8, <1>9, <1>10, <1>11, <1>12, <1>13, <1>14
     DEF Q!Next, Q!Worker

LEMMA StageStep ==
  ASSUME Q!MiroRequestsAssumption, TypesInv, OwnerInv, Q!Next
  PROVE  StageInv'
<1> USE DEF TypesInv, RangeInv, StageInv, Q!coordinator, Q!pacing, Q!miro, Q!journal
<1>n. /\ None \notin Q!Replies /\ MaxSends \in Nat \ {0}
      /\ \A j \in Jobs : sends[j] \in Nat
  BY DEF Q!MiroRequestsAssumption
<1>1. ASSUME NEW j \in Jobs, Q!Begin(j) PROVE StageInv'
  BY <1>1, <1>n DEF Q!Begin, WorkStates
<1>2. ASSUME NEW j \in Jobs, Q!Refused(j) PROVE StageInv'
  BY <1>2 DEF Q!Refused, Q!Finish, WorkStates
<1>3. ASSUME NEW j \in Jobs, Q!Reserve(j) PROVE StageInv'
  BY <1>3 DEF Q!Reserve, WorkStates
<1>4. ASSUME NEW j \in Jobs, Q!Send(j) PROVE StageInv'
  BY <1>4 DEF Q!Send, Q!Finish, WorkStates
<1>5. ASSUME NEW j \in Jobs, Q!Receive(j) PROVE StageInv'
  <2>1. /\ work' = [work EXCEPT ![j] = "pacing"] /\ sends[j] < MaxSends
        \/ work' = [work EXCEPT ![j] = "done"]
    BY <1>5 DEF Q!Receive, Q!Retries, Q!Finish
  <2>2. reply' = [reply EXCEPT ![j] = None] /\ UNCHANGED sends
    BY <1>5 DEF Q!Receive
  <2> QED
    BY <2>1, <2>2
<1>6. ASSUME NEW j \in Jobs, Q!Lose(j) PROVE StageInv'
  BY <1>6 DEF Q!Lose, Q!Finish
<1>7. ASSUME NEW j \in Jobs, Q!Serve(j) PROVE StageInv'
  <2>1. work' = [work EXCEPT ![j] = "served"] /\ UNCHANGED sends
    BY <1>7 DEF Q!Serve
  <2>2. PICK status \in Q!Statuses, told \in BOOLEAN :
          /\ status # "limited" => left > 0
          /\ left' = IF status = "limited" THEN left ELSE left - 1
          /\ reply' = [reply EXCEPT ![j] = [status |-> status, left |-> IF told THEN left' ELSE None, live |-> TRUE]]
    BY <1>7 DEF Q!Serve
  <2>3. left' \in 0..Budget
    BY <2>2 DEF Q!MiroRequestsAssumption
  <2>4. [status |-> status, left |-> IF told THEN left' ELSE None, live |-> TRUE] \in Q!Replies
    BY <2>2, <2>3 DEF Q!Replies
  <2> QED
    BY <2>1, <2>2, <2>4, <1>n
<1>8. ASSUME NEW j \in Jobs, Q!ServeLate(j) PROVE StageInv'
  BY <1>8 DEF Q!ServeLate
<1>9. ASSUME NEW j \in Jobs, Q!Draw(j) PROVE StageInv'
  <2>1. CASE Q!Fail(pending)
    BY <1>9, <2>1, FailEffect DEF Q!Draw
  <2>2. CASE ~Q!Fail(pending)
    BY <1>9, <2>2 DEF Q!Draw
  <2> QED
    BY <2>1, <2>2
<1>10. ASSUME NEW j \in Jobs, Q!AcceptDone(j) PROVE StageInv'
  <2>1. pending' \in SUBSET Jobs /\ UNCHANGED <<sends, reply>>
    BY <1>10 DEF Q!AcceptDone
  <2>2. CASE Q!Fail(pending')
    BY <2>1, <2>2, FailEffect
  <2>3. CASE ~Q!Fail(pending')
    BY <1>10, <2>3 DEF Q!AcceptDone
  <2> QED
    BY <2>2, <2>3
<1>11. CASE Q!WindowReset
  <2>1. ASSUME NEW j \in Jobs, reply[j] # None PROVE [reply[j] EXCEPT !.live = FALSE] \in Q!Replies
    BY <2>1 DEF Q!Replies
  <2>2. \A j \in Jobs : reply'[j] = None <=> reply[j] = None
    BY <1>11, <2>1, <1>n DEF Q!WindowReset
  <2>3. UNCHANGED <<work, sends>>
    BY <1>11 DEF Q!WindowReset
  <2> QED
    BY <2>2, <2>3
<1>12. CASE Q!CooldownEnds \/ Q!Call \/ Q!End
  BY <1>12 DEF Q!CooldownEnds, Q!Call, Q!End
<1>14. CASE Q!Interrupt
  <2>1. CASE Q!Fail(pending)
    BY <1>14, <2>1, FailEffect DEF Q!Interrupt
  <2>2. CASE ~Q!Fail(pending)
    BY <1>14, <2>2 DEF Q!Interrupt
  <2> QED
    BY <2>1, <2>2
<1>13. CASE Q!Dispatch
  <2>0. drawn \in Jobs /\ work[drawn] = "none" /\ UNCHANGED <<sends, reply>>
    BY <1>13 DEF Q!Dispatch, OwnerInv
  <2>1. CASE Q!Fail(pending)
    BY <2>0, <2>1, FailEffect
  <2>2. CASE ~Q!Fail(pending)
    BY <1>13, <2>0, <2>2 DEF Q!Dispatch
  <2> QED
    BY <2>1, <2>2
<1> QED
  BY <1>1, <1>2, <1>3, <1>4, <1>5, <1>6, <1>7, <1>8, <1>9, <1>10, <1>11, <1>12, <1>13, <1>14
     DEF Q!Next, Q!Worker

LEMMA PendingStep ==
  ASSUME Q!MiroRequestsAssumption, TypesInv, OwnerInv, Q!Next
  PROVE  PendingInv'
<1> USE DEF TypesInv, RangeInv, PendingInv, Q!coordinator
<1>n. Workers \in Nat
  BY DEF Q!MiroRequestsAssumption
<1>1. CASE UNCHANGED pending /\ (drawn' = drawn \/ drawn' = None \/ Q!Cardinality(pending) < Workers)
  BY <1>1
<1>2. ASSUME NEW j \in Jobs, Q!Draw(j) PROVE PendingInv'
  BY <1>2 DEF Q!Draw, Q!MayDraw
<1>3. ASSUME NEW j \in Jobs, Q!AcceptDone(j) PROVE PendingInv'
  <2>1. j \in pending /\ pending' = pending \ {j} /\ drawn = None /\ drawn' = None
    BY <1>3 DEF Q!AcceptDone
  <2>2. Q!Cardinality(pending') = Q!Cardinality(pending) - 1 /\ Q!Cardinality(pending) \in Nat
    BY <2>1, Cards
  <2> QED
    BY <2>1, <2>2, <1>n
<1>4. CASE Q!Dispatch
  <2>1. drawn \in Jobs \ pending /\ drawn' = None /\ Q!Cardinality(pending) < Workers
    BY <1>4 DEF Q!Dispatch, OwnerInv
  <2>2. pending' = pending \/ pending' = pending \cup {drawn}
    BY <1>4 DEF Q!Dispatch
  <2>3. Q!Cardinality(pending \cup {drawn}) = Q!Cardinality(pending) + 1 /\ Q!Cardinality(pending) \in Nat
    BY <2>1, Cards
  <2>4. CASE pending' = pending
    BY <2>1, <2>3, <2>4, <1>n
  <2>5. CASE pending' = pending \cup {drawn}
    <3>1. Q!Cardinality(pending') = Q!Cardinality(pending) + 1
      BY <2>3, <2>5
    <3> QED
      BY <2>1, <2>3, <3>1, <1>n
  <2> QED
    BY <2>2, <2>4, <2>5
<1> QED
  BY <1>1, <1>2, <1>3, <1>4
     DEF Q!Next, Q!Worker, Q!Begin, Q!Refused, Q!Reserve, Q!Send, Q!Receive, Q!Lose, Q!Serve, Q!ServeLate,
         Q!WindowReset,
         Q!CooldownEnds, Q!Call, Q!Interrupt, Q!End

\* No request leaves or enters the flight when only queued and new ones are touched.
LEMMA QuietFlight ==
  ASSUME \A j \in Jobs : \/ work'[j] = work[j]
                         \/ /\ work[j] \in {"none", "queued", "pacing"}
                            /\ work'[j] \in {"queued", "pacing", "done"}
  PROVE  Q!InFlight' = Q!InFlight /\ Reserved' = Reserved
  BY DEF Q!InFlight, Reserved

LEMMA FlyingStep ==
  ASSUME Q!MiroRequestsAssumption, TypesInv, OwnerInv, Q!Next
  PROVE  FlyingInv'
<1> USE DEF TypesInv, RangeInv, FlyingInv, Q!coordinator, Q!pacing
<1>f. Q!InFlight \in SUBSET Jobs
  BY DEF Q!InFlight
<1>1. CASE UNCHANGED flying /\ Q!InFlight' = Q!InFlight
  BY <1>1
<1>2. ASSUME NEW j \in Jobs, Q!Begin(j) \/ Q!Refused(j) PROVE FlyingInv'
  <2>1. Q!InFlight' = Q!InFlight
    BY <1>2, QuietFlight DEF Q!Begin, Q!Refused, Q!Finish
  <2> QED
    BY <1>1, <1>2, <2>1 DEF Q!Begin, Q!Refused
<1>3. ASSUME NEW j \in Jobs, Q!Reserve(j) PROVE FlyingInv'
  <2>1. Q!InFlight' = Q!InFlight \cup {j} /\ j \notin Q!InFlight /\ flying' = flying + 1
    BY <1>3 DEF Q!Reserve, Q!InFlight
  <2> QED
    BY <2>1, <1>f, Cards
<1>4. ASSUME NEW j \in Jobs, Q!Send(j) PROVE FlyingInv'
  <2>1. \/ Q!InFlight' = Q!InFlight \ {j} /\ j \in Q!InFlight /\ flying' = flying - 1
        \/ Q!InFlight' = Q!InFlight /\ UNCHANGED flying
    BY <1>4 DEF Q!Send, Q!Finish, Q!InFlight
  <2> QED
    BY <2>1, <1>f, Cards
<1>5. ASSUME NEW j \in Jobs, Q!Receive(j) \/ Q!Lose(j) PROVE FlyingInv'
  <2>1. Q!InFlight' = Q!InFlight \ {j} /\ j \in Q!InFlight
    BY <1>5 DEF Q!Receive, Q!Lose, Q!Finish, Q!InFlight
  <2>2. flying' = flying - 1
    BY <1>5 DEF Q!Receive, Q!Lose, Q!Observe
  <2> QED
    BY <2>1, <2>2, <1>f, Cards
<1>6. ASSUME NEW j \in Jobs, Q!Serve(j) PROVE FlyingInv'
  <2>1. Q!InFlight' = Q!InFlight
    BY <1>6 DEF Q!Serve, Q!InFlight
  <2> QED
    BY <1>1, <1>6, <2>1 DEF Q!Serve
<1>7. CASE (\E j \in Jobs : Q!Draw(j) \/ Q!AcceptDone(j)) \/ Q!Interrupt
  <2>1. Q!InFlight' = Q!InFlight
    BY <1>7, CoordinatorEffect, QuietFlight
  <2> QED
    BY <1>1, <1>7, <2>1 DEF Q!Draw, Q!AcceptDone, Q!Interrupt
<1>8. CASE Q!Dispatch
  <2>1. Q!InFlight' = Q!InFlight
    BY <1>8, DispatchEffect, QuietFlight
  <2> QED
    BY <1>1, <1>8, <2>1 DEF Q!Dispatch
<1>10. CASE UNCHANGED <<work, flying>>
  BY <1>1, <1>10 DEF Q!InFlight
<1> QED
  BY <1>2, <1>3, <1>4, <1>5, <1>6, <1>7, <1>8, <1>10
     DEF Q!Next, Q!Worker, Q!ServeLate, Q!WindowReset, Q!CooldownEnds, Q!Call, Q!End

LEMMA OwnerStep ==
  ASSUME Q!MiroRequestsAssumption, TypesInv, OwnerInv, Q!Next
  PROVE  OwnerInv'
<1> USE DEF TypesInv, RangeInv, OwnerInv, Q!coordinator
<1>n. None \notin Jobs
  BY DEF Q!MiroRequestsAssumption
<1>1. ASSUME NEW j \in Jobs, Q!Worker(j) \/ Q!Serve(j) \/ Q!ServeLate(j) PROVE OwnerInv'
  <2>1. UNCHANGED <<Q!coordinator, cancel>>
    BY <1>1 DEF Q!Worker, Q!Begin, Q!Refused, Q!Reserve, Q!Send, Q!Receive, Q!Lose, Q!Serve, Q!ServeLate
  <2>2. \A k \in Jobs : work'[k] = work[k] \/ work[k] \notin {"none", "done"}
    BY <1>1 DEF Q!Worker, Q!Begin, Q!Refused, Q!Reserve, Q!Send, Q!Receive, Q!Lose, Q!Serve, Q!ServeLate, Q!Finish
  <2> QED
    BY <2>1, <2>2
<1>2. CASE Q!WindowReset \/ Q!CooldownEnds \/ Q!Call \/ Q!End
  BY <1>2, <1>n DEF Q!WindowReset, Q!CooldownEnds, Q!Call, Q!End, Q!MayEnd
<1>3. ASSUME NEW j \in Jobs, Q!Draw(j) PROVE OwnerInv'
  <2>1. \A k \in Jobs : work'[k] = work[k] \/ (work[k] = "queued" /\ work'[k] = "done")
    BY <1>3, CoordinatorEffect
  <2>2. /\ coord = "loop" /\ drawn = None /\ j \in todo /\ todo' = todo \ {j}
        /\ UNCHANGED <<coord, pending, stray>> /\ (drawn' = j \/ drawn' = None)
    BY <1>3 DEF Q!Draw
  <2>3. firstError' => cancel'
    BY <1>3, <2>2 DEF Q!Draw, Q!MayDraw, Q!Fail
  <2> QED
    BY <2>1, <2>2, <2>3, <1>n
<1>4. CASE Q!Interrupt
  <2>1. \A k \in Jobs : work'[k] = work[k] \/ (work[k] = "queued" /\ work'[k] = "done")
    BY <1>4, CoordinatorEffect
  <2>2. /\ coord \in {"loop", "final"} /\ coord' \in {"loop", "final"} /\ drawn' = None
        /\ UNCHANGED <<todo, pending, stray>> /\ (firstError' => cancel')
    BY <1>4 DEF Q!Interrupt, Q!Fail
  <2> QED
    BY <2>1, <2>2, <1>n
<1>5. ASSUME NEW j \in Jobs, Q!AcceptDone(j) PROVE OwnerInv'
  <2>1. \A k \in Jobs : work'[k] = work[k] \/ (work[k] = "queued" /\ work'[k] = "done")
    BY <1>5, CoordinatorEffect
  <2>2. /\ coord # "ended" /\ drawn = None /\ work[j] = "done" /\ pending' = pending \ {j}
        /\ UNCHANGED <<coord, todo, drawn, stray>> /\ (firstError' => cancel')
    BY <1>5 DEF Q!AcceptDone, Q!Fail
  <2> QED
    BY <2>1, <2>2, <1>n
<1>6. CASE Q!Dispatch
  <2>1. /\ drawn \in Jobs /\ drawn \notin pending \cup stray /\ drawn \notin todo
        /\ \A k \in Jobs : \/ work'[k] = work[k]
                           \/ work[k] = "queued" /\ work'[k] = "done"
                           \/ k = drawn /\ drawn \in pending' \cup stray'
    BY <1>6, DispatchEffect
  <2>2. drawn' = None /\ UNCHANGED <<coord, todo>> /\ coord # "ended"
    BY <1>6, <2>1, <1>n DEF Q!Dispatch
  <2>3. \/ pending' = pending /\ stray' = stray
        \/ pending' = pending \cup {drawn} /\ stray' = stray
        \/ pending' = pending /\ stray' = stray \cup {drawn}
    BY <1>6 DEF Q!Dispatch
  <2>4. firstError' => cancel'
    <3>1. cancel' = TRUE \/ UNCHANGED <<firstError, cancel>>
      BY <1>6 DEF Q!Dispatch, Q!Fail
    <3> QED
      BY <2>2, <3>1
  <2>5. \A k \in Jobs : k \in todo => k \notin pending' \cup stray' /\ work'[k] = "none"
    BY <2>1, <2>3
  <2>6. pending' \cap stray' = {}
    BY <2>1, <2>3
  <2>7. \A k \in Jobs : k \notin pending' \cup stray' => work'[k] \in {"none", "done"}
    BY <2>1, <2>3
  <2> QED
    BY <2>2, <2>4, <2>5, <2>6, <2>7, <1>n
<1> QED
  BY <1>1, <1>2, <1>3, <1>4, <1>5, <1>6 DEF Q!Next

LEMMA LandingStep ==
  ASSUME Q!MiroRequestsAssumption, TypesInv, OwnerInv, LandingInv, Q!Next
  PROVE  LandingInv'
<1> USE DEF TypesInv, RangeInv, LandingInv, Q!miro
<1>1. ASSUME NEW j \in Jobs, Q!Begin(j) \/ Q!Refused(j) \/ Q!Reserve(j) \/ Q!Send(j) PROVE LandingInv'
  <2>1. UNCHANGED <<landed, late, reply>>
    BY <1>1 DEF Q!Begin, Q!Refused, Q!Reserve, Q!Send
  <2>2. /\ work[j] \in {"queued", "pacing", "ready"}
        /\ \/ work' = [work EXCEPT ![j] = "done"] /\ outcome' = [outcome EXCEPT ![j] = "notsent"]
           \/ \E w \in {"pacing", "ready", "sending"} : work' = [work EXCEPT ![j] = w] /\ UNCHANGED outcome
    BY <1>1 DEF Q!Begin, Q!Refused, Q!Reserve, Q!Send, Q!Finish
  <2> QED
    BY <2>1, <2>2 DEF Q!Outcomes
<1>2. ASSUME NEW j \in Jobs, Q!Receive(j) PROVE LandingInv'
  <2>1. work[j] = "served" /\ UNCHANGED <<landed, late>> /\ reply' = [reply EXCEPT ![j] = None]
    BY <1>2 DEF Q!Receive
  <2>2. reply[j] \in Q!Replies
    BY <2>1 DEF StageInv
  <2>3. \/ work' = [work EXCEPT ![j] = "pacing"] /\ reply[j].status = "limited" /\ UNCHANGED outcome
        \/ work' = [work EXCEPT ![j] = "done"] /\ outcome' = [outcome EXCEPT ![j] = reply[j].status]
    BY <1>2 DEF Q!Receive, Q!Retries, Q!Finish
  <2>4. reply[j].status \in Q!Outcomes
    BY <2>2 DEF Q!Replies, Q!Statuses, Q!Outcomes
  <2>5. reply[j].status = "limited" => landed[j] = 0
    BY <2>1 DEF Q!Proven
  <2>6. ASSUME NEW k \in Jobs \ {j}
        PROVE  work'[k] = work[k] /\ outcome'[k] = outcome[k] /\ reply'[k] = reply[k] /\ landed'[k] = landed[k]
    BY <2>1, <2>3
  <2> QED
    BY <2>1, <2>3, <2>4, <2>5, <2>6
<1>3. ASSUME NEW j \in Jobs, Q!Lose(j) PROVE LandingInv'
  <2>1. /\ work[j] \in {"sending", "served"} /\ UNCHANGED landed
        /\ work' = [work EXCEPT ![j] = "done"] /\ outcome' = [outcome EXCEPT ![j] = "lost"]
        /\ \A k \in Jobs \ {j} : reply'[k] = reply[k]
    BY <1>3 DEF Q!Lose, Q!Finish
  <2>2. late' = late \/ (work[j] = "sending" /\ late' = late \cup {j})
    BY <1>3 DEF Q!Lose
  <2> QED
    BY <2>1, <2>2 DEF Q!Outcomes, Q!Proven
<1>4. ASSUME NEW j \in Jobs, Q!Serve(j) PROVE LandingInv'
  <2>1. work[j] = "sending" /\ work' = [work EXCEPT ![j] = "served"] /\ UNCHANGED <<outcome, late>>
    BY <1>4 DEF Q!Serve
  <2>2. PICK status \in Q!Statuses, told \in BOOLEAN :
          /\ reply' = [reply EXCEPT ![j] = [status |-> status, left |-> IF told THEN left' ELSE None, live |-> TRUE]]
          /\ \/ status \in {"ok", "failed"} /\ landed' = [landed EXCEPT ![j] = @ + 1]
             \/ status # "ok" /\ UNCHANGED landed
    BY <1>4 DEF Q!Serve
  <2>3. reply'[j].status = status /\ \A k \in Jobs \ {j} : reply'[k] = reply[k] /\ landed'[k] = landed[k]
    BY <2>2
  <2>4. landed'[j] <= 1 /\ (status \in Q!Proven => landed'[j] = 0)
    BY <2>1, <2>2 DEF Q!Proven
  <2> QED
    BY <2>1, <2>3, <2>4
<1>5. ASSUME NEW j \in Jobs, Q!ServeLate(j) PROVE LandingInv'
  <2>1. /\ j \in late /\ late' = late \ {j} /\ landed' = [landed EXCEPT ![j] = @ + 1]
        /\ UNCHANGED <<work, outcome, reply>>
    BY <1>5 DEF Q!ServeLate
  <2>2. work[j] = "done" /\ outcome[j] = "lost" /\ landed'[j] = 1 /\ outcome[j] \notin Q!Proven
    BY <2>1 DEF Q!Proven
  <2> QED
    BY <2>1, <2>2
<1>6. CASE (\E j \in Jobs : Q!Draw(j) \/ Q!AcceptDone(j)) \/ Q!Interrupt
  <2>1. UNCHANGED <<landed, late, reply>>
    BY <1>6 DEF Q!Draw, Q!AcceptDone, Q!Interrupt
  <2>2. \A k \in Jobs : \/ work'[k] = work[k] /\ outcome'[k] = outcome[k]
                        \/ work[k] = "queued" /\ work'[k] = "done" /\ outcome'[k] = "cancelled"
    BY <1>6, CoordinatorEffect
  <2> QED
    BY <2>1, <2>2 DEF Q!Outcomes
<1>7. CASE Q!Dispatch
  <2>1. UNCHANGED <<landed, late, reply>>
    BY <1>7 DEF Q!Dispatch
  <2>2. \A k \in Jobs : \/ work'[k] = work[k] /\ outcome'[k] = outcome[k]
                        \/ work[k] = "queued" /\ work'[k] = "done" /\ outcome'[k] = "cancelled"
                        \/ work[k] = "none" /\ work'[k] = "queued" /\ outcome'[k] = outcome[k]
    BY <1>7, DispatchEffect
  <2> QED
    BY <2>1, <2>2 DEF Q!Outcomes
<1>8. CASE Q!WindowReset
  <2>1. UNCHANGED <<work, outcome, landed, late>>
    BY <1>8 DEF Q!WindowReset
  <2>2. \A j \in Jobs : reply[j] # None => reply'[j] = [reply[j] EXCEPT !.live = FALSE]
    BY <1>8 DEF Q!WindowReset
  <2>3. \A j \in Jobs : work[j] = "served" => reply'[j].status = reply[j].status
    BY <2>2 DEF StageInv, Q!Replies
  <2> QED
    BY <2>1, <2>3
<1>9. CASE Q!CooldownEnds \/ Q!Call \/ Q!End
  BY <1>9 DEF Q!CooldownEnds, Q!Call, Q!End
<1> QED
  BY <1>1, <1>2, <1>3, <1>4, <1>5, <1>6, <1>7, <1>8, <1>9 DEF Q!Next, Q!Worker

LEMMA IntentStep ==
  ASSUME Q!MiroRequestsAssumption, TypesInv, OwnerInv, LandingInv, IntentInv, Q!Next
  PROVE  IntentInv'
<1> USE DEF TypesInv, RangeInv, IntentInv, Q!LandedIsKnown, Q!coordinator, Q!journal, Q!miro
<1>n. None \notin Jobs
  BY DEF Q!MiroRequestsAssumption
<1>1. ASSUME NEW j \in Jobs, Q!Worker(j) \/ Q!Serve(j) \/ Q!ServeLate(j) PROVE IntentInv'
  <2>1. UNCHANGED <<Q!coordinator, Q!journal>>
    BY <1>1 DEF Q!Worker, Q!Begin, Q!Refused, Q!Reserve, Q!Send, Q!Receive, Q!Lose, Q!Serve, Q!ServeLate
  <2>2. \A k \in Jobs : outcome'[k] = outcome[k] \/ work[k] \notin {"none", "done"}
    BY <1>1 DEF Q!Worker, Q!Begin, Q!Refused, Q!Reserve, Q!Send, Q!Receive, Q!Lose, Q!Serve, Q!ServeLate, Q!Finish
  <2>3. \A k \in Jobs : outcome'[k] = outcome[k] \/ k \in pending \cup stray
    BY <2>2 DEF OwnerInv
  <2>4. \A k \in Jobs : landed'[k] > 0 \/ k \in late' => landed[k] > 0 \/ k \in late \/ work[k] = "sending"
    <3>1. CASE Q!Serve(j)
      <4>1. work[j] = "sending" /\ UNCHANGED late
        BY <3>1 DEF Q!Serve
      <4>2. landed' = [landed EXCEPT ![j] = @ + 1] \/ UNCHANGED landed
        BY <3>1 DEF Q!Serve
      <4> QED
        BY <4>1, <4>2
    <3>2. CASE Q!ServeLate(j)
      BY <3>2 DEF Q!ServeLate
    <3>3. CASE Q!Lose(j)
      <4>1. UNCHANGED landed /\ (late' = late \/ (work[j] = "sending" /\ late' = late \cup {j}))
        BY <3>3 DEF Q!Lose
      <4> QED
        BY <4>1
    <3>4. CASE Q!Worker(j) /\ ~Q!Lose(j)
      BY <3>4 DEF Q!Worker, Q!Begin, Q!Refused, Q!Reserve, Q!Send, Q!Receive
    <3> QED
      BY <1>1, <3>1, <3>2, <3>3, <3>4
  <2>5. \A k \in Jobs : work[k] = "sending" => k \in pending \cup stray
    BY DEF OwnerInv
  <2> QED
    BY <2>1, <2>3, <2>4, <2>5
<1>2. CASE Q!WindowReset \/ Q!CooldownEnds \/ Q!Call \/ Q!End
  BY <1>2 DEF Q!WindowReset, Q!CooldownEnds, Q!Call, Q!End
<1>3. ASSUME NEW j \in Jobs, Q!Draw(j) PROVE IntentInv'
  <2>1. /\ drawn = None /\ UNCHANGED <<pending, stray, mapped, landed, late>>
        /\ \/ drawn' = j /\ intents' = intents \cup {j} /\ UNCHANGED <<faltered, outcome>>
           \/ drawn' = None /\ UNCHANGED intents /\ faltered' = TRUE
    BY <1>3 DEF Q!Draw
  <2> QED
    BY <2>1, <1>n
<1>4. CASE Q!Interrupt
  <2>1. /\ UNCHANGED <<pending, stray, mapped, intents, landed, late>>
        /\ drawn' = None /\ (~faltered' => ~faltered /\ drawn = None)
    BY <1>4 DEF Q!Interrupt
  <2>2. \A k \in Jobs : outcome'[k] = outcome[k] \/ work[k] = "queued"
    BY <1>4, CoordinatorEffect
  <2>3. \A k \in Jobs : outcome'[k] = outcome[k] \/ k \in pending \cup stray
    BY <2>2 DEF OwnerInv
  <2> QED
    BY <2>1, <2>3, <1>n
<1>5. ASSUME NEW j \in Jobs, Q!AcceptDone(j) PROVE IntentInv'
  <2>1. /\ drawn = None /\ j \in pending /\ work[j] = "done" /\ pending' = pending \ {j}
        /\ UNCHANGED <<drawn, stray, landed, late>>
    BY <1>5 DEF Q!AcceptDone
  <2>2. PICK committed \in BOOLEAN :
          /\ intents' = IF committed /\ outcome[j] \in Q!Proven \cup {"ok"} THEN intents \ {j} ELSE intents
          /\ mapped' = IF committed /\ outcome[j] = "ok" THEN mapped \cup {j} ELSE mapped
          /\ faltered' = (faltered \/ ~committed)
    BY <1>5 DEF Q!AcceptDone
  <2>3. outcome'[j] = outcome[j] /\ \A k \in Jobs : outcome'[k] = outcome[k] \/ k \in pending' \cup stray'
    <3>1. \A k \in Jobs : outcome'[k] = outcome[k] \/ work[k] = "queued"
      BY <1>5, CoordinatorEffect
    <3> QED
      BY <2>1, <3>1 DEF OwnerInv
  <2>4. pending' \cup stray' \subseteq intents' /\ drawn' = None
    BY <2>1, <2>2 DEF OwnerInv
  <2>5. Q!LandedIsKnown'
    <3>1. outcome[j] \in Q!Proven => landed[j] = 0 /\ j \notin late
      BY <2>1 DEF LandingInv, Q!Proven
    <3> QED
      BY <2>1, <2>2, <3>1
  <2>6. ~faltered' => stray' = {} /\ \A k \in intents' : k \in pending' \/ outcome'[k] \in {"lost", "failed"}
    <3>1. SUFFICES ASSUME ~faltered', NEW k \in intents', k \notin pending'
                   PROVE  outcome'[k] \in {"lost", "failed"}
      BY <2>1, <2>2
    <3>2. ~faltered /\ k \in intents /\ committed /\ stray = {} /\ k \in Jobs
      BY <2>2, <3>1
    <3>3. CASE k = j
      <4>1. outcome[j] \in Q!Outcomes /\ outcome[j] \notin Q!Proven \cup {"ok"}
        BY <2>1, <2>2, <3>1, <3>2, <3>3 DEF LandingInv
      <4> QED
        BY <2>3, <3>3, <4>1 DEF Q!Outcomes, Q!Proven
    <3>4. CASE k # j
      BY <2>1, <2>3, <3>1, <3>2, <3>4, <1>n
    <3> QED
      BY <3>3, <3>4
  <2> QED
    BY <2>4, <2>5, <2>6
<1>6. CASE Q!Dispatch
  <2>1. /\ drawn \in Jobs /\ work[drawn] = "none" /\ drawn \notin pending \cup stray
        /\ \A k \in Jobs : outcome'[k] = outcome[k] \/ work[k] = "queued"
    BY <1>6, DispatchEffect
  <2>2. /\ drawn' = None /\ UNCHANGED <<mapped, landed, late>>
        /\ \/ pending' = pending \cup {drawn} /\ UNCHANGED <<stray, intents, faltered>>
           \/ intents' = intents \ {drawn} /\ UNCHANGED <<pending, stray, faltered>>
           \/ stray' = stray \cup {drawn} /\ faltered' = TRUE /\ UNCHANGED <<pending, intents>>
    BY <1>6 DEF Q!Dispatch
  <2>3. \A k \in Jobs : outcome'[k] = outcome[k] \/ k \in pending \cup stray
    BY <2>1 DEF OwnerInv
  <2>4. landed[drawn] = 0 /\ drawn \notin late
    BY <2>1 DEF LandingInv
  <2>5. pending' \cup stray' \subseteq intents'
    BY <2>1, <2>2, <1>n
  <2>6. Q!LandedIsKnown'
    BY <2>2, <2>4
  <2>7. ~faltered' => stray' = {} /\ \A k \in intents' : k \in pending' \/ outcome'[k] \in {"lost", "failed"}
    BY <2>1, <2>2, <2>3
  <2> QED
    BY <2>2, <2>5, <2>6, <2>7
<1> QED
  BY <1>1, <1>2, <1>3, <1>4, <1>5, <1>6 DEF Q!Next

\* Nothing changes for the budget while nothing is reserved, sent, told or charged.
LEMMA QuietQuota ==
  ASSUME QuotaInv, UNCHANGED <<known, knownLive, left, unseen, reply>>,
         \A k \in Jobs : \/ work'[k] = work[k]
                         \/ work[k] \in {"none", "queued", "pacing"} /\ work'[k] \in {"queued", "pacing", "done"}
  PROVE  QuotaInv'
<1>1. Reserved' = Reserved
  BY QuietFlight
<1>2. \A k \in Jobs : Charged(k)' = Charged(k) /\ (work'[k] = "served" <=> work[k] = "served")
  BY DEF Charged
<1>3. Q!BudgetHonest'
  BY <1>1 DEF QuotaInv, Q!BudgetHonest, Reserved
<1> QED
  BY <1>2, <1>3 DEF QuotaInv

LEMMA ChargedCards ==
  ASSUME Q!MiroRequestsAssumption, NEW k \in Jobs
  PROVE  Charged(k) \in SUBSET Jobs /\ Q!Cardinality(Charged(k)) \in Nat
<1>1. Charged(k) \in SUBSET Jobs
  BY DEF Charged
<1> QED
  BY <1>1, Cards

LEMMA ReservedCards ==
  ASSUME Q!MiroRequestsAssumption, NEW j \in Jobs
  PROVE  /\ Reserved \in SUBSET Jobs /\ Q!Cardinality(Reserved) \in Nat
         /\ j \notin Reserved => Q!Cardinality(Reserved \cup {j}) = Q!Cardinality(Reserved) + 1
         /\ j \in Reserved => Q!Cardinality(Reserved \ {j}) = Q!Cardinality(Reserved) - 1 /\ Q!Cardinality(Reserved) >= 1
<1>1. Reserved \in SUBSET Jobs
  BY DEF Reserved
<1> QED
  BY <1>1, Cards

LEMMA ReservedDrops ==
  ASSUME Q!MiroRequestsAssumption, NEW j \in Jobs, Reserved' = Reserved \/ Reserved' = Reserved \ {j}
  PROVE  /\ Q!Cardinality(Reserved') <= Q!Cardinality(Reserved)
         /\ Q!Cardinality(Reserved) \in Nat /\ Q!Cardinality(Reserved') \in Nat
<1>1. Q!Cardinality(Reserved) \in Nat
  BY ReservedCards
<1>2. CASE Reserved' = Reserved
  BY <1>1, <1>2
<1>3. CASE Reserved' # Reserved
  <2>1. Reserved' = Reserved \ {j} /\ j \in Reserved
    BY <1>3
  <2>2. Q!Cardinality(Reserved \ {j}) = Q!Cardinality(Reserved) - 1 /\ Q!Cardinality(Reserved) >= 1
    BY <2>1, ReservedCards
  <2> QED
    BY <1>1, <2>1, <2>2
<1> QED
  BY <1>2, <1>3

\* A charge that is told or counted as untold is not pending any more.
LEMMA ChargedDrops ==
  ASSUME Q!MiroRequestsAssumption, NEW k \in Jobs, NEW j \in Charged(k), Charged(k)' = Charged(k) \ {j}
  PROVE  Q!Cardinality(Charged(k)') = Q!Cardinality(Charged(k)) - 1 /\ Q!Cardinality(Charged(k)) \in Nat
<1>1. Charged(k) \in SUBSET Jobs /\ j \in Jobs
  BY DEF Charged
<1>2. Q!Cardinality(Charged(k) \ {j}) = Q!Cardinality(Charged(k)) - 1
  BY <1>1, Cards
<1> QED
  BY <1>2, ChargedCards

LEMMA HonestNext ==
  Q!BudgetHonest' <=> (known' # None /\ knownLive' /\ known' > 0
                       => known' + Q!Cardinality(Reserved') <= left' + unseen')
  BY DEF Q!BudgetHonest, Reserved

LEMMA SendQuota ==
  ASSUME Q!MiroRequestsAssumption, TypesInv, QuotaInv, NEW j \in Jobs, Q!Reserve(j) \/ Q!Send(j)
  PROVE  QuotaInv'
<1> USE DEF TypesInv, RangeInv, Q!miro
<1>0. /\ UNCHANGED <<knownLive, left, unseen, reply>>
      /\ work[j] \in {"pacing", "ready"} /\ work'[j] \in {"ready", "sending", "done"}
      /\ \A k \in Jobs \ {j} : work'[k] = work[k]
  BY DEF Q!Reserve, Q!Send, Q!Finish
<1>n. None \notin Nat
  BY DEF Q!MiroRequestsAssumption
<1>1. \A k \in Jobs : Charged(k)' = Charged(k) /\ (work'[k] = "served" <=> work[k] = "served")
  BY <1>0 DEF Charged
<1>2. Q!BudgetHonest'
  <2>1. SUFFICES ASSUME known' # None, knownLive, known' > 0
                 PROVE  known' + Q!Cardinality(Reserved') <= left + unseen
    BY <1>0, HonestNext
  <2>2. CASE Q!Reserve(j)
    <3>1. known # None /\ known' = known - 1 /\ known \in Nat /\ known > 0 /\ known' \in Nat
      BY <2>1, <2>2, <1>n DEF Q!Reserve, Q!Affordable
    <3>2. Reserved' = Reserved \cup {j} /\ j \notin Reserved
      BY <2>2 DEF Q!Reserve, Reserved
    <3>3. known + Q!Cardinality(Reserved) <= left + unseen
      BY <2>1, <3>1 DEF QuotaInv, Q!BudgetHonest, Reserved
    <3>4. Q!Cardinality(Reserved') = Q!Cardinality(Reserved) + 1 /\ Q!Cardinality(Reserved) \in Nat
      BY <3>2, ReservedCards
    <3> QED
      BY <3>1, <3>3, <3>4
  <2>3. CASE Q!Send(j)
    <3>1. UNCHANGED known /\ known \in Nat
      BY <2>1, <2>3, <1>n DEF Q!Send
    <3>2. Reserved' = Reserved \/ (Reserved' = Reserved \ {j} /\ j \in Reserved)
      BY <2>3 DEF Q!Send, Q!Finish, Reserved
    <3>3. known + Q!Cardinality(Reserved) <= left + unseen
      BY <2>1, <3>1 DEF QuotaInv, Q!BudgetHonest, Reserved
    <3>4. /\ Q!Cardinality(Reserved') <= Q!Cardinality(Reserved)
          /\ Q!Cardinality(Reserved) \in Nat /\ Q!Cardinality(Reserved') \in Nat
      BY <3>2, ReservedDrops
    <3> QED
      BY <3>1, <3>3, <3>4
  <2> QED
    BY <2>2, <2>3
<1>3. knownLive' => known' # None
  BY <1>0, <1>n DEF Q!Reserve, Q!Send, QuotaInv, Q!Affordable
<1> QED
  BY <1>0, <1>1, <1>2, <1>3 DEF QuotaInv

LEMMA ReceiveQuota ==
  ASSUME Q!MiroRequestsAssumption, TypesInv, QuotaInv, NEW j \in Jobs, Q!Receive(j)
  PROVE  QuotaInv'
<1> USE DEF TypesInv, RangeInv, Q!miro
<1>n. None \notin Nat
  BY DEF Q!MiroRequestsAssumption
<1>0. /\ work[j] = "served" /\ work'[j] \in {"pacing", "done"} /\ UNCHANGED left
      /\ \A k \in Jobs \ {j} : work'[k] = work[k] /\ reply'[k] = reply[k]
      /\ unseen' = IF reply[j].left = None THEN unseen + Q!Untold(reply[j]) ELSE unseen
      /\ Q!Observe(reply[j])
  BY DEF Q!Receive, Q!Finish
<1>1. reply[j] \in Q!Replies
  BY <1>0 DEF StageInv
<1>2. unseen' \in Nat /\ unseen' >= unseen
  BY <1>0 DEF Q!Untold
<1>3. Reserved' = Reserved /\ Q!Cardinality(Reserved) \in Nat
  <2>1. Reserved' = Reserved
    BY <1>0 DEF Reserved
  <2> QED
    BY <2>1, ReservedCards
<1>4. CASE reply[j].left # None /\ reply[j].live
  <2>1. known' = Q!BudgetAfter(reply[j]) /\ knownLive' = TRUE
    BY <1>0, <1>4 DEF Q!Observe
  <2>2. j \in Q!InFlight /\ Q!InFlight \in SUBSET Jobs
    BY <1>0 DEF Q!InFlight
  <2>3. flying \in Nat /\ flying >= 1 /\ flying = Q!Cardinality(Q!InFlight)
    BY <2>2, Cards DEF FlyingInv
  <2>4. /\ known' \in 0..Budget
        /\ known' > 0 => known' <= reply[j].left - (flying - 1)
        /\ knownLive /\ known # None => known' <= known
    BY <1>1, <1>4, <2>1, <2>3, BudgetRange
  <2>5. Q!BudgetHonest'
    <3>1. SUFFICES ASSUME known' > 0 PROVE known' + Q!Cardinality(Reserved) <= left + unseen'
      BY <1>0, <1>3, HonestNext
    <3>2. CASE knownLive
      <4>1. known \in Nat /\ known > 0 /\ known' <= known /\ known' \in Nat
        BY <2>4, <3>1, <3>2, <1>n DEF QuotaInv
      <4>2. known + Q!Cardinality(Reserved) <= left + unseen
        BY <3>2, <4>1, <1>n DEF QuotaInv, Q!BudgetHonest, Reserved
      <4> QED
        BY <1>2, <1>3, <4>1, <4>2
    <3>3. CASE ~knownLive
      <4>1. reply[j].left <= left + unseen + Q!Cardinality(Charged(j)) /\ reply[j].left \in Nat
        BY <1>0, <1>1, <1>4, <3>3 DEF QuotaInv, Q!Replies
      <4> DEFINE others == {k \in Jobs \ {j} : work[k] = "served"}
      <4>2. /\ Q!Cardinality(Charged(j)) <= Q!Cardinality(others)
            /\ Q!Cardinality(Charged(j)) \in Nat /\ Q!Cardinality(others) \in Nat
        <5>1. Charged(j) \in SUBSET others /\ others \in SUBSET Jobs
          BY DEF Charged
        <5>2. Q!IsFiniteSet(others) /\ Q!Cardinality(others) \in Nat
          BY <5>1, Cards
        <5> QED
          BY Counting, <5>1, <5>2, FS_Subset, ChargedCards
      <4>3. flying - 1 = Q!Cardinality(Reserved) + Q!Cardinality(others)
        <5>1. Q!InFlight \ {j} = Reserved \cup others /\ Reserved \cap others = {}
          BY <1>0 DEF Q!InFlight, Reserved
        <5>2. Q!Cardinality(Q!InFlight \ {j}) = flying - 1
          BY <2>2, <2>3, Cards
        <5>3. Q!IsFiniteSet(Reserved) /\ Q!IsFiniteSet(others) /\ Reserved \in SUBSET Jobs
          <6>1. Reserved \in SUBSET Jobs /\ others \in SUBSET Jobs
            BY DEF Reserved
          <6> QED
            BY <6>1, Cards
        <5> HIDE DEF others
        <5>4. Q!Cardinality(Reserved \cup others)
                = Q!Cardinality(Reserved) + Q!Cardinality(others) - Q!Cardinality(Reserved \cap others)
          BY Counting, <5>3, FS_Union
        <5>5. Q!Cardinality(Reserved \cap others) = 0
          BY Counting, <5>1, FS_EmptySet
        <5>6. flying - 1 = Q!Cardinality(Reserved \cup others)
          BY <5>1, <5>2
        <5> QED
          BY <5>4, <5>5, <5>6, <1>3, <4>2
      <4> HIDE DEF others
      <4>4. known' <= reply[j].left - (Q!Cardinality(Reserved) + Q!Cardinality(others)) /\ known' \in Nat
        BY <2>4, <3>1, <4>3
      <4> QED
        BY <1>2, <1>3, <4>1, <4>2, <4>4
    <3> QED
      BY <3>2, <3>3
  <2> QED
    BY <2>1, <2>4, <2>5, <1>n DEF QuotaInv
<1>5. CASE ~(reply[j].left # None /\ reply[j].live)
  <2>1. UNCHANGED <<known, knownLive>>
    BY <1>0, <1>5 DEF Q!Observe
  <2>2. Q!BudgetHonest'
    <3>1. SUFFICES ASSUME known # None, knownLive, known > 0
                   PROVE  known + Q!Cardinality(Reserved) <= left + unseen'
      BY <1>0, <1>3, <2>1, HonestNext
    <3>2. known + Q!Cardinality(Reserved) <= left + unseen /\ known \in Nat
      BY <3>1 DEF QuotaInv, Q!BudgetHonest, Reserved
    <3> QED
      BY <3>2, <1>2, <1>3
  <2>3. ASSUME ~knownLive, NEW k \in Jobs, work'[k] = "served", reply'[k].live, reply'[k].left # None
        PROVE  reply'[k].left <= left + unseen' + Q!Cardinality(Charged(k)')
    <3>1. k # j /\ work[k] = "served" /\ reply'[k] = reply[k]
      BY <1>0, <2>3
    <3>2. reply[k].left <= left + unseen + Q!Cardinality(Charged(k)) /\ reply[k].left \in Nat
      <4>1. reply[k] \in Q!Replies
        BY <3>1 DEF StageInv
      <4> QED
        BY <2>3, <3>1, <4>1 DEF QuotaInv, Q!Replies
    <3>3. CASE reply[j].live /\ reply[j].status # "limited"
      <4>1. unseen' = unseen + 1
        BY <1>0, <1>5, <3>3 DEF Q!Untold
      <4>2. j \in Charged(k) /\ Charged(k)' = Charged(k) \ {j}
        BY <1>0, <3>1, <3>3 DEF Charged
      <4>3. Q!Cardinality(Charged(k)') = Q!Cardinality(Charged(k)) - 1 /\ Q!Cardinality(Charged(k)) \in Nat
        BY <4>2, ChargedDrops
      <4> QED
        BY <3>1, <3>2, <4>1, <4>3
    <3>4. CASE ~(reply[j].live /\ reply[j].status # "limited")
      <4>1. Charged(k)' = Charged(k)
        BY <1>0, <3>4 DEF Charged
      <4>2. Q!Cardinality(Charged(k)) \in Nat /\ unseen \in Nat
        BY ChargedCards
      <4> QED
        BY <3>1, <3>2, <4>1, <4>2, <1>2
    <3> QED
      BY <3>3, <3>4
  <2> QED
    BY <1>0, <2>1, <2>2, <2>3 DEF QuotaInv
<1> QED
  BY <1>4, <1>5

LEMMA LoseQuota ==
  ASSUME Q!MiroRequestsAssumption, TypesInv, QuotaInv, NEW j \in Jobs, Q!Lose(j)
  PROVE  QuotaInv'
<1> USE DEF TypesInv, RangeInv
<1>0. /\ work[j] \in {"sending", "served"} /\ work'[j] = "done"
      /\ \A k \in Jobs \ {j} : work'[k] = work[k] /\ reply'[k] = reply[k]
      /\ UNCHANGED <<known, knownLive, left>>
      /\ unseen' = IF work[j] = "served" THEN unseen + Q!Untold(reply[j]) ELSE unseen
  BY DEF Q!Lose, Q!Finish
<1>n. None \notin Nat
  BY DEF Q!MiroRequestsAssumption
<1>1. unseen' \in Nat /\ unseen' >= unseen
  BY <1>0 DEF Q!Untold
<1>2. /\ Q!Cardinality(Reserved') <= Q!Cardinality(Reserved)
      /\ Q!Cardinality(Reserved) \in Nat /\ Q!Cardinality(Reserved') \in Nat
  <2>1. Reserved' = Reserved \/ (Reserved' = Reserved \ {j} /\ j \in Reserved)
    BY <1>0 DEF Reserved
  <2> QED
    BY <2>1, ReservedDrops
<1>3. Q!BudgetHonest'
  <2>1. SUFFICES ASSUME known # None, knownLive, known > 0
                 PROVE  known + Q!Cardinality(Reserved') <= left + unseen'
    BY <1>0, HonestNext
  <2>2. known + Q!Cardinality(Reserved) <= left + unseen /\ known \in Nat
    BY <2>1 DEF QuotaInv, Q!BudgetHonest, Reserved
  <2> QED
    BY <2>2, <1>1, <1>2
<1>4. ASSUME ~knownLive, NEW k \in Jobs, work'[k] = "served", reply'[k].live, reply'[k].left # None
      PROVE  reply'[k].left <= left + unseen' + Q!Cardinality(Charged(k)')
  <2>1. k # j /\ work[k] = "served" /\ reply'[k] = reply[k]
    BY <1>0, <1>4
  <2>2. reply[k].left <= left + unseen + Q!Cardinality(Charged(k)) /\ reply[k].left \in Nat
    <3>1. reply[k] \in Q!Replies
      BY <2>1 DEF StageInv
    <3> QED
      BY <1>4, <2>1, <3>1 DEF QuotaInv, Q!Replies
  <2>3. CASE j \in Charged(k)
    <3>1. unseen' = unseen + 1 /\ Charged(k)' = Charged(k) \ {j}
      BY <1>0, <2>1, <2>3 DEF Charged, Q!Untold
    <3>2. Q!Cardinality(Charged(k)') = Q!Cardinality(Charged(k)) - 1 /\ Q!Cardinality(Charged(k)) \in Nat
      BY <2>3, <3>1, ChargedDrops
    <3> QED
      BY <2>1, <2>2, <3>1, <3>2
  <2>4. CASE j \notin Charged(k)
    <3>1. Charged(k)' = Charged(k)
      BY <1>0, <2>4 DEF Charged
    <3>2. Q!Cardinality(Charged(k)) \in Nat /\ unseen \in Nat
      BY ChargedCards
    <3> QED
      BY <2>1, <2>2, <3>1, <3>2, <1>1
  <2> QED
    BY <2>3, <2>4
<1> QED
  BY <1>0, <1>3, <1>4 DEF QuotaInv

LEMMA ServeQuota ==
  ASSUME Q!MiroRequestsAssumption, TypesInv, QuotaInv, NEW j \in Jobs, Q!Serve(j)
  PROVE  QuotaInv'
<1> USE DEF TypesInv, RangeInv
<1>n. None \notin Nat
  BY DEF Q!MiroRequestsAssumption
<1>0. /\ work[j] = "sending" /\ work'[j] = "served" /\ \A k \in Jobs \ {j} : work'[k] = work[k]
      /\ UNCHANGED <<known, knownLive, unseen>>
  BY DEF Q!Serve, Q!pacing
<1>1. PICK status \in Q!Statuses, told \in BOOLEAN :
        /\ status # "limited" => left > 0
        /\ left' = IF status = "limited" THEN left ELSE left - 1
        /\ reply' = [reply EXCEPT ![j] = [status |-> status, left |-> IF told THEN left' ELSE None, live |-> TRUE]]
  BY DEF Q!Serve
<1>2. /\ reply'[j] = [status |-> status, left |-> IF told THEN left' ELSE None, live |-> TRUE]
      /\ \A k \in Jobs \ {j} : reply'[k] = reply[k]
  BY <1>1
<1>3. left' \in Nat /\ left' >= left - 1
  BY <1>1 DEF Q!MiroRequestsAssumption
<1>4. Q!BudgetHonest'
  <2>1. SUFFICES ASSUME known # None, knownLive, known > 0
                 PROVE  known + Q!Cardinality(Reserved') <= left' + unseen
    BY <1>0, HonestNext
  <2>2. known + Q!Cardinality(Reserved) <= left + unseen /\ known \in Nat
    BY <2>1 DEF QuotaInv, Q!BudgetHonest, Reserved
  <2>3. j \in Reserved /\ Reserved' = Reserved \ {j}
    BY <1>0 DEF Reserved
  <2>4. Q!Cardinality(Reserved \ {j}) = Q!Cardinality(Reserved) - 1 /\ Q!Cardinality(Reserved) \in Nat
    BY <2>3, ReservedCards
  <2> QED
    BY <2>2, <2>3, <2>4, <1>3
<1>5. ASSUME ~knownLive, NEW k \in Jobs, work'[k] = "served", reply'[k].live, reply'[k].left # None
      PROVE  reply'[k].left <= left' + unseen + Q!Cardinality(Charged(k)')
  <2>1. CASE k = j
    <3>1. reply'[k].left = left'
      BY <1>2, <1>5, <2>1
    <3>2. Charged(k)' = Charged(k)
      BY <1>0, <1>2, <2>1 DEF Charged
    <3> QED
      BY <1>3, <3>1, <3>2, ChargedCards
  <2>2. CASE k # j
    <3>1. work[k] = "served" /\ reply'[k] = reply[k]
      BY <1>0, <1>2, <1>5, <2>2
    <3>2. reply[k].left <= left + unseen + Q!Cardinality(Charged(k)) /\ reply[k].left \in Nat
      <4>1. reply[k] \in Q!Replies
        BY <3>1 DEF StageInv
      <4> QED
        BY <1>5, <3>1, <4>1 DEF QuotaInv, Q!Replies
    <3>3. Charged(k) \in SUBSET Jobs /\ Q!Cardinality(Charged(k)) \in Nat
      BY ChargedCards
    <3>4. CASE status = "limited"
      <4>1. left' = left /\ Charged(k)' = Charged(k)
        BY <1>0, <1>1, <1>2, <3>4 DEF Charged
      <4> QED
        BY <3>1, <3>2, <3>3, <4>1
    <3>5. CASE status # "limited"
      <4>1. left' = left - 1
        BY <1>1, <3>5
      <4>2. Charged(k)' = Charged(k) \cup {j} /\ j \notin Charged(k)
        BY <1>0, <1>2, <2>2, <3>5 DEF Charged
      <4>3. Q!Cardinality(Charged(k) \cup {j}) = Q!Cardinality(Charged(k)) + 1
        BY <3>3, <4>2, Cards
      <4> QED
        BY <3>1, <3>2, <3>3, <4>1, <4>2, <4>3
    <3> QED
      BY <3>4, <3>5
  <2> QED
    BY <2>1, <2>2
<1> QED
  BY <1>0, <1>4, <1>5 DEF QuotaInv

LEMMA MiroQuota ==
  ASSUME Q!MiroRequestsAssumption, TypesInv, QuotaInv, (\E j \in Jobs : Q!ServeLate(j)) \/ Q!WindowReset
  PROVE  QuotaInv'
<1> USE DEF TypesInv, RangeInv
<1>1. CASE \E j \in Jobs : Q!ServeLate(j)
  <2>1. /\ UNCHANGED <<known, knownLive, work, reply>> /\ left' = left - 1 /\ unseen' = unseen + 1
        /\ left + unseen = left' + unseen'
    BY <1>1 DEF Q!ServeLate, Q!pacing, Q!MiroRequestsAssumption
  <2>2. Reserved' = Reserved /\ \A k \in Jobs : Charged(k)' = Charged(k)
    BY <2>1 DEF Reserved, Charged
  <2>3. Q!BudgetHonest'
    BY <2>1, <2>2, HonestNext DEF QuotaInv, Q!BudgetHonest, Reserved
  <2> QED
    BY <2>1, <2>2, <2>3 DEF QuotaInv
<1>2. CASE Q!WindowReset
  <2>1. knownLive' = FALSE /\ UNCHANGED work
    BY <1>2 DEF Q!WindowReset
  <2>2. \A k \in Jobs : work'[k] = "served" => ~reply'[k].live
    <3>1. SUFFICES ASSUME NEW k \in Jobs, work[k] = "served" PROVE ~reply'[k].live
      BY <2>1
    <3>2. reply[k] \in Q!Replies /\ reply[k] # None
      BY <3>1 DEF StageInv
    <3>3. reply'[k] = [reply[k] EXCEPT !.live = FALSE]
      BY <1>2, <3>2 DEF Q!WindowReset
    <3> QED
      BY <3>2, <3>3 DEF Q!Replies
  <2> QED
    BY <2>1, <2>2 DEF QuotaInv, Q!BudgetHonest
<1> QED
  BY <1>1, <1>2

LEMMA QuotaStep ==
  ASSUME Q!MiroRequestsAssumption, TypesInv, OwnerInv, QuotaInv, Q!Next
  PROVE  QuotaInv'
<1> USE DEF TypesInv
<1>1. ASSUME NEW j \in Jobs, Q!Begin(j) \/ Q!Refused(j) PROVE QuotaInv'
  <2>1. /\ UNCHANGED <<known, knownLive, left, unseen, reply>>
        /\ \A k \in Jobs : \/ work'[k] = work[k]
                           \/ work[k] \in {"none", "queued", "pacing"} /\ work'[k] \in {"queued", "pacing", "done"}
    BY <1>1 DEF Q!Begin, Q!Refused, Q!Finish, Q!pacing, Q!miro, RangeInv
  <2> QED
    BY <2>1, QuietQuota
<1>2. CASE (\E j \in Jobs : Q!Draw(j) \/ Q!AcceptDone(j)) \/ Q!Interrupt
  <2>1. UNCHANGED <<known, knownLive, left, unseen, reply>>
    BY <1>2 DEF Q!Draw, Q!AcceptDone, Q!Interrupt, Q!pacing, Q!miro
  <2>2. \A k \in Jobs : \/ work'[k] = work[k]
                        \/ work[k] \in {"none", "queued", "pacing"} /\ work'[k] \in {"queued", "pacing", "done"}
    BY <1>2, CoordinatorEffect
  <2> QED
    BY <2>1, <2>2, QuietQuota
<1>3. CASE Q!Dispatch
  <2>1. UNCHANGED <<known, knownLive, left, unseen, reply>>
    BY <1>3 DEF Q!Dispatch, Q!pacing, Q!miro
  <2>2. \A k \in Jobs : \/ work'[k] = work[k]
                        \/ work[k] \in {"none", "queued", "pacing"} /\ work'[k] \in {"queued", "pacing", "done"}
    BY <1>3, DispatchEffect
  <2> QED
    BY <2>1, <2>2, QuietQuota
<1>4. CASE Q!CooldownEnds \/ Q!Call \/ Q!End
  <2>1. UNCHANGED <<known, knownLive, left, unseen, reply, work>>
    BY <1>4 DEF Q!CooldownEnds, Q!Call, Q!End, Q!pacing, Q!miro
  <2> QED
    BY <2>1, QuietQuota
<1> QED
  BY <1>1, <1>2, <1>3, <1>4, SendQuota, ReceiveQuota, LoseQuota, ServeQuota, MiroQuota DEF Q!Next, Q!Worker

-----------------------------------------------------------------------------
LEMMA SafeInit == ASSUME Q!MiroRequestsAssumption, Q!Init PROVE SafeInv
<1> USE DEF Q!Init
<1>n. None \notin Jobs /\ None \notin Nat /\ Budget \in Nat /\ MaxSends \in Nat \ {0} /\ Workers \in Nat \ {0}
  BY DEF Q!MiroRequestsAssumption
<1>1. RangeInv /\ StageInv
  <2>1. left \in 0..Budget /\ sends \in [Jobs -> 0..MaxSends]
    BY <1>n
  <2>2. RangeInv
    BY <2>1 DEF RangeInv, WorkStates
  <2> QED
    BY <2>2 DEF StageInv
<1>2. PendingInv /\ FlyingInv
  <2>1. Q!InFlight = {}
    BY DEF Q!InFlight
  <2>2. Q!Cardinality({}) = 0
    BY Counting, FS_EmptySet
  <2> QED
    BY <2>1, <2>2, <1>n DEF PendingInv, FlyingInv
<1>3. OwnerInv /\ LandingInv /\ IntentInv /\ QuotaInv
  BY <1>n DEF OwnerInv, LandingInv, IntentInv, Q!LandedIsKnown, QuotaInv, Q!BudgetHonest
<1> QED
  BY <1>1, <1>2, <1>3 DEF SafeInv, TypesInv

LEMMA SafeStutter == ASSUME SafeInv, UNCHANGED Q!vars PROVE SafeInv'
<1> USE DEF Q!vars, Q!coordinator, Q!pacing, Q!miro, Q!journal
<1>1. TypesInv'
  BY DEF SafeInv, TypesInv, RangeInv, StageInv, PendingInv, FlyingInv, Q!InFlight
<1>2. OwnerInv' /\ LandingInv' /\ IntentInv'
  BY DEF SafeInv, OwnerInv, LandingInv, IntentInv, Q!LandedIsKnown
<1>3. QuotaInv'
  BY DEF SafeInv, QuotaInv, Q!BudgetHonest, Charged
<1> QED
  BY <1>1, <1>2, <1>3 DEF SafeInv

LEMMA SafeStep == ASSUME Q!MiroRequestsAssumption, SafeInv, [Q!Next]_(Q!vars) PROVE SafeInv'
<1>1. CASE Q!Next
  BY <1>1, RangeStep, StageStep, PendingStep, FlyingStep, OwnerStep, LandingStep, IntentStep, QuotaStep
     DEF SafeInv, TypesInv
<1>2. CASE UNCHANGED Q!vars
  BY <1>2, SafeStutter
<1> QED
  BY <1>1, <1>2

\* Whatever the coordinator, the workers and Miro do, the invariant of a batch
\* holds, for any number of jobs, workers, sends, credits and interruptions.
THEOREM BatchIsSafe == ASSUME Q!MiroRequestsAssumption PROVE Q!Spec => []SafeInv
<1>1. Q!Init => SafeInv
  BY SafeInit
<1>2. SafeInv /\ [Q!Next]_(Q!vars) => SafeInv'
  BY SafeStep
<1> QED
  BY <1>1, <1>2, PTL DEF Q!Spec

LEMMA SafeIsHonest == ASSUME Q!MiroRequestsAssumption, SafeInv PROVE Q!JournalHonest
<1>1. Q!LandedIsKnown
  BY DEF SafeInv, IntentInv
<1>2. Q!PostedOnce
  BY DEF SafeInv, TypesInv, RangeInv, LandingInv, Q!PostedOnce, WorkStates
<1>3. Q!NoFalseUncertainty
  BY DEF SafeInv, OwnerInv, IntentInv, TypesInv, RangeInv, Q!NoFalseUncertainty, Q!MiroRequestsAssumption
<1>4. Q!AllDrained
  BY DEF SafeInv, OwnerInv, Q!AllDrained
<1> QED
  BY <1>1, <1>2, <1>3, <1>4 DEF Q!JournalHonest

\* The journal tells what the board may hold (map, accept_done and the finally
\* clause): a POST that was executed or may be is mapped or has an intent, none is
\* executed twice, an intent that outlives the call is in doubt, and no worker of
\* the call outlives it.
THEOREM JournalIsHonest == ASSUME Q!MiroRequestsAssumption PROVE Q!Spec => []Q!JournalHonest
  BY BatchIsSafe, SafeIsHonest, PTL

\* The budget that _observe and _start keep never promises credits that Miro does
\* not have, whatever the order of the replies, but for charges nobody was told.
THEOREM BudgetIsHonest == ASSUME Q!MiroRequestsAssumption PROVE Q!Spec => []Q!BudgetHonest
<1>1. SafeInv => Q!BudgetHonest
  BY DEF SafeInv, QuotaInv
<1> QED
  BY <1>1, BatchIsSafe, PTL

\* Every variable of a batch has its type, at most Workers futures exist, and the
\* credits in flight are those of the requests in flight.
THEOREM BatchTypes == ASSUME Q!MiroRequestsAssumption PROVE Q!Spec => []Q!TypeOK
<1>1. SafeInv => Q!TypeOK
  BY DEF SafeInv, TypesInv, RangeInv, PendingInv, FlyingInv, Q!TypeOK, WorkStates
<1> QED
  BY <1>1, BatchIsSafe, PTL

LEMMA SendNeedsCalm ==
  ASSUME Q!MiroRequestsAssumption, SafeInv, [Q!Next]_(Q!vars), firstError, coord # "ended",
         NEW j \in Jobs, work'[j] = "sending"
  PROVE  work[j] = "sending"
<1>1. cancel
  BY DEF SafeInv, OwnerInv
<1>2. CASE \E k \in Jobs : Q!Worker(k) \/ Q!Serve(k) \/ Q!ServeLate(k)
  BY <1>1, <1>2 DEF Q!Worker, Q!Begin, Q!Refused, Q!Reserve, Q!Send, Q!Receive, Q!Lose, Q!Serve,
                    Q!ServeLate, Q!Finish, SafeInv, TypesInv, RangeInv
<1>3. CASE (\E k \in Jobs : Q!Draw(k) \/ Q!AcceptDone(k)) \/ Q!Interrupt
  BY <1>3, CoordinatorEffect DEF SafeInv, TypesInv
<1>4. CASE Q!Dispatch
  BY <1>4, DispatchEffect DEF SafeInv, TypesInv
<1>5. CASE Q!WindowReset \/ Q!CooldownEnds \/ Q!Call \/ Q!End \/ UNCHANGED Q!vars
  BY <1>5 DEF Q!WindowReset, Q!CooldownEnds, Q!Call, Q!End, Q!vars
<1> QED
  BY <1>2, <1>3, <1>4, <1>5 DEF Q!Next

\* After the first error no further job reaches the transport: send tests _cancel
\* after it has waited for its turn.
THEOREM QuietIsKept == ASSUME Q!MiroRequestsAssumption PROVE Q!Spec => Q!QuietAfterError
<1>1. SafeInv /\ [Q!Next]_(Q!vars) => [firstError /\ coord # "ended" =>
                                   \A j \in Jobs : work'[j] = "sending" => work[j] = "sending"]_(Q!vars)
  BY SendNeedsCalm
<1> QED
  BY <1>1, BatchIsSafe, PTL DEF Q!Spec, Q!QuietAfterError

-----------------------------------------------------------------------------
(***************************************************************************)
(* The conversion of a board to one circle per address (AddressMerge), for  *)
(* any number of circles, addresses, connectors, people's edits and faults:  *)
(* that it has its journal and its backup, that it takes nothing with it,     *)
(* and that what it calls merged is shown.                                    *)
(***************************************************************************)
CONSTANTS Circles, Account, Others, Connectors, Source, Target, Foreign, MaxFaults, MaxEdits, MaxSyncs, Gone

VARIABLES shapes, ends, written, mode, version, syncing, journal, backups, approved, doing, undone, cur,
          got, underway, stops, scribbles, changed, torn, spoiled, since

A == INSTANCE AddressMerge WITH pc <- doing, left <- undone, flying <- underway, faults <- stops,
                                edits <- scribbles, recent <- since

BothEnds == {"source", "target"}
EndsOf == [BothEnds -> Circles \cup Others]
Redirecting == {"intend", "sendPatch", "awaitPatch", "patched"}
Deleting == {"intendDelete", "sendDelete", "awaitDelete", "removed"}
MergeSteps == {"idle", "preflight", "inventory", "backup", "journal", "patch", "detached", "remove"}
                \cup Redirecting \cup Deleting

\* The types; what a step has yet to do and is at; and that a call works on the
\* mapping it was approved for, with a journal once it may write.
MergeTypes ==
  /\ shapes \subseteq Circles /\ written \subseteq Circles
  /\ ends \in [A!All -> EndsOf \cup {Gone}]
  /\ mode \in {"apart", "merged"} /\ version \in Nat /\ syncing \in BOOLEAN
  /\ journal \in [patches : SUBSET A!Rewires, deletions : SUBSET A!Removed] \cup {None}
  /\ doing \in MergeSteps
PlaceInv ==
  /\ doing \in {"backup", "journal", "patch"} \cup Redirecting => undone \subseteq A!Rewires
  /\ doing \in Redirecting => cur \in A!Rewires
  /\ doing \in A!Removing => undone \subseteq A!Removed
  /\ doing \in Deleting => cur \in A!Removed
  /\ doing # "idle" => approved = version /\ ~syncing /\ mode = "apart"
  /\ doing \in {"patch", "detached"} \cup Redirecting \cup A!Removing => journal # None
\* A request redirects a connector to what the plan retains, or removes a circle
\* the plan does not.
RequestInv ==
  \A r \in underway :
    \/ /\ r.item \in A!Rewires /\ DOMAIN r.ends \subseteq BothEnds
       /\ \A f \in DOMAIN r.ends : r.ends[f] = A!After(r.item)[f]
    \/ r.item \in A!Removed
MergeShapes == MergeTypes /\ PlaceInv /\ RequestInv

\* A journal has the backup of the version it converts, and what is underway, or
\* was changed, belongs to the one conversion that has the journal.
BackupInv ==
  /\ doing = "journal" \/ journal # None => version \in backups
  /\ mode = "apart" /\ underway # {} => journal # None
  /\ A!HalfConvertedIsJournaled

\* What was seen to be free of circles that go, and to end where the plan says, is
\* so until a person touches it.  That holds while circles are removed, as long as
\* a DELETE may arrive, and in the end.
Settled(c) ==
  \/ c \in since
  \/ /\ ends[c] # Gone => ~A!OnRedundant(ends[c])
     /\ c \in Connectors => ends[c] = A!After(c)
Verified(c) ==
  mode = "merged" \/ doing \in A!Removing \/ A!Deletes # {} \/ (doing = "detached" /\ c \notin undone)
SettledInv == \A c \in A!All : Verified(c) => Settled(c)

\* A circle that was done with is gone, the retained are there, and none that is
\* about to go was seen with a note on it.
CircleInv ==
  /\ doing \in A!Removing => \A k \in A!Removed : k \in undone \/ k \notin shapes
  /\ doing = "removed" => cur \notin shapes
  /\ doing \notin {"idle", "preflight"} \/ mode = "merged" => \A k \in Circles \ A!Removed : k \in shapes \cup since
  /\ mode = "merged" => shapes \cap A!Removed = {}
  /\ doing \in Deleting \ {"removed"} => cur \notin written \ since
  /\ \A r \in A!Deletes : r.item \notin written \ since
  /\ A!NothingTorn

ConversionInv == MergeShapes /\ BackupInv /\ SettledInv /\ CircleInv
\* What is retained is not removed, and is its own representative.
LEMMA PlanFacts ==
  ASSUME A!MergeAssumption
  PROVE  /\ A!Rewires \subseteq Connectors /\ A!Removed \subseteq Circles /\ Connectors \cap Circles = {}
         /\ \A x : A!Retained(x) \notin A!Removed
         /\ \A x \in Circles \cup Others : A!Retained(x) \in Circles \cup Others
         /\ \A x : x \notin A!Removed => A!Retained(x) = x
<1>1. \A x \in Circles : A!Retained(x) \in Circles /\ Account[A!Retained(x)] = Account[x]
  BY DEF A!Retained
<1>2. \A x \in Circles : A!Retained(A!Retained(x)) = A!Retained(x)
  BY <1>1 DEF A!Retained
<1>3. \A x : x \notin Circles => A!Retained(x) = x
  BY DEF A!Retained
<1>4. \A x : A!Retained(x) \notin A!Removed
  BY <1>2, <1>3 DEF A!Removed
<1> QED
  BY <1>1, <1>3, <1>4 DEF A!Removed, A!Rewires, A!MergeAssumption

\* A connector that ends where the plan says ends at nothing that goes; one that is
\* where it was before, and on nothing that goes, is where the plan says.
LEMMA EndFacts ==
  ASSUME A!MergeAssumption, NEW c \in Connectors
  PROVE  /\ A!Before(c) \in EndsOf /\ A!After(c) \in EndsOf
         /\ \A f \in BothEnds : A!After(c)[f] \notin A!Removed
         /\ \A f \in BothEnds : A!Before(c)[f] \notin A!Removed => A!After(c)[f] = A!Before(c)[f]
<1>1. Source[c] \in Circles \cup Others /\ Target[c] \in Circles \cup Others
  BY DEF A!MergeAssumption
<1>2. A!Before(c)["source"] = Source[c] /\ A!Before(c)["target"] = Target[c]
  BY DEF A!Before
<1>3. A!After(c)["source"] = A!Retained(Source[c]) /\ A!After(c)["target"] = A!Retained(Target[c])
  BY DEF A!After
<1>4. A!Before(c) \in EndsOf
  BY <1>1 DEF A!Before, EndsOf, BothEnds
<1>5. A!After(c) \in EndsOf
  BY <1>1, PlanFacts DEF A!After, EndsOf, BothEnds
<1> QED
  BY <1>2, <1>3, <1>4, <1>5, PlanFacts DEF BothEnds

\* What the second reading of the board accepts is settled.
LEMMA SeenIsSettled ==
  ASSUME A!MergeAssumption, MergeTypes, NEW c \in A!All, A!Checked(c, TRUE)
  PROVE  Settled(c)
<1>1. ends[c] # Gone => ~A!OnRedundant(ends[c])
  BY DEF A!Checked
<1>2. ASSUME c \in Connectors PROVE ends[c] = A!After(c)
  <2>1. ends[c] # Gone /\ A!Allowed(c, ends[c]) /\ ends[c] \in EndsOf
    BY <1>2 DEF A!Checked, MergeTypes
  <2>2. ASSUME NEW f \in BothEnds PROVE ends[c][f] = A!After(c)[f]
    <3>1. ends[c][f] \notin A!Removed
      BY <1>1, <2>1 DEF A!OnRedundant, BothEnds
    <3>2. ends[c][f] = A!Before(c)[f] \/ ends[c][f] = A!After(c)[f]
      BY <2>1 DEF A!Allowed, BothEnds
    <3> QED
      BY <1>2, <3>1, <3>2, EndFacts
  <2> QED
    BY <1>2, <2>1, <2>2, EndFacts DEF EndsOf
<1> QED
  BY <1>1, <1>2 DEF Settled

\* A journal is something.
LEMMA JournalKinds ==
  ASSUME A!MergeAssumption
  PROVE  None \notin [patches : SUBSET A!Rewires, deletions : SUBSET A!Removed]
BY PlanFacts DEF A!MergeAssumption

\* At first every connector ends where it did.
LEMMA MergeInit == ASSUME A!MergeAssumption, A!Init PROVE ConversionInv
<1>1. ends \in [A!All -> EndsOf \cup {Gone}]
  <2>1. PICK e \in [Foreign -> [source : Others, target : Others]] :
           ends = [c \in A!All |-> IF c \in Connectors THEN A!Before(c) ELSE e[c]]
    BY DEF A!Init
  <2>2. ASSUME NEW c \in Foreign PROVE e[c] \in EndsOf
    BY <2>1 DEF EndsOf, BothEnds
  <2>3. ASSUME NEW c \in Connectors PROVE A!Before(c) \in EndsOf
    BY EndFacts
  <2> QED
    BY <2>1, <2>2, <2>3 DEF A!All
<1>2. MergeShapes
  BY <1>1 DEF A!Init, MergeShapes, MergeTypes, PlaceInv, RequestInv, MergeSteps, Redirecting, Deleting, A!Removing
<1>3. BackupInv
  BY DEF A!Init, BackupInv, A!HalfConvertedIsJournaled
<1>4. SettledInv
  BY DEF A!Init, SettledInv, Verified, A!Deletes, A!Removing
<1>5. CircleInv
  BY DEF A!Init, CircleInv, A!NothingTorn, A!Deletes, A!Removing, Deleting
<1> QED
  BY <1>2, <1>3, <1>4, <1>5 DEF ConversionInv

-----------------------------------------------------------------------------
(* What a person and a request do to the board                             *)

\* A person leaves alone what the call looked at, or what they touch is recorded.
LEMMA EditIsRecorded ==
  ASSUME A!MergeAssumption, MergeTypes, A!Edit
  PROVE  /\ ends' \in [A!All -> EndsOf \cup {Gone}] /\ shapes' \subseteq shapes /\ written' \subseteq Circles
         /\ since \subseteq since'
         /\ \A c \in A!All : c \in A!LookedAt => ends'[c] = ends[c] \/ c \in since'
         /\ \A k \in Circles : k \in A!LookedAt => (k \in written' => k \in written \/ k \in since')
                                                   /\ (k \in shapes => k \in shapes' \/ k \in since')
<1>1. CASE \E c \in A!All, f \in {"source", "target"}, x \in shapes \cup Others :
             /\ ends[c] # Gone /\ ends[c][f] # x /\ A!Touch({c})
             /\ ends' = [ends EXCEPT ![c][f] = x] /\ UNCHANGED <<shapes, written>>
  <2>1. PICK c \in A!All, f \in {"source", "target"}, x \in shapes \cup Others :
             /\ ends[c] # Gone /\ A!Touch({c})
             /\ ends' = [ends EXCEPT ![c][f] = x] /\ UNCHANGED <<shapes, written>>
    BY <1>1
  <2>2. ends[c] \in EndsOf /\ x \in Circles \cup Others
    BY <2>1 DEF MergeTypes
  <2>3. [ends[c] EXCEPT ![f] = x] \in EndsOf
    BY <2>2 DEF EndsOf, BothEnds
  <2>4. ends' = [ends EXCEPT ![c] = [ends[c] EXCEPT ![f] = x]]
    BY <2>1
  <2> QED
    BY <2>1, <2>3, <2>4 DEF MergeTypes, A!Touch
<1>2. CASE \E c \in A!All : /\ ends[c] # Gone /\ A!Touch({c})
                            /\ ends' = [ends EXCEPT ![c] = Gone] /\ UNCHANGED <<shapes, written>>
  BY <1>2 DEF MergeTypes, A!Touch
<1>3. CASE \E k \in shapes \ written : A!Touch({k}) /\ written' = written \cup {k} /\ UNCHANGED <<shapes, ends>>
  BY <1>3 DEF MergeTypes, A!Touch
<1>4. CASE \E k \in shapes : /\ A!Touch({k} \cup A!On(k)) /\ shapes' = shapes \ {k} /\ UNCHANGED written
                             /\ ends' = [c \in A!All |-> IF c \in A!On(k) THEN Gone ELSE ends[c]]
  BY <1>4 DEF MergeTypes, A!Touch
<1> QED
  BY <1>1, <1>2, <1>3, <1>4 DEF A!Edit

\* A request that arrives is refused, redirects its connector, or removes its circle
\* with the connectors that end there.
LEMMA LandCases ==
  ASSUME A!MergeAssumption, MergeShapes, NEW r \in underway, A!Land(r)
  PROVE  /\ ends' \in [A!All -> EndsOf \cup {Gone}] /\ shapes' \subseteq shapes /\ written' = written
         /\ \/ /\ shapes' = shapes /\ ends' = ends /\ torn' = torn /\ spoiled' = spoiled
            \/ /\ r.item \in A!Rewires /\ shapes' = shapes /\ torn' = torn /\ spoiled' = spoiled
               /\ \A c \in A!All : c # r.item => ends'[c] = ends[c]
               /\ ends[r.item] # Gone
               /\ \A f \in BothEnds : ends'[r.item][f] \in {ends[r.item][f], A!After(r.item)[f]}
               /\ ends'[r.item] \in EndsOf
            \/ /\ r \in A!Deletes /\ r.item \in A!Removed /\ shapes' = shapes \ {r.item}
               /\ \A c \in A!All : ends'[c] = ends[c] \/ c \in A!On(r.item)
               /\ torn' = torn \cup A!On(r.item) /\ spoiled' = spoiled \cup ({r.item} \cap written)
<1>1. A!Rewires \cap Circles = {} /\ A!Rewires \subseteq A!All
  BY PlanFacts DEF A!All
<1>2. CASE A!Refused(r)
  BY <1>2 DEF A!Land, A!board, MergeShapes, MergeTypes
<1>3. CASE ~A!Refused(r) /\ r.item \in Circles
  <2>1. r.item \in A!Removed
    BY <1>1, <1>3 DEF MergeShapes, RequestInv
  <2> QED
    BY <1>3, <2>1 DEF A!Land, MergeShapes, MergeTypes, A!Deletes, A!On
<1>4. CASE ~A!Refused(r) /\ r.item \notin Circles
  <2>1. /\ r.item \in A!Rewires /\ DOMAIN r.ends \subseteq BothEnds
        /\ \A f \in DOMAIN r.ends : r.ends[f] = A!After(r.item)[f]
    BY <1>4, PlanFacts DEF MergeShapes, RequestInv
  <2>2. ends[r.item] # Gone
    BY <1>4 DEF A!Refused
  <2>3. ends[r.item] \in EndsOf /\ A!After(r.item) \in EndsOf
    BY <1>1, <2>1, <2>2, EndFacts, PlanFacts DEF MergeShapes, MergeTypes
  <2>4. A!Ends(r) \in EndsOf /\ \A f \in BothEnds : A!Ends(r)[f] \in {ends[r.item][f], A!After(r.item)[f]}
    BY <2>1, <2>3 DEF A!Ends, EndsOf, BothEnds
  <2>5. /\ ends' = [ends EXCEPT ![r.item] = A!Ends(r)]
        /\ shapes' = shapes /\ written' = written /\ torn' = torn /\ spoiled' = spoiled
    BY <1>4 DEF A!Land
  <2>6. ends \in [A!All -> EndsOf \cup {Gone}]
    BY DEF MergeShapes, MergeTypes
  <2> QED
    BY <1>1, <2>1, <2>2, <2>4, <2>5, <2>6
<1> QED
  BY <1>2, <1>3, <1>4

\* And its caller, if it still waits, goes on or stops.
LEMMA LandCall ==
  ASSUME A!MergeAssumption, MergeShapes, NEW r \in underway, A!Land(r)
  PROVE  /\ underway' = underway \ {r} /\ A!Deletes' = A!Deletes \ {r}
         /\ since' = since /\ mode' = mode /\ journal' = journal
         /\ \/ doing' = "idle"
            \/ doing' = doing /\ undone' = undone /\ cur' = cur
            \/ doing = "awaitPatch" /\ doing' = "patched" /\ undone' = undone /\ cur' = cur
            \/ /\ doing = "awaitDelete" /\ doing' = "removed" /\ undone' = undone /\ cur' = cur
               /\ cur \notin shapes'
<1>1. underway' = underway \ {r} /\ since' = since /\ mode' = mode /\ journal' = journal
  BY DEF A!Land, A!mapping
<1>2. A!Deletes' = A!Deletes \ {r}
  BY <1>1 DEF A!Deletes
<1>3. CASE ~A!Waits(r) \/ A!Refused(r) \/ (r.item \in Connectors /\ A!Ends(r) # A!After(r.item))
  BY <1>1, <1>2, <1>3 DEF A!Land, A!call, A!Quit
<1>4. CASE A!Waits(r) /\ ~A!Refused(r) /\ ~(r.item \in Connectors /\ A!Ends(r) # A!After(r.item))
  <2>1. doing \in {"awaitPatch", "awaitDelete"} /\ cur = r.item
    BY <1>4 DEF A!Waits
  <2>2. undone' = undone /\ cur' = cur /\ doing' = IF doing = "awaitPatch" THEN "patched" ELSE "removed"
    BY <1>4 DEF A!Land, A!Goto
  <2>3. ASSUME doing = "awaitDelete" PROVE cur \notin shapes'
    <3>1. cur \in Circles
      BY <2>3, PlanFacts DEF MergeShapes, PlaceInv, Deleting
    <3> QED
      BY <1>4, <2>1, <3>1 DEF A!Land
  <2> QED
    BY <1>1, <1>2, <2>1, <2>2, <2>3
<1> QED
  BY <1>3, <1>4

-----------------------------------------------------------------------------
(* One step                                                                *)

\* Every step keeps the types.
LEMMA TypesStep ==
  ASSUME A!MergeAssumption, MergeShapes, [A!Next]_(A!vars)
  PROVE  MergeTypes'
<1> USE DEF A!board, A!mapping, A!call, A!history, A!Goto, A!Quit, MergeShapes, MergeTypes, MergeSteps,
   PlaceInv, Redirecting, Deleting, A!Removing
<1>1. CASE A!preview_merge
  BY PlanFacts, <1>1 DEF A!preview_merge
<1>2. CASE A!Sync
  BY PlanFacts, <1>2 DEF A!Sync, A!_load_sync_state
<1>3. CASE A!Begin
  BY PlanFacts, <1>3 DEF A!Begin
<1>4. CASE A!Preflight
  BY PlanFacts, <1>4 DEF A!Preflight
<1>5. CASE A!_inventory
  BY PlanFacts, <1>5 DEF A!_inventory
<1>6. CASE A!Backup
  BY PlanFacts, <1>6 DEF A!Backup
<1>7. CASE A!Journal
  BY PlanFacts, <1>7 DEF A!Journal
<1>8. CASE A!ReadConnector
  BY PlanFacts, <1>8 DEF A!ReadConnector
<1>9. CASE A!Intend
  BY PlanFacts, <1>9 DEF A!Intend
<1>10. CASE A!Send
  BY PlanFacts, <1>10 DEF A!Send
<1>11. CASE A!Patched
  BY PlanFacts, <1>11 DEF A!Patched
<1>12. CASE A!Redirected
  BY PlanFacts, <1>12 DEF A!Redirected
<1>13. CASE A!ReadCircle
  BY PlanFacts, <1>13 DEF A!ReadCircle
<1>14. CASE A!IntendDelete
  BY PlanFacts, <1>14 DEF A!IntendDelete
<1>15. CASE A!CircleRemoved
  BY PlanFacts, <1>15 DEF A!CircleRemoved
<1>16. CASE A!Complete
  BY PlanFacts, <1>16 DEF A!Complete
<1>17. CASE A!Stop
  BY PlanFacts, <1>17 DEF A!Stop
<1>18. CASE A!Edit
  BY EditIsRecorded, <1>18 DEF A!Edit
<1>19. ASSUME NEW r \in underway, A!Land(r) PROVE MergeTypes'
  BY <1>19, LandCases, LandCall DEF A!Land
<1>20. ASSUME NEW r \in underway, A!Lose(r) PROVE MergeTypes'
  BY PlanFacts, <1>20 DEF A!Lose
<1>21. CASE UNCHANGED A!vars
  BY <1>21 DEF A!vars
<1> QED
  BY <1>1, <1>2, <1>3, <1>4, <1>5, <1>6, <1>7, <1>8, <1>9, <1>10, <1>11, <1>12, <1>13, <1>14, <1>15,
     <1>16, <1>17, <1>18, <1>19, <1>20, <1>21 DEF A!Next, A!Proceed

\* Every step keeps what a place in the call needs.
LEMMA PlaceStep ==
  ASSUME A!MergeAssumption, MergeShapes, MergeTypes', [A!Next]_(A!vars)
  PROVE  PlaceInv'
<1> USE DEF A!board, A!mapping, A!call, A!history, A!Goto, A!Quit, MergeShapes, PlaceInv, Redirecting,
   Deleting, A!Removing, A!Plannable
<1>1. CASE A!preview_merge
  BY PlanFacts, <1>1 DEF A!preview_merge
<1>2. CASE A!Sync
  BY PlanFacts, <1>2 DEF A!Sync, A!_load_sync_state
<1>3. CASE A!Begin
  BY PlanFacts, <1>3 DEF A!Begin
<1>4. CASE A!Preflight
  BY PlanFacts, <1>4 DEF A!Preflight
<1>5. CASE A!_inventory
  BY PlanFacts, <1>5 DEF A!_inventory
<1>6. CASE A!Backup
  BY PlanFacts, <1>6 DEF A!Backup
<1>7. CASE A!Journal
  BY PlanFacts, JournalKinds, <1>7 DEF A!Journal, MergeTypes
<1>8. CASE A!ReadConnector
  BY PlanFacts, <1>8 DEF A!ReadConnector
<1>9. CASE A!Intend
  BY PlanFacts, JournalKinds, <1>9 DEF A!Intend, MergeTypes
<1>10. CASE A!Send
  BY PlanFacts, <1>10 DEF A!Send
<1>11. CASE A!Patched
  BY PlanFacts, JournalKinds, <1>11 DEF A!Patched, MergeTypes
<1>12. CASE A!Redirected
  BY PlanFacts, <1>12 DEF A!Redirected
<1>13. CASE A!ReadCircle
  BY PlanFacts, <1>13 DEF A!ReadCircle
<1>14. CASE A!IntendDelete
  BY PlanFacts, JournalKinds, <1>14 DEF A!IntendDelete, MergeTypes
<1>15. CASE A!CircleRemoved
  BY PlanFacts, JournalKinds, <1>15 DEF A!CircleRemoved, MergeTypes
<1>16. CASE A!Complete
  BY PlanFacts, <1>16 DEF A!Complete
<1>17. CASE A!Stop
  BY PlanFacts, <1>17 DEF A!Stop
<1>18. CASE A!Edit
  BY PlanFacts, <1>18 DEF A!Edit
<1>19. ASSUME NEW r \in underway, A!Land(r) PROVE PlaceInv'
  BY <1>19, LandCall DEF A!Land
<1>20. ASSUME NEW r \in underway, A!Lose(r) PROVE PlaceInv'
  BY PlanFacts, <1>20 DEF A!Lose
<1>21. CASE UNCHANGED A!vars
  BY <1>21 DEF A!vars
<1> QED
  BY <1>1, <1>2, <1>3, <1>4, <1>5, <1>6, <1>7, <1>8, <1>9, <1>10, <1>11, <1>12, <1>13, <1>14, <1>15,
     <1>16, <1>17, <1>18, <1>19, <1>20, <1>21 DEF A!Next, A!Proceed

\* Every step sends only what the plan says.
LEMMA RequestStep ==
  ASSUME A!MergeAssumption, MergeShapes, [A!Next]_(A!vars)
  PROVE  RequestInv'
<1> USE DEF A!board, A!mapping, A!call, A!history, A!Goto, A!Quit, MergeShapes, RequestInv
<1>1. CASE A!preview_merge
  BY <1>1 DEF A!preview_merge
<1>2. CASE A!Sync
  BY <1>2 DEF A!Sync, A!_load_sync_state
<1>3. CASE A!Begin
  BY <1>3 DEF A!Begin
<1>4. CASE A!Preflight
  BY <1>4 DEF A!Preflight
<1>5. CASE A!_inventory
  BY <1>5 DEF A!_inventory
<1>6. CASE A!Backup
  BY <1>6 DEF A!Backup
<1>7. CASE A!Journal
  BY <1>7 DEF A!Journal
<1>8. CASE A!ReadConnector
  BY <1>8 DEF A!ReadConnector
<1>9. CASE A!Intend
  BY <1>9 DEF A!Intend
<1>10. CASE A!Send
  BY PlanFacts, <1>10 DEF A!Send, PlaceInv, Redirecting, Deleting, A!Removing, A!Patch, A!Delete, BothEnds
<1>11. CASE A!Patched
  BY <1>11 DEF A!Patched
<1>12. CASE A!Redirected
  BY <1>12 DEF A!Redirected
<1>13. CASE A!ReadCircle
  BY <1>13 DEF A!ReadCircle
<1>14. CASE A!IntendDelete
  BY <1>14 DEF A!IntendDelete
<1>15. CASE A!CircleRemoved
  BY <1>15 DEF A!CircleRemoved
<1>16. CASE A!Complete
  BY <1>16 DEF A!Complete
<1>17. CASE A!Stop
  BY <1>17 DEF A!Stop
<1>18. CASE A!Edit
  BY <1>18 DEF A!Edit
<1>19. ASSUME NEW r \in underway, A!Land(r) PROVE RequestInv'
  BY <1>19, LandCall
<1>20. ASSUME NEW r \in underway, A!Lose(r) PROVE RequestInv'
  BY <1>20 DEF A!Lose
<1>21. CASE UNCHANGED A!vars
  BY <1>21 DEF A!vars
<1> QED
  BY <1>1, <1>2, <1>3, <1>4, <1>5, <1>6, <1>7, <1>8, <1>9, <1>10, <1>11, <1>12, <1>13, <1>14, <1>15,
     <1>16, <1>17, <1>18, <1>19, <1>20, <1>21 DEF A!Next, A!Proceed

\* Nothing is written before the journal, and no journal is left while anything may
\* arrive.
LEMMA BackupStep ==
  ASSUME A!MergeAssumption, MergeShapes, PlaceInv', BackupInv, [A!Next]_(A!vars)
  PROVE  BackupInv'
<1> USE DEF A!board, A!mapping, A!call, A!history, A!Goto, A!Quit, BackupInv, A!HalfConvertedIsJournaled,
   MergeShapes, PlaceInv, Redirecting, Deleting, A!Removing
<1>1. CASE A!preview_merge
  BY <1>1 DEF A!preview_merge
<1>2. CASE A!Sync
  BY <1>2 DEF A!Sync, A!_load_sync_state
<1>3. CASE A!Begin
  BY <1>3 DEF A!Begin
<1>4. CASE A!Preflight
  BY <1>4 DEF A!Preflight
<1>5. CASE A!_inventory
  BY <1>5 DEF A!_inventory
<1>6. CASE A!Backup
  BY <1>6 DEF A!Backup, A!Saved
<1>7. CASE A!Journal
  BY JournalKinds, <1>7 DEF A!Journal, MergeTypes
<1>8. CASE A!ReadConnector
  BY <1>8 DEF A!ReadConnector
<1>9. CASE A!Intend
  BY JournalKinds, <1>9 DEF A!Intend, MergeTypes
<1>10. CASE A!Send
  BY <1>10 DEF A!Send
<1>11. CASE A!Patched
  BY JournalKinds, <1>11 DEF A!Patched, MergeTypes
<1>12. CASE A!Redirected
  BY <1>12 DEF A!Redirected
<1>13. CASE A!ReadCircle
  BY <1>13 DEF A!ReadCircle
<1>14. CASE A!IntendDelete
  BY JournalKinds, <1>14 DEF A!IntendDelete, MergeTypes
<1>15. CASE A!CircleRemoved
  BY JournalKinds, <1>15 DEF A!CircleRemoved, MergeTypes
<1>16. CASE A!Complete
  BY <1>16 DEF A!Complete
<1>17. CASE A!Stop
  BY <1>17 DEF A!Stop
<1>18. CASE A!Edit
  BY <1>18 DEF A!Edit
<1>19. ASSUME NEW r \in underway, A!Land(r) PROVE BackupInv'
  BY <1>19 DEF A!Land, A!mapping, BackupInv, A!HalfConvertedIsJournaled, A!call, A!Quit, A!Goto, A!Waits
<1>20. ASSUME NEW r \in underway, A!Lose(r) PROVE BackupInv'
  BY <1>20 DEF A!Lose
<1>21. CASE UNCHANGED A!vars
  BY <1>21 DEF A!vars
<1> QED
  BY <1>1, <1>2, <1>3, <1>4, <1>5, <1>6, <1>7, <1>8, <1>9, <1>10, <1>11, <1>12, <1>13, <1>14, <1>15,
     <1>16, <1>17, <1>18, <1>19, <1>20, <1>21 DEF A!Next, A!Proceed

\* What was seen stays so: by _inventory it becomes so, and a late PATCH or DELETE
\* changes only what was not seen, or to what the plan says.
LEMMA SettledStep ==
  ASSUME A!MergeAssumption, MergeShapes, MergeTypes', SettledInv, [A!Next]_(A!vars)
  PROVE  SettledInv'
<1> USE DEF A!board, A!mapping, A!call, A!history, A!Goto, A!Quit, SettledInv, Verified, Settled,
   A!Deletes, A!Removing
<1>1. CASE A!preview_merge
  BY <1>1 DEF A!preview_merge
<1>2. CASE A!Sync
  BY <1>2 DEF A!Sync, A!_load_sync_state
<1>3. CASE A!Begin
  BY <1>3 DEF A!Begin
<1>4. CASE A!Preflight
  BY <1>4 DEF A!Preflight
<1>5. CASE A!_inventory
  <2>1. PICK c \in undone :
             IF ~A!Checked(c, doing = "detached") THEN A!Quit
             ELSE IF undone # {c} THEN undone' = undone \ {c} /\ UNCHANGED <<doing, cur, got>>
             ELSE /\ UNCHANGED <<cur, got>>
                  /\ IF doing = "inventory" THEN A!Goto("backup") /\ undone' = A!Rewires
                     ELSE A!Goto("remove") /\ undone' = A!Removed
    BY <1>5 DEF A!_inventory
  <2>2. UNCHANGED <<A!board, mode, underway, since>> /\ doing \in {"inventory", "detached"}
    BY <1>5 DEF A!_inventory, A!mapping, A!history
  <2>3. \A d \in A!All : Settled(d) => Settled(d)'
    BY <2>2 DEF Settled, A!board
  <2>4. CASE ~(A!Checked(c, doing = "detached") /\ doing = "detached")
    BY <2>1, <2>2, <2>3, <2>4 DEF SettledInv, Verified, A!Deletes, A!Removing, A!Quit, A!Goto
  <2>5. CASE A!Checked(c, doing = "detached") /\ doing = "detached"
    <3>1. c \in A!All => Settled(c)
      BY <2>5, SeenIsSettled DEF MergeShapes
    <3>2. \A d \in A!All : Verified(d)' => d = c \/ Verified(d)
      BY <2>1, <2>2, <2>5 DEF Verified, A!Deletes, A!Removing, A!Goto
    <3> QED
      BY <2>3, <3>1, <3>2 DEF SettledInv
  <2> QED
    BY <2>4, <2>5
<1>6. CASE A!Backup
  BY <1>6 DEF A!Backup
<1>7. CASE A!Journal
  BY <1>7 DEF A!Journal
<1>8. CASE A!ReadConnector
  BY <1>8 DEF A!ReadConnector
<1>9. CASE A!Intend
  BY <1>9 DEF A!Intend
<1>10. CASE A!Send
  <2>1. \A c \in A!All : Verified(c)' => Verified(c)
    <3>1. CASE doing = "sendDelete"
      BY <3>1 DEF Verified, A!Removing
    <3>2. CASE doing = "sendPatch"
      <4>1. cur \notin Circles /\ A!Patch.item = cur /\ underway' = underway \cup {A!Patch}
        BY <1>10, <3>2, PlanFacts DEF A!Send, A!Patch, MergeShapes, PlaceInv, Redirecting
      <4>2. A!Deletes' = A!Deletes
        BY <4>1 DEF A!Deletes
      <4> QED
        BY <1>10, <3>2, <4>2 DEF A!Send, A!mapping, A!Goto, Verified, A!Removing
    <3> QED
      BY <1>10, <3>1, <3>2 DEF A!Send
  <2>2. \A c \in A!All : Settled(c) => Settled(c)'
    BY <1>10 DEF A!Send, A!board, A!history, Settled
  <2> QED
    BY <2>1, <2>2 DEF SettledInv
<1>11. CASE A!Patched
  BY <1>11 DEF A!Patched
<1>12. CASE A!Redirected
  BY <1>12 DEF A!Redirected
<1>13. CASE A!ReadCircle
  BY <1>13 DEF A!ReadCircle
<1>14. CASE A!IntendDelete
  BY <1>14 DEF A!IntendDelete
<1>15. CASE A!CircleRemoved
  BY <1>15 DEF A!CircleRemoved
<1>16. CASE A!Complete
  BY <1>16 DEF A!Complete
<1>17. CASE A!Stop
  BY <1>17 DEF A!Stop
<1>18. CASE A!Edit
  <2>1. mode = "apart" /\ UNCHANGED <<A!mapping, A!call, underway>>
    BY <1>18 DEF A!Edit
  <2>2. ASSUME NEW c \in A!All, Verified(c)' PROVE Settled(c)'
    <3>1. Verified(c) /\ c \in A!LookedAt
      BY <2>1, <2>2 DEF Verified, A!LookedAt, A!Deletes, A!mapping, A!call
    <3>2. Settled(c)
      BY <3>1 DEF SettledInv
    <3> QED
      BY <1>18, <3>1, <3>2, EditIsRecorded DEF MergeShapes, Settled
  <2> QED
    BY <2>2 DEF SettledInv
<1>19. ASSUME NEW r \in underway, A!Land(r) PROVE SettledInv'
  <2>1. ASSUME NEW c \in A!All, Verified(c)' PROVE Settled(c)'
    <3>1. Settled(c) /\ since' = since
      BY <1>19, <2>1, LandCall DEF SettledInv, Verified, A!Removing
    <3>2. CASE ends'[c] = ends[c]
      BY <3>1, <3>2 DEF Settled
    <3>3. CASE r.item \in A!Rewires /\ c = r.item /\ ends[c] # Gone /\ ends'[c] \in EndsOf
               /\ \A f \in BothEnds : ends'[c][f] \in {ends[c][f], A!After(c)[f]}
      <4>1. c \in Connectors
        BY <3>3, PlanFacts
      <4>2. ASSUME c \notin since PROVE ends'[c] = A!After(c)
        <5>1. ends[c] = A!After(c)
          BY <3>1, <4>1, <4>2 DEF Settled
        <5> QED
          BY <3>3, <4>1, <5>1, EndFacts DEF EndsOf
      <4>3. ~A!OnRedundant(A!After(c))
        BY <4>1, EndFacts DEF A!OnRedundant, BothEnds
      <4> QED
        BY <3>1, <4>2, <4>3 DEF Settled
    <3>4. CASE r \in A!Deletes /\ r.item \in A!Removed /\ c \in A!On(r.item)
      <4>1. Settled(c) /\ A!OnRedundant(ends[c]) /\ ends[c] # Gone
        BY <3>1, <3>4 DEF A!On, A!OnRedundant
      <4> QED
        BY <3>1, <4>1 DEF Settled
    <3> QED
      BY <1>19, <3>2, <3>3, <3>4, LandCases
  <2> QED
    BY <2>1 DEF SettledInv
<1>20. ASSUME NEW r \in underway, A!Lose(r) PROVE SettledInv'
  BY <1>20 DEF A!Lose
<1>21. CASE UNCHANGED A!vars
  BY <1>21 DEF A!vars
<1> QED
  BY <1>1, <1>2, <1>3, <1>4, <1>5, <1>6, <1>7, <1>8, <1>9, <1>10, <1>11, <1>12, <1>13, <1>14, <1>15,
     <1>16, <1>17, <1>18, <1>19, <1>20, <1>21 DEF A!Next, A!Proceed

\* Circles go only where the call saw nothing on them.
LEMMA CircleStep ==
  ASSUME A!MergeAssumption, MergeShapes, SettledInv, CircleInv, [A!Next]_(A!vars)
  PROVE  CircleInv'
<1> USE DEF A!board, A!mapping, A!call, A!history, A!Goto, A!Quit, CircleInv, A!NothingTorn, A!Deletes,
   Deleting, A!Removing, MergeShapes, PlaceInv
<1>1. CASE A!preview_merge
  BY <1>1 DEF A!preview_merge
<1>2. CASE A!Sync
  BY <1>2 DEF A!Sync, A!_load_sync_state
<1>3. CASE A!Begin
  BY <1>3 DEF A!Begin
<1>4. CASE A!Preflight
  BY <1>4 DEF A!Preflight, A!Absent, A!Deleted, MergeTypes
<1>5. CASE A!_inventory
  BY <1>5 DEF A!_inventory
<1>6. CASE A!Backup
  BY <1>6 DEF A!Backup
<1>7. CASE A!Journal
  BY <1>7 DEF A!Journal
<1>8. CASE A!ReadConnector
  BY <1>8 DEF A!ReadConnector
<1>9. CASE A!Intend
  BY <1>9 DEF A!Intend
<1>10. CASE A!Send
  BY PlanFacts, <1>10 DEF A!Send, A!Patch, A!Delete, Redirecting
<1>11. CASE A!Patched
  BY <1>11 DEF A!Patched
<1>12. CASE A!Redirected
  BY <1>12 DEF A!Redirected
<1>13. CASE A!ReadCircle
  BY <1>13 DEF A!ReadCircle, A!_check_duplicate
<1>14. CASE A!IntendDelete
  BY <1>14 DEF A!IntendDelete
<1>15. CASE A!CircleRemoved
  BY <1>15 DEF A!CircleRemoved
<1>16. CASE A!Complete
  BY <1>16 DEF A!Complete
<1>17. CASE A!Stop
  BY <1>17 DEF A!Stop
<1>18. CASE A!Edit
  <2>1. mode = "apart" /\ UNCHANGED <<A!mapping, A!call, underway, torn, spoiled>>
    BY <1>18 DEF A!Edit
  <2>2. /\ doing \in A!Removing /\ cur \in Circles => cur \in A!LookedAt
        /\ \A r \in A!Deletes : r.item \in Circles => r.item \in A!LookedAt
        /\ doing \notin {"idle", "preflight"} => \A k \in Circles \ A!Removed : k \in A!LookedAt
    BY DEF A!LookedAt
  <2>3. shapes' \subseteq shapes /\ since \subseteq since' /\ written' \subseteq Circles
    BY <1>18, EditIsRecorded DEF MergeShapes
  <2>4. \A k \in Circles : k \in A!LookedAt => (k \in written' => k \in written \/ k \in since')
                                                 /\ (k \in shapes => k \in shapes' \/ k \in since')
    BY <1>18, EditIsRecorded DEF MergeShapes
  <2>5. A!Deletes' = A!Deletes /\ \A r \in A!Deletes : r.item \in Circles
    BY <2>1 DEF A!Deletes
  <2>6. UNCHANGED <<doing, undone, cur, mode, torn, spoiled>>
    BY <2>1 DEF A!mapping, A!call
  <2>7. \A k \in A!Removed : k \in Circles
    BY PlanFacts
  <2>8. doing \in Deleting => cur \in A!Removed
    BY DEF MergeShapes, PlaceInv
  <2>9. (doing \in A!Removing => \A k \in A!Removed : k \in undone \/ k \notin shapes)'
    BY <2>3, <2>6 DEF CircleInv
  <2>10. (doing = "removed" => cur \notin shapes)' /\ A!NothingTorn'
    BY <2>3, <2>6 DEF CircleInv, A!NothingTorn
  <2>11. (doing \notin {"idle", "preflight"} \/ mode = "merged" =>
           \A k \in Circles \ A!Removed : k \in shapes \cup since)'
    BY <2>1, <2>2, <2>3, <2>4, <2>6 DEF CircleInv
  <2>12. (mode = "merged" => shapes \cap A!Removed = {})'
    BY <2>1, <2>6
  <2>13. (doing \in Deleting \ {"removed"} => cur \notin written \ since)'
    BY <2>2, <2>3, <2>4, <2>6, <2>7, <2>8 DEF CircleInv, Deleting, A!Removing
  <2>14. (\A r \in A!Deletes : r.item \notin written \ since)'
    BY <2>2, <2>3, <2>4, <2>5 DEF CircleInv
  <2> QED
    BY <2>9, <2>10, <2>11, <2>12, <2>13, <2>14 DEF CircleInv
<1>19. ASSUME NEW r \in underway, A!Land(r) PROVE CircleInv'
  <2>1. /\ shapes' \subseteq shapes /\ written' = written /\ since' = since /\ mode' = mode
        /\ A!Deletes' = A!Deletes \ {r}
    BY <1>19, LandCases, LandCall
  <2>2. \A k \in Circles \ A!Removed : k \in shapes => k \in shapes'
    BY <1>19, LandCases
  <2>3. A!NothingTorn'
    <3>1. CASE torn' = torn /\ spoiled' = spoiled
      BY <2>1, <3>1 DEF CircleInv, A!NothingTorn
    <3>2. CASE r \in A!Deletes /\ r.item \in A!Removed /\ torn' = torn \cup A!On(r.item)
               /\ spoiled' = spoiled \cup ({r.item} \cap written)
      <4>1. A!On(r.item) \subseteq since
        <5>1. ASSUME NEW c \in A!On(r.item) PROVE c \in since
          <6>1. c \in A!All /\ ends[c] # Gone /\ A!OnRedundant(ends[c])
            BY <3>2 DEF A!On, A!OnRedundant
          <6>2. Settled(c)
            BY <3>2, <6>1 DEF SettledInv, Verified
          <6> QED
            BY <6>1, <6>2 DEF Settled
        <5> QED
          BY <5>1
      <4>2. {r.item} \cap written \subseteq since
        BY <3>2 DEF CircleInv
      <4> QED
        BY <2>1, <3>2, <4>1, <4>2 DEF CircleInv, A!NothingTorn
    <3> QED
      BY <1>19, <3>1, <3>2, LandCases
  <2>4. /\ doing' \in A!Removing => doing \in A!Removing /\ undone' = undone
        /\ doing' \in Deleting => cur' = cur
        /\ doing' = "removed" => doing = "removed" \/ cur \notin shapes'
        /\ doing' \in Deleting \ {"removed"} => doing' = doing
        /\ doing' \notin {"idle", "preflight"} => doing \notin {"idle", "preflight"}
    BY <1>19, LandCall DEF Deleting, A!Removing
  <2>5. (doing \in A!Removing => \A k \in A!Removed : k \in undone \/ k \notin shapes)'
    BY <2>1, <2>4 DEF CircleInv
  <2>6. (doing = "removed" => cur \notin shapes)'
    BY <2>1, <2>4 DEF CircleInv, Deleting
  <2>7. (doing \notin {"idle", "preflight"} \/ mode = "merged" =>
           \A k \in Circles \ A!Removed : k \in shapes \cup since)'
    BY <2>1, <2>2, <2>4 DEF CircleInv
  <2>8. (mode = "merged" => shapes \cap A!Removed = {})'
    BY <2>1 DEF CircleInv
  <2>9. (doing \in Deleting \ {"removed"} => cur \notin written \ since)'
    BY <2>1, <2>4 DEF CircleInv, Deleting
  <2>10. (\A s \in A!Deletes : s.item \notin written \ since)'
    BY <2>1 DEF CircleInv
  <2> QED
    BY <2>3, <2>5, <2>6, <2>7, <2>8, <2>9, <2>10 DEF CircleInv
<1>20. ASSUME NEW r \in underway, A!Lose(r) PROVE CircleInv'
  BY <1>20 DEF A!Lose
<1>21. CASE UNCHANGED A!vars
  BY <1>21 DEF A!vars
<1> QED
  BY <1>1, <1>2, <1>3, <1>4, <1>5, <1>6, <1>7, <1>8, <1>9, <1>10, <1>11, <1>12, <1>13, <1>14, <1>15,
     <1>16, <1>17, <1>18, <1>19, <1>20, <1>21 DEF A!Next, A!Proceed

-----------------------------------------------------------------------------
(* The theorems                                                            *)

LEMMA ConversionStep ==
  ASSUME A!MergeAssumption, ConversionInv, [A!Next]_(A!vars)
  PROVE  ConversionInv'
<1>1. MergeTypes'
  BY TypesStep DEF ConversionInv
<1>2. PlaceInv'
  BY <1>1, PlaceStep DEF ConversionInv
<1>3. RequestInv'
  BY RequestStep DEF ConversionInv
<1>4. BackupInv' /\ SettledInv' /\ CircleInv'
  BY <1>1, <1>2, BackupStep, SettledStep, CircleStep DEF ConversionInv
<1> QED
  BY <1>1, <1>2, <1>3, <1>4 DEF ConversionInv, MergeShapes

\* Every state of a conversion, interrupted and resumed however often, satisfies the
\* invariant.
THEOREM ConversionIsSafe == ASSUME A!MergeAssumption PROVE A!Spec => []ConversionInv
<1>1. A!Init => ConversionInv
  BY MergeInit
<1>2. ConversionInv /\ [A!Next]_(A!vars) => ConversionInv'
  BY ConversionStep
<1> QED
  BY <1>1, <1>2, PTL DEF A!Spec

\* Every variable of a conversion has its type, and a call that works holds the plan
\* that was approved.
THEOREM ConversionTypes == ASSUME A!MergeAssumption PROVE A!Spec => []A!TypeOK
<1>1. ConversionInv => A!TypeOK
  BY DEF ConversionInv, MergeShapes, MergeTypes, PlaceInv, A!TypeOK, Redirecting, A!Removing
<1> QED
  BY <1>1, ConversionIsSafe, PTL

\* apply_merge never changes a board without the journal that blocks a sync and the
\* backup of the very mapping it converts, until the mapping says what it did.
THEOREM HalfIsJournaled == ASSUME A!MergeAssumption PROVE A!Spec => []A!HalfConvertedIsJournaled
<1>1. ConversionInv => A!HalfConvertedIsJournaled
  BY DEF ConversionInv, BackupInv
<1> QED
  BY <1>1, ConversionIsSafe, PTL

\* No DELETE, late ones included, takes a connector or a person's note with it that
\* the call had seen off the circle, unless a person put it there afterwards.
THEOREM NothingIsTorn == ASSUME A!MergeAssumption PROVE A!Spec => []A!NothingTorn
<1>1. ConversionInv => A!NothingTorn
  BY DEF ConversionInv, CircleInv
<1> QED
  BY <1>1, ConversionIsSafe, PTL

\* A mapping that says "merged" is what the board shows, also when requests of
\* interrupted calls arrive after it was written.
THEOREM MergedIsOnTheBoard == ASSUME A!MergeAssumption PROVE A!Spec => []A!MergedIsShown
<1>1. ConversionInv => A!MergedIsShown
  BY DEF ConversionInv, CircleInv, SettledInv, Verified, Settled, A!MergedIsShown, A!All
<1> QED
  BY <1>1, ConversionIsSafe, PTL

-----------------------------------------------------------------------------
(***************************************************************************)
(* One patch of a board item (MiroUpdate), for any fields, any number of    *)
(* attempts, of people's edits and of limits: that it is sent again only     *)
(* where nobody has written, that a change of the structure is sent once,     *)
(* and that what it returned was shown.                                       *)
(***************************************************************************)
CONSTANTS Fields, Attempts, MaxLimits

VARIABLES item, moved, structural, at, attempt, answer, read, writes, limits, fresh, clobbered

U == INSTANCE MiroUpdate WITH pc <- at, seen <- read, edits <- writes

Points == {"idle", "send", "sent", "verify", "judge", "wait", "returned", "stopped"}

\* The types; the patch is sent once before anything is judged; and a field is only
\* written by a person if a person writes.
PatchTypes ==
  /\ item \in [Fields -> {"before", "after", "manual"}]
  /\ read \in [fields : [Fields -> {"before", "after", "manual"}], moved : BOOLEAN]
  /\ attempt \in 0..(Attempts - 1) /\ structural \in BOOLEAN /\ moved \in BOOLEAN
  /\ at \in Points /\ fresh \subseteq Fields /\ writes \in Nat
  /\ at = "idle" => attempt = 0
  /\ \A f \in Fields : item[f] = "manual" => writes > 0
\* What was read is what the item shows, but for what a person wrote since.
ReadInv ==
  at \in {"judge", "wait"} => \A f \in Fields : item[f] = IF f \in fresh THEN "manual" ELSE read.fields[f]
\* What is sent again was seen unchanged, with attempts left, and moves nothing else.
AgainInv ==
  /\ at = "wait" => (\A f \in Fields : read.fields[f] = "before") /\ ~structural /\ U!AttemptsLeft
  /\ attempt > 0 => ~structural
  /\ attempt > 0 /\ (at = "send" \/ (at = "sent" /\ answer = "none")) =>
       \A f \in Fields \ fresh : item[f] = "before"
\* What Miro acknowledged is shown.
ShownInv == at = "sent" /\ answer = "ok" => \A f \in Fields : item[f] \in {"after", "manual"}
PatchInv == PatchTypes /\ ReadInv /\ AgainInv /\ ShownInv /\ U!EditsSurviveReplay

LEMMA PatchInit == ASSUME U!MiroUpdateAssumption, U!Init PROVE PatchInv
<1>1. Attempts - 1 \in Nat
  BY DEF U!MiroUpdateAssumption
<1>2. item \in [Fields -> {"before", "after", "manual"}] /\ \A f \in Fields : item[f] = "before"
  BY DEF U!Init
<1>3. read \in [fields : [Fields -> {"before", "after", "manual"}], moved : BOOLEAN]
  BY <1>2 DEF U!Init
<1>4. PatchTypes
  <2>1. /\ moved = FALSE /\ structural = FALSE /\ at = "idle" /\ attempt = 0
        /\ writes = 0 /\ fresh = {}
    BY DEF U!Init
  <2>2. attempt \in 0..(Attempts - 1)
    BY <1>1, <2>1
  <2> QED
    BY <1>2, <1>3, <2>1, <2>2 DEF PatchTypes, Points
<1> QED
  BY <1>4 DEF U!Init, PatchInv, ReadInv, AgainInv, ShownInv, U!EditsSurviveReplay

LEMMA PatchStep ==
  ASSUME U!MiroUpdateAssumption, PatchInv, [U!Next]_(U!vars)
  PROVE  PatchInv'
<1> USE DEF PatchInv, PatchTypes, ReadInv, AgainInv, ShownInv, U!EditsSurviveReplay, Points
<1>1. Attempts - 1 \in Nat
  BY DEF U!MiroUpdateAssumption
<1>2. CASE U!Begin
  BY <1>1, <1>2 DEF U!Begin
<1>3. CASE U!Send
  BY <1>3 DEF U!Send
<1>4. CASE U!RateLimited
  BY <1>4 DEF U!RateLimited
<1>5. CASE U!Execute
  <2>1. PICK applied \in SUBSET Fields, a \in {"ok", "transient", "refused", "lost"} :
          /\ a = "ok" => applied = Fields
          /\ item' = [f \in Fields |-> IF f \in applied THEN "after" ELSE item[f]]
          /\ clobbered' = (clobbered \/ (attempt > 0 /\ \E f \in applied \ fresh : item[f] = "manual"))
          /\ answer' = a
    BY <1>5 DEF U!Execute
  <2>2. at = "sent" /\ answer = "none" /\ UNCHANGED <<moved, structural, at, attempt, read, writes, fresh>>
    BY <1>5 DEF U!Execute
  <2>3. ~(attempt > 0 /\ \E f \in applied \ fresh : item[f] = "manual")
    BY <2>1, <2>2
  <2> QED
    BY <2>1, <2>2, <2>3
<1>6. CASE U!Answered
  BY <1>6 DEF U!Answered
<1>7. CASE U!Verify
  BY <1>7 DEF U!Verify
<1>8. CASE U!Judge
  BY <1>8 DEF U!Judge, U!Observable, U!Unchanged, U!AttemptsLeft
<1>9. CASE U!Retry
  BY <1>1, <1>9 DEF U!Retry, U!AttemptsLeft
<1>10. CASE U!Edit
  <2>1. writes' = writes + 1 /\ UNCHANGED <<structural, at, attempt, answer, read, clobbered>>
    BY <1>10 DEF U!Edit
  <2>2. CASE moved' = TRUE /\ UNCHANGED <<item, fresh>>
    BY <2>1, <2>2 DEF U!AttemptsLeft
  <2>3. ASSUME NEW f \in Fields, item' = [item EXCEPT ![f] = "manual"], fresh' = fresh \cup {f}, moved' = moved
        PROVE  PatchInv'
    <3>1. item' \in [Fields -> {"before", "after", "manual"}] /\ fresh' \subseteq Fields /\ writes' \in Nat
      BY <2>1, <2>3
    <3>2. \A g \in Fields : item'[g] = IF g = f THEN "manual" ELSE item[g]
      BY <2>3
    <3>3. writes' > 0
      BY <2>1
    <3>4. PatchTypes'
      BY <2>1, <2>3, <3>1, <3>3
    <3>5. ReadInv' /\ ShownInv'
      BY <2>1, <2>3, <3>2
    <3>6. AgainInv'
      BY <2>1, <2>3, <3>2 DEF U!AttemptsLeft
    <3> QED
      BY <2>1, <3>4, <3>5, <3>6
  <2> QED
    BY <1>10, <2>2, <2>3 DEF U!Edit
<1>11. CASE UNCHANGED U!vars
  BY <1>11 DEF U!vars, U!AttemptsLeft
<1> QED
  BY <1>2, <1>3, <1>4, <1>5, <1>6, <1>7, <1>8, <1>9, <1>10, <1>11 DEF U!Next, U!Patch

LEMMA ReturnIsShown ==
  ASSUME PatchInv, [U!Next]_(U!vars), at # "returned", at' = "returned", NEW f \in Fields
  PROVE  item[f] = "after" \/ (item[f] = "manual" /\ writes > 0)
<1> USE DEF PatchInv, PatchTypes, ReadInv, ShownInv
<1>1. CASE U!Answered
  BY <1>1 DEF U!Answered
<1>2. CASE U!Judge
  BY <1>2 DEF U!Judge, U!Matches
<1>3. CASE U!Begin \/ U!Send \/ U!RateLimited \/ U!Execute \/ U!Verify \/ U!Retry \/ U!Edit \/ UNCHANGED U!vars
  BY <1>3 DEF U!Begin, U!Send, U!RateLimited, U!Execute, U!Verify, U!Retry, U!Edit, U!vars
<1> QED
  BY <1>1, <1>2, <1>3 DEF U!Next, U!Patch

\* Every state of patch_item satisfies the invariant.
THEOREM PatchIsSafe == ASSUME U!MiroUpdateAssumption PROVE U!Spec => []PatchInv
<1>1. U!Init => PatchInv
  BY PatchInit
<1>2. PatchInv /\ [U!Next]_(U!vars) => PatchInv'
  BY PatchStep
<1> QED
  BY <1>1, <1>2, PTL DEF U!Spec

\* A replay of a PATCH whose answer was lost overwrites nothing a person wrote before
\* the read that allowed it, and never a patch that moves other items.
THEOREM ReplaysAreSafe == ASSUME U!MiroUpdateAssumption PROVE U!Spec => [](U!EditsSurviveReplay /\ U!StructuralOnce)
<1>1. PatchInv => U!EditsSurviveReplay /\ U!StructuralOnce
  BY DEF PatchInv, PatchTypes, AgainInv, U!StructuralOnce
<1> QED
  BY <1>1, PatchIsSafe, PTL

\* patch_item returns only for an item that shows the whole patch, but for what a
\* person wrote.
THEOREM ReturnedShown == ASSUME U!MiroUpdateAssumption PROVE U!Spec => U!ReturnedIsShown
<1>1. PatchInv /\ [U!Next]_(U!vars) =>
        [at # "returned" /\ at' = "returned"
           => \A f \in Fields : item[f] = "after" \/ (item[f] = "manual" /\ writes > 0)]_(U!vars)
  BY ReturnIsShown
<1> QED
  BY <1>1, PatchIsSafe, PTL DEF U!Spec, U!ReturnedIsShown

-----------------------------------------------------------------------------
(***************************************************************************)
(* The frames of a board and the recovery of a creation that was lost        *)
(* (FrameSync), for any graphs, items, places, faults and people's edits:     *)
(* that a frame takes nothing with it that was seen outside, that no activity *)
(* gets a second one on its own, and that what is adopted was seen.           *)
(***************************************************************************)
CONSTANTS Plan, Starting, Note, Places, Layout, MaxObjects

VARIABLES graph, framed, uncertain, deleting, framing, frame, parent, place, stage, beheld, fits, detach,
          post, afloat, session, report, recent, hurt, decided, mishaps, strokes

F == INSTANCE FrameSync WITH mapped <- framed, pending <- uncertain, active <- framing, pc <- stage,
                             seen <- beheld, flight <- post, late <- afloat, faults <- mishaps,
                             edits <- strokes

Looks == [title : F!Shapes \cup {None}, bounds : SUBSET Places, by : F!Shapes \cup {None}]
Intents == [key : F!Shapes, bounds : SUBSET Places]
FrameSteps == {"idle", "read", "children", "detach", "move", "create", "post", "remove", "delete", "deleted"}
Acting == {"read", "children", "detach", "move", "create", "remove", "delete", "deleted"}

\* The types, and what the places that were read make of the bounds of a frame.
FrameTypes ==
  /\ graph \in {0} \cup F!Plans /\ framing \in {0} \cup F!Plans
  /\ framed \in [F!Shapes -> F!Ids \cup {None}] /\ parent \in [F!Items -> F!Ids \cup {None}]
  /\ place \in [F!Items -> Places] /\ frame \in [F!Ids -> Looks \cup {None}]
  /\ deleting \in [F!Shapes -> {None, "planned", "attempted"}]
  /\ uncertain \in Intents \cup {None} /\ stage \in FrameSteps
  /\ session.pc \in {"idle", "inventory", "read", "commit"} /\ session.choice \in F!Ids \cup {None, F!Absent}
  /\ DOMAIN session = {"pc", "choice", "inventory"} /\ decided \subseteq F!Shapes
  /\ \A r \in afloat : (r.id = None /\ r.key \in F!Shapes /\ r.bounds \subseteq Places) \/ r.id \in F!Ids
  /\ stage # "idle" => graph # 0
  /\ stage \notin {"idle", "read"} => beheld.place \in [F!Items -> Places]
  /\ stage \in {"children", "detach", "move"} => F!SeenLive \subseteq F!Mapped
  /\ stage \in {"detach", "move"} => DOMAIN fits \subseteq F!Mapped /\ \A k \in DOMAIN fits : fits[k] \subseteq Places

\* An action and a recovery exclude each other; and what each of them is at.
Untouched(id) == \A k \in F!Shapes : framed[k] # id
WorkInv ==
  /\ stage = "idle" \/ session.pc = "idle"
  /\ stage \in Acting => uncertain = None
  /\ session.pc # "idle" => uncertain # None
  /\ uncertain # None => framed[uncertain.key] = None
  /\ stage = "post" =>
       /\ post.key \in F!Shapes \cap F!Wanted(graph) /\ post.bounds \subseteq Places /\ framed[post.key] = None
       /\ uncertain # None /\ uncertain.key = post.key
       /\ post.id \in F!Ids \cup {None} /\ (post.id # None => Untouched(post.id))
  /\ stage \in {"delete", "deleted"} =>
       post.key \in F!Shapes /\ post.id \in F!Ids /\ framed[post.key] = post.id
  /\ stage = "deleted" => ~F!Live(post.id)
  /\ session.pc = "commit" /\ session.choice # F!Absent =>
       /\ session.choice \in F!Ids /\ Untouched(session.choice)
       /\ session.choice \in DOMAIN report.records
       /\ report.records[session.choice] = [title |-> uncertain.key, bounds |-> uncertain.bounds]

\* No other frame than the one just made, and no other creation that may arrive,
\* is one of an activity whose creation is not decided.
TwinInv ==
  /\ \A id \in F!Unmapped : frame[id].by # None =>
       \/ frame[id].by \in decided
       \/ uncertain # None /\ uncertain.key = frame[id].by /\ (stage = "post" => id = post.id)
  /\ \A r \in afloat : r.id = None =>
       \/ r.key \in decided
       \/ uncertain # None /\ uncertain.key = r.key /\ stage # "post"

\* What is in a frame that is about to move or go was attached after the last look.
Late(id) == \A i \in F!Items : parent[i] = id => <<i, id>> \in recent
ContentInv ==
  /\ \A i \in F!Items : parent[i] # None => F!Live(parent[i])
  /\ stage = "move" => \A k \in DOMAIN fits : Late(framed[k])
  /\ stage = "delete" => Late(post.id)
  /\ \A r \in afloat : r.id # None => Late(r.id)
  /\ stage \notin {"idle", "read"} =>
       \A k \in F!Mapped \ F!Wanted(graph) : k \notin F!SeenLive => ~F!Live(framed[k])
  /\ F!ContentsStay

FrameInv == FrameTypes /\ WorkInv /\ F!OwnFrames /\ TwinInv /\ ContentInv

LEMMA Nones ==
  ASSUME F!FrameAssumption
  PROVE  /\ None \notin F!Ids /\ None \notin Looks /\ None \notin Intents /\ None # 0 /\ F!Ids \subseteq Nat
         /\ F!Absent \notin F!Ids /\ F!Absent # None /\ 0 \notin F!Plans /\ F!Shapes \subseteq F!Items
         /\ F!Shapes \subseteq Nat
BY DEF F!FrameAssumption, F!Ids, Looks, Intents, F!Absent, F!Items

\* A frame fits around places.
LEMMA FitBounds ==
  ASSUME F!FrameAssumption, graph \in F!Plans, beheld.place \in [F!Items -> Places], NEW k \in F!Wanted(graph)
  PROVE  F!Fit(k) \subseteq Places
<1> DEFINE chosen == CHOOSE a \in F!activity_frames(graph) : F!Anchor(a) = k
<1>1. \E a \in F!activity_frames(graph) : F!Anchor(a) = k
  BY DEF F!Wanted
<1>2. chosen \in F!activity_frames(graph)
  BY <1>1
<1>3. \A a \in F!activity_frames(graph) : a \subseteq F!Items
  BY DEF F!activity_frames, F!Activity, F!Items, F!Shapes
<1>4. F!Fit(k) = {beheld.place[s] : s \in chosen}
  BY DEF F!Fit, F!frame_bodies
<1> QED
  BY <1>2, <1>3, <1>4

\* An object that Miro makes is new to everyone.
LEMMA NewObject ==
  ASSUME F!Free # {}
  PROVE  F!Unused \in F!Ids /\ ~F!Live(F!Unused) /\ (\A k \in F!Mapped : framed[k] # F!Unused)
         /\ \A r \in afloat : r.id # F!Unused
BY DEF F!Free, F!Unused

\* A review refuses, reports, or lets a choice pass that fits what was reported.
LEMMA ReviewCases ==
  ASSUME F!_review
  PROVE  /\ session.pc = "read"
         /\ \/ session' = F!NoSession
            \/ /\ session' = [session EXCEPT !.pc = "commit"] /\ report' = report
               /\ session.choice # None /\ report = F!Digest([id \in F!ToRead |-> frame[id]])
               /\ session.choice # F!Absent => session.choice \in F!Candidates([id \in F!ToRead |-> frame[id]])
         /\ UNCHANGED <<graph, F!journal, F!miro, F!action, afloat, F!history, F!counts>>
<1>1. CASE \E id \in F!ToRead : ~F!Live(id)
  BY <1>1 DEF F!_review
<1>2. CASE ~(\E id \in F!ToRead : ~F!Live(id))
  <2> DEFINE records == [id \in F!ToRead |-> frame[id]]
  <2>1. CASE session.choice = None
    BY <1>2, <2>1 DEF F!_review
  <2>2. CASE /\ session.choice # None /\ report = F!Digest(records)
             /\ session.choice = F!Absent => F!Potential(records) = {}
             /\ session.choice # F!Absent => session.choice \in F!Candidates(records)
    BY <1>2, <2>2 DEF F!_review
  <2>3. CASE /\ session.choice # None
             /\ ~(/\ report = F!Digest(records)
                  /\ session.choice = F!Absent => F!Potential(records) = {}
                  /\ session.choice # F!Absent => session.choice \in F!Candidates(records))
    BY <1>2, <2>3 DEF F!_review
  <2> QED
    BY <2>1, <2>2, <2>3
<1> QED
  BY <1>1, <1>2

\* A frame that a person edits, or that is copied.
LEMMA LookKept ==
  ASSUME FrameTypes, NEW id \in F!Ids, F!Live(id), NEW b \in SUBSET Places
  PROVE  /\ frame[id] \in Looks /\ [frame EXCEPT ![id].title = None] \in [F!Ids -> Looks \cup {None}]
         /\ [frame EXCEPT ![id].bounds = b] \in [F!Ids -> Looks \cup {None}]
         /\ [frame[id] EXCEPT !.by = None] \in Looks
<1>1. frame[id] \in Looks
  BY DEF FrameTypes, F!Live
<1>2. /\ [frame[id] EXCEPT !.title = None] \in Looks /\ [frame[id] EXCEPT !.bounds = b] \in Looks
      /\ [frame[id] EXCEPT !.by = None] \in Looks
  BY <1>1 DEF Looks
<1> QED
  BY <1>1, <1>2 DEF FrameTypes

\* An edit of a person only takes frames away, or changes how they look.
LEMMA EditCases ==
  ASSUME F!FrameAssumption, FrameTypes, NEW id \in F!Ids, F!EditFrame(id)
  PROVE  /\ \A f \in F!Ids : frame'[f] # None => frame[f] # None /\ frame'[f].by = frame[f].by
         /\ \A f \in F!Ids : frame'[f] = None /\ frame[f] # None => F!Children(f) = {}
         /\ UNCHANGED <<graph, F!journal, parent, place, F!action, afloat, F!recovery, F!history, mishaps>>
<1>1. frame[id] \in Looks /\ frame \in [F!Ids -> Looks \cup {None}]
  BY DEF F!EditFrame, F!Live, FrameTypes
<1>2. UNCHANGED <<graph, F!journal, parent, place, F!action, afloat, F!recovery, F!history, mishaps>>
  BY DEF F!EditFrame, F!Person, F!history
<1>3. CASE frame' = [frame EXCEPT ![id].bounds = {}]
  <2>1. [frame[id] EXCEPT !.bounds = {}] \in Looks /\ [frame[id] EXCEPT !.bounds = {}].by = frame[id].by
    BY <1>1 DEF Looks
  <2>2. \A f \in F!Ids : frame'[f] = IF f = id THEN [frame[id] EXCEPT !.bounds = {}] ELSE frame[f]
    BY <1>1, <1>3
  <2> QED
    BY <1>1, <1>2, <2>1, <2>2, Nones
<1>4. CASE frame' = [frame EXCEPT ![id].title = None]
  <2>1. [frame[id] EXCEPT !.title = None] \in Looks /\ [frame[id] EXCEPT !.title = None].by = frame[id].by
    BY <1>1 DEF Looks
  <2>2. \A f \in F!Ids : frame'[f] = IF f = id THEN [frame[id] EXCEPT !.title = None] ELSE frame[f]
    BY <1>1, <1>4
  <2> QED
    BY <1>1, <1>2, <2>1, <2>2, Nones
<1>5. CASE frame' = [frame EXCEPT ![id] = None] /\ F!Children(id) = {}
  BY <1>1, <1>2, <1>5
<1> QED
  BY <1>3, <1>4, <1>5 DEF F!EditFrame

\* The program forgets what it knows of frames that nothing is attached to.
LEMMA LatesKept ==
  ASSUME NEW ids, F!SeenEmpty(ids), UNCHANGED parent, \A id \in ids : F!Children(id) = {}, NEW f, Late(f)
  PROVE  Late(f)'
<1>1. CASE f \in ids
  BY <1>1 DEF Late, F!Children
<1>2. CASE f \notin ids
  BY <1>2 DEF Late, F!SeenEmpty
<1> QED
  BY <1>1, <1>2

LEMMA FrameTypesStep ==
  ASSUME F!FrameAssumption, FrameTypes, WorkInv, [F!Next]_(F!vars)
  PROVE  FrameTypes'
<1> USE DEF F!journal, F!miro, F!action, F!recovery, F!history, F!counts, FrameTypes, WorkInv, Looks,
    Intents, FrameSteps, Acting, F!Mapped, F!SeenLive
<1>1. CASE F!SyncGraph
  BY Nones, NewObject, <1>1 DEF F!SyncGraph, F!Ready
<1>2. CASE F!frame_run
  BY Nones, NewObject, <1>2 DEF F!frame_run, F!Ready, F!_check_frame_operation
<1>3. CASE F!preflight
  BY Nones, NewObject, <1>3 DEF F!preflight, F!Raise, F!End, F!Live
<1>4. CASE F!validate_frame_children
  <2>1. graph \in F!Plans /\ beheld.place \in [F!Items -> Places] /\ F!SeenLive \subseteq F!Mapped
    BY <1>4 DEF F!validate_frame_children
  <2>2. F!Moving \subseteq F!Mapped /\ \A k \in F!Moving : F!Fit(k) \subseteq Places
    BY <2>1, <1>4, FitBounds DEF F!Moving, F!validate_frame_children
  <2>3. CASE F!Raise
    BY <2>3 DEF F!Raise, F!End
  <2>4. CASE ~F!Raise
    <3>1. /\ fits' = [k \in F!Moving |-> F!Fit(k)] /\ framing' = graph /\ stage' = "detach"
          /\ deleting' = [k \in F!Shapes |->
                           IF k \in F!_frame_removals /\ deleting[k] = None THEN "planned" ELSE deleting[k]]
          /\ UNCHANGED <<graph, framed, uncertain, F!miro, beheld, post, afloat, F!recovery, F!history, F!counts>>
      BY <2>4, <1>4 DEF F!validate_frame_children
    <3>2. deleting' \in [F!Shapes -> {None, "planned", "attempted"}]
      BY <3>1
    <3>3. DOMAIN fits' \subseteq F!Mapped /\ \A k \in DOMAIN fits' : fits'[k] \subseteq Places
      BY <2>2, <3>1
    <3>4. (stage \notin {"idle", "read"} => beheld.place \in [F!Items -> Places])'
      BY <2>1, <3>1
    <3>5. (stage \in {"children", "detach", "move"} => F!SeenLive \subseteq F!Mapped)'
      BY <2>1, <3>1
    <3>6. F!Mapped' = F!Mapped
      BY <3>1
    <3>7. graph' \in {0} \cup F!Plans /\ framing' \in {0} \cup F!Plans /\ stage' \in FrameSteps
      BY <2>1, <3>1
    <3>8. (stage \in {"detach", "move"} =>
            DOMAIN fits \subseteq F!Mapped /\ \A k \in DOMAIN fits : fits[k] \subseteq Places)'
      BY <3>3, <3>6
    <3>9. /\ UNCHANGED <<framed, parent, place, frame, uncertain, session, decided, afloat>>
          /\ (stage # "idle" => graph # 0)'
      BY <2>1, <3>1, Nones
    <3> QED
      BY <3>2, <3>4, <3>5, <3>7, <3>8, <3>9
  <2> QED
    BY <2>3, <2>4
<1>5. CASE F!check_empty_frames
  BY Nones, NewObject, <1>5 DEF F!check_empty_frames, F!Raise, F!End, F!Empty, F!Children
<1>6. CASE F!Moved
  BY Nones, NewObject, <1>6 DEF F!Moved
<1>7. CASE F!Execute
  BY Nones, NewObject, <1>7 DEF F!Execute, F!Made
<1>8. CASE F!accept
  BY Nones, NewObject, <1>8 DEF F!accept
<1>9. CASE F!Delete
  BY Nones, NewObject, <1>9 DEF F!Delete, F!Remove, F!Carries
<1>10. CASE F!Deleted
  BY Nones, NewObject, <1>10 DEF F!Deleted
<1>11. CASE F!Finish
  BY Nones, NewObject, <1>11 DEF F!Finish, F!End
<1>12. ASSUME NEW k \in F!Shapes, F!Detach(k) PROVE FrameTypes'
  BY Nones, NewObject, <1>12 DEF F!Detach
<1>13. ASSUME NEW k \in F!Shapes, F!Move(k) PROVE FrameTypes'
  <2>1. CASE F!Live(framed[k])
    <3>1. framed[k] \in F!Ids /\ fits[k] \in SUBSET Places
      BY <1>13 DEF F!Move
    <3>2. frame' \in [F!Ids -> Looks \cup {None}]
      <4>1. [frame EXCEPT ![framed[k]].bounds = fits[k]] \in [F!Ids -> Looks \cup {None}]
        BY <2>1, <3>1, LookKept
      <4> QED
        BY <1>13, <2>1, <4>1 DEF F!Move
    <3>3. \E p \in Places : place' = [i \in F!Items |-> IF parent[i] = framed[k] THEN p ELSE place[i]]
      BY <1>13, <2>1 DEF F!Move
    <3>4. place' \in [F!Items -> Places]
      BY <3>3
    <3>5. DOMAIN fits' = DOMAIN fits \ {k} /\ \A l \in DOMAIN fits' : fits'[l] = fits[l]
      BY <1>13, <2>1 DEF F!Move
    <3> QED
      BY <1>13, <2>1, <3>2, <3>4, <3>5 DEF F!Move
  <2>2. CASE ~F!Live(framed[k])
    BY <1>13, <2>2 DEF F!Move, F!Raise, F!End
  <2> QED
    BY <2>1, <2>2
<1>14. ASSUME NEW k \in F!Shapes, F!Create(k) PROVE FrameTypes'
  <2>1. k \in F!Wanted(graph) /\ graph \in F!Plans /\ beheld.place \in [F!Items -> Places]
    BY <1>14 DEF F!Create
  <2>2. F!Fit(k) \subseteq Places
    BY <2>1, FitBounds
  <2>3. uncertain' \in Intents
    BY <1>14, <2>2 DEF F!Create
  <2> QED
    BY <1>14, <2>3 DEF F!Create
<1>15. ASSUME NEW k \in F!Shapes, F!Check(k) PROVE FrameTypes'
  BY Nones, NewObject, <1>15 DEF F!Check, F!Raise, F!End, F!_frame_removals
<1>16. ASSUME NEW choice \in F!Ids \cup {None, F!Absent}, F!recover_miro_frame(choice) PROVE FrameTypes'
  BY Nones, NewObject, <1>16 DEF F!recover_miro_frame, F!_session, F!pending_frame, F!NoSession
<1>17. CASE F!_inventory
  BY Nones, NewObject, <1>17 DEF F!_inventory, F!NoSession
<1>18. CASE F!_review
  <2>1. session' = F!NoSession \/ session' = [session EXCEPT !.pc = "commit"]
    BY <1>18, ReviewCases
  <2>2. /\ session'.pc \in {"idle", "inventory", "read", "commit"} /\ DOMAIN session' = {"pc", "choice", "inventory"}
        /\ session'.choice \in F!Ids \cup {None, F!Absent}
    BY <2>1 DEF F!NoSession
  <2> QED
    BY <1>18, <2>2, ReviewCases
<1>19. CASE F!recover_pending_frame
  BY Nones, NewObject, <1>19 DEF F!recover_pending_frame, F!NoSession
<1>20. CASE F!Rejected
  BY Nones, NewObject, <1>20 DEF F!Rejected, F!End
<1>21. CASE F!Interrupt
  BY Nones, NewObject, <1>21 DEF F!Interrupt, F!End
<1>22. ASSUME NEW request \in afloat, F!Arrive(request) PROVE FrameTypes'
  BY Nones, NewObject, <1>22 DEF F!Arrive, F!Made, F!Remove, F!Carries
<1>23. ASSUME NEW i \in F!Items, F!Attach(i) PROVE FrameTypes'
  BY Nones, NewObject, <1>23 DEF F!Attach, F!Person
<1>24. ASSUME NEW i \in F!Items, F!MoveOut(i) PROVE FrameTypes'
  BY Nones, NewObject, <1>24 DEF F!MoveOut, F!Person
<1>25. ASSUME NEW id \in F!Ids, F!EditFrame(id) PROVE FrameTypes'
  <2>1. [frame EXCEPT ![id].bounds = {}] \in [F!Ids -> Looks \cup {None}]
      /\ [frame EXCEPT ![id].title = None] \in [F!Ids -> Looks \cup {None}]
    BY <1>25, LookKept DEF F!EditFrame
  <2>2. frame' \in [F!Ids -> Looks \cup {None}]
    BY <1>25, <2>1 DEF F!EditFrame
  <2> QED
    BY <1>25, <2>2 DEF F!EditFrame, F!Person
<1>26. ASSUME NEW id \in F!Ids, F!Copy(id) PROVE FrameTypes'
  <2>1. [frame[id] EXCEPT !.by = None] \in Looks
    BY <1>26, LookKept DEF F!Copy
  <2>2. frame' \in [F!Ids -> Looks \cup {None}]
    BY <1>26, <2>1, NewObject DEF F!Copy
  <2> QED
    BY <1>26, <2>2 DEF F!Copy, F!Person
<1>27. CASE UNCHANGED F!vars
  BY <1>27 DEF F!vars
<1> QED
  BY <1>1, <1>2, <1>3, <1>4, <1>5, <1>6, <1>7, <1>8, <1>9, <1>10, <1>11, <1>12, <1>13, <1>14, <1>15,
      <1>16, <1>17, <1>18, <1>19, <1>20, <1>21, <1>22, <1>23, <1>24, <1>25, <1>26, <1>27 DEF F!Next,
      F!Frames, F!Recovers, F!Faults, F!People

LEMMA WorkStep ==
  ASSUME F!FrameAssumption, FrameTypes, WorkInv, FrameTypes', [F!Next]_(F!vars)
  PROVE  WorkInv'
<1> USE DEF F!journal, F!miro, F!action, F!recovery, F!history, F!counts, FrameTypes, WorkInv,
    FrameSteps, Acting, Untouched, F!Live, F!Mapped, Intents
<1>1. CASE F!SyncGraph
  BY Nones, NewObject, <1>1 DEF F!SyncGraph, F!Ready
<1>2. CASE F!frame_run
  BY Nones, NewObject, <1>2 DEF F!frame_run, F!Ready, F!_check_frame_operation
<1>3. CASE F!preflight
  BY Nones, NewObject, <1>3 DEF F!preflight, F!Raise, F!End
<1>4. CASE F!validate_frame_children
  BY Nones, NewObject, <1>4 DEF F!validate_frame_children, F!Raise, F!End, F!SeenLive, F!Moving
<1>5. CASE F!check_empty_frames
  BY Nones, NewObject, <1>5 DEF F!check_empty_frames, F!Raise, F!End, F!Empty, F!Children
<1>6. CASE F!Moved
  BY Nones, NewObject, <1>6 DEF F!Moved
<1>7. CASE F!Execute
  BY Nones, NewObject, <1>7 DEF F!Execute, F!Made
<1>8. CASE F!accept
  BY Nones, NewObject, <1>8 DEF F!accept
<1>9. CASE F!Delete
  BY Nones, NewObject, <1>9 DEF F!Delete, F!Remove, F!Carries
<1>10. CASE F!Deleted
  BY Nones, NewObject, <1>10 DEF F!Deleted
<1>11. CASE F!Finish
  BY Nones, NewObject, <1>11 DEF F!Finish, F!End
<1>12. ASSUME NEW k \in F!Shapes, F!Detach(k) PROVE WorkInv'
  BY Nones, NewObject, <1>12 DEF F!Detach
<1>13. ASSUME NEW k \in F!Shapes, F!Move(k) PROVE WorkInv'
  BY Nones, NewObject, <1>13 DEF F!Move, F!Raise, F!End, F!Carries
<1>14. ASSUME NEW k \in F!Shapes, F!Create(k) PROVE WorkInv'
  <2>1. /\ k \in F!Wanted(graph) /\ framed[k] = None /\ stage = "create" /\ stage' = "post"
        /\ uncertain' = [key |-> k, bounds |-> F!Fit(k)]
        /\ post' = [key |-> k, bounds |-> F!Fit(k), id |-> None]
        /\ UNCHANGED <<graph, framed, F!recovery>>
    BY <1>14 DEF F!Create
  <2>2. /\ uncertain' # None /\ uncertain'.key = k /\ post'.key = k /\ post'.id = None
        /\ post'.bounds \subseteq Places
    <3>1. F!Fit(k) \subseteq Places
      BY <1>14, <2>1, FitBounds
    <3>3. uncertain' \in Intents /\ uncertain' # None
      BY <2>1, <3>1, Nones DEF Intents
    <3>2. uncertain'.key = k /\ post'.bounds = F!Fit(k)
      BY <2>1
    <3> QED
      BY <2>1, <3>1, <3>2, <3>3
  <2>3. session.pc = "idle" /\ session'.pc = "idle"
    BY <2>1
  <2> QED
    BY <2>1, <2>2, <2>3, Nones DEF F!Wanted
<1>15. ASSUME NEW k \in F!Shapes, F!Check(k) PROVE WorkInv'
  BY Nones, NewObject, <1>15 DEF F!Check, F!Raise, F!End, F!_frame_removals
<1>16. ASSUME NEW choice \in F!Ids \cup {None, F!Absent}, F!recover_miro_frame(choice) PROVE WorkInv'
  BY Nones, NewObject, <1>16 DEF F!recover_miro_frame, F!_session, F!pending_frame, F!NoSession
<1>17. CASE F!_inventory
  BY Nones, NewObject, <1>17 DEF F!_inventory, F!NoSession
<1>18. CASE F!_review
  <2> DEFINE records == [id \in F!ToRead |-> frame[id]]
  <2>1. CASE session' = F!NoSession
    BY <1>18, <2>1, ReviewCases DEF F!NoSession
  <2>2. CASE /\ session' = [session EXCEPT !.pc = "commit"] /\ report' = report
             /\ session.choice # None /\ report = F!Digest(records)
             /\ session.choice # F!Absent => session.choice \in F!Candidates(records)
    <3>1. session'.pc \in {"read", "commit"} /\ session'.choice = session.choice
      BY <2>2, <1>18, ReviewCases
    <3>2. ASSUME session.choice # F!Absent
          PROVE  /\ session.choice \in F!Ids /\ Untouched(session.choice)
                 /\ session.choice \in DOMAIN report.records
                 /\ report.records[session.choice] = [title |-> uncertain.key, bounds |-> uncertain.bounds]
      <4>1. session.choice \in F!ToRead /\ records[session.choice].title = uncertain.key
            /\ records[session.choice].bounds = uncertain.bounds
        BY <2>2, <3>2 DEF F!Candidates
      <4>2. report.records = [id \in F!ToRead |-> F!Looks(records[id])]
        BY <2>2 DEF F!Digest
      <4>3. report.records[session.choice] = F!Looks(records[session.choice])
        BY <4>1, <4>2
      <4>4. session.choice \in F!Ids /\ session.choice \in DOMAIN report.records
        BY <2>2, <3>2, <4>1, <4>2
      <4>5. Untouched(session.choice)
        BY <4>1, <4>4, Nones DEF F!ToRead
      <4> QED
        BY <4>1, <4>3, <4>4, <4>5 DEF F!Looks
    <3>3. stage = "idle" /\ UNCHANGED <<stage, graph, framed, uncertain, report, frame, post>>
      BY <2>2, <1>18, ReviewCases
    <3>4. session.pc = "read"
      BY <1>18, ReviewCases
    <3> QED
      BY <3>1, <3>2, <3>3, <3>4
  <2> QED
    BY <1>18, <2>1, <2>2, ReviewCases
<1>19. CASE F!recover_pending_frame
  BY Nones, NewObject, <1>19 DEF F!recover_pending_frame, F!NoSession
<1>20. CASE F!Rejected
  BY Nones, NewObject, <1>20 DEF F!Rejected, F!End
<1>21. CASE F!Interrupt
  BY Nones, NewObject, <1>21 DEF F!Interrupt, F!End
<1>22. ASSUME NEW request \in afloat, F!Arrive(request) PROVE WorkInv'
  BY Nones, NewObject, <1>22 DEF F!Arrive, F!Made, F!Remove, F!Carries
<1>23. ASSUME NEW i \in F!Items, F!Attach(i) PROVE WorkInv'
  BY Nones, NewObject, <1>23 DEF F!Attach, F!Person
<1>24. ASSUME NEW i \in F!Items, F!MoveOut(i) PROVE WorkInv'
  BY Nones, NewObject, <1>24 DEF F!MoveOut, F!Person
<1>25. ASSUME NEW id \in F!Ids, F!EditFrame(id) PROVE WorkInv'
  BY Nones, NewObject, <1>25 DEF F!EditFrame, F!Person
<1>26. ASSUME NEW id \in F!Ids, F!Copy(id) PROVE WorkInv'
  BY Nones, NewObject, <1>26 DEF F!Copy, F!Person
<1>27. CASE UNCHANGED F!vars
  BY <1>27 DEF F!vars
<1> QED
  BY <1>1, <1>2, <1>3, <1>4, <1>5, <1>6, <1>7, <1>8, <1>9, <1>10, <1>11, <1>12, <1>13, <1>14, <1>15,
      <1>16, <1>17, <1>18, <1>19, <1>20, <1>21, <1>22, <1>23, <1>24, <1>25, <1>26, <1>27 DEF F!Next,
      F!Frames, F!Recovers, F!Faults, F!People

LEMMA OwnFramesStep ==
  ASSUME F!FrameAssumption, FrameTypes, WorkInv, F!OwnFrames, [F!Next]_(F!vars)
  PROVE  F!OwnFrames'
<1> USE DEF F!journal, F!miro, F!action, F!recovery, F!history, F!counts, FrameTypes, F!OwnFrames,
    F!Mapped, WorkInv, Untouched
<1>1. CASE F!SyncGraph
  BY Nones, <1>1 DEF F!SyncGraph, F!Ready
<1>2. CASE F!frame_run
  BY Nones, <1>2 DEF F!frame_run, F!Ready, F!_check_frame_operation
<1>3. CASE F!preflight
  BY Nones, <1>3 DEF F!preflight, F!Raise, F!End, F!Live
<1>4. CASE F!validate_frame_children
  BY Nones, <1>4 DEF F!validate_frame_children, F!Raise, F!End, F!SeenLive, F!Moving
<1>5. CASE F!check_empty_frames
  BY Nones, <1>5 DEF F!check_empty_frames, F!Raise, F!End, F!Empty, F!Children
<1>6. CASE F!Moved
  BY Nones, <1>6 DEF F!Moved
<1>7. CASE F!Execute
  BY Nones, <1>7 DEF F!Execute, F!Made
<1>8. CASE F!accept
  BY Nones, <1>8 DEF F!accept
<1>9. CASE F!Delete
  BY Nones, <1>9 DEF F!Delete, F!Remove, F!Carries
<1>10. CASE F!Deleted
  BY Nones, <1>10 DEF F!Deleted
<1>11. CASE F!Finish
  BY Nones, <1>11 DEF F!Finish, F!End
<1>12. ASSUME NEW k \in F!Shapes, F!Detach(k) PROVE F!OwnFrames'
  BY Nones, <1>12 DEF F!Detach
<1>13. ASSUME NEW k \in F!Shapes, F!Move(k) PROVE F!OwnFrames'
  BY Nones, <1>13 DEF F!Move, F!Raise, F!End, F!Carries
<1>14. ASSUME NEW k \in F!Shapes, F!Create(k) PROVE F!OwnFrames'
  BY Nones, <1>14 DEF F!Create
<1>15. ASSUME NEW k \in F!Shapes, F!Check(k) PROVE F!OwnFrames'
  BY Nones, <1>15 DEF F!Check, F!Raise, F!End, F!_frame_removals
<1>16. ASSUME NEW choice \in F!Ids \cup {None, F!Absent}, F!recover_miro_frame(choice) PROVE F!OwnFrames'
  BY Nones, <1>16 DEF F!recover_miro_frame, F!_session, F!pending_frame, F!NoSession
<1>17. CASE F!_inventory
  BY Nones, <1>17 DEF F!_inventory, F!NoSession
<1>18. CASE F!_review
  BY Nones, <1>18 DEF F!_review, F!NoSession
<1>19. CASE F!recover_pending_frame
  BY Nones, <1>19 DEF F!recover_pending_frame, F!NoSession
<1>20. CASE F!Rejected
  BY Nones, <1>20 DEF F!Rejected, F!End
<1>21. CASE F!Interrupt
  BY Nones, <1>21 DEF F!Interrupt, F!End
<1>22. ASSUME NEW request \in afloat, F!Arrive(request) PROVE F!OwnFrames'
  BY Nones, <1>22 DEF F!Arrive, F!Made, F!Remove, F!Carries
<1>23. ASSUME NEW i \in F!Items, F!Attach(i) PROVE F!OwnFrames'
  BY Nones, <1>23 DEF F!Attach, F!Person
<1>24. ASSUME NEW i \in F!Items, F!MoveOut(i) PROVE F!OwnFrames'
  BY Nones, <1>24 DEF F!MoveOut, F!Person
<1>25. ASSUME NEW id \in F!Ids, F!EditFrame(id) PROVE F!OwnFrames'
  BY Nones, <1>25 DEF F!EditFrame, F!Person
<1>26. ASSUME NEW id \in F!Ids, F!Copy(id) PROVE F!OwnFrames'
  BY Nones, <1>26 DEF F!Copy, F!Person
<1>27. CASE UNCHANGED F!vars
  BY <1>27 DEF F!vars
<1> QED
  BY <1>1, <1>2, <1>3, <1>4, <1>5, <1>6, <1>7, <1>8, <1>9, <1>10, <1>11, <1>12, <1>13, <1>14, <1>15,
      <1>16, <1>17, <1>18, <1>19, <1>20, <1>21, <1>22, <1>23, <1>24, <1>25, <1>26, <1>27 DEF F!Next,
      F!Frames, F!Recovers, F!Faults, F!People

LEMMA TwinStep ==
  ASSUME F!FrameAssumption, FrameTypes, WorkInv, TwinInv, WorkInv', [F!Next]_(F!vars)
  PROVE  TwinInv'
<1> USE DEF F!journal, F!miro, F!action, F!recovery, F!history, F!counts, TwinInv, F!Unmapped, F!Live,
    F!Mapped, WorkInv, FrameTypes, Acting, FrameSteps
<1>1. CASE F!SyncGraph
  BY Nones, NewObject, <1>1 DEF F!SyncGraph, F!Ready
<1>2. CASE F!frame_run
  BY Nones, NewObject, <1>2 DEF F!frame_run, F!Ready, F!_check_frame_operation
<1>3. CASE F!preflight
  BY Nones, NewObject, <1>3 DEF F!preflight, F!Raise, F!End
<1>4. CASE F!validate_frame_children
  BY Nones, NewObject, <1>4 DEF F!validate_frame_children, F!Raise, F!End, F!SeenLive, F!Moving
<1>5. CASE F!check_empty_frames
  BY Nones, NewObject, <1>5 DEF F!check_empty_frames, F!Raise, F!End, F!Empty, F!Children
<1>6. CASE F!Moved
  BY Nones, NewObject, <1>6 DEF F!Moved
<1>7. CASE F!Execute
  BY Nones, NewObject, <1>7 DEF F!Execute, F!Made
<1>8. CASE F!accept
  BY Nones, NewObject, <1>8 DEF F!accept
<1>9. CASE F!Delete
  BY Nones, NewObject, <1>9 DEF F!Delete, F!Remove, F!Carries
<1>10. CASE F!Deleted
  BY Nones, NewObject, <1>10 DEF F!Deleted
<1>11. CASE F!Finish
  BY Nones, NewObject, <1>11 DEF F!Finish, F!End
<1>12. ASSUME NEW k \in F!Shapes, F!Detach(k) PROVE TwinInv'
  BY Nones, NewObject, <1>12 DEF F!Detach
<1>13. ASSUME NEW k \in F!Shapes, F!Move(k) PROVE TwinInv'
  BY Nones, NewObject, <1>13 DEF F!Move, F!Raise, F!End, F!Carries
<1>14. ASSUME NEW k \in F!Shapes, F!Create(k) PROVE TwinInv'
  BY Nones, NewObject, <1>14 DEF F!Create
<1>15. ASSUME NEW k \in F!Shapes, F!Check(k) PROVE TwinInv'
  BY Nones, NewObject, <1>15 DEF F!Check, F!Raise, F!End, F!_frame_removals
<1>16. ASSUME NEW choice \in F!Ids \cup {None, F!Absent}, F!recover_miro_frame(choice) PROVE TwinInv'
  BY Nones, NewObject, <1>16 DEF F!recover_miro_frame, F!_session, F!pending_frame, F!NoSession
<1>17. CASE F!_inventory
  BY Nones, NewObject, <1>17 DEF F!_inventory, F!NoSession
<1>18. CASE F!_review
  BY Nones, NewObject, <1>18 DEF F!_review, F!NoSession
<1>19. CASE F!recover_pending_frame
  BY Nones, NewObject, <1>19 DEF F!recover_pending_frame, F!NoSession
<1>20. CASE F!Rejected
  BY Nones, NewObject, <1>20 DEF F!Rejected, F!End
<1>21. CASE F!Interrupt
  BY Nones, NewObject, <1>21 DEF F!Interrupt, F!End
<1>22. ASSUME NEW request \in afloat, F!Arrive(request) PROVE TwinInv'
  BY Nones, NewObject, <1>22 DEF F!Arrive, F!Made, F!Remove, F!Carries
<1>23. ASSUME NEW i \in F!Items, F!Attach(i) PROVE TwinInv'
  BY Nones, NewObject, <1>23 DEF F!Attach, F!Person
<1>24. ASSUME NEW i \in F!Items, F!MoveOut(i) PROVE TwinInv'
  BY Nones, NewObject, <1>24 DEF F!MoveOut, F!Person
<1>25. ASSUME NEW id \in F!Ids, F!EditFrame(id) PROVE TwinInv'
  <2>1. \A f \in F!Unmapped' : f \in F!Unmapped /\ frame'[f].by = frame[f].by
    BY <1>25, EditCases DEF F!Unmapped
  <2> QED
    BY <1>25, <2>1, EditCases
<1>26. ASSUME NEW id \in F!Ids, F!Copy(id) PROVE TwinInv'
  BY Nones, NewObject, <1>26 DEF F!Copy, F!Person
<1>27. CASE UNCHANGED F!vars
  BY <1>27 DEF F!vars
<1> QED
  BY <1>1, <1>2, <1>3, <1>4, <1>5, <1>6, <1>7, <1>8, <1>9, <1>10, <1>11, <1>12, <1>13, <1>14, <1>15,
      <1>16, <1>17, <1>18, <1>19, <1>20, <1>21, <1>22, <1>23, <1>24, <1>25, <1>26, <1>27 DEF F!Next,
      F!Frames, F!Recovers, F!Faults, F!People

LEMMA ContentStep ==
  ASSUME F!FrameAssumption, FrameTypes, WorkInv, ContentInv, FrameTypes', [F!Next]_(F!vars)
  PROVE  ContentInv'
<1> USE DEF F!journal, F!miro, F!action, F!recovery, F!history, F!counts, ContentInv, F!ContentsStay,
    Late, F!Live, F!Mapped, F!SeenLive, WorkInv, FrameTypes, F!Children
<1>1. CASE F!SyncGraph
  BY Nones, NewObject, <1>1 DEF F!SyncGraph, F!Ready
<1>2. CASE F!frame_run
  BY Nones, NewObject, <1>2 DEF F!frame_run, F!Ready, F!_check_frame_operation
<1>3. CASE F!preflight
  BY Nones, NewObject, <1>3 DEF F!preflight, F!Raise, F!End
<1>4. CASE F!validate_frame_children
  BY Nones, NewObject, <1>4 DEF F!validate_frame_children, F!Raise, F!End, F!Moving
<1>5. CASE F!check_empty_frames
  <2>1. CASE F!Raise
    BY <2>1 DEF F!Raise, F!End
  <2>2. CASE ~F!Raise
    <3>1. /\ \A k \in DOMAIN fits : F!Children(framed[k]) = {}
          /\ stage = "detach" /\ stage' = "move" /\ F!SeenEmpty({framed[k] : k \in DOMAIN fits})
          /\ UNCHANGED <<graph, F!journal, F!miro, beheld, fits, post, afloat, hurt>>
      BY <2>2, <1>5 DEF F!check_empty_frames, F!Empty
    <3>2. \A f : Late(f) => Late(f)'
      <4> DEFINE empty == {framed[k] : k \in DOMAIN fits}
      <4>1. F!SeenEmpty(empty) /\ UNCHANGED parent /\ \A e \in empty : F!Children(e) = {}
        BY <3>1
      <4> HIDE DEF empty, Late, F!Children
      <4> QED
        BY <4>1, LatesKept
    <3>3. \A k \in DOMAIN fits : Late(framed[k])
      BY <3>1
    <3>4. (stage = "move" => \A k \in DOMAIN fits : Late(framed[k]))'
      <4> HIDE DEF Late
      <4> QED
        BY <3>1, <3>2, <3>3
    <3>5. (\A r \in afloat : r.id # None => Late(r.id))'
      <4>1. \A r \in afloat : r.id # None => Late(r.id)
        OBVIOUS
      <4> HIDE DEF Late
      <4> QED
        BY <3>1, <3>2, <4>1
    <3> HIDE DEF Late
    <3> QED
      BY <3>1, <3>4, <3>5
  <2> QED
    BY <2>1, <2>2
<1>6. CASE F!Moved
  BY Nones, NewObject, <1>6 DEF F!Moved
<1>7. CASE F!Execute
  BY Nones, NewObject, <1>7 DEF F!Execute, F!Made
<1>8. CASE F!accept
  BY Nones, NewObject, <1>8 DEF F!accept
<1>9. CASE F!Delete
  BY Nones, NewObject, <1>9 DEF F!Delete, F!Remove, F!Carries
<1>10. CASE F!Deleted
  BY Nones, NewObject, <1>10 DEF F!Deleted
<1>11. CASE F!Finish
  BY Nones, NewObject, <1>11 DEF F!Finish, F!End
<1>12. ASSUME NEW k \in F!Shapes, F!Detach(k) PROVE ContentInv'
  BY Nones, NewObject, <1>12 DEF F!Detach
<1>13. ASSUME NEW k \in F!Shapes, F!Move(k) PROVE ContentInv'
  <2>1. CASE F!Live(framed[k])
    <3>1. /\ Late(framed[k]) /\ stage = "move" /\ k \in DOMAIN fits
          /\ frame' = [frame EXCEPT ![framed[k]].bounds = fits[k]] /\ F!Carries(framed[k])
          /\ fits' = [l \in DOMAIN fits \ {k} |-> fits[l]]
          /\ UNCHANGED <<graph, F!journal, parent, stage, beheld, post, afloat, recent>>
      BY <1>13, <2>1 DEF F!Move
    <3>2. hurt' = hurt
      BY <3>1 DEF F!Carries
    <3>3. \A f \in F!Ids : frame'[f] # None <=> frame[f] # None
      <4>1. framed[k] \in F!Ids /\ frame[framed[k]] \in Looks /\ fits[k] \in SUBSET Places
        BY <2>1, <3>1
      <4>2. [frame[framed[k]] EXCEPT !.bounds = fits[k]] \in Looks
        BY <4>1 DEF Looks
      <4> QED
        BY <3>1, <4>1, <4>2, Nones
    <3>4. DOMAIN fits' \subseteq DOMAIN fits
      BY <3>1
    <3> QED
      BY <3>1, <3>2, <3>3, <3>4
  <2>2. CASE ~F!Live(framed[k])
    BY <1>13, <2>2 DEF F!Move, F!Raise, F!End
  <2> QED
    BY <2>1, <2>2
<1>14. ASSUME NEW k \in F!Shapes, F!Create(k) PROVE ContentInv'
  BY Nones, NewObject, <1>14 DEF F!Create
<1>15. ASSUME NEW k \in F!Shapes, F!Check(k) PROVE ContentInv'
  <2>1. CASE F!Raise
    BY <2>1 DEF F!Raise, F!End
  <2>2. CASE ~F!Raise
    <3>1. /\ stage = "create" /\ stage' = "delete" /\ k \in F!Mapped \ F!Wanted(graph)
          /\ k \in F!SeenLive => F!Children(framed[k]) = {}
          /\ F!SeenEmpty({framed[k]}) /\ post' = [key |-> k, bounds |-> {}, id |-> framed[k]]
          /\ UNCHANGED <<graph, framed, F!miro, beheld, fits, afloat, hurt>>
      BY <2>2, <1>15 DEF F!Check, F!Empty, F!_frame_removals
    <3>2. F!Children(framed[k]) = {}
      BY <3>1
    <3>3. \A f : Late(f) => Late(f)'
      <4>1. F!SeenEmpty({framed[k]}) /\ UNCHANGED parent /\ \A e \in {framed[k]} : F!Children(e) = {}
        BY <3>1, <3>2
      <4> HIDE DEF Late, F!Children
      <4> QED
        BY <4>1, LatesKept
    <3>4. post'.id = framed[k] /\ Late(framed[k])
      BY <3>1, <3>2
    <3>5. (\A r \in afloat : r.id # None => Late(r.id))'
      <4>1. \A r \in afloat : r.id # None => Late(r.id)
        OBVIOUS
      <4> HIDE DEF Late
      <4> QED
        BY <3>1, <3>3, <4>1
    <3>6. (stage = "delete" => Late(post.id))'
      <4> HIDE DEF Late
      <4> QED
        BY <3>1, <3>3, <3>4
    <3> HIDE DEF Late
    <3> QED
      BY <3>1, <3>5, <3>6
  <2> QED
    BY <2>1, <2>2
<1>16. ASSUME NEW choice \in F!Ids \cup {None, F!Absent}, F!recover_miro_frame(choice) PROVE ContentInv'
  BY Nones, NewObject, <1>16 DEF F!recover_miro_frame, F!_session, F!pending_frame, F!NoSession
<1>17. CASE F!_inventory
  BY Nones, NewObject, <1>17 DEF F!_inventory, F!NoSession
<1>18. CASE F!_review
  BY Nones, NewObject, <1>18 DEF F!_review, F!NoSession
<1>19. CASE F!recover_pending_frame
  BY Nones, NewObject, <1>19 DEF F!recover_pending_frame, F!NoSession
<1>20. CASE F!Rejected
  BY Nones, NewObject, <1>20 DEF F!Rejected, F!End
<1>21. CASE F!Interrupt
  BY Nones, NewObject, <1>21 DEF F!Interrupt, F!End
<1>22. ASSUME NEW request \in afloat, F!Arrive(request) PROVE ContentInv'
  <2>1. UNCHANGED <<graph, F!journal, place, F!action, F!recovery, recent, decided>> /\ afloat' = afloat \ {request}
    BY <1>22 DEF F!Arrive
  <2>2. CASE request.id = None
    <3>1. F!Free # {} /\ frame' = [frame EXCEPT ![F!Unused] = F!Made(request)] /\ UNCHANGED <<parent, hurt>>
      BY <1>22, <2>2 DEF F!Arrive
    <3>2. frame' \in [F!Ids -> Looks \cup {None}] /\ \A f \in F!Ids : f # F!Unused => frame'[f] = frame[f]
      BY <3>1, NewObject
    <3>3. F!Made(request) \in Looks
      BY <2>2, Nones DEF F!Made, Looks
    <3>4. \A f \in F!Ids : frame[f] # None => frame'[f] # None
      BY <3>1, <3>2, <3>3, Nones
    <3>5. \A l \in F!Mapped : frame'[framed[l]] = frame[framed[l]]
      BY <3>2, NewObject, <3>1
    <3> QED
      BY <2>1, <3>1, <3>4, <3>5
  <2>3. CASE request.id # None
    <3>1. /\ frame' = [frame EXCEPT ![request.id] = None] /\ F!Carries(request.id)
          /\ parent' = [i \in F!Items |-> IF parent[i] = request.id THEN None ELSE parent[i]]
      BY <1>22, <2>3 DEF F!Arrive, F!Remove
    <3>2. hurt' = hurt
      BY <2>3, <3>1 DEF F!Carries
    <3>3. \A f \in F!Ids : Late(f) => Late(f)'
      BY <2>1, <3>1, Nones
    <3>4. (\A i \in F!Items : parent[i] # None => F!Live(parent[i]))'
      BY <3>1
    <3>5. stage = "move" => \A l \in DOMAIN fits : framed[l] \in F!Ids /\ Late(framed[l])
      OBVIOUS
    <3>6. (stage = "delete" => post.id \in F!Ids /\ Late(post.id))
          /\ \A r \in afloat : r.id # None => r.id \in F!Ids /\ Late(r.id)
      OBVIOUS
    <3>7. stage \notin {"idle", "read"} =>
            \A l \in F!Mapped \ F!Wanted(graph) : l \notin F!SeenLive => frame'[framed[l]] = None
      BY <3>1
    <3>8. UNCHANGED <<graph, framed, stage, fits, post, beheld>>
      BY <2>1
    <3>9. (stage = "move" => \A l \in DOMAIN fits : Late(framed[l]))' /\ (stage = "delete" => Late(post.id))'
          /\ (\A r \in afloat : r.id # None => Late(r.id))'
      <4> HIDE DEF Late
      <4> QED
        BY <2>1, <3>3, <3>5, <3>6, <3>8
    <3> HIDE DEF Late
    <3> QED
      BY <3>2, <3>4, <3>7, <3>8, <3>9
  <2> QED
    BY <2>2, <2>3
<1>23. ASSUME NEW i \in F!Items, F!Attach(i) PROVE ContentInv'
  BY Nones, NewObject, <1>23 DEF F!Attach, F!Person
<1>24. ASSUME NEW i \in F!Items, F!MoveOut(i) PROVE ContentInv'
  BY Nones, NewObject, <1>24 DEF F!MoveOut, F!Person
<1>25. ASSUME NEW id \in F!Ids, F!EditFrame(id) PROVE ContentInv'
  <2>1. UNCHANGED <<graph, framed, parent, stage, beheld, fits, post, afloat, recent, hurt>>
    BY <1>25, EditCases
  <2>2. \A i \in F!Items : parent[i] # None => frame'[parent[i]] # None
    BY <1>25, EditCases
  <2>3. \A l \in F!Mapped : frame[framed[l]] = None => frame'[framed[l]] = None
    BY <1>25, EditCases
  <2> QED
    BY <2>1, <2>2, <2>3
<1>26. ASSUME NEW id \in F!Ids, F!Copy(id) PROVE ContentInv'
  BY Nones, NewObject, <1>26 DEF F!Copy, F!Person
<1>27. CASE UNCHANGED F!vars
  BY <1>27 DEF F!vars
<1> QED
  BY <1>1, <1>2, <1>3, <1>4, <1>5, <1>6, <1>7, <1>8, <1>9, <1>10, <1>11, <1>12, <1>13, <1>14, <1>15,
      <1>16, <1>17, <1>18, <1>19, <1>20, <1>21, <1>22, <1>23, <1>24, <1>25, <1>26, <1>27 DEF F!Next,
      F!Frames, F!Recovers, F!Faults, F!People

LEMMA FrameInit == ASSUME F!FrameAssumption, F!Init PROVE FrameInv
<1> USE Nones DEF F!Init
<1>1. FrameTypes
  BY DEF FrameTypes, F!FrameAssumption, FrameSteps, F!NoSession
<1>2. WorkInv
  BY DEF WorkInv, Acting, F!NoSession
<1>3. F!OwnFrames
  BY DEF F!OwnFrames, F!Mapped
<1>4. TwinInv
  BY DEF TwinInv, F!Unmapped, F!Live
<1>5. ContentInv
  BY DEF ContentInv, F!ContentsStay
<1> QED
  BY <1>1, <1>2, <1>3, <1>4, <1>5 DEF FrameInv

\* The journal names a frame because Miro made it, or because it was chosen.
LEMMA Mapping ==
  ASSUME F!FrameAssumption, FrameTypes, [F!Next]_(F!vars)
  PROVE  F!accept \/ F!Deleted \/ F!recover_pending_frame \/ UNCHANGED framed
<1>1. CASE F!accept
  BY <1>1
<1>2. CASE F!Deleted
  BY <1>2
<1>3. CASE F!recover_pending_frame
  BY <1>3
<1>4. CASE F!SyncGraph
  BY <1>4 DEF F!SyncGraph, F!journal
<1>5. CASE F!frame_run
  BY <1>5 DEF F!frame_run, F!journal
<1>6. CASE F!preflight
  BY <1>6 DEF F!preflight, F!journal, F!Raise
<1>7. CASE F!validate_frame_children
  BY <1>7 DEF F!validate_frame_children, F!journal, F!Raise
<1>8. CASE F!check_empty_frames
  BY <1>8 DEF F!check_empty_frames, F!journal, F!Raise
<1>9. CASE F!Moved
  BY <1>9 DEF F!Moved, F!journal
<1>10. CASE F!Execute
  BY <1>10 DEF F!Execute, F!journal
<1>11. CASE F!Delete
  BY <1>11 DEF F!Delete, F!journal
<1>12. CASE F!Finish
  BY <1>12 DEF F!Finish, F!journal
<1>13. ASSUME NEW k \in F!Shapes, F!Detach(k) PROVE UNCHANGED framed
  BY <1>13 DEF F!Detach, F!journal
<1>14. ASSUME NEW k \in F!Shapes, F!Move(k) PROVE UNCHANGED framed
  BY <1>14 DEF F!Move, F!journal, F!Raise
<1>15. ASSUME NEW k \in F!Shapes, F!Create(k) PROVE UNCHANGED framed
  BY <1>15 DEF F!Create, F!journal
<1>16. ASSUME NEW k \in F!Shapes, F!Check(k) PROVE UNCHANGED framed
  BY <1>16 DEF F!Check, F!journal, F!Raise
<1>17. ASSUME NEW choice \in F!Ids \cup {None, F!Absent}, F!recover_miro_frame(choice) PROVE UNCHANGED framed
  BY <1>17 DEF F!recover_miro_frame, F!journal, F!_session
<1>18. CASE F!_inventory
  BY <1>18 DEF F!_inventory, F!journal
<1>19. CASE F!_review
  BY <1>19, ReviewCases DEF F!journal
<1>20. CASE F!Rejected
  BY <1>20 DEF F!Rejected, F!journal
<1>21. CASE F!Interrupt
  BY <1>21 DEF F!Interrupt, F!journal
<1>22. ASSUME NEW request \in afloat, F!Arrive(request) PROVE UNCHANGED framed
  BY <1>22 DEF F!Arrive, F!journal
<1>23. ASSUME NEW i \in F!Items, F!Attach(i) PROVE UNCHANGED framed
  BY <1>23 DEF F!Attach, F!journal, F!Person
<1>24. ASSUME NEW i \in F!Items, F!MoveOut(i) PROVE UNCHANGED framed
  BY <1>24 DEF F!MoveOut, F!journal, F!Person
<1>25. ASSUME NEW id \in F!Ids, F!EditFrame(id) PROVE UNCHANGED framed
  BY <1>25 DEF F!EditFrame, F!journal, F!Person
<1>26. ASSUME NEW id \in F!Ids, F!Copy(id) PROVE UNCHANGED framed
  BY <1>26 DEF F!Copy, F!journal, F!Person
<1>27. CASE UNCHANGED F!vars
  BY <1>27 DEF F!vars, F!journal
<1> QED
  BY <1>1, <1>2, <1>3, <1>4, <1>5, <1>6, <1>7, <1>8, <1>9, <1>10, <1>11, <1>12, <1>13, <1>14, <1>15,
      <1>16, <1>17, <1>18, <1>19, <1>20, <1>21, <1>22, <1>23, <1>24, <1>25, <1>26, <1>27 DEF F!Next,
      F!Frames, F!Recovers, F!Faults, F!People

\* Every state of the frame action, of the recovery and of what people do satisfies
\* the invariant.
THEOREM FramesAreSafe == ASSUME F!FrameAssumption PROVE F!Spec => []FrameInv
<1>1. F!Init => FrameInv
  BY FrameInit
<1>2. FrameInv /\ [F!Next]_(F!vars) => FrameInv'
  <2> SUFFICES ASSUME FrameInv, [F!Next]_(F!vars) PROVE FrameInv'
    OBVIOUS
  <2>1. FrameTypes /\ WorkInv /\ F!OwnFrames /\ TwinInv /\ ContentInv
    BY DEF FrameInv
  <2>2. FrameTypes'
    BY <2>1, FrameTypesStep
  <2>3. WorkInv'
    BY <2>1, <2>2, WorkStep
  <2>4. F!OwnFrames'
    BY <2>1, OwnFramesStep
  <2>5. TwinInv'
    BY <2>1, <2>3, TwinStep
  <2>6. ContentInv'
    BY <2>1, <2>2, ContentStep
  <2> QED
    BY <2>2, <2>3, <2>4, <2>5, <2>6 DEF FrameInv
<1> QED
  BY <1>1, <1>2, PTL DEF F!Spec

\* Every variable of the frame action and of the recovery has its type.
THEOREM FramesTyped == ASSUME F!FrameAssumption PROVE F!Spec => []F!TypeOK
<1>1. FrameInv => F!TypeOK
  BY DEF FrameInv, FrameTypes, F!TypeOK, FrameSteps
<1> QED
  BY <1>1, FramesAreSafe, PTL

\* Neither a move nor a deletion of a frame, late ones included, takes with it what
\* the program saw outside of it: only what people attached since.
THEOREM ContentsKept == ASSUME F!FrameAssumption PROVE F!Spec => []F!ContentsStay
<1>1. FrameInv => F!ContentsStay
  BY DEF FrameInv, ContentInv
<1> QED
  BY <1>1, FramesAreSafe, PTL

\* No activity gets a second frame unless the investigator decided about the first,
\* whenever a lost creation arrives; and two activities never share one.
THEOREM NoTwins == ASSUME F!FrameAssumption PROVE F!Spec => [](F!NoUndecidedTwin /\ F!OwnFrames)
<1>1. FrameInv => F!NoUndecidedTwin /\ F!OwnFrames
  BY DEF FrameInv, TwinInv, F!NoUndecidedTwin
<1> QED
  BY <1>1, FramesAreSafe, PTL

\* The recovery adopts only a frame that looked as intended in a review and again
\* in the second reading.
THEOREM AdoptedAsSeen == ASSUME F!FrameAssumption PROVE F!Spec => F!SeenIsAdopted
<1>1. FrameInv /\ [F!Next]_(F!vars) =>
        [\A k \in F!Shapes : framed[k] = None /\ framed'[k] # None /\ session.pc = "commit" =>
           /\ framed'[k] \in DOMAIN report.records
           /\ report.records[framed'[k]] = [title |-> k, bounds |-> uncertain.bounds]]_(F!vars)
  <2> SUFFICES ASSUME FrameInv, [F!Next]_(F!vars), NEW k \in F!Shapes, framed[k] = None, framed'[k] # None,
                      session.pc = "commit"
               PROVE  /\ framed'[k] \in DOMAIN report.records
                      /\ report.records[framed'[k]] = [title |-> k, bounds |-> uncertain.bounds]
    OBVIOUS
  <2>1. FrameTypes /\ WorkInv
    BY DEF FrameInv
  <2>2. stage = "idle"
    BY <2>1 DEF WorkInv
  <2>3. F!recover_pending_frame
    <3>1. ~F!accept /\ ~F!Deleted
      BY <2>2 DEF F!accept, F!Deleted
    <3> QED
      BY <2>1, <3>1, Mapping
  <2>4. session.choice # F!Absent /\ k = uncertain.key /\ framed'[k] = session.choice
    <3>1. framed' = IF session.choice = F!Absent THEN framed
                    ELSE [framed EXCEPT ![uncertain.key] = session.choice]
      BY <2>3 DEF F!recover_pending_frame
    <3>2. framed \in [F!Shapes -> F!Ids \cup {None}]
      BY <2>1 DEF FrameTypes
    <3> QED
      BY <3>1, <3>2
  <2> QED
    BY <2>1, <2>4 DEF WorkInv
<1> QED
  BY <1>1, FramesAreSafe, PTL DEF F!Spec, F!SeenIsAdopted
=============================================================================
