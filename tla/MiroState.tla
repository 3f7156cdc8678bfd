----------------------------- MODULE MiroState -----------------------------
(***************************************************************************)
(* The durable board mapping of liquid_tracer/miro_state.py: a portable     *)
(* JSON snapshot and, while a sync writes, a SQLite sidecar that records    *)
(* every mutation before it is acknowledged.                                *)
(*                                                                         *)
(* The state is the number of mutations committed so far, so that any two   *)
(* states differ.  A SQLite transaction and a rename are atomic; a crash    *)
(* can fall between any two of them.  The writer holds the sync flock, so   *)
(* there is one; readers (dry runs, previews) hold nothing.                 *)
(***************************************************************************)
EXTENDS Naturals, FiniteSets

CONSTANTS
  MaxCommits,  \* bound on the mutations ever committed
  MaxTokens,   \* bound on the sidecars ever created
  MaxTries,    \* load_state's attempts (5 in the code)
  Tampering,   \* may a file be lost or restored from a copy, once
  None, Broken, Blank

\* The snapshot's text stands for its hash; the base and the operations of the
\* sidecar for the state they replay to.
Snapshots == [state : Nat, marker : Nat \cup {None}]
Sidecars == [token : Nat, state : Nat, hashes : SUBSET (Snapshots \cup {None})]

ASSUME MiroStateAssumption ==
  /\ MaxCommits \in Nat /\ MaxTokens \in Nat /\ MaxTries \in Nat
  /\ Tampering \in BOOLEAN
  /\ None \notin Nat /\ Broken \notin Nat /\ Broken # None
  /\ None \notin Snapshots /\ None \notin Sidecars /\ Blank \notin Sidecars /\ Blank # None

VARIABLES
  snap,     \* the snapshot file, or None
  side,     \* the sidecar: None, Blank (no metadata yet), or its contents
  durable,  \* history: the mutations whose commit returned
  tokens,   \* how many tokens uuid4 gave
  tampered, \* a file was lost or restored
  pc,       \* where the writer session is
  mem,      \* the state in the writer's memory
  text,     \* the snapshot text about to be written
  phase,    \* what rewrites the snapshot: "enter", "check" or "exit"
  rpc,      \* where the reader's load_state is
  rsnap,    \* the snapshot it read
  raced,    \* a file changed since this attempt recorded the identities
  tries,    \* its attempts
  seen,     \* history: the durable states since it started
  result    \* what it returned or raised

disk == <<snap, side>>
writer == <<pc, mem, text, phase, tokens>>
reader == <<rpc, rsnap, raced, tries, seen, result>>
vars == <<disk, durable, tampered, writer, reader>>

Text(state, marker) == [state |-> state, marker |-> marker]

-----------------------------------------------------------------------------
(* load_state                                                              *)

\* _read_database on an opened sidecar.
FromSidecar(s, j) ==
  IF j = Blank THEN Broken
  ELSE IF s \notin j.hashes THEN Broken
  ELSE IF s # None /\ s.marker # None /\ s.marker # j.token THEN Broken
  ELSE j.state

\* Without a sidecar: the snapshot, unless it refers to one; or the default.
FromSnapshot(s) ==
  IF s = None THEN 0 ELSE IF s.marker # None THEN Broken ELSE s.state

Load(s, j) == IF j = None THEN FromSnapshot(s) ELSE FromSidecar(s, j)

-----------------------------------------------------------------------------
(* The writer session                                                      *)

\* Every file change is visible to a reader that compares identities.
Touch == raced' = TRUE
Quiet == UNCHANGED <<rpc, rsnap, tries, result>>
DiskStep == Touch /\ Quiet /\ UNCHANGED <<durable, tampered, seen>>

Read ==
  /\ pc = "idle" /\ Load(snap, side) # Broken
  /\ mem' = Load(snap, side) /\ pc' = "loaded"
  /\ UNCHANGED <<disk, durable, tampered, text, phase, tokens, reader>>

\* __enter__'s comparison of the files with the state it was given.
EnterOk ==
  IF side # None THEN Load(snap, side) = mem
  ELSE snap = None \/ snap = Text(mem, None)

Create ==
  /\ pc = "loaded" /\ EnterOk
  /\ side' = IF side = None THEN Blank ELSE side
  /\ pc' = "base"
  /\ DiskStep /\ UNCHANGED <<snap, mem, text, phase, tokens>>

Token == IF side = Blank THEN tokens + 1 ELSE side.token

\* Mutant: the snapshot that is still there is not an accepted one.
ReplaceBaseOnly(state, j, t) == side' = [token |-> j, state |-> state, hashes |-> {t}]
ReplaceBase(state, j, t) == side' = [token |-> j, state |-> state, hashes |-> {snap, t}]

EnterBase ==
  /\ pc = "base"
  /\ side = Blank => tokens < MaxTokens
  /\ tokens' = IF side = Blank THEN tokens + 1 ELSE tokens
  /\ text' = Text(mem, Token)
  /\ ReplaceBase(mem, Token, Text(mem, Token))
  /\ pc' = "write" /\ phase' = "enter"
  /\ DiskStep /\ UNCHANGED <<snap, mem>>

WriteSnapshot ==
  /\ pc = "write"
  /\ snap' = text /\ pc' = "accept"
  /\ DiskStep /\ UNCHANGED <<side, mem, text, phase, tokens>>

Accept ==
  /\ pc = "accept"
  /\ side' = [side EXCEPT !.hashes = {text}]
  /\ pc' = IF phase = "exit" THEN "unlink" ELSE "open"
  /\ DiskStep /\ UNCHANGED <<snap, mem, text, phase, tokens>>

Commit ==
  /\ pc = "open" /\ side.state < MaxCommits
  /\ side' = [side EXCEPT !.state = side.state + 1]
  /\ mem' = mem + 1
  /\ durable' = durable + 1
  /\ seen' = IF rpc = "idle" THEN seen ELSE seen \cup {durable + 1}
  /\ Touch /\ Quiet /\ UNCHANGED <<snap, tampered, pc, text, phase, tokens>>

\* checkpoint(), or the final one of __exit__: what the database holds.
Checkpoint(why) ==
  /\ pc = "open" /\ FromSidecar(snap, side) # Broken
  /\ LET t == Text(side.state, IF why = "exit" THEN None ELSE side.token)
     IN text' = t /\ ReplaceBase(side.state, side.token, t)
  /\ pc' = "write" /\ phase' = why
  /\ DiskStep /\ UNCHANGED <<snap, mem, tokens>>

\* Mutant: the session stays open without its sidecar.
UnlinkLeavesOpen ==
  /\ pc = "unlink"
  /\ side' = None /\ pc' = "open"
  /\ DiskStep /\ UNCHANGED <<snap, mem, text, phase, tokens>>
Unlink ==
  /\ pc = "unlink"
  /\ side' = None /\ pc' = "idle"
  /\ DiskStep /\ UNCHANGED <<snap, mem, text, phase, tokens>>

\* A step raises, or the process is killed: the files stay as they are.
Abort ==
  /\ pc # "idle" /\ pc' = "idle"
  /\ UNCHANGED <<disk, durable, tampered, mem, text, phase, tokens, reader>>

\* checkpoint() raises in mid-session: __exit__ follows, and workers whose
\* responses were in flight still commit theirs.
CheckpointFails ==
  /\ pc \in {"write", "accept"} /\ phase = "check"
  /\ pc' = "open"
  /\ UNCHANGED <<disk, durable, tampered, mem, text, phase, tokens, reader>>

-----------------------------------------------------------------------------
(* A reader in another process                                             *)

RStart ==
  /\ rpc = "idle"
  /\ rpc' = "snapshot" /\ raced' = FALSE /\ tries' = 1 /\ seen' = {durable} /\ rsnap' = None
  /\ UNCHANGED <<disk, durable, tampered, writer, result>>

RSnapshot ==
  /\ rpc = "snapshot"
  /\ rsnap' = snap /\ rpc' = "sidecar"
  /\ UNCHANGED <<disk, durable, tampered, writer, raced, tries, seen, result>>

\* Mutant: the first failure is reported, whatever changed meanwhile.
AnswerAtOnce(value) ==
  /\ rpc' = "done" /\ result' = value /\ UNCHANGED <<raced, tries>>
\* The value, or a failure: tried again if a file changed, up to MaxTries.
Answer(value) ==
  IF value # Broken THEN rpc' = "done" /\ result' = value /\ UNCHANGED <<raced, tries>>
  ELSE IF ~raced THEN rpc' = "done" /\ result' = Broken /\ UNCHANGED <<raced, tries>>
  ELSE IF tries < MaxTries THEN rpc' = "snapshot" /\ raced' = FALSE /\ tries' = tries + 1 /\ UNCHANGED result
  ELSE rpc' = "done" /\ result' = None /\ UNCHANGED <<raced, tries>>

\* Mutant: whether the sidecar exists is not asked for again.
RSidecarTrusting ==
  /\ rpc = "sidecar"
  /\ IF side = None THEN Answer(IF rsnap = None THEN 0 ELSE rsnap.state)
     ELSE rpc' = "database" /\ UNCHANGED <<raced, tries, result>>
  /\ UNCHANGED <<disk, durable, tampered, writer, rsnap, seen>>
RSidecar ==
  /\ rpc = "sidecar"
  /\ IF side = None THEN Answer(FromSnapshot(rsnap))
     ELSE rpc' = "database" /\ UNCHANGED <<raced, tries, result>>
  /\ UNCHANGED <<disk, durable, tampered, writer, rsnap, seen>>

\* The sidecar is opened only now: it can have been unlinked.
RDatabase ==
  /\ rpc = "database"
  /\ Answer(IF side = None THEN Broken ELSE FromSidecar(rsnap, side))
  /\ UNCHANGED <<disk, durable, tampered, writer, rsnap, seen>>

RDone ==
  /\ rpc = "done"
  /\ rpc' = "idle" /\ result' = None /\ rsnap' = None /\ seen' = {} /\ raced' = FALSE /\ tries' = 0
  /\ UNCHANGED <<disk, durable, tampered, writer>>

-----------------------------------------------------------------------------
(* A user's mistake with the files, once and between sessions              *)

LoseSidecar ==
  /\ Tampering /\ ~tampered /\ pc = "idle" /\ side # None
  /\ side' = None /\ tampered' = TRUE
  /\ Touch /\ Quiet /\ UNCHANGED <<snap, durable, seen, writer>>

\* An older snapshot is put back beside an active sidecar.  Beside none, an
\* older snapshot is an intact backup that nothing could tell from the last.
RestoreSnapshot ==
  /\ Tampering /\ ~tampered /\ pc = "idle" /\ side # None
  /\ \E s \in {Text(v, m) : v \in 0..durable, m \in {None} \cup (1..tokens)} :
       snap' = s
  /\ tampered' = TRUE
  /\ Touch /\ Quiet /\ UNCHANGED <<side, durable, seen, writer>>

Init ==
  /\ snap = None /\ side = None /\ durable = 0 /\ tokens = 0 /\ tampered = FALSE
  /\ pc = "idle" /\ mem = 0 /\ text = None /\ phase = None
  /\ rpc = "idle" /\ rsnap = None /\ raced = FALSE /\ tries = 0 /\ seen = {} /\ result = None

Session ==
  \/ Read \/ Create \/ EnterBase \/ WriteSnapshot \/ Accept \/ Commit
  \/ \E why \in {"check", "exit"} : Checkpoint(why)
  \/ Unlink \/ Abort \/ CheckpointFails
Reader == RStart \/ RSnapshot \/ RSidecar \/ RDatabase \/ RDone
Next == Session \/ Reader \/ LoseSidecar \/ RestoreSnapshot

Spec == Init /\ [][Next]_vars

-----------------------------------------------------------------------------
(* Properties                                                              *)

PCs == {"idle", "loaded", "base", "write", "accept", "open", "unlink"}

\* Every variable has its type, and a session past __enter__'s first
\* transaction has a sidecar with metadata.
TypeOK ==
  /\ snap \in Snapshots \cup {None} /\ side \in Sidecars \cup {None, Blank}
  /\ durable \in Nat /\ tokens \in Nat /\ tampered \in BOOLEAN
  /\ pc \in PCs /\ mem \in Nat /\ text \in Snapshots \cup {None} /\ phase \in {None, "enter", "check", "exit"}
  /\ rpc \in {"idle", "snapshot", "sidecar", "database", "done"}
  /\ rsnap \in Snapshots \cup {None} /\ raced \in BOOLEAN /\ tries \in Nat
  /\ seen \subseteq Nat /\ result \in Nat \cup {None, Broken}
  /\ pc = "base" => side # None
  /\ pc \in {"write", "accept", "open", "unlink"} => side \in Sidecars
  /\ pc \in {"write", "accept", "unlink"} => text \in Snapshots

\* Whatever step of opening, committing, checkpointing and closing a crash or
\* an error falls between, load_state gives exactly what was committed: the
\* exception is a sidecar without metadata, which it refuses.
RecoveredIsDurable == ~tampered /\ side # Blank => Load(snap, side) = durable

\* "It must never silently resume from an older JSON mapping": with a lost
\* sidecar or an older snapshot beside it, the load fails or is still exact.
NeverStale == Load(snap, side) \in {durable, Broken}

\* A load gives what was committed or is refused, whatever crashed, failed or was
\* lost; in files nobody touched it is refused only for missing metadata.
LoadIsSound == RecoveredIsDurable /\ NeverStale

\* A reader that takes no lock, racing every step of a session, returns a state
\* that was the durable one at some moment of its call, in files nobody touched.
ReadIsCurrent == rpc = "done" => tampered \/ result \in seen \cup {None, Broken}

\* A reader reports damage only when the files it would find now are damaged: a
\* race with a running session is never reported as one.
NoFalseAlarm ==
  [][rpc # "done" /\ rpc' = "done" /\ result' = Broken => Load(snap, side) = Broken]_vars

\* "abrupt process termination leaves the sidecar available to load_state": in
\* files nobody touched, an ended session can be resumed.
AbruptEndIsLoadable == pc = "idle" /\ ~tampered => Load(snap, side) # Broken
=============================================================================
