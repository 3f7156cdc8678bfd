----------------------------- MODULE AddressMerge -----------------------------
(***************************************************************************)
(* The conversion of a board with a circle per output to one circle per     *)
(* address (address_migration.py): a reviewed plan retains one circle of    *)
(* each address, redirects the connectors of the others to it and removes   *)
(* them.  The journal in the mapping lets an interrupted conversion resume  *)
(* and blocks every ordinary sync until it is complete.  People edit the    *)
(* board at any time, and a request without an answer may still arrive.     *)
(*                                                                         *)
(* A circle and its object on the board are one value.  A connector has the *)
(* objects it ends at, or is Gone.                                          *)
(***************************************************************************)
EXTENDS Naturals, FiniteSets

CONSTANTS
  Circles,     \* mapped circles, one for each output that has an address
  Account,     \* [Circles -> the canonical key]: network and address
  Others,      \* shapes that are no circle
  Connectors,  \* mapped connectors
  Source, Target,  \* [Connectors -> the shapes of the archived edge]
  Foreign,     \* connectors on the board that are not mapped
  MaxFaults, MaxEdits, MaxSyncs,  \* bounds
  None, Gone

VARIABLES
  shapes,   \* the circles on the board
  ends,     \* where each connector ends
  written,  \* circles whose text, style or size a person changed
  mode,     \* the mapping's address_mode
  version,  \* which state of the mapping its fingerprint tells from others
  syncing,  \* active_run_id: a sync that has not finished
  journal,  \* address_migration, or None
  backups,  \* versions whose plan, mapping and objects were saved before a write
  approved, \* the plan a person has reviewed, or None
  pc, left, \* the step of a call, and what its loop has yet to do
  cur, got, \* the item it is at, and the ends it read
  flying,   \* requests Miro may still execute
  faults, edits,
  changed,  \* history: versions under which the program changed the board
  torn,     \* history: connectors that lost their end to a DELETE
  spoiled,  \* history: circles a person wrote on that were deleted
  recent    \* history: what a person edited after the call had looked at it

board == <<shapes, ends, written>>
mapping == <<mode, version, syncing, journal, backups>>
call == <<pc, left, cur, got>>
history == <<changed, torn, spoiled, recent>>
vars == <<board, mapping, approved, call, flying, faults, edits, history>>

MergeAssumption ==
  /\ IsFiniteSet(Circles) /\ IsFiniteSet(Connectors) /\ Circles \cap Others = {}
  /\ Source \in [Connectors -> Circles \cup Others] /\ Target \in [Connectors -> Circles \cup Others]
  /\ Connectors \cap (Circles \cup Foreign) = {} /\ Foreign \cap Circles = {}
  /\ {MaxFaults, MaxEdits, MaxSyncs} \subseteq Nat /\ None \notin Circles \cup Connectors
  /\ None \notin [patches : SUBSET Connectors, deletions : SUBSET Circles]

All == Connectors \cup Foreign
-----------------------------------------------------------------------------
(* _plan                                                                   *)

\* One circle of each address is retained.
Retained(x) == IF x \in Circles THEN CHOOSE k \in Circles : Account[k] = Account[x] ELSE x
Removed == {k \in Circles : Retained(k) # k}
Before(c) == [source |-> Source[c], target |-> Target[c]]
After(c) == [source |-> Retained(Source[c]), target |-> Retained(Target[c])]
Rewires == {c \in Connectors : Before(c) # After(c)}

\* Where a connector may end: a PATCH that was attempted may have arrived.
Attempted(c) == journal # None /\ c \in journal.patches
Allowed(c, e) ==
  \A f \in {"source", "target"} : e[f] = Before(c)[f] \/ (Attempted(c) /\ e[f] = After(c)[f])
OnRedundant(e) == \E f \in {"source", "target"} : e[f] \in Removed

Goto(step) == pc' = step
Quit == pc' = "idle" /\ left' = {} /\ cur' = None /\ got' = None

\* preview_merge: the plan of the mapping, or of the unfinished conversion.
Plannable == mode = "apart" /\ ~syncing
preview_merge ==
  /\ Plannable /\ approved # version /\ approved' = version
  /\ UNCHANGED <<board, mapping, call, flying, faults, edits, history>>

\* An unfinished conversion blocks it.
_load_sync_state == journal = None

\* An ordinary sync of this board: it may be interrupted and resumed.
Sync ==
  /\ pc = "idle" /\ _load_sync_state
  /\ \/ ~syncing /\ version < MaxSyncs
     \/ syncing
  /\ syncing' = ~syncing /\ version' = IF syncing THEN version ELSE version + 1
  /\ UNCHANGED <<board, mode, journal, backups, approved, call, flying, faults, edits, history>>

-----------------------------------------------------------------------------
(* apply_merge: what is read before the first write                        *)

\* Under trace.lock, the mapping's lock and the lock of the board.
Begin ==
  /\ pc = "idle" /\ Plannable /\ approved = version
  /\ Goto("preflight")
  /\ UNCHANGED <<board, mapping, approved, left, cur, got, flying, faults, edits, history>>

\* preflight and _check_duplicate: an absent circle is accepted if its DELETE
\* was journaled; what the check refuses stops the call before any write.
Absent == Circles \ shapes
Deleted == IF journal = None THEN {} ELSE journal.deletions
Preflight ==
  /\ pc = "preflight"
  /\ IF Absent \subseteq Deleted /\ Removed \cap shapes \cap written = {}
     THEN Goto("inventory") /\ left' = All /\ UNCHANGED <<cur, got>>
     ELSE Quit
  /\ UNCHANGED <<board, mapping, approved, flying, faults, edits, history>>

\* _check_inventory, for one connector.
Checked(c, detached) ==
  /\ c \in Connectors => ends[c] # Gone /\ Allowed(c, ends[c])
  /\ ends[c] # Gone /\ (detached \/ c \notin Connectors) => ~OnRedundant(ends[c])

\* The pages are read one after the other; the last one ends the reading.
_inventory ==
  /\ pc \in {"inventory", "detached"}
  /\ \E c \in left :
       IF ~Checked(c, pc = "detached") THEN Quit
       ELSE IF left # {c} THEN left' = left \ {c} /\ UNCHANGED <<pc, cur, got>>
       ELSE /\ UNCHANGED <<cur, got>>
            /\ IF pc = "inventory" THEN Goto("backup") /\ left' = Rewires
               ELSE Goto("remove") /\ left' = Removed
  /\ UNCHANGED <<board, mapping, approved, flying, faults, edits, history>>

\* A resumed conversion needs its backup; another one is saved once.
Saved == journal # None => version \in backups
Backup ==
  /\ pc = "backup"
  /\ IF Saved THEN Goto("journal") /\ backups' = backups \cup {version} /\ UNCHANGED <<left, cur, got>>
     ELSE Quit /\ UNCHANGED backups
  /\ UNCHANGED <<board, mode, version, syncing, journal, approved, flying, faults, edits, history>>
Journal ==
  /\ pc = "journal" /\ Goto("patch")
  /\ journal' = IF journal = None THEN [patches |-> {}, deletions |-> {}] ELSE journal
  /\ UNCHANGED <<board, mode, version, syncing, backups, approved, left, cur, got, flying, faults, edits, history>>

-----------------------------------------------------------------------------
(* The connectors: read, journal, PATCH                                    *)

ReadConnector ==
  /\ pc = "patch" /\ left # {}
  /\ \E c \in left :
       IF ends[c] = Gone \/ ~Allowed(c, ends[c]) THEN Quit
       ELSE /\ cur' = c /\ got' = ends[c] /\ UNCHANGED left
            /\ Goto(IF ends[c] = After(c) THEN "patched" ELSE "intend")
  /\ UNCHANGED <<board, mapping, approved, flying, faults, edits, history>>
Intend ==
  /\ pc = "intend" /\ Goto("sendPatch")
  /\ journal' = [journal EXCEPT !.patches = @ \cup {cur}]
  /\ UNCHANGED <<board, mode, version, syncing, backups, approved, left, cur, got, flying, faults, edits, history>>
\* Only the ends that differ are sent.
Patch == [item |-> cur, call |-> faults,
          ends |-> [f \in {f \in {"source", "target"} : got[f] # After(cur)[f]} |-> After(cur)[f]]]
Delete == [item |-> cur, call |-> faults, ends |-> <<>>]
Send ==
  /\ pc \in {"sendPatch", "sendDelete"}
  /\ flying' = flying \cup {IF pc = "sendPatch" THEN Patch ELSE Delete}
  /\ Goto(IF pc = "sendPatch" THEN "awaitPatch" ELSE "awaitDelete")
  /\ UNCHANGED <<board, mapping, approved, left, cur, got, faults, edits, history>>
\* The commit of "done", for a connector that needed no PATCH too.
Patched ==
  /\ pc = "patched" /\ Goto("patch")
  /\ left' = left \ {cur} /\ cur' = None /\ got' = None
  /\ journal' = [journal EXCEPT !.patches = @ \cup {cur}]
  /\ UNCHANGED <<board, mode, version, syncing, backups, approved, flying, faults, edits, history>>
\* Mutant: circles are removed without looking at the board again.
Redirected_blind ==
  /\ pc = "patch" /\ left = {} /\ Goto("remove") /\ left' = Removed
  /\ UNCHANGED <<board, mapping, approved, cur, got, flying, faults, edits, history>>
\* No circle is removed while any connector of the board still uses one.
Redirected ==
  /\ pc = "patch" /\ left = {} /\ Goto("detached") /\ left' = All
  /\ UNCHANGED <<board, mapping, approved, cur, got, flying, faults, edits, history>>

-----------------------------------------------------------------------------
(* The redundant circles: read, journal, DELETE                            *)

\* _check_duplicate: the text, style, size and rotation are the program's.
_check_duplicate(k) == k \notin written
ReadCircle ==
  /\ pc = "remove" /\ left # {}
  /\ \E k \in left :
       IF k \in shapes /\ _check_duplicate(k)
       THEN cur' = k /\ Goto("intendDelete") /\ UNCHANGED <<left, got>>
       ELSE IF k \notin shapes /\ k \in journal.deletions
       THEN cur' = k /\ Goto("removed") /\ UNCHANGED <<left, got>>
       ELSE Quit
  /\ UNCHANGED <<board, mapping, approved, flying, faults, edits, history>>
IntendDelete ==
  /\ pc = "intendDelete" /\ Goto("sendDelete")
  /\ journal' = [journal EXCEPT !.deletions = @ \cup {cur}]
  /\ UNCHANGED <<board, mode, version, syncing, backups, approved, left, cur, got, flying, faults, edits, history>>
CircleRemoved ==
  /\ pc = "removed" /\ Goto("remove")
  /\ left' = left \ {cur} /\ cur' = None
  /\ journal' = [journal EXCEPT !.deletions = @ \cup {cur}]
  /\ UNCHANGED <<board, mode, version, syncing, backups, approved, got, flying, faults, edits, history>>

\* One commit switches the logical ends and the namespace.
Complete ==
  /\ pc = "remove" /\ left = {} /\ Quit
  /\ mode' = "merged" /\ journal' = None /\ version' = version + 1
  /\ UNCHANGED <<board, syncing, backups, approved, flying, faults, edits, history>>

-----------------------------------------------------------------------------
(* Miro, people, and interruptions                                         *)

Waits(r) == pc \in {"awaitPatch", "awaitDelete"} /\ cur = r.item /\ faults = r.call
On(k) == {c \in All : ends[c] # Gone /\ \E f \in {"source", "target"} : ends[c][f] = k}
Refused(r) == IF r.item \in Circles THEN r.item \notin shapes
              ELSE ends[r.item] = Gone \/ \E f \in DOMAIN r.ends : r.ends[f] \in Circles \ shapes
Ends(r) == [f \in {"source", "target"} |-> IF f \in DOMAIN r.ends THEN r.ends[f] ELSE ends[r.item][f]]

\* The request takes effect; whoever waits for it is told, unless the answer
\* is lost.  A connector goes with the shape it ends at.
Land(r) ==
  /\ flying' = flying \ {r}
  /\ IF Refused(r)
     THEN /\ UNCHANGED <<board, changed, torn, spoiled>>
          /\ IF Waits(r) THEN Quit ELSE UNCHANGED call
     ELSE /\ changed' = changed \cup {version}
          /\ IF r.item \in Circles
             THEN /\ shapes' = shapes \ {r.item} /\ UNCHANGED written
                  /\ ends' = [c \in All |-> IF c \in On(r.item) THEN Gone ELSE ends[c]]
                  /\ torn' = torn \cup On(r.item)
                  /\ spoiled' = spoiled \cup ({r.item} \cap written)
             ELSE /\ ends' = [ends EXCEPT ![r.item] = Ends(r)]
                  /\ UNCHANGED <<shapes, written, torn, spoiled>>
          /\ IF ~Waits(r) THEN UNCHANGED call
             ELSE IF r.item \in Connectors /\ Ends(r) # After(r.item) THEN Quit
             ELSE Goto(IF pc = "awaitPatch" THEN "patched" ELSE "removed") /\ UNCHANGED <<left, cur, got>>
  /\ UNCHANGED <<mapping, approved, faults, edits, recent>>
\* Never to arrive: the connection broke before the request was sent.
Lose(r) ==
  /\ r.call < faults /\ flying' = flying \ {r}
  /\ UNCHANGED <<board, mapping, approved, call, faults, edits, history>>
\* An error, an answer that is lost, an interrupt, or the end of the process.
Stop ==
  /\ pc # "idle" /\ faults < MaxFaults /\ faults' = faults + 1 /\ Quit
  /\ UNCHANGED <<board, mapping, approved, flying, edits, history>>

\* What the call has looked at for the last time: connectors it found detached,
\* the circle it is about to remove, with whatever may be attached to it while
\* its DELETE is on the way, and the circles that stay.
Deletes == {r \in flying : r.item \in Circles}
Removing == {"remove", "intendDelete", "sendDelete", "awaitDelete", "removed"}
LookedAt ==
  {c \in All : (pc = "detached" /\ c \notin left) \/ pc \in Removing \/ Deletes # {}}
  \cup {k \in Circles : \/ k = cur /\ pc \in Removing
                        \/ \E r \in Deletes : r.item = k
                        \/ k \notin Removed /\ pc \notin {"idle", "preflight"}}
\* A person attaches a connector elsewhere, deletes one, writes on a circle, or
\* deletes a circle and with it the connectors that end there.
Touch(things) == recent' = recent \cup (things \cap LookedAt)
Edit ==
  /\ edits < MaxEdits /\ mode = "apart" /\ edits' = edits + 1
  /\ \/ \E c \in All, f \in {"source", "target"}, x \in shapes \cup Others :
          /\ ends[c] # Gone /\ ends[c][f] # x /\ Touch({c})
          /\ ends' = [ends EXCEPT ![c][f] = x] /\ UNCHANGED <<shapes, written>>
     \/ \E c \in All : /\ ends[c] # Gone /\ Touch({c})
                       /\ ends' = [ends EXCEPT ![c] = Gone] /\ UNCHANGED <<shapes, written>>
     \/ \E k \in shapes \ written : Touch({k}) /\ written' = written \cup {k} /\ UNCHANGED <<shapes, ends>>
     \/ \E k \in shapes : /\ Touch({k} \cup On(k)) /\ shapes' = shapes \ {k} /\ UNCHANGED written
                          /\ ends' = [c \in All |-> IF c \in On(k) THEN Gone ELSE ends[c]]
  /\ UNCHANGED <<mapping, approved, call, flying, faults, changed, torn, spoiled>>

Init ==
  /\ shapes = Circles /\ written = {}
  /\ \E e \in [Foreign -> [source : Others, target : Others]] :
       ends = [c \in All |-> IF c \in Connectors THEN Before(c) ELSE e[c]]
  /\ mode = "apart" /\ version = 0 /\ syncing = FALSE /\ journal = None /\ backups = {} /\ approved = None
  /\ pc = "idle" /\ left = {} /\ cur = None /\ got = None /\ flying = {}
  /\ faults = 0 /\ edits = 0 /\ changed = {} /\ torn = {} /\ spoiled = {} /\ recent = {}

Proceed ==
  \/ Preflight \/ _inventory \/ Backup \/ Journal
  \/ ReadConnector \/ Intend \/ Send \/ Patched \/ Redirected
  \/ ReadCircle \/ IntendDelete \/ CircleRemoved \/ Complete
Next ==
  \/ preview_merge \/ Sync \/ Begin \/ Proceed
  \/ \E r \in flying : Land(r) \/ Lose(r)
  \/ Stop \/ Edit
Spec == Init /\ [][Next]_vars

\* A call goes on, a request arrives or is lost, a sync that was begun is
\* finished, and a person reviews and starts an unfinished conversion again.
Going == Proceed \/ (\E r \in flying : Land(r)) \/ (syncing /\ Sync) \/ Begin \/ preview_merge

-----------------------------------------------------------------------------
(* Properties                                                              *)

\* Every variable has its type; a call that works holds the plan it was approved
\* for, and has a journal once it may write.
TypeOK ==
  /\ shapes \subseteq Circles /\ written \subseteq Circles /\ DOMAIN ends = All
  /\ mode \in {"apart", "merged"} /\ version \in Nat /\ syncing \in BOOLEAN
  /\ journal # None => journal.patches \subseteq Rewires /\ journal.deletions \subseteq Removed
  /\ pc # "idle" => approved = version /\ ~syncing
  /\ pc \in {"patch", "intend", "patched", "sendPatch", "awaitPatch", "detached", "remove"} => journal # None

\* No connector, mapped or not, loses its end to the removal of a circle, and no
\* circle a person wrote on is removed, but for what a person did after the call
\* had looked at it for the last time.
NothingTorn == torn \subseteq recent /\ spoiled \subseteq recent

\* What is half converted has the journal that blocks a sync and the backup of
\* the mapping it started from: the mapping never changes under it.
HalfConvertedIsJournaled ==
  changed # {} /\ mode = "apart" => journal # None /\ changed = {version} /\ version \in backups

\* A mapping that says "merged" is what the board shows: each connector ends at
\* the circle retained for its address, redundant circles are gone and the
\* retained are there, but for what a person did after it was checked.
MergedIsShown ==
  mode = "merged" =>
    /\ shapes \cap Removed = {}
    /\ \A k \in Circles \ Removed : k \in shapes \/ k \in recent
    /\ \A c \in Connectors : ends[c] = After(c) \/ c \in recent

\* The conversion can be completed from wherever it was interrupted, unless a
\* person edited what it has to change.
Converts == mode = "merged" \/ edits > 0
=============================================================================
