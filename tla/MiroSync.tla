------------------------------ MODULE MiroSync ------------------------------
(***************************************************************************)
(* _sync of liquid_tracer/miro.py: one publisher brings a board to what a   *)
(* plan wants, with a durable journal that a later call resumes from, while *)
(* people edit the same board.                                              *)
(*                                                                         *)
(* A journal commit is atomic and durable (MiroState); requests overlap as  *)
(* map lets them (MiroRequests).  Items have one editable field.  Miro      *)
(* stores what it is sent; a request whose connection is lost was executed  *)
(* by then or never is.                                                     *)
(***************************************************************************)
EXTENDS Naturals, FiniteSets

CONSTANTS
  Shapes, Connectors, \* logical keys
  Ends,               \* [Connectors -> SUBSET Shapes]
  Runs,               \* plans 1..Runs; each continues the one before
  Wanted, Retired,    \* [1..Runs -> SUBSET Keys]: the plan's items; generated ones it removes
  PlanText,               \* [1..Runs -> [Keys -> Nat]]: what its items say
  BatchSize, Workers, \* 20 shapes per request, 4 requests (in the code)
  MaxObjects,         \* bound on the objects ever created
  MaxFaults,          \* bound on crashes and failed requests
  MaxEdits,           \* bound on edits by people
  Manual, None

Keys == Shapes \cup Connectors
Plans == 1..Runs
Ids == 1..MaxObjects

\* What the journal knows of an item; what a call does to it; what Miro keeps.
Texts == Nat \cup {Manual}
Records == [id : Ids, managed : Texts, intent : Nat]
Merges == [patch : Nat \cup {None}, managed : Texts, intent : Nat]
Objects == [key : Keys, text : Texts, ends : SUBSET Ids]

MiroSyncAssumption ==
  /\ IsFiniteSet(Keys) /\ Shapes \cap Connectors = {} /\ Ends \in [Connectors -> SUBSET Shapes]
  /\ Runs \in Nat /\ MaxObjects \in Nat /\ MaxFaults \in Nat /\ MaxEdits \in Nat
  /\ Workers \in Nat \ {0} /\ BatchSize \in Nat \ {0}
  /\ Wanted \in [Plans -> SUBSET Keys] /\ Retired \in [Plans -> SUBSET Keys]
  /\ \A n \in Plans : /\ Wanted[n] \cap Retired[n] = {}
                      /\ \A c \in Connectors \cap Wanted[n] : Ends[c] \subseteq Wanted[n]
  /\ PlanText \in [Plans -> [Keys -> Nat]]
  /\ Manual \notin Nat
  /\ None \notin Texts \cup Records \cup Merges \cup Objects \cup {"planned", "attempted"}

VARIABLES
  items,     \* journal: [Keys -> None or [id, managed, intent]]
  creations, \* journal: [Keys -> None or the text of an unconfirmed POST]
  updates,   \* journal: [Keys -> None or the text of a planned PATCH]
  deletions, \* journal: [Keys -> None, "planned" or "attempted"]
  active,    \* journal: the run being synced, or 0
  latest,    \* journal: the latest run synced, or 0
  batching,  \* journal: shape_batch_size
  board,     \* Miro: [Ids -> None or [key, text, ends]]
  nextId,    \* Miro: the next object's id
  pc,        \* "idle" (no publisher), "preflight", "delete", "update" or "create"
  run,       \* the plan being synced
  merged,    \* its field merges: [Keys -> None or [patch, managed, intent]]
  flying,    \* requests in flight: [kind, keys, ids], ids <<>> until Miro executed it
  failing,   \* a request failed: the call raises when the others are answered
  faults, edits,
  touched,   \* history: objects people edited or deleted since the preflight
  posted     \* history: POSTs executed for a key since it was last removed

journal == <<items, creations, updates, deletions, active, latest, batching>>
miro == <<board, nextId>>
session == <<pc, run, merged, flying, failing>>
vars == <<journal, miro, session, faults, edits, touched, posted>>

Mapped == {k \in Keys : items[k] # None}
Live(id) == board[id] # None
Unmapped == {id \in Ids : Live(id) /\ \A k \in Mapped : items[k].id # id}

-----------------------------------------------------------------------------
(* Preflight                                                               *)

Removals(n) == Retired[n] \cap Mapped

\* Mutant: an uncertain POST does not stop the next call.
ResolvedAnyway == TRUE
Resolved == \A k \in Keys : creations[k] = None

\* _check_lineage: no other run was interrupted; the latest run is an ancestor.
Continues(n) == active \in {0, n} /\ latest <= n

\* _load_sync_state refuses while the outcome of a POST is uncertain.
Start(n) ==
  /\ pc = "idle" /\ Resolved /\ Continues(n)
  /\ pc' = "preflight" /\ run' = n
  /\ UNCHANGED <<journal, miro, merged, flying, failing, faults, edits, touched, posted>>

\* Mutant: no mapped item may be missing.
ToleratedNone == {}
\* Only an attempted removal explains a missing object.
Tolerated == {k \in Removals(run) : deletions[k] = "attempted"}

Missing == {k \in Mapped \ Tolerated : ~Live(items[k].id)}

\* Mutant: a journaled PATCH is taken for done.
RecoveredBlind(k) ==
  IF k \in Mapped /\ updates[k] # None THEN [items[k] EXCEPT !.managed = updates[k], !.intent = updates[k]]
  ELSE items[k]
\* _recover_updates: a journaled PATCH that is visible on the board was ours.
Recovered(k) ==
  IF k \in Mapped /\ updates[k] # None /\ Live(items[k].id) /\ board[items[k].id].text = updates[k]
  THEN [items[k] EXCEPT !.managed = updates[k], !.intent = updates[k]]
  ELSE items[k]

\* An item to remove says something the program did not write.
Noted == {k \in Removals(run) : Live(items[k].id) /\ board[items[k].id].text # Recovered(k).managed}

\* A connector that stays is attached to a shape to remove.
Attached == {c \in (Connectors \cap Mapped) \ Removals(run) : Ends[c] \cap Removals(run) # {}}

\* Mutant: an intent that changed is patched over whatever the board shows.
MergeOver(r, current, desired) ==
  [patch |-> IF desired = r.intent THEN None ELSE desired, managed |-> r.managed, intent |-> r.intent]
\* _merge_fields for a record, the board's text and the plan's.
Merge(r, current, desired) ==
  IF current = desired THEN [patch |-> None, managed |-> current, intent |-> desired]
  ELSE [patch |-> IF current = r.managed /\ desired # r.intent THEN desired ELSE None,
        managed |-> r.managed, intent |-> r.intent]

\* The preflight reads every mapped object, recovers, merges, and journals
\* every planned edit and removal in one commit; before it nothing is written.
Preflight ==
  /\ pc = "preflight" /\ Missing = {} /\ Noted = {} /\ Attached = {}
  /\ LET kept == (Wanted[run] \cap Mapped) \ Removals(run)
         plan == [k \in Keys |-> IF k \in kept
                                 THEN Merge(Recovered(k), board[items[k].id].text, PlanText[run][k]) ELSE None]
     IN /\ merged' = plan
        /\ updates' = [k \in Keys |-> IF k \in kept THEN plan[k].patch ELSE None]
  /\ items' = [k \in Keys |-> Recovered(k)]
  /\ deletions' = [k \in Keys |-> IF k \in Removals(run) /\ deletions[k] = None THEN "planned" ELSE deletions[k]]
  /\ active' = run /\ pc' = "delete" /\ touched' = {}
  /\ UNCHANGED <<creations, latest, batching, miro, run, flying, failing, faults, edits, posted>>

\* The call raises without a write: an object is missing, has manual notes, or
\* would leave a connector behind.
Refuse ==
  /\ pc = "preflight" /\ Missing \cup Noted \cup Attached # {}
  /\ pc' = "idle"
  /\ UNCHANGED <<journal, miro, run, merged, flying, failing, faults, edits, touched, posted>>

-----------------------------------------------------------------------------
(* Requests                                                                *)

Request(kind, keys) == [kind |-> kind, keys |-> keys, ids |-> <<>>]
Executed(q) == q.ids # <<>>

\* Connectors are removed before the shapes they end at.
NextRemovals ==
  LET left == {k \in Keys : deletions[k] # None}
  IN IF left \cap Connectors # {} THEN left \cap Connectors ELSE left

\* The intent to delete is durable before the request.
Delete(k) ==
  /\ pc = "delete" /\ flying = {} /\ ~failing /\ k \in NextRemovals
  /\ deletions' = [deletions EXCEPT ![k] = "attempted"]
  /\ flying' = {Request("delete", {k})}
  /\ UNCHANGED <<items, creations, updates, active, latest, batching, miro, pc, run, merged, failing,
                 faults, edits, touched, posted>>

Deleted ==
  /\ pc = "delete" /\ flying = {} /\ ~failing /\ \A k \in Keys : deletions[k] = None
  /\ pc' = "update"
  /\ UNCHANGED <<journal, miro, run, merged, flying, failing, faults, edits, touched, posted>>

\* update_item: shapes first, then connectors; an item without a patch only has
\* its merged record saved.
Update(k) ==
  /\ pc = "update" /\ ~failing /\ Cardinality(flying) < Workers
  /\ merged[k] # None /\ \A q \in flying : k \notin q.keys
  /\ k \in Connectors => \A s \in Shapes : merged[s] = None
  /\ IF merged[k].patch = None
     THEN /\ items' = [items EXCEPT ![k].managed = merged[k].managed, ![k].intent = merged[k].intent]
          /\ merged' = [merged EXCEPT ![k] = None] /\ UNCHANGED flying
     ELSE /\ flying' = flying \cup {Request("patch", {k})} /\ UNCHANGED <<items, merged>>
  /\ UNCHANGED <<creations, updates, deletions, active, latest, batching, miro, pc, run, failing,
                 faults, edits, touched, posted>>

Updated ==
  /\ pc = "update" /\ flying = {} /\ ~failing /\ \A k \in Keys : merged[k] = None
  /\ pc' = "create"
  /\ UNCHANGED <<journal, miro, run, merged, flying, failing, faults, edits, touched, posted>>

Lacking == {k \in Wanted[run] \ Mapped : \A q \in flying : k \notin q.keys}

\* Mutant: the batch size of a recovered publication is forgotten.
FitsRequest(keys) == Cardinality(keys) <= BatchSize
FitsBatch(keys) == Cardinality(keys) <= batching

\* One batch of shapes at a time; then connectors, whose ends have durable ids.
Create(keys) ==
  /\ pc = "create" /\ ~failing /\ keys # {} /\ keys \subseteq Lacking
  /\ \/ keys \subseteq Shapes /\ FitsBatch(keys) /\ flying = {}
     \/ /\ keys \subseteq Connectors /\ Cardinality(keys) = 1 /\ Cardinality(flying) < Workers
        /\ \A c \in keys : Ends[c] \subseteq Mapped
        /\ Lacking \cap Shapes = {}
  /\ creations' = [k \in Keys |-> IF k \in keys THEN PlanText[run][k] ELSE creations[k]]
  /\ flying' = flying \cup {Request("post", keys)}
  /\ UNCHANGED <<items, updates, deletions, active, latest, batching, miro, pc, run, merged, failing,
                 faults, edits, touched, posted>>

\* Miro executes a request: a bulk POST completely or not at all.
Execute(q) ==
  /\ q \in flying /\ ~Executed(q)
  /\ \/ /\ q.kind = "post" /\ nextId + Cardinality(q.keys) <= MaxObjects + 1
        /\ \E ids \in [q.keys -> nextId..(nextId + Cardinality(q.keys) - 1)] :
             /\ \A k, l \in q.keys : ids[k] = ids[l] => k = l
             /\ board' = [id \in Ids |->
                  IF \E k \in q.keys : ids[k] = id
                  THEN LET k == CHOOSE k \in q.keys : ids[k] = id
                       IN [key |-> k, text |-> PlanText[run][k],
                           ends |-> IF k \in Connectors THEN {items[s].id : s \in Ends[k]} ELSE {}]
                  ELSE board[id]]
             /\ flying' = (flying \ {q}) \cup {[q EXCEPT !.ids = ids]}
        /\ nextId' = nextId + Cardinality(q.keys)
        /\ posted' = [k \in Keys |-> IF k \in q.keys THEN posted[k] + 1 ELSE posted[k]]
     \/ /\ q.kind \in {"patch", "delete"}
        /\ \E k \in q.keys :
             LET id == items[k].id
             IN /\ q.kind = "patch" => Live(id)
                /\ board' = [board EXCEPT ![id] = IF q.kind = "delete" THEN None ELSE [@ EXCEPT !.text = merged[k].patch]]
                /\ flying' = (flying \ {q}) \cup {[q EXCEPT !.ids = [l \in {k} |-> id]]}
        /\ UNCHANGED <<nextId, posted>>
  /\ UNCHANGED <<journal, pc, run, merged, failing, faults, edits, touched>>

\* What an acknowledgement commits.
Save(q) ==
  CASE q.kind = "post" ->
         /\ items' = [k \in Keys |-> IF k \in q.keys
                        THEN [id |-> q.ids[k], managed |-> PlanText[run][k], intent |-> PlanText[run][k]] ELSE items[k]]
         /\ creations' = [k \in Keys |-> IF k \in q.keys THEN None ELSE creations[k]]
         /\ UNCHANGED <<updates, deletions, merged, posted>>
    [] q.kind = "patch" ->
         /\ items' = [k \in Keys |-> IF k \in q.keys
                        THEN [items[k] EXCEPT !.managed = merged[k].patch, !.intent = merged[k].patch] ELSE items[k]]
         /\ updates' = [k \in Keys |-> IF k \in q.keys THEN None ELSE updates[k]]
         /\ merged' = [k \in Keys |-> IF k \in q.keys THEN None ELSE merged[k]]
         /\ UNCHANGED <<creations, deletions, posted>>
    [] OTHER ->
         /\ items' = [k \in Keys |-> IF k \in q.keys THEN None ELSE items[k]]
         /\ deletions' = [k \in Keys |-> IF k \in q.keys THEN None ELSE deletions[k]]
         /\ posted' = [k \in Keys |-> IF k \in q.keys THEN 0 ELSE posted[k]]
         /\ UNCHANGED <<creations, updates, merged>>

Acknowledge(q) ==
  /\ q \in flying /\ Executed(q)
  /\ flying' = flying \ {q} /\ Save(q)
  /\ UNCHANGED <<active, latest, batching, miro, pc, run, failing, faults, edits, touched>>

\* Only a POST that was never sent or that Miro rejected loses its intent.
Forgets(q, known) == q.kind = "post" /\ known

\* A request fails: rejected, unanswered, or answered with something the
\* coordinator cannot use or cannot save.
Fail(q, known) ==
  /\ q \in flying /\ known => ~Executed(q)
  /\ faults < MaxFaults \/ ((q.kind = "patch") /\ \E k \in q.keys : ~Live(items[k].id))
  /\ faults' = IF faults < MaxFaults THEN faults + 1 ELSE faults
  /\ flying' = flying \ {q} /\ failing' = TRUE
  /\ creations' = [k \in Keys |-> IF Forgets(q, known) /\ k \in q.keys THEN None ELSE creations[k]]
  /\ UNCHANGED <<items, updates, deletions, active, latest, batching, miro, pc, run, merged, edits, touched, posted>>

Raise ==
  /\ failing /\ flying = {} /\ pc' = "idle" /\ failing' = FALSE
  /\ merged' = [k \in Keys |-> None]
  /\ UNCHANGED <<journal, miro, run, flying, faults, edits, touched, posted>>

Finish ==
  /\ pc = "create" /\ flying = {} /\ ~failing /\ Wanted[run] \subseteq Mapped
  /\ latest' = run /\ active' = 0 /\ pc' = "idle"
  /\ UNCHANGED <<items, creations, updates, deletions, batching, miro, run, merged, flying, failing,
                 faults, edits, touched, posted>>

\* The process ends; its requests were executed or never are.
Crash ==
  /\ pc # "idle" /\ faults < MaxFaults /\ faults' = faults + 1
  /\ pc' = "idle" /\ flying' = {} /\ failing' = FALSE /\ merged' = [k \in Keys |-> None]
  /\ UNCHANGED <<journal, miro, run, edits, touched, posted>>

-----------------------------------------------------------------------------
(* People: the editors of the board, and the investigator who resolves     *)

Edit(id) ==
  /\ Live(id) /\ edits < MaxEdits /\ edits' = edits + 1 /\ touched' = touched \cup {id}
  /\ board' \in {[board EXCEPT ![id].text = Manual], [board EXCEPT ![id] = None]}
  /\ UNCHANGED <<journal, nextId, session, faults, posted>>

\* resolve: the object the investigator found for an uncertain POST.
Adopt(k, id) ==
  /\ pc = "idle" /\ creations[k] # None /\ id \in Unmapped /\ board[id].key = k
  /\ items' = [items EXCEPT ![k] = [id |-> id, managed |-> creations[k], intent |-> creations[k]]]
  /\ creations' = [creations EXCEPT ![k] = None]
  /\ UNCHANGED <<updates, deletions, active, latest, batching, miro, session, faults, edits, touched, posted>>

\* resolve --absent: the investigator found none.
Absent(k) ==
  /\ pc = "idle" /\ creations[k] # None /\ \A id \in Ids : Live(id) => board[id].key # k
  /\ creations' = [creations EXCEPT ![k] = None] /\ posted' = [posted EXCEPT ![k] = 0]
  /\ UNCHANGED <<items, updates, deletions, active, latest, batching, miro, session, faults, edits, touched>>

\* initial_pending_batch: nothing was ever acknowledged.
InitialBatch ==
  /\ Mapped = {} /\ latest = 0 /\ active # 0
  /\ \E k \in Keys : creations[k] # None
  /\ \A k \in Keys : updates[k] = None /\ deletions[k] = None /\ (creations[k] # None => k \in Shapes)

\* recover_empty_board: two reads find nothing on the board.
RecoverEmpty ==
  /\ pc = "idle" /\ InitialBatch /\ \A id \in Ids : ~Live(id)
  /\ creations' = [k \in Keys |-> None] /\ batching' = 1
  /\ posted' = [k \in Keys |-> IF creations[k] # None THEN 0 ELSE posted[k]]
  /\ UNCHANGED <<items, updates, deletions, active, latest, miro, session, faults, edits, touched>>

-----------------------------------------------------------------------------
Init ==
  /\ items = [k \in Keys |-> None] /\ creations = [k \in Keys |-> None]
  /\ updates = [k \in Keys |-> None] /\ deletions = [k \in Keys |-> None]
  /\ active = 0 /\ latest = 0 /\ batching = BatchSize
  /\ board = [id \in Ids |-> None] /\ nextId = 1
  /\ pc = "idle" /\ run = 0 /\ merged = [k \in Keys |-> None] /\ flying = {} /\ failing = FALSE
  /\ faults = 0 /\ edits = 0 /\ touched = {} /\ posted = [k \in Keys |-> 0]

Publish ==
  \/ \E n \in Plans : Start(n)
  \/ Preflight \/ Refuse \/ Deleted \/ Updated \/ Raise \/ Finish
  \/ \E k \in Keys : Delete(k) \/ Update(k)
  \/ \E keys \in SUBSET Keys : Create(keys)
  \/ \E q \in flying : Execute(q) \/ Acknowledge(q)

Investigate == RecoverEmpty \/ \E k \in Keys : Absent(k) \/ \E id \in Ids : Adopt(k, id)

Next ==
  \/ Publish \/ Investigate \/ Crash
  \/ \E q \in flying, known \in BOOLEAN : Fail(q, known)
  \/ \E id \in Ids : Edit(id)

Spec == Init /\ [][Next]_vars

\* The investigator resolves what is uncertain and publishes every run; a
\* request is answered.
Newer == \E n \in Plans : n > latest /\ Start(n)
Fairness == WF_vars(Publish \/ Investigate) /\ SF_vars(Newer)
FairSpec == Spec /\ Fairness

-----------------------------------------------------------------------------
(* Properties                                                              *)

\* Every variable has its type; no more requests fly than there are workers, and
\* a batch is as large as the state allows.
TypeOK ==
  /\ items \in [Keys -> Records \cup {None}] /\ board \in [Ids -> Objects \cup {None}]
  /\ merged \in [Keys -> Merges \cup {None}] /\ creations \in [Keys -> Nat \cup {None}]
  /\ updates \in [Keys -> Nat \cup {None}] /\ deletions \in [Keys -> {None, "planned", "attempted"}]
  /\ active \in 0..Runs /\ latest \in 0..Runs /\ batching \in {1, BatchSize}
  /\ Cardinality(flying) <= Workers /\ \A q \in flying : q.keys # {}
  /\ \A q \in flying : q.kind = "post" => q.keys \subseteq Keys /\ Cardinality(q.keys) <= batching
  /\ pc \in {"idle", "preflight", "delete", "update", "create"}

\* Every object the program put on the board is mapped or has an unresolved
\* intent, through crashes, failures and recoveries: none is orphaned.
NothingOrphaned ==
  \A id \in Ids : Live(id) =>
    \/ creations[board[id].key] # None
    \/ board[id].key \in Mapped /\ items[board[id].key].id = id

\* No item is created twice: not after a crash, not after an uncertain answer,
\* and not because a person deleted it.
CreatedOnce == \A k \in Keys : posted[k] <= 1

\* What a person wrote before a call's preflight is neither overwritten nor
\* deleted by that call.
ManualPreserved ==
  [][\A id \in Ids : (Live(id) /\ board[id].text = Manual /\ id \notin touched /\ pc # "idle" /\ edits' = edits)
       => board'[id] = board[id]]_vars

\* No connector the program made is left without the shapes it ends at, unless
\* a person deleted one.
NoDangling ==
  \A id \in Ids : Live(id) => \A end \in board[id].ends : Live(end) \/ edits > 0

\* The journal accounts for the board: each item is there once, nothing the
\* program put there is unknown to it, and no connector hangs.
BoardIsKnown == NothingOrphaned /\ CreatedOnce /\ NoDangling

\* A run counts as synced only when the board shows it: every wanted item has
\* its object, with the plan's text or one a person wrote, and what it retires
\* is gone.
SyncedIsShown ==
  [][latest' # latest \/ (active # 0 /\ active' = 0) =>
       /\ \A k \in Wanted[run] : LET id == items'[k].id IN
            id \in touched \/ (Live(id) /\ board[id].text \in {PlanText[run][k], Manual})
       /\ \A id \in Ids : Live(id) => board[id].key \notin Retired[run]]_vars

\* What the program wrote never goes back to what an older run says (in the
\* instances a text's number is its run's).
NoRegression ==
  [][\A id \in Ids : Live(id) /\ board'[id] # None /\ board[id].text # Manual /\ board'[id].text # Manual
       => board'[id].text >= board[id].text]_vars

\* Publication moves forward: a run is reported once it is shown, and no older
\* text comes back.
SyncIsTrue == SyncedIsShown /\ NoRegression

\* Interrupted publication is always resumed to the end: only what a person did
\* to the board (manual notes on an item to remove, a deleted item) may stop it.
SyncCompletes == <>(latest = Runs \/ edits > 0)
=============================================================================
