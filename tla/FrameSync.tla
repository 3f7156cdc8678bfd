------------------------------ MODULE FrameSync ------------------------------
(* The frames around the activities of a board's graph: the action that       *)
(* creates, moves and removes them (frames_only in _sync of miro.py), and the *)
(* reviewed recovery of a creation whose outcome is not known                 *)
(* (miro_frame_recovery.py).  Miro moves and deletes what is attached to a    *)
(* frame with it, and people attach, move, edit and delete all the while.     *)
(* The frame around the whole graph is one more of the same kind, left out.   *)
EXTENDS Naturals

CONSTANTS
  Plan,      \* sequence of [shapes, links]: the graphs that are synced, one after the other
  Starting,  \* shapes of starting transactions
  Note,      \* an item of people
  Places,
  Layout,    \* [Items -> Places]: where they are at first, no two shapes at one place
  MaxObjects, MaxFaults, MaxEdits, \* bounds
  None

Plans == DOMAIN Plan
Shapes == UNION {Plan[n].shapes : n \in Plans}
Items == Shapes \cup {Note}
Ids == 1..MaxObjects
FrameAssumption ==
  /\ Shapes \subseteq Nat /\ Note \notin Shapes /\ Starting \subseteq Shapes
  /\ Layout \in [Items -> Places] /\ \A s, t \in Shapes : Layout[s] = Layout[t] => s = t
  /\ {MaxObjects, MaxFaults, MaxEdits} \subseteq Nat /\ 0 \notin Plans
  /\ \A n \in Plans : Plan[n].links \subseteq Plan[n].shapes \X Plan[n].shapes
  /\ None \notin Nat /\ None \notin [key : Shapes, bounds : SUBSET Places]
  /\ None \notin [title : Shapes \cup {None}, bounds : SUBSET Places, by : Shapes \cup {None}]

VARIABLES
  graph,    \* the plan that is synced
  mapped,   \* journal: [Shapes -> the frame of the activity with this anchor]
  pending,  \* journal: the creation that is not acknowledged
  deleting, \* journal: [Shapes -> None, "planned" or "attempted"]
  active,   \* journal: active_frame_run_id
  frame,    \* Miro: [Ids -> [title, bounds, by]]
  parent,   \* Miro: [Items -> the frame it is attached to]
  place,    \* Miro: [Items -> where it is]
  pc,       \* the action
  seen,     \* the places and parents it has read
  fits,     \* the frames it has to move
  detach,   \* the children it has to detach first
  flight,   \* the creation it waits for
  late,     \* creations that nobody waits for and that may still arrive
  session,  \* a review or a recovery
  report,   \* the review the investigator has
  recent,   \* history: <<item, frame>> attached since the frame was last seen empty
  hurt,     \* history: moved or deleted with a frame although they were there at the check
  decided,  \* history: the investigator decided about these creations
  faults, edits
journal == <<mapped, pending, deleting, active>>
miro == <<frame, parent, place>>
action == <<pc, seen, fits, detach, flight>>
recovery == <<session, report>>
history == <<recent, hurt, decided>>
counts == <<faults, edits>>
vars == <<graph, journal, miro, action, late, recovery, history, counts>>

-----------------------------------------------------------------------------
(* Activities *)

Closed(n, set) == \A link \in Plan[n].links : link[1] \in set <=> link[2] \in set
Activity(n, s) == {t \in Plan[n].shapes : \A set \in SUBSET Plan[n].shapes : s \in set /\ Closed(n, set) => t \in set}
Least(set) == CHOOSE s \in set : \A t \in set : s <= t
\* Continuing a graph keeps an activity's anchor, merging keeps the smallest.
Anchor(members) == Least(IF members \cap Starting # {} THEN members \cap Starting ELSE members)
activity_frames(n) == {Activity(n, s) : s \in Plan[n].shapes}
Wanted(n) == {Anchor(a) : a \in activity_frames(n)}
frame_bodies(n, k, at) == {at[s] : s \in CHOOSE a \in activity_frames(n) : Anchor(a) = k}

Mapped == {k \in Shapes : mapped[k] # None}
Live(id) == frame[id] # None
Children(id) == {i \in Items : parent[i] = id}
Unmapped == {id \in Ids : Live(id) /\ \A k \in Mapped : mapped[k] # id}
Free == {id \in Ids : ~Live(id) /\ (\A k \in Mapped : mapped[k] # id) /\ \A request \in late : request.id # id}
Unused == CHOOSE id \in Free : TRUE

TypeOK ==
  /\ graph \in {0} \cup Plans /\ active \in {0} \cup Plans
  /\ mapped \in [Shapes -> Ids \cup {None}] /\ parent \in [Items -> Ids \cup {None}]
  /\ place \in [Items -> Places] /\ deleting \in [Shapes -> {None, "planned", "attempted"}]
  /\ pc \in {"idle", "read", "children", "detach", "move", "create", "post", "remove", "delete", "deleted"}
  /\ session.pc \in {"idle", "inventory", "read", "commit"} /\ decided \subseteq Shapes
NoSession == [pc |-> "idle", choice |-> None, inventory |-> None]
Init ==
  /\ graph = 0 /\ mapped = [k \in Shapes |-> None] /\ pending = None
  /\ deleting = [k \in Shapes |-> None] /\ active = 0
  /\ frame = [id \in Ids |-> None] /\ parent = [i \in Items |-> None]
  /\ place = Layout
  /\ pc = "idle" /\ seen = None /\ fits = None /\ detach = {} /\ flight = None /\ late = {}
  /\ session = NoSession /\ report = None /\ recent = {} /\ hurt = {} /\ decided = {}
  /\ faults = 0 /\ edits = 0

-----------------------------------------------------------------------------
(* The frame action *)

\* _load_sync_state, and _check_frame_operation for a graph: an uncertain
\* creation or an interrupted frame action has to be finished first.
Ready == pc = "idle" /\ session.pc = "idle" /\ pending = None
SyncGraph ==
  /\ Ready /\ active = 0 /\ (\A k \in Shapes : deleting[k] = None) /\ graph + 1 \in Plans
  /\ graph' = graph + 1
  /\ UNCHANGED <<journal, miro, action, late, recovery, history, counts>>
\* The frames of the latest complete sync, and of no other interrupted action.
_check_frame_operation(plan) == plan # 0 /\ active \in {0, plan}
\* The dry run before it reads the journal and nothing else, and the action
\* checks all of that again once it holds the lock.
frame_run ==
  /\ Ready /\ _check_frame_operation(graph) /\ pc' = "read"
  /\ UNCHANGED <<graph, journal, miro, seen, fits, detach, flight, late, recovery, history, counts>>
_frame_removals == Mapped \ Wanted(graph)
Tolerated == {k \in _frame_removals : deleting[k] = "attempted"}
End == pc' = "idle" /\ seen' = None /\ fits' = None /\ detach' = {} /\ flight' = None
Raise == End /\ UNCHANGED <<graph, journal, miro, late, recovery, history, counts>>
\* A shape in a frame that is not managed has no place that could be read.
preflight ==
  /\ pc = "read"
  /\ IF \/ \E k \in Mapped \ Tolerated : ~Live(mapped[k])
        \/ \E s \in Shapes : parent[s] # None /\ \A k \in Mapped : mapped[k] # parent[s]
     THEN Raise
     ELSE /\ pc' = "children"
          /\ seen' = [place |-> place, parent |-> parent,
                       bounds |-> [k \in {m \in Mapped : Live(mapped[m])} |-> frame[mapped[k]].bounds]]
          /\ UNCHANGED <<graph, journal, miro, fits, detach, flight, late, recovery, history, counts>>
Fit(k) == frame_bodies(graph, k, seen.place)
SeenLive == DOMAIN seen.bounds
Moving == {k \in SeenLive \cap Wanted(graph) : seen.bounds[k] # Fit(k)}
Affected == {mapped[k] : k \in Moving \cup (_frame_removals \cap SeenLive)}
\* What is attached to a frame that will change is what was read of the shapes.
validate_frame_children ==
  /\ pc = "children"
  /\ IF \A id \in Affected : Live(id) /\ Children(id) = {s \in Shapes : seen.parent[s] = id}
     THEN /\ detach' = {s \in Shapes : seen.parent[s] \in Affected}
          /\ fits' = [k \in Moving |-> Fit(k)]
          /\ active' = graph
          /\ deleting' = [k \in Shapes |-> IF k \in _frame_removals /\ deleting[k] = None THEN "planned"
                                           ELSE deleting[k]]
          /\ pc' = "detach"
          /\ UNCHANGED <<graph, mapped, pending, miro, seen, flight, late, recovery, history, counts>>
     ELSE Raise
\* Every shape is put where it was read, out of its frame.
Detach(s) ==
  /\ pc = "detach" /\ s \in detach /\ detach' = detach \ {s}
  /\ parent' = [parent EXCEPT ![s] = None] /\ place' = [place EXCEPT ![s] = seen.place[s]]
  /\ UNCHANGED <<graph, journal, frame, pc, seen, fits, flight, late, recovery, history, counts>>
Empty(k) == Live(mapped[k]) /\ Children(mapped[k]) = {}
SeenEmpty(ids) == recent' = {r \in recent : r[2] \notin ids}
check_empty_frames ==
  /\ pc = "detach" /\ detach = {}
  /\ IF \A k \in DOMAIN fits : Empty(k)
     THEN /\ pc' = "move" /\ SeenEmpty({mapped[k] : k \in DOMAIN fits})
          /\ UNCHANGED <<graph, journal, miro, seen, fits, detach, flight, late, recovery, hurt, decided, counts>>
     ELSE Raise
\* What is attached to a frame goes with it.
Carries(id) == hurt' = hurt \cup {i \in Children(id) : <<i, id>> \notin recent}
Move(k) ==
  /\ pc = "move" /\ k \in DOMAIN fits
  /\ IF Live(mapped[k])
     THEN /\ frame' = [frame EXCEPT ![mapped[k]].bounds = fits[k]] /\ Carries(mapped[k])
          /\ fits' = [l \in DOMAIN fits \ {k} |-> fits[l]]
          /\ \E p \in Places : place' = [i \in Items |-> IF parent[i] = mapped[k] THEN p ELSE place[i]]
          /\ UNCHANGED <<graph, journal, parent, pc, seen, detach, flight, late, recovery, recent, decided, counts>>
     ELSE Raise
Moved ==
  /\ pc = "move" /\ DOMAIN fits = {} /\ pc' = "create"
  /\ UNCHANGED <<graph, journal, miro, seen, fits, detach, flight, late, recovery, history, counts>>

\* The intent is durable before the request.
Create(k) ==
  /\ pc = "create" /\ k \in Wanted(graph) \ Mapped
  /\ pending' = [key |-> k, bounds |-> Fit(k)] /\ flight' = [key |-> k, bounds |-> Fit(k), id |-> None]
  /\ pc' = "post"
  /\ UNCHANGED <<graph, mapped, deleting, active, miro, seen, fits, detach, late, recovery, history, counts>>
Made(body) == [title |-> body.key, bounds |-> body.bounds, by |-> body.key]
Execute ==
  /\ pc = "post" /\ flight.id = None /\ Free # {}
  /\ frame' = [frame EXCEPT ![Unused] = Made(flight)] /\ flight' = [flight EXCEPT !.id = Unused]
  /\ UNCHANGED <<graph, journal, parent, place, pc, seen, fits, detach, late, recovery, history, counts>>
\* The mapping of the frame and the end of the intent are one commit.
accept ==
  /\ pc = "post" /\ flight.id # None
  /\ mapped' = [mapped EXCEPT ![flight.key] = flight.id] /\ pending' = None /\ flight' = None /\ pc' = "create"
  /\ UNCHANGED <<graph, deleting, active, miro, seen, fits, detach, late, recovery, history, counts>>
\* A creation that Miro refuses leaves no intent, a deletion stays attempted.
Rejected ==
  /\ (pc = "post" /\ flight.id = None) \/ pc = "delete"
  /\ faults < MaxFaults /\ faults' = faults + 1 /\ End
  /\ pending' = IF pc = "post" THEN None ELSE pending
  /\ UNCHANGED <<graph, mapped, deleting, active, miro, late, recovery, history, edits>>
\* The connection is lost, or the process dies: nobody knows what Miro does.
Interrupt ==
  /\ pc # "idle" /\ faults < MaxFaults /\ faults' = faults + 1 /\ End
  /\ late' = IF pc = "delete" \/ (pc = "post" /\ flight.id = None) THEN late \cup {flight} ELSE late
  /\ UNCHANGED <<graph, journal, miro, recovery, history, edits>>
\* Frames go last, each after another look at its children, if it was there.
Check(k) ==
  /\ pc = "create" /\ Wanted(graph) \subseteq Mapped /\ k \in _frame_removals
  /\ IF k \in SeenLive /\ ~Empty(k) THEN Raise
     ELSE /\ deleting' = [deleting EXCEPT ![k] = "attempted"] /\ SeenEmpty({mapped[k]}) /\ pc' = "delete"
          /\ flight' = [key |-> k, bounds |-> {}, id |-> mapped[k]]
          /\ UNCHANGED <<graph, mapped, pending, active, miro, seen, fits, detach, late, recovery,
                         hurt, decided, counts>>
Remove(id) ==
  /\ frame' = [frame EXCEPT ![id] = None] /\ Carries(id)
  /\ parent' = [i \in Items |-> IF parent[i] = id THEN None ELSE parent[i]]
Delete ==
  /\ pc = "delete" /\ Remove(flight.id) /\ pc' = "deleted"
  /\ UNCHANGED <<graph, journal, place, seen, fits, detach, flight, late, recovery, recent, decided, counts>>
Deleted ==
  /\ pc = "deleted" /\ pc' = "create" /\ flight' = None
  /\ mapped' = [mapped EXCEPT ![flight.key] = None] /\ deleting' = [deleting EXCEPT ![flight.key] = None]
  /\ UNCHANGED <<graph, pending, active, miro, seen, fits, detach, late, recovery, history, counts>>
Finish ==
  /\ pc = "create" /\ Mapped = Wanted(graph) /\ active' = 0 /\ End
  /\ UNCHANGED <<graph, mapped, pending, deleting, miro, late, recovery, history, counts>>
Arrive(request) ==
  /\ late' = late \ {request}
  /\ IF request.id = None
     THEN Free # {} /\ frame' = [frame EXCEPT ![Unused] = Made(request)] /\ UNCHANGED <<parent, hurt>>
     ELSE Remove(request.id)
  /\ UNCHANGED <<graph, journal, place, action, recovery, recent, decided, counts>>

-----------------------------------------------------------------------------
(* Recovery of a creation whose outcome is not known *)

Absent == 0
\* Nothing else is left to recover.
pending_frame == pending # None /\ \A k \in Shapes : deleting[k] = None
_session(choice) ==
  /\ pc = "idle" /\ session.pc = "idle" /\ pending_frame
  /\ session' = [NoSession EXCEPT !.pc = "inventory", !.choice = choice]
  /\ UNCHANGED <<graph, journal, miro, action, late, report, history, counts>>
\* A review has no choice, and precedes every choice.
recover_miro_frame(choice) == (choice # None => report # None) /\ _session(choice)
_inventory ==
  /\ session.pc = "inventory"
  /\ session' = [session EXCEPT !.pc = "read", !.inventory = [id \in {f \in Ids : Live(f)} |-> frame[id]]]
  /\ UNCHANGED <<graph, journal, miro, action, late, report, history, counts>>
ToRead == {id \in DOMAIN session.inventory : \A k \in Mapped : mapped[k] # id}
Looks(record) == [title |-> record.title, bounds |-> record.bounds]
Candidates(records) == {id \in DOMAIN records : records[id].title = pending.key /\ records[id].bounds = pending.bounds}
Potential(records) == {id \in DOMAIN records : records[id].title = pending.key \/ records[id].bounds = pending.bounds}
Refuse == session' = NoSession /\ UNCHANGED report
\* The digest of a review covers what both reads have shown.
Digest(records) == [inventory |-> [id \in DOMAIN session.inventory |-> Looks(session.inventory[id])],
                    records |-> [id \in DOMAIN records |-> Looks(records[id])]]
_review ==
  /\ session.pc = "read"
  /\ IF \E id \in ToRead : ~Live(id) THEN session' = NoSession /\ report' = None
     ELSE LET records == [id \in ToRead |-> frame[id]]
          IN CASE session.choice = None -> report' = Digest(records) /\ session' = NoSession
               [] session.choice # None /\ report = Digest(records)
                  /\ (session.choice = Absent => Potential(records) = {})
                  /\ (session.choice # Absent => session.choice \in Candidates(records))
                  -> session' = [session EXCEPT !.pc = "commit"] /\ UNCHANGED report
               [] OTHER -> session' = NoSession /\ report' = None
  /\ UNCHANGED <<graph, journal, miro, action, late, history, counts>>
recover_pending_frame ==
  /\ session.pc = "commit" /\ session' = NoSession /\ report' = None
  /\ decided' = decided \cup {pending.key} /\ pending' = None
  /\ mapped' = IF session.choice = Absent THEN mapped ELSE [mapped EXCEPT ![pending.key] = session.choice]
  /\ UNCHANGED <<graph, deleting, active, miro, action, late, recent, hurt, faults, edits>>

-----------------------------------------------------------------------------
(* People at the board *)

Person == edits < MaxEdits /\ edits' = edits + 1
          /\ UNCHANGED <<graph, journal, action, late, recovery, hurt, decided, faults>>
Attach(i) ==
  /\ Person /\ UNCHANGED <<frame, place>>
  /\ \E id \in {f \in Ids : Live(f)} \ {parent[i]} :
       parent' = [parent EXCEPT ![i] = id] /\ recent' = {r \in recent : r[1] # i} \cup {<<i, id>>}
MoveOut(i) ==
  /\ Person /\ UNCHANGED <<frame, recent>> /\ parent' = [parent EXCEPT ![i] = None]
  /\ \E p \in Places : place' = [place EXCEPT ![i] = p]
EditFrame(id) ==
  /\ Person /\ Live(id) /\ UNCHANGED <<parent, place, recent>>
  /\ \/ frame' = [frame EXCEPT ![id].bounds = {}] \/ frame' = [frame EXCEPT ![id].title = None]
     \/ frame' = [frame EXCEPT ![id] = None] /\ Children(id) = {}
Copy(id) ==
  /\ Person /\ Live(id) /\ Free # {} /\ UNCHANGED <<parent, place, recent>>
  /\ frame' = [frame EXCEPT ![Unused] = [frame[id] EXCEPT !.by = None]]

Frames ==
  \/ SyncGraph \/ frame_run \/ preflight \/ validate_frame_children \/ check_empty_frames
  \/ Moved \/ Execute \/ accept \/ Delete \/ Deleted \/ Finish
  \/ \E k \in Shapes : Detach(k) \/ Move(k) \/ Create(k) \/ Check(k)
Recovers == (\E choice \in Ids \cup {None, Absent} : recover_miro_frame(choice)) \/ _inventory \/ _review \/ recover_pending_frame
Faults == Rejected \/ Interrupt \/ \E request \in late : Arrive(request)
People == (\E i \in Items : Attach(i) \/ MoveOut(i)) \/ \E id \in Ids : EditFrame(id) \/ Copy(id)
Next == Frames \/ Recovers \/ Faults \/ People
Spec == Init /\ [][Next]_vars

-----------------------------------------------------------------------------
(* Properties *)

\* Nothing is moved or deleted with a frame but what was attached to it after
\* the program last saw it without children.
ContentsStay == hurt = {}
\* A frame that the program made is in its mapping or about to be, unless its
\* creation ended with a decision of the investigator: no activity gets a
\* second frame on its own.
NoUndecidedTwin ==
  \A id \in Unmapped : frame[id].by # None =>
    frame[id].by \in decided \/ (pending # None /\ pending.key = frame[id].by)
\* Two activities never share a frame.
OwnFrames == \A k, l \in Mapped : mapped[k] = mapped[l] => k = l
\* A frame is adopted only if it looked as intended in a review and again after.
SeenIsAdopted == [][
  \A k \in Shapes : mapped[k] = None /\ mapped'[k] # None /\ session.pc = "commit" =>
    /\ mapped'[k] \in DOMAIN report.records
    /\ report.records[mapped'[k]] = [title |-> k, bounds |-> pending.bounds]]_vars
=============================================================================
