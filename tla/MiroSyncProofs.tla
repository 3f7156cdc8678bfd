--------------------------- MODULE MiroSyncProofs ---------------------------
(***************************************************************************)
(* Publication never loses track of a board (MiroSync): for every plan,     *)
(* every number of workers, of faults and of edits, the journal knows every *)
(* object the program made, no item is made twice, no connector loses a     *)
(* shape it ends at, what a person wrote is kept, and a run that is         *)
(* reported as synced is shown.                                             *)
(*                                                                         *)
(* None of it is inductive: whether a lost POST can leave an unknown object *)
(* depends on what was in flight, that on the phase of the call, and that   *)
(* on what the journal intends.  The invariant has a part for each.  What   *)
(* the texts say is a second layer on top of it (WordsInv, ManualInv,       *)
(* GrownInv, GoneInv, ShownInv).                                            *)
(***************************************************************************)
EXTENDS MiroSync, FiniteSetTheorems, TLAPS

-----------------------------------------------------------------------------
(* The invariant                                                           *)

NoneUncertain == \A k \in Keys : creations[k] = None
NoneRemoved == \A k \in Keys : deletions[k] = None
Flies(kind, k) == \E q \in flying : q.kind = kind /\ k \in q.keys
ObjectsOf(k) == {id \in Ids : Live(id) /\ board[id].key = k}

IsRequest(q) ==
  /\ q = [kind |-> q.kind, keys |-> q.keys, ids |-> q.ids]
  /\ q.kind \in {"post", "patch", "delete"} /\ q.keys \subseteq Keys /\ q.keys # {}
  /\ q.kind # "post" => \E k \in Keys : q.keys = {k}
  /\ q.ids = <<>> \/ q.ids \in [q.keys -> Ids]

\* The rest of the types.
TypeInv ==
  /\ TypeOK /\ (\A q \in flying : IsRequest(q)) /\ IsFiniteSet(flying)
  /\ nextId \in 1..(MaxObjects + 1) /\ run \in 0..Runs /\ failing \in BOOLEAN /\ edits \in Nat
  /\ posted \in [Keys -> Nat]

\* What each phase of a call has to do and has done; one request at a time is
\* about an item.
Phase == [post |-> "create", patch |-> "update", delete |-> "delete"]
SessionInv ==
  /\ pc # "idle" => run \in Plans
  /\ pc = "preflight" => active \in {0, run}
  /\ pc \in {"delete", "update", "create"} => active = run
  /\ failing => pc \in {"delete", "update", "create"}
  /\ \A q \in flying : pc = Phase[q.kind]
  /\ \A q, r \in flying : q # r => q.keys \cap r.keys = {}
  /\ pc \in {"preflight", "delete", "update"} => NoneUncertain
  /\ pc \in {"update", "create"} => NoneRemoved
  /\ \A k \in Keys : merged[k] # None =>
       pc \in {"delete", "update"} /\ k \in Mapped \cap Wanted[run]

\* What the journal intends is about to be done: an item is removed because the
\* run that is synced retires it, and with it the connectors at it; an intent
\* to create belongs to an item that is not there.
IntentInv ==
  /\ \A k \in Keys : deletions[k] # None => k \in Mapped /\ active # 0 /\ k \in Retired[active]
  /\ \A k \in Keys : creations[k] # None => k \notin Mapped /\ NoneRemoved
  /\ \A k \in Keys : creations[k] # None /\ pc = "create" => failing \/ Flies("post", k)
  /\ \A c \in Connectors \cap Mapped : \A s \in Ends[c] : deletions[s] # None => deletions[c] # None

\* A request in flight has its intent in the journal.
Sound(q) ==
  \A k \in q.keys :
    /\ q.kind = "post" => /\ creations[k] # None /\ k \in Wanted[run]
                          /\ k \in Connectors => Ends[k] \subseteq Mapped
    /\ q.kind = "post" /\ ~Executed(q) => posted[k] = 0
    /\ q.kind = "post" /\ Executed(q) =>
         /\ ObjectsOf(k) \subseteq {q.ids[k]} /\ q.ids[k] < nextId
         /\ Live(q.ids[k]) => board[q.ids[k]].key = k
         /\ edits = 0 => Live(q.ids[k])
    /\ q.kind = "patch" => merged[k] # None /\ merged[k].patch # None
    /\ q.kind = "delete" => deletions[k] = "attempted"
    /\ q.kind = "delete" /\ Executed(q) => ~Live(items[k].id)

FlightInv == \A q \in flying : Sound(q)

\* What the board holds is what was posted, and what the journal knows of it.
BoardInv ==
  /\ NothingOrphaned /\ CreatedOnce
  /\ \A id \in Ids : Live(id) => id < nextId
  /\ \A k \in Keys : \A i, j \in ObjectsOf(k) : i = j
  /\ \A k \in Keys : posted[k] = 0 => ObjectsOf(k) = {}
  /\ \A k \in Keys : k \notin Mapped /\ creations[k] = None => posted[k] = 0
  /\ \A k \in Mapped : items[k].id < nextId /\ (Live(items[k].id) => board[items[k].id].key = k)

\* As long as nobody edits the board, what is mapped is there unless its removal
\* was attempted; a connector has the ends the journal knows, and goes first.
EndsInv ==
  edits = 0 =>
    /\ \A k \in Mapped : Live(items[k].id) \/ deletions[k] = "attempted"
    /\ \A id \in Ids : Live(id) =>
         IF board[id].key \in Connectors
         THEN Ends[board[id].key] \subseteq Mapped /\ board[id].ends = {items[s].id : s \in Ends[board[id].key]}
         ELSE board[id].ends = {}
    /\ \A s \in Shapes : deletions[s] = "attempted" =>
         \A c \in Connectors : s \in Ends[c] => ObjectsOf(c) = {}

IInv == TypeInv /\ SessionInv /\ IntentInv /\ FlightInv /\ BoardInv /\ EndsInv
-----------------------------------------------------------------------------
(* Lemmas                                                                  *)

\* A request Miro has executed knows the ids, one per key.
LEMMA ExecutedIds ==
  ASSUME NEW q, IsRequest(q)
  PROVE  /\ Executed(q) => q.ids \in [q.keys -> Ids]
         /\ q.ids \in [q.keys -> Ids] => Executed(q)
         /\ ~Executed(q) => q.ids = <<>>
<1>1. q.ids \in [q.keys -> Ids] => DOMAIN q.ids # {}
  BY DEF IsRequest
<1>2. DOMAIN <<>> = {}
  OBVIOUS
<1> QED BY <1>1, <1>2 DEF IsRequest, Executed

\* A new request is one.
LEMMA NewRequest ==
  ASSUME NEW kind \in {"post", "patch", "delete"}, NEW K \in SUBSET Keys, K # {},
         kind # "post" => \E k \in Keys : K = {k}
  PROVE  /\ IsRequest(Request(kind, K)) /\ ~Executed(Request(kind, K))
         /\ Request(kind, K).kind = kind /\ Request(kind, K).keys = K
BY DEF IsRequest, Request, Executed

\* What Miro makes of one.
LEMMA AnsweredRequest ==
  ASSUME NEW q, IsRequest(q), NEW f \in [q.keys -> Ids]
  PROVE  /\ IsRequest([q EXCEPT !.ids = f]) /\ Executed([q EXCEPT !.ids = f])
         /\ [q EXCEPT !.ids = f].kind = q.kind /\ [q EXCEPT !.ids = f].keys = q.keys
         /\ [q EXCEPT !.ids = f].ids = f
<1> DEFINE r == [q EXCEPT !.ids = f]
<1>1. r = [kind |-> q.kind, keys |-> q.keys, ids |-> f]
  BY DEF IsRequest
<1>2. IsRequest(r) /\ r.ids = f /\ r.kind = q.kind /\ r.keys = q.keys
  BY <1>1 DEF IsRequest
<1> QED BY <1>2, ExecutedIds

\* Requests are counted as they come and go.
LEMMA Counting ==
  ASSUME NEW S, IsFiniteSet(S), NEW q
  PROVE  /\ Cardinality(S) \in Nat
         /\ IsFiniteSet(S \cup {q}) /\ Cardinality(S \cup {q}) <= Cardinality(S) + 1
         /\ IsFiniteSet(S \ {q}) /\ Cardinality(S \ {q}) <= Cardinality(S)
         /\ q \in S => Cardinality(S \ {q}) = Cardinality(S) - 1
<1>1. Cardinality(S) \in Nat
  BY FS_CardinalityType
<1>2. IsFiniteSet(S \cup {q}) /\ Cardinality(S \cup {q}) = IF q \in S THEN Cardinality(S) ELSE Cardinality(S) + 1
  BY FS_AddElement
<1>3. IsFiniteSet(S \ {q}) /\ Cardinality(S \ {q}) = IF q \in S THEN Cardinality(S) - 1 ELSE Cardinality(S)
  BY FS_RemoveElement
<1> QED BY <1>1, <1>2, <1>3

\* A recovered record is one of the same object.
LEMMA RecoveredKeeps ==
  ASSUME MiroSyncAssumption, TypeOK, NEW k \in Keys
  PROVE  /\ Recovered(k) \in Records \cup {None}
         /\ Recovered(k) # None <=> k \in Mapped
         /\ k \in Mapped => Recovered(k).id = items[k].id
<1>1. CASE Recovered(k) = items[k]
  BY <1>1 DEF TypeOK, Mapped
<1>2. CASE Recovered(k) # items[k]
  <2>1. k \in Mapped /\ updates[k] # None
    BY <1>2 DEF Recovered
  <2>2. updates[k] \in Nat /\ items[k] \in Records
    BY <2>1 DEF TypeOK, Mapped
  <2>3. Recovered(k) = [items[k] EXCEPT !.managed = updates[k], !.intent = updates[k]]
    BY <1>2 DEF Recovered
  <2>4. Recovered(k) \in Records /\ Recovered(k).id = items[k].id
    BY <2>2, <2>3 DEF Records, Texts
  <2> QED BY <2>1, <2>4 DEF MiroSyncAssumption
<1> QED BY <1>1, <1>2

\* So is a merge.
LEMMA MergeTyped ==
  ASSUME NEW r \in Records, NEW current \in Texts, NEW desired \in Nat
  PROVE  Merge(r, current, desired) \in Merges
BY DEF Merge, Merges, Records, Texts

-----------------------------------------------------------------------------
(* Types                                                                   *)

LEMMA TypeStep ==
  ASSUME MiroSyncAssumption, IInv, [Next]_vars
  PROVE  TypeInv'
<1> USE DEF journal, miro, session
<1>0. TypeInv /\ TypeOK
  BY DEF IInv, TypeInv
<1>1. CASE UNCHANGED vars
  BY <1>0, <1>1 DEF TypeInv, TypeOK, vars, IsRequest
<1>2. ASSUME NEW n \in Plans, Start(n) PROVE TypeInv'
  BY <1>0, <1>2, n \in 0..Runs DEF TypeInv, TypeOK, Start, IsRequest, Plans, MiroSyncAssumption
<1>3. CASE Preflight
  <2> DEFINE kept == (Wanted[run] \cap Mapped) \ Removals(run)
             plan == [k \in Keys |-> IF k \in kept
                        THEN Merge(Recovered(k), board[items[k].id].text, PlanText[run][k]) ELSE None]
  <2>1. run \in Plans
    BY <1>3 DEF IInv, SessionInv, Preflight
  <2>2. ASSUME NEW k \in kept PROVE plan[k] \in Merges
    <3>1. k \in Keys /\ k \in Mapped /\ k \notin Tolerated
      BY DEF Mapped, Tolerated
    <3>2. items[k].id \in Ids /\ Live(items[k].id)
      BY <1>0, <1>3, <3>1 DEF Preflight, Missing, Mapped, TypeOK, Records
    <3>3. board[items[k].id].text \in Texts
      BY <1>0, <3>2 DEF Live, TypeOK, Objects
    <3>4. Recovered(k) \in Records
      BY <1>0, <3>1, RecoveredKeeps
    <3>5. PlanText[run][k] \in Nat
      BY <2>1, <3>1 DEF MiroSyncAssumption
    <3> QED BY <3>1, <3>3, <3>4, <3>5, MergeTyped
  <2>3. merged' = plan
    BY <1>3 DEF Preflight
  <2>4. plan \in [Keys -> Merges \cup {None}]
    BY <2>2
  <2>5. updates' = [k \in Keys |-> IF k \in kept THEN plan[k].patch ELSE None]
    BY <1>3 DEF Preflight
  <2>6. updates' \in [Keys -> Nat \cup {None}]
    <3> HIDE DEF plan
    <3> QED BY <2>2, <2>5 DEF Merges
  <2>7. items' \in [Keys -> Records \cup {None}]
    BY <1>0, <1>3, RecoveredKeeps DEF Preflight
  <2>8. deletions' \in [Keys -> {None, "planned", "attempted"}]
    BY <1>0, <1>3 DEF Preflight, TypeOK
  <2>9. active' \in 0..Runs
    BY <1>3, <2>1 DEF Preflight, Plans, MiroSyncAssumption
  <2> HIDE DEF plan, kept
  <2> QED BY <1>0, <1>3, <2>3, <2>4, <2>6, <2>7, <2>8, <2>9 DEF TypeInv, TypeOK, Preflight, IsRequest
<1>4. CASE Refuse
  BY <1>0, <1>4 DEF TypeInv, TypeOK, Refuse, IsRequest
<1>5. CASE Deleted
  BY <1>0, <1>5 DEF TypeInv, TypeOK, Deleted, IsRequest
<1>6. CASE Updated
  BY <1>0, <1>6 DEF TypeInv, TypeOK, Updated, IsRequest
<1>7. CASE Raise
  BY <1>0, <1>7 DEF TypeInv, TypeOK, Raise, IsRequest
<1>8. CASE Finish
  BY <1>0, <1>8, 0 \in 0..Runs DEF TypeInv, TypeOK, Finish, IsRequest, MiroSyncAssumption
<1>9. ASSUME NEW k \in Keys, Delete(k) PROVE TypeInv'
  <2>1. flying' = {Request("delete", {k})}
    BY <1>9 DEF Delete
  <2>2. IsRequest(Request("delete", {k})) /\ Request("delete", {k}).kind # "post"
    BY NewRequest
  <2>3. IsFiniteSet(flying') /\ Cardinality(flying') <= Workers
    <3>1. IsFiniteSet({Request("delete", {k})}) /\ Cardinality({Request("delete", {k})}) = 1
      BY FS_Singleton
    <3> QED BY <2>1, <3>1 DEF MiroSyncAssumption
  <2>4. deletions' \in [Keys -> {None, "planned", "attempted"}]
    BY <1>0, <1>9 DEF Delete, TypeOK
  <2>5. \A q \in flying' : IsRequest(q) /\ q.keys # {} /\ q.kind # "post"
    BY <2>1, <2>2 DEF IsRequest
  <2> QED BY <1>0, <1>9, <2>3, <2>4, <2>5 DEF TypeInv, TypeOK, Delete, IsRequest
<1>10. ASSUME NEW k \in Keys, Update(k) PROVE TypeInv'
  <2>1. merged[k] \in Merges /\ k \in Mapped /\ items[k] \in Records
    BY <1>0, <1>10 DEF Update, TypeOK, IInv, SessionInv, Mapped
  <2>2. CASE merged[k].patch = None
    <3>1. items' \in [Keys -> Records \cup {None}]
      <4>1. [items[k] EXCEPT !.managed = merged[k].managed, !.intent = merged[k].intent] \in Records
        BY <2>1 DEF Records, Merges
      <4>2. items' = [items EXCEPT ![k] = [items[k] EXCEPT !.managed = merged[k].managed, !.intent = merged[k].intent]]
        BY <1>0, <1>10, <2>2 DEF Update, TypeOK
      <4> QED BY <1>0, <4>1, <4>2 DEF TypeOK
    <3>2. merged' \in [Keys -> Merges \cup {None}]
      BY <1>0, <1>10, <2>2 DEF Update, TypeOK
    <3> QED BY <1>0, <1>10, <2>2, <3>1, <3>2 DEF TypeInv, TypeOK, Update, IsRequest
  <2>3. CASE merged[k].patch # None
    <3>1. flying' = flying \cup {Request("patch", {k})} /\ UNCHANGED <<items, merged>>
      BY <1>10, <2>3 DEF Update
    <3>2. IsRequest(Request("patch", {k})) /\ Request("patch", {k}).kind # "post"
      BY NewRequest
    <3>3. IsFiniteSet(flying') /\ Cardinality(flying') <= Workers
      <4>1. Cardinality(flying) < Workers /\ IsFiniteSet(flying)
        BY <1>0, <1>10 DEF Update, TypeInv
      <4>2. IsFiniteSet(flying') /\ Cardinality(flying') <= Cardinality(flying) + 1 /\ Cardinality(flying) \in Nat
        BY <3>1, <4>1, Counting
      <4>3. Cardinality(flying') \in Nat
        BY <4>2, FS_CardinalityType
      <4> QED BY <4>1, <4>2, <4>3 DEF MiroSyncAssumption
    <3>4. \A q \in flying' : q \in flying \/ (IsRequest(q) /\ q.keys # {} /\ q.kind # "post")
      BY <3>1, <3>2 DEF IsRequest
    <3> QED BY <1>0, <1>10, <3>1, <3>3, <3>4 DEF TypeInv, TypeOK, Update, IsRequest
  <2> QED BY <2>2, <2>3
<1>11. ASSUME NEW keys \in SUBSET Keys, Create(keys) PROVE TypeInv'
  <2>1. run \in Plans
    BY <1>11 DEF IInv, SessionInv, Create
  <2>2. creations' \in [Keys -> Nat \cup {None}]
    BY <1>0, <1>11, <2>1 DEF Create, TypeOK, MiroSyncAssumption
  <2>3. keys # {} /\ flying' = flying \cup {Request("post", keys)}
    BY <1>11 DEF Create
  <2>4. IsRequest(Request("post", keys)) /\ Request("post", keys).keys = keys
    BY <2>3, NewRequest
  <2>5. IsFiniteSet(flying) /\ IsFiniteSet(keys) /\ Cardinality(keys) \in Nat
    BY <1>0, FS_Subset, FS_CardinalityType DEF TypeInv, MiroSyncAssumption
  <2>6. Cardinality(flying) < Workers
    <3>1. Cardinality({}) = 0
      BY FS_EmptySet
    <3>2. flying = {} \/ Cardinality(flying) < Workers
      BY <1>11 DEF Create
    <3>3. 0 < Workers
      BY DEF MiroSyncAssumption
    <3> QED BY <3>1, <3>2, <3>3
  <2>7. IsFiniteSet(flying') /\ Cardinality(flying') <= Workers
    <3>1. IsFiniteSet(flying') /\ Cardinality(flying') <= Cardinality(flying) + 1 /\ Cardinality(flying) \in Nat
      BY <2>3, <2>5, Counting
    <3>2. Cardinality(flying') \in Nat
      BY <3>1, FS_CardinalityType
    <3> QED BY <2>6, <3>1, <3>2 DEF MiroSyncAssumption
  <2>8. Cardinality(keys) <= batching
    BY <1>0, <1>11 DEF Create, FitsBatch, TypeOK, MiroSyncAssumption
  <2>9. \A q \in flying' : q \in flying \/ (IsRequest(q) /\ q.keys = keys)
    BY <2>3, <2>4
  <2>10. batching' = batching /\ UNCHANGED <<items, updates, deletions, active, latest, miro, pc, run, merged, failing, edits, posted>>
    BY <1>11 DEF Create
  <2> QED BY <1>0, <2>2, <2>3, <2>7, <2>8, <2>9, <2>10 DEF TypeInv, TypeOK, IsRequest
<1>12. ASSUME NEW q \in flying, Execute(q) PROVE TypeInv'
  <2>0. IsRequest(q) /\ run \in Plans /\ IsFiniteSet(flying) /\ q.keys \subseteq Keys
    BY <1>0 DEF TypeInv, IInv, SessionInv, Phase, IsRequest
  <2>1. ASSUME NEW f \in [q.keys -> Ids], flying' = (flying \ {q}) \cup {[q EXCEPT !.ids = f]}
        PROVE  /\ IsFiniteSet(flying') /\ Cardinality(flying') <= Workers
               /\ \A r \in flying' : /\ IsRequest(r) /\ r.keys # {}
                                     /\ r.kind = "post" => r.keys \subseteq Keys /\ Cardinality(r.keys) <= batching
    <3> DEFINE answered == [q EXCEPT !.ids = f]
    <3>1. IsRequest(answered) /\ answered.kind = q.kind /\ answered.keys = q.keys
      BY <2>0, AnsweredRequest
    <3>2. flying' = (flying \ {q}) \cup {answered}
      BY <2>1
    <3> HIDE DEF answered
    <3>3. /\ IsFiniteSet(flying \ {q}) /\ Cardinality(flying \ {q}) = Cardinality(flying) - 1
          /\ Cardinality(flying) \in Nat
      BY <2>0, Counting
    <3>4. IsFiniteSet(flying') /\ Cardinality(flying') <= Cardinality(flying \ {q}) + 1
      BY <3>2, <3>3, Counting
    <3>5. Cardinality(flying') \in Nat
      BY <3>4, FS_CardinalityType
    <3>6. Cardinality(flying') <= Workers
      BY <1>0, <3>3, <3>4, <3>5 DEF TypeOK, MiroSyncAssumption
    <3>7. \A r \in flying : /\ IsRequest(r) /\ r.keys # {}
                            /\ r.kind = "post" => r.keys \subseteq Keys /\ Cardinality(r.keys) <= batching
      BY <1>0 DEF TypeInv, TypeOK
    <3>8. \A r \in flying' : r \in flying \/ r = answered
      BY <3>2
    <3> QED BY <3>1, <3>4, <3>6, <3>7, <3>8
  <2>2. CASE q.kind = "post"
    <3> DEFINE last == nextId + Cardinality(q.keys) - 1
    <3>1. IsFiniteSet(q.keys) /\ Cardinality(q.keys) \in Nat
      BY <2>0, FS_Subset, FS_CardinalityType DEF MiroSyncAssumption
    <3>2. /\ nextId + Cardinality(q.keys) <= MaxObjects + 1 /\ nextId' = nextId + Cardinality(q.keys)
          /\ posted' = [k \in Keys |-> IF k \in q.keys THEN posted[k] + 1 ELSE posted[k]]
      BY <1>12, <2>2 DEF Execute
    <3>3. nextId \in Nat /\ nextId >= 1 /\ MaxObjects \in Nat
      BY <1>0 DEF TypeInv, MiroSyncAssumption
    <3>4. nextId..last \subseteq Ids
      BY <3>1, <3>2, <3>3 DEF Ids
    <3>5. PICK f \in [q.keys -> nextId..last] :
            /\ \A k, l \in q.keys : f[k] = f[l] => k = l
            /\ board' = [id \in Ids |->
                 IF \E k \in q.keys : f[k] = id
                 THEN LET k == CHOOSE k \in q.keys : f[k] = id
                      IN [key |-> k, text |-> PlanText[run][k],
                          ends |-> IF k \in Connectors THEN {items[s].id : s \in Ends[k]} ELSE {}]
                 ELSE board[id]]
            /\ flying' = (flying \ {q}) \cup {[q EXCEPT !.ids = f]}
      BY <1>12, <2>2 DEF Execute
    <3>6. f \in [q.keys -> Ids]
      BY <3>4, <3>5
    <3>7. board' \in [Ids -> Objects \cup {None}]
      <4>1. ASSUME NEW id \in Ids, \E k \in q.keys : f[k] = id PROVE board'[id] \in Objects
        <5> DEFINE k == CHOOSE k \in q.keys : f[k] = id
        <5>1. k \in q.keys /\ k \in Keys
          BY <2>0, <4>1
        <5>2. board'[id] = [key |-> k, text |-> PlanText[run][k],
                            ends |-> IF k \in Connectors THEN {items[s].id : s \in Ends[k]} ELSE {}]
          BY <3>5, <4>1
        <5> HIDE DEF k
        <5>3. PlanText[run][k] \in Texts
          BY <2>0, <5>1 DEF Texts, MiroSyncAssumption
        <5>4. k \in Connectors => {items[s].id : s \in Ends[k]} \subseteq Ids
          <6>1. k \in Connectors => Ends[k] \subseteq Mapped
            BY <2>2, <5>1 DEF IInv, FlightInv, Sound
          <6>2. \A s \in Mapped : items[s].id \in Ids
            BY <1>0 DEF TypeOK, Mapped, Records
          <6> QED BY <6>1, <6>2
        <5> QED BY <5>1, <5>2, <5>3, <5>4 DEF Objects
      <4>2. ASSUME NEW id \in Ids, ~\E k \in q.keys : f[k] = id PROVE board'[id] \in Objects \cup {None}
        BY <1>0, <3>5, <4>2 DEF TypeOK
      <4>3. DOMAIN board' = Ids /\ board' = [id \in Ids |-> board'[id]]
        BY <3>5
      <4> QED BY <4>1, <4>2, <4>3
    <3>8. nextId' \in 1..(MaxObjects + 1)
      BY <3>1, <3>2, <3>3
    <3>9. posted' \in [Keys -> Nat]
      BY <1>0, <3>2 DEF TypeInv
    <3>10. UNCHANGED <<journal, pc, run, merged, failing, edits>>
      BY <1>12 DEF Execute
    <3> QED BY <1>0, <2>1, <3>5, <3>6, <3>7, <3>8, <3>9, <3>10 DEF TypeInv, TypeOK
  <2>3. CASE q.kind # "post"
    <3>1. PICK k \in q.keys :
            /\ q.kind = "patch" => Live(items[k].id)
            /\ board' = [board EXCEPT ![items[k].id] = IF q.kind = "delete" THEN None ELSE [@ EXCEPT !.text = merged[k].patch]]
            /\ flying' = (flying \ {q}) \cup {[q EXCEPT !.ids = [l \in {k} |-> items[k].id]]}
      BY <1>12, <2>3 DEF Execute
    <3>2. k \in Keys /\ q.keys = {k} /\ q.kind \in {"patch", "delete"}
      BY <2>0, <2>3, <3>1 DEF IsRequest
    <3>3. k \in Mapped /\ (q.kind = "patch" => merged[k].patch \in Nat)
      <4>1. CASE q.kind = "delete"
        <5>1. deletions[k] = "attempted"
          BY <3>1, <4>1 DEF IInv, FlightInv, Sound
        <5>2. deletions[k] # None
          BY <5>1 DEF MiroSyncAssumption
        <5> QED BY <3>2, <4>1, <5>2 DEF IInv, IntentInv
      <4>2. CASE q.kind = "patch"
        <5>1. merged[k] # None /\ merged[k].patch # None
          BY <3>1, <4>2 DEF IInv, FlightInv, Sound
        <5>2. merged[k] \in Merges /\ k \in Mapped
          BY <1>0, <3>2, <5>1 DEF IInv, SessionInv, TypeOK
        <5> QED BY <4>2, <5>1, <5>2 DEF Merges
      <4> QED BY <3>2, <4>1, <4>2
    <3>4. items[k].id \in Ids
      BY <1>0, <3>3 DEF TypeOK, Mapped, Records
    <3>5. [l \in {k} |-> items[k].id] \in [q.keys -> Ids]
      BY <3>2, <3>4
    <3>6. board' \in [Ids -> Objects \cup {None}]
      <4>1. CASE q.kind = "delete"
        BY <1>0, <3>1, <4>1 DEF TypeOK
      <4>2. CASE q.kind = "patch"
        <5>1. board[items[k].id] \in Objects
          BY <1>0, <3>1, <3>4, <4>2 DEF Live, TypeOK
        <5>2. [board[items[k].id] EXCEPT !.text = merged[k].patch] \in Objects
          BY <3>3, <4>2, <5>1 DEF Objects, Texts
        <5>3. board' = [board EXCEPT ![items[k].id] = [board[items[k].id] EXCEPT !.text = merged[k].patch]]
          BY <1>0, <3>1, <3>4, <4>2 DEF TypeOK
        <5> QED BY <1>0, <5>2, <5>3 DEF TypeOK
      <4> QED BY <3>2, <4>1, <4>2
    <3>7. UNCHANGED <<journal, nextId, posted, pc, run, merged, failing, edits>>
      BY <1>12, <2>3 DEF Execute
    <3> QED BY <1>0, <2>1, <3>1, <3>5, <3>6, <3>7 DEF TypeInv, TypeOK
  <2> QED BY <2>2, <2>3
<1>13. ASSUME NEW q \in flying, Acknowledge(q) PROVE TypeInv'
  <2>0. IsRequest(q) /\ q.keys \subseteq Keys /\ IsFiniteSet(flying)
    BY <1>0 DEF TypeInv, IsRequest
  <2>1. flying' = flying \ {q} /\ IsFiniteSet(flying') /\ Cardinality(flying') <= Workers
    <3>1. flying' = flying \ {q}
      BY <1>13 DEF Acknowledge
    <3>2. IsFiniteSet(flying') /\ Cardinality(flying') <= Cardinality(flying) /\ Cardinality(flying) \in Nat
      BY <2>0, <3>1, Counting
    <3>3. Cardinality(flying') \in Nat
      BY <3>2, FS_CardinalityType
    <3> QED BY <1>0, <3>1, <3>2, <3>3 DEF TypeOK, MiroSyncAssumption
  <2>2. CASE q.kind = "post"
    <3>1. /\ items' = [k \in Keys |-> IF k \in q.keys
                THEN [id |-> q.ids[k], managed |-> PlanText[run][k], intent |-> PlanText[run][k]] ELSE items[k]]
          /\ creations' = [k \in Keys |-> IF k \in q.keys THEN None ELSE creations[k]]
          /\ UNCHANGED <<updates, deletions, merged, posted>>
      BY <1>13, <2>2 DEF Acknowledge, Save
    <3>2. run \in Plans /\ q.ids \in [q.keys -> Ids]
      BY <1>13, <2>0, <2>2, ExecutedIds DEF Acknowledge, IInv, SessionInv, Phase
    <3>3. \A k \in Keys : PlanText[run][k] \in Nat
      BY <3>2 DEF MiroSyncAssumption
    <3>4. items' \in [Keys -> Records \cup {None}]
      BY <1>0, <2>0, <3>1, <3>2, <3>3 DEF TypeOK, Records, Texts
    <3>5. creations' \in [Keys -> Nat \cup {None}]
      BY <1>0, <3>1 DEF TypeOK
    <3> QED BY <1>0, <1>13, <2>1, <3>1, <3>4, <3>5 DEF TypeInv, TypeOK, Acknowledge, IsRequest
  <2>3. CASE q.kind = "patch"
    <3>1. /\ items' = [k \in Keys |-> IF k \in q.keys
                THEN [items[k] EXCEPT !.managed = merged[k].patch, !.intent = merged[k].patch] ELSE items[k]]
          /\ updates' = [k \in Keys |-> IF k \in q.keys THEN None ELSE updates[k]]
          /\ merged' = [k \in Keys |-> IF k \in q.keys THEN None ELSE merged[k]]
          /\ UNCHANGED <<creations, deletions, posted>>
      BY <1>13, <2>3 DEF Acknowledge, Save
    <3>2. \A k \in q.keys : k \in Mapped /\ merged[k].patch \in Nat
      BY <1>0, <2>0, <2>3 DEF IInv, FlightInv, Sound, SessionInv, TypeOK, Merges
    <3>3. ASSUME NEW k \in q.keys
          PROVE  [items[k] EXCEPT !.managed = merged[k].patch, !.intent = merged[k].patch] \in Records
      <4>1. items[k] \in Records
        BY <1>0, <3>2 DEF TypeOK, Mapped
      <4> QED BY <3>2, <4>1 DEF Records, Texts
    <3>4. items' \in [Keys -> Records \cup {None}]
      BY <1>0, <3>1, <3>3 DEF TypeOK
    <3>5. updates' \in [Keys -> Nat \cup {None}] /\ merged' \in [Keys -> Merges \cup {None}]
      BY <1>0, <3>1 DEF TypeOK
    <3> QED BY <1>0, <1>13, <2>1, <3>1, <3>4, <3>5 DEF TypeInv, TypeOK, Acknowledge, IsRequest
  <2>4. CASE q.kind = "delete"
    <3>1. /\ items' = [k \in Keys |-> IF k \in q.keys THEN None ELSE items[k]]
          /\ deletions' = [k \in Keys |-> IF k \in q.keys THEN None ELSE deletions[k]]
          /\ posted' = [k \in Keys |-> IF k \in q.keys THEN 0 ELSE posted[k]]
          /\ UNCHANGED <<creations, updates, merged>>
      BY <1>13, <2>4 DEF Acknowledge, Save
    <3>2. /\ items' \in [Keys -> Records \cup {None}] /\ posted' \in [Keys -> Nat]
          /\ deletions' \in [Keys -> {None, "planned", "attempted"}]
      BY <1>0, <3>1 DEF TypeInv, TypeOK
    <3> QED BY <1>0, <1>13, <2>1, <3>1, <3>2 DEF TypeInv, TypeOK, Acknowledge, IsRequest
  <2> QED BY <2>0, <2>2, <2>3, <2>4 DEF IsRequest
<1>14. ASSUME NEW q \in flying, NEW known \in BOOLEAN, Fail(q, known) PROVE TypeInv'
  <2>1. flying' = flying \ {q} /\ failing' = TRUE
    BY <1>14 DEF Fail
  <2>2. IsFiniteSet(flying') /\ Cardinality(flying') <= Workers
    <3>1. IsFiniteSet(flying)
      BY <1>0 DEF TypeInv
    <3>2. IsFiniteSet(flying') /\ Cardinality(flying') <= Cardinality(flying) /\ Cardinality(flying) \in Nat
      BY <2>1, <3>1, Counting
    <3>3. Cardinality(flying') \in Nat
      BY <3>2, FS_CardinalityType
    <3> QED BY <1>0, <3>2, <3>3 DEF TypeOK, MiroSyncAssumption
  <2>3. creations' \in [Keys -> Nat \cup {None}]
    BY <1>0, <1>14 DEF Fail, TypeOK
  <2> QED BY <1>0, <1>14, <2>1, <2>2, <2>3 DEF TypeInv, TypeOK, Fail, IsRequest
<1>15. CASE Crash
  <2>1. IsFiniteSet(flying') /\ Cardinality(flying') <= Workers /\ flying' = {}
    BY <1>15, FS_EmptySet DEF Crash, MiroSyncAssumption
  <2> QED BY <1>0, <1>15, <2>1 DEF TypeInv, TypeOK, Crash
<1>16. ASSUME NEW id \in Ids, Edit(id) PROVE TypeInv'
  <2>1. board' \in [Ids -> Objects \cup {None}]
    <3>1. board[id] \in Objects
      BY <1>0, <1>16 DEF Edit, Live, TypeOK
    <3>2. [board[id] EXCEPT !.text = Manual] \in Objects
      BY <3>1 DEF Objects, Texts
    <3>3. board' \in {[board EXCEPT ![id] = [board[id] EXCEPT !.text = Manual]], [board EXCEPT ![id] = None]}
      BY <1>0, <1>16 DEF Edit, TypeOK
    <3> QED BY <1>0, <3>2, <3>3 DEF TypeOK
  <2> QED BY <1>0, <1>16, <2>1 DEF TypeInv, TypeOK, Edit, IsRequest
<1>17. ASSUME NEW k \in Keys, NEW id \in Ids, Adopt(k, id) PROVE TypeInv'
  <2>1. creations[k] \in Nat
    BY <1>0, <1>17 DEF Adopt, TypeOK
  <2>2. items' \in [Keys -> Records \cup {None}] /\ creations' \in [Keys -> Nat \cup {None}]
    BY <1>0, <1>17, <2>1 DEF Adopt, TypeOK, Records, Texts
  <2> QED BY <1>0, <1>17, <2>2 DEF TypeInv, TypeOK, Adopt, IsRequest
<1>18. ASSUME NEW k \in Keys, Absent(k) PROVE TypeInv'
  <2>1. creations' \in [Keys -> Nat \cup {None}] /\ posted' \in [Keys -> Nat]
    BY <1>0, <1>18 DEF Absent, TypeInv, TypeOK
  <2> QED BY <1>0, <1>18, <2>1 DEF TypeInv, TypeOK, Absent, IsRequest
<1>19. CASE RecoverEmpty
  <2>1. creations' \in [Keys -> Nat \cup {None}] /\ posted' \in [Keys -> Nat] /\ batching' \in {1, BatchSize}
    BY <1>0, <1>19 DEF RecoverEmpty, TypeInv, TypeOK
  <2>2. flying = {} /\ flying' = {}
    <3>1. pc = "idle" /\ flying' = flying
      BY <1>19 DEF RecoverEmpty, session
    <3>2. \A q \in flying : pc = Phase[q.kind] /\ q.kind \in {"post", "patch", "delete"}
      BY <1>0 DEF IInv, SessionInv, TypeInv, IsRequest
    <3> QED
      BY <3>1, <3>2 DEF Phase
  <2> QED BY <1>0, <1>19, <2>1, <2>2 DEF TypeInv, TypeOK, RecoverEmpty
<1> QED
  BY <1>1, <1>2, <1>3, <1>4, <1>5, <1>6, <1>7, <1>8, <1>9, <1>10, <1>11, <1>12, <1>13, <1>14, <1>15,
     <1>16, <1>17, <1>18, <1>19 DEF Next, Publish, Investigate

\* Between calls and before the first write nothing flies and nothing failed.
LEMMA Quiet ==
  ASSUME IInv, pc \in {"idle", "preflight"}
  PROVE  flying = {} /\ failing = FALSE /\ \A k \in Keys : merged[k] = None
<1>1. \A q \in flying : q.kind \in {"post", "patch", "delete"} /\ pc = Phase[q.kind]
  BY DEF IInv, TypeInv, IsRequest, SessionInv
<1>2. flying = {}
  BY <1>1 DEF Phase
<1> QED BY <1>2 DEF IInv, SessionInv, TypeInv

\* Which phase the requests in flight tell.
LEMMA PhaseOf ==
  ASSUME IInv, NEW q \in flying
  PROVE  /\ q.kind = "post" => pc = "create" /\ NoneRemoved
         /\ q.kind = "patch" => pc = "update" /\ NoneUncertain /\ NoneRemoved
         /\ q.kind = "delete" => pc = "delete" /\ NoneUncertain
         /\ q.kind \in {"post", "patch", "delete"} /\ q.keys \subseteq Keys /\ q.keys # {}
         /\ run \in Plans /\ active = run
BY DEF IInv, SessionInv, Phase, TypeInv, IsRequest

\* Steps that leave every item mapped to the object it has.
Kept == Mapped' = Mapped /\ \A k \in Mapped : items'[k].id = items[k].id

LEMMA KeptSteps ==
  ASSUME MiroSyncAssumption, IInv
  PROVE  /\ Preflight => Kept
         /\ \A k \in Keys : Update(k) => Kept
         /\ \A q \in flying : Acknowledge(q) /\ q.kind = "patch" => Kept
<1>0. TypeOK
  BY DEF IInv, TypeInv
<1>1. ASSUME Preflight PROVE Kept
  <2>1. items' = [k \in Keys |-> Recovered(k)]
    BY <1>1 DEF Preflight
  <2>2. \A k \in Keys : /\ Recovered(k) # None <=> k \in Mapped
                        /\ k \in Mapped => Recovered(k).id = items[k].id
    BY <1>0, RecoveredKeeps
  <2>3. Mapped' = {k \in Keys : items'[k] # None}
    BY DEF Mapped
  <2>4. Mapped' = Mapped
    BY <2>1, <2>2, <2>3 DEF Mapped
  <2>5. \A k \in Mapped : items'[k].id = items[k].id
    BY <2>1, <2>2 DEF Mapped
  <2> QED BY <2>4, <2>5 DEF Kept
<1>2. ASSUME NEW k \in Keys, Update(k) PROVE Kept
  <2>1. CASE items' = items
    BY <2>1 DEF Kept, Mapped
  <2>2. CASE items' # items
    <3>1. items' = [items EXCEPT ![k].managed = merged[k].managed, ![k].intent = merged[k].intent]
      BY <1>2, <2>2 DEF Update
    <3>2. merged[k] \in Merges /\ k \in Mapped /\ items[k] \in Records
      BY <1>0, <1>2 DEF Update, TypeOK, IInv, SessionInv, Mapped
    <3>3. items'[k] = [items[k] EXCEPT !.managed = merged[k].managed, !.intent = merged[k].intent]
      BY <1>0, <3>1 DEF TypeOK
    <3>4. items'[k] \in Records /\ items'[k].id = items[k].id
      BY <3>2, <3>3 DEF Records, Merges
    <3>5. \A l \in Keys : l # k => items'[l] = items[l]
      BY <1>0, <3>1 DEF TypeOK
    <3>6. items'[k] # None
      BY <3>4 DEF MiroSyncAssumption
    <3> HIDE <3>1, <3>3
    <3> QED BY <3>2, <3>4, <3>5, <3>6 DEF Kept, Mapped
  <2> QED BY <2>1, <2>2
<1>3. ASSUME NEW q \in flying, Acknowledge(q), q.kind = "patch" PROVE Kept
  <2>1. items' = [k \in Keys |-> IF k \in q.keys
              THEN [items[k] EXCEPT !.managed = merged[k].patch, !.intent = merged[k].patch] ELSE items[k]]
    BY <1>3 DEF Acknowledge, Save
  <2>2. \A k \in q.keys : k \in Keys /\ k \in Mapped /\ items[k] \in Records /\ merged[k].patch \in Nat
    BY <1>0, <1>3, PhaseOf DEF IInv, FlightInv, Sound, SessionInv, TypeOK, Merges, Mapped
  <2>3. \A k \in q.keys : items'[k] \in Records /\ items'[k].id = items[k].id
    <3> TAKE k \in q.keys
    <3>1. items'[k] = [items[k] EXCEPT !.managed = merged[k].patch, !.intent = merged[k].patch]
      BY <2>1, <2>2
    <3>2. items[k] \in Records /\ merged[k].patch \in Texts
      BY <2>2 DEF Texts
    <3> DEFINE r == items[k]
               t == merged[k].patch
    <3>3. r \in Records /\ t \in Texts /\ t \in Nat /\ items'[k] = [r EXCEPT !.managed = t, !.intent = t]
      BY <2>2, <3>1, <3>2
    <3> HIDE DEF r, t
    <3>4. items'[k] \in Records /\ items'[k].id = r.id
      BY <3>3 DEF Records
    <3> QED BY <3>4 DEF r
  <2>4. \A k \in Keys : k \notin q.keys => items'[k] = items[k]
    BY <2>1
  <2>5. \A k \in q.keys : items'[k] # None
    BY <2>3 DEF MiroSyncAssumption
  <2> HIDE <2>1
  <2> QED BY <2>2, <2>3, <2>4, <2>5 DEF Kept, Mapped
<1> QED BY <1>1, <1>2, <1>3

\* Miro's answer to a request: what becomes of the board, and of the request.
Answer(q, f) ==
  /\ flying' = (flying \ {q}) \cup {[q EXCEPT !.ids = f]}
  /\ q.kind = "post" =>
       /\ f \in [q.keys -> nextId..(nextId + Cardinality(q.keys) - 1)]
       /\ \A k, l \in q.keys : f[k] = f[l] => k = l
       /\ \A id \in Ids : /\ (\A k \in q.keys : f[k] # id) => board'[id] = board[id]
                          /\ \A k \in q.keys : f[k] = id =>
                               board'[id] = [key |-> k, text |-> PlanText[run][k],
                                 ends |-> IF k \in Connectors THEN {items[s].id : s \in Ends[k]} ELSE {}]
       /\ nextId' = nextId + Cardinality(q.keys)
       /\ posted' = [k \in Keys |-> IF k \in q.keys THEN posted[k] + 1 ELSE posted[k]]
  /\ q.kind # "post" =>
       /\ \E k \in q.keys :
            /\ q.keys = {k} /\ k \in Mapped /\ f[k] = items[k].id
            /\ q.kind = "patch" => Live(items[k].id)
            /\ board' = [board EXCEPT ![items[k].id] =
                           IF q.kind = "delete" THEN None ELSE [@ EXCEPT !.text = merged[k].patch]]
       /\ UNCHANGED <<nextId, posted>>

LEMMA Answered ==
  ASSUME MiroSyncAssumption, IInv, NEW q \in flying, Execute(q)
  PROVE  \E f \in [q.keys -> Ids] : Answer(q, f)
<1>0. IsRequest(q) /\ TypeOK /\ q.kind \in {"post", "patch", "delete"}
  BY DEF IInv, TypeInv, IsRequest
<1>1. CASE q.kind = "post"
  <2> DEFINE last == nextId + Cardinality(q.keys) - 1
  <2>1. nextId..last \subseteq Ids
    <3>1. Cardinality(q.keys) \in Nat
      BY <1>0, FS_Subset, FS_CardinalityType DEF IsRequest, MiroSyncAssumption
    <3>2. nextId + Cardinality(q.keys) <= MaxObjects + 1
      BY <1>1 DEF Execute
    <3> QED BY <3>1, <3>2 DEF IInv, TypeInv, Ids, MiroSyncAssumption
  <2>2. PICK f \in [q.keys -> nextId..last] :
          /\ \A k, l \in q.keys : f[k] = f[l] => k = l
          /\ board' = [id \in Ids |->
               IF \E k \in q.keys : f[k] = id
               THEN LET k == CHOOSE k \in q.keys : f[k] = id
                    IN [key |-> k, text |-> PlanText[run][k],
                        ends |-> IF k \in Connectors THEN {items[s].id : s \in Ends[k]} ELSE {}]
               ELSE board[id]]
          /\ flying' = (flying \ {q}) \cup {[q EXCEPT !.ids = f]}
    BY <1>1 DEF Execute
  <2>3. f \in [q.keys -> Ids]
    BY <2>1
  <2>4. ASSUME NEW id \in Ids, NEW k \in q.keys, f[k] = id
        PROVE  board'[id] = [key |-> k, text |-> PlanText[run][k],
                             ends |-> IF k \in Connectors THEN {items[s].id : s \in Ends[k]} ELSE {}]
    <3> DEFINE l == CHOOSE l \in q.keys : f[l] = id
    <3>1. l = k
      BY <2>2, <2>4
    <3>2. board'[id] = [key |-> l, text |-> PlanText[run][l],
                        ends |-> IF l \in Connectors THEN {items[s].id : s \in Ends[l]} ELSE {}]
      BY <2>2, <2>4
    <3> HIDE DEF l
    <3> QED BY <3>1, <3>2
  <2>5. ASSUME NEW id \in Ids, \A k \in q.keys : f[k] # id PROVE board'[id] = board[id]
    BY <2>2, <2>5
  <2>6. /\ nextId' = nextId + Cardinality(q.keys)
        /\ posted' = [k \in Keys |-> IF k \in q.keys THEN posted[k] + 1 ELSE posted[k]]
    BY <1>1 DEF Execute
  <2> QED BY <1>1, <2>2, <2>3, <2>4, <2>5, <2>6 DEF Answer
<1>2. CASE q.kind # "post"
  <2>1. PICK k \in q.keys :
          /\ q.kind = "patch" => Live(items[k].id)
          /\ board' = [board EXCEPT ![items[k].id] = IF q.kind = "delete" THEN None ELSE [@ EXCEPT !.text = merged[k].patch]]
          /\ flying' = (flying \ {q}) \cup {[q EXCEPT !.ids = [l \in {k} |-> items[k].id]]}
    BY <1>2 DEF Execute
  <2>2. q.keys = {k} /\ k \in Keys
    BY <1>0, <1>2, <2>1 DEF IsRequest
  <2>3. k \in Mapped
    <3>1. CASE q.kind = "delete"
      <4>1. deletions[k] = "attempted"
        BY <3>1 DEF IInv, FlightInv, Sound
      <4>2. deletions[k] # None
        BY <4>1 DEF MiroSyncAssumption
      <4> QED BY <2>2, <4>2 DEF IInv, IntentInv
    <3>2. CASE q.kind = "patch"
      BY <2>2, <3>2 DEF IInv, FlightInv, Sound, SessionInv
    <3> QED BY <1>0, <1>2, <3>1, <3>2
  <2>4. items[k].id \in Ids
    BY <1>0, <2>3 DEF TypeOK, Mapped, Records
  <2> DEFINE f == [l \in {k} |-> items[k].id]
  <2>5. f \in [q.keys -> Ids] /\ f[k] = items[k].id
    BY <2>2, <2>4
  <2>6. UNCHANGED <<nextId, posted>>
    BY <1>2 DEF Execute
  <2> HIDE DEF f
  <2>7. flying' = (flying \ {q}) \cup {[q EXCEPT !.ids = f]}
    BY <2>1 DEF f
  <2> QED BY <1>2, <2>1, <2>2, <2>3, <2>5, <2>6, <2>7 DEF Answer
<1> QED BY <1>1, <1>2

\* An executed POST: every key has an object of its own.
LEMMA Posted ==
  ASSUME MiroSyncAssumption, IInv, NEW q \in flying, NEW f \in [q.keys -> Ids], Answer(q, f), q.kind = "post",
         NEW k \in q.keys
  PROVE  /\ board'[f[k]] # None /\ board'[f[k]].key = k /\ nextId <= f[k] /\ f[k] < nextId'
         /\ k \in Connectors => Ends[k] \subseteq Mapped /\ board'[f[k]].ends = {items[s].id : s \in Ends[k]}
         /\ k \notin Connectors => board'[f[k]].ends = {}
<1> DEFINE object == [key |-> k, text |-> PlanText[run][k],
                      ends |-> IF k \in Connectors THEN {items[s].id : s \in Ends[k]} ELSE {}]
<1>0. f[k] \in Ids
  OBVIOUS
<1>1. board'[f[k]] = object
  BY <1>0 DEF Answer
<1>2. object \in Objects
  <2>1. k \in Keys /\ PlanText[run][k] \in Texts
    BY PhaseOf DEF Texts, MiroSyncAssumption
  <2>2. k \in Connectors => \A s \in Ends[k] : items[s].id \in Ids
    <3>1. k \in Connectors => Ends[k] \subseteq Mapped
      BY DEF IInv, FlightInv, Sound
    <3>2. \A s \in Mapped : items[s].id \in Ids
      BY DEF IInv, TypeInv, TypeOK, Mapped, Records
    <3> QED BY <3>1, <3>2
  <2> QED BY <2>1, <2>2 DEF Objects
<1>3. object # None
  BY <1>2 DEF MiroSyncAssumption
<1>4. /\ object.key = k
      /\ k \in Connectors => object.ends = {items[s].id : s \in Ends[k]}
      /\ k \notin Connectors => object.ends = {}
  OBVIOUS
<1>6. k \in Connectors => Ends[k] \subseteq Mapped
  BY DEF IInv, FlightInv, Sound
<1>5. nextId <= f[k] /\ f[k] < nextId'
  <2>1. nextId \in Nat /\ Cardinality(q.keys) \in Nat
    BY PhaseOf, FS_Subset, FS_CardinalityType DEF IInv, TypeInv, MiroSyncAssumption
  <2>2. f \in [q.keys -> nextId..(nextId + Cardinality(q.keys) - 1)] /\ nextId' = nextId + Cardinality(q.keys)
    BY DEF Answer
  <2>3. f[k] \in nextId..(nextId + Cardinality(q.keys) - 1)
    BY <2>2
  <2> QED BY <2>1, <2>2, <2>3
<1> HIDE DEF object
<1> QED BY <1>1, <1>3, <1>4, <1>5, <1>6

\* An executed PATCH or DELETE adds nothing and moves nothing.
LEMMA Edited ==
  ASSUME MiroSyncAssumption, IInv, NEW q \in flying, Execute(q), q.kind # "post"
  PROVE  /\ UNCHANGED <<journal, nextId, posted>>
         /\ \A id \in Ids : Live(id)' => Live(id) /\ board'[id].key = board[id].key /\ board'[id].ends = board[id].ends
         /\ \A id \in Ids : Live(id) => Live(id)' \/ (q.kind = "delete" /\ \E k \in q.keys : k \in Mapped /\ id = items[k].id)
<1>0. TypeOK
  BY DEF IInv, TypeInv
<1>1. PICK f \in [q.keys -> Ids] : Answer(q, f)
  BY Answered
<1>2. PICK k \in q.keys :
        /\ q.keys = {k} /\ k \in Mapped
        /\ q.kind = "patch" => Live(items[k].id)
        /\ board' = [board EXCEPT ![items[k].id] = IF q.kind = "delete" THEN None ELSE [@ EXCEPT !.text = merged[k].patch]]
  BY <1>1 DEF Answer
<1>3. items[k].id \in Ids
  BY <1>0, <1>2 DEF TypeOK, Mapped, Records
<1>4. UNCHANGED <<journal, nextId, posted>>
  BY <1>1 DEF Answer, Execute
<1>5. q.kind \in {"patch", "delete"}
  BY PhaseOf
<1>6. \A id \in Ids : id # items[k].id => board'[id] = board[id]
  BY <1>0, <1>2 DEF TypeOK
<1>7. CASE q.kind = "delete"
  <2>1. board'[items[k].id] = None
    BY <1>0, <1>2, <1>3, <1>7 DEF TypeOK
  <2> QED BY <1>2, <1>4, <1>6, <1>7, <2>1 DEF Live
<1>8. CASE q.kind = "patch"
  <2>1. board[items[k].id] \in Objects /\ board'[items[k].id] = [board[items[k].id] EXCEPT !.text = merged[k].patch]
    BY <1>0, <1>2, <1>3, <1>8 DEF TypeOK, Live
  <2>2. merged[k].patch \in Texts
    <3>1. merged[k] # None /\ merged[k].patch # None /\ k \in Keys
      BY <1>2, <1>8 DEF IInv, FlightInv, Sound, Mapped
    <3>2. merged[k] \in Merges
      BY <1>0, <3>1 DEF TypeOK
    <3> QED BY <3>1, <3>2 DEF Merges, Texts
  <2>3. /\ board'[items[k].id] \in Objects /\ board'[items[k].id].key = board[items[k].id].key
        /\ board'[items[k].id].ends = board[items[k].id].ends
    <3> DEFINE o == board[items[k].id]
               n == board'[items[k].id]
               t == merged[k].patch
    <3>1. o \in Objects /\ n = [o EXCEPT !.text = t] /\ t \in Texts
      BY <2>1, <2>2
    <3> HIDE DEF o, n, t
    <3>2. n \in Objects /\ n.key = o.key /\ n.ends = o.ends
      BY <3>1 DEF Objects
    <3> QED BY <3>2 DEF o, n
  <2>4. board'[items[k].id] # None
    BY <2>3 DEF MiroSyncAssumption
  <2> HIDE <2>1
  <2> QED BY <1>2, <1>4, <1>6, <1>8, <2>3, <2>4 DEF Live
<1> QED BY <1>5, <1>7, <1>8

\* An acknowledged POST: its items are mapped to the objects Miro reported.
LEMMA Created ==
  ASSUME MiroSyncAssumption, IInv, NEW q \in flying, Acknowledge(q), q.kind = "post", NEW k \in q.keys
  PROVE  k \in Mapped' /\ items'[k].id = q.ids[k]
<1>1. items' = [l \in Keys |-> IF l \in q.keys
            THEN [id |-> q.ids[l], managed |-> PlanText[run][l], intent |-> PlanText[run][l]] ELSE items[l]]
  BY DEF Acknowledge, Save
<1>2. q.ids \in [q.keys -> Ids] /\ run \in Plans /\ k \in Keys
  BY ExecutedIds, PhaseOf DEF Acknowledge, IInv, TypeInv
<1>3. items'[k] = [id |-> q.ids[k], managed |-> PlanText[run][k], intent |-> PlanText[run][k]]
  BY <1>1, <1>2
<1>4. items'[k] \in Records /\ items'[k].id = q.ids[k]
  BY <1>2, <1>3 DEF Records, Texts, MiroSyncAssumption
<1>5. items'[k] # None
  BY <1>4 DEF MiroSyncAssumption
<1> QED BY <1>2, <1>4, <1>5 DEF Mapped

-----------------------------------------------------------------------------
(* Phases                                                                  *)

LEMMA SessionStep ==
  ASSUME MiroSyncAssumption, IInv, [Next]_vars
  PROVE  SessionInv'
<1> USE DEF journal, miro, session
<1>0. SessionInv /\ \A q \in flying : IsRequest(q)
  BY DEF IInv, TypeInv
<1>1. CASE UNCHANGED vars
  BY <1>0, <1>1 DEF SessionInv, vars, NoneUncertain, NoneRemoved, Mapped
<1>2. ASSUME NEW n \in Plans, Start(n) PROVE SessionInv'
  <2>1. flying = {} /\ failing = FALSE /\ \A k \in Keys : merged[k] = None
    BY <1>2, Quiet DEF Start
  <2> QED BY <1>2, <2>1 DEF SessionInv, Start, Continues, Resolved, NoneUncertain, NoneRemoved
<1>3. CASE Preflight
  <2>1. flying = {} /\ failing = FALSE /\ run \in Plans /\ NoneUncertain
    BY <1>0, <1>3, Quiet DEF Preflight, SessionInv
  <2>2. Mapped' = Mapped
    BY <1>3, KeptSteps DEF Kept
  <2>3. \A k \in Keys : merged'[k] # None => k \in Wanted[run] \cap Mapped
    BY <1>3 DEF Preflight
  <2>4. /\ pc' = "delete" /\ active' = run
        /\ UNCHANGED <<creations, run, flying, failing>>
    BY <1>3 DEF Preflight
  <2> QED BY <2>1, <2>2, <2>3, <2>4 DEF SessionInv, NoneUncertain
<1>4. CASE Refuse
  <2>1. flying = {} /\ failing = FALSE /\ \A k \in Keys : merged[k] = None
    BY <1>4, Quiet DEF Refuse
  <2> QED BY <1>4, <2>1 DEF SessionInv, Refuse
<1>5. CASE Deleted
  BY <1>0, <1>5 DEF SessionInv, Deleted, NoneUncertain, NoneRemoved, Mapped
<1>6. CASE Updated
  BY <1>0, <1>6 DEF SessionInv, Updated, NoneRemoved
<1>7. CASE Raise
  BY <1>0, <1>7 DEF SessionInv, Raise
<1>8. CASE Finish
  BY <1>0, <1>8 DEF SessionInv, Finish
<1>9. ASSUME NEW k \in Keys, Delete(k) PROVE SessionInv'
  <2>1. IsRequest(Request("delete", {k})) /\ Request("delete", {k}).kind = "delete"
    BY NewRequest
  <2>2. flying' = {Request("delete", {k})}
    BY <1>9 DEF Delete
  <2> QED BY <1>0, <1>9, <2>1, <2>2 DEF SessionInv, Delete, Phase, NoneUncertain, Mapped
<1>10. ASSUME NEW k \in Keys, Update(k) PROVE SessionInv'
  <2>1. Mapped' = Mapped
    BY <1>10, KeptSteps DEF Kept
  <2>2. \A l \in Keys : merged'[l] # None => merged[l] # None
    BY <1>10 DEF Update, IInv, TypeInv, TypeOK
  <2>3. IsRequest(Request("patch", {k})) /\ Request("patch", {k}).kind = "patch" /\ Request("patch", {k}).keys = {k}
    BY NewRequest
  <2>4. \A q \in flying' : q \in flying \/ q = Request("patch", {k})
    BY <1>10 DEF Update
  <2>5. /\ pc = "update" /\ ~failing /\ \A q \in flying : k \notin q.keys
        /\ UNCHANGED <<creations, deletions, active, pc, run, failing>>
    BY <1>10 DEF Update
  <2>6. \A q, r \in flying' : q # r => q.keys \cap r.keys = {}
    <3>1. \A q \in flying : q.keys \cap Request("patch", {k}).keys = {}
      BY <2>3, <2>5
    <3>2. \A q, r \in flying : q # r => q.keys \cap r.keys = {}
      BY <1>0 DEF SessionInv
    <3> QED BY <2>4, <3>1, <3>2
  <2>7. \A q \in flying' : pc' = Phase[q.kind]
    <3>1. \A q \in flying : pc' = Phase[q.kind]
      BY <1>0, <2>5 DEF SessionInv
    <3>2. pc' = Phase[Request("patch", {k}).kind]
      BY <2>3, <2>5 DEF Phase
    <3> QED
      BY <2>4, <3>1, <3>2
  <2> QED BY <1>0, <2>1, <2>2, <2>5, <2>6, <2>7 DEF SessionInv, NoneUncertain, NoneRemoved
<1>11. ASSUME NEW keys \in SUBSET Keys, Create(keys) PROVE SessionInv'
  <2>1. /\ pc = "create" /\ ~failing /\ keys # {} /\ keys \subseteq Lacking
        /\ flying' = flying \cup {Request("post", keys)}
        /\ UNCHANGED <<items, deletions, active, pc, run, merged, failing>>
    BY <1>11 DEF Create
  <2>2. Request("post", keys).kind = "post" /\ Request("post", keys).keys = keys
    BY <2>1, NewRequest
  <2>3. \A q \in flying' : q \in flying \/ q = Request("post", keys)
    BY <2>1
  <2>4. \A q \in flying : q.keys \cap keys = {}
    BY <2>1 DEF Lacking
  <2>5. \A q, r \in flying' : q # r => q.keys \cap r.keys = {}
    BY <1>0, <2>2, <2>3, <2>4 DEF SessionInv
  <2>6. \A q \in flying' : pc' = Phase[q.kind]
    BY <1>0, <2>1, <2>2, <2>3 DEF SessionInv, Phase
  <2> QED BY <1>0, <2>1, <2>5, <2>6 DEF SessionInv, NoneRemoved, Mapped
<1>12. ASSUME NEW q \in flying, Execute(q) PROVE SessionInv'
  <2>1. PICK f \in [q.keys -> Ids] : flying' = (flying \ {q}) \cup {[q EXCEPT !.ids = f]}
    BY <1>12, Answered DEF Answer
  <2> DEFINE answered == [q EXCEPT !.ids = f]
  <2>2. answered.kind = q.kind /\ answered.keys = q.keys
    BY <1>0, AnsweredRequest
  <2>3. flying' = (flying \ {q}) \cup {answered}
    BY <2>1
  <2> HIDE DEF answered
  <2>4. UNCHANGED <<journal, pc, run, merged, failing>>
    BY <1>12 DEF Execute
  <2>5. \A r, s \in flying' : r # s => r.keys \cap s.keys = {}
    BY <1>0, <2>2, <2>3 DEF SessionInv
  <2>6. \A r \in flying' : pc' = Phase[r.kind]
    BY <1>0, <2>2, <2>3, <2>4 DEF SessionInv
  <2> QED BY <1>0, <2>4, <2>5, <2>6 DEF SessionInv, NoneUncertain, NoneRemoved, Mapped
<1>13. ASSUME NEW q \in flying, Acknowledge(q) PROVE SessionInv'
  <2>0. flying' = flying \ {q} /\ UNCHANGED <<active, pc, run, failing>>
    BY <1>13 DEF Acknowledge
  <2>1. CASE q.kind = "post"
    <3>1. pc = "create" /\ UNCHANGED <<deletions, merged>>
      BY <1>13, <2>1, PhaseOf DEF Acknowledge, Save
    <3> QED BY <1>0, <2>0, <3>1 DEF SessionInv, NoneRemoved
  <2>2. CASE q.kind = "patch"
    <3>1. Mapped' = Mapped
      BY <1>13, <2>2, KeptSteps DEF Kept
    <3>2. UNCHANGED <<creations, deletions>> /\ \A k \in Keys : merged'[k] # None => merged[k] # None
      BY <1>13, <2>2 DEF Acknowledge, Save
    <3> QED BY <1>0, <2>0, <3>1, <3>2 DEF SessionInv, NoneUncertain, NoneRemoved
  <2>3. CASE q.kind = "delete"
    <3>1. /\ items' = [k \in Keys |-> IF k \in q.keys THEN None ELSE items[k]]
          /\ deletions' = [k \in Keys |-> IF k \in q.keys THEN None ELSE deletions[k]]
          /\ UNCHANGED <<creations, merged>>
      BY <1>13, <2>3 DEF Acknowledge, Save
    <3>2. pc = "delete" /\ run \in Plans /\ active = run
      BY <2>3, PhaseOf
    <3>3. ASSUME NEW k \in Keys, merged[k] # None PROVE k \notin q.keys
      <4>1. k \in Wanted[run]
        BY <1>0, <3>3 DEF SessionInv
      <4>2. SUFFICES ASSUME k \in q.keys PROVE FALSE
        OBVIOUS
      <4>3. deletions[k] = "attempted"
        BY <2>3, <4>2 DEF IInv, FlightInv, Sound
      <4>4. deletions[k] # None
        BY <4>3 DEF MiroSyncAssumption
      <4>5. k \in Retired[run]
        BY <3>2, <4>4 DEF IInv, IntentInv
      <4> QED BY <3>2, <4>1, <4>5 DEF MiroSyncAssumption
    <3>4. \A k \in Keys : merged'[k] # None => k \in Mapped'
      BY <1>0, <3>1, <3>3 DEF SessionInv, Mapped
    <3> QED BY <1>0, <2>0, <3>1, <3>2, <3>4 DEF SessionInv, NoneUncertain
  <2> QED BY <2>1, <2>2, <2>3, PhaseOf
<1>14. ASSUME NEW q \in flying, NEW known \in BOOLEAN, Fail(q, known) PROVE SessionInv'
  <2>1. pc \in {"delete", "update", "create"}
    BY PhaseOf
  <2>2. /\ flying' = flying \ {q}
        /\ \A k \in Keys : creations[k] = None => creations'[k] = None
        /\ UNCHANGED <<items, deletions, active, pc, run, merged>>
    BY <1>14 DEF Fail
  <2> QED BY <1>0, <2>1, <2>2 DEF SessionInv, NoneUncertain, NoneRemoved, Mapped
<1>15. CASE Crash
  BY <1>15 DEF SessionInv, Crash
<1>16. ASSUME NEW id \in Ids, Edit(id) PROVE SessionInv'
  BY <1>0, <1>16 DEF SessionInv, Edit, NoneUncertain, NoneRemoved, Mapped
<1>17. ASSUME NEW k \in Keys, NEW id \in Ids, Adopt(k, id) PROVE SessionInv'
  <2>1. flying = {} /\ failing = FALSE /\ \A l \in Keys : merged[l] = None
    BY <1>17, Quiet DEF Adopt
  <2> QED BY <1>17, <2>1 DEF SessionInv, Adopt
<1>18. ASSUME NEW k \in Keys, Absent(k) PROVE SessionInv'
  <2>1. flying = {} /\ failing = FALSE /\ \A l \in Keys : merged[l] = None
    BY <1>18, Quiet DEF Absent
  <2> QED BY <1>18, <2>1 DEF SessionInv, Absent
<1>19. CASE RecoverEmpty
  <2>1. flying = {} /\ failing = FALSE /\ \A l \in Keys : merged[l] = None
    BY <1>19, Quiet DEF RecoverEmpty
  <2> QED BY <1>19, <2>1 DEF SessionInv, RecoverEmpty
<1> QED
  BY <1>1, <1>2, <1>3, <1>4, <1>5, <1>6, <1>7, <1>8, <1>9, <1>10, <1>11, <1>12, <1>13, <1>14, <1>15,
     <1>16, <1>17, <1>18, <1>19 DEF Next, Publish, Investigate

-----------------------------------------------------------------------------
(* Intents                                                                 *)

LEMMA IntentStep ==
  ASSUME MiroSyncAssumption, IInv, [Next]_vars
  PROVE  IntentInv'
<1> USE DEF journal, miro, session
<1>0. IntentInv
  BY DEF IInv
<1>1. CASE UNCHANGED vars
  BY <1>0, <1>1 DEF IntentInv, vars, NoneRemoved, Mapped, Flies
<1>2. ASSUME NEW n \in Plans, Start(n) PROVE IntentInv'
  BY <1>0, <1>2 DEF IntentInv, Start, NoneRemoved, Mapped
<1>3. CASE Preflight
  <2>1. run \in Plans /\ run # 0 /\ NoneUncertain /\ active \in {0, run}
    BY <1>3 DEF Preflight, IInv, SessionInv, Plans, MiroSyncAssumption
  <2>2. Mapped' = Mapped
    BY <1>3, KeptSteps DEF Kept
  <2>3. \A k \in Keys : deletions[k] # None => k \in Removals(run)
    BY <1>0, <2>1 DEF IntentInv, Removals
  <2>4. /\ deletions' = [k \in Keys |-> IF k \in Removals(run) /\ deletions[k] = None THEN "planned" ELSE deletions[k]]
        /\ active' = run /\ UNCHANGED creations
    BY <1>3 DEF Preflight
  <2>5. "planned" # None
    BY DEF MiroSyncAssumption
  <2>6. \A k \in Keys : deletions'[k] # None <=> k \in Removals(run)
    BY <2>3, <2>4, <2>5
  <2>7. Removals(run) = Retired[run] \cap Mapped
    BY DEF Removals
  <2>8. ASSUME NEW c \in Connectors \cap Mapped, NEW s \in Ends[c], deletions'[s] # None PROVE deletions'[c] # None
    <3>1. c \in Keys /\ s \in Keys
      BY DEF Mapped, Keys, MiroSyncAssumption
    <3>2. s \in Removals(run)
      BY <2>6, <2>8, <3>1
    <3>3. c \in Removals(run)
      BY <1>3, <3>2 DEF Preflight, Attached
    <3> QED BY <2>6, <3>1, <3>3
  <2> QED BY <2>1, <2>2, <2>4, <2>6, <2>7, <2>8 DEF IntentInv, NoneUncertain
<1>4. CASE Refuse
  BY <1>0, <1>4 DEF IntentInv, Refuse, NoneRemoved, Mapped
<1>5. CASE Deleted
  BY <1>0, <1>5 DEF IntentInv, Deleted, NoneRemoved, Mapped
<1>6. CASE Updated
  <2>1. NoneUncertain
    BY <1>6 DEF Updated, IInv, SessionInv
  <2> QED BY <1>0, <1>6, <2>1 DEF IntentInv, Updated, NoneUncertain, Mapped
<1>7. CASE Raise
  BY <1>0, <1>7 DEF IntentInv, Raise, NoneRemoved, Mapped
<1>8. CASE Finish
  <2>1. NoneRemoved
    BY <1>8 DEF Finish, IInv, SessionInv
  <2> QED BY <1>0, <1>8, <2>1 DEF IntentInv, Finish, NoneRemoved, Mapped
<1>9. ASSUME NEW k \in Keys, Delete(k) PROVE IntentInv'
  <2>1. deletions[k] # None /\ pc = "delete" /\ pc' = "delete"
    BY <1>9 DEF Delete, NextRemovals
  <2>2. deletions' = [deletions EXCEPT ![k] = "attempted"] /\ UNCHANGED <<items, creations, active>>
    BY <1>9 DEF Delete
  <2>3. "attempted" # None
    BY DEF MiroSyncAssumption
  <2>4. \A l \in Keys : deletions'[l] # None <=> deletions[l] # None
    BY <2>1, <2>2, <2>3 DEF IInv, TypeInv, TypeOK
  <2>5. \A c \in Connectors : c \in Keys /\ Ends[c] \subseteq Keys
    BY DEF Keys, MiroSyncAssumption
  <2> QED BY <1>0, <2>1, <2>2, <2>4, <2>5 DEF IntentInv, NoneRemoved, Mapped
<1>10. ASSUME NEW k \in Keys, Update(k) PROVE IntentInv'
  <2>1. Mapped' = Mapped
    BY <1>10, KeptSteps DEF Kept
  <2>2. pc = "update" /\ UNCHANGED <<creations, deletions, active, pc>>
    BY <1>10 DEF Update
  <2> QED BY <1>0, <2>1, <2>2 DEF IntentInv, NoneRemoved
<1>11. ASSUME NEW keys \in SUBSET Keys, Create(keys) PROVE IntentInv'
  <2>1. /\ pc = "create" /\ keys # {} /\ keys \subseteq Lacking
        /\ creations' = [k \in Keys |-> IF k \in keys THEN PlanText[run][k] ELSE creations[k]]
        /\ flying' = flying \cup {Request("post", keys)}
        /\ UNCHANGED <<items, deletions, active, failing>>
    BY <1>11 DEF Create
  <2>2. NoneRemoved
    BY <2>1 DEF IInv, SessionInv
  <2>3. Request("post", keys).kind = "post" /\ Request("post", keys).keys = keys
    BY <2>1, NewRequest
  <2>4. \A k \in Keys : creations'[k] # None => k \in keys \/ creations[k] # None
    BY <2>1
  <2>5. keys \cap Mapped = {} /\ Mapped' = Mapped
    BY <2>1 DEF Lacking, Mapped
  <2>6. \A k \in Keys : creations'[k] # None => failing' \/ Flies("post", k)'
    <3> TAKE k \in Keys
    <3> HAVE creations'[k] # None
    <3>1. CASE k \in keys
      BY <2>1, <2>3, <3>1 DEF Flies
    <3>2. CASE k \notin keys
      BY <1>0, <2>1, <2>4, <3>2 DEF IntentInv, Flies
    <3> QED BY <3>1, <3>2
  <2>7. NoneRemoved'
    BY <2>1, <2>2 DEF NoneRemoved
  <2> QED BY <1>0, <2>1, <2>2, <2>4, <2>5, <2>6, <2>7 DEF IntentInv, NoneRemoved
<1>12. ASSUME NEW q \in flying, Execute(q) PROVE IntentInv'
  <2>1. PICK f \in [q.keys -> Ids] : flying' = (flying \ {q}) \cup {[q EXCEPT !.ids = f]}
    BY <1>12, Answered DEF Answer
  <2> DEFINE answered == [q EXCEPT !.ids = f]
  <2>2. answered.kind = q.kind /\ answered.keys = q.keys
    BY AnsweredRequest DEF IInv, TypeInv
  <2>3. flying' = (flying \ {q}) \cup {answered}
    BY <2>1
  <2> HIDE DEF answered
  <2>4. UNCHANGED <<journal, pc, failing>>
    BY <1>12 DEF Execute
  <2>5. \A k \in Keys : Flies("post", k) => Flies("post", k)'
    BY <2>2, <2>3 DEF Flies
  <2> QED BY <1>0, <2>4, <2>5 DEF IntentInv, NoneRemoved, Mapped
<1>13. ASSUME NEW q \in flying, Acknowledge(q) PROVE IntentInv'
  <2>0. flying' = flying \ {q} /\ UNCHANGED <<active, pc, run, failing>>
    BY <1>13 DEF Acknowledge
  <2>1. CASE q.kind = "post"
    <3>1. /\ items' = [k \in Keys |-> IF k \in q.keys
                THEN [id |-> q.ids[k], managed |-> PlanText[run][k], intent |-> PlanText[run][k]] ELSE items[k]]
          /\ creations' = [k \in Keys |-> IF k \in q.keys THEN None ELSE creations[k]]
          /\ UNCHANGED deletions
      BY <1>13, <2>1 DEF Acknowledge, Save
    <3>2. NoneRemoved /\ NoneRemoved'
      BY <2>1, <3>1, PhaseOf DEF NoneRemoved
    <3>3. \A k \in Keys : k \in Mapped' => k \in Mapped \/ k \in q.keys
      BY <3>1 DEF Mapped
    <3>4. \A k \in Keys : Flies("post", k) /\ k \notin q.keys => Flies("post", k)'
      BY <2>0 DEF Flies
    <3>5. \A k \in Keys : creations'[k] # None => k \notin q.keys /\ creations[k] # None
      BY <3>1
    <3>6. \A c \in Connectors : Ends[c] \subseteq Keys
      BY DEF Keys, MiroSyncAssumption
    <3>7. \A c \in Connectors : \A s \in Ends[c] : deletions'[s] = None
      BY <3>2, <3>6 DEF NoneRemoved
    <3>8. \A k \in Keys : deletions'[k] = None
      BY <3>2 DEF NoneRemoved
    <3>9. \A k \in Keys : creations'[k] # None => k \notin Mapped'
      BY <1>0, <3>3, <3>5 DEF IntentInv
    <3>10. \A k \in Keys : creations'[k] # None /\ pc' = "create" => failing' \/ Flies("post", k)'
      BY <1>0, <2>0, <3>4, <3>5 DEF IntentInv
    <3> QED BY <3>2, <3>7, <3>8, <3>9, <3>10 DEF IntentInv
  <2>2. CASE q.kind = "patch"
    <3>1. Mapped' = Mapped
      BY <1>13, <2>2, KeptSteps DEF Kept
    <3>2. UNCHANGED <<creations, deletions>> /\ pc = "update"
      BY <1>13, <2>2, PhaseOf DEF Acknowledge, Save
    <3> QED BY <1>0, <2>0, <3>1, <3>2 DEF IntentInv, NoneRemoved
  <2>3. CASE q.kind = "delete"
    <3>1. /\ items' = [k \in Keys |-> IF k \in q.keys THEN None ELSE items[k]]
          /\ deletions' = [k \in Keys |-> IF k \in q.keys THEN None ELSE deletions[k]]
          /\ UNCHANGED creations
      BY <1>13, <2>3 DEF Acknowledge, Save
    <3>2. NoneUncertain
      BY <2>3, PhaseOf
    <3>3. \A k \in Keys : k \in Mapped' <=> k \in Mapped /\ k \notin q.keys
      BY <3>1 DEF Mapped
    <3>4. \A k \in Keys : deletions'[k] # None <=> deletions[k] # None /\ k \notin q.keys
      BY <3>1
    <3>5. \A c \in Connectors : c \in Keys /\ Ends[c] \subseteq Keys
      BY DEF Keys, MiroSyncAssumption
    <3> QED BY <1>0, <2>0, <3>1, <3>2, <3>3, <3>4, <3>5 DEF IntentInv, NoneUncertain
  <2> QED BY <2>1, <2>2, <2>3, PhaseOf
<1>14. ASSUME NEW q \in flying, NEW known \in BOOLEAN, Fail(q, known) PROVE IntentInv'
  <2>1. /\ failing' = TRUE
        /\ \A k \in Keys : creations'[k] # None => creations[k] # None
        /\ UNCHANGED <<items, deletions, active, pc>>
    BY <1>14 DEF Fail
  <2> QED BY <1>0, <2>1 DEF IntentInv, NoneRemoved, Mapped
<1>15. CASE Crash
  BY <1>0, <1>15 DEF IntentInv, Crash, NoneRemoved, Mapped
<1>16. ASSUME NEW id \in Ids, Edit(id) PROVE IntentInv'
  BY <1>0, <1>16 DEF IntentInv, Edit, NoneRemoved, Mapped, Flies
<1>17. ASSUME NEW k \in Keys, NEW id \in Ids, Adopt(k, id) PROVE IntentInv'
  <2>1. creations[k] # None /\ pc = "idle" /\ pc' = "idle" /\ NoneRemoved
    BY <1>0, <1>17 DEF Adopt, IntentInv
  <2>2. /\ items' = [items EXCEPT ![k] = [id |-> id, managed |-> creations[k], intent |-> creations[k]]]
        /\ creations' = [creations EXCEPT ![k] = None] /\ UNCHANGED deletions
    BY <1>17 DEF Adopt
  <2>3. \A l \in Keys : l # k => items'[l] = items[l] /\ creations'[l] = creations[l]
    BY <2>2 DEF IInv, TypeInv, TypeOK
  <2>4. creations'[k] = None
    BY <2>2 DEF IInv, TypeInv, TypeOK
  <2>5. \A c \in Connectors : \A s \in Ends[c] : deletions'[s] = None
    BY <2>1, <2>2 DEF NoneRemoved, Keys, MiroSyncAssumption
  <2>6. NoneRemoved' /\ \A l \in Keys : deletions'[l] = None
    BY <2>1, <2>2 DEF NoneRemoved
  <2>7. \A l \in Keys : creations'[l] # None => l \notin Mapped'
    BY <1>0, <2>3, <2>4 DEF IntentInv, Mapped
  <2> QED BY <2>1, <2>5, <2>6, <2>7 DEF IntentInv
<1>18. ASSUME NEW k \in Keys, Absent(k) PROVE IntentInv'
  <2>1. /\ pc = "idle" /\ \A l \in Keys : creations'[l] # None => creations[l] # None
        /\ UNCHANGED <<items, deletions, active, pc>>
    BY <1>18 DEF Absent, IInv, TypeInv, TypeOK
  <2> QED BY <1>0, <2>1 DEF IntentInv, NoneRemoved, Mapped
<1>19. CASE RecoverEmpty
  BY <1>0, <1>19 DEF IntentInv, RecoverEmpty, NoneRemoved, Mapped
<1> QED
  BY <1>1, <1>2, <1>3, <1>4, <1>5, <1>6, <1>7, <1>8, <1>9, <1>10, <1>11, <1>12, <1>13, <1>14, <1>15,
     <1>16, <1>17, <1>18, <1>19 DEF Next, Publish, Investigate

-----------------------------------------------------------------------------
(* Requests in flight                                                      *)

LEMMA FlightStep ==
  ASSUME MiroSyncAssumption, IInv, [Next]_vars
  PROVE  FlightInv'
<1> USE DEF journal, miro, session
<1>0. FlightInv /\ TypeInv /\ BoardInv
  BY DEF IInv
<1>a. \A q \in flying : Sound(q)
  BY <1>0 DEF FlightInv
<1>b. SUFFICES \A q \in flying' : Sound(q)'
  BY DEF FlightInv
<1>1. CASE UNCHANGED vars
  BY <1>a, <1>1 DEF vars, Sound, Mapped, ObjectsOf, Live
<1>2. ASSUME NEW n \in Plans, Start(n) PROVE flying' = {}
  BY <1>2, Quiet DEF Start
<1>3. ASSUME Preflight PROVE flying' = {}
  BY <1>3, Quiet DEF Preflight
<1>4. ASSUME Refuse PROVE flying' = {}
  BY <1>4, Quiet DEF Refuse
<1>5. ASSUME Deleted \/ Updated \/ Raise \/ Finish \/ Crash PROVE flying' = {}
  BY <1>5 DEF Deleted, Updated, Raise, Finish, Crash
<1>6. ASSUME RecoverEmpty \/ \E k \in Keys : Absent(k) \/ \E id \in Ids : Adopt(k, id)
      PROVE flying' = {}
  BY <1>6, Quiet DEF RecoverEmpty, Absent, Adopt
<1>9. ASSUME NEW k \in Keys, Delete(k) PROVE \A q \in flying' : Sound(q)'
  <2>1. flying' = {Request("delete", {k})} /\ deletions' = [deletions EXCEPT ![k] = "attempted"]
    BY <1>9 DEF Delete
  <2>2. /\ Request("delete", {k}).kind = "delete" /\ Request("delete", {k}).keys = {k}
        /\ ~Executed(Request("delete", {k}))
    BY NewRequest
  <2>3. deletions'[k] = "attempted"
    BY <1>0, <2>1 DEF TypeInv, TypeOK
  <2>4. ASSUME NEW q \in flying' PROVE Sound(q)'
    <3>1. q.kind = "delete" /\ q.keys = {k} /\ ~Executed(q)
      BY <2>1, <2>2
    <3> QED BY <2>3, <3>1 DEF Sound, Executed
  <2> QED BY <2>4
<1>10. ASSUME NEW k \in Keys, Update(k) PROVE \A q \in flying' : Sound(q)'
  <2>1. pc = "update" /\ ~failing /\ merged[k] # None /\ \A q \in flying : k \notin q.keys
    BY <1>10 DEF Update
  <2>2. \A q \in flying : q.kind = "patch" /\ q.keys \subseteq Keys
    BY <2>1, PhaseOf
  <2>3. CASE merged[k].patch = None
    <3>1. flying' = flying /\ \A l \in Keys : l # k => merged'[l] = merged[l]
      BY <1>0, <1>10, <2>3 DEF Update, TypeInv, TypeOK
    <3> QED BY <1>a, <2>1, <2>2, <3>1 DEF Sound
  <2>4. CASE merged[k].patch # None
    <3>1. flying' = flying \cup {Request("patch", {k})} /\ merged' = merged
      BY <1>10, <2>4 DEF Update
    <3>2. Request("patch", {k}).kind = "patch" /\ Request("patch", {k}).keys = {k}
      BY NewRequest
    <3> QED BY <1>a, <2>1, <2>2, <2>4, <3>1, <3>2 DEF Sound
  <2> QED BY <2>3, <2>4
<1>11. ASSUME NEW keys \in SUBSET Keys, Create(keys) PROVE \A q \in flying' : Sound(q)'
  <2>1. /\ pc = "create" /\ ~failing /\ keys # {} /\ keys \subseteq Lacking
        /\ \/ keys \subseteq Shapes
           \/ \A c \in keys : Ends[c] \subseteq Mapped
        /\ creations' = [k \in Keys |-> IF k \in keys THEN PlanText[run][k] ELSE creations[k]]
        /\ flying' = flying \cup {Request("post", keys)}
        /\ UNCHANGED <<items, deletions, miro, run, merged, edits, posted>>
    BY <1>11 DEF Create
  <2>2. /\ Request("post", keys).kind = "post" /\ Request("post", keys).keys = keys
        /\ ~Executed(Request("post", keys))
    BY <2>1, NewRequest
  <2>3. run \in Plans
    BY <2>1 DEF IInv, SessionInv
  <2>4. \A k \in Keys : k \in keys \/ creations[k] # None => creations'[k] # None
    <3>1. \A k \in keys : creations'[k] \in Nat
      BY <2>1, <2>3 DEF MiroSyncAssumption
    <3>2. None \notin Nat
      BY DEF MiroSyncAssumption, Texts
    <3> QED BY <2>1, <3>1, <3>2
  <2>5. Mapped' = Mapped
    BY <2>1 DEF Mapped
  <2>6. ASSUME NEW q \in flying PROVE Sound(q)'
    <3>1. q.kind = "post" /\ q.keys \subseteq Keys /\ Sound(q)
      BY <1>a, <2>1, PhaseOf
    <3> QED BY <2>1, <2>4, <2>5, <3>1 DEF Sound, ObjectsOf, Live, Executed
  <2>7. ASSUME NEW k \in keys PROVE posted[k] = 0 /\ k \in Wanted[run] /\ (k \in Connectors => Ends[k] \subseteq Mapped)
    <3>1. k \in Wanted[run] /\ k \notin Mapped /\ \A q \in flying : k \notin q.keys
      BY <2>1 DEF Lacking
    <3>2. creations[k] = None
      BY <2>1, <3>1 DEF IInv, IntentInv, Flies
    <3>3. posted[k] = 0
      BY <1>0, <3>1, <3>2 DEF BoardInv
    <3>4. k \in Connectors => Ends[k] \subseteq Mapped
      BY <2>1 DEF MiroSyncAssumption
    <3> QED BY <3>1, <3>3, <3>4
  <2>8. ASSUME NEW q, q = Request("post", keys) PROVE Sound(q)'
    <3>1. q.kind = "post" /\ q.keys = keys /\ ~Executed(q)
      BY <2>2, <2>8
    <3> QED BY <2>1, <2>4, <2>5, <2>7, <3>1 DEF Sound, Executed
  <2> QED BY <2>1, <2>6, <2>8
<1>12. ASSUME NEW q \in flying, Execute(q) PROVE \A r \in flying' : Sound(r)'
  <2>1. PICK f \in [q.keys -> Ids] : Answer(q, f)
    BY <1>12, Answered
  <2> DEFINE answered == [q EXCEPT !.ids = f]
  <2>2. answered.kind = q.kind /\ answered.keys = q.keys /\ answered.ids = f /\ Executed(answered)
    BY <1>0, AnsweredRequest DEF TypeInv
  <2>3. flying' = (flying \ {q}) \cup {answered}
    BY <2>1 DEF Answer
  <2> HIDE DEF answered
  <2>4. UNCHANGED <<journal, run, merged, edits>>
    BY <1>12 DEF Execute
  <2>5. q.kind \in {"post", "patch", "delete"} /\ q.keys \subseteq Keys /\ Sound(q) /\ Mapped' = Mapped
    BY <1>a, <2>4, PhaseOf DEF Mapped
  <2>6. \A r \in flying \ {q} : r.keys \cap q.keys = {} /\ r.keys \subseteq Keys /\ Sound(r)
    BY <1>a, PhaseOf DEF IInv, SessionInv
  <2>7. CASE q.kind = "post"
    <3>1. \A r \in flying : r.kind = "post" /\ IsRequest(r)
      BY <1>0, <2>7, PhaseOf DEF TypeInv
    <3>2. nextId \in Nat /\ Cardinality(q.keys) \in Nat /\ nextId' = nextId + Cardinality(q.keys)
      BY <1>0, <2>1, <2>5, <2>7, FS_Subset, FS_CardinalityType DEF Answer, TypeInv,
         MiroSyncAssumption
    <3>3. \A k \in q.keys : f[k] \in Ids /\ f[k] \in Nat /\ nextId <= f[k] /\ f[k] < nextId'
      BY <2>1, <2>7, <3>2 DEF Answer
    <3>4. ASSUME NEW k \in q.keys PROVE board'[f[k]] # None /\ board'[f[k]].key = k
      <4> DEFINE object == [key |-> k, text |-> PlanText[run][k],
                            ends |-> IF k \in Connectors THEN {items[s].id : s \in Ends[k]} ELSE {}]
      <4>1. board'[f[k]] = object
        BY <2>1, <2>7, <3>3 DEF Answer
      <4>2. object \in Objects
        <5>1. k \in Keys /\ PlanText[run][k] \in Texts
          BY <2>5, <2>7, PhaseOf DEF Texts, MiroSyncAssumption
        <5>2. k \in Connectors => \A s \in Ends[k] : items[s].id \in Ids
          <6>1. k \in Connectors => Ends[k] \subseteq Mapped
            BY <2>5, <2>7 DEF Sound
          <6>2. \A s \in Mapped : items[s].id \in Ids
            BY <1>0 DEF TypeInv, TypeOK, Mapped, Records
          <6> QED BY <6>1, <6>2
        <5> QED BY <5>1, <5>2 DEF Objects
      <4>3. object # None
        BY <4>2 DEF MiroSyncAssumption
      <4>4. object.key = k
        OBVIOUS
      <4> HIDE DEF object
      <4> QED BY <4>1, <4>3, <4>4
    <3>5. \A id \in Ids : (\A k \in q.keys : f[k] # id) => board'[id] = board[id]
      BY <2>1, <2>7 DEF Answer
    <3>6. ASSUME NEW l \in Keys, l \notin q.keys PROVE ObjectsOf(l)' \subseteq ObjectsOf(l)
      BY <3>4, <3>5, <3>6 DEF ObjectsOf, Live
    <3>7. ASSUME NEW k \in q.keys, posted[k] = 0 PROVE ObjectsOf(k)' \subseteq {f[k]}
      <4>1. ObjectsOf(k) = {}
        BY <1>0, <2>5, <3>7 DEF BoardInv
      <4> QED BY <3>4, <3>5, <4>1 DEF ObjectsOf, Live
    <3>8. \A k \in q.keys : posted[k] = 0
      <4>1. ~Executed(q)
        BY <1>12 DEF Execute
      <4> QED BY <2>5, <2>7, <4>1 DEF Sound
    <3>9. Sound(answered)'
      <4> SUFFICES ASSUME NEW k \in answered.keys
                   PROVE  /\ creations'[k] # None /\ k \in Wanted[run]' /\ (k \in Connectors => Ends[k] \subseteq Mapped')
                          /\ ObjectsOf(k)' \subseteq {f[k]} /\ f[k] < nextId'
                          /\ board'[f[k]].key = k /\ Live(f[k])'
        BY <2>2, <2>7 DEF Sound, Executed, Live
      <4> QED BY <2>2, <2>4, <2>5, <2>7, <3>3, <3>4, <3>7, <3>8 DEF Sound, Live
    <3>10. ASSUME NEW r \in flying \ {q} PROVE Sound(r)'
      <4>1. r.kind = "post" /\ Sound(r) /\ r.keys \cap q.keys = {} /\ r.keys \subseteq Keys /\ IsRequest(r)
        BY <2>6, <3>1
      <4>2. ASSUME NEW l \in r.keys
            PROVE  /\ creations'[l] # None /\ l \in Wanted[run]' /\ (l \in Connectors => Ends[l] \subseteq Mapped')
                   /\ ~Executed(r) => posted'[l] = 0
                   /\ Executed(r) =>
                         /\ ObjectsOf(l)' \subseteq {r.ids[l]} /\ r.ids[l] < nextId'
                         /\ Live(r.ids[l])' => board'[r.ids[l]].key = l
                         /\ edits' = 0 => Live(r.ids[l])'
        <5>1. l \in Keys /\ l \notin q.keys
          BY <4>1
        <5>2. posted'[l] = posted[l]
          BY <2>1, <2>7, <5>1 DEF Answer
        <5>3. ASSUME Executed(r)
              PROVE  r.ids[l] \in Ids /\ r.ids[l] < nextId /\ board'[r.ids[l]] = board[r.ids[l]]
          <6>1. r.ids[l] \in Ids /\ r.ids[l] < nextId
            BY <4>1, <5>3, ExecutedIds DEF Sound
          <6>2. \A k \in q.keys : f[k] # r.ids[l]
            BY <3>2, <3>3, <6>1 DEF Ids
          <6> QED BY <3>5, <6>1, <6>2
        <5>4. Executed(r) => r.ids[l] < nextId'
          BY <3>2, <5>3 DEF Ids
        <5> QED BY <2>4, <2>5, <3>6, <4>1, <5>1, <5>2, <5>3, <5>4 DEF Sound, Live
      <4> QED BY <4>1, <4>2 DEF Sound, Executed
    <3> QED BY <2>3, <3>9, <3>10
  <2>8. CASE q.kind # "post"
    <3>1. PICK k \in q.keys :
            /\ q.keys = {k} /\ k \in Mapped
            /\ board' = [board EXCEPT ![items[k].id] =
                           IF q.kind = "delete" THEN None ELSE [@ EXCEPT !.text = merged[k].patch]]
      BY <2>1, <2>8 DEF Answer
    <3>2. items[k].id \in Ids
      BY <1>0, <3>1 DEF TypeInv, TypeOK, Mapped, Records
    <3>3. q.kind = "delete" => \A id \in Ids : ~Live(id) => ~Live(id)'
      BY <1>0, <3>1, <3>2 DEF TypeInv, TypeOK, Live
    <3>4. q.kind = "delete" => ~Live(items[k].id)'
      BY <1>0, <2>4, <3>1, <3>2 DEF TypeInv, TypeOK, Live
    <3>5. Sound(answered)'
      BY <2>2, <2>4, <2>5, <2>8, <3>1, <3>4 DEF Sound, Live
    <3>6. ASSUME NEW r \in flying \ {q} PROVE Sound(r)'
      <4>1. Sound(r) /\ r.kind = q.kind /\ r.keys \subseteq Keys
        BY <2>5, <2>6, PhaseOf
      <4>2. r.kind = "delete" => \A l \in r.keys : items[l].id \in Ids
        <5>1. ASSUME NEW l \in r.keys, r.kind = "delete" PROVE items[l].id \in Ids
          <6>1. deletions[l] # None /\ l \in Keys
            BY <4>1, <5>1 DEF Sound, MiroSyncAssumption
          <6>2. l \in Mapped
            BY <6>1 DEF IInv, IntentInv
          <6> QED BY <1>0, <6>2 DEF TypeInv, TypeOK, Mapped, Records
        <5> QED BY <5>1
      <4> QED BY <2>4, <2>8, <3>3, <4>1, <4>2 DEF Sound, Live, Executed
    <3> QED BY <2>3, <3>5, <3>6
  <2> QED BY <2>7, <2>8
<1>13. ASSUME NEW q \in flying, Acknowledge(q) PROVE \A r \in flying' : Sound(r)'
  <2>0. flying' = flying \ {q} /\ UNCHANGED <<miro, run, edits>>
    BY <1>13 DEF Acknowledge
  <2>1. \A r \in flying' : /\ r \in flying /\ Sound(r) /\ r.keys \cap q.keys = {} /\ r.keys \subseteq Keys
                           /\ r.kind = q.kind
    BY <1>a, <2>0, PhaseOf DEF IInv, SessionInv
  <2>2. CASE q.kind = "post"
    <3>1. /\ items' = [k \in Keys |-> IF k \in q.keys
                THEN [id |-> q.ids[k], managed |-> PlanText[run][k], intent |-> PlanText[run][k]] ELSE items[k]]
          /\ creations' = [k \in Keys |-> IF k \in q.keys THEN None ELSE creations[k]]
          /\ UNCHANGED <<deletions, merged, posted>>
      BY <1>13, <2>2 DEF Acknowledge, Save
    <3>2. Mapped \subseteq Mapped'
      <4>1. \A k \in q.keys : items'[k] # None
        <5>1. q.ids \in [q.keys -> Ids] /\ run \in Plans /\ q.keys \subseteq Keys
          BY <1>0, <1>13, ExecutedIds, PhaseOf DEF Acknowledge, TypeInv
        <5>2. \A k \in q.keys : items'[k] \in Records
          BY <3>1, <5>1 DEF Records, Texts, MiroSyncAssumption
        <5> QED BY <5>2 DEF MiroSyncAssumption
      <4> QED BY <3>1, <4>1 DEF Mapped
    <3>3. ASSUME NEW r \in flying' PROVE Sound(r)'
      <4>1. \A l \in r.keys : l \in Keys /\ l \notin q.keys /\ creations'[l] = creations[l]
        BY <2>1, <3>1
      <4>2. r.kind = "post" /\ Sound(r)
        BY <2>1, <2>2
      <4> QED BY <2>0, <3>1, <3>2, <4>1, <4>2 DEF Sound, ObjectsOf, Live, Executed
    <3> QED BY <3>3
  <2>3. CASE q.kind = "patch"
    <3>1. merged' = [k \in Keys |-> IF k \in q.keys THEN None ELSE merged[k]]
      BY <1>13, <2>3 DEF Acknowledge, Save
    <3>2. ASSUME NEW r \in flying' PROVE Sound(r)'
      <4>1. \A l \in r.keys : l \in Keys /\ l \notin q.keys /\ merged'[l] = merged[l]
        BY <2>1, <3>1
      <4>2. r.kind = "patch" /\ Sound(r)
        BY <2>1, <2>3
      <4> QED BY <4>1, <4>2 DEF Sound
    <3> QED BY <3>2
  <2>4. CASE q.kind = "delete"
    <3>1. /\ items' = [k \in Keys |-> IF k \in q.keys THEN None ELSE items[k]]
          /\ deletions' = [k \in Keys |-> IF k \in q.keys THEN None ELSE deletions[k]]
      BY <1>13, <2>4 DEF Acknowledge, Save
    <3>2. ASSUME NEW r \in flying' PROVE Sound(r)'
      <4>1. \A l \in r.keys : l \in Keys /\ l \notin q.keys /\ deletions'[l] = deletions[l] /\ items'[l] = items[l]
        BY <2>1, <3>1
      <4>2. r.kind = "delete" /\ Sound(r)
        BY <2>1, <2>4
      <4> QED BY <2>0, <4>1, <4>2 DEF Sound, Live, Executed
    <3> QED BY <3>2
  <2> QED BY <2>2, <2>3, <2>4, PhaseOf
<1>14. ASSUME NEW q \in flying, NEW known \in BOOLEAN, Fail(q, known)
       PROVE \A r \in flying' : Sound(r)'
  <2>1. /\ flying' = flying \ {q}
        /\ creations' = [k \in Keys |-> IF Forgets(q, known) /\ k \in q.keys THEN None ELSE creations[k]]
        /\ UNCHANGED <<items, deletions, miro, run, merged, edits, posted>>
    BY <1>14 DEF Fail
  <2>2. ASSUME NEW r \in flying' PROVE Sound(r)'
    <3>1. r \in flying /\ Sound(r) /\ r.keys \cap q.keys = {} /\ r.keys \subseteq Keys
      BY <1>a, <2>1, PhaseOf DEF IInv, SessionInv
    <3>2. \A l \in r.keys : creations'[l] = creations[l]
      BY <2>1, <3>1
    <3>3. Mapped' = Mapped
      BY <2>1 DEF Mapped
    <3> QED BY <2>1, <3>1, <3>2, <3>3 DEF Sound, ObjectsOf, Live, Executed
  <2> QED BY <2>2
<1>16. ASSUME NEW id \in Ids, Edit(id) PROVE \A r \in flying' : Sound(r)'
  <2>1. /\ board' \in {[board EXCEPT ![id].text = Manual], [board EXCEPT ![id] = None]}
        /\ Live(id) /\ edits' = edits + 1 /\ UNCHANGED <<journal, nextId, session, posted>>
    BY <1>16 DEF Edit
  <2>2. edits' # 0
    BY <1>0, <2>1 DEF TypeInv
  <2>3. \A o \in Ids : Live(o)' => Live(o) /\ board'[o].key = board[o].key
    BY <1>0, <2>1 DEF TypeInv, TypeOK, Live, Objects
  <2>4. ASSUME NEW r \in flying PROVE Sound(r)'
    <3>1. Sound(r) /\ IsRequest(r) /\ r.keys \subseteq Keys /\ Mapped' = Mapped
      BY <1>0, <1>a, <2>1, PhaseOf DEF TypeInv, Mapped
    <3>2. Executed(r) => \A l \in r.keys : r.ids[l] \in Ids
      BY <3>1, ExecutedIds
    <3>3. \A l \in r.keys : ObjectsOf(l)' \subseteq ObjectsOf(l)
      BY <2>3 DEF ObjectsOf, Live
    <3>4. r.kind = "delete" => \A l \in r.keys : items[l].id \in Ids
      <4>1. ASSUME NEW l \in r.keys, r.kind = "delete" PROVE items[l].id \in Ids
        <5>1. deletions[l] # None /\ l \in Keys
          BY <3>1, <4>1 DEF Sound, MiroSyncAssumption
        <5>2. l \in Mapped
          BY <5>1 DEF IInv, IntentInv
        <5> QED BY <1>0, <5>2 DEF TypeInv, TypeOK, Mapped, Records
      <4> QED BY <4>1
    <3> QED BY <2>1, <2>2, <2>3, <3>1, <3>2, <3>3, <3>4 DEF Sound, Executed, Live
  <2> QED BY <2>1, <2>4
<1> QED
  BY <1>1, <1>2, <1>3, <1>4, <1>5, <1>6, <1>9, <1>10, <1>11, <1>12, <1>13, <1>14, <1>16
  DEF Next, Publish, Investigate

-----------------------------------------------------------------------------
(* The board and the journal                                               *)

\* What is on the board stays what it was; nothing is added.
LEMMA BoardShrinks ==
  ASSUME IInv, UNCHANGED <<nextId, posted, creations>>, Kept,
         \A id \in Ids : Live(id)' => Live(id) /\ board'[id].key = board[id].key
  PROVE  BoardInv'
<1>0. BoardInv /\ TypeOK /\ MaxObjects = MaxObjects
  BY DEF IInv, TypeInv
<1>1. \A k \in Keys : ObjectsOf(k)' \subseteq ObjectsOf(k)
  BY DEF ObjectsOf, Live
<1>2. Mapped' = Mapped /\ \A k \in Mapped : items'[k].id = items[k].id /\ items[k].id \in Ids
  BY <1>0 DEF Kept, TypeOK, Mapped, Records
<1>3. \A id \in Ids : Live(id) => board[id].key \in Keys
  BY <1>0 DEF TypeOK, Live, Objects
<1>4. NothingOrphaned'
  BY <1>0, <1>2, <1>3 DEF BoardInv, NothingOrphaned
<1>5. CreatedOnce'
  BY <1>0 DEF BoardInv, CreatedOnce
<1> QED BY <1>0, <1>1, <1>2, <1>4, <1>5 DEF BoardInv

LEMMA BoardStep ==
  ASSUME MiroSyncAssumption, IInv, [Next]_vars
  PROVE  BoardInv'
<1> USE DEF journal, miro, session
<1>0. BoardInv /\ TypeInv /\ TypeOK
  BY DEF IInv, TypeInv
<1>a. \A id \in Ids : Live(id) => board[id].key \in Keys
  BY <1>0 DEF TypeOK, Live, Objects
<1>b. ASSUME UNCHANGED <<items, creations, miro, posted>> PROVE BoardInv'
  BY <1>0, <1>b DEF BoardInv, NothingOrphaned, CreatedOnce, ObjectsOf, Live, Mapped
<1>c. ASSUME Kept, UNCHANGED <<creations, miro, posted>> PROVE BoardInv'
  BY <1>c, BoardShrinks DEF Live
<1>1. CASE UNCHANGED vars
  BY <1>1, <1>b DEF vars
<1>2. ASSUME NEW n \in Plans, Start(n) PROVE BoardInv'
  BY <1>2, <1>b DEF Start
<1>3. CASE Preflight
  BY <1>3, <1>c, KeptSteps DEF Preflight
<1>4. CASE Refuse
  BY <1>4, <1>b DEF Refuse
<1>5. CASE Deleted \/ Updated
  BY <1>5, <1>b DEF Deleted, Updated
<1>6. CASE Raise \/ Crash
  BY <1>6, <1>b DEF Raise, Crash
<1>7. CASE Finish
  BY <1>7, <1>b DEF Finish
<1>9. ASSUME NEW k \in Keys, Delete(k) PROVE BoardInv'
  BY <1>9, <1>b DEF Delete
<1>10. ASSUME NEW k \in Keys, Update(k) PROVE BoardInv'
  BY <1>10, <1>c, KeptSteps DEF Update
<1>11. ASSUME NEW keys \in SUBSET Keys, Create(keys) PROVE BoardInv'
  <2>1. /\ creations' = [k \in Keys |-> IF k \in keys THEN PlanText[run][k] ELSE creations[k]]
        /\ UNCHANGED <<items, miro, run, posted>> /\ pc = "create"
    BY <1>11 DEF Create
  <2>2. run \in Plans
    BY <2>1 DEF IInv, SessionInv
  <2>3. \A k \in Keys : creations[k] # None => creations'[k] # None
    <3>1. \A k \in Keys : PlanText[run][k] # None
      BY <2>2 DEF MiroSyncAssumption, Texts
    <3> QED BY <2>1, <3>1
  <2>4. NothingOrphaned'
    BY <1>0, <1>a, <2>1, <2>3 DEF BoardInv, NothingOrphaned, Live, Mapped
  <2> QED BY <1>0, <2>1, <2>3, <2>4 DEF BoardInv, CreatedOnce, ObjectsOf, Live, Mapped
<1>12. ASSUME NEW q \in flying, Execute(q) PROVE BoardInv'
  <2>1. PICK f \in [q.keys -> Ids] : Answer(q, f)
    BY <1>12, Answered
  <2>2. UNCHANGED journal /\ Mapped' = Mapped /\ q.keys \subseteq Keys
    BY <1>12, PhaseOf DEF Execute, Mapped
  <2>3. CASE q.kind = "post"
    <3>1. /\ \A k, l \in q.keys : f[k] = f[l] => k = l
          /\ \A id \in Ids : (\A k \in q.keys : f[k] # id) => board'[id] = board[id]
          /\ posted' = [k \in Keys |-> IF k \in q.keys THEN posted[k] + 1 ELSE posted[k]]
      BY <2>1, <2>3 DEF Answer
    <3>2. nextId \in Nat /\ Cardinality(q.keys) \in Nat /\ nextId' = nextId + Cardinality(q.keys)
      BY <1>0, <2>1, <2>2, <2>3, FS_Subset, FS_CardinalityType DEF Answer, TypeInv,
         MiroSyncAssumption
    <3>3. \A k \in q.keys : f[k] \in Ids /\ f[k] \in Nat /\ nextId <= f[k] /\ f[k] < nextId'
      BY <2>1, <2>3, <3>2 DEF Answer
    <3>4. ASSUME NEW k \in q.keys PROVE board'[f[k]] # None /\ board'[f[k]].key = k /\ f[k] < nextId'
      <4>1. MiroSyncAssumption /\ IInv
        OBVIOUS
      <4>2. Answer(q, f) /\ q.kind = "post"
        BY <2>1, <2>3
      <4>3. q \in flying /\ f \in [q.keys -> Ids] /\ k \in q.keys
        OBVIOUS
      <4>4. board'[f[k]] # None /\ board'[f[k]].key = k
        BY <4>1, <4>2, <4>3, Posted
      <4> QED BY <4>1, <4>2, <4>3, <4>4, Posted
    <3>5. \A k \in q.keys : creations[k] # None /\ posted[k] = 0 /\ ObjectsOf(k) = {}
      <4>1. ~Executed(q) /\ Sound(q)
        BY <1>12 DEF Execute, IInv, FlightInv
      <4> QED BY <1>0, <2>2, <2>3, <4>1 DEF Sound, BoardInv
    <3>6. ASSUME NEW id \in Ids, Live(id)'
          PROVE  \/ \E k \in q.keys : f[k] = id /\ board'[id].key = k
                 \/ (\A k \in q.keys : f[k] # id) /\ Live(id) /\ board'[id].key = board[id].key /\ board[id].key \notin q.keys
      <4>1. CASE \E k \in q.keys : f[k] = id
        BY <3>4, <4>1
      <4>2. CASE \A k \in q.keys : f[k] # id
        BY <3>1, <3>5, <3>6, <4>2 DEF Live, ObjectsOf
      <4> QED BY <4>1, <4>2
    <3>7. NothingOrphaned'
      <4> SUFFICES ASSUME NEW id \in Ids, Live(id)'
                   PROVE  \/ creations[board'[id].key] # None
                          \/ board'[id].key \in Mapped /\ items[board'[id].key].id = id
        BY <2>2 DEF NothingOrphaned
      <4> QED BY <1>0, <3>5, <3>6 DEF BoardInv, NothingOrphaned
    <3>8. CreatedOnce'
      BY <1>0, <2>2, <3>1, <3>5 DEF BoardInv, CreatedOnce
    <3>9. \A id \in Ids : Live(id)' => id < nextId'
      BY <1>0, <3>2, <3>4, <3>6 DEF BoardInv, Ids
    <3>10. \A k \in Keys : \A i, j \in ObjectsOf(k)' : i = j
      <4> SUFFICES ASSUME NEW k \in Keys, NEW i \in ObjectsOf(k)', NEW j \in ObjectsOf(k)' PROVE i = j
        OBVIOUS
      <4>1. i \in Ids /\ Live(i)' /\ board'[i].key = k /\ j \in Ids /\ Live(j)' /\ board'[j].key = k
        BY DEF ObjectsOf, Live
      <4>2. CASE k \in q.keys
        BY <3>6, <4>1, <4>2
      <4>3. CASE k \notin q.keys
        <5>1. i \in ObjectsOf(k) /\ j \in ObjectsOf(k)
          BY <3>6, <4>1, <4>3 DEF ObjectsOf
        <5> QED BY <1>0, <5>1 DEF BoardInv
      <4> QED BY <4>2, <4>3
    <3>11. ASSUME NEW k \in Keys, posted'[k] = 0 PROVE ObjectsOf(k)' = {}
      <4>1. k \notin q.keys /\ posted[k] = 0
        BY <3>1, <3>5, <3>11
      <4>2. ObjectsOf(k) = {}
        BY <1>0, <4>1 DEF BoardInv
      <4> QED BY <3>6, <4>1, <4>2 DEF ObjectsOf, Live
    <3>12. \A k \in Keys : k \notin Mapped' /\ creations'[k] = None => posted'[k] = 0
      BY <1>0, <2>2, <3>1, <3>5 DEF BoardInv
    <3>13. ASSUME NEW k \in Mapped'
           PROVE  items'[k].id < nextId' /\ (board'[items'[k].id] # None => board'[items'[k].id].key = k)
      <4>1. /\ k \in Mapped /\ items'[k].id = items[k].id /\ items[k].id \in Ids /\ items[k].id < nextId
            /\ Live(items[k].id) => board[items[k].id].key = k
        BY <1>0, <2>2, <3>13 DEF BoardInv, TypeOK, Mapped, Records
      <4>2. \A l \in q.keys : f[l] # items[k].id
        BY <3>2, <3>3, <4>1 DEF Ids
      <4>3. board'[items[k].id] = board[items[k].id]
        BY <3>1, <4>1, <4>2
      <4>4. items[k].id < nextId'
        BY <3>2, <4>1 DEF Ids
      <4> QED BY <4>1, <4>3, <4>4 DEF Live
    <3>14. \A k \in Mapped' : items'[k].id < nextId' /\ (Live(items[k].id)' => board'[items'[k].id].key = k)
      BY <3>13 DEF Live
    <3> QED BY <3>7, <3>8, <3>9, <3>10, <3>11, <3>12, <3>14 DEF BoardInv
  <2>4. CASE q.kind # "post"
    BY <1>12, <2>2, <2>4, Edited, BoardShrinks DEF Kept
  <2> QED BY <2>3, <2>4
<1>13. ASSUME NEW q \in flying, Acknowledge(q) PROVE BoardInv'
  <2>0. UNCHANGED <<miro, run>> /\ IsRequest(q) /\ q.keys \subseteq Keys /\ Executed(q) /\ Sound(q)
    BY <1>13, PhaseOf DEF Acknowledge, IInv, TypeInv, FlightInv
  <2>1. \A k \in Keys : ObjectsOf(k)' = ObjectsOf(k)
    BY <2>0 DEF ObjectsOf, Live
  <2>2. CASE q.kind = "post"
    <3>1. /\ items' = [k \in Keys |-> IF k \in q.keys
                THEN [id |-> q.ids[k], managed |-> PlanText[run][k], intent |-> PlanText[run][k]] ELSE items[k]]
          /\ creations' = [k \in Keys |-> IF k \in q.keys THEN None ELSE creations[k]]
          /\ UNCHANGED posted
      BY <1>13, <2>2 DEF Acknowledge, Save
    <3>2. \A k \in q.keys : k \in Mapped' /\ items'[k].id = q.ids[k]
      BY <1>13, <2>2, Created
    <3>3. \A k \in Keys : k \notin q.keys => items'[k] = items[k] /\ creations'[k] = creations[k] /\ (k \in Mapped' <=> k \in Mapped)
      BY <3>1 DEF Mapped
    <3>4. \A k \in q.keys : /\ ObjectsOf(k) \subseteq {q.ids[k]} /\ q.ids[k] < nextId
                            /\ Live(q.ids[k]) => board[q.ids[k]].key = k
      BY <2>0, <2>2 DEF Sound
    <3>5. ASSUME NEW id \in Ids, Live(id)
          PROVE  \/ creations'[board[id].key] # None
                 \/ board[id].key \in Mapped' /\ items'[board[id].key].id = id
      <4>1. CASE board[id].key \in q.keys
        <5>1. id \in ObjectsOf(board[id].key)
          BY <3>5 DEF ObjectsOf
        <5> QED BY <3>2, <3>4, <4>1, <5>1
      <4>2. CASE board[id].key \notin q.keys
        BY <1>0, <1>a, <3>3, <3>5, <4>2 DEF BoardInv, NothingOrphaned
      <4> QED BY <4>1, <4>2
    <3>6. NothingOrphaned'
      BY <2>0, <3>5 DEF NothingOrphaned, Live
    <3>7. \A k \in Mapped' : k \in Keys
      BY DEF Mapped
    <3>8. \A k \in Mapped' : items'[k].id < nextId /\ (Live(items'[k].id) => board[items'[k].id].key = k)
      BY <1>0, <3>2, <3>3, <3>4, <3>7 DEF BoardInv
    <3>9. \A k \in Keys : k \notin Mapped' /\ creations'[k] = None => posted[k] = 0
      BY <1>0, <3>2, <3>3 DEF BoardInv
    <3> QED BY <1>0, <2>0, <2>1, <3>1, <3>6, <3>8, <3>9 DEF BoardInv, CreatedOnce, Live
  <2>3. CASE q.kind = "patch"
    BY <1>13, <2>0, <2>3, <1>c, KeptSteps DEF Acknowledge, Save
  <2>4. CASE q.kind = "delete"
    <3>1. /\ items' = [k \in Keys |-> IF k \in q.keys THEN None ELSE items[k]]
          /\ posted' = [k \in Keys |-> IF k \in q.keys THEN 0 ELSE posted[k]]
          /\ UNCHANGED creations
      BY <1>13, <2>4 DEF Acknowledge, Save
    <3>2. NoneUncertain
      BY <2>4, PhaseOf
    <3>3. \A k \in q.keys : ObjectsOf(k) = {}
      <4>1. \A k \in q.keys : ~Live(items[k].id)
        BY <2>0, <2>4 DEF Sound
      <4> QED BY <1>0, <1>a, <2>0, <3>2, <4>1 DEF BoardInv, NothingOrphaned, NoneUncertain, ObjectsOf
    <3>4. \A k \in Keys : k \notin q.keys => items'[k] = items[k] /\ posted'[k] = posted[k] /\ (k \in Mapped' <=> k \in Mapped)
      BY <3>1 DEF Mapped
    <3>5. \A k \in q.keys : k \notin Mapped' /\ posted'[k] = 0
      BY <2>0, <3>1 DEF Mapped
    <3>6. NothingOrphaned'
      BY <1>0, <1>a, <2>0, <3>2, <3>3, <3>4 DEF BoardInv, NothingOrphaned, NoneUncertain, ObjectsOf,
         Live
    <3>7. CreatedOnce'
      BY <1>0, <3>4, <3>5 DEF BoardInv, CreatedOnce
    <3>8. \A k \in Mapped' : k \in Keys /\ k \in Mapped /\ items'[k] = items[k]
      BY <3>4, <3>5 DEF Mapped
    <3> QED BY <1>0, <2>0, <2>1, <3>1, <3>3, <3>4, <3>5, <3>6, <3>7, <3>8 DEF BoardInv, Live
  <2> QED BY <2>2, <2>3, <2>4, PhaseOf
<1>14. ASSUME NEW q \in flying, NEW known \in BOOLEAN, Fail(q, known) PROVE BoardInv'
  <2>1. /\ creations' = [k \in Keys |-> IF Forgets(q, known) /\ k \in q.keys THEN None ELSE creations[k]]
        /\ UNCHANGED <<items, miro, posted>>
    BY <1>14 DEF Fail
  <2>2. q.keys \subseteq Keys /\ Sound(q)
    BY PhaseOf DEF IInv, FlightInv
  <2>3. CASE ~Forgets(q, known)
    <3>1. creations' = creations
      BY <1>0, <2>1, <2>3 DEF TypeOK
    <3> QED BY <1>b, <2>1, <3>1
  <2>4. CASE Forgets(q, known)
    <3>1. \A k \in q.keys : posted[k] = 0 /\ ObjectsOf(k) = {}
      BY <1>0, <1>14, <2>2, <2>4 DEF Fail, Forgets, Sound, BoardInv
    <3>2. \A k \in Keys : k \notin q.keys => creations'[k] = creations[k]
      BY <2>1
    <3>3. NothingOrphaned'
      BY <1>0, <1>a, <2>1, <3>1, <3>2 DEF BoardInv, NothingOrphaned, Live, Mapped, ObjectsOf
    <3> QED BY <1>0, <2>1, <3>1, <3>2, <3>3 DEF BoardInv, CreatedOnce, ObjectsOf, Live, Mapped
  <2> QED BY <2>3, <2>4
<1>16. ASSUME NEW id \in Ids, Edit(id) PROVE BoardInv'
  <2>1. /\ board' \in {[board EXCEPT ![id].text = Manual], [board EXCEPT ![id] = None]}
        /\ Live(id) /\ UNCHANGED <<journal, nextId, session, posted>>
    BY <1>16 DEF Edit
  <2>2. \A o \in Ids : Live(o)' => Live(o) /\ board'[o].key = board[o].key
    BY <1>0, <2>1 DEF TypeOK, Live, Objects
  <2>3. Kept
    BY <2>1 DEF Kept, Mapped
  <2> QED BY <2>1, <2>2, <2>3, BoardShrinks
<1>17. ASSUME NEW k \in Keys, NEW id \in Ids, Adopt(k, id) PROVE BoardInv'
  <2>1. /\ creations[k] # None /\ id \in Unmapped /\ board[id].key = k /\ UNCHANGED <<miro, posted>>
        /\ items' = [items EXCEPT ![k] = [id |-> id, managed |-> creations[k], intent |-> creations[k]]]
        /\ creations' = [creations EXCEPT ![k] = None]
    BY <1>17 DEF Adopt
  <2>2. creations'[k] = None /\ items'[k].id = id /\ items'[k] # None
    <3>1. creations'[k] = None /\ items'[k] = [id |-> id, managed |-> creations[k], intent |-> creations[k]]
      BY <1>0, <2>1 DEF TypeOK
    <3>2. creations[k] \in Texts
      BY <1>0, <2>1 DEF TypeOK, Texts
    <3>3. items'[k] \in Records /\ items'[k].id = id
      <4>1. creations[k] \in Nat
        BY <1>0, <2>1 DEF TypeOK
      <4>2. items'[k] = [id |-> id, managed |-> creations[k], intent |-> creations[k]]
        BY <3>1
      <4> QED BY <3>2, <4>1, <4>2 DEF Records
    <3> QED BY <3>1, <3>3 DEF MiroSyncAssumption
  <2>3. \A l \in Keys : l # k => items'[l] = items[l] /\ creations'[l] = creations[l]
    BY <1>0, <2>1 DEF TypeOK
  <2>4. Live(id) /\ id \in ObjectsOf(k) /\ id < nextId /\ k \in Mapped'
    BY <1>0, <2>1, <2>2 DEF Unmapped, ObjectsOf, BoardInv, Mapped
  <2>5. \A o \in ObjectsOf(k) : o = id
    BY <1>0, <2>4 DEF BoardInv
  <2>6. \A l \in Keys : l # k => (l \in Mapped' <=> l \in Mapped)
    BY <2>3 DEF Mapped
  <2>7. ASSUME NEW o \in Ids, Live(o)
        PROVE  creations'[board[o].key] # None \/ (board[o].key \in Mapped' /\ items'[board[o].key].id = o)
    <3>1. CASE board[o].key = k
      <4>1. o = id
        BY <2>5, <2>7, <3>1 DEF ObjectsOf
      <4> QED BY <2>2, <2>4, <3>1, <4>1
    <3>2. CASE board[o].key # k
      BY <1>0, <1>a, <2>3, <2>6, <2>7, <3>2 DEF BoardInv, NothingOrphaned
    <3> QED BY <3>1, <3>2
  <2>8. NothingOrphaned'
    BY <2>1, <2>7 DEF NothingOrphaned, Live
  <2>9. \A l \in Mapped' : l \in Keys
    BY DEF Mapped
  <2>10. \A l \in Mapped' : items'[l].id < nextId /\ (Live(items'[l].id) => board[items'[l].id].key = l)
    BY <1>0, <2>1, <2>2, <2>3, <2>4, <2>6, <2>9 DEF BoardInv
  <2>11. \A l \in Keys : l \notin Mapped' /\ creations'[l] = None => posted[l] = 0
    BY <1>0, <2>3, <2>4, <2>6 DEF BoardInv
  <2> QED BY <1>0, <2>1, <2>8, <2>10, <2>11 DEF BoardInv, CreatedOnce, ObjectsOf, Live
<1>18. ASSUME NEW k \in Keys, Absent(k) PROVE BoardInv'
  <2>1. /\ creations' = [creations EXCEPT ![k] = None] /\ posted' = [posted EXCEPT ![k] = 0]
        /\ UNCHANGED <<items, miro>>
    BY <1>18 DEF Absent
  <2>2. ObjectsOf(k) = {}
    BY <1>18 DEF Absent, ObjectsOf
  <2>3. /\ creations'[k] = None /\ posted'[k] = 0
        /\ \A l \in Keys : l # k => creations'[l] = creations[l] /\ posted'[l] = posted[l]
    BY <1>0, <2>1 DEF TypeOK, TypeInv
  <2>4. NothingOrphaned'
    BY <1>0, <1>a, <2>1, <2>2, <2>3 DEF BoardInv, NothingOrphaned, Live, Mapped, ObjectsOf
  <2>5. CreatedOnce'
    BY <1>0, <2>3 DEF BoardInv, CreatedOnce
  <2> HIDE <2>1
  <2>6. UNCHANGED <<items, miro>>
    BY <2>1
  <2> QED BY <1>0, <2>2, <2>3, <2>4, <2>5, <2>6 DEF BoardInv, ObjectsOf, Live, Mapped
<1>19. CASE RecoverEmpty
  <2>1. /\ UNCHANGED <<items, miro>> /\ \A id \in Ids : ~Live(id)
        /\ posted' = [k \in Keys |-> IF creations[k] # None THEN 0 ELSE posted[k]]
    BY <1>19 DEF RecoverEmpty
  <2>2. \A k \in Keys : k \notin Mapped => posted'[k] = 0
    BY <1>0, <2>1 DEF BoardInv
  <2>3. NothingOrphaned' /\ \A k \in Keys : ObjectsOf(k)' = {}
    BY <2>1 DEF NothingOrphaned, ObjectsOf, Live
  <2>4. CreatedOnce'
    BY <1>0, <2>1 DEF BoardInv, CreatedOnce
  <2> QED BY <1>0, <2>1, <2>2, <2>3, <2>4 DEF BoardInv, Live, Mapped
<1> QED
  BY <1>1, <1>2, <1>3, <1>4, <1>5, <1>6, <1>7, <1>9, <1>10, <1>11, <1>12, <1>13, <1>14, <1>16,
     <1>17, <1>18, <1>19
  DEF Next, Publish, Investigate

-----------------------------------------------------------------------------
(* The ends of the connectors                                              *)

\* While nobody edits the board, the objects that are left keep their ends.
LEMMA EndsKept ==
  ASSUME IInv, edits = 0, Kept, deletions' = deletions,
         \A id \in Ids : Live(id)' => Live(id) /\ board'[id].key = board[id].key /\ board'[id].ends = board[id].ends,
         \A k \in Mapped : Live(items[k].id) => board'[items[k].id] # None \/ deletions[k] = "attempted",
         MiroSyncAssumption
  PROVE  EndsInv'
<1>0. EndsInv /\ TypeOK
  BY DEF IInv, TypeInv
<1>1. /\ Mapped' = Mapped /\ \A k \in Mapped : items'[k].id = items[k].id
  BY DEF Kept
<1>2. \A k \in Mapped' : board'[items'[k].id] # None \/ deletions'[k] = "attempted"
  BY <1>0, <1>1 DEF EndsInv
<1>3. ASSUME NEW id \in Ids, Live(id)'
      PROVE  IF board'[id].key \in Connectors
             THEN /\ Ends[board'[id].key] \subseteq Mapped'
                  /\ board'[id].ends = {items'[s].id : s \in Ends[board'[id].key]}
             ELSE board'[id].ends = {}
  <2>1. Live(id) /\ board'[id].key = board[id].key /\ board'[id].ends = board[id].ends
    BY <1>3
  <2>2. CASE board[id].key \in Connectors
    <3>1. Ends[board[id].key] \subseteq Mapped /\ board[id].ends = {items[s].id : s \in Ends[board[id].key]}
      BY <1>0, <2>1, <2>2 DEF EndsInv
    <3>2. {items[s].id : s \in Ends[board[id].key]} = {items'[s].id : s \in Ends[board[id].key]}
      BY <1>1, <3>1
    <3> QED BY <1>1, <2>1, <2>2, <3>1, <3>2
  <2>3. CASE board[id].key \notin Connectors
    BY <1>0, <2>1, <2>3 DEF EndsInv
  <2> QED BY <2>2, <2>3
<1>4. \A k \in Keys : ObjectsOf(k)' \subseteq ObjectsOf(k)
  BY DEF ObjectsOf, Live
<1>5. \A s \in Shapes : deletions'[s] = "attempted" => \A c \in Connectors : s \in Ends[c] => ObjectsOf(c)' = {}
  <2>1. Connectors \subseteq Keys
    BY DEF Keys
  <2> QED BY <1>0, <1>4, <2>1 DEF EndsInv
<1> QED BY <1>2, <1>3, <1>5 DEF EndsInv, Live

LEMMA EndsStep ==
  ASSUME MiroSyncAssumption, IInv, [Next]_vars
  PROVE  EndsInv'
<1> USE DEF journal, miro, session
<1>0. EndsInv /\ TypeInv /\ TypeOK /\ BoardInv
  BY DEF IInv, TypeInv
<1>a. edits' = edits \/ edits' # 0
  <2>1. ASSUME NEW id \in Ids, Edit(id) PROVE edits' # 0
    BY <1>0, <2>1 DEF Edit, TypeInv
  <2>2. ASSUME NEW q \in flying, Execute(q) PROVE edits' = edits
    BY <2>2 DEF Execute
  <2>3. ASSUME NEW q \in flying, Acknowledge(q) PROVE edits' = edits
    BY <2>3 DEF Acknowledge
  <2> QED BY <2>1, <2>2, <2>3 DEF Next, Publish, Investigate, vars, Start, Preflight, Refuse, Deleted, Updated, Raise,
        Finish, Delete, Update, Create, RecoverEmpty, Absent, Adopt, Crash, Fail
<1>b. SUFFICES ASSUME edits = 0 PROVE EndsInv'
  BY <1>a DEF EndsInv
<1>c. ASSUME UNCHANGED <<items, deletions, board>> PROVE EndsInv'
  BY <1>0, <1>b, <1>c, EndsKept DEF Live, Mapped, Kept
<1>d. Connectors \subseteq Keys /\ Shapes \subseteq Keys /\ \A c \in Connectors : Ends[c] \subseteq Shapes
  BY DEF Keys, MiroSyncAssumption
<1>1. CASE UNCHANGED vars
  BY <1>1, <1>c DEF vars
<1>2. ASSUME NEW n \in Plans, Start(n) PROVE EndsInv'
  BY <1>2, <1>c DEF Start
<1>3. CASE Preflight
  <2>1. Kept /\ UNCHANGED miro
    BY <1>3, KeptSteps DEF Preflight
  <2>2. deletions' = [k \in Keys |-> IF k \in Removals(run) /\ deletions[k] = None THEN "planned" ELSE deletions[k]]
    BY <1>3 DEF Preflight
  <2>3. \A k \in Keys : deletions'[k] = "attempted" <=> deletions[k] = "attempted"
    BY <2>2 DEF MiroSyncAssumption
  <2>4. \A k \in Mapped' : board'[items'[k].id] # None \/ deletions'[k] = "attempted"
    BY <1>0, <1>b, <2>1, <2>3 DEF EndsInv, Kept, Live, Mapped
  <2>5. ASSUME NEW id \in Ids, Live(id)
        PROVE  IF board[id].key \in Connectors
               THEN /\ Ends[board[id].key] \subseteq Mapped'
                    /\ board[id].ends = {items'[s].id : s \in Ends[board[id].key]}
               ELSE board[id].ends = {}
    <3>1. CASE board[id].key \in Connectors
      <4>1. Ends[board[id].key] \subseteq Mapped /\ board[id].ends = {items[s].id : s \in Ends[board[id].key]}
        BY <1>0, <1>b, <2>5, <3>1 DEF EndsInv
      <4>2. {items[s].id : s \in Ends[board[id].key]} = {items'[s].id : s \in Ends[board[id].key]}
        BY <2>1, <4>1 DEF Kept
      <4> QED BY <2>1, <3>1, <4>1, <4>2 DEF Kept
    <3>2. CASE board[id].key \notin Connectors
      BY <1>0, <1>b, <2>5, <3>2 DEF EndsInv
    <3> QED BY <3>1, <3>2
  <2>6. \A s \in Shapes : deletions'[s] = "attempted" => \A c \in Connectors : s \in Ends[c] => ObjectsOf(c)' = {}
    BY <1>0, <1>b, <1>d, <2>1, <2>3 DEF EndsInv, ObjectsOf, Live
  <2> QED BY <2>1, <2>4, <2>5, <2>6 DEF EndsInv, Live
<1>4. CASE Refuse
  BY <1>4, <1>c DEF Refuse
<1>5. CASE Deleted \/ Updated
  BY <1>5, <1>c DEF Deleted, Updated
<1>6. CASE Raise \/ Crash
  BY <1>6, <1>c DEF Raise, Crash
<1>7. CASE Finish
  BY <1>7, <1>c DEF Finish
<1>9. ASSUME NEW k \in Keys, Delete(k) PROVE EndsInv'
  <2>1. /\ pc = "delete" /\ k \in NextRemovals /\ deletions' = [deletions EXCEPT ![k] = "attempted"]
        /\ UNCHANGED <<items, miro>>
    BY <1>9 DEF Delete
  <2>2. deletions[k] # None /\ (k \in Shapes => \A c \in Connectors : deletions[c] = None)
    BY <1>d, <2>1 DEF NextRemovals, MiroSyncAssumption
  <2>3. NoneUncertain
    BY <2>1 DEF IInv, SessionInv
  <2>4. ASSUME k \in Shapes, NEW c \in Connectors, k \in Ends[c] PROVE ObjectsOf(c) = {}
    <3>1. c \notin Mapped
      BY <2>2, <2>4 DEF IInv, IntentInv
    <3> QED BY <1>0, <1>d, <2>3, <3>1 DEF BoardInv, NothingOrphaned, NoneUncertain, ObjectsOf
  <2>5. deletions'[k] = "attempted" /\ \A l \in Keys : l # k => deletions'[l] = deletions[l]
    BY <1>0, <2>1 DEF TypeOK
  <2>6. \A s \in Shapes : deletions'[s] = "attempted" => \A c \in Connectors : s \in Ends[c] => ObjectsOf(c) = {}
    BY <1>0, <1>b, <1>d, <2>4, <2>5 DEF EndsInv
  <2>7. \A l \in Mapped : Live(items[l].id) \/ deletions'[l] = "attempted"
    BY <1>0, <1>b, <2>5 DEF EndsInv, Mapped
  <2> QED BY <1>0, <1>b, <2>1, <2>6, <2>7 DEF EndsInv, Live, Mapped, ObjectsOf
<1>10. ASSUME NEW k \in Keys, Update(k) PROVE EndsInv'
  <2>1. Kept /\ UNCHANGED <<deletions, miro>>
    BY <1>10, KeptSteps DEF Update
  <2> QED BY <1>b, <2>1, EndsKept DEF Live
<1>11. ASSUME NEW keys \in SUBSET Keys, Create(keys) PROVE EndsInv'
  BY <1>11, <1>c DEF Create
<1>12. ASSUME NEW q \in flying, Execute(q) PROVE EndsInv'
  <2>1. UNCHANGED journal /\ Mapped' = Mapped /\ q.keys \subseteq Keys
    BY <1>12, PhaseOf DEF Execute, Mapped
  <2>2. \A k \in Mapped : items[k].id \in Ids
    BY <1>0 DEF TypeOK, Mapped, Records
  <2>3. CASE q.kind = "post"
    <3>1. PICK f \in [q.keys -> Ids] : Answer(q, f)
      BY <1>12, Answered
    <3>2. ASSUME NEW k \in q.keys
          PROVE  /\ board'[f[k]] # None /\ board'[f[k]].key = k /\ nextId <= f[k]
                 /\ k \in Connectors => Ends[k] \subseteq Mapped /\ board'[f[k]].ends = {items[s].id : s \in Ends[k]}
                 /\ k \notin Connectors => board'[f[k]].ends = {}
      <4>1. Answer(q, f) /\ q.kind = "post" /\ MiroSyncAssumption /\ IInv
        BY <2>3, <3>1
      <4>2. board'[f[k]] # None /\ board'[f[k]].key = k /\ nextId <= f[k]
        BY <4>1, Posted
      <4>3. k \in Connectors => Ends[k] \subseteq Mapped /\ board'[f[k]].ends = {items[s].id : s \in Ends[k]}
        BY <4>1, Posted
      <4>4. k \notin Connectors => board'[f[k]].ends = {}
        BY <4>1, Posted
      <4> QED BY <4>2, <4>3, <4>4
    <3>3. \A id \in Ids : (\A k \in q.keys : f[k] # id) => board'[id] = board[id]
      BY <2>3, <3>1 DEF Answer
    <3>4. NoneRemoved
      BY <2>3, PhaseOf
    <3>5. ASSUME NEW k \in Mapped PROVE board'[items[k].id] # None
      <4>1. items[k].id < nextId /\ items[k].id \in Ids /\ nextId \in Nat
        BY <1>0, <2>2 DEF BoardInv, TypeInv
      <4>2. \A l \in q.keys : f[l] # items[k].id
        BY <3>2, <4>1 DEF Ids
      <4>3. Live(items[k].id)
        <5>1. deletions[k] = None /\ None # "attempted"
          BY <3>4 DEF NoneRemoved, Mapped, MiroSyncAssumption
        <5> QED BY <1>0, <1>b, <5>1 DEF EndsInv
      <4> QED BY <3>3, <4>1, <4>2, <4>3 DEF Live
    <3>6. ASSUME NEW id \in Ids, board'[id] # None
          PROVE  IF board'[id].key \in Connectors
                 THEN Ends[board'[id].key] \subseteq Mapped /\ board'[id].ends = {items[s].id : s \in Ends[board'[id].key]}
                 ELSE board'[id].ends = {}
      <4>1. CASE \E k \in q.keys : f[k] = id
        <5>1. PICK k \in q.keys : f[k] = id
          BY <4>1
        <5> QED BY <3>2, <5>1
      <4>2. CASE \A k \in q.keys : f[k] # id
        BY <1>0, <1>b, <3>3, <3>6, <4>2 DEF EndsInv, Live
      <4> QED BY <4>1, <4>2
    <3>7. \A s \in Shapes : deletions[s] # "attempted"
      BY <1>d, <3>4 DEF NoneRemoved, MiroSyncAssumption
    <3> QED BY <2>1, <3>5, <3>6, <3>7 DEF EndsInv, Live
  <2>4. CASE q.kind # "post"
    <3>1. Kept /\ deletions' = deletions
      BY <2>1 DEF Kept
    <3>2. \A id \in Ids : Live(id)' => Live(id) /\ board'[id].key = board[id].key /\ board'[id].ends = board[id].ends
      BY <1>12, <2>4, Edited
    <3>3. ASSUME NEW k \in Mapped, Live(items[k].id), board'[items[k].id] = None PROVE deletions[k] = "attempted"
      <4>1. PICK l \in q.keys : q.kind = "delete" /\ l \in Mapped /\ items[k].id = items[l].id
        BY <1>12, <2>2, <2>4, <3>3, Edited DEF Live
      <4>2. k = l
        BY <1>0, <3>3, <4>1 DEF BoardInv
      <4> QED BY <4>1, <4>2 DEF IInv, FlightInv, Sound
    <3> QED BY <1>b, <3>1, <3>2, <3>3, EndsKept
  <2> QED BY <2>3, <2>4
<1>13. ASSUME NEW q \in flying, Acknowledge(q) PROVE EndsInv'
  <2>0. UNCHANGED <<miro, run>> /\ q.keys \subseteq Keys /\ Executed(q) /\ Sound(q)
    BY <1>13, PhaseOf DEF Acknowledge, IInv, FlightInv
  <2>1. \A k \in Mapped : k \in Keys
    BY DEF Mapped
  <2>2. CASE q.kind = "post"
    <3>1. /\ \A k \in Keys : k \notin q.keys => items'[k] = items[k]
          /\ UNCHANGED deletions
      BY <1>13, <2>2 DEF Acknowledge, Save
    <3>2. \A k \in q.keys : k \in Mapped' /\ items'[k].id = q.ids[k] /\ k \notin Mapped /\ Live(q.ids[k])
      <4>1. \A k \in q.keys : k \in Mapped' /\ items'[k].id = q.ids[k]
        BY <1>13, <2>2, Created
      <4>2. \A k \in q.keys : creations[k] # None /\ Live(q.ids[k])
        BY <1>b, <2>0, <2>2 DEF Sound
      <4> QED BY <2>0, <4>1, <4>2 DEF IInv, IntentInv
    <3>3. NoneRemoved /\ \A s \in Shapes : deletions'[s] # "attempted"
      BY <1>d, <2>2, <3>1, PhaseOf DEF NoneRemoved, MiroSyncAssumption
    <3>4. \A k \in Mapped : k \in Mapped' /\ items'[k] = items[k]
      BY <2>1, <3>1, <3>2 DEF Mapped
    <3>5. ASSUME NEW k \in Mapped' PROVE board[items'[k].id] # None
      <4>1. CASE k \in q.keys
        BY <3>2, <4>1 DEF Live
      <4>2. CASE k \notin q.keys
        <5>1. k \in Mapped /\ items'[k] = items[k]
          BY <3>1, <4>2 DEF Mapped
        <5>2. deletions[k] # "attempted"
          BY <2>1, <3>3, <5>1 DEF NoneRemoved, MiroSyncAssumption
        <5> QED BY <1>0, <1>b, <5>1, <5>2 DEF EndsInv, Live
      <4> QED BY <4>1, <4>2
    <3>6. ASSUME NEW id \in Ids, Live(id)
          PROVE  IF board[id].key \in Connectors
                 THEN Ends[board[id].key] \subseteq Mapped' /\ board[id].ends = {items'[s].id : s \in Ends[board[id].key]}
                 ELSE board[id].ends = {}
      <4>1. CASE board[id].key \in Connectors
        <5>1. Ends[board[id].key] \subseteq Mapped /\ board[id].ends = {items[s].id : s \in Ends[board[id].key]}
          BY <1>0, <1>b, <3>6, <4>1 DEF EndsInv
        <5>2. {items[s].id : s \in Ends[board[id].key]} = {items'[s].id : s \in Ends[board[id].key]}
          BY <3>4, <5>1
        <5> QED BY <3>4, <4>1, <5>1, <5>2
      <4>2. CASE board[id].key \notin Connectors
        BY <1>0, <1>b, <3>6, <4>2 DEF EndsInv
      <4> QED BY <4>1, <4>2
    <3> QED BY <2>0, <3>3, <3>5, <3>6 DEF EndsInv, Live
  <2>3. CASE q.kind = "patch"
    <3>1. Kept /\ UNCHANGED deletions
      BY <1>13, <2>3, KeptSteps DEF Acknowledge, Save
    <3> QED BY <1>b, <2>0, <3>1, EndsKept DEF Live
  <2>4. CASE q.kind = "delete"
    <3>1. /\ items' = [k \in Keys |-> IF k \in q.keys THEN None ELSE items[k]]
          /\ deletions' = [k \in Keys |-> IF k \in q.keys THEN None ELSE deletions[k]]
      BY <1>13, <2>4 DEF Acknowledge, Save
    <3>2. \A k \in q.keys : deletions[k] = "attempted" /\ ~Live(items[k].id) /\ k \notin Mapped' /\ deletions'[k] # "attempted"
      BY <2>0, <2>4, <3>1 DEF Sound, Mapped, MiroSyncAssumption
    <3>3. \A k \in Keys : k \notin q.keys => items'[k] = items[k] /\ deletions'[k] = deletions[k] /\ (k \in Mapped' <=> k \in Mapped)
      BY <3>1 DEF Mapped
    <3>4. \A k \in Mapped' : k \in Keys /\ k \in Mapped /\ k \notin q.keys
      BY <3>2, <3>3 DEF Mapped
    <3>5. \A k \in Mapped' : Live(items'[k].id) \/ deletions'[k] = "attempted"
      BY <1>0, <1>b, <3>3, <3>4 DEF EndsInv
    <3>6. ASSUME NEW id \in Ids, Live(id)
          PROVE  IF board[id].key \in Connectors
                 THEN Ends[board[id].key] \subseteq Mapped' /\ board[id].ends = {items'[s].id : s \in Ends[board[id].key]}
                 ELSE board[id].ends = {}
      <4>1. CASE board[id].key \in Connectors
        <5>1. Ends[board[id].key] \subseteq Mapped /\ board[id].ends = {items[s].id : s \in Ends[board[id].key]}
          BY <1>0, <1>b, <3>6, <4>1 DEF EndsInv
        <5>2. \A s \in Ends[board[id].key] : s \in Shapes /\ s \in Keys /\ s \notin q.keys
          <6>1. id \in ObjectsOf(board[id].key)
            BY <3>6 DEF ObjectsOf
          <6> QED BY <1>0, <1>b, <1>d, <3>2, <4>1, <6>1 DEF EndsInv
        <5>3. \A s \in Ends[board[id].key] : s \in Mapped' /\ items'[s] = items[s]
          BY <3>3, <5>1, <5>2
        <5>4. {items[s].id : s \in Ends[board[id].key]} = {items'[s].id : s \in Ends[board[id].key]}
          BY <5>3
        <5> QED BY <4>1, <5>1, <5>3, <5>4
      <4>2. CASE board[id].key \notin Connectors
        BY <1>0, <1>b, <3>6, <4>2 DEF EndsInv
      <4> QED BY <4>1, <4>2
    <3>7. \A s \in Shapes : deletions'[s] = "attempted" => \A c \in Connectors : s \in Ends[c] => ObjectsOf(c) = {}
      BY <1>0, <1>b, <1>d, <3>2, <3>3 DEF EndsInv
    <3>8. \A k \in Mapped' : board'[items'[k].id] # None \/ deletions'[k] = "attempted"
      BY <2>0, <3>5 DEF Live
    <3> QED BY <2>0, <3>6, <3>7, <3>8 DEF EndsInv, Live, ObjectsOf
  <2> QED BY <2>2, <2>3, <2>4, PhaseOf
<1>14. ASSUME NEW q \in flying, NEW known \in BOOLEAN, Fail(q, known) PROVE EndsInv'
  BY <1>14, <1>c DEF Fail
<1>16. ASSUME NEW id \in Ids, Edit(id) PROVE EndsInv'
  BY <1>0, <1>16 DEF Edit, EndsInv, TypeInv
<1>17. ASSUME NEW k \in Keys, NEW id \in Ids, Adopt(k, id) PROVE EndsInv'
  <2>1. /\ creations[k] # None /\ id \in Unmapped /\ UNCHANGED <<miro, deletions>>
        /\ items' = [items EXCEPT ![k] = [id |-> id, managed |-> creations[k], intent |-> creations[k]]]
    BY <1>17 DEF Adopt
  <2>2. k \notin Mapped /\ NoneRemoved
    BY <2>1 DEF IInv, IntentInv
  <2>3. \A l \in Mapped : l \in Mapped' /\ items'[l] = items[l]
    BY <1>0, <2>1, <2>2 DEF TypeOK, Mapped
  <2>4. \A l \in Mapped' : l = k \/ l \in Mapped
    BY <1>0, <2>1 DEF TypeOK, Mapped
  <2>5. items'[k] = [id |-> id, managed |-> creations[k], intent |-> creations[k]]
    BY <1>0, <2>1 DEF TypeOK
  <2>6. items'[k].id = id /\ Live(id)
    BY <2>1, <2>5 DEF Unmapped
  <2>7. \A s \in Keys : deletions[s] # "attempted"
    BY <2>2 DEF NoneRemoved, MiroSyncAssumption
  <2>8. \A l \in Mapped : Live(items[l].id)
    BY <1>0, <1>b, <2>7 DEF EndsInv, Mapped
  <2>9. \A l \in Mapped' : Live(items'[l].id)
    BY <2>3, <2>4, <2>6, <2>8
  <2>10. ASSUME NEW o \in Ids, Live(o)
         PROVE  IF board[o].key \in Connectors
                THEN Ends[board[o].key] \subseteq Mapped' /\ board[o].ends = {items'[s].id : s \in Ends[board[o].key]}
                ELSE board[o].ends = {}
    <3>1. CASE board[o].key \in Connectors
      <4>1. Ends[board[o].key] \subseteq Mapped /\ board[o].ends = {items[s].id : s \in Ends[board[o].key]}
        BY <1>0, <1>b, <2>10, <3>1 DEF EndsInv
      <4>2. {items[s].id : s \in Ends[board[o].key]} = {items'[s].id : s \in Ends[board[o].key]}
        BY <2>3, <4>1
      <4> QED BY <2>3, <3>1, <4>1, <4>2
    <3>2. CASE board[o].key \notin Connectors
      BY <1>0, <1>b, <2>10, <3>2 DEF EndsInv
    <3> QED BY <3>1, <3>2
  <2>11. \A l \in Mapped' : board'[items'[l].id] # None
    BY <2>1, <2>9 DEF Live
  <2> QED BY <1>d, <2>1, <2>7, <2>10, <2>11 DEF EndsInv, Live
<1>18. ASSUME NEW k \in Keys, Absent(k) PROVE EndsInv'
  BY <1>18, <1>c DEF Absent
<1>19. CASE RecoverEmpty
  BY <1>19, <1>c DEF RecoverEmpty
<1> QED
  BY <1>1, <1>2, <1>3, <1>4, <1>5, <1>6, <1>7, <1>9, <1>10, <1>11, <1>12, <1>13, <1>14, <1>16,
     <1>17, <1>18, <1>19
  DEF Next, Publish, Investigate

-----------------------------------------------------------------------------
(* The theorems                                                            *)

LEMMA IInvInit ==
  ASSUME MiroSyncAssumption, Init
  PROVE  IInv
<1> USE DEF Init
<1>1. TypeInv
  <2>1. Cardinality({}) = 0 /\ IsFiniteSet({})
    BY FS_EmptySet
  <2>2. Runs \in Nat /\ MaxObjects \in Nat /\ Workers \in Nat
    BY DEF MiroSyncAssumption
  <2>3. 0 \in 0..Runs /\ 1 \in 1..(MaxObjects + 1) /\ 0 <= Workers
    BY <2>2
  <2>4. /\ items \in [Keys -> Records \cup {None}] /\ board \in [Ids -> Objects \cup {None}]
        /\ merged \in [Keys -> Merges \cup {None}] /\ creations \in [Keys -> Nat \cup {None}]
        /\ updates \in [Keys -> Nat \cup {None}] /\ deletions \in [Keys -> {None, "planned", "attempted"}]
        /\ posted \in [Keys -> Nat]
    OBVIOUS
  <2>5. /\ active \in 0..Runs /\ latest \in 0..Runs /\ batching \in {1, BatchSize} /\ flying = {}
        /\ nextId \in 1..(MaxObjects + 1) /\ run \in 0..Runs /\ failing \in BOOLEAN /\ edits \in Nat /\ pc = "idle"
    BY <2>3
  <2>6. IsFiniteSet(flying) /\ Cardinality(flying) <= Workers
    BY <2>1, <2>3, <2>5
  <2> HIDE DEF Init
  <2> QED BY <2>4, <2>5, <2>6 DEF TypeInv, TypeOK
<1>2. SessionInv
  BY DEF SessionInv
<1>3. IntentInv
  BY DEF IntentInv, Mapped
<1>4. FlightInv
  BY DEF FlightInv
<1>5. \A k \in Keys : ObjectsOf(k) = {}
  BY DEF ObjectsOf, Live
<1>6. BoardInv
  BY <1>5 DEF BoardInv, NothingOrphaned, CreatedOnce, Live, Mapped
<1>7. EndsInv
  <2>1. Mapped = {} /\ (\A id \in Ids : ~Live(id)) /\ Connectors \subseteq Keys
    BY DEF Mapped, Live, Keys
  <2> HIDE DEF Init
  <2> QED BY <1>5, <2>1 DEF EndsInv
<1> QED BY <1>1, <1>2, <1>3, <1>4, <1>6, <1>7 DEF IInv

LEMMA IInvStep ==
  ASSUME MiroSyncAssumption, IInv, [Next]_vars
  PROVE  IInv'
BY TypeStep, SessionStep, IntentStep, FlightStep, BoardStep, EndsStep DEF IInv

\* A connector on the board has its ends there.
LEMMA EndsLive ==
  ASSUME MiroSyncAssumption, IInv
  PROVE  NoDangling
<1>0. EndsInv /\ TypeInv /\ TypeOK
  BY DEF IInv, TypeInv
<1> SUFFICES ASSUME NEW id \in Ids, Live(id), NEW end \in board[id].ends, ~(edits > 0) PROVE Live(end)
  BY DEF NoDangling
<1>1. edits = 0
  BY <1>0 DEF TypeInv
<1>2. board[id].key \in Connectors
  BY <1>0, <1>1 DEF EndsInv
<1>3. PICK s \in Ends[board[id].key] : end = items[s].id /\ s \in Mapped
  <2>1. Ends[board[id].key] \subseteq Mapped /\ board[id].ends = {items[s].id : s \in Ends[board[id].key]}
    BY <1>0, <1>1, <1>2 DEF EndsInv
  <2> QED BY <2>1
<1>4. s \in Shapes
  BY <1>2 DEF MiroSyncAssumption
<1>5. deletions[s] # "attempted"
  <2>1. id \in ObjectsOf(board[id].key)
    BY DEF ObjectsOf
  <2> QED BY <1>0, <1>1, <1>2, <1>4, <2>1 DEF EndsInv
<1> QED BY <1>0, <1>1, <1>3, <1>5 DEF EndsInv

LEMMA Inductive ==
  ASSUME MiroSyncAssumption
  PROVE  Spec => []IInv
<1>1. Init => IInv
  BY IInvInit
<1>2. IInv /\ [Next]_vars => IInv'
  BY IInvStep
<1> QED BY <1>1, <1>2, PTL DEF Spec

\* Every variable has its type, and the requests in flight and a batch their
\* bounds.
THEOREM TypeCorrect ==
  ASSUME MiroSyncAssumption
  PROVE  Spec => []TypeOK
<1>1. IInv => TypeOK
  BY DEF IInv, TypeInv
<1> QED BY <1>1, Inductive, PTL

\* Whatever fails, whenever the program stops, whatever people do: the journal
\* knows every object the program made, no item is made twice, and no connector
\* loses a shape it ends at.
THEOREM BoardKnown ==
  ASSUME MiroSyncAssumption
  PROVE  Spec => []BoardIsKnown
<1>1. IInv => BoardIsKnown
  BY EndsLive DEF IInv, BoardInv, BoardIsKnown
<1> QED BY <1>1, Inductive, PTL

-----------------------------------------------------------------------------
(* What is written                                                         *)

\* What the journal says of an item, what a merge does, and what Miro shows
\* belong together: an object says what its record says, what a journaled PATCH
\* was to make it say, or what a person wrote.
WordsOf(k) ==
  /\ items[k].managed = items[k].intent /\ items[k].managed \in Nat
  /\ Live(items[k].id) => board[items[k].id].text \in {Manual, items[k].managed, updates[k]}

MergeOf(k) ==
  /\ merged[k].managed = merged[k].intent /\ merged[k].managed \in Nat
  /\ merged[k].patch = updates[k] /\ merged[k].patch \in {None, PlanText[run][k]}
  /\ Live(items[k].id) => board[items[k].id].text \in {Manual, merged[k].managed, merged[k].patch}

PostedInv ==
  \A id \in Ids : Live(id) /\ creations[board[id].key] # None =>
    board[id].text \in {Manual, creations[board[id].key]}

SentOf(q) ==
  \A k \in q.keys :
    /\ q.kind = "post" => creations[k] = PlanText[run][k]
    /\ q.kind = "patch" /\ Executed(q) /\ Live(items[k].id) =>
         board[items[k].id].text \in {Manual, merged[k].patch}

WordsInv ==
  /\ \A k \in Mapped : WordsOf(k)
  /\ \A k \in Keys : merged[k] # None => MergeOf(k)
  /\ PostedInv
  /\ \A q \in flying : SentOf(q)

\* A recovered record says what the board shows, unless a person wrote there.
LEMMA RecoveredSays ==
  ASSUME MiroSyncAssumption, IInv, WordsInv, NEW k \in Mapped
  PROVE  /\ Recovered(k) \in Records /\ Recovered(k).id = items[k].id
         /\ Recovered(k).managed = Recovered(k).intent /\ Recovered(k).managed \in Nat
         /\ Recovered(k).managed \in {items[k].managed, updates[k]}
         /\ Live(items[k].id) => board[items[k].id].text \in {Manual, Recovered(k).managed}
<1>0. k \in Keys /\ TypeOK /\ WordsOf(k)
  BY DEF IInv, TypeInv, WordsInv, Mapped
<1>1. Recovered(k) \in Records /\ Recovered(k).id = items[k].id
  BY <1>0, RecoveredKeeps
<1>2. CASE Recovered(k) = items[k]
  <2>1. ~(updates[k] # None /\ Live(items[k].id) /\ board[items[k].id].text = updates[k])
        \/ items[k] = [items[k] EXCEPT !.managed = updates[k], !.intent = updates[k]]
    BY <1>2 DEF Recovered
  <2>2. Live(items[k].id) => board[items[k].id].text \in Texts
    BY <1>0 DEF TypeOK, Live, Objects, Mapped, Records
  <2>3. None \notin Texts
    BY DEF MiroSyncAssumption
  <2>4. items[k] \in Records
    BY <1>0 DEF TypeOK, Mapped
  <2>5. items[k] = [items[k] EXCEPT !.managed = updates[k], !.intent = updates[k]] => items[k].managed = updates[k]
    BY <2>4 DEF Records
  <2> QED BY <1>0, <1>1, <1>2, <2>1, <2>2, <2>3, <2>5 DEF WordsOf
<1>3. CASE Recovered(k) # items[k]
  <2>1. updates[k] # None /\ Live(items[k].id) /\ board[items[k].id].text = updates[k]
    BY <1>3 DEF Recovered
  <2>2. updates[k] \in Nat /\ items[k] \in Records
    BY <1>0, <2>1 DEF TypeOK, Mapped
  <2>3. Recovered(k) = [items[k] EXCEPT !.managed = updates[k], !.intent = updates[k]]
    BY <1>3 DEF Recovered
  <2>4. Recovered(k).managed = updates[k] /\ Recovered(k).intent = updates[k]
    BY <2>2, <2>3 DEF Records
  <2> QED BY <1>1, <2>1, <2>2, <2>4
<1> QED BY <1>2, <1>3

\* What a merge of an item says that shows its record or what a person wrote.
LEMMA MergeSays ==
  ASSUME NEW r \in Records, r.managed = r.intent, r.managed \in Nat,
         NEW current \in {Manual, r.managed}, NEW desired \in Nat, Manual \notin Nat, None \notin Texts
  PROVE  LET m == Merge(r, current, desired) IN
         /\ m.managed = m.intent /\ m.managed \in {r.managed, desired} /\ m.managed \in Nat
         /\ m.patch \in {None, desired}
         /\ current \in {Manual, m.managed}
         /\ m.patch = None => current \in {Manual, desired}
         /\ m.patch # None => current \in Nat
  BY DEF Merge, Texts

\* What the preflight makes of an item it keeps.
KeptByPlan(k) == k \in (Wanted[run] \cap Mapped) \ Removals(run)

LEMMA PreflightSays ==
  ASSUME MiroSyncAssumption, IInv, WordsInv, Preflight, NEW k \in Keys
  PROVE  /\ KeptByPlan(k) =>
              /\ merged'[k] = Merge(Recovered(k), board[items[k].id].text, PlanText[run][k])
              /\ merged'[k] \in Merges /\ merged'[k] # None
              /\ updates'[k] = merged'[k].patch
              /\ Live(items[k].id)
              /\ merged'[k].managed = merged'[k].intent /\ merged'[k].managed \in Nat
              /\ merged'[k].managed \in {Recovered(k).managed, PlanText[run][k]}
              /\ merged'[k].patch \in {None, PlanText[run][k]}
              /\ board[items[k].id].text \in {Manual, merged'[k].managed}
              /\ merged'[k].patch = None => board[items[k].id].text \in {Manual, PlanText[run][k]}
              /\ merged'[k].patch # None => board[items[k].id].text \in Nat
         /\ ~KeptByPlan(k) => merged'[k] = None /\ updates'[k] = None
         /\ items'[k] = Recovered(k)
<1>0. TypeOK /\ run \in Plans
  BY DEF IInv, TypeInv, SessionInv, Preflight
<1> DEFINE kept == (Wanted[run] \cap Mapped) \ Removals(run)
           plan == [l \in Keys |-> IF l \in kept
                      THEN Merge(Recovered(l), board[items[l].id].text, PlanText[run][l]) ELSE None]
<1>1. /\ merged' = plan /\ updates' = [l \in Keys |-> IF l \in kept THEN plan[l].patch ELSE None]
      /\ items' = [l \in Keys |-> Recovered(l)]
  BY DEF Preflight
<1>2. KeptByPlan(k) <=> k \in kept
  BY DEF KeptByPlan
<1>3. items'[k] = Recovered(k)
  BY <1>1
<1>4. CASE ~KeptByPlan(k)
  BY <1>1, <1>2, <1>3, <1>4
<1>5. CASE KeptByPlan(k)
  <2>1. merged'[k] = Merge(Recovered(k), board[items[k].id].text, PlanText[run][k])
    BY <1>1, <1>2, <1>5
  <2>2. updates'[k] = merged'[k].patch
    BY <1>1, <1>2, <1>5
  <2>3. k \in Mapped /\ k \notin Tolerated
    BY <1>5 DEF KeptByPlan, Tolerated
  <2>4. Live(items[k].id) /\ items[k].id \in Ids
    BY <1>0, <2>3 DEF Preflight, Missing, Mapped, TypeOK, Records
  <2>5. board[items[k].id].text \in Texts
    BY <1>0, <2>4 DEF Live, TypeOK, Objects
  <2>6. PlanText[run][k] \in Nat /\ Manual \notin Nat /\ None \notin Texts /\ None \notin Merges
    BY <1>0 DEF MiroSyncAssumption
  <2> DEFINE r == Recovered(k)
             current == board[items[k].id].text
             desired == PlanText[run][k]
             m == merged'[k]
  <2>7. /\ r \in Records /\ r.managed = r.intent /\ r.managed \in Nat
        /\ current \in {Manual, r.managed}
    BY <2>3, <2>4, RecoveredSays
  <2>8. current \in Texts /\ desired \in Nat /\ m = Merge(r, current, desired)
    BY <2>1, <2>5, <2>6
  <2> HIDE DEF r, current, desired, m
  <2>9. m \in Merges
    BY <2>7, <2>8, MergeTyped
  <2>10. /\ m.managed = m.intent /\ m.managed \in {r.managed, desired} /\ m.managed \in Nat
         /\ m.patch \in {None, desired}
         /\ current \in {Manual, m.managed}
         /\ m.patch = None => current \in {Manual, desired}
         /\ m.patch # None => current \in Nat
    BY <2>6, <2>7, <2>8, MergeSays
  <2>11. m # None
    BY <2>6, <2>9
  <2> QED
    BY <1>3, <1>5, <2>2, <2>4, <2>8, <2>9, <2>10, <2>11 DEF r, current, desired, m
<1> QED BY <1>4, <1>5

\* Saving an item that needs no request changes its record only.
LEMMA UpdateSays ==
  ASSUME MiroSyncAssumption, IInv, NEW k \in Keys, Update(k), merged[k].patch = None
  PROVE  /\ k \in Mapped /\ items'[k].id = items[k].id
         /\ items'[k].managed = merged[k].managed /\ items'[k].intent = merged[k].intent
         /\ \A l \in Keys : l # k => items'[l] = items[l] /\ merged'[l] = merged[l]
         /\ merged[k] # None /\ merged'[k] = None /\ UNCHANGED flying
<1>0. TypeOK
  BY DEF IInv, TypeInv
<1>1. /\ items' = [items EXCEPT ![k].managed = merged[k].managed, ![k].intent = merged[k].intent]
      /\ merged' = [merged EXCEPT ![k] = None] /\ UNCHANGED flying /\ merged[k] # None
  BY DEF Update
<1>2. merged[k] \in Merges /\ k \in Mapped /\ items[k] \in Records
  BY <1>0, <1>1 DEF TypeOK, IInv, SessionInv, Mapped
<1>3. items'[k] = [items[k] EXCEPT !.managed = merged[k].managed, !.intent = merged[k].intent]
  BY <1>0, <1>1 DEF TypeOK
<1>4. \A l \in Keys : l # k => items'[l] = items[l] /\ merged'[l] = merged[l]
  BY <1>0, <1>1 DEF TypeOK
<1>5. merged'[k] = None
  BY <1>0, <1>1 DEF TypeOK
<1> DEFINE r == items[k]
           n == items'[k]
           t == merged[k].managed
           u == merged[k].intent
<1>6. r \in Records /\ n = [r EXCEPT !.managed = t, !.intent = u]
  BY <1>2, <1>3
<1> HIDE DEF r, n, t, u
<1>7. n.id = r.id /\ n.managed = t /\ n.intent = u
  BY <1>6 DEF Records
<1> QED BY <1>1, <1>2, <1>4, <1>5, <1>7 DEF r, n, t, u

\* So does the answer to a PATCH.
LEMMA PatchSays ==
  ASSUME MiroSyncAssumption, IInv, NEW q \in flying, Acknowledge(q), q.kind = "patch"
  PROVE  /\ \A k \in q.keys : /\ k \in Mapped /\ items'[k].id = items[k].id
                              /\ items'[k].managed = merged[k].patch /\ items'[k].intent = merged[k].patch
                              /\ merged[k].patch \in Nat
                              /\ updates'[k] = None /\ merged'[k] = None /\ merged[k] # None
         /\ \A k \in Keys : k \notin q.keys => items'[k] = items[k] /\ updates'[k] = updates[k] /\ merged'[k] = merged[k]
         /\ UNCHANGED creations
<1>0. TypeOK
  BY DEF IInv, TypeInv
<1>1. /\ items' = [k \in Keys |-> IF k \in q.keys
              THEN [items[k] EXCEPT !.managed = merged[k].patch, !.intent = merged[k].patch] ELSE items[k]]
      /\ updates' = [k \in Keys |-> IF k \in q.keys THEN None ELSE updates[k]]
      /\ merged' = [k \in Keys |-> IF k \in q.keys THEN None ELSE merged[k]]
      /\ UNCHANGED creations
  BY DEF Acknowledge, Save
<1>2. \A k \in q.keys : k \in Keys /\ k \in Mapped /\ items[k] \in Records /\ merged[k] # None /\ merged[k].patch \in Nat
  BY <1>0, PhaseOf DEF IInv, FlightInv, Sound, SessionInv, TypeOK, Merges, Mapped
<1>3. ASSUME NEW k \in q.keys
      PROVE  items'[k].id = items[k].id /\ items'[k].managed = merged[k].patch /\ items'[k].intent = merged[k].patch
  <2>1. items'[k] = [items[k] EXCEPT !.managed = merged[k].patch, !.intent = merged[k].patch]
    BY <1>1, <1>2
  <2> DEFINE r == items[k]
             n == items'[k]
             t == merged[k].patch
  <2>2. r \in Records /\ n = [r EXCEPT !.managed = t, !.intent = t]
    BY <1>2, <2>1
  <2> HIDE DEF r, n, t
  <2>3. n.id = r.id /\ n.managed = t /\ n.intent = t
    BY <2>2 DEF Records
  <2> QED BY <2>3 DEF r, n, t
<1>4. \A k \in q.keys : updates'[k] = None /\ merged'[k] = None
  BY <1>1, <1>2
<1>5. \A k \in Keys : k \notin q.keys => items'[k] = items[k] /\ updates'[k] = updates[k] /\ merged'[k] = merged[k]
  BY <1>1
<1> HIDE <1>1
<1>6. UNCHANGED creations
  BY DEF Acknowledge, Save
<1> QED BY <1>2, <1>3, <1>4, <1>5, <1>6

\* The answer to a POST maps what it made.
LEMMA PostSays ==
  ASSUME MiroSyncAssumption, IInv, NEW q \in flying, Acknowledge(q), q.kind = "post"
  PROVE  /\ \A k \in q.keys : /\ items'[k].id = q.ids[k] /\ k \notin Mapped /\ creations'[k] = None /\ q.ids[k] \in Ids
                              /\ items'[k].managed = PlanText[run][k] /\ items'[k].intent = PlanText[run][k]
                              /\ PlanText[run][k] \in Nat
         /\ \A k \in Keys : k \notin q.keys => items'[k] = items[k] /\ creations'[k] = creations[k]
         /\ UNCHANGED <<updates, merged>>
<1>1. /\ items' = [k \in Keys |-> IF k \in q.keys
              THEN [id |-> q.ids[k], managed |-> PlanText[run][k], intent |-> PlanText[run][k]] ELSE items[k]]
      /\ creations' = [k \in Keys |-> IF k \in q.keys THEN None ELSE creations[k]]
      /\ UNCHANGED <<updates, merged>>
  BY DEF Acknowledge, Save
<1>2. run \in Plans /\ q.keys \subseteq Keys
  BY PhaseOf
<1>3. \A k \in q.keys : k \notin Mapped /\ PlanText[run][k] \in Nat
  BY <1>2 DEF IInv, FlightInv, Sound, IntentInv, MiroSyncAssumption
<1>4. q.ids \in [q.keys -> Ids]
  BY ExecutedIds DEF Acknowledge, IInv, TypeInv
<1> QED BY <1>1, <1>2, <1>3, <1>4

\* The answer to a DELETE removes the record.
LEMMA DeleteSays ==
  ASSUME MiroSyncAssumption, IInv, NEW q \in flying, Acknowledge(q), q.kind = "delete"
  PROVE  /\ \A k \in q.keys : k \notin Mapped' /\ merged[k] = None /\ k \in Mapped /\ k \in Retired[run]
                              /\ deletions'[k] = None
         /\ \A k \in Keys : k \notin q.keys => items'[k] = items[k] /\ deletions'[k] = deletions[k]
         /\ UNCHANGED <<creations, updates, merged>>
<1>0. q.kind \notin {"post", "patch"}
  OBVIOUS
<1>1. /\ items' = [k \in Keys |-> IF k \in q.keys THEN None ELSE items[k]]
      /\ deletions' = [k \in Keys |-> IF k \in q.keys THEN None ELSE deletions[k]]
      /\ UNCHANGED <<creations, updates, merged>>
  BY <1>0 DEF Acknowledge, Save
<1>2. run \in Plans /\ q.keys \subseteq Keys /\ active = run
  BY PhaseOf
<1>3. ASSUME NEW k \in q.keys PROVE k \in Mapped /\ k \in Retired[run] /\ merged[k] = None
  <2>1. deletions[k] # None /\ k \in Keys
    BY <1>2 DEF IInv, FlightInv, Sound, MiroSyncAssumption
  <2>2. k \in Mapped /\ k \in Retired[run]
    BY <1>2, <2>1 DEF IInv, IntentInv
  <2>3. k \notin Wanted[run]
    BY <1>2, <2>2 DEF MiroSyncAssumption
  <2> QED BY <2>1, <2>2, <2>3 DEF IInv, SessionInv
<1>4. \A k \in q.keys : k \notin Mapped' /\ deletions'[k] = None
  BY <1>1, <1>2 DEF Mapped
<1> QED BY <1>1, <1>3, <1>4

\* What a PATCH does to the board.
LEMMA PatchShows ==
  ASSUME MiroSyncAssumption, IInv, NEW q \in flying, Execute(q), q.kind = "patch"
  PROVE  \E k \in Mapped :
           /\ q.keys = {k} /\ items[k].id \in Ids /\ Live(items[k].id) /\ Live(items[k].id)'
           /\ board'[items[k].id].key = board[items[k].id].key
           /\ board'[items[k].id].text = merged[k].patch
           /\ \A id \in Ids : id # items[k].id => board'[id] = board[id]
<1>0. TypeOK
  BY DEF IInv, TypeInv
<1>1. PICK f \in [q.keys -> Ids] : Answer(q, f)
  BY Answered
<1>2. PICK k \in q.keys :
        /\ q.keys = {k} /\ k \in Mapped /\ Live(items[k].id)
        /\ board' = [board EXCEPT ![items[k].id] = [@ EXCEPT !.text = merged[k].patch]]
  BY <1>1 DEF Answer
<1>3. items[k].id \in Ids
  BY <1>0, <1>2 DEF TypeOK, Mapped, Records
<1>4. \A id \in Ids : id # items[k].id => board'[id] = board[id]
  BY <1>0, <1>2 DEF TypeOK
<1>5. Live(items[k].id)' /\ board'[items[k].id].key = board[items[k].id].key
  <2>1. UNCHANGED items
    BY DEF Execute, journal
  <2>2. \A id \in Ids : Live(id) => Live(id)' \/ q.kind = "delete"
    BY Edited
  <2>3. Live(items[k].id)'
    BY <1>2, <1>3, <2>1, <2>2 DEF Live
  <2>4. \A id \in Ids : Live(id)' => board'[id].key = board[id].key
    BY Edited
  <2> QED BY <1>3, <2>1, <2>3, <2>4 DEF Live
<1>6. board'[items[k].id].text = merged[k].patch
  <2>1. board'[items[k].id] = [board[items[k].id] EXCEPT !.text = merged[k].patch]
    BY <1>0, <1>2, <1>3 DEF TypeOK
  <2>2. board[items[k].id] \in Objects
    BY <1>0, <1>2, <1>3 DEF TypeOK, Live
  <2> DEFINE o == board[items[k].id]
             n == board'[items[k].id]
             t == merged[k].patch
  <2>3. o \in Objects /\ n = [o EXCEPT !.text = t]
    BY <2>1, <2>2
  <2> HIDE DEF o, n, t
  <2>4. n.text = t
    BY <2>3 DEF Objects
  <2> QED BY <2>4 DEF n, t
<1> QED BY <1>2, <1>3, <1>4, <1>5, <1>6

\* What a POST does to the board: new objects say what the plan says.
LEMMA PostShows ==
  ASSUME MiroSyncAssumption, IInv, NEW q \in flying, NEW f \in [q.keys -> Ids], Answer(q, f), q.kind = "post"
  PROVE  /\ \A k \in q.keys : /\ board'[f[k]].key = k /\ board'[f[k]].text = PlanText[run][k] /\ Live(f[k])'
                              /\ nextId <= f[k]
         /\ \A id \in Ids : (\A k \in q.keys : f[k] # id) => board'[id] = board[id]
         /\ \A id \in Ids : Live(id) => board'[id] = board[id]
<1>1. ASSUME NEW k \in q.keys
      PROVE  board'[f[k]].key = k /\ board'[f[k]].text = PlanText[run][k] /\ Live(f[k])' /\ nextId <= f[k]
  <2>1. f[k] \in Ids
    OBVIOUS
  <2>2. board'[f[k]] = [key |-> k, text |-> PlanText[run][k],
                        ends |-> IF k \in Connectors THEN {items[s].id : s \in Ends[k]} ELSE {}]
    BY <2>1 DEF Answer
  <2>3. board'[f[k]].text = PlanText[run][k]
    BY <2>2
  <2> HIDE <2>2
  <2>4. board'[f[k]] # None /\ board'[f[k]].key = k /\ nextId <= f[k]
    BY Posted
  <2>5. (Live(f[k]))' <=> board'[f[k]] # None
    BY Posted, UNCHANGED f DEF Live
  <2> QED BY <2>3, <2>4, <2>5
<1>2. \A id \in Ids : (\A k \in q.keys : f[k] # id) => board'[id] = board[id]
  BY DEF Answer
<1>3. ASSUME NEW id \in Ids, Live(id) PROVE board'[id] = board[id]
  <2>1. id < nextId /\ nextId \in Nat
    BY <1>3 DEF IInv, BoardInv, TypeInv
  <2>2. \A k \in q.keys : f[k] # id
    BY <1>1, <2>1 DEF Ids
  <2> QED BY <1>2, <2>2
<1> QED BY <1>1, <1>2, <1>3

\* What records, merges and intents say is kept by steps that leave the records
\* alone and change the board as people do.
LEMMA WordsFrame ==
  ASSUME MiroSyncAssumption, IInv, WordsInv, UNCHANGED <<items, updates>>,
         \A k \in Keys : creations'[k] \in {creations[k], None} /\ merged'[k] \in {merged[k], None},
         run' = run \/ (flying' = {} /\ \A k \in Keys : merged'[k] = None),
         \A id \in Ids : Live(id)' => /\ Live(id) /\ board'[id].key = board[id].key
                                      /\ board'[id].text \in {board[id].text, Manual},
         \A r \in flying' :
           \/ /\ r \in flying
              /\ r.kind = "post" => \A k \in r.keys : creations'[k] = creations[k]
              /\ r.kind = "patch" => \A k \in r.keys : merged'[k] = merged[k]
           \/ r.kind # "post" /\ ~(r.kind = "patch" /\ Executed(r))
  PROVE  WordsInv'
<1>0. /\ TypeOK /\ Mapped' = Mapped /\ (\A k \in Mapped : k \in Keys /\ items[k].id \in Ids)
      /\ \A id \in Ids : Live(id) => board[id].key \in Keys
  BY DEF IInv, TypeInv, TypeOK, Mapped, Records, Live, Objects
<1>1. ASSUME NEW id \in Ids, Live(id)'
      PROVE  Live(id) /\ board'[id].key = board[id].key /\ board'[id].text \in {board[id].text, Manual}
  BY <1>1
<1>2. \A k \in Mapped : WordsOf(k)'
  <2> SUFFICES ASSUME NEW k \in Mapped PROVE WordsOf(k)'
    OBVIOUS
  <2>1. WordsOf(k) /\ items[k].id \in Ids /\ items' = items /\ updates' = updates
    BY <1>0 DEF WordsInv
  <2>2. board'[items[k].id] # None => /\ board[items[k].id] # None
                                      /\ board'[items[k].id].text \in {board[items[k].id].text, Manual}
    BY <1>1, <2>1 DEF Live
  <2> QED BY <2>1, <2>2 DEF WordsOf, Live
<1>3. ASSUME NEW k \in Keys, merged'[k] # None PROVE MergeOf(k)'
  <2>1. merged'[k] = merged[k] /\ MergeOf(k) /\ run' = run
    BY <1>3 DEF WordsInv
  <2>2. k \in Mapped /\ items[k].id \in Ids /\ items' = items /\ updates' = updates
    BY <1>0, <1>3, <2>1 DEF IInv, SessionInv
  <2>3. board'[items[k].id] # None => /\ board[items[k].id] # None
                                      /\ board'[items[k].id].text \in {board[items[k].id].text, Manual}
    BY <1>1, <2>2 DEF Live
  <2> QED BY <2>1, <2>2, <2>3 DEF MergeOf, Live
<1>4. PostedInv'
  <2> SUFFICES ASSUME NEW id \in Ids, board'[id] # None, creations'[board'[id].key] # None
               PROVE  board'[id].text \in {Manual, creations'[board'[id].key]}
    BY DEF PostedInv, Live
  <2>1. board[id] # None /\ board'[id].key = board[id].key /\ board'[id].text \in {board[id].text, Manual}
    BY <1>1 DEF Live
  <2>2. board[id].key \in Keys
    BY <1>0, <2>1 DEF Live
  <2>3. creations'[board[id].key] = creations[board[id].key]
    BY <2>1, <2>2
  <2>4. board[id].text \in {Manual, creations[board[id].key]}
    BY <2>1, <2>3 DEF WordsInv, PostedInv, Live
  <2> QED BY <2>1, <2>3, <2>4
<1>5. ASSUME NEW r \in flying' PROVE SentOf(r)'
  <2>1. CASE /\ r \in flying
             /\ r.kind = "post" => \A k \in r.keys : creations'[k] = creations[k]
             /\ r.kind = "patch" => \A k \in r.keys : merged'[k] = merged[k]
    <3>1. SentOf(r) /\ run' = run
      BY <1>5, <2>1 DEF WordsInv
    <3>2. r.kind = "patch" => \A k \in r.keys : k \in Mapped
      BY <2>1, PhaseOf DEF IInv, FlightInv, Sound, SessionInv
    <3> SUFFICES ASSUME NEW k \in r.keys
                 PROVE  /\ r.kind = "post" => creations'[k] = PlanText[run'][k]
                        /\ r.kind = "patch" /\ Executed(r) /\ board'[items'[k].id] # None =>
                             board'[items'[k].id].text \in {Manual, merged'[k].patch}
      BY DEF SentOf, Executed, Live
    <3>3. r.kind = "post" => creations'[k] = PlanText[run'][k]
      BY <2>1, <3>1 DEF SentOf
    <3>4. ASSUME r.kind = "patch", Executed(r), board'[items'[k].id] # None
          PROVE  board'[items'[k].id].text \in {Manual, merged'[k].patch}
      <4>1. items' = items /\ merged'[k] = merged[k] /\ items[k].id \in Ids
        BY <1>0, <2>1, <3>2, <3>4
      <4>2. board[items[k].id] # None /\ board'[items[k].id].text \in {board[items[k].id].text, Manual}
        BY <1>1, <3>4, <4>1 DEF Live
      <4>3. board[items[k].id].text \in {Manual, merged[k].patch}
        BY <3>1, <3>4, <4>2 DEF SentOf, Live
      <4> QED BY <4>1, <4>2, <4>3
    <3> QED BY <3>3, <3>4
  <2>2. CASE r.kind # "post" /\ ~(r.kind = "patch" /\ Executed(r))
    BY <2>2 DEF SentOf, Executed
  <2> QED BY <1>5, <2>1, <2>2
<1> QED BY <1>0, <1>2, <1>3, <1>4, <1>5 DEF WordsInv

LEMMA WordsPreflight ==
  ASSUME MiroSyncAssumption, IInv, WordsInv, Preflight
  PROVE  WordsInv'
<1>0. /\ TypeOK /\ Kept /\ UNCHANGED <<board, creations, run, flying>> /\ flying = {} /\ NoneUncertain
  BY KeptSteps, Quiet DEF IInv, TypeInv, SessionInv, Preflight, miro
<1>1. ASSUME NEW k \in Mapped PROVE WordsOf(k)'
  <2>1. /\ Recovered(k).id = items[k].id
        /\ Recovered(k).managed = Recovered(k).intent /\ Recovered(k).managed \in Nat
        /\ Live(items[k].id) => board[items[k].id].text \in {Manual, Recovered(k).managed}
    BY <1>1, RecoveredSays
  <2>2. items'[k] = Recovered(k)
    BY <1>1, PreflightSays DEF Mapped
  <2> QED BY <1>0, <2>1, <2>2 DEF WordsOf, Live
<1>2. ASSUME NEW k \in Keys, merged'[k] # None PROVE MergeOf(k)'
  <2>1. KeptByPlan(k)
    BY <1>2, PreflightSays
  <2>2. k \in Mapped /\ items'[k].id = items[k].id
    BY <1>0, <2>1 DEF KeptByPlan, Kept
  <2>3. /\ updates'[k] = merged'[k].patch
        /\ merged'[k].managed = merged'[k].intent /\ merged'[k].managed \in Nat
        /\ merged'[k].patch \in {None, PlanText[run][k]}
        /\ board[items[k].id].text \in {Manual, merged'[k].managed}
    BY <2>1, PreflightSays
  <2> QED BY <1>0, <2>2, <2>3 DEF MergeOf
<1>3. PostedInv'
  BY <1>0 DEF WordsInv, PostedInv, Live
<1> QED BY <1>0, <1>1, <1>2, <1>3 DEF WordsInv, Kept

LEMMA WordsUpdate ==
  ASSUME MiroSyncAssumption, IInv, WordsInv, NEW k \in Keys, Update(k), merged[k].patch = None
  PROVE  WordsInv'
<1>0. /\ TypeOK /\ Kept /\ UNCHANGED <<board, creations, updates, run, flying>>
  BY KeptSteps DEF IInv, TypeInv, Update, miro
<1>a. /\ k \in Mapped /\ items'[k].id = items[k].id
      /\ items'[k].managed = merged[k].managed /\ items'[k].intent = merged[k].intent
      /\ \A l \in Keys : l # k => items'[l] = items[l] /\ merged'[l] = merged[l]
      /\ merged[k] # None /\ merged'[k] = None
  BY UpdateSays
<1>b. MergeOf(k)
  BY <1>a DEF WordsInv
<1>1. ASSUME NEW l \in Mapped PROVE WordsOf(l)'
  <2>1. CASE l = k
    BY <1>0, <1>a, <1>b, <2>1 DEF MergeOf, WordsOf, Live
  <2>2. CASE l # k
    <3>1. items'[l] = items[l] /\ WordsOf(l)
      BY <1>a, <2>2 DEF Mapped, WordsInv
    <3> QED BY <1>0, <3>1 DEF WordsOf, Live
  <2> QED BY <2>1, <2>2
<1>2. ASSUME NEW l \in Keys, merged'[l] # None PROVE MergeOf(l)'
  <2>1. items'[l] = items[l] /\ merged'[l] = merged[l] /\ MergeOf(l)
    BY <1>2, <1>a DEF WordsInv
  <2> QED BY <1>0, <2>1 DEF MergeOf, Live
<1>3. PostedInv'
  BY <1>0 DEF WordsInv, PostedInv, Live
<1>4. ASSUME NEW q \in flying PROVE SentOf(q)'
  <2>1. SentOf(q) /\ k \notin q.keys /\ q.keys \subseteq Keys
    BY PhaseOf DEF WordsInv, Update
  <2>2. \A l \in q.keys : items'[l] = items[l] /\ merged'[l] = merged[l]
    BY <1>a, <2>1
  <2> QED BY <1>0, <2>1, <2>2 DEF SentOf, Live, Executed
<1> QED BY <1>0, <1>1, <1>2, <1>3, <1>4 DEF WordsInv, Kept

LEMMA WordsCreate ==
  ASSUME MiroSyncAssumption, IInv, WordsInv, NEW keys \in SUBSET Keys, Create(keys)
  PROVE  WordsInv'
<1>0. /\ TypeOK /\ UNCHANGED <<items, updates, board, run, merged>> /\ run \in Plans /\ pc = "create" /\ ~failing
      /\ creations' = [k \in Keys |-> IF k \in keys THEN PlanText[run][k] ELSE creations[k]]
      /\ flying' = flying \cup {Request("post", keys)}
      /\ keys # {} /\ keys \subseteq Lacking
  BY DEF IInv, TypeInv, SessionInv, Create, miro
<1>1. \A k \in Mapped : WordsOf(k)'
  <2>1. \A k \in Mapped : WordsOf(k)
    BY DEF WordsInv
  <2> QED BY <1>0, <2>1 DEF WordsOf, Live
<1>2. \A k \in Keys : merged'[k] # None => MergeOf(k)'
  <2>1. \A k \in Keys : merged[k] # None => MergeOf(k)
    BY DEF WordsInv
  <2> QED BY <1>0, <2>1 DEF MergeOf, Live
<1>3. ASSUME NEW k \in keys PROVE ObjectsOf(k) = {}
  <2>1. k \in Keys /\ k \notin Mapped /\ ~Flies("post", k)
    BY <1>0 DEF Lacking, Flies
  <2>2. creations[k] = None
    BY <1>0, <2>1 DEF IInv, IntentInv
  <2> QED BY <2>1, <2>2 DEF IInv, BoardInv
<1>4. PostedInv'
  <2> SUFFICES ASSUME NEW id \in Ids, board[id] # None, creations'[board[id].key] # None
               PROVE  board[id].text \in {Manual, creations'[board[id].key]}
    BY <1>0 DEF PostedInv, Live
  <2>1. board[id].key \in Keys /\ board[id].key \notin keys
    BY <1>0, <1>3 DEF TypeOK, Objects, ObjectsOf, Live
  <2>2. creations'[board[id].key] = creations[board[id].key]
    BY <1>0, <2>1
  <2> QED BY <2>2 DEF WordsInv, PostedInv, Live
<1>5. ASSUME NEW q \in flying' PROVE SentOf(q)'
  <2>1. CASE q \in flying
    <3>1. SentOf(q) /\ q.keys \subseteq Keys
      BY <2>1, PhaseOf DEF WordsInv
    <3>2. \A k \in q.keys : k \notin keys
      BY <1>0, <2>1 DEF Lacking
    <3>3. \A k \in q.keys : creations'[k] = creations[k]
      BY <1>0, <3>1, <3>2
    <3> QED BY <1>0, <3>1, <3>3 DEF SentOf, Live, Executed
  <2>2. CASE q = Request("post", keys)
    <3>1. q.kind = "post" /\ q.keys = keys
      BY <2>2 DEF Request
    <3>2. \A k \in keys : creations'[k] = PlanText[run][k]
      BY <1>0
    <3> QED BY <1>0, <3>1, <3>2 DEF SentOf
  <2> QED BY <1>0, <2>1, <2>2
<1>6. Mapped' = Mapped
  BY <1>0 DEF Mapped
<1> QED BY <1>1, <1>2, <1>4, <1>5, <1>6 DEF WordsInv

\* A POST adds objects that nobody knows yet.
LEMMA WordsPosted ==
  ASSUME MiroSyncAssumption, IInv, WordsInv, NEW q \in flying, Execute(q), q.kind = "post"
  PROVE  WordsInv'
<1>1. PICK f \in [q.keys -> Ids] : Answer(q, f)
  BY Answered
<1>0. /\ TypeOK /\ UNCHANGED <<items, updates, creations, run, merged>> /\ NoneRemoved /\ Mapped' = Mapped
      /\ flying' = (flying \ {q}) \cup {[q EXCEPT !.ids = f]}
  BY <1>1, PhaseOf DEF IInv, TypeInv, Execute, Answer, journal, Mapped
<1>2. /\ \A k \in q.keys : /\ board'[f[k]].key = k /\ board'[f[k]].text = PlanText[run][k]
                           /\ nextId <= f[k]
      /\ \A id \in Ids : (\A k \in q.keys : f[k] # id) => board'[id] = board[id]
  BY <1>1, PostShows
<1>3. ASSUME NEW k \in Mapped PROVE items[k].id \in Ids /\ board'[items[k].id] = board[items[k].id]
  <2>1. items[k].id \in Ids /\ items[k].id < nextId /\ nextId \in Nat
    BY <1>0, <1>3 DEF IInv, BoardInv, TypeInv, TypeOK, Mapped, Records
  <2>2. \A l \in q.keys : f[l] # items[k].id
    BY <1>2, <2>1 DEF Ids
  <2> QED BY <1>2, <2>1, <2>2
<1>4. ASSUME NEW k \in Mapped PROVE WordsOf(k)'
  <2>1. WordsOf(k)
    BY DEF WordsInv
  <2> QED BY <1>0, <1>3, <2>1 DEF WordsOf, Live
<1>5. ASSUME NEW k \in Keys, merged'[k] # None PROVE MergeOf(k)'
  <2>1. merged[k] # None /\ MergeOf(k)
    BY <1>0, <1>5 DEF WordsInv
  <2>2. k \in Mapped
    BY <2>1 DEF IInv, SessionInv
  <2> QED BY <1>0, <1>3, <2>1, <2>2 DEF MergeOf, Live
<1>6. PostedInv'
  <2> SUFFICES ASSUME NEW id \in Ids, board'[id] # None, creations[board'[id].key] # None
               PROVE  board'[id].text \in {Manual, creations[board'[id].key]}
    BY <1>0 DEF PostedInv, Live
  <2>1. CASE \E k \in q.keys : f[k] = id
    <3>1. PICK k \in q.keys : f[k] = id
      BY <2>1
    <3>2. board'[id].key = k /\ board'[id].text = PlanText[run][k]
      BY <1>2, <3>1
    <3>3. creations[k] = PlanText[run][k]
      BY DEF WordsInv, SentOf
    <3> QED BY <3>2, <3>3
  <2>2. CASE \A k \in q.keys : f[k] # id
    BY <1>2, <2>2 DEF WordsInv, PostedInv, Live
  <2> QED BY <2>1, <2>2
<1>7. ASSUME NEW r \in flying' PROVE SentOf(r)'
  <2> DEFINE answered == [q EXCEPT !.ids = f]
  <2>1. answered.kind = "post" /\ answered.keys = q.keys
    BY AnsweredRequest DEF IInv, TypeInv
  <2>2. r \in flying \/ r = answered
    BY <1>0
  <2> HIDE DEF answered
  <2>3. r.kind = "post"
    BY <2>1, <2>2, PhaseOf
  <2>4. \A k \in r.keys : creations[k] = PlanText[run][k]
    BY <2>1, <2>2, <2>3 DEF WordsInv, SentOf
  <2> QED BY <1>0, <2>3, <2>4 DEF SentOf
<1> QED BY <1>0, <1>4, <1>5, <1>6, <1>7 DEF WordsInv

\* A PATCH makes an object say what the journal said it would.
LEMMA WordsPatched ==
  ASSUME MiroSyncAssumption, IInv, WordsInv, NEW q \in flying, Execute(q), q.kind = "patch"
  PROVE  WordsInv'
<1>1. PICK f \in [q.keys -> Ids] : Answer(q, f)
  BY Answered
<1>0. /\ TypeOK /\ UNCHANGED <<items, updates, creations, run, merged>> /\ NoneUncertain /\ Mapped' = Mapped
      /\ flying' = (flying \ {q}) \cup {[q EXCEPT !.ids = f]}
      /\ \A l \in Mapped : l \in Keys /\ items[l].id \in Ids
  BY <1>1, PhaseOf DEF IInv, TypeInv, TypeOK, Execute, Answer, journal, Mapped, Records
<1>2. PICK k \in Mapped :
        /\ q.keys = {k} /\ items[k].id \in Ids /\ Live(items[k].id)
        /\ board'[items[k].id].text = merged[k].patch
        /\ board'[items[k].id].key = board[items[k].id].key
        /\ \A id \in Ids : id # items[k].id => board'[id] = board[id]
  BY PatchShows
<1>3. merged[k] # None /\ MergeOf(k) /\ updates[k] = merged[k].patch
  BY <1>0, <1>2 DEF IInv, FlightInv, Sound, WordsInv, MergeOf
<1>4. ASSUME NEW l \in Mapped, Live(items[l].id), items[l].id = items[k].id PROVE l = k
  BY <1>2, <1>4 DEF IInv, BoardInv
<1>5. ASSUME NEW l \in Mapped, board'[items[l].id] # None
      PROVE  \/ l = k /\ board'[items[l].id].text = merged[k].patch
             \/ board'[items[l].id] = board[items[l].id]
  <2>1. CASE items[l].id = items[k].id
    BY <1>2, <1>4, <2>1
  <2>2. CASE items[l].id # items[k].id
    BY <1>0, <1>2, <2>2
  <2> QED BY <2>1, <2>2
<1>6. ASSUME NEW l \in Mapped PROVE WordsOf(l)'
  <2>1. WordsOf(l)
    BY DEF WordsInv
  <2>2. board'[items[l].id] # None => board'[items[l].id].text \in {Manual, items[l].managed, updates[l]}
    BY <1>3, <1>5, <2>1 DEF WordsOf, Live
  <2> QED BY <1>0, <2>1, <2>2 DEF WordsOf, Live
<1>7. ASSUME NEW l \in Keys, merged'[l] # None PROVE MergeOf(l)'
  <2>1. merged[l] # None /\ MergeOf(l)
    BY <1>0, <1>7 DEF WordsInv
  <2>2. l \in Mapped
    BY <2>1 DEF IInv, SessionInv
  <2>3. board'[items[l].id] # None => board'[items[l].id].text \in {Manual, merged[l].managed, merged[l].patch}
    BY <1>5, <2>1, <2>2 DEF MergeOf, Live
  <2> QED BY <1>0, <2>1, <2>3 DEF MergeOf, Live
<1>8. PostedInv'
  <2>1. \A id \in Ids : board'[id] # None => creations'[board'[id].key] = None
    <3> TAKE id \in Ids
    <3>1. board'[id] # None => board'[id].key = board[id].key /\ board[id] # None
      BY <1>2 DEF Live
    <3>2. board[id] # None => board[id].key \in Keys
      BY <1>0 DEF TypeOK, Objects
    <3> QED BY <1>0, <3>1, <3>2 DEF NoneUncertain
  <2> QED BY <2>1 DEF PostedInv, Live
<1>9. ASSUME NEW r \in flying' PROVE SentOf(r)'
  <2> DEFINE answered == [q EXCEPT !.ids = f]
  <2>1. answered.kind = "patch" /\ answered.keys = q.keys
    BY AnsweredRequest DEF IInv, TypeInv
  <2>2. r \in flying \/ r = answered
    BY <1>0
  <2> HIDE DEF answered
  <2>3. r.kind # "post"
    BY <2>1, <2>2, PhaseOf
  <2>4. r.kind = "patch" => \A l \in r.keys : l \in Mapped
    BY <1>2, <2>1, <2>2, PhaseOf DEF IInv, FlightInv, Sound, SessionInv
  <2>5. ASSUME NEW l \in r.keys, r.kind = "patch", Executed(r), board'[items[l].id] # None
        PROVE  board'[items[l].id].text \in {Manual, merged[l].patch}
    <3>1. CASE l = k /\ board'[items[l].id].text = merged[k].patch
      BY <3>1
    <3>2. CASE r \in flying /\ board'[items[l].id] = board[items[l].id]
      BY <2>5, <3>2 DEF WordsInv, SentOf, Live
    <3>3. CASE r = answered
      BY <1>2, <2>1, <3>1, <3>3
    <3> QED BY <1>5, <2>2, <2>4, <2>5, <3>1, <3>2, <3>3
  <2> QED BY <1>0, <2>3, <2>5 DEF SentOf, Live, Executed
<1> QED BY <1>0, <1>6, <1>7, <1>8, <1>9 DEF WordsInv

\* What an acknowledgement saves is what the board shows.
LEMMA WordsAcknowledged ==
  ASSUME MiroSyncAssumption, IInv, WordsInv, NEW q \in flying, Acknowledge(q)
  PROVE  WordsInv'
<1>0. /\ TypeOK /\ UNCHANGED <<board, run>> /\ flying' = flying \ {q} /\ Executed(q) /\ q.keys \subseteq Keys
      /\ q.kind \in {"post", "patch", "delete"} /\ IsRequest(q) /\ SentOf(q)
      /\ \A r \in flying' : r \in flying /\ r.keys \cap q.keys = {} /\ r.keys \subseteq Keys /\ SentOf(r)
  BY PhaseOf DEF IInv, TypeInv, SessionInv, WordsInv, Acknowledge, miro
<1>1. CASE q.kind = "post"
  <2>0. /\ \A k \in q.keys : /\ items'[k].id = q.ids[k] /\ k \notin Mapped /\ creations'[k] = None /\ q.ids[k] \in Ids
                             /\ items'[k].managed = PlanText[run][k] /\ items'[k].intent = PlanText[run][k]
                             /\ PlanText[run][k] \in Nat
        /\ \A k \in Keys : k \notin q.keys => items'[k] = items[k] /\ creations'[k] = creations[k]
        /\ UNCHANGED <<updates, merged>>
    BY <1>1, PostSays
  <2>1. ASSUME NEW k \in Mapped' PROVE WordsOf(k)'
    <3>1. CASE k \in q.keys
      <4>1. creations[k] = PlanText[run][k] /\ creations[k] # None
        BY <1>0, <1>1, <3>1 DEF SentOf, IInv, FlightInv, Sound
      <4>2. board[q.ids[k]] # None => board[q.ids[k]].key = k
        BY <1>0, <1>1, <3>1 DEF IInv, FlightInv, Sound, Live
      <4>3. board[q.ids[k]] # None => board[q.ids[k]].text \in {Manual, PlanText[run][k]}
        BY <2>0, <3>1, <4>1, <4>2 DEF WordsInv, PostedInv, Live
      <4> QED BY <1>0, <2>0, <3>1, <4>3 DEF WordsOf, Live
    <3>2. CASE k \notin q.keys
      <4>1. k \in Mapped /\ items'[k] = items[k]
        BY <2>0, <3>2 DEF Mapped
      <4>2. WordsOf(k)
        BY <4>1 DEF WordsInv
      <4> QED BY <1>0, <2>0, <4>1, <4>2 DEF WordsOf, Live
    <3> QED BY <3>1, <3>2
  <2>2. ASSUME NEW k \in Keys, merged'[k] # None PROVE FALSE
    BY <1>1, <2>0, <2>2, PhaseOf DEF IInv, SessionInv
  <2>3. PostedInv'
    <3> SUFFICES ASSUME NEW id \in Ids, board[id] # None, creations'[board[id].key] # None
                 PROVE  board[id].text \in {Manual, creations'[board[id].key]}
      BY <1>0 DEF PostedInv, Live
    <3>1. board[id].key \in Keys
      BY <1>0 DEF TypeOK, Objects
    <3>2. creations'[board[id].key] = creations[board[id].key]
      BY <2>0, <3>1
    <3> QED BY <3>2 DEF WordsInv, PostedInv, Live
  <2>4. ASSUME NEW r \in flying' PROVE SentOf(r)'
    <3>1. r.kind = "post" /\ SentOf(r)
      BY <1>0, <1>1, PhaseOf
    <3>2. \A k \in r.keys : creations'[k] = creations[k]
      BY <1>0, <2>0
    <3> QED BY <1>0, <3>1, <3>2 DEF SentOf
  <2> QED BY <2>1, <2>2, <2>3, <2>4 DEF WordsInv
<1>2. CASE q.kind = "patch"
  <2>0. /\ \A k \in q.keys : /\ k \in Mapped /\ items'[k].id = items[k].id
                             /\ items'[k].managed = merged[k].patch /\ items'[k].intent = merged[k].patch
                             /\ merged[k].patch \in Nat
                             /\ updates'[k] = None /\ merged'[k] = None /\ merged[k] # None
        /\ \A k \in Keys : k \notin q.keys => items'[k] = items[k] /\ updates'[k] = updates[k] /\ merged'[k] = merged[k]
        /\ UNCHANGED creations
    BY <1>2, PatchSays
  <2>m. Mapped' = Mapped
    BY <1>2, KeptSteps DEF Kept
  <2>1. ASSUME NEW k \in Mapped PROVE WordsOf(k)'
    <3>1. CASE k \in q.keys
      <4>1. board[items[k].id] # None => board[items[k].id].text \in {Manual, merged[k].patch}
        BY <1>0, <1>2, <3>1 DEF SentOf, Live
      <4> QED BY <1>0, <2>0, <3>1, <4>1 DEF WordsOf, Live
    <3>2. CASE k \notin q.keys
      <4>1. WordsOf(k) /\ items'[k] = items[k] /\ updates'[k] = updates[k]
        BY <2>0, <3>2 DEF WordsInv, Mapped
      <4> QED BY <1>0, <4>1 DEF WordsOf, Live
    <3> QED BY <3>1, <3>2
  <2>2. ASSUME NEW k \in Keys, merged'[k] # None PROVE MergeOf(k)'
    <3>1. k \notin q.keys
      BY <2>0, <2>2
    <3>2. items'[k] = items[k] /\ updates'[k] = updates[k] /\ merged'[k] = merged[k] /\ MergeOf(k)
      BY <2>0, <2>2, <3>1 DEF WordsInv
    <3> QED BY <1>0, <3>2 DEF MergeOf, Live
  <2>3. PostedInv'
    BY <1>0, <2>0 DEF WordsInv, PostedInv, Live
  <2>4. ASSUME NEW r \in flying' PROVE SentOf(r)'
    <3>1. SentOf(r) /\ \A k \in r.keys : items'[k] = items[k] /\ merged'[k] = merged[k]
      BY <1>0, <2>0
    <3> QED BY <1>0, <2>0, <3>1 DEF SentOf, Live, Executed
  <2> QED BY <2>m, <2>1, <2>2, <2>3, <2>4 DEF WordsInv
<1>3. CASE q.kind = "delete"
  <2>0. /\ \A k \in q.keys : k \notin Mapped' /\ merged[k] = None
        /\ \A k \in Keys : k \notin q.keys => items'[k] = items[k]
        /\ UNCHANGED <<creations, updates, merged>>
    BY <1>3, DeleteSays
  <2>1. ASSUME NEW k \in Mapped' PROVE WordsOf(k)'
    <3>1. k \notin q.keys /\ k \in Keys
      BY <2>0 DEF Mapped
    <3>2. k \in Mapped /\ items'[k] = items[k]
      BY <2>0, <3>1 DEF Mapped
    <3>3. WordsOf(k)
      BY <3>2 DEF WordsInv
    <3> QED BY <1>0, <2>0, <3>2, <3>3 DEF WordsOf, Live
  <2>2. ASSUME NEW k \in Keys, merged'[k] # None PROVE MergeOf(k)'
    <3>1. merged[k] # None /\ k \notin q.keys /\ items'[k] = items[k] /\ MergeOf(k)
      BY <2>0, <2>2 DEF WordsInv
    <3> QED BY <1>0, <2>0, <3>1 DEF MergeOf, Live
  <2>3. PostedInv'
    BY <1>0, <2>0 DEF WordsInv, PostedInv, Live
  <2>4. ASSUME NEW r \in flying' PROVE SentOf(r)'
    <3>1. SentOf(r) /\ \A k \in r.keys : items'[k] = items[k]
      BY <1>0, <2>0
    <3> QED BY <1>0, <2>0, <3>1 DEF SentOf, Live, Executed
  <2> QED BY <2>1, <2>2, <2>3, <2>4 DEF WordsInv
<1> QED BY <1>0, <1>1, <1>2, <1>3

\* The object the investigator found says what was posted, or a person wrote it.
LEMMA AdoptSays ==
  ASSUME MiroSyncAssumption, IInv, NEW k \in Keys, NEW id \in Ids, Adopt(k, id)
  PROVE  /\ items'[k].id = id /\ items'[k].managed = creations[k] /\ items'[k].intent = creations[k]
         /\ creations[k] \in Nat /\ creations'[k] = None /\ board[id].key = k /\ k \notin Mapped /\ Live(id)
         /\ \A l \in Keys : l # k => items'[l] = items[l] /\ creations'[l] = creations[l]
         /\ UNCHANGED <<updates, merged, board, flying, run>> /\ flying = {} /\ \A l \in Keys : merged[l] = None
<1>0. TypeOK /\ pc = "idle" /\ creations[k] # None /\ board[id].key = k /\ Live(id)
      /\ items' = [items EXCEPT ![k] = [id |-> id, managed |-> creations[k], intent |-> creations[k]]]
      /\ creations' = [creations EXCEPT ![k] = None] /\ UNCHANGED <<updates, merged, board, flying, run>>
  BY DEF IInv, TypeInv, Adopt, Unmapped, session, miro
<1>1. creations[k] \in Nat /\ k \notin Mapped
  BY <1>0 DEF TypeOK, IInv, IntentInv
<1>2. items'[k] = [id |-> id, managed |-> creations[k], intent |-> creations[k]]
  BY <1>0 DEF TypeOK
<1>3. \A l \in Keys : l # k => items'[l] = items[l] /\ creations'[l] = creations[l]
  BY <1>0 DEF TypeOK
<1>4. creations'[k] = None
  BY <1>0 DEF TypeOK
<1> QED BY <1>0, <1>1, <1>2, <1>3, <1>4, Quiet

LEMMA WordsAdopted ==
  ASSUME MiroSyncAssumption, IInv, WordsInv, NEW k \in Keys, NEW id \in Ids, Adopt(k, id)
  PROVE  WordsInv'
<1>0. /\ items'[k].id = id /\ items'[k].managed = creations[k] /\ items'[k].intent = creations[k]
      /\ creations[k] \in Nat /\ creations'[k] = None /\ board[id].key = k /\ k \notin Mapped /\ Live(id)
      /\ \A l \in Keys : l # k => items'[l] = items[l] /\ creations'[l] = creations[l]
      /\ UNCHANGED <<updates, merged, board, flying, run>> /\ flying = {} /\ \A l \in Keys : merged[l] = None
  BY AdoptSays
<1>1. ASSUME NEW l \in Mapped' PROVE WordsOf(l)'
  <2>1. CASE l = k
    <3>1. creations[k] # None
      BY DEF Adopt
    <3>2. board[id].text \in {Manual, creations[k]}
      BY <1>0, <3>1 DEF WordsInv, PostedInv
    <3> QED BY <1>0, <2>1, <3>2 DEF WordsOf, Live
  <2>2. CASE l # k
    <3>1. l \in Mapped /\ items'[l] = items[l]
      BY <1>0, <2>2 DEF Mapped
    <3>2. WordsOf(l)
      BY <3>1 DEF WordsInv
    <3> QED BY <1>0, <3>1, <3>2 DEF WordsOf, Live
  <2> QED BY <2>1, <2>2
<1>2. PostedInv'
  <2> SUFFICES ASSUME NEW i \in Ids, board[i] # None, creations'[board[i].key] # None
               PROVE  board[i].text \in {Manual, creations'[board[i].key]}
    BY <1>0 DEF PostedInv, Live
  <2>1. board[i].key \in Keys
    BY DEF IInv, TypeInv, TypeOK, Objects
  <2>2. creations'[board[i].key] = creations[board[i].key]
    BY <1>0, <2>1
  <2> QED BY <2>2 DEF WordsInv, PostedInv, Live
<1> QED BY <1>0, <1>1, <1>2 DEF WordsInv

\* What people do to the board.
LEMMA EditShows ==
  ASSUME IInv, NEW id \in Ids, Edit(id)
  PROVE  /\ UNCHANGED <<journal, nextId, session, posted>> /\ touched' = touched \cup {id}
         /\ \A i \in Ids : Live(i)' => /\ Live(i) /\ board'[i].key = board[i].key
                                       /\ board'[i].text \in {board[i].text, Manual}
         /\ \A i \in Ids : i # id => board'[i] = board[i]
<1>0. TypeOK /\ Live(id)
  BY DEF IInv, TypeInv, Edit
<1>1. board' = [board EXCEPT ![id].text = Manual] \/ board' = [board EXCEPT ![id] = None]
  BY DEF Edit
<1>2. \A i \in Ids : i # id => board'[i] = board[i]
  BY <1>0, <1>1 DEF TypeOK
<1>3. board'[id] # None => board'[id].key = board[id].key /\ board'[id].text = Manual
  <2>1. CASE board' = [board EXCEPT ![id].text = Manual]
    <3> DEFINE o == board[id]
               n == board'[id]
    <3>1. o \in Objects /\ n = [o EXCEPT !.text = Manual]
      BY <1>0, <2>1 DEF TypeOK, Live
    <3> HIDE DEF o, n
    <3>2. n.key = o.key /\ n.text = Manual
      BY <3>1 DEF Objects
    <3> QED BY <3>2 DEF o, n
  <2>2. CASE board' = [board EXCEPT ![id] = None]
    BY <1>0, <2>2 DEF TypeOK
  <2> QED BY <1>1, <2>1, <2>2
<1>4. UNCHANGED <<journal, nextId, session, posted>> /\ touched' = touched \cup {id}
  BY DEF Edit
<1> HIDE <1>1
<1> QED BY <1>0, <1>2, <1>3, <1>4 DEF Live

LEMMA WordsInit ==
  ASSUME MiroSyncAssumption, Init
  PROVE  WordsInv
<1>1. Mapped = {} /\ flying = {} /\ (\A id \in Ids : ~Live(id)) /\ \A k \in Keys : merged[k] = None
  BY DEF Init, Mapped, Live
<1> QED BY <1>1 DEF WordsInv, PostedInv

\* Steps that write nothing: what the journal knows and what Miro shows stay,
\* but an intent to create may be forgotten, and a call starts, ends, or goes on
\* to its next phase.
Calm ==
  /\ UNCHANGED <<items, updates, active, latest, board, nextId, touched>>
  /\ \A k \in Keys : /\ creations'[k] \in {creations[k], None}
                     /\ deletions'[k] = None <=> deletions[k] = None
  /\ \/ /\ run' = run /\ pc' = "idle" /\ flying' = {} /\ \A k \in Keys : merged'[k] = None
     \/ /\ pc' = "preflight" /\ run' \in Plans /\ Continues(run')
        /\ flying' = {} /\ \A k \in Keys : merged'[k] = None
     \/ /\ run' = run /\ merged' = merged
        /\ \/ pc' = pc
           \/ pc = "delete" /\ pc' = "update" /\ NoneRemoved
           \/ pc = "update" /\ pc' = "create"
        /\ \A r \in flying' :
             \/ r \in flying /\ (r.kind = "post" => \A k \in r.keys : creations'[k] = creations[k])
             \/ r.kind # "post" /\ ~Executed(r)

LEMMA CalmIdle ==
  ASSUME MiroSyncAssumption, IInv, pc = "idle", UNCHANGED <<pc, items, updates, active, latest, board, nextId, touched, deletions>>,
         UNCHANGED <<merged, flying, run>>, \A k \in Keys : creations'[k] \in {creations[k], None}
  PROVE  Calm
BY Quiet DEF Calm

LEMMA Steps ==
  ASSUME MiroSyncAssumption, IInv, [Next]_vars
  PROVE  \/ Calm \/ Preflight \/ Finish
         \/ \E k \in Keys : Update(k) /\ merged[k].patch = None
         \/ \E keys \in SUBSET Keys : Create(keys)
         \/ \E q \in flying : Execute(q) \/ Acknowledge(q)
         \/ \E k \in Keys, id \in Ids : Adopt(k, id)
         \/ \E id \in Ids : Edit(id)
<1> USE DEF journal, miro, session
<1>0. TypeOK
  BY DEF IInv, TypeInv
<1>1. CASE UNCHANGED vars
  BY <1>1 DEF vars, Calm
<1>2. ASSUME NEW n \in Plans, Start(n) PROVE Calm
  <2>1. flying = {} /\ \A k \in Keys : merged[k] = None
    BY <1>2, Quiet DEF Start
  <2>2. run' = n /\ pc' = "preflight" /\ UNCHANGED <<items, creations, updates, deletions, active, latest, board, nextId,
                                                     merged, flying, touched>> /\ Continues(n)
    BY <1>2 DEF Start
  <2> QED BY <2>1, <2>2 DEF Calm
<1>3. Refuse => Calm
  <2> SUFFICES ASSUME Refuse PROVE Calm
    OBVIOUS
  <2>1. flying = {} /\ \A k \in Keys : merged[k] = None
    BY Quiet DEF Refuse
  <2> QED BY <2>1 DEF Refuse, Calm
<1>4. Raise => Calm
  <2> SUFFICES ASSUME Raise PROVE Calm
    OBVIOUS
  <2>1. flying' = {} /\ \A k \in Keys : merged'[k] = None
    BY DEF Raise
  <2> QED BY <2>1 DEF Raise, Calm
<1>5. Crash => Calm
  <2> SUFFICES ASSUME Crash PROVE Calm
    OBVIOUS
  <2>1. flying' = {} /\ \A k \in Keys : merged'[k] = None
    BY DEF Crash
  <2> QED BY <2>1 DEF Crash, Calm
<1>6. Deleted => Calm
  BY DEF Deleted, Calm, NoneRemoved
<1>7. Updated => Calm
  BY DEF Updated, Calm
<1>8. ASSUME NEW k \in Keys, Delete(k) PROVE Calm
  <2>1. flying' = {Request("delete", {k})} /\ deletions[k] # None
    BY <1>8 DEF Delete, NextRemovals
  <2>2. ~Executed(Request("delete", {k})) /\ Request("delete", {k}).kind = "delete"
    BY NewRequest
  <2>3. \A l \in Keys : deletions'[l] = None <=> deletions[l] = None
    <3>1. deletions' = [deletions EXCEPT ![k] = "attempted"] /\ None # "attempted"
      BY <1>8 DEF Delete, MiroSyncAssumption
    <3> QED BY <1>0, <2>1, <3>1 DEF TypeOK
  <2>4. /\ UNCHANGED <<items, creations, updates, active, latest, board, nextId, pc, run, merged, touched>>
    BY <1>8 DEF Delete
  <2>5. \A r \in flying' : r.kind # "post" /\ ~Executed(r)
    BY <2>1, <2>2
  <2> HIDE <2>1, <2>2
  <2> QED BY <2>3, <2>4, <2>5 DEF Calm
<1>9. ASSUME NEW k \in Keys, Update(k), merged[k].patch # None PROVE Calm
  <2>1. flying' = flying \cup {Request("patch", {k})} /\ UNCHANGED <<items, merged>>
    BY <1>9 DEF Update
  <2>2. ~Executed(Request("patch", {k})) /\ Request("patch", {k}).kind = "patch"
    BY NewRequest
  <2>3. /\ UNCHANGED <<items, creations, updates, deletions, active, latest, board, nextId, pc, run, merged, touched>>
    BY <1>9, <2>1 DEF Update
  <2>4. \A r \in flying' : r \in flying \/ (r.kind # "post" /\ ~Executed(r))
    BY <2>1, <2>2
  <2> HIDE <2>1, <2>2
  <2> QED BY <2>3, <2>4 DEF Calm
<1>10. ASSUME NEW q \in flying, NEW known \in BOOLEAN, Fail(q, known) PROVE Calm
  <2>1. /\ flying' = flying \ {q}
        /\ creations' = [k \in Keys |-> IF Forgets(q, known) /\ k \in q.keys THEN None ELSE creations[k]]
        /\ UNCHANGED <<items, updates, deletions, active, latest, board, nextId, pc, run, merged, touched>>
    BY <1>10 DEF Fail
  <2>2. \A r \in flying' : r \in flying /\ r.keys \cap q.keys = {} /\ r.keys \subseteq Keys
    BY <2>1, PhaseOf DEF IInv, SessionInv
  <2>3. \A k \in Keys : k \notin q.keys => creations'[k] = creations[k]
    BY <2>1
  <2>4. \A k \in Keys : creations'[k] \in {creations[k], None}
    BY <2>1
  <2>5. \A r \in flying' : r \in flying /\ \A k \in r.keys : creations'[k] = creations[k]
    BY <2>2, <2>3
  <2>6. UNCHANGED <<items, updates, deletions, active, latest, board, nextId, pc, run, merged, touched>>
    BY <2>1
  <2> HIDE <2>1
  <2> QED BY <2>4, <2>5, <2>6 DEF Calm
<1>11. ASSUME NEW k \in Keys, Absent(k) PROVE Calm
  <2>1. \A l \in Keys : creations'[l] \in {creations[l], None}
    BY <1>0, <1>11 DEF Absent, TypeOK
  <2> QED BY <1>11, <2>1, CalmIdle DEF Absent
<1>12. ASSUME RecoverEmpty PROVE Calm
  <2>1. \A l \in Keys : creations'[l] \in {creations[l], None}
    BY <1>12 DEF RecoverEmpty
  <2> QED BY <1>12, <2>1, CalmIdle DEF RecoverEmpty
<1> QED
  BY <1>1, <1>2, <1>3, <1>4, <1>5, <1>6, <1>7, <1>8, <1>9, <1>10, <1>11, <1>12 DEF Next, Publish, Investigate

LEMMA WordsCalm ==
  ASSUME MiroSyncAssumption, IInv, WordsInv, Calm
  PROVE  WordsInv'
<1>1. \A k \in Keys : creations'[k] \in {creations[k], None} /\ merged'[k] \in {merged[k], None}
  BY DEF Calm
<1>2. run' = run \/ (flying' = {} /\ \A k \in Keys : merged'[k] = None)
  BY DEF Calm
<1>3. \A id \in Ids : Live(id)' => /\ Live(id) /\ board'[id].key = board[id].key
                                   /\ board'[id].text \in {board[id].text, Manual}
  BY DEF Calm, Live
<1>4. \A r \in flying' :
        \/ /\ r \in flying
           /\ r.kind = "post" => \A k \in r.keys : creations'[k] = creations[k]
           /\ r.kind = "patch" => \A k \in r.keys : merged'[k] = merged[k]
        \/ r.kind # "post" /\ ~(r.kind = "patch" /\ Executed(r))
  BY DEF Calm
<1>5. UNCHANGED <<items, updates>>
  BY DEF Calm
<1> QED BY <1>1, <1>2, <1>3, <1>4, <1>5, WordsFrame

\* A removal leaves what the other objects say.
LEMMA DeleteShows ==
  ASSUME MiroSyncAssumption, IInv, NEW q \in flying, Execute(q), q.kind = "delete"
  PROVE  \E k \in Mapped :
           /\ q.keys = {k} /\ items[k].id \in Ids /\ ~Live(items[k].id)' /\ deletions[k] # None
           /\ \A id \in Ids : id # items[k].id => board'[id] = board[id]
<1>0. TypeOK
  BY DEF IInv, TypeInv
<1>1. PICK f \in [q.keys -> Ids] : Answer(q, f)
  BY Answered
<1>2. PICK k \in q.keys : q.keys = {k} /\ k \in Mapped /\ board' = [board EXCEPT ![items[k].id] = None]
  BY <1>1 DEF Answer
<1>3. items[k].id \in Ids
  BY <1>0, <1>2 DEF TypeOK, Mapped, Records
<1>4. board'[items[k].id] = None /\ \A id \in Ids : id # items[k].id => board'[id] = board[id]
  BY <1>0, <1>2, <1>3 DEF TypeOK
<1>5. items' = items
  BY DEF Execute, journal
<1>6. deletions[k] # None
  BY DEF IInv, FlightInv, Sound, MiroSyncAssumption
<1> QED BY <1>2, <1>3, <1>4, <1>5, <1>6 DEF Live

LEMMA WordsStep ==
  ASSUME MiroSyncAssumption, IInv, WordsInv, [Next]_vars
  PROVE  WordsInv'
<1>1. Calm => WordsInv'
  BY WordsCalm
<1>2. Preflight => WordsInv'
  BY WordsPreflight
<1>3. ASSUME Finish PROVE WordsInv'
  <2>1. /\ UNCHANGED <<items, updates, creations, merged, flying, run, board>>
    BY <1>3 DEF Finish, miro
  <2> QED BY <2>1, WordsFrame DEF Live
<1>4. ASSUME NEW q \in flying, Execute(q) PROVE WordsInv'
  <2>1. CASE q.kind = "delete"
    <3>1. PICK k \in Mapped :
            /\ q.keys = {k} /\ items[k].id \in Ids /\ ~Live(items[k].id)'
            /\ \A id \in Ids : id # items[k].id => board'[id] = board[id]
      BY <1>4, <2>1, DeleteShows
    <3>2. PICK f \in [q.keys -> Ids] : flying' = (flying \ {q}) \cup {[q EXCEPT !.ids = f]}
      BY <1>4, Answered DEF Answer
    <3>3. [q EXCEPT !.ids = f].kind = "delete"
      BY <2>1, AnsweredRequest DEF IInv, TypeInv
    <3>4. UNCHANGED <<items, updates, creations, merged, run>>
      BY <1>4 DEF Execute, journal
    <3>5. \A id \in Ids : Live(id)' => Live(id) /\ board'[id] = board[id]
      <4> TAKE id \in Ids
      <4>1. CASE id = items[k].id
        BY <3>1, <3>4, <4>1 DEF Live
      <4>2. CASE id # items[k].id
        BY <3>1, <4>2 DEF Live
      <4> QED BY <4>1, <4>2
    <3>6. \A r \in flying' : r \in flying \/ r.kind = "delete"
      BY <3>2, <3>3
    <3> QED BY <3>4, <3>5, <3>6, WordsFrame
  <2> QED BY <1>4, <2>1, WordsPosted, WordsPatched, PhaseOf
<1>5. ASSUME NEW id \in Ids, Edit(id) PROVE WordsInv'
  <2>1. /\ UNCHANGED <<items, updates, creations, merged, flying, run>>
        /\ \A i \in Ids : Live(i)' => /\ Live(i) /\ board'[i].key = board[i].key
                                      /\ board'[i].text \in {board[i].text, Manual}
    BY <1>5, EditShows DEF journal, session
  <2> QED BY <2>1, WordsFrame
<1> QED
  BY <1>1, <1>2, <1>3, <1>4, <1>5, Steps, WordsUpdate, WordsCreate, WordsAcknowledged, WordsAdopted

-----------------------------------------------------------------------------
(* What people write                                                       *)

\* What a call is going to patch or remove nobody has written on, unless since
\* its preflight.
Unwritten(id) == id \in touched \/ ~Live(id) \/ board[id].text # Manual
Doomed(k) == (merged[k] # None /\ merged[k].patch # None) \/ (deletions[k] # None /\ pc = "delete")
ManualInv == \A k \in Mapped : Doomed(k) => Unwritten(items[k].id)

LEMMA ManualStep ==
  ASSUME MiroSyncAssumption, IInv, IInv', WordsInv, ManualInv, [Next]_vars
  PROVE  ManualInv'
<1>0. /\ TypeOK /\ Manual \notin Nat /\ None \notin Nat /\ \A k \in Mapped : k \in Keys /\ items[k].id \in Ids
  BY DEF IInv, TypeInv, TypeOK, MiroSyncAssumption, Texts, Mapped, Records
<1>a. ASSUME pc' \notin {"delete", "update"} PROVE ManualInv'
  <2>1. \A k \in Keys : merged'[k] = None
    BY <1>a DEF IInv, SessionInv
  <2> QED BY <1>a, <2>1 DEF ManualInv, Doomed, Mapped
<1>1. CASE Calm
  <2>1. CASE \/ pc' = "idle"
             \/ pc' = "preflight"
    BY <1>a, <2>1
  <2>2. CASE ~(pc' = "idle" \/ pc' = "preflight")
    <3>1. /\ UNCHANGED <<items, board, touched, merged>> /\ (pc' = "delete" => pc = "delete")
          /\ \A k \in Keys : deletions'[k] = None <=> deletions[k] = None
      BY <1>1, <2>2 DEF Calm
    <3>2. \A k \in Mapped : Doomed(k)' => Doomed(k)
      BY <1>0, <3>1 DEF Doomed
    <3> QED BY <3>1, <3>2 DEF ManualInv, Unwritten, Live, Mapped
  <2> QED BY <2>1, <2>2
<1>2. CASE Preflight
  <2>0. Kept /\ UNCHANGED board /\ run \in Plans /\ active \in {0, run}
    BY <1>2, KeptSteps DEF IInv, SessionInv, Preflight, miro
  <2> SUFFICES ASSUME NEW k \in Mapped, Doomed(k)' PROVE Unwritten(items[k].id)'
    BY <2>0 DEF ManualInv, Kept, Unwritten, Live
  <2>1. CASE merged'[k] # None /\ merged'[k].patch # None
    <3>1. board[items[k].id].text \in Nat
      BY <1>0, <1>2, <2>1, PreflightSays
    <3> QED BY <1>0, <2>0, <3>1 DEF Unwritten, Kept
  <2>2. CASE deletions'[k] # None
    <3>1. k \in Removals(run)
      <4>1. deletions' = [l \in Keys |-> IF l \in Removals(run) /\ deletions[l] = None THEN "planned" ELSE deletions[l]]
        BY <1>2 DEF Preflight
      <4>2. CASE deletions[k] # None
        BY <1>0, <2>0, <4>2 DEF IInv, IntentInv, Removals
      <4>3. CASE deletions[k] = None
        BY <1>0, <2>2, <4>1, <4>3
      <4> QED BY <4>2, <4>3
    <3>2. Live(items[k].id) => board[items[k].id].text = Recovered(k).managed
      BY <1>2, <3>1 DEF Preflight, Noted
    <3>3. Recovered(k).managed \in Nat
      BY RecoveredSays
    <3>4. board[items[k].id] = None \/ board[items[k].id].text # Manual
      BY <1>0, <3>2, <3>3 DEF Live
    <3>5. board'[items'[k].id] = board[items[k].id]
      BY <2>0 DEF Kept
    <3> QED BY <2>0, <3>4, <3>5 DEF Unwritten, Live, Kept
  <2> QED BY <2>1, <2>2 DEF Doomed
<1>3. CASE Finish
  BY <1>3, <1>a DEF Finish
<1>4. ASSUME NEW k \in Keys, Update(k), merged[k].patch = None PROVE ManualInv'
  <2>0. /\ Kept /\ UNCHANGED <<board, touched, pc>> /\ pc = "update" /\ merged'[k] = None
        /\ \A l \in Keys : l # k => merged'[l] = merged[l]
    BY <1>4, KeptSteps, UpdateSays DEF Update, miro
  <2> SUFFICES ASSUME NEW l \in Mapped, Doomed(l)' PROVE Unwritten(items[l].id)'
    BY <2>0 DEF ManualInv, Kept, Unwritten, Live
  <2>1. Doomed(l)
    BY <1>0, <2>0 DEF Doomed
  <2>2. Unwritten(items[l].id)
    BY <2>1 DEF ManualInv
  <2> QED BY <2>0, <2>2 DEF Unwritten, Live, Kept
<1>5. ASSUME NEW keys \in SUBSET Keys, Create(keys) PROVE ManualInv'
  BY <1>5, <1>a DEF Create
<1>6. ASSUME NEW q \in flying, Execute(q) PROVE ManualInv'
  <2>0. UNCHANGED <<items, deletions, merged, pc, touched>> /\ Mapped' = Mapped
    BY <1>6 DEF Execute, journal, Mapped
  <2>1. CASE q.kind = "post"
    BY <2>0, <2>1, <1>a, PhaseOf
  <2>2. ASSUME q.kind \in {"patch", "delete"} PROVE ManualInv'
    <3> SUFFICES ASSUME NEW l \in Mapped, Doomed(l) PROVE Unwritten(items[l].id)'
      BY <2>0 DEF ManualInv, Doomed, Unwritten, Live
    <3>1. Unwritten(items[l].id)
      BY DEF ManualInv
    <3>2. PICK k \in Mapped :
            /\ \A id \in Ids : id # items[k].id => board'[id] = board[id]
            /\ ~Live(items[k].id)' \/ board'[items[k].id].text \in Nat
      <4>1. CASE q.kind = "patch"
        <5>1. PICK k \in Mapped :
                /\ q.keys = {k} /\ board'[items[k].id].text = merged[k].patch
                /\ \A id \in Ids : id # items[k].id => board'[id] = board[id]
          BY <1>6, <4>1, PatchShows
        <5>2. merged[k] # None /\ merged[k].patch # None
          BY <4>1, <5>1 DEF IInv, FlightInv, Sound
        <5>3. merged[k].patch \in Nat
          BY <1>0, <5>2 DEF TypeOK, Merges
        <5> QED BY <5>1, <5>3
      <4>2. CASE q.kind = "delete"
        BY <1>6, <4>2, DeleteShows
      <4> QED BY <2>2, <4>1, <4>2
    <3>3. CASE items[l].id = items[k].id
      BY <1>0, <2>0, <3>2, <3>3 DEF Unwritten, Live
    <3>4. CASE items[l].id # items[k].id
      BY <1>0, <2>0, <3>1, <3>2, <3>4 DEF Unwritten, Live
    <3> QED BY <3>3, <3>4
  <2> QED BY <2>1, <2>2, PhaseOf
<1>7. ASSUME NEW q \in flying, Acknowledge(q) PROVE ManualInv'
  <2>0. UNCHANGED <<board, pc, touched>>
    BY <1>7 DEF Acknowledge, miro
  <2>1. CASE q.kind = "post"
    BY <2>0, <2>1, <1>a, PhaseOf
  <2>2. CASE q.kind = "patch"
    <3>1. /\ \A k \in q.keys : merged'[k] = None
          /\ \A k \in Keys : k \notin q.keys => merged'[k] = merged[k]
          /\ Kept /\ pc = "update"
      BY <1>7, <2>2, PatchSays, KeptSteps, PhaseOf
    <3> SUFFICES ASSUME NEW l \in Mapped, Doomed(l)' PROVE Unwritten(items[l].id)'
      BY <3>1 DEF ManualInv, Kept, Unwritten, Live
    <3>2. Doomed(l)
      BY <1>0, <2>0, <3>1 DEF Doomed
    <3>3. Unwritten(items[l].id)
      BY <3>2 DEF ManualInv
    <3> QED BY <2>0, <3>1, <3>3 DEF Unwritten, Live, Kept
  <2>3. CASE q.kind = "delete"
    <3>1. /\ \A k \in q.keys : k \notin Mapped'
          /\ \A k \in Keys : k \notin q.keys => items'[k] = items[k] /\ deletions'[k] = deletions[k]
          /\ UNCHANGED merged
      BY <1>7, <2>3, DeleteSays
    <3> SUFFICES ASSUME NEW l \in Mapped', Doomed(l)' PROVE Unwritten(items[l].id)'
      BY DEF ManualInv
    <3>2. l \in Keys /\ l \notin q.keys /\ items'[l] = items[l] /\ deletions'[l] = deletions[l]
      BY <3>1 DEF Mapped
    <3>3. l \in Mapped /\ Doomed(l)
      BY <2>0, <3>1, <3>2 DEF Mapped, Doomed
    <3>4. Unwritten(items[l].id)
      BY <3>3 DEF ManualInv
    <3> QED BY <2>0, <3>2, <3>4 DEF Unwritten, Live
  <2> QED BY <2>1, <2>2, <2>3, PhaseOf
<1>8. ASSUME NEW k \in Keys, NEW id \in Ids, Adopt(k, id) PROVE ManualInv'
  BY <1>8, <1>a DEF Adopt, session
<1>9. ASSUME NEW id \in Ids, Edit(id) PROVE ManualInv'
  <2>0. /\ UNCHANGED <<items, deletions, merged, pc>> /\ touched' = touched \cup {id}
        /\ \A i \in Ids : i # id => board'[i] = board[i]
    BY <1>9, EditShows DEF journal, session
  <2> SUFFICES ASSUME NEW l \in Mapped, Doomed(l) PROVE Unwritten(items[l].id)'
    BY <2>0 DEF ManualInv, Doomed, Unwritten, Live, Mapped
  <2>1. Unwritten(items[l].id)
    BY DEF ManualInv
  <2> QED BY <1>0, <2>0, <2>1 DEF Unwritten, Live
<1> QED
  BY <1>1, <1>2, <1>3, <1>4, <1>5, <1>6, <1>7, <1>8, <1>9, Steps

\* A step that changes the board, but no edit, answers a request.
LEMMA ManualStays ==
  ASSUME MiroSyncAssumption, IInv, ManualInv, [Next]_vars, edits' = edits,
         NEW id \in Ids, Live(id), board[id].text = Manual, id \notin touched
  PROVE  board'[id] = board[id]
<1>0. /\ TypeOK /\ \A k \in Mapped : k \in Keys /\ items[k].id \in Ids
  BY DEF IInv, TypeInv, TypeOK, Mapped, Records
<1>1. ASSUME NEW i \in Ids, Edit(i) PROVE FALSE
  <2>1. edits \in Nat /\ edits' = edits + 1
    BY <1>1 DEF IInv, TypeInv, Edit
  <2> QED BY <2>1
<1>2. ASSUME NEW q \in flying, Execute(q) PROVE board'[id] = board[id]
  <2>1. CASE q.kind = "post"
    BY <1>2, <2>1, Answered, PostShows
  <2>2. CASE q.kind = "patch"
    <3>1. PICK k \in Mapped :
            /\ q.keys = {k} /\ \A i \in Ids : i # items[k].id => board'[i] = board[i]
      BY <1>2, <2>2, PatchShows
    <3>2. merged[k] # None /\ merged[k].patch # None
      BY <2>2, <3>1 DEF IInv, FlightInv, Sound
    <3>3. items[k].id # id
      BY <3>2 DEF ManualInv, Doomed, Unwritten
    <3> QED BY <3>1, <3>3
  <2>3. CASE q.kind = "delete"
    <3>1. PICK k \in Mapped :
            /\ deletions[k] # None /\ \A i \in Ids : i # items[k].id => board'[i] = board[i]
      BY <1>2, <2>3, DeleteShows
    <3>2. pc = "delete"
      BY <2>3, PhaseOf
    <3>3. items[k].id # id
      BY <3>1, <3>2 DEF ManualInv, Doomed, Unwritten
    <3> QED BY <3>1, <3>3
  <2> QED BY <2>1, <2>2, <2>3, PhaseOf
<1>3. ASSUME UNCHANGED board PROVE board'[id] = board[id]
  BY <1>3
<1>4. /\ Calm \/ Preflight \/ Finish => UNCHANGED board
      /\ \A k \in Keys : Update(k) => UNCHANGED board
      /\ \A keys \in SUBSET Keys : Create(keys) => UNCHANGED board
      /\ \A q \in flying : Acknowledge(q) => UNCHANGED board
      /\ \A k \in Keys, i \in Ids : Adopt(k, i) => UNCHANGED board
  BY DEF Calm, Preflight, Finish, Update, Create, Acknowledge, Adopt, miro
<1> QED
  BY <1>1, <1>2, <1>3, <1>4, Steps

LEMMA Unharmed ==
  ASSUME MiroSyncAssumption
  PROVE  Spec => [](IInv /\ WordsInv /\ ManualInv)
<1>1. Init => IInv /\ WordsInv /\ ManualInv
  <2>1. Init => Mapped = {}
    BY DEF Init, Mapped
  <2> QED BY <2>1, IInvInit, WordsInit DEF ManualInv
<1>2. IInv /\ WordsInv /\ ManualInv /\ [Next]_vars => (IInv /\ WordsInv /\ ManualInv)'
  BY IInvStep, WordsStep, ManualStep
<1> QED BY <1>1, <1>2, PTL DEF Spec

\* _merge_fields, the preflight and the removals over any plan, any faults and
\* any number of editors: what a person wrote before a call's preflight is
\* neither overwritten nor deleted by that call.
THEOREM ManualKept ==
  ASSUME MiroSyncAssumption
  PROVE  Spec => ManualPreserved
<1>1. IInv /\ WordsInv /\ ManualInv /\ [Next]_vars =>
        [\A id \in Ids : (Live(id) /\ board[id].text = Manual /\ id \notin touched /\ pc # "idle" /\ edits' = edits)
           => board'[id] = board[id]]_vars
  BY ManualStays
<1> QED BY <1>1, Unharmed, PTL DEF Spec, ManualPreserved

-----------------------------------------------------------------------------
(* Which run a text is from                                                *)

\* A later plan says nothing older (a text's number orders the runs' texts).
TextsGrow == \A m, n \in Plans : m <= n => \A k \in Keys : PlanText[m][k] <= PlanText[n][k]

\* The texts of an item in the journal are no newer than any plan that may be
\* synced next.
Written(k) ==
  {v \in Nat : \/ k \in Mapped /\ v = items[k].managed
               \/ v = updates[k] \/ v = creations[k]
               \/ merged[k] # None /\ v = merged[k].managed}
Fits(v, k) == \A n \in Plans : Continues(n) => v <= PlanText[n][k]
GrownInv ==
  /\ pc # "idle" => Continues(run)
  /\ \A k \in Keys : \A v \in Written(k) : Fits(v, k)

\* Only the plan that is synced adds texts.
LEMMA WrittenGrows ==
  ASSUME MiroSyncAssumption, IInv, WordsInv, [Next]_vars, NEW k \in Keys, NEW v \in Written(k)', v \notin Written(k)
  PROVE  v = PlanText[run][k] /\ run \in Plans /\ active' = run /\ pc # "idle"
<1>0. TypeOK /\ None \notin Nat /\ v \in Nat
  BY DEF IInv, TypeInv, MiroSyncAssumption, Texts, Written
<1>a. \/ k \in Mapped' /\ v = items'[k].managed
      \/ v = updates'[k] \/ v = creations'[k]
      \/ merged'[k] # None /\ v = merged'[k].managed
  BY DEF Written
<1>b. /\ k \in Mapped => v # items[k].managed
      /\ v # updates[k] /\ v # creations[k]
      /\ merged[k] # None => v # merged[k].managed
  BY <1>0 DEF Written
<1>1. CASE Calm
  <2>1. UNCHANGED <<items, updates>> /\ creations'[k] \in {creations[k], None} /\ merged'[k] \in {merged[k], None}
    BY <1>1 DEF Calm
  <2> QED BY <1>0, <1>a, <1>b, <2>1 DEF Mapped
<1>2. CASE Preflight
  <2>0. run \in Plans /\ active' = run /\ UNCHANGED creations /\ pc # "idle" /\ Kept
    BY <1>2, KeptSteps DEF Preflight, IInv, SessionInv
  <2>1. ASSUME k \in Mapped PROVE Recovered(k).managed \in {items[k].managed, updates[k]}
    BY <2>1, RecoveredSays
  <2>2. items'[k] = Recovered(k)
    BY <1>2, PreflightSays
  <2>3. k \in Mapped' => v # items'[k].managed
    BY <1>b, <2>0, <2>1, <2>2 DEF Kept
  <2>4. CASE KeptByPlan(k)
    <3>1. /\ merged'[k].managed \in {Recovered(k).managed, PlanText[run][k]}
          /\ updates'[k] \in {None, PlanText[run][k]} /\ k \in Mapped
      BY <1>2, <2>4, PreflightSays DEF KeptByPlan
    <3> QED BY <1>0, <1>a, <1>b, <2>0, <2>1, <2>3, <3>1
  <2>5. CASE ~KeptByPlan(k)
    <3>1. merged'[k] = None /\ updates'[k] = None
      BY <1>2, <2>5, PreflightSays
    <3> QED BY <1>0, <1>a, <1>b, <2>0, <2>3, <3>1
  <2> QED BY <2>4, <2>5
<1>3. CASE Finish
  BY <1>3, <1>a, <1>b DEF Finish, Mapped
<1>4. ASSUME NEW l \in Keys, Update(l), merged[l].patch = None PROVE FALSE
  <2>0. /\ items'[l].managed = merged[l].managed /\ merged[l] # None /\ merged'[l] = None
        /\ \A i \in Keys : i # l => items'[i] = items[i] /\ merged'[i] = merged[i]
    BY <1>4, UpdateSays
  <2>1. UNCHANGED <<creations, updates>>
    BY <1>4 DEF Update
  <2> QED BY <1>a, <1>b, <2>0, <2>1 DEF Mapped
<1>5. ASSUME NEW keys \in SUBSET Keys, Create(keys) PROVE v = PlanText[run][k] /\ run \in Plans /\ active' = run /\ pc # "idle"
  <2>1. /\ creations' = [l \in Keys |-> IF l \in keys THEN PlanText[run][l] ELSE creations[l]]
        /\ UNCHANGED <<items, updates, merged, active>> /\ pc = "create"
    BY <1>5 DEF Create
  <2>2. active = run /\ run \in Plans
    BY <2>1 DEF IInv, SessionInv
  <2> QED BY <1>a, <1>b, <2>1, <2>2 DEF Mapped
<1>6. ASSUME NEW q \in flying, Execute(q) PROVE FALSE
  <2>1. UNCHANGED <<items, updates, creations, merged>>
    BY <1>6 DEF Execute, journal
  <2> QED BY <1>a, <1>b, <2>1 DEF Mapped
<1>7. ASSUME NEW q \in flying, Acknowledge(q) PROVE FALSE
  <2>1. CASE q.kind = "post"
    <3>1. /\ k \in q.keys => creations'[k] = None /\ items'[k].managed = PlanText[run][k]
          /\ k \notin q.keys => items'[k] = items[k] /\ creations'[k] = creations[k]
          /\ UNCHANGED <<updates, merged>>
      BY <1>7, <2>1, PostSays
    <3>2. k \in q.keys => creations[k] = PlanText[run][k]
      BY <2>1 DEF WordsInv, SentOf
    <3> QED BY <1>0, <1>a, <1>b, <3>1, <3>2 DEF Mapped
  <2>2. CASE q.kind = "patch"
    <3>1. /\ k \in q.keys => /\ items'[k].managed = merged[k].patch /\ merged[k] # None
                             /\ updates'[k] = None /\ merged'[k] = None
          /\ k \notin q.keys => items'[k] = items[k] /\ updates'[k] = updates[k] /\ merged'[k] = merged[k]
          /\ UNCHANGED creations
      BY <1>7, <2>2, PatchSays
    <3>2. merged[k] # None => merged[k].patch = updates[k]
      BY DEF WordsInv, MergeOf
    <3> QED BY <1>0, <1>a, <1>b, <3>1, <3>2 DEF Mapped
  <2>3. CASE q.kind = "delete"
    <3>1. /\ k \in q.keys => k \notin Mapped'
          /\ k \notin q.keys => items'[k] = items[k]
          /\ UNCHANGED <<creations, updates, merged>>
      BY <1>7, <2>3, DeleteSays
    <3> QED BY <1>a, <1>b, <3>1 DEF Mapped
  <2> QED BY <2>1, <2>2, <2>3, PhaseOf
<1>8. ASSUME NEW l \in Keys, NEW id \in Ids, Adopt(l, id) PROVE FALSE
  <2>1. /\ items'[l].managed = creations[l] /\ creations'[l] = None
        /\ \A i \in Keys : i # l => items'[i] = items[i] /\ creations'[i] = creations[i]
        /\ UNCHANGED <<updates, merged>>
    BY <1>8, AdoptSays
  <2> QED BY <1>0, <1>a, <1>b, <2>1 DEF Mapped
<1>9. ASSUME NEW id \in Ids, Edit(id) PROVE FALSE
  BY <1>9, <1>a, <1>b DEF Edit, journal, session, Mapped
<1> QED
  BY <1>1, <1>2, <1>3, <1>4, <1>5, <1>6, <1>7, <1>8, <1>9, Steps

LEMMA GrownStep ==
  ASSUME MiroSyncAssumption, TextsGrow, IInv, IInv', WordsInv, GrownInv, [Next]_vars
  PROVE  GrownInv'
<1>0. /\ active \in 0..Runs /\ latest \in 0..Runs /\ Runs \in Nat /\ run \in 0..Runs /\ Plans = 1..Runs
      /\ active' \in 0..Runs /\ latest' \in 0..Runs
      /\ \A n \in Plans, k \in Keys : PlanText[n][k] \in Nat
  BY DEF IInv, TypeInv, TypeOK, MiroSyncAssumption, Plans
<1>1. \/ UNCHANGED <<active, latest>>
      \/ pc = "preflight" /\ active' = run /\ run' = run /\ UNCHANGED latest
      \/ pc = "create" /\ active' = 0 /\ latest' = run /\ pc' = "idle"
  <2>1. /\ Calm => UNCHANGED <<active, latest>>
        /\ Preflight => pc = "preflight" /\ active' = run /\ run' = run /\ UNCHANGED latest
        /\ Finish => pc = "create" /\ active' = 0 /\ latest' = run /\ pc' = "idle"
    BY DEF Calm, Preflight, Finish
  <2>2. /\ \A k \in Keys : Update(k) => UNCHANGED <<active, latest>>
        /\ \A keys \in SUBSET Keys : Create(keys) => UNCHANGED <<active, latest>>
        /\ \A q \in flying : Execute(q) \/ Acknowledge(q) => UNCHANGED <<active, latest>>
        /\ \A k \in Keys, i \in Ids : Adopt(k, i) => UNCHANGED <<active, latest>>
        /\ \A i \in Ids : Edit(i) => UNCHANGED <<active, latest>>
    BY DEF Update, Create, Execute, Acknowledge, Adopt, Edit, journal
  <2> QED BY <2>1, <2>2, Steps
<1>2. pc' # "idle" => Continues(run)'
  <2>1. \/ pc' = "idle" \/ (run' = run /\ pc # "idle") \/ Continues(run')
    <3>1. Calm => pc' = "idle" \/ (run' = run /\ (pc' = pc \/ pc # "idle")) \/ Continues(run')
      BY DEF Calm
    <3>2. Preflight \/ Finish => (run' = run /\ pc # "idle")
      BY DEF Preflight, Finish
    <3>3. /\ \A k \in Keys : Update(k) => run' = run /\ pc' = pc
          /\ \A keys \in SUBSET Keys : Create(keys) => run' = run /\ pc' = pc
          /\ \A q \in flying : Execute(q) \/ Acknowledge(q) => run' = run /\ pc' = pc
          /\ \A k \in Keys, i \in Ids : Adopt(k, i) => run' = run /\ pc' = pc
          /\ \A i \in Ids : Edit(i) => run' = run /\ pc' = pc
      BY DEF Update, Create, Execute, Acknowledge, Adopt, Edit, session
    <3> QED BY <3>1, <3>2, <3>3, Steps
  <2>2. CASE run' = run /\ pc # "idle" /\ pc' # "idle"
    <3>1. Continues(run)
      BY <2>2 DEF GrownInv
    <3> QED BY <1>0, <1>1, <2>2, <3>1 DEF Continues
  <2>3. CASE Continues(run') /\ run' # run /\ pc' # "idle"
    <3>1. UNCHANGED <<active, latest>>
      BY <1>1, <2>3
    <3> QED BY <2>3, <3>1 DEF Continues
  <2>4. CASE Continues(run') /\ run' = run /\ pc' # "idle"
    <3>1. UNCHANGED <<active, latest>> \/ (active' = run /\ UNCHANGED latest)
      BY <1>1, <2>4
    <3> QED BY <2>4, <3>1 DEF Continues
  <2> QED BY <2>1, <2>2, <2>3, <2>4
<1>3. ASSUME NEW k \in Keys, NEW v \in Written(k)', NEW n \in Plans, active' \in {0, n}, latest' <= n
      PROVE  v <= PlanText[n][k]
  <2>0. v \in Nat
    BY DEF Written
  <2>1. CASE v \in Written(k)
    <3>1. Fits(v, k)
      BY <2>1 DEF GrownInv
    <3>2. CASE UNCHANGED <<active, latest>>
      BY <1>3, <3>1, <3>2 DEF Fits, Continues
    <3>3. CASE pc = "preflight" /\ active' = run /\ UNCHANGED latest
      <4>1. Continues(run) /\ run \in Plans
        BY <3>3 DEF GrownInv, IInv, SessionInv
      <4>2. n = run
        BY <1>0, <1>3, <3>3, <4>1
      <4> QED BY <3>1, <4>1, <4>2 DEF Fits
    <3>4. CASE pc = "create" /\ active' = 0 /\ latest' = run
      <4>1. Continues(run) /\ run \in Plans
        BY <3>4 DEF GrownInv, IInv, SessionInv
      <4>2. v <= PlanText[run][k]
        BY <3>1, <4>1 DEF Fits
      <4>3. PlanText[run][k] <= PlanText[n][k]
        BY <1>3, <3>4, <4>1 DEF TextsGrow
      <4> QED BY <1>0, <2>0, <4>1, <4>2, <4>3
    <3> QED BY <1>1, <3>2, <3>3, <3>4
  <2>2. CASE v \notin Written(k)
    <3>1. v = PlanText[run][k] /\ run \in Plans /\ active' = run
      BY <2>2, WrittenGrows
    <3>2. n = run
      BY <1>0, <1>3, <3>1
    <3> QED BY <1>0, <3>1, <3>2
  <2> QED BY <2>1, <2>2
<1> QED BY <1>2, <1>3 DEF GrownInv, Fits, Continues

\* Only a PATCH changes what a live object says, other than a person.
LEMMA TextsForward ==
  ASSUME MiroSyncAssumption, IInv, WordsInv, GrownInv, [Next]_vars,
         NEW id \in Ids, Live(id), board'[id] # None, board[id].text # Manual, board'[id].text # Manual
  PROVE  board'[id].text >= board[id].text
<1>0. /\ TypeOK /\ (\A k \in Mapped : k \in Keys /\ items[k].id \in Ids) /\ board[id].text \in Nat
  BY DEF IInv, TypeInv, TypeOK, Mapped, Records, Live, Objects, Texts
<1>a. ASSUME board'[id].text = board[id].text PROVE board'[id].text >= board[id].text
  BY <1>0, <1>a
<1>1. ASSUME NEW i \in Ids, Edit(i) PROVE board'[id].text >= board[id].text
  <2>1. board'[id].text \in {board[id].text, Manual}
    BY <1>1, EditShows DEF Live
  <2> QED BY <1>a, <2>1
<1>2. ASSUME NEW q \in flying, Execute(q) PROVE board'[id].text >= board[id].text
  <2>1. CASE q.kind = "post"
    <3>1. board'[id] = board[id]
      BY <1>2, <2>1, Answered, PostShows
    <3> QED BY <1>a, <3>1
  <2>2. CASE q.kind = "patch"
    <3>1. PICK k \in Mapped :
            /\ q.keys = {k} /\ board'[items[k].id].text = merged[k].patch /\ Live(items[k].id)
            /\ \A i \in Ids : i # items[k].id => board'[i] = board[i]
      BY <1>2, <2>2, PatchShows
    <3>2. merged[k] # None /\ merged[k].patch # None /\ pc = "update" /\ run \in Plans
      BY <2>2, <3>1, PhaseOf DEF IInv, FlightInv, Sound
    <3>3. CASE id = items[k].id
      <4>1. /\ merged[k].patch = updates[k] /\ merged[k].patch = PlanText[run][k]
            /\ items[k].managed \in Nat
            /\ board[id].text \in {Manual, items[k].managed, updates[k]}
        BY <1>0, <3>1, <3>2, <3>3 DEF WordsInv, MergeOf, WordsOf
      <4>2. items[k].managed \in Written(k)
        BY <1>0, <4>1 DEF Written
      <4>3. Continues(run)
        BY <3>2 DEF GrownInv
      <4>4. items[k].managed <= PlanText[run][k]
        BY <1>0, <3>2, <4>2, <4>3 DEF GrownInv, Fits
      <4>5. PlanText[run][k] \in Nat
        BY <1>0, <3>2 DEF MiroSyncAssumption
      <4> QED BY <3>1, <3>3, <4>1, <4>4, <4>5
    <3>4. CASE id # items[k].id
      BY <1>a, <3>1, <3>4
    <3> QED BY <3>3, <3>4
  <2>3. CASE q.kind = "delete"
    <3>1. PICK k \in Mapped :
            /\ items[k].id \in Ids /\ ~Live(items[k].id)' /\ \A i \in Ids : i # items[k].id => board'[i] = board[i]
      BY <1>2, <2>3, DeleteShows
    <3>2. items' = items
      BY <1>2 DEF Execute, journal
    <3>3. id # items[k].id
      BY <3>1, <3>2 DEF Live
    <3> QED BY <1>a, <3>1, <3>3
  <2> QED BY <2>1, <2>2, <2>3, PhaseOf
<1>3. ASSUME UNCHANGED board PROVE board'[id].text >= board[id].text
  BY <1>a, <1>3
<1>4. /\ Calm \/ Preflight \/ Finish => UNCHANGED board
      /\ \A k \in Keys : Update(k) => UNCHANGED board
      /\ \A keys \in SUBSET Keys : Create(keys) => UNCHANGED board
      /\ \A q \in flying : Acknowledge(q) => UNCHANGED board
      /\ \A k \in Keys, i \in Ids : Adopt(k, i) => UNCHANGED board
  BY DEF Calm, Preflight, Finish, Update, Create, Acknowledge, Adopt, miro
<1> QED
  BY <1>1, <1>2, <1>3, <1>4, Steps

-----------------------------------------------------------------------------
(* What a synced run shows                                                 *)

Working == pc \in {"delete", "update", "create"}

\* What a run retires is gone when its removals are over.
GoneInv == Working => \A k \in Removals(run) : pc = "delete" /\ deletions[k] # None

\* What a run wants is shown, unless it still has to be sent.
Shown(id, k) == id \in touched \/ (Live(id) /\ board[id].text \in {PlanText[run][k], Manual})
Pending(k) == merged[k] # None /\ merged[k].patch # None
Answers(q, k) == /\ q.kind = "post" => Shown(q.ids[k], k)
                 /\ q.kind = "patch" => Shown(items[k].id, k)
ShownInv ==
  Working =>
    /\ \A k \in Wanted[run] \cap Mapped : Pending(k) \/ Shown(items[k].id, k)
    /\ \A q \in flying : Executed(q) => \A k \in q.keys : Answers(q, k)

LEMMA GoneStep ==
  ASSUME MiroSyncAssumption, IInv, IInv', GoneInv, [Next]_vars
  PROVE  GoneInv'
<1>a. ASSUME Mapped' \subseteq Mapped, run' = run, pc' = pc, \A k \in Mapped' : deletions'[k] = None => deletions[k] = None
      PROVE  GoneInv'
  BY <1>a DEF GoneInv, Working, Removals
<1>b. ASSUME pc' \in {"idle", "preflight"} PROVE GoneInv'
  BY <1>b DEF GoneInv, Working
<1>1. CASE Calm
  <2>1. CASE pc' = "idle" \/ pc' = "preflight"
    BY <1>b, <2>1
  <2>2. CASE pc' # "idle" /\ pc' # "preflight"
    <3>1. /\ UNCHANGED items /\ run' = run /\ \A k \in Keys : deletions'[k] = None <=> deletions[k] = None
          /\ \/ pc' = pc
             \/ pc = "delete" /\ pc' = "update" /\ NoneRemoved
             \/ pc = "update" /\ pc' = "create"
      BY <1>1, <2>2 DEF Calm
    <3>2. Mapped' = Mapped /\ Mapped \subseteq Keys
      BY <3>1 DEF Mapped
    <3>3. CASE pc' = pc
      BY <1>a, <3>1, <3>2, <3>3
    <3>4. CASE pc = "delete" /\ pc' = "update" /\ NoneRemoved
      <4>1. Removals(run) = {}
        BY <3>2, <3>4 DEF GoneInv, Working, NoneRemoved, Removals
      <4> QED BY <3>1, <3>2, <4>1 DEF GoneInv, Removals
    <3>5. CASE pc = "update" /\ pc' = "create"
      <4>1. Removals(run) = {}
        BY <3>5 DEF GoneInv, Working
      <4> QED BY <3>1, <3>2, <4>1 DEF GoneInv, Removals
    <3> QED BY <3>1, <3>3, <3>4, <3>5
  <2> QED BY <2>1, <2>2
<1>2. CASE Preflight
  <2>1. Mapped' = Mapped /\ run' = run /\ pc' = "delete" /\ None # "planned"
    BY <1>2, KeptSteps DEF Preflight, Kept, MiroSyncAssumption
  <2>2. deletions' = [k \in Keys |-> IF k \in Removals(run) /\ deletions[k] = None THEN "planned" ELSE deletions[k]]
    BY <1>2 DEF Preflight
  <2>3. \A k \in Removals(run) : deletions'[k] # None
    BY <2>1, <2>2 DEF Removals, Mapped
  <2>4. \A k : k \in Retired[run'] \cap Mapped' => k \in Removals(run)
    BY <2>1 DEF Removals
  <2> QED BY <2>1, <2>3, <2>4 DEF GoneInv, Removals
<1>3. CASE Finish
  BY <1>3, <1>b DEF Finish
<1>4. ASSUME NEW k \in Keys, Update(k) PROVE GoneInv'
  <2>1. Mapped' = Mapped /\ UNCHANGED <<run, pc, deletions>>
    BY <1>4, KeptSteps DEF Update, Kept
  <2> QED BY <1>a, <2>1
<1>5. ASSUME NEW keys \in SUBSET Keys, Create(keys) PROVE GoneInv'
  <2>1. Mapped' = Mapped /\ UNCHANGED <<run, pc, deletions>>
    BY <1>5 DEF Create, Mapped
  <2> QED BY <1>a, <2>1
<1>6. ASSUME NEW q \in flying, Execute(q) PROVE GoneInv'
  <2>1. Mapped' = Mapped /\ UNCHANGED <<run, pc, deletions>>
    BY <1>6 DEF Execute, journal, Mapped
  <2> QED BY <1>a, <2>1
<1>7. ASSUME NEW q \in flying, Acknowledge(q) PROVE GoneInv'
  <2>0. UNCHANGED <<run, pc>> /\ run \in Plans
    BY <1>7, PhaseOf DEF Acknowledge
  <2>1. CASE q.kind = "post"
    <3>1. \A k \in Keys : k \notin q.keys => items'[k] = items[k]
      BY <1>7, <2>1, PostSays
    <3>2. pc = "create" /\ Removals(run) = {}
      BY <2>1, PhaseOf DEF GoneInv, Working
    <3>3. \A k \in q.keys : k \notin Retired[run]
      <4>1. \A k \in q.keys : k \in Wanted[run]
        BY <2>1 DEF IInv, FlightInv, Sound
      <4> QED BY <2>0, <4>1 DEF MiroSyncAssumption
    <3>4. \A k : k \in Retired[run] \cap Mapped' => k \in Removals(run)
      BY <3>1, <3>3 DEF Removals, Mapped
    <3> QED BY <2>0, <3>2, <3>4 DEF GoneInv, Removals
  <2>2. CASE q.kind = "patch"
    <3>1. Mapped' = Mapped /\ UNCHANGED deletions
      BY <1>7, <2>2, KeptSteps DEF Acknowledge, Save, Kept
    <3> QED BY <1>a, <2>0, <3>1
  <2>3. CASE q.kind = "delete"
    <3>1. /\ \A k \in q.keys : k \notin Mapped'
          /\ \A k \in Keys : k \notin q.keys => items'[k] = items[k] /\ deletions'[k] = deletions[k]
      BY <1>7, <2>3, DeleteSays
    <3>2. Mapped' \subseteq Mapped /\ \A k \in Mapped' : deletions'[k] = deletions[k]
      BY <3>1 DEF Mapped
    <3> QED BY <1>a, <2>0, <3>2
  <2> QED BY <2>1, <2>2, <2>3, PhaseOf
<1>8. ASSUME NEW k \in Keys, NEW id \in Ids, Adopt(k, id) PROVE GoneInv'
  BY <1>8, <1>b DEF Adopt, session
<1>9. ASSUME NEW id \in Ids, Edit(id) PROVE GoneInv'
  <2>1. Mapped' = Mapped /\ UNCHANGED <<run, pc, deletions>>
    BY <1>9 DEF Edit, journal, session, Mapped
  <2> QED BY <1>a, <2>1
<1> QED
  BY <1>1, <1>2, <1>3, <1>4, <1>5, <1>6, <1>7, <1>8, <1>9, Steps

\* What is shown stays so while the objects of wanted items say what they did.
LEMMA ShownFrame ==
  ASSUME MiroSyncAssumption, IInv, ShownInv, run' = run, pc' = pc \/ (Working /\ Working'),
         \A id \in Ids, k \in Wanted[run] : Shown(id, k) /\ (Live(id) => board[id].key = k) => Shown(id, k)',
         \A k \in Mapped' \cap Wanted[run] :
           \/ Shown(items[k].id, k)'
           \/ k \in Mapped /\ items'[k].id = items[k].id /\ (Pending(k) => Pending(k)'),
         \A r \in flying' : Executed(r) => \A k \in r.keys :
           Answers(r, k)' \/ (r \in flying /\ (r.kind = "patch" => items'[k].id = items[k].id))
  PROVE  ShownInv'
<1>0. TypeOK
  BY DEF IInv, TypeInv
<1> SUFFICES ASSUME Working' PROVE ShownInv'
  BY DEF ShownInv
<1>1. Working /\ run \in Plans
  BY DEF Working, IInv, SessionInv
<1>2. ASSUME NEW k \in Wanted[run], k \in Mapped, Shown(items[k].id, k), items'[k].id = items[k].id
      PROVE  Shown(items[k].id, k)'
  <2>1. items[k].id \in Ids /\ (Live(items[k].id) => board[items[k].id].key = k)
    BY <1>0, <1>2 DEF TypeOK, Mapped, Records, IInv, BoardInv
  <2> DEFINE id == items[k].id
  <2>2. \A i \in Ids : i = id => Shown(i, k)'
    BY <1>2, <2>1
  <2> HIDE DEF id
  <2>3. \A i \in Ids : i = id => i \in touched' \/ (board'[i] # None /\ board'[i].text \in {PlanText[run'][k], Manual})
    BY <2>2 DEF Shown, Live
  <2>4. id \in touched' \/ (board'[id] # None /\ board'[id].text \in {PlanText[run'][k], Manual})
    BY <2>1, <2>3 DEF id
  <2>5. items'[k].id \in touched' \/ (board'[items'[k].id] # None /\ board'[items'[k].id].text \in {PlanText[run'][k], Manual})
    BY <1>2, <2>4 DEF id
  <2> QED BY <2>5 DEF Shown, Live
<1>3. ASSUME NEW k \in Wanted[run] \cap Mapped' PROVE Pending(k)' \/ Shown(items[k].id, k)'
  <2>1. CASE k \in Mapped /\ items'[k].id = items[k].id /\ (Pending(k) => Pending(k)')
    <3>1. Pending(k) \/ Shown(items[k].id, k)
      BY <1>1, <2>1 DEF ShownInv
    <3> QED BY <1>2, <2>1, <3>1
  <2> QED BY <2>1
<1>4. ASSUME NEW r \in flying', Executed(r), NEW k \in r.keys PROVE Answers(r, k)'
  <2>1. CASE r \in flying /\ (r.kind = "patch" => items'[k].id = items[k].id)
    <3>1. Answers(r, k)
      BY <1>1, <1>4, <2>1 DEF ShownInv
    <3>2. CASE r.kind = "post"
      <4>1. k \in Wanted[run] /\ (Live(r.ids[k]) => board[r.ids[k]].key = k)
        BY <1>4, <2>1, <3>2 DEF IInv, FlightInv, Sound
      <4>2. r.ids \in [r.keys -> Ids]
        BY <1>4, <2>1, ExecutedIds DEF IInv, TypeInv
      <4>3. Shown(r.ids[k], k)
        BY <3>1, <3>2, Zenon DEF Answers
      <4>4. r.ids[k] \in Ids
        BY <4>2
      <4>5. Shown(r.ids[k], k)'
        BY <4>1, <4>3, <4>4
      <4> QED BY <3>2, <4>5, Zenon DEF Answers
    <3>3. CASE r.kind = "patch"
      <4>1. k \in Mapped /\ k \in Wanted[run]
        BY <2>1, <3>3, PhaseOf DEF IInv, FlightInv, Sound, SessionInv
      <4>2. Shown(items[k].id, k)'
        BY <1>2, <2>1, <3>1, <3>3, <4>1 DEF Answers
      <4> QED BY <3>3, <4>2 DEF Answers
    <3>4. CASE r.kind # "post" /\ r.kind # "patch"
      BY <3>4 DEF Answers
    <3> QED BY <3>2, <3>3, <3>4
  <2> QED BY <1>4, <2>1
<1>5. \A r \in flying' : Executed(r)' <=> Executed(r)
  BY DEF Executed
<1> QED BY <1>3, <1>4, <1>5 DEF ShownInv, Executed

LEMMA ShownPreflight ==
  ASSUME MiroSyncAssumption, IInv, WordsInv, Preflight
  PROVE  ShownInv'
<1>0. /\ Kept /\ UNCHANGED <<board, flying, run>> /\ flying = {} /\ run \in Plans
  BY KeptSteps, Quiet DEF IInv, SessionInv, Preflight, miro
<1>1. ASSUME NEW k \in Wanted[run] \cap Mapped PROVE Pending(k)' \/ Shown(items[k].id, k)'
  <2>1. KeptByPlan(k) /\ k \in Keys
    BY <1>0 DEF KeptByPlan, Removals, MiroSyncAssumption, Mapped
  <2>2. /\ merged'[k] # None /\ Live(items[k].id)
        /\ merged'[k].patch = None => board[items[k].id].text \in {Manual, PlanText[run][k]}
    BY <2>1, PreflightSays
  <2>3. items'[k].id = items[k].id
    BY <1>0 DEF Kept
  <2> QED BY <1>0, <2>2, <2>3 DEF Pending, Shown, Live
<1> QED BY <1>0, <1>1 DEF ShownInv, Kept

LEMMA ShownExecuted ==
  ASSUME MiroSyncAssumption, IInv, WordsInv, ShownInv, NEW q \in flying, Execute(q)
  PROVE  ShownInv'
<1>1. PICK f \in [q.keys -> Ids] : Answer(q, f)
  BY Answered
<1>0. /\ TypeOK /\ UNCHANGED <<items, merged, run, pc, touched>> /\ Mapped' = Mapped /\ run \in Plans
      /\ flying' = (flying \ {q}) \cup {[q EXCEPT !.ids = f]}
  BY <1>1, PhaseOf DEF IInv, TypeInv, Execute, Answer, journal, Mapped
<1>2. \A k \in Mapped' \cap Wanted[run] : k \in Mapped /\ items'[k].id = items[k].id /\ (Pending(k) => Pending(k)')
  BY <1>0 DEF Pending
<1> DEFINE answered == [q EXCEPT !.ids = f]
<1>3. answered.kind = q.kind /\ answered.keys = q.keys /\ answered.ids = f
  BY AnsweredRequest DEF IInv, TypeInv
<1>4. \A r \in flying' : r \in flying \/ r = answered
  BY <1>0
<1> HIDE DEF answered
<1>a. ASSUME \A id \in Ids, k \in Wanted[run] : Shown(id, k) /\ (Live(id) => board[id].key = k) => Shown(id, k)',
             \A k \in q.keys : Answers(answered, k)'
      PROVE  ShownInv'
  <2>1. \A r \in flying' : Executed(r) => \A k \in r.keys :
          Answers(r, k)' \/ (r \in flying /\ (r.kind = "patch" => items'[k].id = items[k].id))
    BY <1>0, <1>3, <1>4, <1>a
  <2> QED BY <1>0, <1>2, <1>a, <2>1, ShownFrame
<1>5. CASE q.kind = "post"
  <2>1. /\ \A k \in q.keys : board'[f[k]].text = PlanText[run][k] /\ Live(f[k])'
        /\ \A id \in Ids : Live(id) => board'[id] = board[id]
    BY <1>1, <1>5, PostShows
  <2>2. \A id \in Ids, k \in Wanted[run] : Shown(id, k) => Shown(id, k)'
    BY <1>0, <2>1 DEF Shown, Live
  <2>3. ASSUME NEW k \in q.keys PROVE Answers(answered, k)'
    <3>1. board'[f[k]] # None /\ board'[f[k]].text = PlanText[run'][k]
      BY <1>0, <2>1 DEF Live
    <3>2. Shown(answered.ids[k], k)'
      BY <1>3, <3>1 DEF Shown, Live
    <3> QED BY <1>3, <1>5, <3>2 DEF Answers
  <2> QED BY <1>a, <2>2, <2>3
<1>6. CASE q.kind = "patch"
  <2>1. PICK l \in Mapped :
          /\ q.keys = {l} /\ items[l].id \in Ids /\ Live(items[l].id) /\ board'[items[l].id] # None
          /\ board'[items[l].id].text = merged[l].patch
          /\ \A id \in Ids : id # items[l].id => board'[id] = board[id]
    <3>1. PICK l \in Mapped :
            /\ q.keys = {l} /\ items[l].id \in Ids /\ Live(items[l].id) /\ Live(items[l].id)'
            /\ board'[items[l].id].text = merged[l].patch
            /\ \A id \in Ids : id # items[l].id => board'[id] = board[id]
      BY <1>0, <1>6, PatchShows
    <3>2. board'[items[l].id] # None
      BY <1>0, <3>1 DEF Live
    <3> QED BY <3>1, <3>2
  <2>2. merged[l].patch = PlanText[run][l]
    <3>1. merged[l] # None /\ merged[l].patch # None
      BY <1>6, <2>1 DEF IInv, FlightInv, Sound
    <3> QED BY <3>1, l \in Keys DEF WordsInv, MergeOf, Mapped
  <2>3. board[items[l].id].key = l
    BY <2>1 DEF IInv, BoardInv
  <2>4. ASSUME NEW id \in Ids, NEW k \in Wanted[run], Shown(id, k), Live(id) => board[id].key = k
        PROVE  Shown(id, k)'
    <3>1. CASE id = items[l].id
      <4>1. k = l
        BY <2>1, <2>3, <2>4, <3>1
      <4> QED BY <1>0, <2>1, <2>2, <3>1, <4>1 DEF Shown, Live
    <3>2. CASE id # items[l].id
      BY <1>0, <2>1, <2>4, <3>2 DEF Shown, Live
    <3> QED BY <3>1, <3>2
  <2>5. ASSUME NEW k \in q.keys PROVE Answers(answered, k)'
    <3>1. k = l /\ answered.kind = "patch"
      BY <1>3, <1>6, <2>1
    <3>2. Shown(items[l].id, l)'
      BY <1>0, <2>1, <2>2 DEF Shown, Live
    <3> QED BY <3>1, <3>2 DEF Answers
  <2> QED BY <1>a, <2>4, <2>5
<1>7. CASE q.kind = "delete"
  <2>1. PICK l \in Mapped :
          /\ q.keys = {l} /\ items[l].id \in Ids /\ deletions[l] # None
          /\ \A id \in Ids : id # items[l].id => board'[id] = board[id]
    BY <1>7, DeleteShows
  <2>2. l \notin Wanted[run]
    <3>1. active = run /\ l \in Keys
      BY PhaseOf DEF Mapped
    <3>2. l \in Retired[run]
      BY <2>1, <3>1 DEF IInv, IntentInv
    <3> QED BY <1>0, <3>2 DEF MiroSyncAssumption
  <2>3. Live(items[l].id) => board[items[l].id].key = l
    BY <2>1 DEF IInv, BoardInv
  <2>4. ASSUME NEW id \in Ids, NEW k \in Wanted[run], Shown(id, k), Live(id) => board[id].key = k
        PROVE  Shown(id, k)'
    <3>1. CASE id = items[l].id
      <4>1. ~Live(id)
        BY <2>2, <2>3, <2>4, <3>1
      <4> QED BY <1>0, <2>4, <4>1 DEF Shown
    <3>2. CASE id # items[l].id
      BY <1>0, <2>1, <2>4, <3>2 DEF Shown, Live
    <3> QED BY <3>1, <3>2
  <2>5. \A k \in q.keys : Answers(answered, k)'
    BY <1>3, <1>7 DEF Answers
  <2> QED BY <1>a, <2>4, <2>5
<1> QED BY <1>5, <1>6, <1>7, PhaseOf

LEMMA ShownAcknowledged ==
  ASSUME MiroSyncAssumption, IInv, WordsInv, ShownInv, NEW q \in flying, Acknowledge(q)
  PROVE  ShownInv'
<1>0. /\ UNCHANGED <<board, run, pc, touched>> /\ flying' = flying \ {q} /\ Executed(q) /\ Working
      /\ \A r \in flying' : r \in flying /\ r.keys \cap q.keys = {} /\ r.keys \subseteq Keys
  BY PhaseOf DEF IInv, SessionInv, Acknowledge, miro, Working
<1>1. \A id \in Ids, k \in Wanted[run] : Shown(id, k) => Shown(id, k)'
  BY <1>0 DEF Shown, Live
<1>2. \A k \in q.keys : Answers(q, k)
  BY <1>0 DEF ShownInv
<1>a. ASSUME \A k \in Keys : k \notin q.keys => items'[k] = items[k] /\ merged'[k] = merged[k],
             \A k \in Mapped' \cap q.keys : Shown(items[k].id, k)'
      PROVE  ShownInv'
  <2>1. \A k \in Mapped' \cap Wanted[run] :
           \/ Shown(items[k].id, k)'
           \/ k \in Mapped /\ items'[k].id = items[k].id /\ (Pending(k) => Pending(k)')
    BY <1>a DEF Mapped, Pending
  <2>2. \A r \in flying' : r \in flying /\ \A k \in r.keys : items'[k].id = items[k].id
    BY <1>0, <1>a
  <2> QED BY <1>0, <1>1, <2>1, <2>2, ShownFrame
<1>3. CASE q.kind = "post"
  <2>1. /\ \A k \in q.keys : items'[k].id = q.ids[k]
        /\ \A k \in Keys : k \notin q.keys => items'[k] = items[k]
        /\ UNCHANGED merged
    BY <1>3, PostSays
  <2>2. \A k \in q.keys : Shown(q.ids[k], k)
    BY <1>2, <1>3, Zenon DEF Answers
  <2>3. \A k \in q.keys : Shown(items[k].id, k)'
    BY <1>0, <2>1, <2>2 DEF Shown, Live
  <2> QED BY <1>a, <2>1, <2>3
<1>4. CASE q.kind = "patch"
  <2>1. /\ \A k \in q.keys : items'[k].id = items[k].id
        /\ \A k \in Keys : k \notin q.keys => items'[k] = items[k] /\ merged'[k] = merged[k]
    BY <1>4, PatchSays
  <2>2. \A k \in q.keys : Shown(items[k].id, k)
    BY <1>2, <1>4 DEF Answers
  <2>3. \A k \in q.keys : Shown(items[k].id, k)'
    BY <1>0, <2>1, <2>2 DEF Shown, Live
  <2> QED BY <1>a, <2>1, <2>3
<1>5. CASE q.kind = "delete"
  <2>1. /\ \A k \in q.keys : k \notin Mapped'
        /\ \A k \in Keys : k \notin q.keys => items'[k] = items[k]
        /\ UNCHANGED merged
    BY <1>5, DeleteSays
  <2> QED BY <1>a, <2>1
<1> QED BY <1>3, <1>4, <1>5, PhaseOf

LEMMA ShownStep ==
  ASSUME MiroSyncAssumption, IInv, WordsInv, ShownInv, [Next]_vars
  PROVE  ShownInv'
<1>a. ASSUME pc' \in {"idle", "preflight"} PROVE ShownInv'
  BY <1>a DEF ShownInv, Working
<1>1. CASE Calm
  <2>1. CASE pc' = "idle" \/ pc' = "preflight"
    BY <1>a, <2>1
  <2>2. CASE pc' # "idle" /\ pc' # "preflight"
    <3>1. /\ UNCHANGED <<items, board, touched, merged, run>>
          /\ pc' = pc \/ (Working /\ pc' \in {"update", "create"})
          /\ \A r \in flying' : r \in flying \/ ~Executed(r)
      BY <1>1, <2>2 DEF Calm, Working
    <3>2. \A id \in Ids, k \in Wanted[run] : Shown(id, k) => Shown(id, k)'
      BY <3>1 DEF Shown, Live
    <3>3. \A k \in Mapped' : k \in Mapped /\ items'[k].id = items[k].id /\ (Pending(k) => Pending(k)')
      BY <3>1 DEF Mapped, Pending
    <3>4. pc' = pc \/ (Working /\ Working')
      BY <3>1 DEF Working
    <3>5. \A r \in flying' : Executed(r) => r \in flying /\ \A k \in r.keys : items'[k].id = items[k].id
      BY <3>1
    <3> QED BY <3>1, <3>2, <3>3, <3>4, <3>5, ShownFrame
  <2> QED BY <2>1, <2>2
<1>2. Preflight => ShownInv'
  BY ShownPreflight
<1>3. CASE Finish
  BY <1>3, <1>a DEF Finish
<1>4. ASSUME NEW k \in Keys, Update(k), merged[k].patch = None PROVE ShownInv'
  <2>0. /\ Kept /\ UNCHANGED <<board, touched, pc, run, flying>>
        /\ \A l \in Keys : l # k => items'[l] = items[l] /\ merged'[l] = merged[l]
        /\ items'[k].id = items[k].id
    BY <1>4, KeptSteps, UpdateSays DEF Update, miro
  <2>1. \A id \in Ids, l \in Wanted[run] : Shown(id, l) => Shown(id, l)'
    BY <2>0 DEF Shown, Live
  <2>2. ASSUME NEW l \in Mapped' \cap Wanted[run]
        PROVE  l \in Mapped /\ items'[l].id = items[l].id /\ (Pending(l) => Pending(l)')
    <3>1. l \in Mapped /\ items'[l].id = items[l].id /\ l \in Keys
      BY <2>0 DEF Kept, Mapped
    <3>2. CASE l = k
      BY <1>4, <3>1, <3>2 DEF Pending
    <3>3. CASE l # k
      BY <2>0, <3>1, <3>3 DEF Pending
    <3> QED BY <3>2, <3>3
  <2>3. \A r \in flying' : r \in flying /\ \A l \in r.keys : items'[l].id = items[l].id
    BY <2>0, PhaseOf
  <2> QED BY <2>0, <2>1, <2>2, <2>3, ShownFrame
<1>5. ASSUME NEW keys \in SUBSET Keys, Create(keys) PROVE ShownInv'
  <2>0. /\ UNCHANGED <<items, board, touched, pc, run, merged>>
        /\ flying' = flying \cup {Request("post", keys)} /\ keys # {}
    BY <1>5 DEF Create, miro
  <2>1. \A id \in Ids, l \in Wanted[run] : Shown(id, l) => Shown(id, l)'
    BY <2>0 DEF Shown, Live
  <2>2. \A l \in Mapped' : l \in Mapped /\ items'[l].id = items[l].id /\ (Pending(l) => Pending(l)')
    BY <2>0 DEF Mapped, Pending
  <2>3. ~Executed(Request("post", keys))
    BY <2>0, NewRequest
  <2>4. \A r \in flying' : Executed(r) => r \in flying /\ \A l \in r.keys : items'[l].id = items[l].id
    BY <2>0, <2>3
  <2> QED BY <2>0, <2>1, <2>2, <2>4, ShownFrame
<1>6. ASSUME NEW k \in Keys, NEW id \in Ids, Adopt(k, id) PROVE ShownInv'
  BY <1>6, <1>a DEF Adopt, session
<1>7. ASSUME NEW id \in Ids, Edit(id) PROVE ShownInv'
  <2>0. /\ UNCHANGED <<items, pc, run, merged, flying>> /\ touched' = touched \cup {id}
        /\ \A i \in Ids : i # id => board'[i] = board[i]
    BY <1>7, EditShows DEF journal, session
  <2>1. \A i \in Ids, l \in Wanted[run] : Shown(i, l) => Shown(i, l)'
    BY <2>0 DEF Shown, Live
  <2>2. \A l \in Mapped' : l \in Mapped /\ items'[l].id = items[l].id /\ (Pending(l) => Pending(l)')
    BY <2>0 DEF Mapped, Pending
  <2>3. \A r \in flying' : r \in flying /\ \A l \in r.keys : items'[l].id = items[l].id
    BY <2>0
  <2> QED BY <2>0, <2>1, <2>2, <2>3, ShownFrame
<1> QED
  BY <1>1, <1>2, <1>3, <1>4, <1>5, <1>6, <1>7, Steps, ShownExecuted, ShownAcknowledged

\* A run counts as synced only at the end of a call.
LEMMA OnlyFinish ==
  ASSUME MiroSyncAssumption, IInv, [Next]_vars, latest' # latest \/ (active # 0 /\ active' = 0)
  PROVE  Finish
<1>1. Calm => UNCHANGED <<active, latest>>
  BY DEF Calm
<1>2. Preflight => UNCHANGED latest /\ active' # 0
  BY DEF Preflight, IInv, SessionInv, Plans
<1>3. /\ \A k \in Keys : Update(k) => UNCHANGED <<active, latest>>
      /\ \A keys \in SUBSET Keys : Create(keys) => UNCHANGED <<active, latest>>
      /\ \A q \in flying : Execute(q) \/ Acknowledge(q) => UNCHANGED <<active, latest>>
      /\ \A k \in Keys, i \in Ids : Adopt(k, i) => UNCHANGED <<active, latest>>
      /\ \A i \in Ids : Edit(i) => UNCHANGED <<active, latest>>
  BY DEF Update, Create, Execute, Acknowledge, Adopt, Edit, journal
<1> QED BY <1>1, <1>2, <1>3, Steps

LEMMA FinishShows ==
  ASSUME MiroSyncAssumption, IInv, ShownInv, GoneInv, Finish
  PROVE  /\ \A k \in Wanted[run] : LET id == items'[k].id IN
              id \in touched \/ (Live(id) /\ board[id].text \in {PlanText[run][k], Manual})
         /\ \A id \in Ids : Live(id) => board[id].key \notin Retired[run]
<1>0. /\ pc = "create" /\ flying = {} /\ ~failing /\ Wanted[run] \subseteq Mapped /\ items' = items
      /\ run \in Plans /\ Working
  BY DEF Finish, IInv, SessionInv, Working
<1>1. ASSUME NEW k \in Wanted[run]
      PROVE  items'[k].id \in touched \/ (Live(items'[k].id) /\ board[items'[k].id].text \in {PlanText[run][k], Manual})
  <2>1. k \in Keys /\ k \in Mapped
    BY <1>0 DEF Mapped
  <2>2. ~Pending(k)
    BY <1>0, <2>1 DEF IInv, SessionInv, Pending
  <2>3. Shown(items[k].id, k)
    BY <1>0, <2>1, <2>2 DEF ShownInv
  <2> QED BY <1>0, <2>3 DEF Shown
<1>2. ASSUME NEW id \in Ids, Live(id) PROVE board[id].key \notin Retired[run]
  <2>1. board[id].key \in Keys
    BY <1>2 DEF IInv, TypeInv, TypeOK, Live, Objects
  <2>2. creations[board[id].key] = None
    BY <1>0, <2>1 DEF IInv, IntentInv, Flies
  <2>3. board[id].key \in Mapped
    BY <1>2, <2>2 DEF IInv, BoardInv, NothingOrphaned
  <2>4. Removals(run) = {}
    BY <1>0 DEF GoneInv
  <2> QED BY <2>3, <2>4 DEF Removals
<1> QED BY <1>1, <1>2

LEMMA Shows ==
  ASSUME MiroSyncAssumption
  PROVE  Spec => [](GoneInv /\ ShownInv)
<1>1. Init => GoneInv /\ ShownInv
  BY DEF Init, GoneInv, ShownInv, Working
<1>2. IInv /\ IInv' /\ WordsInv /\ GoneInv /\ ShownInv /\ [Next]_vars => (GoneInv /\ ShownInv)'
  BY GoneStep, ShownStep
<1> QED BY <1>1, <1>2, Unharmed, PTL DEF Spec

\* A call that reports its run as synced has the board show it, whatever failed
\* before: every wanted item has its object, with the plan's text or a
\* person's, and what the run retires is gone.
THEOREM SyncedShown ==
  ASSUME MiroSyncAssumption
  PROVE  Spec => SyncedIsShown
<1>1. IInv /\ GoneInv /\ ShownInv /\ [Next]_vars =>
        [latest' # latest \/ (active # 0 /\ active' = 0) =>
           /\ \A k \in Wanted[run] : LET id == items'[k].id IN
                id \in touched \/ (Live(id) /\ board[id].text \in {PlanText[run][k], Manual})
           /\ \A id \in Ids : Live(id) => board[id].key \notin Retired[run]]_vars
  BY OnlyFinish, FinishShows
<1> QED BY <1>1, Unharmed, Shows, PTL DEF Spec, SyncedIsShown

\* Publication of runs whose texts only grow moves forward: a run is reported
\* once it is shown, and what the program wrote never goes back to what an
\* older run says, although calls are interrupted, repeated and resumed.
THEOREM SyncTrue ==
  ASSUME MiroSyncAssumption, TextsGrow
  PROVE  Spec => SyncIsTrue
<1>1. Init => GrownInv
  <2> SUFFICES ASSUME Init PROVE GrownInv
    OBVIOUS
  <2>1. None \notin Nat
    BY DEF MiroSyncAssumption, Texts
  <2>2. \A k \in Keys : Written(k) = {}
    BY <2>1 DEF Init, Written, Mapped
  <2> QED BY <2>2 DEF Init, GrownInv
<1>2. IInv /\ IInv' /\ WordsInv /\ GrownInv /\ [Next]_vars => GrownInv'
  BY GrownStep
<1>3. IInv /\ WordsInv /\ GrownInv /\ [Next]_vars =>
        [\A id \in Ids : Live(id) /\ board'[id] # None /\ board[id].text # Manual /\ board'[id].text # Manual
           => board'[id].text >= board[id].text]_vars
  BY TextsForward
<1> QED BY <1>1, <1>2, <1>3, SyncedShown, Unharmed, PTL DEF Spec, SyncIsTrue, NoRegression
=============================================================================
