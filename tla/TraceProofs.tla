----------------------------- MODULE TraceProofs -----------------------------
(***************************************************************************)
(* Type correctness of the traversal, that no saved run forgets a child of  *)
(* a spent output as long as no interrupt lands between two children, and   *)
(* that its scope is exact: the depths that add() and mark_stop maintain    *)
(* one arrival at a time are those of a walk from the seeds, what the stop  *)
(* rules hold is what they cut off, and nothing is requested for an output  *)
(* beyond them.                                                             *)
(***************************************************************************)
EXTENDS Trace, FiniteSetTheorems, WellFoundedInduction, TLAPS

\* Every nonempty set of naturals has a least element.
LEMMA LeastNatural ==
  ASSUME NEW S, S \subseteq Nat, S # {}
  PROVE  \E n \in S : \A k \in S : n <= k
<1> DEFINE R == OpToRel(<, Nat)
<1>1. IsWellFoundedOn(R, Nat)
  BY NatLessThanWellFounded
<1>2. \A x, y \in Nat : y < x => <<y, x>> \in R
  BY Zenon DEF R, OpToRel
<1> HIDE DEF R
<1>3. PICK x \in S : \A y \in S : ~ (<<y, x>> \in R)
  BY <1>1, WFMin
<1>4. \A y \in S : ~ (y < x)
  BY <1>2, <1>3
<1>5. \A y \in S : x <= y
  BY <1>4
<1> QED
  BY <1>5

-----------------------------------------------------------------------------
(* The operators                                                           *)

DepthMap == [Outputs -> Nat \cup {None}]
Records == [Outputs -> Record \cup {None}]
IsHeap(q) == DOMAIN q \subseteq Entries /\ \A e \in DOMAIN q : q[e] \in Nat \ {0}

LEMMA NoneIsNoRecord == None \notin Record /\ None \notin Nat
  BY TraceAssumption DEF TraceAssumption, Record

LEMMA NoneIsNoStatus == None \notin Statuses /\ None # "spent" /\ None # "pending"
<1>1. "spent" \in Statuses /\ "pending" \in Statuses
  BY DEF Statuses, Terminal
<1> QED
  BY <1>1, TraceAssumption DEF TraceAssumption

LEMMA ChoicesType == MaxRuns \in Nat /\ HopChoices \subseteq Nat /\ StopChoices \subseteq SUBSET Addresses
                     /\ OnlyChoices \subseteq SUBSET Outputs /\ Budgets \subseteq Limits /\ Unlimited \in Limits
  BY TraceAssumption DEF TraceAssumption, Limits, Unlimited

LEMMA WalkedType ==
  ASSUME NEW starts, NEW old \in DepthMap, NEW known, NEW linked, NEW stopped
  PROVE  /\ Walked(starts, old, known, linked, stopped) \in DepthMap
         /\ \A o \in Outputs : Walked(starts, old, known, linked, stopped)[o] # old[o] => o \in known
<1> DEFINE L == Layer(starts, known, linked, stopped)
           at == [n \in Depths |-> known \cap L[n]]
           ns(o) == {n \in Depths : o \in at[n]}
           m(o) == CHOOSE n \in ns(o) : \A k \in ns(o) : n <= k
           W == Walked(starts, old, known, linked, stopped)
<1>1. Depths \subseteq Nat
  BY FS_EmptySet, FS_CardinalityType DEF Depths
<1>2. \A o \in Outputs : ns(o) \subseteq Nat
  BY <1>1
<1>3. \A o \in Outputs : ns(o) # {} => m(o) \in Nat /\ o \in known
  <2> SUFFICES ASSUME NEW o \in Outputs, ns(o) # {}
               PROVE  m(o) \in Nat /\ o \in known
    OBVIOUS
  <2>1. \E n \in ns(o) : \A k \in ns(o) : n <= k
    <3> HIDE DEF ns
    <3> QED BY <1>2, LeastNatural
  <2>2. m(o) \in ns(o)
    <3> HIDE DEF ns
    <3> QED BY <2>1
  <2> QED
    BY <2>2, <1>2
<1>4. W = [o \in Outputs |-> IF ns(o) = {} THEN old[o]
                             ELSE IF old[o] = None \/ m(o) < old[o] THEN m(o) ELSE old[o]]
  BY DEF Walked
<1> HIDE DEF L, at, ns, m, W
<1>5. W \in DepthMap
  BY <1>3, <1>4 DEF DepthMap
<1>6. \A o \in Outputs : W[o] # old[o] => o \in known
  BY <1>3, <1>4
<1> QED
  BY <1>5, <1>6 DEF W

LEMMA RestoredType ==
  ASSUME NEW r \in Record
  PROVE  Restored(r) \in Record
<1>1. r.status \in Statuses /\ (r.hold # None => r.prev \in Statuses)
  BY DEF Record
<1>2. (IF r.hold # None /\ r.status \in Holds THEN r.prev ELSE r.status) \in Statuses
  BY <1>1
<1> QED
  BY <1>2 DEF Restored, Record

LEMMA HoldForType ==
  ASSUME NEW r \in Record, NEW why \in Holds
  PROVE  HoldFor(r, why) \in Record
<1>1. r.status \in Statuses /\ why \in Statuses /\ None \notin Statuses
  BY TraceAssumption DEF TraceAssumption, Record, Statuses
<1>2. (IF r.status \in Terminal THEN r.status ELSE why) \in Statuses
  BY <1>1
<1> HIDE DEF Holds, Statuses
<1> QED
  BY <1>1, <1>2 DEF HoldFor, Record

LEMMA PushType ==
  ASSUME NEW q, IsHeap(q), NEW es, es \subseteq Entries
  PROVE  IsHeap(Push(q, es)) /\ DOMAIN Push(q, es) = DOMAIN q \cup es
  BY DEF IsHeap, Push

LEMMA PoppedType ==
  ASSUME NEW q, IsHeap(q), NEW e \in DOMAIN q
  PROVE  IsHeap(Popped(q, e)) /\ DOMAIN Popped(q, e) \subseteq DOMAIN q
  BY DEF IsHeap, Popped

\* What add() does under an active scope, with its arrival and its walk named.
ScopedResult(rs, ds, c) ==
  LET visited == Visited(depths, ds)
      stopped == {o \in Known(rs) : StopAddress(o, stops, data)}
      walked == AfterWalk(rs, visited, stopped)
      cand == Candidates(visited \ stopped, walked, c, out[c] = None)
  IN /\ out' = [o \in Outputs |-> IF o \in cand THEN [walked[o] EXCEPT !.status = "pending"]
                                  ELSE walked[o]]
     /\ queue' = Push(queue, Ready(walked, ds, cand))
     /\ depths' = ds
LEMMA AddScopedDoes ==
  ASSUME NEW c, NEW d, AddScoped(c, d)
  PROVE  LET arrived == [out EXCEPT ![c] = Arrived(out[c], d)]
             known == Known(arrived)
             stopped == {o \in known : StopAddress(o, stops, data)}
             walk == IF depths[c] # None /\ depths[c] <= d THEN depths
                     ELSE Walked({<<d, c>>}, depths, known, links, stopped)
         IN ScopedResult(arrived, walk, c)
<1> DEFINE arrived == [out EXCEPT ![c] = Arrived(out[c], d)]
           WalkOf(rs) == IF depths[c] # None /\ depths[c] <= d THEN depths
                         ELSE Walked({<<d, c>>}, depths, Known(rs), links,
                                     {o \in Known(rs) : StopAddress(o, stops, data)})
<1>1. \E rs \in {arrived} : \E ds \in {WalkOf(rs)} : ScopedResult(rs, ds, c)
  BY DEF AddScoped, ScopedResult
<1>2. ScopedResult(arrived, WalkOf(arrived), c)
  <2> HIDE DEF arrived, WalkOf
  <2> QED BY <1>1
<1> QED
  BY <1>2

\* A record that says its output was spent, now or before it was held.
SaysSpent(r) == r # None /\ (r.status = "spent" \/ r.prev = "spent")

\* What the operators on all outputs promise: records stay records, known
\* outputs stay known, and nothing becomes spent.
Keeps(rs, new) ==
  /\ new \in Records
  /\ \A o \in Outputs : new[o] = None <=> rs[o] = None
  /\ \A o \in Outputs : SaysSpent(new[o]) => SaysSpent(rs[o])

LEMMA RestoredKeeps ==
  ASSUME NEW r \in Record
  PROVE  SaysSpent(Restored(r)) => SaysSpent(r)
  BY NoneIsNoRecord, NoneIsNoStatus DEF SaysSpent, Restored, Record

LEMMA HoldForKeeps ==
  ASSUME NEW r \in Record, NEW why \in Holds
  PROVE  SaysSpent(HoldFor(r, why)) => SaysSpent(r)
  BY TraceAssumption DEF TraceAssumption, SaysSpent, HoldFor, Record, Holds

LEMMA AfterWalkKeeps ==
  ASSUME NEW rs \in Records, NEW visited, visited \subseteq Known(rs), NEW stopped
  PROVE  Keeps(rs, AfterWalk(rs, visited, stopped))
<1> DEFINE new == AfterWalk(rs, visited, stopped)
<1> SUFFICES ASSUME NEW o \in Outputs
             PROVE  /\ new[o] \in Record \cup {None}
                    /\ new[o] = None <=> rs[o] = None
                    /\ SaysSpent(new[o]) => SaysSpent(rs[o])
  BY DEF Keeps, Records, AfterWalk
<1>1. CASE o \notin visited
  BY <1>1 DEF AfterWalk, Records
<1>2. CASE o \in visited
  <2>1. rs[o] \in Record
    BY <1>2 DEF Known, Records
  <2>2. Restored(rs[o]) \in Record /\ (SaysSpent(Restored(rs[o])) => SaysSpent(rs[o]))
    BY <2>1, RestoredType, RestoredKeeps
  <2>3. /\ HoldFor(Restored(rs[o]), "suspected_service_stop") \in Record
        /\ SaysSpent(HoldFor(Restored(rs[o]), "suspected_service_stop")) => SaysSpent(rs[o])
    BY <2>2, HoldForType, HoldForKeeps DEF Holds
  <2>4. new[o] = IF o \in stopped THEN HoldFor(Restored(rs[o]), "suspected_service_stop")
                 ELSE Restored(rs[o])
    BY <1>2 DEF AfterWalk
  <2> QED
    BY <2>1, <2>2, <2>3, <2>4, NoneIsNoRecord
<1> QED
  BY <1>1, <1>2

LEMMA ScopedOutputsKeeps ==
  ASSUME NEW rs \in Records, NEW ds, NEW stopped
  PROVE  Keeps(rs, ScopedOutputs(rs, ds, stopped))
<1> DEFINE all == [o \in Outputs |-> IF rs[o] = None THEN None ELSE Restored(rs[o])]
           visited == {o \in Known(rs) : ds[o] # None}
           seen == AfterWalk(all, visited, stopped)
           new == ScopedOutputs(rs, ds, stopped)
<1>1. Keeps(rs, all)
  <2>1. \A o \in Outputs : rs[o] # None => rs[o] \in Record
    BY DEF Records
  <2>2. \A o \in Outputs : rs[o] # None => /\ Restored(rs[o]) \in Record
                                           /\ SaysSpent(Restored(rs[o])) => SaysSpent(rs[o])
    BY <2>1, RestoredType, RestoredKeeps
  <2> QED
    BY <2>2, NoneIsNoRecord DEF Keeps, Records
<1>2. Keeps(all, seen)
  <2>1. visited \subseteq Known(all) /\ all \in Records
    BY <1>1 DEF Keeps, Known
  <2> HIDE DEF visited, all
  <2> QED
    BY <2>1, AfterWalkKeeps
<1>3. new = [o \in Outputs |-> IF rs[o] # None /\ ds[o] = None
                               THEN HoldFor(seen[o], "held_behind_service") ELSE seen[o]]
  BY DEF ScopedOutputs
<1>4. Keeps(rs, seen)
  BY <1>1, <1>2 DEF Keeps
<1> HIDE DEF all, visited, seen, new
<1>5. \A o \in Outputs : rs[o] # None => /\ seen[o] \in Record
                                         /\ HoldFor(seen[o], "held_behind_service") \in Record
                                         /\ SaysSpent(HoldFor(seen[o], "held_behind_service")) => SaysSpent(seen[o])
  <2>1. \A o \in Outputs : rs[o] # None => seen[o] \in Record
    BY <1>4 DEF Keeps, Records
  <2> QED
    BY <2>1, HoldForType, HoldForKeeps DEF Holds
<1>6. Keeps(rs, new)
  BY <1>3, <1>4, <1>5, NoneIsNoRecord DEF Keeps, Records
<1> QED
  BY <1>6 DEF new

LEMMA ArrivedType ==
  ASSUME NEW r \in Record \cup {None}, NEW d \in Nat
  PROVE  Arrived(r, d) \in Record /\ (SaysSpent(Arrived(r, d)) => SaysSpent(r))
<1>1. CASE r = None
  BY <1>1, NoneIsNoRecord, NoneIsNoStatus DEF Arrived, Record, Statuses, SaysSpent
<1>2. CASE r \in Record
  BY <1>2, NoneIsNoRecord, TraceAssumption DEF TraceAssumption, Arrived, Record, Statuses, SaysSpent
<1> QED
  BY <1>1, <1>2

\* A record whose output waits to be examined.
LEMMA PendingType ==
  ASSUME NEW r \in Record, NEW s \in Statuses, s # "spent"
  PROVE  /\ [r EXCEPT !.status = s] \in Record
         /\ SaysSpent([r EXCEPT !.status = s]) => SaysSpent(r)
  BY NoneIsNoRecord, TraceAssumption DEF TraceAssumption, Record, SaysSpent

-----------------------------------------------------------------------------
(* The invariant                                                           *)

\* What is examined or waits in the heap is a known output.
QueueKnown == \A e \in DOMAIN queue : out[e[2]] # None
CurrentKnown == current # None => out[current] # None

\* A link was made, and its children are known or being added.
LinksKept == \A o \in links : \/ pc = "add" /\ o = current
                              \/ OutputsOf(Spender[o]) \subseteq Known(out)
AddingKept == pc = "add" => OutputsOf(Spender[current]) \subseteq Known(out) \cup children
SpentLinked == \A o \in Outputs : SaysSpent(out[o]) => o \in links
LatestKept == latest # None => /\ \A o \in latest.links : OutputsOf(Spender[o]) \subseteq Known(latest.out)
                               /\ \A o \in Outputs : SaysSpent(latest.out[o]) => o \in latest.links

TypeInv == TypeOK /\ QueueKnown /\ CurrentKnown
\* The children of links are kept unless interrupts may land between them.
ChildInv == InterruptInAdd \/ (LinksKept /\ AddingKept /\ SpentLinked /\ LatestKept)

\* What add() does to the outputs, the heap and the scope.
Grows ==
  /\ out' \in Records /\ IsHeap(queue') /\ depths' \in DepthMap
  /\ \A o \in Outputs : out[o] # None => out'[o] # None
  /\ \A o \in Outputs : SaysSpent(out'[o]) => SaysSpent(out[o])
  /\ \A e \in DOMAIN queue' : out'[e[2]] # None

LEMMA AddKeeps ==
  ASSUME TypeInv, NEW c \in Outputs, NEW d \in Nat, Add(c, d)
  PROVE  Grows /\ out'[c] # None
<1> DEFINE arrived == [out EXCEPT ![c] = Arrived(out[c], d)]
<1>0. out \in Records /\ IsHeap(queue) /\ depths \in DepthMap
  BY DEF TypeInv, TypeOK, Records, IsHeap, DepthMap
<1>1. /\ arrived \in Records /\ arrived[c] # None
      /\ \A o \in Outputs : out[o] # None => arrived[o] # None
      /\ \A o \in Outputs : SaysSpent(arrived[o]) => SaysSpent(out[o])
  <2>1. out[c] \in Record \cup {None}
    BY <1>0 DEF Records
  <2>2. Arrived(out[c], d) \in Record /\ (SaysSpent(Arrived(out[c], d)) => SaysSpent(out[c]))
    BY <2>1, ArrivedType
  <2> QED
    BY <1>0, <2>2, NoneIsNoRecord DEF Records
<1>2. CASE ~active
  <2>1. /\ out' = arrived /\ depths' = depths
        /\ queue' = IF arrived[c].status = "pending" THEN Push(queue, {<<d, c>>}) ELSE queue
    BY <1>2 DEF Add, AddPlain
  <2>2. {<<d, c>>} \subseteq Entries
    BY DEF Entries
  <2>3. IsHeap(queue') /\ DOMAIN queue' \subseteq DOMAIN queue \cup {<<d, c>>}
    BY <1>0, <2>1, <2>2, PushType
  <2>4. \A e \in DOMAIN queue' : out'[e[2]] # None
    <3>1. \A e \in DOMAIN queue : e[2] \in Outputs /\ out[e[2]] # None
      BY <1>0 DEF IsHeap, Entries, TypeInv, QueueKnown
    <3>2. <<d, c>>[2] = c
      OBVIOUS
    <3> HIDE DEF arrived
    <3>3. out'[c] # None /\ \A o \in Outputs : out[o] # None => out'[o] # None
      BY <1>1, <2>1
    <3>4. \A e \in DOMAIN queue' : e \in DOMAIN queue \/ e = <<d, c>>
      BY <2>3
    <3> QED
      BY <3>1, <3>2, <3>3, <3>4
  <2> QED
    BY <1>0, <1>1, <2>1, <2>3, <2>4 DEF Grows
<1>3. CASE active
  <2> DEFINE known == Known(arrived)
             stopped == {o \in known : StopAddress(o, stops, data)}
             walk == IF depths[c] # None /\ depths[c] <= d THEN depths
                     ELSE Walked({<<d, c>>}, depths, known, links, stopped)
             visited == Visited(depths, walk)
             walked == AfterWalk(arrived, visited, stopped)
             cand == Candidates(visited \ stopped, walked, c, out[c] = None)
  <2>1. /\ out' = [o \in Outputs |-> IF o \in cand THEN [walked[o] EXCEPT !.status = "pending"]
                                     ELSE walked[o]]
        /\ queue' = Push(queue, Ready(walked, walk, cand))
        /\ depths' = walk
    BY <1>3, AddScopedDoes DEF Add, ScopedResult
  <2>2. walk \in DepthMap /\ visited \subseteq known
    <3>1. /\ Walked({<<d, c>>}, depths, known, links, stopped) \in DepthMap
          /\ \A o \in Outputs : Walked({<<d, c>>}, depths, known, links, stopped)[o] # depths[o] => o \in known
      <4> HIDE DEF known, stopped
      <4> QED BY <1>0, WalkedType
    <3> HIDE DEF known, stopped
    <3> QED
      BY <1>0, <3>1 DEF Visited
  <2>3. Keeps(arrived, walked)
    <3> HIDE DEF arrived, stopped, visited
    <3> QED BY <1>1, <2>2, AfterWalkKeeps
  <2>4. c \in known
    BY <1>1 DEF Known
  <2>5. cand \subseteq known
    <3> HIDE DEF arrived, stopped, walked, walk
    <3> QED BY <2>2, <2>4 DEF Candidates
  <2> HIDE DEF walk, stopped, visited, walked, cand, arrived
  <2>6. \A o \in known : walked[o] \in Record
    BY <2>3 DEF Keeps, Records, Known
  <2>7. \A o \in cand : /\ [walked[o] EXCEPT !.status = "pending"] \in Record
                        /\ SaysSpent([walked[o] EXCEPT !.status = "pending"]) => SaysSpent(walked[o])
    BY <2>5, <2>6, PendingType, NoneIsNoStatus DEF Statuses
  <2>8. Keeps(arrived, out')
    BY <2>1, <2>3, <2>5, <2>7, NoneIsNoRecord DEF Keeps, Records, Known
  <2>9. /\ Ready(walked, walk, cand) \subseteq Entries
        /\ \A e \in Ready(walked, walk, cand) : e[2] \in cand
    <3>1. \A o \in cand : ScopeDepth(o, walked, walk) \in Nat /\ o \in Outputs
      BY <2>2, <2>5, <2>6 DEF ScopeDepth, DepthMap, Record, Known
    <3> QED
      BY <3>1 DEF Ready, Entries
  <2>10. IsHeap(queue') /\ DOMAIN queue' = DOMAIN queue \cup Ready(walked, walk, cand)
    BY <1>0, <2>1, <2>9, PushType
  <2>11. \A e \in DOMAIN queue' : out'[e[2]] # None
    <3>1. \A e \in DOMAIN queue : e[2] \in Outputs /\ out[e[2]] # None
      BY <1>0 DEF IsHeap, Entries, TypeInv, QueueKnown
    <3> QED
      BY <1>1, <2>5, <2>8, <2>9, <2>10, <3>1 DEF Keeps, Known
  <2> QED
    BY <1>1, <2>1, <2>2, <2>4, <2>8, <2>10, <2>11 DEF Grows, Keeps
<1> QED
  BY <1>2, <1>3

-----------------------------------------------------------------------------
(* Initial state and steps                                                 *)

\* The groups of TypeOK a step can be checked by.
RunType ==
  /\ pc \in PCs /\ runs \in 0..MaxRuns
  /\ active \in BOOLEAN /\ stops \subseteq Addresses /\ hops \in Nat /\ budget \in Limits
  /\ only \in (SUBSET Outputs) \cup {None}
  /\ count \in Nat /\ fetched \in Nat /\ reason \in Reasons \cup {None}
EvidenceType ==
  /\ chain \in [Txs -> Seen] /\ data \in [Txs -> Seen]
  /\ gotTx \in [Txs -> Seen \cup {"none"}]
  /\ gotSpend \in [Txs -> [Outputs -> Seen] \cup {None}]
  /\ links \subseteq Outputs /\ children \subseteq Outputs
  /\ latest \in Saved \cup {None}
WorkType ==
  /\ out \in Records /\ IsHeap(queue) /\ depths \in DepthMap
  /\ current \in Outputs \cup {None}
  /\ pc \in {"fund", "classify", "spend", "child", "link", "add"} => current # None

LEMMA TypeGroups == TypeOK <=> RunType /\ EvidenceType /\ WorkType
  BY DEF TypeOK, RunType, EvidenceType, WorkType, Records, IsHeap, DepthMap

LEMMA InitInv == Init => TypeInv /\ ChildInv
<1> SUFFICES ASSUME Init PROVE TypeInv /\ ChildInv
  OBVIOUS
<1>1. RunType
  <2>1. /\ pc = "idle" /\ runs = 0 /\ active = FALSE /\ stops = {} /\ hops = 0 /\ budget = Unlimited
        /\ only = None /\ count = 0 /\ fetched = 0 /\ reason = None
    BY DEF Init
  <2>2. runs \in 0..MaxRuns
    BY <2>1, ChoicesType
  <2> QED
    BY <2>1, <2>2, ChoicesType DEF RunType, PCs
<1>2. EvidenceType
  BY DEF Init, EvidenceType, Seen
<1>3. WorkType
  BY DEF Init, WorkType, Records, IsHeap, DepthMap, EmptyQueue, NoDepths
<1>4. QueueKnown /\ CurrentKnown
  BY DEF Init, QueueKnown, CurrentKnown, EmptyQueue
<1>5. ChildInv
  BY DEF Init, ChildInv, LinksKept, AddingKept, SpentLinked, LatestKept, SaysSpent
<1> QED
  BY <1>1, <1>2, <1>3, <1>4, <1>5, TypeGroups DEF TypeInv

\* A response is what the chain showed when it was fetched.
LEMMA ResponseType ==
  ASSUME EvidenceType
  PROVE  /\ \A t \in Txs : TxResponse(t) \in Seen
         /\ \A t \in Txs : SpendResponse(t) \in [Outputs -> Seen]
         /\ SpendSeen \in [Outputs -> Seen]
<1>1. SpendSeen \in [Outputs -> Seen]
  BY TraceAssumption DEF TraceAssumption, SpendSeen, EvidenceType, Seen
<1> QED
  BY <1>1 DEF TxResponse, SpendResponse, EvidenceType

LEMMA StartStep ==
  ASSUME TypeInv, ChildInv, NEW h \in HopChoices, NEW rules \in StopChoices, NEW limits \in Budgets,
         Start(h, rules, limits)
  PROVE  TypeInv' /\ ChildInv'
<1>1. RunType /\ EvidenceType
  BY TypeGroups DEF TypeInv
<1>2. RunType'
  BY <1>1, ChoicesType DEF Start, RunType, PCs
<1>3. EvidenceType'
  BY <1>1 DEF Start, EvidenceType, Seen
<1>4. Arrived(None, 0) \in Record /\ ~SaysSpent(Arrived(None, 0)) /\ Arrived(None, 0) # None
  BY ArrivedType, NoneIsNoRecord DEF SaysSpent
<1>5. IsHeap(queue') /\ DOMAIN queue' = {0} \X Seeds
  <2>1. IsHeap(EmptyQueue) /\ DOMAIN EmptyQueue = {}
    BY DEF IsHeap, EmptyQueue
  <2>2. {0} \X Seeds \subseteq Entries
    BY TraceAssumption DEF TraceAssumption, Entries
  <2>3. queue' = Push(EmptyQueue, {0} \X Seeds)
    BY DEF Start
  <2>4. IsHeap(Push(EmptyQueue, {0} \X Seeds))
        /\ DOMAIN Push(EmptyQueue, {0} \X Seeds) = DOMAIN EmptyQueue \cup ({0} \X Seeds)
    BY <2>1, <2>2, PushType
  <2> QED
    BY <2>1, <2>3, <2>4
<1>6. WorkType'
  BY <1>4, <1>5 DEF Start, WorkType, Records, DepthMap
<1>7. QueueKnown' /\ CurrentKnown'
  BY <1>4, <1>5, TraceAssumption DEF TraceAssumption, Start, QueueKnown, CurrentKnown
<1>8. ChildInv'
  BY <1>4 DEF Start, ChildInv, LinksKept, AddingKept, SpentLinked, LatestKept, SaysSpent
<1> QED
  BY <1>2, <1>3, <1>6, <1>7, <1>8, TypeGroups DEF TypeInv, TypeOK, RunType, EvidenceType, WorkType, Records, IsHeap, DepthMap

\* What a continuation starts from.
LEMMA ContinueKeeps ==
  ASSUME TypeInv, ChildInv, NEW h \in HopChoices, NEW rules \in StopChoices, NEW limits \in Budgets,
         NEW selection \in OnlyChoices \cup {None}, Continue(h, rules, limits, selection)
  PROVE  /\ latest \in Saved /\ (InterruptInAdd \/ LatestKept)
         /\ Keeps(latest.out, out') /\ IsHeap(queue') /\ depths' \in DepthMap
         /\ active' \in BOOLEAN
         /\ \A e \in DOMAIN queue' : out'[e[2]] # None
<1> DEFINE known == Known(latest.out)
           on == rules # {} \/ \E o \in known : Held(latest.out, o)
           stopped == {o \in known : StopAddress(o, rules, latest.data)}
           walk == Walked({0} \X Seeds, NoDepths, known, latest.links, stopped)
           ds == IF on THEN walk ELSE NoDepths
           rs == IF on THEN ScopedOutputs(latest.out, ds, stopped) ELSE latest.out
           available == {o \in known : rs[o].status \notin Terminal}
           chosen == {o \in (IF selection = None THEN available ELSE selection) : ~Held(rs, o)}
<1>1. latest \in Saved /\ latest.out \in Records /\ (InterruptInAdd \/ LatestKept)
  BY DEF TypeInv, TypeOK, ChildInv, Continue, Saved, Records
<1>2. /\ selection # None => selection \subseteq available
      /\ active' = on /\ depths' = ds
      /\ out' = [o \in Outputs |-> IF o \in chosen THEN [rs[o] EXCEPT !.status = "pending"] ELSE rs[o]]
      /\ queue' = Push(EmptyQueue, Ready(rs, ds, chosen))
  BY DEF Continue
<1>3. walk \in DepthMap
  <2>1. NoDepths \in DepthMap
    BY DEF NoDepths, DepthMap
  <2> HIDE DEF known, stopped
  <2> QED
    BY <2>1, WalkedType
<1>4. ds \in DepthMap
  BY <1>3 DEF NoDepths, DepthMap
<1>5. Keeps(latest.out, rs)
  <2>1. Keeps(latest.out, latest.out)
    BY <1>1 DEF Keeps
  <2>2. Keeps(latest.out, ScopedOutputs(latest.out, ds, stopped))
    <3> HIDE DEF ds, stopped
    <3> QED BY <1>1, ScopedOutputsKeeps
  <2> QED
    BY <2>1, <2>2
<1> HIDE DEF on, walk, ds, rs, stopped
<1>6. chosen \subseteq known
  BY <1>2
<1>7. \A o \in known : rs[o] \in Record /\ o \in Outputs
  BY <1>5 DEF Keeps, Records, Known
<1> HIDE DEF known, available, chosen
<1>8. \A o \in chosen : /\ [rs[o] EXCEPT !.status = "pending"] \in Record
                        /\ SaysSpent([rs[o] EXCEPT !.status = "pending"]) => SaysSpent(rs[o])
  BY <1>6, <1>7, PendingType, NoneIsNoStatus DEF Statuses
<1>9. Keeps(rs, out')
  BY <1>2, <1>5, <1>6, <1>7, <1>8, NoneIsNoRecord DEF Keeps, Records
<1>10. Keeps(latest.out, out')
  BY <1>5, <1>9 DEF Keeps
<1>11. /\ Ready(rs, ds, chosen) \subseteq Entries
       /\ \A e \in Ready(rs, ds, chosen) : e[2] \in chosen
  <2>1. \A o \in chosen : ScopeDepth(o, rs, ds) \in Nat /\ o \in Outputs
    BY <1>4, <1>6, <1>7 DEF ScopeDepth, DepthMap, Record
  <2> QED
    BY <2>1 DEF Ready, Entries
<1>12. IsHeap(queue') /\ DOMAIN queue' = Ready(rs, ds, chosen)
  <2>1. IsHeap(EmptyQueue) /\ DOMAIN EmptyQueue = {}
    BY DEF IsHeap, EmptyQueue
  <2>2. IsHeap(queue') /\ DOMAIN queue' = DOMAIN EmptyQueue \cup Ready(rs, ds, chosen)
    BY <1>2, <1>11, <2>1, PushType
  <2> QED
    BY <2>1, <2>2
<1>13. \A e \in DOMAIN queue' : out'[e[2]] # None
  BY <1>6, <1>7, <1>9, <1>11, <1>12, NoneIsNoRecord DEF Keeps
<1> QED
  BY <1>1, <1>2, <1>4, <1>10, <1>12, <1>13 DEF on

LEMMA ContinueStep ==
  ASSUME TypeInv, ChildInv, NEW h \in HopChoices, NEW rules \in StopChoices, NEW limits \in Budgets,
         NEW selection \in OnlyChoices \cup {None}, Continue(h, rules, limits, selection)
  PROVE  TypeInv' /\ ChildInv'
<1>1. RunType /\ EvidenceType
  BY TypeGroups DEF TypeInv
<1>2. /\ latest \in Saved /\ (InterruptInAdd \/ LatestKept)
      /\ Keeps(latest.out, out') /\ IsHeap(queue') /\ depths' \in DepthMap
      /\ active' \in BOOLEAN
      /\ \A e \in DOMAIN queue' : out'[e[2]] # None
  BY ContinueKeeps
<1>3. /\ pc' = "loop" /\ runs' = runs + 1 /\ runs < MaxRuns /\ latest # None
      /\ stops' = rules /\ hops' = h /\ budget' = limits /\ only' = selection
      /\ links' = latest.links /\ data' = latest.data /\ latest' = latest /\ chain' = chain
      /\ current' = None /\ children' = {} /\ count' = 0 /\ fetched' = 0 /\ reason' = None
      /\ gotTx' = [t \in Txs |-> "none"] /\ gotSpend' = [t \in Txs |-> None]
  BY DEF Continue
<1>4. RunType'
  <2>1. runs' \in 0..MaxRuns
    BY <1>1, <1>3, ChoicesType DEF RunType
  <2> QED
    BY <1>2, <1>3, <2>1, ChoicesType DEF RunType, PCs
<1>5. EvidenceType'
  BY <1>1, <1>2, <1>3 DEF EvidenceType, Saved
<1>6. WorkType'
  BY <1>2, <1>3 DEF WorkType, Keeps
<1>7. QueueKnown' /\ CurrentKnown'
  BY <1>2, <1>3 DEF QueueKnown, CurrentKnown
<1>8. ChildInv'
  <2>1. Known(latest.out) \subseteq Known(out)'
    BY <1>2 DEF Keeps, Known
  <2>2. LatestKept => LinksKept' /\ AddingKept'
    BY <1>2, <1>3, <2>1 DEF LinksKept, AddingKept, LatestKept
  <2>3. LatestKept => SpentLinked' /\ LatestKept'
    BY <1>2, <1>3 DEF Keeps, SpentLinked, LatestKept
  <2> QED
    BY <1>2, <2>2, <2>3 DEF ChildInv
<1> QED
  BY <1>4, <1>5, <1>6, <1>7, <1>8 DEF TypeInv, TypeOK, RunType, EvidenceType, WorkType, Records, IsHeap, DepthMap

\* The steps of one examination.  Each leaves "out" a map of records in which
\* known outputs stay known, and changes one group of variables.
LEMMA PopStep ==
  ASSUME TypeInv, ChildInv, Pop
  PROVE  TypeInv' /\ ChildInv'
<1>1. RunType /\ EvidenceType /\ WorkType /\ QueueKnown /\ CurrentKnown
  BY TypeGroups DEF TypeInv
<1>2. PICK e \in DOMAIN queue :
        /\ queue' = Popped(queue, e)
        /\ \/ UNCHANGED <<pc, current, count>>
           \/ current' = e[2] /\ count' = count + 1 /\ pc' = "fund"
  BY DEF Pop
<1>3. /\ UNCHANGED <<chain, latest, runs, out, links, data, stops, hops, only, active, budget>>
      /\ UNCHANGED <<depths, children, fetched, gotTx, gotSpend, reason>>
      /\ pc = "loop"
  BY DEF Pop, saveVars, runVars, memoVars
<1>4. e[2] \in Outputs /\ out[e[2]] # None
  BY <1>1 DEF WorkType, IsHeap, Entries, QueueKnown
<1>5. IsHeap(queue') /\ DOMAIN queue' \subseteq DOMAIN queue
  BY <1>1, <1>2, PoppedType DEF WorkType
<1>6. RunType' /\ EvidenceType'
  BY <1>1, <1>2, <1>3 DEF RunType, EvidenceType, PCs
<1>7. WorkType'
  BY <1>1, <1>2, <1>3, <1>4, <1>5, TraceAssumption DEF TraceAssumption, WorkType
<1>8. QueueKnown' /\ CurrentKnown'
  BY <1>1, <1>2, <1>3, <1>4, <1>5 DEF QueueKnown, CurrentKnown
<1>9. ChildInv'
  BY <1>2, <1>3 DEF ChildInv, LinksKept, AddingKept, SpentLinked, LatestKept, Known
<1> QED
  BY <1>6, <1>7, <1>8, <1>9 DEF TypeInv, TypeOK, RunType, EvidenceType, WorkType, Records, IsHeap, DepthMap

LEMMA GetTxType ==
  ASSUME EvidenceType, NEW t, GetTx(t), fetched \in Nat
  PROVE  /\ data' \in [Txs -> Seen] /\ gotTx' \in [Txs -> Seen \cup {"none"}] /\ fetched' \in Nat
<1>1. \A x \in Txs : TxResponse(x) \in Seen
  BY ResponseType
<1>2. CASE data[t] = "confirmed"
  BY <1>2 DEF GetTx, EvidenceType
<1>3. CASE data[t] # "confirmed"
  <2>1. /\ gotTx' = [gotTx EXCEPT ![t] = TxResponse(t)]
        /\ data' = [data EXCEPT ![t] = TxResponse(t)]
        /\ fetched' = fetched \/ fetched' = fetched + 1
    BY <1>3 DEF GetTx
  <2>2. data \in [Txs -> Seen] /\ gotTx \in [Txs -> Seen \cup {"none"}]
    BY DEF EvidenceType
  <2>3. CASE t \in Txs
    BY <1>1, <2>1, <2>2, <2>3
  <2>4. CASE t \notin Txs
    <3>1. \A f, v : f = [x \in Txs |-> f[x]] => [f EXCEPT ![t] = v] = [x \in Txs |-> f[x]]
      BY <2>4, Zenon
    <3>2. data = [x \in Txs |-> data[x]] /\ gotTx = [x \in Txs |-> gotTx[x]]
      BY <2>2
    <3>3. data' = data /\ gotTx' = gotTx
      BY <2>1, <3>1, <3>2, Zenon
    <3>4. data' \in [Txs -> Seen] /\ gotTx' \in [Txs -> Seen \cup {"none"}]
      BY <2>2, <3>3
    <3>5. fetched' \in Nat
      BY <2>1
    <3> QED
      BY <3>4, <3>5
  <2> QED
    BY <2>3, <2>4
<1> QED
  BY <1>2, <1>3

\* Fund and FetchChild: a transaction is read and the examination moves on.
LEMMA GetTxStep ==
  ASSUME TypeInv, ChildInv, Fund \/ FetchChild
  PROVE  TypeInv' /\ ChildInv'
<1>1. RunType /\ EvidenceType /\ WorkType /\ QueueKnown /\ CurrentKnown
  BY TypeGroups DEF TypeInv
<1>2. PICK t : GetTx(t)
  BY DEF Fund, FetchChild
<1>3. /\ UNCHANGED <<chain, latest, runs, out, links, stops, hops, only, active, budget>>
      /\ UNCHANGED <<queue, depths, current, children, count, gotSpend, reason>>
      /\ pc \in {"fund", "child"} /\ pc' \in {"classify", "link"}
  BY DEF Fund, FetchChild, runVars
<1>4. data' \in [Txs -> Seen] /\ gotTx' \in [Txs -> Seen \cup {"none"}] /\ fetched' \in Nat
  BY <1>1, <1>2, GetTxType DEF RunType
<1>5. RunType' /\ EvidenceType' /\ WorkType'
  BY <1>1, <1>3, <1>4 DEF RunType, EvidenceType, WorkType, PCs
<1>6. QueueKnown' /\ CurrentKnown'
  BY <1>1, <1>3 DEF QueueKnown, CurrentKnown
<1>7. ChildInv'
  BY <1>3 DEF ChildInv, LinksKept, AddingKept, SpentLinked, LatestKept, Known
<1> QED
  BY <1>5, <1>6, <1>7 DEF TypeInv, TypeOK, RunType, EvidenceType, WorkType, Records, IsHeap, DepthMap

\* A verdict: one record takes a status other than "spent".
LEMMA ConcludeKeeps ==
  ASSUME TypeInv, current \in Outputs, out[current] # None,
         NEW r \in Record, SaysSpent(r) => SaysSpent(out[current]), Conclude(r)
  PROVE  Keeps(out, out') /\ current' = None /\ pc' = "loop"
<1>1. out \in Records /\ out' = [out EXCEPT ![current] = r] /\ current' = None /\ pc' = "loop"
  BY DEF TypeInv, TypeOK, Records, Conclude
<1> QED
  BY <1>1, NoneIsNoRecord DEF Keeps, Records

\* A step that keeps the outputs, the heap and the links preserves the invariant.
LEMMA KeepsInv ==
  ASSUME TypeInv, ChildInv, Keeps(out, out'), pc # "add", pc' # "add",
         RunType', EvidenceType', current' = None \/ current' = current,
         pc' \in {"fund", "classify", "spend", "child", "link", "add"} => current' # None,
         UNCHANGED <<links, latest, queue, depths>>
  PROVE  TypeInv' /\ ChildInv'
<1>1. WorkType /\ QueueKnown /\ CurrentKnown
  BY TypeGroups DEF TypeInv
<1>2. WorkType'
  BY <1>1 DEF WorkType, Keeps, IsHeap
<1>3. QueueKnown' /\ CurrentKnown'
  <2>1. \A e \in DOMAIN queue : e[2] \in Outputs
    BY <1>1 DEF WorkType, IsHeap, Entries
  <2> QED
    BY <1>1, <2>1 DEF QueueKnown, CurrentKnown, WorkType, Keeps
<1>4. Known(out)' = Known(out)
  BY DEF Keeps, Known
<1>5. ChildInv'
  <2>1. InterruptInAdd \/ (LinksKept' /\ AddingKept' /\ LatestKept')
    BY <1>4 DEF ChildInv, LinksKept, AddingKept, LatestKept
  <2>2. InterruptInAdd \/ SpentLinked'
    BY DEF ChildInv, SpentLinked, Keeps
  <2> QED
    BY <2>1, <2>2 DEF ChildInv
<1> QED
  BY <1>2, <1>3, <1>5 DEF TypeInv, TypeOK, RunType, EvidenceType, WorkType, Records, IsHeap, DepthMap

LEMMA ClassifyStep ==
  ASSUME TypeInv, ChildInv, Classify
  PROVE  TypeInv' /\ ChildInv'
<1>1. RunType /\ EvidenceType /\ WorkType /\ CurrentKnown
  BY TypeGroups DEF TypeInv
<1>2. /\ UNCHANGED <<chain, latest, runs, links, data, stops, hops, only, active, budget>>
      /\ UNCHANGED <<queue, depths, children, count, fetched, gotTx, gotSpend, reason>>
      /\ pc = "classify"
  BY DEF Classify, runVars, memoVars
<1>3. current \in Outputs /\ out[current] \in Record
  BY <1>1, <1>2 DEF WorkType, CurrentKnown, Records
<1> DEFINE with(s) == [out[current] EXCEPT !.status = s]
<1>4. \A s \in Statuses \ {"spent"} : with(s) \in Record /\ (SaysSpent(with(s)) => SaysSpent(out[current]))
  BY <1>3, PendingType
<1>5. /\ Marked(out[current]) \in Record
      /\ SaysSpent(Marked(out[current])) => SaysSpent(out[current])
  <2>1. Restored(out[current]) \in Record /\ (SaysSpent(Restored(out[current])) => SaysSpent(out[current]))
    BY <1>3, RestoredType, RestoredKeeps
  <2> QED
    BY <2>1, HoldForType, HoldForKeeps DEF Marked, Holds
<1>6. \/ KindOf[current] # "spendable" /\ Conclude(with(KindOf[current]))
      \/ Conclude(Marked(out[current]))
      \/ Conclude(with("unconfirmed_funding"))
      \/ Conclude(with("hop_limit"))
      \/ pc' = "spend" /\ UNCHANGED <<out, current>>
  BY DEF Classify
<1>7. KindOf[current] # "spendable" => KindOf[current] \in Statuses \ {"spent"}
  BY <1>3, TraceAssumption DEF TraceAssumption, Kinds, Statuses, Terminal
<1>8. "unconfirmed_funding" \in Statuses \ {"spent"} /\ "hop_limit" \in Statuses \ {"spent"}
  BY DEF Statuses
<1>9. \/ Keeps(out, out') /\ current' = None /\ pc' = "loop"
      \/ pc' = "spend" /\ UNCHANGED <<out, current>>
  <2> HIDE DEF with
  <2> QED
    BY <1>3, <1>4, <1>5, <1>6, <1>7, <1>8, ConcludeKeeps, NoneIsNoRecord
<1>10. Keeps(out, out')
  BY <1>1, <1>9 DEF Keeps, WorkType
<1>11. RunType' /\ EvidenceType'
  BY <1>1, <1>2, <1>9 DEF RunType, EvidenceType, PCs
<1>12. current # None
  BY <1>3, TraceAssumption DEF TraceAssumption
<1> QED
  BY <1>2, <1>9, <1>10, <1>11, <1>12, KeepsInv

LEMMA ReadSpendStep ==
  ASSUME TypeInv, ChildInv, ReadSpend
  PROVE  TypeInv' /\ ChildInv'
<1>1. RunType /\ EvidenceType /\ WorkType /\ CurrentKnown
  BY TypeGroups DEF TypeInv
<1>2. /\ UNCHANGED <<chain, latest, runs, links, data, stops, hops, only, active, budget>>
      /\ UNCHANGED <<queue, depths, children, count, fetched, gotTx, reason>>
      /\ pc = "spend"
  BY DEF ReadSpend, runVars
<1>3. current \in Outputs /\ out[current] \in Record /\ current # None
  BY <1>1, <1>2 DEF WorkType, CurrentKnown, Records
<1> DEFINE with(s) == [out[current] EXCEPT !.status = s]
<1>4. \A s \in Statuses \ {"spent"} : with(s) \in Record /\ (SaysSpent(with(s)) => SaysSpent(out[current]))
  BY <1>3, PendingType
<1>5. \/ Conclude(with("unspent_at_observation"))
      \/ Conclude(with("unconfirmed_spend"))
      \/ pc' = "child" /\ UNCHANGED <<out, current>>
  BY DEF ReadSpend
<1>6. "unspent_at_observation" \in Statuses \ {"spent"} /\ "unconfirmed_spend" \in Statuses \ {"spent"}
  BY DEF Statuses
<1>7. \/ Keeps(out, out') /\ current' = None /\ pc' = "loop"
      \/ pc' = "child" /\ UNCHANGED <<out, current>>
  <2> HIDE DEF with
  <2> QED
    BY <1>3, <1>4, <1>5, <1>6, ConcludeKeeps, NoneIsNoRecord
<1>8. Keeps(out, out')
  BY <1>1, <1>7 DEF Keeps, WorkType
<1>9. gotSpend' \in [Txs -> [Outputs -> Seen] \cup {None}]
  <2>1. gotSpend' = [gotSpend EXCEPT ![TxOf[current]] = SpendResponse(TxOf[current])]
    BY DEF ReadSpend
  <2>2. TxOf[current] \in Txs
    BY <1>3, TraceAssumption DEF TraceAssumption
  <2>3. SpendResponse(TxOf[current]) \in [Outputs -> Seen]
    BY <1>1, <2>2, ResponseType
  <2> QED
    BY <1>1, <2>1, <2>2, <2>3 DEF EvidenceType
<1>10. RunType' /\ EvidenceType'
  BY <1>1, <1>2, <1>7, <1>9 DEF RunType, EvidenceType, PCs
<1> QED
  BY <1>2, <1>3, <1>7, <1>8, <1>10, KeepsInv

\* Link: the one step that makes an output spent, with its link.
LEMMA LinkStep ==
  ASSUME TypeInv, ChildInv, Link
  PROVE  TypeInv' /\ ChildInv'
<1>1. RunType /\ EvidenceType /\ WorkType /\ QueueKnown /\ CurrentKnown
  BY TypeGroups DEF TypeInv
<1>2. /\ UNCHANGED <<chain, latest, runs, data, stops, hops, only, active, budget>>
      /\ UNCHANGED <<queue, depths, count, fetched, gotTx, gotSpend, reason>>
      /\ pc = "link"
  BY DEF Link, runVars, memoVars
<1>3. current \in Outputs /\ out[current] \in Record /\ current # None
  BY <1>1, <1>2 DEF WorkType, CurrentKnown, Records
<1> DEFINE with(s) == [out[current] EXCEPT !.status = s]
<1>4. CASE Conclude(with("unconfirmed_spend")) /\ UNCHANGED <<links, children>>
  <2>1. "unconfirmed_spend" \in Statuses \ {"spent"}
    BY DEF Statuses
  <2>2. with("unconfirmed_spend") \in Record
        /\ (SaysSpent(with("unconfirmed_spend")) => SaysSpent(out[current]))
    BY <1>3, <2>1, PendingType
  <2>3. Keeps(out, out') /\ current' = None /\ pc' = "loop"
    <3> HIDE DEF with
    <3> QED BY <1>3, <1>4, <2>2, ConcludeKeeps, NoneIsNoRecord
  <2>4. RunType' /\ EvidenceType'
    BY <1>1, <1>2, <1>4, <2>3 DEF RunType, EvidenceType, PCs
  <2> QED
    BY <1>2, <1>4, <2>3, <2>4, KeepsInv
<1>5. CASE /\ links' = links \cup {current}
           /\ out' = [out EXCEPT ![current].status = "spent"]
           /\ children' = OutputsOf(Spender[current])
           /\ pc' = "add" /\ UNCHANGED current
  <2>1. out' = [out EXCEPT ![current] = with("spent")]
    BY <1>5
  <2>2. with("spent") \in Record
    <3>1. "spent" \in Statuses /\ None \notin Statuses
      BY NoneIsNoStatus DEF Statuses, Terminal
    <3> QED
      BY <1>3, <3>1 DEF Record
  <2> HIDE DEF with
  <2>3. out' \in Records /\ \A o \in Outputs : out'[o] = None <=> out[o] = None
    BY <1>1, <1>3, <2>1, <2>2, NoneIsNoRecord DEF WorkType, Records
  <2>4. children' \subseteq Outputs
    BY <1>5 DEF OutputsOf
  <2>5. RunType' /\ EvidenceType'
    BY <1>1, <1>2, <1>3, <1>5, <2>4 DEF RunType, EvidenceType, PCs
  <2>6. WorkType'
    BY <1>1, <1>2, <1>3, <1>5, <2>3 DEF WorkType, IsHeap
  <2>7. QueueKnown' /\ CurrentKnown'
    <3>1. \A e \in DOMAIN queue : e[2] \in Outputs
      BY <1>1 DEF WorkType, IsHeap, Entries
    <3> QED
      BY <1>1, <1>2, <1>3, <1>5, <2>3, <3>1 DEF QueueKnown, CurrentKnown
  <2>8. ChildInv'
    <3>1. Known(out)' = Known(out)
      BY <2>3 DEF Known
    <3>2. InterruptInAdd \/ (LinksKept' /\ AddingKept' /\ LatestKept')
      BY <1>2, <1>5, <3>1 DEF ChildInv, LinksKept, AddingKept, LatestKept
    <3>3. \A o \in Outputs : o # current => out'[o] = out[o]
      BY <1>1, <2>1 DEF WorkType, Records
    <3>4. InterruptInAdd \/ SpentLinked'
      BY <1>5, <3>3 DEF ChildInv, SpentLinked, SaysSpent
    <3> QED
      BY <3>2, <3>4 DEF ChildInv
  <2> QED
    BY <2>5, <2>6, <2>7, <2>8 DEF TypeInv, TypeOK, RunType, EvidenceType, WorkType, Records, IsHeap, DepthMap
<1> QED
  BY <1>2, <1>4, <1>5 DEF Link

\* AddChild: the child becomes known, and the rest of the links keep theirs.
LEMMA AddChildStep ==
  ASSUME TypeInv, ChildInv, AddChild
  PROVE  TypeInv' /\ ChildInv'
<1>1. RunType /\ EvidenceType /\ WorkType /\ QueueKnown /\ CurrentKnown
  BY TypeGroups DEF TypeInv
<1>2. /\ UNCHANGED <<chain, latest, runs, pc, links, data, stops, hops, only, active, budget>>
      /\ UNCHANGED <<current, count, fetched, gotTx, gotSpend, reason>>
      /\ pc = "add"
  BY DEF AddChild, runVars, memoVars
<1>3. PICK c \in children : children' = children \ {c} /\ Add(c, ScopeDepth(current, out, depths) + 1)
  BY DEF AddChild
<1>4. current \in Outputs /\ out[current] \in Record /\ current # None
  BY <1>1, <1>2 DEF WorkType, CurrentKnown, Records
<1>5. ScopeDepth(current, out, depths) + 1 \in Nat
  BY <1>1, <1>4 DEF ScopeDepth, WorkType, DepthMap, Record
<1>6. c \in Outputs
  BY <1>1, <1>3 DEF EvidenceType
<1>7. Grows /\ out'[c] # None
  BY <1>3, <1>5, <1>6, AddKeeps
<1>8. RunType' /\ EvidenceType' /\ WorkType'
  BY <1>1, <1>2, <1>3, <1>7 DEF RunType, EvidenceType, WorkType, Grows
<1>9. QueueKnown' /\ CurrentKnown'
  BY <1>1, <1>2, <1>4, <1>7 DEF QueueKnown, CurrentKnown, Grows
<1>10. ChildInv'
  <2>1. Known(out) \cup {c} \subseteq Known(out)'
    BY <1>6, <1>7 DEF Grows, Known
  <2>2. InterruptInAdd \/ LinksKept'
    BY <1>2, <2>1 DEF ChildInv, LinksKept
  <2>3. InterruptInAdd \/ AddingKept'
    BY <1>2, <1>3, <2>1 DEF ChildInv, AddingKept
  <2>4. InterruptInAdd \/ (SpentLinked' /\ LatestKept')
    BY <1>2, <1>7 DEF ChildInv, SpentLinked, LatestKept, Grows
  <2> QED
    BY <2>2, <2>3, <2>4 DEF ChildInv
<1> QED
  BY <1>8, <1>9, <1>10 DEF TypeInv, TypeOK, RunType, EvidenceType, WorkType, Records, IsHeap, DepthMap

LEMMA AddedStep ==
  ASSUME TypeInv, ChildInv, Added
  PROVE  TypeInv' /\ ChildInv'
<1>1. RunType /\ EvidenceType /\ WorkType /\ QueueKnown /\ CurrentKnown
  BY TypeGroups DEF TypeInv
<1>2. /\ UNCHANGED <<chain, latest, runs, out, links, data, stops, hops, only, active, budget>>
      /\ UNCHANGED <<queue, depths, children, count, fetched, gotTx, gotSpend, reason>>
      /\ pc = "add" /\ children = {} /\ pc' = "loop" /\ current' = None
  BY DEF Added, saveVars, runVars, memoVars
<1>3. RunType' /\ EvidenceType' /\ WorkType'
  BY <1>1, <1>2 DEF RunType, EvidenceType, WorkType, PCs, IsHeap
<1>4. QueueKnown' /\ CurrentKnown'
  BY <1>1, <1>2 DEF QueueKnown, CurrentKnown
<1>5. InterruptInAdd \/ (LinksKept' /\ AddingKept')
  BY <1>2 DEF ChildInv, LinksKept, AddingKept, Known
<1>6. InterruptInAdd \/ (SpentLinked' /\ LatestKept')
  BY <1>2 DEF ChildInv, SpentLinked, LatestKept
<1>7. ChildInv'
  BY <1>5, <1>6 DEF ChildInv
<1> QED
  BY <1>3, <1>4, <1>7 DEF TypeInv, TypeOK, RunType, EvidenceType, WorkType, Records, IsHeap, DepthMap

LEMMA LookaheadStep ==
  ASSUME TypeInv, ChildInv, Lookahead
  PROVE  TypeInv' /\ ChildInv'
<1>1. RunType /\ EvidenceType /\ WorkType
  BY TypeGroups DEF TypeInv
<1>2. /\ UNCHANGED <<chain, latest, runs, pc, out, links, data, stops, hops, only, active, budget>>
      /\ UNCHANGED <<queue, depths, current, children, count, fetched, reason>>
      /\ pc = "loop"
  BY DEF Lookahead, saveVars, runVars, loopVars
<1>3. SpendSeen \in [Outputs -> Seen]
  BY <1>1, TraceAssumption DEF TraceAssumption, EvidenceType, SpendSeen, Seen
<1>4. gotTx' \in [Txs -> Seen \cup {"none"}] /\ gotSpend' \in [Txs -> [Outputs -> Seen] \cup {None}]
  <2>1. CASE FetchFunding
    <3>1. PICK o \in Window : gotTx' = [gotTx EXCEPT ![TxOf[o]] = chain[TxOf[o]]] /\ UNCHANGED gotSpend
      BY <2>1 DEF FetchFunding
    <3>2. TxOf[o] \in Txs
      BY TraceAssumption DEF TraceAssumption, Window, Known
    <3> QED
      BY <1>1, <3>1, <3>2 DEF EvidenceType
  <2>2. CASE FetchOutspends
    <3>1. PICK o \in Window : gotSpend' = [gotSpend EXCEPT ![TxOf[o]] = SpendSeen] /\ UNCHANGED gotTx
      BY <2>2 DEF FetchOutspends
    <3> QED
      BY <1>1, <1>3, <3>1 DEF EvidenceType
  <2>3. CASE FetchSpender
    <3>1. PICK o \in Window : /\ gotTx' = [gotTx EXCEPT ![Spender[o]] = chain[Spender[o]]] /\ UNCHANGED gotSpend
                              /\ gotSpend[TxOf[o]] # None /\ gotSpend[TxOf[o]][o] # "absent"
      BY <2>3 DEF FetchSpender
    <3>2. Spender[o] \in Txs \cup {NoTx} /\ o \in Outputs
      BY TraceAssumption DEF TraceAssumption, Window, Known
    <3>3. CASE Spender[o] \in Txs
      BY <1>1, <3>1, <3>3 DEF EvidenceType
    <3>4. CASE Spender[o] \notin Txs
      <4>1. \A f, v : f = [x \in Txs |-> f[x]] => [f EXCEPT ![Spender[o]] = v] = [x \in Txs |-> f[x]]
        BY <3>4, Zenon
      <4>2. gotTx = [x \in Txs |-> gotTx[x]]
        BY <1>1 DEF EvidenceType
      <4>3. gotTx' = gotTx
        BY <3>1, <4>1, <4>2, Zenon
      <4> QED
        BY <1>1, <3>1, <4>3 DEF EvidenceType
    <3> QED
      BY <3>3, <3>4
  <2> QED
    BY <2>1, <2>2, <2>3 DEF Lookahead
<1>5. RunType' /\ EvidenceType'
  BY <1>1, <1>2, <1>4 DEF RunType, EvidenceType
<1>6. Keeps(out, out')
  BY <1>1, <1>2 DEF Keeps, WorkType
<1> QED
  BY <1>2, <1>5, <1>6, KeepsInv

-----------------------------------------------------------------------------
(* The end of a run                                                        *)

LEMMA FinishStep ==
  ASSUME TypeInv, ChildInv, NEW why \in Reasons \cup {None}, Finish(why),
         pc # "add" \/ InterruptInAdd
  PROVE  TypeInv' /\ ChildInv'
<1>1. RunType /\ EvidenceType /\ WorkType /\ QueueKnown /\ CurrentKnown
  BY TypeGroups DEF TypeInv
<1>2. /\ UNCHANGED <<chain, latest, runs, links, data, stops, hops, only, active, budget>>
      /\ UNCHANGED <<queue, depths, count, fetched, gotTx, gotSpend>>
      /\ pc' = "finished" /\ current' = None /\ children' = {} /\ reason' = why
      /\ out' = [o \in Outputs |-> IF why # None /\ out[o] # None /\ out[o].status = "pending"
                                   THEN [out[o] EXCEPT !.status = why] ELSE out[o]]
  BY DEF Finish, runVars, memoVars
<1>3. Keeps(out, out')
  <2>1. Reasons \subseteq Statuses \ {"spent"}
    BY DEF Reasons, Statuses
  <2>2. \A o \in Outputs : why # None /\ out[o] # None
          => /\ [out[o] EXCEPT !.status = why] \in Record
             /\ SaysSpent([out[o] EXCEPT !.status = why]) => SaysSpent(out[o])
    BY <1>1, <2>1, PendingType DEF WorkType, Records
  <2> QED
    BY <1>1, <1>2, <2>2, NoneIsNoRecord DEF Keeps, WorkType, Records
<1>4. RunType' /\ EvidenceType'
  BY <1>1, <1>2 DEF RunType, EvidenceType, PCs
<1>5. WorkType'
  BY <1>1, <1>2, <1>3 DEF WorkType, Keeps, IsHeap
<1>6. QueueKnown' /\ CurrentKnown'
  <2>1. \A e \in DOMAIN queue : e[2] \in Outputs
    BY <1>1 DEF WorkType, IsHeap, Entries
  <2> QED
    BY <1>1, <1>2, <1>3, <2>1 DEF QueueKnown, CurrentKnown, Keeps
<1>7. ChildInv'
  <2>1. Known(out)' = Known(out)
    BY <1>3 DEF Keeps, Known
  <2>2. InterruptInAdd \/ (LinksKept' /\ AddingKept' /\ LatestKept')
    BY <1>2, <2>1 DEF ChildInv, LinksKept, AddingKept, LatestKept
  <2>3. InterruptInAdd \/ SpentLinked'
    BY <1>2, <1>3 DEF ChildInv, SpentLinked, Keeps
  <2> QED
    BY <2>2, <2>3 DEF ChildInv
<1> QED
  BY <1>4, <1>5, <1>6, <1>7 DEF TypeInv, TypeOK, RunType, EvidenceType, WorkType, Records, IsHeap, DepthMap

LEMMA EndStep ==
  ASSUME TypeInv, ChildInv, End \/ Stopped
  PROVE  TypeInv' /\ ChildInv'
<1>1. CASE End
  <2>1. PICK why \in Reasons \cup {None} : Finish(why) /\ pc # "add"
    BY <1>1 DEF End, BoundedComplete, OutpointLimit, TransactionLimited, Reasons
  <2> QED
    BY <2>1, FinishStep
<1>2. CASE Stopped
  <2>1. PICK why \in Failures : CanStopBy(why) /\ Finish(why)
    BY <1>2 DEF Stopped
  <2>2. why \in Reasons /\ (pc # "add" \/ InterruptInAdd)
    BY <2>1, TraceAssumption DEF TraceAssumption, CanStopBy
  <2> QED
    BY <2>1, <2>2, FinishStep
<1> QED
  BY <1>1, <1>2

\* Export and Kill: the memory of the run is gone; a seal keeps the children.
LEMMA GoneStep ==
  ASSUME TypeInv, ChildInv, Export \/ Kill
  PROVE  TypeInv' /\ ChildInv'
<1>1. RunType /\ EvidenceType /\ WorkType
  BY TypeGroups DEF TypeInv
<1>2. Gone /\ UNCHANGED <<chain, runs>>
  BY DEF Export, Kill
<1>3. \/ latest' = latest
      \/ pc = "finished" /\ latest' = [out |-> out, links |-> links, data |-> data, hops |-> hops]
  BY DEF Export, Kill
<1>4. latest' \in Saved \cup {None}
  BY <1>1, <1>3 DEF EvidenceType, WorkType, RunType, Saved, Records
<1>5. RunType'
  BY <1>1, <1>2, ChoicesType DEF Gone, RunType, PCs
<1>6. EvidenceType'
  BY <1>1, <1>2, <1>4 DEF Gone, EvidenceType, Seen
<1>7. WorkType' /\ QueueKnown' /\ CurrentKnown'
  BY <1>2 DEF Gone, WorkType, Records, IsHeap, DepthMap, NoDepths, EmptyQueue, QueueKnown, CurrentKnown
<1>8. ChildInv'
  <2>1. LinksKept' /\ AddingKept' /\ SpentLinked'
    BY <1>2 DEF Gone, LinksKept, AddingKept, SpentLinked, SaysSpent
  <2>2. InterruptInAdd \/ LatestKept'
    BY <1>3 DEF ChildInv, LatestKept, LinksKept, SpentLinked
  <2> QED
    BY <2>1, <2>2 DEF ChildInv
<1> QED
  BY <1>5, <1>6, <1>7, <1>8 DEF TypeInv, TypeOK, RunType, EvidenceType, WorkType, Records, IsHeap, DepthMap

LEMMA ChainStep ==
  ASSUME TypeInv, ChildInv, ChainGrows
  PROVE  TypeInv' /\ ChildInv'
<1>1. RunType /\ EvidenceType /\ WorkType /\ QueueKnown /\ CurrentKnown
  BY TypeGroups DEF TypeInv
<1>2. /\ UNCHANGED <<latest, runs, pc, out, links, data, stops, hops, only, active, budget, queue, depths>>
      /\ UNCHANGED <<current, children, count, fetched, reason, gotTx, gotSpend>>
      /\ chain' \in [Txs -> Seen]
  <2>1. PICK t \in Txs : chain' = [chain EXCEPT ![t] = "mempool"] \/ chain' = [chain EXCEPT ![t] = "confirmed"]
    BY DEF ChainGrows
  <2> QED
    BY <1>1, <2>1 DEF ChainGrows, EvidenceType, Seen, saveVars, runVars, loopVars, memoVars
<1>3. RunType' /\ EvidenceType' /\ WorkType' /\ QueueKnown' /\ CurrentKnown'
  BY <1>1, <1>2 DEF RunType, EvidenceType, WorkType, QueueKnown, CurrentKnown, IsHeap
<1>4. ChildInv'
  BY <1>2 DEF ChildInv, LinksKept, AddingKept, SpentLinked, LatestKept, Known
<1> QED
  BY <1>3, <1>4 DEF TypeInv, TypeOK, RunType, EvidenceType, WorkType, Records, IsHeap, DepthMap

LEMMA StutterStep ==
  ASSUME TypeInv, ChildInv, UNCHANGED vars
  PROVE  TypeInv' /\ ChildInv'
<1>1. /\ UNCHANGED <<chain, latest, runs, pc, out, links, data, stops, hops, only, active, budget, queue, depths>>
      /\ UNCHANGED <<current, children, count, fetched, reason, gotTx, gotSpend>>
  BY DEF vars, saveVars, runVars, loopVars, memoVars
<1>2. TypeInv'
  BY <1>1 DEF TypeInv, TypeOK, QueueKnown, CurrentKnown
<1>3. ChildInv'
  BY <1>1 DEF ChildInv, LinksKept, AddingKept, SpentLinked, LatestKept, Known
<1> QED
  BY <1>2, <1>3

-----------------------------------------------------------------------------
(* The theorems                                                            *)

LEMMA Invariant == Spec => [](TypeInv /\ ChildInv)
<1>1. Init => TypeInv /\ ChildInv
  BY InitInv
<1>2. TypeInv /\ ChildInv /\ [Next]_vars => TypeInv' /\ ChildInv'
  <2> SUFFICES ASSUME TypeInv, ChildInv, [Next]_vars
               PROVE  TypeInv' /\ ChildInv'
    OBVIOUS
  <2>1. CASE Begin
    <3>1. \E h \in HopChoices, rules \in StopChoices, limits \in Budgets :
            \/ Start(h, rules, limits)
            \/ \E selection \in OnlyChoices \cup {None} : Continue(h, rules, limits, selection)
      BY <2>1 DEF Begin
    <3> QED
      BY <3>1, StartStep, ContinueStep
  <2>2. CASE Examine
    BY <2>2, PopStep, GetTxStep, ClassifyStep, ReadSpendStep, LinkStep, AddChildStep, AddedStep DEF Examine
  <2>3. CASE Lookahead
    BY <2>3, LookaheadStep
  <2>4. CASE End \/ Stopped
    BY <2>4, EndStep
  <2>5. CASE Export \/ Kill
    BY <2>5, GoneStep
  <2>6. CASE ChainGrows
    BY <2>6, ChainStep
  <2>7. CASE UNCHANGED vars
    BY <2>7, StutterStep
  <2> QED
    BY <2>1, <2>2, <2>3, <2>4, <2>5, <2>6, <2>7 DEF Next
<1> QED
  BY <1>1, <1>2, PTL DEF Spec

\* Every variable keeps its type whatever the chain, the rules, the limits and
\* the failures are: what is popped, examined or queued is a known output.
THEOREM TypeCorrect == Spec => []TypeOK
<1>1. TypeInv => TypeOK
  BY DEF TypeInv
<1> QED
  BY <1>1, Invariant, PTL

\* Unless an interrupt lands between two of the children of one transaction, no
\* finished run forgets an output of a transaction that spends a followed one:
\* trace() makes every child a candidate before it looks at any budget again.
THEOREM ChildrenKept ==
  ASSUME InterruptInAdd = FALSE
  PROVE  Spec => []EveryChildIsCandidate
<1>1. TypeInv /\ ChildInv => EveryChildIsCandidate
  <2> SUFFICES ASSUME TypeInv, ChildInv, Finished,
                      NEW o \in Known(out), out[o].status = "spent"
               PROVE  OutputsOf(Spender[o]) \subseteq Known(out)
    BY DEF EveryChildIsCandidate
  <2>1. pc = "finished"
    BY DEF Finished
  <2>2. LinksKept /\ SpentLinked
    BY DEF ChildInv
  <2>3. o \in Outputs /\ SaysSpent(out[o])
    BY DEF Known, SaysSpent
  <2>4. o \in links
    BY <2>2, <2>3 DEF SpentLinked
  <2> QED
    BY <2>1, <2>2, <2>4 DEF LinksKept
<1> QED
  BY <1>1, Invariant, PTL
-----------------------------------------------------------------------------
(* No work is forgotten                                                    *)

\* What of a run the property needs: every output that no rule holds is waiting
\* or settled, nothing is under examination between two outputs, an inactive
\* scope has no depths, and a verdict rests on a response of this run.
Examined ==
  pc \notin {"idle", "finished"} /\ only = None =>
    \A o \in Known(out) : Held(out, o) \/ out[o].status = "pending" \/ Answered(o)
Resting == pc \in {"idle", "loop", "finished"} => current = None
Unscoped == ~active => depths = NoDepths
Responded ==
  /\ pc = "classify" => data[TxOf[current]] = "confirmed" \/ gotTx[TxOf[current]] # "none"
  /\ pc \in {"child", "link"} => gotSpend[TxOf[current]] # None
WorkInv == WorkIsKept /\ Examined /\ Resting /\ Unscoped /\ Responded

\* Responses are kept for the whole run.
Remembers ==
  /\ \A t \in Txs : gotTx[t] # "none" => gotTx'[t] # "none"
  /\ \A t \in Txs : gotSpend[t] # None => gotSpend'[t] # None

LEMMA AnsweredStays ==
  ASSUME NEW o \in Outputs, Answered(o), out'[o] = out[o], depths'[o] = depths[o], hops' = hops, Remembers
  PROVE  Answered(o)'
<1>1. TxOf[o] \in Txs
  BY TraceAssumption DEF TraceAssumption
<1> QED
  BY <1>1 DEF Answered, Remembers, ScopeDepth

LEMMA PendingIsNoVerdict ==
  /\ "pending" \notin Terminal \cup Holds \cup Reasons
  /\ "spent" \in Terminal /\ "pending" \notin Kinds
  BY DEF Terminal, Holds, Reasons, Kinds

LEMMA GetTxRemembers ==
  ASSUME EvidenceType, NEW t, GetTx(t), UNCHANGED gotSpend
  PROVE  Remembers
<1>1. \A x \in Txs : TxResponse(x) \in Seen
  BY ResponseType
<1>2. gotTx' = gotTx \/ gotTx' = [gotTx EXCEPT ![t] = TxResponse(t)]
  BY DEF GetTx
<1>3. gotTx \in [Txs -> Seen \cup {"none"}]
  BY DEF EvidenceType
<1>4. ASSUME NEW x \in Txs, gotTx[x] # "none" PROVE gotTx'[x] # "none"
  <2>1. CASE gotTx' = gotTx
    BY <1>4, <2>1
  <2>2. CASE gotTx' = [gotTx EXCEPT ![t] = TxResponse(t)]
    <3>1. x = t => gotTx'[x] = TxResponse(x)
      BY <1>3, <2>2
    <3>2. x # t => gotTx'[x] = gotTx[x]
      BY <1>3, <2>2
    <3> QED
      BY <1>1, <1>4, <3>1, <3>2 DEF Seen
  <2> QED
    BY <1>2, <2>1, <2>2
<1> QED
  BY <1>4 DEF Remembers

\* What add() does to one output: it waits in the heap, a stop holds it, it cannot
\* be followed, or it is as it was.
LEMMA AddEffect ==
  ASSUME TypeInv, Unscoped, NEW c \in Outputs, NEW d \in Nat, Add(c, d)
  PROVE  /\ DOMAIN queue \subseteq DOMAIN queue'
         /\ \A o \in Known(out') :
              \/ out'[o].status = "pending" /\ <<ScopeDepth(o, out', depths'), o>> \in DOMAIN queue'
              \/ Held(out', o)
              \/ out'[o].status \in Terminal
              \/ out'[o] = out[o] /\ depths'[o] = depths[o]
<1> DEFINE arrived == [out EXCEPT ![c] = Arrived(out[c], d)]
<1>0. out \in Records /\ IsHeap(queue) /\ depths \in DepthMap
  BY DEF TypeInv, TypeOK, Records, IsHeap, DepthMap
<1>1. /\ arrived[c] = Arrived(out[c], d)
      /\ \A o \in Outputs : o # c => arrived[o] = out[o]
  BY <1>0 DEF Records
<1>2. (Arrived(out[c], d).status = "pending" /\ Arrived(out[c], d).depth = d) \/ Arrived(out[c], d) = out[c]
  <2>1. out[c] \in Record \cup {None}
    BY <1>0 DEF Records
  <2> QED
    BY <2>1, NoneIsNoRecord DEF Arrived, Record
<1>3. CASE ~active
  <2>1. /\ out' = arrived /\ depths' = depths /\ depths = NoDepths
        /\ queue' = IF arrived[c].status = "pending" THEN Push(queue, {<<d, c>>}) ELSE queue
    BY <1>3 DEF Add, AddPlain, Unscoped
  <2>2. {<<d, c>>} \subseteq Entries
    BY DEF Entries
  <2>3. DOMAIN Push(queue, {<<d, c>>}) = DOMAIN queue \cup {<<d, c>>}
    BY <1>0, <2>2, PushType
  <2>4. out'[c] = out[c] \/ (out'[c].status = "pending" /\ <<ScopeDepth(c, out', depths'), c>> \in DOMAIN queue')
    <3>1. CASE Arrived(out[c], d).status = "pending" /\ Arrived(out[c], d).depth = d
      BY <1>1, <2>1, <2>3, <3>1 DEF ScopeDepth, NoDepths
    <3>2. CASE Arrived(out[c], d) = out[c]
      <4> HIDE DEF arrived
      <4> QED BY <1>1, <2>1, <3>2
    <3> QED
      BY <1>2, <3>1, <3>2
  <2> HIDE DEF arrived
  <2> QED
    BY <1>1, <2>1, <2>3, <2>4 DEF Known
<1>4. CASE active
  <2> DEFINE known == Known(arrived)
             stopped == {o \in known : StopAddress(o, stops, data)}
             walk == IF depths[c] # None /\ depths[c] <= d THEN depths
                     ELSE Walked({<<d, c>>}, depths, known, links, stopped)
             visited == Visited(depths, walk)
             walked == AfterWalk(arrived, visited, stopped)
             cand == Candidates(visited \ stopped, walked, c, out[c] = None)
  <2>1. /\ out' = [o \in Outputs |-> IF o \in cand THEN [walked[o] EXCEPT !.status = "pending"]
                                     ELSE walked[o]]
        /\ queue' = Push(queue, Ready(walked, walk, cand))
        /\ depths' = walk
    BY <1>4, AddScopedDoes DEF Add, ScopedResult
  <2>2. /\ walk \in DepthMap
        /\ visited \subseteq known
    <3>1. /\ Walked({<<d, c>>}, depths, known, links, stopped) \in DepthMap
          /\ \A o \in Outputs : Walked({<<d, c>>}, depths, known, links, stopped)[o] # depths[o] => o \in known
      <4> HIDE DEF known, stopped
      <4> QED BY <1>0, WalkedType
    <3> HIDE DEF known, stopped
    <3> QED
      BY <1>0, <3>1 DEF Visited
  <2>3. arrived \in Records /\ c \in known
    <3>1. out[c] \in Record \cup {None}
      BY <1>0 DEF Records
    <3>2. Arrived(out[c], d) \in Record
      BY <3>1, ArrivedType
    <3> QED
      BY <1>0, <3>2, NoneIsNoRecord DEF Records, Known
  <2>4. Keeps(arrived, walked)
    <3> HIDE DEF arrived, stopped, visited
    <3> QED BY <2>2, <2>3, AfterWalkKeeps
  <2>5. \A o \in Outputs : o \notin visited => walk[o] = depths[o] /\ walked[o] = arrived[o]
    BY DEF Visited, AfterWalk
  <2>6. \A o \in Outputs : o \in visited /\ o \in stopped => Held(walked, o)
    <3>1. \A o \in Outputs : o \in visited /\ o \in stopped
             => walked[o] = HoldFor(Restored(arrived[o]), "suspected_service_stop")
      BY DEF AfterWalk
    <3>2. \A o \in visited : Restored(arrived[o]) \in Record
      <4> HIDE DEF arrived, visited
      <4> QED
        BY <2>2, <2>3, RestoredType DEF known, Known, Records
    <3>3. \A r \in Record : HoldFor(r, "suspected_service_stop").hold # None
      BY TraceAssumption DEF TraceAssumption, HoldFor, Record, Statuses, Holds
    <3> HIDE DEF arrived, visited, stopped, walked
    <3> QED
      BY <3>1, <3>2, <3>3 DEF Held
  <2>7. cand = {o \in (visited \ stopped) \cup (IF out[c] = None \/ walked[c].status = "pending" THEN {c} ELSE {}) :
                  ~Held(walked, o) /\ walked[o].status \notin Terminal}
    BY DEF Candidates
  <2>8. cand \subseteq known
    <3> HIDE DEF arrived, stopped, walked, visited, cand
    <3> QED BY <2>2, <2>3, <2>7
  <2> HIDE DEF walk, stopped, visited, walked, cand, arrived
  <2>9. \A o \in known : walked[o] \in Record
    BY <2>4 DEF Keeps, Records, Known
  <2>10. \A o \in cand : ScopeDepth(o, walked, walk) \in Nat /\ o \in Outputs
    BY <2>2, <2>8, <2>9 DEF ScopeDepth, DepthMap, Record, Known
  <2>11. DOMAIN queue' = DOMAIN queue \cup Ready(walked, walk, cand)
    <3>1. Ready(walked, walk, cand) \subseteq Entries
      BY <2>10 DEF Ready, Entries
    <3> QED
      BY <1>0, <2>1, <3>1, PushType
  <2>12. ASSUME NEW o \in cand
         PROVE  out'[o].status = "pending" /\ <<ScopeDepth(o, out', depths'), o>> \in DOMAIN queue'
    <3>1. walked[o] \in Record /\ o \in Outputs
      BY <2>8, <2>9, <2>10
    <3>2. out'[o] = [walked[o] EXCEPT !.status = "pending"]
      BY <2>1, <3>1
    <3>3. out'[o].status = "pending" /\ out'[o].depth = walked[o].depth
      BY <3>1, <3>2 DEF Record
    <3>4. ScopeDepth(o, out', depths') = ScopeDepth(o, walked, walk)
      BY <2>1, <3>3 DEF ScopeDepth
    <3>5. <<ScopeDepth(o, walked, walk), o>> \in Ready(walked, walk, cand)
      BY DEF Ready
    <3> QED
      BY <2>11, <3>3, <3>4, <3>5
  <2>13. ASSUME NEW o \in Known(out'), o \notin cand
         PROVE  \/ Held(out', o) \/ out'[o].status \in Terminal
                \/ out'[o] = out[o] /\ depths'[o] = depths[o]
    <3>1. out'[o] = walked[o] /\ o \in Outputs
      BY <2>1, <2>13 DEF Known
    <3>2. CASE o \in visited
      BY <2>6, <2>7, <2>13, <3>1, <3>2 DEF Held
    <3>3. CASE o \notin visited
      <4>1. walked[o] = arrived[o] /\ depths'[o] = depths[o]
        BY <2>1, <2>5, <3>1, <3>3
      <4>2. CASE o # c
        BY <1>1, <3>1, <4>1, <4>2
      <4>3. CASE o = c /\ Arrived(out[c], d) = out[c]
        BY <1>1, <3>1, <4>1, <4>3
      <4>4. CASE o = c /\ Arrived(out[c], d).status = "pending"
        BY <1>1, <2>7, <2>13, <3>1, <4>1, <4>4 DEF Held
      <4> QED
        BY <1>2, <4>2, <4>3, <4>4
    <3> QED
      BY <3>2, <3>3
  <2> QED
    BY <2>11, <2>12, <2>13
<1> QED
  BY <1>3, <1>4

\* A record that is no longer waiting ends the examination.
LEMMA ConcludeWork ==
  ASSUME TypeInv, WorkInv, pc \in {"classify", "spend", "link"},
         NEW r \in Record, NEW x \in Outputs, x = current, Conclude(r),
         UNCHANGED <<latest, hops, only, active, queue, depths>>, Remembers,
         r.status # "pending" \/ r.hold # None,
         r.hold # None \/ Answered(x)'
  PROVE  WorkInv'
<1>1. current \in Outputs /\ out \in Records /\ out[current] # None
  BY DEF TypeInv, TypeOK, CurrentKnown, Records
<1>2. out' = [out EXCEPT ![current] = r] /\ current' = None /\ pc' = "loop"
  BY DEF Conclude
<1>3. out'[current] = r /\ \A o \in Outputs : o # current => out'[o] = out[o]
  BY <1>1, <1>2 DEF Records
<1>4. PendingIsQueued'
  <2> SUFFICES ASSUME NEW o \in Known(out'), out'[o].status = "pending", ~Held(out', o)
               PROVE  <<ScopeDepth(o, out', depths'), o>> \in DOMAIN queue \/ o \in SetAside'
    BY DEF PendingIsQueued
  <2>1. o \in Outputs /\ o # current /\ out'[o] = out[o]
    BY <1>3 DEF Known, Held
  <2>2. <<ScopeDepth(o, out, depths), o>> \in DOMAIN queue \/ o \in SetAside
    BY <2>1 DEF WorkInv, WorkIsKept, PendingIsQueued, Known, Held
  <2> QED
    BY <2>1, <2>2 DEF ScopeDepth, SetAside
<1>5. Examined'
  <2> SUFFICES ASSUME only = None, NEW o \in Known(out')
               PROVE  Held(out', o) \/ out'[o].status = "pending" \/ Answered(o)'
    BY DEF Examined
  <2>1. CASE o = current
    BY <1>3, <2>1 DEF Held
  <2>2. CASE o # current
    <3>1. o \in Outputs /\ out'[o] = out[o] /\ o \in Known(out)
      BY <1>3, <2>2 DEF Known
    <3>2. Held(out, o) \/ out[o].status = "pending" \/ Answered(o)
      BY <3>1 DEF WorkInv, Examined
    <3> QED
      BY <3>1, <3>2, AnsweredStays DEF Held
  <2> QED
    BY <2>1, <2>2
<1>6. NonePending' /\ CompleteIsExamined' /\ Resting' /\ Unscoped' /\ Responded'
  BY <1>2 DEF NonePending, CompleteIsExamined, Complete, Finished, Resting, Unscoped, Responded, WorkInv
<1> QED
  BY <1>4, <1>5, <1>6 DEF WorkInv, WorkIsKept

\* A step of a run that changes no output keeps what waits and what is settled.
LEMMA SameOutputs ==
  ASSUME WorkInv, pc \notin {"idle", "finished"}, pc' \notin {"idle", "finished"},
         UNCHANGED <<out, depths, latest, only, hops, active>>, Remembers,
         \A o \in Known(out) :
            /\ out[o].status = "pending" /\ ~Held(out, o) /\ (o # current' \/ pc' = "add")
            /\ <<ScopeDepth(o, out, depths), o>> \in DOMAIN queue
            => <<ScopeDepth(o, out, depths), o>> \in DOMAIN queue',
         pc' = "add" => pc = "add", pc # "add" => current' = current \/ current = None
  PROVE  PendingIsQueued' /\ Examined' /\ NonePending' /\ CompleteIsExamined' /\ Unscoped'
<1>1. PendingIsQueued'
  <2> SUFFICES ASSUME NEW o \in Known(out), out[o].status = "pending", ~Held(out, o), o # current' \/ pc' = "add"
               PROVE  <<ScopeDepth(o, out, depths), o>> \in DOMAIN queue' \/ o \in SetAside
    BY DEF PendingIsQueued, SetAside, ScopeDepth, Held, Known
  <2>1. o \in Outputs /\ o # None
    BY TraceAssumption DEF TraceAssumption, Known
  <2>2. o # current \/ pc = "add"
    BY <2>1
  <2> QED
    BY <2>2 DEF WorkInv, WorkIsKept, PendingIsQueued
<1>2. Examined'
  <2> SUFFICES ASSUME only = None, NEW o \in Known(out)
               PROVE  Held(out, o) \/ out[o].status = "pending" \/ Answered(o)'
    BY DEF Examined, Known, Held
  <2> QED
    BY AnsweredStays DEF WorkInv, Examined, Known
<1> QED
  BY <1>1, <1>2 DEF NonePending, CompleteIsExamined, Complete, Finished, Unscoped, WorkInv

\* Every other step of an examination.
LEMMA FundWork ==
  ASSUME TypeInv, WorkInv, Fund \/ FetchChild
  PROVE  WorkInv'
<1>1. PICK t : GetTx(t) /\ (pc = "fund" => t = TxOf[current])
  BY DEF Fund, FetchChild
<1>2. /\ UNCHANGED <<out, depths, latest, only, hops, active, queue, current, gotSpend>>
      /\ (pc = "fund" /\ pc' = "classify") \/ (pc = "child" /\ pc' = "link")
  BY DEF Fund, FetchChild, runVars
<1>3. Remembers
  BY <1>1, <1>2, GetTxRemembers, TypeGroups DEF TypeInv
<1>4. PendingIsQueued' /\ Examined' /\ NonePending' /\ CompleteIsExamined' /\ Unscoped'
  BY <1>2, <1>3, SameOutputs
<1>5. Resting'
  BY <1>2 DEF Resting
<1>6. Responded'
  <2>1. CASE pc = "child"
    BY <1>2, <2>1 DEF Responded, WorkInv
  <2>2. CASE pc = "fund"
    <3>1. TxOf[current] \in Txs /\ EvidenceType
      BY <2>2, TypeGroups, TraceAssumption DEF TraceAssumption, TypeInv, WorkType
    <3>2. TxResponse(TxOf[current]) # "none"
      BY <3>1, ResponseType DEF Seen
    <3> QED
      BY <1>1, <1>2, <2>2, <3>1, <3>2 DEF Responded, GetTx, EvidenceType
  <2> QED
    BY <1>2, <2>1, <2>2
<1> QED
  BY <1>4, <1>5, <1>6 DEF WorkInv, WorkIsKept

LEMMA PopWork ==
  ASSUME TypeInv, WorkInv, Pop
  PROVE  WorkInv'
<1>1. PICK e \in DOMAIN queue :
        /\ queue' = Popped(queue, e)
        /\ \/ /\ e[1] # ScopeDepth(e[2], out, depths) \/ out[e[2]].status # "pending" \/ Held(out, e[2])
              /\ UNCHANGED <<pc, current, count>>
           \/ current' = e[2] /\ pc' = "fund"
  BY DEF Pop
<1>2. /\ UNCHANGED <<out, depths, latest, only, hops, active, gotTx, gotSpend>>
      /\ pc = "loop" /\ current = None
  BY DEF Pop, saveVars, runVars, memoVars, WorkInv, Resting
<1>3. \A f \in DOMAIN queue : f # e => f \in DOMAIN queue'
  BY <1>1 DEF Popped
<1>4. \A o \in Known(out) :
            /\ out[o].status = "pending" /\ ~Held(out, o) /\ (o # current' \/ pc' = "add")
            /\ <<ScopeDepth(o, out, depths), o>> \in DOMAIN queue
            => <<ScopeDepth(o, out, depths), o>> \in DOMAIN queue'
  BY <1>1, <1>2, <1>3
<1>5. Remembers
  BY <1>2 DEF Remembers
<1>6. PendingIsQueued' /\ Examined' /\ NonePending' /\ CompleteIsExamined' /\ Unscoped'
  <2>1. pc' \in {"loop", "fund"}
    BY <1>1, <1>2
  <2> QED
    BY <1>2, <1>4, <1>5, <2>1, SameOutputs
<1>7. Resting' /\ Responded'
  BY <1>1, <1>2 DEF Resting, Responded
<1> QED
  BY <1>6, <1>7 DEF WorkInv, WorkIsKept

LEMMA ClassifyWork ==
  ASSUME TypeInv, WorkInv, Classify
  PROVE  WorkInv'
<1>1. /\ UNCHANGED <<depths, latest, only, hops, active, queue, data, gotTx, gotSpend>> /\ pc = "classify"
      /\ Remembers
  BY DEF Classify, runVars, memoVars, Remembers
<1>2. current \in Outputs /\ out[current] \in Record /\ current # None
  BY <1>1, TypeGroups DEF TypeInv, WorkType, CurrentKnown, Records
<1> DEFINE o == current
           with(s) == [out[o] EXCEPT !.status = s]
<1>3. \A s \in Statuses : with(s).status = s /\ with(s).depth = out[o].depth
  BY <1>2 DEF Record
<1>4. \/ KindOf[o] # "spendable" /\ Conclude(with(KindOf[o]))
      \/ Conclude(Marked(out[o]))
      \/ data[TxOf[o]] # "confirmed" /\ Conclude(with("unconfirmed_funding"))
      \/ ScopeDepth(o, out, depths) >= hops /\ Conclude(with("hop_limit"))
      \/ pc' = "spend" /\ UNCHANGED <<out, current>>
  BY DEF Classify
<1>5. PICK x \in Outputs : x = current
  BY <1>2
<1>6. \A r : Conclude(r) => out'[x] = r
  BY <1>5, TypeGroups DEF TypeInv, WorkType, Records, Conclude
<1>7. CASE KindOf[o] # "spendable" /\ Conclude(with(KindOf[o]))
  <2>1. KindOf[o] \in Terminal /\ KindOf[o] \in Statuses \ {"spent"}
    BY <1>2, <1>7, TraceAssumption DEF TraceAssumption, Kinds, Terminal, Statuses
  <2>2. with(KindOf[o]) \in Record /\ with(KindOf[o]).status = KindOf[o]
    BY <1>2, <1>3, <2>1, PendingType
  <2>3. Answered(x)' /\ with(KindOf[o]).status # "pending"
    BY <1>6, <1>7, <2>1, <2>2, PendingIsNoVerdict DEF Answered
  <2> HIDE DEF with
  <2> QED
    BY <1>1, <1>5, <1>7, <2>2, <2>3, ConcludeWork
<1>8. CASE Conclude(Marked(out[o]))
  <2>1. Restored(out[o]) \in Record
    BY <1>2, RestoredType
  <2>2. Marked(out[o]) \in Record
    BY <2>1, HoldForType DEF Marked, Holds
  <2>3. Marked(out[o]).hold # None
    BY <2>1, TraceAssumption DEF TraceAssumption, Marked, HoldFor, Record, Statuses, Holds
  <2> QED
    BY <1>1, <1>5, <1>8, <2>2, <2>3, ConcludeWork
<1>9. CASE data[TxOf[o]] # "confirmed" /\ Conclude(with("unconfirmed_funding"))
  <2>1. "unconfirmed_funding" \in Statuses \ {"spent"}
    BY DEF Statuses
  <2>2. with("unconfirmed_funding") \in Record /\ with("unconfirmed_funding").status = "unconfirmed_funding"
    BY <1>2, <1>3, <2>1, PendingType
  <2>3. gotTx'[TxOf[x]] # "none"
    BY <1>1, <1>5, <1>9 DEF WorkInv, Responded
  <2>4. Answered(x)'
    BY <1>6, <1>9, <2>2, <2>3 DEF Answered
  <2> HIDE DEF with
  <2> QED
    BY <1>1, <1>5, <1>9, <2>2, <2>4, ConcludeWork
<1>10. CASE ScopeDepth(o, out, depths) >= hops /\ Conclude(with("hop_limit"))
  <2>1. "hop_limit" \in Statuses \ {"spent"}
    BY DEF Statuses
  <2>2. with("hop_limit") \in Record /\ with("hop_limit").status = "hop_limit"
        /\ with("hop_limit").depth = out[o].depth
    BY <1>2, <1>3, <2>1, PendingType
  <2>3. ScopeDepth(x, out', depths') = ScopeDepth(o, out, depths)
    BY <1>1, <1>5, <1>6, <1>10, <2>2 DEF ScopeDepth
  <2>4. Answered(x)'
    BY <1>1, <1>6, <1>10, <2>2, <2>3 DEF Answered
  <2> HIDE DEF with
  <2> QED
    BY <1>1, <1>5, <1>10, <2>2, <2>4, ConcludeWork
<1>11. CASE pc' = "spend" /\ UNCHANGED <<out, current>>
  <2>1. PendingIsQueued' /\ Examined' /\ NonePending' /\ CompleteIsExamined' /\ Unscoped'
    BY <1>1, <1>11, SameOutputs
  <2>2. Resting' /\ Responded'
    BY <1>11 DEF Resting, Responded
  <2> QED
    BY <2>1, <2>2 DEF WorkInv, WorkIsKept
<1> QED
  BY <1>4, <1>7, <1>8, <1>9, <1>10, <1>11

LEMMA ReadSpendWork ==
  ASSUME TypeInv, WorkInv, ReadSpend
  PROVE  WorkInv'
<1>1. /\ UNCHANGED <<depths, latest, only, hops, active, queue, gotTx>> /\ pc = "spend"
  BY DEF ReadSpend, runVars
<1>2. current \in Outputs /\ out[current] \in Record /\ current # None
  BY <1>1, TypeGroups DEF TypeInv, WorkType, CurrentKnown, Records
<1>3. TxOf[current] \in Txs /\ EvidenceType
  BY <1>2, TypeGroups, TraceAssumption DEF TraceAssumption, TypeInv
<1>4. SpendResponse(TxOf[current]) # None
  <2>1. SpendResponse(TxOf[current]) \in [Outputs -> Seen]
    BY <1>3, ResponseType
  <2> QED
    BY <2>1, TraceAssumption DEF TraceAssumption
<1>5. gotSpend' = [gotSpend EXCEPT ![TxOf[current]] = SpendResponse(TxOf[current])]
  BY DEF ReadSpend
<1>6. gotSpend'[TxOf[current]] # None /\ Remembers
  BY <1>1, <1>3, <1>4, <1>5 DEF Remembers, EvidenceType
<1> DEFINE with(s) == [out[current] EXCEPT !.status = s]
<1>7. \/ Conclude(with("unspent_at_observation"))
      \/ Conclude(with("unconfirmed_spend"))
      \/ pc' = "child" /\ UNCHANGED <<out, current>>
  BY DEF ReadSpend
<1>8. ASSUME NEW s \in {"unspent_at_observation", "unconfirmed_spend"}, Conclude(with(s))
      PROVE  WorkInv'
  <2>1. s \in Statuses \ {"spent"} /\ s # "pending"
    BY DEF Statuses
  <2>2. with(s) \in Record /\ with(s).status = s
    BY <1>2, <2>1, PendingType DEF Record
  <2>3. PICK x \in Outputs : x = current
    BY <1>2
  <2>4. out'[x] = with(s)
    BY <1>8, <2>3, TypeGroups DEF TypeInv, WorkType, Records, Conclude
  <2>5. Answered(x)'
    BY <1>6, <2>2, <2>3, <2>4 DEF Answered
  <2> HIDE DEF with
  <2> QED
    BY <1>1, <1>6, <1>8, <2>1, <2>2, <2>3, <2>5, ConcludeWork
<1>9. CASE pc' = "child" /\ UNCHANGED <<out, current>>
  <2>1. PendingIsQueued' /\ Examined' /\ NonePending' /\ CompleteIsExamined' /\ Unscoped'
    BY <1>1, <1>6, <1>9, SameOutputs
  <2>2. Resting' /\ Responded'
    BY <1>6, <1>9 DEF Resting, Responded
  <2> QED
    BY <2>1, <2>2 DEF WorkInv, WorkIsKept
<1> QED
  BY <1>7, <1>8, <1>9


LEMMA LinkWork ==
  ASSUME TypeInv, WorkInv, Link
  PROVE  WorkInv'
<1>1. /\ UNCHANGED <<depths, latest, only, hops, active, queue, gotTx, gotSpend>> /\ pc = "link"
      /\ Remembers
  BY DEF Link, runVars, memoVars, Remembers
<1>2. /\ current \in Outputs /\ out[current] \in Record /\ current # None
      /\ out \in Records
  BY <1>1, TypeGroups DEF TypeInv, WorkType, CurrentKnown, Records
<1> DEFINE with(s) == [out[current] EXCEPT !.status = s]
<1>3. CASE Conclude(with("unconfirmed_spend"))
  <2>1. "unconfirmed_spend" \in Statuses \ {"spent"}
    BY DEF Statuses
  <2>2. with("unconfirmed_spend") \in Record /\ with("unconfirmed_spend").status = "unconfirmed_spend"
    BY <1>2, <2>1, PendingType DEF Record
  <2>3. PICK x \in Outputs : x = current
    BY <1>2
  <2>4. out'[x] = with("unconfirmed_spend")
    BY <1>2, <1>3, <2>3 DEF Conclude, Records
  <2>5. gotSpend'[TxOf[x]] # None
    BY <1>1, <2>3 DEF WorkInv, Responded
  <2>6. Answered(x)'
    BY <2>2, <2>4, <2>5 DEF Answered
  <2> HIDE DEF with
  <2> QED
    BY <1>1, <1>3, <2>2, <2>3, <2>6, ConcludeWork
<1>4. CASE /\ out' = [out EXCEPT ![current].status = "spent"]
           /\ pc' = "add" /\ UNCHANGED current
  <2>1. /\ out'[current].status = "spent"
        /\ \A o \in Outputs : o # current => out'[o] = out[o]
    BY <1>2, <1>4 DEF Records, Record
  <2>2. \A o \in Outputs : o # current => (o \in Known(out)' <=> o \in Known(out))
    BY <2>1 DEF Known
  <2>3. PendingIsQueued'
    <3> SUFFICES ASSUME NEW o \in Known(out)', out'[o].status = "pending", ~Held(out', o)
                 PROVE  <<ScopeDepth(o, out', depths'), o>> \in DOMAIN queue \/ o \in SetAside'
      BY <1>1 DEF PendingIsQueued
    <3>1. o \in Outputs /\ o # current /\ out'[o] = out[o] /\ o \in Known(out)
      BY <2>1, <2>2 DEF Known
    <3>2. <<ScopeDepth(o, out, depths), o>> \in DOMAIN queue \/ o \in SetAside
      BY <1>1, <3>1 DEF WorkInv, WorkIsKept, PendingIsQueued, Held
    <3> QED
      BY <1>1, <3>1, <3>2 DEF ScopeDepth, SetAside
  <2>4. Examined'
    <3> SUFFICES ASSUME only = None, NEW o \in Known(out)'
                 PROVE  Held(out', o) \/ out'[o].status = "pending" \/ Answered(o)'
      BY <1>1 DEF Examined
    <3>1. CASE o = current
      BY <2>1, <3>1, PendingIsNoVerdict DEF Answered
    <3>2. CASE o # current
      <4>1. o \in Outputs /\ out'[o] = out[o] /\ o \in Known(out)
        BY <2>1, <2>2, <3>2 DEF Known
      <4>2. Held(out, o) \/ out[o].status = "pending" \/ Answered(o)
        BY <1>1, <4>1 DEF WorkInv, Examined
      <4> QED
        BY <1>1, <4>1, <4>2, AnsweredStays DEF Held
    <3> QED
      BY <3>1, <3>2
  <2>5. NonePending' /\ CompleteIsExamined' /\ Resting' /\ Unscoped' /\ Responded'
    BY <1>1, <1>4 DEF NonePending, CompleteIsExamined, Complete, Finished, Resting, Unscoped, Responded, WorkInv
  <2> QED
    BY <2>3, <2>4, <2>5 DEF WorkInv, WorkIsKept
<1> QED
  BY <1>3, <1>4 DEF Link

LEMMA AddChildWork ==
  ASSUME TypeInv, WorkInv, AddChild
  PROVE  WorkInv'
<1>1. /\ UNCHANGED <<pc, latest, only, hops, active, current, gotTx, gotSpend>> /\ pc = "add"
      /\ Remembers
  BY DEF AddChild, runVars, memoVars, Remembers
<1>2. PICK c \in children : Add(c, ScopeDepth(current, out, depths) + 1)
  BY DEF AddChild
<1>3. c \in Outputs /\ current \in Outputs /\ out[current] \in Record /\ depths \in DepthMap
  BY <1>1, TypeGroups DEF TypeInv, EvidenceType, WorkType, CurrentKnown, Records
<1>4. ScopeDepth(current, out, depths) + 1 \in Nat
  BY <1>3 DEF ScopeDepth, DepthMap, Record
<1>5. /\ DOMAIN queue \subseteq DOMAIN queue'
      /\ \A o \in Known(out') :
              \/ out'[o].status = "pending" /\ <<ScopeDepth(o, out', depths'), o>> \in DOMAIN queue'
              \/ Held(out', o)
              \/ out'[o].status \in Terminal
              \/ out'[o] = out[o] /\ depths'[o] = depths[o]
  <2>1. Unscoped
    BY DEF WorkInv
  <2> QED
    BY <1>2, <1>3, <1>4, <2>1, AddEffect
<1>6. PendingIsQueued'
  <2> SUFFICES ASSUME NEW o \in Known(out'), out'[o].status = "pending", ~Held(out', o)
               PROVE  <<ScopeDepth(o, out', depths'), o>> \in DOMAIN queue' \/ o \in SetAside'
    BY DEF PendingIsQueued
  <2>1. CASE out'[o] = out[o] /\ depths'[o] = depths[o]
    <3>1. o \in Known(out) /\ out[o].status = "pending" /\ ~Held(out, o)
      BY <2>1 DEF Known, Held
    <3>2. <<ScopeDepth(o, out, depths), o>> \in DOMAIN queue \/ o \in SetAside
      BY <1>1, <3>1 DEF WorkInv, WorkIsKept, PendingIsQueued
    <3> QED
      BY <1>1, <1>5, <2>1, <3>2 DEF ScopeDepth, SetAside
  <2> QED
    BY <1>5, <2>1, PendingIsNoVerdict
<1>7. Examined'
  <2> SUFFICES ASSUME only = None, NEW o \in Known(out')
               PROVE  Held(out', o) \/ out'[o].status = "pending" \/ Answered(o)'
    BY <1>1 DEF Examined
  <2>1. CASE out'[o] = out[o] /\ depths'[o] = depths[o]
    <3>1. o \in Outputs /\ o \in Known(out)
      BY <2>1 DEF Known
    <3>2. Held(out, o) \/ out[o].status = "pending" \/ Answered(o)
      BY <1>1, <3>1 DEF WorkInv, Examined
    <3> QED
      BY <1>1, <2>1, <3>1, <3>2, AnsweredStays DEF Held
  <2>2. CASE out'[o].status \in Terminal
    BY <2>2 DEF Answered
  <2> QED
    BY <1>5, <2>1, <2>2
<1>8. Unscoped'
  <2>1. ~active => depths' = depths
    BY <1>2 DEF Add, AddPlain
  <2> QED
    BY <1>1, <2>1 DEF WorkInv, Unscoped, NoDepths
<1>9. NonePending' /\ CompleteIsExamined' /\ Resting' /\ Responded'
  BY <1>1 DEF NonePending, CompleteIsExamined, Complete, Finished, Resting, Responded
<1> QED
  BY <1>6, <1>7, <1>8, <1>9 DEF WorkInv, WorkIsKept

LEMMA AddedWork ==
  ASSUME WorkInv, Added
  PROVE  WorkInv'
<1>1. /\ UNCHANGED <<out, depths, latest, only, hops, active, queue, gotTx, gotSpend>>
      /\ pc = "add" /\ pc' = "loop" /\ current' = None
  BY DEF Added, saveVars, runVars, memoVars
<1>2. Remembers
  BY <1>1 DEF Remembers
<1>3. PendingIsQueued' /\ Examined' /\ NonePending' /\ CompleteIsExamined' /\ Unscoped'
  BY <1>1, <1>2, SameOutputs
<1>4. Resting' /\ Responded'
  BY <1>1 DEF Resting, Responded
<1> QED
  BY <1>3, <1>4 DEF WorkInv, WorkIsKept

LEMMA LookaheadWork ==
  ASSUME TypeInv, WorkInv, Lookahead
  PROVE  WorkInv'
<1>1. /\ UNCHANGED <<out, depths, latest, only, hops, active, queue, pc, current>> /\ pc = "loop"
  BY DEF Lookahead, saveVars, runVars, loopVars
<1>2. EvidenceType /\ SpendSeen # None
  <2>1. EvidenceType
    BY TypeGroups DEF TypeInv
  <2>2. SpendSeen \in [Outputs -> Seen]
    BY <2>1, ResponseType
  <2> QED
    BY <2>1, <2>2, TraceAssumption DEF TraceAssumption
<1>3. Remembers
  <2>1. ASSUME NEW t, gotTx' = [gotTx EXCEPT ![t] = chain[t]], t \in Txs \/ t = NoTx, UNCHANGED gotSpend
        PROVE  Remembers
    <3>1. \A x \in Txs : gotTx'[x] = IF x = t THEN chain[x] ELSE gotTx[x]
      BY <1>2, <2>1 DEF EvidenceType
    <3> QED
      BY <1>2, <2>1, <3>1 DEF Remembers, EvidenceType, Seen
  <2>2. CASE FetchFunding
    <3>1. PICK o \in Window : gotTx' = [gotTx EXCEPT ![TxOf[o]] = chain[TxOf[o]]] /\ UNCHANGED gotSpend
      BY <2>2 DEF FetchFunding
    <3>2. TxOf[o] \in Txs
      BY TraceAssumption DEF TraceAssumption, Window, Known
    <3> QED
      BY <2>1, <3>1, <3>2
  <2>3. CASE FetchOutspends
    <3>1. PICK o \in Window : gotSpend' = [gotSpend EXCEPT ![TxOf[o]] = SpendSeen] /\ UNCHANGED gotTx
      BY <2>3 DEF FetchOutspends
    <3> QED
      BY <1>2, <3>1 DEF Remembers, EvidenceType
  <2>4. CASE FetchSpender
    <3>1. PICK o \in Window : gotTx' = [gotTx EXCEPT ![Spender[o]] = chain[Spender[o]]] /\ UNCHANGED gotSpend
      BY <2>4 DEF FetchSpender
    <3>2. Spender[o] \in Txs \cup {NoTx}
      BY TraceAssumption DEF TraceAssumption, Window, Known
    <3> QED
      BY <2>1, <3>1, <3>2
  <2> QED
    BY <2>2, <2>3, <2>4 DEF Lookahead
<1>4. PendingIsQueued' /\ Examined' /\ NonePending' /\ CompleteIsExamined' /\ Unscoped'
  BY <1>1, <1>3, SameOutputs
<1>5. Resting' /\ Responded'
  BY <1>1 DEF Resting, Responded, WorkInv
<1> QED
  BY <1>4, <1>5 DEF WorkInv, WorkIsKept

\* The end of a run: with a reason nothing stays pending; without one the heap is
\* empty, so what is pending was never queued.
LEMMA FinishWork ==
  ASSUME TypeInv, WorkInv, NEW why \in Reasons \cup {None}, Finish(why), pc \notin {"idle", "finished"},
         why = None => pc = "loop" /\ DOMAIN queue = {}
  PROVE  WorkInv'
<1>1. /\ UNCHANGED <<latest, only, hops, active, depths, gotTx, gotSpend>>
      /\ pc' = "finished" /\ current' = None /\ reason' = why
      /\ out' = [o \in Outputs |-> IF why # None /\ out[o] # None /\ out[o].status = "pending"
                                   THEN [out[o] EXCEPT !.status = why] ELSE out[o]]
  BY DEF Finish, runVars, memoVars
<1>2. out \in Records
  BY TypeGroups DEF TypeInv, WorkType
<1>3. NonePending'
  <2> SUFFICES ASSUME NEW o \in Known(out'), out'[o].status = "pending"
               PROVE  why = None /\ (Held(out', o) \/ o \in SetAside')
    BY <1>1 DEF NonePending, Finished
  <2>1. o \in Outputs /\ out'[o] # None
    BY DEF Known
  <2>2. CASE why # None
    <3>1. out[o] \in Record
      BY <1>1, <1>2, <2>1 DEF Records
    <3>2. why # "pending"
      BY <2>2, PendingIsNoVerdict
    <3> QED
      BY <1>1, <2>1, <2>2, <3>1, <3>2, NoneIsNoRecord DEF Record
  <2>3. CASE why = None
    <3>1. out' = out
      BY <1>1, <1>2, <2>3 DEF Records
    <3>2. o # current
      BY <2>1, <2>3, TraceAssumption DEF TraceAssumption, WorkInv, Resting
    <3>3. Held(out, o) \/ o \in SetAside
      BY <2>3, <3>1, <3>2 DEF WorkInv, WorkIsKept, PendingIsQueued
    <3> QED
      BY <1>1, <2>3, <3>1, <3>3 DEF SetAside, Held
  <2> QED
    BY <2>2, <2>3
<1>4. CompleteIsExamined'
  <2> SUFFICES ASSUME why = None, only = None, NEW o \in Known(out')
               PROVE  Held(out', o) \/ Answered(o)'
    BY <1>1 DEF CompleteIsExamined, Complete, Finished
  <2>1. out' = out /\ o \in Outputs /\ o \in Known(out)
    BY <1>1, <1>2 DEF Records, Known
  <2>2. Held(out, o) \/ out[o].status = "pending" \/ Answered(o)
    BY <2>1 DEF WorkInv, Examined
  <2>3. out[o].status = "pending" => Held(out, o)
    <3>1. o # current
      BY <2>1, TraceAssumption DEF TraceAssumption, WorkInv, Resting
    <3> QED
      BY <2>1, <3>1 DEF WorkInv, WorkIsKept, PendingIsQueued, SetAside
  <2>4. Remembers
    BY <1>1 DEF Remembers
  <2>5. Answered(o) => Answered(o)'
    BY <1>1, <2>1, <2>4, AnsweredStays
  <2> QED
    BY <2>1, <2>2, <2>3, <2>5 DEF Held
<1>5. PendingIsQueued' /\ Examined' /\ Resting' /\ Unscoped' /\ Responded'
  BY <1>1 DEF PendingIsQueued, Examined, Resting, Unscoped, Responded, WorkInv, NoDepths
<1> QED
  BY <1>3, <1>4, <1>5 DEF WorkInv, WorkIsKept


LEMMA StartWork ==
  ASSUME TypeInv, NEW h, NEW rules, NEW limits, Start(h, rules, limits)
  PROVE  WorkInv'
<1>1. /\ pc' = "loop" /\ current' = None /\ only' = None
      /\ out' = [o \in Outputs |-> IF o \in Seeds THEN Arrived(None, 0) ELSE None]
      /\ depths' = [o \in Outputs |-> IF rules # {} /\ o \in Seeds THEN 0 ELSE None]
      /\ active' = (rules # {})
      /\ queue' = Push(EmptyQueue, {0} \X Seeds)
  BY DEF Start
<1>2. DOMAIN queue' = {0} \X Seeds
  <2>1. IsHeap(EmptyQueue) /\ DOMAIN EmptyQueue = {}
    BY DEF IsHeap, EmptyQueue
  <2>2. {0} \X Seeds \subseteq Entries
    BY TraceAssumption DEF TraceAssumption, Entries
  <2>3. DOMAIN Push(EmptyQueue, {0} \X Seeds) = DOMAIN EmptyQueue \cup ({0} \X Seeds)
    BY <2>1, <2>2, PushType
  <2> QED
    BY <1>1, <2>1, <2>3
<1>3. \A o \in Known(out') : o \in Seeds /\ out'[o].status = "pending" /\ out'[o].depth = 0
  BY <1>1 DEF Known, Arrived
<1>4. \A o \in Known(out') : ScopeDepth(o, out', depths') = 0
  BY <1>1, <1>3, TraceAssumption DEF TraceAssumption, ScopeDepth
<1>5. PendingIsQueued' /\ Examined'
  BY <1>2, <1>3, <1>4 DEF PendingIsQueued, Examined
<1>6. NonePending' /\ CompleteIsExamined' /\ Resting' /\ Unscoped' /\ Responded'
  BY <1>1 DEF NonePending, CompleteIsExamined, Complete, Finished, Resting, Unscoped, Responded, NoDepths
<1> QED
  BY <1>5, <1>6 DEF WorkInv, WorkIsKept

\* What no rule holds of the outputs a continuation inherits is as the sealed run
\* left it, or as it was before a stop held it.
LEMMA InheritedStatus ==
  ASSUME NEW rs \in Records, NEW ds, NEW stopped, NEW o \in Known(rs),
         ~Held(ScopedOutputs(rs, ds, stopped), o)
  PROVE  ScopedOutputs(rs, ds, stopped)[o].status \in {rs[o].status, rs[o].prev}
<1> DEFINE all == [x \in Outputs |-> IF rs[x] = None THEN None ELSE Restored(rs[x])]
           visited == {x \in Known(rs) : ds[x] # None}
           seen == AfterWalk(all, visited, stopped)
           new == ScopedOutputs(rs, ds, stopped)
<1>1. o \in Outputs /\ rs[o] \in Record /\ rs[o] # None
  BY DEF Known, Records
<1>2. all[o] = Restored(rs[o]) /\ all[o] \in Record /\ all[o].hold = None
  BY <1>1, RestoredType DEF Restored, Record
<1>3. new[o] = IF ds[o] = None THEN HoldFor(seen[o], "held_behind_service") ELSE seen[o]
  BY <1>1 DEF ScopedOutputs
<1>4. seen[o] = IF o \notin visited THEN all[o]
                ELSE IF o \in stopped THEN HoldFor(Restored(all[o]), "suspected_service_stop")
                     ELSE Restored(all[o])
  BY <1>1 DEF AfterWalk
<1>5. Restored(all[o]) \in Record /\ Restored(all[o]).status = all[o].status
  BY <1>2, RestoredType DEF Restored, Record
<1>6. \A r \in Record : \A why \in Holds : HoldFor(r, why).hold # None
  BY TraceAssumption DEF TraceAssumption, HoldFor, Record, Statuses, Holds
<1>7. o \in visited <=> ds[o] # None
  OBVIOUS
<1> HIDE DEF all, visited, seen, new
<1>8. seen[o] \in Record
  BY <1>2, <1>4, <1>5, HoldForType DEF Holds
<1>9. ~(new[o].hold # None)
  BY DEF new, Held
<1>10. ds[o] # None
  BY <1>3, <1>6, <1>8, <1>9 DEF Holds
<1>11. o \notin stopped
  BY <1>3, <1>4, <1>5, <1>6, <1>7, <1>9, <1>10 DEF Holds
<1>12. new[o].status = Restored(rs[o]).status
  BY <1>2, <1>3, <1>4, <1>5, <1>7, <1>10, <1>11
<1>13. Restored(rs[o]).status \in {rs[o].status, rs[o].prev}
  BY <1>1 DEF Restored, Record
<1> QED
  BY <1>12, <1>13 DEF new

LEMMA ContinueWork ==
  ASSUME TypeInv, ChildInv, NEW h \in HopChoices, NEW rules \in StopChoices, NEW limits \in Budgets,
         NEW selection \in OnlyChoices \cup {None}, Continue(h, rules, limits, selection)
  PROVE  WorkInv'
<1> DEFINE known == Known(latest.out)
           on == rules # {} \/ \E o \in known : Held(latest.out, o)
           stopped == {o \in known : StopAddress(o, rules, latest.data)}
           walk == Walked({0} \X Seeds, NoDepths, known, latest.links, stopped)
           ds == IF on THEN walk ELSE NoDepths
           rs == IF on THEN ScopedOutputs(latest.out, ds, stopped) ELSE latest.out
           available == {o \in known : rs[o].status \notin Terminal}
           chosen == {o \in (IF selection = None THEN available ELSE selection) : ~Held(rs, o)}
<1>1. /\ selection # None => selection \subseteq available
      /\ active' = on /\ depths' = ds
      /\ out' = [o \in Outputs |-> IF o \in chosen THEN [rs[o] EXCEPT !.status = "pending"] ELSE rs[o]]
      /\ queue' = Push(EmptyQueue, Ready(rs, ds, chosen))
      /\ pc' = "loop" /\ current' = None /\ only' = selection /\ latest' = latest
  BY DEF Continue
<1>2. latest \in Saved /\ latest.out \in Records /\ ds \in DepthMap
  BY <1>1, ContinueKeeps DEF Saved, Records
<1>3. Keeps(latest.out, rs)
  <2>1. Keeps(latest.out, latest.out)
    BY <1>2 DEF Keeps
  <2>2. Keeps(latest.out, ScopedOutputs(latest.out, ds, stopped))
    <3> HIDE DEF ds, stopped
    <3> QED BY <1>2, ScopedOutputsKeeps
  <2> QED
    BY <2>1, <2>2
<1>4. \A o \in known : ~Held(rs, o) => rs[o].status \in {latest.out[o].status, latest.out[o].prev}
  <2>1. CASE on
    <3>1. rs = ScopedOutputs(latest.out, ds, stopped)
      BY <2>1
    <3> HIDE DEF ds, stopped, on, rs
    <3> QED
      BY <1>2, <3>1, InheritedStatus
  <2>2. CASE ~on
    BY <2>2
  <2> QED
    BY <2>1, <2>2
<1> HIDE DEF on, walk, ds, rs, stopped
<1>5. chosen \subseteq known /\ known \subseteq Outputs
  BY <1>1 DEF Known
<1>6. \A o \in known : rs[o] \in Record /\ rs[o] # None
  BY <1>3 DEF Keeps, Records, Known
<1>7. Known(out') = known
  <2>1. \A o \in Outputs : o \notin known => out'[o] = None
    <3>1. \A o \in Outputs : o \notin known => rs[o] = None
      BY <1>3 DEF Keeps, Known
    <3> QED
      BY <1>1, <1>5, <3>1
  <2>2. \A o \in known : out'[o] # None
    <3>1. \A o \in known : [rs[o] EXCEPT !.status = "pending"] \in Record
      BY <1>6, PendingType, NoneIsNoStatus DEF Statuses
    <3> QED
      BY <1>1, <1>5, <1>6, <3>1, NoneIsNoRecord
  <2> QED
    BY <1>5, <2>1, <2>2 DEF Known
<1>8. DOMAIN queue' = Ready(rs, ds, chosen)
  <2>1. \A o \in chosen : ScopeDepth(o, rs, ds) \in Nat /\ o \in Outputs
    BY <1>2, <1>5, <1>6 DEF ScopeDepth, DepthMap, Record
  <2>2. Ready(rs, ds, chosen) \subseteq Entries
    BY <2>1 DEF Ready, Entries
  <2>3. IsHeap(EmptyQueue) /\ DOMAIN EmptyQueue = {}
    BY DEF IsHeap, EmptyQueue
  <2>4. DOMAIN queue' = DOMAIN EmptyQueue \cup Ready(rs, ds, chosen)
    BY <1>1, <2>2, <2>3, PushType
  <2> QED
    BY <2>3, <2>4
<1>9. ASSUME NEW o \in chosen
      PROVE  out'[o].status = "pending" /\ <<ScopeDepth(o, out', depths'), o>> \in DOMAIN queue'
  <2>1. rs[o] \in Record /\ o \in Outputs
    BY <1>5, <1>6
  <2>2. out'[o] = [rs[o] EXCEPT !.status = "pending"]
    BY <1>1, <2>1
  <2>3. out'[o].status = "pending" /\ out'[o].depth = rs[o].depth
    BY <2>1, <2>2 DEF Record
  <2>4. ScopeDepth(o, out', depths') = ScopeDepth(o, rs, ds)
    BY <1>1, <2>3 DEF ScopeDepth
  <2>5. <<ScopeDepth(o, rs, ds), o>> \in Ready(rs, ds, chosen)
    BY DEF Ready
  <2> QED
    BY <1>8, <2>3, <2>4, <2>5
<1>10. \A o \in known \ chosen : out'[o] = rs[o]
  BY <1>1, <1>5
<1>11. PendingIsQueued'
  <2> SUFFICES ASSUME NEW o \in known, out'[o].status = "pending", ~Held(out', o)
               PROVE  <<ScopeDepth(o, out', depths'), o>> \in DOMAIN queue' \/ o \in SetAside'
    BY <1>7 DEF PendingIsQueued
  <2>1. CASE o \in chosen
    BY <1>9, <2>1
  <2>2. CASE o \notin chosen
    <3>1. rs[o].status = "pending" /\ ~Held(rs, o)
      BY <1>10, <2>2 DEF Held
    <3>2. selection # None /\ o \notin selection
      BY <2>2, <3>1, PendingIsNoVerdict
    <3>3. latest.out[o].status = "pending" \/ latest.out[o].prev = "pending"
      BY <1>4, <3>1
    <3> QED
      BY <1>1, <3>2, <3>3 DEF SetAside
  <2> QED
    BY <2>1, <2>2
<1>12. Examined'
  <2> SUFFICES ASSUME selection = None, NEW o \in known, o \notin chosen
               PROVE  Held(out', o) \/ Answered(o)'
    BY <1>1, <1>7, <1>9 DEF Examined
  <2>1. Held(rs, o) \/ rs[o].status \in Terminal
    OBVIOUS
  <2> QED
    BY <1>10, <2>1 DEF Held, Answered
<1>13. NonePending' /\ CompleteIsExamined' /\ Resting' /\ Unscoped' /\ Responded'
  BY <1>1 DEF NonePending, CompleteIsExamined, Complete, Finished, Resting, Unscoped, Responded, NoDepths, ds
<1> QED
  BY <1>11, <1>12, <1>13 DEF WorkInv, WorkIsKept

LEMMA WorkStep ==
  ASSUME TypeInv, ChildInv, WorkInv, [Next]_vars
  PROVE  WorkInv'
<1>1. CASE Begin
  <2>1. \E h \in HopChoices, rules \in StopChoices, limits \in Budgets :
          \/ Start(h, rules, limits)
          \/ \E selection \in OnlyChoices \cup {None} : Continue(h, rules, limits, selection)
    BY <1>1 DEF Begin
  <2> QED
    BY <2>1, StartWork, ContinueWork
<1>2. CASE Examine
  BY <1>2, PopWork, FundWork, ClassifyWork, ReadSpendWork, LinkWork, AddChildWork, AddedWork DEF Examine
<1>3. CASE Lookahead
  BY <1>3, LookaheadWork
<1>4. CASE End
  <2>1. PICK why \in Reasons \cup {None} :
          /\ Finish(why) /\ pc \notin {"idle", "finished"}
          /\ why = None => pc = "loop" /\ DOMAIN queue = {}
    <3>1. None \notin Reasons
      BY TraceAssumption DEF TraceAssumption, Statuses
    <3> QED
      BY <1>4, <3>1 DEF End, BoundedComplete, OutpointLimit, TransactionLimited, Reasons
  <2> QED
    BY <2>1, FinishWork
<1>5. CASE Stopped
  <2>1. PICK why \in Failures : CanStopBy(why) /\ Finish(why)
    BY <1>5 DEF Stopped
  <2>2. why \in Reasons /\ why # None /\ pc \notin {"idle", "finished"}
    BY <2>1, TraceAssumption DEF TraceAssumption, CanStopBy, Statuses
  <2> QED
    BY <2>1, <2>2, FinishWork
<1>6. CASE Export \/ Kill
  <2>1. Gone
    BY <1>6 DEF Export, Kill
  <2> QED
    BY <2>1 DEF Gone, WorkInv, WorkIsKept, PendingIsQueued, NonePending, CompleteIsExamined, Complete,
                Finished, Examined, Resting, Unscoped, Responded
<1>7. CASE ChainGrows \/ UNCHANGED vars
  <2>1. /\ UNCHANGED <<latest, pc, out, data, hops, only, active, queue, depths>>
        /\ UNCHANGED <<current, reason, gotTx, gotSpend>>
    BY <1>7 DEF ChainGrows, vars, saveVars, runVars, loopVars, memoVars
  <2>2. PendingIsQueued' /\ NonePending' /\ CompleteIsExamined'
    BY <2>1 DEF WorkInv, WorkIsKept, PendingIsQueued, NonePending, CompleteIsExamined, Complete, Finished,
                SetAside, Answered, Known, Held, ScopeDepth
  <2>3. Examined' /\ Resting' /\ Unscoped' /\ Responded'
    BY <2>1 DEF WorkInv, Examined, Resting, Unscoped, Responded, Answered, Known, Held, ScopeDepth
  <2> QED
    BY <2>2, <2>3 DEF WorkInv, WorkIsKept
<1> QED
  BY <1>1, <1>2, <1>3, <1>4, <1>5, <1>6, <1>7 DEF Next

\* No collection forgets work, whatever the chain, the rules, the limits and the
\* failures are: what is pending and no rule holds is in the heap under the depth
\* the scope gives it now, a finished run leaves pending only what a stop holds or
\* its selection left out, and a run that calls itself complete has an answer for
\* every output it knows and may follow.
THEOREM WorkKept == Spec => []WorkIsKept
<1>1. Init => WorkInv
  BY DEF Init, WorkInv, WorkIsKept, PendingIsQueued, NonePending, CompleteIsExamined, Complete, Finished,
         Examined, Resting, Unscoped, Responded
<1>2. TypeInv /\ ChildInv /\ WorkInv /\ [Next]_vars => WorkInv'
  BY WorkStep
<1>3. WorkInv => WorkIsKept
  BY DEF WorkInv
<1> QED
  BY <1>1, <1>2, <1>3, Invariant, PTL DEF Spec

-----------------------------------------------------------------------------
(* Layers                                                                  *)

\* The outputs one observed spend after a layer.
Spends(prev, linked, stopped) == UNION {OutputsOf(Spender[p]) : p \in (prev \cap linked) \ stopped}

\* The layers are what their recursive definition says: the least bound with no
\* function that satisfies it would be one more than a bound with such a function.
LEMMA LayerUnfolds ==
  ASSUME NEW starts, NEW known, NEW linked, NEW stopped, NEW n \in Depths
  PROVE  Layer(starts, known, linked, stopped)[n] =
           known \cap ({o \in known : <<n, o>> \in starts} \cup
             (IF n = 0 THEN {}
              ELSE Spends(Layer(starts, known, linked, stopped)[n - 1], linked, stopped)))
<1> DEFINE S(prev, k) == known \cap ({o \in known : <<k, o>> \in starts} \cup
                           (IF k = 0 THEN {} ELSE Spends(prev, linked, stopped)))
           Is(f, k) == f = [i \in 0..k |-> S(f[i - 1], i)]
<1>0. MaxDepth \in Nat /\ n \in 0..MaxDepth
  BY FS_CardinalityType, TraceAssumption DEF TraceAssumption, MaxDepth, Depths
<1>1. ASSUME NEW k \in Nat, \A j \in Nat : j < k => \E f : Is(f, j)
      PROVE  \E f : Is(f, k)
  <2>1. CASE k = 0
    <3> DEFINE g == [i \in 0..0 |-> S({}, i)]
    <3>1. S({}, 0) = S(g[0 - 1], 0)
      OBVIOUS
    <3>2. \A i \in 0..0 : S({}, i) = S(g[i - 1], i)
      BY <3>1
    <3>3. g = [i \in 0..0 |-> S(g[i - 1], i)]
      <4> HIDE DEF S
      <4>1. [i \in 0..0 |-> S({}, i)] = [i \in 0..0 |-> S(g[i - 1], i)]
        BY <3>2
      <4> QED
        BY <4>1
    <3> QED
      BY <2>1, <3>3
  <2>2. CASE k # 0
    <3>1. PICK f : Is(f, k - 1)
      BY <1>1, <2>2
    <3> DEFINE g == [i \in 0..k |-> IF i < k THEN f[i] ELSE S(f[i - 1], i)]
    <3> HIDE DEF S
    <3>2. \A i \in 0..(k - 1) : f[i] = S(f[i - 1], i)
      BY <3>1
    <3>3. \A i \in 0..k : i < k => g[i] = f[i]
      OBVIOUS
    <3>4. \A i \in 0..k : S(f[i - 1], i) = S(g[i - 1], i)
      <4>1. ASSUME NEW i \in 0..k, i # 0 PROVE f[i - 1] = g[i - 1]
        <5>1. i - 1 \in 0..k /\ i - 1 < k
          BY <4>1
        <5> QED
          BY <3>3, <5>1
      <4>2. S(f[0 - 1], 0) = S(g[0 - 1], 0)
        BY DEF S
      <4> QED
        BY <4>1, <4>2
    <3>5. \A i \in 0..k : g[i] = S(g[i - 1], i)
      <4>1. ASSUME NEW i \in 0..k, i < k PROVE g[i] = S(g[i - 1], i)
        <5>1. i \in 0..(k - 1)
          BY <4>1
        <5> HIDE DEF g
        <5> QED
          BY <3>2, <3>3, <3>4, <4>1, <5>1
      <4>2. ASSUME NEW i \in 0..k, ~ (i < k) PROVE g[i] = S(g[i - 1], i)
        <5>1. g[i] = S(f[i - 1], i)
          BY <4>2
        <5> HIDE DEF g
        <5> QED
          BY <3>4, <5>1
      <4> QED
        BY <4>1, <4>2
    <3>6. g = [i \in 0..k |-> g[i]]
      OBVIOUS
    <3> HIDE DEF g
    <3>7. g = [i \in 0..k |-> S(g[i - 1], i)]
      BY <3>5, <3>6, Zenon
    <3> QED
      BY <3>7
  <2> QED
    BY <2>1, <2>2
<1>2. \A k \in Nat : \E f : Is(f, k)
  <2> DEFINE Bad == {k \in Nat : ~ \E f : Is(f, k)}
  <2> SUFFICES ASSUME Bad # {} PROVE FALSE
    OBVIOUS
  <2>1. PICK k \in Bad : \A j \in Bad : k <= j
    <3> Bad \subseteq Nat
      OBVIOUS
    <3> HIDE DEF Bad
    <3> QED BY LeastNatural
  <2>2. \A j \in Nat : j < k => j \notin Bad
    <3> HIDE DEF Bad
    <3>1. \A j \in Nat : k \in Nat /\ (j < k => ~ (k <= j))
      BY DEF Bad
    <3> QED
      BY <2>1, <3>1
  <2> HIDE DEF Is
  <2> QED
    BY <1>1, <2>2
<1>3. PICK f : Is(f, MaxDepth)
  BY <1>0, <1>2
<1>4. Layer(starts, known, linked, stopped) = CHOOSE g : Is(g, MaxDepth)
  BY DEF Layer, Depths, Spends
<1>5. Is(Layer(starts, known, linked, stopped), MaxDepth)
  <2> HIDE DEF Is
  <2> QED
    BY <1>3, <1>4
<1> DEFINE L == Layer(starts, known, linked, stopped)
<1>6. L = [i \in 0..MaxDepth |-> S(L[i - 1], i)]
  BY <1>5
<1>7. L[n] = S(L[n - 1], n)
  <2> HIDE DEF S, L
  <2> QED
    BY <1>0, <1>6
<1> QED
  BY <1>7

LEMMA DepthsAreNat == MaxDepth \in Nat /\ Depths = 0..MaxDepth /\ Depths \subseteq Nat
  BY FS_CardinalityType, TraceAssumption DEF TraceAssumption, MaxDepth, Depths

LEMMA LayerCases ==
  ASSUME NEW starts, NEW known, NEW linked, NEW stopped, NEW n \in Depths,
         NEW o \in Layer(starts, known, linked, stopped)[n]
  PROVE  /\ o \in known
         /\ \/ <<n, o>> \in starts
            \/ /\ n # 0
               /\ \E p \in Layer(starts, known, linked, stopped)[n - 1] :
                    p \in linked \ stopped /\ o \in OutputsOf(Spender[p])
  BY LayerUnfolds DEF Spends

LEMMA LayerKnown ==
  ASSUME NEW starts, NEW known, NEW linked, NEW stopped, NEW n \in Depths
  PROVE  Layer(starts, known, linked, stopped)[n] \subseteq known
  BY LayerCases

LEMMA LayerStart ==
  ASSUME NEW starts, NEW known, NEW linked, NEW stopped, NEW n \in Depths, NEW o \in known,
         <<n, o>> \in starts
  PROVE  o \in Layer(starts, known, linked, stopped)[n]
  BY LayerUnfolds

LEMMA LayerStep ==
  ASSUME NEW starts, NEW known, NEW linked, NEW stopped, NEW n \in Depths, n + 1 \in Depths,
         NEW p \in Layer(starts, known, linked, stopped)[n], p \in linked \ stopped,
         NEW o \in known, o \in OutputsOf(Spender[p])
  PROVE  o \in Layer(starts, known, linked, stopped)[n + 1]
<1>1. n \in Nat /\ (n + 1) - 1 = n /\ n + 1 # 0
  BY DepthsAreNat
<1>2. o \in Spends(Layer(starts, known, linked, stopped)[(n + 1) - 1], linked, stopped)
  BY <1>1 DEF Spends
<1>3. Layer(starts, known, linked, stopped)[n + 1] =
        known \cap ({x \in known : <<n + 1, x>> \in starts} \cup
          (IF n + 1 = 0 THEN {}
           ELSE Spends(Layer(starts, known, linked, stopped)[(n + 1) - 1], linked, stopped)))
  BY LayerUnfolds
<1> QED
  BY <1>1, <1>2, <1>3

\* Layers grow with what is known, linked and not stopped.
LEMMA LayerGrows ==
  ASSUME NEW starts, NEW known, NEW linked, NEW stopped,
         NEW starts2, NEW known2, NEW linked2, NEW stopped2,
         known \subseteq known2, (known \cap linked) \ stopped \subseteq linked2 \ stopped2,
         \A n \in Depths, o \in known : <<n, o>> \in starts => o \in Layer(starts2, known2, linked2, stopped2)[n]
  PROVE  \A n \in Depths : Layer(starts, known, linked, stopped)[n]
                             \subseteq Layer(starts2, known2, linked2, stopped2)[n]
<1> DEFINE L == Layer(starts, known, linked, stopped)
           M == Layer(starts2, known2, linked2, stopped2)
           Bad == {n \in Depths : ~ (L[n] \subseteq M[n])}
<1> SUFFICES ASSUME Bad # {} PROVE FALSE
  OBVIOUS
<1>1. PICK n \in Bad : \A k \in Bad : n <= k
  <2> Bad \subseteq Nat
    BY DepthsAreNat
  <2> HIDE DEF Bad
  <2> QED BY LeastNatural
<1>2. PICK o \in L[n] : o \notin M[n]
  OBVIOUS
<1>3. n \in Depths /\ n \in Nat
  BY DepthsAreNat
<1>4. o \in known /\ <<n, o>> \notin starts
  BY <1>2, <1>3, LayerCases
<1>5. PICK p \in L[n - 1] : p \in linked \ stopped /\ o \in OutputsOf(Spender[p]) /\ n # 0
  BY <1>2, <1>3, <1>4, LayerCases
<1>6. n - 1 \in Depths /\ (n - 1) + 1 = n /\ n - 1 \notin Bad
  <2>1. n - 1 \in Depths /\ n - 1 < n
    BY <1>3, <1>5, DepthsAreNat
  <2> HIDE DEF Bad
  <2> QED
    BY <1>1, <1>3, <2>1
<1>7. p \in M[n - 1] /\ p \in known
  <2>1. \A k \in Depths : L[k] \subseteq known
    BY LayerKnown
  <2> QED
    BY <1>5, <1>6, <2>1
<1>8. o \in M[(n - 1) + 1]
  <2>1. p \in linked2 \ stopped2 /\ o \in known2
    BY <1>4, <1>5, <1>7
  <2>2. (n - 1) + 1 \in Depths
    BY <1>3, <1>6
  <2> HIDE DEF M
  <2> QED
    BY <1>5, <1>6, <1>7, <2>1, <2>2, LayerStep DEF M
<1> QED
  BY <1>2, <1>6, <1>8

\* A walk from one arrival has nothing above it.
LEMMA LayerBelow ==
  ASSUME NEW d \in Nat, NEW c, NEW known, NEW linked, NEW stopped,
         NEW n \in Depths, NEW o \in Layer({<<d, c>>}, known, linked, stopped)[n]
  PROVE  d <= n
<1> DEFINE starts == {<<d, c>>}
           L == Layer(starts, known, linked, stopped)
           Bad == {k \in Depths : L[k] # {} /\ k < d}
<1> SUFFICES ASSUME n < d PROVE FALSE
  BY DepthsAreNat
<1>a. n \in Bad
  OBVIOUS
<1>0. \A k, x : <<k, x>> \in starts => k = d
  OBVIOUS
<1>1. PICK k \in Bad : \A j \in Bad : k <= j
  <2> Bad \subseteq Nat
    BY DepthsAreNat
  <2> HIDE DEF Bad
  <2> QED BY <1>a, LeastNatural
<1>2. k \in Depths /\ k \in Nat /\ k < d
  BY DepthsAreNat
<1>3. PICK x \in L[k] : TRUE
  OBVIOUS
<1>4. <<k, x>> \notin starts
  BY <1>0, <1>2
<1>5. k # 0 /\ L[k - 1] # {}
  <2> HIDE DEF starts
  <2> QED
    BY <1>2, <1>3, <1>4, LayerCases
<1>6. k - 1 \in Depths /\ k - 1 < d /\ ~ (k <= k - 1)
  BY <1>2, <1>5, DepthsAreNat
<1>7. k - 1 \in Bad
  BY <1>5, <1>6
<1> HIDE DEF Bad
<1> QED
  BY <1>1, <1>6, <1>7

\* The chain has no cycle, so a layer's distance is less than the rank of its
\* transactions and the walk never reaches the bound of the layers.
LEMMA RankExists ==
  \E rank \in [Txs -> 1..MaxDepth] : \A o \in Outputs : Spender[o] # NoTx => rank[TxOf[o]] < rank[Spender[o]]
  BY TraceAssumption DEF TraceAssumption, MaxDepth

LEMMA LayerRanked ==
  ASSUME NEW rank \in [Txs -> 1..MaxDepth],
         \A o \in Outputs : Spender[o] # NoTx => rank[TxOf[o]] < rank[Spender[o]],
         NEW known, known \subseteq Outputs, NEW linked, NEW stopped,
         NEW n \in Depths, NEW o \in Layer({0} \X Seeds, known, linked, stopped)[n]
  PROVE  n < rank[TxOf[o]]
<1> DEFINE L == Layer({0} \X Seeds, known, linked, stopped)
           Bad == {k \in Depths : \E x \in L[k] : ~ (k < rank[TxOf[x]])}
<1> SUFFICES ASSUME Bad # {} PROVE FALSE
  OBVIOUS
<1>1. PICK k \in Bad : \A j \in Bad : k <= j
  <2> Bad \subseteq Nat
    BY DepthsAreNat
  <2> HIDE DEF Bad
  <2> QED BY LeastNatural
<1>2. k \in Depths /\ k \in Nat
  BY DepthsAreNat
<1>3. PICK x \in L[k] : ~ (k < rank[TxOf[x]])
  OBVIOUS
<1>0. \A j \in Depths : L[j] \subseteq known
  BY LayerKnown
<1>4. x \in known /\ x \in Outputs /\ TxOf[x] \in Txs /\ rank[TxOf[x]] \in 1..MaxDepth
  BY <1>0, <1>2, <1>3, TraceAssumption DEF TraceAssumption
<1>5. k # 0
  BY <1>3, <1>4, DepthsAreNat
<1>6. <<k, x>> \notin {0} \X Seeds
  BY <1>5
<1>7. PICK p \in L[k - 1] : p \in linked \ stopped /\ x \in OutputsOf(Spender[p])
  BY <1>2, <1>3, <1>6, LayerCases
<1>8. k - 1 \in Depths /\ ~ (k <= k - 1)
  BY <1>2, <1>5, DepthsAreNat
<1>9. k - 1 \notin Bad
  <2> HIDE DEF Bad
  <2> QED BY <1>1, <1>8
<1>10. k - 1 < rank[TxOf[p]]
  BY <1>7, <1>8, <1>9
<1>11. p \in Outputs /\ TxOf[p] \in Txs
  BY <1>0, <1>7, <1>8, TraceAssumption DEF TraceAssumption
<1>12. Spender[p] = TxOf[x] /\ Spender[p] # NoTx
  BY <1>4, <1>7, TraceAssumption DEF TraceAssumption, OutputsOf
<1>13. rank[TxOf[p]] < rank[TxOf[x]] /\ rank[TxOf[p]] \in 1..MaxDepth
  BY <1>11, <1>12
<1> QED
  BY <1>2, <1>3, <1>4, <1>10, <1>13, DepthsAreNat

\* A walk gives an output the shorter of its old depth and of its first layer.
LEMMA WalkedExact ==
  ASSUME NEW starts, NEW old \in DepthMap, NEW known, NEW linked, NEW stopped, NEW o \in Outputs
  PROVE  LET L == Layer(starts, known, linked, stopped)
             W == Walked(starts, old, known, linked, stopped)
         IN /\ \A n \in Depths : o \in L[n] => W[o] # None /\ W[o] <= n
            /\ \/ W[o] = old[o]
               \/ W[o] \in Depths /\ o \in L[W[o]] /\ (old[o] = None \/ W[o] < old[o])
<1> DEFINE L == Layer(starts, known, linked, stopped)
           at == [n \in Depths |-> known \cap L[n]]
           ns == {n \in Depths : o \in at[n]}
           m == CHOOSE n \in ns : \A k \in ns : n <= k
           W == Walked(starts, old, known, linked, stopped)
<1>1. W[o] = IF ns = {} THEN old[o] ELSE IF old[o] = None \/ m < old[o] THEN m ELSE old[o]
  BY DEF Walked
<1>2. \A n \in Depths : n \in ns <=> o \in L[n]
  <2> HIDE DEF L
  <2>1. \A n \in Depths : o \in L[n] => o \in known
    BY LayerCases DEF L
  <2> QED
    BY <2>1
<1>3. ns \subseteq Depths /\ ns \subseteq Nat
  BY DepthsAreNat
<1> HIDE DEF L, ns, W
<1>4. ns # {} => m \in ns /\ \A k \in ns : m <= k
  <2> SUFFICES ASSUME ns # {} PROVE m \in ns /\ \A k \in ns : m <= k
    OBVIOUS
  <2>1. \E n \in ns : \A k \in ns : n <= k
    BY <1>3, LeastNatural
  <2> QED
    BY <2>1
<1> HIDE DEF m
<1>5. old[o] \in Nat \cup {None} /\ None \notin Nat
  BY NoneIsNoRecord DEF DepthMap
<1>6. CASE ns = {}
  BY <1>1, <1>2, <1>6 DEF W, L
<1>7. CASE ns # {} /\ (old[o] = None \/ m < old[o])
  <2>1. W[o] = m /\ m \in Depths /\ o \in L[m] /\ m \in Nat
    BY <1>1, <1>2, <1>3, <1>4, <1>7
  <2>2. \A n \in Depths : o \in L[n] => m <= n
    BY <1>2, <1>4, <1>7
  <2> QED
    BY <1>5, <1>7, <2>1, <2>2 DEF W, L
<1>8. CASE ns # {} /\ ~ (old[o] = None \/ m < old[o])
  <2>0. m \in Nat /\ old[o] \in Nat
    BY <1>3, <1>4, <1>5, <1>8
  <2>1. W[o] = old[o] /\ old[o] \in Nat /\ m \in Nat /\ old[o] <= m
    BY <1>1, <1>8, <2>0
  <2>2. \A n \in Depths : o \in L[n] => n \in Nat /\ m <= n
    BY <1>2, <1>3, <1>4, <1>8
  <2>3. \A n \in Depths : o \in L[n] => W[o] # None /\ W[o] <= n
    BY <1>5, <2>1, <2>2
  <2> QED
    BY <2>1, <2>3 DEF W, L
<1> QED
  BY <1>6, <1>7, <1>8
-----------------------------------------------------------------------------
(* What the rules cut off                                                  *)

SaysTerminal(r) == r.status \in Terminal \/ r.prev \in Terminal

\* The layers of the walk from the seeds.
Full == Layer({0} \X Seeds, Known(out), links, StoppedNow)

\* An inactive scope holds nothing.
Plain == ~active => stops = {} /\ \A o \in Known(out) : ~Held(out, o)
\* A depth is the length of a path from a seed that passes no stop.
ScopeSound ==
  active => \A o \in Outputs : depths[o] # None => o \in Known(out) /\ depths[o] \in Depths /\ o \in Full[depths[o]]
\* What has no depth is held, and nothing else but the stops is.
HeldIsCut ==
  active => \A o \in Known(out) : /\ Held(out, o) => o \in StoppedNow \/ depths[o] = None
                                  /\ depths[o] = None => Held(out, o)
\* An output that pays a stop and is not held is a seed still to be examined.
Open == pc # "idle" /\ (pc = "finished" => reason = None)
Stops(o) == KindOf[o] = "spendable" /\ AddressOf[o] \in stops
StopsHeld ==
  \A o \in Known(out) : Stops(o) /\ ~Held(out, o) =>
    /\ o \in Seeds \ links
    /\ Open /\ only = None => out[o].status = "pending"
\* Only a seed can be known before its transaction was read, and has no link.
DataKept ==
  \A o \in Known(out) : data[TxOf[o]] = "absent" => o \in Seeds \ links /\ ~SaysTerminal(out[o])
LatestData ==
  latest # None =>
    \A o \in Known(latest.out) :
      latest.data[TxOf[o]] = "absent" => o \in Seeds \ latest.links /\ ~SaysTerminal(latest.out[o])
\* The output under examination is not held, and past its classification it is
\* inside the bounds of the run.
InBounds(o) == KindOf[o] = "spendable" /\ AddressOf[o] \notin stops /\ ScopeDepth(o, out, depths) < hops
Followed ==
  /\ pc \in {"fund", "classify", "spend", "child", "link", "add"} => ~Held(out, current)
  /\ pc \in {"spend", "child", "link", "add"} => InBounds(current)
\* Its transaction was read, and later the one that spends it.
Fetched ==
  /\ pc \in {"classify", "spend", "child", "link", "add"} => data[TxOf[current]] # "absent"
  /\ pc \in {"link", "add"} => \A c \in OutputsOf(Spender[current]) : data[TxOf[c]] # "absent"
  /\ pc = "add" => current \in links /\ children \subseteq OutputsOf(Spender[current])
CutInv ==
  /\ Plain /\ ScopeSound /\ HeldIsCut /\ StopsHeld /\ DataKept /\ LatestData
  /\ Followed /\ Fetched /\ RequestsInScope

\* The seeds are known and at depth 0, and a depth passes along every link but
\* those whose children are still being added.
SeedsKnown == /\ pc # "idle" => Seeds \subseteq Known(out)
              /\ latest # None => Seeds \subseteq Known(latest.out)
SeedsScoped == pc # "idle" /\ active => \A o \in Seeds : depths[o] = 0
ScopeClosed ==
  active => \A p \in (Known(out) \cap links) \ StoppedNow : depths[p] # None =>
    \A o \in OutputsOf(Spender[p]) \cap Known(out) :
       \/ pc = "add" /\ p = current /\ o \in children
       \/ depths[o] # None /\ depths[o] <= depths[p] + 1
ExactInv == SeedsKnown /\ SeedsScoped /\ ScopeClosed

LEMMA Vocabulary ==
  /\ Terminal \subseteq Statuses /\ Reasons \subseteq Statuses /\ Holds \subseteq Statuses
  /\ Terminal \cap Reasons = {} /\ Terminal \cap Holds = {} /\ None \notin Statuses /\ None \notin Nat
  /\ "pending" \notin Terminal /\ "pending" \in Statuses /\ "suspected_service_stop" \in Holds
  /\ "spendable" \notin Terminal /\ "held_behind_service" \in Holds
  BY TraceAssumption DEF TraceAssumption, Terminal, Reasons, Holds, Statuses

\* A walk through more links and no more stops finds what the old one found.
LEMMA FullGrows ==
  ASSUME Known(out) \subseteq Known(out'), (Known(out) \cap links) \ StoppedNow \subseteq links' \ StoppedNow'
  PROVE  \A n \in Depths : Full[n] \subseteq Full'[n]
<1> DEFINE starts == {0} \X Seeds
           known2 == Known(out')
           stopped2 == StoppedNow'
<1>1. Full = Layer(starts, Known(out), links, StoppedNow) /\ Full' = Layer(starts, known2, links', stopped2)
  BY DEF Full
<1> HIDE DEF starts, known2, stopped2
<1>2. \A n \in Depths, o \in Known(out) : <<n, o>> \in starts => o \in Layer(starts, known2, links', stopped2)[n]
  BY LayerStart DEF known2
<1>3. \A n \in Depths : Layer(starts, Known(out), links, StoppedNow)[n] \subseteq Layer(starts, known2, links', stopped2)[n]
  BY <1>2, LayerGrows DEF known2, stopped2
<1> QED
  BY <1>1, <1>3

\* A step that leaves the outputs' holds, the links and the scope alone, and the
\* rules of the run, keeps what was cut and what was requested.
LEMMA QuietCut ==
  ASSUME TypeInv, CutInv, UNCHANGED <<links, depths, active, stops, hops, only, latest, data>>,
         \A o \in Outputs : /\ out'[o] = None <=> out[o] = None
                            /\ out[o] # None => /\ out'[o].hold = out[o].hold /\ out'[o].depth = out[o].depth
                                                /\ SaysTerminal(out'[o]) => SaysTerminal(out[o]) \/ data[TxOf[o]] # "absent",
         Open' => Open /\ \A o \in Known(out) : Stops(o) => out'[o].status = out[o].status,
         \A t \in Txs : gotSpend'[t] # None => gotSpend[t] # None
                          \/ \E o \in OutputsOf(t) \cap Known(out) : InBounds(o) /\ ~Held(out, o)
  PROVE  Plain' /\ ScopeSound' /\ HeldIsCut' /\ StopsHeld' /\ DataKept' /\ LatestData' /\ RequestsInScope'
<1>1. Known(out') = Known(out) /\ Known(out) \subseteq Outputs
  BY DEF Known
<1>2. \A o \in Known(out) : Held(out', o) <=> Held(out, o)
  BY DEF Held, Known
<1>3. StoppedNow' = StoppedNow /\ Full' = Full
  <2>1. StoppedNow' = StoppedNow
    BY <1>1 DEF StoppedNow, StopAddress
  <2> QED
    BY <1>1, <2>1 DEF Full
<1>4. \A o \in Known(out) : ScopeDepth(o, out', depths') = ScopeDepth(o, out, depths)
  BY DEF ScopeDepth, Known
<1>5. Plain' /\ ScopeSound' /\ HeldIsCut' /\ LatestData'
  BY <1>1, <1>2, <1>3 DEF CutInv, Plain, ScopeSound, HeldIsCut, LatestData
<1>6. StopsHeld'
  BY <1>1, <1>2 DEF CutInv, StopsHeld, Stops
<1>7. DataKept'
  BY <1>1 DEF CutInv, DataKept, Known
<1>8. RequestsInScope'
  <2> SUFFICES ASSUME NEW t \in Txs, gotSpend'[t] # None
               PROVE  \E o \in OutputsOf(t) \cap Known(out') :
                        KindOf[o] = "spendable" /\ AddressOf[o] \notin stops' /\ ~Held(out', o)
                        /\ ScopeDepth(o, out', depths') < hops'
    BY DEF RequestsInScope
  <2>1. \E o \in OutputsOf(t) \cap Known(out) : InBounds(o) /\ ~Held(out, o)
    BY DEF CutInv, RequestsInScope, InBounds
  <2> QED
    BY <1>1, <1>2, <1>4, <2>1 DEF InBounds
<1> QED
  BY <1>5, <1>6, <1>7, <1>8

LEMMA QuietExact ==
  ASSUME ExactInv, UNCHANGED <<links, depths, active, stops, latest, data>>, Known(out') = Known(out),
         pc' # "idle" => pc # "idle",
         pc = "add" => children = {} \/ (pc' = "add" /\ current' = current /\ children' = children)
  PROVE  ExactInv'
<1>1. StoppedNow' = StoppedNow
  BY DEF StoppedNow, StopAddress
<1> QED
  BY <1>1 DEF ExactInv, SeedsKnown, SeedsScoped, ScopeClosed
-----------------------------------------------------------------------------
(* An arrival                                                              *)

LEMMA RestoredEffect ==
  ASSUME NEW r \in Record
  PROVE  /\ Restored(r) \in Record /\ Restored(r).hold = None
         /\ SaysTerminal(Restored(r)) => SaysTerminal(r)
         /\ Restored(r).depth = r.depth
<1>1. Restored(r) \in Record
  BY RestoredType
<1> QED
  BY <1>1, Vocabulary DEF Restored, Record, SaysTerminal

LEMMA HoldForEffect ==
  ASSUME NEW r \in Record, NEW why \in Holds
  PROVE  /\ HoldFor(r, why) \in Record /\ HoldFor(r, why).hold # None
         /\ SaysTerminal(HoldFor(r, why)) => SaysTerminal(r)
         /\ HoldFor(r, why).depth = r.depth
<1>1. HoldFor(r, why) \in Record
  BY HoldForType
<1> QED
  BY <1>1, Vocabulary DEF HoldFor, Record, SaysTerminal

\* What add() does to each output under an active scope.
LEMMA ArrivalEffect ==
  ASSUME TypeInv, active, NEW c \in Outputs, NEW d \in Nat, Add(c, d), UNCHANGED <<stops, data, links>>
  PROVE  /\ Known(out') = Known(out) \cup {c}
         /\ \/ depths' = depths /\ depths[c] # None /\ depths[c] <= d
            \/ depths' = Walked({<<d, c>>}, depths, Known(out'), links, StoppedNow')
         /\ \A o \in Known(out') :
              /\ depths'[o] # depths[o] =>
                   /\ Held(out', o) <=> o \in StoppedNow'
                   /\ o \notin StoppedNow' => out'[o].status \in Terminal \cup {"pending"}
              /\ depths'[o] = depths[o] =>
                   /\ Held(out', o) <=> o \in Known(out) /\ Held(out, o)
                   /\ out'[o].status = "pending" \/ (o \in Known(out) /\ out'[o].status = out[o].status)
              /\ SaysTerminal(out'[o]) => o \in Known(out) /\ SaysTerminal(out[o])
<1> DEFINE arrived == [out EXCEPT ![c] = Arrived(out[c], d)]
           known == Known(arrived)
           stopped == {o \in known : StopAddress(o, stops, data)}
           walk == IF depths[c] # None /\ depths[c] <= d THEN depths
                   ELSE Walked({<<d, c>>}, depths, known, links, stopped)
           visited == Visited(depths, walk)
           walked == AfterWalk(arrived, visited, stopped)
           cand == Candidates(visited \ stopped, walked, c, out[c] = None)
<1>0. out \in Records /\ depths \in DepthMap /\ out[c] \in Record \cup {None}
  BY TypeGroups DEF TypeInv, WorkType, Records
<1>1. /\ out' = [o \in Outputs |-> IF o \in cand THEN [walked[o] EXCEPT !.status = "pending"] ELSE walked[o]]
      /\ depths' = walk
  <2>1. /\ out' = [o \in Outputs |-> IF o \in cand THEN [walked[o] EXCEPT !.status = "pending"]
                                     ELSE walked[o]]
        /\ queue' = Push(queue, Ready(walked, walk, cand))
        /\ depths' = walk
    BY AddScopedDoes DEF Add, ScopedResult
  <2> QED
    BY <2>1
<1>2. Arrived(out[c], d) \in Record
  BY <1>0, ArrivedType
<1>3. arrived \in Records /\ known = Known(out) \cup {c} /\ arrived[c] = Arrived(out[c], d)
      /\ \A o \in Outputs : o # c => arrived[o] = out[o]
  BY <1>0, <1>2, NoneIsNoRecord DEF Records, Known
<1>4. /\ Arrived(out[c], d).status = "pending" \/ Arrived(out[c], d) = out[c]
      /\ out[c] # None => Arrived(out[c], d).hold = out[c].hold
      /\ out[c] = None => Arrived(out[c], d).hold = None /\ Arrived(out[c], d).prev = None
                          /\ Arrived(out[c], d).status = "pending"
      /\ SaysTerminal(Arrived(out[c], d)) => out[c] # None /\ SaysTerminal(out[c])
  BY <1>0, Vocabulary, NoneIsNoRecord DEF Arrived, Record, SaysTerminal
<1>5. visited \subseteq known
  <2>1. \A o \in Outputs : Walked({<<d, c>>}, depths, known, links, stopped)[o] # depths[o] => o \in known
    <3> HIDE DEF known, stopped
    <3> QED BY <1>0, WalkedType
  <2> HIDE DEF known, stopped
  <2> QED
    BY <2>1 DEF Visited
<1>6. \A o \in Outputs : o \in visited <=> walk[o] # depths[o]
  BY DEF Visited
<1>7. \A o \in Outputs : walked[o] = IF o \notin visited THEN arrived[o]
                                     ELSE IF o \in stopped THEN HoldFor(Restored(arrived[o]), "suspected_service_stop")
                                          ELSE Restored(arrived[o])
  BY DEF AfterWalk
<1>8. \A o \in known : o \in Outputs /\ arrived[o] \in Record
  BY <1>3, NoneIsNoRecord DEF Known, Records
<1>9. cand = {o \in (visited \ stopped) \cup (IF out[c] = None \/ walked[c].status = "pending" THEN {c} ELSE {}) :
                ~Held(walked, o) /\ walked[o].status \notin Terminal}
  BY DEF Candidates
<1>10. (depths' = depths /\ depths[c] # None /\ depths[c] <= d)
       \/ depths' = Walked({<<d, c>>}, depths, known, links, stopped)
  BY <1>1
<1> HIDE DEF arrived, walk, visited, walked, cand
<1>11. c \in known /\ cand \subseteq known
  BY <1>3, <1>5, <1>9
<1>12. \A o \in known : walked[o] \in Record
  <2> SUFFICES ASSUME NEW o \in known PROVE walked[o] \in Record
    OBVIOUS
  <2> QED
    BY <1>7, <1>8, RestoredEffect, HoldForEffect, Vocabulary
<1>13. \A o \in known : /\ o \in cand => out'[o] = [walked[o] EXCEPT !.status = "pending"]
                        /\ o \notin cand => out'[o] = walked[o]
  BY <1>1, <1>8
<1>14. \A o \in known : /\ out'[o].hold = walked[o].hold /\ out'[o].prev = walked[o].prev
                        /\ out'[o] # None
                        /\ o \in cand => out'[o].status = "pending"
                        /\ o \notin cand => out'[o].status = walked[o].status
  <2> HIDE DEF known
  <2> TAKE o \in known
  <2>1. walked[o] \in Record
    BY <1>12
  <2>2. CASE o \in cand
    <3>1. out'[o] = [walked[o] EXCEPT !.status = "pending"]
      BY <1>13, <2>2
    <3>2. out'[o] \in Record
      BY <2>1, <3>1, PendingType, NoneIsNoStatus, Vocabulary
    <3> QED
      BY <2>1, <2>2, <3>1, <3>2, NoneIsNoRecord DEF Record
  <2>3. CASE o \notin cand
    BY <1>13, <2>1, <2>3, NoneIsNoRecord
  <2> QED
    BY <2>2, <2>3
<1>15. Known(out') = known
  <2>1. \A o \in Outputs : o \notin known => out'[o] = None
    <3>1. \A o \in Outputs : o \notin known => arrived[o] = None /\ o \notin visited /\ o \notin cand
      BY <1>5, <1>11 DEF known, Known
    <3> QED
      BY <1>1, <1>7, <3>1
  <2> QED
    BY <1>14, <1>8, <2>1 DEF Known
<1>16. StoppedNow' = stopped
  BY <1>15 DEF StoppedNow
<1>17. ASSUME NEW o \in known, depths'[o] # depths[o]
       PROVE  /\ Held(out', o) <=> o \in stopped
              /\ o \notin stopped => out'[o].status \in Terminal \cup {"pending"}
  <2>1. o \in visited
    BY <1>1, <1>6, <1>8, <1>17
  <2>2. o \in stopped => walked[o].hold # None
    BY <1>7, <1>8, <2>1, RestoredEffect, HoldForEffect, Vocabulary
  <2>3. o \notin stopped => walked[o].hold = None
    BY <1>7, <1>8, <2>1, RestoredEffect
  <2>4. o \notin stopped /\ o \notin cand => walked[o].status \in Terminal
    BY <1>9, <2>1, <2>3 DEF Held
  <2> QED
    BY <1>14, <2>2, <2>3, <2>4 DEF Held
<1>18. ASSUME NEW o \in known, depths'[o] = depths[o]
       PROVE  /\ Held(out', o) <=> o \in Known(out) /\ Held(out, o)
              /\ out'[o].status = "pending" \/ (o \in Known(out) /\ out'[o].status = out[o].status)
  <2>1. walked[o] = arrived[o]
    BY <1>1, <1>6, <1>7, <1>8, <1>18
  <2>2. CASE o # c
    <3>1. arrived[o] = out[o] /\ o \in Known(out)
      BY <1>3, <1>8, <2>2
    <3> QED
      BY <1>14, <2>1, <3>1 DEF Held
  <2>3. CASE o = c
    <3>1. out[c] = None <=> c \notin Known(out)
      BY DEF Known
    <3>2. arrived[c].hold # None <=> c \in Known(out) /\ Held(out, c)
      BY <1>3, <1>4, <3>1 DEF Held
    <3>3. arrived[c].status = "pending" \/ (c \in Known(out) /\ arrived[c].status = out[c].status)
      BY <1>3, <1>4, <3>1
    <3> QED
      BY <1>14, <2>1, <2>3, <3>2, <3>3 DEF Held
  <2> QED
    BY <2>2, <2>3
<1>19. ASSUME NEW o \in known, SaysTerminal(out'[o])
       PROVE  o \in Known(out) /\ SaysTerminal(out[o])
  <2>1. SaysTerminal(walked[o])
    BY <1>14, <1>19, Vocabulary DEF SaysTerminal
  <2>2. SaysTerminal(arrived[o])
    BY <1>7, <1>8, <2>1, RestoredEffect, HoldForEffect, Vocabulary
  <2>3. o = c => o \in Known(out) /\ SaysTerminal(out[o])
    BY <1>3, <1>4, <2>2 DEF Known
  <2>4. o # c => o \in Known(out) /\ SaysTerminal(out[o])
    BY <1>3, <1>8, <2>2
  <2> QED
    BY <2>3, <2>4
<1> HIDE DEF known, stopped
<1> QED
  BY <1>3, <1>10, <1>15, <1>16, <1>17, <1>18, <1>19

\* There is a layer below the outputs of a layer that have a spender.
LEMMA LayerBelowFits ==
  ASSUME NEW known, known \subseteq Outputs, NEW linked, NEW stopped, NEW n \in Depths,
         NEW p \in Layer({0} \X Seeds, known, linked, stopped)[n], NEW o \in OutputsOf(Spender[p])
  PROVE  n + 1 \in Depths
<1>1. PICK rank \in [Txs -> 1..MaxDepth] :
        \A x \in Outputs : Spender[x] # NoTx => rank[TxOf[x]] < rank[Spender[x]]
  BY RankExists
<1>2. n < rank[TxOf[p]]
  BY <1>1, LayerRanked
<1>3. p \in Outputs /\ o \in Outputs /\ Spender[p] = TxOf[o]
  BY LayerKnown DEF OutputsOf
<1>4. TxOf[p] \in Txs /\ TxOf[o] \in Txs /\ Spender[p] # NoTx
  BY <1>3, TraceAssumption DEF TraceAssumption
<1>5. rank[TxOf[p]] < rank[TxOf[o]] /\ rank[TxOf[o]] \in 1..MaxDepth /\ rank[TxOf[p]] \in 1..MaxDepth
  BY <1>1, <1>3, <1>4
<1> QED
  BY <1>2, <1>5, DepthsAreNat

LEMMA NextLayerFits ==
  \A n \in Depths : \A p \in Full'[n] : \A o \in OutputsOf(Spender[p]) : n + 1 \in Depths
<1> SUFFICES ASSUME NEW n \in Depths, NEW p \in Full'[n], NEW o \in OutputsOf(Spender[p])
             PROVE  n + 1 \in Depths
  OBVIOUS
<1> DEFINE known == Known(out')
           stopped == StoppedNow'
<1>1. p \in Layer({0} \X Seeds, known, links', stopped)[n] /\ known \subseteq Outputs
  BY DEF Full, Known
<1> HIDE DEF known, stopped
<1> QED
  BY <1>1, LayerBelowFits

\* Where a child arrives: one spend below the output under examination, on a
\* path from a seed that passes no stop.
LEMMA ChildDepth ==
  ASSUME TypeInv, CutInv, active, pc = "add", NEW c \in children
  PROVE  LET d == ScopeDepth(current, out, depths) + 1
         IN /\ depths[current] \in Depths /\ d = depths[current] + 1 /\ d \in Depths
            /\ current \in Known(out) /\ current \in links \ StoppedNow
            /\ current \in Full[depths[current]] /\ c \in OutputsOf(Spender[current])
            /\ c \in Outputs /\ data[TxOf[c]] # "absent"
<1>1. current \in Outputs /\ current \in Known(out) /\ c \in Outputs
  BY TypeGroups DEF TypeInv, WorkType, EvidenceType, CurrentKnown, Known
<1>2. ~Held(out, current) /\ InBounds(current) /\ current \in links /\ c \in OutputsOf(Spender[current])
  BY DEF CutInv, Followed, Fetched
<1>3. depths[current] # None
  BY <1>1, <1>2 DEF CutInv, HeldIsCut
<1>4. depths[current] \in Depths /\ current \in Full[depths[current]]
  BY <1>1, <1>3 DEF CutInv, ScopeSound
<1>5. current \notin StoppedNow
  BY <1>2 DEF InBounds, StoppedNow, StopAddress
<1>6. data[TxOf[c]] # "absent"
  BY <1>2 DEF CutInv, Fetched
<1>7. depths[current] + 1 \in Depths
  <2> DEFINE known == Known(out)
             stopped == StoppedNow
  <2>1. current \in Layer({0} \X Seeds, known, links, stopped)[depths[current]] /\ known \subseteq Outputs
    BY <1>4 DEF Full, Known
  <2> HIDE DEF known, stopped
  <2> QED
    BY <1>2, <1>4, <2>1, LayerBelowFits
<1> QED
  BY <1>1, <1>2, <1>3, <1>4, <1>5, <1>6, <1>7 DEF ScopeDepth

\* The walk from the child: every depth is one of the new full walk, none grows,
\* and the child has one.
LEMMA ArrivalDepths ==
  ASSUME TypeInv, CutInv, active, pc = "add", NEW c \in children, NEW d, d = ScopeDepth(current, out, depths) + 1,
         Add(c, d), UNCHANGED <<stops, data, links>>
  PROVE  /\ Known(out') = Known(out) \cup {c}
         /\ \A o \in Known(out) : o \in StoppedNow' <=> o \in StoppedNow
         /\ \A n \in Depths : Full[n] \subseteq Full'[n]
         /\ \A o \in Outputs :
              \/ depths'[o] = depths[o]
              \/ /\ depths'[o] \in Depths /\ o \in Full'[depths'[o]] /\ o \in Known(out')
                 /\ depths[o] = None \/ depths'[o] < depths[o]
         /\ depths'[c] # None /\ depths'[c] <= d /\ d \in Depths
         /\ \A p \in (Known(out') \cap links) \ StoppedNow' : depths'[p] # depths[p] =>
              \A o \in OutputsOf(Spender[p]) \cap Known(out') : depths'[o] # None /\ depths'[o] <= depths'[p] + 1
<1>1. /\ depths[current] \in Depths /\ d = depths[current] + 1 /\ d \in Depths /\ d \in Nat
      /\ current \in Known(out) /\ current \in links \ StoppedNow
      /\ current \in Full[depths[current]] /\ c \in OutputsOf(Spender[current])
      /\ c \in Outputs /\ data[TxOf[c]] # "absent"
  BY ChildDepth, DepthsAreNat
<1>2. /\ Known(out') = Known(out) \cup {c}
      /\ \/ depths' = depths /\ depths[c] # None /\ depths[c] <= d
         \/ depths' = Walked({<<d, c>>}, depths, Known(out'), links, StoppedNow')
  BY <1>1, ArrivalEffect
<1>3. \A o \in Known(out) : o \in StoppedNow' <=> o \in StoppedNow
  BY <1>2 DEF StoppedNow, StopAddress
<1>4. \A n \in Depths : Full[n] \subseteq Full'[n]
  BY <1>2, <1>3, FullGrows
<1> DEFINE starts == {<<d, c>>}
           seeds == {0} \X Seeds
           known == Known(out')
           stopped == StoppedNow'
           L == Layer(starts, known, links, stopped)
           F == Layer(seeds, known, links, stopped)
<1>5. F = Full'
  BY DEF Full
<1>6. starts = {<<d, c>>} /\ c \in known /\ current \in links \ stopped /\ current \in F[depths[current]]
  BY <1>1, <1>2, <1>3, <1>4, <1>5
<1> HIDE DEF starts, seeds, known, stopped
<1>7. c \in F[d]
  BY <1>1, <1>6, LayerStep
<1>8. \A n \in Depths : L[n] \subseteq F[n]
  <2>1. \A n \in Depths, o \in known : <<n, o>> \in starts => o \in F[n]
    BY <1>6, <1>7
  <2> QED
    BY <2>1, LayerGrows
<1>9. c \in L[d]
  BY <1>1, <1>6, LayerStart
<1>10. depths \in DepthMap
  BY TypeGroups DEF TypeInv, WorkType
<1>11. CASE depths' = Walked(starts, depths, known, links, stopped)
  <2>1. \A o \in Outputs :
          /\ \A n \in Depths : o \in L[n] => depths'[o] # None /\ depths'[o] <= n
          /\ \/ depths'[o] = depths[o]
             \/ depths'[o] \in Depths /\ o \in L[depths'[o]] /\ (depths[o] = None \/ depths'[o] < depths[o])
    BY <1>10, <1>11, WalkedExact
  <2>2. \A n \in Depths : L[n] \subseteq known
    BY LayerKnown
  <2>3. ASSUME NEW p \in (known \cap links) \ stopped, depths'[p] # depths[p],
               NEW o \in OutputsOf(Spender[p]) \cap known
        PROVE  depths'[o] # None /\ depths'[o] <= depths'[p] + 1
    <3>1. p \in Outputs /\ o \in Outputs
      BY DEF known, Known
    <3>2. depths'[p] \in Depths /\ p \in L[depths'[p]]
      BY <2>1, <2>3, <3>1
    <3>3. depths'[p] + 1 \in Depths
      <4>1. p \in Full'[depths'[p]]
        BY <1>5, <1>8, <3>2
      <4> QED
        BY <2>3, <3>2, <4>1, NextLayerFits DEF known, stopped
    <3>4. o \in L[depths'[p] + 1]
      BY <2>3, <3>2, <3>3, LayerStep
    <3> QED
      BY <2>1, <3>1, <3>3, <3>4
  <2> HIDE DEF L, F
  <2> QED
    BY <1>1, <1>2, <1>3, <1>4, <1>5, <1>8, <1>9, <2>1, <2>2, <2>3 DEF known, stopped
<1>12. CASE depths' = depths /\ depths[c] # None /\ depths[c] <= d
  BY <1>1, <1>2, <1>3, <1>4, <1>12
<1> QED
  BY <1>2, <1>11, <1>12 DEF starts, known, stopped

LEMMA AddScopedCut ==
  ASSUME TypeInv, CutInv, AddChild, active
  PROVE  CutInv'
<1>1. /\ UNCHANGED <<pc, latest, runs, links, data, stops, hops, only, active, current, gotTx, gotSpend>>
      /\ pc = "add"
  BY DEF AddChild, runVars, memoVars
<1>2. PICK c \in children : children' = children \ {c} /\ Add(c, ScopeDepth(current, out, depths) + 1)
  BY DEF AddChild
<1> DEFINE d == ScopeDepth(current, out, depths) + 1
<1>3. /\ d = depths[current] + 1 /\ d \in Depths /\ d \in Nat /\ current \in Known(out)
      /\ c \in Outputs /\ data[TxOf[c]] # "absent"
  BY <1>1, <1>2, ChildDepth, DepthsAreNat
<1>4. /\ Known(out') = Known(out) \cup {c}
      /\ \A o \in Known(out) : o \in StoppedNow' <=> o \in StoppedNow
      /\ \A n \in Depths : Full[n] \subseteq Full'[n]
      /\ \A o \in Outputs :
              \/ depths'[o] = depths[o]
              \/ /\ depths'[o] \in Depths /\ o \in Full'[depths'[o]] /\ o \in Known(out')
                 /\ depths[o] = None \/ depths'[o] < depths[o]
      /\ depths'[c] # None /\ depths'[c] <= d
  BY <1>1, <1>2, ArrivalDepths
<1>5. \A o \in Known(out') :
        /\ depths'[o] # depths[o] =>
             /\ Held(out', o) <=> o \in StoppedNow'
             /\ o \notin StoppedNow' => out'[o].status \in Terminal \cup {"pending"}
        /\ depths'[o] = depths[o] =>
             /\ Held(out', o) <=> o \in Known(out) /\ Held(out, o)
             /\ out'[o].status = "pending" \/ (o \in Known(out) /\ out'[o].status = out[o].status)
        /\ SaysTerminal(out'[o]) => o \in Known(out) /\ SaysTerminal(out[o])
  BY <1>1, <1>2, <1>3, ArrivalEffect
<1> HIDE DEF d
<1>6. \A o \in Outputs : depths'[o] = depths[o] \/ depths'[o] # None
  BY <1>4, DepthsAreNat, Vocabulary
<1>7. \A o \in Known(out') : o \in Outputs
  BY DEF Known
<1>8. ScopeSound'
  <2> SUFFICES ASSUME NEW o \in Outputs, depths'[o] # None
               PROVE  o \in Known(out') /\ depths'[o] \in Depths /\ o \in Full'[depths'[o]]
    BY DEF ScopeSound
  <2>1. CASE depths'[o] = depths[o]
    <3>1. o \in Known(out) /\ depths[o] \in Depths /\ o \in Full[depths[o]]
      BY <2>1 DEF CutInv, ScopeSound
    <3> QED
      BY <1>4, <2>1, <3>1
  <2> QED
    BY <1>4, <2>1
<1>9. HeldIsCut'
  <2> SUFFICES ASSUME NEW o \in Known(out')
               PROVE  /\ Held(out', o) => o \in StoppedNow' \/ depths'[o] = None
                      /\ depths'[o] = None => Held(out', o)
    BY DEF HeldIsCut
  <2>1. CASE depths'[o] # depths[o]
    BY <1>5, <1>6, <1>7, <2>1
  <2>2. CASE depths'[o] = depths[o] /\ o \in Known(out)
    <3>1. /\ Held(out, o) => o \in StoppedNow \/ depths[o] = None
          /\ depths[o] = None => Held(out, o)
      BY <2>2 DEF CutInv, HeldIsCut
    <3> QED
      BY <1>4, <1>5, <2>2, <3>1
  <2>3. CASE depths'[o] = depths[o] /\ o \notin Known(out)
    <3>1. o = c
      BY <1>4, <2>3
    <3> QED
      BY <1>4, <1>5, <2>3, <3>1
  <2> QED
    BY <2>1, <2>2, <2>3
<1>10. StopsHeld'
  <2> SUFFICES ASSUME NEW o \in Known(out'), Stops(o), ~Held(out', o)
               PROVE  o \in Seeds \ links /\ (only = None => out'[o].status = "pending")
    BY <1>1 DEF StopsHeld, Stops, Open
  <2>1. CASE depths'[o] # depths[o]
    <3>1. o \notin StoppedNow' /\ out'[o].status \in Terminal \cup {"pending"}
      BY <1>5, <2>1
    <3>2. data[TxOf[o]] = "absent"
      BY <1>1, <3>1 DEF StoppedNow, StopAddress, Stops
    <3>3. o \in Known(out)
      BY <1>3, <1>4, <3>2
    <3>4. o \in Seeds \ links /\ ~SaysTerminal(out[o])
      BY <3>2, <3>3 DEF CutInv, DataKept
    <3>5. out'[o].status \notin Terminal
      BY <1>5, <3>4 DEF SaysTerminal
    <3> QED
      BY <3>1, <3>4, <3>5
  <2>2. CASE depths'[o] = depths[o] /\ o \in Known(out)
    <3>1. o \in Seeds \ links /\ (only = None => out[o].status = "pending")
      BY <1>1, <1>5, <2>2 DEF CutInv, StopsHeld, Open
    <3> QED
      BY <1>5, <2>2, <3>1
  <2>3. CASE depths'[o] = depths[o] /\ o \notin Known(out)
    <3>1. o = c /\ depths[c] = None
      BY <1>4, <1>7, <2>3 DEF CutInv, ScopeSound
    <3> QED
      BY <1>4, <2>3, <3>1
  <2> QED
    BY <2>1, <2>2, <2>3
<1>11. DataKept'
  BY <1>1, <1>3, <1>4, <1>5 DEF CutInv, DataKept
<1>12. ASSUME NEW o \in Known(out), InBounds(o), ~Held(out, o)
       PROVE  InBounds(o)' /\ ~Held(out', o) /\ o \in Known(out')
  <2>1. depths[o] # None /\ o \notin StoppedNow /\ o \in Outputs
    BY <1>12 DEF CutInv, HeldIsCut, InBounds, StoppedNow, StopAddress, Known
  <2>2. depths[o] < hops /\ depths[o] \in Nat
    BY <1>12, <2>1, DepthsAreNat DEF InBounds, ScopeDepth, CutInv, ScopeSound
  <2>3. depths'[o] # None /\ depths'[o] < hops'
    <3>1. CASE depths'[o] = depths[o]
      BY <1>1, <2>1, <2>2, <3>1
    <3>2. CASE depths'[o] # depths[o]
      <4>1. depths'[o] < depths[o] /\ depths'[o] \in Nat /\ hops \in Nat /\ depths'[o] # None
        BY <1>4, <2>1, <3>2, DepthsAreNat, Vocabulary, TypeGroups DEF TypeInv, RunType
      <4> QED
        BY <1>1, <2>2, <4>1
    <3> QED
      BY <3>1, <3>2
  <2>4. ~Held(out', o)
    BY <1>4, <1>5, <1>12, <2>1
  <2> QED
    BY <1>1, <1>4, <1>12, <2>3, <2>4 DEF InBounds, ScopeDepth
<1>13. Followed'
  <2>1. PICK x \in Known(out) : x = current
    BY <1>3
  <2>2. InBounds(x) /\ ~Held(out, x)
    BY <1>1, <2>1 DEF CutInv, Followed
  <2>3. InBounds(x)' /\ ~Held(out', x)
    BY <1>12, <2>2
  <2> QED
    BY <1>1, <2>1, <2>3 DEF Followed, InBounds
<1>14. RequestsInScope'
  <2> SUFFICES ASSUME NEW t \in Txs, gotSpend'[t] # None
               PROVE  \E o \in OutputsOf(t) \cap Known(out') : InBounds(o)' /\ ~Held(out', o)
    BY DEF RequestsInScope, InBounds
  <2>1. PICK o \in OutputsOf(t) \cap Known(out) : InBounds(o) /\ ~Held(out, o)
    BY <1>1 DEF CutInv, RequestsInScope, InBounds
  <2> QED
    BY <1>12, <2>1
<1>15. Plain' /\ LatestData' /\ Fetched'
  BY <1>1, <1>2 DEF CutInv, Plain, LatestData, Fetched
<1> QED
  BY <1>8, <1>9, <1>10, <1>11, <1>13, <1>14, <1>15 DEF CutInv
\* add() under an inactive scope only lowers the depth kept as evidence.
LEMMA AddPlainCut ==
  ASSUME TypeInv, CutInv, AddChild, ~active
  PROVE  CutInv'
<1>1. /\ UNCHANGED <<pc, latest, runs, links, data, stops, hops, only, active, current, gotTx, gotSpend, reason>>
      /\ pc = "add"
  BY DEF AddChild, runVars, memoVars
<1>2. PICK c \in children : children' = children \ {c} /\ Add(c, ScopeDepth(current, out, depths) + 1)
  BY DEF AddChild
<1> DEFINE d == ScopeDepth(current, out, depths) + 1
<1>3. out' = [out EXCEPT ![c] = Arrived(out[c], d)] /\ depths' = depths
  BY <1>2 DEF Add, AddPlain
<1>4. /\ out \in Records /\ depths \in DepthMap /\ c \in Outputs /\ current \in Outputs /\ out[current] # None
      /\ hops \in Nat
  BY <1>1, <1>2, TypeGroups DEF TypeInv, WorkType, EvidenceType, RunType, CurrentKnown
<1>5. d \in Nat
  <2>1. out[current] \in Record /\ depths[current] \in Nat \cup {None}
    BY <1>4 DEF Records, DepthMap
  <2> QED
    BY <1>4, <2>1 DEF ScopeDepth, Record
<1>6. data[TxOf[c]] # "absent"
  BY <1>1, <1>2 DEF CutInv, Fetched
<1>7. stops = {} /\ \A o \in Known(out) : ~Held(out, o)
  BY DEF CutInv, Plain
<1> HIDE DEF d
<1>8. \A o \in Outputs : o # c => out'[o] = out[o]
  BY <1>3, <1>4
<1>9. /\ out'[c] \in Record /\ out'[c] = Arrived(out[c], d)
      /\ out'[c].hold = None
      /\ out[c] # None => out'[c].depth <= out[c].depth
      /\ SaysTerminal(out'[c]) => out[c] # None /\ SaysTerminal(out[c])
  <2>1. out'[c] = Arrived(out[c], d) /\ out[c] \in Record \cup {None}
    BY <1>3, <1>4 DEF Records
  <2>2. out'[c] \in Record
    BY <1>5, <2>1, ArrivedType
  <2>3. CASE out[c] = None
    BY <2>1, <2>2, <2>3, Vocabulary DEF Arrived, SaysTerminal
  <2>4. CASE out[c] # None
    <3>1. out[c] \in Record /\ out[c].hold = None
      BY <1>4, <1>7, <2>1, <2>4 DEF Known, Held
    <3> QED
      BY <1>5, <2>1, <2>2, <2>4, <3>1, Vocabulary DEF Arrived, SaysTerminal, Record
  <2> QED
    BY <2>1, <2>2, <2>3, <2>4
<1>10. Known(out') = Known(out) \cup {c} /\ Known(out) \subseteq Outputs
  BY <1>4, <1>8, <1>9, NoneIsNoRecord DEF Known
<1>11. \A o \in Known(out') : ~Held(out', o)
  BY <1>7, <1>8, <1>9, <1>10 DEF Held
<1>12. ASSUME NEW o \in Known(out), InBounds(o) PROVE InBounds(o)' /\ ~Held(out', o) /\ o \in Known(out')
  <2>1. CASE depths[o] # None
    BY <1>1, <1>3, <1>10, <1>11, <1>12, <2>1 DEF InBounds, ScopeDepth
  <2>2. CASE depths[o] = None
    <3>1. out[o] \in Record /\ out'[o] \in Record /\ out'[o].depth <= out[o].depth
      <4>1. out[o] \in Record
        BY <1>4, <1>10, NoneIsNoRecord DEF Known, Records
      <4>2. out'[o] \in Record /\ out'[o].depth <= out[o].depth
        BY <1>8, <1>9, <1>10, <4>1, NoneIsNoRecord DEF Record, Known
      <4> QED
        BY <4>1, <4>2
    <3>2. out[o].depth \in Nat /\ out'[o].depth \in Nat
      BY <3>1 DEF Record
    <3>3. out[o].depth < hops /\ out'[o].depth < hops'
      <4>1. out[o].depth < hops
        BY <1>12, <2>2 DEF InBounds, ScopeDepth
      <4> QED
        BY <1>1, <1>4, <3>1, <3>2, <4>1
    <3> QED
      BY <1>1, <1>3, <1>10, <1>11, <1>12, <2>2, <3>3 DEF InBounds, ScopeDepth
  <2> QED
    BY <2>1, <2>2
<1>13. Plain' /\ ScopeSound' /\ HeldIsCut' /\ LatestData' /\ Fetched'
  BY <1>1, <1>2, <1>7, <1>11 DEF CutInv, Plain, ScopeSound, HeldIsCut, LatestData, Fetched
<1>14. StopsHeld'
  BY <1>1, <1>7 DEF StopsHeld, Stops
<1>15. DataKept'
  BY <1>1, <1>6, <1>8, <1>9, <1>10 DEF CutInv, DataKept
<1>16. Followed'
  <2>1. PICK x \in Known(out) : x = current
    BY <1>4 DEF Known
  <2>2. InBounds(x)
    BY <1>1, <2>1 DEF CutInv, Followed
  <2>3. InBounds(x)' /\ ~Held(out', x)
    BY <1>12, <2>2
  <2> QED
    BY <1>1, <2>1, <2>3 DEF Followed, InBounds
<1>17. RequestsInScope'
  <2> SUFFICES ASSUME NEW t \in Txs, gotSpend'[t] # None
               PROVE  \E o \in OutputsOf(t) \cap Known(out') : InBounds(o)' /\ ~Held(out', o)
    BY DEF RequestsInScope, InBounds
  <2>1. PICK o \in OutputsOf(t) \cap Known(out) : InBounds(o) /\ ~Held(out, o)
    BY <1>1 DEF CutInv, RequestsInScope, InBounds
  <2> QED
    BY <1>12, <2>1
<1> QED
  BY <1>13, <1>14, <1>15, <1>16, <1>17 DEF CutInv

-----------------------------------------------------------------------------
(* The other steps keep what is cut                                        *)

\* Reading a transaction.  An output that turns out to pay a stop has no link.
LEMMA GetTxCut ==
  ASSUME TypeInv, CutInv, Fund \/ FetchChild
  PROVE  CutInv'
<1>1. PICK t : /\ GetTx(t)
               /\ \/ pc = "fund" /\ pc' = "classify" /\ t = TxOf[current]
                  \/ pc = "child" /\ pc' = "link" /\ t = Spender[current]
  BY DEF Fund, FetchChild
<1>2. UNCHANGED <<latest, out, links, stops, hops, only, active, depths, current, children, gotSpend, reason>>
  BY DEF Fund, FetchChild, runVars
<1>3. /\ \A x \in Txs : data[x] # "absent" => data'[x] # "absent"
      /\ t \in Txs => data'[t] # "absent"
  <2>1. data \in [Txs -> Seen]
    BY TypeGroups DEF TypeInv, EvidenceType
  <2>2. (data' = data /\ data[t] = "confirmed") \/ (TxResponse(t) # "absent" /\ data' = [data EXCEPT ![t] = TxResponse(t)])
    BY <1>1 DEF GetTx
  <2> QED
    BY <2>1, <2>2
<1>4. \A o \in Outputs : TxOf[o] \in Txs
  BY TraceAssumption DEF TraceAssumption
<1>5. Known(out') = Known(out) /\ Known(out) \subseteq Outputs
  BY <1>2 DEF Known
<1>6. StoppedNow \subseteq StoppedNow' /\ \A o \in links : o \in StoppedNow' => o \in StoppedNow
  <2>1. StoppedNow \subseteq StoppedNow'
    BY <1>2, <1>3, <1>4, <1>5 DEF StoppedNow, StopAddress
  <2>2. ASSUME NEW o \in links, o \in StoppedNow' PROVE o \in StoppedNow
    <3>1. o \in Known(out) /\ data[TxOf[o]] # "absent"
      BY <1>2, <1>5, <2>2 DEF StoppedNow, CutInv, DataKept
    <3> QED
      BY <1>2, <2>2, <3>1 DEF StoppedNow, StopAddress
  <2> QED
    BY <2>1, <2>2
<1>7. \A n \in Depths : Full[n] \subseteq Full'[n]
  BY <1>2, <1>5, <1>6, FullGrows
<1>8. Plain' /\ StopsHeld' /\ LatestData' /\ RequestsInScope'
  BY <1>1, <1>2, <1>5 DEF CutInv, Plain, StopsHeld, Stops, Open, LatestData, RequestsInScope, Held, ScopeDepth
<1>9. ScopeSound'
  BY <1>2, <1>5, <1>7 DEF CutInv, ScopeSound
<1>10. HeldIsCut'
  BY <1>2, <1>5, <1>6 DEF CutInv, HeldIsCut, Held
<1>11. DataKept'
  BY <1>2, <1>3, <1>4, <1>5 DEF CutInv, DataKept
<1>12. Followed'
  BY <1>1, <1>2 DEF CutInv, Followed, InBounds, Held, ScopeDepth
<1>13. Fetched'
  <2>1. current \in Outputs
    BY <1>1, TypeGroups DEF TypeInv, WorkType
  <2>2. pc = "child" => data[TxOf[current]] # "absent"
    BY DEF CutInv, Fetched
  <2>3. \A c \in OutputsOf(Spender[current]) : TxOf[c] = Spender[current] /\ TxOf[c] \in Txs
    BY <1>4 DEF OutputsOf
  <2> QED
    BY <1>1, <1>2, <1>3, <1>4, <2>1, <2>2, <2>3 DEF Fetched
<1> QED
  BY <1>8, <1>9, <1>10, <1>11, <1>12, <1>13 DEF CutInv

LEMMA PopCut ==
  ASSUME TypeInv, CutInv, Pop
  PROVE  CutInv'
<1>1. UNCHANGED <<latest, out, links, data, stops, hops, only, active, depths, gotSpend, reason>> /\ pc = "loop"
  BY DEF Pop, saveVars, runVars, memoVars
<1>2. PICK e \in DOMAIN queue :
        \/ UNCHANGED <<pc, current>>
        \/ current' = e[2] /\ pc' = "fund" /\ ~Held(out, e[2])
  BY DEF Pop
<1>3. Followed' /\ Fetched'
  BY <1>1, <1>2 DEF Followed, Fetched, Held
<1>4. Plain' /\ ScopeSound' /\ HeldIsCut' /\ StopsHeld' /\ DataKept' /\ LatestData' /\ RequestsInScope'
  BY <1>1, QuietCut DEF Open
<1> QED
  BY <1>3, <1>4 DEF CutInv

\* A verdict other than a stop's.
LEMMA VerdictCut ==
  ASSUME TypeInv, CutInv, pc \in {"classify", "spend", "link"}, NEW s \in Statuses,
         Conclude([out[current] EXCEPT !.status = s]), Stops(current) => FALSE,
         s \in Terminal => data[TxOf[current]] # "absent",
         UNCHANGED <<links, depths, active, stops, hops, only, latest, data, reason>>,
         \A t \in Txs : gotSpend'[t] # None => gotSpend[t] # None
                          \/ \E o \in OutputsOf(t) \cap Known(out) : InBounds(o) /\ ~Held(out, o)
  PROVE  CutInv'
<1>1. pc' = "loop" /\ out' = [out EXCEPT ![current] = [out[current] EXCEPT !.status = s]]
  BY DEF Conclude
<1>2. out \in Records /\ current \in Outputs /\ out[current] \in Record
  BY TypeGroups, NoneIsNoRecord DEF TypeInv, WorkType, CurrentKnown, Records
<1>3. \A o \in Outputs : o # current => out'[o] = out[o]
  BY <1>1, <1>2
<1>4. /\ out'[current].hold = out[current].hold /\ out'[current].depth = out[current].depth
      /\ out'[current].prev = out[current].prev /\ out'[current].status = s
      /\ out'[current] # None /\ out[current] # None
  <2>1. [out[current] EXCEPT !.status = s] = [depth |-> out[current].depth, status |-> s,
                                             hold |-> out[current].hold, prev |-> out[current].prev]
    BY <1>2 DEF Record
  <2>2. out'[current] = [depth |-> out[current].depth, status |-> s,
                         hold |-> out[current].hold, prev |-> out[current].prev]
    BY <1>1, <1>2, <2>1 DEF Records
  <2>3. [depth |-> out[current].depth, status |-> s,
         hold |-> out[current].hold, prev |-> out[current].prev] \in Record
    BY <1>2 DEF Record
  <2> QED
    BY <1>2, <2>2, <2>3, NoneIsNoRecord
<1>5. \A o \in Outputs : /\ out'[o] = None <=> out[o] = None
                         /\ out[o] # None => /\ out'[o].hold = out[o].hold /\ out'[o].depth = out[o].depth
                                             /\ SaysTerminal(out'[o]) => SaysTerminal(out[o]) \/ data[TxOf[o]] # "absent"
  BY <1>3, <1>4 DEF SaysTerminal
<1>6. Open' => Open /\ \A o \in Known(out) : Stops(o) => out'[o].status = out[o].status
  BY <1>3 DEF Open, Known
<1>7. Plain' /\ ScopeSound' /\ HeldIsCut' /\ StopsHeld' /\ DataKept' /\ LatestData' /\ RequestsInScope'
  BY <1>5, <1>6, QuietCut
<1>8. Followed' /\ Fetched'
  BY <1>1 DEF Followed, Fetched
<1> QED
  BY <1>7, <1>8 DEF CutInv
LEMMA ClassifyCut ==
  ASSUME TypeInv, CutInv, Classify
  PROVE  CutInv'
<1>1. /\ UNCHANGED <<latest, links, data, stops, hops, only, active, depths, children, gotTx, gotSpend, reason>>
      /\ pc = "classify"
  BY DEF Classify, runVars, memoVars
<1>2. /\ out \in Records /\ current \in Outputs /\ out[current] \in Record /\ current \in Known(out)
      /\ hops \in Nat /\ depths \in DepthMap
  BY <1>1, TypeGroups, NoneIsNoRecord DEF TypeInv, WorkType, RunType, CurrentKnown, Records, Known
<1>3. ~Held(out, current) /\ data[TxOf[current]] # "absent"
  BY <1>1 DEF CutInv, Followed, Fetched
<1>4. CASE KindOf[current] # "spendable"
  <2>1. Conclude([out[current] EXCEPT !.status = KindOf[current]])
    BY <1>4 DEF Classify
  <2>2. KindOf[current] \in Statuses
    BY <1>2, <1>4, TraceAssumption DEF TraceAssumption, Kinds, Statuses, Terminal
  <2> QED
    BY <1>1, <1>3, <1>4, <2>1, <2>2, VerdictCut DEF Stops
<1>5. CASE ~Stops(current) /\ pc' = "loop" /\ KindOf[current] = "spendable"
  <2>1. PICK s \in {"unconfirmed_funding", "hop_limit"} : Conclude([out[current] EXCEPT !.status = s])
    BY <1>5 DEF Classify, Stops
  <2> QED
    BY <1>1, <1>3, <1>5, <2>1, VerdictCut DEF Statuses
<1>6. CASE ~Stops(current) /\ pc' # "loop" /\ KindOf[current] = "spendable"
  <2>1. /\ pc' = "spend" /\ UNCHANGED <<out, current>>
        /\ ~(ScopeDepth(current, out, depths) >= hops)
    BY <1>6 DEF Classify, Stops, Conclude
  <2>2. ScopeDepth(current, out, depths) \in Nat
    BY <1>2 DEF ScopeDepth, DepthMap, Record
  <2>3. InBounds(current)
    BY <1>2, <1>6, <2>1, <2>2 DEF InBounds, Stops
  <2>4. Followed' /\ Fetched'
    BY <1>1, <1>3, <2>1, <2>3 DEF Followed, Fetched, InBounds, Held, ScopeDepth
  <2>5. Plain' /\ ScopeSound' /\ HeldIsCut' /\ StopsHeld' /\ DataKept' /\ LatestData' /\ RequestsInScope'
    BY <1>1, <2>1, QuietCut DEF Open
  <2> QED
    BY <2>4, <2>5 DEF CutInv
<1>7. CASE Stops(current)
  <2>1. out' = [out EXCEPT ![current] = Marked(out[current])] /\ pc' = "loop"
    BY <1>7 DEF Classify, Stops, Conclude
  <2>2. \A o \in Outputs : o # current => out'[o] = out[o]
    BY <1>2, <2>1
  <2>3. /\ out'[current] \in Record /\ out'[current].hold # None
        /\ out'[current].depth = out[current].depth
    <3>1. out'[current] = HoldFor(Restored(out[current]), "suspected_service_stop")
      BY <1>2, <2>1 DEF Marked, Records
    <3> QED
      BY <1>2, <3>1, RestoredEffect, HoldForEffect, Vocabulary
  <2>4. Known(out') = Known(out) /\ Known(out) \subseteq Outputs
    BY <1>2, <2>2, <2>3, NoneIsNoRecord DEF Known
  <2>5. StoppedNow' = StoppedNow
    BY <1>1, <2>4 DEF StoppedNow, StopAddress
  <2>6. Full' = Full
    BY <1>1, <2>4, <2>5 DEF Full
  <2>7. current \in StoppedNow
    BY <1>2, <1>3, <1>7 DEF StoppedNow, StopAddress, Stops
  <2>8. active
    BY <1>7 DEF CutInv, Plain, Stops
  <2>9. Held(out', current)
    BY <2>3 DEF Held
  <2>10. \A o \in Known(out) : o # current => (Held(out', o) <=> Held(out, o))
    BY <2>2, <2>4 DEF Held
  <2>11. Plain' /\ ScopeSound' /\ LatestData'
    BY <1>1, <2>4, <2>6, <2>8 DEF CutInv, Plain, ScopeSound, LatestData
  <2>12. HeldIsCut'
    BY <1>1, <2>4, <2>5, <2>7, <2>9, <2>10 DEF CutInv, HeldIsCut
  <2>13. StopsHeld'
    BY <1>1, <2>1, <2>2, <2>4, <2>9, <2>10 DEF CutInv, StopsHeld, Stops, Open
  <2>14. DataKept'
    BY <1>1, <1>3, <2>2, <2>4 DEF CutInv, DataKept
  <2>15. RequestsInScope'
    <3> SUFFICES ASSUME NEW t \in Txs, gotSpend'[t] # None
                 PROVE  \E o \in OutputsOf(t) \cap Known(out') : InBounds(o)' /\ ~Held(out', o)
      BY DEF RequestsInScope, InBounds
    <3>1. PICK o \in OutputsOf(t) \cap Known(out) : InBounds(o) /\ ~Held(out, o)
      BY <1>1 DEF CutInv, RequestsInScope, InBounds
    <3>2. o # current
      BY <1>7, <3>1 DEF InBounds, Stops
    <3> QED
      BY <1>1, <2>2, <2>4, <2>10, <3>1, <3>2 DEF InBounds, ScopeDepth
  <2>16. Followed' /\ Fetched'
    BY <2>1 DEF Followed, Fetched
  <2> QED
    BY <2>11, <2>12, <2>13, <2>14, <2>15, <2>16 DEF CutInv
<1>8. Stops(current) \/ KindOf[current] # "spendable" \/ (~Stops(current) /\ KindOf[current] = "spendable")
  OBVIOUS
<1> QED
  BY <1>4, <1>5, <1>6, <1>7, <1>8

LEMMA ReadSpendCut ==
  ASSUME TypeInv, CutInv, ReadSpend
  PROVE  CutInv'
<1>1. /\ UNCHANGED <<latest, links, data, stops, hops, only, active, depths, children, gotTx, reason>>
      /\ pc = "spend"
  BY DEF ReadSpend, runVars
<1>2. current \in Outputs /\ current \in Known(out)
  BY <1>1, TypeGroups DEF TypeInv, WorkType, CurrentKnown, Known
<1>3. InBounds(current) /\ ~Held(out, current)
  BY <1>1 DEF CutInv, Followed
<1>4. \A t \in Txs : gotSpend'[t] # None => gotSpend[t] # None
                          \/ \E o \in OutputsOf(t) \cap Known(out) : InBounds(o) /\ ~Held(out, o)
  <2> SUFFICES ASSUME NEW t \in Txs, gotSpend'[t] # None, gotSpend[t] = None
               PROVE  \E o \in OutputsOf(t) \cap Known(out) : InBounds(o) /\ ~Held(out, o)
    OBVIOUS
  <2>1. gotSpend' = [gotSpend EXCEPT ![TxOf[current]] = SpendResponse(TxOf[current])]
    BY DEF ReadSpend
  <2>2. gotSpend \in [Txs -> [Outputs -> Seen] \cup {None}]
    BY TypeGroups DEF TypeInv, EvidenceType
  <2>3. t = TxOf[current]
    BY <2>1, <2>2
  <2> QED
    BY <1>2, <1>3, <2>3 DEF OutputsOf
<1>5. ~Stops(current)
  BY <1>3 DEF InBounds, Stops
<1>6. CASE pc' = "loop"
  <2>1. PICK s \in {"unspent_at_observation", "unconfirmed_spend"} : Conclude([out[current] EXCEPT !.status = s])
    BY <1>6 DEF ReadSpend
  <2>2. s \in Statuses /\ s \notin Terminal
    BY DEF Statuses, Terminal
  <2> QED
    BY <1>1, <1>4, <1>5, <2>1, <2>2, VerdictCut
<1>7. CASE pc' # "loop"
  <2>1. pc' = "child" /\ UNCHANGED <<out, current>>
    BY <1>7 DEF ReadSpend, Conclude
  <2>2. Followed' /\ Fetched'
    BY <1>1, <1>3, <2>1 DEF CutInv, Followed, Fetched, InBounds, Held, ScopeDepth
  <2>3. Plain' /\ ScopeSound' /\ HeldIsCut' /\ StopsHeld' /\ DataKept' /\ LatestData' /\ RequestsInScope'
    BY <1>1, <1>4, <2>1, QuietCut DEF Open
  <2> QED
    BY <2>2, <2>3 DEF CutInv
<1> QED
  BY <1>6, <1>7

LEMMA LinkCut ==
  ASSUME TypeInv, CutInv, Link
  PROVE  CutInv'
<1>1. /\ UNCHANGED <<latest, data, stops, hops, only, active, depths, gotTx, gotSpend, reason>>
      /\ pc = "link"
  BY DEF Link, runVars, memoVars
<1>2. /\ out \in Records /\ current \in Outputs /\ out[current] \in Record /\ current \in Known(out)
  BY <1>1, TypeGroups, NoneIsNoRecord DEF TypeInv, WorkType, CurrentKnown, Records, Known
<1>3. /\ InBounds(current) /\ ~Held(out, current) /\ ~Stops(current)
      /\ data[TxOf[current]] # "absent" /\ \A c \in OutputsOf(Spender[current]) : data[TxOf[c]] # "absent"
  BY <1>1 DEF CutInv, Followed, Fetched, InBounds, Stops
<1>4. CASE pc' = "loop"
  <2>1. Conclude([out[current] EXCEPT !.status = "unconfirmed_spend"]) /\ UNCHANGED links
    BY <1>4 DEF Link
  <2>2. "unconfirmed_spend" \in Statuses
    BY DEF Statuses
  <2> QED
    BY <1>1, <1>3, <2>1, <2>2, VerdictCut
<1>5. CASE pc' # "loop"
  <2>1. /\ links' = links \cup {current} /\ out' = [out EXCEPT ![current].status = "spent"]
        /\ children' = OutputsOf(Spender[current]) /\ pc' = "add" /\ current' = current
    BY <1>5 DEF Link, Conclude
  <2>2. \A o \in Outputs : o # current => out'[o] = out[o]
    BY <1>2, <2>1
  <2>3. /\ out'[current].hold = out[current].hold /\ out'[current].depth = out[current].depth
        /\ out'[current] # None
    <3>1. out'[current] = [depth |-> out[current].depth, status |-> "spent",
                           hold |-> out[current].hold, prev |-> out[current].prev]
      BY <1>2, <2>1 DEF Records, Record
    <3>2. [depth |-> out[current].depth, status |-> "spent",
           hold |-> out[current].hold, prev |-> out[current].prev] \in Record
      BY <1>2 DEF Record, Statuses, Terminal
    <3> QED
      BY <3>1, <3>2, NoneIsNoRecord
  <2>4. Known(out') = Known(out) /\ Known(out) \subseteq Outputs
    BY <1>2, <2>2, <2>3 DEF Known
  <2>5. \A o \in Known(out) : Held(out', o) <=> Held(out, o)
    BY <2>2, <2>3, <2>4 DEF Held
  <2>6. StoppedNow' = StoppedNow
    BY <1>1, <2>4 DEF StoppedNow, StopAddress
  <2>7. \A n \in Depths : Full[n] \subseteq Full'[n]
    BY <2>1, <2>4, <2>6, FullGrows
  <2>8. Plain' /\ LatestData' /\ HeldIsCut'
    BY <1>1, <2>4, <2>5, <2>6 DEF CutInv, Plain, LatestData, HeldIsCut
  <2>9. ScopeSound'
    BY <1>1, <2>4, <2>7 DEF CutInv, ScopeSound
  <2>10. StopsHeld'
    <3>1. \A o \in Known(out) : Stops(o) => o # current
      BY <1>3
    <3> QED
      BY <1>1, <2>1, <2>2, <2>4, <2>5, <3>1 DEF CutInv, StopsHeld, Stops, Open
  <2>11. DataKept'
    BY <1>1, <1>3, <2>1, <2>2, <2>4 DEF CutInv, DataKept
  <2>12. RequestsInScope'
    <3>1. \A o \in Known(out) : ScopeDepth(o, out', depths') = ScopeDepth(o, out, depths)
      BY <1>1, <2>2, <2>3, <2>4 DEF ScopeDepth
    <3> QED
      BY <1>1, <2>4, <2>5, <3>1 DEF CutInv, RequestsInScope
  <2>13. Followed' /\ Fetched'
    <3>1. ScopeDepth(current, out', depths') = ScopeDepth(current, out, depths)
      BY <1>1, <2>3 DEF ScopeDepth
    <3> QED
      BY <1>1, <1>2, <1>3, <2>1, <2>3, <2>5, <3>1 DEF Followed, Fetched, InBounds, Held
  <2> QED
    BY <2>8, <2>9, <2>10, <2>11, <2>12, <2>13 DEF CutInv
<1> QED
  BY <1>4, <1>5

LEMMA AddedCut ==
  ASSUME TypeInv, CutInv, Added
  PROVE  CutInv'
<1>1. /\ UNCHANGED <<latest, out, links, data, stops, hops, only, active, depths, gotSpend, reason>>
      /\ pc = "add" /\ pc' = "loop"
  BY DEF Added, saveVars, runVars, memoVars
<1>2. Plain' /\ ScopeSound' /\ HeldIsCut' /\ StopsHeld' /\ DataKept' /\ LatestData' /\ RequestsInScope'
  BY <1>1, QuietCut DEF Open
<1> QED
  BY <1>1, <1>2 DEF CutInv, Followed, Fetched

LEMMA LookaheadCut ==
  ASSUME TypeInv, CutInv, Lookahead
  PROVE  CutInv'
<1>1. /\ UNCHANGED <<latest, out, links, data, stops, hops, only, active, depths, reason, pc>>
      /\ pc = "loop"
  BY DEF Lookahead, saveVars, runVars, loopVars
<1>2. \A t \in Txs : gotSpend'[t] # None => gotSpend[t] # None
                          \/ \E o \in OutputsOf(t) \cap Known(out) : InBounds(o) /\ ~Held(out, o)
  <2>1. CASE FetchOutspends
    <3>1. PICK o \in Window : Eligible(o) /\ gotSpend' = [gotSpend EXCEPT ![TxOf[o]] = SpendSeen]
      BY <2>1 DEF FetchOutspends
    <3>2. o \in Known(out) /\ o \in Outputs /\ InBounds(o) /\ ~Held(out, o)
      BY <3>1 DEF Window, Known, Eligible, InBounds
    <3>3. gotSpend \in [Txs -> [Outputs -> Seen] \cup {None}]
      BY TypeGroups DEF TypeInv, EvidenceType
    <3>4. \A t \in Txs : t # TxOf[o] => gotSpend'[t] = gotSpend[t]
      BY <3>1, <3>3
    <3> QED
      BY <3>2, <3>4 DEF OutputsOf
  <2>2. CASE FetchFunding \/ FetchSpender
    BY <2>2 DEF FetchFunding, FetchSpender
  <2> QED
    BY <2>1, <2>2 DEF Lookahead
<1>3. Plain' /\ ScopeSound' /\ HeldIsCut' /\ StopsHeld' /\ DataKept' /\ LatestData' /\ RequestsInScope'
  BY <1>1, <1>2, QuietCut DEF Open
<1> QED
  BY <1>1, <1>3 DEF CutInv, Followed, Fetched

LEMMA FinishCut ==
  ASSUME TypeInv, CutInv, NEW why \in Reasons \cup {None}, Finish(why), pc \notin {"idle", "finished"}
  PROVE  CutInv'
<1>1. /\ UNCHANGED <<latest, links, data, stops, hops, only, active, depths, gotSpend>>
      /\ pc' = "finished" /\ reason' = why
      /\ out' = [o \in Outputs |-> IF why # None /\ out[o] # None /\ out[o].status = "pending"
                               THEN [out[o] EXCEPT !.status = why] ELSE out[o]]
  BY DEF Finish, runVars, memoVars
<1>2. out \in Records
  BY TypeGroups DEF TypeInv, WorkType
<1>3. \A o \in Outputs :
        /\ out'[o] = None <=> out[o] = None
        /\ out[o] # None => /\ out'[o].hold = out[o].hold /\ out'[o].depth = out[o].depth
                            /\ SaysTerminal(out'[o]) => SaysTerminal(out[o]) \/ data[TxOf[o]] # "absent"
  <2> TAKE o \in Outputs
  <2>1. CASE why # None /\ out[o] # None /\ out[o].status = "pending"
    <3>1. out[o] \in Record /\ why \in Statuses /\ why \notin Terminal
      BY <1>2, <2>1, Vocabulary DEF Records
    <3>2. out'[o] = [depth |-> out[o].depth, status |-> why, hold |-> out[o].hold, prev |-> out[o].prev]
      BY <1>1, <2>1, <3>1 DEF Record
    <3>3. [depth |-> out[o].depth, status |-> why, hold |-> out[o].hold, prev |-> out[o].prev] \in Record
      BY <3>1 DEF Record
    <3> QED
      BY <2>1, <3>1, <3>2, <3>3, NoneIsNoRecord DEF SaysTerminal
  <2>2. CASE ~(why # None /\ out[o] # None /\ out[o].status = "pending")
    <3>1. out'[o] = out[o]
      BY <1>1, <2>2
    <3> QED
      BY <3>1
  <2> QED
    BY <2>1, <2>2
<1>4. Open' => Open /\ \A o \in Known(out) : Stops(o) => out'[o].status = out[o].status
  BY <1>1 DEF Open, Known
<1>5. Plain' /\ ScopeSound' /\ HeldIsCut' /\ StopsHeld' /\ DataKept' /\ LatestData' /\ RequestsInScope'
  BY <1>1, <1>3, <1>4, QuietCut
<1> QED
  BY <1>1, <1>5 DEF CutInv, Followed, Fetched

\* The process is gone; what was sealed keeps what it knew.
LEMMA GoneCut ==
  ASSUME TypeInv, CutInv, Export \/ Kill
  PROVE  CutInv'
<1>1. /\ out' = [o \in Outputs |-> None] /\ pc' = "idle" /\ stops' = {} /\ active' = FALSE
      /\ gotSpend' = [t \in Txs |-> None]
      /\ latest' = latest \/ latest' = [out |-> out, links |-> links, data |-> data, hops |-> hops]
  BY DEF Export, Kill, Gone
<1>2. Known(out') = {}
  BY <1>1 DEF Known
<1>3. LatestData'
  BY <1>1 DEF CutInv, LatestData, DataKept
<1> QED
  BY <1>1, <1>2, <1>3 DEF CutInv, Plain, ScopeSound, HeldIsCut, StopsHeld, DataKept, Followed, Fetched, RequestsInScope

LEMMA OtherCut ==
  ASSUME TypeInv, CutInv, ChainGrows \/ UNCHANGED vars
  PROVE  CutInv'
<1>1. UNCHANGED <<latest, pc, out, links, data, stops, hops, only, active, depths, current, children, gotSpend, reason>>
  BY DEF ChainGrows, vars, saveVars, runVars, loopVars, memoVars
<1>2. Plain' /\ ScopeSound' /\ HeldIsCut' /\ StopsHeld' /\ DataKept' /\ LatestData' /\ RequestsInScope'
  BY <1>1, QuietCut DEF Open
<1> QED
  BY <1>1, <1>2 DEF CutInv, Followed, Fetched, InBounds, Held, ScopeDepth
-----------------------------------------------------------------------------
(* Starting a run                                                          *)

LEMMA StartCut ==
  ASSUME TypeInv, CutInv, NEW h, NEW rules, NEW limits, Start(h, rules, limits)
  PROVE  CutInv'
<1>1. /\ pc' = "loop" /\ links' = {} /\ latest' = latest /\ stops' = rules /\ active' = (rules # {})
      /\ out' = [o \in Outputs |-> IF o \in Seeds THEN Arrived(None, 0) ELSE None]
      /\ depths' = [o \in Outputs |-> IF rules # {} /\ o \in Seeds THEN 0 ELSE None]
      /\ gotSpend' = [t \in Txs |-> None]
  BY DEF Start
<1>2. Arrived(None, 0) = [depth |-> 0, status |-> "pending", hold |-> None, prev |-> None]
      /\ Arrived(None, 0) # None
  BY ArrivedType, NoneIsNoRecord DEF Arrived
<1>3. Known(out') = Seeds /\ Seeds \subseteq Outputs
  BY <1>1, <1>2, TraceAssumption DEF TraceAssumption, Known
<1>4. \A o \in Seeds : ~Held(out', o) /\ out'[o].status = "pending" /\ ~SaysTerminal(out'[o])
  BY <1>1, <1>2, <1>3, Vocabulary, NoneIsNoStatus DEF Held, SaysTerminal, Terminal
<1>5. ScopeSound'
  <2> SUFFICES ASSUME active', NEW o \in Outputs, depths'[o] # None
               PROVE  o \in Known(out') /\ depths'[o] \in Depths /\ o \in Full'[depths'[o]]
    BY DEF ScopeSound
  <2>1. o \in Seeds /\ depths'[o] = 0
    BY <1>1
  <2>2. 0 \in Depths
    BY DepthsAreNat
  <2> DEFINE known == Known(out')
             stopped == StoppedNow'
             starts == {0} \X Seeds
  <2>3. o \in known /\ <<0, o>> \in starts
    BY <1>3, <2>1
  <2>4. Full' = Layer(starts, known, links', stopped)
    BY DEF Full
  <2> HIDE DEF known, stopped, starts
  <2>5. o \in Layer(starts, known, links', stopped)[0]
    BY <2>2, <2>3, LayerStart
  <2> QED
    BY <1>3, <2>1, <2>2, <2>4, <2>5
<1>6. Plain' /\ StopsHeld' /\ DataKept' /\ LatestData' /\ Followed' /\ Fetched' /\ RequestsInScope'
  BY <1>1, <1>3, <1>4
     DEF CutInv, Plain, StopsHeld, DataKept, LatestData, Followed, Fetched, RequestsInScope
<1>7. HeldIsCut'
  <2>1. \A o \in Seeds : active' => depths'[o] = 0
    BY <1>1, <1>3
  <2>2. None # 0
    BY Vocabulary
  <2> QED
    BY <1>3, <1>4, <2>1, <2>2 DEF HeldIsCut
<1> QED
  BY <1>5, <1>6, <1>7 DEF CutInv

LEMMA ScopedEffect ==
  ASSUME NEW rs \in Records, NEW ds, NEW stopped, NEW o \in Known(rs)
  PROVE  /\ Held(ScopedOutputs(rs, ds, stopped), o) <=> ds[o] = None \/ o \in stopped
         /\ SaysTerminal(ScopedOutputs(rs, ds, stopped)[o]) => SaysTerminal(rs[o])
<1> DEFINE all == [x \in Outputs |-> IF rs[x] = None THEN None ELSE Restored(rs[x])]
           visited == {x \in Known(rs) : ds[x] # None}
           seen == AfterWalk(all, visited, stopped)
           new == ScopedOutputs(rs, ds, stopped)
<1>1. o \in Outputs /\ rs[o] \in Record /\ rs[o] # None
  BY DEF Known, Records
<1>2. all[o] = Restored(rs[o]) /\ all[o] \in Record /\ all[o].hold = None /\ (SaysTerminal(all[o]) => SaysTerminal(rs[o]))
  BY <1>1, RestoredEffect
<1>3. new[o] = IF ds[o] = None THEN HoldFor(seen[o], "held_behind_service") ELSE seen[o]
  BY <1>1 DEF ScopedOutputs
<1>4. seen[o] = IF o \notin visited THEN all[o]
                ELSE IF o \in stopped THEN HoldFor(Restored(all[o]), "suspected_service_stop")
                     ELSE Restored(all[o])
  BY <1>1 DEF AfterWalk
<1>5. o \in visited <=> ds[o] # None
  OBVIOUS
<1> HIDE DEF all, visited, seen, new
<1>6. Restored(all[o]) \in Record /\ Restored(all[o]).hold = None
      /\ (SaysTerminal(Restored(all[o])) => SaysTerminal(rs[o]))
  BY <1>2, RestoredEffect
<1>7. seen[o] \in Record /\ (SaysTerminal(seen[o]) => SaysTerminal(rs[o]))
      /\ (seen[o].hold # None <=> ds[o] # None /\ o \in stopped)
  BY <1>2, <1>4, <1>5, <1>6, HoldForEffect, Vocabulary
<1>8. (SaysTerminal(new[o]) => SaysTerminal(rs[o])) /\ (new[o].hold # None <=> ds[o] = None \/ o \in stopped)
  BY <1>3, <1>7, HoldForEffect, Vocabulary
<1> QED
  BY <1>8 DEF Held, new

\* What a continuation starts from: the outputs of the sealed run, with the depths
\* of a walk from the seeds, and held exactly where the rules cut it.
LEMMA ContinueEffect ==
  ASSUME TypeInv, ChildInv, NEW h \in HopChoices, NEW rules \in StopChoices, NEW limits \in Budgets,
         NEW selection \in OnlyChoices \cup {None}, Continue(h, rules, limits, selection)
  PROVE  /\ latest \in Saved /\ Known(out') = Known(latest.out)
         /\ active' => /\ depths' = Distance'
                       /\ \A o \in Known(out') : Held(out', o) <=> depths'[o] = None \/ o \in StoppedNow'
         /\ ~active' => stops' = {} /\ \A o \in Known(out') : ~Held(out', o)
         /\ \A o \in Known(out') : /\ SaysTerminal(out'[o]) => SaysTerminal(latest.out[o])
                                   /\ ~Held(out', o) /\ only' = None => out'[o].status \in Terminal \cup {"pending"}
<1> DEFINE known == Known(latest.out)
           on == rules # {} \/ \E o \in known : Held(latest.out, o)
           stopped == {o \in known : StopAddress(o, rules, latest.data)}
           walk == Walked({0} \X Seeds, NoDepths, known, latest.links, stopped)
           ds == IF on THEN walk ELSE NoDepths
           rs == IF on THEN ScopedOutputs(latest.out, ds, stopped) ELSE latest.out
           available == {o \in known : rs[o].status \notin Terminal}
           chosen == {o \in (IF selection = None THEN available ELSE selection) : ~Held(rs, o)}
<1>1. /\ selection # None => selection \subseteq available
      /\ active' = on /\ depths' = ds /\ links' = latest.links /\ data' = latest.data /\ stops' = rules
      /\ out' = [o \in Outputs |-> IF o \in chosen THEN [rs[o] EXCEPT !.status = "pending"] ELSE rs[o]]
      /\ only' = selection
  BY DEF Continue
<1>2. latest \in Saved /\ latest.out \in Records
  BY <1>1, ContinueKeeps DEF Saved, Records
<1>3. Keeps(latest.out, out')
  BY ContinueKeeps
<1>4. Known(out') = known
  BY <1>3 DEF Keeps, Known
<1>5. StoppedNow' = stopped
  BY <1>1, <1>4 DEF StoppedNow
<1>6. \A o \in known : SaysTerminal(rs[o]) => SaysTerminal(latest.out[o])
  <2>1. CASE on
    <3>1. rs = ScopedOutputs(latest.out, ds, stopped)
      BY <2>1
    <3> HIDE DEF ds, stopped, on, rs
    <3> QED
      BY <1>2, <3>1, ScopedEffect
  <2>2. CASE ~on
    BY <2>2
  <2> QED
    BY <2>1, <2>2
<1>7. on => \A o \in known : Held(rs, o) <=> ds[o] = None \/ o \in stopped
  <2> SUFFICES ASSUME on PROVE \A o \in known : Held(rs, o) <=> ds[o] = None \/ o \in stopped
    OBVIOUS
  <2>1. rs = ScopedOutputs(latest.out, ds, stopped)
    OBVIOUS
  <2> HIDE DEF ds, stopped, on, rs
  <2> QED
    BY <1>2, <2>1, ScopedEffect
<1>8. ~on => rules = {} /\ \A o \in known : ~Held(rs, o)
  OBVIOUS
<1>9. on => depths' = Distance'
  BY <1>1, <1>4, <1>5 DEF Distance
<1>10. \A o \in known : rs[o] \in Record
  <2>1. Keeps(latest.out, latest.out)
    BY <1>2 DEF Keeps
  <2>2. ds \in DepthMap
    BY <1>1, ContinueKeeps
  <2>3. Keeps(latest.out, ScopedOutputs(latest.out, ds, stopped))
    <3> HIDE DEF ds, stopped
    <3> QED BY <1>2, <2>2, ScopedOutputsKeeps
  <2>4. Keeps(latest.out, rs)
    BY <2>1, <2>3
  <2> HIDE DEF rs
  <2> QED
    BY <2>4 DEF Keeps, Records, Known
<1> HIDE DEF on, walk, ds, rs, stopped
<1>11. chosen \subseteq known /\ known \subseteq Outputs
  BY <1>1 DEF Known
<1>12. \A o \in known : /\ out'[o].hold = rs[o].hold
                        /\ out'[o].status = rs[o].status \/ out'[o].status = "pending"
                        /\ o \in chosen => out'[o].status = "pending"
                        /\ SaysTerminal(out'[o]) => SaysTerminal(rs[o])
  <2> TAKE o \in known
  <2>1. CASE o \in chosen
    <3>1. out'[o] = [rs[o] EXCEPT !.status = "pending"] /\ rs[o] \in Record
      BY <1>1, <1>10, <1>11, <2>1
    <3>2. out'[o] = [depth |-> rs[o].depth, status |-> "pending", hold |-> rs[o].hold, prev |-> rs[o].prev]
      BY <3>1 DEF Record
    <3> QED
      BY <3>2, Vocabulary DEF SaysTerminal
  <2>2. CASE o \notin chosen
    <3>1. out'[o] = rs[o]
      BY <1>1, <1>11, <2>2
    <3> QED
      BY <2>2, <3>1
  <2> QED
    BY <2>1, <2>2
<1>13. \A o \in known : Held(out', o) <=> Held(rs, o)
  BY <1>12 DEF Held
<1>14. \A o \in known : ~Held(out', o) /\ only' = None => out'[o].status \in Terminal \cup {"pending"}
  <2> TAKE o \in known
  <2>1. CASE o \in chosen
    BY <1>12, <2>1
  <2>2. CASE o \notin chosen /\ only' = None /\ ~Held(out', o)
    <3>1. rs[o].status \in Terminal
      BY <1>1, <1>13, <2>2
    <3> QED
      BY <1>12, <3>1
  <2> QED
    BY <2>1, <2>2
<1> QED
  BY <1>1, <1>2, <1>4, <1>5, <1>6, <1>7, <1>8, <1>9, <1>12, <1>13, <1>14

\* The depths a walk from the seeds gives are those of its layers, and every layer
\* gives one.
LEMMA DistanceExact ==
  ASSUME NEW known, NEW linked, NEW stopped, NEW o \in Outputs
  PROVE  LET L == Layer({0} \X Seeds, known, linked, stopped)
             W == Walked({0} \X Seeds, NoDepths, known, linked, stopped)
         IN /\ W[o] # None => W[o] \in Depths /\ o \in L[W[o]] /\ o \in known
            /\ \A n \in Depths : o \in L[n] => W[o] # None /\ W[o] <= n
<1> DEFINE starts == {0} \X Seeds
           L == Layer(starts, known, linked, stopped)
           W == Walked(starts, NoDepths, known, linked, stopped)
<1>1. NoDepths \in DepthMap /\ NoDepths[o] = None
  BY DEF NoDepths, DepthMap
<1>2. \A n \in Depths : L[n] \subseteq known
  BY LayerKnown
<1> HIDE DEF starts
<1>3. /\ \A n \in Depths : o \in L[n] => W[o] # None /\ W[o] <= n
      /\ W[o] = None \/ (W[o] \in Depths /\ o \in L[W[o]])
  BY <1>1, WalkedExact
<1> QED
  BY <1>2, <1>3 DEF starts

LEMMA ContinueCut ==
  ASSUME TypeInv, ChildInv, CutInv, NEW h \in HopChoices, NEW rules \in StopChoices, NEW limits \in Budgets,
         NEW selection \in OnlyChoices \cup {None}, Continue(h, rules, limits, selection)
  PROVE  CutInv'
<1>1. /\ latest \in Saved /\ Known(out') = Known(latest.out)
      /\ active' => /\ depths' = Distance'
                    /\ \A o \in Known(out') : Held(out', o) <=> depths'[o] = None \/ o \in StoppedNow'
      /\ ~active' => stops' = {} /\ \A o \in Known(out') : ~Held(out', o)
      /\ \A o \in Known(out') : /\ SaysTerminal(out'[o]) => SaysTerminal(latest.out[o])
                                /\ ~Held(out', o) /\ only' = None => out'[o].status \in Terminal \cup {"pending"}
  BY ContinueEffect
<1>2. /\ pc' = "loop" /\ latest' = latest /\ links' = latest.links /\ data' = latest.data /\ latest # None
      /\ gotSpend' = [t \in Txs |-> None]
  BY DEF Continue
<1>3. Known(out') \subseteq Outputs
  BY DEF Known
<1>4. \A o \in Known(out') : data'[TxOf[o]] = "absent" => o \in Seeds \ links' /\ ~SaysTerminal(latest.out[o])
  BY <1>1, <1>2 DEF CutInv, LatestData
<1>5. Plain' /\ HeldIsCut'
  BY <1>1 DEF Plain, HeldIsCut
<1>6. ScopeSound'
  <2> SUFFICES ASSUME active', NEW o \in Outputs, depths'[o] # None
               PROVE  o \in Known(out') /\ depths'[o] \in Depths /\ o \in Full'[depths'[o]]
    BY DEF ScopeSound
  <2> DEFINE known == Known(out')
             stopped == StoppedNow'
             W == Walked({0} \X Seeds, NoDepths, known, links', stopped)
             L == Layer({0} \X Seeds, known, links', stopped)
  <2>1. depths' = W /\ Full' = L
    BY <1>1 DEF Distance, Full
  <2>2. /\ W[o] # None => W[o] \in Depths /\ o \in L[W[o]] /\ o \in known
        /\ \A n \in Depths : o \in L[n] => W[o] # None /\ W[o] <= n
    <3> HIDE DEF known, stopped
    <3> QED BY DistanceExact, Zenon
  <2> QED
    BY <2>1, <2>2
<1>7. StopsHeld'
  <2> SUFFICES ASSUME NEW o \in Known(out'), KindOf[o] = "spendable", AddressOf[o] \in stops', ~Held(out', o)
               PROVE  o \in Seeds \ links' /\ (only' = None => out'[o].status = "pending")
    BY DEF StopsHeld, Stops
  <2>1. active' /\ o \notin StoppedNow'
    BY <1>1
  <2>2. data'[TxOf[o]] = "absent"
    BY <2>1 DEF StoppedNow, StopAddress
  <2>3. o \in Seeds \ links' /\ out'[o].status \notin Terminal
    BY <1>1, <1>4, <2>2 DEF SaysTerminal
  <2> QED
    BY <1>1, <2>3
<1>8. DataKept' /\ LatestData'
  BY <1>1, <1>2, <1>4 DEF CutInv, DataKept, LatestData
<1>9. Followed' /\ Fetched' /\ RequestsInScope'
  BY <1>2 DEF Followed, Fetched, RequestsInScope
<1> QED
  BY <1>5, <1>6, <1>7, <1>8, <1>9 DEF CutInv

LEMMA CutStep ==
  ASSUME TypeInv, ChildInv, CutInv, [Next]_vars
  PROVE  CutInv'
<1>1. CASE Begin
  <2>1. \E h \in HopChoices, rules \in StopChoices, limits \in Budgets :
          \/ Start(h, rules, limits)
          \/ \E selection \in OnlyChoices \cup {None} : Continue(h, rules, limits, selection)
    BY <1>1 DEF Begin
  <2> QED
    BY <2>1, StartCut, ContinueCut
<1>2. CASE Examine
  BY <1>2, PopCut, GetTxCut, ClassifyCut, ReadSpendCut, LinkCut, AddScopedCut, AddPlainCut, AddedCut DEF Examine
<1>3. CASE Lookahead
  BY <1>3, LookaheadCut
<1>4. CASE End \/ Stopped
  <2>1. PICK why \in Reasons \cup {None} : Finish(why) /\ pc \notin {"idle", "finished"}
    BY <1>4, TraceAssumption DEF TraceAssumption, End, BoundedComplete, OutpointLimit, TransactionLimited, Reasons,
                                 Stopped, CanStopBy
  <2> QED
    BY <2>1, FinishCut
<1>5. CASE Export \/ Kill
  BY <1>5, GoneCut
<1>6. CASE ChainGrows \/ UNCHANGED vars
  BY <1>6, OtherCut
<1> QED
  BY <1>1, <1>2, <1>3, <1>4, <1>5, <1>6 DEF Next

LEMMA CutInit == Init => CutInv
<1> SUFFICES ASSUME Init PROVE CutInv
  OBVIOUS
<1>1. Known(out) = {}
  BY DEF Init, Known
<1> QED
  BY <1>1 DEF Init, CutInv, Plain, ScopeSound, HeldIsCut, StopsHeld, DataKept, LatestData, Followed, Fetched,
              RequestsInScope

\* The stops and the ceiling bound the requests of every run, those of the
\* look-ahead included, even when an interrupt lands between two children: no
\* spending information is asked of a transaction unless one of its known outputs
\* may be followed.
THEOREM RequestsBounded == Spec => []RequestsInScope
<1>1. Init => CutInv
  BY CutInit
<1>2. TypeInv /\ ChildInv /\ CutInv /\ [Next]_vars => CutInv'
  BY CutStep
<1>3. CutInv => RequestsInScope
  BY DEF CutInv
<1> QED
  BY <1>1, <1>2, <1>3, Invariant, PTL DEF Spec
-----------------------------------------------------------------------------
(* The depths are those of the walk                                        *)

LEMMA AddScopedExact ==
  ASSUME TypeInv, ChildInv, InterruptInAdd = FALSE, CutInv, ExactInv, AddChild, active
  PROVE  ExactInv'
<1>1. /\ UNCHANGED <<pc, latest, links, data, stops, active, current>> /\ pc = "add"
  BY DEF AddChild, runVars, memoVars
<1>2. PICK c \in children : children' = children \ {c} /\ Add(c, ScopeDepth(current, out, depths) + 1)
  BY DEF AddChild
<1> DEFINE d == ScopeDepth(current, out, depths) + 1
<1>3. d = depths[current] + 1 /\ depths[current] \in Depths /\ current \in Known(out) /\ current \notin StoppedNow
  BY <1>1, <1>2, ChildDepth
<1>4. /\ Known(out') = Known(out) \cup {c}
      /\ \A o \in Known(out) : o \in StoppedNow' <=> o \in StoppedNow
      /\ \A o \in Outputs :
              \/ depths'[o] = depths[o]
              \/ depths'[o] \in Depths /\ (depths[o] = None \/ depths'[o] < depths[o])
      /\ depths'[c] # None /\ depths'[c] <= d
      /\ \A p \in (Known(out') \cap links) \ StoppedNow' : depths'[p] # depths[p] =>
           \A o \in OutputsOf(Spender[p]) \cap Known(out') : depths'[o] # None /\ depths'[o] <= depths'[p] + 1
  BY <1>1, <1>2, ArrivalDepths
<1> HIDE DEF d
<1>5. SeedsKnown'
  BY <1>1, <1>4 DEF ExactInv, SeedsKnown
<1>6. SeedsScoped'
  <2> SUFFICES ASSUME NEW o \in Seeds PROVE depths'[o] = 0
    BY <1>1 DEF SeedsScoped
  <2>1. depths[o] = 0 /\ o \in Outputs /\ None # 0
    BY <1>1, TraceAssumption, Vocabulary DEF TraceAssumption, ExactInv, SeedsScoped
  <2> QED
    BY <1>4, <2>1, DepthsAreNat
<1>7. ScopeClosed'
  <2> SUFFICES ASSUME NEW p \in (Known(out') \cap links) \ StoppedNow', depths'[p] # None,
                      NEW o \in OutputsOf(Spender[p]) \cap Known(out')
               PROVE  \/ p = current /\ o \in children'
                      \/ depths'[o] # None /\ depths'[o] <= depths'[p] + 1
    BY <1>1 DEF ScopeClosed
  <2>0. p \in Outputs /\ o \in Outputs
    BY DEF Known
  <2>1. CASE depths'[p] # depths[p]
    BY <1>4, <2>1
  <2>2. CASE depths'[p] = depths[p]
    <3>1. p \in Known(out) /\ depths[p] # None /\ depths[p] \in Depths
      BY <2>0, <2>2 DEF CutInv, ScopeSound
    <3>2. p \notin StoppedNow
      BY <1>4, <3>1
    <3>3. CASE o \in Known(out)
      <4>1. \/ p = current /\ o \in children
            \/ depths[o] # None /\ depths[o] <= depths[p] + 1
        BY <3>1, <3>2, <3>3 DEF ExactInv, ScopeClosed
      <4>2. CASE p = current /\ o \in children
        BY <1>2, <1>3, <1>4, <2>2, <4>2
      <4>3. CASE depths[o] # None /\ depths[o] <= depths[p] + 1
        <5>1. depths[o] \in Depths
          BY <2>0, <4>3 DEF CutInv, ScopeSound
        <5>2. depths'[o] # None /\ (depths'[o] = depths[o] \/ (depths'[o] < depths[o] /\ depths'[o] \in Depths))
          BY <1>4, <2>0, <4>3, DepthsAreNat, Vocabulary
        <5>3. depths'[o] <= depths[p] + 1
          BY <3>1, <4>3, <5>1, <5>2, DepthsAreNat
        <5> QED
          BY <2>2, <5>2, <5>3
      <4> QED
        BY <4>1, <4>2, <4>3
    <3>4. CASE o \notin Known(out)
      <4>1. o = c
        BY <1>4, <3>4
      <4>2. p = current
        BY <3>4 DEF ChildInv, LinksKept
      <4> QED
        BY <1>3, <1>4, <2>2, <4>1, <4>2
    <3> QED
      BY <3>3, <3>4
  <2> QED
    BY <2>1, <2>2
<1> QED
  BY <1>5, <1>6, <1>7 DEF ExactInv

LEMMA AddPlainExact ==
  ASSUME TypeInv, ExactInv, AddChild, ~active
  PROVE  ExactInv'
<1>1. UNCHANGED <<pc, latest, active>> /\ pc = "add"
  BY DEF AddChild, runVars
<1>2. PICK c \in children : Add(c, ScopeDepth(current, out, depths) + 1)
  BY DEF AddChild
<1>3. /\ current \in Outputs /\ out[current] \in Record /\ c \in Outputs
      /\ depths \in DepthMap
  BY <1>1, <1>2, TypeGroups DEF TypeInv, WorkType, EvidenceType, CurrentKnown, Records
<1>4. ScopeDepth(current, out, depths) + 1 \in Nat
  BY <1>3 DEF ScopeDepth, DepthMap, Record
<1>5. \A o \in Outputs : out[o] # None => out'[o] # None
  BY <1>2, <1>3, <1>4, AddKeeps DEF Grows
<1> QED
  BY <1>1, <1>5 DEF ExactInv, SeedsKnown, SeedsScoped, ScopeClosed, Known

LEMMA GetTxExact ==
  ASSUME TypeInv, CutInv, ExactInv, Fund \/ FetchChild
  PROVE  ExactInv'
<1>1. /\ UNCHANGED <<latest, out, links, stops, active, depths>>
      /\ pc \in {"fund", "child"} /\ pc' \in {"classify", "link"}
  BY DEF Fund, FetchChild, runVars
<1>2. PICK t : GetTx(t)
  BY DEF Fund, FetchChild
<1>3. \A x \in Txs : data[x] # "absent" => data'[x] # "absent"
  <2>1. data \in [Txs -> Seen]
    BY TypeGroups DEF TypeInv, EvidenceType
  <2>2. data' = data \/ (TxResponse(t) # "absent" /\ data' = [data EXCEPT ![t] = TxResponse(t)])
    BY <1>2 DEF GetTx
  <2> QED
    BY <2>1, <2>2
<1>4. StoppedNow \subseteq StoppedNow'
  <2>1. \A o \in Outputs : TxOf[o] \in Txs
    BY TraceAssumption DEF TraceAssumption
  <2> QED
    BY <1>1, <1>3, <2>1 DEF StoppedNow, StopAddress, Known
<1> QED
  BY <1>1, <1>4 DEF ExactInv, SeedsKnown, SeedsScoped, ScopeClosed

LEMMA LinkExact ==
  ASSUME TypeInv, ExactInv, Link
  PROVE  ExactInv'
<1>1. UNCHANGED <<latest, data, stops, active, depths>> /\ pc = "link"
  BY DEF Link, runVars
<1>2. out \in Records /\ current \in Outputs /\ out[current] \in Record
  BY <1>1, TypeGroups, NoneIsNoRecord DEF TypeInv, WorkType, CurrentKnown, Records
<1>3. PICK s \in Statuses : out' = [out EXCEPT ![current] = [out[current] EXCEPT !.status = s]]
  <2>1. out' = [out EXCEPT ![current] = [out[current] EXCEPT !.status = "unconfirmed_spend"]]
        \/ out' = [out EXCEPT ![current] = [out[current] EXCEPT !.status = "spent"]]
    BY DEF Link, Conclude
  <2> QED
    BY <2>1 DEF Statuses, Terminal
<1>4. Known(out') = Known(out)
  <2>1. [out[current] EXCEPT !.status = s] \in Record
    BY <1>2 DEF Record
  <2>2. \A o \in Outputs : out'[o] = None <=> out[o] = None
    BY <1>2, <1>3, <2>1, NoneIsNoRecord DEF Records
  <2> QED
    BY <2>2 DEF Known
<1>5. StoppedNow' = StoppedNow
  BY <1>1, <1>4 DEF StoppedNow, StopAddress
<1>6. \/ links' = links
      \/ /\ links' = links \cup {current} /\ children' = OutputsOf(Spender[current])
         /\ pc' = "add" /\ current' = current
  BY DEF Link, Conclude
<1>7. pc' \in {"loop", "add"}
  BY DEF Link, Conclude
<1> QED
  BY <1>1, <1>4, <1>5, <1>6, <1>7 DEF ExactInv, SeedsKnown, SeedsScoped, ScopeClosed

LEMMA VerdictExact ==
  ASSUME TypeInv, ExactInv, Classify \/ ReadSpend
  PROVE  ExactInv'
<1>1. UNCHANGED <<latest, links, data, stops, active, depths>> /\ pc \in {"classify", "spend"} /\ pc' # "idle"
  BY DEF Classify, ReadSpend, Conclude, runVars
<1>2. out \in Records /\ current \in Outputs /\ out[current] \in Record
  BY <1>1, TypeGroups, NoneIsNoRecord DEF TypeInv, WorkType, CurrentKnown, Records
<1>3. out' = out \/ \E r \in Record : out' = [out EXCEPT ![current] = r]
  <2>1. \A s \in Statuses : [out[current] EXCEPT !.status = s] \in Record
    BY <1>2 DEF Record
  <2>2. Marked(out[current]) \in Record
    BY <1>2, RestoredEffect, HoldForEffect, Vocabulary DEF Marked
  <2>3. KindOf[current] # "spendable" => KindOf[current] \in Statuses
    BY <1>2, TraceAssumption DEF TraceAssumption, Kinds, Statuses, Terminal
  <2>4. {"unconfirmed_funding", "hop_limit", "unspent_at_observation", "unconfirmed_spend"} \subseteq Statuses
    BY DEF Statuses
  <2>5. CASE Classify
    BY <2>1, <2>2, <2>3, <2>4, <2>5 DEF Classify, Conclude
  <2>6. CASE ReadSpend
    BY <2>1, <2>4, <2>6 DEF ReadSpend, Conclude
  <2> QED
    BY <2>5, <2>6
<1>4. Known(out') = Known(out)
  BY <1>2, <1>3, NoneIsNoRecord DEF Known, Records
<1> QED
  BY <1>1, <1>4, QuietExact

\* Steps that leave the outputs and the scope alone.
LEMMA StillExact ==
  ASSUME ExactInv, Pop \/ Added \/ Lookahead \/ ChainGrows \/ UNCHANGED vars
  PROVE  ExactInv'
<1>1. UNCHANGED <<latest, out, links, data, stops, active, depths>>
  BY DEF Pop, Added, Lookahead, ChainGrows, vars, saveVars, runVars, loopVars, memoVars
<1>2. pc' # "idle" => pc # "idle"
  BY DEF Pop, Added, Lookahead, ChainGrows, vars
<1>3. pc = "add" => children = {} \/ (pc' = "add" /\ current' = current /\ children' = children)
  BY DEF Pop, Added, Lookahead, ChainGrows, vars, loopVars
<1> QED
  BY <1>1, <1>2, <1>3, QuietExact

LEMMA FinishExact ==
  ASSUME TypeInv, ExactInv, NEW why \in Reasons \cup {None}, Finish(why), pc \notin {"idle", "finished", "add"}
  PROVE  ExactInv'
<1>1. /\ UNCHANGED <<latest, links, data, stops, active, depths>>
      /\ out' = [o \in Outputs |-> IF why # None /\ out[o] # None /\ out[o].status = "pending"
                               THEN [out[o] EXCEPT !.status = why] ELSE out[o]]
  BY DEF Finish, runVars
<1>2. out \in Records
  BY TypeGroups DEF TypeInv, WorkType
<1>3. \A o \in Outputs : out'[o] = None <=> out[o] = None
  <2> TAKE o \in Outputs
  <2>1. CASE why # None /\ out[o] # None /\ out[o].status = "pending"
    <3>1. out[o] \in Record /\ why \in Statuses
      BY <1>2, <2>1, Vocabulary DEF Records
    <3>2. [out[o] EXCEPT !.status = why] \in Record
      BY <3>1 DEF Record
    <3> QED
      BY <1>1, <2>1, <3>2, NoneIsNoRecord
  <2>2. CASE ~(why # None /\ out[o] # None /\ out[o].status = "pending")
    BY <1>1, <2>2
  <2> QED
    BY <2>1, <2>2
<1>4. Known(out') = Known(out)
  BY <1>3 DEF Known
<1> QED
  BY <1>1, <1>4, QuietExact

LEMMA GoneExact ==
  ASSUME ExactInv, Export \/ Kill
  PROVE  ExactInv'
<1>1. /\ pc' = "idle" /\ active' = FALSE
      /\ latest' = latest \/ (pc # "idle" /\ latest' = [out |-> out, links |-> links, data |-> data, hops |-> hops])
  BY DEF Export, Kill, Gone
<1> QED
  BY <1>1 DEF ExactInv, SeedsKnown, SeedsScoped, ScopeClosed

LEMMA StartExact ==
  ASSUME ExactInv, NEW h, NEW rules, NEW limits, Start(h, rules, limits)
  PROVE  ExactInv'
<1>1. /\ latest' = latest /\ links' = {} /\ active' = (rules # {})
      /\ out' = [o \in Outputs |-> IF o \in Seeds THEN Arrived(None, 0) ELSE None]
      /\ depths' = [o \in Outputs |-> IF rules # {} /\ o \in Seeds THEN 0 ELSE None]
  BY DEF Start
<1>2. Arrived(None, 0) # None
  BY ArrivedType, NoneIsNoRecord
<1>3. Seeds \subseteq Known(out')
  BY <1>1, <1>2, TraceAssumption DEF TraceAssumption, Known
<1>4. SeedsScoped' /\ ScopeClosed'
  BY <1>1, TraceAssumption DEF TraceAssumption, SeedsScoped, ScopeClosed
<1> QED
  BY <1>1, <1>3, <1>4 DEF ExactInv, SeedsKnown

LEMMA ContinueExact ==
  ASSUME TypeInv, ChildInv, CutInv, ExactInv, NEW h \in HopChoices, NEW rules \in StopChoices,
         NEW limits \in Budgets, NEW selection \in OnlyChoices \cup {None}, Continue(h, rules, limits, selection)
  PROVE  ExactInv'
<1>1. Known(out') = Known(latest.out) /\ (active' => depths' = Distance')
  BY ContinueEffect
<1>2. latest' = latest /\ latest # None
  BY DEF Continue
<1>3. SeedsKnown'
  BY <1>1, <1>2 DEF ExactInv, SeedsKnown
<1> DEFINE known == Known(out')
           stopped == StoppedNow'
           W == Walked({0} \X Seeds, NoDepths, known, links', stopped)
           L == Layer({0} \X Seeds, known, links', stopped)
<1>4. active' => depths' = W
  BY <1>1 DEF Distance
<1>5. Seeds \subseteq known /\ known \subseteq Outputs
  BY <1>2, <1>3 DEF SeedsKnown, Known, Continue
<1> HIDE DEF known, stopped
<1>6. \A o \in Outputs : /\ W[o] # None => W[o] \in Depths /\ o \in L[W[o]] /\ o \in known
                         /\ \A n \in Depths : o \in L[n] => W[o] # None /\ W[o] <= n
  BY DistanceExact, Zenon
<1>7. SeedsScoped'
  <2> SUFFICES ASSUME active', NEW o \in Seeds PROVE W[o] = 0
    BY <1>4 DEF SeedsScoped
  <2>1. 0 \in Depths
    BY DepthsAreNat
  <2>2. o \in L[0]
    <3> DEFINE starts == {0} \X Seeds
    <3>1. <<0, o>> \in starts /\ o \in known
      BY <1>5
    <3> HIDE DEF starts
    <3>2. o \in Layer(starts, known, links', stopped)[0]
      BY <2>1, <3>1, LayerStart
    <3> QED
      BY <3>2 DEF starts
  <2> HIDE DEF W, L
  <2>3. W[o] # None /\ W[o] <= 0 /\ W[o] \in Depths
    BY <1>5, <1>6, <2>1, <2>2
  <2> QED
    BY <2>3, DepthsAreNat
<1>8. ScopeClosed'
  <2> SUFFICES ASSUME active', NEW p \in (known \cap links') \ stopped, W[p] # None,
                      NEW o \in OutputsOf(Spender[p]) \cap known
               PROVE  W[o] # None /\ W[o] <= W[p] + 1
    BY <1>4 DEF ScopeClosed, known, stopped
  <2>1. W[p] \in Depths /\ p \in L[W[p]] /\ p \in Outputs /\ o \in Outputs
    BY <1>5, <1>6
  <2> DEFINE n == W[p]
             starts == {0} \X Seeds
  <2>2. n \in Depths /\ p \in Layer({0} \X Seeds, known, links', stopped)[n] /\ p \in Layer(starts, known, links', stopped)[n]
    BY <2>1
  <2> HIDE DEF n
  <2>3. n + 1 \in Depths
    BY <1>5, <2>2, LayerBelowFits
  <2>4. o \in L[n + 1]
    <3> HIDE DEF starts
    <3>1. o \in Layer(starts, known, links', stopped)[n + 1]
      BY <2>2, <2>3, LayerStep
    <3> QED
      BY <3>1 DEF starts
  <2> HIDE DEF W, L
  <2>5. W[o] # None /\ W[o] <= n + 1
    BY <1>6, <2>1, <2>3, <2>4
  <2> QED
    BY <2>5 DEF n
<1> QED
  BY <1>3, <1>7, <1>8 DEF ExactInv

LEMMA ExactStep ==
  ASSUME TypeInv, ChildInv, InterruptInAdd = FALSE, CutInv, ExactInv, [Next]_vars
  PROVE  ExactInv'
<1>1. CASE Begin
  <2>1. \E h \in HopChoices, rules \in StopChoices, limits \in Budgets :
          \/ Start(h, rules, limits)
          \/ \E selection \in OnlyChoices \cup {None} : Continue(h, rules, limits, selection)
    BY <1>1 DEF Begin
  <2> QED
    BY <2>1, StartExact, ContinueExact
<1>2. CASE Examine
  BY <1>2, StillExact, GetTxExact, VerdictExact, LinkExact, AddScopedExact, AddPlainExact DEF Examine
<1>3. CASE End \/ Stopped
  <2>1. PICK why \in Reasons \cup {None} : Finish(why) /\ pc \notin {"idle", "finished", "add"}
    BY <1>3, TraceAssumption DEF TraceAssumption, End, BoundedComplete, OutpointLimit, TransactionLimited, Reasons,
                                 Stopped, CanStopBy
  <2> QED
    BY <2>1, FinishExact
<1>4. CASE Export \/ Kill
  BY <1>4, GoneExact
<1>5. CASE Lookahead \/ ChainGrows \/ UNCHANGED vars
  BY <1>5, StillExact
<1> QED
  BY <1>1, <1>2, <1>3, <1>4, <1>5 DEF Next

\* Between two outputs the depths maintained one arrival at a time are those of
\* the walk from the seeds.
LEMMA DepthsExact ==
  ASSUME TypeInv, CutInv, ExactInv, active, pc \notin {"idle", "add"}
  PROVE  depths = Distance
<1> DEFINE Bad == {n \in Depths : \E o \in Full[n] : ~(depths[o] # None /\ depths[o] <= n)}
<1>0. depths \in DepthMap
  BY TypeGroups DEF TypeInv, WorkType
<1>a. \A n \in Depths : Full[n] \subseteq Known(out) /\ Known(out) \subseteq Outputs
  BY LayerKnown DEF Full, Known
<1>1. Bad = {}
  <2> SUFFICES ASSUME Bad # {} PROVE FALSE
    OBVIOUS
  <2>1. PICK n \in Bad : \A k \in Bad : n <= k
    <3> Bad \subseteq Nat
      BY DepthsAreNat
    <3> HIDE DEF Bad
    <3> QED BY LeastNatural
  <2>2. n \in Depths /\ n \in Nat
    BY DepthsAreNat
  <2>3. PICK o \in Full[n] : ~(depths[o] # None /\ depths[o] <= n)
    OBVIOUS
  <2>4. o \in Known(out) /\ o \in Outputs
    BY <1>a, <2>2, <2>3
  <2>5. <<n, o>> \notin {0} \X Seeds
    <3>1. \A x \in Seeds : depths[x] = 0
      BY DEF ExactInv, SeedsScoped
    <3> QED
      BY <2>2, <2>3, <3>1, Vocabulary
  <2>6. PICK p \in Full[n - 1] : p \in links \ StoppedNow /\ o \in OutputsOf(Spender[p]) /\ n # 0
    <3> DEFINE starts == {0} \X Seeds
    <3>1. o \in Layer(starts, Known(out), links, StoppedNow)[n] /\ <<n, o>> \notin starts
      BY <2>3, <2>5 DEF Full
    <3>2. Full[n - 1] = Layer(starts, Known(out), links, StoppedNow)[n - 1]
      BY DEF Full
    <3> HIDE DEF starts
    <3> QED
      BY <2>2, <3>1, <3>2, LayerCases
  <2>7. n - 1 \in Depths /\ ~ (n <= n - 1)
    BY <2>2, <2>6, DepthsAreNat
  <2>8. n - 1 \notin Bad
    <3> HIDE DEF Bad
    <3> QED BY <2>1, <2>7
  <2>9. depths[p] # None /\ depths[p] <= n - 1 /\ p \in Known(out) /\ p \in Outputs
    BY <1>a, <2>6, <2>7, <2>8
  <2>10. depths[o] # None /\ depths[o] <= depths[p] + 1
    BY <2>4, <2>6, <2>9 DEF ExactInv, ScopeClosed
  <2>11. depths[p] \in Nat /\ depths[o] \in Nat
    BY <1>0, <2>4, <2>9, <2>10 DEF DepthMap
  <2> QED
    BY <2>2, <2>3, <2>9, <2>10, <2>11
<1>2. \A n \in Depths, o \in Outputs : o \in Full[n] => depths[o] # None /\ depths[o] <= n
  BY <1>1
<1>3. \A o \in Outputs : depths[o] # None => depths[o] \in Depths /\ o \in Full[depths[o]]
  BY DEF CutInv, ScopeSound
<1>4. \A o \in Outputs : /\ Distance[o] # None => Distance[o] \in Depths /\ o \in Full[Distance[o]]
                         /\ \A n \in Depths : o \in Full[n] => Distance[o] # None /\ Distance[o] <= n
  <2> DEFINE known == Known(out)
             stopped == StoppedNow
             W == Walked({0} \X Seeds, NoDepths, known, links, stopped)
             L == Layer({0} \X Seeds, known, links, stopped)
  <2>1. Distance = W /\ Full = L
    BY DEF Distance, Full
  <2>2. \A o \in Outputs : /\ W[o] # None => W[o] \in Depths /\ o \in L[W[o]] /\ o \in known
                           /\ \A n \in Depths : o \in L[n] => W[o] # None /\ W[o] <= n
    <3> HIDE DEF known, stopped
    <3> QED BY DistanceExact, Zenon
  <2> HIDE DEF W, L
  <2> QED
    BY <2>1, <2>2
<1>5. \A o \in Outputs : depths[o] = Distance[o]
  BY <1>2, <1>3, <1>4, DepthsAreNat
<1>6. Distance = [o \in Outputs |-> Distance[o]] /\ depths = [o \in Outputs |-> depths[o]]
  BY <1>0 DEF Distance, Walked, DepthMap
<1> QED
  BY <1>5, <1>6

LEMMA ScopeIsExactHere ==
  ASSUME TypeInv, CutInv, ExactInv, WorkIsKept
  PROVE  ScopeIsExact
<1> SUFFICES ASSUME pc = "loop" \/ Complete, active
             PROVE  /\ depths = Distance
                    /\ \A o \in Known(out) :
                         /\ Held(out, o) => o \in StoppedNow \/ Distance[o] = None
                         /\ Distance[o] = None => Held(out, o)
                         /\ o \in StoppedNow => Held(out, o) \/ (o \in Seeds \ links /\ ~(Complete /\ only = None))
  BY DEF ScopeIsExact
<1>1. depths = Distance
  BY DepthsExact DEF Complete, Finished
<1>2. ASSUME NEW o \in Known(out), o \in StoppedNow, ~Held(out, o)
      PROVE  o \in Seeds \ links /\ ~(Complete /\ only = None)
  <2>1. Stops(o)
    BY <1>2 DEF StoppedNow, StopAddress, Stops
  <2>2. o \in Seeds \ links /\ (Open /\ only = None => out[o].status = "pending")
    BY <1>2, <2>1 DEF CutInv, StopsHeld
  <2>3. ASSUME Complete, only = None PROVE FALSE
    <3>1. out[o].status = "pending" /\ Finished
      BY <2>2, <2>3 DEF Complete, Finished, Open
    <3>2. o \in SetAside
      BY <1>2, <3>1 DEF WorkIsKept, NonePending
    <3> QED
      BY <2>3, <3>2 DEF SetAside
  <2> QED
    BY <2>2, <2>3
<1> QED
  BY <1>1, <1>2 DEF CutInv, HeldIsCut

\* The rules of a run bound it exactly.  As long as no interrupt lands between
\* two children of one transaction, the scope that add() and mark_stop maintain
\* is, between two outputs, the one a walk from the seeds would compute from
\* scratch; and nothing is asked of a transaction whose known outputs it cuts off.
THEOREM ScopeKept ==
  ASSUME InterruptInAdd = FALSE
  PROVE  Spec => []ScopeHolds
<1>1. Init => CutInv /\ ExactInv
  <2>1. Init => ExactInv
    BY DEF Init, ExactInv, SeedsKnown, SeedsScoped, ScopeClosed
  <2> QED
    BY <2>1, CutInit
<1>2. TypeInv /\ ChildInv /\ CutInv /\ ExactInv /\ [Next]_vars => CutInv' /\ ExactInv'
  BY CutStep, ExactStep
<1>3. TypeInv /\ CutInv /\ ExactInv /\ WorkIsKept => ScopeHolds
  BY ScopeIsExactHere DEF ScopeHolds, CutInv
<1> QED
  BY <1>1, <1>2, <1>3, Invariant, WorkKept, PTL DEF Spec
=============================================================================
