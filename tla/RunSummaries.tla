----------------------------- MODULE RunSummaries -----------------------------
(* The summaries of saved runs that the pages show (run_summaries.py,         *)
(* investigation_views.py).  An archive may be huge, so pages only look at a  *)
(* summary in memory or in a cache file, and one background thread reads the  *)
(* archives they ask for.  The queue is bounded; what the user selected goes  *)
(* first.  Archives may be replaced while they are read, cache files may be   *)
(* damaged, other processes save summaries too, and the server may restart.   *)
EXTENDS Naturals, FiniteSets, SequencesExt

CONSTANTS
  Archives,
  Latest,     \* the one case.json names
  Pages,      \* requests the server may handle at once
  QueueLimit, \* 64
  Kept,       \* summaries kept in memory, 256
  MaxAsks, MaxChanges, \* bounds
  None

SummariesAssumption == Latest \in Archives /\ {QueueLimit, Kept, MaxAsks, MaxChanges} \subseteq Nat \ {0}

VARIABLES
  disk,     \* [Archives -> [version, good]]: the archive and whether it can be read
  cache,    \* [Archives -> its cache file]
  results,  \* _results: the summaries in memory, the most recent last
  queue,    \* _queue, by sequence number
  pending,  \* _pending
  worker,   \* the background thread
  page,     \* [Pages -> the request]
  lock,     \* the page that holds _lock between two steps
  sealed,   \* what another process is about to save
  asks, changes
vars == <<disk, cache, results, queue, pending, worker, page, lock, sealed, asks, changes>>
countVars == <<asks, changes>>

\* A binding names the archive and the state of its files.
Binding(a) == <<a, disk[a].version>>
Summary(key, status) == [key |-> key, status |-> status]
Status(a) == IF disk[a].good THEN "ready" ELSE "unavailable"
Keys == Archives \X (0..MaxChanges)
Idle == [pc |-> "idle", left |-> {}, wanted |-> {}, urgent |-> {}, key |-> None, got |-> None]
Resting == [pc |-> "rest", key |-> None, got |-> None]

TypeOK ==
  /\ \A a \in Archives : disk[a].version \in 0..MaxChanges /\ disk[a].good \in BOOLEAN
  /\ pending \subseteq Keys /\ Len(results) <= Kept /\ Len(queue) <= QueueLimit
  /\ worker.pc \in {"none", "rest", "read", "recheck", "save", "write", "remember", "done"}
  /\ \A p \in Pages : page[p].pc \in {"idle", "next", "answer", "enqueue", "full"}
  /\ lock \in Pages \cup {None} /\ sealed \in Keys \cup {None}
Init ==
  /\ disk = [a \in Archives |-> [version |-> 0, good |-> TRUE]]
  /\ cache = [a \in Archives |-> None] /\ results = <<>> /\ queue = <<>> /\ pending = {}
  /\ worker = [Resting EXCEPT !.pc = "none"] /\ page = [p \in Pages |-> Idle]
  /\ lock = None /\ sealed = None /\ asks = 0 /\ changes = 0

-----------------------------------------------------------------------------
(* Memory and cache files *)

Position(key) == {i \in DOMAIN results : results[i].key = key}
_remember(summary) ==
  LET others == SelectSeq(results, LAMBDA r : r.key # summary.key)
      all == Append(others, summary)
  IN  results' = IF Len(all) > Kept THEN Tail(all) ELSE all
\* A file that was written for other files of the archive is no answer.
_cached(key) == IF cache[key[1]] # None /\ cache[key[1]].key = key THEN cache[key[1]] ELSE None

-----------------------------------------------------------------------------
(* Pages *)

Goes(p, fields) ==
  page' = [page EXCEPT ![p] = [f \in DOMAIN Idle |-> IF f \in DOMAIN fields THEN fields[f] ELSE page[p][f]]]
\* After the last archive the page is complete.
GoesOn(p, left) ==
  Goes(p, IF left = {} THEN Idle
          ELSE [page[p] EXCEPT !.pc = "next", !.left = left, !.key = None, !.got = None])
PageOnly == UNCHANGED <<disk, cache, queue, pending, worker, sealed, countVars>>
\* A list of runs wants the selected one first, and all only on the history;
\* a dashboard wants none, an investigation its latest.
collection(p) ==
  /\ page[p].pc = "idle" /\ asks < MaxAsks /\ asks' = asks + 1
  /\ \E selected \in Archives, history \in BOOLEAN :
       Goes(p, [pc |-> "next", left |-> Archives, urgent |-> {selected},
                wanted |-> IF history THEN Archives ELSE {selected}])
  /\ UNCHANGED <<disk, cache, results, queue, pending, worker, lock, sealed, changes>>
overview(p) ==
  /\ page[p].pc = "idle" /\ asks < MaxAsks /\ asks' = asks + 1
  /\ \E detail \in BOOLEAN :
       Goes(p, [pc |-> "next", left |-> {Latest}, urgent |-> {Latest},
                wanted |-> IF detail THEN {Latest} ELSE {}])
  /\ UNCHANGED <<disk, cache, results, queue, pending, worker, lock, sealed, changes>>
\* What is looked up is looked up by the binding, in memory and then in the file.
get_run_summary(p) ==
  /\ page[p].pc = "next" /\ lock = None
  /\ \E a \in page[p].left :
       LET at == Position(Binding(a))
           saved == _cached(Binding(a))
           asked(pc, summary) ==
             Goes(p, [pc |-> pc, left |-> page[p].left \ {a}, key |-> Binding(a), got |-> summary])
       IN  IF at # {} THEN asked("answer", results[CHOOSE i \in at : TRUE]) /\ UNCHANGED results
           ELSE IF saved # None THEN asked("answer", saved) /\ _remember(saved)
           ELSE /\ IF a \in page[p].wanted THEN asked("enqueue", None) ELSE GoesOn(p, page[p].left \ {a})
                /\ UNCHANGED results
  /\ UNCHANGED lock /\ PageOnly
\* The mutant: the archive is not looked at again.
ShownAnyway(p) == page[p].got
\* A summary is given only if the archive is still the one it belongs to.
Shown(p) == IF Binding(page[p].key[1]) = page[p].key THEN page[p].got ELSE None
Answer(p) ==
  /\ page[p].pc = "answer" /\ GoesOn(p, page[p].left)
  /\ UNCHANGED <<results, lock>> /\ PageOnly
Entry(key, urgent) == [key |-> key, urgent |-> urgent]
Started == IF worker.pc = "none" THEN worker' = Resting ELSE UNCHANGED worker
_enqueue(p) ==
  /\ page[p].pc = "enqueue" /\ lock = None
  /\ LET key == page[p].key
         urgent == key[1] \in page[p].urgent
     IN  IF key \in pending
         THEN /\ queue' = [i \in DOMAIN queue |->
                             IF queue[i].key = key /\ urgent THEN Entry(key, TRUE) ELSE queue[i]]
              /\ Started /\ GoesOn(p, page[p].left) /\ UNCHANGED <<pending, lock>>
         ELSE IF Len(queue) < QueueLimit
         THEN /\ queue' = Append(queue, Entry(key, urgent)) /\ pending' = pending \cup {key}
              /\ Started /\ GoesOn(p, page[p].left) /\ UNCHANGED lock
         ELSE /\ (IF urgent THEN Goes(p, [pc |-> "full"]) ELSE GoesOn(p, page[p].left))
              /\ lock' = IF urgent THEN p ELSE None
              /\ UNCHANGED <<queue, pending, worker>>
  /\ UNCHANGED <<disk, cache, results, sealed, countVars>>
\* The newest entry nobody selected gives way.  The thread may have taken one
\* since the queue was full.
Displace(p) ==
  /\ page[p].pc = "full" /\ lock' = None /\ GoesOn(p, page[p].left)
  /\ LET candidates == {i \in DOMAIN queue : ~queue[i].urgent}
         key == page[p].key
     IN  IF candidates = {} THEN UNCHANGED <<queue, pending, worker>>
         ELSE LET i == CHOOSE i \in candidates : \A j \in candidates : j <= i
              IN  /\ queue' = Append(RemoveAt(queue, i), Entry(key, TRUE))
                  /\ pending' = (pending \ {queue[i].key}) \cup {key}
                  /\ Started
  /\ UNCHANGED <<disk, cache, results, sealed, countVars>>

-----------------------------------------------------------------------------
(* The background thread *)

Steps(fields) == worker' = [f \in DOMAIN Resting |-> IF f \in DOMAIN fields THEN fields[f] ELSE worker[f]]
WorkOnly == UNCHANGED <<disk, page, lock, sealed, countVars>>
Fresh(key) == Binding(key[1]) = key
Intact == Fresh(worker.key)
Foremost == LET urgent == {i \in DOMAIN queue : queue[i].urgent}
             from == IF urgent = {} THEN DOMAIN queue ELSE urgent
         IN  CHOOSE i \in from : \A j \in from : i <= j
Take ==
  /\ worker.pc = "rest" /\ queue # <<>>
  /\ LET key == queue[Foremost].key IN Steps([pc |-> IF Fresh(key) THEN "read" ELSE "done", key |-> key])
  /\ queue' = RemoveAt(queue, Foremost)
  /\ UNCHANGED <<cache, results, pending>> /\ WorkOnly
\* Reading may fail for a while; then nothing is remembered.
_build ==
  /\ \/ /\ worker.pc = "read"
        /\ LET a == worker.key[1] IN Steps([pc |-> "recheck", got |-> Summary(Binding(a), Status(a))])
     \/ worker.pc = "read" /\ Steps([pc |-> "done"])
     \* What is not valid is not checked a second time.
     \/ /\ worker.pc = "recheck"
        /\ Steps([pc |-> IF Intact \/ worker.got.status = "unavailable" THEN "save" ELSE "done"])
     \/ worker.pc = "save" /\ Steps([pc |-> IF Intact THEN "write" ELSE "remember"])
  /\ UNCHANGED <<cache, results, queue, pending>> /\ WorkOnly
Learned == Summary(worker.key, worker.got.status)
_save ==
  /\ worker.pc = "write" /\ Steps([pc |-> "remember"])
  /\ cache' = [cache EXCEPT ![worker.key[1]] = Learned] \/ UNCHANGED cache
  /\ UNCHANGED <<results, queue, pending>> /\ WorkOnly
RememberBuilt ==
  /\ worker.pc = "remember" /\ lock = None /\ _remember(Learned) /\ Steps([pc |-> "done"])
  /\ UNCHANGED <<cache, queue, pending>> /\ WorkOnly
_work ==
  /\ worker.pc = "done" /\ lock = None /\ pending' = pending \ {worker.key}
  /\ Steps(Resting) /\ UNCHANGED <<cache, results, queue>> /\ WorkOnly
Working == Take \/ _build \/ _save \/ RememberBuilt \/ _work

-----------------------------------------------------------------------------
(* Other processes *)

Happens == changes < MaxChanges /\ changes' = changes + 1
Elsewhere == UNCHANGED <<results, queue, pending, worker, page, lock, asks>>
\* A job saves the summary of what it sealed, which may be replaced meanwhile.
remember_run_summary ==
  /\ \/ /\ sealed = None /\ Happens /\ UNCHANGED cache
        /\ \E a \in Archives : disk[a].good /\ sealed' = Binding(a)
     \/ /\ sealed # None /\ sealed' = None /\ UNCHANGED changes
        /\ cache' = [cache EXCEPT ![sealed[1]] = Summary(sealed, "ready")]
  /\ Elsewhere /\ UNCHANGED disk
Replaced(a) ==
  /\ Happens
  /\ \E good \in BOOLEAN : disk' = [disk EXCEPT ![a] = [version |-> @.version + 1, good |-> good]]
  /\ Elsewhere /\ UNCHANGED <<cache, sealed>>
CacheLost(a) ==
  /\ cache[a] # None /\ cache' = [cache EXCEPT ![a] = None] /\ Happens
  /\ Elsewhere /\ UNCHANGED <<disk, sealed>>
Restart ==
  /\ worker.pc # "none" /\ Happens
  /\ results' = <<>> /\ queue' = <<>> /\ pending' = {} /\ worker' = [Resting EXCEPT !.pc = "none"]
  /\ page' = [p \in Pages |-> Idle] /\ lock' = None
  /\ UNCHANGED <<disk, cache, sealed, asks>>

Next ==
  \/ \E p \in Pages : collection(p) \/ overview(p) \/ get_run_summary(p)
                      \/ Answer(p) \/ _enqueue(p) \/ Displace(p)
  \/ Working
  \/ remember_run_summary \/ Restart \/ \E a \in Archives : Replaced(a) \/ CacheLost(a)

-----------------------------------------------------------------------------
\* The keys of _pending are those of the queue and of the archive being read,
\* each once, however pages promote, displace and the thread takes them.
PendingIsQueued ==
  /\ pending = {queue[i].key : i \in DOMAIN queue} \cup ({worker.key} \ {None})
  /\ \A i, j \in DOMAIN queue : i # j => queue[i].key # queue[j].key
  /\ \A i \in DOMAIN queue : queue[i].key # worker.key
\* A summary that a page is given is that of the archive as it is then, whatever
\* was replaced or saved while it was looked up.
AnswersAreCurrent ==
  \A p \in Pages :
    page[p].pc = "answer" =>
      LET a == page[p].key[1] IN Shown(p) \in {None, Summary(Binding(a), Status(a))}
\* What is queued is read: the thread always comes to the end of its queue.
QueueDrains == pending = {}
=============================================================================
