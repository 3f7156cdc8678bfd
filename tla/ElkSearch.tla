------------------------------ MODULE ElkSearch ------------------------------
(* Layout searches of one user that share the machine                        *)
(* (shared_render_resources.py, elk_parallel.py, elk_sections_parallel.py,   *)
(* render_runtime.py, elk_layout.py).  A search registers, asks for heap and *)
(* processor slots before each batch of worker processes, returns them when  *)
(* the batch has ended, and hands the outcomes on in order.  A search may be *)
(* canceled or its process killed; its workers may outlive it.  Memory is    *)
(* counted in units of the smallest heap of a measured worker, 1024 MiB.     *)
EXTENDS Naturals, FiniteSetsExt, SequencesExt

CONSTANTS
  Searches,
  Sections,   \* those that lay out sections; the others try seeds
  Number,     \* [Searches -> Nat]: attempts, or sections, of each
  Machine,    \* heap the machine offers when nothing runs
  Cpus,
  HeapLimit,  \* LIQUID_RENDER_HEAP_MB, 0 for auto
  Pilot,      \* heap of a worker before its memory was measured
  Peaks,      \* peak memory a worker may report, 0 for none
  Stoppable   \* bound: searches that are canceled or killed

ElkAssumption ==
  /\ Sections \subseteq Searches /\ {Machine, Cpus, Pilot} \subseteq Nat \ {0}
  /\ Number \in [Searches -> Nat \ {0}]
  /\ HeapLimit \in 0..Machine /\ Peaks \subseteq Nat /\ Stoppable \subseteq Searches

VARIABLES
  jobs,     \* state.json: what is registered of every search
  pool,     \* state.json: pool_heap
  queue,    \* state.json: the waiting searches by their tickets
  search,   \* per search: its step and its local variables
  workers,  \* per search: the attempts a worker process is running
  asked     \* searches asked to stop
vars == <<jobs, pool, queue, search, workers, asked>>

Least(a, b) == IF a < b THEN a ELSE b
Most(a, b) == IF a < b THEN b ELSE a

NoJob == [mode |-> "none", heap |-> 0, slots |-> 0, wantedHeap |-> 1,
          wantedSlots |-> 1, grace |-> FALSE]
Nothing == [count |-> 1, heap |-> 0, each |-> 0]
Unknown(s) == [i \in 1..Number[s] |-> [kind |-> "none", peak |-> 0]]
Fresh(s) == [pc |-> "start", next |-> 1, sequential |-> FALSE, peak |-> 0, alone |-> FALSE,
          wanted |-> Nothing, batch |-> {}, small |-> FALSE, outcomes |-> Unknown(s),
          good |-> FALSE]
Ended == {"done", "raised", "dead"}
Step(s, pc) == search' = [search EXCEPT ![s].pc = pc]
Going(s, pc) == search[s].pc = pc /\ s \notin asked

-----------------------------------------------------------------------------
\* Every transaction drops the registrations that neither their owner nor one
\* of its workers, which inherit the lock, still holds.
\* Mutants: workers that outlive their search are forgotten; a killed search
\* stays registered.
_reap_owner(s) == search[s].pc \in Ended
_reap_tidy(s) == search[s].pc \in {"done", "raised"} /\ workers[s] = {}
_reap(s) == search[s].pc \in Ended /\ workers[s] = {}
Sum(j, field, D) ==
  LET sum[E \in SUBSET D] ==
        IF E = {} THEN 0 ELSE LET t == CHOOSE t \in E : TRUE IN j[t][field] + sum[E \ {t}]
  IN sum[D]
InMode(j, m) == {s \in Searches : ~_reap(s) /\ j[s].mode = m}
HeapUsed(j) == Sum(j, "heap", InMode(j, "active"))
SlotsUsed(j) == Sum(j, "slots", InMode(j, "active"))
\* Heaps in use may be full, empty or anything between.
_available_bytes(j) == {Machine, Machine - HeapUsed(j)}
renderer_heap_mb == IF HeapLimit > 0 THEN {HeapLimit} ELSE _available_bytes(jobs)

\* Demands below the even share are met, the others share what is left.
Served(acc, j, field) ==
  LET share == acc.total \div Cardinality(acc.pending)
      few == {s \in acc.pending : j[s][field] <= share}
  IN [total |-> acc.total - Sum(j, field, few), pending |-> acc.pending \ few]
Contenders(j) == {t \in Searches : ~_reap(t) /\ (j[t].mode \in {"waiting", "active"} \/ j[t].grace)}
_fair_share(total, j, field, of) ==
  LET after[n \in 0..Cardinality(Contenders(j))] ==
        IF n = 0 THEN [total |-> total, pending |-> Contenders(j)]
        ELSE IF after[n - 1].pending = {} THEN after[n - 1] ELSE Served(after[n - 1], j, field)
      rest == after[Cardinality(Contenders(j))]
  IN IF of \in rest.pending THEN rest.total \div Cardinality(rest.pending) ELSE j[of][field]

\* What a batch may ask for: a pilot alone, then what was measured allows.
elk_worker_budget(s, limit) ==
  LET each == Least(limit, Most(1, 2 * search[s].peak))
      count == Min({Number[s] - search[s].next + 1, Cpus, Most(1, limit \div each)})
  IN IF search[s].sequential THEN [count |-> 1, heap |-> limit, each |-> limit]
     ELSE IF search[s].peak = 0
       THEN [count |-> 1, heap |-> Least(limit, Pilot), each |-> Least(limit, Pilot)]
     ELSE [count |-> count, heap |-> count * each, each |-> each]

\* What a search gets of pool p now.
Share(s, j, p) ==
  LET heap == Most(1, _fair_share(p, j, "wantedHeap", s))
      slots == Most(1, _fair_share(Cpus, j, "wantedSlots", s))
      fits == IF search[s].sequential \/ search[s].peak = 0 THEN 1
              ELSE Most(1, heap \div Most(1, 2 * search[s].peak))
      left == Most(1, Cpus - Least(Cpus, SlotsUsed(j)))
      count == Min({search[s].wanted.count, slots, fits, left})
  IN [count |-> count, each |-> Least(heap \div count, search[s].wanted.each)]
ShareAlone(s, available, p) ==
  [count |-> 1, each |-> Least(IF HeapLimit > 0 THEN HeapLimit ELSE available, p)]

-----------------------------------------------------------------------------
SharedRenderResources(s) ==
  /\ Going(s, "start") /\ Step(s, "plan")
  /\ jobs' = [jobs EXCEPT ![s].mode = "idle"]
  /\ UNCHANGED <<pool, queue, workers, asked>>

\* Before a batch the allowance is calculated again; too little ends the search.
_iter_attempts(s) ==
  /\ Going(s, "plan")
  /\ \E limit \in renderer_heap_mb :
       search' = [search EXCEPT ![s] =
         IF search[s].next > Number[s] THEN [@ EXCEPT !.pc = "close"]
         ELSE IF limit < 1 THEN [@ EXCEPT !.pc = "stop"]
         ELSE [@ EXCEPT !.pc = "acquire", !.wanted = elk_worker_budget(s, limit)]]
  /\ UNCHANGED <<jobs, pool, queue, workers, asked>>

\* One poll.  Free memory is read again; running workers keep what they have.
\* A poll allots in turn, what fits beside the others, and to a retry only
\* when no other batch runs.
Batch(s, count) ==
  IF search[s].alone THEN {search[s].next} ELSE search[s].next..(search[s].next + count - 1)
Turns(s) ==
  SelectSeq(IF jobs[s].mode = "waiting" THEN queue ELSE Append(queue, s), LAMBDA t : ~_reap(t))
Fits(s, j, share, free) ==
  /\ search[s].alone => InMode(j, "active") = {}
  /\ share.count + SlotsUsed(j) <= Cpus /\ share.count * share.each <= free
  /\ s = Head(Turns(s))
Reduced(s, j, share) ==
  \/ search[s].small \/ share.count > 1 \/ Contenders(j) # {s}
  \/ share.count * share.each < search[s].wanted.heap
Waiting(j, s) ==
  IF j[s].mode = "waiting" THEN j
  ELSE [j EXCEPT ![s] = [j[s] EXCEPT !.mode = "waiting", !.grace = FALSE,
                    !.wantedHeap = search[s].wanted.heap, !.wantedSlots = search[s].wanted.count]]
_try_acquire(s) ==
  /\ Going(s, "acquire")
  /\ \E j \in {Waiting(jobs, s)}, used \in {HeapUsed(jobs)} :
       \E available \in {Machine, Machine - used} :
         \E p \in {IF InMode(j, "active") = {} THEN available ELSE Least(pool, available + used)} :
           \E share \in {IF search[s].alone THEN ShareAlone(s, available, p) ELSE Share(s, j, p)} :
             /\ pool' = p
             /\ \/ /\ ~Fits(s, j, share, Least(available, p - Least(p, used)))
                   /\ jobs' = j /\ queue' = Turns(s) /\ UNCHANGED <<search, workers>>
                \/ /\ Fits(s, j, share, Least(available, p - Least(p, used)))
                   /\ queue' = Tail(Turns(s))
                   /\ jobs' = [j EXCEPT ![s] = [j[s] EXCEPT !.mode = "active",
                                !.slots = share.count, !.heap = share.count * share.each]]
                   /\ workers' = [workers EXCEPT ![s] = Batch(s, share.count)]
                   /\ \E small \in {Reduced(s, j, share)} :
                        search' = [search EXCEPT ![s].pc = "batch", ![s].small = small,
                          ![s].batch = IF search[s].alone THEN @ ELSE Batch(s, share.count)]
  /\ UNCHANGED <<asked>>

\* A worker ends, in any order.  A failure is kept as the outcome of its
\* attempt, a fatal one ends the search.
run(s, i) ==
  /\ Going(s, "batch") /\ i \in workers[s]
  /\ workers' = [workers EXCEPT ![s] = @ \ {i}]
  /\ \/ \E kind \in {"ok", "memory", "failed"}, peak \in Peaks \cup {0} :
          /\ IF kind = "ok" THEN peak \in Peaks ELSE peak = 0
          /\ search' = [search EXCEPT ![s].outcomes[i] = [kind |-> kind, peak |-> peak]]
     \/ Step(s, "stop")
  /\ UNCHANGED <<jobs, pool, queue, asked>>
release(j, s) == [j EXCEPT ![s] = [j[s] EXCEPT !.mode = "idle", !.heap = 0, !.slots = 0, !.grace = TRUE]]
_batch(s) ==
  /\ Going(s, "batch") /\ workers[s] = {}
  /\ jobs' = release(jobs, s) /\ Step(s, "deliver")
  /\ UNCHANGED <<pool, queue, workers, asked>>
GraceEnds(s) ==
  /\ jobs[s].grace /\ jobs' = [jobs EXCEPT ![s] = [NoJob EXCEPT !.mode = "idle"]]
  /\ UNCHANGED <<pool, queue, search, workers, asked>>

\* Outcomes are handed on in order.  A worker that ran out of memory is tried
\* once more, alone: in a search of sections always, in a search of seeds when
\* it shared the machine or could have more of it.
Deserves(s, limit) ==
  /\ search[s].outcomes[search[s].next].kind = "memory" /\ ~search[s].alone
  /\ \/ s \in Sections \/ search[s].small
     \/ ~search[s].sequential /\ search[s].wanted.each < limit
retry(s) ==
  /\ Going(s, "deliver") /\ search[s].batch # {}
  /\ \E limit \in renderer_heap_mb :
       /\ Deserves(s, limit)
       /\ search' = [search EXCEPT ![s] = IF limit < 1 THEN [@ EXCEPT !.pc = "stop"]
            ELSE [@ EXCEPT !.pc = "acquire", !.alone = TRUE, !.sequential = TRUE,
                           !.wanted = [count |-> 1, heap |-> limit, each |-> limit]]]
  /\ UNCHANGED <<jobs, pool, queue, workers, asked>>
optimize_graph(s) ==
  /\ Going(s, "deliver") /\ search[s].batch # {}
  /\ \E limit \in renderer_heap_mb : ~Deserves(s, limit)
  /\ LET i == search[s].next
         outcome == search[s].outcomes[i]
     IN search' = [search EXCEPT ![s] = [@ EXCEPT !.batch = @ \ {i}, !.alone = FALSE, !.next = i + 1,
                     !.peak = Most(@, outcome.peak), !.good = @ \/ outcome.kind = "ok",
                     !.outcomes[i] = Unknown(s)[i]]]
  /\ UNCHANGED <<jobs, pool, queue, workers, asked>>
NextBatch(s) ==
  /\ Going(s, "deliver") /\ search[s].batch = {}
  /\ search' = [search EXCEPT ![s] = [@ EXCEPT !.pc = "plan", !.small = FALSE, !.wanted = Nothing, !.outcomes = Unknown(s)]]
  /\ UNCHANGED <<jobs, pool, queue, workers, asked>>

-----------------------------------------------------------------------------
\* A search that is canceled or fails kills its workers and waits for them.
Stopping(s) == search[s].pc \notin {"start", "close"} \cup Ended /\ (s \in asked \/ search[s].pc = "stop")
_worker(s, i) ==
  /\ Stopping(s) /\ i \in workers[s]
  /\ workers' = [workers EXCEPT ![s] = @ \ {i}]
  /\ UNCHANGED <<jobs, pool, queue, search, asked>>
Stopped(s) ==
  /\ Stopping(s) /\ workers[s] = {}
  /\ jobs' = (IF jobs[s].mode = "active" THEN release(jobs, s) ELSE jobs)
  /\ search' = [search EXCEPT ![s] = [Fresh(s) EXCEPT !.pc = "close", !.next = 0]]
  /\ UNCHANGED <<pool, queue, workers, asked>>
close(s) ==
  /\ search[s].pc = "close"
  /\ jobs' = [jobs EXCEPT ![s] = NoJob]
  /\ search' = [search EXCEPT ![s] = [Fresh(s) EXCEPT !.pc =
       IF search[s].next > Number[s] /\ s \notin asked /\ (s \in Sections \/ search[s].good)
       THEN "done" ELSE "raised"]]
  /\ UNCHANGED <<pool, queue, workers, asked>>
Cancel(s) ==
  /\ s \in Stoppable \ asked /\ search[s].pc \notin {"start"} \cup Ended
  /\ asked' = asked \cup {s}
  /\ UNCHANGED <<jobs, pool, queue, search, workers>>
\* The process is killed; its workers have a session of their own and go on.
Killed(s) ==
  /\ s \in Stoppable /\ search[s].pc \notin {"start"} \cup Ended
  /\ search' = [search EXCEPT ![s] = [Fresh(s) EXCEPT !.pc = "dead"]]
  /\ UNCHANGED <<jobs, pool, queue, workers, asked>>
OrphanEnds(s, i) ==
  /\ search[s].pc = "dead" /\ i \in workers[s]
  /\ workers' = [workers EXCEPT ![s] = @ \ {i}]
  /\ UNCHANGED <<jobs, pool, queue, search, asked>>

-----------------------------------------------------------------------------
Init ==
  /\ jobs = [s \in Searches |-> NoJob] /\ pool = 0 /\ queue = <<>>
  /\ search = [s \in Searches |-> Fresh(s)] /\ workers = [s \in Searches |-> {}]
  /\ asked = {}
Proceed(s) ==
  \/ SharedRenderResources(s) \/ _iter_attempts(s) \/ _try_acquire(s)
  \/ _batch(s) \/ retry(s) \/ optimize_graph(s) \/ NextBatch(s) \/ Stopped(s) \/ close(s)
  \/ \E i \in 1..Number[s] : run(s, i) \/ _worker(s, i) \/ OrphanEnds(s, i)
Next == \E s \in Searches : Proceed(s) \/ GraceEnds(s) \/ Cancel(s) \/ Killed(s)
Spec == Init /\ [][Next]_vars /\ \A s \in Searches : WF_vars(Proceed(s))

-----------------------------------------------------------------------------
\* Every variable has its type.
TypeOK ==
  /\ pool \in 0..Machine /\ asked \subseteq Searches
  /\ \A s \in Searches :
       /\ jobs[s].mode \in {"none", "idle", "waiting", "active"} /\ jobs[s].heap \in 0..Machine
       /\ workers[s] \subseteq 1..Number[s]

\* Running workers, also those of a search that was killed, are registered and
\* together never have more heap or more slots than the machine.
NotOversubscribed ==
  /\ \A s \in Searches : workers[s] # {} =>
       jobs[s].mode = "active" /\ Cardinality(workers[s]) <= jobs[s].slots
  /\ HeapUsed(jobs) <= Machine
  /\ SumFunction([s \in Searches |-> Cardinality(workers[s])]) <= Cpus
\* A running batch keeps the heap it was given until all its workers ended; an
\* attempt that ran out of memory beside others is handed on only after it was
\* tried once more; attempts are answered one by one.
LeasesAreKept ==
  [][\A s \in Searches :
       /\ workers[s] # {} /\ workers'[s] # {} => jobs'[s].heap = jobs[s].heap
       /\ search'[s].next > search[s].next => search'[s].next = search[s].next + 1
       /\ search[s].pc = "deliver" /\ search'[s].next > search[s].next =>
            \/ search[s].outcomes[search[s].next].kind \in {"ok", "failed"}
            \/ search[s].alone
            \/ s \notin Sections /\ ~search[s].small]_vars
\* Every search ends, and nothing stays reserved when the next one looks.
SearchesEnd == \A s \in Searches : search[s].pc \in Ended /\ workers[s] = {}
=============================================================================
