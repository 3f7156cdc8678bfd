------------------------------ MODULE HopScope ------------------------------
(* The scope of a collection whose rules are more than stop-labelled          *)
(* addresses (hop_limits.py, group_hops.py, plot_scope.py): of every output   *)
(* it keeps the pairs (hops so far, hops allowed) no other pair beats, adds   *)
(* links one by one as the traversal of trace.py finds them, and is built     *)
(* anew by every run and every plot.  Outputs of a named group reset the      *)
(* hops.  Trace.tla models the traversal itself, with its own scope.          *)
EXTENDS Naturals, FiniteSetsExt

CONSTANTS
  Txs, Outputs, TxOf, Spender,   \* the chain; Spender[o] = NoTx when unspent
  Spendable,    \* outputs of kind "spendable"
  Seeds,
  Group,        \* outputs that pay an address of the reference group
  CapOf,        \* [Outputs -> 0..Inf]: attribution hop limits
  StopChoices,  \* the sets of outputs whose labels may say stop
  Ceilings,     \* choices of limits.max_hops, and of a plot's hops
  MaxRuns,      \* bound: collections of the case
  NoTx, None

Inf == Cardinality(Txs) + 1
HopAssumption ==
  /\ TxOf \in [Outputs -> Txs] /\ Spender \in [Outputs -> Txs \cup {NoTx}] /\ NoTx \notin Txs
  /\ Spendable \subseteq Outputs /\ Seeds \subseteq Outputs /\ Group \subseteq Outputs
  /\ CapOf \in [Outputs -> 0..Inf] /\ StopChoices \subseteq SUBSET Outputs
  /\ Ceilings \subseteq 0..Inf /\ MaxRuns \in Nat /\ None \notin Nat

VARIABLES
  out,       \* state["outputs"]: depth, status and previous_status, or None
  links,     \* outputs with a saved spend
  saved,     \* saved transactions
  rules,     \* of this run or plot: stops, ceiling, named, respect
  paths,     \* scope.paths
  waiting,   \* scope.pending: pairs of outputs not fetched yet
  depths,    \* scope.depths
  heap,      \* the queue of _walk
  admitted,
  queue,     \* the heap of trace()
  adding,    \* outputs add() has still to be called for
  current,   \* the output examined, and the one being added
  step,      \* where trace() is, and what it does after a walk
  runs, complete, view
scope == <<paths, waiting, depths>>
vars == <<out, links, saved, rules, scope, heap, admitted, queue, adding, current, step, runs, complete, view>>

Terminal == {"spent", "other"}
Known == {o \in Outputs : out[o] # None}
OutputsOf(t) == {o \in Outputs : TxOf[o] = t}
Children(o) == IF Spender[o] = NoTx THEN {} ELSE OutputsOf(Spender[o])
Few(a, b) == IF a < b THEN a ELSE b
Less(r) == IF r = Inf THEN r ELSE r - 1
_cap(o) == IF o \in rules.stops THEN 0 ELSE IF rules.respect THEN CapOf[o] ELSE Inf
Resets(o) == rules.named /\ o \in Group \cap Spendable
\* May a pair be followed; a group inspects one spender at the boundary.
Open(d, r) == r > 0 /\ (rules.named => d <= rules.ceiling)
within_hops(d) == IF rules.named THEN d <= rules.ceiling ELSE d < rules.ceiling
blocked(o) == out[o].prev # None
depth(o) == IF depths[o] = None THEN out[o].depth ELSE depths[o]
reachable == {o \in Known : paths[o] # {} \/ waiting[o] # {}}

_restore(r) ==
  [r EXCEPT !.prev = None, !.status = IF r.prev # None /\ r.status = "held" THEN r.prev ELSE r.status]
_hold(r) ==
  [r EXCEPT !.prev = r.status, !.status = IF r.status \in Terminal THEN r.status ELSE "held"]

-----------------------------------------------------------------------------
\* Mutant: the shallowest pair of an output is the only one that counts.
BeatenByDepth(p, d, r) == \E q \in p : q[1] <= d
Beaten(p, d, r) == \E q \in p : q[1] <= d /\ q[2] >= r
Better(p, d, r) == IF Beaten(p, d, r) THEN p
                   ELSE {q \in p : ~(d <= q[1] /\ r >= q[2])} \cup {<<d, r>>}
Viable(p) == {q[1] : q \in {q \in p : Open(q[1], q[2])}}
Nearest(p) == IF Viable(p) # {} THEN Min(Viable(p)) ELSE Min({q[1] : q \in p})
Beyond(p) == rules.named /\ Nearest(p) > rules.ceiling
Arrived(o, p) ==
  LET r == _restore(out[o])
  IN IF Beyond(p) THEN _hold(IF o \in Spendable THEN r ELSE [r EXCEPT !.status = "other"])
     ELSE IF Viable(p) = {} /\ o \in Spendable THEN _hold(r)
     ELSE r
Accept(o, d, r) ==
  LET p == Better(paths[o], d, r)
  IN /\ paths' = [paths EXCEPT ![o] = p]
     /\ depths' = [depths EXCEPT ![o] = Nearest(p)]
     /\ out' = [out EXCEPT ![o] = Arrived(o, p)]
     /\ admitted' = IF ~Beyond(p) /\ (Viable(p) # {} \/ o \notin Spendable) /\ r > 0
                    THEN admitted \cup {o} ELSE admitted
     /\ UNCHANGED waiting
Onward(o, d, r) ==
  IF o \in links \cap Spendable /\ Open(d, r)
  THEN {<<d + 1, c, Less(r)>> : c \in Children(o) \cap Known} ELSE {}
\* One arrival: the shallowest that waits.
_walk(e) ==
  /\ step.pc = "walk" /\ e \in heap /\ \A f \in heap : e[1] <= f[1]
  /\ LET o == e[2]
         d == IF Resets(o) THEN 0 ELSE e[1]
         r == Few(e[3], _cap(o))
     IN \/ /\ o \in Known /\ TxOf[o] \notin saved
           /\ waiting' = [waiting EXCEPT ![o] = @ \cup {<<e[1], e[3]>>}]
           /\ depths' = [depths EXCEPT ![o] = IF @ = None THEN e[1] ELSE Few(@, e[1])]
           /\ heap' = heap \ {e} /\ UNCHANGED <<out, paths, admitted>>
        \/ /\ o \in Known /\ TxOf[o] \in saved /\ ~Beaten(paths[o], d, r)
           /\ Accept(o, d, r) /\ heap' = (heap \ {e}) \cup Onward(o, d, r)
        \/ /\ o \notin Known \/ (TxOf[o] \in saved /\ Beaten(paths[o], d, r))
           /\ heap' = heap \ {e} /\ UNCHANGED <<out, scope, admitted>>
  /\ UNCHANGED <<links, saved, rules, queue, adding, current, step, runs, complete, view>>
Walk(starts, then) ==
  /\ heap' = starts /\ admitted' = {} /\ step' = [pc |-> "walk", then |-> then]
Walked(then) == step.pc = "walk" /\ heap = {} /\ step.then = then
Goto(pc) == step' = [step EXCEPT !.pc = pc]

-----------------------------------------------------------------------------
\* refresh_seed_depths: spends from the seeds, whatever the hops count from.
refresh_seed_depths(os) ==
  LET at[n \in 0..Cardinality(Txs)] ==
        IF n = 0 THEN Seeds ELSE UNION {Children(o) : o \in at[n - 1] \cap links}
  IN [o \in Outputs |->
        IF os[o] = None \/ \A n \in 0..Cardinality(Txs) : o \notin at[n] THEN os[o]
        ELSE [os[o] EXCEPT !.depth = Min({n \in 0..Cardinality(Txs) : o \in at[n]})]]
New(d) == [depth |-> d, status |-> "pending", prev |-> None]
\* Output records follow again from the seeds and the saved spends.
restore_scope_outputs(os, spent) ==
  [o \in Outputs |->
     IF os[o] = None /\ o \in Seeds THEN New(0)
     ELSE IF os[o] = None /\ (o \in spent \/ \E p \in spent : o \in Children(p)) THEN New(Inf)
     ELSE os[o]]
\* HopScope(state): every hold is undone and every path walked again.
HopScope(os, new, then) ==
  /\ rules' = new
  /\ out' = [o \in Outputs |-> IF os[o] = None THEN None ELSE _restore(os[o])]
  /\ paths' = [o \in Outputs |-> {}] /\ waiting' = paths' /\ depths' = [o \in Outputs |-> None]
  /\ Walk({<<0, s, Inf>> : s \in Seeds}, then)
Behind(os) == [o \in Outputs |-> IF os[o] = None \/ o \in reachable THEN os[o] ELSE _hold(os[o])]

\* A run on the rules, the ceiling and the hop reference of today.
trace(stops, ceiling, named) ==
  /\ step.pc = "ready" /\ runs < MaxRuns
  /\ LET counted == IF named \/ rules.named THEN refresh_seed_depths(out) ELSE out
     IN HopScope(IF named THEN restore_scope_outputs(counted, links) ELSE counted,
                 [stops |-> stops, ceiling |-> ceiling, named |-> named, respect |-> FALSE], "scope")
  /\ runs' = runs + 1 /\ complete' = FALSE
  /\ UNCHANGED <<links, saved, queue, adding, current, view>>
Scoped ==
  /\ Walked("scope")
  /\ LET held == Behind(out)
         open == {o \in Known : held[o].status \notin Terminal /\ held[o].prev = None}
     IN IF runs = 1 THEN out' = held /\ queue' = {} /\ adding' = Seeds /\ Goto("add")
        ELSE /\ out' = [o \in Outputs |-> IF o \in open THEN [held[o] EXCEPT !.status = "pending"] ELSE held[o]]
             /\ queue' = {<<depth(o), o>> : o \in open}
             /\ adding' = {} /\ Goto("top")
  /\ UNCHANGED <<links, saved, rules, scope, heap, admitted, current, runs, complete, view>>

\* add(): every arrival is offered, also one that is no shorter.
admit(o, at) ==
  {<<0, s, Inf>> : s \in Seeds \cap {o}} \cup
  (IF current.parent = None THEN {}
   ELSE {<<p[1] + 1, o, Less(p[2])>> : p \in {p \in paths[current.parent] : Open(p[1], p[2])}})
add(o) ==
  /\ step.pc = "add" /\ o \in adding
  /\ LET at == current.hops
         known == out[o] # None
     IN /\ out' = [out EXCEPT ![o] = IF ~known THEN New(at)
                     ELSE IF at < out[o].depth THEN [out[o] EXCEPT !.depth = at, !.status = "pending"]
                     ELSE out[o]]
        /\ current' = [current EXCEPT !.child = o, !.fresh = ~known]
        /\ Walk(admit(o, at), "add")
  /\ UNCHANGED <<links, saved, rules, scope, queue, adding, runs, complete, view>>
\* Released outputs that nothing holds are put back on the heap.
Requeue(os) ==
  LET put == {o \in os : ~blocked(o) /\ out[o].status \notin Terminal}
  IN /\ out' = [o \in Outputs |-> IF o \in put THEN [out[o] EXCEPT !.status = "pending"] ELSE out[o]]
     /\ queue' = queue \cup {<<depth(o), o>> : o \in put}
Added ==
  /\ Walked("add")
  /\ Requeue(admitted \cup (IF current.fresh \/ out[current.child].status = "pending" THEN {current.child} ELSE {}))
  /\ adding' = adding \ {current.child}
  /\ Goto(IF adding' = {} THEN "top" ELSE "add")
  /\ UNCHANGED <<links, saved, rules, scope, heap, admitted, current, runs, complete, view>>

\* The loop of trace(): the nearest entry, unless it is stale.
Pop(d, o) ==
  /\ step.pc = "top" /\ <<d, o>> \in queue /\ \A e \in queue : d <= e[1]
  /\ queue' = queue \ {<<d, o>>}
  /\ IF d # depth(o) \/ out[o].status # "pending" \/ blocked(o)
     THEN UNCHANGED <<saved, waiting, current, heap, admitted, step>>
     ELSE /\ saved' = saved \cup {TxOf[o]} /\ current' = [current EXCEPT !.parent = o]
          /\ waiting' = [waiting EXCEPT ![o] = {}]
          /\ Walk({<<p[1], o, p[2]>> : p \in waiting[o]}, "refresh")
  /\ UNCHANGED <<out, links, rules, paths, depths, adding, runs, complete, view>>
refresh ==
  /\ Walked("refresh")
  /\ Requeue(admitted \ {current.parent})
  /\ Goto(IF blocked(current.parent) THEN "top" ELSE "examine")
  /\ UNCHANGED <<links, saved, rules, scope, heap, admitted, adding, current, runs, complete, view>>
Examine ==
  /\ step.pc = "examine"
  /\ LET o == current.parent
         at == depth(o)
         Ends(status) == out' = [out EXCEPT ![o].status = status] /\ Goto("top")
                         /\ UNCHANGED <<links, saved, current, adding>>
     IN IF o \notin Spendable THEN Ends("other")
        ELSE IF ~within_hops(at) THEN Ends("boundary")
        ELSE IF Spender[o] = NoTx THEN Ends("unspent")
        ELSE /\ links' = links \cup {o} /\ saved' = saved \cup {Spender[o]}
             /\ out' = [out EXCEPT ![o].status = "spent"]
             /\ current' = [current EXCEPT !.hops = 1 + IF rules.named THEN out[o].depth ELSE at]
             /\ adding' = Children(o) /\ Goto("add")
  /\ UNCHANGED <<rules, scope, heap, admitted, queue, runs, complete, view>>
\* A run ends when its heap is empty, or before: a budget, an error, Ctrl-C.
Over(done) ==
  /\ Goto("ready") /\ complete' = done /\ queue' = {}
  /\ current' = [parent |-> None, child |-> None, fresh |-> FALSE, hops |-> 0]
  /\ LET os == IF rules.named THEN refresh_seed_depths(out) ELSE out
     IN out' = [o \in Outputs |-> IF ~done /\ os[o] # None /\ os[o].status = "pending"
                                  THEN [os[o] EXCEPT !.status = "paused"] ELSE os[o]]
  /\ UNCHANGED <<links, saved, rules, scope, heap, admitted, adding, runs, view>>
Finish == step.pc = "top" /\ queue = {} /\ Over(TRUE)
StopRun == ((step.pc = "top" /\ queue # {}) \/ step.pc = "examine") /\ Over(FALSE)

\* A plot walks a copy of what is saved, with the hop limits of labels, and
\* knows every spend that saved transactions prove.
project_full_scope(stops, max_hops, named) ==
  /\ step.pc = "ready" /\ runs > 0
  /\ links' = {o \in Spendable : TxOf[o] \in saved /\ Spender[o] \in saved}
  /\ HopScope(restore_scope_outputs(out, links'),
              [stops |-> stops, ceiling |-> max_hops, named |-> named, respect |-> TRUE], "plot")
  /\ UNCHANGED <<saved, queue, adding, current, runs, complete, view>>
Plotted ==
  /\ Walked("plot")
  /\ view' = [outputs |-> {o \in reachable : \E p \in paths[o] \cup waiting[o] : p[1] <= rules.ceiling},
              links |-> {o \in links : \E p \in paths[o] : p[2] > 0 /\ within_hops(p[1])}]
  /\ Goto("plotted")
  /\ UNCHANGED <<out, links, saved, rules, scope, heap, admitted, queue, adding, current, runs, complete>>

-----------------------------------------------------------------------------
Init ==
  /\ out = [o \in Outputs |-> None] /\ links = {} /\ saved = {}
  /\ rules = [stops |-> {}, ceiling |-> 0, named |-> FALSE, respect |-> FALSE]
  /\ paths = [o \in Outputs |-> {}] /\ waiting = paths /\ depths = [o \in Outputs |-> None]
  /\ heap = {} /\ admitted = {} /\ queue = {} /\ adding = {}
  /\ current = [parent |-> None, child |-> None, fresh |-> FALSE, hops |-> 0]
  /\ step = [pc |-> "ready", then |-> "scope"] /\ runs = 0 /\ complete = FALSE /\ view = None
Next ==
  \/ \E stops \in StopChoices, n \in Ceilings, named \in BOOLEAN :
       trace(stops, n, named) \/ project_full_scope(stops, n, named)
  \/ \E e \in heap : _walk(e)
  \/ \E o \in Outputs : add(o)
  \/ \E e \in queue : Pop(e[1], e[2])
  \/ Scoped \/ Added \/ refresh \/ Examine \/ Finish \/ StopRun \/ Plotted
Spec == Init /\ [][Next]_vars

-----------------------------------------------------------------------------
\* The routes the rules allow: every arrival along saved links, by length.
Routes ==
  LET at[n \in 0..Cardinality(Txs)] ==
        IF n = 0 THEN {<<0, s, _cap(s)>> : s \in Seeds \cap Known}
        ELSE UNION {{<<IF Resets(c) THEN 0 ELSE a[1] + 1, c, Few(Less(a[3]), _cap(c))>> :
                       c \in Children(a[2]) \cap Known} :
                    a \in {a \in at[n - 1] : a[2] \in links /\ Open(a[1], a[3])}}
  IN UNION {at[n] : n \in 0..Cardinality(Txs)}
RoutesTo(o) == {a \in Routes : a[2] = o}

TypeOK ==
  /\ links \subseteq Known /\ DOMAIN out = Outputs /\ queue \subseteq (0..Inf) \X Outputs
  /\ step.pc \in {"ready", "walk", "add", "top", "examine", "plotted"}

\* Between two outputs the scope is what all routes over the links found so
\* far allow, in whatever order they were found: no shorter route lends its
\* hops to a longer one or takes them away, and an output is held back exactly
\* when no route to it may go on.
ScopeIsExact ==
  step.pc = "top" => \A o \in Known : TxOf[o] \in saved =>
    /\ \A a \in RoutesTo(o) : \E p \in paths[o] : p[1] <= a[1] /\ p[2] >= a[3]
    /\ \A p \in paths[o] : <<p[1], o, p[2]>> \in RoutesTo(o)
    /\ o \in Spendable => (blocked(o) <=> \A a \in RoutesTo(o) : ~Open(a[1], a[3]))
\* A collection that ends by itself has followed every spend of every output
\* some route may spend.
CollectionIsComplete ==
  step.pc = "ready" /\ complete => \A a \in Routes :
    a[2] \in Spendable /\ Spender[a[2]] # NoTx /\ a[3] > 0 /\ within_hops(a[1]) => a[2] \in links
\* A plot shows what some route reaches within its hops, and nothing else.
PlotIsExact ==
  step.pc = "plotted" =>
    /\ view.outputs = {o \in Known : \E a \in RoutesTo(o) : a[1] <= rules.ceiling}
    /\ view.links = {o \in links : \E a \in RoutesTo(o) : a[3] > 0 /\ within_hops(a[1])}
=============================================================================
