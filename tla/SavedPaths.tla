----------------------------- MODULE SavedPaths -----------------------------
(* The searches over saved spends: starter connections (connections.py,        *)
(* shortest_paths.py, hop_limits.bounded_connections), endpoint paths          *)
(* (pegout_paths.py, pegout_limit.py), paths that count from a named group     *)
(* (named_hop_paths.py), the scope baseline (scope_analysis.py), and what an   *)
(* investigation takes of a shared collection (shared_projection.py,           *)
(* snapshot_query.py).  Each is a breadth-first search, most with a marking    *)
(* backwards, so that no path is enumerated; the references below enumerate    *)
(* them.  Confirmations, plot graphs and the wording of reports are left out.  *)
EXTENDS Naturals, FiniteSetsExt, SequencesExt

CONSTANTS
  Txs, Outputs,     \* numbers: the order of txids and outpoints
  TxOf, Spender,    \* Spender[k] = NoTx for one that nothing spends
  Endpoints,        \* outputs an endpoint search looks for
  Group,            \* outputs that pay the named group
  Amount,           \* disclosed amount of an endpoint
  Questions,        \* what may be asked: mode, seeds, saved, caps, seen, limit, least, target
  NoTx, None

Inf == Cardinality(Txs) + 1
PathsAssumption ==
  /\ Txs \cup Outputs \subseteq Nat /\ TxOf \in [Outputs -> Txs] /\ Spender \in [Outputs -> Txs \cup {NoTx}]
  /\ \A k \in Outputs : Spender[k] # NoTx => TxOf[k] < Spender[k]
  /\ Endpoints \subseteq {k \in Outputs : Spender[k] = NoTx} /\ Amount \in [Endpoints -> Nat]

VARIABLES question, answer
vars == <<question, answer>>

q == question
Few(a, b) == IF a < b THEN a ELSE b
OutputsOf(t) == {k \in Outputs : TxOf[k] = t}
Closure(S, F(_)) ==
  LET c[n \in 0..Inf] == IF n = 0 THEN S ELSE c[n - 1] \cup UNION {F(x) : x \in c[n - 1]} IN c[Inf]

\* Every spend that two saved transactions prove is a link.
_saved_connection_evidence == {k \in Outputs : TxOf[k] \in q.saved /\ Spender[k] \in q.saved}
links == _saved_connection_evidence
Children(k) == IF k \in links THEN OutputsOf(Spender[k]) ELSE {}
roots == {TxOf[k] : k \in q.seeds}
output_budget(k) == q.caps[k]
Longest == Cardinality(q.saved) - 1

-----------------------------------------------------------------------------
(* Starter connections                                                        *)
distances(starts, Adjacent(_), limit) ==
  LET at[n \in 0..limit] == IF n = 0 THEN starts ELSE UNION {Adjacent(t) : t \in at[n - 1]}
  IN [t \in Txs |-> IF \A n \in 0..limit : t \notin at[n] THEN None ELSE Min({n \in 0..limit : t \in at[n]})]

Downstream(root, limit) ==
  distances({root}, LAMBDA t : {Spender[k] : k \in {k \in OutputsOf(t) \cap links : t = root => k \in q.seeds}}, limit)
Targets(root, limit) == {t \in roots \ {root} : Downstream(root, limit)[t] # None}
OnSomePath(root, limit) ==
  LET down == Downstream(root, limit)
      up == distances(Targets(root, limit), LAMBDA t : {TxOf[k] : k \in {k \in links : Spender[k] = t}}, limit)
  IN {k \in links : /\ TxOf[k] = root => k \in q.seeds
                    /\ down[TxOf[k]] # None /\ up[Spender[k]] # None
                    /\ down[TxOf[k]] + 1 + up[Spender[k]] <= limit}
_connecting_outpoints(limit) ==
  [keys |-> UNION {OnSomePath(root, limit) : root \in roots},
   pairs |-> UNION {{<<root, t, Downstream(root, limit)[t]>> : t \in Targets(root, limit)} : root \in roots}]

\* One shortest route per pair, searched backwards from each target; among
\* equals the least outpoint is followed.
shortest_routes ==
  LET back(target) == distances({target}, LAMBDA t : {TxOf[k] : k \in {k \in links : Spender[k] = t}}, Longest)
      following(d, t) == Min({k \in links : TxOf[k] = t /\ d[Spender[k]] # None /\ d[Spender[k]] + 1 = d[t]})
      starts(d, source) == {k \in links \cap q.seeds : TxOf[k] = source /\ d[Spender[k]] # None}
      hops(d, source) == 1 + Min({d[Spender[k]] : k \in starts(d, source)})
      first(d, source) == Min({k \in starts(d, source) : d[Spender[k]] + 1 = hops(d, source)})
      route(d, source) ==
        LET r[n \in 1..hops(d, source)] ==
              IF n = 1 THEN first(d, source) ELSE following(d, Spender[r[n - 1]])
        IN r
  IN [keys |-> UNION {UNION {Range(route(back(t), s)) : s \in {s \in roots \ {t} : starts(back(t), s) # {}}} : t \in roots},
      pairs |-> UNION {{<<s, t, hops(back(t), s)>> : s \in {s \in roots \ {t} : starts(back(t), s) # {}}} : t \in roots}]

\* The product of transaction, spends so far and allowance; what leads to a
\* successful point is marked backwards.
bounded_connections ==
  LET limit == Few(q.limit, Longest)
      onward(root, p) ==
        IF p[2] >= limit \/ p[3] = 0 THEN {}
        ELSE {<<k, Few(p[3], output_budget(k))>> : k \in {k \in OutputsOf(p[1]) \cap links : p[1] = root => k \in q.seeds}}
      following(p, e) == <<Spender[e[1]], p[2] + 1, e[2] - 1>>
      next(root, p) == {following(p, e) : e \in {e \in onward(root, p) : e[2] > 0}}
      seen(root) == Closure({<<root, 0, limit>>}, LAMBDA p : next(root, p))
      success(root) == {p \in seen(root) : p[1] \in roots \ {root}}
      marked(root) == Closure(success(root), LAMBDA p : {b \in seen(root) : p \in next(root, b)})
      kept(root) == {k \in links : \E p \in seen(root) : \E e \in onward(root, p) :
                       e[1] = k /\ e[2] > 0 /\ following(p, e) \in marked(root)}
  IN [keys |-> UNION {kept(root) : root \in roots},
      pairs |-> UNION {{<<root, t, Min({p[2] : p \in {p \in success(root) : p[1] = t}})>> :
                          t \in {p[1] : p \in success(root)}} : root \in roots}]

-----------------------------------------------------------------------------
(* Endpoint paths                                                             *)
\* Between transactions: the first spend is one of the chosen outputs.
_paths ==
  LET limit == Few(q.limit, Longest)
      edges(p) == IF p[2] >= limit \/ p[3] = 0 THEN {}
                  ELSE {k \in OutputsOf(p[1]) \cap links : (p[2] = 0 => k \in q.seeds) /\ Few(p[3], output_budget(k)) > 0}
      following(p, k) == <<Spender[k], p[2] + 1, Few(p[3], output_budget(k)) - 1>>
      seen == Closure({<<t, 0, limit>> : t \in roots \cap q.saved}, LAMBDA p : {following(p, k) : k \in edges(p)})
      hits(p) == {k \in Endpoints \cap OutputsOf(p[1]) : p[2] >= q.least /\ (p[2] = 0 => k \in q.seeds)}
      marked == Closure({p \in seen : hits(p) # {}}, LAMBDA p : {b \in seen : \E k \in edges(b) : following(b, k) = p})
  IN [keys |-> UNION {{k \in edges(p) : following(p, k) \in marked} : p \in seen},
      pairs |-> UNION {{<<k, p[2]>> : k \in hits(p)} : p \in seen}]

\* Between outputs: one of the named group starts counting again.
Arrive(k, depth, left) == <<k, depth, Few(left, output_budget(k))>>
Spends(p, group) ==
  IF p[3] = 0 THEN {}
  ELSE {Arrive(c, IF c \in group THEN 0 ELSE p[2] + 1, IF p[3] = Inf THEN Inf ELSE p[3] - 1) : c \in Children(p[1])}
walk_outputs(limit) ==
  LET admit(S) == {p \in S : p[2] <= limit}
  IN Closure(admit({Arrive(k, 0, Inf) : k \in {k \in q.seeds : TxOf[k] \in q.saved}}), LAMBDA p : admit(Spends(p, Group)))
retain_paths(seen, success) ==
  LET before(p) == {b \in seen : p \in Spends(b, Group)}
  IN {b[1] : b \in UNION {before(p) : p \in Closure(success, before)}}
NamedPaths ==
  LET seen == walk_outputs(q.limit)
      success == {p \in seen : p[1] \in Endpoints /\ p[2] >= q.least}
  IN [keys |-> retain_paths(seen, success), pairs |-> {<<p[1], p[2]>> : p \in success}]

\* Whole frontiers until the amounts of the endpoints found, each taken once
\* in order, reach the target; the endpoint that crosses it is included.
Crossed(acc, keys) ==
  LET order == SetToSortSeq(keys \ acc.accepted, <)
      sum[n \in 0..Len(order)] == IF n = 0 THEN acc.total ELSE sum[n - 1] + Amount[order[n]]
      enough == {n \in 1..Len(order) : sum[n] >= q.target}
      last == IF enough = {} THEN Len(order) ELSE Min(enough)
  IN [acc EXCEPT !.accepted = @ \cup {order[n] : n \in 1..last}, !.total = sum[last], !.stopped = enough # {}]
limited_paths ==
  LET admit(S) == {p \in S : p[2] <= q.limit}
      level[n \in 0..Longest] ==
        IF n = 0 THEN admit({Arrive(k, 0, Inf) : k \in {k \in q.seeds : TxOf[k] \in q.saved}})
        ELSE UNION {admit(Spends(p, {})) : p \in level[n - 1]}
      candidates(n) == {p \in level[n] : p[1] \in Endpoints /\ p[2] >= q.least}
      after[n \in 0..Longest] ==
        LET acc == IF n = 0 THEN [accepted |-> {}, total |-> 0, stopped |-> FALSE, points |-> {}] ELSE after[n - 1]
        IN IF acc.stopped THEN acc
           ELSE LET found == Crossed(acc, {p[1] : p \in candidates(n)})
                IN [found EXCEPT !.points = @ \cup {<<n, p>> : p \in {p \in candidates(n) : p[1] \in found.accepted}}]
      done == after[Longest]
      before(x) == IF x[1] = 0 THEN {} ELSE {<<x[1] - 1, b>> : b \in {b \in level[x[1] - 1] : x[2] \in Spends(b, {})}}
  IN [keys |-> {x[2][1] : x \in UNION {before(x) : x \in Closure(done.points, before)}},
      pairs |-> {<<x[2][1], x[2][2]>> : x \in done.points}]

-----------------------------------------------------------------------------
(* The scope baseline                                                         *)
\* One walk to the largest limit keeps the pairs no other pair beats; every
\* comparison is read off it.
Beaten(p, S) == \E b \in S : b[1] = p[1] /\ b # p /\ b[2] <= p[2] /\ b[3] >= p[3]
ParetoWalk(limit) ==
  LET level[n \in 0..limit] ==
        IF n = 0 THEN {Arrive(k, 0, Inf) : k \in q.seeds} ELSE UNION {Spends(p, {}) : p \in level[n - 1]}
      all == UNION {level[n] : n \in 0..limit}
  IN {p \in all : ~Beaten(p, all)}
Reason(k, limit, arrivals) ==
  IF k \in Endpoints \/ (Spender[k] = NoTx /\ k \in q.seen) THEN "ended"
  ELSE IF \A p \in arrivals : p[3] = 0 THEN "stopped"
  ELSE IF k \in links /\ \E p \in arrivals : p[2] < limit /\ p[3] > 0 THEN "followed"
  ELSE IF k \in links THEN "analysis_hop_limit"
  ELSE IF k \in q.seen THEN "missing_spending_transaction"
  ELSE "unobserved_outspend"
Baseline(arrived, limit) ==
  LET within == {p \in arrived : p[2] <= limit}
  IN {<<k, Reason(k, limit, {p \in within : p[1] = k}), Min({p[2] : p \in {p \in within : p[1] = k}})>> :
        k \in {p[1] : p \in within}}
_analyse_index ==
  LET walk == ParetoWalk(q.limit)
  IN [keys |-> {}, pairs |-> UNION {{<<n, row>> : row \in Baseline(walk, n)} :
                                    n \in {IF q.limit > d THEN q.limit - d ELSE 0 : d \in 0..2}}]

-----------------------------------------------------------------------------
(* What an investigation takes of a shared collection                         *)
Recorded(k) == IF k \in links THEN "spent" ELSE IF k \in q.seen THEN "unspent" ELSE "not_observed"
\* Every descendant of the chosen outputs, with the distances from them.
_project ==
  LET walk[n \in 0..Longest] == IF n = 0 THEN q.seeds ELSE UNION {Children(k) : k \in walk[n - 1]}
      reached == UNION {walk[n] : n \in 0..Longest}
      depth(k) == Min({n \in 0..Longest : k \in walk[n]})
  IN [keys |-> reached \cap links,
      pairs |-> {<<"output", k, depth(k), Recorded(k)>> : k \in reached}
                \cup {<<"transaction", t, Min({depth(k) : k \in OutputsOf(t) \cap reached}), "saved">> :
                         t \in {TxOf[k] : k \in reached}}]
\* Outputs of a starter that were not chosen are followed once a path arrives.
_reachable(limit) ==
  LET arrived[n \in 0..limit] ==
        IF n = 0 THEN {}
        ELSE {Spender[k] : k \in links \cap (IF n = 1 THEN q.seeds ELSE UNION {OutputsOf(t) : t \in arrived[n - 1]})}
  IN roots \cup UNION {arrived[n] : n \in 0..limit}
\* An edge is on a path that is short enough iff the shortest ways to it and
\* from it to another starter are.
_connections(limit) ==
  LET up(root) == distances(roots \ {root}, LAMBDA t : {TxOf[k] : k \in {k \in links : Spender[k] = t}}, limit)
      onward(root, t) == {k \in links : TxOf[k] = t /\ (t = root => k \in q.seeds) /\ up(root)[Spender[k]] # None}
      down(root) == distances({root}, LAMBDA t : {Spender[k] : k \in onward(root, t)}, limit)
      edges(root) == {k \in links : /\ k \in onward(root, TxOf[k]) /\ down(root)[TxOf[k]] # None
                                    /\ down(root)[TxOf[k]] + 1 + up(root)[Spender[k]] <= limit}
  IN roots \cup UNION {UNION {{TxOf[k], Spender[k]} : k \in edges(root)} : root \in roots}
\* A spend whose transaction is outside the selection still counts as one.
Selection(selected) ==
  LET kept == {k \in Outputs : TxOf[k] \in selected}
  IN [keys |-> {k \in kept \cap links : Spender[k] \in selected},
      pairs |-> {<<"output", k, Recorded(k)>> : k \in kept}
                \cup {<<"funding", TxOf[k], "saved">> : k \in {k \in links \ kept : Spender[k] \in selected}}]
select_snapshot(scope) ==
  IF ~(roots \subseteq q.saved) THEN [keys |-> {}, pairs |-> {}]
  ELSE Selection(CASE scope = "reachable" -> _reachable(Few(q.limit, Longest))
                   [] scope = "connected" -> _connections(Few(q.limit, Longest))
                   [] scope = "shortest" -> roots \cup {TxOf[k] : k \in shortest_routes.keys})

-----------------------------------------------------------------------------
Answer ==
  CASE q.mode = "all_saved" -> _connecting_outpoints(Longest)
    [] q.mode = "hop_limited" -> _connecting_outpoints(q.limit)
    [] q.mode = "shortest" -> shortest_routes
    [] q.mode = "bounded" -> bounded_connections
    [] q.mode = "endpoints" -> _paths
    [] q.mode = "named" -> NamedPaths
    [] q.mode = "amount" -> limited_paths
    [] q.mode = "scope" -> _analyse_index
    [] q.mode = "project" -> _project
    [] q.mode \in {"reachable", "connected", "shortest_view"} ->
         select_snapshot(IF q.mode = "shortest_view" THEN "shortest" ELSE q.mode)
Init == question \in Questions /\ answer = None
Next == answer = None /\ answer' = Answer /\ UNCHANGED question
Spec == Init /\ [][Next]_vars

-----------------------------------------------------------------------------
(* The references: routes as sequences of outputs, each spent by the next one's transaction *)
Trails(starts) ==
  LET t[n \in 1..Inf] == IF n = 1 THEN {<<k>> : k \in starts}
                         ELSE UNION {{Append(r, c) : c \in Children(Last(r))} : r \in t[n - 1]}
  IN UNION {t[n] : n \in 1..Inf}
SpendsOf(r) == {r[i] : i \in 1..(Len(r) - 1)}
Left(r, i) == Min({Inf} \cup {output_budget(r[j]) - Few(i - j, output_budget(r[j])) :
                              j \in {j \in 1..i : output_budget(r[j]) # Inf}})
Allowed(r) == \A i \in 1..(Len(r) - 1) : Left(r, i) > 0
Hops(r, i, group) ==
  LET resets == {j \in 2..i : r[j] \in group} IN IF resets = {} THEN i - 1 ELSE i - Max(resets)

\* Connections: the routes from a starter's chosen outputs to another starter.
Connecting(limit, capped) ==
  {r \in Trails(q.seeds) : /\ Len(r) > 1 /\ TxOf[Last(r)] \in roots \ {TxOf[r[1]]}
                           /\ Len(r) - 1 <= limit /\ (capped => Allowed(r))}
Pairs(routes) ==
  {<<TxOf[r[1]], TxOf[Last(r)], Min({Len(s) - 1 : s \in {s \in routes : TxOf[s[1]] = TxOf[r[1]] /\ TxOf[Last(s)] = TxOf[Last(r)]}})>> :
     r \in routes}
Before(r, s) == \E i \in 1..Len(r) : r[i] < s[i] /\ \A j \in 1..(i - 1) : r[j] = s[j]
\* Shortest: among the shortest routes of a pair the one that sorts first.
Chosen(routes) ==
  {r \in routes : \A s \in routes :
     TxOf[s[1]] = TxOf[r[1]] /\ TxOf[Last(s)] = TxOf[Last(r)] =>
       Len(s) > Len(r) \/ (Len(s) = Len(r) /\ (SubSeq(s, 1, Len(s) - 1) = SubSeq(r, 1, Len(r) - 1) \/ Before(r, s)))}
\* Endpoints: the routes that end at one within the hops asked for.
Ending(group) ==
  {r \in Trails({k \in q.seeds : TxOf[k] \in q.saved}) :
     /\ Last(r) \in Endpoints /\ Allowed(r) /\ Hops(r, Len(r), group) >= q.least
     /\ \A i \in 1..Len(r) : Hops(r, i, group) <= q.limit}
Found(routes, group) == [keys |-> UNION {SpendsOf(r) : r \in routes}, pairs |-> {<<Last(r), Hops(r, Len(r), group)>> : r \in routes}]
Distance(routes, k) == Min({Len(r) : r \in {r \in routes : Last(r) = k}})
Earlier(routes, k) == {e \in {Last(r) : r \in routes} :
  \/ Distance(routes, e) < Distance(routes, k)
  \/ (Distance(routes, e) = Distance(routes, k) /\ e < k)}
UpTo(routes) ==
  LET taken == {k \in {Last(r) : r \in routes} : SumFunctionOnSet(Amount, Earlier(routes, k)) < q.target}
      cutoff == IF SumFunctionOnSet(Amount, taken) >= q.target THEN Max({Distance(routes, k) : k \in taken}) ELSE Inf + 1
  IN {r \in routes : Last(r) \in taken /\ Len(r) <= cutoff}
Arrivals(limit) == {<<Last(r), Len(r) - 1, Left(r, Len(r))>> : r \in {r \in Trails(q.seeds) : Allowed(r) /\ Len(r) - 1 <= limit}}
\* Of a collection: every output some route ends in, at the length of the
\* shortest; or the transactions of the routes asked for, where what is known
\* to be spent is never shown as if it were not.
Fate(k) ==
  CASE TxOf[k] \in q.saved /\ Spender[k] \in q.saved -> "spent"
    [] ~(TxOf[k] \in q.saved /\ Spender[k] \in q.saved) /\ k \in q.seen -> "unspent"
    [] OTHER -> "not_observed"
Reached ==
  LET routes == Trails(q.seeds)
      nearest(S) == Min({Len(r) - 1 : r \in {r \in routes : Last(r) \in S}})
      ends == {Last(r) : r \in routes}
  IN [keys |-> UNION {SpendsOf(r) : r \in Trails(q.seeds)},
      pairs |-> {<<"output", k, nearest({k}), Fate(k)>> : k \in ends}
                \cup {<<"transaction", t, nearest(OutputsOf(t)), "saved">> : t \in {TxOf[k] : k \in ends}}]
Viewed ==
  LET routes == CASE q.mode = "reachable" -> {r \in Trails(q.seeds) : Len(r) - 1 <= q.limit}
                  [] q.mode = "connected" -> Connecting(q.limit, FALSE)
                  [] q.mode = "shortest_view" -> Chosen(Connecting(Inf, FALSE))
      shown == roots \cup UNION {{TxOf[r[i]] : i \in 1..Len(r)} : r \in routes}
  IN IF ~(roots \subseteq q.saved) THEN [keys |-> {}, pairs |-> {}]
     ELSE [keys |-> {k \in links : {TxOf[k], Spender[k]} \subseteq shown},
           pairs |-> {<<"output", k, Fate(k)>> : k \in {k \in Outputs : TxOf[k] \in shown}}
                     \cup {<<"funding", t, "saved">> :
                             t \in {t \in q.saved \ shown : \E k \in OutputsOf(t) : Spender[k] \in shown \cap q.saved}}]

Reference ==
  CASE q.mode = "all_saved" -> [keys |-> UNION {SpendsOf(r) : r \in Connecting(Inf, FALSE)}, pairs |-> Pairs(Connecting(Inf, FALSE))]
    [] q.mode = "hop_limited" -> [keys |-> UNION {SpendsOf(r) : r \in Connecting(q.limit, FALSE)}, pairs |-> Pairs(Connecting(q.limit, FALSE))]
    [] q.mode = "shortest" -> [keys |-> UNION {SpendsOf(r) : r \in Chosen(Connecting(Inf, FALSE))}, pairs |-> Pairs(Connecting(Inf, FALSE))]
    [] q.mode = "bounded" -> [keys |-> UNION {SpendsOf(r) : r \in Connecting(q.limit, TRUE)}, pairs |-> Pairs(Connecting(q.limit, TRUE))]
    [] q.mode = "endpoints" -> Found(Ending({}), {})
    [] q.mode = "named" -> Found(Ending(Group), Group)
    [] q.mode = "amount" -> Found(UpTo(Ending({})), {})
    [] q.mode = "scope" -> [keys |-> {}, pairs |-> UNION {{<<n, row>> : row \in Baseline(Arrivals(n), n)} :
                                                      n \in {IF q.limit > d THEN q.limit - d ELSE 0 : d \in 0..2}}]
    [] q.mode = "project" -> Reached
    [] q.mode \in {"reachable", "connected", "shortest_view"} -> Viewed
\* Every search finds exactly what the routes it stands for contain: all their
\* spends, their ends and distances, one deterministic choice where one is
\* promised, and nothing that lies on no such route.
SearchIsExact == answer # None => answer = Reference
=============================================================================
