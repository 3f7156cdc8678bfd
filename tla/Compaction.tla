----------------------------- MODULE Compaction -----------------------------
(* The compaction of a finished layout (compaction.py): addresses move        *)
(* closer to their transactions, their connectors are repaired, and then      *)
(* whole components move together; each move only after its geometry was      *)
(* checked, and none past the work budget.                                    *)
(* Positions are points of a grid, to which fractions are rounded; lengths    *)
(* are tenths of its unit, and every shape is its box.                        *)
EXTENDS Integers, SequencesExt, FiniteSetsExt

CONSTANTS
  Transactions, Locals, Fees, \* the nodes: numbers; Fees are the fee objects
  Half,                       \* [nodes -> half of <<width, height>>]
  Edges, Source, Target,      \* the connectors: numbers, with their nodes
  Bent, Captioned, Returning, \* connectors that are not straight, have a caption, are routed as a return
  Layouts,                    \* finished layouts: [at, route, label]
  Columns,                    \* [nodes -> dependency column]
  Locked, Core,               \* nodes that stay: change outputs and hubs, and the core of a named group
  Context,                    \* addresses that show the context of a transaction
  Frames,                     \* the members of every activity frame
  CaptionHalf, CaptionRise,
  LinkGap, NodeGap, NearEdge, EdgeGap, ComponentGap, Padding, Title,
  None

Nodes == Transactions \cup Locals \cup Fees
Main == Transactions \cup Locals
Compactable ==
  /\ Nodes \subseteq Nat /\ Source \in [Edges -> Nodes] /\ Target \in [Edges -> Nodes]
  /\ Bent \cup Captioned \cup Returning \subseteq Edges /\ Core \subseteq Main /\ UNION Frames \subseteq Main
  /\ \A layout \in Layouts : DOMAIN layout.at = Nodes /\ DOMAIN layout.route = Edges /\ DOMAIN layout.label = Edges
  /\ {LinkGap, NodeGap, NearEdge, EdgeGap, ComponentGap, Padding, Title, CaptionRise} \subseteq Nat

VARIABLES
  phase,   \* "addresses", "components" or "ready"
  start,   \* the layout that is compacted
  at,      \* [nodes -> point]
  points,  \* [connectors -> the points of its route]
  label,   \* [connectors -> the box reserved for its caption, None]
  todo,    \* addresses or components that have not been tried, in order
  bounds,  \* the footprint that must not grow, and that of the components' boxes
  corners, \* the places next to components that were tried
  spent    \* the budget is used up
drawn == <<at, points, label>>
vars == <<phase, start, drawn, todo, bounds, corners, spent>>

-----------------------------------------------------------------------------
(* Geometry *)

X(p) == p[1]
Y(p) == p[2]
Lesser(m, n) == IF m < n THEN m ELSE n
Greater(m, n) == IF m < n THEN n ELSE m
Square(p, q) == (X(p) - X(q)) * (X(p) - X(q)) + (Y(p) - Y(q)) * (Y(p) - Y(q))
\* The root of n, rounded down, between low and high.
RECURSIVE Root(_, _, _)
Root(n, low, high) ==
  LET middle == (low + high + 1) \div 2
  IN IF low = high THEN low ELSE IF middle * middle <= n THEN Root(n, middle, high) ELSE Root(n, low, middle - 1)
Distance(p, q) == Root(100 * Square(p, q), 0, 2047)
_box(pos, n) == <<X(pos[n]) - X(Half[n]), Y(pos[n]) - Y(Half[n]), X(pos[n]) + X(Half[n]), Y(pos[n]) + Y(Half[n])>>
_expand(box, n) == <<box[1] - n, box[2] - n, box[3] + n, box[4] + n>>
_touch(a, b) == a[1] < b[3] /\ b[1] < a[3] /\ a[2] < b[4] /\ b[2] < a[4]
_within(box, container) ==
  box[1] >= container[1] /\ box[2] >= container[2] /\ box[3] <= container[3] /\ box[4] <= container[4]
_envelope(boxes) ==
  <<Min({b[1] : b \in boxes}), Min({b[2] : b \in boxes}), Max({b[3] : b \in boxes}), Max({b[4] : b \in boxes})>>
Precedes(s, t) == s[1] < t[1] \/ (s[1] = t[1] /\ (s[2] < t[2] \/ (s[2] = t[2] /\ s[3] < t[3])))
_segment_box(a, b) == <<Lesser(X(a), X(b)), Lesser(Y(a), Y(b)), Greater(X(a), X(b)), Greater(Y(a), Y(b))>>
_cross(a, b, c) == (X(b) - X(a)) * (Y(c) - Y(a)) - (Y(b) - Y(a)) * (X(c) - X(a))
_dot(a, b, c) == (X(b) - X(a)) * (X(c) - X(a)) + (Y(b) - Y(a)) * (Y(c) - Y(a))
\* A closed segment and an open box: no axis and no side of the segment separates them.
_hits_box(a, b, box) ==
  LET own == _segment_box(a, b)
      sides == {_cross(a, b, <<x, y>>) : x \in {box[1], box[3]}, y \in {box[2], box[4]}}
  IN /\ own[1] < box[3] /\ own[3] > box[1] /\ own[2] < box[4] /\ own[4] > box[2]
     /\ a = b \/ (Min(sides) < 0 /\ Max(sides) > 0)
\* Closed segments, with collinear routes that overlap and T junctions.
_segments_meet(a, b, c, d) ==
  LET one == _segment_box(a, b)
      two == _segment_box(c, d)
  IN /\ one[1] <= two[3] /\ two[1] <= one[3] /\ one[2] <= two[4] /\ two[2] <= one[4]
     /\ _cross(a, b, c) * _cross(a, b, d) <= 0 /\ _cross(c, d, a) * _cross(c, d, b) <= 0
\* The point is nearer than n to the closed segment.
_point_segment(p, a, b, n) ==
  IF _dot(a, b, p) <= 0 THEN Square(p, a) < n * n
  ELSE IF _dot(b, a, p) <= 0 THEN Square(p, b) < n * n
  ELSE _cross(a, b, p) * _cross(a, b, p) < n * n * Square(a, b)
_segment_distance(a, b, c, d, n) ==
  \/ _segments_meet(a, b, c, d)
  \/ _point_segment(a, c, d, n) \/ _point_segment(b, c, d, n) \/ _point_segment(c, a, b, n) \/ _point_segment(d, a, b, n)
\* Connectors may meet in a port, and never overlap beyond it.
_shared_port_only(a, b, c, d, ports) ==
  \/ ~_segments_meet(a, b, c, d)
  \/ \E p \in ports \cap {a, b} \cap {c, d} :
       LET one == IF p = a THEN b ELSE a
           two == IF p = c THEN d ELSE c
       IN _cross(p, one, two) # 0 \/ _dot(p, one, two) <= 0

-----------------------------------------------------------------------------
(* Routes and captions *)

Ends(e) == {Source[e], Target[e]}
Incident(n) == {e \in Edges : n \in Ends(e)}
Segments(route) == {<<route[i], route[i + 1]>> : i \in 1..Len(route) - 1}
_default_attachments(pos, n, other, outgoing) ==
  LET right == IF n \in Transactions THEN outgoing ELSE X(pos[other]) > X(pos[n])
  IN <<IF right THEN X(pos[n]) + X(Half[n]) ELSE X(pos[n]) - X(Half[n]), Y(pos[n])>>
\* From port to port over the bends that are stored.
_points(e, pos, route) ==
  LET bends == IF e \in Bent /\ Len(route) > 2 THEN SubSeq(route, 2, Len(route) - 1) ELSE <<>>
  IN <<_default_attachments(pos, Source[e], Target[e], TRUE)>> \o bends
       \o <<_default_attachments(pos, Target[e], Source[e], FALSE)>>
_length(route) == FoldLeft(LAMBDA n, i : n + Distance(route[i], route[i + 1]), 0, [i \in 1..Len(route) - 1 |-> i])
Elbow(p, q) == LET middle == (X(p) + X(q)) \div 2 IN <<p, <<middle, Y(p)>>, <<middle, Y(q)>>, q>>
Distinct(route) ==
  FoldLeft(LAMBDA s, p : IF s # <<>> /\ Last(s) = p THEN s ELSE Append(s, p), <<>>, route)
\* The first bend stays level with its old port or above it, and so the last.
Level(p, old, bend, new) ==
  IF Y(old) = Y(bend) THEN <<X(p), Y(new)>> ELSE IF X(old) = X(bend) THEN <<X(new), Y(p)>> ELSE p
Repaired(old, p, q) ==
  LET n == Len(old)
      first == [old EXCEPT ![1] = p, ![n] = q, ![2] = Level(old[2], old[1], old[2], p)]
  IN [first EXCEPT ![n - 1] = Level(first[n - 1], old[n], old[n - 1], q)]
\* The ways to connect the ports again after a node has moved.
_routes(e, pos, old) ==
  LET new == _points(e, pos, old)
      p == Head(new)
      q == Last(new)
  IN IF e \notin Bent THEN <<new>>
     ELSE (IF Len(old) >= 3 THEN <<Distinct(Repaired(old, p, q))>> ELSE <<>>) \o <<Distinct(Elbow(p, q))>>
RECURSIVE Along(_, _)
Along(route, rest) ==
  LET n == IF Len(route) = 1 THEN 0 ELSE Distance(route[1], route[2])
  IN IF n = 0 THEN route[1]
     ELSE IF rest <= n THEN <<X(route[1]) + ((X(route[2]) - X(route[1])) * rest) \div n,
                              Y(route[1]) + ((Y(route[2]) - Y(route[1])) * rest) \div n>>
     ELSE Along(Tail(route), rest - n)
midpoint(route) == Along(route, _length(route) \div 2)
caption_box(route) ==
  LET p == midpoint(route)
  IN <<X(p) - X(CaptionHalf), Y(p) - CaptionRise, X(p) + X(CaptionHalf), Y(p) - CaptionRise + 2 * Y(CaptionHalf)>>
\* The boxes that a caption may get: the one reserved, and at the midpoint.
_caption(e, route, reserved) ==
  IF e \notin Captioned THEN {} ELSE {_envelope({caption_box(route)} \cup ({reserved} \ {None}))}
_edge_boxes(e, route, reserved) == {_segment_box(s[1], s[2]) : s \in Segments(route)} \cup _caption(e, route, reserved)
_footprint(nodes, edges) ==
  _envelope({_box(at, n) : n \in nodes} \cup UNION {_edge_boxes(e, points[e], label[e]) : e \in edges})
MainEdges == {e \in Edges : Ends(e) \subseteq Main}
\* Where Miro may draw a connector: as it is stored, or with one elbow.
_route_variants(e, route) == {route} \cup (IF e \in Bent THEN {Elbow(Head(route), Last(route))} ELSE {})

-----------------------------------------------------------------------------
(* What is safe *)

\* The routes of an address and its reserved captions once it has moved.
Drawn(proposed) ==
  [e \in Edges |-> IF e \in DOMAIN proposed THEN proposed[e] ELSE points[e]]
Free(proposed) == [e \in Edges |-> IF e \in DOMAIN proposed THEN None ELSE label[e]]
Unfolded(route) ==
  \A i, j \in 1..Len(route) - 1 : i < j =>
    _shared_port_only(route[i], route[i + 1], route[j], route[j + 1], IF j = i + 1 THEN {route[j]} ELSE {})
\* The ports in which two connectors of one node meet.
Ports(e, route, f, other) ==
  {p \in {Head(route), Last(route)} \cap {Head(other), Last(other)} :
     \E n \in Ends(e) \cap Ends(f) :
       p = (IF Source[e] = n THEN Head(route) ELSE Last(route)) /\ p = (IF Source[f] = n THEN Head(other) ELSE Last(other))}
Apart(e, route, f, other, ports) ==
  \A s \in Segments(route), t \in Segments(other) :
    IF Ends(e) \cap Ends(f) # {} THEN _shared_port_only(s[1], s[2], t[1], t[2], ports)
    ELSE ~_segment_distance(s[1], s[2], t[1], t[2], EdgeGap)
Crosses(route, box) == \E s \in Segments(route) : _hits_box(s[1], s[2], box)
\* What has to hold of a connector and a node, and of a connector and another,
\* with their captions.
NodeClear(pos, e, route, reserved, n) ==
  /\ IF n \in Ends(e) THEN ~Crosses(route, _box(pos, n)) ELSE ~Crosses(route, _expand(_box(pos, n), NearEdge))
  /\ \A caption \in _caption(e, route, reserved) : ~_touch(caption, _box(pos, n))
EdgesClear(e, route, reserved, f, other, kept, ports) ==
  /\ Apart(e, route, f, other, ports)
  /\ \A caption \in _caption(f, other, kept) : ~Crosses(route, caption)
  /\ \A caption \in _caption(e, route, reserved) :
       ~Crosses(other, caption) /\ \A o \in _caption(f, other, kept) : ~_touch(caption, o)
NodesClear(pos, m, n) == ~_touch(_expand(_box(pos, m), NodeGap), _box(pos, n))
\* The context of a transaction stays clear of every route that Miro may draw.
_context_routes_safe(pos, a, route, changed) ==
  Context = {} \/
  /\ a \in Context => \A e \in Edges \ changed : \A variant \in _route_variants(e, route[e]) :
       ~Crosses(variant, _expand(_box(pos, a), NearEdge))
  /\ \A e \in changed : \A variant \in _route_variants(e, route[e]) : \A n \in Nodes :
       a \in Context \/ n \in Context =>
         ~Crosses(variant, IF n \in Ends(e) THEN _box(pos, n) ELSE _expand(_box(pos, n), NearEdge))
safe(pos, a, proposed) ==
  LET route == Drawn(proposed)
      kept == Free(proposed)
      changed == DOMAIN proposed
  IN /\ _within(_box(pos, a), bounds.main) /\ \A n \in Nodes \ {a} : NodesClear(pos, a, n)
     /\ \A e \in Edges \ changed : NodeClear(pos, e, route[e], kept[e], a)
     /\ \A e \in changed :
          /\ \A box \in _edge_boxes(e, route[e], None) : _within(box, bounds.main)
          /\ Unfolded(route[e]) /\ \A n \in Nodes : NodeClear(pos, e, route[e], None, n)
          /\ \A f \in Edges \ {e} :
               EdgesClear(e, route[e], None, f, route[f], kept[f], Ports(e, route[e], f, route[f]))
     /\ _context_routes_safe(pos, a, route, changed)

-----------------------------------------------------------------------------
(* Addresses *)

Sorted(set, Rank(_)) == SetToSortSeq(set, LAMBDA m, n : Precedes(Rank(m), Rank(n)))
Producers(a) == {Source[e] : e \in {f \in Edges : Target[f] = a}}
Consumers(a) == {Target[e] : e \in {f \in Edges : Source[f] = a}}
Only(set) == CHOOSE n \in set : TRUE
Low(a) == IF Producers(a) = {} THEN -1000
          ELSE X(at[Only(Producers(a))]) + X(Half[Only(Producers(a))]) + LinkGap + X(Half[a])
High(a) == IF Consumers(a) = {} THEN 1000
           ELSE X(at[Only(Consumers(a))]) - X(Half[Only(Consumers(a))]) - LinkGap - X(Half[a])
_eligible(a) ==
  /\ Cardinality(Incident(a)) \in 1..2 /\ Incident(a) \cap Returning = {}
  /\ Producers(a) \cup Consumers(a) \subseteq Transactions
  /\ \A e \in Incident(a) : X(at[Source[e]]) < X(at[Target[e]])
  /\ Cardinality(Producers(a)) <= 1 /\ Cardinality(Consumers(a)) <= 1 /\ Producers(a) \cap Consumers(a) = {}
  /\ Low(a) <= X(at[a]) /\ X(at[a]) <= High(a)
\* The neighbours in the same column, and among the outputs and the inputs of a
\* transaction: an address stays between them.
ByColumn(a) == [row |-> {n \in DOMAIN Columns : a \in DOMAIN Columns /\ Columns[n] = Columns[a]},
                rank |-> [n \in Nodes |-> <<Y(start.at[n]), n, 0>>]]
BySibling(row) == [row |-> row, rank |-> [n \in Nodes |-> <<Y(start.at[n]), X(start.at[n]), n>>]]
Rows(a) ==
  {ByColumn(a)} \cup {BySibling(Consumers(t) \cap Locals) : t \in Producers(a) \cap Transactions}
                \cup {BySibling(Producers(t) \cap Locals) : t \in Consumers(a) \cap Transactions}
Above(by, m, n) == m \in by.row /\ n \in by.row /\ Precedes(by.rank[m], by.rank[n])
_sibling_order(a) ==
  [before |-> {m \in Nodes : \E by \in Rows(a) : Above(by, m, a) /\ ~\E k \in Nodes : Above(by, m, k) /\ Above(by, k, a)},
   after |-> {m \in Nodes : \E by \in Rows(a) : Above(by, a, m) /\ ~\E k \in Nodes : Above(by, a, k) /\ Above(by, k, m)}]
Preferred(a) == IF Producers(a) # {} THEN Only(Producers(a)) ELSE Only(Consumers(a))
Desired(a) ==
  LET down == Max({Y(at[Preferred(a)])} \cup {Y(at[n]) : n \in _sibling_order(a).before})
  IN <<IF Producers(a) # {} THEN Low(a) ELSE High(a), Min({down} \cup {Y(at[n]) : n \in _sibling_order(a).after})>>
\* Sixteenths of the way.
Fractions == <<<<16, 16>>, <<16, 0>>, <<12, 12>>, <<8, 8>>, <<8, 0>>, <<0, 16>>, <<0, 8>>, <<4, 4>>, <<2, 2>>, <<1, 1>>>>
Proposals(a) ==
  LET to == Desired(a)
      PartOf(part) == <<X(at[a]) + ((X(to) - X(at[a])) * part[1]) \div 16, Y(at[a]) + ((Y(to) - Y(at[a])) * part[2]) \div 16>>
      Nearer(p) == /\ p # at[a] /\ Low(a) <= X(p) /\ X(p) <= High(a)
                   /\ Square(p, at[Preferred(a)]) < Square(at[a], at[Preferred(a)])
  IN SelectSeq([i \in DOMAIN Fractions |-> PartOf(Fractions[i])], Nearer)
Sum(edges, routes) == FoldSet(LAMBDA e, n : n + _length(routes[e]), 0, edges)
\* Every choice of a route for each connector, in order.
Options(a, pos) == {f \in [Incident(a) -> {1, 2}] : \A e \in Incident(a) : f[e] <= Len(_routes(e, pos, points[e]))}
Moves(a, p) ==
  LET pos == [at EXCEPT ![a] = p]
      Proposed(f) == [e \in Incident(a) |-> _routes(e, pos, points[e])[f[e]]]
  IN {[at |-> pos, proposed |-> Proposed(f)] : f \in {g \in Options(a, pos) :
        Sum(Incident(a), Proposed(g)) <= Sum(Incident(a), points) /\ safe(pos, a, Proposed(g))}}
\* A safe move, with the first routes that are; or none, if the budget does not
\* cover the queries it needs.
Accept(move) ==
  /\ at' = move.at /\ points' = Drawn(move.proposed) /\ label' = Free(move.proposed)
_compact_addresses ==
  /\ phase = "addresses" /\ todo # <<>> /\ todo' = Tail(todo)
  /\ LET a == Head(todo)
         tried == ~spent /\ a \notin Locked \cup Core /\ _eligible(a)
         moves == IF tried THEN SelectSeq([i \in DOMAIN Proposals(a) |-> Moves(a, Proposals(a)[i])], LAMBDA set : set # {})
                  ELSE <<>>
     IN IF moves = <<>> THEN UNCHANGED drawn /\ spent' \in {spent, spent \/ (tried /\ Proposals(a) # <<>>)}
        ELSE \/ \E move \in Head(moves) : Accept(move) /\ UNCHANGED spent
             \/ spent' = TRUE /\ UNCHANGED drawn
  /\ UNCHANGED <<phase, start, bounds, corners>>

-----------------------------------------------------------------------------
(* Components *)

RECURSIVE Linked(_)
Linked(keys) ==
  LET more == keys \cup UNION {Ends(e) : e \in {f \in MainEdges : Ends(f) \cap keys # {}}}
  IN IF more = keys THEN keys ELSE Linked(more)
Members(n) == Linked({n})
_components == {Members(n) : n \in Main}
group_edges(keys) == {e \in Edges : Ends(e) \subseteq keys}
Fixed(keys) == keys \cap Core # {} \/ \E e \in Edges : Ends(e) \cap keys # {} /\ ~(Ends(e) \subseteq keys)
_padded(box) == <<box[1] - Padding, box[2] - Padding - Title, box[3] + Padding, box[4] + Padding>>
Corridor(edges) == {_segment_box(s[1], s[2]) : s \in UNION {Segments(r) : r \in UNION {_route_variants(e, points[e]) : e \in edges}}}
Geometry(keys) ==
  _envelope({_footprint(keys, group_edges(keys))} \cup (IF Context = {} THEN {} ELSE Corridor(group_edges(keys))))
Box(keys) ==
  _envelope({Geometry(keys)} \cup {_padded(_envelope({_box(at, n) : n \in frame})) : frame \in {f \in Frames : f \cap keys # {}}})
\* Fee connectors are obstacles for every component.
FeeEdges == {e \in Edges : Ends(e) \cap Fees # {}}
Obstacles == UNION {_edge_boxes(e, points[e], label[e]) : e \in FeeEdges} \cup (IF Context = {} THEN {} ELSE Corridor(FeeEdges))
Smallest(keys) == Min(keys)
Begin ==
  /\ phase = "addresses" /\ todo = <<>>
  /\ LET packing == _envelope({Box(keys) : keys \in _components})
     IN /\ bounds' = [main |-> _footprint(Main, MainEdges), packing |-> packing]
        /\ corners' = <<<<packing[1], packing[2]>>>>
  /\ IF Cardinality(_components) < 2 THEN phase' = "ready" /\ UNCHANGED todo
     ELSE /\ phase' = "components"
          /\ todo' = Sorted(_components, LAMBDA keys : <<Box(keys)[2], Box(keys)[1], Smallest(keys)>>)
  /\ UNCHANGED <<start, drawn, spent>>

Placed(box, p) == <<X(p), Y(p), X(p) + box[3] - box[1], Y(p) + box[4] - box[2]>>
Score(box) == <<(box[3] - bounds.packing[1]) * (box[4] - bounds.packing[2]), box[2], box[1]>>
Reaches(a, b) == a[1] <= b[3] /\ b[1] <= a[3] /\ a[2] <= b[4] /\ b[2] <= a[4]
Moved(box, from, to) == <<box[1] + to[1] - from[1], box[2] + to[2] - from[2], box[3] + to[1] - from[1], box[4] + to[2] - from[2]>>
Blockers(keys, box) == {k \in _components \ {keys} : _touch(_expand(box, ComponentGap), Box(k))}
\* A place that is taken is left downwards or to the right, a few times.
RECURSIVE Push(_, _, _)
Push(keys, p, pushes) ==
  LET old == Box(keys)
      new == Placed(old, p)
      blocker == Box(Head(Sorted(Blockers(keys, new), LAMBDA k : <<Box(k)[4], Box(k)[3], Smallest(k)>>)))
      right == blocker[3] + ComponentGap
      below == blocker[4] + ComponentGap
  IN IF pushes = 0 \/ ~_within(new, bounds.packing) \/ ~_within(Moved(Geometry(keys), old, new), bounds.main)
        \/ ~Precedes(Score(new), Score(old))
     THEN {}
     ELSE IF Blockers(keys, new) = {}
          THEN IF \E o \in Obstacles : Reaches(_expand(new, NearEdge), o) THEN {} ELSE {new}
     ELSE IF below + old[4] - old[2] <= bounds.packing[4] THEN Push(keys, <<X(p), below>>, pushes - 1)
     ELSE IF right + old[3] - old[1] <= bounds.packing[3] THEN Push(keys, <<right, Y(p)>>, pushes - 1)
     ELSE {}
Candidates(keys) ==
  UNION {Push(keys, p, 6) : p \in {<<bounds.packing[1], Box(keys)[2]>>, <<Box(keys)[1], bounds.packing[2]>>} \cup Range(corners)}
Beside(box) == <<<<box[3] + ComponentGap, box[2]>>, <<box[1], box[4] + ComponentGap>>>>
Shifted(p, from, to) == <<X(p) + to[1] - from[1], Y(p) + to[2] - from[2]>>
Translate(keys, from, to) ==
  /\ at' = [n \in Nodes |-> IF n \in keys THEN Shifted(at[n], from, to) ELSE at[n]]
  /\ points' = [e \in Edges |-> IF e \in group_edges(keys) THEN [i \in DOMAIN points[e] |-> Shifted(points[e][i], from, to)]
                                ELSE points[e]]
  /\ label' = [e \in Edges |-> IF e \in group_edges(keys) /\ label[e] # None THEN Moved(label[e], from, to) ELSE label[e]]
\* The best place, or another that was found before the budget was used up.
_pack_components ==
  /\ phase = "components" /\ todo # <<>> /\ todo' = Tail(todo)
  /\ LET keys == Head(todo)
         old == Box(keys)
     IN \E new \in {old} \cup (IF spent \/ Fixed(keys) THEN {} ELSE Candidates(keys)) :
          /\ Translate(keys, old, new)
          /\ spent' \in {spent, spent \/ ~Fixed(keys)}
          /\ corners' = IF spent \/ Fixed(keys) THEN corners ELSE corners \o Beside(new)
  /\ UNCHANGED <<phase, start, bounds>>
compact_graph ==
  /\ phase = "components" /\ todo = <<>> /\ phase' = "ready"
  /\ UNCHANGED <<start, drawn, todo, bounds, corners, spent>>

Init ==
  /\ phase = "addresses" /\ start \in Layouts /\ at = start.at /\ label = start.label
  /\ points = [e \in Edges |-> _points(e, start.at, start.route[e])]
  /\ todo = Sorted(Locals, LAMBDA n : <<X(start.at[n]), Y(start.at[n]), n>>) /\ corners = <<>> /\ spent = FALSE
  /\ bounds = [main |-> _footprint(Main, MainEdges), packing |-> None]
Next == _compact_addresses \/ Begin \/ _pack_components \/ compact_graph
Spec == Init /\ [][Next]_vars /\ WF_vars(Next)

-----------------------------------------------------------------------------
(* Properties *)

TypeOK ==
  /\ phase \in {"addresses", "components", "ready"} /\ spent \in BOOLEAN
  /\ start \in Layouts /\ DOMAIN at = Nodes
\* What was clear of each other in the finished layout still is, whichever of
\* the two has moved, with every caption, and the footprint has not grown.
Before(e) == _points(e, start.at, start.route[e])
WasClear(e, f) ==
  EdgesClear(e, Before(e), start.label[e], f, Before(f), start.label[f], Ports(e, Before(e), f, Before(f)))
IsClear(e, f) == EdgesClear(e, points[e], label[e], f, points[f], label[f], Ports(e, points[e], f, points[f]))
ClearStaysClear ==
  /\ \A m, n \in Nodes : m # n /\ NodesClear(start.at, m, n) => NodesClear(at, m, n)
  /\ \A e \in Edges, n \in Nodes :
       NodeClear(start.at, e, Before(e), start.label[e], n) => NodeClear(at, e, points[e], label[e], n)
  /\ \A e, f \in Edges : e # f /\ WasClear(e, f) => IsClear(e, f)
  /\ phase # "ready" => _within(_footprint(Main, MainEdges), bounds.main)
\* The branches of a component keep their order, its transactions their
\* distances, every connector its ports, and what is locked or pays a fee its
\* place.
ShapeIsKept ==
  /\ \A a \in Locals : \A by \in Rows(a) : \A n \in Nodes :
       Members(a) = Members(n) /\ Above(by, a, n) => Y(at[a]) <= Y(at[n])
  /\ \A s, t \in Transactions : Members(s) = Members(t) => Shifted(at[s], start.at[s], start.at[t]) = at[t]
  /\ \A e \in Edges : /\ Head(points[e]) = Head(_points(e, at, points[e]))
                      /\ Last(points[e]) = Last(_points(e, at, points[e]))
  /\ \A n \in Nodes : n \in Fees \cup Core \/ (n \in Transactions /\ Fixed(Members(n))) => at[n] = start.at[n]
=============================================================================
