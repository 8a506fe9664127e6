------------------------------ MODULE Terrain3D -------------------------------
(***************************************************************************)
(* Planning over several levels.  Every column of the map holds the levels *)
(* at which something was seen; a surface is a level with room for the     *)
(* robot above it.  Surfaces near an edge or near a column that is in the  *)
(* way cost more or cannot be walked.  The planner is rebuilt whenever its *)
(* map or its overlays change, and remembers its last path.                *)
(* Lengths are in tenths of a cell; a diagonal is 14.                      *)
(***************************************************************************)
EXTENDS Integers, FiniteSets, Sequences, SequencesExt

CONSTANTS
  FieldLength, FieldWidth, \* cells of the field in each direction
  Top,        \* the highest level
  Shapes,     \* what a column may hold
  Headroom,   \* robot_height_m, in levels
  HoleSpan,   \* hole_span
  Closing,    \* passes of the closing
  Wall,       \* wall_clearance_m, in cells
  Buffer,     \* wall_buffer_m, in cells
  Toll,       \* the factor of a step into the buffer
  MaxRise,    \* the highest step that the gates of step and of slope let pass
  Tolerance,  \* goal_tolerance_m, in cells
  BackOff,    \* the metre that a prefix keeps from what blocks it
  Gain,       \* minimum_information_gain
  Spots,      \* the columns that may change or be cut out
  MaxChanges, \* bound on the columns that are not like the ground, and those that are cut
  Origins, Destinations \* where plans begin, and where they are to end

Field == (0..(FieldLength - 1)) \X (0..(FieldWidth - 1))

ASSUME TerrainAssumption ==
  /\ {FieldLength, FieldWidth, Top, Headroom, HoleSpan, Closing, Wall, Buffer, MaxRise, Tolerance, Gain,
      Toll, BackOff} \subseteq Nat
  /\ \A shape \in Shapes : shape \subseteq 0..Top
  /\ Spots \subseteq Field

VARIABLES
  ground,  \* what a column that is like the ground holds: floor, or floor and ceiling
  changed, \* _points: the columns of the field that are not
  cut,     \* nodes outside the boundary, or too near to an added obstacle
  route,   \* _last_path and _last_goal
  reply    \* what the last plan returned

terrainVars == <<ground, changed, cut, route, reply>>

Around == (-HoleSpan..(FieldLength + HoleSpan - 1)) \X (-HoleSpan..(FieldWidth + HoleSpan - 1))

NoRoute == [path |-> <<>>, goal |-> <<>>]
NoReply == [kind |-> "none", path |-> <<>>, goal |-> <<>>]

TerrainInit ==
  /\ ground \in {{0}, {0, Top}} /\ changed = [c \in {} |-> {}]
  /\ cut = {} /\ route = NoRoute /\ reply = NoReply

AbsOf(n) == IF n < 0 THEN -n ELSE n
Offset(c, d) == <<c[1] + d[1], c[2] + d[2]>>
Far2(a, b) == (a[1] - b[1]) * (a[1] - b[1]) + (a[2] - b[2]) * (a[2] - b[2])
Column(n) == <<n[1], n[2]>>
Near(z) == {z - 1, z, z + 1}
FourWays == {<<-1, 0>>, <<1, 0>>, <<0, -1>>, <<0, 1>>}

\* The field lies in ground that goes on as far as a search looks.
Levels(c) == IF c \in DOMAIN changed THEN changed[c] ELSE ground

-----------------------------------------------------------------------------
(* build_surface_graph                                                     *)

RoomAbove(c, z) == {v \in Levels(c) : v > z /\ v <= z + Headroom} = {}

Standable == {n \in {<<c[1], c[2], z>> : c \in Around, z \in 0..Top} :
                n[3] \in Levels(Column(n)) /\ RoomAbove(Column(n), n[3])}

Supported(surfaces, c, z) == \E v \in Near(z) : <<c[1], c[2], v>> \in surfaces

\* Fault: what hangs above the hole is not looked at.
Closes_Blindly(surfaces, c, z) == \A d \in FourWays : Supported(surfaces, Offset(c, d), z)

\* A hole in a surface, with the same surface on its four sides, support no
\* further than three cells and levels away, and nothing in the way above.
Closes(surfaces, c, z) ==
  /\ \A d \in FourWays : Supported(surfaces, Offset(c, d), z)
  /\ \E e \in (-3..3) \X (-3..3) : Far2(e, <<0, 0>>) <= 9 /\ \E v \in Levels(Offset(c, e)) : AbsOf(v - z) <= 3
  /\ RoomAbove(c, z)

CloseHoles(surfaces) ==
  LET beside == {<<n[1] + d[1], n[2] + d[2], n[3]>> : n \in surfaces, d \in FourWays} \ surfaces
  IN surfaces \union {n \in beside : Closes(surfaces, Column(n), n[3])}

\* Pass by pass.
Surfaces ==
  LET closed[passes \in 0..Closing] == IF passes = 0 THEN Standable ELSE CloseHoles(closed[passes - 1])
  IN closed[Closing]

\* Fault: no column is in the way.
InTheWay_Never(c) == FALSE

\* More than one level, all of them within the height of the robot.
InTheWay(c) ==
  /\ Cardinality(Levels(c)) > 1
  /\ \A u, v \in Levels(c) : u - v <= Headroom

\* The surface ends on some side, and does not go on beyond a short hole.
RealEdge(surfaces, n) ==
  \E d \in FourWays : \A far \in 1..HoleSpan :
    LET c == <<n[1] + far * d[1], n[2] + far * d[2]>>
    IN c \in Around /\ ~Supported(surfaces, c, n[3])

\* The columns that clearance is measured to.
Hazards(surfaces) ==
  LET r == Wall + Buffer
      look == (-r..(FieldLength + r - 1)) \X (-r..(FieldWidth + r - 1))
  IN {c \in look : InTheWay(c)}
       \union {Column(n) : n \in {m \in surfaces : Column(m) \in look /\ RealEdge(surfaces, m)}}

\* A node is a hazard to itself only on its own level.
HazardWithin(surfaces, hazards, n, square) ==
  \/ InTheWay(Column(n)) \/ RealEdge(surfaces, n)
  \/ \E h \in hazards \ {Column(n)} : Far2(h, Column(n)) <= square

\* The nodes of the field that no overlay has cut out and that can be walked;
\* those in the buffer are dear.
Graph ==
  LET surfaces == Surfaces
      hazards == Hazards(surfaces)
      nodes == {n \in surfaces \ cut : Column(n) \in Field}
      walkable == {n \in nodes : ~HazardWithin(surfaces, hazards, n, Wall * Wall)}
  IN IF surfaces = {} \/ Wall + Buffer = 0 \/ hazards = {} THEN [walkable |-> nodes, dear |-> {}]
     ELSE [walkable |-> walkable,
           dear |-> {n \in walkable : HazardWithin(surfaces, hazards, n, (Wall + Buffer) * (Wall + Buffer) - 1)}]

-----------------------------------------------------------------------------
(* plan_surface_path                                                       *)

Straight(a, b) == IF a[1] = b[1] \/ a[2] = b[2] THEN 10 ELSE 14

\* Columns that touch, and a rise or fall that both gates let pass.
EdgeIsSafe(a, b) == Far2(a, b) \in {1, 2} /\ AbsOf(b[3] - a[3]) <= MaxRise

Climb(a, b) == IF b[3] > a[3] THEN b[3] - a[3] ELSE 0
EdgeCost(graph, a, b) == Straight(a, b) * (IF b \in graph.dear THEN Toll ELSE 1) + 40 * Climb(a, b)

\* One round of the search: what was found a cheaper way to in the last round
\* passes it on to its neighbours.  The path is empty where there is no way.
\* (That the rounds are compared has TLC work each of them out only once.)
Relax(graph, s) ==
  LET Cost(m, n) == s.ways[m].cost + EdgeCost(graph, m, n)
      next == [n \in graph.walkable |->
        LET from == {m \in s.fresh : /\ EdgeIsSafe(m, n)
                                     /\ s.ways[n].path = <<>> \/ Cost(m, n) < s.ways[n].cost}
            best == CHOOSE m \in from : \A l \in from : Cost(m, n) <= Cost(l, n)
        IN IF from = {} THEN s.ways[n]
           ELSE [cost |-> Cost(best, n), path |-> Append(s.ways[best].path, n)]]
  IN [ways |-> next, fresh |-> IF next = s.ways THEN {} ELSE {n \in graph.walkable : next[n] # s.ways[n]}]

\* The cheapest ways from a node: after as many rounds as there are nodes, no way
\* gets cheaper.
Cheapest(graph, a) ==
  LET search[round \in 0..Cardinality(graph.walkable)] ==
        IF round = 0
        THEN [ways |-> [n \in graph.walkable |-> [cost |-> 0, path |-> IF n = a THEN <<a>> ELSE <<>>]],
              fresh |-> {a}]
        ELSE LET before == search[round - 1] IN IF before.fresh = {} THEN before ELSE Relax(graph, before)
      last == search[Cardinality(graph.walkable)]
  IN [n \in graph.walkable |-> last.ways[n].path]

Apart(n, p) == Far2(n, p) + (n[3] - p[3]) * (n[3] - p[3])

\* The walkable node nearest to a point, unless it is too far.
Nearest(graph, p) ==
  {n \in graph.walkable : /\ Apart(n, p) <= Tolerance * Tolerance
                           /\ \A m \in graph.walkable : Apart(n, p) <= Apart(m, p)}

-----------------------------------------------------------------------------
(* The safe prefix.                                                        *)

\* The way that the last nodes make up is left out as far as it is no longer than that.
Retreat(nodes, back) ==
  LET length[last \in 0..(Len(nodes) - 1)] ==
        IF last = 0 THEN 0
        ELSE length[last - 1] + Straight(nodes[Len(nodes) - last], nodes[Len(nodes) - last + 1])
  IN SubSeq(nodes, 1, Len(nodes) - Max({last \in DOMAIN length : length[last] <= back}))

\* Fault: the old path is taken as it is.
StillSafe_Trusts(graph, old, from, to) == TRUE

\* The old path from one node to another, on the graph as it is now.
StillSafe(graph, old, from, to) ==
  \A i \in from..to : /\ old[i] \in graph.walkable
                      /\ i > from => EdgeIsSafe(old[i - 1], old[i])

\* _safe_prefix, from the node of the last path that is nearest to the start.
SafePrefix(graph, start, goal) ==
  IF route = NoRoute \/ Apart(route.goal, goal) > Tolerance * Tolerance THEN {<<>>}
  ELSE {LET old == route.path
            kept == {to \in (from - 1)..Len(old) : StillSafe(graph, old, from, to)}
            valid == SubSeq(old, from, Max(kept))
            safe == IF Max(kept) = Len(old) THEN valid ELSE Retreat(valid, BackOff)
        IN IF Len(valid) < 2 \/ Len(safe) < 2 THEN <<>> ELSE safe :
          from \in {i \in DOMAIN route.path : \A j \in DOMAIN route.path :
                      Apart(route.path[i], start) <= Apart(route.path[j], start)}}

-----------------------------------------------------------------------------
(* The planner.                                                            *)

Oddities(columns, nodes) == Cardinality(columns) + Cardinality({Column(n) : n \in nodes})

\* update_global_map, update_region: columns are seen to be otherwise.
Update ==
  /\ \E c \in Spots, shape \in Shapes \union {ground} :
       LET others == DOMAIN changed \ {c}
           new == IF shape = ground THEN others ELSE others \union {c}
       IN /\ Oddities(new, cut) <= MaxChanges
          /\ changed' = [d \in new |-> IF d = c THEN shape ELSE changed[d]]
  /\ reply' = NoReply
  /\ UNCHANGED <<ground, cut, route>>

\* A boundary leaves out whole columns, an obstacle what is within the height of the
\* robot from it.
Outside(c) == {<<c[1], c[2], z>> : z \in 0..Top}
Obstructed(c, level) == {n \in Outside(c) : AbsOf(n[3] - level) <= Headroom}

\* set_navigation_boundary, set_added_obstacles: each replaces what it set before.
Overlay ==
  /\ \E c \in Spots, level \in 0..Top : cut' \in {{}, Outside(c), Obstructed(c, level)}
  /\ Oddities(DOMAIN changed, cut') <= MaxChanges
  /\ reply' = NoReply
  /\ UNCHANGED <<ground, changed, route>>

\* plan. A search that runs out of its budget ends without a prefix.
Plan ==
  /\ reply = NoReply
  /\ LET graph == Graph
     IN \E start \in Origins, goal \in Destinations :
          LET failed == [kind |-> "failed", path |-> <<>>, goal |-> goal]
              ways == UNION {LET path == Cheapest(graph, a) IN {path[b] : b \in Nearest(graph, goal)} :
                               a \in Nearest(graph, start)} \ {<<>>}
          IN IF ways # {}
             THEN \/ reply' = failed /\ UNCHANGED route
                  \/ \E path \in ways : /\ reply' = [kind |-> "path", path |-> path, goal |-> goal]
                                         /\ route' = [path |-> path, goal |-> goal]
             ELSE /\ \E prefix \in SafePrefix(graph, start, goal) :
                       reply' = IF prefix = <<>> THEN failed
                                ELSE [kind |-> "prefix", path |-> prefix, goal |-> goal]
                  /\ UNCHANGED route
  /\ UNCHANGED <<ground, changed, cut>>

\* frontier_goals: walkable nodes with enough columns around them where nothing is walkable.
Unknown(graph, n) ==
  LET known == {Column(m) : m \in graph.walkable}
  IN {c \in Field : c # Column(n) /\ Far2(c, Column(n)) <= 8
                    /\ AbsOf(c[1] - n[1]) <= 2 /\ AbsOf(c[2] - n[2]) <= 2} \ known

\* plan_terrain_frontier: the way to one of them, whatever its rank, by a
\* planner without a past; what was visited or is out of range is not left out.
PlanFrontier ==
  /\ reply = NoReply /\ route = NoRoute
  /\ LET graph == Graph
     IN \E start \in Origins : \E a \in Nearest(graph, start) :
          LET path == Cheapest(graph, a)
              goals == {n \in graph.walkable \ {a} : path[n] # <<>> /\ Cardinality(Unknown(graph, n)) >= Gain}
          IN \/ /\ goals = {}
                /\ reply' = [kind |-> "failed", path |-> <<>>, goal |-> <<>>]
             \/ \E n \in goals : reply' = [kind |-> "frontier", path |-> path[n], goal |-> n]
  /\ UNCHANGED <<ground, changed, cut, route>>

TerrainNext == Update \/ Overlay \/ Plan \/ PlanFrontier

TerrainSpec == TerrainInit /\ [][TerrainNext]_terrainVars

-----------------------------------------------------------------------------
Within(c, r) == {d \in Around : Far2(c, d) <= r * r}

\* Something in the column is higher than a step and lower than the robot.
Intrudes(c, z) == \E v \in Levels(c) : z + MaxRise < v /\ v <= z + Headroom

(* No path that is returned, be it new, a prefix of the last one or the way    *)
(* to a frontier, leads over a node that an overlay cut out, under             *)
(* something the robot does not fit below, over a step that is too high, or    *)
(* closer than the hard distance to a column that is in the way - unless that  *)
(* column is taller than the robot (see WallsKeepDistance), or "a lone return  *)
(* [that] is floor support and must not be mistaken for a wall": these two the *)
(* graph takes for no hazard (obstacle_xy).                                    *)
PathIsSafe ==
  LET path == reply.path
  IN \A i \in DOMAIN path :
       LET c == Column(path[i])
           z == path[i][3]
       IN /\ path[i] \notin cut
          /\ \A v \in Levels(c) : v <= z \/ z + Headroom < v
          /\ \A w \in Within(c, Wall) :
               Intrudes(w, z) => Cardinality(Levels(w)) = 1 \/ Max(Levels(w)) - Min(Levels(w)) > Headroom
          /\ i > 1 => Far2(path[i - 1], path[i]) <= 2 /\ AbsOf(z - path[i - 1][3]) <= MaxRise

(* "A column is a wall/overhang hazard when occupied material spans enough     *)
(* vertical cells to intrude into the robot envelope" (build_surface_graph):   *)
(* no path is closer than the hard distance to such a column.                  *)
WallsKeepDistance ==
  \A i \in DOMAIN reply.path : \A w \in Within(Column(reply.path[i]), Wall) :
    ~Intrudes(w, reply.path[i][3])
=============================================================================
