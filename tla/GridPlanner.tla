----------------------------- MODULE GridPlanner ------------------------------
(***************************************************************************)
(* The functions between a map and a route: the occupancy grid with its    *)
(* inflation and its costs of nearness, the nearest safe goal, A*, the     *)
(* simplified path and its corridor, the grid of known free cells that     *)
(* global routes use, and the frontiers of exploration.  Costs are scaled  *)
(* to integers: distances are rounded down and the diagonal is rounded up, *)
(* so that here, too, the heuristic is consistent.                         *)
(***************************************************************************)
EXTENDS Integers, FiniteSets, Sequences, SequencesExt

CONSTANTS
  Size,        \* cells of the square grid in each direction
  Inflation,   \* the robot's radius, in cells
  Clearance,   \* of a safe goal, in cells
  SearchCells, \* how far a safe goal is looked for
  MinFrontier  \* the fewest cells of a frontier

ASSUME GridAssumption ==
  Size \in Nat \ {0} /\ {Inflation, Clearance, SearchCells, MinFrontier} \subseteq Nat

Cells == (0..(Size - 1)) \X (0..(Size - 1))

Magnitude(n) == IF n < 0 THEN -n ELSE n
Sign(n) == IF n > 0 THEN 1 ELSE IF n < 0 THEN -1 ELSE 0
Plus(c, d) == <<c[1] + d[1], c[2] + d[2]>>
Square(c, d) == (c[1] - d[1]) * (c[1] - d[1]) + (c[2] - d[2]) * (c[2] - d[2])

\* The cells, in the grid or not, within r of c.
Disc(c, r) == {d \in ((c[1] - r)..(c[1] + r)) \X ((c[2] - r)..(c[2] + r)) : Square(c, d) <= r * r}

\* A hundred times a distance, rounded down, from its square.
Root == [s \in 0..(2 * Size * Size) |->
           CHOOSE r \in 0..(200 * Size) : r * r <= 10000 * s /\ (r + 1) * (r + 1) > 10000 * s]

-----------------------------------------------------------------------------
(* The grid.                                                               *)

Inflated(raw) == {c \in Cells : \E r \in raw : Square(c, r) <= Inflation * Inflation}

\* occupancy_grid: what was seen through and is not occupied is known free.
\* Steps near what is costly cost more.
Grid(raw, seen) ==
  LET occupied == Inflated(raw)
  IN [occupied |-> occupied, free |-> seen \ occupied, costly |-> occupied]

Blocked(grid, c) == c \notin Cells \/ c \in grid.occupied

\* Ten times the factor of a step into a cell, by its distance from what is
\* occupied, for a cost radius of two cells: a side, a diagonal, and beyond.
Factor(grid, c) ==
  LET nearest == {Square(c, o) : o \in grid.costly}
  IN IF 1 \in nearest THEN 25 ELSE IF 2 \in nearest THEN 19 ELSE 10

-----------------------------------------------------------------------------
(* find_nearest_safe_goal.                                                 *)

Safe(grid, c) == \A d \in Disc(c, Clearance) : ~Blocked(grid, d)

\* Nearest first, then by column and row; the empty set when there is none.
SafeGoal(grid, requested) ==
  LET candidates == {c \in Disc(requested, SearchCells) : Safe(grid, c)}
      Before(a, b) ==
        \/ Square(a, requested) < Square(b, requested)
        \/ Square(a, requested) = Square(b, requested) /\ (a[1] < b[1] \/ (a[1] = b[1] /\ a[2] < b[2]))
  IN {c \in candidates : \A d \in candidates \ {c} : Before(c, d)}

-----------------------------------------------------------------------------
(* astar_path.                                                             *)

\* _NEIGHBORS of a cell, those that are in the grid.
Beside == [c \in Cells |-> {n \in Cells : Square(c, n) \in {1, 2}}]

Diagonal(c, n) == c[1] # n[1] /\ c[2] # n[2]
StepCost(grid, c, n) == (IF Diagonal(c, n) THEN 142 ELSE 100) * Factor(grid, n)

\* Fault: a diagonal may pass between two obstacles.
Open_Corner(grid, start, c, n) == ~Blocked(grid, n)

\* The start is never in the way; a diagonal needs both cells beside it.
Open(grid, start, c, n) ==
  LET InTheWay(d) == d \in grid.occupied /\ d # start
  IN /\ ~Blocked(grid, n)
     /\ Diagonal(c, n) => ~InTheWay(<<n[1], c[2]>>) /\ ~InTheWay(<<c[1], n[2]>>)

Heuristic(goal, c) == 10 * Root[Square(goal, c)]

\* The heap: the least estimate first, of those the first that was pushed.
Earliest(heap) ==
  CHOOSE e \in heap : \A f \in heap : e.rank < f.rank \/ (e.rank = f.rank /\ e.serial <= f.serial)

\* What is popped leads to the cells beside it, column by column, if that is cheaper.
\* An entry that is overtaken by a cheaper one of its cell is dropped here: popped
\* after it, it would find nothing cheaper any more.  (That the costs are compared
\* has TLC work them out only once.)
Expand(grid, start, goal, s) ==
  LET c == Earliest(s.heap).cell
      Candidate(n) == s.cost[c] + StepCost(grid, c, n)
      taken == {n \in Beside[c] : Open(grid, start, c, n) /\ (s.cost[n] < 0 \/ Candidate(n) < s.cost[n])}
      Pushed(n) == [rank |-> Candidate(n) + Heuristic(goal, n),
                    serial |-> s.serial + 3 * (n[1] - c[1]) + n[2] - c[2], cell |-> n]
      cost == [n \in Cells |-> IF n \in taken THEN Candidate(n) ELSE s.cost[n]]
  IN [heap |-> {e \in s.heap : e.cell \notin taken \union {c}} \union {Pushed(n) : n \in taken},
      cost |-> cost,
      from |-> IF cost = s.cost THEN s.from ELSE [n \in Cells |-> IF n \in taken THEN c ELSE s.from[n]],
      serial |-> s.serial + 9]

SearchEnded(goal, s) == s.heap = {} \/ Earliest(s.heap).cell = goal

\* The loop ends within so many rounds: every cell is expanded once.
Search(grid, start, goal) ==
  LET search[pops \in 0..Cardinality(Cells)] ==
        IF pops = 0
        THEN [heap |-> {[rank |-> 0, serial |-> 0, cell |-> start]},
              cost |-> [c \in Cells |-> IF c = start THEN 0 ELSE -1],
              from |-> [c \in Cells |-> c], serial |-> 5]
        ELSE LET s == search[pops - 1] IN IF SearchEnded(goal, s) THEN s ELSE Expand(grid, start, goal, s)
  IN search[Cardinality(Cells)]

\* The cells from the start to the goal, back along where each was reached from.
Trace(from, start, goal) ==
  LET trail[n \in 0..Cardinality(Cells)] ==
        IF n = 0 THEN <<goal>>
        ELSE LET path == trail[n - 1] IN IF Head(path) = start THEN path ELSE <<from[Head(path)]>> \o path
  IN trail[Cardinality(Cells)]

\* The empty sequence when there is no path.
AStar(grid, start, goal) ==
  LET s == Search(grid, start, goal)
  IN IF Blocked(grid, goal) \/ s.heap = {} THEN <<>> ELSE Trace(s.from, start, goal)

Direction(path, i) == <<Sign(path[i][1] - path[i - 1][1]), Sign(path[i][2] - path[i - 1][2])>>

\* Only the corners stay.
Simplify(path) ==
  LET Corner(i) == i \in {1, Len(path)} \/ Direction(path, i) # Direction(path, i + 1)
      kept[i \in 0..Len(path)] ==
        IF i = 0 THEN <<>> ELSE IF Corner(i) THEN Append(kept[i - 1], path[i]) ELSE kept[i - 1]
  IN kept[Len(path)]

\* Bresenham's line.
Line(a, b) ==
  LET dx == Magnitude(b[1] - a[1])
      dy == -Magnitude(b[2] - a[2])
      Step(p) ==
        LET right == 2 * p.error >= dy
            up == 2 * p.error <= dx
        IN [cell |-> <<IF right THEN p.cell[1] + Sign(b[1] - a[1]) ELSE p.cell[1],
                       IF up THEN p.cell[2] + Sign(b[2] - a[2]) ELSE p.cell[2]>>,
            error |-> p.error + (IF right THEN dy ELSE 0) + (IF up THEN dx ELSE 0)]
      drawn[n \in 0..(dx - dy)] ==
        IF n = 0 THEN [cell |-> a, error |-> dx + dy]
        ELSE LET p == drawn[n - 1] IN IF p.cell = b THEN p ELSE Step(p)
  IN {drawn[n].cell : n \in 0..(dx - dy)}

\* path_corridor_cells, of no width.
Corridor(path) == UNION {Line(path[i], path[i + 1]) : i \in 1..(Len(path) - 1)}

-----------------------------------------------------------------------------
(* What native_go2 makes of them.                                          *)

LocalPlan(grid, start, requested) ==
  LET safe == SafeGoal(grid, requested)
  IN IF safe = {} THEN <<>> ELSE Simplify(AStar(grid, start, CHOOSE c \in safe : TRUE))

\* path_minimum_clearance_m is not above zero: the drive is refused.
Collides(grid, path) == Corridor(path) \intersect (grid.occupied \ {path[1]}) # {}

\* Fault: near the robot, what is not occupied is taken for free.
KnownFreeOnly_NearStart(grid, start) ==
  LET traversable == {c \in Cells : Disc(c, Inflation) \subseteq grid.free
                                    \/ (Square(c, start) <= Inflation * Inflation /\ c \notin grid.occupied)}
  IN [occupied |-> Cells \ (traversable \union {start}), free |-> traversable, costly |-> grid.costly]

\* Traversable is what is known free as far as the robot reaches, and near the
\* robot what is known free.  (The costs stay those of the grid.)
KnownFreeOnly(grid, start) ==
  LET traversable == {c \in grid.free : Disc(c, Inflation) \subseteq grid.free
                                        \/ Square(c, start) <= Inflation * Inflation}
  IN [occupied |-> Cells \ (traversable \union {start}), free |-> traversable, costly |-> grid.costly]

\* _plan_global_route, on the grid of known free cells.
GlobalRoute(safe, start, goal) == Simplify(AStar(safe, start, goal))

-----------------------------------------------------------------------------
(* find_frontier_goals, without places visited before.                     *)

Sides == {<<-1, 0>>, <<1, 0>>, <<0, -1>>, <<0, 1>>}

Spread(first, within, steps) ==
  LET spread[n \in 0..Cardinality(within)] ==
        IF n = 0 THEN first
        ELSE LET reached == spread[n - 1]
                 next == {c \in within : \E r \in reached, s \in steps : c = Plus(r, s)} \ reached
             IN IF next = {} THEN reached ELSE reached \union next
  IN spread[Cardinality(within)]

Boundary(grid, start) ==
  {c \in Spread({start}, grid.free, Sides) :
     \E s \in Sides : Plus(c, s) \in Cells \ (grid.free \union grid.occupied)}

Components(cells) == {Spread({c}, cells, (-1..1) \X (-1..1)) : c \in cells}

\* The cells of a frontier the robot can stand on, for each that is long enough
\* and has any; the goal is the one nearest to the middle of these.
Frontiers(grid, start) ==
  IF start \notin grid.free THEN {}
  ELSE {{c \in group : Disc(c, Inflation) \intersect grid.occupied = {}} :
          group \in {g \in Components(Boundary(grid, start)) : Cardinality(g) >= MinFrontier}} \ {{}}

-----------------------------------------------------------------------------
(* What the functions promise.                                             *)

\* The least cost from start to every cell, round by round: -1 if there is no way.
Distances(grid, start) ==
  LET settle[n \in 0..Cardinality(Cells)] ==
        IF n = 0 THEN [cost |-> [c \in Cells |-> IF c = start THEN 0 ELSE -1], settled |-> FALSE]
        ELSE LET s == settle[n - 1]
                 Ways(c) == {s.cost[p] + StepCost(grid, p, c) :
                               p \in {q \in Beside[c] : s.cost[q] >= 0 /\ Open(grid, start, q, c)}}
                              \union ({s.cost[c]} \ {-1})
                 Least(ways) == CHOOSE w \in ways : \A v \in ways : w <= v
                 cost == [c \in Cells |-> IF Ways(c) = {} THEN -1 ELSE Least(Ways(c))]
             IN IF s.settled THEN s ELSE [cost |-> cost, settled |-> cost = s.cost]
  IN settle[Cardinality(Cells)].cost

Length(grid, path) ==
  LET length[i \in 1..Len(path)] == IF i = 1 THEN 0 ELSE length[i - 1] + StepCost(grid, path[i - 1], path[i])
  IN length[Len(path)]

\* A* finds a path whenever there is one, and none is cheaper.
Shortest(grid, start) ==
  LET distance == Distances(grid, start)
  IN \A goal \in Cells :
       LET path == AStar(grid, start, goal)
       IN IF Blocked(grid, goal) \/ distance[goal] < 0 THEN path = <<>>
          ELSE path # <<>> /\ Length(grid, path) = distance[goal]

\* A body with a size passes no gap between two obstacles that touch at a corner.
Squeezes(grid, start, path) ==
  \E i \in 2..Len(path) :
    LET line == Line(path[i - 1], path[i])
    IN \E c, n \in line :
         /\ Diagonal(c, n) /\ Square(c, n) = 2
         /\ {<<n[1], c[2]>>, <<c[1], n[2]>>} \intersect line = {}
         /\ {<<n[1], c[2]>>, <<c[1], n[2]>>} \intersect (grid.occupied \ {start}) # {}

\* A local path is clear all along, so that the refusal for want of clearance
\* never comes, and ends away from every obstacle and near what was asked.
LocalIsClear(grid, start) ==
  \A requested \in Cells :
    LET path == LocalPlan(grid, start, requested)
    IN path # <<>> =>
         /\ ~Collides(grid, path) /\ ~Squeezes(grid, start, path)
         /\ Safe(grid, path[Len(path)])
         /\ Square(path[Len(path)], requested) <= SearchCells * SearchCells

\* A global route lies in what was seen free, but for the cell it starts in.
GlobalIsSeen(grid, start) ==
  LET safe == KnownFreeOnly(grid, start)
  IN \A goal \in Cells :
       LET route == GlobalRoute(safe, start, goal)
       IN route # <<>> =>
            /\ Corridor(route) \ {start} \subseteq grid.free
            /\ ~Squeezes(grid, start, route)

\* Each frontier that is returned has a goal, and to every goal there is a path.
FrontierIsReachable(grid, start) ==
  \A frontier \in Frontiers(grid, start), c \in Cells :
    c \in frontier => AStar(grid, start, c) # <<>> /\ c \in grid.free
=============================================================================
