----------------------------- MODULE Navigation -------------------------------
(***************************************************************************)
(* Navigation seen from one side at a time: the clients with their callers *)
(* and goals, the voxel map with those who write it, one question put to   *)
(* the planner on some grid the map may give it, or the planner that knows *)
(* several levels with its changing map.                                   *)
(***************************************************************************)
EXTENDS Nav2Client, VoxelMap, GridPlanner, Terrain3D

CONSTANTS
  MaxReturns, \* bound on the obstacles of a grid
  MaxUnseen,  \* bound on the cells of a grid that were never seen through
  Starts,     \* where the robot stands
  Returns     \* the cells where something may be seen

ASSUME MapsAssumption == {MaxReturns, MaxUnseen} \subseteq Nat /\ Starts \union Returns \subseteq Cells

VARIABLES
  side,   \* clients, map, planner or terrain
  asked   \* the grid the planner is asked about, and where the robot is

navigationVars == <<clientsVars, mapVars, terrainVars, side, asked>>

NoQuestion == [raw |-> {}, unseen |-> {}, start |-> <<>>]

Few(n, cells) == {{f[i] : i \in 1..n} : f \in [1..n -> cells]}

NavigationInit ==
  /\ ClientsInit /\ MapInit /\ TerrainInit
  /\ side \in {"clients", "map", "planner", "terrain"}
  /\ side # "clients" => provider = "native"
  /\ side # "terrain" => ground = {0}
  /\ asked = NoQuestion

ByClients(step) == side = "clients" /\ step /\ UNCHANGED <<mapVars, terrainVars, side, asked>>
ByMap(step) == side = "map" /\ step /\ UNCHANGED <<clientsVars, terrainVars, side, asked>>
ByTerrain(step) == side = "terrain" /\ step /\ UNCHANGED <<clientsVars, mapVars, side, asked>>

\* get_costmap, costmap_from_pointcloud or _plan_global_route: some grid.
Sight ==
  /\ side = "planner" /\ asked = NoQuestion
  /\ \E start \in Starts, raw \in Few(MaxReturns, Returns) \union {{}} :
       asked' = [NoQuestion EXCEPT !.raw = raw, !.start = start]
  /\ UNCHANGED <<clientsVars, mapVars, terrainVars, side>>

\* Some of it was never seen; then there is an obstacle less.
Shade ==
  /\ asked # NoQuestion /\ asked.unseen = {} /\ Cardinality(asked.raw) < MaxReturns
  /\ \E unseen \in Few(MaxUnseen, Cells) : asked' = [asked EXCEPT !.unseen = unseen]
  /\ UNCHANGED <<clientsVars, mapVars, terrainVars, side>>

NavigationNext == ByClients(ClientsNext) \/ ByMap(MapNext) \/ ByTerrain(TerrainNext) \/ Sight \/ Shade

NavigationSpec == NavigationInit /\ [][NavigationNext]_navigationVars

\* The map and the planners only answer: nothing is owed by them.
NavigationFairSpec == NavigationSpec /\ ClientsFairness

-----------------------------------------------------------------------------
\* "no known-free global path", "no safe local path": there is no such path
\* only when there is none, the path that comes is the cheapest, clear of
\* obstacles and never between two that touch, and known free on a global route.
PlanIsSound ==
  asked # NoQuestion =>
    LET grid == Grid(asked.raw, Cells \ asked.unseen)
    IN /\ asked.unseen = {} => Shortest(grid, asked.start) /\ LocalIsClear(grid, asked.start)
       /\ GlobalIsSeen(grid, asked.start)
       /\ FrontierIsReachable(grid, asked.start)
=============================================================================
