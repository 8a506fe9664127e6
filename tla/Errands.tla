------------------------------- MODULE Errands -------------------------------
(***************************************************************************)
(* Skills that reach their end by a series of navigation goals: patrol,    *)
(* frontier exploration, terrain paths, terrain exploration and the visual *)
(* approach (native client), remember_room and find_object (any client).   *)
(* Each sets a goal, waits for its end, and decides on the next; dashboard *)
(* users set and cancel goals beside them, and the service may stop at any *)
(* await.  Of the client only the promise of GoalLifecycle is used.        *)
(***************************************************************************)
EXTENDS Naturals

CONSTANTS
  Clients,    \* the clients the settings may choose; mapped: native with a persistent map
  Outcomes,   \* how a goal may end
  MaxLegs,    \* waypoints, segments, rooms, headings or iterations of one errand
  MaxLost,    \* max_lost_frames, and max_no_gain_attempts
  DeskGoals   \* bound on the goals others set

ASSUME ErrandAssumption ==
  /\ Clients \subseteq {"native", "mapped", "direct"} /\ "active" \notin Outcomes
  /\ {MaxLegs, MaxLost} \subseteq Nat \ {0} /\ DeskGoals \in Nat

VARIABLES
  client,    \* the navigation client
  state,     \* its NavigationState
  alone,     \* its newest goal was accepted alone
  errand,    \* the skill and what it has left to do
  goal,      \* the goal the errand set last
  desk,      \* goals others may still set
  service    \* AgentService: up, waiting for the command, cancelling the goal, down

errandVars == <<client, state, alone, errand, goal, desk, service>>

Goals == INSTANCE GoalLifecycle

NativeKinds == {"patrol", "explore", "terrain", "terrain_explore", "visual"}
SpatialKinds == {"find", "remember"}
\* The persistent map matters to the patrol and to find_object only.
Kinds == CASE client = "native" -> NativeKinds \union SpatialKinds
           [] client = "mapped" -> {"patrol", "find"}
           [] OTHER             -> SpatialKinds

ErrandInit ==
  /\ client \in Clients
  /\ Goals!Init
  /\ goal = 0 /\ desk = DeskGoals /\ service = "up"
  /\ \E kind \in Kinds, n \in 0..MaxLegs :
       errand = [kind |-> kind, pc |-> IF kind = "terrain_explore" THEN "plan" ELSE "next",
                 phase |-> "travel", left |-> n,
                 steps |-> IF kind = "terrain" THEN n ELSE 0, reached |-> 0, idle |-> 0, late |-> FALSE,
                 verdict |-> "running"]

At(kind, pc) == errand.kind = kind /\ errand.pc = pc
Runs(kind, pc) == At(kind, pc) /\ UNCHANGED <<client, desk, service>>
Terminal == state.status \in Outcomes

Returns(verdict) == errand' = [errand EXCEPT !.pc = "done", !.phase = "travel", !.left = 0, !.steps = 0,
                                             !.idle = 0, !.late = FALSE, !.verdict = verdict]
ReturnsNow(verdict) == Returns(verdict) /\ UNCHANGED <<state, alone, goal>>
Becomes(e) == errand' = e /\ UNCHANGED <<state, alone, goal>>

\* uuid4: an id that nobody holds.  Only whether two are the same is ever looked at.
NewId == CHOOSE id \in 1..3 : id \notin {state.goal, goal}

\* What is set with set_absolute_goal: the waypoints of a map and the way to its rooms.
Absolute == client = "mapped" /\ (errand.kind = "patrol" \/ (errand.kind = "find" /\ errand.phase = "travel"))

\* A relative goal is refused when it is asked for while the task of another runs; it may
\* have been asked for before, and have waited for the first sensor state since.  An
\* absolute one never is.  Once it is accepted the errand waits for its end.
Submit(refusal) ==
  \/ ~Absolute /\ (Goals!Active \/ ~alone) /\ ReturnsNow(refusal)
  \/ ReturnsNow("provider_error")
  \/ /\ Goals!Begin(NewId) /\ goal' = NewId
     /\ errand' = [errand EXCEPT !.pc = "wait", !.late = FALSE]

\* cancel: an active goal ends as canceled, and no other.
Cancel == IF Goals!Active THEN Goals!End("canceled") ELSE UNCHANGED <<state, alone>>

\* The waits of the controllers: any terminal status is taken for the end of
\* the goal, and there is no deadline.
Ended(kind) == Runs(kind, "wait") /\ Terminal

Stops ==
  \/ state.status = "canceled" /\ ReturnsNow("canceled")
  \/ state.status \notin {"canceled", "succeeded"} /\ ReturnsNow("navigation_failed")

-----------------------------------------------------------------------------
(* The controllers of the native client.                                   *)

\* The next waypoint of the route, in each cycle.
PatrolNext ==
  /\ Runs("patrol", "next")
  /\ IF errand.left = 0 THEN ReturnsNow("completed") ELSE Submit("navigation_failed")

PatrolTerminal ==
  /\ Ended("patrol")
  /\ \/ Stops
     \/ /\ state.status = "succeeded"
        /\ Becomes([errand EXCEPT !.pc = "next", !.left = @ - 1, !.reached = @ + 1])

\* The best frontier of the current grid; none left, or no localization in the
\* grid's frame, ends the exploration.
FrontierNext ==
  /\ Runs("explore", "next")
  /\ \/ errand.left = 0 /\ ReturnsNow("max_goals")
     \/ errand.left > 0 /\ ReturnsNow("navigation_failed")
     \/ errand.left > 0 /\ ReturnsNow(IF errand.reached > 0 THEN "complete" ELSE "no_frontier")
     \/ errand.left > 0 /\ Submit("navigation_failed")

\* A reached frontier must have uncovered enough of the map.
FrontierTerminal ==
  /\ Ended("explore")
  /\ \/ Stops
     \/ /\ state.status = "succeeded"
        /\ \E idle \in {0, errand.idle + 1} :
             IF idle >= MaxLost THEN ReturnsNow("no_information_gain")
             ELSE Becomes([errand EXCEPT !.pc = "next", !.left = @ - 1, !.reached = @ + 1, !.idle = idle])

\* plan_terrain_frontier: a path of some segments, or no frontier.
TerrainPlan ==
  /\ Runs("terrain_explore", "plan")
  /\ \/ errand.left = 0 /\ ReturnsNow("max_goals")
     \/ errand.left > 0 /\ ReturnsNow("no_terrain_frontier")
     \/ errand.left > 0 /\ \E n \in 0..MaxLegs : Becomes([errand EXCEPT !.pc = "next", !.steps = n])

\* A path is followed to its end: the terrain skill is done, the exploration
\* plans again.
PathReached ==
  /\ errand.pc = "next" /\ errand.steps = 0
  /\ \/ Runs("terrain", "next") /\ ReturnsNow("completed")
     \/ Runs("terrain_explore", "next")
        /\ Becomes([errand EXCEPT !.pc = "plan", !.left = @ - 1, !.reached = @ + 1])

\* The next segment, unless the robot is lost or strayed too far from it.
TerrainNext ==
  /\ errand.steps > 0 /\ (Runs("terrain", "next") \/ Runs("terrain_explore", "next"))
  /\ Submit("goal_rejected") \/ ReturnsNow("terrain_stopped")

TerrainTerminal ==
  /\ Ended("terrain") \/ Ended("terrain_explore")
  /\ \/ Stops
     \/ /\ state.status = "succeeded"
        /\ Becomes([errand EXCEPT !.pc = "next", !.steps = @ - 1])

\* _observation_error, a time-out or a failing detector: too many in a row end
\* the approach.
VisualLost ==
  /\ Runs("visual", "next") /\ errand.left > 0
  /\ IF errand.idle = MaxLost THEN ReturnsNow("target_lost")
     ELSE Becomes([errand EXCEPT !.left = @ - 1, !.idle = @ + 1, !.reached = 0])

\* The target is where it should be: for the stable_frames-th time, or again.
VisualCentered ==
  /\ Runs("visual", "next") /\ errand.left > 0
  /\ \/ errand.reached > 0 /\ ReturnsNow("target_reached")
     \/ Becomes([errand EXCEPT !.left = @ - 1, !.idle = 0, !.reached = 1])

VisualNext ==
  /\ Runs("visual", "next")
  /\ \/ errand.left = 0 /\ ReturnsNow("max_iterations")
     \/ errand.left > 0 /\ ReturnsNow("invalid_visual_projection")
     \/ errand.left > 0 /\ Submit("navigation_rejected")

VisualTerminal ==
  /\ Ended("visual")
  /\ \/ Stops
     \/ /\ state.status = "succeeded"
        /\ Becomes([errand EXCEPT !.pc = "next", !.left = @ - 1, !.idle = 0, !.reached = 0])

-----------------------------------------------------------------------------
(* remember_room and find_object: here the wait has a deadline, and looks   *)
(* for the object in each round.                                           *)

\* Five turns, with a look after each.
RememberNext ==
  /\ Runs("remember", "next")
  /\ IF errand.left = 0 THEN ReturnsNow("remembered") ELSE Submit("leg_failed") \/ ReturnsNow("leg_failed")

\* The way to the room's anchor: one absolute goal on a persistent map, short
\* relative goals on a session's.
TravelNext ==
  /\ Runs("find", "next") /\ errand.phase = "travel" /\ errand.left > 0
  /\ \/ ReturnsNow("leg_failed")
     \/ Submit("leg_failed")
     \/ /\ client # "mapped"
        /\ Becomes([errand EXCEPT !.phase = "turn", !.steps = MaxLegs])

\* All rooms of the map have been looked at.
Exhausted ==
  /\ Runs("find", "next") /\ errand.left = 0 /\ errand.phase = "travel"
  /\ ReturnsNow("exhausted_current_map_memory")

\* _turn_to: the next heading of the room needs a turn or none; after the last
\* one the next room.
TurnNext ==
  /\ Runs("find", "next") /\ errand.phase = "turn"
  /\ IF errand.steps = 0 THEN Becomes([errand EXCEPT !.phase = "travel", !.left = @ - 1])
     ELSE Submit("leg_failed") \/ ReturnsNow("leg_failed") \/ Becomes([errand EXCEPT !.pc = "glance"])

\* The look at a heading, and in remember_room.
Glance ==
  /\ \/ Runs("find", "glance")
        /\ \/ Becomes([errand EXCEPT !.pc = "next", !.steps = @ - 1])
           \/ Becomes([errand EXCEPT !.pc = "next", !.phase = "face", !.steps = 1])
     \/ Runs("remember", "glance") /\ Becomes([errand EXCEPT !.pc = "next", !.left = @ - 1])

\* Looking may fail at any time; whatever the robot is doing goes on.
GlanceFails ==
  /\ Runs("find", "glance") \/ Runs("remember", "glance") \/ (Runs("find", "wait") /\ errand.phase = "travel")
  /\ ReturnsNow("provider_error")

\* _finish: turn to the object once it is found, and wave.
Face ==
  /\ Runs("find", "next") /\ errand.phase = "face"
  /\ \/ ReturnsNow("found")
     \/ errand.steps > 0 /\ (Submit("leg_failed") \/ ReturnsNow("leg_failed"))

\* Fault: the goal is left to itself.
FoundOnTheWay_Drives ==
  /\ Runs("find", "wait") /\ errand.phase = "travel"
  /\ Becomes([errand EXCEPT !.pc = "next", !.phase = "face", !.steps = 1])

\* _wait_goal: the object is in view, the goal is cancelled.
FoundOnTheWay ==
  /\ Runs("find", "wait") /\ errand.phase = "travel"
  /\ errand' = [errand EXCEPT !.pc = "next", !.phase = "face", !.steps = 1, !.late = FALSE]
  /\ Cancel
  /\ UNCHANGED goal

\* One more piece of the way.  The direct client comes as near as find_object asks, which
\* is 0.05 m, after MaxLegs of them; the native client calls 0.10 m reached, so that on a
\* session's map it may be asked for another piece each time.
OneMorePiece ==
  CASE client = "mapped" -> {}
    [] client = "native" -> {[errand EXCEPT !.pc = "next"]}
    [] OTHER -> IF errand.steps < MaxLegs THEN {[errand EXCEPT !.pc = "next", !.steps = @ + 1]} ELSE {}

\* A goal on the way ended at the room, or after one more piece of the way.
OnTheWay == {[errand EXCEPT !.pc = "next", !.phase = "turn", !.steps = MaxLegs]} \union OneMorePiece

\* Where an errand is once a goal has succeeded.
Arrived ==
  CASE errand.phase = "turn" \/ errand.kind = "remember" -> {[errand EXCEPT !.pc = "glance"]}
    [] errand.phase = "face"                             -> {[errand EXCEPT !.pc = "next", !.steps = 0]}
    [] OTHER                                             -> OnTheWay

SpatialWaits == Runs("find", "wait") \/ Runs("remember", "wait")

SpatialTerminal ==
  /\ SpatialWaits /\ Terminal
  /\ IF state.status = "succeeded" THEN \E e \in Arrived : Becomes(e) ELSE ReturnsNow("leg_failed")

\* The deadline of _wait_goal passes while the goal need not have ended.
DeadlinePasses ==
  /\ SpatialWaits /\ ~errand.late
  /\ Becomes([errand EXCEPT !.late = TRUE])

\* Fault: the deadline is looked at only while a goal is active.
SpatialTimesOut_WhileActive ==
  /\ SpatialWaits /\ errand.late /\ Goals!Active
  /\ Returns("timed_out") /\ Cancel
  /\ UNCHANGED goal

SpatialTimesOut ==
  /\ SpatialWaits /\ errand.late /\ ~Terminal
  /\ Returns("timed_out")
  /\ Cancel
  /\ UNCHANGED goal

-----------------------------------------------------------------------------
(* The client, others, and the service.                                    *)

GoalEnds ==
  /\ Goals!Active /\ \E ending \in Outcomes : Goals!End(ending)
  /\ UNCHANGED <<client, errand, goal, desk, service>>

\* The older of two goals is told of in place of the newer.
OtherEnds ==
  /\ ~Goals!Active /\ \E ending \in Outcomes : Goals!End(ending)
  /\ UNCHANGED <<client, errand, goal, desk, service>>

\* Only the direct client takes unavailable back.
SensorsReturn ==
  /\ client = "direct" /\ Goals!Recover
  /\ UNCHANGED <<client, errand, goal, desk, service>>

\* The dashboard's map goals, relative ones; they too may have waited since they looked.
DeskSets ==
  /\ service = "up" /\ desk > 0 /\ desk' = desk - 1
  /\ Goals!Begin(NewId)
  /\ UNCHANGED <<client, errand, goal, service>>

\* AgentService.stop: the background loop is asked to end, and given time.
StopAsked ==
  /\ service = "up" /\ service' = "waiting"
  /\ UNCHANGED <<client, state, alone, errand, goal, desk>>

\* The command is over, or it is cancelled at whatever await it is.
RunnerEnds ==
  /\ service = "waiting" /\ service' = "cancelling"
  /\ IF errand.pc = "done" THEN UNCHANGED errand
     ELSE Returns("cancelled_by_stop")
  /\ UNCHANGED <<client, state, alone, goal, desk>>

\* Fault: navigation is cancelled before the command is over.
GoalCancelled_First ==
  /\ service = "waiting" /\ service' = "down"
  /\ Cancel
  /\ UNCHANGED <<client, errand, goal, desk>>

\* "Motion producers must stop before navigation".
GoalCancelled ==
  /\ service = "cancelling" /\ service' = "down"
  /\ Cancel
  /\ UNCHANGED <<client, errand, goal, desk>>

-----------------------------------------------------------------------------
Act ==
  \/ PatrolNext \/ PatrolTerminal \/ FrontierNext \/ FrontierTerminal
  \/ TerrainPlan \/ PathReached \/ TerrainNext \/ TerrainTerminal
  \/ VisualLost \/ VisualCentered \/ VisualNext \/ VisualTerminal
  \/ RememberNext \/ TravelNext \/ Exhausted \/ TurnNext \/ Glance \/ GlanceFails \/ Face
  \/ FoundOnTheWay \/ SpatialTerminal \/ SpatialTimesOut

ErrandNext ==
  \/ Act \/ DeadlinePasses \/ GoalEnds \/ OtherEnds \/ SensorsReturn \/ DeskSets
  \/ StopAsked \/ RunnerEnds \/ GoalCancelled
=============================================================================
