------------------------------ MODULE SkillRun ------------------------------
(***************************************************************************)
(* One skill of a command, whichever it is, since the graph runs one at a  *)
(* time, or one of the two that a skill relies on: the planner that picked *)
(* it and the camera that explore may look through, with the relays that   *)
(* share its track.  Nothing above a skill has a timeout (graph, runtime   *)
(* and service loop wait for it): it must come to its end by itself.       *)
(***************************************************************************)
EXTENDS Exploration, Errands, Planning, Camera, MediaRelay

VARIABLE runs   \* which of the two families of skills the command called, or planner, camera or relays

vars == <<exploreVars, errandVars, planningVars, cameraVars, relayVars, runs>>

BySegments(step) ==
  runs = "segments" /\ step /\ UNCHANGED <<errandVars, planningVars, cameraVars, relayVars, runs>>
ByGoals(step) ==
  runs = "goals" /\ step /\ UNCHANGED <<exploreVars, planningVars, cameraVars, relayVars, runs>>
ByPlanner(step) ==
  runs = "planner" /\ step /\ UNCHANGED <<exploreVars, errandVars, cameraVars, relayVars, runs>>
ByCamera(step) ==
  runs = "camera" /\ step /\ UNCHANGED <<exploreVars, errandVars, planningVars, relayVars, runs>>
ByRelays(step) ==
  runs = "relays" /\ step /\ UNCHANGED <<exploreVars, errandVars, planningVars, cameraVars, runs>>

\* What is not looked at stays as it is.
Init ==
  /\ ExploreInit /\ ErrandInit /\ PlanningInit /\ CameraInit /\ RelayInit
  /\ runs \in {"segments", "goals", "planner", "camera", "relays"}
  /\ runs # "segments" => skill = CHOOSE s \in MoveSkills : TRUE
  /\ runs # "goals" => /\ client = CHOOSE c \in Clients : TRUE
                       /\ errand.left = 0 /\ errand.kind = "find"
  /\ runs # "planner" => llm = "mock"
  /\ runs # "relays" => mode = CHOOSE m \in MediaModes : TRUE

Next ==
  \/ BySegments(ExploreNext) \/ ByGoals(ErrandNext) \/ ByPlanner(PlanningNext)
  \/ ByCamera(CameraNext) \/ ByRelays(RelayNext)

\* A skill that can go on does, an active goal ends (GoalEnds of
\* LocalNavigation), and deadlines pass.
Fairness ==
  /\ WF_vars(BySegments(ExploreNext))
  /\ WF_vars(ByGoals(Act)) /\ WF_vars(ByGoals(GoalEnds)) /\ WF_vars(ByGoals(DeadlinePasses))
  /\ PlanningFairness /\ CameraFairness /\ RelayFairness

Spec == Init /\ [][Next]_vars
FairSpec == Spec /\ Fairness

-----------------------------------------------------------------------------
\* "stop immediately on detection" and its like: a skill that has returned has left no goal
\* of its own active, but for two ways to return: cancelled with its command, and, for
\* find_object, an exception on the way (a look that raises does not cancel the goal).
ReturnsIdle ==
  errand.pc = "done" /\ errand.verdict # "cancelled_by_stop" /\ state.goal = goal =>
    ~Goals!Active \/ (errand.kind = "find" /\ errand.verdict = "provider_error")

\* "Motion producers must stop before navigation": once the service is down no
\* goal is active, whatever the skill was about to do.
DownIsIdle == service = "down" => ~Goals!Active

\* Neither a skill nor a shutdown leaves the robot on its way.
NoGoalLeftBehind == ReturnsIdle /\ DownIsIdle

\* Peers and relays of the camera are as many as there should be.
MediaIsCounted == OpenPeersAreKnown /\ OneRelayPerTrack

\* Pictures come while somebody asks for them, speech comes in order and in time.
MediaFollows == TapFollowsPolls /\ RelayFollows /\ VoiceIsRecent

\* find_object of the native client on a session's map, on the way to a room.
OnSessionMap == client = "native" /\ errand.kind = "find" /\ errand.phase = "travel"

\* Every skill returns, and so does the planner's wait for the model; but find_object may
\* run on for ever on a session's map, setting one goal after the other to come nearer.
SkillReturns ==
  /\ runs = "segments" => <>(pc = "done")
  /\ runs = "goals" =>
       \/ <>(errand.pc = "done")
       \/ []<>(OnSessionMap /\ errand.pc = "next") /\ []<>(OnSessionMap /\ errand.pc = "wait")
  /\ PlanningEnds
=============================================================================
