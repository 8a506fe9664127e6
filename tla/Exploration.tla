----------------------------- MODULE Exploration -----------------------------
(***************************************************************************)
(* The skills that move the robot by bounded drive segments without a      *)
(* navigation client: explore, on the mock and on the Go2, and nudge,      *)
(* scan, retreat and go2_local_nav.  A segment is one UnitreeRobot.drive;  *)
(* a reading of the sensors ages while the robot moves and while the       *)
(* vision model is asked.                                                  *)
(***************************************************************************)
EXTENDS Naturals, SequencesExt

CONSTANTS
  MoveSkills,     \* the skills a command may name
  MaxSteps,       \* ExploreParams.max_steps
  TurnSegments,   \* drive segments of a scan or of an alternative turn
  MoveSegments,   \* drive segments of a nudge or a retreat
  MaxAge,         \* unitree_state_max_age_seconds, in segments
  MaxNoGain,      \* explore_no_progress_steps
  MaxHolds,       \* explore_max_holds
  PingPong        \* explore_ping_pong_steps

ASSUME ExplorationAssumption ==
  /\ MoveSkills \subseteq {"explore", "mock_explore", "nudge", "scan", "retreat", "local_nav"}
  /\ {MaxSteps, TurnSegments, MoveSegments, MaxNoGain, MaxHolds, PingPong} \subseteq Nat \ {0}
  /\ MaxAge \in Nat

VARIABLES
  skill,    \* the skill that runs
  pc,       \* the await it stands at
  leg,      \* run_go2_drive_segments: what is driven, and how many segments are left
  sensor,   \* the transport's newest state: its age, and the turning since it arrived
  belief,   \* world.robot_self_state: what it says of the front, and the turning since it was read
  hint,     \* the vision model's usable recommendation for this step
  alt,      \* the alternative direction of this step
  guard,    \* _ExploreGuard
  trace,    \* the completed steps
  outcome   \* stop_reason

exploreVars == <<skill, pc, leg, sensor, belief, hint, alt, guard, trace, outcome>>

NoLeg == [move |-> "none", left |-> 0]
Unread == [front |-> "unread", turned |-> 0]
Turns == {"scan", "turn"}
Explores == skill \in {"explore", "mock_explore"}

ExploreInit ==
  /\ skill \in MoveSkills
  /\ pc = IF Explores THEN "poll" ELSE "start"
  /\ leg = NoLeg
  /\ sensor = [age |-> 0, turned |-> 0]
  /\ belief = Unread
  /\ hint = "none" /\ alt = "none"
  /\ guard = [noProgress |-> 0, holds |-> 0, alts |-> <<>>]
  /\ trace = <<>>
  /\ outcome = "running"

Stop(reason) == pc' = "done" /\ outcome' = reason /\ leg' = NoLeg

\* Time passes: a state arrives, or the last one gets older.
SensorsAge ==
  sensor' \in {[age |-> 0, turned |-> 0],
               [sensor EXCEPT !.age = IF @ > MaxAge THEN @ ELSE @ + 1]}

-----------------------------------------------------------------------------
(* The sensors, as the skill sees them.                                    *)

\* UnitreePerceptionAdapter.observe: the newest state, however old; a failed
\* read leaves a self state without sonar.  A value of 0 is no reading.
Readings == {[front |-> f, turned |-> sensor.turned] : f \in {"far", "near", "boxed", "none"}} \union {Unread}

\* _poll_perception.  It would swallow a failure and keep the old belief, but
\* the adapter does not raise: it degrades.
Poll == belief' \in Readings

\* check_stop_conditions and check_robot_self_state on what was just polled:
\* battery, emergency stop, error, posture, time, and the age of the state,
\* which a degraded reading does not have.
MayStep == belief' = Unread \/ sensor.age <= MaxAge
StopReasons == {"max_duration", "low_battery", "estop", "robot_error", "precondition"}

IsObstacleFront(b) == b.front # "far"
IsAllBlocked(b) == b.front = "boxed"

\* analyze_if_due with _hint_usable: not due, no frame, an error or too little
\* confidence all mean no hint.
Hints == {"none", "left", "right", "forward", "stop"}
ShouldNudge(h) == h # "stop"

\* _choose_alt_turn: the hint, then the freer side, then left without a name.
AltDirs(h) == IF h \in {"left", "right"} THEN {h} ELSE {"left", "right", "none"}

-----------------------------------------------------------------------------
(* Driving.                                                                *)

GoOn == CASE leg.move = "scan"  -> "look"
          [] leg.move = "turn"  -> "relook"
          [] OTHER              -> "review"

\* assert_drive_preconditions: the state is fresh enough at this segment.
Gate == sensor.age <= MaxAge

Turned(r) == [r EXCEPT !.turned = IF leg.move \in Turns THEN @ + 1 ELSE @]

\* One segment of run_go2_drive_segments.  A drive that a stop cut short counts
\* as driven.
Segment ==
  /\ pc = "drive" /\ skill # "mock_explore" /\ Gate
  /\ belief' = Turned(belief)
  /\ sensor' \in {[age |-> 0, turned |-> 0],
                  [Turned(sensor) EXCEPT !.age = @ + 1]}
  /\ IF leg.left > 1 THEN leg' = [leg EXCEPT !.left = @ - 1] /\ UNCHANGED pc
     ELSE leg' = [leg EXCEPT !.left = 0] /\ pc' = GoOn
  /\ UNCHANGED <<skill, hint, alt, guard, trace, outcome>>

\* The gate, the transport or the check that the robot stands raises.
SegmentFails ==
  /\ pc = "drive" /\ skill # "mock_explore"
  /\ Stop("drive_error")
  /\ UNCHANGED <<skill, sensor, belief, hint, alt, guard, trace>>

\* The mock turns and moves in one call, and its perception has no age.
MockDrive ==
  /\ pc = "drive" /\ skill = "mock_explore"
  /\ belief' = Turned(belief)
  /\ leg' = [leg EXCEPT !.left = 0] /\ pc' = GoOn
  /\ UNCHANGED <<skill, sensor, hint, alt, guard, trace, outcome>>

Drive(move, n) == leg' = [move |-> move, left |-> n] /\ pc' = "drive"

-----------------------------------------------------------------------------
(* One step of explore.                                                    *)

StepEnds(reason) ==
  /\ pc = "poll" /\ Poll /\ Stop(reason)
  /\ UNCHANGED <<skill, sensor, hint, alt, guard, trace>>

\* The range of the loop is used up.
LoopEnds ==
  /\ pc = "poll" /\ Len(trace) = MaxSteps /\ Stop("max_steps")
  /\ UNCHANGED <<skill, sensor, belief, hint, alt, guard, trace>>

StepRefused ==
  /\ Len(trace) < MaxSteps
  /\ \/ \E reason \in StopReasons : (reason = "precondition" => skill = "explore") /\ StepEnds(reason)
     \/ StepEnds("stale_state") /\ ~MayStep

\* Poll, check, and turn by scan_degrees.
StepScans ==
  /\ pc = "poll" /\ Len(trace) < MaxSteps
  /\ Poll /\ MayStep /\ Drive("scan", TurnSegments)
  /\ UNCHANGED <<skill, sensor, hint, alt, guard, trace, outcome>>

\* Fault: the step decides on what it saw before it turned.
Look_Skipped ==
  /\ pc = "look" /\ pc' = "decide"
  /\ UNCHANGED <<skill, leg, sensor, belief, hint, alt, guard, trace, outcome>>

\* "orientation changed": poll again.
Look ==
  /\ pc = "look" /\ Poll
  /\ pc' = "decide"
  /\ UNCHANGED <<skill, leg, sensor, hint, alt, guard, trace, outcome>>

Chooses(action) == leg' = [move |-> action, left |-> 0] /\ pc' = "review"

\* The hint is awaited while the stream goes on; then the step decides on what
\* it polled before the hint.
Decide ==
  /\ pc = "decide" /\ SensorsAge
  /\ hint' \in Hints
  /\ \/ ~IsObstacleFront(belief) /\ ShouldNudge(hint') /\ Drive("nudge", MoveSegments) /\ UNCHANGED <<alt, outcome>>
     \/ ~IsObstacleFront(belief) /\ ~ShouldNudge(hint') /\ Chooses("vlm_hold") /\ UNCHANGED <<alt, outcome>>
     \/ IsAllBlocked(belief) /\ Stop("blocked") /\ UNCHANGED alt
     \/ /\ IsObstacleFront(belief) /\ ~IsAllBlocked(belief)
        /\ alt' \in AltDirs(hint') /\ Drive("turn", TurnSegments)
        /\ UNCHANGED outcome
  /\ UNCHANGED <<skill, belief, guard, trace>>

\* After the alternative turn: poll, then back off from what is still in front
\* (or unknown), go forward, or hold.
Redecide ==
  /\ pc = "relook" /\ Poll
  /\ \/ IsObstacleFront(belief') /\ Drive("retreat", MoveSegments)
     \/ ~IsObstacleFront(belief') /\ ShouldNudge(hint) /\ Drive("nudge", MoveSegments)
     \/ ~IsObstacleFront(belief') /\ ~ShouldNudge(hint) /\ Chooses("vlm_hold")
  /\ UNCHANGED <<skill, sensor, hint, alt, guard, trace, outcome>>

-----------------------------------------------------------------------------
(* The guard against aimless exploring.                                    *)

Recent(s, n) == SubSeq(s, Len(s) - n + 1, Len(s))

IsPingPong(dirs) ==
  /\ Len(dirs) >= PingPong
  /\ LET recent == Recent(dirs, PingPong) IN \A i \in 2..PingPong : recent[i] # recent[i - 1]

\* Fault: progress does not reset the count.
Updated_NoReset(action, progress) ==
  [noProgress |-> IF progress THEN guard.noProgress ELSE guard.noProgress + 1,
   holds      |-> IF action = "vlm_hold" THEN guard.holds + 1 ELSE 0,
   alts       |-> IF alt = "none" THEN guard.alts ELSE Append(guard.alts, alt)]

\* _ExploreGuard.update
Updated(action, progress) ==
  [noProgress |-> IF progress THEN 0 ELSE guard.noProgress + 1,
   holds      |-> IF ~progress /\ action = "vlm_hold" THEN guard.holds + 1 ELSE 0,
   alts       |-> IF alt = "none" THEN guard.alts ELSE Append(guard.alts, alt)]

Verdict(g) == IF g.holds >= MaxHolds THEN "semantic_hold"
              ELSE IF g.noProgress >= MaxNoGain THEN "no_progress"
              ELSE IF IsPingPong(g.alts) THEN "ping_pong" ELSE "running"

\* _progress_from_delta: only a nudge can make progress, by the odometry where
\* there is one before and after.
Progress(action) == IF action = "nudge" THEN BOOLEAN ELSE {FALSE}

\* The closing poll is for the odometry: what it says of the front is polled
\* again before it is used.
Review ==
  /\ pc = "review" /\ Explores /\ belief' = Unread
  /\ \E progress \in Progress(leg.move) :
       /\ guard' = Updated(leg.move, progress)
       /\ trace' = Append(trace, [action |-> leg.move, alt |-> alt, progress |-> progress])
  /\ IF Verdict(guard') = "running" THEN pc' = "poll" /\ leg' = NoLeg /\ UNCHANGED outcome
     ELSE Stop(Verdict(guard'))
  /\ hint' = "none" /\ alt' = "none"
  /\ UNCHANGED <<skill, sensor>>

-----------------------------------------------------------------------------
(* The other Go2 skills.  The world they check may be as old as the last   *)
(* command's look at it.                                                   *)

\* _Go2Skill.execute: wrong robot, or the self state forbids motion.
Rejected ==
  /\ pc = "start" /\ Stop("rejected")
  /\ UNCHANGED <<skill, sensor, belief, hint, alt, guard, trace>>

Begins(name) == pc = "start" /\ skill = name /\ UNCHANGED <<skill, sensor, hint, alt, guard, trace, outcome>>

Nudge == Begins("nudge") /\ (\E way \in {"ahead", "back", "aside"} : Drive(way, MoveSegments)) /\ UNCHANGED belief

Scan == Begins("scan") /\ Drive("yaw", TurnSegments) /\ UNCHANGED belief

Retreat == Begins("retreat") /\ Drive("back", MoveSegments) /\ UNCHANGED belief

\* go2_local_nav asks the world before it polls, and takes no reading for a
\* free way; then it moves and turns.
LocalNavBlocked ==
  /\ pc = "start" /\ skill = "local_nav" /\ Stop("front_obstacle")
  /\ UNCHANGED <<skill, sensor, belief, hint, alt, guard, trace>>

LocalNav ==
  /\ Begins("local_nav") /\ Poll
  /\ \E way \in {"ahead", "back", "aside", "yaw"} : Drive(way, MoveSegments)

LocalNavTurns ==
  /\ pc = "review" /\ skill = "local_nav" /\ leg.move # "yaw"
  /\ Drive("yaw", TurnSegments)
  /\ UNCHANGED <<skill, sensor, belief, hint, alt, guard, trace, outcome>>

\* The last leg is driven, or there was nothing to drive.
Completed ==
  /\ ~Explores /\ (pc = "review" \/ (pc = "start" /\ skill \in {"scan", "local_nav"}))
  /\ IF skill = "local_nav" THEN Poll ELSE UNCHANGED belief
  /\ Stop("completed")
  /\ UNCHANGED <<skill, sensor, hint, alt, guard, trace>>

-----------------------------------------------------------------------------
ExploreNext ==
  \/ StepRefused \/ LoopEnds \/ StepScans \/ Look \/ Decide \/ Redecide \/ Review
  \/ Segment \/ SegmentFails \/ MockDrive
  \/ Rejected \/ Nudge \/ Scan \/ Retreat \/ LocalNavBlocked \/ LocalNav \/ LocalNavTurns \/ Completed

-----------------------------------------------------------------------------
\* "the conservative policy is to NOT move forward without sensor
\* confirmation": a segment that takes explore forward follows a reading that
\* says the way is free, and between that reading and the drive the robot has
\* turned no further than a state may be old.
ForwardIsSensed ==
  pc = "drive" /\ leg.move = "nudge" => belief.front = "far" /\ belief.turned <= MaxAge + 1

\* What the guard is for, said of the record of steps instead of its counters:
\* explore gives up after the step, and only after a step, that makes the last
\* steps all holds, or all without progress, or its turns alternate.
Aimless(steps) ==
  LET Lately(n, P(_)) == Len(steps) >= n /\ \A i \in Len(steps) - n + 1 .. Len(steps) : P(steps[i])
      turns == {i \in DOMAIN steps : steps[i].alt # "none"}
      Since(i) == Cardinality({j \in turns : j >= i})
  IN \/ Lately(MaxHolds, LAMBDA s : s.action = "vlm_hold")
     \/ Lately(MaxNoGain, LAMBDA s : ~s.progress)
     \/ /\ Cardinality(turns) >= PingPong
        /\ \A i, j \in turns :
             i < j /\ Since(i) <= PingPong /\ (\A k \in turns : k <= i \/ j <= k)
               => steps[i].alt # steps[j].alt

AimlessStops == Aimless(trace) <=> outcome \in {"semantic_hold", "no_progress", "ping_pong"}
=============================================================================
