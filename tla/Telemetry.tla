------------------------------ MODULE Telemetry -------------------------------
(***************************************************************************)
(* What the robot reports, and who acts on it.  Callbacks on the           *)
(* connection's thread keep the newest sport state and the newest low      *)
(* state, until the transport is disconnected.  read_state waits           *)
(* for the first sport state only.  A skill's command reads twice to       *)
(* observe (the battery from the first, the rest and its age from the      *)
(* second), decides, and drives in segments; teleoperation drives in       *)
(* chunks.  Every drive reads once more before it starts, and a skill's    *)
(* polls after it.                                                         *)
(***************************************************************************)
EXTENDS Naturals

CONSTANTS
  MaxAge,    \* unitree_state_max_age_seconds, in ticks
  IdleWait,  \* the ten seconds an older stream has to end, in ticks
  MaxDrive   \* the longest segment or chunk, in ticks

ASSUME TelemetryAssumption == {MaxAge, IdleWait, MaxDrive} \subseteq Nat

VARIABLES
  transport, \* webrtc, or the read-only sdk
  online,    \* _connected
  sport,     \* _last_sport_state
  low,       \* _last_low_state: what it says of the battery
  age,       \* ticks since _last_sport_state_mono
  silence,   \* history: ticks since the robot's last sport state
  actor      \* the command of a skill, and the drive loop of teleoperation

telemetryVars == <<transport, online, sport, low, age, silence, actor>>

Actors == {"skill", "teleop"}
Long == MaxAge + IdleWait + MaxDrive + 1  \* bound of the clocks: any later is the same

\* Modes that allow a drive, with or without speed; lying down, joints locked or
\* damped; and a state whose fields do not parse.
Reports == {"still", "moving", "down", "broken"}
Standing == {"still", "moving"}

\* for: the caller of the read.  battery, report: what was read.  left: ticks of
\* the lease or of the drive.  tries: sleeps of read_state.
Resting == [step |-> "idle", for |-> "battery", tries |-> 0, kept |-> "none",
            battery |-> "full", report |-> "none", left |-> 0]

TelemetryTypeOK ==
  /\ transport \in {"webrtc", "sdk"} /\ online \in BOOLEAN
  /\ sport \in Reports \union {"none"} /\ low \in {"none", "full", "low"}
  /\ age \in 0..Long /\ silence \in 0..Long
  /\ actor \in [Actors ->
       [step: {"idle", "read", "wait", "age", "lease", "drive", "verify"},
        for: {"battery", "self", "check"}, tries: 0..3, kept: {"none", "full", "low"},
        battery: {"full", "low"}, report: Reports \union {"none"},
        left: 0..IdleWait + MaxDrive]]

TelemetryInit ==
  /\ transport \in {"webrtc", "sdk"} /\ online = FALSE
  /\ sport = "none" /\ low = "none" /\ age = Long /\ silence = Long
  /\ actor = [a \in Actors |-> Resting]

Becomes(a, fields) == actor' = [actor EXCEPT ![a] = [f \in DOMAIN @ |->
                                 IF f \in DOMAIN fields THEN fields[f] ELSE @[f]]]
Rests(a) == Becomes(a, Resting)

-----------------------------------------------------------------------------
(* The connection and its callbacks.                                       *)

Opens ==
  /\ ~online /\ online' = TRUE
  /\ UNCHANGED <<transport, sport, low, age, silence, actor>>

\* disconnect: WebRTC halts the robot first, and both forget the states that they have.
Closes ==
  /\ online /\ online' = FALSE
  /\ sport' = "none" /\ low' = "none"
  /\ actor' = [a \in Actors |-> IF actor[a].step \in {"lease", "drive"} THEN Resting ELSE actor[a]]
  /\ UNCHANGED <<transport, age, silence>>

\* Fault: the answer to a sport request, which comes on the same topic, is kept as a state.
OnSportState_AnyPayload(payload) ==
  /\ sport' = IF payload = "answer" THEN sport ELSE payload
  /\ age' = 0

OnSportState(payload) ==
  IF payload = "answer" THEN UNCHANGED <<sport, age>> ELSE sport' = payload /\ age' = 0

SportArrives ==
  /\ online
  /\ \E payload \in Reports \union {"answer"} :
       /\ OnSportState(payload)
       /\ silence' = IF payload = "answer" THEN silence ELSE 0
  /\ UNCHANGED <<transport, online, low, actor>>

OnLowState ==
  /\ online
  /\ low' \in {"full", "low"}
  /\ UNCHANGED <<transport, online, sport, age, silence, actor>>

\* No wait is longer than its timeout.
TimePasses ==
  /\ \A a \in Actors : actor[a].step \in {"lease", "drive"} => actor[a].left > 0
  /\ \A a \in Actors : actor[a].step # "age"
  /\ silence < Long \/ \E a \in Actors : actor[a].left > 0
  /\ LET Older(n) == IF n = Long THEN Long ELSE n + 1
     IN age' = Older(age) /\ silence' = Older(silence)
  /\ actor' = [a \in Actors |-> IF actor[a].left > 0 THEN [actor[a] EXCEPT !.left = @ - 1]
                                                     ELSE actor[a]]
  /\ UNCHANGED <<transport, online, sport, low>>

-----------------------------------------------------------------------------
(* read_state                                                              *)

Sleeps == IF transport = "sdk" THEN 1 ELSE 3

\* _map_state: the battery is full when the low state has none, or the state does not parse.
BatteryOf(state, voltage) == IF state # "broken" /\ voltage = "low" THEN "low" ELSE "full"

Got(a, voltage) ==
  IF actor[a].for = "battery"
  THEN Becomes(a, [Resting EXCEPT !.step = "read", !.for = "self", !.battery = BatteryOf(sport, voltage)])
  ELSE Becomes(a, [step |-> "age", report |-> sport, tries |-> 0])

\* Fault: a drive goes ahead without the state it could not read.
Raised_GoesAhead(a) ==
  CASE actor[a].for = "battery" -> Becomes(a, [Resting EXCEPT !.step = "read", !.for = "self"])
    [] actor[a].for = "self"    -> Becomes(a, [step |-> "read", for |-> "check", tries |-> 0])
    [] OTHER                    -> Becomes(a, [step |-> "lease", left |-> IdleWait, tries |-> 0])

\* get_state answers with a full battery, an observation with nothing known of
\* the posture, which no reflex and no skill objects to; a drive is refused.
Raised(a) ==
  CASE actor[a].for = "battery" -> Becomes(a, [Resting EXCEPT !.step = "read", !.for = "self"])
    [] actor[a].for = "self" /\ transport = "webrtc" /\ actor[a].battery # "low"
                                -> Becomes(a, [step |-> "read", for |-> "check", tries |-> 0])
    [] OTHER                    -> Rests(a)

ReadState(a) ==
  /\ actor[a].step = "read"
  /\ CASE ~online                    -> Raised(a)
       [] online /\ sport # "none"   -> Got(a, low)
       [] OTHER                         -> Becomes(a, [step |-> "wait", tries |-> 1, kept |-> low])

\* A sleep is over: the WebRTC transport reads both states again, the SDK one of them.
Wakes(a) ==
  /\ actor[a].step = "wait"
  /\ CASE sport # "none"           -> Got(a, IF transport = "sdk" THEN actor[a].kept ELSE low)
       [] sport = "none" /\ actor[a].tries < Sleeps -> Becomes(a, [tries |-> actor[a].tries + 1])
       [] OTHER                    -> Raised(a)

-----------------------------------------------------------------------------
(* A command, and a drive.                                                 *)

Observe ==
  /\ actor["skill"].step = "idle"
  /\ Becomes("skill", [Resting EXCEPT !.step = "read"])

\* A chunk of the drive loop.
StreamHold ==
  /\ actor["teleop"].step = "idle" /\ transport = "webrtc"
  /\ Becomes("teleop", [Resting EXCEPT !.step = "read", !.for = "check"])

\* The age is read after the state, while the callbacks go on: it may be that of
\* a newer state, but no tick is long enough to pass between.  The reflexes and check_robot_self_state let a command drive.
Aged(a) ==
  /\ actor[a].step = "age" /\ actor[a].for = "self"
  /\ \/ /\ age <= MaxAge /\ actor[a].report \in Standing /\ actor[a].battery # "low"
        /\ transport = "webrtc"
        /\ Becomes(a, [step |-> "read", for |-> "check", report |-> "none"])
     \/ Rests(a)

\* Fault: the posture is checked, but not how old the state is.
AssertDrivePreconditions_Ageless(a) ==
  /\ actor[a].step = "age" /\ actor[a].for = "check"
  /\ IF actor[a].report \in Standing
     THEN Becomes(a, [step |-> "lease", left |-> IdleWait])
     ELSE Rests(a)

AssertDrivePreconditions(a) ==
  /\ actor[a].step = "age" /\ actor[a].for = "check"
  /\ IF age <= MaxAge /\ actor[a].report \in Standing
     THEN Becomes(a, [step |-> "lease", left |-> IdleWait])
     ELSE Rests(a)

\* The motion lease is free: this stream begins, and an older one has ended.
Drives(a) ==
  /\ actor[a].step = "lease"
  /\ actor' = [b \in Actors |->
       IF b = a THEN [actor[a] EXCEPT !.step = "drive", !.left = MaxDrive]
       ELSE IF actor[b].step # "drive" THEN actor[b]
       ELSE IF b = "skill" THEN [actor[b] EXCEPT !.step = "verify", !.left = 0]
       ELSE Resting]

\* By its duration, a stop, the watchdog; or with an error, which ends the skill.
DriveEnds(a) ==
  /\ actor[a].step = "drive"
  /\ \/ a = "skill" /\ Becomes(a, [step |-> "verify", left |-> 0])
     \/ Rests(a)

\* verify_stopped_after_drive, and the next segment if there is one.
VerifyStopped(a) ==
  /\ actor[a].step = "verify"
  /\ \/ online /\ sport # "moving"
        /\ Becomes(a, [step |-> "read", for |-> "check", report |-> "none"])
     \/ Rests(a)

ActorSteps(a) ==
  /\ \/ ReadState(a) \/ Wakes(a) \/ Aged(a) \/ AssertDrivePreconditions(a)
     \/ Drives(a) \/ DriveEnds(a) \/ VerifyStopped(a)
  /\ UNCHANGED <<transport, online, sport, low, age, silence>>

CommandBegins ==
  /\ Observe \/ StreamHold
  /\ UNCHANGED <<transport, online, sport, low, age, silence>>

TelemetryNext ==
  \/ Opens \/ Closes \/ SportArrives \/ OnLowState \/ TimePasses
  \/ CommandBegins \/ \E a \in Actors : ActorSteps(a)

TelemetrySpec == TelemetryInit /\ [][TelemetryNext]_telemetryVars

-----------------------------------------------------------------------------
\* "robot not ready for drive", "stale robot state": whoever drives, the robot
\* was reported standing, and it drives blindly, without a word of it, for no
\* longer than the age allowed, the wait for the lease and one segment together.
DrivesOnRecentWord ==
  \A a \in Actors : actor[a].step = "drive" =>
    /\ actor[a].report \in Standing
    /\ silence <= MaxAge + IdleWait + MaxDrive - actor[a].left
=============================================================================
