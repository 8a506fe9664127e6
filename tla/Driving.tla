------------------------------- MODULE Driving --------------------------------
(***************************************************************************)
(* The robot in motion, from one side at a time: what it reports and who   *)
(* drives on that, the streams by which it is driven, or the operators who *)
(* hold the one motion lease.                                              *)
(***************************************************************************)
EXTENDS Telemetry, MotionStream, TeleopSession

VARIABLE part \* telemetry, streams or operators

drivingVars == <<part, telemetryVars, streamVars, teleopVars>>

DrivingInit ==
  /\ part \in {"telemetry", "streams", "operators"}
  /\ TelemetryInit /\ StreamInit /\ TeleopInit
  /\ part # "telemetry" => transport = "webrtc"

ByTelemetry(step) == part = "telemetry" /\ step /\ UNCHANGED <<part, streamVars, teleopVars>>
ByStreams(step) == part = "streams" /\ step /\ UNCHANGED <<part, telemetryVars, teleopVars>>
ByOperators(step) == part = "operators" /\ step /\ UNCHANGED <<part, telemetryVars, streamVars>>

DrivingNext == ByTelemetry(TelemetryNext) \/ ByStreams(StreamNext) \/ ByOperators(TeleopNext)

DrivingSpec == DrivingInit /\ [][DrivingNext]_drivingVars
=============================================================================
