----------------------------- MODULE DrivingProofs -----------------------------
(***************************************************************************)
(* Proofs about TeleopSession for any clients, operators and times: the    *)
(* lock is never held for long, nobody's motion outlives its setpoint, the *)
(* robot moves for the holder of the lease only, and manual control or a   *)
(* posture leaves no goal active that it was to replace.  At the end what  *)
(* Driving promises with it, from what MotionStreamProofs and              *)
(* TelemetryProofs say of the streams and of the robot's reports.          *)
(***************************************************************************)
EXTENDS Driving, TelemetryProofs, MotionStreamProofs

\* Who holds the lock waits inside it, and only there.
LockInv ==
  /\ \A c \in Clients : call[c].pc \in {"sonar", "await"} => lock = c
  /\ lock # NoOne => call[lock].pc \in {"sonar", "await"}
  /\ \A c \in Clients : call[c].pc = "await" => loop.pc \in {"none", "releasing"}

\* Ids are granted in order: the lease that stands is the newest, or none does.
LeaseInv ==
  /\ lease.id \in {0, granted} /\ lease.goal <= nav.goal
  /\ lease.id = 0 => lease = NoLease /\ ~setpoint.moving
  /\ \A o \in Operators : known[o] <= granted
  /\ \A c \in Clients : call[c].id <= granted /\ (call[c].pc = "sonar" => lease.id # 0)
  /\ loop.id <= granted /\ (loop.pc # "none" => loop.id # 0)

\* A setpoint that still counts is the holder's, and the lease outlives it.
SetpointInv ==
  setpoint.moving /\ ~Stale =>
    setpoint.by = lease.operator /\ setpoint.age + lease.left >= Ttl

\* Without a loop the robot moves for no operator, unless a halt is on its way.
WheelsInv ==
  /\ DeadmanHolds
  /\ Driven /\ loop.pc = "none" => \E c \in Clients : call[c].pc = "await"

\* Whoever may write a setpoint, or drives already, has seen navigation preempted.
NavInv ==
  /\ \/ lease.id # 0 /\ \E o \in Operators : known[o] = lease.id
     \/ \E c \in Clients : call[c].pc = "sonar"
     \/ loop.pc \in {"top", "hold"} /\ loop.id = lease.id
  => (nav.status = "active" => nav.goal > lease.goal)

\* A posture that is past its release: the lease and the goal it found are gone,
\* the goal as soon as it is canceled.
PostureInv ==
  \A c \in Clients : call[c].op = "posture" /\ call[c].pc \in {"cancel", "publish"} =>
    /\ call[c].goal <= nav.goal
    /\ lease.id = 0 \/ lease.id > call[c].id
    /\ call[c].pc = "publish" /\ nav.status = "active" => nav.goal > call[c].goal

TeleopInv ==
  TeleopTypeOK /\ LockInv /\ LeaseInv /\ SetpointInv /\ WheelsInv /\ NavInv /\ PostureInv
-----------------------------------------------------------------------------
LeaseType == [id: 0..MaxLeases, operator: Operators \union {NoOne}, left: 0..Ttl, goal: 0..MaxGoals]
SetpointType == [moving: BOOLEAN, age: 0..Old, by: Operators \union {NoOne}]
LoopType == [pc: {"none", "top", "hold", "releasing"}, id: 0..MaxLeases, left: 0..Chunk]
WheelsType == [moving: BOOLEAN, by: Operators \union {NoOne, Nav}, age: 0..Old]
CallType == [op: {"none", "acquire", "set", "release", "estop", "posture"},
             pc: {"none", "state", "cancel", "failed", "stop", "sonar", "await", "nav", "publish"},
             id: 0..MaxLeases, age: 0..Old, goal: 0..MaxGoals]
NavType == [status: {"idle", "active", "ended", "canceled"}, goal: 0..MaxGoals]

\* The parts of the type invariant, as the other lemmas use them.
LEMMA Types ==
  TeleopTypeOK <=>
    /\ lease \in LeaseType /\ granted \in 0..MaxLeases /\ known \in [Operators -> 0..MaxLeases]
    /\ setpoint \in SetpointType /\ loop \in LoopType /\ wheels \in WheelsType
    /\ lock \in Clients \union {NoOne} /\ call \in [Clients -> CallType] /\ nav \in NavType
BY DEF TeleopTypeOK, LeaseType, SetpointType, LoopType, WheelsType, CallType, NavType

\* What the assumption says of the constants.
LEMMA Numbers ==
  /\ Deadman \in Nat /\ Chunk \in Nat \ {0} /\ MaxLeases \in Nat /\ MaxGoals \in Nat
  /\ Ttl \in Nat /\ Ttl > Deadman + 1 /\ Old = Deadman + 2 /\ Old \in Nat
  /\ NoOne \notin Operators /\ NoOne \notin Clients /\ Nav \notin Operators
  /\ \A c \in Clients : OperatorOf[c] \in Operators
BY TeleopAssumption DEF Old, Operators

\* What the variables start with has their types.
LEMMA Constants ==
  /\ NoLease \in LeaseType /\ NoLease.id = 0 /\ NoLease.goal = 0 /\ NoLease.operator = NoOne
  /\ NoSetpoint \in SetpointType /\ ~NoSetpoint.moving
  /\ NoLoop \in LoopType /\ NoLoop.pc = "none" /\ NoLoop.id = 0
  /\ Still \in WheelsType /\ ~Still.moving
  /\ NoCall \in CallType /\ NoCall.op = "none" /\ NoCall.pc = "none" /\ NoCall.id = 0
<1>1. NoLease \in LeaseType /\ NoLease.id = 0 /\ NoLease.goal = 0 /\ NoLease.operator = NoOne
  BY Numbers DEF NoLease, LeaseType
<1>2. NoSetpoint \in SetpointType /\ ~NoSetpoint.moving
  BY Numbers DEF NoSetpoint, SetpointType
<1>3. NoLoop \in LoopType /\ NoLoop.pc = "none" /\ NoLoop.id = 0
  BY Numbers DEF NoLoop, LoopType
<1>4. Still \in WheelsType /\ ~Still.moving
  BY Numbers DEF Still, WheelsType
<1>5. NoCall \in CallType /\ NoCall.op = "none" /\ NoCall.pc = "none" /\ NoCall.id = 0
  BY Numbers DEF NoCall, CallType
<1>. QED BY <1>1, <1>2, <1>3, <1>4, <1>5

\* A stream in flight goes back to the head of its loop.
LEMMA PreemptedShape ==
  ASSUME loop \in LoopType
  PROVE  /\ Preempted \in LoopType /\ Preempted.id = loop.id
         /\ Preempted.pc = (IF loop.pc = "hold" THEN "top" ELSE loop.pc)
<1>1. CASE loop.pc = "hold"
  <2>1. Preempted = [loop EXCEPT !.pc = "top", !.left = 0]
    BY <1>1 DEF Preempted
  <2>2. 0 \in 0..Chunk
    BY Numbers
  <2>3. Preempted \in LoopType /\ Preempted.id = loop.id /\ Preempted.pc = "top"
    BY <2>1, <2>2 DEF LoopType
  <2>. QED BY <1>1, <2>3
<1>2. CASE loop.pc # "hold"
  BY <1>2 DEF Preempted
<1>. QED BY <1>1, <1>2

\* A loop that is cancelled is on its way out.
LEMMA CancelShape ==
  ASSUME loop \in LoopType, CancelLoop
  PROVE  /\ loop' \in LoopType /\ loop'.pc \in {"none", "releasing"}
         /\ loop' = NoLoop \/ (loop'.id = loop.id /\ loop.pc # "none")
         /\ loop.pc = "none" => loop' = NoLoop
<1>1. CASE loop.pc \in {"top", "hold"}
  <2>1. loop' = [loop EXCEPT !.pc = "releasing", !.left = 0]
    BY <1>1, Zenon DEF CancelLoop
  <2>2. 0 \in 0..Chunk
    BY Numbers
  <2>. QED BY <1>1, <2>1, <2>2 DEF LoopType
<1>2. CASE loop.pc \notin {"top", "hold"}
  <2>1. loop' = NoLoop
    BY <1>2, Zenon DEF CancelLoop
  <2>2. loop' \in LoopType /\ loop'.pc = "none"
    BY <2>1, Constants
  <2>. QED BY <2>1, <2>2
<1>. QED BY <1>1, <1>2

\* What each client awaits next, field by field.
Sets(c, op, pc, id, goal) ==
  /\ call' \in [Clients -> CallType] /\ \A d \in Clients \ {c} : call'[d] = call[d]
  /\ call'[c].op = op /\ call'[c].pc = pc /\ call'[c].id = id /\ call'[c].goal = goal

\* A call that returns is none.
LEMMA ReturnShape ==
  ASSUME call \in [Clients -> CallType], NEW c \in Clients, Return(c)
  PROVE  Sets(c, "none", "none", 0, 0)
BY Constants DEF Return, Sets, NoCall

\* A call begins to wait.
LEMMA WaitsShape ==
  ASSUME call \in [Clients -> CallType], NEW c \in Clients,
         NEW op \in {"acquire", "set", "release", "estop", "posture"},
         NEW pc \in {"state", "sonar", "await"}, NEW id \in 0..MaxLeases, Waits(c, op, pc, id)
  PROVE  Sets(c, op, pc, id, 0)
<1>. DEFINE r == [NoCall EXCEPT !.op = op, !.pc = pc, !.id = id]
<1>1. r \in CallType /\ r.op = op /\ r.pc = pc /\ r.id = id /\ r.goal = 0
  <2>1. 0 \in 0..Old /\ 0 \in 0..MaxGoals
    BY Numbers
  <2>. QED BY <2>1 DEF NoCall, CallType
<1>2. call' = [call EXCEPT ![c] = r]
  BY DEF Waits
<1>. HIDE DEF r
<1>. QED BY <1>1, <1>2 DEF Sets

\* A call goes on.
LEMMA GoToShape ==
  ASSUME call \in [Clients -> CallType], NEW c \in Clients,
         NEW pc \in {"failed", "stop", "nav", "publish"}, GoTo(c, pc)
  PROVE  Sets(c, call[c].op, pc, call[c].id, call[c].goal)
<1>. DEFINE r == [call[c] EXCEPT !.pc = pc]
<1>1. r \in CallType /\ r.op = call[c].op /\ r.pc = pc /\ r.id = call[c].id /\ r.goal = call[c].goal
  BY DEF CallType
<1>2. call' = [call EXCEPT ![c] = r]
  BY DEF GoTo
<1>. HIDE DEF r
<1>. QED BY <1>1, <1>2 DEF Sets

\* A call sets out to cancel the active goal.
LEMMA CancelsShape ==
  ASSUME call \in [Clients -> CallType], nav \in NavType, NEW c \in Clients,
         call' = [call EXCEPT ![c].pc = "cancel", ![c].goal = nav.goal]
  PROVE  Sets(c, call[c].op, "cancel", call[c].id, nav.goal)
<1>. DEFINE r == [call[c] EXCEPT !.pc = "cancel", !.goal = nav.goal]
<1>1. r \in CallType /\ r.op = call[c].op /\ r.pc = "cancel" /\ r.id = call[c].id /\ r.goal = nav.goal
  BY DEF CallType, NavType
<1>2. call' = [call EXCEPT ![c] = r]
  OBVIOUS
<1>. HIDE DEF r
<1>. QED BY <1>1, <1>2 DEF Sets

\* A posture cancels a goal before it is sent to the robot.
LEMMA LooksShape ==
  ASSUME call \in [Clients -> CallType], nav \in NavType, NEW c \in Clients,
         NEW id \in 0..MaxLeases, PostureLooks(c, id)
  PROVE  /\ nav.status = "active" => Sets(c, "posture", "cancel", id, nav.goal)
         /\ nav.status # "active" => Sets(c, "posture", "publish", id, nav.goal)
<1>1. ASSUME NEW pc \in {"cancel", "publish"},
             call' = [call EXCEPT ![c] = [NoCall EXCEPT !.op = "posture", !.id = id, !.goal = nav.goal,
                                                        !.pc = pc]]
      PROVE  Sets(c, "posture", pc, id, nav.goal)
  <2>. DEFINE r == [NoCall EXCEPT !.op = "posture", !.id = id, !.goal = nav.goal, !.pc = pc]
  <2>1. nav.goal \in 0..MaxGoals /\ 0 \in 0..Old
    BY Numbers DEF NavType
  <2>2. r \in CallType /\ r.op = "posture" /\ r.pc = pc /\ r.id = id /\ r.goal = nav.goal
    BY <2>1 DEF NoCall, CallType
  <2>3. call' = [call EXCEPT ![c] = r]
    BY <1>1
  <2>. HIDE DEF r
  <2>. QED BY <2>2, <2>3 DEF Sets
<1>. QED BY <1>1 DEF PostureLooks

-----------------------------------------------------------------------------
(* The steps fall into a few kinds, each told by what it does to the parts of *)
(* the state that the invariant relates.                                      *)

\* What a step of one client may do to what clients hold on to and await.
Frames(c) ==
  /\ known' \in [Operators -> 0..MaxLeases] /\ call' \in [Clients -> CallType]
  /\ \A d \in Clients \ {c} : call'[d] = call[d]

\* A call takes the lock and keeps it: the loop is on its way out, or it waits
\* for the sensor on behalf of the holder of the lease.
Locks(c) ==
  /\ Frames(c) /\ UNCHANGED <<lease, granted, setpoint, wheels, nav>>
  /\ lock = NoOne /\ lock' = c /\ loop' \in LoopType
  /\ call'[c].id <= granted
  /\ \A o \in Operators : known'[o] \in {known[o], 0}
  /\ \/ /\ call'[c].pc = "await"
        /\ loop'.pc \in {"none", "releasing"}
        /\ loop' = NoLoop \/ (loop'.id = loop.id /\ loop.pc # "none")
     \/ /\ call'[c].pc = "sonar" /\ loop' = loop /\ lease.id # 0 /\ known[OperatorOf[c]] = lease.id

\* It lets go of the lock: the robot stands still and the lease is gone.
Unlocks(c) ==
  /\ Frames(c) /\ UNCHANGED <<granted, known, loop, nav>>
  /\ call[c].pc = "await" /\ call'[c].pc \in {"none", "nav", "cancel", "publish"} /\ loop.pc = "none"
  /\ lease' = NoLease /\ setpoint' = NoSetpoint /\ wheels' = Still /\ lock' = NoOne
  /\ call'[c].id <= granted
  /\ call'[c].op = "posture" =>
       /\ call'[c].goal = nav.goal
       /\ call'[c].pc = "publish" => nav.status # "active"

\* It touches neither lease nor lock; at most it halts the robot, ends the goal,
\* or hands an id to its operator once no goal is active.
Quiet(c) ==
  /\ Frames(c) /\ UNCHANGED <<lease, granted, setpoint, lock>>
  /\ call[c].pc \notin {"sonar", "await"} /\ call'[c].pc \notin {"sonar", "await"}
  /\ call'[c].id <= granted
  /\ \/ UNCHANGED <<loop, wheels>>
     \/ loop' = Preempted /\ wheels' = Still
  /\ nav' \in NavType /\ nav'.goal = nav.goal /\ (nav'.status = "active" => nav.status = "active")
  /\ \A o \in Operators : \/ known'[o] \in {known[o], 0}
                          \/ known'[o] <= granted /\ nav'.status # "active"
  /\ call'[c].op = "posture" /\ call'[c].pc \in {"cancel", "publish"} =>
       /\ call'[c].goal <= nav.goal
       /\ lease.id = 0 \/ lease.id > call'[c].id
       /\ call'[c].pc = "publish" /\ nav'.status = "active" => nav.goal > call'[c].goal

\* What the dashboard forgets.
LEMMA ForgetsShape ==
  ASSUME known \in [Operators -> 0..MaxLeases], NEW c \in Clients, Forgets(c)
  PROVE  /\ known' \in [Operators -> 0..MaxLeases]
         /\ \A o \in Operators : known'[o] \in {known[o], 0}
<1>1. 0 \in 0..MaxLeases
  BY Numbers
<1>. QED BY <1>1 DEF Forgets

\* An operator learns the number of a lease.
LEMMA LearnsShape ==
  ASSUME known \in [Operators -> 0..MaxLeases], NEW c \in Clients, NEW id \in 0..granted,
         granted \in 0..MaxLeases, known' = [known EXCEPT ![OperatorOf[c]] = id]
  PROVE  /\ known' \in [Operators -> 0..MaxLeases]
         /\ \A o \in Operators : known'[o] = known[o] \/ known'[o] <= granted
<1>1. id \in 0..MaxLeases /\ id <= granted
  BY Numbers
<1>2. OperatorOf[c] \in Operators
  BY Numbers
<1>. QED BY <1>1, <1>2

\* A release takes the lock and stops the loop ...
LEMMA ReleaseLocks ==
  ASSUME TeleopInv, NEW c \in Clients, Release(c)
  PROVE  Locks(c)
<1>1. Sets(c, "release", "await", 0, 0)
  <2>1. 0 \in 0..MaxLeases
    BY Numbers
  <2>. QED BY <2>1, WaitsShape, Types DEF TeleopInv, Release
<1>2. 0 <= granted
  BY Types DEF TeleopInv
<1>. QED BY <1>1, <1>2, CancelShape, ForgetsShape, Types DEF TeleopInv, Release, Locks,
   Frames, Sets

\* ... so does an emergency stop ...
LEMMA EmergencyLocks ==
  ASSUME TeleopInv, NEW c \in Clients, EmergencyStop(c)
  PROVE  Locks(c)
<1>1. Sets(c, "estop", "await", 0, 0)
  <2>1. 0 \in 0..MaxLeases
    BY Numbers
  <2>. QED BY <2>1, WaitsShape, Types DEF TeleopInv, EmergencyStop
<1>2. 0 <= granted
  BY Types DEF TeleopInv
<1>. QED
  BY <1>1, <1>2, CancelShape, Types DEF TeleopInv, EmergencyStop, Locks, Frames, Sets, session

\* ... and an order forward, which waits for the sonar.
LEMMA ForwardLocks ==
  ASSUME TeleopInv, NEW c \in Clients, SetForward(c)
  PROVE  Locks(c)
<1>1. Sets(c, "set", "sonar", 0, 0)
  <2>1. 0 \in 0..MaxLeases
    BY Numbers
  <2>. QED BY <2>1, WaitsShape, Types DEF TeleopInv, SetForward
<1>2. 0 <= granted
  BY Types DEF TeleopInv
<1>. QED BY <1>1, <1>2, Types DEF TeleopInv, SetForward, Accepts, Locks, Frames, Sets, session

\* A posture takes the lock when its operator holds the lease.
LEMMA PostureAsksShape ==
  ASSUME TeleopInv, NEW c \in Clients, PostureAsks(c)
  PROVE  Locks(c) \/ Quiet(c)
<1>. DEFINE o == OperatorOf[c]
<1>1. /\ known' \in [Operators -> 0..MaxLeases]
      /\ \A p \in Operators : known'[p] \in {known[p], 0}
  BY ForgetsShape, Types DEF TeleopInv, PostureAsks
<1>2. /\ call[c].pc = "none" /\ lock = NoOne /\ o = Dashboard /\ o \in Operators
      /\ UNCHANGED <<lease, granted, setpoint, wheels, nav>>
  BY Constants, Numbers DEF PostureAsks, MayPose
<1>3. CASE Holds(c) /\ lease.id # 0
  <2>1. lock' = c /\ CancelLoop /\ Waits(c, "posture", "await", lease.id)
    BY <1>3 DEF PostureAsks
  <2>2. lease.id \in 0..MaxLeases /\ lease.id <= granted
    BY Types DEF TeleopInv, LeaseInv, LeaseType
  <2>3. Sets(c, "posture", "await", lease.id, 0)
    BY <2>1, <2>2, WaitsShape, Types DEF TeleopInv
  <2>4. /\ loop' \in LoopType /\ loop'.pc \in {"none", "releasing"}
        /\ loop' = NoLoop \/ (loop'.id = loop.id /\ loop.pc # "none")
    BY <2>1, CancelShape, Types DEF TeleopInv
  <2>. QED BY <1>1, <1>2, <2>1, <2>2, <2>3, <2>4 DEF Locks, Frames, Sets
<1>4. CASE ~(Holds(c) /\ lease.id # 0)
  <2>1. UNCHANGED <<lock, loop>> /\ PostureLooks(c, known[Dashboard])
    BY <1>4 DEF PostureAsks
  <2>2. known[o] \in 0..MaxLeases /\ known[o] <= granted
    BY <1>2, Types DEF TeleopInv, LeaseInv
  <2>3. lease.id = 0 \/ lease.id > known[o]
    BY <1>2, <1>4, <2>2, Types DEF TeleopInv, LeaseInv, Holds
  <2>4. /\ nav.status = "active" => Sets(c, "posture", "cancel", known[o], nav.goal)
        /\ nav.status # "active" => Sets(c, "posture", "publish", known[o], nav.goal)
    BY <1>2, <2>1, <2>2, LooksShape, Types DEF TeleopInv
  <2>5. /\ Frames(c) /\ call'[c].pc \in {"cancel", "publish"} /\ call'[c].id = known[o]
        /\ call'[c].goal = nav.goal /\ (call'[c].pc = "publish" => nav.status # "active")
    BY <1>1, <2>4 DEF Sets, Frames
  <2>6. nav.goal <= nav.goal /\ nav \in NavType
    BY Types DEF TeleopInv, NavType
  <2>. QED BY <1>1, <1>2, <2>1, <2>2, <2>3, <2>5, <2>6 DEF Quiet
<1>. QED BY <1>3, <1>4

\* What a release waited for gives the lock back ...
LEMMA ReleasedUnlocks ==
  ASSUME TeleopInv, NEW c \in Clients, Released(c)
  PROVE  Unlocks(c)
<1>1. Sets(c, "none", "none", 0, 0)
  BY ReturnShape, Types DEF TeleopInv, Released
<1>2. 0 <= granted
  BY Types DEF TeleopInv
<1>. QED
  BY <1>1, <1>2, Constants, Types DEF TeleopInv, Released, Unlocks, Frames, Sets, At,
     Halted, Clear

\* ... so does an emergency stop ...
LEMMA EmergencyUnlocks ==
  ASSUME TeleopInv, NEW c \in Clients, EmergencyStops(c)
  PROVE  Unlocks(c)
<1>1. Sets(c, call[c].op, "nav", call[c].id, call[c].goal) /\ call[c].op # "posture"
  BY GoToShape, Types DEF TeleopInv, EmergencyStops, At
<1>2. call[c].id <= granted
  BY DEF TeleopInv, LeaseInv
<1>. QED
  BY <1>1, <1>2, Constants, Types DEF TeleopInv, EmergencyStops, Unlocks, Frames, Sets, At,
     Halted, Clear

\* ... and a posture.
LEMMA PostureUnlocks ==
  ASSUME TeleopInv, NEW c \in Clients, PostureReleased(c)
  PROVE  Unlocks(c)
<1>1. call[c].id \in 0..MaxLeases /\ call[c].id <= granted
  BY Types DEF TeleopInv, LeaseInv, CallType
<1>2. /\ nav.status = "active" => Sets(c, "posture", "cancel", call[c].id, nav.goal)
      /\ nav.status # "active" => Sets(c, "posture", "publish", call[c].id, nav.goal)
  BY <1>1, LooksShape, Types DEF TeleopInv, PostureReleased
<1>3. /\ call' \in [Clients -> CallType] /\ (\A d \in Clients \ {c} : call'[d] = call[d])
      /\ call'[c].pc \in {"cancel", "publish"} /\ call'[c].id = call[c].id
      /\ call'[c].goal = nav.goal /\ (call'[c].pc = "publish" => nav.status # "active")
  BY <1>2 DEF Sets
<1>. QED
  BY <1>1, <1>3, Constants, Types DEF TeleopInv, PostureReleased, Unlocks, Frames, At,
     Halted, Clear

\* What a quiet step that is no posture's leaves to be shown.
LEMMA OtherQuiet ==
  ASSUME TeleopInv, NEW c \in Clients, UNCHANGED <<lease, granted, setpoint, lock>>, Frames(c),
         call[c].pc \notin {"sonar", "await"}, call'[c].pc \notin {"sonar", "await"},
         call'[c].id <= granted, call'[c].op # "posture",
         UNCHANGED <<loop, wheels>> \/ (loop' = Preempted /\ wheels' = Still),
         nav' \in NavType, nav'.goal = nav.goal, nav'.status = "active" => nav.status = "active",
         \A o \in Operators : \/ known'[o] \in {known[o], 0}
                              \/ known'[o] <= granted /\ nav'.status # "active"
  PROVE  Quiet(c)
BY DEF Quiet

\* A goal that is canceled.
LEMMA CanceledShape ==
  ASSUME nav \in NavType, nav' = [nav EXCEPT !.status = "canceled"]
  PROVE  nav' \in NavType /\ nav'.goal = nav.goal /\ nav'.status = "canceled"
BY DEF NavType

\* Looking at the state moves nothing ...
LEMMA LooksQuiet ==
  ASSUME TeleopInv, NEW c \in Clients, AcquireLooks(c)
  PROVE  Quiet(c)
<1>1. call[c].op = "acquire" /\ call[c].pc = "state" /\ call[c].id <= granted /\ granted >= 0
  BY Types DEF TeleopInv, AcquireLooks, At, LeaseInv
<1>2. UNCHANGED <<lease, granted, setpoint, loop, wheels, lock, nav>> /\ nav \in NavType
  BY Types DEF TeleopInv, AcquireLooks
<1>3. CASE nav.status = "active"
  <2>1. Sets(c, "acquire", "cancel", call[c].id, nav.goal) /\ known' = known
    BY <1>1, <1>3, CancelsShape, Types DEF TeleopInv, AcquireLooks
  <2>. QED BY <1>1, <1>2, <2>1, OtherQuiet, Types DEF TeleopInv, Sets, Frames
<1>4. CASE nav.status # "active"
  <2>1. Sets(c, "none", "none", 0, 0) /\ known' = [known EXCEPT ![OperatorOf[c]] = call[c].id]
    BY <1>4, ReturnShape, Types DEF TeleopInv, AcquireLooks
  <2>2. call[c].id \in 0..granted
    BY <1>1, Types DEF TeleopInv, CallType
  <2>3. /\ known' \in [Operators -> 0..MaxLeases]
        /\ \A o \in Operators : known'[o] = known[o] \/ known'[o] <= granted
    BY <2>1, <2>2, LearnsShape, Types DEF TeleopInv
  <2>. QED BY <1>1, <1>2, <1>4, <2>1, <2>3, OtherQuiet DEF Sets, Frames
<1>. QED BY <1>3, <1>4

\* ... neither does cancelling a goal for a lease ...
LEMMA AcquireCancelsQuiet ==
  ASSUME TeleopInv, NEW c \in Clients, AcquireCancels(c)
  PROVE  Quiet(c)
<1>1. call[c].op = "acquire" /\ call[c].pc = "cancel" /\ call[c].id <= granted /\ granted >= 0
  BY Types DEF TeleopInv, AcquireCancels, At, LeaseInv
<1>2. UNCHANGED <<lease, granted, setpoint, lock>> /\ nav \in NavType
  BY Types DEF TeleopInv, AcquireCancels
<1>3. ASSUME known' = [known EXCEPT ![OperatorOf[c]] = call[c].id], Return(c)
      PROVE  /\ Sets(c, "none", "none", 0, 0) /\ known' \in [Operators -> 0..MaxLeases]
             /\ \A o \in Operators : known'[o] = known[o] \/ known'[o] <= granted
  <2>1. call[c].id \in 0..granted
    BY <1>1, Types DEF TeleopInv, CallType
  <2>. QED BY <1>3, <2>1, LearnsShape, ReturnShape, Types DEF TeleopInv
<1>4. CASE /\ nav.status = "active" /\ nav.goal = call[c].goal
           /\ nav' = [nav EXCEPT !.status = "canceled"]
           /\ Halted /\ loop' = Preempted
           /\ known' = [known EXCEPT ![OperatorOf[c]] = call[c].id]
           /\ Return(c)
  <2>1. nav' \in NavType /\ nav'.goal = nav.goal /\ nav'.status = "canceled" /\ wheels' = Still
    BY <1>2, <1>4, CanceledShape DEF Halted
  <2>. QED BY <1>1, <1>2, <1>3, <1>4, <2>1, OtherQuiet DEF Sets, Frames
<1>5. CASE /\ nav.status \in {"idle", "canceled"}
           /\ known' = [known EXCEPT ![OperatorOf[c]] = call[c].id]
           /\ Return(c)
           /\ UNCHANGED <<nav, wheels, loop>>
  BY <1>1, <1>2, <1>3, <1>5, OtherQuiet DEF Sets, Frames
<1>6. CASE GoTo(c, "failed") /\ UNCHANGED <<nav, wheels, loop, known>>
  <2>1. Sets(c, "acquire", "failed", call[c].id, call[c].goal)
    BY <1>1, <1>6, GoToShape, Types DEF TeleopInv
  <2>. QED BY <1>1, <1>2, <1>6, <2>1, OtherQuiet, Types DEF TeleopInv, Sets, Frames
<1>. QED BY <1>4, <1>5, <1>6 DEF AcquireCancels

\* ... halting before it is granted ...
LEMMA StopsQuiet ==
  ASSUME TeleopInv, NEW c \in Clients, AcquireStops(c)
  PROVE  Quiet(c)
<1>1. Sets(c, "none", "none", 0, 0) /\ call[c].pc = "stop" /\ granted >= 0
  BY ReturnShape, Types DEF TeleopInv, AcquireStops, At
<1>2. UNCHANGED <<lease, granted, setpoint, known, lock, nav>> /\ nav \in NavType
  BY Types DEF TeleopInv, AcquireStops, session
<1>3. loop' = Preempted /\ wheels' = Still
  BY DEF AcquireStops, Halted
<1>. QED BY <1>1, <1>2, <1>3, OtherQuiet, Types DEF TeleopInv, Sets, Frames

\* ... cancelling in an emergency ...
LEMMA EmergencyCancelsQuiet ==
  ASSUME TeleopInv, NEW c \in Clients, EmergencyCancels(c)
  PROVE  Quiet(c)
<1>1. Sets(c, "none", "none", 0, 0) /\ call[c].pc = "nav" /\ granted >= 0
  BY ReturnShape, Types DEF TeleopInv, EmergencyCancels, At
<1>2. UNCHANGED <<lease, granted, setpoint, known, lock>> /\ nav \in NavType
  BY Types DEF TeleopInv, EmergencyCancels, session
<1>3. /\ UNCHANGED <<loop, wheels>> \/ (loop' = Preempted /\ wheels' = Still)
      /\ nav' \in NavType /\ nav'.goal = nav.goal /\ (nav'.status = "active" => nav.status = "active")
  <2>1. CASE /\ nav.status = "active"
             /\ nav' = [nav EXCEPT !.status = "canceled"]
             /\ Halted /\ loop' = Preempted
    BY <1>2, <2>1, CanceledShape DEF Halted
  <2>2. CASE UNCHANGED <<nav, wheels, loop>>
    BY <1>2, <2>2
  <2>. QED BY <2>1, <2>2 DEF EmergencyCancels
<1>. QED BY <1>1, <1>2, <1>3, OtherQuiet, Types DEF TeleopInv, Sets, Frames

\* ... releasing what is not held ...
LEMMA NothingQuiet ==
  ASSUME TeleopInv, NEW c \in Clients, ReleasesNothing(c)
  PROVE  Quiet(c)
<1>1. call' = call /\ call[c].pc = "none" /\ call[c].op = "none" /\ call[c].id <= granted
  BY Constants DEF TeleopInv, ReleasesNothing, LeaseInv
<1>2. UNCHANGED <<lease, granted, setpoint, loop, wheels, lock, nav>> /\ nav \in NavType
  BY Types DEF TeleopInv, ReleasesNothing
<1>3. /\ known' \in [Operators -> 0..MaxLeases]
      /\ \A o \in Operators : known'[o] \in {known[o], 0}
  BY ForgetsShape, Types DEF TeleopInv, ReleasesNothing
<1>. QED BY <1>1, <1>2, <1>3, OtherQuiet, Types DEF TeleopInv, Frames

\* ... cancelling for a posture ...
LEMMA PostureCancelsQuiet ==
  ASSUME TeleopInv, NEW c \in Clients, PostureCancels(c)
  PROVE  Quiet(c)
<1>1. call[c].op = "posture" /\ call[c].pc = "cancel" /\ call[c].id <= granted /\ granted >= 0
  BY Types DEF TeleopInv, PostureCancels, At, LeaseInv
<1>2. /\ UNCHANGED <<lease, granted, setpoint, known, lock>> /\ nav \in NavType
      /\ known \in [Operators -> 0..MaxLeases]
  BY Types DEF TeleopInv, PostureCancels, session
<1>3. /\ call[c].goal <= nav.goal /\ call[c].goal \in Nat /\ nav.goal \in Nat
      /\ lease.id = 0 \/ lease.id > call[c].id
  BY <1>1, Numbers, Types DEF TeleopInv, PostureInv, CallType, NavType
<1>4. ASSUME GoTo(c, "publish")
      PROVE  /\ call' \in [Clients -> CallType] /\ (\A d \in Clients \ {c} : call'[d] = call[d])
             /\ call'[c].pc = "publish" /\ call'[c].id = call[c].id /\ call'[c].goal = call[c].goal
  BY <1>4, GoToShape, Types DEF TeleopInv, Sets
<1>5. CASE /\ nav.status = "active" /\ nav.goal = call[c].goal
           /\ nav' = [nav EXCEPT !.status = "canceled"]
           /\ Halted /\ loop' = Preempted
           /\ GoTo(c, "publish")
  <2>1. nav' \in NavType /\ nav'.goal = nav.goal /\ nav'.status = "canceled" /\ wheels' = Still
    BY <1>2, <1>5, CanceledShape DEF Halted
  <2>. QED BY <1>1, <1>2, <1>3, <1>4, <1>5, <2>1 DEF Quiet, Frames
<1>6. CASE /\ nav.status # "active" \/ nav.goal # call[c].goal
           /\ GoTo(c, "publish")
           /\ UNCHANGED <<nav, wheels, loop>>
  <2>1. nav.status = "active" => nav.goal > call[c].goal
    BY <1>3, <1>6
  <2>. QED BY <1>1, <1>2, <1>3, <1>4, <1>6, <2>1 DEF Quiet, Frames
<1>7. CASE Return(c) /\ UNCHANGED <<nav, wheels, loop>>
  <2>1. Sets(c, "none", "none", 0, 0)
    BY <1>7, ReturnShape, Types DEF TeleopInv
  <2>. QED BY <1>1, <1>2, <1>7, <2>1, OtherQuiet DEF Sets, Frames
<1>. QED BY <1>5, <1>6, <1>7 DEF PostureCancels

\* ... or the posture itself.
LEMMA SetPostureQuiet ==
  ASSUME TeleopInv, NEW c \in Clients, SetPosture(c)
  PROVE  Quiet(c)
<1>1. Sets(c, "none", "none", 0, 0) /\ call[c].pc = "publish" /\ granted >= 0
  BY ReturnShape, Types DEF TeleopInv, SetPosture, At
<1>2. UNCHANGED <<lease, granted, setpoint, known, lock, nav>> /\ nav \in NavType
  BY Types DEF TeleopInv, SetPosture, session
<1>3. UNCHANGED <<loop, wheels>> \/ (loop' = Preempted /\ wheels' = Still)
  BY DEF SetPosture, Halted
<1>. QED BY <1>1, <1>2, <1>3, OtherQuiet, Types DEF TeleopInv, Sets, Frames

-----------------------------------------------------------------------------
(* Each kind of step keeps the invariant.                                     *)

\* The type invariant of the next state in its parts.
LEMMA TypesNext ==
  TeleopTypeOK' <=>
    /\ lease' \in LeaseType /\ granted' \in 0..MaxLeases /\ known' \in [Operators -> 0..MaxLeases]
    /\ setpoint' \in SetpointType /\ loop' \in LoopType /\ wheels' \in WheelsType
    /\ lock' \in Clients \union {NoOne} /\ call' \in [Clients -> CallType] /\ nav' \in NavType
BY DEF TeleopTypeOK, LeaseType, SetpointType, LoopType, WheelsType, CallType, NavType

\* What stands still is driven by nobody.
LEMMA StillIsNotDriven ==
  ASSUME wheels' = Still
  PROVE  ~Driven'
BY Constants DEF Driven

\* Wheels that nobody moves are driven as before.
LEMMA SameWheels ==
  ASSUME UNCHANGED wheels
  PROVE  (Driven' <=> Driven) /\ (DeadmanHolds' <=> DeadmanHolds)
BY DEF Driven, DeadmanHolds

\* A step that moves nothing keeps the invariant.
LEMMA QuietKeeps ==
  ASSUME TeleopInv, NEW c \in Clients, Quiet(c)
  PROVE  TeleopInv'
<1>. USE DEF Quiet, Frames
<1>1. /\ loop' \in LoopType /\ loop'.id = loop.id
      /\ loop'.pc = (IF loop.pc = "hold" THEN "top" ELSE loop.pc) \/ loop'.pc = loop.pc
      /\ wheels' \in WheelsType
  BY PreemptedShape, Constants, Types DEF TeleopInv
<1>2. TeleopTypeOK'
  BY <1>1, Types, TypesNext DEF TeleopInv
<1>3. LockInv'
  <2>1. \A d \in Clients : call'[d].pc \in {"sonar", "await"} => d # c /\ call'[d] = call[d]
    OBVIOUS
  <2>2. \A d \in Clients : call'[d].pc \in {"sonar", "await"} => lock' = d
    BY <2>1 DEF TeleopInv, LockInv
  <2>3. lock' # NoOne => call'[lock'].pc \in {"sonar", "await"}
    <3>. SUFFICES ASSUME lock' # NoOne PROVE call'[lock'].pc \in {"sonar", "await"}
      OBVIOUS
    <3>1. lock' = lock /\ lock \in Clients /\ call[lock].pc \in {"sonar", "await"}
      BY Types DEF TeleopInv, LockInv
    <3>2. lock # c
      BY <3>1
    <3>. QED BY <3>1, <3>2
  <2>4. \A d \in Clients : call'[d].pc = "await" => loop'.pc \in {"none", "releasing"}
    BY <1>1, <2>1 DEF TeleopInv, LockInv
  <2>. QED BY <2>2, <2>3, <2>4 DEF LockInv
<1>4. LeaseInv'
  <2>1. lease' = lease /\ granted' = granted /\ setpoint' = setpoint /\ nav'.goal = nav.goal
    OBVIOUS
  <2>2. \A o \in Operators : known'[o] <= granted'
    BY <2>1, Types DEF TeleopInv, LeaseInv
  <2>3. \A d \in Clients : call'[d].id <= granted' /\ (call'[d].pc = "sonar" => lease'.id # 0)
    BY <2>1 DEF TeleopInv, LeaseInv
  <2>4. loop'.id <= granted' /\ (loop'.pc # "none" => loop'.id # 0)
    BY <1>1, <2>1 DEF TeleopInv, LeaseInv
  <2>5. UNCHANGED NoLease
    BY DEF NoLease
  <2>. QED BY <2>1, <2>2, <2>3, <2>4, <2>5 DEF TeleopInv, LeaseInv
<1>5. SetpointInv'
  BY DEF TeleopInv, SetpointInv, Stale
<1>6. WheelsInv'
  <2>1. CASE UNCHANGED <<loop, wheels>>
    <3>1. ASSUME NEW d \in Clients, call[d].pc = "await"
          PROVE  call'[d].pc = "await"
      BY <3>1
    <3>. QED BY <2>1, <3>1, SameWheels DEF TeleopInv, WheelsInv
  <2>2. CASE loop' = Preempted /\ wheels' = Still
    BY <2>2, StillIsNotDriven DEF WheelsInv, DeadmanHolds
  <2>. QED BY <2>1, <2>2
<1>7. NavInv'
  <2>. SUFFICES ASSUME nav'.status = "active",
                       \/ lease'.id # 0 /\ \E o \in Operators : known'[o] = lease'.id
                       \/ \E d \in Clients : call'[d].pc = "sonar"
                       \/ loop'.pc \in {"top", "hold"} /\ loop'.id = lease'.id
                PROVE  nav'.goal > lease'.goal
    BY DEF NavInv
  <2>1. CASE lease'.id # 0 /\ \E o \in Operators : known'[o] = lease'.id
    BY <2>1 DEF TeleopInv, NavInv
  <2>2. CASE \E d \in Clients : call'[d].pc = "sonar"
    BY <2>2 DEF TeleopInv, NavInv
  <2>3. CASE loop'.pc \in {"top", "hold"} /\ loop'.id = lease'.id
    <3>1. loop.pc \in {"top", "hold"}
      BY <1>1, <2>3
    <3>. QED BY <1>1, <2>3, <3>1 DEF TeleopInv, NavInv
  <2>. QED BY <2>1, <2>2, <2>3
<1>8. PostureInv'
  <2>. SUFFICES ASSUME NEW d \in Clients,
                       call'[d].op = "posture" /\ call'[d].pc \in {"cancel", "publish"}
                PROVE  /\ call'[d].goal <= nav'.goal
                       /\ lease'.id = 0 \/ lease'.id > call'[d].id
                       /\ call'[d].pc = "publish" /\ nav'.status = "active" => nav'.goal > call'[d].goal
    BY DEF PostureInv
  <2>1. CASE d = c
    BY <2>1
  <2>2. CASE d # c
    <3>1. call'[d] = call[d]
      BY <2>2
    <3>. QED BY <3>1 DEF TeleopInv, PostureInv
  <2>. QED BY <2>1, <2>2
<1>. QED BY <1>2, <1>3, <1>4, <1>5, <1>6, <1>7, <1>8 DEF TeleopInv

\* A step that takes the lock keeps the invariant.
LEMMA LocksKeeps ==
  ASSUME TeleopInv, NEW c \in Clients, Locks(c)
  PROVE  TeleopInv'
<1>. USE DEF Locks, Frames
<1>1. NoLoop \in LoopType /\ NoLoop.pc = "none" /\ NoLoop.id = 0
  BY Constants
<1>2. TeleopTypeOK'
  BY Types, TypesNext DEF TeleopInv
<1>3. \A d \in Clients : call[d].pc \notin {"sonar", "await"}
  BY Numbers DEF TeleopInv, LockInv
<1>4. c # NoOne
  BY Numbers
<1>5. LockInv'
  <2>1. \A d \in Clients : call'[d].pc \in {"sonar", "await"} => d = c
    BY <1>3
  <2>. QED BY <1>4, <2>1 DEF LockInv
<1>6. LeaseInv'
  <2>1. granted' = granted /\ 0 <= granted
    BY Types DEF TeleopInv
  <2>2. \A o \in Operators : known'[o] <= granted'
    BY <2>1, Types DEF TeleopInv, LeaseInv
  <2>3. \A d \in Clients : call'[d].id <= granted' /\ (call'[d].pc = "sonar" => lease'.id # 0)
    BY <1>3, <2>1 DEF TeleopInv, LeaseInv
  <2>4. loop'.id <= granted' /\ (loop'.pc # "none" => loop'.id # 0)
    BY <1>1, <2>1 DEF TeleopInv, LeaseInv
  <2>5. UNCHANGED NoLease
    BY DEF NoLease
  <2>. QED BY <2>1, <2>2, <2>3, <2>4, <2>5 DEF TeleopInv, LeaseInv
<1>7. SetpointInv'
  BY DEF TeleopInv, SetpointInv, Stale
<1>8. WheelsInv'
  <2>1. CASE call'[c].pc = "await"
    BY <2>1, SameWheels DEF TeleopInv, WheelsInv
  <2>2. CASE call'[c].pc = "sonar"
    BY <2>2, <1>3, SameWheels DEF TeleopInv, WheelsInv
  <2>. QED BY <2>1, <2>2
<1>9. NavInv'
  <2>. SUFFICES ASSUME nav'.status = "active",
                       \/ lease'.id # 0 /\ \E o \in Operators : known'[o] = lease'.id
                       \/ \E d \in Clients : call'[d].pc = "sonar"
                       \/ loop'.pc \in {"top", "hold"} /\ loop'.id = lease'.id
                PROVE  nav'.goal > lease'.goal
    BY DEF NavInv
  <2>1. CASE lease'.id # 0 /\ \E o \in Operators : known'[o] = lease'.id
    BY <2>1 DEF TeleopInv, NavInv
  <2>2. CASE \E d \in Clients : call'[d].pc = "sonar"
    <3>1. call'[c].pc = "sonar"
      BY <1>3, <2>2
    <3>2. lease.id # 0 /\ known[OperatorOf[c]] = lease.id /\ OperatorOf[c] \in Operators
      BY <3>1, Numbers
    <3>. QED BY <3>2 DEF TeleopInv, NavInv
  <2>3. CASE loop'.pc \in {"top", "hold"} /\ loop'.id = lease'.id
    BY <2>3 DEF TeleopInv, NavInv
  <2>. QED BY <2>1, <2>2, <2>3
<1>10. PostureInv'
  BY DEF TeleopInv, PostureInv
<1>. QED BY <1>2, <1>5, <1>6, <1>7, <1>8, <1>9, <1>10 DEF TeleopInv

\* A step that gives the lock back keeps the invariant.
LEMMA UnlocksKeeps ==
  ASSUME TeleopInv, NEW c \in Clients, Unlocks(c)
  PROVE  TeleopInv'
<1>. USE DEF Unlocks, Frames
<1>1. /\ NoLease \in LeaseType /\ NoLease.id = 0 /\ NoLease.goal = 0
      /\ NoSetpoint \in SetpointType /\ ~NoSetpoint.moving /\ Still \in WheelsType
  BY Constants
<1>2. TeleopTypeOK'
  BY <1>1, Types, TypesNext DEF TeleopInv
<1>3. \A d \in Clients : call'[d].pc \notin {"sonar", "await"}
  <2>1. lock = c
    BY DEF TeleopInv, LockInv
  <2>. QED BY <2>1 DEF TeleopInv, LockInv
<1>4. LockInv'
  BY <1>3 DEF LockInv
<1>5. LeaseInv'
  <2>1. /\ lease'.id = 0 /\ lease'.goal = 0 /\ granted' = granted /\ nav' = nav /\ nav.goal \in Nat
        /\ known' = known /\ ~setpoint'.moving /\ loop' = loop /\ UNCHANGED NoLease
    BY <1>1, Numbers, Types DEF TeleopInv, NavType, NoLease
  <2>2. \A d \in Clients : call'[d].id <= granted'
    BY DEF TeleopInv, LeaseInv
  <2>. QED BY <1>3, <2>1, <2>2 DEF TeleopInv, LeaseInv
<1>6. SetpointInv'
  BY <1>1 DEF SetpointInv
<1>7. WheelsInv'
  BY StillIsNotDriven DEF WheelsInv, DeadmanHolds
<1>8. NavInv'
  BY <1>1, <1>3 DEF NavInv
<1>9. PostureInv'
  <2>. SUFFICES ASSUME NEW d \in Clients,
                       call'[d].op = "posture" /\ call'[d].pc \in {"cancel", "publish"}
                PROVE  /\ call'[d].goal <= nav'.goal
                       /\ call'[d].pc = "publish" /\ nav'.status = "active" => nav'.goal > call'[d].goal
    BY <1>1 DEF PostureInv
  <2>1. CASE d = c
    BY <2>1, Numbers, Types DEF TeleopInv, NavType
  <2>2. CASE d # c
    BY <2>2 DEF TeleopInv, PostureInv
  <2>. QED BY <2>1, <2>2
<1>. QED BY <1>2, <1>4, <1>5, <1>6, <1>7, <1>8, <1>9 DEF TeleopInv

-----------------------------------------------------------------------------
(* The grant of a lease, and a grant that is taken back.                      *)

\* A setpoint that still counts keeps its lease alive.
LEMMA FreshIsLive ==
  ASSUME TeleopInv, setpoint.moving, ~Stale
  PROVE  lease.id # 0 /\ lease.left > 0 /\ setpoint.by = lease.operator
<1>1. setpoint.by = lease.operator /\ setpoint.age + lease.left >= Ttl
  BY DEF TeleopInv, SetpointInv
<1>2. setpoint.age \in Nat /\ lease.left \in Nat /\ setpoint.age <= Deadman
  BY Numbers, Types DEF TeleopInv, SetpointType, LeaseType, Stale
<1>3. lease.left > 0
  BY <1>1, <1>2, Numbers
<1>4. lease.id # 0
  BY DEF TeleopInv, LeaseInv
<1>. QED BY <1>1, <1>3, <1>4

\* While the lock is free nobody waits under it.
LEMMA FreeLock ==
  ASSUME TeleopInv, lock = NoOne
  PROVE  \A d \in Clients : call[d].pc \notin {"sonar", "await"}
BY Numbers DEF TeleopInv, LockInv

\* Granting or refusing a lease keeps the invariant.
LEMMA AcquireKeeps ==
  ASSUME TeleopInv, NEW c \in Clients, Acquire(c)
  PROVE  TeleopInv'
<1>1. /\ granted \in 0..MaxLeases /\ granted < MaxLeases /\ granted' = granted + 1
      /\ granted + 1 \in 0..MaxLeases /\ granted + 1 # 0
      /\ lock = NoOne /\ lock' = NoOne /\ Grants(c)
      /\ UNCHANGED <<known, setpoint, loop, wheels, nav>>
  BY Types, Numbers DEF TeleopInv, Acquire, Asks
<1>2. Sets(c, "acquire", "state", granted + 1, 0)
  BY <1>1, WaitsShape, Types DEF TeleopInv, Acquire
<1>3. /\ lease' \in LeaseType /\ lease'.id = granted + 1 /\ lease'.operator = OperatorOf[c]
      /\ lease'.left = Ttl /\ lease'.goal = nav.goal
  <2>1. Ttl \in 0..Ttl /\ nav.goal \in 0..MaxGoals /\ OperatorOf[c] \in Operators
    BY Numbers, Types DEF TeleopInv, NavType
  <2>. QED BY <1>1, <2>1 DEF Acquire, LeaseType
<1>4. TeleopTypeOK'
  BY <1>1, <1>2, <1>3, Types, TypesNext DEF TeleopInv, Sets
<1>5. \A d \in Clients : call'[d].pc \notin {"sonar", "await"}
  BY <1>1, <1>2, FreeLock DEF Sets
<1>6. LockInv'
  BY <1>1, <1>5 DEF LockInv
<1>7. \A d \in Clients : call'[d].id <= granted + 1 /\ (d # c => call'[d].id < granted + 1)
  <2>1. \A d \in Clients : call[d].id <= granted /\ call[d].id \in Nat
    BY Types DEF TeleopInv, LeaseInv, CallType
  <2>. QED BY <1>1, <1>2, <2>1 DEF Sets
<1>8. (\A o \in Operators : known[o] < granted + 1) /\ loop.id < granted + 1 /\ loop.id \in Nat
  BY <1>1, Types DEF TeleopInv, LeaseInv, LoopType
<1>9. LeaseInv'
  <2>1. nav'.goal = nav.goal /\ nav.goal <= nav.goal
    BY <1>1, Numbers, Types DEF TeleopInv, NavType
  <2>2. loop'.pc # "none" => loop'.id # 0
    BY <1>1 DEF TeleopInv, LeaseInv
  <2>3. (\A o \in Operators : known'[o] <= granted') /\ loop'.id <= granted'
    BY <1>1, <1>8, Types DEF TeleopInv
  <2>. QED BY <1>1, <1>3, <1>5, <1>7, <2>1, <2>2, <2>3 DEF LeaseInv
<1>10. SetpointInv'
  <2>. SUFFICES ASSUME setpoint'.moving, ~Stale'
                PROVE  setpoint'.by = lease'.operator /\ setpoint'.age + lease'.left >= Ttl
    BY DEF SetpointInv
  <2>1. setpoint.moving /\ ~Stale
    BY <1>1 DEF Stale
  <2>2. lease.id # 0 /\ lease.left > 0 /\ setpoint.by = lease.operator
    BY <2>1, FreshIsLive
  <2>3. lease.operator = OperatorOf[c]
    BY <1>1, <2>2 DEF Grants, Expired
  <2>4. setpoint.age \in Nat
    BY Numbers, Types DEF TeleopInv, SetpointType
  <2>5. setpoint.age + Ttl >= Ttl
    BY <2>4, Numbers
  <2>. QED BY <1>1, <1>3, <2>2, <2>3, <2>5
<1>11. WheelsInv'
  BY <1>1, FreeLock, SameWheels DEF TeleopInv, WheelsInv
<1>12. NavInv'
  BY <1>1, <1>3, <1>5, <1>8 DEF NavInv
<1>13. PostureInv'
  <2>. SUFFICES ASSUME NEW d \in Clients,
                       call'[d].op = "posture" /\ call'[d].pc \in {"cancel", "publish"}
                PROVE  /\ call'[d].goal <= nav'.goal
                       /\ lease'.id > call'[d].id
                       /\ call'[d].pc = "publish" /\ nav'.status = "active" => nav'.goal > call'[d].goal
    BY DEF PostureInv
  <2>1. d # c /\ call'[d] = call[d]
    BY <1>2 DEF Sets
  <2>. QED BY <1>1, <1>3, <1>7, <2>1 DEF TeleopInv, PostureInv
<1>. QED BY <1>4, <1>6, <1>9, <1>10, <1>11, <1>12, <1>13 DEF TeleopInv

\* An acquisition that fails gives the lease back.
LEMMA FailsKeeps ==
  ASSUME TeleopInv, NEW c \in Clients, AcquireFails(c)
  PROVE  TeleopInv'
<1>1. /\ lock = NoOne /\ lock' = NoOne /\ UNCHANGED <<granted, known, loop, wheels, nav>>
      /\ \/ lease' = NoLease /\ setpoint' = NoSetpoint
         \/ lease' = lease /\ setpoint' = setpoint
      /\ call[c].op = "acquire"
  BY DEF AcquireFails, Clear, At
<1>2. Sets(c, "acquire", "stop", call[c].id, call[c].goal)
  BY <1>1, GoToShape, Types DEF TeleopInv, AcquireFails
<1>3. /\ NoLease \in LeaseType /\ NoLease.id = 0 /\ NoLease.goal = 0
      /\ NoSetpoint \in SetpointType /\ ~NoSetpoint.moving
      /\ nav.goal \in Nat /\ 0 <= nav.goal /\ UNCHANGED NoLease
  BY Constants, Numbers, Types DEF TeleopInv, NavType, NoLease
<1>4. TeleopTypeOK'
  BY <1>1, <1>2, <1>3, Types, TypesNext DEF TeleopInv, Sets
<1>5. \A d \in Clients : call'[d].pc \notin {"sonar", "await"}
  BY <1>1, <1>2, FreeLock DEF Sets
<1>6. LockInv'
  BY <1>1, <1>5 DEF LockInv
<1>7. LeaseInv'
  <2>1. \A d \in Clients : call'[d].id <= granted'
    BY <1>1, <1>2 DEF TeleopInv, LeaseInv, Sets
  <2>2. \/ lease'.id = 0 /\ lease'.goal = 0 /\ lease' = NoLease /\ ~setpoint'.moving
        \/ lease' = lease /\ setpoint' = setpoint
    BY <1>1, <1>3
  <2>. QED BY <1>1, <1>3, <1>5, <2>1, <2>2 DEF TeleopInv, LeaseInv
<1>8. SetpointInv'
  BY <1>1, <1>3 DEF TeleopInv, SetpointInv, Stale
<1>9. WheelsInv'
  BY <1>1, FreeLock, SameWheels DEF TeleopInv, WheelsInv
<1>10. NavInv'
  <2>1. CASE lease' = NoLease
    <3>1. lease'.id = 0 /\ (loop'.pc # "none" => loop'.id # 0)
      BY <1>1, <1>3, <2>1 DEF TeleopInv, LeaseInv
    <3>. QED BY <1>5, <3>1 DEF NavInv
  <2>2. CASE lease' = lease
    BY <1>1, <1>5, <2>2 DEF TeleopInv, NavInv
  <2>. QED BY <1>1, <2>1, <2>2
<1>11. PostureInv'
  <2>1. \A d \in Clients : call'[d].op = "posture" => call'[d] = call[d]
    BY <1>2 DEF Sets
  <2>2. lease'.id = 0 \/ lease'.id = lease.id
    BY <1>1, <1>3
  <2>. QED BY <1>1, <2>1, <2>2 DEF TeleopInv, PostureInv
<1>. QED BY <1>4, <1>6, <1>7, <1>8, <1>9, <1>10, <1>11 DEF TeleopInv

-----------------------------------------------------------------------------
(* A setpoint is written.                                                     *)

\* Whoever may write it: the lease stands, and navigation has been preempted.
LEMMA ApplyKeeps ==
  ASSUME TeleopInv, NEW c \in Clients, NEW moving \in BOOLEAN, NEW old \in 0..Old,
         Apply(c, moving, old), UNCHANGED <<granted, known, wheels, nav>>,
         lock \in {NoOne, c}, lock' = NoOne,
         call' \in [Clients -> CallType], \A d \in Clients \ {c} : call'[d] = call[d],
         call[c].pc # "await",
         call'[c].pc = "none", call'[c].op = "none", call'[c].id = 0,
         lease.id # 0, nav.status = "active" => nav.goal > lease.goal
  PROVE  TeleopInv'
<1>1. \A d \in Clients : call[d].pc # "await" /\ call'[d].pc \notin {"sonar", "await"}
  BY Numbers DEF TeleopInv, LockInv
<1>2. /\ setpoint' \in SetpointType /\ setpoint'.moving = moving /\ setpoint'.age = old
      /\ setpoint'.by = lease.operator
  <2>1. lease.operator \in Operators \union {NoOne}
    BY Types DEF TeleopInv, LeaseType
  <2>. QED BY <2>1 DEF Apply, SetpointType
<1>3. /\ lease' \in LeaseType /\ lease'.id = lease.id /\ lease'.operator = lease.operator
      /\ lease'.goal = lease.goal /\ (Ttl > old => old + lease'.left >= Ttl)
  <2>. DEFINE left == IF Ttl > old THEN Ttl - old ELSE 0
  <2>1. left \in 0..Ttl /\ (Ttl > old => old + left >= Ttl)
    BY Numbers
  <2>2. lease' = [lease EXCEPT !.left = left]
    BY DEF Apply
  <2>. HIDE DEF left
  <2>3. lease' \in LeaseType /\ lease'.left = left
    BY <2>1, <2>2, Types DEF TeleopInv, LeaseType
  <2>4. lease'.id = lease.id /\ lease'.operator = lease.operator /\ lease'.goal = lease.goal
    BY <2>2, Types DEF TeleopInv, LeaseType
  <2>. QED BY <2>1, <2>3, <2>4
<1>4. /\ loop' \in LoopType /\ loop'.id \in {loop.id, lease.id}
      /\ loop'.pc \in {loop.pc, "top"} /\ (loop' = loop \/ loop'.id # 0)
      /\ loop'.pc = "none" => loop' = loop
  <2>1. CASE moving /\ loop = NoLoop
    <3>1. 0 \in 0..Chunk /\ lease.id \in 0..MaxLeases
      BY Numbers, Types DEF TeleopInv, LeaseType
    <3>2. loop' = [pc |-> "top", id |-> lease.id, left |-> 0]
      BY <2>1 DEF Apply
    <3>. QED BY <3>1, <3>2 DEF LoopType
  <2>2. CASE ~(moving /\ loop = NoLoop)
    <3>1. loop' = loop
      BY <2>2 DEF Apply
    <3>. QED BY <3>1, Types DEF TeleopInv
  <2>. QED BY <2>1, <2>2
<1>5. TeleopTypeOK'
  BY <1>2, <1>3, <1>4, Types, TypesNext DEF TeleopInv
<1>6. LockInv'
  BY <1>1 DEF LockInv
<1>7. LeaseInv'
  <2>1. granted' = granted /\ 0 <= granted /\ lease.id = granted
    BY Types DEF TeleopInv, LeaseInv
  <2>2. loop'.id <= granted' /\ (loop'.pc # "none" => loop'.id # 0)
    BY <1>4, <2>1, Types DEF TeleopInv, LeaseInv
  <2>3. \A d \in Clients : call'[d].id <= granted'
    BY <2>1 DEF TeleopInv, LeaseInv
  <2>. QED BY <1>1, <1>3, <2>1, <2>2, <2>3 DEF TeleopInv, LeaseInv
<1>8. SetpointInv'
  <2>. SUFFICES ASSUME ~Stale'
                PROVE  setpoint'.by = lease'.operator /\ setpoint'.age + lease'.left >= Ttl
    BY DEF SetpointInv
  <2>1. ~(old > Deadman)
    BY <1>2 DEF Stale
  <2>2. Ttl > old
    BY <2>1, Numbers
  <2>. QED BY <1>2, <1>3, <2>2
<1>9. WheelsInv'
  BY <1>1, <1>4, SameWheels DEF TeleopInv, WheelsInv
<1>10. NavInv'
  BY <1>3 DEF NavInv
<1>11. PostureInv'
  <2>1. \A d \in Clients : call'[d].op = "posture" => call'[d] = call[d]
    OBVIOUS
  <2>. QED BY <1>3, <2>1 DEF TeleopInv, PostureInv
<1>. QED BY <1>5, <1>6, <1>7, <1>8, <1>9, <1>10, <1>11 DEF TeleopInv

\* An order keeps the invariant.
LEMMA SetVelocityKeeps ==
  ASSUME TeleopInv, NEW c \in Clients, NEW moving \in BOOLEAN, SetVelocity(c, moving)
  PROVE  TeleopInv'
<1>1. /\ call' = call /\ call[c].pc = "none" /\ call[c].op = "none" /\ call[c].id = 0
      /\ call \in [Clients -> CallType]
  BY Constants, Types DEF TeleopInv, SetVelocity
<1>2. lease.id # 0 /\ known[OperatorOf[c]] = lease.id /\ OperatorOf[c] \in Operators
  BY Numbers DEF SetVelocity, Accepts
<1>3. nav.status = "active" => nav.goal > lease.goal
  BY <1>2 DEF TeleopInv, NavInv
<1>4. 0 \in 0..Old
  BY Numbers
<1>. QED BY <1>1, <1>2, <1>3, <1>4, ApplyKeeps DEF SetVelocity

\* The answer of the sonar keeps the invariant.
LEMMA SonarKeeps ==
  ASSUME TeleopInv, NEW c \in Clients, SonarAnswers(c)
  PROVE  TeleopInv'
<1>1. Sets(c, "none", "none", 0, 0)
  BY ReturnShape, Types DEF TeleopInv, SonarAnswers
<1>2. call[c].pc = "sonar" /\ lock = c /\ lease.id # 0
  BY DEF TeleopInv, SonarAnswers, At, LockInv, LeaseInv
<1>3. nav.status = "active" => nav.goal > lease.goal
  BY <1>2 DEF TeleopInv, NavInv
<1>4. PICK moving \in BOOLEAN : Apply(c, moving, call[c].age)
  <2>1. PICK obstacle \in BOOLEAN : Apply(c, ~obstacle, call[c].age)
    BY DEF SonarAnswers
  <2>2. (~obstacle) \in BOOLEAN
    OBVIOUS
  <2>. QED BY <2>1, <2>2
<1>5. call[c].age \in 0..Old
  BY Types DEF TeleopInv, CallType
<1>6. /\ call' \in [Clients -> CallType] /\ (\A d \in Clients \ {c} : call'[d] = call[d])
      /\ call'[c].pc = "none" /\ call'[c].op = "none" /\ call'[c].id = 0
  BY <1>1 DEF Sets
<1>7. lock' = NoOne /\ UNCHANGED <<granted, known, wheels, nav>>
  BY DEF SonarAnswers
<1>. QED BY <1>2, <1>3, <1>4, <1>5, <1>6, <1>7, ApplyKeeps

-----------------------------------------------------------------------------
(* The drive loop, navigation and time.                                       *)

\* The loop looks at lease and deadman before it drives on.
LEMMA LoopTopKeeps ==
  ASSUME TeleopInv, LoopTop
  PROVE  TeleopInv'
<1>1. /\ UNCHANGED <<lease, granted, known, setpoint, wheels, lock, call, nav>>
      /\ loop.pc = "top"
  BY DEF LoopTop, session
<1>2. /\ loop' \in LoopType /\ loop'.id = loop.id
      /\ \/ loop'.pc = "hold" /\ loop.id = lease.id
         \/ loop'.pc = "releasing"
  <2>1. Chunk \in 0..Chunk
    BY Numbers
  <2>. QED BY <2>1, Types DEF TeleopInv, LoopTop, LoopType
<1>3. TeleopTypeOK'
  BY <1>1, <1>2, Types, TypesNext DEF TeleopInv
<1>4. LockInv' /\ SetpointInv' /\ PostureInv'
  BY <1>1 DEF TeleopInv, LockInv, SetpointInv, PostureInv, Stale
<1>5. LeaseInv'
  BY <1>1, <1>2 DEF TeleopInv, LeaseInv, NoLease
<1>6. WheelsInv'
  BY <1>1, <1>2, SameWheels DEF TeleopInv, WheelsInv
<1>7. NavInv'
  BY <1>1, <1>2 DEF TeleopInv, NavInv
<1>. QED BY <1>3, <1>4, <1>5, <1>6, <1>7 DEF TeleopInv

\* What a frame commands: nothing, or the holder's setpoint within the deadman.
LEMMA LiveShape ==
  ASSUME TeleopInv
  PROVE  /\ Live \in WheelsType
         /\ Live.moving => Live.age <= Deadman /\ Live.by = lease.operator
<1>1. CASE Stale \/ ~setpoint.moving
  BY <1>1, Constants DEF Live
<1>2. CASE ~Stale /\ setpoint.moving
  <2>1. Live = [moving |-> TRUE, by |-> setpoint.by, age |-> setpoint.age]
    BY <1>2 DEF Live
  <2>2. setpoint.by \in Operators \union {NoOne} /\ setpoint.age \in 0..Old
    BY Types DEF TeleopInv, SetpointType
  <2>3. setpoint.age <= Deadman
    BY <1>2, <2>2, Numbers DEF Stale
  <2>4. setpoint.by = lease.operator
    BY <1>2 DEF TeleopInv, SetpointInv
  <2>5. Live \in WheelsType
    BY <2>1, <2>2 DEF WheelsType
  <2>. QED BY <2>1, <2>3, <2>4, <2>5
<1>. QED BY <1>1, <1>2

\* A frame is of the order that the loop has seen.
LEMMA FrameKeeps ==
  ASSUME TeleopInv, Frame
  PROVE  TeleopInv'
<1>1. /\ UNCHANGED <<lease, granted, known, setpoint, loop, lock, call, nav>>
      /\ loop.pc = "hold" /\ wheels' = Live
  BY DEF Frame, session, UpToDate
<1>2. TeleopTypeOK'
  BY <1>1, LiveShape, Types, TypesNext DEF TeleopInv
<1>3. LockInv' /\ SetpointInv' /\ PostureInv' /\ LeaseInv' /\ NavInv'
  BY <1>1 DEF TeleopInv, LockInv, SetpointInv, PostureInv, Stale, LeaseInv, NavInv, NoLease
<1>4. WheelsInv'
  <2>1. wheels'.moving => wheels'.age <= Deadman
    BY <1>1, LiveShape
  <2>2. wheels'.age \in Nat
    BY <1>1, LiveShape, Numbers DEF WheelsType
  <2>3. wheels'.moving => wheels'.age <= Deadman + 1
    BY <2>1, <2>2, Numbers
  <2>. QED BY <1>1, <2>3 DEF WheelsInv, DeadmanHolds, Driven
<1>. QED BY <1>2, <1>3, <1>4 DEF TeleopInv

\* The loop comes back after its chunk.
LEMMA ChunkEndsKeeps ==
  ASSUME TeleopInv, ChunkEnds
  PROVE  TeleopInv'
<1>1. /\ UNCHANGED <<lease, granted, known, setpoint, wheels, lock, call, nav>>
      /\ loop.pc = "hold"
  BY DEF ChunkEnds, session
<1>2. loop' \in LoopType /\ loop'.id = loop.id /\ loop'.pc = "top"
  BY Types DEF TeleopInv, ChunkEnds, LoopType
<1>3. TeleopTypeOK'
  BY <1>1, <1>2, Types, TypesNext DEF TeleopInv
<1>4. LockInv' /\ SetpointInv' /\ PostureInv'
  BY <1>1 DEF TeleopInv, LockInv, SetpointInv, PostureInv, Stale
<1>5. LeaseInv'
  BY <1>1, <1>2 DEF TeleopInv, LeaseInv, NoLease
<1>6. WheelsInv'
  BY <1>1, <1>2, SameWheels DEF TeleopInv, WheelsInv
<1>7. NavInv'
  BY <1>1, <1>2 DEF TeleopInv, NavInv
<1>. QED BY <1>3, <1>4, <1>5, <1>6, <1>7 DEF TeleopInv

\* A loop that is over stops the robot.
LEMMA LoopReleasesKeeps ==
  ASSUME TeleopInv, LoopReleases
  PROVE  TeleopInv'
<1>1. /\ UNCHANGED <<lease, granted, known, setpoint, lock, call, nav>>
      /\ wheels' = Still /\ loop' = NoLoop
  BY DEF LoopReleases, session, Halted
<1>2. loop' \in LoopType /\ loop'.id = 0 /\ loop'.pc = "none"
  BY <1>1, Constants
<1>3. TeleopTypeOK'
  BY <1>1, <1>2, Constants, Types, TypesNext DEF TeleopInv
<1>4. LockInv' /\ SetpointInv' /\ PostureInv'
  BY <1>1, <1>2 DEF TeleopInv, LockInv, SetpointInv, PostureInv, Stale
<1>5. LeaseInv'
  <2>1. 0 <= granted
    BY Types DEF TeleopInv
  <2>. QED BY <1>1, <1>2, <2>1 DEF TeleopInv, LeaseInv, NoLease
<1>6. WheelsInv'
  BY <1>1, StillIsNotDriven DEF WheelsInv, DeadmanHolds
<1>7. NavInv'
  BY <1>1, <1>2 DEF TeleopInv, NavInv
<1>. QED BY <1>3, <1>4, <1>5, <1>6, <1>7 DEF TeleopInv

\* A goal that is accepted is newer than any that a lease has seen.
LEMMA NavStartsKeeps ==
  ASSUME TeleopInv, NavStarts
  PROVE  TeleopInv'
<1>1. /\ UNCHANGED <<lease, granted, known, setpoint, loop, wheels, lock, call>>
      /\ nav.goal \in Nat /\ nav'.goal = nav.goal + 1
  BY Numbers, Types DEF TeleopInv, NavType, NavStarts, session
<1>2. nav' \in NavType
  <2>1. nav.goal + 1 \in 0..MaxGoals
    BY <1>1, Numbers DEF NavStarts
  <2>. QED BY <2>1 DEF NavStarts, NavType
<1>3. TeleopTypeOK'
  BY <1>1, <1>2, Types, TypesNext DEF TeleopInv
<1>4. LockInv' /\ SetpointInv'
  BY <1>1 DEF TeleopInv, LockInv, SetpointInv, Stale
<1>5. lease.goal <= nav.goal /\ lease.goal \in Nat
  BY Numbers, Types DEF TeleopInv, LeaseInv, LeaseType
<1>6. nav'.goal > lease.goal /\ lease.goal <= nav'.goal
  BY <1>1, <1>5
<1>7. LeaseInv'
  BY <1>1, <1>6 DEF TeleopInv, LeaseInv, NoLease
<1>8. WheelsInv'
  BY <1>1, SameWheels DEF TeleopInv, WheelsInv
<1>9. NavInv'
  BY <1>1, <1>6 DEF NavInv
<1>10. PostureInv'
  <2>. SUFFICES ASSUME NEW d \in Clients, call[d].op = "posture", call[d].pc \in {"cancel", "publish"}
                PROVE  /\ call[d].goal <= nav'.goal /\ nav'.goal > call[d].goal
                       /\ lease.id = 0 \/ lease.id > call[d].id
    BY <1>1 DEF PostureInv
  <2>1. call[d].goal <= nav.goal /\ call[d].goal \in Nat
    BY Numbers, Types DEF TeleopInv, PostureInv, CallType
  <2>2. lease.id = 0 \/ lease.id > call[d].id
    BY DEF TeleopInv, PostureInv
  <2>. QED BY <1>1, <2>1, <2>2
<1>. QED BY <1>3, <1>4, <1>7, <1>8, <1>9, <1>10 DEF TeleopInv

\* Navigation drives while its goal is active.
LEMMA NavDrivesKeeps ==
  ASSUME TeleopInv, NavDrives
  PROVE  TeleopInv'
<1>1. /\ UNCHANGED <<lease, granted, known, setpoint, lock, call, nav>>
      /\ wheels' = [moving |-> TRUE, by |-> Nav, age |-> 0] /\ loop' = Preempted
  BY DEF NavDrives, session
<1>2. /\ loop' \in LoopType /\ loop'.id = loop.id
      /\ loop'.pc = (IF loop.pc = "hold" THEN "top" ELSE loop.pc)
  BY <1>1, PreemptedShape, Types DEF TeleopInv
<1>3. wheels' \in WheelsType /\ wheels'.by = Nav
  <2>1. 0 \in 0..Old
    BY Numbers
  <2>. QED BY <1>1, <2>1 DEF WheelsType
<1>4. TeleopTypeOK'
  BY <1>1, <1>2, <1>3, Types, TypesNext DEF TeleopInv
<1>5. LockInv' /\ SetpointInv' /\ PostureInv'
  BY <1>1, <1>2 DEF TeleopInv, LockInv, SetpointInv, PostureInv, Stale
<1>6. LeaseInv'
  BY <1>1, <1>2 DEF TeleopInv, LeaseInv, NoLease
<1>7. WheelsInv'
  BY <1>3, Numbers DEF WheelsInv, DeadmanHolds, Driven, Operators
<1>8. NavInv'
  BY <1>1, <1>2 DEF TeleopInv, NavInv
<1>. QED BY <1>4, <1>5, <1>6, <1>7, <1>8 DEF TeleopInv

\* Navigation rests.
LEMMA NavRestsKeeps ==
  ASSUME TeleopInv, NavRests
  PROVE  TeleopInv'
<1>1. /\ UNCHANGED <<lease, granted, known, setpoint, loop, lock, call>>
      /\ wheels' = Still
  BY DEF NavRests, session, Halted
<1>2. nav' \in NavType /\ nav'.goal = nav.goal /\ (nav'.status = "active" => nav.status = "active")
  <2>1. nav \in NavType
    BY Types DEF TeleopInv
  <2>2. nav' = nav \/ nav' = [nav EXCEPT !.status = IF @ = "active" THEN "ended" ELSE @]
    BY DEF NavRests
  <2>. QED BY <2>1, <2>2 DEF NavType
<1>3. TeleopTypeOK'
  BY <1>1, <1>2, Constants, Types, TypesNext DEF TeleopInv
<1>4. LockInv' /\ SetpointInv'
  BY <1>1 DEF TeleopInv, LockInv, SetpointInv, Stale
<1>5. LeaseInv'
  BY <1>1, <1>2 DEF TeleopInv, LeaseInv, NoLease
<1>6. WheelsInv'
  BY <1>1, StillIsNotDriven DEF WheelsInv, DeadmanHolds
<1>7. NavInv' /\ PostureInv'
  BY <1>1, <1>2 DEF TeleopInv, NavInv, PostureInv
<1>. QED BY <1>3, <1>4, <1>5, <1>6, <1>7 DEF TeleopInv

\* A tick ages what is held and shortens what is left, by one at most.
LEMMA TickShape ==
  ASSUME TeleopInv, Tick
  PROVE  /\ UNCHANGED <<granted, known, lock, nav>>
         /\ loop' \in LoopType /\ loop'.pc = loop.pc /\ loop'.id = loop.id
         /\ lease' \in LeaseType /\ lease'.id = lease.id /\ lease'.operator = lease.operator
         /\ lease'.goal = lease.goal /\ lease'.left = Less(lease.left)
         /\ setpoint' \in SetpointType /\ setpoint'.moving = setpoint.moving
         /\ setpoint'.by = setpoint.by /\ setpoint'.age = Older(setpoint.age)
         /\ wheels' \in WheelsType /\ wheels'.moving = wheels.moving /\ wheels'.by = wheels.by
         /\ wheels'.age \in {wheels.age, Older(wheels.age)}
         /\ call' \in [Clients -> CallType]
         /\ \A d \in Clients : /\ call'[d].op = call[d].op /\ call'[d].pc = call[d].pc
                               /\ call'[d].id = call[d].id /\ call'[d].goal = call[d].goal
<1>1. /\ lease \in LeaseType /\ setpoint \in SetpointType /\ loop \in LoopType
      /\ wheels \in WheelsType /\ call \in [Clients -> CallType]
  BY Types DEF TeleopInv
<1>2. (\A n \in 0..Chunk : Less(n) \in 0..Chunk) /\ (\A n \in 0..Ttl : Less(n) \in 0..Ttl)
  BY Numbers DEF Less
<1>3. \A a \in 0..Old : Older(a) \in 0..Old
  BY Numbers DEF Older
<1>4. loop' \in LoopType /\ loop'.pc = loop.pc /\ loop'.id = loop.id
  <2>1. Less(loop.left) \in 0..Chunk /\ loop' = [loop EXCEPT !.left = Less(loop.left)]
    BY <1>1, <1>2 DEF Tick, LoopType
  <2>. QED BY <1>1, <2>1 DEF LoopType
<1>5. /\ lease' \in LeaseType /\ lease'.id = lease.id /\ lease'.operator = lease.operator
      /\ lease'.goal = lease.goal /\ lease'.left = Less(lease.left)
  <2>1. Less(lease.left) \in 0..Ttl /\ lease' = [lease EXCEPT !.left = Less(lease.left)]
    BY <1>1, <1>2 DEF Tick, LeaseType
  <2>. QED BY <1>1, <2>1 DEF LeaseType
<1>6. /\ setpoint' \in SetpointType /\ setpoint'.moving = setpoint.moving
      /\ setpoint'.by = setpoint.by /\ setpoint'.age = Older(setpoint.age)
  <2>1. Older(setpoint.age) \in 0..Old /\ setpoint' = [setpoint EXCEPT !.age = Older(setpoint.age)]
    BY <1>1, <1>3 DEF Tick, SetpointType
  <2>. QED BY <1>1, <2>1 DEF SetpointType
<1>7. /\ wheels' \in WheelsType /\ wheels'.moving = wheels.moving /\ wheels'.by = wheels.by
      /\ wheels'.age \in {wheels.age, Older(wheels.age)}
  <2>1. Older(wheels.age) \in 0..Old
    BY <1>1, <1>3 DEF WheelsType
  <2>2. wheels' = wheels \/ wheels' = [wheels EXCEPT !.age = Older(wheels.age)]
    BY DEF Tick
  <2>. QED BY <1>1, <2>1, <2>2 DEF WheelsType
<1>8. ASSUME NEW d \in Clients
      PROVE  /\ call'[d] \in CallType /\ call'[d].op = call[d].op /\ call'[d].pc = call[d].pc
             /\ call'[d].id = call[d].id /\ call'[d].goal = call[d].goal
  <2>1. call[d] \in CallType /\ Older(call[d].age) \in 0..Old
    BY <1>1, <1>3 DEF CallType
  <2>2. call'[d] = call[d] \/ call'[d] = [call[d] EXCEPT !.age = Older(call[d].age)]
    BY DEF Tick
  <2>. QED BY <2>1, <2>2 DEF CallType
<1>9. call' \in [Clients -> CallType]
  <2>1. call' = [d \in Clients |-> call'[d]]
    BY DEF Tick
  <2>. QED BY <1>8, <2>1
<1>. QED BY <1>4, <1>5, <1>6, <1>7, <1>8, <1>9 DEF Tick

\* Time passes for leases, orders and frames.
LEMMA TickKeeps ==
  ASSUME TeleopInv, Tick
  PROVE  TeleopInv'
<1>1. TeleopTypeOK'
  BY TickShape, Types, TypesNext DEF TeleopInv
<1>2. LockInv' /\ NavInv' /\ PostureInv'
  BY TickShape, Types DEF TeleopInv, LockInv, NavInv, PostureInv
<1>3. LeaseInv'
  <2>1. ASSUME lease'.id = 0 PROVE lease' = NoLease' /\ ~setpoint'.moving
    <3>1. lease = NoLease /\ ~setpoint.moving
      BY <2>1, TickShape DEF TeleopInv, LeaseInv
    <3>2. lease' = [lease EXCEPT !.left = Less(lease.left)] /\ lease.left = 0
      BY <3>1 DEF Tick, NoLease
    <3>3. Less(lease.left) = 0
      BY <3>2 DEF Less
    <3>4. lease' = NoLease
      BY <3>1, <3>2, <3>3 DEF NoLease
    <3>. QED BY <3>1, <3>4, TickShape DEF NoLease
  <2>. QED BY <2>1, TickShape DEF TeleopInv, LeaseInv
<1>4. SetpointInv'
  <2>. SUFFICES ASSUME setpoint'.moving, ~Stale'
                PROVE  setpoint'.by = lease'.operator /\ setpoint'.age + lease'.left >= Ttl
    BY DEF SetpointInv
  <2>1. setpoint.age \in 0..Old /\ lease.left \in Nat
    BY Numbers, Types DEF TeleopInv, SetpointType, LeaseType
  <2>2. ~(Older(setpoint.age) > Deadman)
    BY TickShape DEF Stale
  <2>3. setpoint.age <= Deadman /\ Older(setpoint.age) = setpoint.age + 1
    BY <2>1, <2>2, Numbers DEF Older
  <2>4. setpoint.by = lease.operator /\ setpoint.age + lease.left >= Ttl
    <3>1. ~Stale
      BY <2>1, <2>3, Numbers DEF Stale
    <3>2. setpoint'.moving = setpoint.moving
      BY TickShape
    <3>. QED BY <3>1, <3>2 DEF TeleopInv, SetpointInv
  <2>5. Older(setpoint.age) + Less(lease.left) >= Ttl
    BY <2>1, <2>3, <2>4, Numbers DEF Less
  <2>. QED BY <2>4, <2>5, TickShape
<1>5. WheelsInv'
  <2>. SUFFICES ASSUME Driven'
                PROVE  wheels'.age <= Deadman + 1 /\ loop'.pc # "none"
    BY DEF WheelsInv, DeadmanHolds
  <2>1. Driven
    BY TickShape DEF Driven
  <2>2. loop.pc = "hold"
    BY <2>1 DEF TeleopInv, WheelsInv, Tick, Halting
  <2>3. wheels = Live
    BY <2>2 DEF Tick, UpToDate
  <2>4. wheels.age <= Deadman /\ wheels.age \in 0..Old
    BY <2>1, <2>3, LiveShape, Types DEF TeleopInv, Driven, WheelsType
  <2>5. wheels.age <= Deadman + 1 /\ Older(wheels.age) <= Deadman + 1
    BY <2>4, Numbers DEF Older
  <2>. QED BY <2>2, <2>5, TickShape
<1>. QED BY <1>1, <1>2, <1>3, <1>4, <1>5 DEF TeleopInv

-----------------------------------------------------------------------------
(* The theorems.                                                              *)

\* Nobody has a lease yet.
LEMMA TeleopInitInv == TeleopInit => TeleopInv
<1>. SUFFICES ASSUME TeleopInit PROVE TeleopInv
  OBVIOUS
<1>1. /\ lease = NoLease /\ granted = 0 /\ setpoint = NoSetpoint /\ loop = NoLoop /\ wheels = Still
      /\ known = [o \in Operators |-> 0] /\ call = [c \in Clients |-> NoCall] /\ lock = NoOne
      /\ nav = [status |-> "idle", goal |-> 0]
  BY DEF TeleopInit
<1>2. 0 \in 0..MaxLeases /\ 0 \in 0..MaxGoals
  BY Numbers
<1>3. TeleopTypeOK
  BY <1>1, <1>2, Constants, Types DEF NavType
<1>4. LockInv /\ SetpointInv /\ WheelsInv /\ NavInv /\ PostureInv
  BY <1>1, Constants
     DEF LockInv, SetpointInv, WheelsInv, DeadmanHolds, Driven, NavInv, PostureInv
<1>5. LeaseInv
  BY <1>1, Constants DEF LeaseInv
<1>. QED BY <1>3, <1>4, <1>5 DEF TeleopInv

\* A step of others changes nothing.
LEMMA StutterKeeps ==
  ASSUME TeleopInv, UNCHANGED teleopVars
  PROVE  TeleopInv'
<1>1. UNCHANGED <<lease, granted, known, setpoint, loop, wheels, lock, call, nav>>
  BY DEF teleopVars
<1>. QED
  BY <1>1 DEF TeleopInv, TeleopTypeOK, LockInv, LeaseInv, SetpointInv, WheelsInv,
     DeadmanHolds, Driven,
              NavInv, PostureInv, Stale, NoLease

\* Every call and every answer of a client is of one of the kinds above.
LEMMA ClientKeeps ==
  ASSUME TeleopInv, NEW c \in Clients, Calls(c) \/ Answers(c)
  PROVE  TeleopInv'
<1>1. CASE Calls(c)
  <2>1. CASE Acquire(c)
    BY <2>1, AcquireKeeps
  <2>2. CASE Release(c)
    BY <2>2, ReleaseLocks, LocksKeeps
  <2>3. CASE ReleasesNothing(c)
    BY <2>3, NothingQuiet, QuietKeeps
  <2>4. CASE EmergencyStop(c)
    BY <2>4, EmergencyLocks, LocksKeeps
  <2>5. CASE PostureAsks(c)
    BY <2>5, PostureAsksShape, LocksKeeps, QuietKeeps
  <2>6. CASE \E moving \in BOOLEAN : SetVelocity(c, moving)
    BY <2>6, SetVelocityKeeps
  <2>7. CASE SetForward(c)
    BY <2>7, ForwardLocks, LocksKeeps
  <2>. QED BY <1>1, <2>1, <2>2, <2>3, <2>4, <2>5, <2>6, <2>7 DEF Calls
<1>2. CASE Answers(c)
  <2>1. CASE AcquireLooks(c)
    BY <2>1, LooksQuiet, QuietKeeps
  <2>2. CASE AcquireCancels(c)
    BY <2>2, AcquireCancelsQuiet, QuietKeeps
  <2>3. CASE AcquireFails(c)
    BY <2>3, FailsKeeps
  <2>4. CASE AcquireStops(c)
    BY <2>4, StopsQuiet, QuietKeeps
  <2>5. CASE Released(c)
    BY <2>5, ReleasedUnlocks, UnlocksKeeps
  <2>6. CASE EmergencyStops(c)
    BY <2>6, EmergencyUnlocks, UnlocksKeeps
  <2>7. CASE EmergencyCancels(c)
    BY <2>7, EmergencyCancelsQuiet, QuietKeeps
  <2>8. CASE SonarAnswers(c)
    BY <2>8, SonarKeeps
  <2>9. CASE PostureReleased(c)
    BY <2>9, PostureUnlocks, UnlocksKeeps
  <2>10. CASE PostureCancels(c)
    BY <2>10, PostureCancelsQuiet, QuietKeeps
  <2>11. CASE SetPosture(c)
    BY <2>11, SetPostureQuiet, QuietKeeps
  <2>. QED BY <1>2, <2>1, <2>2, <2>3, <2>4, <2>5, <2>6, <2>7, <2>8, <2>9, <2>10, <2>11 DEF
     Answers
<1>. QED BY <1>1, <1>2

\* Every step keeps the invariant.
LEMMA TeleopNextInv ==
  ASSUME TeleopInv, [TeleopNext]_teleopVars
  PROVE  TeleopInv'
<1>1. CASE \E c \in Clients : Calls(c) \/ Answers(c)
  BY <1>1, ClientKeeps
<1>2. CASE LoopStep
  BY <1>2, LoopTopKeeps, FrameKeeps, ChunkEndsKeeps, LoopReleasesKeeps DEF LoopStep
<1>3. CASE NavStarts \/ NavDrives \/ NavRests
  BY <1>3, NavStartsKeeps, NavDrivesKeeps, NavRestsKeeps
<1>4. CASE Tick
  BY <1>4, TickKeeps
<1>5. CASE UNCHANGED teleopVars
  BY <1>5, StutterKeeps
<1>. QED BY <1>1, <1>2, <1>3, <1>4, <1>5 DEF TeleopNext

\* The whole invariant, with the type of every variable, holds in every state.
THEOREM TeleopInvariant == TeleopSpec => []TeleopInv
<1>1. TeleopInv /\ [TeleopNext]_teleopVars => TeleopInv'
  BY TeleopNextInv
<1>. QED BY <1>1, TeleopInitInv, PTL DEF TeleopSpec

\* TeleopSession holds _lock only while it reads the sensor or while the loop it
\* has cancelled ends: never across navigation or a loop that drives.
THEOREM LockIsBriefAlways == TeleopSpec => []LockIsBrief
<1>1. TeleopInv => LockIsBrief
  BY Types DEF TeleopInv, LockInv, LockIsBrief
<1>. QED BY <1>1, TeleopInvariant, PTL

\* The robot moves for an operator only while that operator holds the lease, and
\* stops within the deadman of the last setpoint: however many clients call, and
\* wherever the drive loop is cancelled.
THEOREM HolderOnly == TeleopSpec => []DrivenByHolder
<1>1. ASSUME TeleopInv, Settled, Driven PROVE lease.operator = wheels.by
  <2>1. loop.pc = "hold"
    BY <1>1 DEF TeleopInv, WheelsInv, Settled, Halting
  <2>2. wheels = Live
    BY <1>1, <2>1 DEF Settled, UpToDate
  <2>. QED BY <1>1, <2>2, LiveShape DEF Driven
<1>2. TeleopInv => DrivenByHolder
  BY <1>1 DEF TeleopInv, WheelsInv, DrivenByHolder, HolderDrives
<1>. QED BY <1>2, TeleopInvariant, PTL

\* Manual control preempts the goals it found, and a posture goes out only once the
\* dashboard drives no more and the goal it found is no longer active.
THEOREM OneMoverAlways == TeleopSpec => []OneMover
<1>1. ASSUME TeleopInv PROVE NavYields
  BY <1>1 DEF TeleopInv, NavInv, NavYields
<1>2. ASSUME TeleopInv, NEW c \in Clients, At(c, "posture", "publish")
      PROVE  /\ Settled /\ Driven /\ wheels.by = Dashboard => lease.id > call[c].id
             /\ nav.status = "active" => nav.goal > call[c].goal
  <2>1. /\ lease.id = 0 \/ lease.id > call[c].id
        /\ nav.status = "active" => nav.goal > call[c].goal
    BY <1>2 DEF TeleopInv, PostureInv, At
  <2>2. ASSUME Settled, Driven PROVE lease.id # 0
    <3>1. loop.pc = "hold" /\ wheels = Live /\ Live.moving
      BY <1>2, <2>2 DEF TeleopInv, WheelsInv, Settled, Halting, UpToDate, Driven
    <3>2. setpoint.moving
      BY <3>1, Constants DEF Live
    <3>. QED BY <1>2, <3>2 DEF TeleopInv, LeaseInv
  <2>. QED BY <2>1, <2>2
<1>3. TeleopInv => OneMover
  BY <1>1, <1>2 DEF OneMover, PostureIsAlone
<1>. QED BY <1>3, TeleopInvariant, PTL

-----------------------------------------------------------------------------
(* The robot in motion, from every side.                                   *)

\* A step is one of a part, and nothing to the others.
LEMMA OnePartSteps ==
  ASSUME [DrivingNext]_drivingVars
  PROVE  [TelemetryNext]_telemetryVars /\ [StreamNext]_streamVars /\ [TeleopNext]_teleopVars
<1>1. CASE ByTelemetry(TelemetryNext)
  BY <1>1, Zenon DEF ByTelemetry
<1>2. CASE ByStreams(StreamNext)
  BY <1>2, Zenon DEF ByStreams
<1>3. CASE ByOperators(TeleopNext)
  BY <1>3, Zenon DEF ByOperators
<1>4. CASE UNCHANGED drivingVars
  BY <1>4 DEF drivingVars
<1>. QED BY <1>1, <1>2, <1>3, <1>4, Zenon DEF DrivingNext

\* Driving behaves as each of its parts.
LEMMA PartsOfDriving == DrivingSpec => TelemetrySpec /\ StreamSpec /\ TeleopSpec
<1>1. DrivingInit => TelemetryInit /\ StreamInit /\ TeleopInit
  BY Zenon DEF DrivingInit
<1>2. [DrivingNext]_drivingVars
        => [TelemetryNext]_telemetryVars /\ [StreamNext]_streamVars /\ [TeleopNext]_teleopVars
  BY OnePartSteps
<1>. QED BY <1>1, <1>2, PTL DEF DrivingSpec, TelemetrySpec, StreamSpec, TeleopSpec

\* The robot drives on a recent word of its own, for the holder of the lease, in the order of
\* the requests, and comes to rest when nobody drives it: all that the run of Driving checks.
THEOREM DrivingKeepsItsPromises ==
  DrivingSpec =>
    /\ [](StaysStill /\ DrivesOnRecentWord /\ DrivenByHolder /\ OneMover /\ LockIsBrief)
    /\ NoInterleaving
BY PartsOfDriving, RecentWord, StaysStillAlways, FramesNeverInterleave, HolderOnly, OneMoverAlways,
   LockIsBriefAlways, PTL

=============================================================================
