---------------------------- MODULE TeleopSession ----------------------------
(***************************************************************************)
(* The one TeleopSession of the process: a motion lease with an expiry, a  *)
(* shared velocity setpoint, and a drive loop that streams it to the robot *)
(* in chunks under a deadman.  Several clients call it at once (dashboard  *)
(* requests, gRPC, the gateway's bridge); an asyncio.Lock guards the lease *)
(* and is held across some awaits.  Time is kept as ages and remainders.   *)
(***************************************************************************)
EXTENDS Naturals

CONSTANTS
  Clients,       \* concurrent callers of the session
  OperatorOf,    \* the operator_id each presents
  Dashboard,     \* the operator_id of the dashboard's keyboard
  NoOne,         \* nobody
  Deadman,       \* teleop_deadman_ms, in ticks
  Ttl,           \* teleop_lease_ttl_ms
  Chunk,         \* teleop_chunk_seconds
  MaxLeases,     \* bound on the leases granted
  MaxGoals       \* bound on the navigation goals started

Operators == {OperatorOf[c] : c \in Clients}
Nav == "navigation"  \* who moves the robot when no operator does

\* The defaults: a deadman of 300 ms well below the 2000 ms the lease lives.
ASSUME TeleopAssumption ==
  /\ Deadman \in Nat /\ Chunk \in Nat \ {0} /\ MaxLeases \in Nat /\ MaxGoals \in Nat
  /\ Ttl \in Nat /\ Ttl > Deadman + 1
  /\ NoOne \notin Operators \union Clients /\ Nav \notin Operators

VARIABLES
  lease,      \* _lease_id, _operator, time left; goal: newest goal when granted
  granted,    \* leases granted so far: the source of ids
  known,      \* the lease id each operator holds on to
  setpoint,   \* _setpoint and its age; whose it is
  loop,       \* _drive_task
  wheels,     \* the velocity last commanded: moving, for whom, how old its setpoint
  lock,       \* the client inside _lock across an await
  call,       \* what each client awaits
  nav         \* the navigation client: status and id of its goal

teleopVars == <<lease, granted, known, setpoint, loop, wheels, lock, call, nav>>
session == <<lease, granted, known, setpoint>>

Old == Deadman + 2    \* ages stop counting here

NoLease == [id |-> 0, operator |-> NoOne, left |-> 0, goal |-> 0]
NoSetpoint == [moving |-> FALSE, age |-> Old, by |-> NoOne]
NoLoop == [pc |-> "none", id |-> 0, left |-> 0]
Still == [moving |-> FALSE, by |-> NoOne, age |-> 0]
NoCall == [op |-> "none", pc |-> "none", id |-> 0, age |-> 0, goal |-> 0]

TeleopTypeOK ==
  /\ lease \in [id: 0..MaxLeases, operator: Operators \union {NoOne}, left: 0..Ttl, goal: 0..MaxGoals]
  /\ granted \in 0..MaxLeases
  /\ known \in [Operators -> 0..MaxLeases]
  /\ setpoint \in [moving: BOOLEAN, age: 0..Old, by: Operators \union {NoOne}]
  /\ loop \in [pc: {"none", "top", "hold", "releasing"}, id: 0..MaxLeases, left: 0..Chunk]
  /\ wheels \in [moving: BOOLEAN, by: Operators \union {NoOne, Nav}, age: 0..Old]
  /\ lock \in Clients \union {NoOne}
  /\ call \in [Clients -> [op: {"none", "acquire", "set", "release", "estop", "posture"},
                           pc: {"none", "state", "cancel", "failed", "stop", "sonar", "await", "nav",
                                "publish"},
                           id: 0..MaxLeases, age: 0..Old, goal: 0..MaxGoals]]
  /\ nav \in [status: {"idle", "active", "ended", "canceled"}, goal: 0..MaxGoals]

TeleopInit ==
  /\ lease = NoLease /\ granted = 0 /\ known = [o \in Operators |-> 0]
  /\ setpoint = NoSetpoint /\ loop = NoLoop /\ wheels = Still
  /\ lock = NoOne /\ call = [c \in Clients |-> NoCall]
  /\ nav = [status |-> "idle", goal |-> 0]

Stale == setpoint.age > Deadman
Expired == lease.left = 0
Return(c) == call' = [call EXCEPT ![c] = NoCall]
At(c, op, pc) == call[c].op = op /\ call[c].pc = pc
GoTo(c, pc) == call' = [call EXCEPT ![c].pc = pc]
Waits(c, op, pc, id) == call' = [call EXCEPT ![c] = [NoCall EXCEPT !.op = op, !.pc = pc, !.id = id]]

\* robot.stop, release_drive: zero frames; a stream in flight is preempted and
\* its hold returns to the loop.
Halted == wheels' = Still
Preempted == IF loop.pc = "hold" THEN [loop EXCEPT !.pc = "top", !.left = 0] ELSE loop

-----------------------------------------------------------------------------
(* Leases.                                                                 *)

\* Fault: a live lease of somebody else is no obstacle.
Grants_Anyone(c) == TRUE

Grants(c) == lease.id = 0 \/ Expired \/ lease.operator = OperatorOf[c]

\* set_web_teleop acquires when the dashboard holds on to no lease.
Asks(c) == /\ call[c] = NoCall /\ lock = NoOne
           /\ OperatorOf[c] = Dashboard => known[Dashboard] = 0

\* Fault: the lock is kept while navigation is cancelled.
Acquire_HoldsLock(c) ==
  /\ Asks(c) /\ Grants(c) /\ granted < MaxLeases
  /\ granted' = granted + 1
  /\ lease' = [id |-> granted + 1, operator |-> OperatorOf[c], left |-> Ttl, goal |-> nav.goal]
  /\ Waits(c, "acquire", "state", granted + 1)
  /\ lock' = c
  /\ UNCHANGED <<known, setpoint, loop, wheels, nav>>

\* The grant, under the lock; the setpoint of the former lease is left in place.
Acquire(c) ==
  /\ Asks(c) /\ Grants(c) /\ granted < MaxLeases
  /\ granted' = granted + 1
  /\ lease' = [id |-> granted + 1, operator |-> OperatorOf[c], left |-> Ttl, goal |-> nav.goal]
  /\ Waits(c, "acquire", "state", granted + 1)
  /\ UNCHANGED <<known, setpoint, loop, wheels, lock, nav>>

\* Outside the lock: look at navigation, return the lease when none is active.
AcquireLooks(c) ==
  /\ At(c, "acquire", "state")
  /\ IF nav.status = "active"
     THEN /\ call' = [call EXCEPT ![c].pc = "cancel", ![c].goal = nav.goal]
          /\ UNCHANGED known
     ELSE Return(c) /\ known' = [known EXCEPT ![OperatorOf[c]] = call[c].id]
  /\ UNCHANGED <<lease, granted, setpoint, loop, wheels, lock, nav>>

\* Fault: a failed preemption does not refuse the lease.
AcquireCancels_Ignores(c) ==
  /\ At(c, "acquire", "cancel")
  /\ \/ /\ nav.status = "active"
        /\ nav' = [nav EXCEPT !.status = "canceled"]
        /\ Halted /\ loop' = Preempted
     \/ UNCHANGED <<nav, wheels, loop>>
  /\ known' = [known EXCEPT ![OperatorOf[c]] = call[c].id]
  /\ Return(c)
  /\ UNCHANGED <<lease, granted, setpoint, lock>>

\* navigation.cancel(goal) stops the robot and ends that goal, or raises. A goal
\* that ended by itself or was replaced meanwhile answers neither canceled nor
\* idle, and the acquire fails too.
AcquireCancels(c) ==
  /\ At(c, "acquire", "cancel")
  /\ \/ /\ nav.status = "active" /\ nav.goal = call[c].goal
        /\ nav' = [nav EXCEPT !.status = "canceled"]
        /\ Halted /\ loop' = Preempted
        /\ known' = [known EXCEPT ![OperatorOf[c]] = call[c].id]
        /\ Return(c)
     \/ /\ nav.status \in {"idle", "canceled"}
        /\ known' = [known EXCEPT ![OperatorOf[c]] = call[c].id]
        /\ Return(c)
        /\ UNCHANGED <<nav, wheels, loop>>
     \/ GoTo(c, "failed") /\ UNCHANGED <<nav, wheels, loop, known>>
  /\ UNCHANGED <<lease, granted, setpoint, lock>>

Clear == lease' = NoLease /\ setpoint' = NoSetpoint

\* The preemption failed: the lease goes unless another call has replaced it.
AcquireFails(c) ==
  /\ At(c, "acquire", "failed") /\ lock = NoOne
  /\ IF lease.id = call[c].id THEN Clear ELSE UNCHANGED <<lease, setpoint>>
  /\ GoTo(c, "stop")
  /\ UNCHANGED <<granted, known, loop, wheels, lock, nav>>

AcquireStops(c) ==
  /\ At(c, "acquire", "stop")
  /\ Halted /\ loop' = Preempted
  /\ Return(c)
  /\ UNCHANGED <<session, lock, nav>>

\* _end_drive_locked, first half: the loop is cancelled wherever it is. Inside
\* its final release the cancellation cuts that release short.
CancelLoop ==
  loop' = CASE loop.pc \in {"top", "hold"} -> [loop EXCEPT !.pc = "releasing", !.left = 0]
            [] OTHER -> NoLoop

\* stop_web_teleop: the dashboard forgets its lease before it releases it.
Forgets(c) == known' = IF OperatorOf[c] = Dashboard THEN [known EXCEPT ![Dashboard] = 0] ELSE known
Holds(c) == known[OperatorOf[c]] = lease.id

\* Another operator also with no lease at all: both ids are empty then.
Release(c) ==
  /\ call[c] = NoCall /\ lock = NoOne
  /\ Holds(c) /\ (OperatorOf[c] = Dashboard => lease.id # 0)
  /\ lock' = c /\ Waits(c, "release", "await", 0)
  /\ CancelLoop /\ Forgets(c)
  /\ UNCHANGED <<lease, granted, setpoint, wheels, nav>>

\* A lease lost meanwhile is no longer there to release.
ReleasesNothing(c) ==
  /\ call[c] = NoCall /\ lock = NoOne
  /\ OperatorOf[c] = Dashboard /\ ~Holds(c)
  /\ Forgets(c)
  /\ UNCHANGED <<lease, granted, setpoint, loop, wheels, lock, call, nav>>

\* Second half: the loop is over; zero frames; then the lease is cleared.
Released(c) ==
  /\ At(c, "release", "await") /\ loop = NoLoop
  /\ Halted /\ Clear
  /\ lock' = NoOne /\ Return(c)
  /\ UNCHANGED <<granted, known, loop, nav>>

EmergencyStop(c) ==
  /\ call[c] = NoCall /\ lock = NoOne
  /\ lock' = c /\ Waits(c, "estop", "await", 0)
  /\ CancelLoop
  /\ UNCHANGED <<session, wheels, nav>>

EmergencyStops(c) ==
  /\ At(c, "estop", "await") /\ loop = NoLoop
  /\ Halted /\ Clear
  /\ lock' = NoOne /\ GoTo(c, "nav")
  /\ UNCHANGED <<granted, known, loop, nav>>

\* Best effort, after the lock: the current goal is canceled or the error dropped.
EmergencyCancels(c) ==
  /\ At(c, "estop", "nav")
  /\ \/ /\ nav.status = "active"
        /\ nav' = [nav EXCEPT !.status = "canceled"]
        /\ Halted /\ loop' = Preempted
     \/ UNCHANGED <<nav, wheels, loop>>
  /\ Return(c)
  /\ UNCHANGED <<session, lock>>

-----------------------------------------------------------------------------
(* A posture asked for on the dashboard: its own lease is released, an     *)
(* active goal is canceled, and the request goes out beside the streams.   *)

\* Bounds: one at a time, and while a goal and a lease may still come between.
MayPose(c) ==
  /\ call[c] = NoCall /\ lock = NoOne /\ OperatorOf[c] = Dashboard
  /\ nav.goal < MaxGoals /\ granted < MaxLeases
  /\ \A d \in Clients : call[d].op # "posture"

\* get_state answers at once: what became of the goal meanwhile shows in cancel.
PostureLooks(c, id) ==
  call' = [call EXCEPT ![c] = [NoCall EXCEPT !.op = "posture", !.id = id, !.goal = nav.goal,
                               !.pc = IF nav.status = "active" THEN "cancel" ELSE "publish"]]

\* Fault: the lease is forgotten, not released.
PostureAsks_OnlyForgets(c) ==
  /\ MayPose(c) /\ Forgets(c)
  /\ PostureLooks(c, known[Dashboard])
  /\ UNCHANGED <<lease, granted, setpoint, loop, wheels, lock, nav>>

PostureAsks(c) ==
  /\ MayPose(c) /\ Forgets(c)
  /\ IF Holds(c) /\ lease.id # 0
     THEN lock' = c /\ CancelLoop /\ Waits(c, "posture", "await", lease.id)
     ELSE UNCHANGED <<lock, loop>> /\ PostureLooks(c, known[Dashboard])
  /\ UNCHANGED <<lease, granted, setpoint, wheels, nav>>

PostureReleased(c) ==
  /\ At(c, "posture", "await") /\ loop = NoLoop
  /\ Halted /\ Clear
  /\ lock' = NoOne /\ PostureLooks(c, call[c].id)
  /\ UNCHANGED <<granted, known, loop, nav>>

\* Fault: a goal that cannot be canceled is no obstacle.
PostureCancels_Ignores(c) ==
  /\ At(c, "posture", "cancel") /\ GoTo(c, "publish")
  /\ \/ /\ nav.status = "active" /\ nav.goal = call[c].goal
        /\ nav' = [nav EXCEPT !.status = "canceled"]
        /\ Halted /\ loop' = Preempted
     \/ UNCHANGED <<nav, wheels, loop>>
  /\ UNCHANGED <<session, lock>>

\* What cancel answers is not looked at, unless it raises.
PostureCancels(c) ==
  /\ At(c, "posture", "cancel")
  /\ \/ /\ nav.status = "active" /\ nav.goal = call[c].goal
        /\ nav' = [nav EXCEPT !.status = "canceled"]
        /\ Halted /\ loop' = Preempted
        /\ GoTo(c, "publish")
     \/ /\ nav.status # "active" \/ nav.goal # call[c].goal
        /\ GoTo(c, "publish")
        /\ UNCHANGED <<nav, wheels, loop>>
     \/ Return(c) /\ UNCHANGED <<nav, wheels, loop>>
  /\ UNCHANGED <<session, lock>>

\* send_command does not preempt; a refusal by the robot or no answer stops it.
SetPosture(c) ==
  /\ At(c, "posture", "publish")
  /\ (Halted /\ loop' = Preempted) \/ UNCHANGED <<wheels, loop>>
  /\ Return(c)
  /\ UNCHANGED <<session, lock, nav>>

-----------------------------------------------------------------------------
(* Setpoints.                                                              *)

\* Fault: every setpoint adds a lifetime instead of restarting it.
Apply_Extends(c, moving, age) ==
  /\ setpoint' = [moving |-> moving, age |-> age, by |-> lease.operator]
  /\ lease' = [lease EXCEPT !.left = @ + Ttl]
  /\ loop' = IF moving /\ loop = NoLoop THEN [pc |-> "top", id |-> lease.id, left |-> 0] ELSE loop

\* Write the setpoint, renew the lease, start a loop when none is running.
Apply(c, moving, age) ==
  /\ setpoint' = [moving |-> moving, age |-> age, by |-> lease.operator]
  /\ lease' = [lease EXCEPT !.left = IF Ttl > age THEN Ttl - age ELSE 0]
  /\ loop' = IF moving /\ loop = NoLoop THEN [pc |-> "top", id |-> lease.id, left |-> 0] ELSE loop

Accepts(c) == lease.id # 0 /\ ~Expired /\ known[OperatorOf[c]] = lease.id

SetVelocity(c, moving) ==
  /\ call[c] = NoCall /\ lock = NoOne /\ Accepts(c)
  /\ Apply(c, moving, 0)
  /\ UNCHANGED <<granted, known, wheels, lock, call, nav>>

\* Forward motion first reads the ultrasonic sensor, with the lock held.
SetForward(c) ==
  /\ call[c] = NoCall /\ lock = NoOne /\ Accepts(c)
  /\ lock' = c /\ Waits(c, "set", "sonar", 0)
  /\ UNCHANGED <<session, loop, wheels, nav>>

\* The setpoint is dated from before the read; an obstacle clamps it to zero.
SonarAnswers(c) ==
  /\ At(c, "set", "sonar")
  /\ \E obstacle \in BOOLEAN : Apply(c, ~obstacle, call[c].age)
  /\ lock' = NoOne /\ Return(c)
  /\ UNCHANGED <<granted, known, wheels, nav>>

-----------------------------------------------------------------------------
(* The drive loop.                                                         *)

\* The head of the loop: the lease must still be its own and live, the setpoint
\* fresh; then stream for one chunk. The preconditions of the drive may fail.
LoopTop ==
  /\ loop.pc = "top"
  /\ \/ /\ loop.id = lease.id /\ ~Expired /\ ~Stale
        /\ loop' = [loop EXCEPT !.pc = "hold", !.left = Chunk]
     \/ loop' = [loop EXCEPT !.pc = "releasing"]
  /\ UNCHANGED <<session, wheels, lock, call, nav>>

\* Fault: the deadman is looked at between chunks only.
Live_PerChunk == IF ~setpoint.moving THEN Still
                 ELSE [moving |-> TRUE, by |-> setpoint.by, age |-> setpoint.age]

\* live_velocity: the shared setpoint, or zero once it is stale.
Live == IF Stale \/ ~setpoint.moving THEN Still
        ELSE [moving |-> TRUE, by |-> setpoint.by, age |-> setpoint.age]
UpToDate == loop.pc = "hold" => wheels = Live

Frame ==
  /\ ~UpToDate
  /\ wheels' = Live
  /\ UNCHANGED <<session, loop, lock, call, nav>>

ChunkEnds ==
  /\ loop.pc = "hold" /\ loop.left = 0 /\ UpToDate
  /\ loop' = [loop EXCEPT !.pc = "top"]
  /\ UNCHANGED <<session, wheels, lock, call, nav>>

LoopReleases ==
  /\ loop.pc = "releasing"
  /\ Halted /\ loop' = NoLoop
  /\ UNCHANGED <<session, lock, call, nav>>

-----------------------------------------------------------------------------
(* Navigation, which looks neither at the lease nor at the loop, and time. *)

NavStarts ==
  /\ nav.status # "active" /\ nav.goal < MaxGoals
  /\ nav' = [status |-> "active", goal |-> nav.goal + 1]
  /\ UNCHANGED <<session, loop, wheels, lock, call>>

\* robot.drive preempts the hold and sends its own zeros at its end.
NavDrives ==
  /\ nav.status = "active" /\ wheels.by # Nav
  /\ wheels' = [moving |-> TRUE, by |-> Nav, age |-> 0] /\ loop' = Preempted
  /\ UNCHANGED <<session, lock, call, nav>>

NavRests ==
  /\ wheels.by = Nav /\ Halted
  /\ nav' \in {nav, [nav EXCEPT !.status = IF @ = "active" THEN "ended" ELSE @]}
  /\ UNCHANGED <<session, loop, lock, call>>

Older(a) == IF a < Old THEN a + 1 ELSE a
Less(n) == IF n > 0 THEN n - 1 ELSE 0

Halting == \E c \in Clients : call[c].pc \in {"await", "stop"}

\* A tick is long against a frame (20 ms), a step of the loop and a halt; only
\* navigation and the sensor may take ticks to answer.
Tick ==
  /\ ~Halting
  /\ loop.pc \in {"none", "hold"} /\ UpToDate
  /\ loop.pc = "hold" => loop.left > 0
  /\ loop' = [loop EXCEPT !.left = Less(@)]
  /\ lease' = [lease EXCEPT !.left = Less(@)]
  /\ setpoint' = [setpoint EXCEPT !.age = Older(@)]
  /\ wheels' = IF wheels.moving /\ wheels.by # Nav THEN [wheels EXCEPT !.age = Older(@)] ELSE wheels
  /\ call' = [c \in Clients |-> IF call[c].op = "set" THEN [call[c] EXCEPT !.age = Older(@)] ELSE call[c]]
  /\ UNCHANGED <<granted, known, lock, nav>>

-----------------------------------------------------------------------------
\* The steps that an awaited answer makes.
Answers(c) ==
  \/ AcquireLooks(c) \/ AcquireCancels(c) \/ AcquireFails(c) \/ AcquireStops(c)
  \/ Released(c) \/ EmergencyStops(c) \/ EmergencyCancels(c) \/ SonarAnswers(c)
  \/ PostureReleased(c) \/ PostureCancels(c) \/ SetPosture(c)

Calls(c) ==
  \/ Acquire(c) \/ Release(c) \/ ReleasesNothing(c) \/ EmergencyStop(c) \/ PostureAsks(c)
  \/ (\E moving \in BOOLEAN : SetVelocity(c, moving)) \/ SetForward(c)

LoopStep == LoopTop \/ Frame \/ ChunkEnds \/ LoopReleases

TeleopNext ==
  \/ \E c \in Clients : Calls(c) \/ Answers(c)
  \/ LoopStep \/ NavStarts \/ NavDrives \/ NavRests \/ Tick

TeleopSpec == TeleopInit /\ [][TeleopNext]_teleopVars

-----------------------------------------------------------------------------
Driven == wheels.moving /\ wheels.by \in Operators

\* The deadman: no operator's motion outlives its setpoint by more than the
\* window and the tick that ends it, whatever became of the loop.
DeadmanHolds == Driven => wheels.age <= Deadman + 1

\* The loop has caught up and nobody is at a halt.
Settled == loop.pc \in {"none", "hold"} /\ UpToDate /\ ~Halting

\* One operator at a time: the robot moves only for the holder of the lease, so
\* not after a release, a revocation or an emergency stop, and not for the
\* former holder once another one has acquired.
HolderDrives == Settled /\ Driven => lease.operator = wheels.by

\* Manual motion has an operator who holds the lease and is still there.
DrivenByHolder == DeadmanHolds /\ HolderDrives

\* Manual control preempts navigation: a goal from before the lease is never
\* active while the loop of that lease drives.
NavYields ==
  loop.pc = "hold" /\ loop.id = lease.id /\ nav.status = "active" => nav.goal > lease.goal

\* "Release any keyboard teleop lease so posture and driving never fight": when
\* the request goes out, the dashboard does not drive by the lease it had, and no
\* goal that was there to be canceled is active.  A lease or a goal taken meanwhile
\* is not kept off, nor another operator, nor a lease whose id the dashboard lost
\* because an older answer came later.
PostureIsAlone ==
  \A c \in Clients : At(c, "posture", "publish") =>
    /\ Settled /\ Driven /\ wheels.by = Dashboard => lease.id > call[c].id
    /\ nav.status = "active" => nav.goal > call[c].goal

\* Neither a goal nor a posture shares the robot with what it was to replace.
OneMover == NavYields /\ PostureIsAlone

\* Nobody has the lock for long: its holder waits for the sensor, or for a loop
\* that is ending; never for navigation, for the lock, or for a loop that drives.
LockIsBrief ==
  lock # NoOne => \/ call[lock].pc = "sonar"
                  \/ call[lock].pc = "await" /\ loop.pc \in {"none", "releasing"}
=============================================================================
