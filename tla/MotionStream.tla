---------------------------- MODULE MotionStream ----------------------------
(***************************************************************************)
(* The motion half of UnitreeWebRTCTransport.  Coroutines of the service's *)
(* event loop (the callers) drive, hold or halt the robot; the 50 Hz       *)
(* frames are published by coroutines ("jobs") on the transport's own      *)
(* background loop, a second thread.  A generation counter preempts older  *)
(* requests and a threading.Event says that no stream is in flight.        *)
(***************************************************************************)
EXTENDS Naturals, FiniteSets

CONSTANTS
  Callers,      \* tasks of the service's loop that use the transport
  MaxGen,       \* bound on the generations taken other than by an owed halt
  MaxFrames,    \* frames until a stream's deadline
  ZeroFrames,   \* settings.unitree_zero_frame_count
  MaxFaults     \* bound on time-outs, starved streams and publish errors

ASSUME StreamAssumption ==
  /\ IsFiniteSet(Callers)
  /\ MaxGen \in Nat /\ MaxFrames \in Nat \ {0} /\ ZeroFrames \in Nat \ {0} /\ MaxFaults \in Nat

VARIABLES
  gen,        \* _motion_gen
  idle,       \* _drive_idle.is_set()
  connected,  \* _connected
  caller,     \* what each of the callers awaits
  job,        \* the background coroutine submitted for a generation
  frame,      \* the last velocity published: moving or not, and whose moved last
  halted,     \* history: the newest generation whose halt has returned
  faults

streamVars == <<gen, idle, connected, caller, job, frame, halted, faults>>

\* Every caller may still owe one halt when the bound is reached.
LastGen == MaxGen + Cardinality(Callers)
Gens == 1..LastGen

Streams == {"drive", "hold"}                 \* send_command("drive"), stream_hold
Halts == {"stop", "release", "disconnect"}   \* the three callers of _halt_motion
Kinds == Streams \union Halts

AtRest == [kind |-> "none", gen |-> 0, pc |-> "none"]
NoJob == [kind |-> "none", pc |-> "none", left |-> 0, ok |-> TRUE, cancelled |-> FALSE]
NewJob(kind) == [kind |-> kind, pc |-> "ready", ok |-> TRUE, cancelled |-> FALSE,
                 left |-> IF kind \in Streams THEN MaxFrames ELSE ZeroFrames]

StreamTypeOK ==
  /\ gen \in 0..LastGen /\ halted \in 0..LastGen /\ faults \in 0..MaxFaults
  /\ idle \in BOOLEAN /\ connected \in BOOLEAN
  /\ frame \in [gen: 0..LastGen, moving: BOOLEAN]
  /\ caller \in [Callers -> [kind: {"none"} \union Kinds, gen: 0..LastGen,
                           pc: {"none", "waiting", "woken", "running", "after"}]]
  /\ job \in [Gens -> [kind: {"none"} \union Kinds,
                       pc: {"none", "ready", "check", "publish", "zeros", "done"},
                       left: 0..(MaxFrames + ZeroFrames), ok: BOOLEAN, cancelled: BOOLEAN]]

StreamInit ==
  /\ gen = 0 /\ idle = TRUE /\ connected = TRUE
  /\ caller = [c \in Callers |-> AtRest]
  /\ job = [g \in Gens |-> NoJob]
  /\ frame = [gen |-> 0, moving |-> FALSE]
  /\ halted = 0 /\ faults = 0

-----------------------------------------------------------------------------
(* The callers, on the service's loop.                                     *)

\* What a caller goes on with when its request ends: a hold is released at last,
\* a drive that raised, or after which the robot still reports motion, is stopped.
Follow(kind, ok) ==
  CASE kind = "hold" -> {"release"}
    [] kind = "drive" -> IF ok THEN {"none", "stop"} ELSE {"stop"}
    [] OTHER -> {"none"}

Owes(kind) == IF kind = "none" THEN AtRest ELSE [kind |-> kind, gen |-> 0, pc |-> "after"]

\* A teleop loop may hold again before it releases.
May(c, kind) ==
  \/ caller[c] = AtRest /\ gen < MaxGen
  \/ caller[c] = Owes("release") /\ kind = "hold" /\ gen < MaxGen
  \/ caller[c] = Owes(kind) /\ kind \in Halts /\ gen < LastGen

\* Past the wait: a stream clears the idle event and submits its frames, a halt
\* submits its zeros.
Submit(c, kind, g) ==
  /\ idle' = (idle /\ kind \notin Streams)
  /\ job' = [job EXCEPT ![g] = NewJob(kind)]
  /\ caller' = [caller EXCEPT ![c] = [kind |-> kind, gen |-> g, pc |-> "running"]]

\* A request takes a new generation, which preempts the older ones, and waits
\* for the stream in flight; when there is none it does not suspend.
Request(c, kind) ==
  /\ connected /\ May(c, kind)
  /\ gen' = gen + 1
  /\ IF idle THEN Submit(c, kind, gen + 1)
     ELSE /\ caller' = [caller EXCEPT ![c] = [kind |-> kind, gen |-> gen + 1, pc |-> "waiting"]]
          /\ UNCHANGED <<idle, job>>
  /\ UNCHANGED <<connected, frame, halted, faults>>

\* send_command raises once disconnected; stop and release_drive swallow it.
Refused(c) ==
  /\ caller[c].pc = "after" /\ ~connected
  /\ caller' = [caller EXCEPT ![c] = AtRest]
  /\ UNCHANGED <<gen, idle, connected, job, frame, halted, faults>>

\* The thread in Event.wait returns because the event is set or after ten seconds.
Wake(c) ==
  /\ caller[c].pc = "waiting"
  /\ \/ idle /\ UNCHANGED faults
     \/ ~idle /\ faults < MaxFaults /\ faults' = faults + 1
  /\ caller' = [caller EXCEPT ![c].pc = "woken"]
  /\ UNCHANGED <<gen, idle, connected, job, frame, halted>>

\* The coroutine resumes; it looks neither at the event nor at its generation again.
Resume(c) ==
  /\ caller[c].pc = "woken"
  /\ Submit(c, caller[c].kind, caller[c].gen)
  /\ UNCHANGED <<gen, connected, frame, halted, faults>>

\* Setting the event wakes every thread already in Event.wait; one that has not
\* got there yet finds the event as it then is.
SetIdle(c, next) ==
  /\ idle' = TRUE
  /\ \E missed \in SUBSET {d \in Callers : caller[d].pc = "waiting"} :
       caller' = [d \in Callers |->
                  IF d = c THEN next
                  ELSE IF caller[d].pc = "waiting" /\ d \notin missed
                       THEN [caller[d] EXCEPT !.pc = "woken"] ELSE caller[d]]

\* The awaited stream is over: its caller's finally sets the event.
StreamReturns(c) ==
  LET g == caller[c].gen IN
  /\ caller[c].pc = "running" /\ caller[c].kind \in Streams /\ job[g].pc = "done"
  /\ \E next \in Follow(caller[c].kind, job[g].ok) : SetIdle(c, Owes(next))
  /\ job' = [job EXCEPT ![g] = NoJob]
  /\ UNCHANGED <<gen, connected, frame, halted, faults>>

\* The zeros of a halt are out; disconnect then closes the connection.
HaltReturns(c) ==
  LET g == caller[c].gen IN
  /\ caller[c].pc = "running" /\ caller[c].kind \in Halts /\ job[g].pc = "done"
  /\ caller' = [caller EXCEPT ![c] = AtRest]
  /\ job' = [job EXCEPT ![g] = NoJob]
  /\ halted' = IF connected /\ g > halted THEN g ELSE halted
  /\ connected' = (connected /\ caller[c].kind # "disconnect")
  /\ UNCHANGED <<gen, idle, frame, faults>>

\* Fault: the stream's finally forgets the event when it is interrupted.
Interrupted_KeepsEvent(c, ok) ==
  LET g == caller[c].gen  k == caller[c].kind IN
  /\ caller[c].pc = "running" /\ k \in Streams /\ gen < MaxGen
  /\ gen' = gen + 1
  /\ job' = [job EXCEPT ![g] = IF @.pc = "done" THEN NoJob ELSE [@ EXCEPT !.cancelled = TRUE]]
  /\ caller' = [caller EXCEPT ![c] = Owes(IF k = "hold" THEN "release" ELSE IF ok THEN "none" ELSE "stop")]
  /\ UNCHANGED <<idle, connected, frame, halted>>

\* The caller's task is cancelled, or the bridge to the background loop times
\* out: the job is told to cancel, the generation moves on and the event is set
\* although the job may still be running.
Interrupted(c, ok) ==
  LET g == caller[c].gen  k == caller[c].kind IN
  /\ caller[c].pc = "running" /\ k \in Streams /\ gen < MaxGen
  /\ gen' = gen + 1
  /\ job' = [job EXCEPT ![g] = IF @.pc = "done" THEN NoJob ELSE [@ EXCEPT !.cancelled = TRUE]]
  /\ SetIdle(c, Owes(IF k = "hold" THEN "release" ELSE IF ok THEN "none" ELSE "stop"))
  /\ UNCHANGED <<connected, frame, halted>>

Cancel(c) == Interrupted(c, TRUE) /\ UNCHANGED faults
BridgeTimeout(c) == Interrupted(c, FALSE) /\ faults < MaxFaults /\ faults' = faults + 1

\* Cancelled while it waits for the stream in flight.
CancelWaiting(c) ==
  /\ caller[c].pc \in {"waiting", "woken"} /\ caller[c].kind \in Streams
  /\ caller' = [caller EXCEPT ![c] = IF @.kind = "hold" THEN Owes("release") ELSE AtRest]
  /\ UNCHANGED <<gen, idle, connected, job, frame, halted, faults>>

-----------------------------------------------------------------------------
(* The jobs, on the background loop.  Nothing else runs there between a    *)
(* stream's check of its generation and the frame it then publishes; the   *)
(* service's loop, another thread, does.                                   *)

LoopFree == \A g \in Gens : job[g].pc # "publish"

\* Nobody awaits a cancelled job any more.
Done(g, ok) ==
  [job EXCEPT ![g] = IF @.cancelled THEN NoJob
                     ELSE [@ EXCEPT !.pc = "done", !.ok = ok, !.left = 0]]

PublishZero == frame' = [frame EXCEPT !.moving = @ /\ ~connected]
PublishMotion(g) == frame' = [gen |-> g, moving |-> TRUE]

\* Fault: zeros after a completed stream only.
End_OnlyOnSuccess(g, ok) ==
  IF job[g].kind = "drive" /\ ok
  THEN job' = [job EXCEPT ![g].pc = "zeros", ![g].left = ZeroFrames - 1, ![g].ok = ok] /\ PublishZero
  ELSE job' = Done(g, ok) /\ UNCHANGED frame

\* Leaving a stream: a one-shot drive sends its first zero frame before it
\* suspends again, a hold leaves the last frame standing.
End(g, ok) ==
  IF job[g].kind = "drive"
  THEN job' = [job EXCEPT ![g].pc = "zeros", ![g].left = ZeroFrames - 1, ![g].ok = ok] /\ PublishZero
  ELSE job' = Done(g, ok) /\ UNCHANGED frame

\* Fault: the stream does not look at its generation.
Check_NoGeneration(g) ==
  /\ LoopFree /\ job[g].kind \in Streams /\ job[g].pc \in {"ready", "check"} /\ ~job[g].cancelled
  /\ IF connected THEN job' = [job EXCEPT ![g].pc = "publish"] /\ UNCHANGED frame ELSE End(g, TRUE)
  /\ UNCHANGED <<gen, idle, connected, caller, halted, faults>>

\* The top of the stream's loop; "starved" is a last frame older than the watchdog.
Check(g) ==
  /\ LoopFree /\ job[g].kind \in Streams /\ job[g].pc \in {"ready", "check"} /\ ~job[g].cancelled
  /\ \/ (gen # g \/ ~connected) /\ End(g, TRUE) /\ UNCHANGED faults
     \/ /\ gen = g /\ connected
        /\ job[g].pc = "check" /\ faults < MaxFaults /\ faults' = faults + 1
        /\ End(g, TRUE)
     \/ /\ gen = g /\ connected
        /\ job' = [job EXCEPT ![g].pc = "publish"]
        /\ UNCHANGED <<frame, faults>>
  /\ UNCHANGED <<gen, idle, connected, caller, halted>>

\* The deadline is looked at after the frame; the last frame of a drive is
\* followed by a zero frame in the same step.  A hold's velocity may be zero.
Publish(g) ==
  /\ job[g].pc = "publish"
  /\ \/ faults < MaxFaults /\ faults' = faults + 1 /\ End(g, FALSE)
     \/ /\ job[g].left > 1 \/ job[g].kind = "hold"
        /\ PublishMotion(g) \/ (job[g].kind = "hold" /\ PublishZero)
        /\ job' = IF job[g].left > 1 THEN [job EXCEPT ![g].pc = "check", ![g].left = @ - 1]
                  ELSE Done(g, TRUE)
        /\ UNCHANGED faults
     \/ /\ job[g].left = 1 /\ job[g].kind = "drive"
        /\ job' = [job EXCEPT ![g].pc = "zeros", ![g].left = ZeroFrames - 1]
        /\ frame' = [gen |-> g, moving |-> FALSE]
        /\ UNCHANGED faults
  /\ UNCHANGED <<gen, idle, connected, caller, halted>>

\* A job cancelled before its first step never runs; later it is cancelled in a sleep.
Cancelled(g) ==
  /\ LoopFree /\ job[g].cancelled /\ job[g].pc \in {"ready", "check", "zeros"}
  /\ IF job[g].pc = "check" THEN End(g, FALSE) ELSE job' = Done(g, FALSE) /\ UNCHANGED frame
  /\ UNCHANGED <<gen, idle, connected, caller, halted, faults>>

\* _zeros: a halt's own job, and the tail of a drive.
Zeros(g) ==
  /\ LoopFree
  /\ \/ job[g].pc = "zeros" /\ ~job[g].cancelled
     \/ job[g].pc = "ready" /\ job[g].kind \in Halts
  /\ IF job[g].left > 0
     THEN job' = [job EXCEPT ![g].pc = "zeros", ![g].left = @ - 1] /\ PublishZero
     ELSE job' = Done(g, job[g].ok) /\ UNCHANGED frame
  /\ UNCHANGED <<gen, idle, connected, caller, halted, faults>>

-----------------------------------------------------------------------------
CallerStep(c) ==
  \/ \E kind \in Kinds : Request(c, kind)
  \/ Refused(c) \/ Wake(c) \/ Resume(c) \/ StreamReturns(c) \/ HaltReturns(c)
  \/ Cancel(c) \/ BridgeTimeout(c) \/ CancelWaiting(c)

JobStep(g) == Check(g) \/ Publish(g) \/ Cancelled(g) \/ Zeros(g)

StreamNext == (\E c \in Callers : CallerStep(c)) \/ (\E g \in Gens : JobStep(g))

StreamSpec == StreamInit /\ [][StreamNext]_streamVars

-----------------------------------------------------------------------------
\* A stream older than a halt that has returned does not move the robot, whatever
\* else was waiting, cancelled or timed out meanwhile (_halt_motion).
HaltIsFinal == frame.moving => frame.gen > halted

\* Concurrent requests never interleave their non-zero frames: once a newer
\* request has moved the robot no older one does (_velocity_stream's check).
NoInterleaving == [][frame'.gen >= frame.gen]_streamVars

\* When no request is pending and no job is left the robot is not moving: every
\* way out of a drive or a hold ends in a zero frame (_velocity_stream's finally,
\* the release after a hold), as long as the connection stands.
Quiescent == /\ \A c \in Callers : caller[c] = AtRest
             /\ \A g \in Gens : job[g] = NoJob
LeftStill == Quiescent /\ connected => ~frame.moving

\* No waiter waits for ever: while the idle event is clear somebody still awaits
\* the stream whose finally sets it, whoever was cancelled or woken meanwhile.
EventWillBeSet ==
  ~idle => \E c \in Callers : caller[c].kind \in Streams /\ caller[c].pc = "running"

\* A robot that was halted, or that nobody drives any more, stays where it is, and
\* whoever waits for that is told.
StaysStill == HaltIsFinal /\ LeftStill /\ EventWillBeSet
=============================================================================
