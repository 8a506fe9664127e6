--------------------------- MODULE LocalNavigation ---------------------------
(***************************************************************************)
(* The two navigation clients that drive the robot from this process:      *)
(* NativeGo2NavigationClient (replanning) and DirectGo2NavigationClient    *)
(* (straight segments).  Each accepted goal gets a task that loops over    *)
(* guard, plan, drive, settle; skills and the dashboard set, poll and      *)
(* cancel goals beside it.  A step runs from one await to the next; a      *)
(* sensor snapshot suspends only until the first sport state has arrived.  *)
(***************************************************************************)
EXTENDS Naturals, FiniteSets

CONSTANTS
  Providers,      \* the clients the settings may choose
  Skills,         \* skill executions: set one goal, poll it, cancel it at a deadline
  Desks,          \* dashboard requests and lease holders: set or cancel and go
  MaxGoals,       \* bound on the goals accepted
  MaxDuration,    \* goal.max_duration_s, in ticks
  MaxNoPath,      \* max_no_path_replans
  MaxNoProgress   \* max_no_progress_segments

ASSUME NavigationAssumption ==
  /\ Providers \subseteq {"native", "direct", "nav2"}
  /\ MaxGoals \in Nat \ {0} /\ MaxDuration \in Nat
  /\ MaxNoPath \in Nat \ {0} /\ MaxNoProgress \in Nat \ {0}

VARIABLES
  provider,  \* which client was built
  warm,      \* a first sport state has arrived
  state,     \* _state: status, and goal id, which is also whose task _task is
  signal,    \* the current _cancel_event is set
  exec,      \* the task of each goal
  call,      \* what each caller awaits
  report,    \* the goal for which each skill last returned a success
  beside     \* history: the goals that each goal was accepted beside

vars == <<provider, warm, state, signal, exec, call, report, beside>>

Goals == 1..MaxGoals
Callers == Skills \union Desks
Outcomes == {"succeeded", "failed", "canceled", "timed_out", "no_progress", "unavailable"}
Statuses == {"idle", "active"} \union Outcomes

NoTask == [pc |-> "none", leg |-> "go", noPath |-> 0, noProgress |-> 0, left |-> 0, verdict |-> "none"]
NoCall == [pc |-> "none", goal |-> 0]

TypeOK ==
  /\ provider \in Providers /\ warm \in BOOLEAN /\ signal \in BOOLEAN
  /\ state \in [status: Statuses, goal: 0..MaxGoals]
  /\ exec \in [Goals -> [pc: {"none", "top", "drive", "settle", "pause", "nopath", "stop",
                              "fault", "cancelled", "done"},
                         leg: {"go", "turn"}, noPath: 0..MaxNoPath, noProgress: 0..MaxNoProgress,
                         left: 0..MaxDuration, verdict: Outcomes \union {"none"}]]
  /\ call \in [Callers -> [pc: {"none", "sensors", "poll", "stop", "await"}, goal: 0..MaxGoals]]
  /\ report \in [Skills -> 0..MaxGoals]
  /\ beside \in [Goals -> SUBSET Goals]

Init ==
  /\ provider \in Providers
  /\ warm = FALSE /\ signal = FALSE
  /\ state = [status |-> "idle", goal |-> 0]
  /\ exec = [g \in Goals |-> NoTask]
  /\ call = [c \in Callers |-> NoCall]
  /\ report = [c \in Skills |-> 0]
  /\ beside = [g \in Goals |-> {}]

Active == state.status = "active"
Live(g) == g \in Goals /\ exec[g].pc \notin {"none", "done"}
At(g, pc) == exec[g].pc = pc

\* robot.stop: a drive under way returns to its task, whoever's it is.
Halted(e) == [g \in Goals |-> IF e[g].pc = "drive" THEN [e[g] EXCEPT !.pc = "settle"] ELSE e[g]]

\* A task on its way out keeps nothing but its outcome and its time, and once it is
\* done only whether that was a success.
Leaving(e, g, pc, outcome) == [e EXCEPT ![g] = [NoTask EXCEPT !.pc = pc, !.verdict = outcome, !.left = e[g].left]]
Ended(e, g, outcome) ==
  Leaving(e, g, "done", IF outcome = "succeeded" THEN outcome ELSE "none")

\* _finish: the outcome goes into the one state, whatever goal that is by now.
Finish(outcome) == state' = [state EXCEPT !.status = outcome]

-----------------------------------------------------------------------------
(* Setting a goal.                                                         *)

\* "another navigation goal is active": the newest task is not done.
Refuses == Live(state.goal)

\* The goals with which a new one would share the one state, event and task: their
\* task runs, or the canceller that waits for its end has yet to look.
Unsettled == {g \in Goals : Live(g) \/ \E c \in Callers : call[c] = [pc |-> "await", goal |-> g]}

\* Fault: the status of the last goal stays until the new task writes it.
Accept_KeepsStatus(c) ==
  /\ state.goal < MaxGoals
  /\ state' = [state EXCEPT !.status = IF @ = "idle" THEN "active" ELSE @, !.goal = @ + 1]
  /\ signal' = FALSE
  /\ exec' = [exec EXCEPT ![state.goal + 1] = [NoTask EXCEPT !.pc = "top", !.left = MaxDuration]]
  /\ beside' = [beside EXCEPT ![state.goal + 1] = Unsettled]
  /\ call' = [call EXCEPT ![c] = IF c \in Skills THEN [pc |-> "poll", goal |-> state.goal + 1] ELSE NoCall]

\* _start_goal: a fresh event, state and task, whatever there was.
Accept(c) ==
  /\ state.goal < MaxGoals
  /\ state' = [status |-> "active", goal |-> state.goal + 1]
  /\ signal' = FALSE
  /\ exec' = [exec EXCEPT ![state.goal + 1] = [NoTask EXCEPT !.pc = "top", !.left = MaxDuration]]
  /\ beside' = [beside EXCEPT ![state.goal + 1] = Unsettled]
  /\ call' = [call EXCEPT ![c] = IF c \in Skills THEN [pc |-> "poll", goal |-> state.goal + 1] ELSE NoCall]

\* set_relative_goal up to its first await: a goal, or a wait for the first state with
\* the check already made.  A refusal changes nothing.
SetRelative(c) ==
  /\ call[c] = NoCall
  /\ ~Refuses
  /\ IF warm THEN Accept(c)
     ELSE call' = [call EXCEPT ![c].pc = "sensors"] /\ UNCHANGED <<state, signal, exec, beside>>
  /\ UNCHANGED <<provider, warm, report>>

\* set_absolute_goal (native client, persistent map): no check of an active goal.
SetAbsolute(c) ==
  /\ c \in Skills /\ provider = "native" /\ call[c] = NoCall
  /\ IF warm THEN Accept(c)
     ELSE call' = [call EXCEPT ![c].pc = "sensors"] /\ UNCHANGED <<state, signal, exec, beside>>
  /\ UNCHANGED <<provider, warm, report>>

SensorsAnswer(c) ==
  /\ call[c].pc = "sensors" /\ warm
  /\ Accept(c)
  /\ UNCHANGED <<provider, warm, report>>

\* Twelve seconds without a state: the setter raises, the skill gives up.
SensorsMissing(c) ==
  /\ call[c].pc = "sensors"
  /\ call' = [call EXCEPT ![c] = NoCall]
  /\ UNCHANGED <<provider, warm, state, signal, exec, report, beside>>

FirstState ==
  /\ ~warm /\ warm' = TRUE
  /\ UNCHANGED <<provider, state, signal, exec, call, report, beside>>

-----------------------------------------------------------------------------
(* The task of a goal.                                                     *)

GoTo(g, pc) == exec' = [exec EXCEPT ![g].pc = pc]

\* await robot.stop with the outcome in hand.
StopWith(g, outcome) == exec' = Leaving(exec, g, "stop", outcome)

\* Fault: the guard no longer looks at the event.
Guard_Unsignalled(g, ready) ==
  IF exec[g].left = 0 THEN "timed_out"
  ELSE IF ~ready THEN "unavailable"
  ELSE "none"

\* Fault: the guard no longer looks at the duration.
Guard_Untimed(g, ready) ==
  IF signal THEN "canceled"
  ELSE IF ~ready THEN "unavailable"
  ELSE "none"

\* _guard, in its order.
Guard(g, ready) ==
  IF signal THEN "canceled"
  ELSE IF exec[g].left = 0 THEN "timed_out"
  ELSE IF ~ready THEN "unavailable"
  ELSE "none"

\* Whether odometry and cloud are trusted, finite and fresh: any answer.
SnapshotReady == BOOLEAN

GuardFails(g) ==
  /\ At(g, "top")
  /\ \E ready \in SnapshotReady :
       /\ Guard(g, ready) # "none"
       /\ StopWith(g, Guard(g, ready))
  /\ UNCHANGED <<provider, warm, state, signal, call, report, beside>>

Passes(g) == At(g, "top") /\ Guard(g, TRUE) = "none"

Moves(g) ==
  /\ Passes(g) /\ GoTo(g, "drive")
  /\ UNCHANGED <<provider, warm, state, signal, call, report, beside>>

\* One segment along a fresh path of the native client.
Drive(g) ==
  /\ provider = "native" /\ Passes(g) /\ exec[g].leg = "go"
  /\ exec' = [exec EXCEPT ![g].pc = "drive", ![g].noPath = 0]
  /\ UNCHANGED <<provider, warm, state, signal, call, report, beside>>

Rotate(g) == provider = "native" /\ exec[g].leg = "turn" /\ Moves(g)
DirectDrive(g) == provider = "direct" /\ exec[g].leg = "go" /\ Moves(g)
DirectRotate(g) == provider = "direct" /\ exec[g].leg = "turn" /\ Moves(g)

\* The replan interval has not passed yet.
WaitToReplan(g) ==
  /\ provider = "native" /\ Passes(g) /\ exec[g].leg = "go"
  /\ GoTo(g, "pause")
  /\ UNCHANGED <<provider, warm, state, signal, call, report, beside>>

\* There is a path, and an obstacle in the emergency corridor.
CorridorBlocked(g) ==
  /\ provider = "native" /\ Passes(g) /\ exec[g].leg = "go"
  /\ exec' = [exec EXCEPT ![g].pc = "pause", ![g].noPath = 0]
  /\ UNCHANGED <<provider, warm, state, signal, call, report, beside>>

\* No path, or one without clearance.
NoPath(g) ==
  /\ provider = "native" /\ Passes(g) /\ exec[g].leg = "go"
  /\ exec' = [exec EXCEPT ![g].pc = "nopath", ![g].noPath = @ + 1]
  /\ UNCHANGED <<provider, warm, state, signal, call, report, beside>>

\* The external safety signal: stale, or asking for a stop.
SafetySignal(g) ==
  /\ provider = "native" /\ Passes(g) /\ exec[g].leg = "go"
  /\ \E outcome \in {"failed", "unavailable"} : StopWith(g, outcome)
  /\ UNCHANGED <<provider, warm, state, signal, call, report, beside>>

\* The direct client's guard ends the goal at an obstacle in the corridor.
Obstacle(g) ==
  /\ provider = "direct" /\ Passes(g) /\ exec[g].leg = "go"
  /\ StopWith(g, "failed")
  /\ UNCHANGED <<provider, warm, state, signal, call, report, beside>>

Turn(g) == exec' = [exec EXCEPT ![g].leg = "turn", ![g].noProgress = 0]

\* The native client at the last waypoint: rotate, or stop and succeed.
Reached(g) ==
  /\ provider = "native" /\ exec[g].leg = "go" /\ Passes(g)
  /\ Turn(g) \/ StopWith(g, "succeeded")
  /\ UNCHANGED <<provider, warm, state, signal, call, report, beside>>

\* A rotation that is aligned does not ask the guard.
Aligned(g) ==
  /\ provider = "native" /\ exec[g].leg = "turn" /\ At(g, "top")
  /\ StopWith(g, "succeeded")
  /\ UNCHANGED <<provider, warm, state, signal, call, report, beside>>

\* The direct client at the end of its translation: a rotation, when one of a
\* degree or more was asked for, or success, without a stop.
DirectReached(g) ==
  /\ provider = "direct" /\ exec[g].leg = "go" /\ Passes(g)
  /\ \/ Turn(g) /\ UNCHANGED state
     \/ exec' = Ended(exec, g, "succeeded") /\ Finish("succeeded")
  /\ UNCHANGED <<provider, warm, signal, call, report, beside>>

DirectAligned(g) ==
  /\ provider = "direct" /\ exec[g].leg = "turn" /\ Passes(g)
  /\ exec' = Ended(exec, g, "succeeded") /\ Finish("succeeded")
  /\ UNCHANGED <<provider, warm, signal, call, report, beside>>

DriveEnds(g) ==
  /\ At(g, "drive") /\ GoTo(g, "settle")
  /\ UNCHANGED <<provider, warm, state, signal, call, report, beside>>

\* The odometry after the drive: progress or one more segment without.
Settled(g) ==
  /\ At(g, "settle")
  /\ \E moved \in BOOLEAN :
       IF moved THEN exec' = [exec EXCEPT ![g].pc = "top", ![g].noProgress = 0]
       ELSE IF exec[g].noProgress + 1 < MaxNoProgress
       THEN exec' = [exec EXCEPT ![g].pc = "top", ![g].noProgress = @ + 1]
       ELSE StopWith(g, "no_progress")
  /\ UNCHANGED <<provider, warm, state, signal, call, report, beside>>

\* The native rotation loses its odometry and ends without a stop.
Blind(g) ==
  /\ provider = "native" /\ At(g, "settle") /\ exec[g].leg = "turn"
  /\ exec' = Ended(exec, g, "unavailable") /\ Finish("unavailable")
  /\ UNCHANGED <<provider, warm, signal, call, report, beside>>

\* The transport raises: from a sensor read, or from the drive itself.
Fault(g) ==
  /\ exec[g].pc \in {"top", "drive", "settle"}
  /\ exec' = Leaving(exec, g, "fault", "none")
  /\ UNCHANGED <<provider, warm, state, signal, call, report, beside>>

StopReturns(g) ==
  /\ At(g, "stop")
  /\ exec' = Ended(Halted(exec), g, exec[g].verdict) /\ Finish(exec[g].verdict)
  /\ UNCHANGED <<provider, warm, signal, call, report, beside>>

PauseReturns(g) ==
  /\ At(g, "pause")
  /\ exec' = [Halted(exec) EXCEPT ![g].pc = "top"]
  /\ UNCHANGED <<provider, warm, state, signal, call, report, beside>>

NoPathReturns(g) ==
  /\ At(g, "nopath")
  /\ IF exec[g].noPath = MaxNoPath
     THEN exec' = Ended(Halted(exec), g, "failed") /\ Finish("failed")
     ELSE exec' = [Halted(exec) EXCEPT ![g].pc = "top"] /\ UNCHANGED state
  /\ UNCHANGED <<provider, warm, signal, call, report, beside>>

FaultReturns(g) ==
  /\ At(g, "fault")
  /\ exec' = Ended(Halted(exec), g, "failed") /\ Finish("failed")
  /\ UNCHANGED <<provider, warm, signal, call, report, beside>>

Cancelled(g) ==
  /\ At(g, "cancelled")
  /\ exec' = Ended(exec, g, "canceled") /\ Finish("canceled")
  /\ UNCHANGED <<provider, warm, signal, call, report, beside>>

-----------------------------------------------------------------------------
(* Polling and cancelling.                                                 *)

Return(c) == call' = [call EXCEPT ![c] = NoCall]

\* cancel up to the robot's stop: goal 0 is no goal id.  A skill that gave up at its
\* deadline says so, whatever became of the goal.
CancelCall(c, g) ==
  IF Active /\ g \in {0, state.goal}
  THEN signal' = TRUE /\ call' = [call EXCEPT ![c].pc = "stop"]
  ELSE Return(c) /\ UNCHANGED signal

DeskCancels(c) ==
  /\ c \in Desks /\ call[c] = NoCall
  /\ CancelCall(c, 0)
  /\ UNCHANGED <<provider, warm, state, exec, report, beside>>

\* Fault: the deadline is looked at only while a goal is active.
SkillTimesOut_WhileActive(c) ==
  /\ call[c].pc = "poll" /\ exec[call[c].goal].left = 0 /\ Active
  /\ CancelCall(c, call[c].goal)
  /\ UNCHANGED <<provider, warm, state, exec, report, beside>>

SkillTimesOut(c) ==
  /\ call[c].pc = "poll" /\ exec[call[c].goal].left = 0
  /\ CancelCall(c, call[c].goal)
  /\ UNCHANGED <<provider, warm, state, exec, report, beside>>

\* The robot stands: now the current task, which need not be the one that was
\* active when cancel was called, is cancelled (native) or awaited (direct). A
\* task in its last resort, the stop after an error, dies without an outcome.
CancelStops(c) ==
  /\ call[c].pc = "stop"
  /\ LET g == state.goal e == Halted(exec) IN
     \/ ~Live(g) /\ exec' = e /\ Return(c) /\ UNCHANGED state
     \/ /\ provider = "native" /\ At(g, "fault")
        /\ exec' = Ended(e, g, "canceled") /\ Finish("canceled") /\ Return(c)
     \/ /\ Live(g) /\ (provider = "native" => ~At(g, "fault"))
        /\ exec' = IF provider = "native" THEN Leaving(e, g, "cancelled", "none") ELSE e
        /\ call' = [call EXCEPT ![c] = [pc |-> "await", goal |-> g]]
        /\ UNCHANGED state
  /\ UNCHANGED <<provider, warm, signal, report, beside>>

\* Fault: the goal is called canceled however it ended.
CancelReturns_Always(c) ==
  /\ call[c].pc = "await" /\ ~Live(call[c].goal)
  /\ Finish("canceled")
  /\ Return(c)
  /\ UNCHANGED <<provider, warm, signal, exec, report, beside>>

CancelReturns(c) ==
  /\ call[c].pc = "await" /\ ~Live(call[c].goal)
  /\ IF Active THEN Finish("canceled") ELSE UNCHANGED state
  /\ Return(c)
  /\ UNCHANGED <<provider, warm, signal, exec, report, beside>>

\* The direct client waits a second for the task, then cancels it.
CancelGivesUp(c) ==
  /\ provider = "direct" /\ call[c].pc = "await" /\ Live(call[c].goal)
  /\ exec' = IF At(call[c].goal, "fault") THEN Ended(exec, call[c].goal, "canceled")
             ELSE Leaving(exec, call[c].goal, "cancelled", "none")
  /\ IF Active THEN Finish("canceled") ELSE UNCHANGED state
  /\ Return(c)
  /\ UNCHANGED <<provider, warm, signal, report, beside>>

\* get_state: the direct client turns unavailable into idle once it sees again.
Seen == IF provider = "direct" /\ ~Live(state.goal) /\ state.status = "unavailable"
        THEN {state, [state EXCEPT !.status = "idle"]} ELSE {state}

\* The skill takes any terminal status for the end of its own goal.
Poll(c) ==
  /\ call[c].pc = "poll"
  /\ state' \in Seen
  /\ IF state'.status \in Outcomes
     THEN /\ report' = IF state'.status = "succeeded" THEN [report EXCEPT ![c] = call[c].goal] ELSE report
          /\ Return(c)
     ELSE UNCHANGED <<report, call>>
  /\ UNCHANGED <<provider, warm, signal, exec, beside>>

Watch ==
  /\ state' \in Seen
  /\ UNCHANGED <<provider, warm, signal, exec, call, report, beside>>

\* The command around the skill is cancelled; its goal goes on.
Abandon(c) ==
  /\ c \in Skills /\ call[c].pc = "poll"
  /\ call' = [call EXCEPT ![c] = NoCall]
  /\ UNCHANGED <<provider, warm, state, signal, exec, report, beside>>

Tick ==
  /\ \E g \in Goals : exec[g].left > 0
  /\ exec' = [g \in Goals |-> [exec[g] EXCEPT !.left = IF @ > 0 THEN @ - 1 ELSE 0]]
  /\ UNCHANGED <<provider, warm, state, signal, call, report, beside>>

-----------------------------------------------------------------------------
Decide(g) ==
  \/ GuardFails(g) \/ Drive(g) \/ Rotate(g) \/ DirectDrive(g) \/ DirectRotate(g)
  \/ WaitToReplan(g) \/ CorridorBlocked(g) \/ NoPath(g) \/ SafetySignal(g) \/ Obstacle(g)
  \/ Reached(g) \/ Aligned(g) \/ DirectReached(g) \/ DirectAligned(g)

Awaited(g) ==
  \/ DriveEnds(g) \/ Settled(g) \/ Blind(g) \/ StopReturns(g) \/ PauseReturns(g)
  \/ NoPathReturns(g) \/ FaultReturns(g) \/ Cancelled(g)

TaskSteps(g) == Decide(g) \/ Awaited(g)

Answers(c) == SensorsAnswer(c) \/ SensorsMissing(c) \/ CancelStops(c) \/ CancelReturns(c) \/ CancelGivesUp(c)

Next ==
  \/ \E g \in Goals : TaskSteps(g) \/ Fault(g)
  \/ \E c \in Callers : SetRelative(c) \/ SetAbsolute(c) \/ Answers(c) \/ DeskCancels(c)
  \/ \E c \in Skills : Poll(c) \/ SkillTimesOut(c) \/ Abandon(c)
  \/ FirstState \/ Watch \/ Tick

\* The event loop runs every task that is ready, awaited calls return, and
\* time passes.
Fairness ==
  /\ \A g \in Goals : WF_vars(TaskSteps(g))
  /\ \A c \in Callers : WF_vars(Answers(c))
  /\ \A c \in Skills : WF_vars(Poll(c)) /\ WF_vars(SkillTimesOut(c))
  /\ WF_vars(Tick)

Spec == Init /\ [][Next]_vars
FairSpec == Spec /\ Fairness

-----------------------------------------------------------------------------
\* "Operators must always be able to stop navigation": whatever drives the robot is the
\* newest goal, and that goal is active, so that a cancel acts on it.  The code keeps
\* this for a goal that was accepted when every earlier one was settled.
OperatorCanStop ==
  \A g \in Goals : At(g, "drive") =>
    \/ state = [status |-> "active", goal |-> g]
    \/ g \in {state.goal} \union beside[state.goal] /\ beside[state.goal] # {}

\* Once a cancel that found a goal active has stopped the robot, nothing drives until the
\* next goal is accepted: no task, be it the cancelled goal's or an older one that its
\* client has lost, begins another segment.
CancelHolds == signal /\ (\A c \in Callers : call[c].pc # "stop") => \A g \in Goals : ~At(g, "drive")

\* A goal ends: every wait in the loop is bounded by the goal's duration.
GoalEnds == Active ~> ~Active

\* A skill that waits is answered, by an outcome or by its own deadline, even
\* when the outcome was turned back into idle before it looked.
SkillEnds == \A c \in Skills : call[c].pc = "poll" ~> call[c].pc # "poll"

\* Neither a goal nor a skill waits for ever.
WaitsEnd == GoalEnds /\ SkillEnds

\* A reported success was won by the skill's own goal, a later one, or one that its own
\* was accepted beside: never by one that was over before.
SuccessIsRecent ==
  \A c \in Skills : report[c] # 0 =>
    \E g \in Goals :
      exec[g].verdict = "succeeded" /\ (g >= report[c] \/ g \in beside[report[c]])

\* The clients keep the promise of GoalLifecycle.
Abstract == INSTANCE GoalLifecycle WITH alone <- state.goal \in Goals => beside[state.goal] = {}
LifecycleSpec == Abstract!Spec
=============================================================================
