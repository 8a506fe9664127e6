# robot-brain in TLA+

TLA+ models of `robot_brain/`, the service that takes natural-language commands,
plans them with a language model, and drives a Unitree Go2 through a safety layer;
the TLC runs that check them on small instances; and theorems about them proved with
TLAPS. `PROJECT.json` maps every definition to the lines it models and lists the
runs, the mutants that show each property can fail, the hazards of the code and the
disagreements between the code and its documents that the models brought out.

Run anything by hand from this directory:

    tlc -workers 2 -config BrainGraph.cfg MCBrainGraph
    tlapm SchedulerProofs.tla

## 1. The system

| Component | State it keeps | Operations | Talks to |
|---|---|---|---|
| Task queue (`memory/task_queue.py`, `core/tasks.py`) | rows of `scheduled_tasks` in SQLite | enqueue, next_queued, whole-row update, cancel, recover_running, pause_running, resume_paused | scheduler |
| Scheduler (`runtime/scheduler.py`) | none of its own | run_next, cancel, resume_task, handle_event, reset_estop, settle | queue, runtime |
| Agent service (`service/runner.py`) | `_scheduler_lock`, background loop, subscribers, dashboard lease | dispatch_once, the task and event handlers, start/stop, web teleop | scheduler, teleop session |
| Agent runtime (`runtime/loop.py`) | `context.world`, newest snapshot | run_command, resume, handle_event, refresh_world, reset_estop | graph, checkpoints, perception, robot |
| Checkpoint store (`runtime/checkpoint.py`) | one pending tool call per thread | save, pop | runtime, scheduler |
| Orchestration graph (`orchestration/`) | `GraphState` of one command | perceive, decide, select_action, validate, execute, observe, reflect, finish | cognition, safety, skills |
| Cognition (`cognition/`), LLM clients (`llm/`) | error debounce, short-term memory, degraded mark | FastReflex.decide, planner.plan, generate_plan with retries and fallback | language model |
| Safety layer (`safety/`) | the emergency-stop flag | validate, check_backend/state/confirmation, activate, reset | skill metadata |
| Skills (`skills/`) | counters of one execution | explore, nudge, scan, retreat, go2_local_nav; the skills that set navigation goals | robot, navigation, VLM |
| Navigation clients (`navigation/native_go2.py`, `direct_go2.py`, `nav2*.py`) | goal, status, task of the goal | set, poll, cancel, the drive loop | robot transport, maps |
| Maps and planners (`navigation/`) | voxels with hits and misses, saved map, last path | merge, carve, save, load, plan, frontiers | navigation |
| Teleoperation (`teleop/session.py`) | lease, setpoint, drive task | acquire, release, set_velocity, emergency_stop, drive loop | robot, navigation |
| Robot and transports (`actuation/`) | connection, motion generation, idle event, last reports | connect, drive, hold, stop, disconnect, read_state | the Go2 |
| Gateway (`gateway/`) | peers, their bridges and sender loops | offers, teardowns, prune, resend | teleop, browsers |
| Media (`media/`, `vlm/frame_source.py`) | viewers' peers, the snapshot tap, relay tasks and processes, audio queues | negotiate, poll, start relays, close | transport, ffmpeg, browsers |

`PROJECT.json`, "components", lists all of them with what is modelled of each.

How they interact. One process runs one asyncio event loop. A background task polls
the queue; HTTP handlers submit, cancel, confirm, interrupt and reset. Both sides take
`_scheduler_lock`, so at most one of them is inside the scheduler, and one that holds
it may await for as long as a whole command takes. Inside a command the graph calls
perception, then the reflexes or the planner, then the validator and a skill for each
planned call. Rows, checkpoints and world snapshots are separate SQLite transactions:
a crash may fall between any two of them. Teleoperation, navigation goals, media and
the gateway run as tasks of their own beside that lock; the connection to the robot has
a thread and an event loop of its own, whose callbacks write what others read.

What is hard here:

* a crash between two transactions of one operation (checkpoint popped, row not yet
  settled; stop set in memory, not yet saved);
* an exception that leaves a command half way, and is swallowed by the loop;
* operators queueing behind a long command, on whose state their request depends;
* retries and recovery that requeue the same row for different reasons;
* confirmation: a call is approved on one world and carried out on another, and is
  found again by thread, not by task;
* two regimes of safety rules, by metadata for migrated skills and by name for the
  others, whose union has to cover every skill;
* two threads that share a generation counter, an event and the last report, with
  cancellations that reach a request at any await;
* a goal that is set, polled, cancelled and replaced by several callers at once;
* leases, deadlines and deadmen that race with what renews them;
* sensor readings used after a turn, a wait or a disconnect;
* connections, tracks, tasks and processes that outlive what started them.

Properties that make each component correct: *scheduler*, an acknowledged stop stays, a
row says what is so, a confirmed call runs once, requests are served; *graph and
safety*, no motion past the stop, the battery rule, the operator or the look at the
world; *transport*, a halt is final, nothing is left moving, a connection is claimed
only while there is one; *teleoperation*, motion has a live operator who holds the
lease; *navigation*, what drives can be cancelled, goals and waits end, a success is
one's own; *maps and planners*, free means seen free, a path is clear, cheapest and
safe; *skills*, forward only on what was sensed, an end for every loop, no goal left
behind; *planning*, a plan is marked as what it is; *gateway and media*, no peer is
forgotten, no failed one kept, no relay doubled, speech in order.

## 2. Plan and order

| Order | Module | Models | Uses |
|---|---|---|---|
| 1 | `TaskQueue` | rows and their whole-row writes (operators) | |
| 2 | `TaskLifecycle` | abstract: status edges of one task | |
| 3 | `Scheduler` | service lock, background loop, handlers, crash and recovery | extends 1, implements 2 |
| 4 | `SafetyLayer` | validator, policy, reflexes (operators) | |
| 5 | `ConfirmedAction` | abstract: asked, approved, acted | |
| 6 | `BrainGraph` | the graph of one command, resume | extends 4, implements 5 |
| 7 | `MotionStream` | motion generation, idle event and frames of the WebRTC transport | |
| 8 | `TeleopSession` | lease, deadman, drive loop, postures, preemption of navigation | |
| 9 | `Telemetry` | reports of the robot, observations and drives on them | |
| 10 | `Driving` | 7, 8 and 9, one at a time | |
| 11 | `GoalLifecycle` | abstract: one numbered goal at a time, one end each | |
| 12 | `LocalNavigation` | native and direct client with skills and dashboard | implements 11 |
| 13 | `Nav2Client` | the Nav2 client and its action server | extends 12 |
| 14 | `VoxelMap`, `GridPlanner`, `Terrain3D` | the map, planning on one level, planning on several | |
| 15 | `Navigation` | 13 and 14, one at a time | |
| 16 | `RobotConnection`, `Gateway`, `Links` | connect/disconnect; browser peers; the two, one at a time | |
| 17 | `Exploration` | skills that drive by segments | |
| 18 | `Errands` | skills that drive by goals, service shutdown | uses the promise of 11 |
| 19 | `Planning` | the slow planner and its clients | |
| 20 | `Camera`, `MediaRelay` | viewers and snapshots; relays and voice | |
| 21 | `SkillRun` | 17 to 20, one at a time | |
| 22 | `SchedulerProofs`, `BrainGraphProofs` | theorems about 3 and 6 | extend them |
| 23 | `TelemetryProofs`, `MotionStreamProofs`, `DrivingProofs` | theorems about 9; 7; 8 and 10 | the third extends the other two |
| 24 | `LinksProofs`, `NavigationProofs`, `SkillRunProofs` | theorems about 16; 11 to 15; 17 to 21 | extend them |

All of it is done. "One at a time": `Driving`, `Navigation`, `Links` and `SkillRun` start
on one side, chosen in the initial state, and stay there. They join modules that share
no state the properties could see, so that one run covers them; they claim nothing about
interleavings between the sides. Where components do share state they are in one module:
navigation inside `TeleopSession`, dashboard and shutdown inside `Errands`, the operator
beside the graph in `BrainGraph`.

Still worth doing: pose graphs and relocalisation need numerics TLC does not have; the
event queue of the gRPC stream, and the interplay of several subscribers with
`publish`, have little state; what the end of section 5 names.


## 3. Models

Every property of a passing run has a mutant in `PROJECT.json`: a definition of the model
with a plausible bug, kept beside the definition as `<Name>_<Bug>`, under which TLC finds
the property violated. `TypeOK` of `Scheduler` is an invariant of `sched_one_task` and a
theorem; the type invariants of the other modules document the state and are implied by
the inductive invariants of section 5.

### 3.1 TaskQueue, Scheduler, TaskLifecycle

`Scheduler` is the process around the commands. Persistent state is `tasks`,
`checkpoints` and `snapshot` (the newest world snapshot); `world`, `lock`, `phase`,
`job` and `request` die in a `Crash`. `lock` is `_scheduler_lock` with its FIFO of
waiters; `phase` and `job` say where its holder is and what it has in its locals. An
action runs from one `await` or SQLite commit to the next, so requests arrive and
crashes happen at every such point: `PopCheckpoint` is a step apart from `Settle`
because `checkpoints.pop` commits by itself, and `ActivateEstop`, `SaveEstop`,
`PauseRunning` are three steps because the flag, the snapshot and each row are.
`GraphEnds(result, low)` stands for `graph.ainvoke` with every way it may end;
`CommandRaises` is the exception that `_run_loop` swallows.

A tool call is the pair of the task and the attempt that planned it, which is all the
properties need to tell calls apart. `created_at` is the order of submission. Priority
and limits come from small sets. `acked`, `executed` and `requeues` are history
variables. `TaskLifecycle` is what a task may do when everything around it is
forgotten: which status follows which, and that attempts are counted at a start.

| Run | Shows |
|---|---|
| `sched_one_task` (267,000 states) | one task, two operators, a crash, an exception anywhere in a command: TypeOK; PausedOnlyWhileStopped; StopIsDurable; NothingStartsWhileStopped across restarts; ConfirmedOnce; RequestServed (a request behind another one and behind the background loop is answered, also when the holder raises) |
| `sched_two_tasks` (1.25 million) | two tasks that retry, with threads of their own, and a crash: BoundedRetry (attempts never exceed the limit plus what a crash or a stop gave back); ApprovalRunsOwnCall; RowsAreTrue (a running row is executed by the live process, a waiting one has its call in store); LifecycleSpec |
| `sched_queue` (770,000) | tasks of two priorities, submitted without end: QueuedIsServed (no submission and no retry of the same or a lower priority starves a queued task; a stream of higher priorities may, and the property says so) |
| `sched_interrupt` | violated, see section 4 |

Bounds: `Tasks` (a row is never deleted, so a submission uses up an identifier),
`MaxCrashes`, `MaxFaults`, and in `RoomFor` no more submissions in flight than
identifiers left. Two tasks give a served one and a waiting one; limit 2 gives one retry
and one exhaustion; two operators and the loop give two waiters behind a holder. The
proofs of section 5 have no such bounds. `sched_queue` lifts the first: `Recycle` gives
the identifier of a finished task to a new submission while the lock is free, so that two
identifiers stand for a stream of them (`StreamSpec` of `MCScheduler`). The code has no
ageing: `list()` sorts by priority first, so a task waits for ever behind a stream of
higher ones, which is the first disjunct of `QueuedIsServed`; without it TLC finds that
behaviour. This run has no crash and no exception: a crash loses the requests that
wait, which says nothing about serving them, and an exception leaves its row running
and its task served by nobody. PausedOnlyWhileStopped speaks of behaviours without a
crash so far (one in the middle of a reset leaves paused rows behind a cleared stop until
the next reset), and so does the second half of RowsAreTrue (a crash between
`checkpoints.pop` and the settle leaves a task that waits for a call that is gone).

### 3.2 SafetyLayer, BrainGraph, ConfirmedAction

`SafetyLayer` holds `SafetyValidator.validate` (`Validation`), the policy, the skill
catalogue with its metadata, and the reflexes. A world is what the rules read: stop,
battery class, one bit for "the target of the call is near and fresh", one for a
critical alert, and the Go2 self state (`NoSelf` until one was perceived). A call is a
skill and one bit for "arguments inside the fixed ranges". The order of the checks is
kept where it shows: `Validation` asks for confirmation after everything else, the
reflex rules are a sequence of which the first that applies fires.

`BrainGraph` has an action per node of the graph (`Perceive`, `Decide`,
`TooManyIterations`/`NextCall` for select_action, `Validate`, `Execute`,
`ObserveResult`, `Reflect`, `Finish`) with the edges of `graph.py` and `router.py` in
`node`, the steps of `resume` between its awaits, and what may happen between two
commands: `SetEstop`, `RefreshWorld`, `CancelPending`. `Raises` is an exception of
perception, planner or skill, `Restart` a new process on the saved world. `backend` is
chosen at the start: the Go2 or the mock. The planner returns any plan of the constant
`Plans`, empty ones included; perception returns any world of `Worlds` but cannot change
the stop. Since the service lock admits one command at a time (`Scheduler`), the stop
changes between commands only. One conversation thread is followed; several threads and
tasks are in `Scheduler`. Saving the checkpoint is part of `Finish`, since nothing is
awaited in between.

`ConfirmedAction` is the operator's view: a guarded call acts only after it was asked
about and approved, once per approval, and an approval may still be refused. The
refinement maps `granted` to the call between approval and execution and `acting` to
the call in its skill.

| Run | Shows |
|---|---|
| `graph` (293,000 states) | MotionIsLegal: with the stop on nothing that moves the robot reaches its skill, on a critical battery only the dock does, on the Go2 nothing moves without a question. ObserveBeforeAct: no action is chosen on a world older than the last one. ActsAsConfirmed, the refinement. CommandEnds under fairness |

`StoppedDoesNotMove` is worth a word: the validator lets `dock` pass under an active
stop (`ALWAYS_ALLOWED`), and what keeps a stopped robot from docking is that the first
reflex wins whenever the stop is on, that the stop cannot come in while a plan is
under way, that `dock` is never put to an operator, and that resume validates again.

Bounds: `MaxIterations = 3` allows an action, a replan and the action that hits the
limit; plans of up to two calls have a call behind a failing, a blocked and a confirmed
one; the plans hold one skill of each class (migrated and legacy, guarded and free,
hidden and visible, moving and not, in and out of range), the worlds one self state for
each reflex rule.

### 3.3 MotionStream, TeleopSession, Telemetry: the run `driving`

1.8 million states: 0.9 million of streams, 0.76 million of operators, 0.14 million of
telemetry.

`MotionStream`. Two threads: the service's event loop runs the callers (`caller`), the
transport's background loop runs the frames (`job`, one per motion generation). A
request bumps `gen`, waits until the idle event is set, and submits a job; a stream
publishes as long as its generation is the newest, a halt publishes zeros. `Request`,
`Wake`, `Resume`, `StreamReturns` and `HaltReturns` are a caller's steps between its
awaits; `Cancel`, `BridgeTimeout` and `CancelWaiting` are what ends one early; `Check`,
`Publish`, `Zeros` and `Cancelled` are a job's steps. `Check` and `Publish` are two steps
because the other thread may take a new generation between the comparison and the
frame. `SetIdle` wakes the threads that have reached `Event.wait` and may miss those
that have not. `Follow` holds callers to what the code above does: a hold is followed by
a release (`teleop/session.py`), a drive that raised, or whose robot still reports
motion, by a stop (`actuation/unitree.py`). A velocity sample is "moving or not"; which
of the two channels carries it (joystick or Move) is left out. Properties: StaysStill
(nothing older moves after a halt returned; every way out ends in a zero frame; whoever
waits for the event is woken by somebody) and NoInterleaving (a preempted stream never
moves the robot again once its successor did). Left out: the StopMove request behind a
stop's zeros, and the failure of a halt itself (one whose zeros cannot be sent promises
nothing). Bounds: three generations plus one owed halt per caller, two frames to a stream
and two zeros to a halt, one fault; three callers make a stream, its successor and a halt
that both wait for it.

`TeleopSession`. The one session of the process (`control/authority.py`), called by
dashboard requests, the gRPC server and the gateway's bridge: `Clients`, several of which
may present the same `operator_id` (`OperatorOf`), and of which the operator remembers
the last lease id it was given (`known`; for the `Dashboard` this is
`_web_teleop_lease_id`, forgotten when it stops and asked for anew when empty). `lock` is
the client inside `self._lock` across an await; an operation with no await under the lock
is one action. `acquire_lease` is five actions: the grant is under the lock, looking at
navigation, cancelling it, and taking the lease back are not. `loop` is the drive task:
`LoopTop` checks lease and deadman, `Frame` is a 50 Hz tick of the stream, `ChunkEnds`
goes round, `LoopReleases` is the `finally`. `wheels` is the velocity last commanded with
its operator and the age of its setpoint; `nav` is a navigation client of which only
status and goal matter. `PostureAsks` to `SetPosture` are the dashboard's posture
endpoint: it releases its own lease, cancels the goal it sees, and sends a sport request
that preempts nothing. Time is `Tick`: ages and remainders saturate, so the state stays
finite without a bound on time. Properties: DrivenByHolder (no motion on an old setpoint,
even when the sonar read delays it; the robot moves only for the holder of the lease),
OneMover (a goal from before the lease is not active while its loop drives; when a
posture goes out the dashboard does not drive by the lease it had and no goal that was
there to be cancelled is active), LockIsBrief (the lock is held for the sonar or an
ending loop only).

Assumed: a tick is long against a frame of 20 ms, a step of the loop and a halt, so `Tick`
waits for these; only navigation and the sonar read take ticks. The lease outlives the
deadman by more than a tick (`TeleopAssumption`; the defaults are 2000 and 300 ms; a
shorter `ttl_ms` given by a gRPC caller is not modelled). Bounds: two requests of the
dashboard and one of another operator, two leases, two goals (one cancelled by its own
id, one that replaced it meanwhile), a deadman of one tick, a lease of three, a chunk of
two; postures one at a time, asked for while another lease and another goal may still
come between. The two dashboard requests are interchangeable (symmetry).

`Telemetry`. Callbacks on the connection's thread keep the newest sport and low state and
never drop them over WebRTC; a command reads twice to observe, a drive reads once more
and refuses a state that is old or not standing. DrivesOnRecentWord: whoever drives, the
robot was reported standing, and it drives blindly no longer than the age allowed, the
wait for the motion lease and one segment together. `IdleWait` is the ten seconds of
`_wait_drive_idle`; one tick stands for each of the three times.

No run above checks deadlocks where bounds make actors stop (`CHECK_DEADLOCK FALSE`).

### 3.4 Navigation: the run `local_navigation`

About 230,000 states.

`LocalNavigation` is the native client (replanning) and the direct one (straight
segments): each accepted goal gets a task with a loop of guard, plan, drive and settle
(`exec`); a skill sets, polls and gives up, the dashboard sets and cancels. A step runs
from one await to the next; a sensor snapshot suspends only until the first sport state
has arrived, which is why set and cancel are short. `GoalLifecycle` is what a client
promises; `LifecycleSpec` is the refinement. `Nav2Client` is the third client: rows of
blocking bridge calls in worker threads, one at a time behind a lock, and the state is
written after the call from what was asked before it; `server` is the action server.
Properties: StopReaches (whatever drives is the goal the client shows active, so a cancel
acts on it), SuccessIsOwn (a success the skill reports was won by its goal or a later
one), EveryWaitEnds, LifecycleSpec.

`Overlap = FALSE` in this run: no goal is set while another call is between its check and
its write. With `Overlap = TRUE` StopReaches fails (section 4). Bounds: two goals, one
skill and one dashboard, two failed plans, two rounds without progress, one loss of the
sensors; `MaxDuration` of one, since time passes in an action of its own and any later
deadline only repeats the loop.

`VoxelMap` is a row of voxels away from the sensor, so that a return from one sees
through all nearer ones. MapIsTrue: no cell is shown free whose last observation was a
return, unless the limit threw it out, and the file on disk is always whole.
ObstacleStays: an obstacle leaves only by the limit or after `CarveMisses` sights through
it. `CarveMisses` is 2 here and 3 in the code; the row has three voxels and the limit
leaves one of them, so that every second return throws one out. (MapAlwaysTrue and
ObstacleAlwaysStays hold for every row and limit.)

`GridPlanner` holds the pure functions between a map and a route (inflation, nearness
costs, nearest safe goal, A*, simplification, corridor, known-free grid, frontiers) as
functions whose loops are recursive in the number of the round, asked about every 5 by 5
grid with up to two returns in its three middle columns and one unseen cell. Costs are
integers: a side is 100, a diagonal 142, distances to the goal are rounded down, so that
the heuristic never falls by more than a step costs, which is what holds of the code's
floating-point numbers up to their last digits. An entry of the heap that a cheaper one of
its cell overtook is dropped when that happens; in the code it is popped later and finds
nothing to improve.
PlanIsSound compares the functions with reference definitions: A* finds a path whenever
there is one, none is cheaper, the simplified path is clear and squeezes between no
obstacles that touch, a global route lies in what was seen free, and every goal of a
frontier can be reached.

`Terrain3D` is the multi-level planner with its surface graph, closing, walls, safe prefix
and overlays while its map changes, also without recursive operators; the field holds
steps, lone returns, boxes, walls to the ceiling and lintels. PathIsSafe: no path returned
leads through what was cut out, under what the robot does not fit below, over too high a
step, or too near to a column that is in the way. Two kinds of column the graph takes for
no hazard, and the property excepts them: one taller than the robot (`terrain_walls`,
section 4), and a lone return, which the code says "is floor support and must not be
mistaken for a wall".

| Run | Shows |
|---|---|
| `local_navigation` | all of the above |
| `terrain_walls` | violated, see section 4 |

### 3.5 RobotConnection, Gateway: the runs `links` and `gateway_deadman`

`RobotConnection`: `connect()` runs on the caller's loop, which it blocks while it waits,
and gives each attempt a thread with a loop of its own; the robot has one slot and forgets
a silent peer after a minute; the link may be lost at any time, which nothing in the
transport notices; `connect()` may be called again once it has raised, and `disconnect()`
may come from another task wherever `connect()` sleeps. Attempts are not counted: the
module keeps the present one's thread and what is left of the earlier ones. `Gateway`: offers become peers with a bridge each, whose sender loop
keeps a lease and resends the last joystick value; offers are handled one at a time, state
callbacks, the pruner, messages and sender loops run between their awaits.

| Run | Shows |
|---|---|
| `links` (298,000 states) | ConnectionIsTrue (at every moment `_connected` has a live connection behind it, but for the flag of a handshake that finished after its wait; a `connect()` that returned left it set; none after shutdown, no two attempts shake hands at once), ConnectEnds (unless outages go on for ever); NoPeerLeaks (an open connection is the user's, or somebody is about to close it), PeersAreReaped (a teardown closes the peer it was meant for, every failed peer is closed or its close given up after two seconds) |
| `gateway_deadman` | violated, see section 4 |

Bounds: one retry of an occupied slot; outages, attempts and calls of `connect()` have no
bound. Two peers of one user, the second replacing the first; a deadman of one tick.

ConnectEnds excuses exactly one behaviour: infinitely many failures of the class "other",
which `unitree_webrtc.py:985-1014` retries without a limit. Without that exception TLC
finds the outage that never ends.

### 3.6 Exploration, Errands, Planning, Camera, MediaRelay: the run `skills`

382,000 states. The run follows one skill of a command, since the graph runs one at a
time, or one of the parts it relies on (`runs`).

`Exploration`: explore and the four motion skills; a segment is one `UnitreeRobot.drive`,
a reading ages while the robot moves and while the vision model is asked. ForwardIsSensed:
a segment that takes explore forward follows a reading that says the way is free.
AimlessStops: explore gives up exactly when its record of steps is aimless (all holds, no
progress, or turns that alternate); the record is compared with the counters of the code.
`Errands`: patrol, frontier, terrain and visual controllers, remember_room, find_object;
of the client only the promise of `GoalLifecycle` is used; dashboard users set and cancel
goals beside them, and the service may stop at any await. NoGoalLeftBehind: neither a skill
that returned nor a shutdown leaves a goal of its own driving. SkillReturns: every skill,
and the planner's wait for the model, comes to an end; nothing above a skill has a timeout.
`Planning`: both LLM clients with attempts, parsers, fallback, degraded mark, and the
memories that reach the prompt. PlanIsMarked: a plan is marked degraded exactly when the
substitute made it, and holds only calls that the answer held and its skill accepts.
`Camera` and `MediaRelay`: viewers' peers, the snapshot tap, and the ffmpeg relays with
their queues and processes over sessions that come and go. MediaIsCounted: open peers are
registered, one relay empties a track and one decoder fills the speaker. MediaFollows:
pictures come while somebody polls, no encoder outlives its track, the voice is heard in
order and at most the queue's length behind.

| Run | Shows |
|---|---|
| `skills` | all of the above |
| `planning_memory` | violated, see section 4 |

Bounds: three steps, three turn and two move segments, two legs per errand, one goal from
the dashboard; memory of 4 entries of which 2 are shown (10 and 5 in the code and in
`planning_memory`), one retry, two planning cycles; two viewers, two tracks, one loss; one
browser, queues of 2 (100 and 50 in the code), three chunks of speech, two sessions, two
starts, one process that breaks; the video or the audio relay alone, as the settings allow.
A queue of two overflows with three chunks, which is what the queue properties are about.

### 3.7 Fairness

`Scheduler`: weak fairness of the holder of the lock (`Step`, or the exception that
ends it) and of the background loop. The event loop runs what is ready; the planner,
the robot commands and the navigation skills all carry timeouts, so a command returns.
No fairness for operators, for crashes, or for a dead process coming back.
`BrainGraph`: weak fairness of `GraphStep`, for the same reason. The framework's own
recursion limit on graph steps is not modelled; it ends a command by an exception,
which is `Raises`. `Navigation`, `Links` and `SkillRun`: weak fairness of the steps of a
task or thread that is ready and of the passing of time, since their waits end by
themselves or by a deadline; none for other users, faults, or new connections. Where a
property needs the environment to go on (a track that delivers, polls that come), the
property itself says so.


## 4. Disagreements with the documents

Each of these is a run with one property, taken from the quoted document, that TLC
violates (quotes in `PROJECT.json`, "findings").

| Run | Property | What the code does |
|---|---|---|
| `sched_interrupt` | InterruptPausesRunning | an interrupt waits for the lock, so the running task completes first |
| `gateway_deadman` | DeadmanHolds | the bridge repeats the last setpoint after the browser is gone, so the session's deadman never fires |
| `terrain_walls` | WallsKeepDistance | a wall seen to above the robot's height is no hazard of the surface graph |
| `planning_memory` | RejectionIsKnown | a call the client turned down is never told to the model that is asked again |

Smaller ones are in the models and have no run of their own. Several can be seen by one
change of a run, which is named.

Scheduler and graph:

* two tasks on one thread share one checkpoint (`loop.py:525`, against `src/README.md:152`):
  give both tasks one thread in `SchedulerTwoTasks.cfg` and ApprovalRunsOwnCall fails;
* resume drops the calls behind the approved one;
* an exception that escapes `run_command` leaves its row `running` until an interrupt or
  a restart, executed by nobody (`CommandRaises`);
* a reflex that only reports (low battery, not standing) replaces the plan of the
  command, which is then reported completed although nothing of it was planned;
* a crash while a task runs gives it an attempt beyond `max_attempts` (`requeues` in
  BoundedRetry counts it);
* `current_task` stays "running" when a command ended on an empty plan, an exception or
  a restart, and the drift rule of the next command reads it as an active task;
* a failed action followed by an empty new plan is reported "completed";
* `AgentService.start` does not take `_stop_lock`; `stop()` says "Motion producers must
  stop before ..." (`runner.py:106`) and stops the dashboard's teleoperation only, not the
  sessions of the gateway and of gRPC; it clears the subscribers before it publishes
  `service_stopped`.

Motion and teleoperation:

* a cancelled or timed-out drive sets the idle event before its zeros are out
  (`Interrupted`), so its successor, which should wait for them
  (`docs/plans/2026-06-11-172047-unitree-live-control-loop.md:104`), may start between
  them. The zeros are a pause in the successor's motion, never motion of the older one;
* a navigation goal started after the grant runs beside the drive loop
  (`teleop/session.py:133` "Manual control has priority, but is not allowed to overlap
  navigation."; `NavStarts` looks at neither lease nor loop);
* two dashboard requests that acquire at once may leave the older lease id in
  `_web_teleop_lease_id`: setpoints are then refused, and a stop or a posture releases
  nothing ("stale lease") while the robot drives on until the deadman;
* `app.py:488` "Release any keyboard teleop lease so posture and driving never fight.": a
  keyboard request or a map goal during the awaited posture, an acquire whose answer is
  still to come, another operator's lease and scheduled skills are not kept off, the
  result of the goal's cancel is not looked at, and the endpoint asks neither the stop nor
  the safety layer;
* the last sport state outlives the connection, state and age are read in two steps while
  callbacks run on another thread, `verify_stopped_after_drive` looks at no age, a failed
  read gives a battery of 100, and drive error codes only warn; the read before a drive is
  what keeps DrivesOnRecentWord;
* a lease may be lost when the gateway's sender loop is cancelled while it acquires
  (`Acquired`).

Navigation:

* `service/app.py:450` "Operators must always be able to stop navigation": the relative
  setter reads the sensors between its active check and its write, so that two goals may
  run of which cancel knows one: set `Overlap = TRUE` in `LocalNavigation.cfg` and
  StopReaches fails;
* a late canceller cancels the newer goal (`native_go2.py:478` and after); a read of the
  state turns UNAVAILABLE into IDLE with the direct client, so a skill reports timed_out;
* Nav2: `send_goal` does not look for an active goal; a submission that times out leaves a
  goal running of which the client never learns; UNAVAILABLE is final, so that a goal that
  runs on cannot be cancelled; CANCELED is written when the server accepts the request; a
  poll in flight while a goal is replaced writes the old goal's status over the new one
  (excluded with `Overlap`);
* a cached cloud that is merged several times counts several misses, also by read-only
  tools; eviction throws out the newest single sights, and an evicted column in the known
  free cells is free again; before relocalisation clouds go into the loaded map in the
  odometry frame (`native_go2.py:777`, against
  `docs/plans/2026-08-04-dimos-navigation-extraction.md:46`); misses are not saved;
* closing puts surfaces beside a step, so that a path may climb a ledge of two levels over
  a surface that is not there; known but unwalkable columns stay frontiers for ever; with
  voxel centres a rise of a level never passes the slope gate, so `step_threshold` and
  `up_m` are inert; each plan makes a new planner, so the safe prefix is never used in
  production.

Skills and planning:

* find_object does not end with the native client in session-local mode: its tolerance of
  0.10 m (`native_go2.py:601`) is wider than the 0.05 m of the loop
  (`spatial_memory.py:206`). The model takes the native client with a persistent map;
* a failed look ends find_object while its goal drives on; `_wait_terminal` of the
  controllers has no deadline; `_stop_active_goal` of the visual controller is never
  called; retreat never looks behind it; unknown sensors are taken as free by
  go2_local_nav; stop, battery and errors are looked at before a step only; the VLM is
  awaited between a reading and the nudge it decides on;
* `arguments` that come as a JSON string in the text of a message become `{}`, hence the
  defaults; the offline substitute maps "stop the patrol" to patrol and names skills the
  Go2 hides; the validator accepts hidden skills; the newest observation does not reach
  the prompt once the memory has five entries
  (`.cursor/plans/robot_brain_skeleton_fe058a99.plan.md:163`).

Connections and media:

* a handshake that finishes after its wait timed out sets `_connected`, and
  `_cleanup_failed_attempt` (`unitree_webrtc.py:1149-1196`) releases the connection without
  a look at the flag. If `connect` raises then, its deadline passed or its task cancelled,
  the flag stays: `is_connected` is true with no connection and no thread, and the next
  `connect` returns at once (line 909). `late` marks the case, which ConnectedIsServed
  excepts. A lost link leaves the flag too; that the robot answers is a matter of the age
  of its reports (`Telemetry`);
* `connect` retries any failure but a refused key or an occupied slot for ever
  (`unitree_webrtc.py:985-1014`);
* a peer whose close takes more than two seconds is given up (`browser_peer.py:280-284`);
* `unitree_webrtc.py:547` "Best-effort disconnect so a failed handshake releases the Go2
  WebRTC slot": on a time-out the loop stop cancels the handshake and the cancellation
  passes `except Exception` by;
* one bad message ends the gateway; there is no reconnect of its websocket;
* on disconnect nothing ends the audio relay: `track.end()` waits on a full queue that
  nobody reads, `proc.wait()` on an ffmpeg that nobody kills, so the thread does not end,
  the UDP port stays taken, and after a reconnect the operator's voice is not heard; a
  relay whose encoder broke stays "already_running"; `ensure_media_relays` is not
  idempotent while a disconnect waits (it has reset the flag: excluded in
  OneRelayPerTrack); relays started on demand take the connection's track callbacks away;
* the newest browser's microphone replaces the others' and nothing comes back when it
  leaves; several receivers of one track split its frames;
* a track that arrives after `aclose` starts a decoder (`frame_source.py:158` "so no media
  work survives shutdown"); a negotiation cancelled by its time-out moves the motion
  generation on and ends a drive in progress; a dead tap serves its last picture for ever.

## 5. Proofs

Eight modules prove the theorems below for every value of the constants that the named
assumptions of the models allow. Every invariant, every action property and every
refinement that a passing run checks is stated by one of them; what is left to TLC alone
is liveness.

| Module | Theorem | States |
|---|---|---|
| `SchedulerProofs` | TypeCorrect | `Spec => []TypeOK` |
| | RetryBounded | `Spec => []BoundedRetry` |
| | StopSurvives | `Spec => []StopIsDurable` |
| | StoppedStaysStopped | `Spec => NothingStartsWhileStopped` |
| | CallsRunOnce | `Spec => ConfirmedOnce` |
| | LifecycleImplemented | `Spec => LifecycleSpec`, the refinement of `TaskLifecycle` |
| | PausedAreWaiting | `Spec => []PausedOnlyWhileStopped` |
| | ApprovedCallIsOwn | `Spec => []ApprovalRunsOwnCall`, given `SeparateThreads` |
| | RowsTellTheTruth | `Spec => []RowsAreTrue`, given `SeparateThreads` and `MaxFaults = 0` |
| `BrainGraphProofs` | GraphInvariant | `Spec => []GraphInv` |
| | MotionAlwaysLegal | `Spec => []MotionIsLegal` |
| | ObservesBeforeActing | `Spec => []ObserveBeforeAct` |
| | OperatorImplemented | `Spec => ActsAsConfirmed`, the refinement of `ConfirmedAction` |
| `TelemetryProofs` | RecentWord | `TelemetrySpec => []DrivesOnRecentWord` |
| `MotionStreamProofs` | StaysStillAlways | `StreamSpec => []StaysStill` |
| | FramesNeverInterleave | `StreamSpec => NoInterleaving` |
| `DrivingProofs` | TeleopInvariant | `TeleopSpec => []TeleopInv` |
| | LockIsBriefAlways | `TeleopSpec => []LockIsBrief` |
| | HolderOnly | `TeleopSpec => []DrivenByHolder` |
| | OneMoverAlways | `TeleopSpec => []OneMover` |
| | DrivingKeepsItsPromises | all six properties of the run `driving`, of `DrivingSpec` |
| `LinksProofs` | ConnectionAlwaysTrue | `ConnectionSpec => []ConnectionIsTrue` |
| | PeersNeverLeak | `GatewaySpec => []NoPeerLeaks` |
| | ReplacementAlwaysSurvives | `GatewaySpec => ReplacementSurvives`, the first half of PeersAreReaped |
| | LinksKeepTheirPromises | the three of them, of the composed `LinksFairSpec` |
| `NavigationProofs` | StopAlwaysReaches | `ClientsSpec => []StopReaches`, given `~Overlap` |
| | SuccessIsAlwaysOwn | `ClientsSpec => []SuccessIsOwn`, given `~Overlap` |
| | GoalsImplemented | `ClientsSpec => LifecycleSpec`, given `~Overlap`: the refinement of `GoalLifecycle` |
| | MapAlwaysTrue | `MapSpec => []MapIsTrue` |
| | ObstacleAlwaysStays | `MapSpec => ObstacleStays` |
| | PathAlwaysSafe | `TerrainSpec => []PathIsSafe` |
| | PlanAlwaysSound | `NavigationSpec => []PlanIsSound` |
| | NavigationKeepsItsPromises | the seven safety properties and refinements of the run `local_navigation`, of `NavigationSpec`, given `~Overlap` |
| `SkillRunProofs` | GoalNeverLeftBehind | `Spec => []NoGoalLeftBehind` |
| | ForwardAlwaysSensed | `Spec => []ForwardIsSensed` |
| | AimlessAlwaysStops | `Spec => []AimlessStops` |
| | PlanAlwaysMarked | `Spec => []PlanIsMarked` |
| | MediaAlwaysCounted | `Spec => []MediaIsCounted` |
| | VoiceAlwaysRecent | `Spec => VoiceIsRecent`, the action property within MediaFollows |

### 5.1 The arguments

Every proof has one shape. The property is not inductive as it stands; a conjunction of
named parts is, and implies it. A lemma per part or per action shows that a step keeps
the parts, with a case per action. What follows is the inductive invariant of each
module and what each part is for.

**Scheduler.** `IInv` is `TypeOK` with

* `ControlInv`: which phases go with which holder, and with which kind of `job`. Needed
  because `Settle` and `CommandRaises` do not ask who holds the lock.
* `JobInv`: the holder's copy of a row is still the row. This is what the lock buys:
  `_settle_task` rewrites the whole row from a copy taken before the command, and
  without this conjunct a settle could undo a cancel or lose an attempt.
* `StopInv`: how far a stop has got at each phase, and that no command is in progress
  once it is answered. `StopIsDurable` is its first conjunct.
* `CallInv`: a call is in one checkpoint, or in the hands of the resume that popped it,
  or executed, never in two of them; calls are not newer than the attempts of their
  task, so the call a running task may ask about is new. Without the last part a second
  attempt could ask about an executed call.
* `RetryInv`: `BoundedRetry`, and an absent row has no attempts.

Two more are proved on top of it. `RowInv` relates rows to the live process: a process
that is not up has crashed, paused rows exist only under a stop, a running row is the
lock holder's as long as no exception has escaped. `ThreadInv` relates rows to
checkpoints: the newest attempt of a waiting task is what its checkpoint holds, from the
graph that saves it (`SavedCall`) to the settle, the resume (`TakenCall`) or the cancel
(`CancelServed`) that takes it away. It needs `SeparateThreads`, that no two tasks are
submitted under one thread, which is what `submit_task` does when the request names
none; that it fails otherwise is in section 4. `RowsTellTheTruth` assumes no escaping
exception, as its run does: with one the row stays `running`, also section 4.

**BrainGraph.** `GraphInv` is `TypeOK` with `SeenInv` (a node that chooses or runs a
skill comes after an observation), `StopInv` (when the stop was on, the reflex took the
place of the plan and stays there), `CallInv` (what the validator said of the current
call still holds when the call runs, and what runs without a question needs none) and
`PendingInv` (only calls that need a confirmation are put to an operator). `StopInv` is
the part that a look at `validate` does not give: the validator itself lets `dock` pass.

**Telemetry.** `AgeIsSilence`: the age the transport computes is how long the robot has
been silent. `LeaseIsFresh`: a drive that waits for the lease has seen a standing robot,
and the silence since is at most `MaxAge` and the time waited.

**MotionStream.** `StreamInv`: `OwnerInv` (no two callers share a generation, a job is
the caller's who awaits it or cancelled), `JobInv` (what a job is at each step of its
coroutine), `LoopInv` (one job publishes at a time), `HaltInv` (from its first zero
frame on a halt has the last word over older streams), `RestInv` (while the robot moves,
somebody is yet to bring it to rest), and `EventWillBeSet` (while the idle event is
clear, a stream runs whose `finally` will set it). The last one is why nobody waits for
ever, said without fairness.

**TeleopSession** (in `DrivingProofs`). `TeleopInv`: `LockInv` (who holds the lock waits
inside it, and only there), `LeaseInv` (ids are granted in order, the lease that stands
is the newest), `SetpointInv`, `WheelsInv` (without a loop the robot moves for no
operator, unless a halt is on its way), `NavInv` (whoever may write a setpoint has seen
navigation preempted) and `PostureInv` (a posture past its release has left neither the
lease nor the goal it found). `SetpointInv` is the clever one: the age of a setpoint and
what is left of the lease add up to at least `Ttl`, because `set_velocity` renews both.
So the deadman always comes before the lease ends, and motion never outlives its holder.

**Driving** starts in one of its parts and stays there; `PartsOfDriving` shows that a
step of it is a step or a stutter of each part, whence DrivingKeepsItsPromises.
`LinksProofs`, `NavigationProofs` and `SkillRunProofs` do the same for their
compositions.

**RobotConnection.** `ConnectionInv`: `SettledInv` (the threads of earlier attempts, and
the last one's whenever `connect` is neither at work on it nor up with it, were told to
stop, and outlived their join if they are still there), `AttemptInv` (what the attempt can
be at each point of `connect`), `UpInv` (the thread of a returned connection), `CloseInv`
(what `disconnect` has undone by the time it joins) and `FlagInv` (the two promises about
`_connected` themselves).

**Gateway.** `GatewayInv`: `OfferInv` and `MadeInv` (where the offer in progress is and
which peer it has made), `RoomInv` (who may still be made), `CallbackInv` (a peer's
callback is under way only once the peer has failed), `LockInv` (one teardown at a time,
and the peer it was meant for is still the user's), and `NoPeerLeaks` itself.

**Navigation clients.** `DriveInv` for native and direct: `TaskInv` (a task that drives
is the newest and its goal is active), `StatusInv`, `SetterInv` (a setter that waits for
the sensors is alone) and `ReportInv` (the goal a reported success rests on is done).
`Nav2Inv` for the action client: what the server has (`ServerInv`), what the client
knows (`KnownInv`) and shows (`ShownInv`), queries and answers in flight (`QueryInv`,
`AnswerInv`). The three theorems assume `~Overlap`, as the run does; with two
overlapping setters StopReaches is false, see section 4.

**VoxelMap.** `MapInv`: `Sound`, that a free cell with no return in it was last seen
through, or was thrown out by the limit; `MissInv`, that misses counted against a voxel
are never more than the times it was seen through, which is why an obstacle stays; and
`FilesInv`, that the saved map is whole and sound like the one in memory.

**Induction.** The library's induction theorems take an operator as a parameter, which
no installed prover can instantiate. What the theorems about loops need is induction
along a *set* of numbers: `SetInduction` says that a set of numbers that holds 0 and with
every number the next one is all of them, and it follows from `LeastNumber`, that every
non-empty set of numbers has a least one. So a loop is written as a recursive function of
the round; `Iterates` shows that there is such a function, so that the CHOOSE behind it
has something to choose, and `Stays` that what holds at first and is kept by a round holds
at every round. PathAlwaysSafe, PlanAlwaysSound and PlanAlwaysMarked rest on these lemmas.

**Terrain3D.** `TerrainInv` says that columns hold levels of the field, and that the last
path is made of places; `PathIsSafe` need not be kept, since a change of the map takes the
last reply away. The work is in the operators. `SurfacesAreRoomy`: after any number of
passes of the closing, a surface has room above it. `CheapestWalks`: a cheapest path runs
along the graph. `PrefixWalks` and `RetreatLeaves`: what is kept of the last path, which
was made on an older map, is a path along the graph as it is now. `WalksAreSafe`: a path
along the graph is safe, and here the height of a column and the rise of a step meet the
walls.

**GridPlanner.** Nothing changes but the question, so `AskedInv` only says what a question
is; PlanIsSound follows from four lemmas about the operators that hold for any grid.

* `AlwaysShortest`. `HeuristicConsistent`: no step brings the goal nearer by more than it
  costs, which on rounded roots is a lemma of its own, `RootStep`. `SearchInv` is what a
  search may look like: what was reached was reached by an open step and for no less than
  that step costs, what waits is ranked by its estimate, what was passed has offered its
  cost to whatever it leads to, and has an estimate no higher than that of anything that
  waits. The last part is the one that needs the consistent heuristic: without it a passed
  cell could be reached again more cheaply. `ExpandKeeps`: a round keeps all that and
  passes one more cell, so as many rounds as there are cells are enough (`SearchEnds`).
  `TraceWalks`: the way back to the start costs less at every cell, so it meets no cell
  twice and is found within as many. `DistancesAre` and `WalkCosts` say the same of the
  reference, round by round, and `SearchIsCheapest` puts the two together: whatever a
  round reaches, the search has reached as cheaply, or it lies behind the goal, so far
  that a way through it is no cheaper.
* `AlwaysClear`. `SimplifyIs`: from each corner that is kept to the next the path did not
  turn. `LegIs`: such a stretch goes straight, in one of eight directions, and
  Bresenham's line along it is the cells of the stretch (`LineIs`). So `LegIsClear`: a
  line is as clear as the steps it stands for, squeezes included.
* `AlwaysSeen` is the same on the grid of known free cells.
* `AlwaysReachable`. A frontier was spread to from the robot through free cells. Were the
  heap empty, what the search has passed would be closed under the steps that the spread
  takes, so it would hold the whole spread (`SpreadStays`).

`PartsOfNavigation` then carries all theorems over to the composed `Navigation`.

**Skills.** `ErrandInv`: a skill that is not waiting for a goal has no active goal of
its own, unless it ended in one of the ways section 4 names, and the service is down
only after its skills. `ExploreInv`: how far the robot has turned since a reading is
bounded by the age of the reading, and a segment forward is decided on a reading of a
free way. `GuardInv`: each counter of the guard is as long as the run of steps of its kind
at the end of the record, the list of directions is that of the turns, place by place
(their `Rank`), and one of the outcomes for giving up is there exactly when the counters
say so. `AcceptedInv`: what is queued while a plan is carried out fits the skills and was
said. `AsksInv`: attempts at the model are counted, and more than `MaxRetries` of
them is what degraded means. `PeerInv`: the peers in the book are those that are open,
at each stage of the shutdown. `RelayInv`: in a session that is up and not being left
there is at most one video relay, one decoder and one track callback.
`SpeakerInv` and `AudienceInv`: what waits in a queue of speech is yet to be heard, in
its order and with nothing left out after it (`Line`), and only the decoder that has
the port is spoken to; unless it is the newest, the newest has nothing to play.

### 5.2 Assumptions

Constants are arbitrary but for the named assumptions, which TLC evaluates in every run:
bounds are natural numbers, and those that a loop counts down from are positive;
sentinels such as `NoOne` and `Nav` are no clients or operators. Those
that say more:

| Assumption | Says | Because |
|---|---|---|
| TeleopAssumption | `Ttl > Deadman + 1` | the lease outlives the deadman: by default 2000 against 300 ms; a shorter `ttl_ms` of a caller is not modelled |
| ErrandAssumption | `"active" \notin Outcomes` | an outcome ends a goal |
| VoxelAssumption, StreamAssumption | at least one hit, miss, frame | the constants of the code are |
| GridAssumption, TerrainAssumption | a grid of at least one cell, sizes and limits that are numbers, shapes within the levels | cells and levels are counted |
| MapsAssumption | the robot stands on the grid, and what is seen is in it | costmaps are made around it |
| SeparateThreads | tasks share no thread | what `submit_task` does by default |
| `~Overlap`, `MaxFaults = 0` | no two setters overlap; no exception escapes | StopReaches and RowsAreTrue fail otherwise, section 4 |

### 5.3 What the proofs changed in the models

`Validation` and `ErrorStreak` in `SafetyLayer` had CASE arms that overlap, which TLC
resolves by order and the logic does not; they are IF/ELSE in the order of the code now.
`ErrandAssumption` and `RelayAssumption` say what the instances had taken for granted.
`GridPlanner` and `Terrain3D` had recursive operators, under which the prover has no
arithmetic; they are recursive functions of the round now, and the sequences filtered in
`Planning` are such a function too. A* drops an overtaken entry of the heap at once, so
that every round passes a cell and the number of rounds is bounded. Its costs were scaled
to 10 and 14, which rounds the diagonal down: on a large grid the estimate is then more
than what is left, and the proof of `RootStep` fails. They are 100 and 142 now, rounded
up, under which the heuristic is as consistent as that of the code. PathIsSafe
claimed too much: a lone return beside the path, higher than a step, is no hazard to the
code. The instance had no such column, and the proof would not go through; the instance
has one now, and the property says what the code does.

### 5.4 What is only model-checked

* Liveness, because the prover has no ENABLED: RequestServed, QueuedIsServed,
  CommandEnds, EveryWaitEnds, ConnectEnds, SkillReturns, `TapFollowsPolls` and
  `RelayFollows` of MediaFollows, and `FailedIsClosed`, the second half of
  PeersAreReaped.
* The runs that expect a violation.

The search of `Terrain3D` is modelled by its result, the least cost found round by round,
so that it finds the cheapest path is not a property there.

## 6. Not modelled

`PROJECT.json` lists every component with a reason. Out of reach or of no interest to
a model checker: floating-point geometry (pose graph, relocalisation, velocity laws,
slopes), pixel and sample conversions, what a language or vision model answers (any
answer of a set), ranking and growth of the append-only memories, navigation diagnostics
and replay, tools (thin wrappers), the dashboard page, lights and other single requests,
`RollingTerrainMap` (tests only), scripts, examples and the evaluation harness.
