------------------------------ MODULE Scheduler ------------------------------
(***************************************************************************)
(* The resident scheduler: service/runner.py (AgentService: one background *)
(* loop and any number of HTTP handlers, serialised by _scheduler_lock),   *)
(* runtime/scheduler.py (AgentScheduler) and the entry points of           *)
(* runtime/loop.py it calls (run_command, resume, handle_event,            *)
(* refresh_world, reset_estop), over the SQLite rows they share.           *)
(*                                                                         *)
(* Persistent: tasks, checkpoints, snapshot.  Lost in a crash: everything  *)
(* else.  An action ends where the code awaits, or between two SQLite      *)
(* transactions, so that a crash can fall there.  What happens inside      *)
(* graph.ainvoke is reduced here to how it ends; BrainGraph.tla opens it.  *)
(***************************************************************************)
EXTENDS TaskQueue, Sequences

CONSTANTS
  Clients,     \* HTTP handlers that may be in flight at the same time
  Runner,      \* the background loop
  NoCall,      \* no pending tool call under a thread
  MaxCrashes,  \* bound on process crashes in a behaviour
  MaxFaults    \* bound on exceptions that escape a command

ASSUME SchedulerAssumption ==
  /\ Runner \notin Clients
  /\ NoCall \notin Tasks \X Nat
  /\ MaxCrashes \in Nat
  /\ MaxFaults \in Nat

VARIABLES
  tasks,        \* scheduled_tasks
  checkpoints,  \* checkpoints: thread -> pending tool call
  snapshot,     \* newest row of world_state_snapshots
  world,        \* context.world of the live process
  mode,         \* "up", "down" or "recovering"
  lock,         \* _scheduler_lock: holder, then waiters in FIFO order
  phase,        \* where the holder is
  job,          \* locals of the holder: task copy, popped call, result
  request,      \* what each HTTP handler came for
  crashes, faults,
  acked,        \* history: an interrupt was answered and no reset followed
  executed,     \* history: confirmed calls handed to a skill
  requeues      \* history: attempts of a task given back after a crash or a pause

durable == <<tasks, checkpoints, snapshot>>
bounds == <<crashes, faults>>
history == <<acked, executed, requeues>>
vars == <<tasks, checkpoints, snapshot, world, mode, lock, phase, job, request,
          crashes, faults, acked, executed, requeues>>

Procs == Clients \union {Runner}
World == [estop: BOOLEAN, low: BOOLEAN]
\* A tool call is told apart by the task and the attempt whose plan it came from.
Calls == Tasks \X Nat

NoRequest == [kind |-> "none"]
Requests ==
  [kind: {"submit"}, priority: Priorities, limit: Limits] \union
  [kind: {"cancel"}, task: Tasks] \union
  [kind: {"resume"}, task: Tasks, approved: BOOLEAN] \union
  [kind: {"interrupt", "reset"}]

NoJob == [kind |-> "none"]
Results == {"", "completed", "awaiting_confirmation", "failed", "blocked",
            "rejected", "missing_checkpoint"}
Jobs ==
  {NoJob, [kind |-> "recharge"]} \union
  [kind: {"run", "resume"}, id: Tasks, task: ScheduledTask,
   call: Calls \union {NoCall}, result: Results]

Phases == {"enter", "polled", "graph", "settle", "pop", "observe", "exec", "cancel",
           "stopRobot", "pausing", "resuming"}

Holding(p, ph) == mode = "up" /\ lock # <<>> /\ Head(lock) = p /\ phase = ph
Serving(c, kind, ph) == Holding(c, ph) /\ request[c].kind = kind

\* Fault: the lock goes to whoever came last.
Release_LastCome ==
  /\ lock' = IF Len(lock) > 1
             THEN <<lock[Len(lock)]>> \o SubSeq(lock, 2, Len(lock) - 1) ELSE <<>>
  /\ phase' = "enter"
  /\ job' = NoJob
  /\ request' = IF Head(lock) \in Clients
                THEN [request EXCEPT ![Head(lock)] = NoRequest] ELSE request

\* Leaving `async with self._scheduler_lock`: the next waiter runs.
Release ==
  /\ lock' = Tail(lock)
  /\ phase' = "enter"
  /\ job' = NoJob
  /\ request' = IF Head(lock) \in Clients
                THEN [request EXCEPT ![Head(lock)] = NoRequest] ELSE request

GoTo(ph) == phase' = ph /\ UNCHANGED <<lock, request>>

SetStatus(t, s) == tasks' = [tasks EXCEPT ![t] = Updated(@, s)]
-----------------------------------------------------------------------------
Init ==
  /\ tasks = [t \in Tasks |-> AbsentTask(t)]
  /\ checkpoints = [th \in Threads |-> NoCall]
  /\ snapshot = [estop |-> FALSE, low |-> FALSE]
  /\ world = snapshot
  /\ mode = "up" /\ lock = <<>> /\ phase = "enter" /\ job = NoJob
  /\ request = [c \in Clients |-> NoRequest]
  /\ crashes = 0 /\ faults = 0
  /\ acked = FALSE /\ executed = {} /\ requeues = [t \in Tasks |-> 0]
-----------------------------------------------------------------------------
(* Arrivals *)

\* Bound: no more submissions in flight than task identifiers left.
RoomFor(r) ==
  r.kind = "submit" =>
    Cardinality({c \in Clients : request[c].kind = "submit"})
      < Cardinality(WithStatus(tasks, "absent"))

Arrive(c, r) ==
  /\ mode = "up" /\ request[c] = NoRequest
  /\ RoomFor(r)
  /\ request' = [request EXCEPT ![c] = r]
  /\ lock' = Append(lock, c)
  /\ UNCHANGED <<durable, world, mode, phase, job, bounds, history>>

RunnerWakes ==
  /\ mode = "up" /\ \A i \in 1..Len(lock) : lock[i] # Runner
  /\ lock' = Append(lock, Runner)
  /\ UNCHANGED <<durable, world, mode, phase, job, request, bounds, history>>
-----------------------------------------------------------------------------
(* dispatch_once / run_next *)

Observe(low) ==
  /\ world' = [world EXCEPT !.low = low]
  /\ snapshot' = world'

Poll(low) ==
  /\ Holding(Runner, "enter")
  /\ Observe(low)
  /\ GoTo("polled")
  /\ UNCHANGED <<tasks, checkpoints, mode, job, bounds, history>>

NothingToRun ==
  /\ Holding(Runner, "polled")
  /\ world.estop \/ (~world.low /\ NextQueued(tasks) = {})
  /\ Release
  /\ UNCHANGED <<durable, world, mode, bounds, history>>

StartRecharge ==
  /\ Holding(Runner, "polled")
  /\ ~world.estop /\ world.low
  /\ job' = [kind |-> "recharge"]
  /\ GoTo("graph")
  /\ UNCHANGED <<durable, world, mode, bounds, history>>

StartTask(t) ==
  /\ Holding(Runner, "polled")
  /\ ~world.estop /\ ~world.low
  /\ t \in NextQueued(tasks)
  /\ tasks' = [tasks EXCEPT ![t] = Started(@)]
  /\ job' = [kind |-> "run", id |-> t, task |-> Started(tasks[t]),
             call |-> NoCall, result |-> ""]
  /\ GoTo("graph")
  /\ UNCHANGED <<checkpoints, snapshot, world, mode, bounds, history>>

\* Fault: INSERT that leaves an older checkpoint of the thread in place.
GraphEnds_KeepsOldCheckpoint(result, low) ==
  /\ Holding(Runner, "graph") /\ job.kind = "run"
  /\ Observe(low)
  /\ checkpoints' = IF result = "awaiting_confirmation" /\ checkpoints[job.task.thread] = NoCall
                    THEN [checkpoints EXCEPT ![job.task.thread] = <<job.id, job.task.attempts>>]
                    ELSE checkpoints
  /\ job' = [job EXCEPT !.result = result]
  /\ GoTo("settle")
  /\ UNCHANGED <<tasks, mode, bounds, history>>

\* graph.ainvoke returns; every perceive node on the way saved the world.
GraphEnds(result, low) ==
  /\ Holding(Runner, "graph") /\ job.kind = "run"
  /\ Observe(low)
  /\ checkpoints' = IF result = "awaiting_confirmation"
                    THEN [checkpoints EXCEPT ![job.task.thread] = <<job.id, job.task.attempts>>]
                    ELSE checkpoints
  /\ job' = [job EXCEPT !.result = result]
  /\ GoTo("settle")
  /\ UNCHANGED <<tasks, mode, bounds, history>>

\* A recharge runs under a fresh random thread and is settled by nobody.
RechargeEnds(low) ==
  /\ Holding(Runner, "graph") /\ job.kind = "recharge"
  /\ Observe(low)
  /\ Release
  /\ UNCHANGED <<tasks, checkpoints, mode, bounds, history>>

\* An exception leaves run_command, resume or handle_event: out of the graph, after a
\* checkpoint was saved or popped, out of a skill, or out of robot.stop before the stop
\* is saved.  _run_loop logs it, HTTP answers 500, `async with` gives the lock on.
CommandRaises ==
  /\ mode = "up" /\ phase \in {"graph", "settle", "observe", "exec", "stopRobot"}
  /\ faults < MaxFaults
  /\ faults' = faults + 1
  /\ Release
  /\ UNCHANGED <<durable, world, mode, crashes, history>>

\* Fault: off by one in the retry test.
SettledStatus_OneMore(j) ==
  CASE j.result = "completed" -> "completed"
    [] j.result = "awaiting_confirmation" -> "awaiting_confirmation"
    [] OTHER -> IF j.task.attempts <= j.task.limit THEN "queued" ELSE "failed"

\* Fault: a rejected call leaves its task waiting for another answer.
SettledStatus_RejectedWaits(j) ==
  CASE j.result = "completed" -> "completed"
    [] j.result \in {"awaiting_confirmation", "rejected"} -> "awaiting_confirmation"
    [] OTHER -> IF j.task.attempts < j.task.limit THEN "queued" ELSE "failed"

SettledStatus(j) ==
  CASE j.result = "completed" -> "completed"
    [] j.result = "awaiting_confirmation" -> "awaiting_confirmation"
    [] OTHER -> IF j.task.attempts < j.task.limit THEN "queued" ELSE "failed"

Settle ==
  /\ mode = "up" /\ phase = "settle"
  /\ tasks' = [tasks EXCEPT ![job.id] = Updated(job.task, SettledStatus(job))]
  /\ Release
  /\ UNCHANGED <<checkpoints, snapshot, world, mode, bounds, history>>
-----------------------------------------------------------------------------
(* submit_task, cancel_task *)

Submit(c, t, thread) ==
  /\ Serving(c, "submit", "enter")
  /\ tasks[t].status = "absent" /\ thread \in ThreadsOf[t]
  /\ tasks' = [tasks EXCEPT ![t] =
                 Enqueued(tasks, thread, request[c].priority, request[c].limit)]
  /\ Release
  /\ UNCHANGED <<checkpoints, snapshot, world, mode, bounds, history>>

CancelCheckpoint(c) ==
  /\ Serving(c, "cancel", "enter")
  /\ LET task == tasks[request[c].task] IN
       checkpoints' = IF task.status = "awaiting_confirmation"
                      THEN [checkpoints EXCEPT ![task.thread] = NoCall] ELSE checkpoints
  /\ GoTo("cancel")
  /\ UNCHANGED <<tasks, snapshot, world, mode, job, bounds, history>>

CancelTask(c) ==
  /\ Serving(c, "cancel", "cancel")
  /\ tasks' = [tasks EXCEPT ![request[c].task] = Cancelled(@)]
  /\ Release
  /\ UNCHANGED <<checkpoints, snapshot, world, mode, bounds, history>>
-----------------------------------------------------------------------------
(* resume_task *)

ResumeRefused(c) ==
  /\ Serving(c, "resume", "enter")
  /\ tasks[request[c].task].status # "awaiting_confirmation"
  /\ Release
  /\ UNCHANGED <<durable, world, mode, bounds, history>>

ResumeBegins(c) ==
  /\ Serving(c, "resume", "enter")
  /\ LET t == request[c].task IN
       /\ tasks[t].status = "awaiting_confirmation"
       /\ job' = [kind |-> "resume", id |-> t, task |-> tasks[t],
                  call |-> NoCall, result |-> ""]
  /\ GoTo("pop")
  /\ UNCHANGED <<durable, world, mode, bounds, history>>

\* Fault: the checkpoint is read and not deleted.
PopCheckpoint_Peeks(c) ==
  /\ Serving(c, "resume", "pop")
  /\ LET call == checkpoints[job.task.thread]
         result == IF call = NoCall THEN "missing_checkpoint"
                   ELSE IF request[c].approved THEN "" ELSE "rejected" IN
       /\ job' = [job EXCEPT !.call = call, !.result = result]
       /\ GoTo(IF result = "" THEN "observe" ELSE "settle")
  /\ UNCHANGED <<tasks, checkpoints, snapshot, world, mode, bounds, history>>

\* checkpoints.pop commits before anything else of resume() happens.
PopCheckpoint(c) ==
  /\ Serving(c, "resume", "pop")
  /\ LET call == checkpoints[job.task.thread]
         result == IF call = NoCall THEN "missing_checkpoint"
                   ELSE IF request[c].approved THEN "" ELSE "rejected" IN
       /\ checkpoints' = [checkpoints EXCEPT ![job.task.thread] = NoCall]
       /\ job' = [job EXCEPT !.call = call, !.result = result]
       /\ GoTo(IF result = "" THEN "observe" ELSE "settle")
  /\ UNCHANGED <<tasks, snapshot, world, mode, bounds, history>>

\* Fresh perception, then the validator: it may always find a reason to block,
\* and an active emergency stop is one.
ResumeBlocked(c, low) ==
  /\ Serving(c, "resume", "observe")
  /\ Observe(low)
  /\ job' = [job EXCEPT !.result = "blocked"]
  /\ GoTo("settle")
  /\ UNCHANGED <<tasks, checkpoints, mode, bounds, history>>

\* Fault: an operator's approval overrides the emergency stop.
ResumeAllowed_Stopped(c, low) ==
  /\ Serving(c, "resume", "observe")
  /\ Observe(low)
  /\ executed' = executed \union {job.call}
  /\ GoTo("exec")
  /\ UNCHANGED <<tasks, checkpoints, mode, job, bounds, acked, requeues>>

ResumeAllowed(c, low) ==
  /\ Serving(c, "resume", "observe")
  /\ Observe(low)
  /\ ~world.estop
  /\ executed' = executed \union {job.call}
  /\ GoTo("exec")
  /\ UNCHANGED <<tasks, checkpoints, mode, job, bounds, acked, requeues>>

ResumeExecuted(c, result, low) ==
  /\ Serving(c, "resume", "exec")
  /\ Observe(low)
  /\ job' = [job EXCEPT !.result = result]
  /\ GoTo("settle")
  /\ UNCHANGED <<tasks, checkpoints, mode, bounds, history>>
-----------------------------------------------------------------------------
(* handle_event(INTERRUPT), reset_estop *)

ActivateEstop(c) ==
  /\ Serving(c, "interrupt", "enter")
  /\ world' = [world EXCEPT !.estop = TRUE]
  /\ GoTo("stopRobot")
  /\ UNCHANGED <<durable, mode, job, bounds, history>>

\* Fault: the stop is kept in memory only.
SaveEstop_Forgets(c) ==
  /\ Serving(c, "interrupt", "stopRobot")
  /\ GoTo("pausing")
  /\ UNCHANGED <<durable, world, mode, job, bounds, history>>

SaveEstop(c) ==
  /\ Serving(c, "interrupt", "stopRobot")
  /\ snapshot' = world
  /\ GoTo("pausing")
  /\ UNCHANGED <<tasks, checkpoints, world, mode, job, bounds, history>>

PauseRunning(c, t) ==
  /\ Serving(c, "interrupt", "pausing")
  /\ tasks[t].status = "running"
  /\ SetStatus(t, "paused")
  /\ UNCHANGED <<checkpoints, snapshot, world, mode, lock, phase, job, request, bounds,
                 history>>

InterruptDone(c) ==
  /\ Serving(c, "interrupt", "pausing")
  /\ WithStatus(tasks, "running") = {}
  /\ acked' = TRUE
  /\ Release
  /\ UNCHANGED <<durable, world, mode, bounds, executed, requeues>>

ResetEstop(c) ==
  /\ Serving(c, "reset", "enter")
  /\ world' = [world EXCEPT !.estop = FALSE]
  /\ snapshot' = world'
  /\ acked' = FALSE
  /\ GoTo("resuming")
  /\ UNCHANGED <<tasks, checkpoints, mode, job, bounds, executed, requeues>>

ResumePaused(c, t) ==
  /\ Serving(c, "reset", "resuming")
  /\ tasks[t].status = "paused"
  /\ SetStatus(t, "queued")
  /\ requeues' = [requeues EXCEPT ![t] = @ + 1]
  /\ UNCHANGED <<checkpoints, snapshot, world, mode, lock, phase, job, request, bounds,
                 acked, executed>>

\* Fault: reset requeues one page of the paused tasks, not all of them.
ResetDone_Early(c) ==
  /\ Serving(c, "reset", "resuming")
  /\ Release
  /\ UNCHANGED <<durable, world, mode, bounds, history>>

ResetDone(c) ==
  /\ Serving(c, "reset", "resuming")
  /\ WithStatus(tasks, "paused") = {}
  /\ Release
  /\ UNCHANGED <<durable, world, mode, bounds, history>>
-----------------------------------------------------------------------------
(* The process dies and is started again: AgentRuntime.create restores the *)
(* newest snapshot, AgentScheduler.__init__ requeues what was running.     *)

Crash ==
  /\ mode # "down" /\ crashes < MaxCrashes
  /\ crashes' = crashes + 1
  /\ mode' = "down"
  /\ lock' = <<>> /\ phase' = "enter" /\ job' = NoJob
  /\ request' = [c \in Clients |-> NoRequest]
  /\ UNCHANGED <<durable, world, faults, history>>

Restart ==
  /\ mode = "down"
  /\ mode' = "recovering"
  /\ world' = snapshot
  /\ UNCHANGED <<durable, lock, phase, job, request, bounds, history>>

RecoverRunning(t) ==
  /\ mode = "recovering"
  /\ tasks[t].status = "running"
  /\ SetStatus(t, "queued")
  /\ requeues' = [requeues EXCEPT ![t] = @ + 1]
  /\ UNCHANGED <<checkpoints, snapshot, world, mode, lock, phase, job, request, bounds,
                 acked, executed>>

\* Fault: the service starts before recovery has gone through every row.
Recovered_Early ==
  /\ mode = "recovering"
  /\ mode' = "up"
  /\ UNCHANGED <<durable, world, lock, phase, job, request, bounds, history>>

Recovered ==
  /\ mode = "recovering"
  /\ WithStatus(tasks, "running") = {}
  /\ mode' = "up"
  /\ UNCHANGED <<durable, world, lock, phase, job, request, bounds, history>>
-----------------------------------------------------------------------------
Dispatch ==
  \/ \E low \in BOOLEAN :
       \/ Poll(low)
       \/ RechargeEnds(low)
       \/ \E r \in {"completed", "awaiting_confirmation", "failed", "blocked"} :
            GraphEnds(r, low)
  \/ NothingToRun
  \/ StartRecharge
  \/ \E t \in Tasks : StartTask(t)

Handle(c) ==
  \/ \E t \in Tasks :
       \/ \E th \in Threads : Submit(c, t, th)
       \/ PauseRunning(c, t)
       \/ ResumePaused(c, t)
  \/ CancelCheckpoint(c) \/ CancelTask(c)
  \/ ResumeRefused(c) \/ ResumeBegins(c) \/ PopCheckpoint(c)
  \/ \E low \in BOOLEAN :
       \/ ResumeBlocked(c, low)
       \/ ResumeAllowed(c, low)
       \/ \E r \in {"completed", "failed"} : ResumeExecuted(c, r, low)
  \/ ActivateEstop(c) \/ SaveEstop(c) \/ InterruptDone(c)
  \/ ResetEstop(c) \/ ResetDone(c)

Step == Dispatch \/ Settle \/ \E c \in Clients : Handle(c)

Next ==
  \/ \E c \in Clients, r \in Requests : Arrive(c, r)
  \/ RunnerWakes
  \/ Step
  \/ CommandRaises
  \/ Crash
  \/ Restart
  \/ \E t \in Tasks : RecoverRunning(t)
  \/ Recovered

Spec == Init /\ [][Next]_vars

(* The event loop runs whatever is ready and the background loop wakes     *)
(* every poll_interval; the planner, the skills and the robot commands all *)
(* carry timeouts, so a command returns.  Nothing obliges an operator to   *)
(* call or a dead process to be started again.                             *)
Fairness == WF_vars(Step \/ CommandRaises) /\ WF_vars(RunnerWakes)

FairSpec == Spec /\ Fairness
-----------------------------------------------------------------------------
TypeOK ==
  /\ tasks \in [Tasks -> ScheduledTask]
  /\ checkpoints \in [Threads -> Calls \union {NoCall}]
  /\ snapshot \in World /\ world \in World
  /\ mode \in {"up", "down", "recovering"}
  /\ lock \in Seq(Procs)
  /\ phase \in Phases
  /\ job \in Jobs
  /\ request \in [Clients -> Requests \union {NoRequest}]
  /\ crashes \in 0..MaxCrashes /\ faults \in 0..MaxFaults
  /\ acked \in BOOLEAN
  /\ executed \subseteq Calls
  /\ requeues \in [Tasks -> Nat]

\* A task never gets more attempts than its limit, plus those a crash or an
\* emergency stop took from it: TaskQueue.recover_running and resume_paused
\* requeue without looking at attempts, _settle_task looks.
BoundedRetry ==
  \A t \in Tasks :
    tasks[t].attempts + (IF tasks[t].status \in {"absent", "queued"} THEN 1 ELSE 0)
      <= tasks[t].limit + requeues[t]

\* The pending call stored for a task that waits for confirmation is the one its
\* latest attempt asked about, never a leftover of an earlier attempt that died
\* between saving the checkpoint and settling (run_command / _settle_task).
CheckpointIsCurrent ==
  \A t \in WithStatus(tasks, "awaiting_confirmation") :
    checkpoints[tasks[t].thread] \in {NoCall, <<t, tasks[t].attempts>>}

\* What resume() executes on an approval is the call of the task the operator
\* named, from its latest attempt.
ApprovalRunsOwnCall ==
  phase = "exec" => job.call = <<job.id, job.task.attempts>>

\* An interrupt that was answered survives a crash: until the operator resets it
\* the stop is in the newest snapshot and in the world of whatever process runs.
StopIsDurable ==
  acked => snapshot.estop /\ (mode # "down" => world.estop)

\* Between the answer to an interrupt and the next reset, across restarts, no
\* task starts, no recharge starts and no approved call reaches its skill.
NothingStartsWhileStopped ==
  [][acked => phase' \notin {"graph", "exec"}]_vars

\* resume() removes the checkpoint before acting on it, so a crash or a second
\* approval never hands the same confirmed call to its skill again.
ConfirmedOnce ==
  [][phase' = "exec" /\ phase # "exec" => job.call \notin executed]_vars

\* Seen one task at a time, dispatch, handlers and recovery implement the task
\* state machine: nothing leaves a terminal status, attempts count starts.
Lifecycle == INSTANCE TaskLifecycle
  WITH status <- [t \in Tasks |-> tasks[t].status],
       attempts <- [t \in Tasks |-> tasks[t].attempts]

LifecycleSpec == Lifecycle!Spec

\* A task marked running is being executed by the live process.
RunningIsExecuting ==
  mode = "up" =>
    \A t \in WithStatus(tasks, "running") : job.kind = "run" /\ job.id = t

\* A task that waits for confirmation has the call to confirm in store, except
\* while the handler that consumes it is at work.
AwaitingHasCheckpoint ==
  \A t \in WithStatus(tasks, "awaiting_confirmation") :
    \/ checkpoints[tasks[t].thread] = <<t, tasks[t].attempts>>
    \/ job.kind = "resume" /\ job.id = t
    \/ phase = "cancel" /\ request[Head(lock)].task = t

\* What a row says of its task is so, unless a crash came between a checkpoint that
\* was consumed and the row that still waits.
RowsAreTrue == RunningIsExecuting /\ (crashes = 0 => AwaitingHasCheckpoint)

\* As long as no crash cut a reset short, a paused task is waiting for an operator
\* reset that is still to come: reset_estop leaves nobody paused behind a cleared
\* stop, the row that an exception left running before the stop included.
PausedOnlyWhileStopped ==
  WithStatus(tasks, "paused") # {} /\ crashes = 0 => world.estop \/ phase = "resuming"

\* Every operator request is answered (or dies with the process), whatever the holder
\* and the callers ahead of it came for and however they leave, an exception included:
\* the lock is handed on in the order of arrival.
RequestServed ==
  \A c \in Clients : request[c] # NoRequest ~> request[c] = NoRequest

\* A task of a higher priority than t's is taken from the queue.
Overtaken(t) == \E u \in Tasks : tasks[u].priority > tasks[t].priority /\ StartTask(u)

\* If the stop is eventually left reset and the battery stays up, a queued task is
\* served, however many tasks of its own or a lower priority are submitted, retried or
\* requeued meanwhile.  A stream of higher priorities is the one thing that may keep
\* it waiting: list() sorts by -priority first and nothing ages.
QueuedIsServed ==
  \A t \in Tasks :
    <>[](~world.estop /\ ~world.low) =>
      \/ []<><<Overtaken(t)>>_vars
      \/ tasks[t].status = "queued" ~> tasks[t].status # "queued"

\* An interrupt that has reached the service pauses the running task: the task
\* does not run on to completion.
InterruptPausesRunning ==
  [][\A t \in Tasks :
       /\ tasks[t].status = "running" /\ tasks'[t].status = "completed"
       => \A c \in Clients : request[c].kind # "interrupt"]_vars
=============================================================================
