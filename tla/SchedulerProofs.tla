--------------------------- MODULE SchedulerProofs ---------------------------
(***************************************************************************)
(* Proofs about Scheduler for any tasks, threads, clients and bounds.      *)
(* The inductive invariant IInv is TypeOK plus five facts: about the lock  *)
(* holder, where it can be (ControlInv), that nobody rewrites the row it   *)
(* has copied (JobInv), what it has saved of an emergency stop (StopInv),  *)
(* where a pending call can be found (CallInv), and the count of attempts  *)
(* (RetryInv).  On top of it RowInv relates rows to the live process and   *)
(* ThreadInv rows to checkpoints; the latter needs every task to have a    *)
(* thread of its own (SeparateThreads), which submit_task gives it when    *)
(* the request names none.                                                 *)
(***************************************************************************)
EXTENDS Scheduler, FiniteSetTheorems, SequenceTheorems, TLAPS

\* Who holds the lock in each phase and what it carries.
ControlInv ==
  /\ mode # "up" => lock = <<>>
  /\ phase # "enter" => lock # <<>>
  /\ phase \in {"polled", "graph"} => Head(lock) = Runner
  /\ phase \in {"pop", "observe", "exec", "cancel", "stopRobot", "pausing", "resuming"}
       => Head(lock) \in Clients
  /\ phase \in {"enter", "polled", "cancel", "stopRobot", "pausing", "resuming"}
       => job = NoJob
  /\ phase = "graph" => job.kind \in {"run", "recharge"}
  /\ phase \in {"pop", "observe", "exec"} => job.kind = "resume"
  /\ phase = "settle" => job.kind \in {"run", "resume"}

\* The copy of the row that run_next or resume_task works with is the row.
JobInv ==
  job.kind \in {"run", "resume"} =>
    /\ tasks[job.id] = job.task
    /\ job.task.status = IF job.kind = "run" THEN "running" ELSE "awaiting_confirmation"
    /\ job.kind = "resume" => job.result # "awaiting_confirmation"

\* How far a stop has got: memory, then the snapshot, then the answer.
StopInv ==
  /\ StopIsDurable
  /\ phase = "stopRobot" => world.estop
  /\ phase = "pausing" => world.estop /\ snapshot.estop
  /\ acked => phase \notin {"graph", "exec"}

\* Where a pending call can be: in one checkpoint, or in the hands of a resume that
\* popped it, or executed; the call a running task may ask about is in none of these.
Pending == {checkpoints[th] : th \in Threads} \ {NoCall}

CallInv ==
  /\ \A c \in executed \union Pending : c[2] <= tasks[c[1]].attempts
  /\ \A a, b \in Threads : checkpoints[a] = checkpoints[b] /\ checkpoints[a] # NoCall => a = b
  /\ Pending \cap executed = {}
  /\ phase = "graph" /\ job.kind = "run"
       => <<job.id, job.task.attempts>> \notin executed \union Pending
  /\ phase = "observe" => /\ job.call \in Calls \ (executed \union Pending)
                         /\ job.call[2] <= tasks[job.call[1]].attempts

\* Attempts are counted from a submission on and bounded.
RetryInv ==
  /\ BoundedRetry
  /\ \A t \in Tasks : tasks[t].status = "absent" => tasks[t].attempts = 0

IInv == TypeOK /\ ControlInv /\ JobInv /\ StopInv /\ CallInv /\ RetryInv
-----------------------------------------------------------------------------
\* Started and settled copies of a row are rows again (task_queue.py, update).
LEMMA RowTypes ==
  ASSUME NEW row \in ScheduledTask
  PROVE  /\ Started(row) \in ScheduledTask
         /\ \A s \in TaskStatus : Updated(row, s) \in ScheduledTask
         /\ Cancelled(row) \in ScheduledTask
<1>1. Started(row) \in ScheduledTask
  <2>1. row.attempts + 1 \in Nat
    BY DEF ScheduledTask
  <2>2. [row EXCEPT !.status = "running"] \in ScheduledTask
    BY DEF ScheduledTask, TaskStatus
  <2>3. [row EXCEPT !.status = "running"].attempts = row.attempts
    BY DEF ScheduledTask
  <2>4. Started(row) = [[row EXCEPT !.status = "running"] EXCEPT !.attempts = @ + 1]
    BY DEF Started
  <2>. QED BY <2>1, <2>2, <2>3, <2>4 DEF ScheduledTask
<1>2. ASSUME NEW s \in TaskStatus PROVE Updated(row, s) \in ScheduledTask
  BY DEF ScheduledTask, Updated, TaskStatus
<1>3. Cancelled(row) \in ScheduledTask
  BY <1>2 DEF Cancelled, TaskStatus
<1>. QED BY <1>1, <1>2, <1>3

\* A submitted row is a row (task_queue.py, enqueue).
LEMMA EnqueuedType ==
  ASSUME TypeOK, NEW th \in Threads, NEW p \in Priorities, NEW n \in Limits
  PROVE  Enqueued(tasks, th, p, n) \in ScheduledTask
<1>1. Tasks \ WithStatus(tasks, "absent") \subseteq Tasks /\ IsFiniteSet(Tasks)
  BY QueueAssumption
<1>2. Cardinality(Tasks \ WithStatus(tasks, "absent")) \in Nat
  BY <1>1, FS_Subset, FS_CardinalityType
<1>. QED BY <1>2, QueueAssumption DEF Enqueued, ScheduledTask, TaskStatus

\* Giving up the lock keeps the types of what it changes.
LEMMA ReleaseTypes ==
  ASSUME TypeOK, lock # <<>>, Release
  PROVE  /\ lock' \in Seq(Procs) /\ phase' \in Phases /\ job' \in Jobs
         /\ request' \in [Clients -> Requests \union {NoRequest}]
BY DEF TypeOK, Release, Phases, Jobs

\* A job of the scheduler by its kind.
LEMMA JobFields ==
  ASSUME job \in Jobs
  PROVE  /\ job.kind \in {"run", "resume"} =>
              /\ job \in [kind: {"run", "resume"}, id: Tasks, task: ScheduledTask,
                          call: Calls \union {NoCall}, result: Results]
         /\ job.kind \in {"none", "recharge", "run", "resume"}
BY DEF Jobs, NoJob

\* A request by its kind.
LEMMA RequestFields ==
  ASSUME NEW r \in Requests \union {NoRequest}
  PROVE  /\ r.kind = "submit" => r.priority \in Priorities /\ r.limit \in Limits
         /\ r.kind \in {"cancel", "resume"} => r.task \in Tasks
         /\ r.kind = "resume" => r.approved \in BOOLEAN
BY DEF Requests, NoRequest

\* What the row copies change, and what they leave alone.
LEMMA RowFields ==
  ASSUME NEW row \in ScheduledTask
  PROVE  /\ Started(row).status = "running"
         /\ Started(row).attempts = row.attempts + 1
         /\ Started(row).limit = row.limit
         /\ \A s \in TaskStatus : /\ Updated(row, s).status = s
                                  /\ Updated(row, s).attempts = row.attempts
                                  /\ Updated(row, s).limit = row.limit
         /\ Cancelled(row).attempts = row.attempts
         /\ Cancelled(row).limit = row.limit
BY DEF ScheduledTask, Started, Updated, Cancelled, TaskStatus
-----------------------------------------------------------------------------
\* The queue of the lock stays one of processes.
LEMMA LockTypes ==
  ASSUME lock \in Seq(Procs)
  PROVE  /\ <<>> \in Seq(Procs)
         /\ \A p \in Procs : Append(lock, p) \in Seq(Procs)
OBVIOUS

\* Every step keeps the types (TypeOK needs to know who holds the lock).
LEMMA TypeStep ==
  ASSUME TypeOK, ControlInv, CallInv, [Next]_vars
  PROVE  TypeOK'
<1>1. ASSUME NEW c \in Clients, NEW r \in Requests, Arrive(c, r) PROVE TypeOK'
  BY <1>1, LockTypes DEF TypeOK, Arrive, Procs, durable, bounds, history
<1>2. ASSUME RunnerWakes PROVE TypeOK'
  BY <1>2, LockTypes DEF TypeOK, RunnerWakes, Procs, durable, bounds, history
<1>3. ASSUME NEW low \in BOOLEAN, Poll(low) PROVE TypeOK'
  BY <1>3 DEF TypeOK, Poll, Observe, World, Phases, GoTo, bounds, history
<1>4. ASSUME NothingToRun PROVE TypeOK'
  BY <1>4, ReleaseTypes DEF TypeOK, NothingToRun, Holding, durable, bounds, history
<1>5. ASSUME StartRecharge PROVE TypeOK'
  BY <1>5 DEF TypeOK, StartRecharge, Jobs, Phases, GoTo, durable, bounds, history
<1>6. ASSUME NEW t \in Tasks, StartTask(t) PROVE TypeOK'
  BY <1>6, RowTypes DEF TypeOK, StartTask, Jobs, Results, Phases, GoTo, bounds, history
<1>7. ASSUME NEW res \in {"completed", "awaiting_confirmation", "failed", "blocked"},
     NEW low \in BOOLEAN, GraphEnds(res, low) PROVE TypeOK'
  BY <1>7, JobFields DEF TypeOK, GraphEnds, Observe, World, Jobs, ScheduledTask, Calls,
     Results, Phases, GoTo, bounds, history
<1>8. ASSUME NEW low \in BOOLEAN, RechargeEnds(low) PROVE TypeOK'
  BY <1>8, ReleaseTypes DEF TypeOK, RechargeEnds, Holding, Observe, World, bounds, history
<1>9. ASSUME CommandRaises PROVE TypeOK'
  BY <1>9, ReleaseTypes, SchedulerAssumption DEF TypeOK, ControlInv, CommandRaises,
     durable, history
<1>10. ASSUME Settle PROVE TypeOK'
  BY <1>10, ReleaseTypes, RowTypes, JobFields DEF TypeOK, ControlInv, Settle,
     SettledStatus, TaskStatus, bounds, history
<1>11. ASSUME NEW c \in Clients, NEW t \in Tasks, NEW th \in Threads,
     Submit(c, t, th) PROVE TypeOK'
  <2>1. request[c].priority \in Priorities /\ request[c].limit \in Limits
    BY <1>11, RequestFields DEF TypeOK, Submit, Serving
  <2>2. Enqueued(tasks, th, request[c].priority, request[c].limit) \in ScheduledTask
    BY <2>1, EnqueuedType
  <2>. QED
    BY <1>11, <2>2, ReleaseTypes DEF TypeOK, Submit, Serving, Holding, bounds, history
<1>12. ASSUME NEW c \in Clients, CancelCheckpoint(c) PROVE TypeOK'
  BY <1>12 DEF TypeOK, CancelCheckpoint, ScheduledTask, Phases, GoTo, bounds, history
<1>13. ASSUME NEW c \in Clients, CancelTask(c) PROVE TypeOK'
  BY <1>13, ReleaseTypes, RowTypes DEF TypeOK, CancelTask, Serving, Holding, bounds, history
<1>14. ASSUME NEW c \in Clients, ResumeRefused(c) PROVE TypeOK'
  BY <1>14, ReleaseTypes DEF TypeOK, ResumeRefused, Serving, Holding, durable, bounds,
     history
<1>15. ASSUME NEW c \in Clients, ResumeBegins(c) PROVE TypeOK'
  <2>1. request[c].task \in Tasks
    BY <1>15, RequestFields DEF TypeOK, ResumeBegins, Serving
  <2>. QED
    BY <1>15, <2>1
    DEF TypeOK, ResumeBegins, Jobs, Results, Phases, GoTo, durable, bounds, history
<1>16. ASSUME NEW c \in Clients, PopCheckpoint(c) PROVE TypeOK'
  BY <1>16, JobFields DEF TypeOK, ControlInv, PopCheckpoint, Serving, Holding, Jobs,
     Results, Phases, GoTo, ScheduledTask, bounds, history
<1>17. ASSUME NEW c \in Clients, NEW low \in BOOLEAN, ResumeBlocked(c, low) PROVE TypeOK'
  BY <1>17, JobFields DEF TypeOK, ControlInv, ResumeBlocked, Serving, Holding, Observe,
     World, Jobs, Results, Phases, GoTo, bounds, history
<1>18. ASSUME NEW c \in Clients, NEW low \in BOOLEAN, ResumeAllowed(c, low) PROVE TypeOK'
  BY <1>18, JobFields DEF TypeOK, CallInv, ControlInv, ResumeAllowed, Serving, Holding,
     Observe, World, Phases, GoTo, bounds
<1>19. ASSUME NEW c \in Clients, NEW res \in {"completed", "failed"}, NEW low \in BOOLEAN,
     ResumeExecuted(c, res, low) PROVE TypeOK'
  BY <1>19, JobFields DEF TypeOK, ControlInv, ResumeExecuted, Serving, Holding, Observe,
     World, Jobs, Results, Phases, GoTo, bounds, history
<1>20. ASSUME NEW c \in Clients, ActivateEstop(c) PROVE TypeOK'
  BY <1>20 DEF TypeOK, ActivateEstop, World, Phases, GoTo, durable, bounds, history
<1>21. ASSUME NEW c \in Clients, SaveEstop(c) PROVE TypeOK'
  BY <1>21 DEF TypeOK, SaveEstop, Phases, GoTo, bounds, history
<1>22. ASSUME NEW c \in Clients, NEW t \in Tasks, PauseRunning(c, t) PROVE TypeOK'
  BY <1>22, RowTypes DEF TypeOK, PauseRunning, SetStatus, TaskStatus, bounds, history
<1>23. ASSUME NEW c \in Clients, InterruptDone(c) PROVE TypeOK'
  BY <1>23, ReleaseTypes DEF TypeOK, InterruptDone, Serving, Holding, durable, bounds
<1>24. ASSUME NEW c \in Clients, ResetEstop(c) PROVE TypeOK'
  BY <1>24 DEF TypeOK, ResetEstop, World, Phases, GoTo, bounds
<1>25. ASSUME NEW c \in Clients, NEW t \in Tasks, ResumePaused(c, t) PROVE TypeOK'
  BY <1>25, RowTypes DEF TypeOK, ResumePaused, SetStatus, TaskStatus, bounds
<1>26. ASSUME NEW c \in Clients, ResetDone(c) PROVE TypeOK'
  BY <1>26, ReleaseTypes DEF TypeOK, ResetDone, Serving, Holding, durable, bounds, history
<1>27. ASSUME Crash PROVE TypeOK'
  BY <1>27, LockTypes, SchedulerAssumption DEF TypeOK, Crash, Phases, Jobs, durable, history
<1>28. ASSUME Restart PROVE TypeOK'
  BY <1>28 DEF TypeOK, Restart, durable, bounds, history
<1>29. ASSUME NEW t \in Tasks, RecoverRunning(t) PROVE TypeOK'
  BY <1>29, RowTypes DEF TypeOK, RecoverRunning, SetStatus, TaskStatus, bounds
<1>30. ASSUME Recovered PROVE TypeOK'
  BY <1>30 DEF TypeOK, Recovered, durable, bounds, history
<1>31. ASSUME UNCHANGED vars PROVE TypeOK'
  BY <1>31 DEF TypeOK, vars
<1>. QED
  BY <1>1, <1>2, <1>3, <1>4, <1>5, <1>6, <1>7, <1>8, <1>9, <1>10, <1>11, <1>12, <1>13,
     <1>14, <1>15, <1>16, <1>17, <1>18, <1>19, <1>20, <1>21, <1>22, <1>23, <1>24, <1>25,
     <1>26, <1>27, <1>28, <1>29, <1>30, <1>31
  DEF Next, Step, Dispatch, Handle

-----------------------------------------------------------------------------
\* Whoever joins the queue of the lock stands behind its holder.
LEMMA LockOrder ==
  ASSUME lock \in Seq(Procs), NEW p \in Procs
  PROVE  /\ Append(lock, p) # <<>>
         /\ lock # <<>> => Head(Append(lock, p)) = Head(lock)
<1>1. Append(lock, p) # <<>>
  BY AppendProperties
<1>2. ASSUME lock # <<>> PROVE Head(Append(lock, p)) = Head(lock)
  BY <1>2, AppendProperties, 1 \in 1..Len(lock)
<1>. QED BY <1>1, <1>2

\* A process that gives up the lock leaves no trace of its handler.
LEMMA ReleaseControl ==
  ASSUME mode = "up", mode' = mode, Release
  PROVE  ControlInv'
BY DEF ControlInv, Release, NoJob

\* Every step keeps the lock discipline.
LEMMA ControlStep ==
  ASSUME TypeOK, ControlInv, [Next]_vars
  PROVE  ControlInv'
<1>1. ASSUME NEW c \in Clients, NEW r \in Requests, Arrive(c, r) PROVE ControlInv'
  BY <1>1, LockOrder, SchedulerAssumption DEF TypeOK, ControlInv, Procs, NoJob, Arrive,
     durable, bounds, history
<1>2. ASSUME RunnerWakes PROVE ControlInv'
  BY <1>2, LockOrder, SchedulerAssumption DEF TypeOK, ControlInv, Procs, NoJob,
     RunnerWakes, durable, bounds, history
<1>3. ASSUME NEW low \in BOOLEAN, Poll(low) PROVE ControlInv'
  BY <1>3, SchedulerAssumption DEF TypeOK, ControlInv, Procs, NoJob, Poll, Holding, GoTo,
     Observe, durable, bounds, history
<1>4. ASSUME NothingToRun PROVE ControlInv'
  BY <1>4, ReleaseControl, SchedulerAssumption DEF NothingToRun, Holding, durable, bounds,
     history
<1>5. ASSUME StartRecharge PROVE ControlInv'
  BY <1>5, SchedulerAssumption DEF TypeOK, ControlInv, Procs, NoJob, StartRecharge,
     Holding, GoTo, durable, bounds, history
<1>6. ASSUME NEW t \in Tasks, StartTask(t) PROVE ControlInv'
  BY <1>6, SchedulerAssumption DEF TypeOK, ControlInv, Procs, NoJob, StartTask, Holding,
     GoTo, durable, bounds, history
<1>7. ASSUME NEW res \in {"completed", "awaiting_confirmation", "failed", "blocked"},
            NEW low \in BOOLEAN, GraphEnds(res, low) PROVE ControlInv'
  BY <1>7, SchedulerAssumption DEF TypeOK, ControlInv, Procs, NoJob, GraphEnds, Holding,
     GoTo, Observe, durable, bounds, history
<1>8. ASSUME NEW low \in BOOLEAN, RechargeEnds(low) PROVE ControlInv'
  BY <1>8, ReleaseControl, SchedulerAssumption DEF RechargeEnds, Holding, Observe, durable,
     bounds, history
<1>9. ASSUME CommandRaises PROVE ControlInv'
  BY <1>9, ReleaseControl, SchedulerAssumption DEF CommandRaises, durable, bounds, history
<1>10. ASSUME Settle PROVE ControlInv'
  BY <1>10, ReleaseControl, SchedulerAssumption DEF Settle, durable, bounds, history
<1>11. ASSUME NEW c \in Clients, NEW t \in Tasks, NEW th \in Threads,
     Submit(c, t, th) PROVE ControlInv'
  BY <1>11, ReleaseControl, SchedulerAssumption DEF Submit, Serving, Holding, durable,
     bounds, history
<1>12. ASSUME NEW c \in Clients, CancelCheckpoint(c) PROVE ControlInv'
  BY <1>12, SchedulerAssumption DEF TypeOK, ControlInv, Procs, NoJob, CancelCheckpoint,
     Serving, Holding, GoTo, durable, bounds, history
<1>13. ASSUME NEW c \in Clients, CancelTask(c) PROVE ControlInv'
  BY <1>13, ReleaseControl, SchedulerAssumption DEF CancelTask, Serving, Holding, durable,
     bounds, history
<1>14. ASSUME NEW c \in Clients, ResumeRefused(c) PROVE ControlInv'
  BY <1>14, ReleaseControl, SchedulerAssumption DEF ResumeRefused, Serving, Holding,
     durable, bounds, history
<1>15. ASSUME NEW c \in Clients, ResumeBegins(c) PROVE ControlInv'
  BY <1>15, SchedulerAssumption DEF TypeOK, ControlInv, Procs, NoJob, ResumeBegins,
     Serving, Holding, GoTo, durable, bounds, history
<1>16. ASSUME NEW c \in Clients, PopCheckpoint(c) PROVE ControlInv'
  BY <1>16, SchedulerAssumption DEF TypeOK, ControlInv, Procs, NoJob, PopCheckpoint,
     Serving, Holding, GoTo, durable, bounds, history
<1>17. ASSUME NEW c \in Clients, NEW low \in BOOLEAN, ResumeBlocked(c, low)
     PROVE ControlInv'
  BY <1>17, SchedulerAssumption DEF TypeOK, ControlInv, Procs, NoJob, ResumeBlocked,
     Serving, Holding, GoTo, Observe, durable, bounds, history
<1>18. ASSUME NEW c \in Clients, NEW low \in BOOLEAN, ResumeAllowed(c, low)
     PROVE ControlInv'
  BY <1>18, SchedulerAssumption DEF TypeOK, ControlInv, Procs, NoJob, ResumeAllowed,
     Serving, Holding, GoTo, Observe, durable, bounds, history
<1>19. ASSUME NEW c \in Clients, NEW res \in {"completed", "failed"}, NEW low \in BOOLEAN,
            ResumeExecuted(c, res, low) PROVE ControlInv'
  BY <1>19, SchedulerAssumption DEF TypeOK, ControlInv, Procs, NoJob, ResumeExecuted,
     Serving, Holding, GoTo, Observe, durable, bounds, history
<1>20. ASSUME NEW c \in Clients, ActivateEstop(c) PROVE ControlInv'
  BY <1>20, SchedulerAssumption DEF TypeOK, ControlInv, Procs, NoJob, ActivateEstop,
     Serving, Holding, GoTo, durable, bounds, history
<1>21. ASSUME NEW c \in Clients, SaveEstop(c) PROVE ControlInv'
  BY <1>21, SchedulerAssumption DEF TypeOK, ControlInv, Procs, NoJob, SaveEstop, Serving,
     Holding, GoTo, durable, bounds, history
<1>22. ASSUME NEW c \in Clients, NEW t \in Tasks, PauseRunning(c, t) PROVE ControlInv'
  BY <1>22, SchedulerAssumption DEF TypeOK, ControlInv, Procs, NoJob, PauseRunning,
     Serving, Holding, SetStatus, durable, bounds, history
<1>23. ASSUME NEW c \in Clients, InterruptDone(c) PROVE ControlInv'
  BY <1>23, ReleaseControl, SchedulerAssumption DEF InterruptDone, Serving, Holding,
     durable, bounds, history
<1>24. ASSUME NEW c \in Clients, ResetEstop(c) PROVE ControlInv'
  BY <1>24, SchedulerAssumption DEF TypeOK, ControlInv, Procs, NoJob, ResetEstop, Serving,
     Holding, GoTo, durable, bounds, history
<1>25. ASSUME NEW c \in Clients, NEW t \in Tasks, ResumePaused(c, t) PROVE ControlInv'
  BY <1>25, SchedulerAssumption DEF TypeOK, ControlInv, Procs, NoJob, ResumePaused,
     Serving, Holding, SetStatus, durable, bounds, history
<1>26. ASSUME NEW c \in Clients, ResetDone(c) PROVE ControlInv'
  BY <1>26, ReleaseControl, SchedulerAssumption DEF ResetDone, Serving, Holding, durable,
     bounds, history
<1>27. ASSUME Crash PROVE ControlInv'
  BY <1>27, SchedulerAssumption DEF TypeOK, ControlInv, Procs, NoJob, Crash, durable,
     bounds, history
<1>28. ASSUME Restart PROVE ControlInv'
  BY <1>28, SchedulerAssumption DEF TypeOK, ControlInv, Procs, NoJob, Restart, durable,
     bounds, history
<1>29. ASSUME NEW t \in Tasks, RecoverRunning(t) PROVE ControlInv'
  BY <1>29, SchedulerAssumption DEF TypeOK, ControlInv, Procs, NoJob, RecoverRunning,
     SetStatus, durable, bounds, history
<1>30. ASSUME Recovered PROVE ControlInv'
  BY <1>30, SchedulerAssumption DEF TypeOK, ControlInv, Procs, NoJob, Recovered, durable,
     bounds, history
<1>31. ASSUME UNCHANGED vars PROVE ControlInv'
  BY <1>31, SchedulerAssumption DEF TypeOK, ControlInv, Procs, NoJob, vars
<1>. QED
  BY <1>1, <1>2, <1>3, <1>4, <1>5, <1>6, <1>7, <1>8, <1>9, <1>10, <1>11, <1>12, <1>13,
     <1>14, <1>15, <1>16,
     <1>17, <1>18, <1>19, <1>20, <1>21, <1>22, <1>23, <1>24, <1>25, <1>26, <1>27, <1>28,
         <1>29, <1>30, <1>31
  DEF Next, Step, Dispatch, Handle

\* Nobody but the lock holder writes the row the holder works on.
LEMMA JobStep ==
  ASSUME TypeOK, ControlInv, JobInv, [Next]_vars
  PROVE  JobInv'
<1>1. ASSUME NEW c \in Clients, NEW r \in Requests, Arrive(c, r) PROVE JobInv'
  BY <1>1 DEF TypeOK, ControlInv, JobInv, NoJob, Arrive, durable
<1>2. ASSUME RunnerWakes PROVE JobInv'
  BY <1>2 DEF TypeOK, ControlInv, JobInv, NoJob, RunnerWakes, durable
<1>3. ASSUME NEW low \in BOOLEAN, Poll(low) PROVE JobInv'
  BY <1>3 DEF TypeOK, ControlInv, JobInv, NoJob, Poll, Holding, GoTo, Observe, durable
<1>4. ASSUME NothingToRun PROVE JobInv'
  BY <1>4 DEF JobInv, Release, NoJob, NothingToRun
<1>5. ASSUME StartRecharge PROVE JobInv'
  BY <1>5 DEF TypeOK, ControlInv, JobInv, NoJob, StartRecharge, Holding, GoTo, durable
<1>6. ASSUME NEW t \in Tasks, StartTask(t) PROVE JobInv'
  BY <1>6, RowFields DEF TypeOK, ControlInv, JobInv, NoJob, StartTask, Holding, GoTo,
     durable
<1>7. ASSUME NEW res \in {"completed", "awaiting_confirmation", "failed", "blocked"},
            NEW low \in BOOLEAN, GraphEnds(res, low) PROVE JobInv'
  BY <1>7 DEF TypeOK, ControlInv, JobInv, NoJob, GraphEnds, Holding, GoTo, Observe, durable
<1>8. ASSUME NEW low \in BOOLEAN, RechargeEnds(low) PROVE JobInv'
  BY <1>8 DEF JobInv, Release, NoJob, RechargeEnds
<1>9. ASSUME CommandRaises PROVE JobInv'
  BY <1>9 DEF JobInv, Release, NoJob, CommandRaises
<1>10. ASSUME Settle PROVE JobInv'
  BY <1>10 DEF JobInv, Release, NoJob, Settle
<1>11. ASSUME NEW c \in Clients, NEW t \in Tasks, NEW th \in Threads,
     Submit(c, t, th) PROVE JobInv'
  BY <1>11 DEF JobInv, Release, NoJob, Submit
<1>12. ASSUME NEW c \in Clients, CancelCheckpoint(c) PROVE JobInv'
  BY <1>12 DEF TypeOK, ControlInv, JobInv, NoJob, CancelCheckpoint, Serving, Holding, GoTo,
     durable
<1>13. ASSUME NEW c \in Clients, CancelTask(c) PROVE JobInv'
  BY <1>13 DEF JobInv, Release, NoJob, CancelTask
<1>14. ASSUME NEW c \in Clients, ResumeRefused(c) PROVE JobInv'
  BY <1>14 DEF JobInv, Release, NoJob, ResumeRefused
<1>15. ASSUME NEW c \in Clients, ResumeBegins(c) PROVE JobInv'
  BY <1>15 DEF TypeOK, ControlInv, JobInv, NoJob, ResumeBegins, Serving, Holding, GoTo,
     durable
<1>16. ASSUME NEW c \in Clients, PopCheckpoint(c) PROVE JobInv'
  BY <1>16 DEF TypeOK, ControlInv, JobInv, NoJob, PopCheckpoint, Serving, Holding, GoTo,
     durable
<1>17. ASSUME NEW c \in Clients, NEW low \in BOOLEAN, ResumeBlocked(c, low) PROVE JobInv'
  BY <1>17 DEF TypeOK, ControlInv, JobInv, NoJob, ResumeBlocked, Serving, Holding, GoTo,
     Observe, durable
<1>18. ASSUME NEW c \in Clients, NEW low \in BOOLEAN, ResumeAllowed(c, low) PROVE JobInv'
  BY <1>18 DEF TypeOK, ControlInv, JobInv, NoJob, ResumeAllowed, Serving, Holding, GoTo,
     Observe, durable
<1>19. ASSUME NEW c \in Clients, NEW res \in {"completed", "failed"}, NEW low \in BOOLEAN,
            ResumeExecuted(c, res, low) PROVE JobInv'
  BY <1>19 DEF TypeOK, ControlInv, JobInv, NoJob, ResumeExecuted, Serving, Holding, GoTo,
     Observe, durable
<1>20. ASSUME NEW c \in Clients, ActivateEstop(c) PROVE JobInv'
  BY <1>20 DEF TypeOK, ControlInv, JobInv, NoJob, ActivateEstop, Serving, Holding, GoTo,
     durable
<1>21. ASSUME NEW c \in Clients, SaveEstop(c) PROVE JobInv'
  BY <1>21 DEF TypeOK, ControlInv, JobInv, NoJob, SaveEstop, Serving, Holding, GoTo, durable
<1>22. ASSUME NEW c \in Clients, NEW t \in Tasks, PauseRunning(c, t) PROVE JobInv'
  BY <1>22 DEF TypeOK, ControlInv, JobInv, NoJob, PauseRunning, Serving, Holding,
     SetStatus, durable
<1>23. ASSUME NEW c \in Clients, InterruptDone(c) PROVE JobInv'
  BY <1>23 DEF JobInv, Release, NoJob, InterruptDone
<1>24. ASSUME NEW c \in Clients, ResetEstop(c) PROVE JobInv'
  BY <1>24 DEF TypeOK, ControlInv, JobInv, NoJob, ResetEstop, Serving, Holding, GoTo,
     durable
<1>25. ASSUME NEW c \in Clients, NEW t \in Tasks, ResumePaused(c, t) PROVE JobInv'
  BY <1>25 DEF TypeOK, ControlInv, JobInv, NoJob, ResumePaused, Serving, Holding,
     SetStatus, durable
<1>26. ASSUME NEW c \in Clients, ResetDone(c) PROVE JobInv'
  BY <1>26 DEF JobInv, Release, NoJob, ResetDone
<1>27. ASSUME Crash PROVE JobInv'
  BY <1>27 DEF TypeOK, ControlInv, JobInv, NoJob, Crash, durable
<1>28. ASSUME Restart PROVE JobInv'
  BY <1>28 DEF TypeOK, ControlInv, JobInv, NoJob, Restart, durable
<1>29. ASSUME NEW t \in Tasks, RecoverRunning(t) PROVE JobInv'
  BY <1>29 DEF TypeOK, ControlInv, JobInv, NoJob, RecoverRunning, SetStatus, durable
<1>30. ASSUME Recovered PROVE JobInv'
  BY <1>30 DEF TypeOK, ControlInv, JobInv, NoJob, Recovered, durable
<1>31. ASSUME UNCHANGED vars PROVE JobInv'
  BY <1>31 DEF TypeOK, ControlInv, JobInv, NoJob, vars
<1>. QED
  BY <1>1, <1>2, <1>3, <1>4, <1>5, <1>6, <1>7, <1>8, <1>9, <1>10, <1>11, <1>12, <1>13,
     <1>14, <1>15, <1>16,
     <1>17, <1>18, <1>19, <1>20, <1>21, <1>22, <1>23, <1>24, <1>25, <1>26, <1>27, <1>28,
         <1>29, <1>30, <1>31
  DEF Next, Step, Dispatch, Handle

\* Every step keeps what is saved of a stop.
LEMMA StopStep ==
  ASSUME TypeOK, ControlInv, StopInv, [Next]_vars
  PROVE  StopInv'
<1>1. ASSUME NEW c \in Clients, NEW r \in Requests, Arrive(c, r) PROVE StopInv'
  BY <1>1 DEF TypeOK, ControlInv, StopInv, StopIsDurable, World, Arrive, durable, history
<1>2. ASSUME RunnerWakes PROVE StopInv'
  BY <1>2 DEF TypeOK, ControlInv, StopInv, StopIsDurable, World, RunnerWakes, durable,
     history
<1>3. ASSUME NEW low \in BOOLEAN, Poll(low) PROVE StopInv'
  BY <1>3 DEF TypeOK, ControlInv, StopInv, StopIsDurable, World, Poll, Holding, GoTo,
     Observe, durable, history
<1>4. ASSUME NothingToRun PROVE StopInv'
  BY <1>4 DEF TypeOK, ControlInv, StopInv, StopIsDurable, World, NothingToRun, Holding,
     Release, durable, history
<1>5. ASSUME StartRecharge PROVE StopInv'
  BY <1>5 DEF TypeOK, ControlInv, StopInv, StopIsDurable, World, StartRecharge, Holding,
     GoTo, durable, history
<1>6. ASSUME NEW t \in Tasks, StartTask(t) PROVE StopInv'
  BY <1>6 DEF TypeOK, ControlInv, StopInv, StopIsDurable, World, StartTask, Holding, GoTo,
     durable, history
<1>7. ASSUME NEW res \in {"completed", "awaiting_confirmation", "failed", "blocked"},
            NEW low \in BOOLEAN, GraphEnds(res, low) PROVE StopInv'
  BY <1>7 DEF TypeOK, ControlInv, StopInv, StopIsDurable, World, GraphEnds, Holding, GoTo,
     Observe, durable, history
<1>8. ASSUME NEW low \in BOOLEAN, RechargeEnds(low) PROVE StopInv'
  BY <1>8 DEF TypeOK, ControlInv, StopInv, StopIsDurable, World, RechargeEnds, Holding,
     Release, Observe, durable, history
<1>9. ASSUME CommandRaises PROVE StopInv'
  BY <1>9 DEF TypeOK, ControlInv, StopInv, StopIsDurable, World, CommandRaises, Release,
     durable, history
<1>10. ASSUME Settle PROVE StopInv'
  BY <1>10 DEF TypeOK, ControlInv, StopInv, StopIsDurable, World, Settle, Release, durable,
     history
<1>11. ASSUME NEW c \in Clients, NEW t \in Tasks, NEW th \in Threads,
     Submit(c, t, th) PROVE StopInv'
  BY <1>11 DEF TypeOK, ControlInv, StopInv, StopIsDurable, World, Submit, Serving, Holding,
     Release, durable, history
<1>12. ASSUME NEW c \in Clients, CancelCheckpoint(c) PROVE StopInv'
  BY <1>12 DEF TypeOK, ControlInv, StopInv, StopIsDurable, World, CancelCheckpoint,
     Serving, Holding, GoTo, durable, history
<1>13. ASSUME NEW c \in Clients, CancelTask(c) PROVE StopInv'
  BY <1>13 DEF TypeOK, ControlInv, StopInv, StopIsDurable, World, CancelTask, Serving,
     Holding, Release, durable, history
<1>14. ASSUME NEW c \in Clients, ResumeRefused(c) PROVE StopInv'
  BY <1>14 DEF TypeOK, ControlInv, StopInv, StopIsDurable, World, ResumeRefused, Serving,
     Holding, Release, durable, history
<1>15. ASSUME NEW c \in Clients, ResumeBegins(c) PROVE StopInv'
  BY <1>15 DEF TypeOK, ControlInv, StopInv, StopIsDurable, World, ResumeBegins, Serving,
     Holding, GoTo, durable, history
<1>16. ASSUME NEW c \in Clients, PopCheckpoint(c) PROVE StopInv'
  BY <1>16 DEF TypeOK, ControlInv, StopInv, StopIsDurable, World, PopCheckpoint, Serving,
     Holding, GoTo, durable, history
<1>17. ASSUME NEW c \in Clients, NEW low \in BOOLEAN, ResumeBlocked(c, low) PROVE StopInv'
  BY <1>17 DEF TypeOK, ControlInv, StopInv, StopIsDurable, World, ResumeBlocked, Serving,
     Holding, GoTo, Observe, durable, history
<1>18. ASSUME NEW c \in Clients, NEW low \in BOOLEAN, ResumeAllowed(c, low) PROVE StopInv'
  BY <1>18 DEF TypeOK, ControlInv, StopInv, StopIsDurable, World, ResumeAllowed, Serving,
     Holding, GoTo, Observe, durable, history
<1>19. ASSUME NEW c \in Clients, NEW res \in {"completed", "failed"}, NEW low \in BOOLEAN,
            ResumeExecuted(c, res, low) PROVE StopInv'
  BY <1>19 DEF TypeOK, ControlInv, StopInv, StopIsDurable, World, ResumeExecuted, Serving,
     Holding, GoTo, Observe, durable, history
<1>20. ASSUME NEW c \in Clients, ActivateEstop(c) PROVE StopInv'
  BY <1>20 DEF TypeOK, ControlInv, StopInv, StopIsDurable, World, ActivateEstop, Serving,
     Holding, GoTo, durable, history
<1>21. ASSUME NEW c \in Clients, SaveEstop(c) PROVE StopInv'
  BY <1>21 DEF TypeOK, ControlInv, StopInv, StopIsDurable, World, SaveEstop, Serving,
     Holding, GoTo, durable, history
<1>22. ASSUME NEW c \in Clients, NEW t \in Tasks, PauseRunning(c, t) PROVE StopInv'
  BY <1>22 DEF TypeOK, ControlInv, StopInv, StopIsDurable, World, PauseRunning, Serving,
     Holding, SetStatus, durable, history
<1>23. ASSUME NEW c \in Clients, InterruptDone(c) PROVE StopInv'
  BY <1>23 DEF TypeOK, ControlInv, StopInv, StopIsDurable, World, InterruptDone, Serving,
     Holding, Release, durable, history
<1>24. ASSUME NEW c \in Clients, ResetEstop(c) PROVE StopInv'
  BY <1>24 DEF TypeOK, ControlInv, StopInv, StopIsDurable, World, ResetEstop, Serving,
     Holding, GoTo, durable, history
<1>25. ASSUME NEW c \in Clients, NEW t \in Tasks, ResumePaused(c, t) PROVE StopInv'
  BY <1>25 DEF TypeOK, ControlInv, StopInv, StopIsDurable, World, ResumePaused, Serving,
     Holding, SetStatus, durable, history
<1>26. ASSUME NEW c \in Clients, ResetDone(c) PROVE StopInv'
  BY <1>26 DEF TypeOK, ControlInv, StopInv, StopIsDurable, World, ResetDone, Serving,
     Holding, Release, durable, history
<1>27. ASSUME Crash PROVE StopInv'
  BY <1>27 DEF TypeOK, ControlInv, StopInv, StopIsDurable, World, Crash, durable, history
<1>28. ASSUME Restart PROVE StopInv'
  BY <1>28 DEF TypeOK, ControlInv, StopInv, StopIsDurable, World, Restart, durable, history
<1>29. ASSUME NEW t \in Tasks, RecoverRunning(t) PROVE StopInv'
  BY <1>29 DEF TypeOK, ControlInv, StopInv, StopIsDurable, World, RecoverRunning,
     SetStatus, durable, history
<1>30. ASSUME Recovered PROVE StopInv'
  BY <1>30 DEF TypeOK, ControlInv, StopInv, StopIsDurable, World, Recovered, durable,
     history
<1>31. ASSUME UNCHANGED vars PROVE StopInv'
  BY <1>31 DEF TypeOK, ControlInv, StopInv, StopIsDurable, World, vars
<1>. QED
  BY <1>1, <1>2, <1>3, <1>4, <1>5, <1>6, <1>7, <1>8, <1>9, <1>10, <1>11, <1>12, <1>13,
     <1>14, <1>15, <1>16,
     <1>17, <1>18, <1>19, <1>20, <1>21, <1>22, <1>23, <1>24, <1>25, <1>26, <1>27, <1>28,
         <1>29, <1>30, <1>31
  DEF Next, Step, Dispatch, Handle

\* Writing one row keeps the count if the new row respects it.
LEMMA OneRow ==
  ASSUME TypeOK, RetryInv, NEW t \in Tasks, NEW row \in ScheduledTask,
         tasks' = [tasks EXCEPT ![t] = row],
         \A u \in Tasks \ {t} : requeues'[u] = requeues[u],
         row.attempts + (IF row.status \in {"absent", "queued"} THEN 1 ELSE 0)
           <= row.limit + requeues'[t],
         row.status = "absent" => row.attempts = 0
  PROVE  RetryInv'
<1>1. tasks'[t] = row /\ \A u \in Tasks \ {t} : tasks'[u] = tasks[u]
  BY DEF TypeOK
<1>2. ASSUME NEW u \in Tasks
      PROVE  /\ tasks'[u].attempts
                  + (IF tasks'[u].status \in {"absent", "queued"} THEN 1 ELSE 0)
                  <= tasks'[u].limit + requeues'[u]
             /\ tasks'[u].status = "absent" => tasks'[u].attempts = 0
  <2>1. CASE u = t
    BY <1>1, <2>1
  <2>2. CASE u # t
    BY <1>1, <2>2 DEF RetryInv, BoundedRetry
  <2>. QED BY <2>1, <2>2
<1>. QED
  BY <1>2 DEF RetryInv, BoundedRetry

\* Every step keeps the count of attempts.
LEMMA RetryStep ==
  ASSUME TypeOK, ControlInv, JobInv, RetryInv, [Next]_vars
  PROVE  RetryInv'
<1>1. ASSUME NEW c \in Clients, NEW r \in Requests, Arrive(c, r) PROVE RetryInv'
  BY <1>1 DEF RetryInv, BoundedRetry, Arrive, durable, history
<1>2. ASSUME RunnerWakes PROVE RetryInv'
  BY <1>2 DEF RetryInv, BoundedRetry, RunnerWakes, durable, history
<1>3. ASSUME NEW low \in BOOLEAN, Poll(low) PROVE RetryInv'
  BY <1>3 DEF RetryInv, BoundedRetry, Poll, Observe, durable, history
<1>4. ASSUME NothingToRun PROVE RetryInv'
  BY <1>4 DEF RetryInv, BoundedRetry, NothingToRun, durable, history
<1>5. ASSUME StartRecharge PROVE RetryInv'
  BY <1>5 DEF RetryInv, BoundedRetry, StartRecharge, durable, history
<1>6. ASSUME NEW t \in Tasks, StartTask(t) PROVE RetryInv'
  <2>1. /\ tasks[t].status = "queued" /\ tasks' = [tasks EXCEPT ![t] = Started(tasks[t])]
        /\ requeues' = requeues
    BY <1>6 DEF StartTask, NextQueued, WithStatus, history
  <2>2. tasks[t].attempts + 1 <= tasks[t].limit + requeues[t]
    BY <2>1 DEF RetryInv, BoundedRetry
  <2>3. /\ Started(tasks[t]) \in ScheduledTask /\ Started(tasks[t]).status = "running"
        /\ Started(tasks[t]).attempts = tasks[t].attempts + 1
        /\ Started(tasks[t]).limit = tasks[t].limit
        /\ tasks[t].attempts \in Nat
    BY RowTypes, RowFields DEF TypeOK, ScheduledTask
  <2>4. Started(tasks[t]).attempts
          + (IF Started(tasks[t]).status \in {"absent", "queued"} THEN 1 ELSE 0)
          <= Started(tasks[t]).limit + requeues'[t]
    BY <2>1, <2>2, <2>3
  <2>5. Started(tasks[t]) \in ScheduledTask /\ Started(tasks[t]).status # "absent"
    BY <2>3
  <2>. QED
    BY <2>1, <2>4, <2>5, OneRow
<1>7. ASSUME NEW res \in {"completed", "awaiting_confirmation", "failed", "blocked"},
            NEW low \in BOOLEAN, GraphEnds(res, low) PROVE RetryInv'
  BY <1>7 DEF RetryInv, BoundedRetry, GraphEnds, Observe, durable, history
<1>8. ASSUME NEW low \in BOOLEAN, RechargeEnds(low) PROVE RetryInv'
  BY <1>8 DEF RetryInv, BoundedRetry, RechargeEnds, Observe, durable, history
<1>9. ASSUME CommandRaises PROVE RetryInv'
  BY <1>9 DEF RetryInv, BoundedRetry, CommandRaises, durable, history
<1>10. ASSUME Settle PROVE RetryInv'
  <2>1. job \in [kind: {"run", "resume"}, id: Tasks, task: ScheduledTask,
                 call: Calls \union {NoCall}, result: Results]
    BY <1>10, JobFields DEF TypeOK, ControlInv, Settle
  <2>2. /\ tasks[job.id] = job.task
        /\ job.task.status \in {"running", "awaiting_confirmation"}
    BY <2>1 DEF JobInv
  <2>3. /\ SettledStatus(job) \in TaskStatus
        /\ SettledStatus(job) = "queued" => job.task.attempts < job.task.limit
    BY DEF SettledStatus, TaskStatus
  <2>4. /\ Updated(job.task, SettledStatus(job)).status = SettledStatus(job)
        /\ Updated(job.task, SettledStatus(job)).attempts = job.task.attempts
        /\ Updated(job.task, SettledStatus(job)).limit = job.task.limit
    BY <2>1, <2>3, RowFields
  <2>5. tasks' = [tasks EXCEPT ![job.id] = Updated(job.task, SettledStatus(job))]
        /\ requeues' = requeues
    BY <1>10 DEF Settle, history
  <2>6. SettledStatus(job) # "absent"
    BY DEF SettledStatus
  <2>7. Updated(job.task, SettledStatus(job)) \in ScheduledTask
    BY <2>1, <2>3, RowTypes
  <2>8. /\ job.task.attempts + (IF job.task.status \in {"absent", "queued"} THEN 1 ELSE 0)
             <= job.task.limit + requeues[job.id]
        /\ job.task.attempts \in Nat /\ job.task.limit \in Nat /\ requeues[job.id] \in Nat
    BY <2>1, <2>2 DEF TypeOK, RetryInv, BoundedRetry, ScheduledTask
  <2>9. Updated(job.task, SettledStatus(job)).attempts
          + (IF Updated(job.task, SettledStatus(job)).status \in {"absent", "queued"} THEN 1 ELSE 0)
          <= Updated(job.task, SettledStatus(job)).limit + requeues'[job.id]
    BY <2>2, <2>3, <2>4, <2>5, <2>6, <2>8
  <2>10. Updated(job.task, SettledStatus(job)).status # "absent" /\ job.id \in Tasks
    BY <2>1, <2>4, <2>6
  <2>. QED
    BY <2>5, <2>7, <2>9, <2>10, OneRow
<1>11. ASSUME NEW c \in Clients, NEW t \in Tasks, NEW th \in Threads,
     Submit(c, t, th) PROVE RetryInv'
  <2>1. request[c].priority \in Priorities /\ request[c].limit \in Limits
    BY <1>11, RequestFields DEF TypeOK, Submit, Serving
  <2>2. /\ Enqueued(tasks, th, request[c].priority, request[c].limit).status = "queued"
        /\ Enqueued(tasks, th, request[c].priority, request[c].limit).attempts = 0
        /\ Enqueued(tasks, th, request[c].priority, request[c].limit).limit = request[c].limit
    BY DEF Enqueued
  <2>3. request[c].limit \in Nat \ {0}
    BY <2>1, QueueAssumption
  <2>4. tasks' = [tasks EXCEPT ![t] =
                    Enqueued(tasks, th, request[c].priority, request[c].limit)]
        /\ requeues' = requeues
    BY <1>11 DEF Submit, history
  <2>5. Enqueued(tasks, th, request[c].priority, request[c].limit) \in ScheduledTask
        /\ requeues[t] \in Nat
    BY <2>1, EnqueuedType DEF TypeOK
  <2>6. Enqueued(tasks, th, request[c].priority, request[c].limit).attempts
          + (IF Enqueued(tasks, th, request[c].priority, request[c].limit).status
                 \in {"absent", "queued"} THEN 1 ELSE 0)
          <= Enqueued(tasks, th, request[c].priority, request[c].limit).limit + requeues'[t]
    BY <2>2, <2>3, <2>4, <2>5
  <2>. QED
    BY <2>2, <2>4, <2>5, <2>6, OneRow
<1>12. ASSUME NEW c \in Clients, CancelCheckpoint(c) PROVE RetryInv'
  BY <1>12 DEF RetryInv, BoundedRetry, CancelCheckpoint, durable, history
<1>13. ASSUME NEW c \in Clients, CancelTask(c) PROVE RetryInv'
  <2>1. request[c].task \in Tasks
    BY <1>13, RequestFields DEF TypeOK, CancelTask, Serving
  <2>2. /\ Cancelled(tasks[request[c].task]).status
               \in {tasks[request[c].task].status, "cancelled"}
        /\ Cancelled(tasks[request[c].task]).attempts = tasks[request[c].task].attempts
        /\ Cancelled(tasks[request[c].task]).limit = tasks[request[c].task].limit
    BY <2>1 DEF TypeOK, Cancelled, Updated, ScheduledTask
  <2>3. tasks' = [tasks EXCEPT ![request[c].task] = Cancelled(tasks[request[c].task])]
        /\ requeues' = requeues
    BY <1>13 DEF CancelTask, history
  <2>4. /\ tasks[request[c].task].attempts
             + (IF tasks[request[c].task].status \in {"absent", "queued"} THEN 1 ELSE 0)
             <= tasks[request[c].task].limit + requeues[request[c].task]
        /\ tasks[request[c].task].status = "absent" => tasks[request[c].task].attempts = 0
    BY <2>1 DEF RetryInv, BoundedRetry
  <2>5. /\ tasks[request[c].task] \in ScheduledTask
        /\ tasks[request[c].task].attempts \in Nat /\ tasks[request[c].task].limit \in Nat
        /\ requeues[request[c].task] \in Nat
        /\ Cancelled(tasks[request[c].task]) \in ScheduledTask
    BY <2>1, RowTypes DEF TypeOK, ScheduledTask
  <2>6. Cancelled(tasks[request[c].task]).attempts
          + (IF Cancelled(tasks[request[c].task]).status \in {"absent", "queued"} THEN 1 ELSE 0)
          <= Cancelled(tasks[request[c].task]).limit + requeues'[request[c].task]
    BY <2>2, <2>3, <2>4, <2>5
  <2>7. Cancelled(tasks[request[c].task]).status = "absent"
          => Cancelled(tasks[request[c].task]).attempts = 0
    BY <2>2, <2>4
  <2>. QED
    BY <2>1, <2>3, <2>5, <2>6, <2>7, OneRow
<1>14. ASSUME NEW c \in Clients, ResumeRefused(c) PROVE RetryInv'
  BY <1>14 DEF RetryInv, BoundedRetry, ResumeRefused, durable, history
<1>15. ASSUME NEW c \in Clients, ResumeBegins(c) PROVE RetryInv'
  BY <1>15 DEF RetryInv, BoundedRetry, ResumeBegins, durable, history
<1>16. ASSUME NEW c \in Clients, PopCheckpoint(c) PROVE RetryInv'
  BY <1>16 DEF RetryInv, BoundedRetry, PopCheckpoint, durable, history
<1>17. ASSUME NEW c \in Clients, NEW low \in BOOLEAN, ResumeBlocked(c, low) PROVE RetryInv'
  BY <1>17 DEF RetryInv, BoundedRetry, ResumeBlocked, Observe, durable, history
<1>18. ASSUME NEW c \in Clients, NEW low \in BOOLEAN, ResumeAllowed(c, low) PROVE RetryInv'
  BY <1>18 DEF RetryInv, BoundedRetry, ResumeAllowed, Observe, durable, history
<1>19. ASSUME NEW c \in Clients, NEW res \in {"completed", "failed"}, NEW low \in BOOLEAN,
            ResumeExecuted(c, res, low) PROVE RetryInv'
  BY <1>19 DEF RetryInv, BoundedRetry, ResumeExecuted, Observe, durable, history
<1>20. ASSUME NEW c \in Clients, ActivateEstop(c) PROVE RetryInv'
  BY <1>20 DEF RetryInv, BoundedRetry, ActivateEstop, durable, history
<1>21. ASSUME NEW c \in Clients, SaveEstop(c) PROVE RetryInv'
  BY <1>21 DEF RetryInv, BoundedRetry, SaveEstop, durable, history
<1>22. ASSUME NEW c \in Clients, NEW t \in Tasks, PauseRunning(c, t) PROVE RetryInv'
  <2>1. /\ tasks[t].status = "running" /\ tasks' = [tasks EXCEPT ![t] = Updated(@, "paused")]
        /\ requeues' = requeues
    BY <1>22 DEF PauseRunning, SetStatus, history
  <2>2. /\ Updated(tasks[t], "paused").status = "paused"
        /\ Updated(tasks[t], "paused").attempts = tasks[t].attempts
        /\ Updated(tasks[t], "paused").limit = tasks[t].limit
    BY RowFields DEF TypeOK, TaskStatus
  <2>3. /\ Updated(tasks[t], "paused") \in ScheduledTask /\ requeues[t] \in Nat
        /\ tasks[t].attempts \in Nat /\ tasks[t].limit \in Nat
    BY RowTypes DEF TypeOK, TaskStatus, ScheduledTask
  <2>4. tasks[t].attempts <= tasks[t].limit + requeues[t]
    BY <2>1, <2>3 DEF RetryInv, BoundedRetry
  <2>5. requeues'[t] = requeues[t]
    BY <2>1 DEF TypeOK
  <2>6. Updated(tasks[t], "paused").attempts
          + (IF Updated(tasks[t], "paused").status \in {"absent", "queued"} THEN 1 ELSE 0)
          <= Updated(tasks[t], "paused").limit + requeues'[t]
    BY <2>2, <2>3, <2>4, <2>5
  <2>7. \A u \in Tasks \ {t} : requeues'[u] = requeues[u]
    BY <2>1 DEF TypeOK
  <2>. QED
    BY <2>1, <2>2, <2>3, <2>6, <2>7, OneRow
<1>23. ASSUME NEW c \in Clients, InterruptDone(c) PROVE RetryInv'
  BY <1>23 DEF RetryInv, BoundedRetry, InterruptDone, durable, history
<1>24. ASSUME NEW c \in Clients, ResetEstop(c) PROVE RetryInv'
  BY <1>24 DEF RetryInv, BoundedRetry, ResetEstop, durable, history
<1>25. ASSUME NEW c \in Clients, NEW t \in Tasks, ResumePaused(c, t) PROVE RetryInv'
  <2>1. /\ tasks[t].status = "paused" /\ tasks' = [tasks EXCEPT ![t] = Updated(@, "queued")]
        /\ requeues' = [requeues EXCEPT ![t] = @ + 1]
    BY <1>25 DEF ResumePaused, SetStatus
  <2>2. /\ Updated(tasks[t], "queued").status = "queued"
        /\ Updated(tasks[t], "queued").attempts = tasks[t].attempts
        /\ Updated(tasks[t], "queued").limit = tasks[t].limit
    BY RowFields DEF TypeOK, TaskStatus
  <2>3. /\ Updated(tasks[t], "queued") \in ScheduledTask /\ requeues[t] \in Nat
        /\ tasks[t].attempts \in Nat /\ tasks[t].limit \in Nat
    BY RowTypes DEF TypeOK, TaskStatus, ScheduledTask
  <2>4. tasks[t].attempts <= tasks[t].limit + requeues[t]
    BY <2>1, <2>3 DEF RetryInv, BoundedRetry
  <2>5. requeues'[t] = requeues[t] + 1
    BY <2>1 DEF TypeOK
  <2>6. Updated(tasks[t], "queued").attempts
          + (IF Updated(tasks[t], "queued").status \in {"absent", "queued"} THEN 1 ELSE 0)
          <= Updated(tasks[t], "queued").limit + requeues'[t]
    BY <2>2, <2>3, <2>4, <2>5
  <2>7. \A u \in Tasks \ {t} : requeues'[u] = requeues[u]
    BY <2>1 DEF TypeOK
  <2>. QED
    BY <2>1, <2>2, <2>3, <2>6, <2>7, OneRow
<1>26. ASSUME NEW c \in Clients, ResetDone(c) PROVE RetryInv'
  BY <1>26 DEF RetryInv, BoundedRetry, ResetDone, durable, history
<1>27. ASSUME Crash PROVE RetryInv'
  BY <1>27 DEF RetryInv, BoundedRetry, Crash, durable, history
<1>28. ASSUME Restart PROVE RetryInv'
  BY <1>28 DEF RetryInv, BoundedRetry, Restart, durable, history
<1>29. ASSUME NEW t \in Tasks, RecoverRunning(t) PROVE RetryInv'
  <2>1. /\ tasks[t].status = "running" /\ tasks' = [tasks EXCEPT ![t] = Updated(@, "queued")]
        /\ requeues' = [requeues EXCEPT ![t] = @ + 1]
    BY <1>29 DEF RecoverRunning, SetStatus
  <2>2. /\ Updated(tasks[t], "queued").status = "queued"
        /\ Updated(tasks[t], "queued").attempts = tasks[t].attempts
        /\ Updated(tasks[t], "queued").limit = tasks[t].limit
    BY RowFields DEF TypeOK, TaskStatus
  <2>3. /\ Updated(tasks[t], "queued") \in ScheduledTask /\ requeues[t] \in Nat
        /\ tasks[t].attempts \in Nat /\ tasks[t].limit \in Nat
    BY RowTypes DEF TypeOK, TaskStatus, ScheduledTask
  <2>4. tasks[t].attempts <= tasks[t].limit + requeues[t]
    BY <2>1, <2>3 DEF RetryInv, BoundedRetry
  <2>5. requeues'[t] = requeues[t] + 1
    BY <2>1 DEF TypeOK
  <2>6. Updated(tasks[t], "queued").attempts
          + (IF Updated(tasks[t], "queued").status \in {"absent", "queued"} THEN 1 ELSE 0)
          <= Updated(tasks[t], "queued").limit + requeues'[t]
    BY <2>2, <2>3, <2>4, <2>5
  <2>7. \A u \in Tasks \ {t} : requeues'[u] = requeues[u]
    BY <2>1 DEF TypeOK
  <2>. QED
    BY <2>1, <2>2, <2>3, <2>6, <2>7, OneRow
<1>30. ASSUME Recovered PROVE RetryInv'
  BY <1>30 DEF RetryInv, BoundedRetry, Recovered, durable, history
<1>31. ASSUME UNCHANGED vars PROVE RetryInv'
  BY <1>31 DEF RetryInv, BoundedRetry, vars
<1>. QED
  BY <1>1, <1>2, <1>3, <1>4, <1>5, <1>6, <1>7, <1>8, <1>9, <1>10, <1>11, <1>12, <1>13,
     <1>14, <1>15, <1>16,
     <1>17, <1>18, <1>19, <1>20, <1>21, <1>22, <1>23, <1>24, <1>25, <1>26, <1>27, <1>28,
         <1>29, <1>30, <1>31
  DEF Next, Step, Dispatch, Handle

\* Steps that start no command, hand out no call and store none keep CallInv.
LEMMA CallFrame ==
  ASSUME TypeOK, CallInv, TypeOK',
         \A t \in Tasks : tasks'[t].attempts >= tasks[t].attempts,
         \A th \in Threads : checkpoints'[th] \in {checkpoints[th], NoCall},
         executed' = executed,
         phase' \notin {"graph", "observe"}
  PROVE  CallInv'
<1>1. Pending \subseteq Calls /\ executed \subseteq Calls /\ Pending' \subseteq Pending
  BY DEF TypeOK, Pending
<1>2. \A c \in executed' \union Pending' : c[2] <= tasks'[c[1]].attempts
  <2>. SUFFICES ASSUME NEW c \in executed \union Pending PROVE c[2] <= tasks'[c[1]].attempts
    BY <1>1
  <2>1. c[1] \in Tasks /\ c[2] \in Nat
    BY <1>1 DEF Calls
  <2>2. c[2] <= tasks[c[1]].attempts /\ tasks[c[1]].attempts \in Nat
    BY <2>1 DEF CallInv, TypeOK, ScheduledTask
  <2>3. tasks'[c[1]].attempts >= tasks[c[1]].attempts /\ tasks'[c[1]].attempts \in Nat
    BY <2>1 DEF TypeOK, ScheduledTask
  <2>. QED
    BY <2>1, <2>2, <2>3
<1>. QED
  BY <1>1, <1>2 DEF CallInv

\* No step takes an attempt back.
LEMMA AttemptsGrow ==
  ASSUME TypeOK, ControlInv, JobInv, RetryInv, [Next]_vars
  PROVE  \A u \in Tasks : tasks'[u].attempts >= tasks[u].attempts
<1>1. ASSUME NEW c \in Clients, NEW r \in Requests, Arrive(c, r)
     PROVE \A u \in Tasks : tasks'[u].attempts >= tasks[u].attempts
  BY <1>1 DEF TypeOK, ScheduledTask, Arrive, durable
<1>2. ASSUME RunnerWakes PROVE \A u \in Tasks : tasks'[u].attempts >= tasks[u].attempts
  BY <1>2 DEF TypeOK, ScheduledTask, RunnerWakes, durable
<1>3. ASSUME NEW low \in BOOLEAN, Poll(low)
     PROVE \A u \in Tasks : tasks'[u].attempts >= tasks[u].attempts
  BY <1>3 DEF TypeOK, ScheduledTask, Poll, Observe, durable
<1>4. ASSUME NothingToRun PROVE \A u \in Tasks : tasks'[u].attempts >= tasks[u].attempts
  BY <1>4 DEF TypeOK, ScheduledTask, NothingToRun, durable
<1>5. ASSUME StartRecharge PROVE \A u \in Tasks : tasks'[u].attempts >= tasks[u].attempts
  BY <1>5 DEF TypeOK, ScheduledTask, StartRecharge, durable
<1>6. ASSUME NEW t \in Tasks, StartTask(t)
     PROVE \A u \in Tasks : tasks'[u].attempts >= tasks[u].attempts
  <2>1. tasks' = [tasks EXCEPT ![t] = Started(tasks[t])]
    BY <1>6 DEF StartTask
  <2>2. Started(tasks[t]).attempts >= tasks[t].attempts
    BY RowFields DEF TypeOK, ScheduledTask
  <2>. QED
    BY <2>1, <2>2 DEF TypeOK, ScheduledTask
<1>7. ASSUME NEW res \in {"completed", "awaiting_confirmation", "failed", "blocked"},
            NEW low \in BOOLEAN, GraphEnds(res, low)
      PROVE \A u \in Tasks : tasks'[u].attempts >= tasks[u].attempts
  BY <1>7 DEF TypeOK, ScheduledTask, GraphEnds, Observe, durable
<1>8. ASSUME NEW low \in BOOLEAN, RechargeEnds(low)
     PROVE \A u \in Tasks : tasks'[u].attempts >= tasks[u].attempts
  BY <1>8 DEF TypeOK, ScheduledTask, RechargeEnds, Observe, durable
<1>9. ASSUME CommandRaises PROVE \A u \in Tasks : tasks'[u].attempts >= tasks[u].attempts
  BY <1>9 DEF TypeOK, ScheduledTask, CommandRaises, durable
<1>10. ASSUME Settle PROVE \A u \in Tasks : tasks'[u].attempts >= tasks[u].attempts
  <2>1. job \in [kind: {"run", "resume"}, id: Tasks, task: ScheduledTask,
                 call: Calls \union {NoCall}, result: Results]
    BY <1>10, JobFields DEF TypeOK, ControlInv, Settle
  <2>2. tasks[job.id] = job.task /\ SettledStatus(job) \in TaskStatus
    BY <2>1 DEF JobInv, SettledStatus, TaskStatus
  <2>3. Updated(job.task, SettledStatus(job)).attempts = tasks[job.id].attempts
    BY <2>1, <2>2, RowFields
  <2>. QED
    BY <1>10, <2>1, <2>3, SMTT(30) DEF Settle, TypeOK, ScheduledTask
<1>11. ASSUME NEW c \in Clients, NEW t \in Tasks, NEW th \in Threads,
     Submit(c, t, th) PROVE \A u \in Tasks : tasks'[u].attempts >= tasks[u].attempts
  BY <1>11 DEF Submit, TypeOK, RetryInv, Enqueued, ScheduledTask
<1>12. ASSUME NEW c \in Clients, CancelCheckpoint(c)
     PROVE \A u \in Tasks : tasks'[u].attempts >= tasks[u].attempts
  BY <1>12 DEF TypeOK, ScheduledTask, CancelCheckpoint, durable
<1>13. ASSUME NEW c \in Clients, CancelTask(c)
     PROVE \A u \in Tasks : tasks'[u].attempts >= tasks[u].attempts
  <2>1. request[c].task \in Tasks
    BY <1>13, RequestFields DEF TypeOK, CancelTask, Serving
  <2>. QED
    BY <1>13, <2>1, RowFields DEF CancelTask, TypeOK, ScheduledTask
<1>14. ASSUME NEW c \in Clients, ResumeRefused(c)
     PROVE \A u \in Tasks : tasks'[u].attempts >= tasks[u].attempts
  BY <1>14 DEF TypeOK, ScheduledTask, ResumeRefused, durable
<1>15. ASSUME NEW c \in Clients, ResumeBegins(c)
     PROVE \A u \in Tasks : tasks'[u].attempts >= tasks[u].attempts
  <2>1. tasks' = tasks
    BY <1>15 DEF ResumeBegins, durable
  <2>. QED
    BY <2>1 DEF TypeOK, ScheduledTask
<1>16. ASSUME NEW c \in Clients, PopCheckpoint(c)
     PROVE \A u \in Tasks : tasks'[u].attempts >= tasks[u].attempts
  BY <1>16 DEF TypeOK, ScheduledTask, PopCheckpoint, durable
<1>17. ASSUME NEW c \in Clients, NEW low \in BOOLEAN, ResumeBlocked(c, low)
     PROVE \A u \in Tasks : tasks'[u].attempts >= tasks[u].attempts
  BY <1>17 DEF TypeOK, ScheduledTask, ResumeBlocked, Observe, durable
<1>18. ASSUME NEW c \in Clients, NEW low \in BOOLEAN, ResumeAllowed(c, low)
     PROVE \A u \in Tasks : tasks'[u].attempts >= tasks[u].attempts
  BY <1>18 DEF TypeOK, ScheduledTask, ResumeAllowed, Observe, durable
<1>19. ASSUME NEW c \in Clients, NEW res \in {"completed", "failed"}, NEW low \in BOOLEAN,
            ResumeExecuted(c, res, low)
      PROVE \A u \in Tasks : tasks'[u].attempts >= tasks[u].attempts
  BY <1>19 DEF TypeOK, ScheduledTask, ResumeExecuted, Observe, durable
<1>20. ASSUME NEW c \in Clients, ActivateEstop(c)
     PROVE \A u \in Tasks : tasks'[u].attempts >= tasks[u].attempts
  BY <1>20 DEF TypeOK, ScheduledTask, ActivateEstop, durable
<1>21. ASSUME NEW c \in Clients, SaveEstop(c)
     PROVE \A u \in Tasks : tasks'[u].attempts >= tasks[u].attempts
  BY <1>21 DEF TypeOK, ScheduledTask, SaveEstop, durable
<1>22. ASSUME NEW c \in Clients, NEW t \in Tasks, PauseRunning(c, t)
     PROVE \A u \in Tasks : tasks'[u].attempts >= tasks[u].attempts
  BY <1>22, RowFields DEF PauseRunning, SetStatus, TypeOK, TaskStatus, ScheduledTask
<1>23. ASSUME NEW c \in Clients, InterruptDone(c)
     PROVE \A u \in Tasks : tasks'[u].attempts >= tasks[u].attempts
  BY <1>23 DEF TypeOK, ScheduledTask, InterruptDone, durable
<1>24. ASSUME NEW c \in Clients, ResetEstop(c)
     PROVE \A u \in Tasks : tasks'[u].attempts >= tasks[u].attempts
  BY <1>24 DEF TypeOK, ScheduledTask, ResetEstop, durable
<1>25. ASSUME NEW c \in Clients, NEW t \in Tasks, ResumePaused(c, t)
     PROVE \A u \in Tasks : tasks'[u].attempts >= tasks[u].attempts
  BY <1>25, RowFields DEF ResumePaused, SetStatus, TypeOK, TaskStatus, ScheduledTask
<1>26. ASSUME NEW c \in Clients, ResetDone(c)
     PROVE \A u \in Tasks : tasks'[u].attempts >= tasks[u].attempts
  BY <1>26 DEF TypeOK, ScheduledTask, ResetDone, durable
<1>27. ASSUME Crash PROVE \A u \in Tasks : tasks'[u].attempts >= tasks[u].attempts
  BY <1>27 DEF TypeOK, ScheduledTask, Crash, durable
<1>28. ASSUME Restart PROVE \A u \in Tasks : tasks'[u].attempts >= tasks[u].attempts
  BY <1>28 DEF TypeOK, ScheduledTask, Restart, durable
<1>29. ASSUME NEW t \in Tasks, RecoverRunning(t)
     PROVE \A u \in Tasks : tasks'[u].attempts >= tasks[u].attempts
  BY <1>29, RowFields DEF RecoverRunning, SetStatus, TypeOK, TaskStatus, ScheduledTask
<1>30. ASSUME Recovered PROVE \A u \in Tasks : tasks'[u].attempts >= tasks[u].attempts
  BY <1>30 DEF TypeOK, ScheduledTask, Recovered, durable
<1>31. ASSUME UNCHANGED vars PROVE \A u \in Tasks : tasks'[u].attempts >= tasks[u].attempts
  BY <1>31 DEF TypeOK, ScheduledTask, vars
<1>. QED
  BY <1>1, <1>2, <1>3, <1>4, <1>5, <1>6, <1>7, <1>8, <1>9, <1>10, <1>11, <1>12, <1>13,
     <1>14, <1>15, <1>16,
     <1>17, <1>18, <1>19, <1>20, <1>21, <1>22, <1>23, <1>24, <1>25, <1>26, <1>27, <1>28,
         <1>29, <1>30, <1>31
  DEF Next, Step, Dispatch, Handle

\* Every step keeps CallInv: a pending call is in one place only.
LEMMA CallStep ==
  ASSUME TypeOK, ControlInv, JobInv, RetryInv, CallInv, TypeOK',
         \A u \in Tasks : tasks'[u].attempts >= tasks[u].attempts, [Next]_vars
  PROVE  CallInv'
<1>1. ASSUME NEW c \in Clients, NEW r \in Requests, Arrive(c, r) PROVE CallInv'
  BY <1>1 DEF CallInv, Pending, Arrive, durable, history
<1>2. ASSUME RunnerWakes PROVE CallInv'
  BY <1>2 DEF CallInv, Pending, RunnerWakes, durable, history
<1>3. ASSUME NEW low \in BOOLEAN, Poll(low) PROVE CallInv'
  BY <1>3, CallFrame DEF Poll, GoTo, durable, history
<1>4. ASSUME NothingToRun PROVE CallInv'
  BY <1>4, CallFrame DEF NothingToRun, Release, durable, history
<1>5. ASSUME StartRecharge PROVE CallInv'
  BY <1>5 DEF CallInv, Pending, StartRecharge, GoTo, durable, history
<1>6. ASSUME NEW t \in Tasks, StartTask(t) PROVE CallInv'
  <2>1. /\ tasks'[t] = Started(tasks[t]) /\ checkpoints' = checkpoints
        /\ executed' = executed /\ phase' = "graph"
        /\ job' = [kind |-> "run", id |-> t, task |-> Started(tasks[t]),
                   call |-> NoCall, result |-> ""]
    BY <1>6 DEF StartTask, GoTo, history, TypeOK
  <2>2. \A a \in executed \union Pending : a[2] <= tasks'[a[1]].attempts
    <3>. SUFFICES ASSUME NEW a \in executed \union Pending PROVE a[2] <= tasks'[a[1]].attempts
      OBVIOUS
    <3>1. a \in Calls
      BY DEF Pending, TypeOK
    <3>2. a[2] \in Nat /\ a[2] <= tasks[a[1]].attempts /\ tasks[a[1]].attempts \in Nat
      BY <3>1 DEF CallInv, Calls, TypeOK, ScheduledTask
    <3>3. tasks'[a[1]].attempts \in Nat /\ tasks'[a[1]].attempts >= tasks[a[1]].attempts
      BY <3>1 DEF Calls, TypeOK, ScheduledTask
    <3>. QED BY <3>2, <3>3
  <2>3. <<t, tasks[t].attempts + 1>> \notin executed \union Pending
    BY SMTT(30) DEF CallInv, TypeOK, ScheduledTask
  <2>4. Started(tasks[t]).attempts = tasks[t].attempts + 1
    BY RowFields DEF TypeOK
  <2>5. Pending' = Pending
    BY <2>1 DEF Pending
  <2>. QED BY <2>1, <2>2, <2>3, <2>4, <2>5 DEF CallInv
<1>7. ASSUME NEW res \in {"completed", "awaiting_confirmation", "failed", "blocked"},
            NEW low \in BOOLEAN, GraphEnds(res, low) PROVE CallInv'
  <2> DEFINE new == <<job.id, job.task.attempts>>
  <2>1. /\ tasks' = tasks /\ executed' = executed /\ phase' = "settle"
        /\ \A th \in Threads :
             \/ checkpoints'[th] = checkpoints[th]
             \/ th = job.task.thread /\ checkpoints'[th] = new
    BY <1>7 DEF GraphEnds, GoTo, history, TypeOK
  <2>2. new \notin executed \union Pending
    BY <1>7 DEF GraphEnds, Holding, CallInv
  <2>3. new \in Calls /\ new[2] <= tasks[new[1]].attempts
    BY <1>7, JobFields DEF GraphEnds, Holding, TypeOK, JobInv, Calls, ScheduledTask
  <2>4. Pending' \subseteq Pending \union {new}
    BY <2>1 DEF Pending
  <2>5. \A a, b \in Threads : checkpoints'[a] = checkpoints'[b] /\ checkpoints'[a] # NoCall => a = b
    BY <2>1, <2>2, <2>3, SchedulerAssumption DEF CallInv, Pending, Calls
  <2>. QED BY <2>1, <2>2, <2>3, <2>4, <2>5 DEF CallInv
<1>8. ASSUME NEW low \in BOOLEAN, RechargeEnds(low) PROVE CallInv'
  BY <1>8, CallFrame DEF RechargeEnds, Release, durable, history
<1>9. ASSUME CommandRaises PROVE CallInv'
  BY <1>9, CallFrame DEF CommandRaises, Release, durable, history
<1>10. ASSUME Settle PROVE CallInv'
  BY <1>10, CallFrame DEF Settle, Release, durable, history
<1>11. ASSUME NEW c \in Clients, NEW t \in Tasks, NEW th \in Threads,
     Submit(c, t, th) PROVE CallInv'
  BY <1>11, CallFrame DEF Submit, Release, durable, history
<1>12. ASSUME NEW c \in Clients, CancelCheckpoint(c) PROVE CallInv'
  <2>1. \A th \in Threads : checkpoints'[th] \in {checkpoints[th], NoCall}
    BY <1>12 DEF CancelCheckpoint, TypeOK
  <2>. QED
    BY <1>12, <2>1, CallFrame DEF CancelCheckpoint, GoTo, history
<1>13. ASSUME NEW c \in Clients, CancelTask(c) PROVE CallInv'
  BY <1>13, CallFrame DEF CancelTask, Release, durable, history
<1>14. ASSUME NEW c \in Clients, ResumeRefused(c) PROVE CallInv'
  BY <1>14, CallFrame DEF ResumeRefused, Release, durable, history
<1>15. ASSUME NEW c \in Clients, ResumeBegins(c) PROVE CallInv'
  BY <1>15, CallFrame DEF ResumeBegins, GoTo, durable, history
<1>16. ASSUME NEW c \in Clients, PopCheckpoint(c) PROVE CallInv'
  <2> DEFINE th == job.task.thread
             call == checkpoints[job.task.thread]
  <2>1. job \in [kind: {"run", "resume"}, id: Tasks, task: ScheduledTask,
                 call: Calls \union {NoCall}, result: Results]
    BY <1>16, JobFields DEF TypeOK, ControlInv, PopCheckpoint, Serving, Holding
  <2>2. th \in Threads
    BY <2>1 DEF ScheduledTask
  <2>3. /\ tasks' = tasks /\ executed' = executed /\ phase' \in {"observe", "settle"}
        /\ checkpoints' = [checkpoints EXCEPT ![th] = NoCall]
        /\ job'.call = call
        /\ phase' = "observe" => call # NoCall
    BY <1>16, <2>1 DEF PopCheckpoint, GoTo, history
  <2>4. Pending' \subseteq Pending \ {call}
    BY <2>2, <2>3 DEF Pending, CallInv, TypeOK
  <2>5. call # NoCall => /\ call \in Calls /\ call \notin executed
                         /\ call[2] <= tasks[call[1]].attempts
    BY <2>2 DEF CallInv, Pending, TypeOK
  <2>6. \A a, b \in Threads : checkpoints'[a] = checkpoints'[b] /\ checkpoints'[a] # NoCall => a = b
    BY <2>2, <2>3 DEF CallInv, TypeOK
  <2>7. \A c1 \in executed' \union Pending' : c1[2] <= tasks'[c1[1]].attempts
    BY <2>3, <2>4 DEF CallInv
  <2>8. Pending' \cap executed' = {}
    BY <2>3, <2>4 DEF CallInv
  <2>9. phase' = "observe" => /\ job'.call \in Calls \ (executed' \union Pending')
                              /\ job'.call[2] <= tasks'[job'.call[1]].attempts
    <3>. SUFFICES ASSUME phase' = "observe"
                  PROVE  /\ job'.call \in Calls \ (executed' \union Pending')
                         /\ job'.call[2] <= tasks'[job'.call[1]].attempts
      OBVIOUS
    <3>1. /\ call \in Calls /\ call \notin executed' /\ call[2] <= tasks'[call[1]].attempts
          /\ job'.call = call
      BY <2>3, <2>5
    <3>2. call \notin Pending'
      BY <2>4
    <3>. HIDE DEF call
    <3>. QED
      BY <3>1, <3>2
  <2>. QED BY <2>3, <2>6, <2>7, <2>8, <2>9 DEF CallInv
<1>17. ASSUME NEW c \in Clients, NEW low \in BOOLEAN, ResumeBlocked(c, low) PROVE CallInv'
  BY <1>17, CallFrame DEF ResumeBlocked, GoTo, durable, history
<1>18. ASSUME NEW c \in Clients, NEW low \in BOOLEAN, ResumeAllowed(c, low) PROVE CallInv'
  <2>1. /\ tasks' = tasks /\ checkpoints' = checkpoints /\ phase' = "exec"
        /\ executed' = executed \union {job.call} /\ Pending' = Pending
    BY <1>18 DEF ResumeAllowed, GoTo, Pending
  <2>2. /\ job.call \in Calls \ (executed \union Pending)
        /\ job.call[2] <= tasks[job.call[1]].attempts
    BY <1>18 DEF ResumeAllowed, Serving, Holding, CallInv
  <2>. QED BY <2>1, <2>2 DEF CallInv
<1>19. ASSUME NEW c \in Clients, NEW res \in {"completed", "failed"}, NEW low \in BOOLEAN,
            ResumeExecuted(c, res, low) PROVE CallInv'
  BY <1>19, CallFrame DEF ResumeExecuted, GoTo, durable, history
<1>20. ASSUME NEW c \in Clients, ActivateEstop(c) PROVE CallInv'
  BY <1>20, CallFrame DEF ActivateEstop, GoTo, durable, history
<1>21. ASSUME NEW c \in Clients, SaveEstop(c) PROVE CallInv'
  BY <1>21, CallFrame DEF SaveEstop, GoTo, durable, history
<1>22. ASSUME NEW c \in Clients, NEW t \in Tasks, PauseRunning(c, t) PROVE CallInv'
  BY <1>22, CallFrame DEF PauseRunning, Serving, Holding, durable, history
<1>23. ASSUME NEW c \in Clients, InterruptDone(c) PROVE CallInv'
  BY <1>23, CallFrame DEF InterruptDone, Release, durable, history
<1>24. ASSUME NEW c \in Clients, ResetEstop(c) PROVE CallInv'
  BY <1>24, CallFrame DEF ResetEstop, GoTo, durable, history
<1>25. ASSUME NEW c \in Clients, NEW t \in Tasks, ResumePaused(c, t) PROVE CallInv'
  BY <1>25, CallFrame DEF ResumePaused, Serving, Holding, durable, history
<1>26. ASSUME NEW c \in Clients, ResetDone(c) PROVE CallInv'
  BY <1>26, CallFrame DEF ResetDone, Release, durable, history
<1>27. ASSUME Crash PROVE CallInv'
  BY <1>27, CallFrame DEF Crash, durable, history
<1>28. ASSUME Restart PROVE CallInv'
  BY <1>28 DEF CallInv, Pending, Restart, durable, history
<1>29. ASSUME NEW t \in Tasks, RecoverRunning(t) PROVE CallInv'
  <2>. phase = "enter"
    BY <1>29 DEF RecoverRunning, ControlInv
  <2>. QED
    BY <1>29, CallFrame DEF RecoverRunning
<1>30. ASSUME Recovered PROVE CallInv'
  BY <1>30 DEF CallInv, Pending, Recovered, durable, history
<1>31. ASSUME UNCHANGED vars PROVE CallInv'
  BY <1>31 DEF CallInv, Pending, vars
<1>. QED
  BY <1>1, <1>2, <1>3, <1>4, <1>5, <1>6, <1>7, <1>8, <1>9, <1>10, <1>11, <1>12, <1>13,
     <1>14, <1>15, <1>16,
     <1>17, <1>18, <1>19, <1>20, <1>21, <1>22, <1>23, <1>24, <1>25, <1>26, <1>27, <1>28,
         <1>29, <1>30, <1>31
  DEF Next, Step, Dispatch, Handle

-----------------------------------------------------------------------------
\* The invariant holds of a store without work.
LEMMA InitIInv == Init => IInv
<1>. SUFFICES ASSUME Init PROVE IInv
  OBVIOUS
<1>1. \A t \in Tasks : /\ AbsentTask(t) \in ScheduledTask
                       /\ AbsentTask(t).status = "absent"
                       /\ AbsentTask(t).attempts = 0 /\ AbsentTask(t).limit = 1
  BY QueueAssumption DEF AbsentTask, ScheduledTask
<1>2. TypeOK
  <2>1. tasks \in [Tasks -> ScheduledTask]
    BY <1>1 DEF Init
  <2>2. snapshot \in World /\ world \in World
    BY DEF Init, World
  <2>3. lock \in Seq(Procs) /\ phase \in Phases /\ job \in Jobs
    BY DEF Init, Phases, Jobs
  <2>4. 0 \in 0..MaxCrashes /\ 0 \in 0..MaxFaults
    BY SchedulerAssumption
  <2>. QED BY <2>1, <2>2, <2>3, <2>4 DEF Init, TypeOK
<1>3. ControlInv /\ JobInv
  BY DEF Init, ControlInv, JobInv, NoJob
<1>4. StopInv
  BY DEF Init, StopInv, StopIsDurable
<1>5. CallInv
  BY DEF Init, CallInv, Pending, NoJob
<1>6. RetryInv
  BY <1>1 DEF Init, RetryInv, BoundedRetry
<1>. QED BY <1>2, <1>3, <1>4, <1>5, <1>6 DEF IInv

\* Every step of the scheduler, the handlers and the crash keeps the invariant.
LEMMA StepIInv == IInv /\ [Next]_vars => IInv'
<1>. SUFFICES ASSUME IInv, [Next]_vars PROVE IInv'
  OBVIOUS
<1>1. TypeOK /\ ControlInv /\ JobInv /\ StopInv /\ CallInv /\ RetryInv
  BY DEF IInv
<1>2. TypeOK'
  BY <1>1, TypeStep
<1>3. ControlInv' /\ JobInv' /\ StopInv' /\ RetryInv'
  BY <1>1, ControlStep, JobStep, StopStep, RetryStep
<1>4. CallInv'
  BY <1>1, <1>2, AttemptsGrow, CallStep
<1>. QED BY <1>2, <1>3, <1>4 DEF IInv

\* The inductive invariant is one.
LEMMA Invariance == Spec => []IInv
  BY InitIInv, StepIInv, PTL DEF Spec

\* Rows, checkpoints, the lock and the handler's locals keep their types.
THEOREM TypeCorrect == Spec => []TypeOK
  BY Invariance, PTL DEF IInv

\* Attempts stay within the limit plus what crashes and stops gave back, for any
\* number of tasks, handlers, crashes and faults.
THEOREM RetryBounded == Spec => []BoundedRetry
<1>1. IInv => BoundedRetry
  BY DEF IInv, RetryInv
<1>. QED BY <1>1, Invariance, PTL

\* An answered interrupt is in the newest snapshot until the next reset, whatever
\* crashes and whatever was running when it came.
THEOREM StopSurvives == Spec => []StopIsDurable
<1>1. IInv => StopIsDurable
  BY DEF IInv, StopInv
<1>. QED BY <1>1, Invariance, PTL
-----------------------------------------------------------------------------
\* No command starts between the answer to an interrupt and the reset.
THEOREM StoppedStaysStopped == Spec => NothingStartsWhileStopped
<1>1. IInv /\ IInv' /\ [Next]_vars => [acked => phase' \notin {"graph", "exec"}]_vars
  <2>. SUFFICES ASSUME IInv, [Next]_vars, acked, IInv' PROVE phase' \notin {"graph", "exec"}
    OBVIOUS
  <2>1. CASE acked'
    BY <2>1 DEF IInv, StopInv
  <2>2. CASE ~acked'
    <3>1. PICK c \in Clients : ResetEstop(c)
      BY <2>2 DEF Next, Step, Dispatch, Handle, vars, history, Arrive, RunnerWakes, Poll,
         NothingToRun, StartRecharge, StartTask,
              GraphEnds, RechargeEnds, CommandRaises, Settle, Submit,
              CancelCheckpoint, CancelTask, ResumeRefused, ResumeBegins,
              PopCheckpoint, ResumeBlocked, ResumeAllowed, ResumeExecuted,
              ActivateEstop, SaveEstop, PauseRunning, InterruptDone, ResetEstop,
              ResumePaused, ResetDone, Crash, Restart, RecoverRunning, Recovered
    <3>. QED BY <3>1 DEF ResetEstop, GoTo
  <2>. QED BY <2>1, <2>2
<1>. QED BY <1>1, Invariance, PTL DEF Spec, NothingStartsWhileStopped

\* A call is handed to its skill at most once, also when threads are shared.
THEOREM CallsRunOnce == Spec => ConfirmedOnce
<1>1. IInv /\ [Next]_vars
        => [phase' = "exec" /\ phase # "exec" => job.call \notin executed]_vars
  <2>. SUFFICES ASSUME IInv, [Next]_vars, phase' = "exec", phase # "exec"
                PROVE  job.call \notin executed
    OBVIOUS
  <2>1. PICK c \in Clients, low \in BOOLEAN : ResumeAllowed(c, low)
    BY DEF Next, Step, Dispatch, Handle, vars, GoTo, Release, Arrive, RunnerWakes, Poll,
       NothingToRun, StartRecharge, StartTask,
              GraphEnds, RechargeEnds, CommandRaises, Settle, Submit,
              CancelCheckpoint, CancelTask, ResumeRefused, ResumeBegins,
              PopCheckpoint, ResumeBlocked, ResumeAllowed, ResumeExecuted,
              ActivateEstop, SaveEstop, PauseRunning, InterruptDone, ResetEstop,
              ResumePaused, ResetDone, Crash, Restart, RecoverRunning, Recovered
  <2>. QED BY <2>1 DEF ResumeAllowed, Serving, Holding, IInv, CallInv
<1>. QED BY <1>1, Invariance, PTL DEF Spec, ConfirmedOnce
-----------------------------------------------------------------------------
\* Writing one row along an edge of the life cycle is a step of TaskLifecycle.
LEMMA EdgeStep ==
  ASSUME TypeOK, NEW t \in Tasks, NEW row \in ScheduledTask,
         tasks' = [tasks EXCEPT ![t] = row],
         row.attempts = tasks[t].attempts,
         <<tasks[t].status, row.status>> \in Lifecycle!Edges
  PROVE  Lifecycle!Next
<1>. DEFINE st == [u \in Tasks |-> tasks[u].status]
            at == [u \in Tasks |-> tasks[u].attempts]
<1>1. /\ [u \in Tasks |-> tasks'[u].status] = [st EXCEPT ![t] = row.status]
      /\ [u \in Tasks |-> tasks'[u].attempts] = at
  BY DEF TypeOK
<1>2. row.status \in {"queued", "completed", "awaiting_confirmation", "failed", "paused",
                      "cancelled"}
  BY DEF Lifecycle!Edges
<1>3. Lifecycle!Move(t, row.status)
  BY <1>1 DEF Lifecycle!Move
<1>. QED BY <1>2, <1>3 DEF Lifecycle!Next

\* Every step is a step of the life cycle of one task, or leaves the table alone.
LEMMA LifecycleStep ==
  ASSUME TypeOK, ControlInv, JobInv, RetryInv, [Next]_vars
  PROVE  Lifecycle!Next \/ UNCHANGED Lifecycle!vars
<1>1. ASSUME NEW c \in Clients, NEW r \in Requests, Arrive(c, r)
     PROVE Lifecycle!Next \/ UNCHANGED Lifecycle!vars
  BY <1>1 DEF Lifecycle!vars, Arrive, durable
<1>2. ASSUME RunnerWakes PROVE Lifecycle!Next \/ UNCHANGED Lifecycle!vars
  BY <1>2 DEF Lifecycle!vars, RunnerWakes, durable
<1>3. ASSUME NEW low \in BOOLEAN, Poll(low) PROVE Lifecycle!Next \/ UNCHANGED Lifecycle!vars
  BY <1>3 DEF Lifecycle!vars, Poll, Observe, durable
<1>4. ASSUME NothingToRun PROVE Lifecycle!Next \/ UNCHANGED Lifecycle!vars
  BY <1>4 DEF Lifecycle!vars, NothingToRun, durable
<1>5. ASSUME StartRecharge PROVE Lifecycle!Next \/ UNCHANGED Lifecycle!vars
  BY <1>5 DEF Lifecycle!vars, StartRecharge, durable
<1>6. ASSUME NEW t \in Tasks, StartTask(t) PROVE Lifecycle!Next \/ UNCHANGED Lifecycle!vars
  <2>1. tasks[t].status = "queued" /\ tasks' = [tasks EXCEPT ![t] = Started(tasks[t])]
    BY <1>6 DEF StartTask, NextQueued, WithStatus
  <2>2. /\ [u \in Tasks |-> tasks'[u].status]
              = [[u \in Tasks |-> tasks[u].status] EXCEPT ![t] = "running"]
        /\ [u \in Tasks |-> tasks'[u].attempts]
              = [[u \in Tasks |-> tasks[u].attempts] EXCEPT ![t] = @ + 1]
    BY <2>1, RowFields DEF TypeOK
  <2>3. Lifecycle!Start(t)
    BY <2>1, <2>2 DEF Lifecycle!Start
  <2>. QED BY <2>3 DEF Lifecycle!Next
<1>7. ASSUME NEW res \in {"completed", "awaiting_confirmation", "failed", "blocked"},
            NEW low \in BOOLEAN, GraphEnds(res, low)
      PROVE Lifecycle!Next \/ UNCHANGED Lifecycle!vars
  BY <1>7 DEF Lifecycle!vars, GraphEnds, Observe, durable
<1>8. ASSUME NEW low \in BOOLEAN, RechargeEnds(low)
     PROVE Lifecycle!Next \/ UNCHANGED Lifecycle!vars
  BY <1>8 DEF Lifecycle!vars, RechargeEnds, Observe, durable
<1>9. ASSUME CommandRaises PROVE Lifecycle!Next \/ UNCHANGED Lifecycle!vars
  BY <1>9 DEF Lifecycle!vars, CommandRaises, durable
<1>10. ASSUME Settle PROVE Lifecycle!Next \/ UNCHANGED Lifecycle!vars
  <2>1. job \in [kind: {"run", "resume"}, id: Tasks, task: ScheduledTask,
                 call: Calls \union {NoCall}, result: Results]
    BY <1>10, JobFields DEF TypeOK, ControlInv, Settle
  <2>2. SettledStatus(job) \in {"completed", "awaiting_confirmation", "queued", "failed"}
    BY DEF SettledStatus
  <2>3. <<job.task.status, SettledStatus(job)>> \in Lifecycle!Edges
    <3>1. CASE job.kind = "run"
      BY <2>1, <2>2, <3>1 DEF JobInv, Lifecycle!Edges
    <3>2. CASE job.kind = "resume"
      <4>1. SettledStatus(job) # "awaiting_confirmation"
        BY <3>2 DEF JobInv, SettledStatus
      <4>. QED BY <2>1, <2>2, <3>2, <4>1 DEF JobInv, Lifecycle!Edges
    <3>. QED BY <2>1, <3>1, <3>2
  <2>4. /\ Updated(job.task, SettledStatus(job)) \in ScheduledTask
        /\ Updated(job.task, SettledStatus(job)).status = SettledStatus(job)
        /\ Updated(job.task, SettledStatus(job)).attempts = job.task.attempts
    <3>1. job.task \in ScheduledTask /\ SettledStatus(job) \in TaskStatus
      BY <2>1, <2>2 DEF TaskStatus
    <3>. QED BY <3>1, RowTypes, RowFields
  <2>5. job.id \in Tasks /\ tasks[job.id] = job.task
    BY <2>1 DEF JobInv
  <2>6. tasks' = [tasks EXCEPT ![job.id] = Updated(job.task, SettledStatus(job))]
    BY <1>10 DEF Settle
  <2>. QED BY <2>3, <2>4, <2>5, <2>6, EdgeStep
<1>11. ASSUME NEW c \in Clients, NEW t \in Tasks, NEW th \in Threads,
     Submit(c, t, th) PROVE Lifecycle!Next \/ UNCHANGED Lifecycle!vars
  <2>1. request[c].priority \in Priorities /\ request[c].limit \in Limits
    BY <1>11, RequestFields DEF TypeOK, Submit, Serving
  <2> DEFINE row == Enqueued(tasks, th, request[c].priority, request[c].limit)
  <2>2. row \in ScheduledTask
    BY <2>1, EnqueuedType
  <2>3. row.status = "queued" /\ row.attempts = 0
    BY DEF Enqueued
  <2>4. tasks[t].status = "absent" /\ tasks' = [tasks EXCEPT ![t] = row]
    BY <1>11 DEF Submit
  <2>5. tasks[t].attempts = 0
    BY <2>4 DEF RetryInv
  <2>6. <<tasks[t].status, row.status>> \in Lifecycle!Edges
    BY <2>3, <2>4 DEF Lifecycle!Edges
  <2>. QED BY <2>2, <2>3, <2>4, <2>5, <2>6, EdgeStep
<1>12. ASSUME NEW c \in Clients, CancelCheckpoint(c)
     PROVE Lifecycle!Next \/ UNCHANGED Lifecycle!vars
  BY <1>12 DEF Lifecycle!vars, CancelCheckpoint, durable
<1>13. ASSUME NEW c \in Clients, CancelTask(c)
     PROVE Lifecycle!Next \/ UNCHANGED Lifecycle!vars
  <2>1. request[c].task \in Tasks /\ tasks[request[c].task] \in ScheduledTask
    BY <1>13, RequestFields DEF TypeOK, CancelTask, Serving
  <2> DEFINE t == request[c].task
             row == Cancelled(tasks[t])
  <2>2. tasks' = [tasks EXCEPT ![t] = row]
    BY <1>13 DEF CancelTask
  <2>3. row \in ScheduledTask /\ row.attempts = tasks[t].attempts
    BY <2>1, RowTypes, RowFields
  <2>4. CASE tasks[t].status \in TerminalStatus \union {"absent"}
    <3>1. tasks' = tasks
      BY <2>1, <2>2, <2>4 DEF Cancelled, TypeOK
    <3>. QED BY <3>1 DEF Lifecycle!vars
  <2>5. CASE tasks[t].status \notin TerminalStatus \union {"absent"}
    <3>1. row.status = "cancelled"
      BY <2>1, <2>5 DEF Cancelled, Updated, ScheduledTask
    <3>2. tasks[t].status \in {"queued", "running", "awaiting_confirmation", "paused"}
      BY <2>1, <2>5 DEF ScheduledTask, TaskStatus, TerminalStatus
    <3>3. <<tasks[t].status, row.status>> \in Lifecycle!Edges
      BY <3>1, <3>2 DEF Lifecycle!Edges
    <3>. QED BY <2>1, <2>2, <2>3, <3>3, EdgeStep
  <2>. QED BY <2>4, <2>5
<1>14. ASSUME NEW c \in Clients, ResumeRefused(c)
     PROVE Lifecycle!Next \/ UNCHANGED Lifecycle!vars
  BY <1>14 DEF Lifecycle!vars, ResumeRefused, durable
<1>15. ASSUME NEW c \in Clients, ResumeBegins(c)
     PROVE Lifecycle!Next \/ UNCHANGED Lifecycle!vars
  BY <1>15 DEF Lifecycle!vars, ResumeBegins, durable
<1>16. ASSUME NEW c \in Clients, PopCheckpoint(c)
     PROVE Lifecycle!Next \/ UNCHANGED Lifecycle!vars
  BY <1>16 DEF Lifecycle!vars, PopCheckpoint, durable
<1>17. ASSUME NEW c \in Clients, NEW low \in BOOLEAN, ResumeBlocked(c, low)
     PROVE Lifecycle!Next \/ UNCHANGED Lifecycle!vars
  BY <1>17 DEF Lifecycle!vars, ResumeBlocked, Observe, durable
<1>18. ASSUME NEW c \in Clients, NEW low \in BOOLEAN, ResumeAllowed(c, low)
     PROVE Lifecycle!Next \/ UNCHANGED Lifecycle!vars
  BY <1>18 DEF Lifecycle!vars, ResumeAllowed, Observe, durable
<1>19. ASSUME NEW c \in Clients, NEW res \in {"completed", "failed"}, NEW low \in BOOLEAN,
            ResumeExecuted(c, res, low)
      PROVE Lifecycle!Next \/ UNCHANGED Lifecycle!vars
  BY <1>19 DEF Lifecycle!vars, ResumeExecuted, Observe, durable
<1>20. ASSUME NEW c \in Clients, ActivateEstop(c)
     PROVE Lifecycle!Next \/ UNCHANGED Lifecycle!vars
  BY <1>20 DEF Lifecycle!vars, ActivateEstop, durable
<1>21. ASSUME NEW c \in Clients, SaveEstop(c)
     PROVE Lifecycle!Next \/ UNCHANGED Lifecycle!vars
  BY <1>21 DEF Lifecycle!vars, SaveEstop, durable
<1>22. ASSUME NEW c \in Clients, NEW t \in Tasks, PauseRunning(c, t)
     PROVE Lifecycle!Next \/ UNCHANGED Lifecycle!vars
  <2>1. tasks[t].status = "running" /\ tasks' = [tasks EXCEPT ![t] = Updated(tasks[t], "paused")]
    BY <1>22 DEF PauseRunning, SetStatus
  <2>2. /\ Updated(tasks[t], "paused") \in ScheduledTask
        /\ Updated(tasks[t], "paused").status = "paused"
        /\ Updated(tasks[t], "paused").attempts = tasks[t].attempts
    BY RowTypes, RowFields DEF TypeOK, TaskStatus
  <2>3. <<tasks[t].status, Updated(tasks[t], "paused").status>> \in Lifecycle!Edges
    BY <2>1, <2>2 DEF Lifecycle!Edges
  <2>. QED BY <2>1, <2>2, <2>3, EdgeStep
<1>23. ASSUME NEW c \in Clients, InterruptDone(c)
     PROVE Lifecycle!Next \/ UNCHANGED Lifecycle!vars
  BY <1>23 DEF Lifecycle!vars, InterruptDone, durable
<1>24. ASSUME NEW c \in Clients, ResetEstop(c)
     PROVE Lifecycle!Next \/ UNCHANGED Lifecycle!vars
  BY <1>24 DEF Lifecycle!vars, ResetEstop, durable
<1>25. ASSUME NEW c \in Clients, NEW t \in Tasks, ResumePaused(c, t)
     PROVE Lifecycle!Next \/ UNCHANGED Lifecycle!vars
  <2>1. tasks[t].status = "paused" /\ tasks' = [tasks EXCEPT ![t] = Updated(tasks[t], "queued")]
    BY <1>25 DEF ResumePaused, SetStatus
  <2>2. /\ Updated(tasks[t], "queued") \in ScheduledTask
        /\ Updated(tasks[t], "queued").status = "queued"
        /\ Updated(tasks[t], "queued").attempts = tasks[t].attempts
    BY RowTypes, RowFields DEF TypeOK, TaskStatus
  <2>3. <<tasks[t].status, Updated(tasks[t], "queued").status>> \in Lifecycle!Edges
    BY <2>1, <2>2 DEF Lifecycle!Edges
  <2>. QED BY <2>1, <2>2, <2>3, EdgeStep
<1>26. ASSUME NEW c \in Clients, ResetDone(c)
     PROVE Lifecycle!Next \/ UNCHANGED Lifecycle!vars
  BY <1>26 DEF Lifecycle!vars, ResetDone, durable
<1>27. ASSUME Crash PROVE Lifecycle!Next \/ UNCHANGED Lifecycle!vars
  BY <1>27 DEF Lifecycle!vars, Crash, durable
<1>28. ASSUME Restart PROVE Lifecycle!Next \/ UNCHANGED Lifecycle!vars
  BY <1>28 DEF Lifecycle!vars, Restart, durable
<1>29. ASSUME NEW t \in Tasks, RecoverRunning(t)
     PROVE Lifecycle!Next \/ UNCHANGED Lifecycle!vars
  <2>1. tasks[t].status = "running" /\ tasks' = [tasks EXCEPT ![t] = Updated(tasks[t], "queued")]
    BY <1>29 DEF RecoverRunning, SetStatus
  <2>2. /\ Updated(tasks[t], "queued") \in ScheduledTask
        /\ Updated(tasks[t], "queued").status = "queued"
        /\ Updated(tasks[t], "queued").attempts = tasks[t].attempts
    BY RowTypes, RowFields DEF TypeOK, TaskStatus
  <2>3. <<tasks[t].status, Updated(tasks[t], "queued").status>> \in Lifecycle!Edges
    BY <2>1, <2>2 DEF Lifecycle!Edges
  <2>. QED BY <2>1, <2>2, <2>3, EdgeStep
<1>30. ASSUME Recovered PROVE Lifecycle!Next \/ UNCHANGED Lifecycle!vars
  BY <1>30 DEF Lifecycle!vars, Recovered, durable
<1>31. ASSUME UNCHANGED vars PROVE Lifecycle!Next \/ UNCHANGED Lifecycle!vars
  BY <1>31 DEF Lifecycle!vars, vars
<1>. QED
  BY <1>1, <1>2, <1>3, <1>4, <1>5, <1>6, <1>7, <1>8, <1>9, <1>10, <1>11, <1>12, <1>13,
     <1>14, <1>15, <1>16,
     <1>17, <1>18, <1>19, <1>20, <1>21, <1>22, <1>23, <1>24, <1>25, <1>26, <1>27, <1>28,
         <1>29, <1>30, <1>31
  DEF Next, Step, Dispatch, Handle

\* The table, seen through status and attempts, implements the task life cycle.
THEOREM LifecycleImplemented == Spec => LifecycleSpec
<1>1. Init => Lifecycle!Init
  BY DEF Init, Lifecycle!Init, AbsentTask
<1>2. IInv /\ [Next]_vars => [Lifecycle!Next]_(Lifecycle!vars)
  BY LifecycleStep DEF IInv
<1>. QED
  BY <1>1, <1>2, Invariance, PTL DEF Spec, LifecycleSpec, Lifecycle!Spec
-----------------------------------------------------------------------------
\* Rows against the process, whatever the threads: a process that is not up has
\* crashed, and without an escaped exception a running row is the lock holder's.
RowInv ==
  /\ mode # "up" => crashes > 0
  /\ PausedOnlyWhileStopped
  /\ faults = 0 => RunningIsExecuting

\* No two tasks are submitted under one thread.
SeparateThreads == \A t, u \in Tasks : t # u => ThreadsOf[t] \cap ThreadsOf[u] = {}

\* Rows against checkpoints, when threads are separate: whose a checkpoint is, from
\* the graph that saves it to the settlement, the resume or the cancel it serves.
OwnThread == \A t \in Tasks : tasks[t].status # "absent" => tasks[t].thread \in ThreadsOf[t]

SavedCall ==
  phase = "settle" /\ job.kind = "run" /\ job.result = "awaiting_confirmation"
    => checkpoints[job.task.thread] = <<job.id, job.task.attempts>>

TakenCall == phase \in {"observe", "exec"} => job.call = <<job.id, job.task.attempts>>

CancelServed == phase = "cancel" => request[Head(lock)].kind = "cancel"

AwaitInv == crashes = 0 /\ faults = 0 => AwaitingHasCheckpoint

ThreadInv == OwnThread /\ CheckpointIsCurrent /\ SavedCall /\ TakenCall /\ CancelServed /\ AwaitInv

\* Writing one row puts its task under the new status and takes it from the others.
LEMMA RowWritten ==
  ASSUME TypeOK, NEW t \in Tasks, NEW row \in ScheduledTask,
         tasks' = [tasks EXCEPT ![t] = row]
  PROVE  \A s \in TaskStatus :
           WithStatus(tasks', s) = IF s = row.status THEN WithStatus(tasks, s) \union {t}
                                   ELSE WithStatus(tasks, s) \ {t}
BY DEF TypeOK, WithStatus

\* Every step keeps the rows true of the process.
LEMMA RowStep ==
  ASSUME TypeOK, ControlInv, JobInv, StopInv, RowInv, [Next]_vars
  PROVE  RowInv'
<1>1. ASSUME NEW c \in Clients, NEW r \in Requests, Arrive(c, r) PROVE RowInv'
  BY <1>1 DEF RowInv, ControlInv, PausedOnlyWhileStopped, RunningIsExecuting, Arrive,
     durable, bounds, history
<1>2. ASSUME RunnerWakes PROVE RowInv'
  BY <1>2 DEF RowInv, ControlInv, PausedOnlyWhileStopped, RunningIsExecuting, RunnerWakes,
     durable, bounds, history
<1>3. ASSUME NEW low \in BOOLEAN, Poll(low) PROVE RowInv'
  BY <1>3 DEF RowInv, ControlInv, PausedOnlyWhileStopped, RunningIsExecuting, Poll, GoTo,
     Holding, Observe, durable, bounds, history
<1>4. ASSUME NothingToRun PROVE RowInv'
  BY <1>4 DEF RowInv, ControlInv, PausedOnlyWhileStopped, RunningIsExecuting, NothingToRun,
     Release, NoJob, Holding, durable, bounds, history
<1>5. ASSUME StartRecharge PROVE RowInv'
  BY <1>5 DEF RowInv, ControlInv, PausedOnlyWhileStopped, RunningIsExecuting, NoJob,
     StartRecharge, GoTo, Holding, durable, bounds, history
<1>6. ASSUME NEW t \in Tasks, StartTask(t) PROVE RowInv'
  <2>1. tasks' = [tasks EXCEPT ![t] = Started(tasks[t])] /\ Started(tasks[t]) \in ScheduledTask
        /\ Started(tasks[t]).status = "running"
    BY <1>6, RowTypes, RowFields DEF TypeOK, StartTask
  <2>2. /\ WithStatus(tasks', "paused") \subseteq WithStatus(tasks, "paused")
        /\ WithStatus(tasks', "running") = WithStatus(tasks, "running") \union {t}
    BY <2>1, RowWritten DEF TaskStatus
  <2>3. job = NoJob /\ phase = "polled" /\ mode = "up"
    BY <1>6 DEF ControlInv, StartTask, Holding
  <2>4. faults = 0 => WithStatus(tasks, "running") = {}
    BY <2>3 DEF RowInv, RunningIsExecuting, NoJob
  <2>5. /\ job'.kind = "run" /\ job'.id = t /\ mode' = mode /\ world' = world
        /\ phase' = "graph" /\ UNCHANGED <<crashes, faults>>
    BY <1>6 DEF StartTask, GoTo, bounds
  <2>. QED BY <2>2, <2>3, <2>4, <2>5 DEF RowInv, PausedOnlyWhileStopped, RunningIsExecuting
<1>7. ASSUME NEW res \in {"completed", "awaiting_confirmation", "failed", "blocked"},
     NEW low \in BOOLEAN, GraphEnds(res, low)
     PROVE RowInv'
  BY <1>7 DEF RowInv, ControlInv, PausedOnlyWhileStopped, RunningIsExecuting, GraphEnds,
     GoTo, Holding, Observe, durable, bounds, history
<1>8. ASSUME NEW low \in BOOLEAN, RechargeEnds(low) PROVE RowInv'
  BY <1>8 DEF RowInv, ControlInv, PausedOnlyWhileStopped, RunningIsExecuting, RechargeEnds,
     Release, NoJob, Holding, Observe, durable, bounds, history
<1>9. ASSUME CommandRaises PROVE RowInv'
  BY <1>9 DEF TypeOK, RowInv, ControlInv, PausedOnlyWhileStopped, RunningIsExecuting, NoJob,
     CommandRaises, Release, NoJob, durable, bounds, history
<1>10. ASSUME Settle PROVE RowInv'
  <2>1. job.id \in Tasks /\ job.task \in ScheduledTask /\ job.kind \in {"run", "resume"}
    BY <1>10, JobFields DEF TypeOK, ControlInv, Settle
  <2>2. SettledStatus(job) \in {"completed", "awaiting_confirmation", "queued", "failed"}
    BY DEF SettledStatus
  <2>3. /\ Updated(job.task, SettledStatus(job)) \in ScheduledTask
        /\ Updated(job.task, SettledStatus(job)).status = SettledStatus(job)
    <3>1. SettledStatus(job) \in TaskStatus
      BY <2>2 DEF TaskStatus
    <3>. QED BY <2>1, <3>1, RowTypes, RowFields
  <2>4. /\ WithStatus(tasks', "paused") \subseteq WithStatus(tasks, "paused")
        /\ WithStatus(tasks', "running") = WithStatus(tasks, "running") \ {job.id}
    BY <1>10, <2>1, <2>2, <2>3, RowWritten DEF Settle, TaskStatus
  <2>5. /\ phase = "settle" /\ mode = "up" /\ mode' = mode /\ world' = world
        /\ UNCHANGED <<crashes, faults>>
    BY <1>10 DEF Settle, bounds
  <2>. QED BY <2>4, <2>5 DEF RowInv, PausedOnlyWhileStopped, RunningIsExecuting
<1>11. ASSUME NEW c \in Clients, NEW t \in Tasks, NEW th \in Threads, Submit(c, t, th)
     PROVE RowInv'
  <2>1. request[c].priority \in Priorities /\ request[c].limit \in Limits
    BY <1>11, RequestFields DEF TypeOK, Submit, Serving
  <2> DEFINE row == Enqueued(tasks, th, request[c].priority, request[c].limit)
  <2>2. row \in ScheduledTask /\ row.status = "queued"
    BY <2>1, EnqueuedType DEF Enqueued
  <2>3. tasks' = [tasks EXCEPT ![t] = row]
    BY <1>11 DEF Submit
  <2>4. /\ WithStatus(tasks', "paused") \subseteq WithStatus(tasks, "paused")
        /\ WithStatus(tasks', "running") \subseteq WithStatus(tasks, "running")
    BY <2>2, <2>3, RowWritten DEF TaskStatus
  <2>5. /\ job = NoJob /\ phase = "enter" /\ mode = "up" /\ mode' = mode /\ world' = world
        /\ UNCHANGED <<crashes, faults>>
    BY <1>11 DEF ControlInv, Submit, Serving, Holding, bounds
  <2>. QED BY <2>4, <2>5 DEF RowInv, PausedOnlyWhileStopped, RunningIsExecuting, NoJob
<1>12. ASSUME NEW c \in Clients, CancelCheckpoint(c) PROVE RowInv'
  BY <1>12 DEF RowInv, ControlInv, PausedOnlyWhileStopped, RunningIsExecuting,
     CancelCheckpoint, GoTo, Serving, Holding, durable, bounds, history
<1>13. ASSUME NEW c \in Clients, CancelTask(c) PROVE RowInv'
  <2>1. request[c].task \in Tasks
    BY <1>13, RequestFields DEF TypeOK, CancelTask, Serving
  <2> DEFINE row == Cancelled(tasks[request[c].task])
  <2>2. row \in ScheduledTask /\ row.status \in TerminalStatus \union {"absent"}
    BY <2>1, RowTypes DEF TypeOK, Cancelled, Updated, ScheduledTask, TerminalStatus
  <2>3. tasks' = [tasks EXCEPT ![request[c].task] = row]
    BY <1>13 DEF CancelTask
  <2>4. /\ WithStatus(tasks', "paused") \subseteq WithStatus(tasks, "paused")
        /\ WithStatus(tasks', "running") \subseteq WithStatus(tasks, "running")
    BY <2>1, <2>2, <2>3, RowWritten DEF TerminalStatus, TaskStatus
  <2>5. /\ job = NoJob /\ phase = "cancel" /\ mode = "up" /\ mode' = mode /\ world' = world
        /\ UNCHANGED <<crashes, faults>>
    BY <1>13 DEF ControlInv, CancelTask, Serving, Holding, bounds
  <2>. QED BY <2>4, <2>5 DEF RowInv, PausedOnlyWhileStopped, RunningIsExecuting, NoJob
<1>14. ASSUME NEW c \in Clients, ResumeRefused(c) PROVE RowInv'
  BY <1>14 DEF RowInv, ControlInv, PausedOnlyWhileStopped, RunningIsExecuting,
     ResumeRefused, Release, NoJob, Serving, Holding, durable, bounds, history
<1>15. ASSUME NEW c \in Clients, ResumeBegins(c) PROVE RowInv'
  <2>1. /\ job = NoJob /\ phase = "enter" /\ mode = "up" /\ mode' = mode /\ world' = world
        /\ UNCHANGED <<tasks, crashes, faults>>
    BY <1>15 DEF ControlInv, ResumeBegins, GoTo, Serving, Holding, durable, bounds, history
  <2>. QED BY <2>1 DEF RowInv, PausedOnlyWhileStopped, RunningIsExecuting, NoJob
<1>16. ASSUME NEW c \in Clients, PopCheckpoint(c) PROVE RowInv'
  BY <1>16 DEF RowInv, ControlInv, PausedOnlyWhileStopped, RunningIsExecuting,
     PopCheckpoint, GoTo, Serving, Holding, durable, bounds, history
<1>17. ASSUME NEW c \in Clients, NEW low \in BOOLEAN, ResumeBlocked(c, low) PROVE RowInv'
  BY <1>17 DEF RowInv, ControlInv, PausedOnlyWhileStopped, RunningIsExecuting,
     ResumeBlocked, GoTo, Serving, Holding, Observe, durable, bounds, history
<1>18. ASSUME NEW c \in Clients, NEW low \in BOOLEAN, ResumeAllowed(c, low) PROVE RowInv'
  BY <1>18 DEF RowInv, ControlInv, PausedOnlyWhileStopped, RunningIsExecuting,
     ResumeAllowed, GoTo, Serving, Holding, Observe, durable, bounds, history
<1>19. ASSUME NEW c \in Clients, NEW res \in {"completed", "failed"}, NEW low \in BOOLEAN,
     ResumeExecuted(c, res, low)
     PROVE RowInv'
  BY <1>19 DEF RowInv, ControlInv, PausedOnlyWhileStopped, RunningIsExecuting,
     ResumeExecuted, GoTo, Serving, Holding, Observe, durable, bounds, history
<1>20. ASSUME NEW c \in Clients, ActivateEstop(c) PROVE RowInv'
  BY <1>20 DEF RowInv, ControlInv, PausedOnlyWhileStopped, RunningIsExecuting,
     ActivateEstop, GoTo, Serving, Holding, durable, bounds, history
<1>21. ASSUME NEW c \in Clients, SaveEstop(c) PROVE RowInv'
  BY <1>21 DEF RowInv, ControlInv, PausedOnlyWhileStopped, RunningIsExecuting, SaveEstop,
     GoTo, Serving, Holding, durable, bounds, history
<1>22. ASSUME NEW c \in Clients, NEW t \in Tasks, PauseRunning(c, t) PROVE RowInv'
  <2>1. tasks' = [tasks EXCEPT ![t] = Updated(tasks[t], "paused")]
    BY <1>22 DEF PauseRunning, SetStatus
  <2>2. /\ Updated(tasks[t], "paused") \in ScheduledTask
        /\ Updated(tasks[t], "paused").status = "paused"
    BY RowTypes, RowFields DEF TypeOK, TaskStatus
  <2>3. WithStatus(tasks', "running") \subseteq WithStatus(tasks, "running")
    BY <2>1, <2>2, RowWritten DEF TaskStatus
  <2>4. world'.estop
    BY <1>22 DEF StopInv, PauseRunning, Serving, Holding
  <2>. QED BY <1>22, <2>3, <2>4 DEF RowInv, PausedOnlyWhileStopped, RunningIsExecuting,
              PauseRunning, bounds
<1>23. ASSUME NEW c \in Clients, InterruptDone(c) PROVE RowInv'
  BY <1>23 DEF RowInv, ControlInv, PausedOnlyWhileStopped, RunningIsExecuting,
     InterruptDone, Release, NoJob, Serving, Holding, durable, bounds, history
<1>24. ASSUME NEW c \in Clients, ResetEstop(c) PROVE RowInv'
  BY <1>24 DEF RowInv, ControlInv, PausedOnlyWhileStopped, RunningIsExecuting, ResetEstop,
     GoTo, Serving, Holding, durable, bounds, history
<1>25. ASSUME NEW c \in Clients, NEW t \in Tasks, ResumePaused(c, t) PROVE RowInv'
  <2>1. tasks' = [tasks EXCEPT ![t] = Updated(tasks[t], "queued")]
    BY <1>25 DEF ResumePaused, SetStatus
  <2>2. /\ Updated(tasks[t], "queued") \in ScheduledTask
        /\ Updated(tasks[t], "queued").status = "queued"
    BY RowTypes, RowFields DEF TypeOK, TaskStatus
  <2>3. WithStatus(tasks', "running") \subseteq WithStatus(tasks, "running")
    BY <2>1, <2>2, RowWritten DEF TaskStatus
  <2>4. WithStatus(tasks', "paused") \subseteq WithStatus(tasks, "paused")
    BY <2>1, <2>2, RowWritten DEF TaskStatus
  <2>. QED BY <1>25, <2>3, <2>4 DEF RowInv, PausedOnlyWhileStopped, RunningIsExecuting,
              ResumePaused, bounds
<1>26. ASSUME NEW c \in Clients, ResetDone(c) PROVE RowInv'
  BY <1>26 DEF RowInv, ControlInv, PausedOnlyWhileStopped, RunningIsExecuting, ResetDone,
     Release, NoJob, Serving, Holding, durable, bounds, history
<1>27. ASSUME Crash PROVE RowInv'
  BY <1>27 DEF TypeOK, RowInv, ControlInv, PausedOnlyWhileStopped, RunningIsExecuting,
     NoJob, Crash, durable, bounds, history
<1>28. ASSUME Restart PROVE RowInv'
  BY <1>28 DEF RowInv, ControlInv, PausedOnlyWhileStopped, RunningIsExecuting, Restart,
     durable, bounds, history
<1>29. ASSUME NEW t \in Tasks, RecoverRunning(t) PROVE RowInv'
  <2>1. tasks' = [tasks EXCEPT ![t] = Updated(tasks[t], "queued")]
    BY <1>29 DEF RecoverRunning, SetStatus
  <2>2. /\ Updated(tasks[t], "queued") \in ScheduledTask
        /\ Updated(tasks[t], "queued").status = "queued"
    BY RowTypes, RowFields DEF TypeOK, TaskStatus
  <2>3. WithStatus(tasks', "running") \subseteq WithStatus(tasks, "running")
    BY <2>1, <2>2, RowWritten DEF TaskStatus
  <2>4. WithStatus(tasks', "paused") \subseteq WithStatus(tasks, "paused")
    BY <2>1, <2>2, RowWritten DEF TaskStatus
  <2>. QED BY <1>29, <2>3, <2>4 DEF RowInv, PausedOnlyWhileStopped, RunningIsExecuting,
              RecoverRunning, bounds
<1>30. ASSUME Recovered PROVE RowInv'
  BY <1>30 DEF RowInv, ControlInv, PausedOnlyWhileStopped, RunningIsExecuting, Recovered,
     durable, bounds, history
<1>31. ASSUME UNCHANGED vars PROVE RowInv'
  BY <1>31 DEF RowInv, ControlInv, PausedOnlyWhileStopped, RunningIsExecuting, vars
<1>. QED
  BY <1>1, <1>2, <1>3, <1>4, <1>5, <1>6, <1>7, <1>8, <1>9, <1>10, <1>11, <1>12, <1>13,
     <1>14, <1>15, <1>16, <1>17, <1>18, <1>19, <1>20, <1>21, <1>22, <1>23, <1>24, <1>25,
     <1>26, <1>27, <1>28, <1>29, <1>30, <1>31
  DEF Next, Step, Dispatch, Handle

\* A row keeps the thread it was submitted under (task_queue.py, update and cancel).
LEMMA RowThread ==
  ASSUME NEW row \in ScheduledTask
  PROVE  /\ Started(row).thread = row.thread
         /\ \A s \in TaskStatus : Updated(row, s).thread = row.thread
         /\ Cancelled(row).thread = row.thread
BY DEF ScheduledTask, Started, Updated, Cancelled, TaskStatus

\* A write that leaves a task not waiting disturbs no checkpoint of those that wait.
LEMMA RowLeaves ==
  ASSUME TypeOK, OwnThread, CheckpointIsCurrent, NEW t \in Tasks, NEW row \in ScheduledTask,
         tasks' = [tasks EXCEPT ![t] = row], checkpoints' = checkpoints,
         row.status # "awaiting_confirmation",
         row.status # "absent" => row.thread \in ThreadsOf[t]
  PROVE  /\ OwnThread' /\ CheckpointIsCurrent'
         /\ \A u \in WithStatus(tasks', "awaiting_confirmation") :
              u \in WithStatus(tasks, "awaiting_confirmation") /\ u # t /\ tasks'[u] = tasks[u]
<1>1. tasks'[t] = row /\ \A u \in Tasks : u # t => tasks'[u] = tasks[u]
  BY DEF TypeOK
<1>2. \A u \in WithStatus(tasks', "awaiting_confirmation") :
        u \in WithStatus(tasks, "awaiting_confirmation") /\ u # t /\ tasks'[u] = tasks[u]
  BY <1>1 DEF WithStatus
<1>3. OwnThread'
  BY <1>1 DEF OwnThread
<1>4. CheckpointIsCurrent'
  BY <1>2 DEF CheckpointIsCurrent
<1>. QED BY <1>2, <1>3, <1>4

\* Every step keeps rows and checkpoints together.
LEMMA ThreadStep ==
  ASSUME SeparateThreads, TypeOK, ControlInv, JobInv, ThreadInv, [Next]_vars
  PROVE  ThreadInv'
<1>1. ASSUME NEW c \in Clients, NEW r \in Requests, Arrive(c, r) PROVE ThreadInv'
  BY <1>1, LockOrder DEF TypeOK, Procs, NoRequest, ThreadInv, OwnThread,
     CheckpointIsCurrent, SavedCall, TakenCall, CancelServed, AwaitInv,
     AwaitingHasCheckpoint, ControlInv, NoJob, Arrive, durable, bounds, history
<1>2. ASSUME RunnerWakes PROVE ThreadInv'
  BY <1>2, LockOrder DEF TypeOK, Procs, NoRequest, ThreadInv, OwnThread,
     CheckpointIsCurrent, SavedCall, TakenCall, CancelServed, AwaitInv,
     AwaitingHasCheckpoint, ControlInv, NoJob, RunnerWakes, durable, bounds, history
<1>3. ASSUME NEW low \in BOOLEAN, Poll(low) PROVE ThreadInv'
  BY <1>3 DEF ThreadInv, OwnThread, CheckpointIsCurrent, SavedCall, TakenCall,
     CancelServed, AwaitInv, AwaitingHasCheckpoint, ControlInv, NoJob, Poll, GoTo, Holding,
     Observe, durable, bounds, history
<1>4. ASSUME NothingToRun PROVE ThreadInv'
  BY <1>4 DEF ThreadInv, OwnThread, CheckpointIsCurrent, SavedCall, TakenCall,
     CancelServed, AwaitInv, AwaitingHasCheckpoint, ControlInv, NoJob, NothingToRun,
     Release, NoJob, Holding, durable, bounds, history
<1>5. ASSUME StartRecharge PROVE ThreadInv'
  BY <1>5 DEF ThreadInv, OwnThread, CheckpointIsCurrent, SavedCall, TakenCall,
     CancelServed, AwaitInv, AwaitingHasCheckpoint, ControlInv, NoJob, StartRecharge, GoTo,
     Holding, durable, bounds, history
<1>6. ASSUME NEW t \in Tasks, StartTask(t) PROVE ThreadInv'
  <2>1. /\ tasks' = [tasks EXCEPT ![t] = Started(tasks[t])] /\ checkpoints' = checkpoints
        /\ Started(tasks[t]) \in ScheduledTask /\ tasks[t].status = "queued"
        /\ Started(tasks[t]).status = "running"
        /\ Started(tasks[t]).thread = tasks[t].thread
    BY <1>6, RowTypes, RowFields, RowThread DEF TypeOK, StartTask, NextQueued, WithStatus
  <2>2. /\ OwnThread' /\ CheckpointIsCurrent'
        /\ \A u \in WithStatus(tasks', "awaiting_confirmation") :
             u \in WithStatus(tasks, "awaiting_confirmation") /\ u # t /\ tasks'[u] = tasks[u]
    BY <2>1, RowLeaves DEF ThreadInv, OwnThread
  <2>3. /\ job = NoJob /\ phase = "polled" /\ phase' = "graph"
        /\ UNCHANGED <<checkpoints, crashes, faults>>
    BY <1>6 DEF ControlInv, StartTask, GoTo, Holding, durable, bounds, history
  <2>. QED BY <2>2, <2>3 DEF ThreadInv, SavedCall, TakenCall, CancelServed, AwaitInv,
              AwaitingHasCheckpoint, NoJob
<1>7. ASSUME NEW res \in {"completed", "awaiting_confirmation", "failed", "blocked"},
     NEW low \in BOOLEAN, GraphEnds(res, low)
     PROVE ThreadInv'
  <2>1. /\ job.id \in Tasks /\ job.task \in ScheduledTask /\ tasks[job.id] = job.task
        /\ job.task.status = "running"
        /\ job \in [kind: {"run", "resume"}, id: Tasks, task: ScheduledTask,
                    call: Calls \union {NoCall}, result: Results]
    BY <1>7, JobFields DEF TypeOK, JobInv, GraphEnds
  <2>2. job.task.thread \in ThreadsOf[job.id] /\ job.task.thread \in Threads
    BY <2>1 DEF ThreadInv, OwnThread, ScheduledTask
  <2>3. /\ phase = "graph" /\ phase' = "settle" /\ job.kind = "run"
        /\ job' = [job EXCEPT !.result = res]
        /\ UNCHANGED <<tasks, lock, request, crashes, faults>>
        /\ checkpoints' = IF res = "awaiting_confirmation"
                          THEN [checkpoints EXCEPT ![job.task.thread] = <<job.id, job.task.attempts>>]
                          ELSE checkpoints
    BY <1>7 DEF GraphEnds, GoTo, Holding, Observe, durable, bounds, history
  <2>4. /\ job'.kind = job.kind /\ job'.id = job.id /\ job'.task = job.task /\ job'.result = res
    BY <2>1, <2>3
  <2>5. \A t \in WithStatus(tasks, "awaiting_confirmation") :
          checkpoints'[tasks[t].thread] = checkpoints[tasks[t].thread]
    <3>. SUFFICES ASSUME NEW t \in Tasks, tasks[t].status = "awaiting_confirmation"
                  PROVE  checkpoints'[tasks[t].thread] = checkpoints[tasks[t].thread]
      BY DEF WithStatus
    <3>1. t # job.id /\ tasks[t].thread \in ThreadsOf[t]
      BY <2>1 DEF ThreadInv, OwnThread
    <3>2. tasks[t].thread # job.task.thread
      BY <2>1, <2>2, <3>1 DEF SeparateThreads
    <3>. QED BY <2>3, <3>2 DEF TypeOK
  <2>6. SavedCall'
    BY <2>2, <2>3, <2>4 DEF SavedCall, TypeOK
  <2>7. OwnThread' /\ CheckpointIsCurrent'
    BY <2>3, <2>5 DEF ThreadInv, OwnThread, CheckpointIsCurrent
  <2>8. AwaitInv'
    BY <2>3, <2>5 DEF ThreadInv, AwaitInv, AwaitingHasCheckpoint
  <2>. QED BY <2>3, <2>6, <2>7, <2>8 DEF ThreadInv, TakenCall, CancelServed
<1>8. ASSUME NEW low \in BOOLEAN, RechargeEnds(low) PROVE ThreadInv'
  BY <1>8 DEF ThreadInv, OwnThread, CheckpointIsCurrent, SavedCall, TakenCall,
     CancelServed, AwaitInv, AwaitingHasCheckpoint, ControlInv, NoJob, RechargeEnds,
     Release, NoJob, Holding, Observe, durable, bounds, history
<1>9. ASSUME CommandRaises PROVE ThreadInv'
  <2>1. /\ job' = NoJob /\ phase' = "enter" /\ faults' # 0 /\ UNCHANGED <<tasks, checkpoints>>
    BY <1>9 DEF TypeOK, CommandRaises, Release, NoJob, durable, bounds, history
  <2>. QED BY <2>1 DEF ThreadInv, OwnThread, CheckpointIsCurrent, SavedCall, TakenCall,
              CancelServed, AwaitInv
<1>10. ASSUME Settle PROVE ThreadInv'
  <2>1. /\ job.id \in Tasks /\ job.task \in ScheduledTask /\ tasks[job.id] = job.task
        /\ job.kind \in {"run", "resume"} /\ job.task.status # "absent"
        /\ job.kind = "resume" => job.result # "awaiting_confirmation"
    BY <1>10, JobFields DEF TypeOK, ControlInv, JobInv, Settle
  <2>2. /\ SettledStatus(job) \in {"completed", "awaiting_confirmation", "queued", "failed"}
        /\ SettledStatus(job) = "awaiting_confirmation" => job.result = "awaiting_confirmation"
    BY DEF SettledStatus
  <2> DEFINE row == Updated(job.task, SettledStatus(job))
  <2>3. /\ row \in ScheduledTask /\ row.status = SettledStatus(job)
        /\ row.thread = job.task.thread /\ row.attempts = job.task.attempts
    <3>1. SettledStatus(job) \in TaskStatus
      BY <2>2 DEF TaskStatus
    <3>. QED BY <2>1, <3>1, RowTypes, RowFields, RowThread
  <2>4. row.thread \in ThreadsOf[job.id]
    BY <2>1, <2>3 DEF ThreadInv, OwnThread
  <2>5. /\ tasks' = [tasks EXCEPT ![job.id] = row] /\ phase = "settle" /\ phase' = "enter"
        /\ job' = NoJob /\ UNCHANGED <<checkpoints, crashes, faults>>
    BY <1>10 DEF Settle, Release, NoJob, durable, bounds, history
  <2>6. SavedCall' /\ TakenCall' /\ CancelServed'
    BY <2>5 DEF SavedCall, TakenCall, CancelServed
  <2>. HIDE DEF row
  <2>7. CASE row.status # "awaiting_confirmation"
    <3>1. /\ OwnThread' /\ CheckpointIsCurrent'
          /\ \A u \in WithStatus(tasks', "awaiting_confirmation") :
               u \in WithStatus(tasks, "awaiting_confirmation") /\ u # job.id
               /\ tasks'[u] = tasks[u]
      BY <2>1, <2>3, <2>4, <2>5, <2>7, RowLeaves DEF ThreadInv
    <3>2. AwaitInv'
      BY <2>5, <3>1 DEF ThreadInv, AwaitInv, AwaitingHasCheckpoint
    <3>. QED BY <2>6, <3>1, <3>2 DEF ThreadInv
  <2>8. CASE row.status = "awaiting_confirmation"
    <3>1. checkpoints[row.thread] = <<job.id, row.attempts>>
      BY <2>1, <2>2, <2>3, <2>5, <2>8 DEF ThreadInv, SavedCall
    <3>2. /\ tasks'[job.id] = row
          /\ \A u \in Tasks : u # job.id => tasks'[u] = tasks[u]
      BY <2>1, <2>5 DEF TypeOK
    <3>3. OwnThread'
      BY <2>4, <3>2 DEF ThreadInv, OwnThread
    <3>4. CheckpointIsCurrent'
      BY <2>5, <3>1, <3>2 DEF ThreadInv, CheckpointIsCurrent, WithStatus
    <3>5. AwaitInv'
      BY <2>1, <2>5, <3>1, <3>2 DEF ThreadInv, AwaitInv, AwaitingHasCheckpoint, WithStatus
    <3>. QED BY <2>6, <3>3, <3>4, <3>5 DEF ThreadInv
  <2>. QED BY <2>7, <2>8
<1>11. ASSUME NEW c \in Clients, NEW t \in Tasks, NEW th \in Threads, Submit(c, t, th)
     PROVE ThreadInv'
  <2>1. request[c].priority \in Priorities /\ request[c].limit \in Limits
    BY <1>11, RequestFields DEF TypeOK, Submit, Serving
  <2> DEFINE row == Enqueued(tasks, th, request[c].priority, request[c].limit)
  <2>2. row \in ScheduledTask /\ row.status = "queued" /\ row.thread = th
    BY <2>1, EnqueuedType DEF Enqueued
  <2>3. /\ tasks' = [tasks EXCEPT ![t] = row] /\ th \in ThreadsOf[t] /\ job = NoJob
        /\ job' = NoJob /\ phase = "enter" /\ phase' = "enter"
        /\ UNCHANGED <<checkpoints, crashes, faults>>
    BY <1>11 DEF ControlInv, Submit, Release, NoJob, Serving, Holding, durable, bounds,
       history
  <2>. HIDE DEF row
  <2>4. /\ OwnThread' /\ CheckpointIsCurrent'
        /\ \A u \in WithStatus(tasks', "awaiting_confirmation") :
             u \in WithStatus(tasks, "awaiting_confirmation") /\ u # t /\ tasks'[u] = tasks[u]
    BY <2>2, <2>3, RowLeaves DEF ThreadInv
  <2>. QED BY <2>3, <2>4 DEF ThreadInv, SavedCall, TakenCall, CancelServed, AwaitInv,
              AwaitingHasCheckpoint, NoJob
<1>12. ASSUME NEW c \in Clients, CancelCheckpoint(c) PROVE ThreadInv'
  <2> DEFINE t == request[c].task
  <2>1. t \in Tasks
    BY <1>12, RequestFields DEF TypeOK, CancelCheckpoint, Serving
  <2>2. /\ Head(lock) = c /\ request[c].kind = "cancel" /\ phase = "enter" /\ phase' = "cancel"
        /\ job = NoJob /\ UNCHANGED <<tasks, job, lock, request, crashes, faults>>
        /\ checkpoints' = IF tasks[t].status = "awaiting_confirmation"
                          THEN [checkpoints EXCEPT ![tasks[t].thread] = NoCall] ELSE checkpoints
    BY <1>12 DEF ControlInv, CancelCheckpoint, GoTo, Serving, Holding, durable, bounds,
       history
  <2>. HIDE DEF t
  <2>3. \A u \in WithStatus(tasks, "awaiting_confirmation") :
          checkpoints'[tasks[u].thread] = IF u = t THEN NoCall ELSE checkpoints[tasks[u].thread]
    <3>. SUFFICES ASSUME NEW u \in Tasks, tasks[u].status = "awaiting_confirmation"
                  PROVE  checkpoints'[tasks[u].thread]
                           = IF u = t THEN NoCall ELSE checkpoints[tasks[u].thread]
      BY DEF WithStatus
    <3>1. tasks[u].thread \in ThreadsOf[u] /\ tasks[u].thread \in Threads
      BY DEF ThreadInv, OwnThread, TypeOK, ScheduledTask
    <3>2. tasks[t].status = "awaiting_confirmation" => tasks[t].thread \in ThreadsOf[t]
      BY <2>1 DEF ThreadInv, OwnThread
    <3>3. u # t /\ tasks[t].status = "awaiting_confirmation"
            => tasks[u].thread # tasks[t].thread
      BY <2>1, <3>1, <3>2 DEF SeparateThreads
    <3>. QED BY <2>2, <3>1, <3>3 DEF TypeOK
  <2>4. OwnThread' /\ CheckpointIsCurrent'
    BY <2>2, <2>3 DEF ThreadInv, OwnThread, CheckpointIsCurrent
  <2>5. request'[Head(lock')].task = t /\ request'[Head(lock')].kind = "cancel"
    BY <2>2 DEF t
  <2>6. AwaitInv'
    BY <2>2, <2>3, <2>5 DEF ThreadInv, AwaitInv, AwaitingHasCheckpoint, NoJob
  <2>. QED BY <2>2, <2>4, <2>5, <2>6 DEF ThreadInv, SavedCall, TakenCall, CancelServed
<1>13. ASSUME NEW c \in Clients, CancelTask(c) PROVE ThreadInv'
  <2> DEFINE t == request[c].task
             row == Cancelled(tasks[t])
  <2>1. t \in Tasks
    BY <1>13, RequestFields DEF TypeOK, CancelTask, Serving
  <2>2. /\ row \in ScheduledTask /\ row.thread = tasks[t].thread
        /\ row.status # "awaiting_confirmation"
        /\ row.status # "absent" => tasks[t].status # "absent"
    <3>1. tasks[t] \in ScheduledTask
      BY <2>1 DEF TypeOK
    <3>2. CASE tasks[t].status \in TerminalStatus \union {"absent"}
      BY <3>1, <3>2 DEF Cancelled, TerminalStatus
    <3>3. CASE tasks[t].status \notin TerminalStatus \union {"absent"}
      <4>1. row = Updated(tasks[t], "cancelled") /\ "cancelled" \in TaskStatus
        BY <3>3 DEF Cancelled, TaskStatus
      <4>. QED BY <3>1, <3>3, <4>1, RowTypes, RowFields, RowThread
    <3>. QED BY <3>2, <3>3
  <2>3. /\ tasks' = [tasks EXCEPT ![t] = row] /\ job = NoJob /\ phase = "cancel"
        /\ Head(lock) = c /\ job' = NoJob /\ phase' = "enter"
        /\ UNCHANGED <<checkpoints, crashes, faults>>
    BY <1>13 DEF ControlInv, CancelTask, Release, NoJob, Serving, Holding, durable, bounds,
       history
  <2>4. row.status # "absent" => row.thread \in ThreadsOf[t]
    BY <2>1, <2>2 DEF ThreadInv, OwnThread
  <2>5. t = request[Head(lock)].task
    BY <2>3
  <2>. HIDE DEF row, t
  <2>6. /\ OwnThread' /\ CheckpointIsCurrent'
        /\ \A u \in WithStatus(tasks', "awaiting_confirmation") :
             u \in WithStatus(tasks, "awaiting_confirmation") /\ u # t /\ tasks'[u] = tasks[u]
    BY <2>1, <2>2, <2>3, <2>4, RowLeaves DEF ThreadInv
  <2>. QED BY <2>3, <2>5, <2>6 DEF ThreadInv, SavedCall, TakenCall, CancelServed, AwaitInv,
              AwaitingHasCheckpoint, NoJob
<1>14. ASSUME NEW c \in Clients, ResumeRefused(c) PROVE ThreadInv'
  BY <1>14 DEF ThreadInv, OwnThread, CheckpointIsCurrent, SavedCall, TakenCall,
     CancelServed, AwaitInv, AwaitingHasCheckpoint, ControlInv, NoJob, ResumeRefused,
     Release, NoJob, Serving, Holding, durable, bounds, history
<1>15. ASSUME NEW c \in Clients, ResumeBegins(c) PROVE ThreadInv'
  <2>1. /\ job = NoJob /\ phase = "enter" /\ phase' = "pop" /\ job'.kind = "resume"
        /\ UNCHANGED <<tasks, checkpoints, lock, request, crashes, faults>>
    BY <1>15 DEF ControlInv, ResumeBegins, GoTo, Serving, Holding, durable, bounds, history
  <2>. QED BY <2>1 DEF ThreadInv, OwnThread, CheckpointIsCurrent, SavedCall, TakenCall,
              CancelServed, AwaitInv, AwaitingHasCheckpoint, NoJob
<1>16. ASSUME NEW c \in Clients, PopCheckpoint(c) PROVE ThreadInv'
  <2>1. /\ job.kind = "resume" /\ phase = "pop" /\ job.id \in Tasks
        /\ job.task \in ScheduledTask /\ tasks[job.id] = job.task
        /\ job.task.status = "awaiting_confirmation"
        /\ job \in [kind: {"run", "resume"}, id: Tasks, task: ScheduledTask,
                    call: Calls \union {NoCall}, result: Results]
    BY <1>16, JobFields DEF TypeOK, ControlInv, JobInv, PopCheckpoint, Serving, Holding
  <2> DEFINE call == checkpoints[job.task.thread]
             result == IF call = NoCall THEN "missing_checkpoint"
                       ELSE IF request[c].approved THEN "" ELSE "rejected"
  <2>2. /\ checkpoints' = [checkpoints EXCEPT ![job.task.thread] = NoCall]
        /\ job' = [job EXCEPT !.call = call, !.result = result]
        /\ phase' = IF result = "" THEN "observe" ELSE "settle"
        /\ UNCHANGED <<tasks, crashes, faults>>
    BY <1>16 DEF PopCheckpoint, GoTo, Serving, Holding, durable, bounds, history
  <2>3. /\ job'.kind = "resume" /\ job'.id = job.id /\ job'.task = job.task /\ job'.call = call
    BY <2>1, <2>2
  <2>4. call \in {NoCall, <<job.id, job.task.attempts>>}
    BY <2>1 DEF ThreadInv, CheckpointIsCurrent, WithStatus
  <2>5. result = "" => call # NoCall
    OBVIOUS
  <2>. HIDE DEF call, result
  <2>6. SavedCall' /\ TakenCall' /\ CancelServed'
    BY <2>2, <2>3, <2>4, <2>5 DEF SavedCall, TakenCall, CancelServed
  <2>7. \A u \in WithStatus(tasks, "awaiting_confirmation") :
          checkpoints'[tasks[u].thread]
            = IF u = job.id THEN NoCall ELSE checkpoints[tasks[u].thread]
    <3>. SUFFICES ASSUME NEW u \in Tasks, tasks[u].status = "awaiting_confirmation"
                  PROVE  checkpoints'[tasks[u].thread]
                           = IF u = job.id THEN NoCall ELSE checkpoints[tasks[u].thread]
      BY DEF WithStatus
    <3>1. tasks[u].thread \in ThreadsOf[u] /\ tasks[u].thread \in Threads
      BY DEF ThreadInv, OwnThread, TypeOK, ScheduledTask
    <3>2. job.task.thread \in ThreadsOf[job.id]
      BY <2>1 DEF ThreadInv, OwnThread
    <3>3. u # job.id => tasks[u].thread # job.task.thread
      BY <2>1, <3>1, <3>2 DEF SeparateThreads
    <3>. QED BY <2>1, <2>2, <3>1, <3>3 DEF TypeOK
  <2>8. OwnThread' /\ CheckpointIsCurrent'
    BY <2>2, <2>7 DEF ThreadInv, OwnThread, CheckpointIsCurrent
  <2>9. AwaitInv'
    BY <2>1, <2>2, <2>3, <2>7 DEF ThreadInv, AwaitInv, AwaitingHasCheckpoint
  <2>. QED BY <2>6, <2>8, <2>9 DEF ThreadInv
<1>17. ASSUME NEW c \in Clients, NEW low \in BOOLEAN, ResumeBlocked(c, low) PROVE ThreadInv'
  BY <1>17 DEF ThreadInv, OwnThread, CheckpointIsCurrent, SavedCall, TakenCall,
     CancelServed, AwaitInv, AwaitingHasCheckpoint, ControlInv, NoJob, ResumeBlocked, GoTo,
     Serving, Holding, Observe, durable, bounds, history
<1>18. ASSUME NEW c \in Clients, NEW low \in BOOLEAN, ResumeAllowed(c, low) PROVE ThreadInv'
  BY <1>18 DEF ThreadInv, OwnThread, CheckpointIsCurrent, SavedCall, TakenCall,
     CancelServed, AwaitInv, AwaitingHasCheckpoint, ControlInv, NoJob, ResumeAllowed, GoTo,
     Serving, Holding, Observe, durable, bounds, history
<1>19. ASSUME NEW c \in Clients, NEW res \in {"completed", "failed"}, NEW low \in BOOLEAN,
     ResumeExecuted(c, res, low)
     PROVE ThreadInv'
  BY <1>19 DEF ThreadInv, OwnThread, CheckpointIsCurrent, SavedCall, TakenCall,
     CancelServed, AwaitInv, AwaitingHasCheckpoint, ControlInv, NoJob, ResumeExecuted,
     GoTo, Serving, Holding, Observe, durable, bounds, history
<1>20. ASSUME NEW c \in Clients, ActivateEstop(c) PROVE ThreadInv'
  BY <1>20 DEF ThreadInv, OwnThread, CheckpointIsCurrent, SavedCall, TakenCall,
     CancelServed, AwaitInv, AwaitingHasCheckpoint, ControlInv, NoJob, ActivateEstop, GoTo,
     Serving, Holding, durable, bounds, history
<1>21. ASSUME NEW c \in Clients, SaveEstop(c) PROVE ThreadInv'
  BY <1>21 DEF ThreadInv, OwnThread, CheckpointIsCurrent, SavedCall, TakenCall,
     CancelServed, AwaitInv, AwaitingHasCheckpoint, ControlInv, NoJob, SaveEstop, GoTo,
     Serving, Holding, durable, bounds, history
<1>22. ASSUME NEW c \in Clients, NEW t \in Tasks, PauseRunning(c, t) PROVE ThreadInv'
  <2> DEFINE row == Updated(tasks[t], "paused")
  <2>1. /\ tasks' = [tasks EXCEPT ![t] = row] /\ tasks[t].status = "running"
        /\ UNCHANGED <<checkpoints, job, phase, lock, request, crashes, faults>>
    BY <1>22 DEF PauseRunning, SetStatus, bounds
  <2>2. row \in ScheduledTask /\ row.status = "paused" /\ row.thread = tasks[t].thread
    BY RowTypes, RowFields, RowThread DEF TypeOK, TaskStatus
  <2>3. row.thread \in ThreadsOf[t]
    BY <2>1, <2>2 DEF ThreadInv, OwnThread
  <2>. HIDE DEF row
  <2>4. /\ OwnThread' /\ CheckpointIsCurrent'
        /\ \A u \in WithStatus(tasks', "awaiting_confirmation") :
             u \in WithStatus(tasks, "awaiting_confirmation") /\ u # t /\ tasks'[u] = tasks[u]
    BY <2>1, <2>2, <2>3, RowLeaves DEF ThreadInv
  <2>5. SavedCall' /\ TakenCall' /\ CancelServed'
    BY <2>1 DEF ThreadInv, SavedCall, TakenCall, CancelServed
  <2>6. AwaitInv'
    BY <2>1, <2>4 DEF ThreadInv, AwaitInv, AwaitingHasCheckpoint
  <2>. QED BY <2>4, <2>5, <2>6 DEF ThreadInv
<1>23. ASSUME NEW c \in Clients, InterruptDone(c) PROVE ThreadInv'
  BY <1>23 DEF ThreadInv, OwnThread, CheckpointIsCurrent, SavedCall, TakenCall,
     CancelServed, AwaitInv, AwaitingHasCheckpoint, ControlInv, NoJob, InterruptDone,
     Release, NoJob, Serving, Holding, durable, bounds, history
<1>24. ASSUME NEW c \in Clients, ResetEstop(c) PROVE ThreadInv'
  BY <1>24 DEF ThreadInv, OwnThread, CheckpointIsCurrent, SavedCall, TakenCall,
     CancelServed, AwaitInv, AwaitingHasCheckpoint, ControlInv, NoJob, ResetEstop, GoTo,
     Serving, Holding, durable, bounds, history
<1>25. ASSUME NEW c \in Clients, NEW t \in Tasks, ResumePaused(c, t) PROVE ThreadInv'
  <2> DEFINE row == Updated(tasks[t], "queued")
  <2>1. /\ tasks' = [tasks EXCEPT ![t] = row] /\ tasks[t].status = "paused"
        /\ UNCHANGED <<checkpoints, job, phase, lock, request, crashes, faults>>
    BY <1>25 DEF ResumePaused, SetStatus, bounds
  <2>2. row \in ScheduledTask /\ row.status = "queued" /\ row.thread = tasks[t].thread
    BY RowTypes, RowFields, RowThread DEF TypeOK, TaskStatus
  <2>3. row.thread \in ThreadsOf[t]
    BY <2>1, <2>2 DEF ThreadInv, OwnThread
  <2>. HIDE DEF row
  <2>4. /\ OwnThread' /\ CheckpointIsCurrent'
        /\ \A u \in WithStatus(tasks', "awaiting_confirmation") :
             u \in WithStatus(tasks, "awaiting_confirmation") /\ u # t /\ tasks'[u] = tasks[u]
    BY <2>1, <2>2, <2>3, RowLeaves DEF ThreadInv
  <2>5. SavedCall' /\ TakenCall' /\ CancelServed'
    BY <2>1 DEF ThreadInv, SavedCall, TakenCall, CancelServed
  <2>6. AwaitInv'
    BY <2>1, <2>4 DEF ThreadInv, AwaitInv, AwaitingHasCheckpoint
  <2>. QED BY <2>4, <2>5, <2>6 DEF ThreadInv
<1>26. ASSUME NEW c \in Clients, ResetDone(c) PROVE ThreadInv'
  BY <1>26 DEF ThreadInv, OwnThread, CheckpointIsCurrent, SavedCall, TakenCall,
     CancelServed, AwaitInv, AwaitingHasCheckpoint, ControlInv, NoJob, ResetDone, Release,
     NoJob, Serving, Holding, durable, bounds, history
<1>27. ASSUME Crash PROVE ThreadInv'
  <2>1. /\ job' = NoJob /\ phase' = "enter" /\ crashes' # 0 /\ UNCHANGED <<tasks, checkpoints>>
    BY <1>27 DEF TypeOK, Crash, durable
  <2>. QED BY <2>1 DEF ThreadInv, OwnThread, CheckpointIsCurrent, SavedCall, TakenCall,
              CancelServed, AwaitInv
<1>28. ASSUME Restart PROVE ThreadInv'
  BY <1>28 DEF ThreadInv, OwnThread, CheckpointIsCurrent, SavedCall, TakenCall,
     CancelServed, AwaitInv, AwaitingHasCheckpoint, ControlInv, NoJob, Restart, durable,
     bounds, history
<1>29. ASSUME NEW t \in Tasks, RecoverRunning(t) PROVE ThreadInv'
  <2> DEFINE row == Updated(tasks[t], "queued")
  <2>1. /\ tasks' = [tasks EXCEPT ![t] = row] /\ tasks[t].status = "running"
        /\ UNCHANGED <<checkpoints, job, phase, lock, request, crashes, faults>>
    BY <1>29 DEF RecoverRunning, SetStatus, bounds
  <2>2. row \in ScheduledTask /\ row.status = "queued" /\ row.thread = tasks[t].thread
    BY RowTypes, RowFields, RowThread DEF TypeOK, TaskStatus
  <2>3. row.thread \in ThreadsOf[t]
    BY <2>1, <2>2 DEF ThreadInv, OwnThread
  <2>. HIDE DEF row
  <2>4. /\ OwnThread' /\ CheckpointIsCurrent'
        /\ \A u \in WithStatus(tasks', "awaiting_confirmation") :
             u \in WithStatus(tasks, "awaiting_confirmation") /\ u # t /\ tasks'[u] = tasks[u]
    BY <2>1, <2>2, <2>3, RowLeaves DEF ThreadInv
  <2>5. SavedCall' /\ TakenCall' /\ CancelServed'
    BY <2>1 DEF ThreadInv, SavedCall, TakenCall, CancelServed
  <2>6. AwaitInv'
    BY <2>1, <2>4 DEF ThreadInv, AwaitInv, AwaitingHasCheckpoint
  <2>. QED BY <2>4, <2>5, <2>6 DEF ThreadInv
<1>30. ASSUME Recovered PROVE ThreadInv'
  BY <1>30 DEF ThreadInv, OwnThread, CheckpointIsCurrent, SavedCall, TakenCall,
     CancelServed, AwaitInv, AwaitingHasCheckpoint, ControlInv, NoJob, Recovered, durable,
     bounds, history
<1>31. ASSUME UNCHANGED vars PROVE ThreadInv'
  BY <1>31 DEF ThreadInv, OwnThread, CheckpointIsCurrent, SavedCall, TakenCall,
     CancelServed, AwaitInv, AwaitingHasCheckpoint, ControlInv, NoJob, vars
<1>. QED
  BY <1>1, <1>2, <1>3, <1>4, <1>5, <1>6, <1>7, <1>8, <1>9, <1>10, <1>11, <1>12, <1>13,
     <1>14, <1>15, <1>16, <1>17, <1>18, <1>19, <1>20, <1>21, <1>22, <1>23, <1>24, <1>25,
     <1>26, <1>27, <1>28, <1>29, <1>30, <1>31
  DEF Next, Step, Dispatch, Handle
-----------------------------------------------------------------------------
\* The rows are true of the process in every reachable state.
LEMMA RowsInvariant == Spec => []RowInv
<1>1. Init => RowInv
  BY DEF Init, RowInv, PausedOnlyWhileStopped, RunningIsExecuting, WithStatus, AbsentTask
<1>2. IInv /\ RowInv /\ [Next]_vars => RowInv'
  BY RowStep DEF IInv
<1>. QED BY <1>1, <1>2, Invariance, PTL DEF Spec

\* A paused task waits for a reset that is still to come, unless a crash cut one
\* short: handle_event and reset_estop pause and requeue every row.
THEOREM PausedAreWaiting == Spec => []PausedOnlyWhileStopped
<1>1. RowInv => PausedOnlyWhileStopped
  BY DEF RowInv
<1>. QED BY <1>1, RowsInvariant, PTL

\* Rows and checkpoints stay together when no two tasks share a thread.
LEMMA ThreadsInvariant ==
  ASSUME SeparateThreads
  PROVE  Spec => []ThreadInv
<1>1. Init => ThreadInv
  BY DEF Init, ThreadInv, OwnThread, CheckpointIsCurrent, SavedCall, TakenCall, CancelServed,
     AwaitInv, AwaitingHasCheckpoint, WithStatus, AbsentTask, NoJob
<1>2. IInv /\ ThreadInv /\ [Next]_vars => ThreadInv'
  BY ThreadStep DEF IInv
<1>. QED BY <1>1, <1>2, Invariance, PTL DEF Spec

\* With threads of their own, an approval runs the call of the task it names, from
\* that task's latest attempt (resume_task, resume), through crashes and exceptions.
THEOREM ApprovedCallIsOwn ==
  ASSUME SeparateThreads
  PROVE  Spec => []ApprovalRunsOwnCall
<1>1. ThreadInv => ApprovalRunsOwnCall
  BY DEF ThreadInv, TakenCall, ApprovalRunsOwnCall
<1>. QED BY <1>1, ThreadsInvariant, PTL

\* With threads of their own and no exception escaping a command, what a row says of
\* its task is so: a running one is executing, a waiting one has its call in store.
THEOREM RowsTellTheTruth ==
  ASSUME SeparateThreads, MaxFaults = 0
  PROVE  Spec => []RowsAreTrue
<1>1. IInv /\ RowInv /\ ThreadInv => RowsAreTrue
  <2>1. TypeOK => faults = 0
    BY DEF TypeOK
  <2>. QED BY <2>1 DEF IInv, RowInv, ThreadInv, AwaitInv, RowsAreTrue
<1>. QED BY <1>1, Invariance, RowsInvariant, ThreadsInvariant, PTL
==============================================================================
