------------------------------ MODULE TaskQueue ------------------------------
(***************************************************************************)
(* The persistent task table: rows of scheduled_tasks (core/tasks.py), the *)
(* order in which memory/task_queue.py serves them, and the whole-row      *)
(* writes it performs.  Operators only; Scheduler.tla owns the variable.   *)
(***************************************************************************)
EXTENDS Naturals, FiniteSets

CONSTANTS
  Tasks,       \* task identifiers (uuid4 in the code)
  Threads,     \* conversation threads, the key of a checkpoint
  ThreadsOf,   \* the threads a submission of a task may name
  Priorities,
  Limits       \* the max_attempts a submission may ask for

ASSUME QueueAssumption ==
  /\ IsFiniteSet(Tasks)
  /\ ThreadsOf \in [Tasks -> (SUBSET Threads) \ {{}}]
  /\ Priorities \subseteq Nat
  /\ Limits \subseteq Nat \ {0}

TaskStatus == {"queued", "running", "awaiting_confirmation", "paused",
               "completed", "failed", "cancelled"}

TerminalStatus == {"completed", "failed", "cancelled"}

\* A row that was never written is "absent"; rows are never deleted.
ScheduledTask ==
  [status: TaskStatus \union {"absent"}, attempts: Nat, limit: Nat,
   thread: Threads, priority: Nat, created: Nat]

AbsentTask(t) ==
  [status |-> "absent", attempts |-> 0, limit |-> 1,
   thread |-> CHOOSE th \in ThreadsOf[t] : TRUE, priority |-> 0, created |-> 0]

WithStatus(tasks, s) == {t \in Tasks : tasks[t].status = s}

\* Fault: the newest of a priority first.
ServedBefore_Newest(a, b) ==
  \/ a.priority > b.priority
  \/ a.priority = b.priority /\ a.created > b.created

\* sorted(key = (-priority, created_at, task_id)): created_at tells any two rows apart.
ServedBefore(a, b) ==
  \/ a.priority > b.priority
  \/ a.priority = b.priority /\ a.created < b.created

\* The rows list()[0] may be: one row, or none when nothing is queued.
NextQueued(tasks) ==
  {t \in WithStatus(tasks, "queued") :
     \A u \in WithStatus(tasks, "queued") \ {t} : ServedBefore(tasks[t], tasks[u])}

\* Fault: no default for a thread_id left out of the request.
Enqueued_NoThread(tasks, thread, priority, limit) ==
  [status |-> "queued", attempts |-> 0, limit |-> limit, thread |-> "null",
   priority |-> priority, created |-> Cardinality(Tasks \ WithStatus(tasks, "absent"))]

Enqueued(tasks, thread, priority, limit) ==
  [status |-> "queued", attempts |-> 0, limit |-> limit, thread |-> thread,
   priority |-> priority, created |-> Cardinality(Tasks \ WithStatus(tasks, "absent"))]

\* update(task, increment_attempts=True): the copy that is started.
Started(task) == [task EXCEPT !.status = "running", !.attempts = @ + 1]

\* update(task, status=...): everything else is rewritten from the copy.
Updated(task, status) == [task EXCEPT !.status = status]

\* Fault: a cancel that comes after the end rewrites the row.
Cancelled_Anyway(task) ==
  IF task.status = "absent" THEN task ELSE Updated(task, "cancelled")

\* cancel(): absent and terminal rows are left alone.
Cancelled(task) ==
  IF task.status \in TerminalStatus \union {"absent"}
  THEN task ELSE Updated(task, "cancelled")
=============================================================================
