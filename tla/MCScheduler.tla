----------------------------- MODULE MCScheduler -----------------------------
(* Small instances of Scheduler: which task may name which thread.          *)
EXTENDS Scheduler, TLC

CONSTANTS t1, t2, th1, th2

MCTasks == {t1, t2}
MCThreads == {th1, th2}

\* thread_id left out of the request: each task gets a thread of its own.
OwnThreads == (t1 :> {th1}) @@ (t2 :> {th2})
OneTask == {t1}
OneThread == t1 :> {th1}

\* thread_id given by the caller: any task may name any thread.
SharedThreads == [t \in MCTasks |-> MCThreads]

\* Submissions never stop, identifiers here do: while nobody holds or waits for the
\* lock, a finished task gives its identifier and its thread to one still to come.
\* Nothing dispatch or recovery does depends on a finished row.  The rows submitted
\* after it move up by one, so that `created` stays the order of submission.
Recycle(t) ==
  /\ mode = "up" /\ lock = <<>>
  /\ tasks[t].status \in TerminalStatus
  /\ tasks' = [u \in Tasks |->
                 IF u = t THEN AbsentTask(t)
                 ELSE [tasks[u] EXCEPT
                         !.created = IF @ > tasks[t].created THEN @ - 1 ELSE @]]
  /\ checkpoints' = [checkpoints EXCEPT ![tasks[t].thread] = NoCall]
  /\ executed' = {call \in executed : call[1] # t}
  /\ requeues' = [requeues EXCEPT ![t] = 0]
  /\ UNCHANGED <<snapshot, world, mode, lock, phase, job, request, bounds, acked>>

StreamNext == Next \/ \E t \in Tasks : Recycle(t)

\* An endless stream of submissions of every priority.
StreamSpec == Init /\ [][StreamNext]_vars /\ Fairness
==============================================================================
