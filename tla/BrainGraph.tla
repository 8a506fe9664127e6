----------------------------- MODULE BrainGraph ------------------------------
(***************************************************************************)
(* One command from the inside: the graph of orchestration/ (one action    *)
(* per node, edges from graph.py and router.py), DualSystem.decide, and    *)
(* AgentRuntime.run_command and resume around it.  The service lock admits *)
(* one command at a time (Scheduler.tla), so an emergency stop, a refresh  *)
(* of the world or a cancel falls between two commands.  The checkpoint of *)
(* one conversation thread is followed; Scheduler.tla has the others.      *)
(***************************************************************************)
EXTENDS SafetyLayer

CONSTANTS
  NoCall,
  Worlds,        \* per backend, the worlds perception may report
  Plans,         \* per backend, the call sequences the planner may return
  MaxIterations  \* settings.max_loop_iterations

ASSUME GraphAssumption ==
  /\ NoCall \notin Calls
  /\ Worlds \in [Backends -> SUBSET World]
  /\ Plans \in [Backends -> SUBSET Seq(Calls)]
  /\ MaxIterations \in Nat \ {0}

VARIABLES
  node,        \* the node that runs next, or "idle" between commands
  queue, call, \* GraphState: the rest of the plan, the current call
  iterations, status, lastResult,
  source,      \* decision_source of the last decision
  world,       \* context.world
  taskStatus,  \* world.current_task.status, "none" before the first command
  streak,      \* FastReflex._go2_error_streak
  pending,     \* the checkpoint of the thread
  result,      \* status of the last RunResult
  unseen       \* history: a skill ran and no observation followed

graph == <<backend, queue, call, iterations, status, lastResult, source>>
persistent == <<backend, world, taskStatus, pending>>
vars == <<backend, node, queue, call, iterations, status, lastResult, source, world,
          taskStatus, streak, pending, result, unseen>>

\* A skill runs: its action is decided and its effects are not observed yet.
Acting == node \in {"execute", "resume_execute"}

Init ==
  /\ node = "idle"
  /\ queue = <<>> /\ call = NoCall /\ iterations = 0
  /\ status = "" /\ lastResult = "none" /\ source = "none"
  /\ backend \in Backends
  /\ world \in Worlds[backend] /\ ~world.estop
  /\ taskStatus = "none" /\ streak = 0 /\ pending = NoCall /\ result = ""
  /\ unseen = FALSE

\* perception.observe and apply_observation: everything but the emergency stop; a Go2
\* state, once known, is replaced and never forgotten.
Observe(w) ==
  /\ w \in Worlds[backend] /\ w.estop = world.estop
  /\ w.self = NoSelf => world.self = NoSelf
  /\ world' = w
  /\ unseen' = FALSE
-----------------------------------------------------------------------------
(* run_command *)

RunCommand ==
  /\ node = "idle"
  /\ node' = "perceive"
  /\ queue' = <<>> /\ call' = NoCall /\ iterations' = 0
  /\ status' = "" /\ lastResult' = "none" /\ source' = "none"
  /\ result' = ""
  /\ UNCHANGED <<persistent, streak, unseen>>

Perceive(w) ==
  /\ node = "perceive"
  /\ Observe(w)
  /\ status' = "perceived"
  /\ node' = "decide"
  /\ UNCHANGED <<backend, queue, call, iterations, lastResult, source, taskStatus, streak,
                 pending, result>>

\* The planner is asked only when no reflex fires.
Decide(plan) ==
  LET errors == ErrorStreak(world, streak)
      skills == Reflex(world, taskStatus = "running", errors) IN
  /\ node = "decide"
  /\ plan \in Plans[backend]
  /\ streak' = errors
  /\ IF skills # <<>>
     THEN /\ queue' = [i \in 1..Len(skills) |-> [skill |-> skills[i], args |-> "inside"]]
          /\ source' = "fast"
     ELSE queue' = plan /\ source' = "slow"
  /\ status' = "decided"
  /\ taskStatus' = "running"
  /\ node' = "select_action"
  /\ UNCHANGED <<backend, call, iterations, lastResult, world, pending, result, unseen>>

TooManyIterations ==
  /\ node = "select_action"
  /\ iterations >= MaxIterations
  /\ call' = NoCall /\ status' = "failed"
  /\ node' = "finish"
  /\ UNCHANGED <<queue, iterations, lastResult, source, persistent, streak, result,
                 unseen>>

NextCall ==
  /\ node = "select_action"
  /\ iterations < MaxIterations
  /\ iterations' = iterations + 1
  /\ IF queue = <<>>
     THEN /\ call' = NoCall /\ status' = "completed" /\ node' = "finish"
          /\ UNCHANGED queue
     ELSE /\ call' = Head(queue) /\ queue' = Tail(queue) /\ node' = "validate"
          /\ UNCHANGED status
  /\ UNCHANGED <<lastResult, source, persistent, streak, result, unseen>>

Validate ==
  /\ node = "validate"
  /\ status' = Validation(call, world, FALSE)
  /\ node' = IF status' = "validated" THEN "execute" ELSE "finish"
  /\ UNCHANGED <<queue, call, iterations, lastResult, source, persistent, streak,
                 result, unseen>>

\* A Go2 skill gives up when its own look at the state is bad; any skill may fail.
\* ok stands for success and is_done.
SkillSucceeds(ok) == ok => (call.skill \in SelfChecked => FitToDrive(world))

Execute(ok) ==
  /\ node = "execute"
  /\ SkillSucceeds(ok)
  /\ lastResult' = IF ok THEN "success" ELSE "failure"
  /\ status' = "executed"
  /\ unseen' = TRUE
  /\ node' = "observe"
  /\ UNCHANGED <<queue, call, iterations, source, persistent, streak, result>>

\* Fault: the world is left as it was before the action.
ObserveResult_Skipped(w) ==
  /\ node = "observe"
  /\ status' = "perceived"
  /\ node' = "reflect"
  /\ UNCHANGED <<backend, queue, call, iterations, lastResult, source, world, taskStatus,
                 streak, pending, result, unseen>>

ObserveResult(w) ==
  /\ node = "observe"
  /\ Observe(w)
  /\ status' = "perceived"
  /\ node' = "reflect"
  /\ UNCHANGED <<backend, queue, call, iterations, lastResult, source, taskStatus, streak,
                 pending, result>>

\* Fault: a replan starts the count of iterations again.
Reflect_Recounts ==
  /\ node = "reflect"
  /\ IF lastResult = "failure"
     THEN queue' = <<>> /\ status' = "replan" /\ node' = "perceive" /\ iterations' = 0
     ELSE /\ status' = IF queue = <<>> THEN "completed" ELSE "ready"
          /\ node' = IF queue = <<>> THEN "finish" ELSE "select_action"
          /\ UNCHANGED <<queue, iterations>>
  /\ taskStatus' = IF lastResult = "failure" \/ queue # <<>> THEN "running" ELSE "completed"
  /\ UNCHANGED <<backend, call, lastResult, source, world, pending, streak, result, unseen>>

Reflect ==
  /\ node = "reflect"
  /\ IF lastResult = "failure"
     THEN queue' = <<>> /\ status' = "replan" /\ node' = "perceive"
     ELSE /\ status' = IF queue = <<>> THEN "completed" ELSE "ready"
          /\ node' = IF queue = <<>> THEN "finish" ELSE "select_action"
          /\ UNCHANGED queue
  /\ taskStatus' = IF lastResult = "failure" \/ queue # <<>> THEN "running" ELSE "completed"
  /\ UNCHANGED <<backend, call, iterations, lastResult, source, world, pending, streak, result,
                 unseen>>

\* finish, and the checkpoint run_command saves of what ainvoke returned.
Finish ==
  /\ node = "finish"
  /\ taskStatus' = CASE status = "awaiting_confirmation" -> "paused"
                     [] status \in {"blocked", "failed"} -> "failed"
                     [] OTHER -> taskStatus
  /\ IF status = "awaiting_confirmation"
     THEN pending' = call ELSE UNCHANGED pending
  /\ result' = status
  /\ node' = "idle"
  /\ UNCHANGED <<graph, world, streak, unseen>>
-----------------------------------------------------------------------------
(* resume *)

ResumeRefused(approved) ==
  /\ node = "idle"
  /\ pending = NoCall \/ ~approved
  /\ result' = IF pending = NoCall THEN "missing_checkpoint" ELSE "rejected"
  /\ taskStatus' = IF pending # NoCall /\ taskStatus # "none" THEN "failed" ELSE taskStatus
  /\ pending' = NoCall
  /\ UNCHANGED <<node, graph, world, streak, unseen>>

\* Fault: the checkpoint stays until the call has run.
ResumeApproved_Keeps ==
  /\ node = "idle" /\ pending # NoCall
  /\ call' = pending
  /\ result' = ""
  /\ node' = "resume_observe"
  /\ UNCHANGED <<backend, queue, iterations, status, lastResult, source, world, taskStatus,
                 pending, streak, unseen>>

ResumeApproved ==
  /\ node = "idle" /\ pending # NoCall
  /\ call' = pending /\ pending' = NoCall
  /\ result' = ""
  /\ node' = "resume_observe"
  /\ UNCHANGED <<backend, queue, iterations, status, lastResult, source, world, taskStatus,
                 streak, unseen>>

\* Fault: the approval is taken for a validation.
ResumeValidate_Trusts(w) ==
  /\ node = "resume_observe"
  /\ Observe(w)
  /\ node' = "resume_execute"
  /\ UNCHANGED <<graph, taskStatus, pending, streak, result>>

ResumeValidate(w) ==
  /\ node = "resume_observe"
  /\ Observe(w)
  /\ IF Validation(call, w, TRUE) = "validated"
     THEN node' = "resume_execute" /\ UNCHANGED result
     ELSE node' = "idle" /\ result' = "blocked"
  /\ UNCHANGED <<graph, taskStatus, pending, streak>>

ResumeExecute(ok) ==
  /\ node = "resume_execute"
  /\ SkillSucceeds(ok)
  /\ lastResult' = IF ok THEN "success" ELSE "failure"
  /\ unseen' = TRUE
  /\ node' = "resume_settle"
  /\ UNCHANGED <<queue, call, iterations, status, source, persistent, streak, result>>

ResumeSettle(w) ==
  /\ node = "resume_settle"
  /\ Observe(w)
  /\ result' = IF lastResult = "success" THEN "completed" ELSE "failed"
  /\ taskStatus' = IF taskStatus = "none" THEN "none" ELSE result'
  /\ node' = "idle"
  /\ UNCHANGED <<graph, pending, streak>>
-----------------------------------------------------------------------------
(* Between and across commands *)

\* perception, planner or skill raises: the exception leaves run_command or resume.
Raises ==
  /\ node \in {"perceive", "decide", "execute", "observe", "resume_observe",
               "resume_execute", "resume_settle"}
  /\ node' = "idle" /\ result' = "raised"
  /\ unseen' = (unseen \/ Acting)
  /\ UNCHANGED <<graph, persistent, streak>>

\* The process is restarted: every node saved the world, the streak is lost.
Restart ==
  /\ node' = "idle" /\ result' = "" /\ streak' = 0
  /\ queue' = <<>> /\ call' = NoCall /\ iterations' = 0
  /\ status' = "" /\ lastResult' = "none" /\ source' = "none"
  /\ unseen' = (unseen \/ Acting)
  /\ UNCHANGED persistent

\* EmergencyStop.activate and reset.
SetEstop(on) ==
  /\ node = "idle"
  /\ [world EXCEPT !.estop = on] \in Worlds[backend]
  /\ world' = [world EXCEPT !.estop = on]
  /\ UNCHANGED <<node, graph, taskStatus, pending, streak, result, unseen>>

RefreshWorld(w) ==
  /\ node = "idle"
  /\ Observe(w)
  /\ UNCHANGED <<node, graph, taskStatus, pending, streak, result>>

CancelPending ==
  /\ node = "idle"
  /\ pending' = NoCall
  /\ UNCHANGED <<node, graph, world, taskStatus, streak, result, unseen>>

GraphStep ==
  \/ \E w \in Worlds[backend] : Perceive(w) \/ ObserveResult(w) \/ ResumeValidate(w) \/ ResumeSettle(w)
  \/ \E plan \in Plans[backend] : Decide(plan)
  \/ TooManyIterations \/ NextCall \/ Validate \/ Reflect \/ Finish
  \/ \E ok \in BOOLEAN : Execute(ok) \/ ResumeExecute(ok)

Next ==
  \/ GraphStep
  \/ RunCommand
  \/ ResumeApproved \/ \E approved \in BOOLEAN : ResumeRefused(approved)
  \/ Raises \/ Restart
  \/ \E on \in BOOLEAN : SetEstop(on)
  \/ \E w \in Worlds[backend] : RefreshWorld(w)
  \/ CancelPending

Spec == Init /\ [][Next]_vars

(* A node that can run runs, and a command is awaited under the lock until   *)
(* it returns.  No node has a timeout: what bounds a planner or a skill is   *)
(* in it, and SkillRun shows that each returns.                              *)
FairSpec == Spec /\ WF_vars(GraphStep)
-----------------------------------------------------------------------------
TypeOK ==
  /\ node \in {"idle", "perceive", "decide", "select_action", "validate", "execute", "observe",
               "reflect", "finish", "resume_observe", "resume_execute", "resume_settle"}
  /\ queue \in Seq(Calls) /\ call \in Calls \union {NoCall}
  /\ iterations \in 0..MaxIterations
  /\ status \in {"", "perceived", "decided", "validated", "blocked", "awaiting_confirmation",
                 "executed", "replan", "ready", "completed", "failed"}
  /\ lastResult \in {"none", "success", "failure"}
  /\ source \in {"none", "fast", "slow"}
  /\ world \in World
  /\ taskStatus \in {"none", "running", "paused", "completed", "failed"}
  /\ streak \in 0..Debounce
  /\ pending \in Calls \union {NoCall}
  /\ result \in {"", "completed", "awaiting_confirmation", "failed", "blocked", "rejected",
                 "missing_checkpoint", "raised"}
  /\ unseen \in BOOLEAN /\ backend \in Backends

\* With the emergency stop on, nothing that moves the robot reaches its skill, the dock
\* included, which the validator lets through: the reflex never proposes it then, and
\* the stop cannot come in while a plan is under way.
StoppedDoesNotMove == Acting /\ world.estop => ~Moves(call.skill)

\* On a critical battery the only motion is the way to the dock, for migrated and
\* legacy skills alike, planned or resumed.
CriticalOnlyDocks ==
  Acting /\ world.battery = "critical" => ~Moves(call.skill) \/ call.skill = "dock"

\* On the real robot no motion starts from a plan alone: the metadata, the legacy
\* list and the hidden skills together leave no moving skill without a question.
UnitreeMotionIsApproved ==
  backend = "unitree" /\ node = "execute" => ~Moves(call.skill)

\* Planned or approved, no motion gets past the state it would be wrong in, nor, on
\* the real robot, past the operator.
MotionIsLegal == StoppedDoesNotMove /\ CriticalOnlyDocks /\ UnitreeMotionIsApproved

\* No action is chosen on a world older than the last action.
ObserveBeforeAct == Acting => ~unseen

Guarded == {c \in Calls : NeedsConfirmation(c.skill)}

Operator == INSTANCE ConfirmedAction
  WITH granted <- IF node = "resume_observe" THEN call ELSE NoCall,
       acting <- IF Acting THEN call ELSE NoCall

\* Asking, approving and acting follow the protocol an operator can rely on.
ActsAsConfirmed == Operator!Spec

\* Every command comes to an end, whatever fails and is planned again.
CommandEnds == node # "idle" ~> node = "idle"

=============================================================================
