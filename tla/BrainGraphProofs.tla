--------------------------- MODULE BrainGraphProofs ---------------------------
(***************************************************************************)
(* Proofs about BrainGraph for any worlds perception may report and any    *)
(* plans the planner may return: no motion that the state or the operator  *)
(* forbids, no action chosen on a world older than the last one, and the   *)
(* protocol of ConfirmedAction between question, approval and action.      *)
(***************************************************************************)
EXTENDS BrainGraph, TLAPS

\* A node that chooses or runs a skill comes after an observation.
SeenInv ==
  node \in {"decide", "select_action", "validate", "execute", "reflect", "resume_execute"} => ~unseen

\* The nodes that work through a plan.
Planned == node \in {"select_action", "validate", "execute", "observe", "reflect"}

\* The reflex took the plan's place when the stop was on, and it stays on until the end.
StopInv ==
  world.estop /\ Planned =>
    /\ \A i \in DOMAIN queue : queue[i].skill = "stop"
    /\ node \in {"validate", "execute"} => call.skill = "stop"

\* What the validator said of the current call still holds when the call runs.
CallInv ==
  /\ node \in {"validate", "execute"} => call \in Calls
  /\ node \in {"resume_observe", "resume_execute"} => call \in Guarded
  /\ Acting => Legal(call, world)
  /\ node = "execute" => ~NeedsConfirmation(call.skill)
  /\ node = "finish" => status \in {"completed", "failed", "blocked", "awaiting_confirmation"}
  /\ node = "finish" /\ status = "awaiting_confirmation" => call \in Guarded

\* Only guarded calls wait for an operator.
PendingInv == pending # NoCall => pending \in Guarded

GraphInv == TypeOK /\ SeenInv /\ StopInv /\ CallInv /\ PendingInv
-----------------------------------------------------------------------------
(* The operators of SafetyLayer.                                             *)

\* The smallest number of a set is in it.
LEMMA MinIsMember ==
  ASSUME NEW S \in SUBSET (1..7), S # {}
  PROVE  Min(S) \in S
<1>1. \E m \in S : \A y \in S : m <= y
  <2>. S \subseteq {1, 2, 3, 4, 5, 6, 7}
    OBVIOUS
  <2>1. CASE 1 \in S
    <3>1. \A y \in S : 1 <= y
      OBVIOUS
    <3>. QED BY <2>1, <3>1
  <2>2. CASE 1 \notin S /\ 2 \in S
    <3>1. \A y \in S : 2 <= y
      BY <2>2
    <3>. QED BY <2>2, <3>1
  <2>3. CASE 1 \notin S /\ 2 \notin S /\ 3 \in S
    <3>1. \A y \in S : 3 <= y
      BY <2>3
    <3>. QED BY <2>3, <3>1
  <2>4. CASE 1 \notin S /\ 2 \notin S /\ 3 \notin S /\ 4 \in S
    <3>1. \A y \in S : 4 <= y
      BY <2>4
    <3>. QED BY <2>4, <3>1
  <2>5. CASE 1 \notin S /\ 2 \notin S /\ 3 \notin S /\ 4 \notin S /\ 5 \in S
    <3>1. \A y \in S : 5 <= y
      BY <2>5
    <3>. QED BY <2>5, <3>1
  <2>6. CASE S \subseteq {6, 7} /\ 6 \in S
    <3>1. \A y \in S : 6 <= y
      BY <2>6
    <3>. QED BY <2>6, <3>1
  <2>7. CASE S = {7}
    BY <2>7
  <2>. QED BY <2>1, <2>2, <2>3, <2>4, <2>5, <2>6, <2>7
<1>. QED BY <1>1, Zenon DEF Min

\* The skill catalogue, row by row.
LEMMA Catalogue ==
  /\ Migrated = {"stop", "nudge", "nav_cancel", "nav_go_relative", "nav_go_to_pose", "nav_relocalize"}
  /\ Metadata["stop"].motion = "stop" /\ Metadata["nav_cancel"].motion = "stop"
  /\ Metadata["nudge"].motion = "linear" /\ Metadata["nav_go_relative"].motion = "linear"
  /\ Metadata["nav_go_to_pose"].motion = "linear" /\ Metadata["nav_relocalize"].motion = "none"
  /\ \A s \in Migrated : Metadata[s].risk # "read_only"
  /\ Metadata["nudge"].confirm /\ Metadata["nav_go_relative"].confirm
  /\ Metadata["nav_go_to_pose"].confirm
<1>1. Migrated = {"stop", "nudge", "nav_cancel", "nav_go_relative", "nav_go_to_pose", "nav_relocalize"}
  BY DEF Migrated, Metadata
<1>. QED BY <1>1 DEF Metadata

\* A legal call does not move the robot while it is stopped, the dock excepted.
LEMMA LegalWhenStopped ==
  ASSUME NEW c \in Calls, NEW w \in World, Legal(c, w), w.estop
  PROVE  ~Moves(c.skill) \/ c.skill = "dock"
<1>1. CASE c.skill \in Migrated
  BY <1>1, Catalogue DEF Legal, StateAllows, PolicyAllows, Moves
<1>2. CASE c.skill \notin Migrated
  BY <1>2, Catalogue DEF Legal, StateAllows, AlwaysAllowed, Moves
<1>. QED BY <1>1, <1>2

\* With a critical battery a legal call does not move the robot, but to the dock.
LEMMA LegalWhenCritical ==
  ASSUME NEW c \in Calls, NEW w \in World, Legal(c, w), w.battery = "critical"
  PROVE  ~Moves(c.skill) \/ c.skill = "dock"
<1>1. CASE c.skill \in Migrated
  BY <1>1, Catalogue DEF Legal, StateAllows, PolicyAllows, Moves
<1>2. CASE c.skill \notin Migrated
  BY <1>2, Catalogue DEF Legal, StateAllows, AlwaysAllowed, Moves
<1>. QED BY <1>1, <1>2

\* On the real robot what moves is hidden or has to be confirmed.
LEMMA FreeDoesNotMove ==
  ASSUME NEW c \in Calls, NEW w \in World, Legal(c, w), backend = "unitree", ~NeedsConfirmation(c.skill)
  PROVE  ~Moves(c.skill)
<1>1. CASE c.skill \in Migrated
  BY <1>1, Catalogue DEF NeedsConfirmation, Moves
<1>2. CASE c.skill \notin Migrated
  <2>1. c.skill \in Legacy
    BY <1>2 DEF Calls, Skills
  <2>. QED
    BY <1>2, <2>1 DEF Legal, BackendAllows, UnitreeHidden, NeedsConfirmation,
       RequireConfirmationFor,
                      Legacy, Moves
<1>. QED BY <1>1, <1>2

\* The dock is not confirmed, so no operator is asked for it.
LEMMA DockIsFree == ~NeedsConfirmation("dock")
BY Catalogue DEF NeedsConfirmation, RequireConfirmationFor

\* What passes the safety layer is legal, and confirmed where it must be.
LEMMA ValidationShape ==
  ASSUME NEW c, NEW w, NEW granted \in BOOLEAN
  PROVE  /\ Validation(c, w, granted) \in {"blocked", "awaiting_confirmation", "validated"}
         /\ Validation(c, w, granted) = "validated" => Legal(c, w) /\ (NeedsConfirmation(c.skill) => granted)
         /\ Validation(c, w, granted) = "awaiting_confirmation" => NeedsConfirmation(c.skill)
BY DEF Validation

\* What a reflex proposes.
Reflexes == {<<>>, <<"stop">>, <<"report">>, <<"dock">>, <<"stop", "report">>}

\* The reflex is one of those of the rules.
LEMMA FirstFiredShape ==
  ASSUME NEW rules, DOMAIN rules \in SUBSET (1..7), \A i \in DOMAIN rules : rules[i].then \in Reflexes
  PROVE  FirstFired(rules) \in Reflexes
<1>. DEFINE fired == {i \in DOMAIN rules : rules[i].when}
<1>1. fired \in SUBSET (1..7)
  OBVIOUS
<1>2. CASE fired = {}
  BY <1>2 DEF FirstFired, Reflexes
<1>3. CASE fired # {}
  <2>1. Min(fired) \in fired
    BY <1>1, <1>3, MinIsMember
  <2>2. FirstFired(rules) = rules[Min(fired)].then
    BY <1>3 DEF FirstFired
  <2>. QED BY <2>1, <2>2
<1>. QED BY <1>2, <1>3

\* An emergency stop has its reflex, whatever else is wrong.
LEMMA ReflexShape ==
  ASSUME NEW w, NEW running, NEW errors
  PROVE  /\ Reflex(w, running, errors) \in Reflexes
         /\ w.estop => Reflex(w, running, errors) = <<"stop">>
<1>1. Go2Reflex(w, running, errors) \in Reflexes
  BY FirstFiredShape DEF Go2Reflex, Rule, Reflexes
<1>2. UnitreeReflex(w) \in Reflexes
  BY FirstFiredShape DEF UnitreeReflex, Rule, Reflexes
<1>3. MockReflex(w) \in Reflexes
  BY FirstFiredShape DEF MockReflex, Rule, Reflexes
<1>4. CASE w.estop
  <2>1. Reflex(w, running, errors) = <<"stop">>
    BY <1>4, Zenon DEF Reflex
  <2>. QED BY <2>1 DEF Reflexes
<1>5. CASE ~w.estop /\ w.self # NoSelf
  <2>1. Reflex(w, running, errors) = Go2Reflex(w, running, errors)
    BY <1>5, Zenon DEF Reflex
  <2>. QED BY <1>1, <1>5, <2>1
<1>6. CASE ~w.estop /\ w.self = NoSelf /\ backend = "unitree"
  <2>1. Reflex(w, running, errors) = UnitreeReflex(w)
    BY <1>6, Zenon DEF Reflex
  <2>. QED BY <1>2, <1>6, <2>1
<1>7. CASE ~w.estop /\ w.self = NoSelf /\ backend # "unitree"
  <2>1. Reflex(w, running, errors) = MockReflex(w)
    BY <1>7, Zenon DEF Reflex
  <2>. QED BY <1>3, <1>7, <2>1
<1>. QED BY <1>4, <1>5, <1>6, <1>7

\* The count of errors stays within the debounce.
LEMMA StreakShape ==
  ASSUME NEW w, NEW n \in 0..Debounce
  PROVE  ErrorStreak(w, n) \in 0..Debounce
<1>1. Debounce \in Nat /\ Debounce # 0 /\ 0 \in 0..Debounce
  BY SafetyAssumption
<1>2. /\ Min({n + 1, Debounce}) \in {n + 1, Debounce}
      /\ \A y \in {n + 1, Debounce} : Min({n + 1, Debounce}) <= y
  <2>1. \E m \in {n + 1, Debounce} : \A y \in {n + 1, Debounce} : m <= y
    BY <1>1
  <2>. QED BY <2>1, Zenon DEF Min
<1>3. Min({n + 1, Debounce}) \in 0..Debounce
  BY <1>1, <1>2
<1>. QED BY <1>1, <1>3 DEF ErrorStreak

-----------------------------------------------------------------------------
(* The invariant, step by step.                                              *)

\* Worlds and plans of a backend are of their types.
LEMMA WorldsAreWorlds ==
  ASSUME backend \in Backends
  PROVE  Worlds[backend] \subseteq World /\ Plans[backend] \subseteq Seq(Calls)
<1>1. Worlds \in [Backends -> SUBSET World] /\ Plans \in [Backends -> SUBSET Seq(Calls)]
  BY GraphAssumption
<1>. QED BY <1>1

\* What the counters start with.
LEMMA Zeros == 0 \in 0..MaxIterations /\ 0 \in 0..Debounce /\ MaxIterations \in Nat /\ <<>> \in Seq(Calls)
<1>1. MaxIterations \in Nat /\ Debounce \in Nat
  BY GraphAssumption, SafetyAssumption
<1>2. 0 \in 0..MaxIterations /\ 0 \in 0..Debounce
  BY <1>1
<1>. QED BY <1>1, <1>2

\* A world is a record, so its stop can be looked at once it is set.
LEMMA StopShape ==
  ASSUME NEW w \in World, NEW on \in BOOLEAN
  PROVE  [w EXCEPT !.estop = on].estop = on
BY DEF World

\* The calls a reflex makes.
CallsFor(skills) == [i \in 1..Len(skills) |-> [skill |-> skills[i], args |-> "inside"]]

\* A reflex becomes a list of calls, of stop alone after an emergency stop.
LEMMA ReflexCalls ==
  ASSUME NEW skills \in Reflexes
  PROVE  /\ CallsFor(skills) \in Seq(Calls)
         /\ skills = <<"stop">> => \A i \in DOMAIN CallsFor(skills) : CallsFor(skills)[i].skill = "stop"
<1>1. {"stop", "report", "dock"} \subseteq Skills
  BY Catalogue DEF Skills, Legacy
<1>2. Len(skills) \in Nat /\ \A i \in 1..Len(skills) : skills[i] \in {"stop", "report", "dock"}
  BY DEF Reflexes
<1>3. \A i \in 1..Len(skills) : [skill |-> skills[i], args |-> "inside"] \in Calls
  BY <1>1, <1>2 DEF Calls
<1>4. CallsFor(skills) \in Seq(Calls)
  BY <1>2, <1>3 DEF CallsFor
<1>5. ASSUME skills = <<"stop">>, NEW i \in DOMAIN CallsFor(skills)
      PROVE  CallsFor(skills)[i].skill = "stop"
  BY <1>5 DEF CallsFor
<1>. QED BY <1>4, <1>5

\* The type invariant in parts: the words of the graph, its plan, and the world.
WordsType ==
  /\ node \in {"idle", "perceive", "decide", "select_action", "validate", "execute", "observe",
               "reflect", "finish", "resume_observe", "resume_execute", "resume_settle"}
  /\ status \in {"", "perceived", "decided", "validated", "blocked", "awaiting_confirmation",
                 "executed", "replan", "ready", "completed", "failed"}
  /\ lastResult \in {"none", "success", "failure"}
  /\ source \in {"none", "fast", "slow"}
  /\ taskStatus \in {"none", "running", "paused", "completed", "failed"}
  /\ result \in {"", "completed", "awaiting_confirmation", "failed", "blocked", "rejected",
                 "missing_checkpoint", "raised"}
PlanType == queue \in Seq(Calls) /\ call \in Calls \union {NoCall} /\ iterations \in 0..MaxIterations
WorldType ==
  /\ world \in World /\ streak \in 0..Debounce /\ pending \in Calls \union {NoCall}
  /\ unseen \in BOOLEAN /\ backend \in Backends

\* The type invariant in the parts that steps keep together.
LEMMA Types ==
  /\ TypeOK <=> WordsType /\ PlanType /\ WorldType
  /\ TypeOK' <=> WordsType' /\ PlanType' /\ WorldType'
BY DEF TypeOK, WordsType, PlanType, WorldType

\* Every node keeps the types of status, result and task.
LEMMA WordsKeep ==
  ASSUME WordsType, CallInv, Next
  PROVE  WordsType'
<1>. USE DEF WordsType
<1>1. ASSUME NEW w, Perceive(w) \/ ObserveResult(w) \/ ResumeValidate(w) \/ ResumeSettle(w) \/ RefreshWorld(w)
      PROVE  WordsType'
  BY <1>1 DEF Perceive, ObserveResult, ResumeValidate, ResumeSettle, RefreshWorld, graph
<1>2. ASSUME NEW plan, Decide(plan) PROVE WordsType'
  <2>1. source' \in {"none", "fast", "slow"}
    BY <1>2 DEF Decide
  <2>. QED BY <1>2, <2>1 DEF Decide
<1>3. CASE TooManyIterations \/ NextCall \/ Reflect \/ RunCommand
  BY <1>3 DEF TooManyIterations, NextCall, Reflect, RunCommand, persistent
<1>4. CASE Validate
  <2>1. status' \in {"blocked", "awaiting_confirmation", "validated"}
    BY <1>4, ValidationShape DEF Validate
  <2>. QED BY <1>4, <2>1 DEF Validate, persistent
<1>5. CASE Finish
  <2>1. taskStatus' \in {"none", "running", "paused", "completed", "failed"}
    <3>1. taskStatus' \in {"paused", "failed", taskStatus}
      BY <1>5, Zenon DEF Finish
    <3>. QED BY <3>1
  <2>2. result' \in {"completed", "awaiting_confirmation", "failed", "blocked"}
    BY <1>5 DEF Finish, CallInv
  <2>. QED BY <1>5, <2>1, <2>2 DEF Finish, graph
<1>6. ASSUME NEW ok, Execute(ok) \/ ResumeExecute(ok) PROVE WordsType'
  BY <1>6 DEF Execute, ResumeExecute, persistent
<1>7. ASSUME NEW approved, ResumeRefused(approved) PROVE WordsType'
  BY <1>7 DEF ResumeRefused, graph
<1>8. CASE ResumeApproved \/ Raises \/ Restart \/ CancelPending
  BY <1>8 DEF ResumeApproved, Raises, Restart, CancelPending, graph, persistent
<1>9. ASSUME NEW on, SetEstop(on) PROVE WordsType'
  BY <1>9 DEF SetEstop, graph
<1>. QED BY <1>1, <1>2, <1>3, <1>4, <1>5, <1>6, <1>7, <1>8, <1>9 DEF Next, GraphStep

\* What the steps that neither plan nor take up a call leave alone.
LEMMA PlanKeeps ==
  ASSUME PlanType, WorldType, Next
  PROVE  PlanType'
<1>1. ASSUME NEW w, Perceive(w) \/ ObserveResult(w) \/ ResumeValidate(w) \/ ResumeSettle(w) \/ RefreshWorld(w)
      PROVE  PlanType'
  BY <1>1 DEF Perceive, ObserveResult, ResumeValidate, ResumeSettle, RefreshWorld, graph,
     PlanType
<1>2. ASSUME NEW plan \in Plans[backend], Decide(plan) PROVE PlanType'
  <2>1. UNCHANGED <<call, iterations>> /\ plan \in Seq(Calls)
    BY <1>2, WorldsAreWorlds DEF Decide, WorldType
  <2>2. PICK skills \in Reflexes : queue' \in {CallsFor(skills), plan}
    BY <1>2, ReflexShape DEF Decide, CallsFor
  <2>3. queue' \in Seq(Calls)
    BY <2>1, <2>2, ReflexCalls
  <2>. QED BY <2>1, <2>3 DEF PlanType
<1>3. CASE TooManyIterations \/ Validate \/ Finish \/ Raises \/ CancelPending
  BY <1>3 DEF TooManyIterations, Validate, Finish, Raises, CancelPending, graph, persistent,
     PlanType
<1>4. CASE NextCall
  <2>1. iterations' \in 0..MaxIterations
    BY <1>4, Zeros DEF NextCall, PlanType
  <2>2. queue' \in Seq(Calls) /\ call' \in Calls \union {NoCall}
    BY <1>4 DEF NextCall, PlanType
  <2>. QED BY <2>1, <2>2 DEF PlanType
<1>5. CASE Reflect \/ RunCommand \/ Restart
  BY <1>5, Zeros DEF Reflect, RunCommand, Restart, PlanType
<1>6. ASSUME NEW ok, Execute(ok) \/ ResumeExecute(ok) PROVE PlanType'
  BY <1>6 DEF Execute, ResumeExecute, PlanType
<1>7. ASSUME NEW approved, ResumeRefused(approved) PROVE PlanType'
  BY <1>7 DEF ResumeRefused, graph, PlanType
<1>8. CASE ResumeApproved
  BY <1>8 DEF ResumeApproved, PlanType, WorldType
<1>9. ASSUME NEW on, SetEstop(on) PROVE PlanType'
  BY <1>9 DEF SetEstop, graph, PlanType
<1>. QED BY <1>1, <1>2, <1>3, <1>4, <1>5, <1>6, <1>7, <1>8, <1>9 DEF Next, GraphStep

\* Every node keeps the types of what is seen and counted.
LEMMA WorldKeeps ==
  ASSUME WorldType, PlanType, Next
  PROVE  WorldType'
<1>1. ASSUME NEW w \in Worlds[backend],
             Perceive(w) \/ ObserveResult(w) \/ ResumeValidate(w) \/ ResumeSettle(w) \/ RefreshWorld(w)
      PROVE  WorldType'
  BY <1>1, WorldsAreWorlds
     DEF Perceive, ObserveResult, ResumeValidate, ResumeSettle, RefreshWorld, Observe,
        graph, WorldType
<1>2. ASSUME NEW plan, Decide(plan) PROVE WorldType'
  <2>1. streak' \in 0..Debounce
    BY <1>2, StreakShape DEF Decide, WorldType
  <2>. QED BY <1>2, <2>1 DEF Decide, WorldType
<1>3. CASE TooManyIterations \/ NextCall \/ Validate \/ Reflect \/ RunCommand
  BY <1>3 DEF TooManyIterations, NextCall, Validate, Reflect, RunCommand, persistent,
     WorldType
<1>4. CASE Finish \/ ResumeApproved \/ CancelPending
  BY <1>4 DEF Finish, ResumeApproved, CancelPending, graph, PlanType, WorldType
<1>5. ASSUME NEW ok, Execute(ok) \/ ResumeExecute(ok) PROVE WorldType'
  BY <1>5 DEF Execute, ResumeExecute, persistent, WorldType
<1>6. ASSUME NEW approved, ResumeRefused(approved) PROVE WorldType'
  BY <1>6 DEF ResumeRefused, graph, WorldType
<1>7. CASE Raises \/ Restart
  <2>1. unseen' \in BOOLEAN
    BY <1>7 DEF Raises, Restart, Acting, WorldType
  <2>. QED BY <1>7, <2>1, Zeros DEF Raises, Restart, graph, persistent, WorldType
<1>8. ASSUME NEW on, SetEstop(on) PROVE WorldType'
  BY <1>8, WorldsAreWorlds DEF SetEstop, graph, WorldType
<1>. QED BY <1>1, <1>2, <1>3, <1>4, <1>5, <1>6, <1>7, <1>8 DEF Next, GraphStep

\* What chooses or runs a skill comes after an observation.
LEMMA SeenKeeps ==
  ASSUME SeenInv, Next
  PROVE  SeenInv'
<1>. USE DEF SeenInv
<1>1. ASSUME NEW w, Perceive(w) \/ ObserveResult(w) \/ ResumeValidate(w) \/ ResumeSettle(w) \/ RefreshWorld(w)
      PROVE  SeenInv'
  BY <1>1 DEF Perceive, ObserveResult, ResumeValidate, ResumeSettle, RefreshWorld, Observe
<1>2. ASSUME NEW plan, Decide(plan) PROVE SeenInv'
  BY <1>2 DEF Decide
<1>3. CASE TooManyIterations \/ NextCall \/ Validate \/ Reflect \/ RunCommand
  BY <1>3 DEF TooManyIterations, NextCall, Validate, Reflect, RunCommand
<1>4. CASE Finish \/ ResumeApproved \/ CancelPending \/ Raises \/ Restart
  BY <1>4 DEF Finish, ResumeApproved, CancelPending, Raises, Restart
<1>5. ASSUME NEW ok, Execute(ok) \/ ResumeExecute(ok) PROVE SeenInv'
  BY <1>5 DEF Execute, ResumeExecute
<1>6. ASSUME NEW approved, ResumeRefused(approved) PROVE SeenInv'
  BY <1>6 DEF ResumeRefused
<1>7. ASSUME NEW on, SetEstop(on) PROVE SeenInv'
  BY <1>7 DEF SetEstop
<1>. QED BY <1>1, <1>2, <1>3, <1>4, <1>5, <1>6, <1>7 DEF Next, GraphStep

\* After an emergency stop only stop is called.
LEMMA StopKeeps ==
  ASSUME StopInv, PlanType, Next
  PROVE  StopInv'
<1>. USE DEF Planned, StopInv
<1>1. ASSUME NEW w, Perceive(w) \/ ObserveResult(w) \/ ResumeValidate(w) \/ ResumeSettle(w) \/ RefreshWorld(w)
      PROVE  StopInv'
  BY <1>1 DEF Perceive, ObserveResult, ResumeValidate, ResumeSettle, RefreshWorld, Observe
<1>2. ASSUME NEW plan, Decide(plan) PROVE StopInv'
  <2>. SUFFICES ASSUME world.estop PROVE \A i \in DOMAIN queue' : queue'[i].skill = "stop"
    BY <1>2 DEF Decide
  <2>1. <<"stop">> # <<>> /\ <<"stop">> \in Reflexes
    BY DEF Reflexes
  <2>2. queue' = CallsFor(<<"stop">>)
    BY <1>2, <2>1, ReflexShape DEF Decide, CallsFor
  <2>. QED BY <2>1, <2>2, ReflexCalls
<1>3. CASE NextCall
  <2>. SUFFICES ASSUME world.estop, queue # <<>>, call' = Head(queue), queue' = Tail(queue)
                PROVE  call'.skill = "stop" /\ \A i \in DOMAIN queue' : queue'[i].skill = "stop"
    BY <1>3 DEF NextCall, persistent
  <2>1. queue \in Seq(Calls) /\ \A i \in DOMAIN queue : queue[i].skill = "stop"
    BY <1>3 DEF NextCall, PlanType
  <2>2. 1 \in DOMAIN queue /\ Head(queue) = queue[1]
    BY <2>1
  <2>3. \A i \in DOMAIN Tail(queue) : i + 1 \in DOMAIN queue /\ Tail(queue)[i] = queue[i + 1]
    BY <2>1
  <2>. QED BY <2>1, <2>2, <2>3
<1>4. CASE Reflect
  BY <1>4 DEF Reflect
<1>5. CASE TooManyIterations \/ Validate \/ RunCommand \/ Finish
  BY <1>5 DEF TooManyIterations, Validate, RunCommand, Finish, persistent, graph
<1>6. CASE ResumeApproved \/ CancelPending \/ Raises \/ Restart
  BY <1>6 DEF ResumeApproved, CancelPending, Raises, Restart
<1>7. ASSUME NEW ok, Execute(ok) \/ ResumeExecute(ok) PROVE StopInv'
  BY <1>7 DEF Execute, ResumeExecute, persistent
<1>8. ASSUME NEW approved, ResumeRefused(approved) PROVE StopInv'
  BY <1>8 DEF ResumeRefused
<1>9. ASSUME NEW on, SetEstop(on) PROVE StopInv'
  BY <1>9 DEF SetEstop
<1>. QED BY <1>1, <1>2, <1>3, <1>4, <1>5, <1>6, <1>7, <1>8, <1>9 DEF Next, GraphStep

\* Legal reads nothing but the call, the world and the backend.
LEMMA LegalNext ==
  ASSUME NEW w, UNCHANGED <<backend, call>>, world' = w, Legal(call, w)
  PROVE  Legal(call, world)'
BY DEF Legal, BackendAllows, StateAllows, PolicyAllows, Preconditions, RangeAllows

\* The calls that an operator has to confirm.
LEMMA GuardedShape ==
  ASSUME NEW c
  PROVE  c \in Guarded <=> c \in Calls /\ NeedsConfirmation(c.skill)
BY DEF Guarded

\* Which calls are guarded never changes.
LEMMA GuardedStays ==
  ASSUME NEW c
  PROVE  /\ Guarded' = Guarded
         /\ NeedsConfirmation(c.skill)' <=> NeedsConfirmation(c.skill)
BY DEF Guarded, NeedsConfirmation, Metadata, Migrated, RequireConfirmationFor

\* The call that acts was validated in the world that the graph has seen.
LEMMA CallKeeps ==
  ASSUME CallInv, PendingInv, PlanType, Next
  PROVE  CallInv'
<1>. USE DEF CallInv, Acting
<1>0. Guarded' = Guarded
  BY GuardedStays
<1>1. ASSUME NEW w, Perceive(w) \/ ObserveResult(w) \/ ResumeSettle(w) \/ RefreshWorld(w) PROVE CallInv'
  BY <1>1 DEF Perceive, ObserveResult, ResumeSettle, RefreshWorld
<1>2. ASSUME NEW w, ResumeValidate(w) PROVE CallInv'
  <2>1. CASE Validation(call, w, TRUE) = "validated"
    <3>1. Legal(call, w)
      BY <2>1, ValidationShape
    <3>2. node' = "resume_execute" /\ call' = call /\ call \in Guarded
      BY <1>2, <2>1 DEF ResumeValidate, graph
    <3>3. Legal(call, world)'
      BY <1>2, <3>1, LegalNext DEF ResumeValidate, Observe, graph
    <3>. QED BY <1>0, <3>2, <3>3
  <2>2. CASE Validation(call, w, TRUE) # "validated"
    BY <1>2, <2>2 DEF ResumeValidate
  <2>. QED BY <2>1, <2>2
<1>3. ASSUME NEW plan, Decide(plan) PROVE CallInv'
  BY <1>3 DEF Decide
<1>4. CASE TooManyIterations
  BY <1>4 DEF TooManyIterations
<1>5. CASE NextCall
  <2>1. queue # <<>> => Head(queue) \in Calls
    BY DEF PlanType
  <2>. QED BY <1>5, <2>1 DEF NextCall
<1>6. CASE Validate
  <2>1. UNCHANGED <<backend, call, world>> /\ call \in Calls /\ status' = Validation(call, world, FALSE)
    BY <1>6 DEF Validate, persistent
  <2>2. CASE status' = "validated"
    <3>1. Legal(call, world) /\ ~NeedsConfirmation(call.skill)
      BY <2>1, <2>2, ValidationShape
    <3>2. Legal(call, world)'
      BY <2>1, <3>1, LegalNext
    <3>3. ~NeedsConfirmation(call.skill)'
      BY <2>1, <3>1 DEF NeedsConfirmation, Metadata, Migrated, RequireConfirmationFor
    <3>4. node' = "execute"
      BY <1>6, <2>2 DEF Validate
    <3>. QED BY <2>1, <3>2, <3>3, <3>4
  <2>3. CASE status' # "validated"
    <3>1. node' = "finish" /\ status' \in {"blocked", "awaiting_confirmation"}
      BY <1>6, <2>1, <2>3, ValidationShape DEF Validate
    <3>2. status' = "awaiting_confirmation" => call \in Guarded
      BY <2>1, ValidationShape, GuardedShape
    <3>. QED BY <1>0, <2>1, <3>1, <3>2
  <2>. QED BY <2>2, <2>3
<1>7. CASE Reflect \/ RunCommand \/ Finish
  BY <1>7 DEF Reflect, RunCommand, Finish
<1>8. CASE ResumeApproved
  BY <1>0, <1>8 DEF ResumeApproved, PendingInv
<1>9. CASE CancelPending \/ Raises \/ Restart
  BY <1>9 DEF CancelPending, Raises, Restart
<1>10. ASSUME NEW ok, Execute(ok) \/ ResumeExecute(ok) PROVE CallInv'
  BY <1>10 DEF Execute, ResumeExecute
<1>11. ASSUME NEW approved, ResumeRefused(approved) PROVE CallInv'
  BY <1>11 DEF ResumeRefused
<1>12. ASSUME NEW on, SetEstop(on) PROVE CallInv'
  BY <1>12 DEF SetEstop
<1>. QED
  BY <1>1, <1>2, <1>3, <1>4, <1>5, <1>6, <1>7, <1>8, <1>9, <1>10, <1>11, <1>12 DEF Next,
     GraphStep

\* A call that waits for its confirmation is one that needs it.
LEMMA PendingKeeps ==
  ASSUME PendingInv, CallInv, Next
  PROVE  PendingInv'
<1>. USE DEF PendingInv
<1>0. Guarded' = Guarded
  BY GuardedStays
<1>1. CASE pending' \in {pending, NoCall}
  BY <1>0, <1>1
<1>2. CASE Finish
  BY <1>0, <1>2 DEF Finish, CallInv
<1>3. ~Finish => pending' \in {pending, NoCall}
  BY DEF Next, GraphStep, Perceive, ObserveResult, ResumeValidate, ResumeSettle,
     RefreshWorld, Decide,
         TooManyIterations, NextCall, Validate, Reflect, RunCommand, ResumeApproved, CancelPending,
         Raises, Restart, Execute, ResumeExecute, ResumeRefused, SetEstop, persistent
<1>. QED BY <1>1, <1>2, <1>3

-----------------------------------------------------------------------------
(* The theorems.                                                             *)

\* A node that changes none of the words keeps their types.
LEMMA SameWords ==
  ASSUME WordsType, UNCHANGED node, UNCHANGED status, UNCHANGED lastResult, UNCHANGED source,
         UNCHANGED taskStatus, UNCHANGED result
  PROVE  WordsType'
<1>1. node' \in {"idle", "perceive", "decide", "select_action", "validate", "execute", "observe",
                "reflect", "finish", "resume_observe", "resume_execute", "resume_settle"}
  BY DEF WordsType
<1>2. status' \in {"", "perceived", "decided", "validated", "blocked", "awaiting_confirmation",
                  "executed", "replan", "ready", "completed", "failed"}
  BY DEF WordsType
<1>3. result' \in {"", "completed", "awaiting_confirmation", "failed", "blocked", "rejected",
                  "missing_checkpoint", "raised"}
  BY DEF WordsType
<1>. QED BY <1>1, <1>2, <1>3 DEF WordsType

\* A graph that has not started has done nothing yet.
LEMMA GraphInitInv == Init => GraphInv
<1>. SUFFICES ASSUME Init PROVE GraphInv
  OBVIOUS
<1>1. WordsType
  BY DEF Init, WordsType
<1>2. PlanType
  BY Zeros DEF Init, PlanType
<1>3. WorldType
  BY Zeros, WorldsAreWorlds DEF Init, WorldType
<1>4. SeenInv /\ StopInv /\ CallInv /\ PendingInv
  BY DEF Init, SeenInv, StopInv, Planned, CallInv, Acting, PendingInv
<1>. QED BY <1>1, <1>2, <1>3, <1>4, Types DEF GraphInv

\* Every node keeps the invariant.
LEMMA GraphNextInv ==
  ASSUME GraphInv, [Next]_vars
  PROVE  GraphInv'
<1>1. CASE Next
  BY <1>1, WordsKeep, PlanKeeps, WorldKeeps, SeenKeeps, StopKeeps, CallKeeps, PendingKeeps,
     Types
     DEF GraphInv
<1>2. CASE UNCHANGED vars
  <2>1. UNCHANGED <<backend, node, queue, call, iterations, status, lastResult, source, world,
                    taskStatus, streak, pending, result, unseen>>
    BY <1>2 DEF vars
  <2>2. WordsType' /\ PlanType' /\ WorldType'
    <3>1. WordsType /\ PlanType /\ WorldType
      BY Types DEF GraphInv
    <3>2. WordsType'
      BY <2>1, <3>1, SameWords
    <3>3. PlanType'
      BY <2>1, <3>1 DEF PlanType
    <3>4. WorldType'
      BY <2>1, <3>1 DEF WorldType
    <3>. QED BY <3>2, <3>3, <3>4
  <2>3. SeenInv' /\ StopInv' /\ PendingInv'
    BY <2>1, GuardedStays DEF GraphInv, SeenInv, StopInv, Planned, PendingInv
  <2>4. CallInv'
    <3>1. Acting => Legal(call, world)'
      BY <2>1, LegalNext DEF GraphInv, CallInv
    <3>2. NeedsConfirmation(call.skill)' <=> NeedsConfirmation(call.skill)
      BY <2>1 DEF NeedsConfirmation, Metadata, Migrated, RequireConfirmationFor
    <3>. QED BY <2>1, <3>1, <3>2, GuardedStays DEF GraphInv, CallInv, Acting
  <2>. QED BY <2>2, <2>3, <2>4, Types DEF GraphInv
<1>. QED BY <1>1, <1>2

\* Every variable keeps its type, and the other parts of the invariant hold.
THEOREM GraphInvariant == Spec => []GraphInv
<1>1. GraphInv /\ [Next]_vars => GraphInv'
  BY GraphNextInv
<1>. QED BY <1>1, GraphInitInv, PTL DEF Spec

\* Whatever is planned, and whatever an operator approves: no skill that moves the
\* robot runs while it is stopped, only the dock on a critical battery, and none on
\* the real robot from a plan alone.
THEOREM MotionAlwaysLegal == Spec => []MotionIsLegal
<1>1. ASSUME GraphInv PROVE MotionIsLegal
  <2>1. world \in World /\ (Acting => call \in Calls /\ Legal(call, world))
    BY <1>1, GuardedShape DEF GraphInv, TypeOK, CallInv, Acting
  <2>2. StoppedDoesNotMove
    <3>. SUFFICES ASSUME Acting, world.estop PROVE ~Moves(call.skill)
      BY DEF StoppedDoesNotMove
    <3>1. ~Moves(call.skill) \/ call.skill = "dock"
      BY <2>1, LegalWhenStopped
    <3>2. CASE node = "execute"
      <4>1. call.skill = "stop"
        BY <1>1, <3>2 DEF GraphInv, StopInv, Planned
      <4>. QED BY <4>1 DEF Moves
    <3>3. CASE node = "resume_execute"
      <4>1. NeedsConfirmation(call.skill)
        BY <1>1, <3>3, GuardedShape DEF GraphInv, CallInv
      <4>. QED BY <3>1, <4>1, DockIsFree
    <3>. QED BY <3>2, <3>3 DEF Acting
  <2>3. CriticalOnlyDocks
    BY <2>1, LegalWhenCritical DEF CriticalOnlyDocks
  <2>4. UnitreeMotionIsApproved
    BY <1>1, <2>1, FreeDoesNotMove DEF UnitreeMotionIsApproved, GraphInv, CallInv, Acting
  <2>. QED BY <2>2, <2>3, <2>4 DEF MotionIsLegal
<1>. QED BY <1>1, GraphInvariant, PTL

\* After a skill has run, nothing is decided or run before the world was observed
\* again, through failures, replans, exceptions and restarts.
THEOREM ObservesBeforeActing == Spec => []ObserveBeforeAct
<1>1. GraphInv => ObserveBeforeAct
  BY DEF GraphInv, SeenInv, ObserveBeforeAct, Acting
<1>. QED BY <1>1, GraphInvariant, PTL

-----------------------------------------------------------------------------
(* The protocol an operator can rely on.                                     *)

\* A step that neither asks, nor takes an approval, nor starts or ends an action.
LEMMA OperatorStutters ==
  ASSUME UNCHANGED pending, node # "resume_observe", node' # "resume_observe", ~Acting, ~Acting'
  PROVE  UNCHANGED Operator!vars
BY DEF Operator!vars

\* A node that leaves the confirmation alone is a rest of the abstract operator.
LEMMA OperatorRests ==
  ASSUME UNCHANGED pending, node # "resume_observe", node' # "resume_observe", ~Acting'
  PROVE  Operator!Rest
BY DEF Operator!Rest

\* Resuming without an action is a refusal.
LEMMA OperatorRefuses ==
  ASSUME UNCHANGED pending, node' # "resume_observe", ~Acting, ~Acting'
  PROVE  Operator!Refuse
BY DEF Operator!Refuse

\* A question that is dropped before it was answered is withdrawn.
LEMMA OperatorWithdraws ==
  ASSUME pending' = NoCall, node # "resume_observe", node' # "resume_observe", ~Acting, ~Acting'
  PROVE  Operator!Withdraw
BY DEF Operator!Withdraw

\* Each node of the graph is a step of ConfirmedAction or a stutter.
LEMMA GraphStepIsOperatorStep ==
  ASSUME GraphInv, Next
  PROVE  [Operator!Next]_(Operator!vars)
<1>0. NoCall \notin Calls /\ Guarded \subseteq Calls /\ Guarded' = Guarded
  BY GraphAssumption, GuardedStays DEF Guarded
<1>1. ASSUME NEW w, Perceive(w) \/ ObserveResult(w) \/ ResumeSettle(w) \/ RefreshWorld(w)
      PROVE  UNCHANGED Operator!vars
  BY <1>1, OperatorStutters DEF Perceive, ObserveResult, ResumeSettle, RefreshWorld, Acting
<1>2. ASSUME NEW w, ResumeValidate(w) PROVE Operator!Next
  <2>1. node = "resume_observe" /\ UNCHANGED <<call, pending>> /\ call \in Guarded
    BY <1>2 DEF ResumeValidate, graph, GraphInv, CallInv
  <2>2. CASE node' = "resume_execute"
    <3>1. Operator!ActGranted
      BY <1>0, <2>1, <2>2 DEF Operator!ActGranted, Acting
    <3>. QED BY <3>1 DEF Operator!Next
  <2>3. CASE node' # "resume_execute"
    <3>1. node' = "idle"
      BY <1>2, <2>3 DEF ResumeValidate
    <3>2. Operator!Refuse
      BY <2>1, <3>1, OperatorRefuses DEF Acting
    <3>. QED BY <3>2 DEF Operator!Next
  <2>. QED BY <2>2, <2>3
<1>3. ASSUME NEW plan, Decide(plan) PROVE UNCHANGED Operator!vars
  BY <1>3, OperatorStutters DEF Decide, Acting
<1>4. CASE TooManyIterations \/ NextCall \/ Reflect \/ RunCommand
  <2>1. UNCHANGED pending /\ node # "resume_observe" /\ node' # "resume_observe" /\ ~Acting /\ ~Acting'
    BY <1>4 DEF TooManyIterations, NextCall, Reflect, RunCommand, persistent, Acting
  <2>. QED BY <2>1, OperatorStutters
<1>5. CASE Validate
  <2>1. UNCHANGED <<call, world, pending>> /\ node = "validate" /\ node' \in {"execute", "finish"}
    BY <1>5 DEF Validate, persistent
  <2>2. CASE node' = "execute"
    <3>1. Validation(call, world, FALSE) = "validated"
      BY <1>5, <2>2 DEF Validate
    <3>2. call \in Calls /\ ~NeedsConfirmation(call.skill)
      BY <2>1, <3>1, ValidationShape DEF GraphInv, CallInv
    <3>3. call \in Calls \ Guarded
      BY <3>2, GuardedShape
    <3>4. Operator!ActFreely
      BY <2>1, <2>2, <3>3 DEF Operator!ActFreely, Acting
    <3>. QED BY <3>4 DEF Operator!Next
  <2>3. CASE node' = "finish"
    BY <2>1, <2>3, OperatorStutters DEF Acting
  <2>. QED BY <2>1, <2>2, <2>3
<1>6. CASE Finish
  <2>1. node = "finish" /\ node' = "idle"
    BY <1>6 DEF Finish
  <2>2. CASE status = "awaiting_confirmation"
    <3>1. pending' \in Guarded
      BY <1>6, <2>1, <2>2 DEF Finish, GraphInv, CallInv
    <3>2. Operator!Ask
      BY <2>1, <3>1 DEF Operator!Ask, Acting
    <3>. QED BY <3>2 DEF Operator!Next
  <2>3. CASE status # "awaiting_confirmation"
    BY <1>6, <2>1, <2>3, OperatorStutters DEF Finish, Acting
  <2>. QED BY <2>2, <2>3
<1>7. ASSUME NEW ok, Execute(ok) \/ ResumeExecute(ok) PROVE Operator!Next
  <2>1. UNCHANGED pending /\ node # "resume_observe" /\ node' # "resume_observe" /\ ~Acting'
    BY <1>7 DEF Execute, ResumeExecute, persistent, Acting
  <2>. QED BY <2>1, OperatorRests DEF Operator!Next
<1>8. CASE ResumeApproved
  <2>1. /\ node = "idle" /\ node' = "resume_observe" /\ pending # NoCall
        /\ call' = pending /\ pending' = NoCall
    BY <1>8 DEF ResumeApproved
  <2>2. Operator!Approve
    BY <2>1 DEF Operator!Approve, Acting
  <2>. QED BY <2>2 DEF Operator!Next
<1>9. ASSUME NEW approved, ResumeRefused(approved) PROVE Operator!Next
  <2>1. node = "idle" /\ node' = "idle" /\ pending' = NoCall
    BY <1>9 DEF ResumeRefused
  <2>. QED BY <2>1, OperatorWithdraws DEF Acting, Operator!Next
<1>10. CASE CancelPending
  <2>1. node = "idle" /\ node' = "idle" /\ pending' = NoCall
    BY <1>10 DEF CancelPending, graph
  <2>. QED BY <2>1, OperatorWithdraws DEF Acting, Operator!Next
<1>11. CASE Raises \/ Restart
  <2>1. UNCHANGED pending /\ node' = "idle" /\ ~Acting'
    BY <1>11 DEF Raises, Restart, persistent, Acting
  <2>2. CASE node = "resume_observe"
    <3>1. ~Acting
      BY <2>2 DEF Acting
    <3>. QED BY <2>1, <3>1, OperatorRefuses DEF Operator!Next
  <2>3. CASE node # "resume_observe"
    BY <2>1, <2>3, OperatorRests DEF Operator!Next
  <2>. QED BY <2>2, <2>3
<1>12. ASSUME NEW on, SetEstop(on) PROVE UNCHANGED Operator!vars
  BY <1>12, OperatorStutters DEF SetEstop, Acting
<1>. QED
  BY <1>1, <1>2, <1>3, <1>4, <1>5, <1>6, <1>7, <1>8, <1>9, <1>10, <1>11, <1>12 DEF Next,
     GraphStep

\* The graph asks, takes approvals and acts as ConfirmedAction promises: a guarded
\* call runs once for one approval of that very call, and never without one.
THEOREM OperatorImplemented == Spec => ActsAsConfirmed
<1>1. Init => Operator!Init
  BY DEF Init, Operator!Init, Acting
<1>2. GraphInv /\ [Next]_vars => [Operator!Next]_(Operator!vars)
  <2>. SUFFICES ASSUME GraphInv, [Next]_vars PROVE [Operator!Next]_(Operator!vars)
    OBVIOUS
  <2>1. CASE Next
    BY <2>1, GraphStepIsOperatorStep
  <2>2. CASE UNCHANGED vars
    BY <2>2 DEF vars, Operator!vars, Acting
  <2>. QED BY <2>1, <2>2
<1>. QED BY <1>1, <1>2, GraphInvariant, PTL DEF Spec, ActsAsConfirmed, Operator!Spec
=============================================================================
