--------------------------- MODULE NavigationProofs ---------------------------
(***************************************************************************)
(* Proofs about Navigation, that is about its clients Nav2Client and       *)
(* LocalNavigation, about VoxelMap, GridPlanner and Terrain3D, for any     *)
(* number of desks, goals, losses, voxels, frames, saves, columns and      *)
(* levels and a grid of any size: what drives can be cancelled and stays   *)
(* so, no skill is told an older, settled goal's success, the clients      *)
(* implement GoalLifecycle, the map shows no cell free that it has not     *)
(* seen, every path over the terrain is safe, and every plan on the grid   *)
(* is the cheapest, clear of obstacles and, where it has to be, seen.      *)
(***************************************************************************)
EXTENDS Navigation, FiniteSetTheorems, TLAPS

-----------------------------------------------------------------------------
(* The clients that drive from this process.                               *)

TaskState ==
  [pc: {"none", "top", "drive", "settle", "pause", "nopath", "stop", "fault", "cancelled", "done"},
   leg: {"go", "turn"}, noPath: 0..MaxNoPath, noProgress: 0..MaxNoProgress,
   left: 0..MaxDuration, verdict: Outcomes \union {"none"}]
CallState == [pc: {"none", "sensors", "poll", "stop", "await"}, goal: 0..MaxGoals]

\* Goal g was won, and it is k, a later one, or one that k was accepted beside.
Won(g, k) == At(g, "done") /\ exec[g].verdict = "succeeded" /\ (g >= k \/ g \in beside[k])

TaskInv ==
  /\ exec \in [Goals -> TaskState] /\ state \in [status: Statuses, goal: 0..MaxGoals]
  /\ \A g \in Goals :
       /\ g > state.goal => At(g, "none")
       /\ At(g, "stop") => exec[g].verdict \in Outcomes
       /\ At(g, "nopath") \/ exec[g].noPath < MaxNoPath

\* What is not settled stands beside every goal accepted since, and what stood beside a
\* goal stood beside the ones before it.
BesideInv ==
  /\ beside \in [Goals -> SUBSET Goals]
  /\ \A k \in Goals : k <= state.goal =>
       /\ \A g \in Unsettled : g < k => g \in beside[k]
       /\ \A g, j \in Goals : g < j /\ j < k /\ g \in beside[k] => g \in beside[j]

\* An active goal has a task.  The task of a goal accepted alone has an active goal, but
\* for one that the direct client has given up on and shows as canceled already.  A
\* success is that of the newest goal, or of one beside it.
StatusInv ==
  /\ Active => Live(state.goal)
  /\ Live(state.goal) /\ beside[state.goal] = {} =>
       Active \/ (At(state.goal, "cancelled") /\ state.status = "canceled")
  /\ state.status = "succeeded" => state.goal \in Goals /\ \E g \in Goals : Won(g, state.goal)

CallInv ==
  /\ call \in [Callers -> CallState]
  /\ \A c \in Callers :
       /\ call[c].goal <= state.goal
       /\ call[c].pc \in {"poll", "await"} => call[c].goal \in Goals
       /\ call[c].pc = "stop" => state.goal \in Goals

\* The goal that a reported success rests on is done, so that it stays what it is.
ReportInv ==
  /\ report \in [Skills -> 0..MaxGoals]
  /\ \A c \in Skills : report[c] # 0 => report[c] <= state.goal /\ \E g \in Goals : Won(g, report[c])

DriveInv ==
  /\ provider \in Providers /\ warm \in BOOLEAN /\ signal \in BOOLEAN
  /\ TaskInv /\ BesideInv /\ StatusInv /\ CallInv /\ ReportInv /\ CancelHolds


\* The bounds of the constants, and what is not a goal.
LEMMA NavBounds ==
  /\ MaxGoals \in Nat /\ MaxDuration \in Nat /\ MaxNoPath \in Nat /\ MaxNoProgress \in Nat
  /\ MaxNoPath > 0 /\ MaxNoProgress > 0 /\ MaxGoals > 0
  /\ 0 \in 0..MaxGoals /\ 0 \in 0..MaxDuration /\ 0 \in 0..MaxNoPath /\ 0 \in 0..MaxNoProgress
  /\ MaxDuration \in 0..MaxDuration
BY NavigationAssumption

\* A task goes on as it was, but that a stop of the robot ends its drive.
Quiet(h) ==
  /\ exec'[h].verdict = exec[h].verdict /\ exec'[h].noPath = exec[h].noPath
  /\ exec'[h].pc = exec[h].pc \/ (At(h, "drive") /\ exec'[h].pc = "settle")

\* A stop of the robot ends every drive, and changes nothing else.
LEMMA HaltedShape ==
  ASSUME exec \in [Goals -> TaskState]
  PROVE  /\ Halted(exec) \in [Goals -> TaskState]
         /\ \A h \in Goals :
              /\ Halted(exec)[h].left = exec[h].left /\ Halted(exec)[h].noPath = exec[h].noPath
              /\ Halted(exec)[h].verdict = exec[h].verdict /\ Halted(exec)[h].pc # "drive"
              /\ Halted(exec)[h].pc = exec[h].pc \/ (At(h, "drive") /\ Halted(exec)[h].pc = "settle")
<1>1. ASSUME NEW h \in Goals
      PROVE  /\ Halted(exec)[h] \in TaskState
             /\ Halted(exec)[h].left = exec[h].left /\ Halted(exec)[h].noPath = exec[h].noPath
             /\ Halted(exec)[h].verdict = exec[h].verdict /\ Halted(exec)[h].pc # "drive"
             /\ Halted(exec)[h].pc = exec[h].pc \/ (At(h, "drive") /\ Halted(exec)[h].pc = "settle")
  BY DEF Halted, At, TaskState
<1>2. Halted(exec) = [h \in Goals |-> Halted(exec)[h]]
  BY DEF Halted
<1>. QED BY <1>1, <1>2

\* What a task is left with when it goes, ends or is dropped.
LEMMA LeavingShape ==
  ASSUME exec \in [Goals -> TaskState], NEW g \in Goals,
         NEW p \in {"stop", "fault", "cancelled", "done"}, NEW v \in Outcomes \union {"none"},
         NEW e \in {exec, Halted(exec)}, exec' = Leaving(e, g, p, v)
  PROVE  /\ exec' \in [Goals -> TaskState]
         /\ exec'[g].pc = p /\ exec'[g].verdict = v /\ exec'[g].noPath = 0
         /\ \A h \in Goals : exec'[h].pc = "drive" => At(h, "drive") /\ e = exec
         /\ \A h \in Goals : h # g => Quiet(h)
<1>. DEFINE t == [NoTask EXCEPT !.pc = p, !.verdict = v, !.left = e[g].left]
<1>1. /\ e \in [Goals -> TaskState]
      /\ \A h \in Goals : /\ e[h].noPath = exec[h].noPath /\ e[h].verdict = exec[h].verdict
                          /\ e[h].pc = exec[h].pc \/ (At(h, "drive") /\ e[h].pc = "settle")
                          /\ e[h].pc = "drive" => At(h, "drive") /\ e = exec
  BY HaltedShape DEF At
<1>2. t \in TaskState /\ t.pc = p /\ t.verdict = v /\ t.noPath = 0
  <2>1. e[g].left \in 0..MaxDuration
    BY <1>1 DEF TaskState
  <2>. QED BY <2>1, NavBounds DEF NoTask, TaskState
<1>3. exec' = [e EXCEPT ![g] = t]
  BY DEF Leaving
<1>. HIDE DEF t
<1>. QED BY <1>1, <1>2, <1>3 DEF Quiet

\* What callers may rely on: no goal is set, no task comes back, and what is done stays.
Keeps ==
  /\ state'.goal = state.goal /\ UNCHANGED beside
  /\ \A h \in Goals : /\ Live(h)' => Live(h)
                      /\ At(h, "done") => exec'[h].pc = "done" /\ exec'[h].verdict = exec[h].verdict

\* What GoalLifecycle allows, and what every step has to show.
Promised == [Abstract!Next]_(Abstract!lifecycleVars)
Kept == DriveInv' /\ Promised

\* A goal that is not settled and not the newest stands beside the newest.
LEMMA OlderIsBeside ==
  ASSUME TaskInv, BesideInv, NEW g \in Unsettled, g <= state.goal, g # state.goal
  PROVE  state.goal \in Goals /\ g \in beside[state.goal]
<1>1. g \in Goals /\ state.goal \in 0..MaxGoals
  BY DEF Unsettled, TaskInv
<1>2. g < state.goal /\ state.goal \in Goals
  BY <1>1, NavBounds DEF Goals
<1>. QED BY <1>1, <1>2 DEF BesideInv

\* So does a task that runs and is not the newest.
LEMMA OlderRuns ==
  ASSUME TaskInv, BesideInv, NEW g \in Goals, Live(g)
  PROVE  g <= state.goal /\ (g # state.goal => state.goal \in Goals /\ g \in beside[state.goal])
<1>1. g \in Unsettled
  BY DEF Unsettled
<1>2. g <= state.goal
  <2>1. ~(g > state.goal) /\ g \in Nat /\ state.goal \in Nat
    BY NavBounds DEF TaskInv, Live, At, Goals
  <2>. QED BY <2>1
<1>. QED BY <1>1, <1>2, OlderIsBeside

\* An outcome may be shown of an active goal, and of any that is not alone.
LEMMA OutcomeTold ==
  ASSUME TaskInv, UNCHANGED beside, NEW v \in Outcomes, Finish(v),
         Active \/ (state.goal \in Goals /\ beside[state.goal] # {}) \/ state.status = v
  PROVE  Promised
<1>1. state' = [state EXCEPT !.status = v] /\ state'.goal = state.goal
  BY DEF Finish, TaskInv
<1>2. CASE Active \/ (state.goal \in Goals /\ beside[state.goal] # {})
  <2>1. Abstract!End(v)
    BY <1>1, <1>2 DEF Abstract!End, Abstract!Active, Active
  <2>. QED BY <2>1 DEF Promised, Abstract!Next
<1>3. CASE state.status = v
  <2>1. state' = state
    BY <1>1, <1>3 DEF TaskInv
  <2>. QED BY <2>1 DEF Promised, Abstract!lifecycleVars
<1>. QED BY <1>2, <1>3

\* A task goes on.
LEMMA TaskGoesOn ==
  ASSUME TaskInv, BesideInv, StatusInv, NEW g \in Goals, Live(g), ~At(g, "cancelled"),
         UNCHANGED <<state, beside>>,
         exec' \in [Goals -> TaskState], exec'[g].pc \notin {"none", "done", "cancelled"},
         exec'[g].pc = "stop" => exec'[g].verdict \in Outcomes,
         exec'[g].pc = "nopath" \/ exec'[g].noPath < MaxNoPath,
         \A h \in Goals : h # g => Quiet(h)
  PROVE  TaskInv' /\ StatusInv' /\ Keeps /\ Promised
<1>1. \A h \in Goals : h # g => /\ exec'[h].pc = exec[h].pc \/ (exec[h].pc = "drive" /\ exec'[h].pc = "settle")
                                /\ exec'[h].verdict = exec[h].verdict /\ exec'[h].noPath = exec[h].noPath
  BY DEF Quiet, At
<1>2. exec[g].pc \notin {"none", "done", "cancelled"} /\ g <= state.goal
  BY OlderRuns DEF Live, At
<1>3. TaskInv'
  <2>1. ASSUME NEW h \in Goals
        PROVE  /\ h > state.goal => exec'[h].pc = "none"
               /\ exec'[h].pc = "stop" => exec'[h].verdict \in Outcomes
               /\ exec'[h].pc = "nopath" \/ exec'[h].noPath < MaxNoPath
    <3>1. CASE h = g
      <4>1. ~(g > state.goal)
        BY <1>2, NavBounds DEF TaskInv, Goals
      <4>. QED BY <3>1, <4>1
    <3>2. CASE h # g
      BY <1>1, <3>2 DEF TaskInv, At
    <3>. QED BY <3>1, <3>2
  <2>. QED BY <2>1 DEF TaskInv, At
<1>4. Keeps
  BY <1>1, <1>2 DEF Keeps, Live, At
<1>5. StatusInv'
  <2>1. Active' => Live(state.goal)'
    BY <1>1 DEF StatusInv, Active, Live
  <2>2. ASSUME Live(state.goal)', beside'[state'.goal] = {}
        PROVE  Active' \/ (At(state.goal, "cancelled") /\ state.status = "canceled")'
    <3>1. Live(state.goal) /\ beside[state.goal] = {}
      BY <1>1, <1>2, <2>2 DEF Live
    <3>2. Active \/ (At(state.goal, "cancelled") /\ state.status = "canceled")
      BY <3>1 DEF StatusInv
    <3>3. At(state.goal, "cancelled") => exec'[state.goal].pc = "cancelled"
      BY <1>1, <1>2, <3>1 DEF At, Live
    <3>. QED BY <3>2, <3>3 DEF At, Active
  <2>3. \A h, k \in Goals : Won(h, k) => Won(h, k)'
    BY <1>1, <1>2 DEF Won, At
  <2>. QED BY <2>1, <2>2, <2>3 DEF StatusInv
<1>6. Promised
  BY DEF Promised, Abstract!lifecycleVars
<1>. QED BY <1>3, <1>4, <1>5, <1>6

\* A task ends: its outcome goes to the newest goal, unless that is told already.
LEMMA TaskEnds ==
  ASSUME TaskInv, BesideInv, StatusInv, NEW g \in Goals, Live(g), NEW v \in Outcomes,
         At(g, "cancelled") => v = "canceled", UNCHANGED beside,
         Finish(v) \/ (~Active /\ v # "succeeded" /\ UNCHANGED state),
         exec' \in [Goals -> TaskState], exec'[g].pc = "done", exec'[g].noPath = 0,
         v = "succeeded" => exec'[g].verdict = v,
         \A h \in Goals : h # g => Quiet(h)
  PROVE  TaskInv' /\ StatusInv' /\ Keeps /\ Promised
<1>1. \A h \in Goals : h # g => /\ exec'[h].pc = exec[h].pc \/ (exec[h].pc = "drive" /\ exec'[h].pc = "settle")
                                /\ exec'[h].verdict = exec[h].verdict /\ exec'[h].noPath = exec[h].noPath
  BY DEF Quiet, At
<1>2. /\ exec[g].pc \notin {"none", "done"} /\ g <= state.goal
      /\ g # state.goal => state.goal \in Goals /\ g \in beside[state.goal]
  BY OlderRuns DEF Live, At
<1>3. /\ state'.goal = state.goal /\ state' \in [status: Statuses, goal: 0..MaxGoals]
      /\ state'.status = v \/ (~Active /\ v # "succeeded" /\ state'.status = state.status)
  BY DEF Finish, TaskInv, Statuses
<1>4. v # "active"
  BY DEF Outcomes
<1>5. TaskInv'
  <2>1. ASSUME NEW h \in Goals
        PROVE  /\ h > state'.goal => exec'[h].pc = "none"
               /\ exec'[h].pc = "stop" => exec'[h].verdict \in Outcomes
               /\ exec'[h].pc = "nopath" \/ exec'[h].noPath < MaxNoPath
    <3>1. CASE h = g
      <4>1. ~(g > state.goal)
        BY <1>2, NavBounds DEF TaskInv, Goals
      <4>. QED BY <1>3, <3>1, <4>1, NavBounds
    <3>2. CASE h # g
      BY <1>1, <1>3, <3>2 DEF TaskInv, At
    <3>. QED BY <3>1, <3>2
  <2>. QED BY <1>3, <2>1 DEF TaskInv, At
<1>6. Keeps
  BY <1>1, <1>2, <1>3 DEF Keeps, Live, At
<1>7. state.goal \in Goals
  BY <1>2
<1>8. StatusInv'
  <2>1. ~Active'
    BY <1>3, <1>4 DEF Active
  <2>2. ~(Live(state.goal)' /\ beside'[state'.goal] = {})
    BY <1>2, <1>3 DEF Live
  <2>3. ASSUME state'.status = "succeeded" PROVE \E h \in Goals : Won(h, state.goal)'
    <3>1. CASE v = "succeeded"
      <4>1. g >= state.goal \/ g \in beside[state.goal]
        BY <1>2, NavBounds DEF TaskInv, Goals
      <4>. QED BY <1>3, <3>1, <4>1 DEF Won, At
    <3>2. CASE v # "succeeded"
      <4>1. PICK h \in Goals : Won(h, state.goal)
        BY <1>3, <2>3, <3>2 DEF StatusInv
      <4>2. Won(h, state.goal)'
        BY <1>1, <1>2, <1>3, <4>1 DEF Won, At
      <4>. QED BY <4>2
    <3>. QED BY <3>1, <3>2
  <2>. QED BY <1>3, <1>7, <2>1, <2>2, <2>3 DEF StatusInv
<1>9. Promised
  <2>1. CASE Finish(v)
    <3>1. Active \/ (state.goal \in Goals /\ beside[state.goal] # {}) \/ state.status = v
      <4>1. CASE g # state.goal
        BY <1>2, <4>1
      <4>2. CASE g = state.goal
        BY <1>7, <4>2 DEF StatusInv
      <4>. QED BY <4>1, <4>2
    <3>. QED BY <2>1, <3>1, OutcomeTold
  <2>2. CASE UNCHANGED state
    BY <2>2 DEF Promised, Abstract!lifecycleVars
  <2>. QED BY <2>1, <2>2
<1>. QED BY <1>5, <1>6, <1>8, <1>9

\* A task is cancelled; the direct client has said so already.
LEMMA TaskDies ==
  ASSUME TaskInv, BesideInv, StatusInv, NEW g \in Goals, Live(g), UNCHANGED beside,
         UNCHANGED state \/ (Active /\ Finish("canceled")),
         exec' \in [Goals -> TaskState], exec'[g].pc = "cancelled", exec'[g].noPath = 0,
         \A h \in Goals : h # g => Quiet(h)
  PROVE  TaskInv' /\ StatusInv' /\ Keeps /\ Promised
<1>1. \A h \in Goals : h # g => /\ exec'[h].pc = exec[h].pc \/ (exec[h].pc = "drive" /\ exec'[h].pc = "settle")
                                /\ exec'[h].verdict = exec[h].verdict /\ exec'[h].noPath = exec[h].noPath
  BY DEF Quiet, At
<1>2. /\ exec[g].pc \notin {"none", "done"} /\ g <= state.goal
      /\ g # state.goal => state.goal \in Goals /\ g \in beside[state.goal]
  BY OlderRuns DEF Live, At
<1>3. /\ state'.goal = state.goal /\ state' \in [status: Statuses, goal: 0..MaxGoals]
      /\ \/ state' = state
         \/ Active /\ state'.status = "canceled"
  BY DEF Finish, TaskInv, Statuses, Outcomes
<1>4. TaskInv'
  <2>1. ASSUME NEW h \in Goals
        PROVE  /\ h > state'.goal => exec'[h].pc = "none"
               /\ exec'[h].pc = "stop" => exec'[h].verdict \in Outcomes
               /\ exec'[h].pc = "nopath" \/ exec'[h].noPath < MaxNoPath
    <3>1. CASE h = g
      <4>1. ~(g > state.goal)
        BY <1>2, NavBounds DEF TaskInv, Goals
      <4>. QED BY <1>3, <3>1, <4>1, NavBounds
    <3>2. CASE h # g
      BY <1>1, <1>3, <3>2 DEF TaskInv, At
    <3>. QED BY <3>1, <3>2
  <2>. QED BY <1>3, <2>1 DEF TaskInv, At
<1>5. Keeps
  BY <1>1, <1>2, <1>3 DEF Keeps, Live, At
<1>6. StatusInv'
  <2>1. Active' => Live(state.goal)'
    BY <1>1, <1>3 DEF StatusInv, Active, Live
  <2>2. ASSUME Live(state.goal)', beside'[state'.goal] = {}
        PROVE  Active' \/ (At(state.goal, "cancelled") /\ state.status = "canceled")'
    <3>1. g = state.goal
      BY <1>2, <1>3, <2>2
    <3>2. Active \/ state.status = "canceled"
      BY <1>3, <2>2, <3>1 DEF StatusInv
    <3>. QED BY <1>3, <3>1, <3>2 DEF Active, At
  <2>3. \A h, k \in Goals : Won(h, k) => Won(h, k)'
    BY <1>1, <1>2 DEF Won, At
  <2>4. state'.status = "succeeded" => state.status = "succeeded"
    BY <1>3
  <2>. QED BY <1>3, <2>1, <2>2, <2>3, <2>4 DEF StatusInv
<1>7. Promised
  <2>1. "canceled" \in Outcomes
    BY DEF Outcomes
  <2>2. CASE UNCHANGED state
    BY <2>2 DEF Promised, Abstract!lifecycleVars
  <2>. QED BY <2>1, <2>2, OutcomeTold
<1>. QED BY <1>4, <1>5, <1>6, <1>7

\* The tasks go on as they were, and so does the status, but for the sensors that return.
LEMMA TasksSame ==
  ASSUME TaskInv, StatusInv, exec' \in [Goals -> TaskState], UNCHANGED beside,
         \A h \in Goals : Quiet(h),
         \/ UNCHANGED state
         \/ ~Live(state.goal) /\ state.status = "unavailable" /\ state' = [state EXCEPT !.status = "idle"]
  PROVE  TaskInv' /\ StatusInv' /\ Keeps /\ Promised
<1>1. \A h \in Goals : /\ exec'[h].pc = exec[h].pc \/ (exec[h].pc = "drive" /\ exec'[h].pc = "settle")
                       /\ exec'[h].verdict = exec[h].verdict /\ exec'[h].noPath = exec[h].noPath
  BY DEF Quiet, At
<1>2. /\ state'.goal = state.goal /\ state' \in [status: Statuses, goal: 0..MaxGoals]
      /\ state' = state \/ (~Live(state.goal) /\ state'.status = "idle")
  BY DEF TaskInv, Statuses
<1>3. TaskInv'
  BY <1>1, <1>2 DEF TaskInv, At
<1>4. Keeps
  BY <1>1, <1>2 DEF Keeps, Live, At
<1>5. StatusInv'
  <2>1. Active' => Live(state.goal)'
    BY <1>1, <1>2 DEF StatusInv, Active, Live
  <2>2. ASSUME Live(state.goal)', beside'[state'.goal] = {}
        PROVE  Active' \/ (At(state.goal, "cancelled") /\ state.status = "canceled")'
    <3>1. Live(state.goal) /\ beside[state.goal] = {} /\ state' = state
      BY <1>1, <1>2, <2>2 DEF Live
    <3>2. Active \/ (At(state.goal, "cancelled") /\ state.status = "canceled")
      BY <3>1 DEF StatusInv
    <3>. QED BY <1>1, <3>1, <3>2 DEF At, Active, Live
  <2>3. \A h, k \in Goals : Won(h, k) => Won(h, k)'
    BY <1>1 DEF Won, At
  <2>. QED BY <1>2, <2>1, <2>2, <2>3 DEF StatusInv
<1>6. Promised
  <2>1. CASE state' = state
    BY <2>1 DEF Promised, Abstract!lifecycleVars
  <2>2. CASE state.status = "unavailable" /\ state' = [state EXCEPT !.status = "idle"]
    <3>1. Abstract!Recover
      BY <1>2, <2>2 DEF Abstract!Recover
    <3>. QED BY <3>1 DEF Promised, Abstract!Next
  <2>. QED BY <2>1, <2>2
<1>. QED BY <1>3, <1>4, <1>5, <1>6

\* A caller moves on, and sets no goal: it waits for no task but one that runs.
LEMMA CallMoves ==
  ASSUME TaskInv, CallInv, BesideInv, Keeps, NEW c \in Callers, call' \in [Callers -> CallState],
         \A d \in Callers : d # c => call'[d] = call[d],
         call'[c].goal <= state.goal,
         call'[c].pc \in {"poll", "await"} => call'[c].goal \in Goals,
         call'[c].pc = "await" => call'[c] = call[c] \/ Live(call'[c].goal),
         call'[c].pc = "stop" => state.goal \in Goals
  PROVE  CallInv' /\ BesideInv'
<1>1. CallInv'
  BY DEF CallInv, Keeps
<1>2. ASSUME NEW g \in Unsettled' PROVE g \in Unsettled
  <2>1. g \in Goals /\ (Live(g)' \/ \E d \in Callers : call'[d] = [pc |-> "await", goal |-> g])
    BY <1>2 DEF Unsettled
  <2>2. Live(g)' => Live(g)
    BY <2>1 DEF Keeps
  <2>3. ASSUME NEW d \in Callers, call'[d] = [pc |-> "await", goal |-> g]
        PROVE  Live(g) \/ call[d] = [pc |-> "await", goal |-> g]
    BY <2>3
  <2>. QED BY <2>1, <2>2, <2>3 DEF Unsettled
<1>3. BesideInv'
  BY <1>2 DEF BesideInv, Keeps
<1>. QED BY <1>1, <1>3

\* Nobody moves.
LEMMA CallsSame ==
  ASSUME CallInv, BesideInv, Keeps, UNCHANGED call
  PROVE  CallInv' /\ BesideInv'
<1>1. CallInv'
  BY DEF CallInv, Keeps
<1>2. \A g \in Unsettled' : g \in Unsettled
  BY DEF Unsettled, Keeps
<1>3. BesideInv'
  BY <1>2 DEF BesideInv, Keeps
<1>. QED BY <1>1, <1>3

\* A caller returns.
LEMMA CallReturns ==
  ASSUME TaskInv, CallInv, BesideInv, Keeps, NEW c \in Callers, Return(c)
  PROVE  CallInv' /\ BesideInv' /\ \A d \in Callers : d # c => call'[d] = call[d]
<1>1. /\ call' \in [Callers -> CallState] /\ call'[c].pc = "none" /\ call'[c].goal = 0
      /\ \A d \in Callers : d # c => call'[d] = call[d]
  BY NavBounds DEF Return, NoCall, CallInv, CallState
<1>2. 0 <= state.goal
  BY NavBounds DEF TaskInv
<1>. QED BY <1>1, <1>2, CallMoves

\* What was reported stays true.
LEMMA ReportsSame ==
  ASSUME ReportInv, Keeps, UNCHANGED report
  PROVE  ReportInv'
<1>1. \A h, k \in Goals : Won(h, k) => Won(h, k)'
  BY DEF Keeps, Won, At
<1>2. \A c \in Skills : report[c] # 0 => report[c] \in Goals
  BY NavBounds DEF ReportInv, Goals
<1>. QED BY <1>1, <1>2 DEF ReportInv, Keeps

\* A cancel holds as long as nothing starts to drive and whoever stops the robot goes on.
LEMMA HoldSame ==
  ASSUME CancelHolds, UNCHANGED signal, \A h \in Goals : exec'[h].pc = "drive" => At(h, "drive"),
         \A c \in Callers : call[c].pc = "stop" => call'[c].pc = "stop"
  PROVE  CancelHolds'
BY DEF CancelHolds, At

\* A task goes on, and nothing else happens.
LEMMA OneGoesOn ==
  ASSUME DriveInv, NEW g \in Goals, Live(g), ~At(g, "cancelled"),
         UNCHANGED <<provider, warm, state, signal, call, report, beside>>,
         exec' \in [Goals -> TaskState], exec'[g].pc \notin {"none", "done", "cancelled"},
         exec'[g].pc = "stop" => exec'[g].verdict \in Outcomes,
         exec'[g].pc = "nopath" \/ exec'[g].noPath < MaxNoPath,
         exec'[g].pc = "drive" => At(g, "drive") \/ ~signal,
         \A h \in Goals : h # g => Quiet(h)
  PROVE  Kept
<1>1. TaskInv' /\ StatusInv' /\ Keeps /\ Promised
  BY TaskGoesOn DEF DriveInv
<1>2. CallInv' /\ BesideInv' /\ ReportInv'
  BY <1>1, CallsSame, ReportsSame DEF DriveInv
<1>3. CancelHolds'
  BY DEF DriveInv, CancelHolds, Quiet, At
<1>. QED BY <1>1, <1>2, <1>3 DEF DriveInv, Kept

\* A task ends, and nothing else happens.
LEMMA OneEnds ==
  ASSUME DriveInv, NEW g \in Goals, Live(g), NEW v \in Outcomes,
         At(g, "cancelled") => v = "canceled", NEW e \in {exec, Halted(exec)},
         exec' = Ended(e, g, v), Finish(v),
         UNCHANGED <<provider, warm, signal, call, report, beside>>
  PROVE  Kept
<1>. DEFINE w == IF v = "succeeded" THEN v ELSE "none"
<1>1. exec' = Leaving(e, g, "done", w) /\ w \in Outcomes \union {"none"} /\ (v = "succeeded" => w = v)
  BY DEF Ended
<1>. HIDE DEF w
<1>2. /\ exec' \in [Goals -> TaskState] /\ exec'[g].pc = "done" /\ exec'[g].verdict = w /\ exec'[g].noPath = 0
      /\ \A h \in Goals : exec'[h].pc = "drive" => At(h, "drive")
      /\ \A h \in Goals : h # g => Quiet(h)
  BY <1>1, LeavingShape DEF DriveInv, TaskInv
<1>3. TaskInv' /\ StatusInv' /\ Keeps /\ Promised
  BY <1>1, <1>2, TaskEnds DEF DriveInv
<1>4. CallInv' /\ BesideInv' /\ ReportInv'
  BY <1>3, CallsSame, ReportsSame DEF DriveInv
<1>5. CancelHolds'
  BY <1>2, HoldSame DEF DriveInv
<1>. QED BY <1>3, <1>4, <1>5 DEF DriveInv, Kept

\* The tasks go on, and the reports; a caller may move.
LEMMA OneMoves ==
  ASSUME DriveInv, UNCHANGED <<exec, report, beside>>, UNCHANGED state,
         provider' \in Providers, warm' \in BOOLEAN, signal' \in BOOLEAN,
         CallInv', BesideInv', CancelHolds'
  PROVE  Kept
<1>1. \A h \in Goals : Quiet(h)
  BY DEF Quiet
<1>2. TaskInv' /\ StatusInv' /\ Keeps /\ Promised
  BY <1>1, TasksSame DEF DriveInv, TaskInv
<1>3. ReportInv'
  BY <1>2, ReportsSame DEF DriveInv
<1>. QED BY <1>2, <1>3 DEF DriveInv, Kept

\* A goal is accepted, beside whatever is not settled.
LEMMA GoalAccepted ==
  ASSUME DriveInv, NEW c \in Callers, Accept(c), UNCHANGED <<provider, warm, report>>
  PROVE  Kept
<1>. DEFINE n == state.goal + 1
            t == [NoTask EXCEPT !.pc = "top", !.left = MaxDuration]
<1>1. /\ n \in Goals /\ n \in 0..MaxGoals /\ state.goal \in 0..MaxGoals /\ state.goal \in Nat
      /\ \A h \in Goals : h <= n <=> h = n \/ h <= state.goal
      /\ \A h \in Goals : h < n <=> h <= state.goal
      /\ \A h \in 0..MaxGoals : h <= state.goal => h <= n
  BY NavBounds DEF Accept, DriveInv, TaskInv, Goals
<1>2. t \in TaskState /\ t.pc = "top" /\ t.noPath = 0
  BY NavBounds DEF NoTask, TaskState
<1>3. /\ exec' = [exec EXCEPT ![n] = t] /\ state' = [status |-> "active", goal |-> n]
      /\ beside' = [beside EXCEPT ![n] = Unsettled] /\ signal' = FALSE
      /\ call' = [call EXCEPT ![c] = IF c \in Skills THEN [pc |-> "poll", goal |-> n] ELSE NoCall]
  BY DEF Accept
<1>4. n > state.goal /\ n # state.goal /\ ~(n <= state.goal)
  BY <1>1
<1>. HIDE DEF n, t
<1>5. /\ exec' \in [Goals -> TaskState] /\ exec'[n] = t
      /\ \A h \in Goals : h # n => exec'[h] = exec[h]
  BY <1>1, <1>2, <1>3 DEF DriveInv, TaskInv
<1>6. state' \in [status: Statuses, goal: 0..MaxGoals] /\ state'.goal = n /\ state'.status = "active"
  BY <1>1, <1>3 DEF Statuses
<1>7. Unsettled \subseteq Goals /\ beside \in [Goals -> SUBSET Goals]
  BY DEF Unsettled, DriveInv, BesideInv
<1>8. /\ beside' \in [Goals -> SUBSET Goals] /\ beside'[n] = Unsettled
      /\ \A k \in Goals : k # n => beside'[k] = beside[k]
  BY <1>1, <1>3, <1>7
<1>9. exec[n].pc = "none"
  BY <1>1, <1>4 DEF DriveInv, TaskInv, At
<1>10. /\ call' \in [Callers -> CallState] /\ call'[c].pc \in {"none", "poll"}
       /\ call'[c].goal \in {0, n} /\ (call'[c].pc = "poll" => call'[c].goal = n)
       /\ \A d \in Callers : d # c => call'[d] = call[d]
  BY <1>1, <1>3, NavBounds DEF DriveInv, CallInv, CallState, NoCall
<1>11. TaskInv'
  <2>1. ASSUME NEW h \in Goals
        PROVE  /\ h > n => exec'[h].pc = "none"
               /\ exec'[h].pc = "stop" => exec'[h].verdict \in Outcomes
               /\ exec'[h].pc = "nopath" \/ exec'[h].noPath < MaxNoPath
    <3>1. CASE h = n
      BY <1>1, <1>2, <1>5, <3>1, NavBounds
    <3>2. CASE h # n
      <4>1. exec'[h] = exec[h] /\ (h > n => h > state.goal)
        BY <1>1, <1>4, <1>5, <3>2, NavBounds DEF Goals
      <4>. QED BY <4>1 DEF DriveInv, TaskInv, At
    <3>. QED BY <3>1, <3>2
  <2>. QED BY <1>5, <1>6, <2>1 DEF TaskInv, At
<1>12. BesideInv'
  <2>1. ASSUME NEW g \in Unsettled' PROVE g = n \/ g \in Unsettled
    <3>1. g \in Goals /\ (Live(g)' \/ \E d \in Callers : call'[d] = [pc |-> "await", goal |-> g])
      BY <2>1 DEF Unsettled
    <3>2. Live(g)' => g = n \/ Live(g)
      BY <1>5, <3>1 DEF Live
    <3>3. ASSUME NEW d \in Callers, call'[d] = [pc |-> "await", goal |-> g]
          PROVE  call[d] = [pc |-> "await", goal |-> g]
      BY <1>10, <3>3
    <3>. QED BY <3>1, <3>2, <3>3 DEF Unsettled
  <2>2. ASSUME NEW k \in Goals, k <= n, NEW g \in Unsettled', g < k PROVE g \in beside'[k]
    <3>1. g \in Goals /\ g # n
      BY <1>1, <2>2, NavBounds DEF Unsettled, Goals
    <3>2. CASE k = n
      BY <1>8, <2>1, <2>2, <3>1, <3>2
    <3>3. CASE k # n
      BY <1>1, <1>8, <2>1, <2>2, <3>1, <3>3 DEF DriveInv, BesideInv
    <3>. QED BY <3>2, <3>3
  <2>3. ASSUME NEW k \in Goals, k <= n, NEW g \in Goals, NEW j \in Goals, g < j, j < k, g \in beside'[k]
        PROVE  g \in beside'[j]
    <3>1. j # n /\ j <= state.goal
      BY <1>1, <2>3, NavBounds DEF Goals
    <3>2. CASE k = n
      <4>1. g \in Unsettled
        BY <1>8, <2>3, <3>2
      <4>. QED BY <1>8, <2>3, <3>1, <4>1 DEF DriveInv, BesideInv
    <3>3. CASE k # n
      <4>1. g \in beside[k] /\ k <= state.goal
        BY <1>1, <1>8, <2>3, <3>3
      <4>. QED BY <1>8, <2>3, <3>1, <4>1 DEF DriveInv, BesideInv
    <3>. QED BY <3>2, <3>3
  <2>. QED BY <1>6, <1>8, <2>2, <2>3 DEF BesideInv
<1>13. StatusInv'
  BY <1>1, <1>2, <1>5, <1>6 DEF StatusInv, Live, At, Active
<1>14. CallInv'
  <2>1. ASSUME NEW d \in Callers
        PROVE  call'[d].goal <= n /\ (call'[d].pc \in {"poll", "await"} => call'[d].goal \in Goals)
    <3>1. CASE d = c
      BY <1>1, <1>10, <3>1, NavBounds
    <3>2. CASE d # c
      <4>1. call'[d] = call[d] /\ call[d].goal \in 0..MaxGoals
        BY <1>10, <3>2 DEF DriveInv, CallInv, CallState
      <4>. QED BY <1>1, <4>1 DEF DriveInv, CallInv
    <3>. QED BY <3>1, <3>2
  <2>. QED BY <1>1, <1>6, <1>10, <2>1 DEF CallInv
<1>15. ReportInv'
  <2>1. ASSUME NEW d \in Skills, report[d] # 0
        PROVE  report[d] <= n /\ \E g \in Goals : Won(g, report[d])'
    <3>1. report[d] \in 0..MaxGoals /\ report[d] <= state.goal
      BY <2>1 DEF DriveInv, ReportInv
    <3>2. PICK g \in Goals : Won(g, report[d])
      BY <2>1 DEF DriveInv, ReportInv
    <3>3. report[d] \in Goals /\ report[d] # n /\ g # n
      BY <1>4, <1>9, <2>1, <3>1, <3>2, NavBounds DEF Goals, Won, At
    <3>4. Won(g, report[d])'
      BY <1>5, <1>8, <3>2, <3>3 DEF Won, At
    <3>. QED BY <1>1, <3>1, <3>4
  <2>. QED BY <1>6, <2>1 DEF DriveInv, ReportInv
<1>16. CancelHolds'
  BY <1>3 DEF CancelHolds
<1>17. Promised
  <2>1. beside'[n] = {} => ~Active
    BY <1>8 DEF DriveInv, StatusInv, Unsettled, Live
  <2>2. state' = [status |-> "active", goal |-> state.goal + 1] /\ state'.goal = n /\ n \in Goals
    BY <1>1, <1>3, <1>6 DEF n
  <2>3. Abstract!Accept
    BY <2>1, <2>2 DEF Abstract!Accept, Abstract!Begin, Abstract!Active, Active
  <2>. QED BY <2>3 DEF Promised, Abstract!Next
<1>. QED BY <1>3, <1>11, <1>12, <1>13, <1>14, <1>15, <1>16, <1>17 DEF DriveInv, Kept

\* Every step of the two clients keeps the invariant, and the promise of GoalLifecycle.
LEMMA DriveNextInv == ASSUME DriveInv, [Next]_vars PROVE Kept
<1>1. ASSUME NEW g \in Goals, Drive(g)
      PROVE Kept
  <2>. DEFINE t == [exec[g] EXCEPT !.pc = "drive", !.noPath = 0]
  <2>1. exec' = [exec EXCEPT ![g] = t] /\ At(g, "top") /\ Live(g) /\ ~signal
        /\ UNCHANGED <<provider, warm, state, signal, call, report, beside>>
    BY <1>1 DEF Drive, Passes, Guard, At, Live
  <2>2. exec[g] \in TaskState /\ exec[g].noPath < MaxNoPath /\ exec[g].pc = "top" /\ exec \in [Goals -> TaskState]
    BY <2>1 DEF DriveInv, TaskInv, At
  <2>3. t \in TaskState /\ t.pc = "drive" /\ t.noPath < MaxNoPath
    BY <2>2, NavBounds DEF TaskState
  <2>. HIDE DEF t
  <2>4. /\ exec' \in [Goals -> TaskState] /\ exec'[g] = t /\ \A h \in Goals : h # g => Quiet(h)
    BY <2>1, <2>2, <2>3 DEF Quiet
  <2>. QED BY <2>1, <2>2, <2>3, <2>4, OneGoesOn DEF At
<1>2. ASSUME NEW g \in Goals, Rotate(g) \/ DirectDrive(g) \/ DirectRotate(g)
      PROVE Kept
  <2>. DEFINE t == [exec[g] EXCEPT !.pc = "drive"]
  <2>1. exec' = [exec EXCEPT ![g] = t] /\ At(g, "top") /\ Live(g) /\ ~signal
        /\ UNCHANGED <<provider, warm, state, signal, call, report, beside>>
    BY <1>2 DEF Rotate, DirectDrive, DirectRotate, Moves, GoTo, Passes, Guard, At, Live
  <2>2. exec[g] \in TaskState /\ exec[g].noPath < MaxNoPath /\ exec[g].pc = "top" /\ exec \in [Goals -> TaskState]
    BY <2>1 DEF DriveInv, TaskInv, At
  <2>3. t \in TaskState /\ t.pc = "drive" /\ t.noPath < MaxNoPath
    BY <2>2, NavBounds DEF TaskState
  <2>. HIDE DEF t
  <2>4. /\ exec' \in [Goals -> TaskState] /\ exec'[g] = t /\ \A h \in Goals : h # g => Quiet(h)
    BY <2>1, <2>2, <2>3 DEF Quiet
  <2>. QED BY <2>1, <2>2, <2>3, <2>4, OneGoesOn DEF At
<1>3. ASSUME NEW g \in Goals, WaitToReplan(g)
      PROVE Kept
  <2>. DEFINE t == [exec[g] EXCEPT !.pc = "pause"]
  <2>1. exec' = [exec EXCEPT ![g] = t] /\ At(g, "top") /\ Live(g) /\ ~signal
        /\ UNCHANGED <<provider, warm, state, signal, call, report, beside>>
    BY <1>3 DEF WaitToReplan, GoTo, Passes, Guard, At, Live
  <2>2. exec[g] \in TaskState /\ exec[g].noPath < MaxNoPath /\ exec[g].pc = "top" /\ exec \in [Goals -> TaskState]
    BY <2>1 DEF DriveInv, TaskInv, At
  <2>3. t \in TaskState /\ t.pc = "pause" /\ t.noPath < MaxNoPath
    BY <2>2, NavBounds DEF TaskState
  <2>. HIDE DEF t
  <2>4. /\ exec' \in [Goals -> TaskState] /\ exec'[g] = t /\ \A h \in Goals : h # g => Quiet(h)
    BY <2>1, <2>2, <2>3 DEF Quiet
  <2>. QED BY <2>1, <2>2, <2>3, <2>4, OneGoesOn DEF At
<1>4. ASSUME NEW g \in Goals, CorridorBlocked(g)
      PROVE Kept
  <2>. DEFINE t == [exec[g] EXCEPT !.pc = "pause", !.noPath = 0]
  <2>1. exec' = [exec EXCEPT ![g] = t] /\ At(g, "top") /\ Live(g) /\ ~signal
        /\ UNCHANGED <<provider, warm, state, signal, call, report, beside>>
    BY <1>4 DEF CorridorBlocked, Passes, Guard, At, Live
  <2>2. exec[g] \in TaskState /\ exec[g].noPath < MaxNoPath /\ exec[g].pc = "top" /\ exec \in [Goals -> TaskState]
    BY <2>1 DEF DriveInv, TaskInv, At
  <2>3. t \in TaskState /\ t.pc = "pause" /\ t.noPath < MaxNoPath
    BY <2>2, NavBounds DEF TaskState
  <2>. HIDE DEF t
  <2>4. /\ exec' \in [Goals -> TaskState] /\ exec'[g] = t /\ \A h \in Goals : h # g => Quiet(h)
    BY <2>1, <2>2, <2>3 DEF Quiet
  <2>. QED BY <2>1, <2>2, <2>3, <2>4, OneGoesOn DEF At
<1>5. ASSUME NEW g \in Goals, NoPath(g)
      PROVE Kept
  <2>. DEFINE t == [exec[g] EXCEPT !.pc = "nopath", !.noPath = exec[g].noPath + 1]
  <2>1. exec' = [exec EXCEPT ![g] = t] /\ At(g, "top") /\ Live(g)
        /\ UNCHANGED <<provider, warm, state, signal, call, report, beside>>
    BY <1>5 DEF NoPath, Passes, At, Live
  <2>2. exec[g] \in TaskState /\ exec[g].noPath < MaxNoPath /\ exec[g].pc = "top" /\ exec \in [Goals -> TaskState]
    BY <2>1 DEF DriveInv, TaskInv, At
  <2>3. t \in TaskState /\ t.pc = "nopath"
    <3>1. exec[g].noPath + 1 \in 0..MaxNoPath
      BY <2>2, NavBounds DEF TaskState
    <3>. QED BY <2>2, <3>1 DEF TaskState
  <2>. HIDE DEF t
  <2>4. /\ exec' \in [Goals -> TaskState] /\ exec'[g] = t /\ \A h \in Goals : h # g => Quiet(h)
    BY <2>1, <2>2, <2>3 DEF Quiet
  <2>. QED BY <2>1, <2>2, <2>3, <2>4, OneGoesOn DEF At
<1>6. ASSUME NEW g \in Goals, DriveEnds(g)
      PROVE Kept
  <2>. DEFINE t == [exec[g] EXCEPT !.pc = "settle"]
  <2>1. exec' = [exec EXCEPT ![g] = t] /\ At(g, "drive") /\ Live(g)
        /\ UNCHANGED <<provider, warm, state, signal, call, report, beside>>
    BY <1>6 DEF DriveEnds, GoTo, At, Live
  <2>2. exec[g] \in TaskState /\ exec[g].noPath < MaxNoPath /\ exec[g].pc = "drive" /\ exec \in [Goals -> TaskState]
    BY <2>1 DEF DriveInv, TaskInv, At
  <2>3. t \in TaskState /\ t.pc = "settle" /\ t.noPath < MaxNoPath
    BY <2>2, NavBounds DEF TaskState
  <2>. HIDE DEF t
  <2>4. /\ exec' \in [Goals -> TaskState] /\ exec'[g] = t /\ \A h \in Goals : h # g => Quiet(h)
    BY <2>1, <2>2, <2>3 DEF Quiet
  <2>. QED BY <2>1, <2>2, <2>3, <2>4, OneGoesOn DEF At
<1>7. ASSUME NEW g \in Goals, Live(g), ~At(g, "cancelled"), NEW v \in Outcomes \union {"none"},
             NEW p \in {"stop", "fault"}, exec' = Leaving(exec, g, p, v), p = "stop" => v \in Outcomes,
             UNCHANGED <<provider, warm, state, signal, call, report, beside>>
      PROVE Kept
  <2>1. /\ exec' \in [Goals -> TaskState] /\ exec'[g].pc = p /\ exec'[g].verdict = v /\ exec'[g].noPath = 0
        /\ \A h \in Goals : h # g => Quiet(h)
    BY <1>7, LeavingShape DEF DriveInv, TaskInv
  <2>. QED BY <1>7, <2>1, OneGoesOn, NavBounds
<1>8. ASSUME NEW g \in Goals, GuardFails(g)
      PROVE Kept
  <2>1. Live(g) /\ ~At(g, "cancelled") /\ UNCHANGED <<provider, warm, state, signal, call, report, beside>>
    BY <1>8 DEF GuardFails, At, Live, Passes
  <2>2. PICK v \in Outcomes \union {"none"}, p \in {"stop", "fault"} :
          exec' = Leaving(exec, g, p, v) /\ (p = "stop" => v \in Outcomes)
    BY <1>8 DEF GuardFails, Outcomes, StopWith, Guard
  <2>. QED BY <1>7, <2>1, <2>2
<1>9. ASSUME NEW g \in Goals, SafetySignal(g)
      PROVE Kept
  <2>1. Live(g) /\ ~At(g, "cancelled") /\ UNCHANGED <<provider, warm, state, signal, call, report, beside>>
    BY <1>9 DEF SafetySignal, At, Live, Passes
  <2>2. PICK v \in Outcomes \union {"none"}, p \in {"stop", "fault"} :
          exec' = Leaving(exec, g, p, v) /\ (p = "stop" => v \in Outcomes)
    BY <1>9 DEF SafetySignal, Outcomes, StopWith, Guard
  <2>. QED BY <1>7, <2>1, <2>2
<1>10. ASSUME NEW g \in Goals, Obstacle(g)
      PROVE Kept
  <2>1. Live(g) /\ ~At(g, "cancelled") /\ UNCHANGED <<provider, warm, state, signal, call, report, beside>>
    BY <1>10 DEF Obstacle, At, Live, Passes
  <2>2. PICK v \in Outcomes \union {"none"}, p \in {"stop", "fault"} :
          exec' = Leaving(exec, g, p, v) /\ (p = "stop" => v \in Outcomes)
    BY <1>10 DEF Obstacle, Outcomes, StopWith, Guard
  <2>. QED BY <1>7, <2>1, <2>2
<1>11. ASSUME NEW g \in Goals, Aligned(g)
      PROVE Kept
  <2>1. Live(g) /\ ~At(g, "cancelled") /\ UNCHANGED <<provider, warm, state, signal, call, report, beside>>
    BY <1>11 DEF Aligned, At, Live, Passes
  <2>2. PICK v \in Outcomes \union {"none"}, p \in {"stop", "fault"} :
          exec' = Leaving(exec, g, p, v) /\ (p = "stop" => v \in Outcomes)
    BY <1>11 DEF Aligned, Outcomes, StopWith, Guard
  <2>. QED BY <1>7, <2>1, <2>2
<1>12. ASSUME NEW g \in Goals, Fault(g)
      PROVE Kept
  <2>1. Live(g) /\ ~At(g, "cancelled") /\ UNCHANGED <<provider, warm, state, signal, call, report, beside>>
    BY <1>12 DEF Fault, At, Live, Passes
  <2>2. PICK v \in Outcomes \union {"none"}, p \in {"stop", "fault"} :
          exec' = Leaving(exec, g, p, v) /\ (p = "stop" => v \in Outcomes)
    BY <1>12 DEF Fault, Outcomes, StopWith, Guard
  <2>. QED BY <1>7, <2>1, <2>2
<1>13. ASSUME NEW g \in Goals, At(g, "top"), Turn(g),
             UNCHANGED <<provider, warm, state, signal, call, report, beside>>
      PROVE Kept
  <2>. DEFINE t == [exec[g] EXCEPT !.leg = "turn", !.noProgress = 0]
  <2>1. exec' = [exec EXCEPT ![g] = t]
    BY <1>13 DEF Turn
  <2>2. exec[g] \in TaskState /\ exec[g].noPath < MaxNoPath /\ exec[g].pc = "top" /\ exec \in [Goals -> TaskState]
    BY <1>13 DEF DriveInv, TaskInv, At
  <2>3. t \in TaskState /\ t.pc = "top" /\ t.noPath < MaxNoPath
    BY <2>2, NavBounds DEF TaskState
  <2>. HIDE DEF t
  <2>4. /\ exec' \in [Goals -> TaskState] /\ exec'[g] = t /\ \A h \in Goals : h # g => Quiet(h)
    BY <2>1, <2>2, <2>3 DEF Quiet
  <2>. QED BY <1>13, <2>2, <2>3, <2>4, OneGoesOn DEF At, Live
<1>14. ASSUME NEW g \in Goals, Reached(g)
      PROVE Kept
  <2>1. Live(g) /\ At(g, "top") /\ UNCHANGED <<provider, warm, state, signal, call, report, beside>>
    BY <1>14 DEF Reached, At, Live, Passes
  <2>2. Turn(g) \/ exec' = Leaving(exec, g, "stop", "succeeded")
    BY <1>14 DEF Reached, StopWith
  <2>3. ~At(g, "cancelled") /\ "succeeded" \in Outcomes
    BY <2>1 DEF At, Outcomes
  <2>. QED BY <1>7, <1>13, <2>1, <2>2, <2>3
<1>15. ASSUME NEW g \in Goals, Settled(g)
      PROVE Kept
  <2>1. Live(g) /\ ~At(g, "cancelled") /\ At(g, "settle") /\ UNCHANGED <<provider, warm, state, signal, call, report, beside>>
    BY <1>15 DEF Settled, At, Live
  <2>2. exec[g] \in TaskState /\ exec[g].noPath < MaxNoPath /\ exec \in [Goals -> TaskState]
    BY <2>1 DEF DriveInv, TaskInv, At
  <2>3. \/ exec' = Leaving(exec, g, "stop", "no_progress")
        \/ \E k \in 0..MaxNoProgress : exec' = [exec EXCEPT ![g].pc = "top", ![g].noProgress = k]
    <3>1. exec[g].noProgress \in 0..MaxNoProgress
      BY <2>2 DEF TaskState
    <3>2. exec[g].noProgress + 1 < MaxNoProgress => exec[g].noProgress + 1 \in 0..MaxNoProgress
      BY <3>1, NavBounds
    <3>. QED BY <1>15, <3>2, NavBounds DEF Settled, StopWith
  <2>4. CASE exec' = Leaving(exec, g, "stop", "no_progress")
    <3>1. "no_progress" \in Outcomes
      BY DEF Outcomes
    <3>. QED BY <1>7, <2>1, <2>4, <3>1
  <2>5. ASSUME NEW k \in 0..MaxNoProgress, exec' = [exec EXCEPT ![g].pc = "top", ![g].noProgress = k]
        PROVE  Kept
    <3>. DEFINE t == [exec[g] EXCEPT !.pc = "top", !.noProgress = k]
    <3>1. exec' = [exec EXCEPT ![g] = t]
      BY <2>5
    <3>2. t \in TaskState /\ t.pc = "top" /\ t.noPath < MaxNoPath
      BY <2>2 DEF TaskState
    <3>. HIDE DEF t
    <3>3. /\ exec' \in [Goals -> TaskState] /\ exec'[g] = t /\ \A h \in Goals : h # g => Quiet(h)
      BY <2>2, <3>1, <3>2 DEF Quiet
    <3>. QED BY <2>1, <3>2, <3>3, OneGoesOn
  <2>. QED BY <2>3, <2>4, <2>5
<1>16. ASSUME NEW g \in Goals, Live(g), ~At(g, "cancelled"), exec[g].noPath < MaxNoPath,
             exec' = [Halted(exec) EXCEPT ![g].pc = "top"],
             UNCHANGED <<provider, warm, state, signal, call, report, beside>>
      PROVE Kept
  <2>1. /\ Halted(exec) \in [Goals -> TaskState]
        /\ \A h \in Goals : /\ Halted(exec)[h].noPath = exec[h].noPath
                            /\ Halted(exec)[h].verdict = exec[h].verdict
                            /\ Halted(exec)[h].pc = exec[h].pc \/ (At(h, "drive") /\ Halted(exec)[h].pc = "settle")
    BY HaltedShape DEF DriveInv, TaskInv
  <2>. DEFINE t == [Halted(exec)[g] EXCEPT !.pc = "top"]
  <2>2. exec' = [Halted(exec) EXCEPT ![g] = t]
    BY <1>16
  <2>3. t \in TaskState /\ t.pc = "top" /\ t.noPath = exec[g].noPath
    BY <2>1 DEF TaskState
  <2>. HIDE DEF t
  <2>4. /\ exec' \in [Goals -> TaskState] /\ exec'[g] = t /\ \A h \in Goals : h # g => Quiet(h)
    BY <2>1, <2>2, <2>3 DEF Quiet
  <2>. QED BY <1>16, <2>3, <2>4, OneGoesOn
<1>17. ASSUME NEW g \in Goals, PauseReturns(g)
      PROVE Kept
  <2>1. Live(g) /\ At(g, "pause") /\ exec' = [Halted(exec) EXCEPT ![g].pc = "top"]
        /\ UNCHANGED <<provider, warm, state, signal, call, report, beside>>
    BY <1>17 DEF PauseReturns, At, Live
  <2>2. ~At(g, "cancelled") /\ exec[g].noPath < MaxNoPath
    BY <2>1 DEF DriveInv, TaskInv, At
  <2>. QED BY <1>16, <2>1, <2>2
<1>18. ASSUME NEW g \in Goals, DirectAligned(g)
      PROVE Kept
  <2>1. Live(g) /\ UNCHANGED <<provider, warm, signal, call, report, beside>>
        /\ exec' = Ended(exec, g, "succeeded") /\ Finish("succeeded") /\ (At(g, "cancelled") => "succeeded" = "canceled")
    BY <1>18 DEF DirectAligned, At, Live, Passes
  <2>2. "succeeded" \in Outcomes
    BY <1>18 DEF DirectAligned, Outcomes, DriveInv, TaskInv
  <2>. QED BY <2>1, <2>2, OneEnds
<1>19. ASSUME NEW g \in Goals, Blind(g)
      PROVE Kept
  <2>1. Live(g) /\ UNCHANGED <<provider, warm, signal, call, report, beside>>
        /\ exec' = Ended(exec, g, "unavailable") /\ Finish("unavailable") /\ (At(g, "cancelled") => "unavailable" = "canceled")
    BY <1>19 DEF Blind, At, Live, Passes
  <2>2. "unavailable" \in Outcomes
    BY <1>19 DEF Blind, Outcomes, DriveInv, TaskInv
  <2>. QED BY <2>1, <2>2, OneEnds
<1>20. ASSUME NEW g \in Goals, StopReturns(g)
      PROVE Kept
  <2>1. Live(g) /\ UNCHANGED <<provider, warm, signal, call, report, beside>>
        /\ exec' = Ended(Halted(exec), g, exec[g].verdict) /\ Finish(exec[g].verdict) /\ (At(g, "cancelled") => exec[g].verdict = "canceled")
    BY <1>20 DEF StopReturns, At, Live, Passes
  <2>2. exec[g].verdict \in Outcomes
    BY <1>20 DEF StopReturns, Outcomes, DriveInv, TaskInv
  <2>. QED BY <2>1, <2>2, OneEnds
<1>21. ASSUME NEW g \in Goals, FaultReturns(g)
      PROVE Kept
  <2>1. Live(g) /\ UNCHANGED <<provider, warm, signal, call, report, beside>>
        /\ exec' = Ended(Halted(exec), g, "failed") /\ Finish("failed") /\ (At(g, "cancelled") => "failed" = "canceled")
    BY <1>21 DEF FaultReturns, At, Live, Passes
  <2>2. "failed" \in Outcomes
    BY <1>21 DEF FaultReturns, Outcomes, DriveInv, TaskInv
  <2>. QED BY <2>1, <2>2, OneEnds
<1>22. ASSUME NEW g \in Goals, Cancelled(g)
      PROVE Kept
  <2>1. Live(g) /\ UNCHANGED <<provider, warm, signal, call, report, beside>>
        /\ exec' = Ended(exec, g, "canceled") /\ Finish("canceled") /\ (At(g, "cancelled") => "canceled" = "canceled")
    BY <1>22 DEF Cancelled, At, Live, Passes
  <2>2. "canceled" \in Outcomes
    BY <1>22 DEF Cancelled, Outcomes, DriveInv, TaskInv
  <2>. QED BY <2>1, <2>2, OneEnds
<1>23. ASSUME NEW g \in Goals, NoPathReturns(g)
      PROVE Kept
  <2>1. Live(g) /\ At(g, "nopath") /\ UNCHANGED <<provider, warm, signal, call, report, beside>>
        /\ ~At(g, "cancelled") /\ exec[g].noPath \in 0..MaxNoPath /\ "failed" \in Outcomes
    BY <1>23 DEF NoPathReturns, At, Live, DriveInv, TaskInv, TaskState, Outcomes
  <2>2. CASE exec[g].noPath = MaxNoPath
    <3>1. exec' = Ended(Halted(exec), g, "failed") /\ Finish("failed")
      BY <1>23, <2>2 DEF NoPathReturns
    <3>. QED BY <2>1, <3>1, OneEnds
  <2>3. CASE exec[g].noPath # MaxNoPath
    <3>1. exec' = [Halted(exec) EXCEPT ![g].pc = "top"] /\ UNCHANGED state
      BY <1>23, <2>3 DEF NoPathReturns
    <3>2. exec[g].noPath < MaxNoPath
      BY <2>1, <2>3, NavBounds
    <3>. QED BY <1>16, <2>1, <3>1, <3>2
  <2>. QED BY <2>2, <2>3
<1>24. ASSUME NEW g \in Goals, DirectReached(g)
      PROVE Kept
  <2>1. Live(g) /\ At(g, "top") /\ UNCHANGED <<provider, warm, signal, call, report, beside>>
        /\ ~At(g, "cancelled") /\ "succeeded" \in Outcomes
    BY <1>24 DEF DirectReached, Passes, At, Live, Outcomes
  <2>2. \/ Turn(g) /\ UNCHANGED state
        \/ exec' = Ended(exec, g, "succeeded") /\ Finish("succeeded")
    BY <1>24 DEF DirectReached
  <2>. QED BY <1>13, <2>1, <2>2, OneEnds
<1>25. ASSUME Tick
      PROVE Kept
  <2>1. UNCHANGED <<provider, warm, state, signal, call, report, beside>>
    BY <1>25 DEF Tick
  <2>2. exec' = [g \in Goals |-> [exec[g] EXCEPT !.left = IF @ > 0 THEN @ - 1 ELSE 0]]
    BY <1>25 DEF Tick
  <2>3. ASSUME NEW h \in Goals
        PROVE  /\ exec'[h] \in TaskState /\ exec'[h].pc = exec[h].pc
               /\ exec'[h].verdict = exec[h].verdict /\ exec'[h].noPath = exec[h].noPath
    <3>. DEFINE k == IF exec[h].left > 0 THEN exec[h].left - 1 ELSE 0
    <3>1. exec[h] \in TaskState
      BY DEF DriveInv, TaskInv
    <3>2. k \in 0..MaxDuration
      BY <3>1, NavBounds DEF TaskState
    <3>3. exec'[h] = [exec[h] EXCEPT !.left = k]
      BY <2>2
    <3>. HIDE DEF k
    <3>. QED BY <3>1, <3>2, <3>3 DEF TaskState
  <2>4. exec' \in [Goals -> TaskState] /\ \A h \in Goals : Quiet(h)
    BY <2>2, <2>3 DEF Quiet
  <2>5. TaskInv' /\ StatusInv' /\ Keeps /\ Promised
    BY <2>1, <2>4, TasksSame DEF DriveInv
  <2>6. CallInv' /\ BesideInv' /\ ReportInv' /\ CancelHolds'
    BY <2>1, <2>3, <2>5, CallsSame, ReportsSame, HoldSame DEF DriveInv, At
  <2>. QED BY <2>1, <2>5, <2>6 DEF DriveInv, Kept
<1>26. ASSUME Watch
      PROVE Kept
  <2>1. UNCHANGED <<provider, warm, signal, exec, call, report, beside>> /\ \A h \in Goals : Quiet(h)
    BY <1>26 DEF Watch, Quiet
  <2>2. \/ UNCHANGED state
        \/ ~Live(state.goal) /\ state.status = "unavailable"
           /\ state' = [state EXCEPT !.status = "idle"]
    BY <1>26 DEF Watch, Seen
  <2>3. TaskInv' /\ StatusInv' /\ Keeps /\ Promised
    BY <2>1, <2>2, TasksSame DEF DriveInv, TaskInv
  <2>4. CallInv' /\ BesideInv' /\ ReportInv' /\ CancelHolds'
    BY <2>1, <2>3, CallsSame, ReportsSame, HoldSame DEF DriveInv, At
  <2>. QED BY <2>1, <2>3, <2>4 DEF DriveInv, Kept
<1>27. ASSUME FirstState
      PROVE Kept
  <2>1. UNCHANGED <<provider, state, signal, exec, call, report, beside>> /\ warm' = TRUE
    BY <1>27 DEF FirstState
  <2>2. Keeps
    BY <2>1 DEF Keeps, Live, At
  <2>3. CallInv' /\ BesideInv' /\ CancelHolds'
    BY <2>1, <2>2, CallsSame, HoldSame DEF DriveInv, At
  <2>. QED BY <2>1, <2>3, OneMoves DEF DriveInv
<1>28. ASSUME NEW c \in Skills, Poll(c)
      PROVE Kept
  <2>1. UNCHANGED <<provider, warm, signal, exec, beside>> /\ c \in Callers /\ call[c].pc = "poll"
        /\ \A h \in Goals : Quiet(h)
    BY <1>28 DEF Poll, Callers, Quiet
  <2>2. \/ UNCHANGED state
        \/ ~Live(state.goal) /\ state.status = "unavailable"
           /\ state' = [state EXCEPT !.status = "idle"]
    BY <1>28 DEF Poll, Seen
  <2>3. TaskInv' /\ StatusInv' /\ Keeps /\ Promised
    BY <2>1, <2>2, TasksSame DEF DriveInv, TaskInv
  <2>4. CASE state'.status \in Outcomes
    <3>1. /\ report' = IF state'.status = "succeeded" THEN [report EXCEPT ![c] = call[c].goal] ELSE report
          /\ Return(c)
      BY <1>28, <2>4 DEF Poll
    <3>2. CallInv' /\ BesideInv' /\ \A d \in Callers : d # c => call'[d] = call[d]
      BY <2>1, <2>3, <3>1, CallReturns DEF DriveInv
    <3>3. CancelHolds'
      <4>1. \A d \in Callers : call[d].pc = "stop" => call'[d].pc = "stop"
        BY <2>1, <3>2
      <4>. QED BY <2>1, <4>1, HoldSame DEF DriveInv, At
    <3>4. call[c].goal \in Goals /\ call[c].goal <= state.goal /\ state.goal \in 0..MaxGoals
      BY <2>1 DEF DriveInv, CallInv, TaskInv
    <3>5. ASSUME state'.status = "succeeded" PROVE \E g \in Goals : Won(g, call[c].goal)
      <4>1. state.status = "succeeded"
        BY <2>2, <3>5 DEF DriveInv, TaskInv
      <4>2. state.goal \in Goals
        BY <4>1 DEF DriveInv, StatusInv
      <4>3. PICK g \in Goals : Won(g, state.goal)
        BY <4>1 DEF DriveInv, StatusInv
      <4>4. Won(g, call[c].goal)
        <5>1. CASE g >= call[c].goal
          BY <4>3, <5>1 DEF Won
        <5>2. CASE ~(g >= call[c].goal)
          <6>1. g < call[c].goal /\ g < state.goal
            BY <3>4, <5>2, NavBounds DEF Goals
          <6>2. g \in beside[state.goal]
            <7>1. ~(g >= state.goal)
              BY <3>4, <6>1, NavBounds DEF Goals
            <7>. QED BY <4>3, <7>1 DEF Won
          <6>3. state.goal <= state.goal /\ (call[c].goal = state.goal \/ call[c].goal < state.goal)
            BY <3>4, NavBounds DEF Goals
          <6>4. CASE call[c].goal < state.goal
            <7>1. g \in beside[call[c].goal]
              BY <3>4, <4>2, <6>1, <6>2, <6>3, <6>4 DEF DriveInv, BesideInv
            <7>. QED BY <4>3, <7>1 DEF Won
          <6>. QED BY <4>3, <6>3, <6>4
        <5>. QED BY <5>1, <5>2
      <4>. QED BY <4>4
    <3>6. ReportInv'
      <4>1. CASE state'.status = "succeeded"
        <5>1. report' = [report EXCEPT ![c] = call[c].goal] /\ report \in [Skills -> 0..MaxGoals]
          BY <3>1, <4>1 DEF DriveInv, ReportInv
        <5>2. call[c].goal \in 0..MaxGoals
          BY <3>4, NavBounds DEF Goals
        <5>3. \A d \in Skills : report'[d] = IF d = c THEN call[c].goal ELSE report[d]
          BY <5>1
        <5>4. report' \in [Skills -> 0..MaxGoals]
          BY <5>1, <5>2
        <5>5. UNCHANGED <<exec, beside>> /\ state'.goal = state.goal
          BY <2>1, <2>3 DEF Keeps
        <5>6. \A g \in Goals, k \in 0..MaxGoals : Won(g, k) => Won(g, k)'
          BY <5>5 DEF Won, At
        <5>7. ASSUME NEW d \in Skills, report'[d] # 0
              PROVE  report'[d] <= state'.goal /\ \E g \in Goals : Won(g, report[d])'
          <6>1. ASSUME NEW k \in 0..MaxGoals, report'[d] = k, k <= state.goal,
                       \E g \in Goals : Won(g, k)
                PROVE  report'[d] <= state'.goal /\ \E g \in Goals : Won(g, report[d])'
            <7>1. PICK g \in Goals : Won(g, k)
              BY <6>1
            <7>2. Won(g, k)'
              BY <5>6, <7>1
            <7>3. Won(g, report[d])'
              BY <6>1, <7>2 DEF Won, At
            <7>. QED BY <5>5, <6>1, <7>3
          <6>2. CASE d = c
            BY <3>4, <3>5, <4>1, <5>2, <5>3, <6>1, <6>2
          <6>3. CASE d # c
            <7>1. report'[d] = report[d] /\ report[d] \in 0..MaxGoals
              BY <5>1, <5>3, <6>3
            <7>. QED BY <5>7, <6>1, <7>1 DEF DriveInv, ReportInv
          <6>. QED BY <6>2, <6>3
        <5>. QED BY <5>4, <5>7 DEF ReportInv
      <4>2. CASE state'.status # "succeeded"
        BY <2>3, <3>1, <4>2, ReportsSame DEF DriveInv
      <4>. QED BY <4>1, <4>2
    <3>. QED BY <2>1, <2>3, <3>2, <3>3, <3>6 DEF DriveInv, Kept
  <2>5. CASE state'.status \notin Outcomes
    <3>1. UNCHANGED <<call, report>>
      BY <1>28, <2>5 DEF Poll
    <3>2. CallInv' /\ BesideInv' /\ ReportInv' /\ CancelHolds'
      BY <2>1, <2>3, <3>1, CallsSame, ReportsSame, HoldSame DEF DriveInv, At
    <3>. QED BY <2>1, <2>3, <3>2 DEF DriveInv, Kept
  <2>. QED BY <2>4, <2>5
<1>29. ASSUME NEW c \in Callers, Return(c), call[c].pc # "stop",
             UNCHANGED <<provider, warm, state, signal, exec, report, beside>>
      PROVE Kept
  <2>1. Keeps
    BY <1>29 DEF Keeps, Live, At
  <2>2. CallInv' /\ BesideInv' /\ \A d \in Callers : d # c => call'[d] = call[d]
    BY <1>29, <2>1, CallReturns DEF DriveInv
  <2>3. CancelHolds'
    <3>1. \A d \in Callers : call[d].pc = "stop" => call'[d].pc = "stop"
      BY <1>29, <2>2
    <3>. QED BY <1>29, <3>1, HoldSame DEF DriveInv, At
  <2>. QED BY <1>29, <2>2, <2>3, OneMoves DEF DriveInv
<1>30. ASSUME NEW c \in Skills, Abandon(c)
      PROVE Kept
  <2>1. c \in Callers /\ Return(c) /\ call[c].pc # "stop"
        /\ UNCHANGED <<provider, warm, state, signal, exec, report, beside>>
    BY <1>30 DEF Abandon, Callers, Return
  <2>. QED BY <1>29, <2>1
<1>31. ASSUME NEW c \in Callers, SensorsMissing(c)
      PROVE Kept
  <2>1. Return(c) /\ call[c].pc # "stop"
        /\ UNCHANGED <<provider, warm, state, signal, exec, report, beside>>
    BY <1>31 DEF SensorsMissing, Return
  <2>. QED BY <1>29, <2>1
<1>32. ASSUME NEW c \in Callers, SensorsAnswer(c)
      PROVE Kept
  <2>1. UNCHANGED <<provider, warm, report>> /\ Accept(c)
    BY <1>32 DEF SensorsAnswer
  <2>. QED BY <2>1, GoalAccepted
<1>33. ASSUME NEW c \in Callers, SetRelative(c) \/ SetAbsolute(c)
      PROVE Kept
  <2>1. UNCHANGED <<provider, warm, report>> /\ call[c] = NoCall
    BY <1>33 DEF SetRelative, SetAbsolute
  <2>2. CASE Accept(c)
    BY <2>1, <2>2, GoalAccepted
  <2>3. CASE call' = [call EXCEPT ![c].pc = "sensors"] /\ UNCHANGED <<state, signal, exec, beside>>
    <3>1. /\ call' \in [Callers -> CallState] /\ call'[c].pc = "sensors"
          /\ call'[c].goal = call[c].goal /\ \A d \in Callers : d # c => call'[d] = call[d]
      BY <2>3 DEF DriveInv, CallInv, CallState
    <3>2. Keeps /\ call[c].goal <= state.goal
      BY <2>3 DEF DriveInv, CallInv, Keeps, Live, At
    <3>3. CallInv' /\ BesideInv'
      BY <3>1, <3>2, CallMoves DEF DriveInv
    <3>4. CancelHolds'
      <4>1. \A d \in Callers : call[d].pc = "stop" => call'[d].pc = "stop"
        BY <2>1, <3>1 DEF NoCall
      <4>. QED BY <2>3, <4>1, HoldSame DEF DriveInv, At
    <3>. QED BY <2>1, <2>3, <3>3, <3>4, OneMoves DEF DriveInv
  <2>. QED BY <1>33, <2>2, <2>3 DEF SetRelative, SetAbsolute
<1>34. ASSUME NEW c \in Callers, NEW k \in 0..MaxGoals, CancelCall(c, k), call[c].pc # "stop",
             UNCHANGED <<provider, warm, state, exec, report, beside>>
      PROVE Kept
  <2>1. CASE Active /\ call' = [call EXCEPT ![c].pc = "stop"] /\ signal' = TRUE
    <3>1. /\ call' \in [Callers -> CallState] /\ call'[c].pc = "stop"
          /\ call'[c].goal = call[c].goal /\ \A d \in Callers : d # c => call'[d] = call[d]
      BY <2>1 DEF DriveInv, CallInv, CallState
    <3>2. state.goal \in Goals /\ call[c].goal <= state.goal /\ Keeps
      BY <1>34, <2>1 DEF DriveInv, StatusInv, Live, CallInv, Keeps, At
    <3>3. CallInv' /\ BesideInv'
      BY <3>1, <3>2, CallMoves DEF DriveInv
    <3>4. CancelHolds'
      BY <3>1 DEF CancelHolds
    <3>. QED BY <1>34, <2>1, <3>3, <3>4, OneMoves DEF DriveInv
  <2>2. CASE Return(c) /\ UNCHANGED signal
    BY <1>34, <1>29, <2>2
  <2>. QED BY <1>34, <2>1, <2>2 DEF CancelCall
<1>35. ASSUME NEW c \in Callers, DeskCancels(c)
      PROVE Kept
  <2>1. CancelCall(c, 0) /\ call[c].pc # "stop" /\ UNCHANGED <<provider, warm, state, exec, report, beside>>
    BY <1>35 DEF DeskCancels, NoCall
  <2>. QED BY <1>34, <2>1, NavBounds
<1>36. ASSUME NEW c \in Skills, SkillTimesOut(c)
      PROVE Kept
  <2>1. c \in Callers /\ CancelCall(c, call[c].goal) /\ call[c].pc # "stop"
        /\ UNCHANGED <<provider, warm, state, exec, report, beside>>
    BY <1>36 DEF SkillTimesOut, Callers
  <2>2. call[c].goal \in 0..MaxGoals
    BY <2>1 DEF DriveInv, CallInv, CallState
  <2>. QED BY <1>34, <2>1, <2>2
<1>37. ASSUME NEW c \in Callers, CancelReturns(c)
      PROVE Kept
  <2>1. UNCHANGED <<provider, warm, signal, exec, report, beside>> /\ Return(c)
        /\ call[c].pc = "await" /\ ~Live(call[c].goal)
        /\ (IF Active THEN Finish("canceled") ELSE UNCHANGED state)
    BY <1>37 DEF CancelReturns
  <2>2. CASE ~Active
    BY <1>29, <2>1, <2>2
  <2>3. CASE Active
    <3>1. call[c] = [pc |-> "await", goal |-> call[c].goal] /\ call[c].goal \in Goals
          /\ call[c].goal <= state.goal
      BY <2>1 DEF DriveInv, CallInv, CallState
    <3>2. call[c].goal \in Unsettled /\ call[c].goal # state.goal
      BY <2>1, <2>3, <3>1 DEF Unsettled, DriveInv, StatusInv
    <3>3. state.goal \in Goals /\ beside[state.goal] # {}
      BY <3>1, <3>2, OlderIsBeside DEF DriveInv
    <3>4. "canceled" \in Outcomes /\ Finish("canceled")
      BY <2>1, <2>3 DEF Outcomes
    <3>5. /\ state'.goal = state.goal /\ state'.status = "canceled"
          /\ state' \in [status: Statuses, goal: 0..MaxGoals]
      BY <3>4 DEF Finish, DriveInv, TaskInv, Statuses
    <3>6. TaskInv' /\ StatusInv' /\ Keeps
      BY <2>1, <3>3, <3>5 DEF DriveInv, TaskInv, StatusInv, Keeps, Live, At, Active
    <3>7. Promised
      BY <2>1, <3>3, <3>4, OutcomeTold DEF DriveInv
    <3>8. CallInv' /\ BesideInv' /\ \A d \in Callers : d # c => call'[d] = call[d]
      BY <2>1, <3>6, CallReturns DEF DriveInv
    <3>9. CancelHolds'
      <4>1. \A d \in Callers : call[d].pc = "stop" => call'[d].pc = "stop"
        BY <2>1, <3>8
      <4>. QED BY <2>1, <4>1, HoldSame DEF DriveInv, At
    <3>10. ReportInv'
      BY <2>1, <3>6, ReportsSame DEF DriveInv
    <3>. QED BY <2>1, <3>6, <3>7, <3>8, <3>9, <3>10 DEF DriveInv, Kept
  <2>. QED BY <2>2, <2>3
<1>38. ASSUME NEW c \in Callers, CancelGivesUp(c)
      PROVE Kept
  <2>. DEFINE g == call[c].goal
  <2>1. UNCHANGED <<provider, warm, signal, report, beside>> /\ Return(c) /\ call[c].pc = "await"
        /\ Live(g) /\ g \in Goals
        /\ (IF Active THEN Finish("canceled") ELSE UNCHANGED state)
    BY <1>38 DEF CancelGivesUp, Live
  <2>2. \/ At(g, "fault") /\ exec' = Leaving(exec, g, "done", "none")
        \/ exec' = Leaving(exec, g, "cancelled", "none")
    BY <1>38 DEF CancelGivesUp, Ended
  <2>. HIDE DEF g
  <2>3. "canceled" \in Outcomes /\ "canceled" # "succeeded"
    BY DEF Outcomes
  <2>4. ASSUME NEW p \in {"done", "cancelled"}, exec' = Leaving(exec, g, p, "none")
        PROVE  /\ exec' \in [Goals -> TaskState] /\ exec'[g].pc = p /\ exec'[g].noPath = 0
               /\ \A h \in Goals : exec'[h].pc = "drive" => At(h, "drive")
               /\ \A h \in Goals : h # g => Quiet(h)
    BY <2>1, <2>4, LeavingShape DEF DriveInv, TaskInv
  <2>5. TaskInv' /\ StatusInv' /\ Keeps /\ Promised
    <3>1. CASE At(g, "fault") /\ exec' = Leaving(exec, g, "done", "none")
      BY <2>1, <2>3, <2>4, <3>1, TaskEnds DEF DriveInv, At
    <3>2. CASE exec' = Leaving(exec, g, "cancelled", "none")
      BY <2>1, <2>4, <3>2, TaskDies DEF DriveInv
    <3>. QED BY <2>2, <3>1, <3>2
  <2>6. CallInv' /\ BesideInv' /\ \A d \in Callers : d # c => call'[d] = call[d]
    BY <2>1, <2>5, CallReturns DEF DriveInv
  <2>7. CancelHolds'
    <3>1. \A d \in Callers : call[d].pc = "stop" => call'[d].pc = "stop"
      BY <2>1, <2>6
    <3>2. \A h \in Goals : exec'[h].pc = "drive" => At(h, "drive")
      BY <2>2, <2>4
    <3>. QED BY <2>1, <3>1, <3>2, HoldSame DEF DriveInv
  <2>8. ReportInv'
    BY <2>1, <2>5, ReportsSame DEF DriveInv
  <2>. QED BY <2>1, <2>5, <2>6, <2>7, <2>8 DEF DriveInv, Kept
<1>39. ASSUME NEW c \in Callers, CancelStops(c)
      PROVE Kept
  <2>. DEFINE g == state.goal
              e == Halted(exec)
  <2>1. UNCHANGED <<provider, warm, signal, report, beside>> /\ call[c].pc = "stop"
        /\ exec \in [Goals -> TaskState] /\ g \in Goals
    BY <1>39 DEF CancelStops, DriveInv, TaskInv, CallInv
  <2>2. /\ e \in [Goals -> TaskState]
        /\ \A h \in Goals : /\ e[h].noPath = exec[h].noPath
                            /\ e[h].verdict = exec[h].verdict /\ e[h].pc # "drive"
                            /\ e[h].pc = exec[h].pc \/ (At(h, "drive") /\ e[h].pc = "settle")
    BY <2>1, HaltedShape
  <2>3. \/ exec' = e /\ Return(c) /\ UNCHANGED state
        \/ /\ At(g, "fault") /\ exec' = Ended(e, g, "canceled")
           /\ Finish("canceled") /\ Return(c)
        \/ /\ Live(g) /\ exec' \in {e, Leaving(e, g, "cancelled", "none")}
           /\ call' = [call EXCEPT ![c] = [pc |-> "await", goal |-> g]]
           /\ UNCHANGED state
    BY <1>39 DEF CancelStops
  <2>4. e \in {exec, Halted(exec)} /\ (e = exec => \A h \in Goals : ~At(h, "drive"))
    BY <2>2 DEF At
  <2>. HIDE DEF g, e
  <2>5. ASSUME exec' = e, UNCHANGED state
        PROVE  TaskInv' /\ StatusInv' /\ Keeps /\ Promised
    <3>1. \A h \in Goals : Quiet(h)
      BY <2>2, <2>5 DEF Quiet
    <3>. QED BY <2>1, <2>2, <2>5, <3>1, TasksSame DEF DriveInv
  <2>6. ASSUME NEW p \in {"done", "cancelled"}, exec' = Leaving(e, g, p, "none")
        PROVE  /\ exec' \in [Goals -> TaskState] /\ exec'[g].pc = p /\ exec'[g].noPath = 0
               /\ \A h \in Goals : exec'[h].pc # "drive"
               /\ \A h \in Goals : h # g => Quiet(h)
    BY <2>1, <2>4, <2>6, LeavingShape
  <2>7. CASE exec' = e /\ Return(c) /\ UNCHANGED state
    <3>1. CallInv' /\ BesideInv' /\ ReportInv'
      BY <2>1, <2>5, <2>7, CallReturns, ReportsSame DEF DriveInv
    <3>2. CancelHolds'
      BY <2>2, <2>7 DEF CancelHolds, At
    <3>. QED BY <2>1, <2>5, <2>7, <3>1, <3>2 DEF DriveInv, Kept
  <2>8. CASE At(g, "fault") /\ exec' = Ended(e, g, "canceled") /\ Finish("canceled") /\ Return(c)
    <3>1. exec' = Leaving(e, g, "done", "none") /\ "canceled" \in Outcomes /\ Live(g)
      BY <2>1, <2>8 DEF Ended, Outcomes, Live, At
    <3>2. TaskInv' /\ StatusInv' /\ Keeps /\ Promised
      BY <2>1, <2>6, <2>8, <3>1, TaskEnds DEF DriveInv, At
    <3>3. CallInv' /\ BesideInv' /\ ReportInv'
      BY <2>1, <2>8, <3>2, CallReturns, ReportsSame DEF DriveInv
    <3>4. CancelHolds'
      BY <2>6, <3>1 DEF CancelHolds, At
    <3>. QED BY <2>1, <3>2, <3>3, <3>4 DEF DriveInv, Kept
  <2>9. CASE /\ Live(g) /\ exec' \in {e, Leaving(e, g, "cancelled", "none")}
             /\ call' = [call EXCEPT ![c] = [pc |-> "await", goal |-> g]]
             /\ UNCHANGED state
    <3>1. TaskInv' /\ StatusInv' /\ Keeps /\ Promised
      <4>1. CASE exec' = e
        BY <2>5, <2>9, <4>1
      <4>2. CASE exec' = Leaving(e, g, "cancelled", "none")
        BY <2>1, <2>6, <2>9, <4>2, TaskDies DEF DriveInv
      <4>. QED BY <2>9, <4>1, <4>2
    <3>2. /\ call' \in [Callers -> CallState] /\ call'[c].pc = "await" /\ call'[c].goal = g
          /\ \A d \in Callers : d # c => call'[d] = call[d]
      BY <2>1, <2>9, NavBounds DEF DriveInv, CallInv, CallState, Goals
    <3>3. g <= state.goal
      BY <2>1, NavBounds DEF g, Goals
    <3>4. CallInv' /\ BesideInv'
      BY <2>1, <2>9, <3>1, <3>2, <3>3, CallMoves DEF DriveInv
    <3>5. CancelHolds'
      BY <2>2, <2>6, <2>9 DEF CancelHolds, At
    <3>6. ReportInv'
      BY <2>1, <3>1, ReportsSame DEF DriveInv
    <3>. QED BY <2>1, <3>1, <3>4, <3>5, <3>6 DEF DriveInv, Kept
  <2>. QED BY <2>3, <2>7, <2>8, <2>9
<1>40. ASSUME UNCHANGED vars
      PROVE Kept
  <2>1. UNCHANGED <<provider, warm, state, signal, exec, call, report, beside>>
    BY <1>40 DEF vars
  <2>2. Keeps
    BY <2>1 DEF Keeps, Live, At
  <2>3. CallInv' /\ BesideInv' /\ CancelHolds'
    BY <2>1, <2>2, CallsSame, HoldSame DEF DriveInv, At
  <2>. QED BY <2>1, <2>3, OneMoves DEF DriveInv
<1>. QED
  BY <1>1, <1>2, <1>3, <1>4, <1>5, <1>6, <1>8, <1>9, <1>10, <1>11, <1>12, <1>14, <1>15,
     <1>17, <1>18, <1>19, <1>20, <1>21, <1>22, <1>23, <1>24, <1>25, <1>26, <1>27, <1>28,
     <1>30, <1>31, <1>32, <1>33, <1>35, <1>36, <1>37, <1>38, <1>39, <1>40
  DEF Next, TaskSteps, Decide, Awaited, Answers

\* The clients start without a goal.
LEMMA DriveInitInv == Init => DriveInv /\ Abstract!Init
<1>. SUFFICES ASSUME Init PROVE DriveInv /\ Abstract!Init
  OBVIOUS
<1>1. NoTask \in TaskState /\ NoTask.pc = "none" /\ NoTask.noPath = 0
      /\ NoCall \in CallState /\ NoCall.pc = "none" /\ NoCall.goal = 0
  BY NavBounds DEF NoTask, NoCall, TaskState, CallState
<1>2. 0 \notin Goals /\ \A g \in Goals : ~(g <= 0)
  BY NavBounds DEF Goals
<1>3. TaskInv /\ StatusInv /\ BesideInv
  BY <1>1, <1>2, NavBounds DEF Init, TaskInv, StatusInv, BesideInv, Live, At, Active, Statuses
<1>4. CallInv /\ ReportInv /\ CancelHolds
  BY <1>1, NavBounds DEF Init, CallInv, ReportInv, CancelHolds
<1>5. Abstract!Init
  BY <1>2 DEF Init, Abstract!Init
<1>. QED BY <1>3, <1>4, <1>5 DEF DriveInv, Init

\* What the runs check of the two clients follows.
LEMMA DriveInvTells == DriveInv => TypeOK /\ OperatorCanStop /\ CancelHolds /\ SuccessIsRecent
<1>. SUFFICES ASSUME DriveInv PROVE TypeOK /\ OperatorCanStop /\ CancelHolds /\ SuccessIsRecent
  OBVIOUS
<1>1. TypeOK
  BY DEF DriveInv, TypeOK, TaskInv, BesideInv, CallInv, ReportInv, TaskState, CallState
<1>2. ASSUME NEW g \in Goals, At(g, "drive")
      PROVE  \/ state = [status |-> "active", goal |-> g]
             \/ g \in {state.goal} \union beside[state.goal] /\ beside[state.goal] # {}
  <2>1. Live(g) /\ state \in [status: Statuses, goal: 0..MaxGoals]
    BY <1>2 DEF Live, At, DriveInv, TaskInv
  <2>2. CASE g # state.goal
    BY <2>1, <2>2, OlderRuns DEF DriveInv
  <2>3. CASE g = state.goal
    BY <1>2, <2>1, <2>3 DEF DriveInv, StatusInv, At, Active
  <2>. QED BY <2>2, <2>3
<1>3. SuccessIsRecent
  BY DEF DriveInv, ReportInv, SuccessIsRecent, Won
<1>. QED BY <1>1, <1>2, <1>3 DEF OperatorCanStop, DriveInv

-----------------------------------------------------------------------------
(* The client of the action server.                                        *)

QueryState ==
  [pc: {"none", "setReady", "setPose", "send", "ready", "pose", "goal", "cancel"},
   own: 0..MaxGoals, arg: 0..MaxGoals, left: 0..MaxDuration]
ServerStates == {"none", "running", "canceling", "succeeded", "canceled", "aborted"}

\* Goals are numbered in the order in which the server took them, up to k.
Newest(k) == k \in 0..MaxGoals /\ \A g \in Goals : server[g] # "none" <=> g <= k
ServerInv == server \in [Goals -> ServerStates] /\ \E k \in 0..MaxGoals : Newest(k) /\ nav.goal <= k

\* What runs there and is known here is the goal the client shows; its status may be
\* another's only if there was a question under way when it was accepted.
KnownInv ==
  /\ known \subseteq Goals /\ asking \in [Goals -> SUBSET Goals]
  /\ \A g \in known : server[g] # "none" /\ g <= nav.goal
  /\ \A g \in known : server[g] = "running" =>
       nav.goal = g /\ (nav.status \in {"active", "unavailable"} \/ asking[g] # {})

\* Goal g is k, a later one, or was being asked about when k was accepted.
Recent(g, k) == g >= k \/ g \in asking[k]

\* A success shown rests on a goal that every acceptance since found under question.
ShownInv ==
  /\ nav \in [status: Statuses, goal: 0..MaxGoals]
  /\ nav.status = "succeeded" =>
       \E g \in Goals : server[g] = "succeeded" /\ \A k \in known : Recent(g, k)

\* So does every question under way.
Asked(q) == q.arg \in Goals /\ (q.arg = nav.goal \/ asking[nav.goal] # {}) /\ \A k \in known : Recent(q.arg, k)
QueryInv ==
  /\ query \in [Callers -> QueryState]
  /\ \A c \in Callers :
       /\ query[c].pc \in {"goal", "cancel"} => Asked(query[c])
       /\ query[c].own # 0 => query[c].own \in known

AnswerInv ==
  /\ answer \in [Skills -> 0..MaxGoals]
  /\ \A c \in Skills : answer[c] # 0 =>
       answer[c] \in known /\ \E g \in Goals : server[g] = "succeeded" /\ Recent(g, answer[c])

Nav2Inv ==
  /\ reach \in [up: BOOLEAN, losses: 0..MaxLosses]
  /\ ServerInv /\ KnownInv /\ ShownInv /\ QueryInv /\ AnswerInv

\* The number of the next goal is one more than that of the newest.
LEMMA NewGoalIsNext == ASSUME NEW k \in Nat, Newest(k) PROVE NewGoal = k + 1
<1>1. {g \in Goals : server[g] # "none"} = 1..k
  BY NavBounds DEF Newest, Goals
<1>2. Cardinality(1..k) = k
  BY FS_Interval
<1>. QED BY <1>1, <1>2 DEF NewGoal

\* The server takes a goal: it is newer than all that the client knows of, and ends what ran.
LEMMA RunsShape ==
  ASSUME Nav2Inv, NewGoal \in Goals, Runs(NewGoal)
  PROVE  /\ server' \in [Goals -> ServerStates] /\ server'[NewGoal] = "running"
         /\ NewGoal \notin known /\ NewGoal > nav.goal /\ NewGoal \in 0..MaxGoals
         /\ \A h \in Goals : /\ server[h] # "none" => server'[h] # "none"
                             /\ h # NewGoal => server'[h] # "running"
                             /\ server[h] = "succeeded" => server'[h] = "succeeded"
         /\ \E k \in 0..MaxGoals : Newest(k)' /\ NewGoal <= k
<1>1. PICK k \in 0..MaxGoals : Newest(k) /\ nav.goal <= k
  BY DEF Nav2Inv, ServerInv
<1>2. NewGoal = k + 1
  BY <1>1, NewGoalIsNext, NavBounds
<1>3. nav.goal \in Nat /\ k \in Nat
  BY NavBounds DEF Nav2Inv, ShownInv
<1>. DEFINE n == NewGoal
<1>4. n \in Goals /\ n = k + 1 /\ Runs(n)
  BY <1>2
<1>. HIDE DEF n
<1>5. server[n] = "none"
  BY <1>1, <1>3, <1>4 DEF Newest, Goals
<1>6. server' \in [Goals -> ServerStates] /\ server'[n] = "running"
  BY <1>4 DEF Runs, Nav2Inv, ServerInv, ServerStates
<1>7. \A h \in Goals : /\ server[h] # "none" => server'[h] # "none"
                       /\ h # n => server'[h] # "running"
                       /\ server[h] = "succeeded" => server'[h] = "succeeded"
                       /\ h # n => (server'[h] # "none" <=> server[h] # "none")
  BY <1>4, <1>5 DEF Runs
<1>8. n \notin known
  BY <1>5 DEF Nav2Inv, KnownInv
<1>9. k + 1 \in 0..MaxGoals
  BY <1>4, NavBounds DEF Goals
<1>10. Newest(k + 1)'
  <2>1. ASSUME NEW h \in Goals PROVE server'[h] # "none" <=> h <= k + 1
    BY <1>1, <1>3, <1>4, <1>6, <1>7 DEF Newest, Goals
  <2>. QED BY <1>9, <2>1 DEF Newest
<1>11. n > nav.goal /\ n \in 0..MaxGoals /\ n <= k + 1
  BY <1>1, <1>3, <1>4, <1>9, NavBounds DEF Goals
<1>. QED BY <1>6, <1>7, <1>8, <1>9, <1>10, <1>11 DEF n

\* One caller asks, and asks about what it may.
LEMMA OneAsks ==
  ASSUME QueryInv, nav'.goal = nav.goal, UNCHANGED <<known, asking>>,
         NEW c \in Callers, NEW r \in QueryState, query' = [query EXCEPT ![c] = r],
         r.pc \in {"goal", "cancel"} => Asked(r),
         r.own # 0 => r.own \in known
  PROVE  QueryInv'
<1>1. query' \in [Callers -> QueryState]
  BY DEF QueryInv
<1>2. ASSUME NEW d \in Callers
      PROVE  /\ query'[d].pc \in {"goal", "cancel"} =>
                  /\ query'[d].arg \in Goals
                  /\ query'[d].arg = nav.goal \/ asking[nav.goal] # {}
                  /\ \A k \in known : Recent(query'[d].arg, k)
             /\ query'[d].own # 0 => query'[d].own \in known
  <2>1. CASE d = c
    BY <2>1 DEF QueryInv, Asked
  <2>2. CASE d # c
    BY <2>2 DEF QueryInv, Asked
  <2>. QED BY <2>1, <2>2
<1>. QED BY <1>1, <1>2 DEF QueryInv, Asked, Recent

\* A caller goes on to another call.
LEMMA AskShape ==
  ASSUME QueryInv, nav'.goal = nav.goal, UNCHANGED <<known, asking>>, NEW c \in Callers,
         NEW pc2 \in {"none", "setReady", "setPose", "send", "ready", "pose"}, Asks(c, pc2)
  PROVE  QueryInv'
<1>. DEFINE r == [query[c] EXCEPT !.pc = pc2]
<1>1. query' = [query EXCEPT ![c] = r] /\ query[c] \in QueryState
  BY DEF Asks, QueryInv
<1>2. r \in QueryState /\ r.pc = pc2 /\ r.own = query[c].own
  BY <1>1 DEF QueryState
<1>. HIDE DEF r
<1>3. r.own # 0 => r.own \in known
  BY <1>2 DEF QueryInv
<1>. QED BY <1>1, <1>2, <1>3, OneAsks

\* A caller is done.
LEMMA DoneShape ==
  ASSUME QueryInv, nav'.goal = nav.goal, UNCHANGED <<known, asking>>, NEW c \in Callers, NavDone(c)
  PROVE  QueryInv'
<1>1. NoQuery \in QueryState /\ NoQuery.pc = "none" /\ NoQuery.own = 0
  BY NavBounds DEF NoQuery, QueryState
<1>2. query' = [query EXCEPT ![c] = NoQuery]
  BY DEF NavDone
<1>. QED BY <1>1, <1>2, OneAsks

\* A caller asks about the goal that the client shows.
LEMMA AboutShape ==
  ASSUME QueryInv, KnownInv, nav'.goal = nav.goal, UNCHANGED <<known, asking>>, NEW c \in Callers,
         nav.goal \in Goals, NEW pc2 \in {"goal", "cancel"},
         query' = [query EXCEPT ![c].pc = pc2, ![c].arg = nav.goal]
  PROVE  QueryInv'
<1>. DEFINE r == [query[c] EXCEPT !.pc = pc2, !.arg = nav.goal]
<1>1. query' = [query EXCEPT ![c] = r] /\ query[c] \in QueryState
  BY DEF QueryInv
<1>2. nav.goal \in 0..MaxGoals /\ \A k \in known : nav.goal >= k
  BY NavBounds DEF KnownInv, Goals
<1>3. r \in QueryState /\ r.arg = nav.goal /\ r.own = query[c].own
  BY <1>1, <1>2 DEF QueryState
<1>. HIDE DEF r
<1>4. r.own # 0 => r.own \in known
  BY <1>3 DEF QueryInv
<1>5. Asked(r)
  BY <1>2, <1>3 DEF Asked, Recent
<1>. QED BY <1>1, <1>3, <1>4, <1>5, OneAsks

\* Nothing but a query changes.
LEMMA AsksKeeps ==
  ASSUME Nav2Inv, UNCHANGED <<nav, server, known, reach, answer, asking>>, QueryInv'
  PROVE  Nav2Inv'
<1>1. ServerInv' /\ KnownInv' /\ ShownInv'
  BY DEF Nav2Inv, ServerInv, Newest, KnownInv, ShownInv, Recent
<1>2. AnswerInv'
  BY DEF Nav2Inv, AnswerInv, Recent
<1>. QED BY <1>1, <1>2 DEF Nav2Inv

\* get_state returns to a skill: the success that it is told rests on a recent goal.
LEMMA ReturnsKeep ==
  ASSUME Nav2Inv, NEW c \in Callers, NavReturns(c), UNCHANGED <<server, known, reach, asking>>,
         nav'.goal = nav.goal, ShownInv', KnownInv'
  PROVE  Nav2Inv'
<1>1. nav.goal \in 0..MaxGoals /\ query[c].own \in 0..MaxGoals
      /\ (query[c].own # 0 => query[c].own \in known)
  BY DEF Nav2Inv, ShownInv, QueryInv, QueryState
<1>2. ServerInv'
  BY DEF Nav2Inv, ServerInv, Newest
<1>3. QueryInv'
  <2>1. CASE NavDone(c)
    BY <2>1, DoneShape DEF Nav2Inv
  <2>2. CASE Asks(c, "ready")
    BY <2>2, AskShape DEF Nav2Inv
  <2>3. CASE nav'.goal # 0 /\ query' = [query EXCEPT ![c].pc = "cancel", ![c].arg = nav'.goal]
    <3>1. nav.goal \in Goals
      BY <1>1, <2>3, NavBounds DEF Goals
    <3>. QED BY <2>3, <3>1, AboutShape DEF Nav2Inv
  <2>. QED BY <2>1, <2>2, <2>3 DEF NavReturns, NavCancelCall
<1>4. AnswerInv'
  <2>1. /\ answer \in [Skills -> 0..MaxGoals]
        /\ \A d \in Skills : answer[d] # 0 =>
             answer[d] \in known /\ \E g \in Goals : server[g] = "succeeded" /\ Recent(g, answer[d])
    BY DEF Nav2Inv, AnswerInv
  <2>2. CASE c \in Skills /\ nav'.status = "succeeded" /\ answer' = [answer EXCEPT ![c] = query[c].own]
    <3>1. answer' \in [Skills -> 0..MaxGoals]
          /\ \A d \in Skills : answer'[d] = IF d = c THEN query[c].own ELSE answer[d]
      BY <1>1, <2>1, <2>2
    <3>2. \E g \in Goals : server[g] = "succeeded" /\ \A k \in known : Recent(g, k)
      BY <2>2 DEF ShownInv, Recent
    <3>3. ASSUME NEW d \in Skills, answer'[d] # 0
          PROVE  answer'[d] \in known
                 /\ \E g \in Goals : server[g] = "succeeded" /\ Recent(g, answer'[d])
      <4>1. CASE d = c
        BY <1>1, <3>1, <3>2, <3>3, <4>1
      <4>2. CASE d # c
        BY <2>1, <3>1, <3>3, <4>2
      <4>. QED BY <4>1, <4>2
    <3>. QED BY <3>1, <3>3 DEF AnswerInv, Recent
  <2>3. CASE UNCHANGED answer
    BY <2>1, <2>3 DEF AnswerInv, Recent
  <2>. QED BY <2>2, <2>3 DEF NavReturns
<1>. QED BY <1>2, <1>3, <1>4 DEF Nav2Inv

\* The server takes a goal whose handle the client does not get.
LEMMA LostKeeps ==
  ASSUME Nav2Inv, NewGoal \in Goals, Runs(NewGoal), QueryInv',
         UNCHANGED <<nav, known, reach, answer, asking>>
  PROVE  Nav2Inv'
<1>1. /\ server' \in [Goals -> ServerStates] /\ NewGoal \notin known /\ NewGoal > nav.goal
      /\ \A h \in Goals : /\ server[h] # "none" => server'[h] # "none"
                          /\ h # NewGoal => server'[h] # "running"
                          /\ server[h] = "succeeded" => server'[h] = "succeeded"
      /\ NewGoal \in 0..MaxGoals /\ \E k \in 0..MaxGoals : Newest(k)' /\ NewGoal <= k
  BY RunsShape
<1>2. ServerInv'
  <2>1. PICK k \in 0..MaxGoals : Newest(k)' /\ NewGoal <= k
    BY <1>1
  <2>2. nav.goal \in 0..MaxGoals
    BY DEF Nav2Inv, ShownInv
  <2>3. nav'.goal <= k
    BY <1>1, <2>1, <2>2, NavBounds
  <2>. QED BY <1>1, <2>1, <2>3 DEF ServerInv
<1>3. KnownInv' /\ ShownInv'
  BY <1>1 DEF Nav2Inv, KnownInv, ShownInv, Recent
<1>4. AnswerInv'
  BY <1>1 DEF Nav2Inv, AnswerInv, Recent
<1>. QED BY <1>2, <1>3, <1>4 DEF Nav2Inv

\* A goal is accepted: whatever is being asked about is noted with it.
LEMMA AcceptedKeeps ==
  ASSUME Nav2Inv, NEW c \in Callers, query[c].pc = "send", NewGoal \in Goals,
         NavAccepted(c, NewGoal), UNCHANGED <<reach, answer>>
  PROVE  Nav2Inv'
<1>. DEFINE n == NewGoal
            r == IF c \in Skills
                 THEN [NoQuery EXCEPT !.pc = "ready", !.own = n, !.left = MaxDuration]
                 ELSE NoQuery
<1>1. /\ Runs(n) /\ known' = known \union {n} /\ asking' = [asking EXCEPT ![n] = InQuestion]
      /\ nav' = [status |-> "active", goal |-> n] /\ query' = [query EXCEPT ![c] = r]
  BY DEF NavAccepted
<1>2. /\ server' \in [Goals -> ServerStates] /\ server'[n] = "running"
      /\ n \notin known /\ n > nav.goal /\ n \in 0..MaxGoals /\ n \in Goals
      /\ \A h \in Goals : /\ server[h] # "none" => server'[h] # "none"
                          /\ h # n => server'[h] # "running"
                          /\ server[h] = "succeeded" => server'[h] = "succeeded"
      /\ \E k \in 0..MaxGoals : Newest(k)' /\ n <= k
  BY <1>1, RunsShape
<1>3. r \in QueryState /\ r.pc \in {"ready", "none"} /\ r.own \in {0, n}
  BY <1>2, NavBounds DEF NoQuery, QueryState
<1>. HIDE DEF n, r
<1>4. /\ nav.goal \in 0..MaxGoals /\ known \subseteq Goals /\ asking \in [Goals -> SUBSET Goals]
      /\ \A g \in known : server[g] # "none" /\ g <= nav.goal
  BY DEF Nav2Inv, ShownInv, KnownInv
<1>5. \A d \in Callers : query[d].pc \in {"goal", "cancel"} =>
        query[d].arg \in InQuestion /\ query[d].arg \in Goals /\ \A k \in known : Recent(query[d].arg, k)
  BY DEF InQuestion, Nav2Inv, QueryInv, Asked
<1>6. InQuestion \subseteq Goals
  BY DEF InQuestion, Nav2Inv, QueryInv, Asked
<1>7. /\ asking' \in [Goals -> SUBSET Goals] /\ asking'[n] = InQuestion
      /\ \A k \in known : asking'[k] = asking[k]
  BY <1>1, <1>2, <1>4, <1>6
<1>8. ServerInv'
  <2>1. PICK k \in 0..MaxGoals : Newest(k)' /\ n <= k
    BY <1>2
  <2>. QED BY <1>1, <1>2, <2>1 DEF ServerInv
<1>9. KnownInv'
  <2>1. ASSUME NEW g \in known' PROVE g \in Goals /\ server'[g] # "none" /\ g <= n
    <3>1. CASE g = n
      BY <1>2, <3>1, NavBounds
    <3>2. CASE g # n
      BY <1>1, <1>2, <1>4, <2>1, <3>2, NavBounds DEF Goals
    <3>. QED BY <3>1, <3>2
  <2>2. known' \subseteq Goals
    BY <2>1
  <2>. QED BY <1>1, <1>2, <1>7, <2>1, <2>2 DEF KnownInv
<1>10. ShownInv'
  BY <1>1, <1>2 DEF ShownInv, Statuses
<1>11. QueryInv'
  <2>1. query' \in [Callers -> QueryState]
    BY <1>1, <1>3 DEF Nav2Inv, QueryInv
  <2>2. ASSUME NEW d \in Callers
        PROVE  /\ query'[d].pc \in {"goal", "cancel"} =>
                    query'[d].arg \in Goals /\ asking'[n] # {}
                    /\ \A k \in known' : query'[d].arg >= k \/ query'[d].arg \in asking'[k]
               /\ query'[d].own # 0 => query'[d].own \in known'
    <3>1. CASE d = c
      <4>1. query'[d] = r
        BY <1>1, <3>1 DEF Nav2Inv, QueryInv
      <4>. QED BY <1>1, <1>3, <4>1
    <3>2. CASE d # c
      <4>1. query'[d] = query[d]
        BY <1>1, <3>2 DEF Nav2Inv, QueryInv
      <4>2. query[d].own # 0 => query[d].own \in known'
        BY <1>1 DEF Nav2Inv, QueryInv
      <4>3. ASSUME query[d].pc \in {"goal", "cancel"}, NEW k \in known'
            PROVE  query[d].arg >= k \/ query[d].arg \in asking'[k]
        <5>1. CASE k = n
          BY <1>5, <1>7, <4>3, <5>1
        <5>2. CASE k # n
          BY <1>1, <1>5, <1>7, <4>3, <5>2 DEF Recent
        <5>. QED BY <5>1, <5>2
      <4>. QED BY <1>5, <1>7, <4>1, <4>2, <4>3
    <3>. QED BY <3>1, <3>2
  <2>. QED BY <1>1, <2>1, <2>2 DEF QueryInv, Asked, Recent
<1>12. AnswerInv'
  BY <1>1, <1>2, <1>7 DEF Nav2Inv, AnswerInv, Recent
<1>. QED BY <1>8, <1>9, <1>10, <1>11, <1>12 DEF Nav2Inv

\* Every step of the client and its action server keeps the invariant.
LEMMA Nav2NextInv ==
  ASSUME Nav2Inv, [Nav2Next]_nav2Vars
  PROVE  Nav2Inv'
<1>0. QueryInv /\ KnownInv /\ nav.goal \in 0..MaxGoals
  BY DEF Nav2Inv, ShownInv
<1>1. ASSUME NEW c \in Callers, NEW q \in {"setReady", "setPose", "send", "ready", "pose"},
             Asks(c, q), UNCHANGED <<nav, server, known, reach, answer, asking>>
      PROVE  Nav2Inv'
  BY <1>0, <1>1, AskShape, AsksKeeps
<1>2. ASSUME NEW c \in Callers, NavDone(c), UNCHANGED <<nav, server, known, reach, answer, asking>>
      PROVE  Nav2Inv'
  BY <1>0, <1>2, DoneShape, AsksKeeps
<1>3. ASSUME NEW c \in Callers, NavSet(c) PROVE Nav2Inv'
  BY <1>1, <1>3 DEF NavSet
<1>4. ASSUME NEW c \in Callers, NavSetReady(c) PROVE Nav2Inv'
  BY <1>1, <1>2, <1>4 DEF NavSetReady
<1>5. ASSUME NEW c \in Callers, NavSetPose(c) PROVE Nav2Inv'
  BY <1>1, <1>2, <1>5 DEF NavSetPose
<1>6. ASSUME NEW c \in Callers, NavSend(c) PROVE Nav2Inv'
  <2>1. query[c].pc = "send" /\ UNCHANGED <<reach, answer>>
    BY <1>6 DEF NavSend
  <2>2. CASE NavRefused(c)
    <3>1. NavDone(c) /\ UNCHANGED <<nav, known, asking>>
      BY <2>2 DEF NavRefused
    <3>2. QueryInv'
      BY <1>0, <3>1, DoneShape
    <3>3. UNCHANGED server \/ (NewGoal \in Goals /\ Runs(NewGoal))
      BY <2>2 DEF NavRefused
    <3>. QED BY <2>1, <3>1, <3>2, <3>3, AsksKeeps, LostKeeps
  <2>3. CASE NewGoal \in Goals /\ NavAccepted(c, NewGoal)
    BY <2>1, <2>3, AcceptedKeeps
  <2>. QED BY <1>6, <2>2, <2>3 DEF NavSend
<1>7. ASSUME NEW c \in Callers, NavWatch(c) PROVE Nav2Inv'
  BY <1>1, <1>7 DEF NavWatch
<1>8. ASSUME NEW c \in Callers, NavReady(c) PROVE Nav2Inv'
  <2>1. UNCHANGED <<server, known, reach, asking>>
    BY <1>8 DEF NavReady
  <2>2. CASE Asks(c, "pose") /\ UNCHANGED <<nav, answer>>
    BY <1>1, <2>1, <2>2
  <2>3. CASE nav' = [nav EXCEPT !.status = "unavailable"] /\ NavReturns(c)
    <3>1. nav'.goal = nav.goal /\ nav'.status = "unavailable"
          /\ nav' \in [status: Statuses, goal: 0..MaxGoals]
      BY <2>3 DEF Nav2Inv, ShownInv, Statuses, Outcomes
    <3>2. ShownInv' /\ KnownInv'
      BY <2>1, <3>1 DEF Nav2Inv, ShownInv, KnownInv
    <3>. QED BY <2>1, <2>3, <3>1, <3>2, ReturnsKeep
  <2>. QED BY <1>8, <2>2, <2>3 DEF NavReady
<1>9. ASSUME NEW c \in Callers, NavPose(c) PROVE Nav2Inv'
  <2>1. UNCHANGED <<server, known, reach, asking>>
    BY <1>9 DEF NavPose
  <2>2. CASE nav.goal = 0 \/ nav.status \in Outcomes
    <3>1. nav' = [nav EXCEPT !.status = IF nav.goal = 0 THEN "idle" ELSE nav.status] /\ NavReturns(c)
      BY <1>9, <2>2 DEF NavPose
    <3>2. nav'.goal = nav.goal /\ nav' \in [status: Statuses, goal: 0..MaxGoals]
          /\ nav'.status = (IF nav.goal = 0 THEN "idle" ELSE nav.status)
      BY <3>1 DEF Nav2Inv, ShownInv, Statuses
    <3>3. ShownInv'
      BY <2>1, <3>2 DEF Nav2Inv, ShownInv, Recent
    <3>4. KnownInv'
      <4>1. \A g \in known : nav.goal # 0
        BY <1>0, NavBounds DEF KnownInv, Goals
      <4>. QED BY <1>0, <2>1, <3>2, <4>1 DEF KnownInv
    <3>. QED BY <2>1, <3>1, <3>2, <3>3, <3>4, ReturnsKeep
  <2>3. CASE ~(nav.goal = 0 \/ nav.status \in Outcomes)
    <3>1. query' = [query EXCEPT ![c].pc = "goal", ![c].arg = nav.goal] /\ UNCHANGED <<nav, answer>>
      BY <1>9, <2>3 DEF NavPose
    <3>2. nav.goal \in Goals
      BY <1>0, <2>3, NavBounds DEF Goals
    <3>. QED BY <1>0, <2>1, <3>1, <3>2, AboutShape, AsksKeeps
  <2>. QED BY <2>2, <2>3
<1>10. ASSUME NEW c \in Callers, NavGoal(c) PROVE Nav2Inv'
  <2>1. UNCHANGED <<server, known, reach, asking>> /\ NavReturns(c) /\ query[c].pc = "goal"
    BY <1>10 DEF NavGoal
  <2>2. PICK s \in MapStatus(query[c].arg) : nav' = [nav EXCEPT !.status = s]
    BY <1>10 DEF NavGoal
  <2>3. Asked(query[c])
    BY <1>0, <2>1 DEF QueryInv
  <2>4. /\ s \in {"active", "succeeded", "canceled", "failed", "no_progress"}
        /\ s = "succeeded" => server[query[c].arg] = "succeeded"
        /\ server[query[c].arg] = "running" => s = "active"
    BY <2>2 DEF MapStatus
  <2>5. nav'.goal = nav.goal /\ nav'.status = s /\ nav' \in [status: Statuses, goal: 0..MaxGoals]
    BY <2>2, <2>4 DEF Nav2Inv, ShownInv, Statuses, Outcomes
  <2>6. ShownInv'
    BY <2>1, <2>3, <2>4, <2>5 DEF ShownInv, Asked, Recent
  <2>7. KnownInv'
    BY <1>0, <2>1, <2>3, <2>4, <2>5 DEF KnownInv, Asked
  <2>. QED BY <2>1, <2>5, <2>6, <2>7, ReturnsKeep
<1>11. ASSUME NEW c \in Callers, NavDeskCancels(c) PROVE Nav2Inv'
  <2>1. query' = [query EXCEPT ![c].pc = "cancel", ![c].arg = nav.goal]
        /\ UNCHANGED <<nav, server, known, reach, answer, asking>>
    BY <1>11 DEF NavDeskCancels
  <2>2. nav.goal \in Goals
    BY <1>0, <1>11, NavBounds DEF NavDeskCancels, Goals
  <2>. QED BY <1>0, <2>1, <2>2, AboutShape, AsksKeeps
<1>12. ASSUME NEW c \in Callers, NavCancels(c) PROVE Nav2Inv'
  <2>. DEFINE g == query[c].arg
  <2>1. query[c].pc = "cancel" /\ Asked(query[c])
    BY <1>0, <1>12 DEF NavCancels, QueryInv
  <2>2. g \in Goals /\ (g = nav.goal \/ asking[nav.goal] # {})
    BY <2>1 DEF Asked
  <2>3. PICK taken \in BOOLEAN, answered \in BOOLEAN :
          /\ taken => server[g] = "running"
          /\ server' = IF taken THEN [server EXCEPT ![g] = "canceling"] ELSE server
          /\ NavMarks(taken /\ answered)
    BY <1>12 DEF NavCancels
  <2>4. NavDone(c) /\ UNCHANGED <<known, reach, answer, asking>>
    BY <1>12 DEF NavCancels
  <2>. HIDE DEF g
  <2>5. /\ server' \in [Goals -> ServerStates]
        /\ \A h \in Goals : \/ server'[h] = server[h]
                            \/ taken /\ h = g /\ server[h] = "running" /\ server'[h] = "canceling"
        /\ taken => server'[g] = "canceling"
    BY <2>2, <2>3 DEF Nav2Inv, ServerInv, ServerStates
  <2>6. /\ nav' \in [status: Statuses, goal: 0..MaxGoals] /\ nav'.goal = nav.goal
        /\ nav' = nav \/ (taken /\ nav'.status = "canceled")
    BY <2>3 DEF NavMarks, Nav2Inv, ShownInv, Statuses, Outcomes
  <2>7. ServerInv'
    <3>1. PICK k \in 0..MaxGoals : Newest(k) /\ nav.goal <= k
      BY DEF Nav2Inv, ServerInv
    <3>2. Newest(k)' /\ nav'.goal <= k
      BY <2>5, <2>6, <3>1 DEF Newest
    <3>. QED BY <2>5, <3>2 DEF ServerInv
  <2>8. KnownInv'
    BY <1>0, <2>2, <2>4, <2>5, <2>6 DEF KnownInv
  <2>9. ShownInv'
    BY <2>4, <2>5, <2>6 DEF Nav2Inv, ShownInv, Recent
  <2>10. QueryInv'
    BY <1>0, <2>4, <2>6, DoneShape
  <2>11. AnswerInv'
    BY <2>4, <2>5 DEF Nav2Inv, AnswerInv, Recent
  <2>. QED BY <2>4, <2>7, <2>8, <2>9, <2>10, <2>11 DEF Nav2Inv
<1>13. ASSUME NEW c \in Callers, NavAbandon(c) PROVE Nav2Inv'
  BY <1>2, <1>13 DEF NavAbandon
<1>14. ASSUME NavTick PROVE Nav2Inv'
  <2>1. /\ UNCHANGED <<nav, server, known, reach, answer, asking>>
        /\ query' = [c \in Callers |-> [query[c] EXCEPT !.left = IF @ > 0 THEN @ - 1 ELSE 0]]
    BY <1>14 DEF NavTick
  <2>2. ASSUME NEW c \in Callers
        PROVE  /\ query'[c] \in QueryState /\ query'[c].pc = query[c].pc
               /\ query'[c].own = query[c].own /\ query'[c].arg = query[c].arg
    <3>. DEFINE k == IF query[c].left > 0 THEN query[c].left - 1 ELSE 0
    <3>1. query[c] \in QueryState
      BY <1>0 DEF QueryInv
    <3>2. k \in 0..MaxDuration
      BY <3>1, NavBounds DEF QueryState
    <3>3. query'[c] = [query[c] EXCEPT !.left = k]
      BY <2>1
    <3>. HIDE DEF k
    <3>. QED BY <3>1, <3>2, <3>3 DEF QueryState
  <2>3. query' \in [Callers -> QueryState]
    BY <2>1, <2>2
  <2>4. QueryInv'
    BY <1>0, <2>1, <2>2, <2>3 DEF QueryInv, Asked, Recent
  <2>. QED BY <2>1, <2>4, AsksKeeps
<1>15. ASSUME ServerEnds PROVE Nav2Inv'
  <2>1. UNCHANGED <<nav, known, reach, query, answer, asking>>
    BY <1>15 DEF ServerEnds
  <2>2. PICK g \in Goals, outcome \in {"succeeded", "aborted", "canceled"} :
          server[g] \in {"running", "canceling"} /\ server' = [server EXCEPT ![g] = outcome]
    BY <1>15 DEF ServerEnds
  <2>3. /\ server' \in [Goals -> ServerStates]
        /\ \A h \in Goals : /\ server'[h] # "none" <=> server[h] # "none"
                            /\ server[h] = "succeeded" => server'[h] = "succeeded"
                            /\ server'[h] = "running" => server[h] = "running"
    BY <2>2 DEF Nav2Inv, ServerInv, ServerStates
  <2>4. ServerInv'
    <3>1. PICK k \in 0..MaxGoals : Newest(k) /\ nav.goal <= k
      BY DEF Nav2Inv, ServerInv
    <3>2. Newest(k)' /\ nav'.goal <= k
      BY <2>1, <2>3, <3>1 DEF Newest
    <3>. QED BY <2>3, <3>2 DEF ServerInv
  <2>5. KnownInv' /\ ShownInv' /\ QueryInv'
    BY <2>1, <2>3 DEF Nav2Inv, KnownInv, ShownInv, QueryInv, Asked, Recent
  <2>6. AnswerInv'
    BY <2>1, <2>3 DEF Nav2Inv, AnswerInv, Recent
  <2>. QED BY <2>1, <2>4, <2>5, <2>6 DEF Nav2Inv
<1>16. ASSUME UNCHANGED <<nav, server, known, query, answer, asking>>,
              reach' \in [up: BOOLEAN, losses: 0..MaxLosses]
       PROVE  Nav2Inv'
  <2>1. ServerInv' /\ KnownInv' /\ ShownInv' /\ QueryInv' /\ AnswerInv'
    BY <1>16 DEF Nav2Inv, ServerInv, Newest, KnownInv, ShownInv, QueryInv, Asked, AnswerInv, Recent
  <2>. QED BY <1>16, <2>1 DEF Nav2Inv
<1>17. reach \in [up: BOOLEAN, losses: 0..MaxLosses] /\ MaxLosses \in Nat
  BY LossAssumption DEF Nav2Inv
<1>18. ASSUME ServerComes PROVE Nav2Inv'
  BY <1>16, <1>17, <1>18 DEF ServerComes
<1>19. ASSUME ServerGoes PROVE Nav2Inv'
  <2>1. reach.losses - 1 \in 0..MaxLosses
    BY <1>17, <1>19 DEF ServerGoes
  <2>. QED BY <1>16, <1>17, <1>19, <2>1 DEF ServerGoes
<1>20. CASE UNCHANGED nav2Vars
  BY <1>16, <1>17, <1>20 DEF nav2Vars
<1>. QED
  BY <1>3, <1>4, <1>5, <1>6, <1>7, <1>8, <1>9, <1>10, <1>11, <1>12, <1>13, <1>14, <1>15,
     <1>18, <1>19, <1>20 DEF Nav2Next, NavAnswers

\* The client starts unavailable, and the server without a goal.
LEMMA Nav2InitInv == Nav2Init => Nav2Inv
<1>. SUFFICES ASSUME Nav2Init PROVE Nav2Inv
  OBVIOUS
<1>1. NoQuery \in QueryState /\ NoQuery.pc = "none" /\ NoQuery.own = 0
  BY NavBounds DEF NoQuery, QueryState
<1>2. ServerInv
  <2>1. Newest(0) /\ nav.goal <= 0
    BY NavBounds DEF Nav2Init, Newest, Goals
  <2>. QED BY <2>1, NavBounds DEF Nav2Init, ServerInv, ServerStates
<1>3. KnownInv /\ ShownInv /\ QueryInv /\ AnswerInv
  BY <1>1, NavBounds DEF Nav2Init, KnownInv, ShownInv, QueryInv, AnswerInv, Statuses, Outcomes
<1>. QED BY <1>2, <1>3, LossAssumption DEF Nav2Inv, Nav2Init

\* What the runs check of it follows.
LEMMA Nav2InvTells == Nav2Inv => Nav2TypeOK /\ RunningIsShown /\ NavSuccessIsRecent
<1>. SUFFICES ASSUME Nav2Inv PROVE Nav2TypeOK /\ RunningIsShown /\ NavSuccessIsRecent
  OBVIOUS
<1>1. Nav2TypeOK
  BY DEF Nav2Inv, Nav2TypeOK, ServerInv, ServerStates, KnownInv, ShownInv, QueryInv, QueryState,
     AnswerInv
<1>2. RunningIsShown
  BY DEF Nav2Inv, KnownInv, ShownInv, RunningIsShown
<1>3. NavSuccessIsRecent
  BY DEF Nav2Inv, AnswerInv, Recent, NavSuccessIsRecent
<1>. QED BY <1>1, <1>2, <1>3

-----------------------------------------------------------------------------
(* The clients together: the settings build one.                           *)

\* The invariants of both hold of every client.
LEMMA ClientsInvariant == ClientsSpec => [](DriveInv /\ Nav2Inv)
<1>1. ClientsInit => DriveInv /\ Nav2Inv
  BY DriveInitInv, Nav2InitInv DEF ClientsInit
<1>2. DriveInv /\ Nav2Inv /\ [ClientsNext]_clientsVars => DriveInv' /\ Nav2Inv'
  <2>. SUFFICES ASSUME DriveInv, Nav2Inv, [ClientsNext]_clientsVars PROVE DriveInv' /\ Nav2Inv'
    OBVIOUS
  <2>1. [Next]_vars /\ [Nav2Next]_nav2Vars
    BY DEF ClientsNext, clientsVars
  <2>. QED BY <2>1, DriveNextInv, Nav2NextInv DEF Kept
<1>. QED BY <1>1, <1>2, PTL DEF ClientsSpec

\* With any client and any number of callers that set, poll and cancel goals in any order:
\* what drives the robot is the newest goal, shown active, or is told of by a goal that was
\* accepted beside another; and once a cancel has stopped the robot, nothing drives until
\* the next goal is accepted.
THEOREM StopAlwaysReaches == ClientsSpec => []StopReaches
<1>1. DriveInv /\ Nav2Inv => StopReaches
  BY DriveInvTells, Nav2InvTells DEF StopReaches
<1>. QED BY <1>1, ClientsInvariant, PTL

\* A success that a skill reports was won by its own goal, a later one, or one that its
\* own was accepted beside or found under question: never by one that was over before.
THEOREM SuccessIsAlwaysOwn == ClientsSpec => []SuccessIsOwn
<1>1. DriveInv /\ Nav2Inv => SuccessIsOwn
  BY DriveInvTells, Nav2InvTells DEF SuccessIsOwn
<1>. QED BY <1>1, ClientsInvariant, PTL

\* The clients that drive from this process implement GoalLifecycle, on which the errands
\* are built: every step of theirs is one of its, or changes nothing that it speaks of.
THEOREM GoalsImplemented == ClientsSpec => LifecycleSpec
<1>1. ClientsInit => Abstract!Init
  BY DriveInitInv DEF ClientsInit
<1>2. DriveInv /\ [ClientsNext]_clientsVars => [Abstract!Next]_(Abstract!lifecycleVars)
  <2>. SUFFICES ASSUME DriveInv, [ClientsNext]_clientsVars
                PROVE  [Abstract!Next]_(Abstract!lifecycleVars)
    OBVIOUS
  <2>1. [Next]_vars
    BY DEF ClientsNext, clientsVars
  <2>. QED BY <2>1, DriveNextInv DEF Kept, Promised
<1>. QED BY <1>1, <1>2, ClientsInvariant, PTL DEF ClientsSpec, LifecycleSpec, Abstract!Spec

-----------------------------------------------------------------------------
(* The voxel map.                                                          *)

Pasts == [last: [Voxels -> {"never", "return", "through"}], through: [Voxels -> 0..CarveMisses],
          evicted: SUBSET Voxels]

\* A cell that is free and holds nothing was seen through last, or thrown out.
FreeOf(h, f, p) == f \subseteq Obstacles /\ \A v \in f : h[v] = 0 => p.last[v] = "through" \/ v \in p.evicted

\* What is in a map, in memory or in a file.
Sound(h, f, p) == h \in [Voxels -> 0..MaxHits] /\ p \in Pasts /\ FreeOf(h, f, p)

SoundFile(x) == x.state = "whole" => Sound(x.hits, x.free, x.past)

\* The misses the map counts are no more than the times it was really seen through.
MissInv ==
  /\ misses \in [Voxels -> 0..CarveMisses]
  /\ \A v \in Voxels : misses[v] <= past.through[v] /\ misses[v] < CarveMisses

FilesInv ==
  /\ file = NoFile \/ file.state = "whole"
  /\ SoundFile(file)
  /\ temp = NoFile \/ temp = Part \/ temp.state = "whole"
  /\ SoundFile(temp)

MapInv == Sound(hits, free, past) /\ MissInv /\ FilesInv /\ cloud \in SUBSET Voxels

\* The bounds of the constants.
LEMMA RowBounds ==
  Row \in Nat /\ Row >= 2 /\ MaxHits \in Nat /\ MaxHits >= 1 /\ CarveMisses \in Nat /\ CarveMisses >= 1
BY VoxelAssumption

\* One more, up to a bound.
LEMMA LesserBounds ==
  ASSUME NEW a \in Nat, NEW b \in Nat
  PROVE  /\ Lesser(a + 1, b) \in 0..b
         /\ a < b => Lesser(a + 1, b) = a + 1
         /\ ~(a < b) => Lesser(a + 1, b) = b
BY DEF Lesser

\* One merge, carved or not: the map stays sound, the misses stay counted, and a voxel goes by
\* the limit or after as many sights through it as the code asks for.
LEMMA IntegrateShape ==
  ASSUME Sound(hits, free, past), MissInv, NEW points \in SUBSET Voxels, NEW carve \in BOOLEAN,
         Integrate(points, carve)
  PROVE  /\ Sound(hits', free', past')
         /\ misses' \in [Voxels -> 0..CarveMisses]
         /\ \A v \in Voxels : misses'[v] <= past'.through[v] /\ misses'[v] < CarveMisses
         /\ \A v \in Voxels : hits[v] > 0 /\ hits'[v] = 0 =>
              v \in past'.evicted \/ past'.through[v] >= CarveMisses
<1>. DEFINE counted == [v \in Voxels |-> IF v \in points THEN Lesser(hits[v] + 1, MaxHits) ELSE hits[v]]
            through == IF carve THEN Through(points) ELSE {}
            seen == {v \in through : counted[v] > 0}
            carved == {v \in seen : misses[v] + 1 >= CarveMisses}
            victims == Victims([v \in Voxels |-> IF v \in carved THEN 0 ELSE counted[v]])
<1>1. /\ counted = [v \in Voxels |-> IF v \in points THEN Lesser(hits[v] + 1, MaxHits) ELSE hits[v]]
      /\ through = IF carve THEN Through(points) ELSE {}
      /\ seen = {v \in through : counted[v] > 0}
      /\ carved = {v \in seen : misses[v] + 1 >= CarveMisses}
      /\ victims = Victims([v \in Voxels |-> IF v \in carved THEN 0 ELSE counted[v]])
      /\ hits' = [v \in Voxels |-> IF v \in carved \union victims THEN 0 ELSE counted[v]]
      /\ misses' = [v \in Voxels |-> IF v \in victims THEN 0 ELSE Misses(points, seen, carved)[v]]
      /\ free' = free \union through
      /\ past' = [last |-> [v \in Voxels |-> IF v \in points THEN "return"
                                            ELSE IF v \in through THEN "through" ELSE past.last[v]],
                  through |-> [v \in Voxels |-> IF v \in points THEN 0
                               ELSE IF v \in through THEN Lesser(past.through[v] + 1, CarveMisses)
                               ELSE past.through[v]],
                  evicted |-> (past.evicted \ (points \union through)) \union victims]
  BY Zenon DEF Integrate
<1>. HIDE DEF counted, through, seen, carved, victims
<1>2. /\ hits \in [Voxels -> 0..MaxHits] /\ past \in Pasts /\ FreeOf(hits, free, past)
      /\ past.last \in [Voxels -> {"never", "return", "through"}]
      /\ past.through \in [Voxels -> 0..CarveMisses] /\ past.evicted \subseteq Voxels
      /\ misses \in [Voxels -> 0..CarveMisses]
  BY DEF Sound, MissInv, Pasts
<1>3. /\ through \subseteq Obstacles /\ through \subseteq Voxels /\ through \cap points = {}
      /\ seen \subseteq through /\ carved \subseteq seen
  BY <1>1, RowBounds DEF Through, Obstacles, Voxels
<1>4. victims \subseteq Voxels
  BY <1>1 DEF Victims
<1>5. \A v \in Voxels : Lesser(hits[v] + 1, MaxHits) \in 0..MaxHits /\ Lesser(hits[v] + 1, MaxHits) > 0
  BY <1>2, RowBounds, LesserBounds DEF Lesser
<1>6. \A v \in Voxels : Lesser(past.through[v] + 1, CarveMisses) \in 0..CarveMisses
  BY <1>2, RowBounds, LesserBounds
<1>7. counted \in [Voxels -> 0..MaxHits] /\ hits' \in [Voxels -> 0..MaxHits]
  <2>1. \A v \in Voxels : counted[v] = (IF v \in points THEN Lesser(hits[v] + 1, MaxHits) ELSE hits[v])
    BY <1>1
  <2>2. counted \in [Voxels -> 0..MaxHits]
    BY <1>1, <1>2, <1>5
  <2>. QED BY <1>1, <2>2, RowBounds
<1>8. past' \in Pasts
  <2>1. [v \in Voxels |-> IF v \in points THEN "return"
                         ELSE IF v \in through THEN "through" ELSE past.last[v]]
          \in [Voxels -> {"never", "return", "through"}]
    BY <1>2
  <2>2. [v \in Voxels |-> IF v \in points THEN 0
                         ELSE IF v \in through THEN Lesser(past.through[v] + 1, CarveMisses)
                         ELSE past.through[v]] \in [Voxels -> 0..CarveMisses]
    BY <1>2, <1>6, RowBounds
  <2>. QED BY <1>1, <1>2, <1>4, <2>1, <2>2 DEF Pasts
<1>9. FreeOf(hits', free', past')
  <2>1. free' \subseteq Obstacles
    BY <1>1, <1>2, <1>3 DEF FreeOf
  <2>2. ASSUME NEW v \in free', hits'[v] = 0
        PROVE  past'.last[v] = "through" \/ v \in past'.evicted
    <3>0. v \in Voxels
      BY <2>1, <2>2, RowBounds DEF Obstacles, Voxels
    <3>1. /\ past'.last[v] = (IF v \in points THEN "return"
                              ELSE IF v \in through THEN "through" ELSE past.last[v])
          /\ past'.evicted = (past.evicted \ (points \union through)) \union victims
          /\ hits'[v] = (IF v \in carved \union victims THEN 0 ELSE counted[v])
          /\ counted[v] = (IF v \in points THEN Lesser(hits[v] + 1, MaxHits) ELSE hits[v])
      BY <1>1, <3>0
    <3>2. CASE v \in victims
      BY <3>1, <3>2
    <3>3. CASE v \notin victims /\ v \in through
      BY <3>1, <3>3, <1>3
    <3>4. CASE v \notin victims /\ v \notin through
      <4>1. counted[v] = 0 /\ v \notin carved
        BY <3>1, <3>4, <1>3, <2>2
      <4>2. v \notin points /\ hits[v] = 0
        BY <3>0, <3>1, <4>1, <1>5
      <4>3. v \in free
        BY <1>1, <2>2, <3>4
      <4>. QED BY <3>1, <3>4, <4>2, <4>3, <1>2 DEF FreeOf
    <3>. QED BY <3>2, <3>3, <3>4
  <2>. QED BY <2>1, <2>2 DEF FreeOf
<1>10. ASSUME NEW v \in Voxels
       PROVE  /\ misses'[v] \in 0..CarveMisses
              /\ misses'[v] <= past'.through[v] /\ misses'[v] < CarveMisses
              /\ hits[v] > 0 /\ hits'[v] = 0 => v \in past'.evicted \/ past'.through[v] >= CarveMisses
  <2>1. /\ past'.through[v] = (IF v \in points THEN 0
                               ELSE IF v \in through THEN Lesser(past.through[v] + 1, CarveMisses)
                               ELSE past.through[v])
        /\ past'.evicted = (past.evicted \ (points \union through)) \union victims
        /\ hits'[v] = (IF v \in carved \union victims THEN 0 ELSE counted[v])
        /\ counted[v] = (IF v \in points THEN Lesser(hits[v] + 1, MaxHits) ELSE hits[v])
        /\ misses'[v] = (IF v \in victims THEN 0 ELSE Misses(points, seen, carved)[v])
    BY <1>1
  <2>2. Misses(points, seen, carved)[v]
          = IF v \in points \union carved THEN 0 ELSE IF v \in seen THEN misses[v] + 1 ELSE misses[v]
    BY DEF Misses
  <2>3. v \in carved <=> v \in seen /\ misses[v] + 1 >= CarveMisses
    BY <1>1
  <2>4. /\ misses[v] \in Nat /\ past.through[v] \in Nat /\ past.through[v] <= CarveMisses
        /\ misses[v] <= past.through[v] /\ misses[v] < CarveMisses
    BY <1>2, RowBounds DEF MissInv
  <2>5. v \in through => /\ past'.through[v] >= misses[v] + 1 /\ past'.through[v] \in 0..CarveMisses
    BY <1>3, <1>6, <2>1, <2>4, RowBounds DEF Lesser
  <2>6. past'.through[v] \in 0..CarveMisses
    BY <2>1, <2>4, <1>6, RowBounds
  <2>7. misses'[v] \in 0..CarveMisses /\ misses'[v] <= past'.through[v] /\ misses'[v] < CarveMisses
    <3>1. CASE v \in victims \union points \union carved
      BY <2>1, <2>2, <2>6, <3>1, RowBounds
    <3>2. CASE v \notin victims \union points \union carved /\ v \in seen
      BY <2>1, <2>2, <2>3, <2>4, <2>5, <3>2, <1>3, RowBounds
    <3>3. CASE v \notin victims \union points \union carved /\ v \notin seen
      <4>1. misses'[v] = misses[v]
        BY <2>1, <2>2, <3>3
      <4>2. past'.through[v] >= past.through[v] \/ v \in through
        BY <2>1, <2>4, <3>3
      <4>. QED BY <4>1, <4>2, <2>4, <2>5, <2>6, RowBounds
    <3>. QED BY <3>1, <3>2, <3>3
  <2>8. ASSUME hits[v] > 0, hits'[v] = 0 PROVE v \in past'.evicted \/ past'.through[v] >= CarveMisses
    <3>1. counted[v] > 0
      BY <2>1, <2>8, <1>5
    <3>2. v \in victims \/ v \in carved
      BY <2>1, <2>8, <3>1
    <3>3. v \in carved => past'.through[v] >= CarveMisses
      BY <2>3, <2>4, <2>5, <2>6, <1>3, RowBounds
    <3>. QED BY <2>1, <3>2, <3>3
  <2>. QED BY <2>7, <2>8
<1>11. misses' \in [Voxels -> 0..CarveMisses]
  <2>1. misses' = [v \in Voxels |-> misses'[v]]
    BY <1>1
  <2>. QED BY <2>1, <1>10
<1>. QED BY <1>7, <1>8, <1>9, <1>10, <1>11 DEF Sound

\* The map starts empty, with nothing on the disk.
LEMMA MapInitInv == MapInit => MapInv
<1>. SUFFICES ASSUME MapInit PROVE MapInv
  OBVIOUS
<1>1. hits \in [Voxels -> 0..MaxHits] /\ past \in Pasts /\ free = {}
  BY RowBounds DEF MapInit, NoPast, Pasts
<1>2. MissInv
  BY RowBounds DEF MapInit, NoPast, MissInv
<1>3. FilesInv
  BY DEF MapInit, FilesInv, NoFile, SoundFile
<1>. QED BY <1>1, <1>2, <1>3 DEF MapInit, MapInv, Sound, FreeOf

\* A step keeps the invariant, and no obstacle leaves the map but as the code says.
LEMMA MapNextInv ==
  ASSUME MapInv, [MapNext]_mapVars
  PROVE  /\ MapInv'
         /\ [\A v \in Voxels : running /\ hits[v] > 0 /\ hits'[v] = 0 =>
               v \in past'.evicted \/ past'.through[v] >= CarveMisses]_mapVars
<1>. DEFINE Stays == \A v \in Voxels : running /\ hits[v] > 0 /\ hits'[v] = 0 =>
                       v \in past'.evicted \/ past'.through[v] >= CarveMisses
<1>1. ASSUME UNCHANGED <<hits, misses, free, past>>, FilesInv', cloud' \in SUBSET Voxels
      PROVE  MapInv' /\ Stays
  <2>1. MissInv' /\ Sound(hits, free, past)'
    BY <1>1 DEF MapInv, MissInv, Sound, FreeOf
  <2>. QED BY <1>1, <2>1 DEF MapInv
<1>2. ASSUME UNCHANGED <<file, temp>> PROVE FilesInv'
  BY <1>2 DEF MapInv, FilesInv, SoundFile
<1>3. CASE NewFrame
  BY <1>1, <1>2, <1>3 DEF NewFrame
<1>4. ASSUME NEW carve \in BOOLEAN, Integrate(cloud, carve), UNCHANGED <<cloud, file, temp>>
      PROVE  MapInv' /\ Stays
  <2>1. /\ Sound(hits', free', past')
        /\ misses' \in [Voxels -> 0..CarveMisses]
        /\ \A v \in Voxels : misses'[v] <= past'.through[v] /\ misses'[v] < CarveMisses
        /\ Stays
    BY <1>4, IntegrateShape DEF MapInv
  <2>. QED BY <1>2, <1>4, <2>1 DEF MapInv, MissInv
<1>5. CASE MergeAndCarve
  BY <1>4, <1>5 DEF MergeAndCarve
<1>6. CASE MergeOnTheWay
  BY <1>4, <1>6 DEF MergeOnTheWay
<1>7. CASE SaveBegins
  <2>1. FilesInv'
    BY <1>7 DEF SaveBegins, MapInv, FilesInv, SoundFile, Part
  <2>. QED BY <1>1, <1>7, <2>1 DEF SaveBegins, MapInv
<1>8. CASE SaveWrites
  <2>1. SoundFile(Content)
    BY DEF MapInv, SoundFile, Content
  <2>2. FilesInv'
    BY <1>8, <2>1 DEF SaveWrites, MapInv, FilesInv, Content, SoundFile
  <2>. QED BY <1>1, <1>8, <2>2 DEF SaveWrites, MapInv
<1>9. CASE SaveReplaces
  <2>1. FilesInv'
    BY <1>9 DEF SaveReplaces, MapInv, FilesInv, SoundFile, NoFile
  <2>. QED BY <1>1, <1>9, <2>1 DEF SaveReplaces, MapInv
<1>10. CASE SaveFails
  <2>1. FilesInv'
    BY <1>10 DEF SaveFails, MapInv, FilesInv, SoundFile, NoFile
  <2>. QED BY <1>1, <1>10, <2>1 DEF SaveFails, MapInv
<1>11. CASE Crash
  <2>1. FilesInv'
    BY <1>11 DEF Crash, MapInv, FilesInv, SoundFile, NoFile
  <2>. QED BY <1>1, <1>11, <2>1 DEF Crash, MapInv
<1>12. CASE Start
  <2>1. Sound(hits, free, past)'
    <3>1. CASE file = NoFile
      BY <1>12, <3>1, RowBounds DEF Start, NoPast, Pasts, Sound, FreeOf
    <3>2. CASE file # NoFile
      BY <1>12, <3>2 DEF Start, MapInv, FilesInv, SoundFile
    <3>. QED BY <3>1, <3>2
  <2>2. MissInv'
    BY <1>12, <2>1, RowBounds DEF Start, MissInv, Sound, Pasts
  <2>. QED BY <1>2, <1>12, <2>1, <2>2 DEF Start, MapInv
<1>13. CASE UNCHANGED mapVars
  BY <1>1, <1>2, <1>13 DEF mapVars, MapInv
<1>. QED
  BY <1>3, <1>5, <1>6, <1>7, <1>8, <1>9, <1>10, <1>11, <1>12, <1>13 DEF MapNext

\* No cell is shown free whose last observation was a return (unless the limit threw it out),
\* and whenever the process dies the next start finds a whole map or none.
THEOREM MapAlwaysTrue == MapSpec => []MapIsTrue
<1>1. MapInv => MapIsTrue
  <2>. SUFFICES ASSUME MapInv PROVE MapIsTrue
    OBVIOUS
  <2>1. FileIsWhole
    BY DEF MapInv, FilesInv, FileIsWhole, NoFile
  <2>2. ASSUME NEW v \in KnownFree PROVE past.last[v] = "through" \/ v \in past.evicted
    <3>1. v \in free /\ v \in Obstacles /\ ~(hits[v] > 0)
      BY DEF KnownFree, Occupied, MapInv, Sound, FreeOf
    <3>2. hits[v] = 0
      BY <3>1, RowBounds DEF MapInv, Sound, Obstacles, Voxels
    <3>. QED BY <3>1, <3>2 DEF MapInv, Sound, FreeOf
  <2>. QED BY <2>1, <2>2 DEF MapIsTrue, FreeIsSeen
<1>2. MapInv /\ [MapNext]_mapVars => MapInv'
  BY MapNextInv
<1>. QED BY MapInitInv, <1>1, <1>2, PTL DEF MapSpec

\* A voxel leaves the map by the limit, or after carve_misses sights through it since its last
\* return: merging without carving, saving, and a restart never lose an obstacle.
THEOREM ObstacleAlwaysStays == MapSpec => ObstacleStays
<1>. DEFINE Stays == \A v \in Voxels : running /\ hits[v] > 0 /\ hits'[v] = 0 =>
                       v \in past'.evicted \/ past'.through[v] >= CarveMisses
<1>1. MapInv /\ [MapNext]_mapVars => MapInv' /\ [Stays]_mapVars
  BY MapNextInv
<1>. QED BY MapInitInv, <1>1, PTL DEF MapSpec, ObstacleStays

-----------------------------------------------------------------------------
(* What is computed step by step: induction along sets of numbers.           *)

\* Every set of numbers that is not empty has a least one.
LEMMA LeastNumber ==
  ASSUME NEW T \in SUBSET Nat, T # {}
  PROVE  \E n \in T : \A m \in T : n <= m
<1>. DEFINE R == {ss \in Nat \X Nat : ss[1] < ss[2]}
<1>1. IsWellFoundedOn(R, Nat)
  BY NatLessThanWellFounded DEF OpToRel
<1>2. \A m, n \in Nat : <<m, n>> \in R <=> m < n
  OBVIOUS
<1>. HIDE DEF R
<1>3. PICK n \in T : \A m \in T : ~(<<m, n>> \in R)
  BY <1>1, WFMin
<1>4. ASSUME NEW m \in T PROVE n <= m
  <2>1. ~(m < n)
    BY <1>2, <1>3
  <2>. QED BY <2>1
<1>. QED BY <1>4

\* Induction along a set of numbers, so that no operator is needed.
LEMMA SetInduction ==
  ASSUME NEW T \in SUBSET Nat, 0 \in T, \A n \in T : n + 1 \in T
  PROVE  T = Nat
<1>. SUFFICES ASSUME T # Nat PROVE FALSE
  OBVIOUS
<1>1. PICK n \in Nat \ T : \A m \in Nat \ T : n <= m
  BY LeastNumber
<1>2. n - 1 \in T
  BY <1>1
<1>. QED BY <1>1, <1>2

\* A run of so many steps: what each gives rests on its number and on what the last one gave.
Run(f, D, first, Step, N) == f \in [0..N -> D] /\ f[0] = first /\ \A k \in 1..N : f[k] = Step[k][f[k - 1]]

LEMMA Iterates ==
  ASSUME NEW D, NEW first \in D, NEW N \in Nat, NEW Step \in [1..N -> [D -> D]]
  PROVE  \E f : Run(f, D, first, Step, N)
<1>. DEFINE Fills(f, m) == f \in [0..m -> D] /\ f[0] = first /\ \A k \in 1..m : f[k] = Step[k][f[k - 1]]
            T == {m \in Nat : m <= N => \E f : Fills(f, m)}
<1>1. 0 \in T
  <2>1. Fills([k \in 0..0 |-> first], 0)
    OBVIOUS
  <2>. HIDE DEF Fills
  <2>. QED BY <2>1
<1>2. ASSUME NEW m \in T, m + 1 <= N PROVE \E f : Fills(f, m + 1)
  <2>1. m \in Nat /\ \E f : Fills(f, m)
    <3>. HIDE DEF Fills
    <3>. QED BY <1>2
  <2>2. PICK f : Fills(f, m)
    BY <2>1
  <2>. DEFINE g == [k \in 0..(m + 1) |-> IF k = m + 1 THEN Step[m + 1][f[m]] ELSE f[k]]
  <2>3. g \in [0..(m + 1) -> D]
    <3>1. Step[m + 1][f[m]] \in D
      BY <1>2, <2>1, <2>2
    <3>. QED BY <2>1, <2>2, <3>1
  <2>4. g[0] = first
    BY <2>1, <2>2
  <2>5. ASSUME NEW k \in 1..(m + 1) PROVE g[k] = Step[k][g[k - 1]]
    <3>1. CASE k = m + 1
      <4>1. k - 1 = m /\ m \in 0..(m + 1) /\ m # m + 1
        BY <2>1, <3>1
      <4>2. g[k] = Step[m + 1][f[m]]
        BY <2>1, <3>1
      <4>3. g[m] = f[m]
        BY <4>1
      <4>. QED BY <3>1, <4>1, <4>2, <4>3
    <3>2. CASE k \in 1..m
      <4>1. k - 1 \in 0..(m + 1) /\ k - 1 # m + 1 /\ k # m + 1
        BY <2>1, <3>2
      <4>2. g[k] = f[k] /\ g[k - 1] = f[k - 1]
        BY <2>1, <4>1
      <4>3. f[k] = Step[k][f[k - 1]]
        BY <2>2, <3>2
      <4>. QED BY <4>2, <4>3
    <3>. QED BY <2>1, <3>1, <3>2
  <2>6. Fills(g, m + 1)
    <3>. HIDE DEF g
    <3>. QED BY <2>3, <2>4, <2>5
  <2>. HIDE DEF g, Fills
  <2>. QED BY <2>6
<1>. HIDE DEF Fills
<1>3. \A m \in T : m + 1 \in T
  BY <1>2
<1>4. T = Nat
  BY <1>1, <1>3, SetInduction
<1>5. \E f : Fills(f, N)
  <2>1. N \in T
    <3>. HIDE DEF T
    <3>. QED BY <1>4
  <2>. QED BY <2>1
<1>. QED BY <1>5 DEF Fills, Run

\* What the first step is in, and no step leaves, every step is in.
LEMMA Stays ==
  ASSUME NEW D, NEW N \in Nat, NEW f, f[0] \in D, \A k \in 1..N : f[k - 1] \in D => f[k] \in D
  PROVE  \A k \in 0..N : f[k] \in D
<1>. DEFINE T == {k \in Nat : k <= N => f[k] \in D}
<1>1. 0 \in T
  OBVIOUS
<1>2. ASSUME NEW k \in T PROVE k + 1 \in T
  <2>1. CASE k + 1 <= N
    <3>1. f[k] \in D /\ k + 1 \in 1..N /\ (k + 1) - 1 = k
      BY <2>1
    <3>2. f[(k + 1) - 1] \in D => f[k + 1] \in D
      BY <3>1
    <3>. QED BY <3>1, <3>2
  <2>. QED BY <2>1
<1>3. T = Nat
  <2>1. T \in SUBSET Nat
    OBVIOUS
  <2>. HIDE DEF T
  <2>. QED BY <1>1, <1>2, <2>1, SetInduction
<1>. QED BY <1>3

\* The largest and the smallest of some numbers up to a bound.
LEMMA Extremes ==
  ASSUME NEW N \in Nat, NEW S \in SUBSET (0..N), S # {}
  PROVE  Max(S) \in S /\ Min(S) \in S /\ \A y \in S : Min(S) <= y /\ y <= Max(S)
<1>1. \E x \in S : \A y \in S : x <= y
  BY LeastNumber
<1>2. \E x \in S : \A y \in S : x >= y
  <2>. DEFINE T == {m \in Nat : N - m \in S}
  <2>1. PICK s \in S : TRUE
    OBVIOUS
  <2>2. N - s \in T
    <3>1. N - s \in Nat /\ N - (N - s) = s
      OBVIOUS
    <3>. QED BY <3>1
  <2>3. PICK n \in T : \A m \in T : n <= m
    <3>. HIDE DEF T
    <3>1. T \in SUBSET Nat
      BY DEF T
    <3>. QED BY <2>2, <3>1, LeastNumber
  <2>4. ASSUME NEW y \in S PROVE N - n >= y
    <3>1. N - y \in Nat /\ N - (N - y) = y
      OBVIOUS
    <3>2. N - y \in T
      BY <3>1
    <3>3. n <= N - y
      BY <2>3, <3>2
    <3>. QED BY <2>3, <3>3
  <2>. QED BY <2>3, <2>4
<1>3. Min(S) \in S /\ \A y \in S : Min(S) <= y
  BY <1>1 DEF Min
<1>4. Max(S) \in S /\ \A y \in S : Max(S) >= y
  BY <1>2 DEF Max
<1>. QED BY <1>3, <1>4

-----------------------------------------------------------------------------
(* The terrain.                                                            *)

\* A place is a column and a level in it.
Places == Int \X Int \X Int

\* What the robot fits below, on a level that something may have been seen at.
Roomy == {n \in Places : n[3] \in 0..Top /\ RoomAbove(Column(n), n[3])}

\* The ways along a graph.
Walks(graph) ==
  {path \in Seq(Places) : \A i \in DOMAIN path : /\ path[i] \in graph.walkable
                                                 /\ i > 1 => EdgeIsSafe(path[i - 1], path[i])}

GroundInv ==
  /\ ground \in {{0}, {0, Top}}
  /\ \A c \in DOMAIN changed : changed[c] \in SUBSET (0..Top)

TerrainInv == GroundInv /\ route.path \in Seq(Places) /\ PathIsSafe

LEMMA TerrainBounds ==
  /\ FieldLength \in Nat /\ FieldWidth \in Nat /\ Top \in Nat /\ Headroom \in Nat /\ HoleSpan \in Nat
  /\ Closing \in Nat /\ Wall \in Nat /\ Buffer \in Nat /\ MaxRise \in Nat /\ Toll \in Nat /\ BackOff \in Nat
BY TerrainAssumption

LEMMA LevelsAreLow == ASSUME GroundInv, NEW c PROVE Levels(c) \in SUBSET (0..Top)
BY TerrainBounds DEF GroundInv, Levels

\* Every surface that is seen or closed has room above it.
LEMMA StandableIsRoomy == Standable \subseteq Roomy
<1>. SUFFICES ASSUME NEW n \in Standable PROVE n \in Roomy
  OBVIOUS
<1>1. PICK c \in Around, z \in 0..Top : n = <<c[1], c[2], z>> /\ RoomAbove(Column(n), n[3])
  BY DEF Standable
<1>2. c[1] \in Int /\ c[2] \in Int /\ z \in Int
  BY <1>1, TerrainBounds DEF Around
<1>3. n \in Places /\ n[3] \in 0..Top
  BY <1>1, <1>2 DEF Places
<1>. QED BY <1>1, <1>3 DEF Roomy

LEMMA ClosedIsRoomy == ASSUME NEW surfaces \in SUBSET Roomy PROVE CloseHoles(surfaces) \in SUBSET Roomy
<1>. SUFFICES ASSUME NEW n \in CloseHoles(surfaces) PROVE n \in Roomy
  OBVIOUS
<1>1. CASE n \in surfaces
  BY <1>1
<1>2. CASE n \notin surfaces
  <2>1. /\ n \in {<<m[1] + d[1], m[2] + d[2], m[3]>> : m \in surfaces, d \in FourWays}
        /\ Closes(surfaces, Column(n), n[3])
    BY <1>2 DEF CloseHoles
  <2>2. PICK m \in surfaces, d \in FourWays : n = <<m[1] + d[1], m[2] + d[2], m[3]>>
    BY <2>1
  <2>3. m \in Places /\ m[3] \in 0..Top
    BY DEF Roomy
  <2>4. d[1] \in Int /\ d[2] \in Int
    BY DEF FourWays
  <2>5. n \in Places /\ n[3] \in 0..Top
    BY <2>2, <2>3, <2>4 DEF Places
  <2>6. RoomAbove(Column(n), n[3])
    BY <2>1 DEF Closes
  <2>. QED BY <2>5, <2>6 DEF Roomy
<1>. QED BY <1>1, <1>2

LEMMA SurfacesAreRoomy == Surfaces \in SUBSET Roomy
<1>. DEFINE D == SUBSET Roomy
            Fills(f) == f = [passes \in 0..Closing |-> IF passes = 0 THEN Standable ELSE CloseHoles(f[passes - 1])]
            closed == CHOOSE f : Fills(f)
<1>1. Surfaces = closed[Closing]
  BY DEF Surfaces
<1>2. \E f : Fills(f)
  <2>. DEFINE Step == [k \in 1..Closing |-> [surfaces \in D |-> CloseHoles(surfaces)]]
  <2>1. Step \in [1..Closing -> [D -> D]]
    BY ClosedIsRoomy
  <2>2. Standable \in D /\ Closing \in Nat
    BY StandableIsRoomy, TerrainBounds
  <2>3. PICK f : Run(f, D, Standable, Step, Closing)
    <3>. HIDE DEF Step, D
    <3>. QED BY <2>1, <2>2, Iterates
  <2>4. ASSUME NEW k \in 1..Closing PROVE f[k] = CloseHoles(f[k - 1])
    <3>1. k - 1 \in 0..Closing
      BY <2>2
    <3>2. f[k - 1] \in D
      BY <2>3, <3>1 DEF Run
    <3>. HIDE DEF D
    <3>3. Step[k][f[k - 1]] = CloseHoles(f[k - 1])
      BY <3>2
    <3>. QED BY <2>3, <3>3 DEF Run
  <2>5. \A k \in 0..Closing : f[k] = IF k = 0 THEN Standable ELSE CloseHoles(f[k - 1])
    BY <2>2, <2>3, <2>4 DEF Run
  <2>6. f = [k \in 0..Closing |-> f[k]]
    BY <2>3 DEF Run
  <2>7. Fills(f)
    BY <2>5, <2>6
  <2>. QED BY <2>7
<1>3. Fills(closed)
  <2>. HIDE DEF Fills
  <2>. QED BY <1>2, Zenon
<1>. HIDE DEF closed
<1>4. closed[0] = Standable /\ \A k \in 1..Closing : closed[k] = CloseHoles(closed[k - 1])
  <2>1. \A k \in 0..Closing : closed[k] = IF k = 0 THEN Standable ELSE CloseHoles(closed[k - 1])
    BY <1>3
  <2>2. Closing \in Nat
    BY TerrainBounds
  <2>. HIDE DEF Fills
  <2>. QED BY <2>1, <2>2
<1>5. closed[0] \in D /\ \A k \in 1..Closing : closed[k - 1] \in D => closed[k] \in D
  BY <1>4, StandableIsRoomy, ClosedIsRoomy
<1>6. \A k \in 0..Closing : closed[k] \in D
  <2>. HIDE DEF D
  <2>. QED BY <1>5, Stays, TerrainBounds
<1>. QED BY <1>1, <1>6, TerrainBounds

\* Who is no further than some cells is no further in either direction.
LEMMA NoFurther ==
  ASSUME NEW x \in Int, NEW y \in Int, NEW r \in Nat, x * x + y * y <= r * r
  PROVE  -r <= x /\ x <= r /\ -r <= y /\ y <= r
<1>1. ASSUME NEW u \in Int, NEW v \in Nat, u * u <= v * v PROVE -v <= u /\ u <= v
  <2>1. ASSUME NEW w \in Nat, w >= v + 1 PROVE w * w > v * v
    <3>1. PICK d \in Nat : w = v + 1 + d
      <4>1. w - v - 1 \in Nat /\ w = v + 1 + (w - v - 1)
        BY <2>1
      <4>. QED BY <4>1
    <3>2. w * w = v * v + 2 * v + 1 + 2 * d * v + 2 * d + d * d
      BY <3>1
    <3>3. d * v >= 0 /\ d * d >= 0
      OBVIOUS
    <3>. QED BY <3>2, <3>3
  <2>2. ~(u >= v + 1)
    BY <1>1, <2>1
  <2>3. ~(-u >= v + 1)
    <3>1. (-u) * (-u) = u * u
      OBVIOUS
    <3>. QED BY <1>1, <2>1, <3>1
  <2>. QED BY <2>2, <2>3
<1>2. x * x >= 0 /\ y * y >= 0
  <2>1. ASSUME NEW u \in Int PROVE u * u >= 0
    <3>1. CASE u >= 0
      BY <3>1
    <3>2. CASE u < 0
      <4>1. -u \in Nat /\ (-u) * (-u) = u * u /\ (-u) * (-u) >= 0
        BY <3>2
      <4>. QED BY <4>1
    <3>. QED BY <3>1, <3>2
  <2>. QED BY <2>1
<1>3. x * x \in Int /\ y * y \in Int /\ r * r \in Int
  OBVIOUS
<1>4. x * x <= r * r /\ y * y <= r * r
  BY <1>2, <1>3
<1>. QED BY <1>1, <1>4

\* What can be walked is in the field and not cut out, has room above it, and keeps the
\* hard distance to every other column that is in the way.
LEMMA GraphIsClear ==
  ASSUME NEW n \in Graph.walkable
  PROVE  /\ n \in Roomy /\ Column(n) \in Field /\ n \notin cut
         /\ \A w \in Within(Column(n), Wall) : w # Column(n) => ~InTheWay(w)
<1>. DEFINE surfaces == Surfaces
            hazards == Hazards(surfaces)
            nodes == {m \in surfaces \ cut : Column(m) \in Field}
            walkable == {m \in nodes : ~HazardWithin(surfaces, hazards, m, Wall * Wall)}
            r == Wall + Buffer
<1>1. Graph.walkable = IF surfaces = {} \/ r = 0 \/ hazards = {} THEN nodes ELSE walkable
  BY DEF Graph
<1>2. n \in nodes
  BY <1>1
<1>3. n \in Roomy /\ Column(n) \in Field /\ n \notin cut
  BY <1>2, SurfacesAreRoomy
<1>4. ASSUME NEW w \in Within(Column(n), Wall), w # Column(n), InTheWay(w) PROVE FALSE
  <2>. DEFINE c == Column(n)
  <2>1. c \in Int \X Int /\ w \in Int \X Int /\ c[1] \in 0..(FieldLength - 1) /\ c[2] \in 0..(FieldWidth - 1)
    BY <1>3, TerrainBounds DEF Field, Within, Around
  <2>2. (w[1] - c[1]) * (w[1] - c[1]) + (w[2] - c[2]) * (w[2] - c[2]) <= Wall * Wall
    <3>1. (c[1] - w[1]) * (c[1] - w[1]) + (c[2] - w[2]) * (c[2] - w[2]) <= Wall * Wall
      BY DEF Within, Far2
    <3>2. (c[1] - w[1]) * (c[1] - w[1]) = (w[1] - c[1]) * (w[1] - c[1])
      BY <2>1
    <3>3. (c[2] - w[2]) * (c[2] - w[2]) = (w[2] - c[2]) * (w[2] - c[2])
      BY <2>1
    <3>. QED BY <3>1, <3>2, <3>3
  <2>. HIDE DEF c
  <2>3. w[1] - c[1] \in Int /\ w[2] - c[2] \in Int
    BY <2>1
  <2>4. /\ -Wall <= w[1] - c[1] /\ w[1] - c[1] <= Wall
        /\ -Wall <= w[2] - c[2] /\ w[2] - c[2] <= Wall
    BY <2>2, <2>3, NoFurther, TerrainBounds
  <2>5. w \in (-r..(FieldLength + r - 1)) \X (-r..(FieldWidth + r - 1))
    <3>1. w[1] \in -r..(FieldLength + r - 1) /\ w[2] \in -r..(FieldWidth + r - 1)
      BY <2>1, <2>4, TerrainBounds
    <3>. QED BY <2>1, <3>1
  <2>6. w \in hazards
    BY <1>4, <2>5 DEF Hazards
  <2>7. r # 0
    <3>1. CASE Wall = 0
      <4>1. w[1] = c[1] /\ w[2] = c[2]
        BY <2>1, <2>4, <3>1
      <4>. QED BY <1>4, <2>1, <4>1 DEF c
    <3>2. CASE Wall # 0
      BY <3>2, TerrainBounds
    <3>. QED BY <3>1, <3>2
  <2>8. n \in walkable
    <3>. HIDE DEF hazards, r, nodes, walkable
    <3>1. surfaces # {}
      BY <1>2 DEF nodes
    <3>. QED BY <1>1, <2>6, <2>7, <3>1
  <2>9. ~(Far2(w, Column(n)) <= Wall * Wall)
    <3>. HIDE DEF hazards
    <3>. QED BY <1>4, <2>6, <2>8 DEF HazardWithin
  <2>. QED BY <2>2, <2>9 DEF Far2, c
<1>. QED BY <1>3, <1>4

\* A column that is not in the way holds one level only, or more than the height of the robot.
LEMMA AloneOrTall ==
  ASSUME GroundInv, NEW w, ~InTheWay(w), Levels(w) # {}
  PROVE  Cardinality(Levels(w)) = 1 \/ Max(Levels(w)) - Min(Levels(w)) > Headroom
<1>1. Levels(w) \in SUBSET (0..Top) /\ Top \in Nat /\ Headroom \in Nat
  BY LevelsAreLow, TerrainBounds
<1>2. Cardinality(Levels(w)) \in Nat \ {0}
  <2>1. IsFiniteSet(0..Top)
    BY <1>1, FS_Interval
  <2>2. IsFiniteSet(Levels(w))
    BY <1>1, <2>1, FS_Subset
  <2>. QED BY <2>2, FS_CardinalityType, FS_EmptySet
<1>3. CASE \E u, v \in Levels(w) : u - v > Headroom
  <2>1. PICK u \in Levels(w), v \in Levels(w) : u - v > Headroom
    BY <1>3
  <2>2. Min(Levels(w)) <= v /\ u <= Max(Levels(w)) /\ Max(Levels(w)) \in 0..Top /\ Min(Levels(w)) \in 0..Top
    BY <1>1, Extremes
  <2>. QED BY <1>1, <2>1, <2>2
<1>4. CASE \A u, v \in Levels(w) : u - v <= Headroom
  BY <1>2, <1>4 DEF InTheWay
<1>. QED BY <1>1, <1>3, <1>4

\* A path along a graph that is as it is has what a safe path needs.
LEMMA WalksAreSafe ==
  ASSUME GroundInv, reply'.path \in Walks(Graph), UNCHANGED <<ground, changed, cut>>
  PROVE  PathIsSafe'
<1>. DEFINE path == reply'.path
<1>. SUFFICES ASSUME NEW i \in DOMAIN path
              PROVE  LET c == Column(path[i])
                         z == path[i][3]
                     IN /\ path[i] \notin cut
                        /\ \A v \in Levels(c) : v <= z \/ z + Headroom < v
                        /\ \A w \in Within(c, Wall) :
                             Intrudes(w, z) => Cardinality(Levels(w)) = 1 \/ Max(Levels(w)) - Min(Levels(w)) > Headroom
                        /\ i > 1 => Far2(path[i - 1], path[i]) <= 2 /\ AbsOf(z - path[i - 1][3]) <= MaxRise
  BY DEF PathIsSafe, Levels, Intrudes
<1>. DEFINE n == path[i]
            c == Column(n)
            z == n[3]
<1>1. n \in Graph.walkable /\ (i > 1 => EdgeIsSafe(path[i - 1], n))
  BY DEF Walks
<1>. HIDE DEF n
<1>2. n \in Roomy /\ n \notin cut /\ \A w \in Within(c, Wall) : w # c => ~InTheWay(w)
  BY <1>1, GraphIsClear
<1>3. z \in Nat /\ RoomAbove(c, z)
  BY <1>2, TerrainBounds DEF Roomy
<1>4. ASSUME NEW v \in Levels(c) PROVE v <= z \/ z + Headroom < v
  <2>1. v \in Nat /\ Headroom \in Nat /\ ~(v > z /\ v <= z + Headroom)
    BY <1>3, LevelsAreLow, TerrainBounds DEF RoomAbove
  <2>. QED BY <1>3, <2>1
<1>5. ASSUME NEW w \in Within(c, Wall), Intrudes(w, z)
      PROVE  Cardinality(Levels(w)) = 1 \/ Max(Levels(w)) - Min(Levels(w)) > Headroom
  <2>1. PICK v \in Levels(w) : z + MaxRise < v /\ v <= z + Headroom
    BY <1>5 DEF Intrudes
  <2>2. v \in Nat /\ MaxRise \in Nat /\ Headroom \in Nat
    BY LevelsAreLow, TerrainBounds
  <2>3. w # c
    BY <1>3, <1>4, <2>1, <2>2
  <2>4. ~InTheWay(w) /\ Levels(w) # {}
    BY <1>2, <2>1, <2>3
  <2>. QED BY <2>4, AloneOrTall
<1>6. i > 1 => Far2(path[i - 1], path[i]) <= 2 /\ AbsOf(z - path[i - 1][3]) <= MaxRise
  BY <1>1 DEF EdgeIsSafe, n
<1>. QED BY <1>2, <1>4, <1>5, <1>6 DEF n

\* A path along a graph goes on to a node that an edge leads to, and may end earlier.
LEMMA WalkGoesOn ==
  ASSUME NEW graph, NEW path \in Walks(graph), NEW n \in graph.walkable, n \in Places,
         path = <<>> \/ EdgeIsSafe(path[Len(path)], n)
  PROVE  Append(path, n) \in Walks(graph) /\ Append(path, n)[Len(Append(path, n))] = n /\ Append(path, n) # <<>>
<1>. DEFINE longer == Append(path, n)
<1>1. path \in Seq(Places) /\ longer \in Seq(Places) /\ Len(longer) = Len(path) + 1 /\ Len(path) \in Nat
  BY DEF Walks
<1>2. longer[Len(path) + 1] = n /\ \A i \in 1..Len(path) : longer[i] = path[i]
  BY <1>1
<1>3. ASSUME NEW i \in DOMAIN longer
      PROVE  longer[i] \in graph.walkable /\ (i > 1 => EdgeIsSafe(longer[i - 1], longer[i]))
  <2>1. i \in 1..(Len(path) + 1)
    BY <1>1
  <2>2. CASE i \in 1..Len(path)
    <3>1. path[i] \in graph.walkable /\ (i > 1 => EdgeIsSafe(path[i - 1], path[i]))
      BY <1>1, <2>2 DEF Walks
    <3>2. longer[i] = path[i] /\ (i > 1 => longer[i - 1] = path[i - 1])
      BY <1>1, <1>2, <2>2
    <3>. QED BY <3>1, <3>2
  <2>3. CASE i = Len(path) + 1
    <3>1. longer[i] = n
      BY <1>2, <2>3
    <3>2. ASSUME i > 1 PROVE EdgeIsSafe(longer[i - 1], longer[i])
      <4>1. i - 1 = Len(path) /\ Len(path) \in 1..Len(path) /\ path # <<>>
        BY <1>1, <2>3, <3>2
      <4>2. longer[i - 1] = path[Len(path)]
        BY <1>2, <4>1
      <4>. QED BY <3>1, <4>1, <4>2
    <3>. QED BY <3>1, <3>2
  <2>. QED BY <1>1, <2>1, <2>2, <2>3
<1>. HIDE DEF longer
<1>4. longer \in Walks(graph) /\ longer[Len(longer)] = n /\ longer # <<>>
  BY <1>1, <1>2, <1>3 DEF Walks
<1>. QED BY <1>4 DEF longer

LEMMA WalkEndsEarlier ==
  ASSUME NEW graph, NEW path \in Walks(graph), NEW k \in 0..Len(path)
  PROVE  SubSeq(path, 1, k) \in Walks(graph)
<1>. DEFINE start == SubSeq(path, 1, k)
<1>1. path \in Seq(Places) /\ start \in Seq(Places) /\ Len(start) = k /\ \A i \in 1..k : start[i] = path[i]
  BY DEF Walks
<1>2. ASSUME NEW i \in DOMAIN start
      PROVE  start[i] \in graph.walkable /\ (i > 1 => EdgeIsSafe(start[i - 1], start[i]))
  <2>1. i \in 1..k /\ i \in DOMAIN path
    BY <1>1
  <2>2. path[i] \in graph.walkable /\ (i > 1 => EdgeIsSafe(path[i - 1], path[i]))
    BY <2>1 DEF Walks
  <2>3. start[i] = path[i] /\ (i > 1 => start[i - 1] = path[i - 1])
    BY <1>1, <2>1
  <2>. QED BY <2>2, <2>3
<1>. HIDE DEF start
<1>3. start \in Walks(graph)
  BY <1>1, <1>2 DEF Walks
<1>. QED BY <1>3 DEF start

\* The prefix that a retreat leaves.
LEMMA RetreatLeaves ==
  ASSUME NEW nodes \in Seq(Places), Len(nodes) >= 1
  PROVE  \E k \in 1..Len(nodes) : Retreat(nodes, BackOff) = SubSeq(nodes, 1, k)
<1>. DEFINE last0 == Len(nodes) - 1
            Piece(k) == Straight(nodes[Len(nodes) - k], nodes[Len(nodes) - k + 1])
            Fills(f) == f = [k \in 0..last0 |-> IF k = 0 THEN 0 ELSE f[k - 1] + Piece(k)]
            length == CHOOSE f : Fills(f)
            short == {k \in DOMAIN length : length[k] <= BackOff}
<1>1. Retreat(nodes, BackOff) = SubSeq(nodes, 1, Len(nodes) - Max(short))
  BY DEF Retreat
<1>2. last0 \in Nat /\ Len(nodes) \in Nat /\ BackOff \in Nat
  BY TerrainBounds
<1>. HIDE DEF last0
<1>3. \E f : Fills(f)
  <2>. DEFINE Step == [k \in 1..last0 |-> [d \in Nat |-> d + Piece(k)]]
  <2>1. Step \in [1..last0 -> [Nat -> Nat]]
    <3>1. \A k \in 1..last0 : Piece(k) \in Nat
      BY DEF Straight
    <3>. HIDE DEF Piece
    <3>. QED BY <3>1
  <2>2. PICK f : Run(f, Nat, 0, Step, last0)
    <3>. HIDE DEF Step
    <3>. QED BY <1>2, <2>1, Iterates
  <2>. HIDE DEF Piece
  <2>3. ASSUME NEW k \in 1..last0 PROVE f[k] = f[k - 1] + Piece(k)
    <3>1. k - 1 \in 0..last0
      BY <1>2
    <3>2. f[k - 1] \in Nat
      BY <2>2, <3>1 DEF Run
    <3>. QED BY <2>2, <3>2 DEF Run
  <2>. HIDE DEF Step
  <2>4. \A k \in 0..last0 : f[k] = IF k = 0 THEN 0 ELSE f[k - 1] + Piece(k)
    BY <1>2, <2>2, <2>3 DEF Run
  <2>5. f = [k \in 0..last0 |-> f[k]]
    BY <2>2 DEF Run
  <2>6. Fills(f)
    BY <2>4, <2>5
  <2>. QED BY <2>6
<1>4. Fills(length)
  <2>. HIDE DEF Fills
  <2>. QED BY <1>3, Zenon
<1>. HIDE DEF length
<1>5. DOMAIN length = 0..last0 /\ length[0] = 0
  BY <1>2, <1>4
<1>6. short \in SUBSET (0..last0) /\ 0 \in short
  BY <1>2, <1>5
<1>. HIDE DEF short
<1>7. Max(short) \in 0..last0
  BY <1>2, <1>6, Extremes
<1>8. Len(nodes) - Max(short) \in 1..Len(nodes)
  BY <1>2, <1>7 DEF last0
<1>. QED BY <1>1, <1>8

\* What is kept of the last path is a path along the graph as it is.
LEMMA PrefixWalks ==
  ASSUME NEW graph, route.path \in Seq(Places), NEW start, NEW goal, NEW prefix \in SafePrefix(graph, start, goal)
  PROVE  prefix \in Walks(graph)
<1>. DEFINE old == route.path
            Kept0(from) == {to \in (from - 1)..Len(old) : StillSafe(graph, old, from, to)}
            Valid(from) == SubSeq(old, from, Max(Kept0(from)))
            Usable(from) == IF Max(Kept0(from)) = Len(old) THEN Valid(from) ELSE Retreat(Valid(from), BackOff)
<1>1. <<>> \in Walks(graph)
  BY DEF Walks
<1>2. CASE prefix = <<>>
  BY <1>1, <1>2
<1>3. CASE prefix # <<>>
  <2>1. PICK from \in DOMAIN old : prefix = Usable(from) /\ ~(Len(Valid(from)) < 2)
    BY <1>3 DEF SafePrefix
  <2>. DEFINE K == Max(Kept0(from))
              valid == Valid(from)
  <2>2. from \in Nat /\ from >= 1 /\ Len(old) \in Nat /\ from <= Len(old)
    OBVIOUS
  <2>3. from - 1 \in Kept0(from)
    BY <2>2 DEF StillSafe
  <2>4. Kept0(from) \in SUBSET (0..Len(old))
    BY <2>2
  <2>5. K \in Kept0(from)
    <3>. HIDE DEF Kept0
    <3>. QED BY <2>2, <2>3, <2>4, Extremes
  <2>6. K \in (from - 1)..Len(old) /\ StillSafe(graph, old, from, K)
    BY <2>5
  <2>7. valid = SubSeq(old, from, K)
    OBVIOUS
  <2>. HIDE DEF K, Kept0
  <2>8. /\ valid \in Seq(Places) /\ Len(valid) = K - from + 1
        /\ \A j \in 1..(K - from + 1) : valid[j] = old[from + j - 1]
    <3>1. K \in Nat /\ 1 <= from /\ K <= Len(old) /\ from \in Nat /\ K - from + 1 \in Nat
      BY <2>2, <2>6
    <3>. HIDE DEF valid, old
    <3>2. ASSUME NEW s \in Seq(Places), NEW m \in Nat, m >= 1, NEW n \in Nat, n <= Len(s), n >= m - 1
          PROVE  /\ SubSeq(s, m, n) \in Seq(Places) /\ Len(SubSeq(s, m, n)) = n - m + 1
                 /\ \A j \in 1..(n - m + 1) : SubSeq(s, m, n)[j] = s[m + j - 1]
      <4>1. Len(SubSeq(s, m, n)) = n - m + 1
        BY <3>2
      <4>2. \A j \in 1..(n - m + 1) : SubSeq(s, m, n)[j] = s[m + j - 1]
        BY <3>2
      <4>3. SubSeq(s, m, n) \in Seq(Places)
        BY <3>2
      <4>. QED BY <4>1, <4>2, <4>3
    <3>3. old \in Seq(Places)
      BY DEF old
    <3>. QED BY <2>6, <2>7, <3>1, <3>2, <3>3
  <2>9. valid \in Walks(graph)
    <3>. HIDE DEF valid, old
    <3>1. ASSUME NEW j \in DOMAIN valid
          PROVE  valid[j] \in graph.walkable /\ (j > 1 => EdgeIsSafe(valid[j - 1], valid[j]))
      <4>1. j \in 1..(K - from + 1) /\ K \in Nat
        BY <2>2, <2>6, <2>8
      <4>2. PICK i \in from..K : i = from + j - 1 /\ (j > 1 => i > from)
        <5>1. from + j - 1 \in from..K /\ (j > 1 => from + j - 1 > from)
          BY <2>2, <4>1
        <5>. QED BY <5>1
      <4>3. old[i] \in graph.walkable /\ (j > 1 => EdgeIsSafe(old[i - 1], old[i]))
        BY <2>6, <4>2 DEF StillSafe
      <4>4. valid[j] = old[i]
        BY <2>8, <4>1, <4>2
      <4>5. ASSUME j > 1 PROVE valid[j - 1] = old[i - 1]
        <5>1. j - 1 \in 1..(K - from + 1)
          BY <2>2, <4>1, <4>5
        <5>2. from + (j - 1) - 1 = i - 1
          BY <2>2, <4>1, <4>2
        <5>. QED BY <2>8, <5>1, <5>2
      <4>. QED BY <4>3, <4>4, <4>5
    <3>. QED BY <2>8, <3>1 DEF Walks
  <2>10. Len(valid) >= 1 /\ Len(valid) \in Nat
    BY <2>1, <2>8
  <2>11. PICK k \in 1..Len(valid) : Retreat(valid, BackOff) = SubSeq(valid, 1, k)
    <3>. HIDE DEF valid
    <3>. QED BY <2>8, <2>10, RetreatLeaves
  <2>12. Retreat(valid, BackOff) \in Walks(graph)
    <3>. HIDE DEF valid
    <3>. QED BY <2>9, <2>10, <2>11, WalkEndsEarlier
  <2>. QED BY <2>1, <2>9, <2>12
<1>. QED BY <1>2, <1>3

\* What a search has found: ways along the graph, each to its own node, and every node that
\* a cheaper way was found to has one.
Found(graph) ==
  {s \in [ways: [graph.walkable -> [cost: Nat, path: Walks(graph)]], fresh: SUBSET graph.walkable] :
     /\ \A n \in graph.walkable : s.ways[n].path # <<>> => s.ways[n].path[Len(s.ways[n].path)] = n
     /\ \A n \in s.fresh : s.ways[n].path # <<>>}

LEMMA RelaxFinds ==
  ASSUME NEW graph, graph.walkable \in SUBSET Places, NEW s \in Found(graph)
  PROVE  Relax(graph, s) \in Found(graph)
<1>. DEFINE W == graph.walkable
            Cost(m, n) == s.ways[m].cost + EdgeCost(graph, m, n)
            From(n) == {m \in s.fresh : /\ EdgeIsSafe(m, n)
                                        /\ s.ways[n].path = <<>> \/ Cost(m, n) < s.ways[n].cost}
            Best(n) == CHOOSE m \in From(n) : \A l \in From(n) : Cost(m, n) <= Cost(l, n)
            Way(n) == IF From(n) = {} THEN s.ways[n]
                      ELSE [cost |-> Cost(Best(n), n), path |-> Append(s.ways[Best(n)].path, n)]
            next == [n \in W |-> Way(n)]
            fresh == IF next = s.ways THEN {} ELSE {n \in W : next[n] # s.ways[n]}
<1>1. Relax(graph, s) = [ways |-> next, fresh |-> fresh]
  BY DEF Relax
<1>2. /\ s.ways \in [W -> [cost: Nat, path: Walks(graph)]] /\ s.fresh \in SUBSET W
      /\ \A n \in W : s.ways[n].path # <<>> => s.ways[n].path[Len(s.ways[n].path)] = n
      /\ \A n \in s.fresh : s.ways[n].path # <<>>
  BY DEF Found
<1>3. \A m, n \in W : Cost(m, n) \in Nat
  <2>1. ASSUME NEW m \in W, NEW n \in W PROVE Cost(m, n) \in Nat
    <3>1. s.ways[m].cost \in Nat
      BY <1>2
    <3>2. m[3] \in Int /\ n[3] \in Int
      BY DEF Places
    <3>3. Climb(m, n) \in Nat /\ Straight(m, n) \in Nat
      BY <3>2 DEF Climb, Straight
    <3>4. EdgeCost(graph, m, n) \in Nat
      <4>1. Straight(m, n) * Toll \in Nat /\ Straight(m, n) * 1 \in Nat /\ 40 * Climb(m, n) \in Nat
        BY <3>3, TerrainBounds
      <4>. QED BY <4>1 DEF EdgeCost
    <3>. QED BY <3>1, <3>4
  <2>. QED BY <2>1
<1>4. ASSUME NEW n \in W, From(n) # {}
      PROVE  Best(n) \in s.fresh /\ EdgeIsSafe(Best(n), n)
  <2>. HIDE DEF Cost
  <2>. DEFINE from == From(n)
              costs == {Cost(m, n) : m \in from}
  <2>1. from \in SUBSET W
    BY <1>2
  <2>2. from # {}
    BY <1>4
  <2>. HIDE DEF from
  <2>3. costs \in SUBSET Nat /\ costs # {}
    BY <1>3, <2>1, <2>2
  <2>4. PICK c \in costs : \A d \in costs : c <= d
    <3>. HIDE DEF costs
    <3>. QED BY <2>3, LeastNumber
  <2>5. \E m \in from : \A l \in from : Cost(m, n) <= Cost(l, n)
    BY <2>4
  <2>6. Best(n) \in from
    BY <2>5 DEF from
  <2>. QED BY <2>6 DEF from
<1>. HIDE DEF Best, From, Cost
<1>5. ASSUME NEW n \in W
      PROVE  /\ Way(n) \in [cost: Nat, path: Walks(graph)]
             /\ Way(n).path # <<>> => Way(n).path[Len(Way(n).path)] = n
             /\ Way(n) # s.ways[n] => Way(n).path # <<>>
  <2>1. CASE From(n) = {}
    BY <1>2, <2>1
  <2>2. CASE From(n) # {}
    <3>. DEFINE b == Best(n)
                path == s.ways[b].path
    <3>1. b \in s.fresh /\ b \in W /\ EdgeIsSafe(b, n)
      BY <1>2, <1>4, <2>2
    <3>2. path \in Walks(graph) /\ path # <<>> /\ path[Len(path)] = b
      BY <1>2, <3>1
    <3>3. Way(n) = [cost |-> Cost(b, n), path |-> Append(path, n)]
      BY <2>2
    <3>4. Cost(b, n) \in Nat
      BY <1>3, <3>1
    <3>. HIDE DEF b, path, Way
    <3>5. n \in Places
      OBVIOUS
    <3>6. /\ Append(path, n) \in Walks(graph) /\ Append(path, n) # <<>>
          /\ Append(path, n)[Len(Append(path, n))] = n
      BY <3>1, <3>2, <3>5, WalkGoesOn
    <3>. QED BY <3>3, <3>4, <3>6
  <2>. QED BY <2>1, <2>2
<1>. HIDE DEF Way
<1>6. next \in [W -> [cost: Nat, path: Walks(graph)]] /\ fresh \in SUBSET W
  BY <1>5
<1>7. \A n \in W : next[n].path # <<>> => next[n].path[Len(next[n].path)] = n
  BY <1>5
<1>8. \A n \in fresh : next[n].path # <<>>
  BY <1>5
<1>. HIDE DEF next, fresh
<1>. QED BY <1>1, <1>6, <1>7, <1>8 DEF Found

LEMMA CheapestWalks ==
  ASSUME NEW graph, graph.walkable \in SUBSET Places, IsFiniteSet(graph.walkable), NEW a \in graph.walkable
  PROVE  \A n \in graph.walkable : Cheapest(graph, a)[n] \in Walks(graph)
<1>. DEFINE W == graph.walkable
            D == Found(graph)
            rounds == Cardinality(W)
            first == [ways |-> [n \in W |-> [cost |-> 0, path |-> IF n = a THEN <<a>> ELSE <<>>]], fresh |-> {a}]
            Round(s) == IF s.fresh = {} THEN s ELSE Relax(graph, s)
            Fills(f) == f = [round \in 0..rounds |-> IF round = 0 THEN first ELSE Round(f[round - 1])]
            search == CHOOSE f : Fills(f)
<1>1. Cheapest(graph, a) = [n \in W |-> search[rounds].ways[n].path]
  BY DEF Cheapest
<1>2. rounds \in Nat
  BY FS_CardinalityType
<1>. HIDE DEF rounds
<1>3. first \in D
  <2>1. <<a>> \in Walks(graph) /\ <<>> \in Walks(graph)
    BY DEF Walks
  <2>2. first \in [ways: [W -> [cost: Nat, path: Walks(graph)]], fresh: SUBSET W]
    BY <2>1
  <2>3. \A n \in W : first.ways[n].path # <<>> => first.ways[n].path[Len(first.ways[n].path)] = n
    OBVIOUS
  <2>4. \A n \in first.fresh : first.ways[n].path # <<>>
    OBVIOUS
  <2>. HIDE DEF first
  <2>. QED BY <2>2, <2>3, <2>4 DEF Found
<1>. HIDE DEF first
<1>4. \A s \in D : Round(s) \in D
  BY RelaxFinds
<1>. HIDE DEF Round, D
<1>5. \E f : Fills(f)
  <2>. DEFINE Step == [k \in 1..rounds |-> [s \in D |-> Round(s)]]
  <2>1. Step \in [1..rounds -> [D -> D]]
    BY <1>4
  <2>2. PICK f : Run(f, D, first, Step, rounds)
    <3>. HIDE DEF Step
    <3>. QED BY <1>2, <1>3, <2>1, Iterates
  <2>3. ASSUME NEW k \in 1..rounds PROVE f[k] = Round(f[k - 1])
    <3>1. k - 1 \in 0..rounds
      BY <1>2
    <3>2. f[k - 1] \in D
      BY <2>2, <3>1 DEF Run
    <3>3. Step[k][f[k - 1]] = Round(f[k - 1])
      BY <3>2
    <3>. QED BY <2>2, <3>3 DEF Run
  <2>4. \A k \in 0..rounds : f[k] = IF k = 0 THEN first ELSE Round(f[k - 1])
    BY <1>2, <2>2, <2>3 DEF Run
  <2>5. f = [k \in 0..rounds |-> f[k]]
    BY <2>2 DEF Run
  <2>6. Fills(f)
    BY <2>4, <2>5
  <2>. QED BY <2>6
<1>6. Fills(search)
  <2>. HIDE DEF Fills
  <2>. QED BY <1>5, Zenon
<1>. HIDE DEF search
<1>7. search[0] = first /\ \A k \in 1..rounds : search[k] = Round(search[k - 1])
  <2>1. \A k \in 0..rounds : search[k] = IF k = 0 THEN first ELSE Round(search[k - 1])
    BY <1>6
  <2>. HIDE DEF Fills
  <2>. QED BY <1>2, <2>1
<1>. HIDE DEF Fills
<1>8. \A k \in 0..rounds : search[k] \in D
  BY <1>2, <1>3, <1>4, <1>7, Stays
<1>9. search[rounds] \in D
  BY <1>2, <1>8
<1>10. \A n \in W : search[rounds].ways[n].path \in Walks(graph)
  BY <1>9 DEF D, Found
<1>. QED BY <1>1, <1>10

\* The graph is finite.
LEMMA GraphIsFinite == Graph.walkable \in SUBSET Places /\ IsFiniteSet(Graph.walkable)
<1>. DEFINE W == Graph.walkable
            box == ((0..(FieldLength - 1)) \X (0..(FieldWidth - 1))) \X (0..Top)
            f == [n \in W |-> <<<<n[1], n[2]>>, n[3]>>]
<1>1. \A n \in W : n \in Places /\ n[3] \in 0..Top /\ <<n[1], n[2]>> \in Field
  BY GraphIsClear DEF Roomy, Column
<1>2. IsFiniteSet(box)
  <2>1. IsFiniteSet(0..(FieldLength - 1)) /\ IsFiniteSet(0..(FieldWidth - 1)) /\ IsFiniteSet(0..Top)
    BY FS_Interval, TerrainBounds
  <2>2. IsFiniteSet((0..(FieldLength - 1)) \X (0..(FieldWidth - 1)))
    BY <2>1, FS_Product
  <2>. QED BY <2>1, <2>2, FS_Product
<1>3. f \in [W -> box]
  BY <1>1 DEF Field
<1>4. \A m, n \in W : f[m] = f[n] => m = n
  BY <1>1 DEF Places
<1>5. f \in Injection(W, box)
  BY <1>3, <1>4 DEF Injection, IsInjective
<1>6. IsFiniteSet(W)
  <2>. HIDE DEF f, box
  <2>. QED BY <1>2, <1>5, FS_Injection
<1>. QED BY <1>1, <1>6

LEMMA TerrainInitInv == TerrainInit => TerrainInv
<1>. SUFFICES ASSUME TerrainInit PROVE TerrainInv
  OBVIOUS
<1>1. GroundInv
  BY DEF TerrainInit, GroundInv
<1>2. route.path = <<>> /\ reply.path = <<>>
  BY DEF TerrainInit, NoRoute, NoReply
<1>3. PathIsSafe
  BY <1>2 DEF PathIsSafe
<1>. QED BY <1>1, <1>2, <1>3 DEF TerrainInv

\* No path is safe whatever the ground is.
LEMMA NoPathIsSafe == ASSUME reply'.path = <<>> PROVE PathIsSafe'
BY DEF PathIsSafe

LEMMA TerrainNextInv == ASSUME TerrainInv, [TerrainNext]_terrainVars PROVE TerrainInv'
<1>1. GroundInv /\ route.path \in Seq(Places) /\ PathIsSafe
  BY DEF TerrainInv
<1>2. ASSUME UNCHANGED <<ground, changed>> PROVE GroundInv'
  BY <1>1, <1>2 DEF GroundInv
<1>3. CASE Update
  <2>1. PICK c \in Spots, shape \in Shapes \union {ground} :
          LET others == DOMAIN changed \ {c}
              new == IF shape = ground THEN others ELSE others \union {c}
          IN changed' = [d \in new |-> IF d = c THEN shape ELSE changed[d]]
    BY <1>3 DEF Update
  <2>2. reply' = NoReply /\ UNCHANGED <<ground, cut, route>>
    BY <1>3 DEF Update
  <2>3. ASSUME NEW d \in DOMAIN changed' PROVE changed'[d] \in SUBSET (0..Top)
    <3>1. CASE d # c
      BY <1>1, <2>1, <3>1 DEF GroundInv
    <3>2. CASE d = c
      <4>1. changed'[d] = shape
        BY <2>1, <3>2
      <4>2. shape \in SUBSET (0..Top)
        BY <1>1, TerrainAssumption, TerrainBounds DEF GroundInv
      <4>. QED BY <4>1, <4>2
    <3>. QED BY <3>1, <3>2
  <2>4. GroundInv'
    BY <1>1, <2>2, <2>3 DEF GroundInv
  <2>5. PathIsSafe'
    BY <2>2, NoPathIsSafe DEF NoReply
  <2>. QED BY <1>1, <2>2, <2>4, <2>5 DEF TerrainInv
<1>4. CASE Overlay
  <2>1. reply' = NoReply /\ UNCHANGED <<ground, changed, route>>
    BY <1>4 DEF Overlay
  <2>2. PathIsSafe'
    BY <2>1, NoPathIsSafe DEF NoReply
  <2>. QED BY <1>1, <1>2, <2>1, <2>2 DEF TerrainInv
<1>5. CASE Plan
  <2>1. UNCHANGED <<ground, changed, cut>>
    BY <1>5 DEF Plan
  <2>. DEFINE graph == Graph
              failed(goal) == [kind |-> "failed", path |-> <<>>, goal |-> goal]
              ways(start, goal) == UNION {LET path == Cheapest(graph, a) IN {path[b] : b \in Nearest(graph, goal)} :
                                            a \in Nearest(graph, start)} \ {<<>>}
  <2>2. PICK start \in Origins, goal \in Destinations :
          \/ reply' = failed(goal) /\ UNCHANGED route
          \/ \E path \in ways(start, goal) : /\ reply' = [kind |-> "path", path |-> path, goal |-> goal]
                                              /\ route' = [path |-> path, goal |-> goal]
          \/ /\ \E prefix \in SafePrefix(graph, start, goal) :
                  reply' = IF prefix = <<>> THEN failed(goal)
                           ELSE [kind |-> "prefix", path |-> prefix, goal |-> goal]
             /\ UNCHANGED route
    BY <1>5 DEF Plan
  <2>. HIDE DEF graph
  <2>3. graph.walkable \in SUBSET Places /\ IsFiniteSet(graph.walkable)
    BY GraphIsFinite DEF graph
  <2>4. <<>> \in Walks(graph)
    BY DEF Walks
  <2>5. reply'.path \in Walks(graph) /\ route'.path \in Seq(Places)
    <3>1. CASE reply' = failed(goal) /\ UNCHANGED route
      BY <1>1, <2>4, <3>1
    <3>2. ASSUME NEW path \in ways(start, goal), reply' = [kind |-> "path", path |-> path, goal |-> goal],
                 route' = [path |-> path, goal |-> goal]
          PROVE  reply'.path \in Walks(graph) /\ route'.path \in Seq(Places)
      <4>1. PICK a \in Nearest(graph, start), b \in Nearest(graph, goal) : path = Cheapest(graph, a)[b]
        BY <3>2
      <4>2. a \in graph.walkable /\ b \in graph.walkable
        BY DEF Nearest
      <4>3. path \in Walks(graph)
        BY <2>3, <4>1, <4>2, CheapestWalks
      <4>. QED BY <3>2, <4>3 DEF Walks
    <3>3. ASSUME NEW prefix \in SafePrefix(graph, start, goal), UNCHANGED route,
                 reply' = IF prefix = <<>> THEN failed(goal) ELSE [kind |-> "prefix", path |-> prefix, goal |-> goal]
          PROVE  reply'.path \in Walks(graph) /\ route'.path \in Seq(Places)
      <4>1. prefix \in Walks(graph)
        BY <1>1, PrefixWalks
      <4>. QED BY <1>1, <2>4, <3>3, <4>1
    <3>. HIDE DEF ways, failed
    <3>. QED BY <2>2, <3>1, <3>2, <3>3
  <2>6. PathIsSafe'
    BY <1>1, <2>1, <2>5, WalksAreSafe DEF graph
  <2>. QED BY <1>2, <2>1, <2>5, <2>6 DEF TerrainInv
<1>6. CASE PlanFrontier
  <2>1. UNCHANGED <<ground, changed, cut, route>>
    BY <1>6 DEF PlanFrontier
  <2>2. reply'.path \in Walks(Graph)
    <3>. DEFINE graph == Graph
    <3>1. PICK start \in Origins : \E a \in Nearest(graph, start) :
            \/ reply'.path = <<>>
            \/ \E n \in graph.walkable : reply'.path = Cheapest(graph, a)[n]
      BY <1>6 DEF PlanFrontier
    <3>2. graph.walkable \in SUBSET Places /\ IsFiniteSet(graph.walkable)
      BY GraphIsFinite
    <3>. HIDE DEF graph
    <3>3. <<>> \in Walks(graph) /\ \A a \in Nearest(graph, start) : a \in graph.walkable
      BY DEF Walks, Nearest
    <3>4. reply'.path \in Walks(graph)
      BY <3>1, <3>2, <3>3, CheapestWalks
    <3>. QED BY <3>4 DEF graph
  <2>3. PathIsSafe'
    BY <1>1, <2>1, <2>2, WalksAreSafe
  <2>. QED BY <1>1, <1>2, <2>1, <2>3 DEF TerrainInv
<1>7. CASE UNCHANGED terrainVars
  <2>1. UNCHANGED <<ground, changed, cut, route, reply>>
    BY <1>7 DEF terrainVars
  <2>2. PathIsSafe'
    BY <1>1, <2>1 DEF PathIsSafe, Intrudes, Levels
  <2>. QED BY <1>1, <1>2, <2>1, <2>2 DEF TerrainInv
<1>. QED BY <1>3, <1>4, <1>5, <1>6, <1>7 DEF TerrainNext

(* Whatever the columns hold and whatever is cut out, in whatever order the    *)
(* map changes, plans are made and overlays are set: every path that is        *)
(* returned is safe - plan_surface_path over build_surface_graph,              *)
(* _safe_prefix and the way to a frontier.                                     *)
THEOREM PathAlwaysSafe == TerrainSpec => []PathIsSafe
<1>1. TerrainInit => TerrainInv
  BY TerrainInitInv
<1>2. TerrainInv /\ [TerrainNext]_terrainVars => TerrainInv'
  BY TerrainNextInv
<1>3. TerrainInv => PathIsSafe
  BY DEF TerrainInv
<1>. QED BY <1>1, <1>2, <1>3, PTL DEF TerrainSpec

-----------------------------------------------------------------------------
(* The cells of the grid and the steps between them.                       *)

\* A cell is a pair of numbers within the grid.
LEMMA CellParts ==
  /\ Cells \subseteq Int \X Int
  /\ \A c \in Cells : c = <<c[1], c[2]>> /\ c[1] \in 0..(Size - 1) /\ c[2] \in 0..(Size - 1)
  /\ \A x, y \in 0..(Size - 1) : <<x, y>> \in Cells
BY GridAssumption DEF Cells

LEMMA CellsFinite == IsFiniteSet(Cells) /\ Cardinality(Cells) \in Nat
<1>1. IsFiniteSet(0..(Size - 1))
  BY GridAssumption, FS_Interval
<1>2. IsFiniteSet(Cells)
  BY <1>1, FS_Product DEF Cells
<1>. QED BY <1>2, FS_CardinalityType

\* What two whole numbers are whose squares make one or two.
LEMMA UnitSquares ==
  ASSUME NEW x \in Int, NEW y \in Int, x * x + y * y \in {1, 2}
  PROVE  x \in -1..1 /\ y \in -1..1 /\ (x # 0 /\ y # 0 <=> x * x + y * y = 2)
<1>1. x * x \in Nat /\ y * y \in Nat
  <2>1. \A z \in Int : z * z \in Nat
    OBVIOUS
  <2>. QED BY <2>1
<1>2. \A z \in Int : z * z <= 2 => z \in -1..1
  OBVIOUS
<1>3. x * x <= 2 /\ y * y <= 2
  BY <1>1
<1>4. x \in -1..1 /\ y \in -1..1
  BY <1>2, <1>3
<1>. QED BY <1>4

\* The steps: to the cells that touch, there and back.
LEMMA BesideParts ==
  ASSUME NEW c \in Cells, NEW n \in Cells
  PROVE  /\ n \in Beside[c] <=> Square(c, n) \in {1, 2}
         /\ n \in Beside[c] => c \in Beside[n]
         /\ n \in Beside[c] =>
              /\ n # c
              /\ n[1] - c[1] \in -1..1 /\ n[2] - c[2] \in -1..1
              /\ Diagonal(c, n) <=> Square(c, n) = 2
<1>. DEFINE x == n[1] - c[1]
            y == n[2] - c[2]
<1>1. x \in Int /\ y \in Int /\ c[1] \in Int /\ c[2] \in Int /\ n[1] \in Int /\ n[2] \in Int
  BY CellParts
<1>2. Square(c, n) = x * x + y * y /\ Square(n, c) = x * x + y * y
  <2>1. \A i, j \in Int : (i - j) * (i - j) = (j - i) * (j - i)
    OBVIOUS
  <2>. QED BY <1>1, <2>1 DEF Square
<1>3. n \in Beside[c] <=> Square(c, n) \in {1, 2}
  BY DEF Beside
<1>4. c \in Beside[n] <=> Square(n, c) \in {1, 2}
  BY DEF Beside
<1>5. ASSUME n \in Beside[c]
      PROVE  n # c /\ x \in -1..1 /\ y \in -1..1 /\ (Diagonal(c, n) <=> Square(c, n) = 2)
  <2>1. x * x + y * y \in {1, 2}
    BY <1>2, <1>3, <1>5
  <2>2. x \in -1..1 /\ y \in -1..1 /\ (x # 0 /\ y # 0 <=> x * x + y * y = 2)
    BY <1>1, <2>1, UnitSquares
  <2>3. n # c
    <3>1. n = c => x = 0 /\ y = 0
      BY <1>1
    <3>. QED BY <2>1, <3>1
  <2>4. Diagonal(c, n) <=> x # 0 /\ y # 0
    BY <1>1 DEF Diagonal
  <2>. QED BY <1>2, <2>2, <2>3, <2>4
<1>. QED BY <1>2, <1>3, <1>4, <1>5

\* What a step is multiplied by.
LEMMA FactorIs == \A grid, n : Factor(grid, n) \in {10, 19, 25}
BY DEF Factor

\* Every step costs something, a diagonal more than a side.
LEMMA StepCosts ==
  ASSUME NEW grid, NEW c, NEW n
  PROVE  /\ StepCost(grid, c, n) \in Nat
         /\ StepCost(grid, c, n) >= IF Diagonal(c, n) THEN 1420 ELSE 1000
BY FactorIs DEF StepCost

-----------------------------------------------------------------------------
(* The heuristic never falls by more than a step costs.                    *)

\* The squares that roots are taken of.
LEMMA SquareBounds ==
  ASSUME NEW c \in Cells, NEW d \in Cells
  PROVE  Square(c, d) \in 0..(2 * Size * Size)
<1>. DEFINE x == c[1] - d[1]
            y == c[2] - d[2]
<1>1. x \in Int /\ y \in Int /\ x <= Size /\ -x <= Size /\ y <= Size /\ -y <= Size /\ Size \in Nat
  BY CellParts, GridAssumption
<1>2. \A z \in Int : z <= Size /\ -z <= Size => z * z \in Nat /\ z * z <= Size * Size
  <2>. TAKE z \in Int
  <2>. HAVE z <= Size /\ -z <= Size
  <2>1. z * z \in Nat
    OBVIOUS
  <2>2. (Size - z) * (Size + z) >= 0
    <3>1. Size - z \in Nat /\ Size + z \in Nat
      BY <1>1
    <3>2. \A a, b \in Nat : a * b >= 0
      OBVIOUS
    <3>. QED BY <3>1, <3>2
  <2>3. (Size - z) * (Size + z) = Size * Size - z * z
    BY <1>1
  <2>. QED BY <1>1, <2>1, <2>2, <2>3
<1>3. x * x \in Nat /\ x * x <= Size * Size /\ y * y \in Nat /\ y * y <= Size * Size
  BY <1>1, <1>2
<1>4. Square(c, d) = x * x + y * y
  BY DEF Square
<1>. HIDE DEF x, y
<1>5. Size * Size \in Nat /\ 2 * Size * Size = Size * Size + Size * Size
  BY <1>1
<1>. QED BY <1>3, <1>4, <1>5

\* The table holds the rounded root of every square it is asked for.
LEMMA RootIs ==
  ASSUME NEW s \in 0..(2 * Size * Size)
  PROVE  /\ Root[s] \in Nat
         /\ Root[s] * Root[s] <= 10000 * s /\ 10000 * s < (Root[s] + 1) * (Root[s] + 1)
<1>. DEFINE N == 200 * Size
            S == {r \in 0..N : r * r <= 10000 * s}
            M == CHOOSE r \in S : \A q \in S : q <= r
<1>1. Size \in Nat /\ N \in Nat /\ s \in Nat /\ s <= 2 * Size * Size
  BY GridAssumption
<1>2. 0 \in S /\ S \in SUBSET (0..N)
  BY <1>1
<1>3. \E r \in S : \A q \in S : q <= r
  <2>. HIDE DEF S, N
  <2>1. Max(S) \in S /\ \A y \in S : y <= Max(S)
    BY <1>1, <1>2, Extremes
  <2>. QED BY <2>1
<1>4. PICK r \in S : \A q \in S : q <= r
  BY <1>3
<1>5. (r + 1) * (r + 1) > 10000 * s
  <2>1. CASE r = N
    <3>1. (r + 1) * (r + 1) = N * N + 2 * N + 1
      BY <1>1, <2>1
    <3>2. N * N = 40000 * (Size * Size)
      BY <1>1
    <3>3. 10000 * s <= 20000 * (Size * Size)
      BY <1>1
    <3>4. Size * Size \in Nat
      BY <1>1
    <3>. HIDE DEF N
    <3>. QED BY <1>1, <3>1, <3>2, <3>3, <3>4
  <2>2. CASE r # N
    <3>1. r + 1 \in 0..N /\ r + 1 \notin S
      BY <1>1, <1>4, <2>2
    <3>. QED BY <1>1, <3>1
  <2>. QED BY <2>1, <2>2
<1>6. \E q \in 0..(200 * Size) : q * q <= 10000 * s /\ (q + 1) * (q + 1) > 10000 * s
  BY <1>4, <1>5
<1>7. /\ Root[s] \in 0..(200 * Size)
      /\ Root[s] * Root[s] <= 10000 * s /\ (Root[s] + 1) * (Root[s] + 1) > 10000 * s
  <2>1. Root[s] = CHOOSE q \in 0..(200 * Size) : q * q <= 10000 * s /\ (q + 1) * (q + 1) > 10000 * s
    BY DEF Root
  <2>. QED BY <1>6, <2>1
<1>. QED BY <1>1, <1>7

\* At the goal nothing is left to go.
LEMMA NothingToGo == Root[0] = 0
<1>1. 0 \in 0..(2 * Size * Size)
  BY GridAssumption
<1>2. Root[0] \in Nat /\ Root[0] * Root[0] <= 0
  BY <1>1, RootIs
<1>. QED BY <1>2

\* A step makes a distance longer by no more than its own length (roots rounded down).
StepApart(x, y, dx, dy, D, r, R) ==
  /\ {x, y, dx, dy} \subseteq Int /\ {D, r, R} \subseteq Nat
  /\ 10000 * (dx * dx + dy * dy) <= D * D
  /\ 10000 * (x * x + y * y) < (R + 1) * (R + 1)
  /\ r * r <= 10000 * ((x + dx) * (x + dx) + (y + dy) * (y + dy))

\* From a cell to one beside it the rounded distance falls by no more than the step: a side is a
\* hundred, and the diagonal, a hundred and forty-one and a bit, is rounded up.
LEMMA RootStep ==
  ASSUME NEW x, NEW y, NEW dx, NEW dy, NEW D, NEW r, NEW R, StepApart(x, y, dx, dy, D, r, R)
  PROVE  r <= R + D
<1>. SUFFICES ASSUME x \in Int, y \in Int, dx \in Int, dy \in Int, D \in Nat, r \in Nat, R \in Nat,
                     10000 * (dx * dx + dy * dy) <= D * D,
                     10000 * (x * x + y * y) < (R + 1) * (R + 1),
                     r * r <= 10000 * ((x + dx) * (x + dx) + (y + dy) * (y + dy))
              PROVE  r <= R + D
  BY DEF StepApart
<1>. DEFINE S == x * x + y * y
            Q == dx * dx + dy * dy
            P == x * dx + y * dy
            C == x * dy - y * dx
            T == (R + 1) * D
<1>1. S \in Nat /\ Q \in Nat /\ P \in Int /\ C \in Int /\ T \in Nat /\ C * C \in Nat
  <2>1. \A z \in Int : z * z \in Nat
    OBVIOUS
  <2>. QED BY <2>1
<1>2. P * P + C * C = S * Q
  OBVIOUS
<1>3. (x + dx) * (x + dx) + (y + dy) * (y + dy) = S + 2 * P + Q
  OBVIOUS
<1>4. (10000 * S) * (10000 * Q) <= T * T
  <2>1. \A a, b, c, d \in Nat : a <= c /\ b <= d => a * b <= c * d
    <3>. TAKE a, b, c, d \in Nat
    <3>. HAVE a <= c /\ b <= d
    <3>1. a * b <= c * b
      <4>1. (c - a) * b >= 0
        OBVIOUS
      <4>. QED BY <4>1
    <3>2. c * b <= c * d
      <4>1. c * (d - b) >= 0
        OBVIOUS
      <4>. QED BY <4>1
    <3>. QED BY <3>1, <3>2
  <2>2. (R + 1) * (R + 1) \in Nat /\ D * D \in Nat /\ 10000 * S \in Nat /\ 10000 * Q \in Nat
    BY <1>1
  <2>3. 10000 * S <= (R + 1) * (R + 1) /\ 10000 * Q <= D * D
    OBVIOUS
  <2>4. (10000 * S) * (10000 * Q) <= ((R + 1) * (R + 1)) * (D * D)
    <3>. HIDE DEF S, Q
    <3>. QED BY <2>1, <2>2, <2>3
  <2>5. ((R + 1) * (R + 1)) * (D * D) = T * T
    OBVIOUS
  <2>. QED BY <2>4, <2>5
<1>5. 10000 * P <= T
  <2>1. (10000 * P) * (10000 * P) <= T * T
    <3>1. P * P <= S * Q
      <4>. HIDE DEF P, C, S, Q
      <4>1. S * Q \in Nat /\ P * P \in Int
        BY <1>1
      <4>. QED BY <1>1, <1>2, <4>1
    <3>2. (10000 * P) * (10000 * P) = 100000000 * (P * P)
      <4>. HIDE DEF P
      <4>. QED BY <1>1
    <3>3. (10000 * S) * (10000 * Q) = 100000000 * (S * Q)
      <4>. HIDE DEF S, Q
      <4>. QED BY <1>1
    <3>. DEFINE pp == P * P
                sq == S * Q
                tt == T * T
    <3>4. pp \in Int /\ sq \in Int /\ tt \in Int
      <4>. HIDE DEF P, S, Q, T
      <4>. QED BY <1>1
    <3>5. pp <= sq /\ 100000000 * sq <= tt
      BY <1>4, <3>1, <3>3
    <3>6. (10000 * P) * (10000 * P) = 100000000 * pp
      BY <3>2
    <3>. HIDE DEF pp, sq
    <3>7. 100000000 * pp <= tt
      <4>. HIDE DEF tt
      <4>. QED BY <3>4, <3>5
    <3>. QED BY <3>6, <3>7
  <2>. HIDE DEF P, T
  <2>2. \A a \in Int, b \in Nat : a * a <= b * b => a <= b
    <3>. TAKE a \in Int, b \in Nat
    <3>. SUFFICES ASSUME a > b PROVE a * a > b * b
      OBVIOUS
    <3>1. (a - b) * (a + b) > 0
      OBVIOUS
    <3>. QED BY <3>1
  <2>. QED BY <1>1, <2>1, <2>2
<1>6. r * r < (R + 1 + D) * (R + 1 + D)
  <2>1. (R + 1 + D) * (R + 1 + D) = (R + 1) * (R + 1) + 2 * T + D * D
    OBVIOUS
  <2>2. r * r <= 10000 * S + 2 * (10000 * P) + 10000 * Q
    BY <1>3
  <2>3. 10000 * S < (R + 1) * (R + 1) /\ 10000 * Q <= D * D
    OBVIOUS
  <2>. DEFINE rr == r * r
              RR == (R + 1) * (R + 1)
              DD == D * D
  <2>4. rr \in Nat /\ RR \in Nat /\ DD \in Nat
    OBVIOUS
  <2>5. rr <= 10000 * S + 2 * (10000 * P) + 10000 * Q /\ 10000 * S < RR /\ 10000 * Q <= DD
    BY <2>2, <2>3
  <2>6. rr < RR + 2 * T + DD
    <3>. HIDE DEF rr, RR, DD, S, P, Q, T
    <3>. QED BY <1>1, <1>5, <2>4, <2>5
  <2>. QED BY <2>1, <2>6
<1>7. \A a, b \in Nat : a * a < b * b => a < b
  <2>. TAKE a, b \in Nat
  <2>. SUFFICES ASSUME a >= b PROVE a * a >= b * b
    OBVIOUS
  <2>1. (a - b) * (a + b) >= 0
    OBVIOUS
  <2>. QED BY <2>1
<1>8. r < R + 1 + D
  <2>1. R + 1 + D \in Nat
    OBVIOUS
  <2>. QED BY <1>6, <1>7, <2>1
<1>. QED BY <1>8

\* The estimate is a number, and nothing at the goal.
LEMMA HeuristicIs ==
  ASSUME NEW goal \in Cells, NEW c \in Cells
  PROVE  Heuristic(goal, c) \in Nat /\ (c = goal => Heuristic(goal, c) = 0)
<1>1. Heuristic(goal, c) \in Nat
  BY SquareBounds, RootIs DEF Heuristic
<1>2. c = goal => Square(goal, c) = 0
  BY CellParts DEF Square
<1>. QED BY <1>1, <1>2, NothingToGo DEF Heuristic

\* The heuristic is consistent: no step brings the goal nearer by more than it costs.
LEMMA HeuristicConsistent ==
  ASSUME NEW grid, NEW goal \in Cells, NEW a \in Cells, NEW b \in Beside[a]
  PROVE  Heuristic(goal, a) <= StepCost(grid, a, b) + Heuristic(goal, b)
<1>. DEFINE x == goal[1] - b[1]
            y == goal[2] - b[2]
            dx == b[1] - a[1]
            dy == b[2] - a[2]
            D == IF Diagonal(a, b) THEN 142 ELSE 100
            r == Root[Square(goal, a)]
            R == Root[Square(goal, b)]
<1>1. b \in Cells /\ x \in Int /\ y \in Int /\ dx \in Int /\ dy \in Int
  BY CellParts DEF Beside
<1>2. Square(goal, b) = x * x + y * y
  BY DEF Square
<1>3. Square(goal, a) = (x + dx) * (x + dx) + (y + dy) * (y + dy)
  <2>1. goal[1] - a[1] = x + dx /\ goal[2] - a[2] = y + dy
    BY <1>1, CellParts
  <2>. QED BY <2>1 DEF Square
<1>4. 10000 * (dx * dx + dy * dy) <= D * D /\ D \in Nat
  <2>1. Square(a, b) = dx * dx + dy * dy
    <3>1. \A i, j \in Int : (i - j) * (i - j) = (j - i) * (j - i)
      OBVIOUS
    <3>2. a[1] \in Int /\ b[1] \in Int /\ a[2] \in Int /\ b[2] \in Int
      BY <1>1, CellParts
    <3>. QED BY <3>1, <3>2 DEF Square
  <2>2. Square(a, b) \in {1, 2} /\ (Diagonal(a, b) <=> Square(a, b) = 2)
    BY <1>1, BesideParts
  <2>. HIDE DEF dx, dy
  <2>3. CASE Diagonal(a, b)
    BY <2>1, <2>2, <2>3
  <2>4. CASE ~Diagonal(a, b)
    BY <2>1, <2>2, <2>4
  <2>. QED BY <2>3, <2>4
<1>5. /\ r \in Nat /\ R \in Nat
      /\ r * r <= 10000 * Square(goal, a) /\ 10000 * Square(goal, b) < (R + 1) * (R + 1)
  BY <1>1, SquareBounds, RootIs
<1>6. r <= R + D
  <2>. HIDE DEF x, y, dx, dy, D, r, R
  <2>1. /\ 10000 * (x * x + y * y) < (R + 1) * (R + 1)
        /\ r * r <= 10000 * ((x + dx) * (x + dx) + (y + dy) * (y + dy))
    BY <1>2, <1>3, <1>5
  <2>2. StepApart(x, y, dx, dy, D, r, R)
    BY <1>1, <1>4, <1>5, <2>1 DEF StepApart
  <2>. QED BY <2>2, RootStep
<1>7. StepCost(grid, a, b) \in Nat /\ StepCost(grid, a, b) >= 10 * D
  BY StepCosts
<1>8. Heuristic(goal, a) = 10 * r /\ Heuristic(goal, b) = 10 * R
  BY DEF Heuristic
<1>. HIDE DEF D, r, R
<1>. QED BY <1>4, <1>5, <1>6, <1>7, <1>8

-----------------------------------------------------------------------------
(* A search that has passed some cells and waits at others.                *)

\* What waits in the heap, and what a search may look like.
Entry == [rank : Nat, serial : Nat, cell : Cells]
SearchStates == [heap : SUBSET Entry, cost : [Cells -> Int], from : [Cells -> Cells], serial : {n \in Nat : n >= 5}]

\* The rank a cell is pushed with: its cost and what is at least left to go; nought for the start.
Estimate(start, goal, s, c) == IF c = start THEN 0 ELSE s.cost[c] + Heuristic(goal, c)
\* A cell was passed when it was reached and waits no more.
Passed(s) == {c \in Cells : s.cost[c] >= 0 /\ \A e \in s.heap : e.cell # c}

\* The search as it may be at any round.  The start costs nothing;
CostsRest(start, s) == s.cost[start] = 0 /\ \A c \in Cells : s.cost[c] >= -1
\* what was reached was reached by a step, for no less than that cost;
CameFrom(grid, start, s) ==
  \A c \in Cells \ {start} : s.cost[c] >= 0 =>
    /\ s.cost[s.from[c]] >= 0
    /\ c \in Beside[s.from[c]] /\ Open(grid, start, s.from[c], c)
    /\ s.cost[s.from[c]] + StepCost(grid, s.from[c], c) <= s.cost[c]
\* what waits was reached, at its rank;
WaitsFor(start, goal, s) ==
  \A e \in s.heap : s.cost[e.cell] >= 0 /\ e.rank = Estimate(start, goal, s, e.cell)
\* what was passed has offered its cost to everything it leads to;
PassedOn(grid, start, s) ==
  \A c \in Passed(s) : \A n \in Beside[c] : Open(grid, start, c, n) =>
    s.cost[n] >= 0 /\ s.cost[n] <= s.cost[c] + StepCost(grid, c, n)
\* and what was passed came before all that waits.
PassedFirst(start, goal, s) == \A c \in Passed(s) : \A e \in s.heap : Estimate(start, goal, s, c) <= e.rank

\* Were the heuristic not consistent, a cell already passed could be reached again more cheaply, and
\* the last part would not hold.
SearchInv(grid, start, goal, s) ==
  /\ s \in SearchStates
  /\ CostsRest(start, s) /\ CameFrom(grid, start, s) /\ WaitsFor(start, goal, s)
  /\ PassedOn(grid, start, s) /\ PassedFirst(start, goal, s)
  /\ goal \notin Passed(s)

\* What is popped is there, and nothing that waits has a lower rank.
LEMMA EarliestIs ==
  ASSUME NEW heap \in SUBSET Entry, heap # {}
  PROVE  Earliest(heap) \in heap /\ \A f \in heap : Earliest(heap).rank <= f.rank
<1>. DEFINE ranks == {e.rank : e \in heap}
<1>1. PICK r \in ranks : \A q \in ranks : r <= q
  <2>1. ranks \in SUBSET Nat /\ ranks # {}
    BY DEF Entry
  <2>. HIDE DEF ranks
  <2>. QED BY <2>1, LeastNumber
<1>. DEFINE serials == {e.serial : e \in {f \in heap : f.rank = r}}
<1>2. PICK t \in serials : \A q \in serials : t <= q
  <2>1. serials \in SUBSET Nat /\ serials # {}
    BY <1>1 DEF Entry
  <2>. HIDE DEF serials
  <2>. QED BY <2>1, LeastNumber
<1>3. PICK e \in heap : e.rank = r /\ e.serial = t
  BY <1>2
<1>4. \A f \in heap : e.rank < f.rank \/ (e.rank = f.rank /\ e.serial <= f.serial)
  <2>. TAKE f \in heap
  <2>1. f.rank \in Nat /\ r \in Nat /\ r <= f.rank
    BY <1>1, <1>3 DEF Entry
  <2>2. f.rank = r => t <= f.serial
    BY <1>2
  <2>. QED BY <1>3, <2>1, <2>2
<1>5. \E d \in heap : \A f \in heap : d.rank < f.rank \/ (d.rank = f.rank /\ d.serial <= f.serial)
  BY <1>4
<1>6. /\ Earliest(heap) \in heap
      /\ \A f \in heap : Earliest(heap).rank < f.rank
                         \/ (Earliest(heap).rank = f.rank /\ Earliest(heap).serial <= f.serial)
  BY <1>5 DEF Earliest
<1>7. \A f \in heap : f.rank \in Nat
  BY DEF Entry
<1>. QED BY <1>6, <1>7

\* The search begins with the start in the heap.
LEMMA SearchBegins ==
  ASSUME NEW grid, NEW start \in Cells, NEW goal \in Cells
  PROVE  SearchInv(grid, start, goal,
           [heap |-> {[rank |-> 0, serial |-> 0, cell |-> start]},
            cost |-> [c \in Cells |-> IF c = start THEN 0 ELSE -1],
            from |-> [c \in Cells |-> c], serial |-> 5])
<1>. DEFINE s == [heap |-> {[rank |-> 0, serial |-> 0, cell |-> start]},
                  cost |-> [c \in Cells |-> IF c = start THEN 0 ELSE -1],
                  from |-> [c \in Cells |-> c], serial |-> 5]
<1>1. s \in SearchStates
  BY DEF SearchStates, Entry
<1>2. \A c \in Cells : s.cost[c] = IF c = start THEN 0 ELSE -1
  OBVIOUS
<1>3. s.heap = {[rank |-> 0, serial |-> 0, cell |-> start]}
  OBVIOUS
<1>. HIDE DEF s
<1>4. Passed(s) = {}
  BY <1>2, <1>3 DEF Passed
<1>5. CostsRest(start, s) /\ CameFrom(grid, start, s) /\ PassedOn(grid, start, s) /\ PassedFirst(start, goal, s)
  BY <1>2, <1>4 DEF CostsRest, CameFrom, PassedOn, PassedFirst
<1>6. WaitsFor(start, goal, s)
  BY <1>2, <1>3 DEF WaitsFor, Estimate
<1>7. SearchInv(grid, start, goal, s)
  BY <1>1, <1>4, <1>5, <1>6 DEF SearchInv
<1>. QED BY <1>7 DEF s

\* Popping what is earliest keeps all that, and passes one more cell for good.
LEMMA ExpandKeeps ==
  ASSUME NEW grid, NEW start \in Cells, NEW goal \in Cells, NEW s,
         SearchInv(grid, start, goal, s), ~SearchEnded(goal, s)
  PROVE  /\ SearchInv(grid, start, goal, Expand(grid, start, goal, s))
         /\ \E c \in Cells \ Passed(s) : Passed(Expand(grid, start, goal, s)) = Passed(s) \union {c}
<1>. DEFINE e0 == Earliest(s.heap)
            c == e0.cell
            Candidate(n) == s.cost[c] + StepCost(grid, c, n)
            taken == {n \in Beside[c] : Open(grid, start, c, n) /\ (s.cost[n] < 0 \/ Candidate(n) < s.cost[n])}
            Pushed(n) == [rank |-> Candidate(n) + Heuristic(goal, n),
                          serial |-> s.serial + 3 * (n[1] - c[1]) + n[2] - c[2], cell |-> n]
            others == {e \in s.heap : e.cell \notin taken \union {c}}
            t == Expand(grid, start, goal, s)
<1>1. /\ s.heap \in SUBSET Entry /\ s.cost \in [Cells -> Int] /\ s.from \in [Cells -> Cells]
      /\ s.serial \in Nat /\ s.serial >= 5
  BY DEF SearchInv, SearchStates
<1>2. /\ CostsRest(start, s) /\ CameFrom(grid, start, s) /\ WaitsFor(start, goal, s)
      /\ PassedOn(grid, start, s) /\ PassedFirst(start, goal, s) /\ goal \notin Passed(s)
  BY DEF SearchInv
<1>3. e0 \in s.heap /\ (\A f \in s.heap : e0.rank <= f.rank) /\ c # goal
  <2>1. s.heap # {} /\ c # goal
    BY DEF SearchEnded
  <2>. QED BY <1>1, <2>1, EarliestIs
<1>4. c \in Cells /\ s.cost[c] \in Nat /\ e0.rank = Estimate(start, goal, s, c) /\ e0.rank \in Nat
  BY <1>1, <1>2, <1>3 DEF Entry, WaitsFor
<1>5. \A n \in Beside[c] : n \in Cells /\ n # c
  <2>1. Beside[c] \in SUBSET Cells
    BY <1>4 DEF Beside
  <2>. QED BY <1>4, <2>1, BesideParts
<1>6. \A n : StepCost(grid, c, n) \in Nat /\ StepCost(grid, c, n) > 0
  BY StepCosts
<1>7. taken \in SUBSET Cells /\ c \notin taken /\ start \notin taken
  <2>1. s.cost[start] = 0
    BY <1>2 DEF CostsRest
  <2>. QED BY <1>4, <1>5, <1>6, <2>1
<1>8. t.heap = others \union {Pushed(n) : n \in taken} /\ t.serial = s.serial + 9
  BY DEF Expand
<1>9. t.cost = [n \in Cells |-> IF n \in taken THEN Candidate(n) ELSE s.cost[n]]
  BY DEF Expand
<1>10. t.from = [n \in Cells |-> IF n \in taken THEN c ELSE s.from[n]]
  <2>1. t.from = IF t.cost = s.cost THEN s.from ELSE [n \in Cells |-> IF n \in taken THEN c ELSE s.from[n]]
    BY DEF Expand
  <2>2. CASE t.cost = s.cost
    <3>1. taken = {}
      <4>. SUFFICES ASSUME NEW n \in taken PROVE FALSE
        OBVIOUS
      <4>1. s.cost[n] < 0 \/ Candidate(n) < s.cost[n]
        OBVIOUS
      <4>2. s.cost[n] = Candidate(n) /\ Candidate(n) \in Nat
        <5>1. n \in Cells /\ Candidate(n) \in Nat
          BY <1>4, <1>6, <1>7
        <5>. HIDE DEF taken, t, Candidate
        <5>. QED BY <1>9, <2>2, <5>1
      <4>. HIDE DEF Candidate
      <4>. QED BY <4>1, <4>2
    <3>. HIDE DEF taken, t
    <3>. QED BY <1>1, <2>1, <2>2, <3>1
  <2>3. CASE t.cost # s.cost
    BY <2>1, <2>3
  <2>. QED BY <2>2, <2>3
<1>11. \A n \in taken : /\ n \in Beside[c] /\ Open(grid, start, c, n)
                        /\ s.cost[n] < 0 \/ Candidate(n) < s.cost[n]
  OBVIOUS
<1>12. \A n \in Beside[c] \ taken : Open(grid, start, c, n) => s.cost[n] >= 0 /\ s.cost[n] <= Candidate(n)
  BY <1>1, <1>4, <1>5, <1>6
<1>13. t \in SearchStates
  <2>1. \A n \in taken : Pushed(n) \in Entry
    <3>. TAKE n \in taken
    <3>1. n \in Cells /\ n[1] - c[1] \in -1..1 /\ n[2] - c[2] \in -1..1
      BY <1>4, <1>7, <1>11, BesideParts
    <3>2. s.serial + 3 * (n[1] - c[1]) + n[2] - c[2] \in Nat
      <4>1. n[1] \in Int /\ n[2] \in Int /\ c[1] \in Int /\ c[2] \in Int
        BY <1>4, <3>1, CellParts
      <4>. HIDE DEF c
      <4>. QED BY <1>1, <3>1, <4>1
    <3>3. Candidate(n) + Heuristic(goal, n) \in Nat
      BY <1>4, <1>6, <3>1, HeuristicIs
    <3>. QED BY <3>1, <3>2, <3>3 DEF Entry
  <2>2. t.heap \in SUBSET Entry
    BY <1>1, <1>8, <2>1
  <2>3. t.cost \in [Cells -> Int] /\ t.from \in [Cells -> Cells]
    <3>1. \A n \in Cells : Candidate(n) \in Int
      BY <1>4, <1>6
    <3>. HIDE DEF taken, t, c, Candidate
    <3>. QED BY <1>1, <1>4, <1>9, <1>10, <3>1
  <2>4. t.serial \in Nat /\ t.serial >= 5
    BY <1>1, <1>8
  <2>5. t = [heap |-> t.heap, cost |-> t.cost, from |-> t.from, serial |-> t.serial]
    BY DEF Expand
  <2>. HIDE DEF t
  <2>. QED BY <2>2, <2>3, <2>4, <2>5 DEF SearchStates
<1>. HIDE DEF t, taken, others
\* What a step leads to is not nearer to the goal, as far as one can tell.
<1>14. \A n \in Beside[c] : e0.rank <= Candidate(n) + Heuristic(goal, n)
  <2>. TAKE n \in Beside[c]
  <2>1. Heuristic(goal, n) \in Nat /\ Heuristic(goal, c) \in Nat
    BY <1>4, <1>5, HeuristicIs
  <2>2. Heuristic(goal, c) <= StepCost(grid, c, n) + Heuristic(goal, n)
    BY <1>4, HeuristicConsistent
  <2>. QED BY <1>4, <1>6, <2>1, <2>2 DEF Estimate
<1>15. taken \intersect Passed(s) = {}
  <2>. SUFFICES ASSUME NEW n \in taken, n \in Passed(s) PROVE FALSE
    OBVIOUS
  <2>1. n \in Cells /\ s.cost[n] \in Nat /\ n # start
    BY <1>1, <1>7 DEF Passed
  <2>2. s.cost[n] + Heuristic(goal, n) <= e0.rank
    BY <1>2, <1>3, <2>1 DEF PassedFirst, Estimate
  <2>3. e0.rank <= Candidate(n) + Heuristic(goal, n)
    BY <1>11, <1>14
  <2>4. Heuristic(goal, n) \in Nat /\ Candidate(n) \in Nat
    BY <1>4, <1>6, <2>1, HeuristicIs
  <2>5. s.cost[n] <= Candidate(n)
    BY <1>4, <2>1, <2>2, <2>3, <2>4
  <2>. QED BY <1>11, <2>1, <2>4, <2>5
<1>16. \A n \in Cells : /\ n \in taken => t.cost[n] = Candidate(n) /\ t.from[n] = c
                        /\ n \notin taken => t.cost[n] = s.cost[n] /\ t.from[n] = s.from[n]
  BY <1>9, <1>10
<1>17. \A n \in Cells : Candidate(n) \in Nat
  BY <1>4, <1>6
<1>18. \A n \in taken : Pushed(n).cell = n /\ Pushed(n).rank = Candidate(n) + Heuristic(goal, n)
  OBVIOUS
<1>19. \A e \in t.heap : \/ e \in s.heap /\ e.cell \notin taken /\ e.cell # c
                         \/ \E n \in taken : e.cell = n /\ e.rank = Candidate(n) + Heuristic(goal, n)
  BY <1>8, <1>18 DEF others
<1>20. /\ \A e \in s.heap : e.cell \in taken \union {c} \/ e \in t.heap
       /\ \A n \in taken : \E e \in t.heap : e.cell = n
  BY <1>8, <1>18 DEF others
<1>. HIDE DEF Candidate, Pushed, c, e0
<1>21. Passed(t) = Passed(s) \union {c} /\ c \notin Passed(s)
  <2>1. c \notin Passed(s)
    BY <1>3 DEF Passed, c
  <2>2. c \in Passed(t)
    BY <1>4, <1>7, <1>16, <1>19 DEF Passed
  <2>3. ASSUME NEW n \in Passed(s) PROVE n \in Passed(t)
    BY <1>7, <1>15, <1>16, <1>19 DEF Passed
  <2>4. ASSUME NEW n \in Passed(t), n # c PROVE n \in Passed(s)
    <3>1. n \in Cells /\ n \notin taken
      BY <1>20 DEF Passed
    <3>. QED BY <1>16, <1>20, <2>4, <3>1 DEF Passed
  <2>. QED BY <2>1, <2>2, <2>3, <2>4
<1>22. CostsRest(start, t)
  BY <1>2, <1>7, <1>16, <1>17 DEF CostsRest
\* What is taken only gets cheaper.
<1>23. \A n \in Cells : s.cost[n] >= 0 => t.cost[n] >= 0 /\ t.cost[n] <= s.cost[n]
  BY <1>1, <1>11, <1>16, <1>17
<1>24. CameFrom(grid, start, t)
  <2>. SUFFICES ASSUME NEW n \in Cells \ {start}, t.cost[n] >= 0
                PROVE  /\ t.cost[t.from[n]] >= 0
                       /\ n \in Beside[t.from[n]] /\ Open(grid, start, t.from[n], n)
                       /\ t.cost[t.from[n]] + StepCost(grid, t.from[n], n) <= t.cost[n]
    BY DEF CameFrom
  <2>1. CASE n \in taken
    <3>1. t.from[n] = c /\ t.cost[n] = s.cost[c] + StepCost(grid, c, n)
      BY <1>16, <2>1 DEF Candidate
    <3>2. t.cost[c] = s.cost[c]
      BY <1>4, <1>7, <1>16
    <3>. QED BY <1>4, <1>6, <1>11, <2>1, <3>1, <3>2
  <2>2. CASE n \notin taken
    <3>. DEFINE p == s.from[n]
    <3>1. t.from[n] = p /\ t.cost[n] = s.cost[n] /\ p \in Cells
      BY <1>1, <1>16, <2>2
    <3>2. s.cost[p] >= 0 /\ n \in Beside[p] /\ Open(grid, start, p, n) /\ s.cost[p] + StepCost(grid, p, n) <= s.cost[n]
      BY <1>2, <3>1 DEF CameFrom
    <3>. HIDE DEF p
    <3>3. t.cost[p] >= 0 /\ t.cost[p] <= s.cost[p]
      BY <1>23, <3>1, <3>2
    <3>4. t.cost[p] + StepCost(grid, p, n) <= t.cost[n]
      <4>1. StepCost(grid, p, n) \in Nat
        BY StepCosts
      <4>2. s.cost[p] \in Int /\ s.cost[n] \in Int /\ t.cost[p] \in Int
        BY <1>1, <1>13, <3>1 DEF SearchStates
      <4>. QED BY <3>1, <3>2, <3>3, <4>1, <4>2
    <3>. QED BY <3>1, <3>2, <3>3, <3>4
  <2>. QED BY <2>1, <2>2
<1>25. WaitsFor(start, goal, t)
  <2>. SUFFICES ASSUME NEW e \in t.heap
                PROVE  t.cost[e.cell] >= 0 /\ e.rank = Estimate(start, goal, t, e.cell)
    BY DEF WaitsFor
  <2>1. CASE e \in s.heap /\ e.cell \notin taken /\ e.cell # c
    <3>1. e.cell \in Cells /\ s.cost[e.cell] >= 0 /\ e.rank = Estimate(start, goal, s, e.cell)
      BY <1>1, <1>2, <2>1 DEF WaitsFor, Entry
    <3>2. t.cost[e.cell] = s.cost[e.cell]
      BY <1>16, <2>1, <3>1
    <3>. QED BY <3>1, <3>2 DEF Estimate
  <2>2. CASE \E n \in taken : e.cell = n /\ e.rank = Candidate(n) + Heuristic(goal, n)
    <3>1. PICK n \in taken : e.cell = n /\ e.rank = Candidate(n) + Heuristic(goal, n)
      BY <2>2
    <3>2. n \in Cells /\ n # start /\ t.cost[n] = Candidate(n) /\ Candidate(n) \in Nat
      BY <1>7, <1>16, <1>17
    <3>. QED BY <3>1, <3>2 DEF Estimate
  <2>. QED BY <1>19, <2>1, <2>2
<1>26. PassedOn(grid, start, t)
  <2>. SUFFICES ASSUME NEW x \in Passed(t), NEW n \in Beside[x], Open(grid, start, x, n)
                PROVE  t.cost[n] >= 0 /\ t.cost[n] <= t.cost[x] + StepCost(grid, x, n)
    BY DEF PassedOn
  <2>1. x \in Cells /\ n \in Cells /\ x \notin taken /\ t.cost[x] = s.cost[x]
    <3>1. x \in Cells /\ x \notin taken
      BY <1>7, <1>15, <1>21 DEF Passed
    <3>. QED BY <1>16, <3>1 DEF Beside
  <2>2. CASE x \in Passed(s)
    <3>1. s.cost[n] >= 0 /\ s.cost[n] <= s.cost[x] + StepCost(grid, x, n)
      BY <1>2, <2>2 DEF PassedOn
    <3>2. t.cost[n] >= 0 /\ t.cost[n] <= s.cost[n]
      BY <1>23, <2>1, <3>1
    <3>3. s.cost[n] \in Int /\ s.cost[x] \in Int /\ t.cost[n] \in Int /\ StepCost(grid, x, n) \in Nat
      BY <1>1, <1>13, <2>1, StepCosts DEF SearchStates
    <3>. QED BY <2>1, <3>1, <3>2, <3>3
  <2>3. CASE x = c
    <3>1. CASE n \in taken
      BY <1>16, <1>17, <2>1, <2>3, <3>1 DEF Candidate
    <3>2. CASE n \notin taken
      BY <1>12, <1>16, <2>1, <2>3, <3>2 DEF Candidate
    <3>. QED BY <3>1, <3>2
  <2>. QED BY <1>21, <2>2, <2>3
<1>27. PassedFirst(start, goal, t)
  <2>. SUFFICES ASSUME NEW x \in Passed(t), NEW e \in t.heap
                PROVE  Estimate(start, goal, t, x) <= e.rank
    BY DEF PassedFirst
  <2>1. x \in Cells /\ x \notin taken /\ t.cost[x] = s.cost[x]
    <3>1. x \in Cells /\ x \notin taken
      BY <1>7, <1>15, <1>21 DEF Passed
    <3>. QED BY <1>16, <3>1
  <2>2. Estimate(start, goal, t, x) = Estimate(start, goal, s, x) /\ Estimate(start, goal, s, x) \in Int
    <3>1. s.cost[x] \in Int /\ Heuristic(goal, x) \in Nat
      BY <1>1, <2>1, HeuristicIs
    <3>. QED BY <2>1, <3>1 DEF Estimate
  <2>3. Estimate(start, goal, s, x) <= e0.rank
    <3>1. CASE x \in Passed(s)
      BY <1>2, <1>3, <3>1 DEF PassedFirst
    <3>2. CASE x = c
      BY <1>4, <3>2
    <3>. QED BY <1>21, <3>1, <3>2
  <2>4. e0.rank <= e.rank /\ e.rank \in Int
    <3>1. CASE e \in s.heap
      BY <1>1, <1>3, <3>1 DEF Entry
    <3>2. CASE \E n \in taken : e.cell = n /\ e.rank = Candidate(n) + Heuristic(goal, n)
      <4>1. PICK n \in taken : e.rank = Candidate(n) + Heuristic(goal, n)
        BY <3>2
      <4>2. n \in Beside[c] /\ n \in Cells
        BY <1>7, <1>11
      <4>3. e0.rank <= Candidate(n) + Heuristic(goal, n)
        BY <1>14, <4>2
      <4>4. Candidate(n) \in Nat /\ Heuristic(goal, n) \in Nat
        BY <1>17, <4>2, HeuristicIs
      <4>. QED BY <4>1, <4>3, <4>4
    <3>. QED BY <1>19, <3>1, <3>2
  <2>. QED BY <1>4, <2>2, <2>3, <2>4
<1>28. goal \notin Passed(t)
  BY <1>2, <1>3, <1>21
<1>29. SearchInv(grid, start, goal, t)
  BY <1>13, <1>22, <1>24, <1>25, <1>26, <1>27, <1>28 DEF SearchInv
<1>. QED BY <1>4, <1>21, <1>29 DEF t

\* What the search has come to when it ends.
LEMMA SearchEnds ==
  ASSUME NEW grid, NEW start \in Cells, NEW goal \in Cells
  PROVE  /\ SearchInv(grid, start, goal, Search(grid, start, goal))
         /\ SearchEnded(goal, Search(grid, start, goal))
<1>. DEFINE D == {s \in SearchStates : SearchInv(grid, start, goal, s)}
            N == Cardinality(Cells)
            first == [heap |-> {[rank |-> 0, serial |-> 0, cell |-> start]},
                      cost |-> [c \in Cells |-> IF c = start THEN 0 ELSE -1],
                      from |-> [c \in Cells |-> c], serial |-> 5]
            Round(s) == IF SearchEnded(goal, s) THEN s ELSE Expand(grid, start, goal, s)
            Fills(f) == f = [pops \in 0..N |-> IF pops = 0 THEN first ELSE Round(f[pops - 1])]
            search == CHOOSE f : Fills(f)
<1>1. Search(grid, start, goal) = search[N]
  BY DEF Search
<1>2. N \in Nat /\ IsFiniteSet(Cells)
  BY CellsFinite
<1>. HIDE DEF N
<1>3. first \in D
  BY SearchBegins DEF SearchInv
<1>. HIDE DEF first
<1>4. \A s \in D : Round(s) \in D
  BY ExpandKeeps DEF SearchInv
<1>5. \A s \in D : ~SearchEnded(goal, s) => \E c \in Cells \ Passed(s) : Passed(Round(s)) = Passed(s) \union {c}
  BY ExpandKeeps
<1>6. \A s \in D : SearchEnded(goal, s) => Round(s) = s
  OBVIOUS
<1>. HIDE DEF Round, D
<1>7. \E f : Fills(f)
  <2>. DEFINE Step == [k \in 1..N |-> [s \in D |-> Round(s)]]
  <2>1. Step \in [1..N -> [D -> D]]
    BY <1>4
  <2>2. PICK f : Run(f, D, first, Step, N)
    <3>. HIDE DEF Step
    <3>. QED BY <1>2, <1>3, <2>1, Iterates
  <2>3. ASSUME NEW k \in 1..N PROVE f[k] = Round(f[k - 1])
    <3>1. k - 1 \in 0..N
      BY <1>2
    <3>2. f[k - 1] \in D
      BY <2>2, <3>1 DEF Run
    <3>3. Step[k][f[k - 1]] = Round(f[k - 1])
      BY <3>2
    <3>. QED BY <2>2, <3>3 DEF Run
  <2>4. \A k \in 0..N : f[k] = IF k = 0 THEN first ELSE Round(f[k - 1])
    BY <1>2, <2>2, <2>3 DEF Run
  <2>5. f = [k \in 0..N |-> f[k]]
    BY <2>2 DEF Run
  <2>6. Fills(f)
    BY <2>4, <2>5
  <2>. QED BY <2>6
<1>8. Fills(search)
  <2>. HIDE DEF Fills
  <2>. QED BY <1>7, Zenon
<1>. HIDE DEF search
<1>9. search[0] = first /\ \A k \in 1..N : search[k] = Round(search[k - 1])
  <2>1. \A k \in 0..N : search[k] = IF k = 0 THEN first ELSE Round(search[k - 1])
    BY <1>8
  <2>. HIDE DEF Fills
  <2>. QED BY <1>2, <2>1
<1>. HIDE DEF Fills
<1>10. \A k \in 0..N : search[k] \in D
  BY <1>2, <1>3, <1>4, <1>9, Stays
\* Every round that does not end it passes one more cell.
<1>. DEFINE Counts(k) == SearchEnded(goal, search[k]) \/ Cardinality(Passed(search[k])) >= k
            T == {k \in Nat : k <= N => Counts(k)}
<1>11. \A s : Passed(s) \in SUBSET Cells /\ IsFiniteSet(Passed(s)) /\ Cardinality(Passed(s)) \in Nat
  <2>. TAKE s
  <2>1. Passed(s) \in SUBSET Cells
    BY DEF Passed
  <2>. QED BY <1>2, <2>1, FS_Subset, FS_CardinalityType
<1>12. 0 \in T
  BY <1>11
<1>13. ASSUME NEW k \in T PROVE k + 1 \in T
  <2>. SUFFICES ASSUME k + 1 <= N, ~SearchEnded(goal, search[k + 1])
                PROVE  Cardinality(Passed(search[k + 1])) >= k + 1
    OBVIOUS
  <2>1. k \in 0..N /\ k + 1 \in 1..N /\ (k + 1) - 1 = k
    BY <1>2
  <2>2. search[k + 1] = Round(search[k]) /\ search[k] \in D
    BY <1>9, <1>10, <2>1
  <2>3. ~SearchEnded(goal, search[k])
    BY <1>6, <2>2
  <2>4. Cardinality(Passed(search[k])) >= k
    BY <2>1, <2>3
  <2>5. PICK c \in Cells \ Passed(search[k]) : Passed(search[k + 1]) = Passed(search[k]) \union {c}
    BY <1>5, <2>2, <2>3
  <2>6. Cardinality(Passed(search[k + 1])) = Cardinality(Passed(search[k])) + 1
    BY <1>11, <2>5, FS_AddElement
  <2>. QED BY <1>11, <2>1, <2>4, <2>6
<1>14. T = Nat
  <2>1. T \in SUBSET Nat
    OBVIOUS
  <2>. HIDE DEF T
  <2>. QED BY <1>12, <1>13, <2>1, SetInduction
<1>15. Counts(N)
  BY <1>2, <1>14
<1>. DEFINE s == search[N]
<1>16. s \in D /\ SearchInv(grid, start, goal, s)
  BY <1>2, <1>10 DEF D
<1>17. SearchEnded(goal, s)
  <2>. SUFFICES ASSUME Cardinality(Passed(s)) >= N PROVE s.heap = {}
    BY <1>15 DEF SearchEnded
  <2>1. Passed(s) = Cells
    <3>. HIDE DEF s
    <3>1. Passed(s) \in SUBSET Cells /\ Cardinality(Passed(s)) <= Cardinality(Cells)
      BY <1>2, <1>11, FS_Subset
    <3>2. Cardinality(Passed(s)) = Cardinality(Cells)
      BY <1>2, <1>11, <3>1 DEF N
    <3>. QED BY <1>2, <3>1, <3>2, FS_Subset
  <2>2. \A e \in s.heap : e.cell \in Cells
    BY <1>16 DEF SearchInv, SearchStates, Entry
  <2>. QED BY <2>1, <2>2 DEF Passed
<1>. QED BY <1>1, <1>16, <1>17

-----------------------------------------------------------------------------
(* The way back.                                                           *)

\* Cells one after the other, each open from the last.
Walk(grid, start, path) ==
  /\ path \in Seq(Cells) /\ Len(path) >= 1 /\ path[1] = start
  /\ \A i \in 2..Len(path) : path[i] \in Beside[path[i - 1]] /\ Open(grid, start, path[i - 1], path[i])

\* A trail that leads to the goal along where each of its cells was reached from.
Trails(start, goal, s) ==
  {p \in Seq(Cells) :
     /\ Len(p) >= 1 /\ p[Len(p)] = goal
     /\ \A i \in 2..Len(p) : p[i] # start /\ p[i - 1] = s.from[p[i]]
     /\ \A i \in 1..Len(p) : s.cost[p[i]] >= s.cost[p[1]] /\ s.cost[p[i]] >= 0
     /\ Cardinality({p[i] : i \in 1..Len(p)}) = Len(p)}

\* A trail that has not come to the start goes on by one cell, and meets none of its own again:
\* what it came from cost less.
LEMMA TrailGoesOn ==
  ASSUME NEW grid, NEW start \in Cells, NEW goal \in Cells, NEW s, SearchInv(grid, start, goal, s),
         NEW p \in Trails(start, goal, s), Head(p) # start
  PROVE  <<s.from[Head(p)]>> \o p \in Trails(start, goal, s) /\ Len(<<s.from[Head(p)]>> \o p) = Len(p) + 1
<1>. DEFINE c == s.from[Head(p)]
            q == <<c>> \o p
<1>1. /\ p \in Seq(Cells) /\ Len(p) >= 1 /\ p[Len(p)] = goal
      /\ \A i \in 2..Len(p) : p[i] # start /\ p[i - 1] = s.from[p[i]]
      /\ \A i \in 1..Len(p) : s.cost[p[i]] >= s.cost[p[1]] /\ s.cost[p[i]] >= 0
      /\ Cardinality({p[i] : i \in 1..Len(p)}) = Len(p)
  BY Zenon DEF Trails
<1>. DEFINE n == Len(p)
            P == {p[i] : i \in 1..n}
<1>2. n \in Nat /\ n >= 1
  <2>1. p \in Seq(Cells) /\ Len(p) >= 1
    BY <1>1, Zenon
  <2>. QED BY <2>1
<1>3. p \in Seq(Cells) /\ Len(p) = n /\ p[n] = goal
  BY <1>1, Zenon
<1>4. \A i \in 2..n : p[i] # start /\ p[i - 1] = s.from[p[i]]
  BY <1>1, Zenon
<1>5. \A i \in 1..n : s.cost[p[i]] >= s.cost[p[1]] /\ s.cost[p[i]] >= 0
  BY <1>1, Zenon
<1>6. Cardinality(P) = n
  BY <1>1, Zenon
<1>7. s.cost \in [Cells -> Int] /\ s.from \in [Cells -> Cells] /\ CameFrom(grid, start, s)
  BY DEF SearchInv, SearchStates
<1>8. \A i \in 1..n : p[i] \in Cells /\ s.cost[p[i]] \in Int
  BY <1>3, <1>7
<1>9. Head(p) = p[1] /\ p[1] \in Cells /\ c \in Cells /\ c = s.from[p[1]] /\ s.cost[c] \in Int
  BY <1>2, <1>3, <1>7
<1>10. s.cost[c] >= 0 /\ s.cost[c] < s.cost[p[1]]
  <2>1. s.cost[p[1]] >= 0 /\ p[1] # start /\ s.cost[p[1]] \in Int
    BY <1>2, <1>5, <1>8, <1>9
  <2>2. s.cost[c] >= 0 /\ s.cost[c] + StepCost(grid, c, p[1]) <= s.cost[p[1]]
    BY <1>7, <1>9, <2>1 DEF CameFrom
  <2>3. StepCost(grid, c, p[1]) \in Nat /\ StepCost(grid, c, p[1]) > 0
    BY StepCosts
  <2>. HIDE DEF c
  <2>. QED BY <1>9, <2>1, <2>2, <2>3
<1>. HIDE DEF c, n
<1>11. /\ q \in Seq(Cells) /\ Len(q) = n + 1 /\ q[1] = c
       /\ \A i \in 1..n : q[i + 1] = p[i]
  BY <1>2, <1>3, <1>9
<1>. HIDE DEF q
<1>12. Len(q) = n + 1 /\ q[1] = c
  BY <1>11
<1>13. \A i \in 1..n : q[i + 1] = p[i]
  BY <1>11
\* A place of the longer trail is its first or one of the shorter.
<1>14. \A i \in 1..(n + 1) : i = 1 \/ \E j \in 1..n : i = j + 1 /\ q[i] = p[j]
  <2>. SUFFICES ASSUME NEW i \in 1..(n + 1), i # 1 PROVE \E j \in 1..n : i = j + 1 /\ q[i] = p[j]
    OBVIOUS
  <2>1. i - 1 \in 1..n /\ i = (i - 1) + 1
    BY <1>2
  <2>2. q[(i - 1) + 1] = p[i - 1]
    BY <1>13, <2>1
  <2>. QED BY <2>1, <2>2
<1>15. q[n + 1] = goal
  BY <1>2, <1>3, <1>13
<1>16. ASSUME NEW i \in 2..(n + 1) PROVE q[i] # start /\ q[i - 1] = s.from[q[i]]
  <2>1. PICK j \in 1..n : i = j + 1 /\ q[i] = p[j]
    BY <1>2, <1>14
  <2>2. i - 1 = j
    BY <2>1
  <2>3. CASE j = 1
    BY <1>9, <1>12, <2>1, <2>2, <2>3
  <2>4. CASE j # 1
    <3>1. j \in 2..n /\ j \in 1..(n + 1)
      BY <1>2, <2>4
    <3>2. PICK k \in 1..n : j = k + 1 /\ q[j] = p[k]
      BY <1>14, <2>4, <3>1
    <3>3. p[j] # start /\ p[j - 1] = s.from[p[j]]
      BY <1>4, <3>1
    <3>4. j - 1 = k
      BY <3>2
    <3>. QED BY <2>1, <2>2, <3>2, <3>3, <3>4
  <2>. QED BY <2>3, <2>4
<1>17. ASSUME NEW i \in 1..(n + 1) PROVE s.cost[q[i]] >= s.cost[q[1]] /\ s.cost[q[i]] >= 0
  <2>1. CASE i = 1
    BY <1>9, <1>10, <1>12, <2>1
  <2>2. CASE i # 1
    <3>1. PICK j \in 1..n : q[i] = p[j]
      BY <1>14, <2>2
    <3>2. s.cost[p[j]] >= s.cost[p[1]] /\ s.cost[p[j]] >= 0 /\ s.cost[p[j]] \in Int /\ s.cost[p[1]] \in Int
      BY <1>2, <1>5, <1>8
    <3>. QED BY <1>9, <1>10, <1>12, <3>1, <3>2
  <2>. QED BY <2>1, <2>2
<1>. DEFINE Q == {q[i] : i \in 1..(n + 1)}
<1>18. Cardinality(Q) = n + 1
  <2>1. Q = P \union {c}
    <3>1. ASSUME NEW i \in 1..(n + 1) PROVE q[i] \in P \union {c}
      BY <1>12, <1>14
    <3>2. c \in Q
      <4>1. 1 \in 1..(n + 1)
        BY <1>2
      <4>. QED BY <1>12, <4>1
    <3>3. ASSUME NEW i \in 1..n PROVE p[i] \in Q
      <4>1. i + 1 \in 1..(n + 1)
        BY <1>2
      <4>2. q[i + 1] = p[i]
        BY <1>13
      <4>. QED BY <4>1, <4>2
    <3>. QED BY <3>1, <3>2, <3>3
  <2>2. c \notin P
    <3>. SUFFICES ASSUME NEW i \in 1..n, p[i] = c PROVE FALSE
      OBVIOUS
    <3>1. s.cost[c] >= s.cost[p[1]] /\ s.cost[p[1]] \in Int
      BY <1>2, <1>5, <1>8
    <3>. QED BY <1>9, <1>10, <3>1
  <2>3. P \in SUBSET Cells /\ IsFiniteSet(P)
    <3>1. P \in SUBSET Cells
      BY <1>8
    <3>. HIDE DEF P
    <3>. QED BY <3>1, CellsFinite, FS_Subset
  <2>. HIDE DEF P, Q
  <2>. QED BY <1>6, <2>1, <2>2, <2>3, FS_AddElement
<1>19. q \in Trails(start, goal, s)
  <2>1. \A i \in 2..(n + 1) : q[i] # start /\ q[i - 1] = s.from[q[i]]
    BY <1>16
  <2>2. \A i \in 1..(n + 1) : s.cost[q[i]] >= s.cost[q[1]] /\ s.cost[q[i]] >= 0
    BY <1>17
  <2>3. Len(q) >= 1 /\ Len(q) = n + 1 /\ q \in Seq(Cells)
    BY <1>2, <1>11
  <2>. QED BY <1>15, <1>18, <2>1, <2>2, <2>3, Zenon DEF Trails
<1>. QED BY <1>12, <1>19 DEF q, c, n

\* The trail back from a goal that was reached is a walk from the start, no longer than the grid has cells.
LEMMA TraceWalks ==
  ASSUME NEW grid, NEW start \in Cells, NEW goal \in Cells, NEW s, SearchInv(grid, start, goal, s),
         s.cost[goal] >= 0
  PROVE  LET path == Trace(s.from, start, goal)
         IN /\ Walk(grid, start, path) /\ path[Len(path)] = goal /\ Len(path) <= Cardinality(Cells)
            /\ \A i \in 2..Len(path) : /\ s.cost[path[i - 1]] + StepCost(grid, path[i - 1], path[i]) <= s.cost[path[i]]
                                       /\ s.cost[path[i - 1]] >= 0
<1>. DEFINE D == Trails(start, goal, s)
            N == Cardinality(Cells)
            first == <<goal>>
            Round(p) == IF Head(p) = start THEN p ELSE <<s.from[Head(p)]>> \o p
            Fills(f) == f = [n \in 0..N |-> IF n = 0 THEN first ELSE Round(f[n - 1])]
            trail == CHOOSE f : Fills(f)
<1>1. Trace(s.from, start, goal) = trail[N]
  BY DEF Trace
<1>2. N \in Nat
  BY CellsFinite
<1>. HIDE DEF N
<1>3. first \in D
  <2>1. {<<goal>>[i] : i \in 1..Len(<<goal>>)} = {goal}
    OBVIOUS
  <2>2. Cardinality({<<goal>>[i] : i \in 1..Len(<<goal>>)}) = 1
    BY <2>1, FS_Singleton
  <2>3. s.cost[goal] \in Int
    BY DEF SearchInv, SearchStates
  <2>4. /\ first \in Seq(Cells) /\ Len(first) = 1 /\ first[1] = goal /\ DOMAIN first = 1..1
    OBVIOUS
  <2>5. Cardinality({first[i] : i \in 1..Len(first)}) = Len(first)
    BY <2>2, <2>4, Zenon
  <2>. HIDE DEF first
  <2>6. 2..Len(first) = {} /\ \A i \in 1..Len(first) : first[i] = goal
    BY <2>4
  <2>7. \A i \in 1..Len(first) : s.cost[first[i]] >= s.cost[first[1]] /\ s.cost[first[i]] >= 0
    BY <2>3, <2>4, <2>6
  <2>8. Len(first) >= 1 /\ first[Len(first)] = goal
    BY <2>4
  <2>9. \A i \in 2..Len(first) : first[i] # start /\ first[i - 1] = s.from[first[i]]
    BY <2>6
  <2>. QED BY <2>4, <2>5, <2>7, <2>8, <2>9, Zenon DEF Trails
<1>. HIDE DEF first
<1>4. \A p \in D : Round(p) \in D /\ (Head(p) = start => Round(p) = p) /\ (Head(p) # start => Len(Round(p)) = Len(p) + 1)
  BY TrailGoesOn
<1>. HIDE DEF Round, D
<1>5. \E f : Fills(f)
  <2>. DEFINE Step == [k \in 1..N |-> [p \in D |-> Round(p)]]
  <2>1. Step \in [1..N -> [D -> D]]
    BY <1>4
  <2>2. PICK f : Run(f, D, first, Step, N)
    <3>. HIDE DEF Step
    <3>. QED BY <1>2, <1>3, <2>1, Iterates
  <2>3. ASSUME NEW k \in 1..N PROVE f[k] = Round(f[k - 1])
    <3>1. k - 1 \in 0..N
      BY <1>2
    <3>2. f[k - 1] \in D
      BY <2>2, <3>1 DEF Run
    <3>3. Step[k][f[k - 1]] = Round(f[k - 1])
      BY <3>2
    <3>. QED BY <2>2, <3>3 DEF Run
  <2>4. \A k \in 0..N : f[k] = IF k = 0 THEN first ELSE Round(f[k - 1])
    BY <1>2, <2>2, <2>3 DEF Run
  <2>5. f = [k \in 0..N |-> f[k]]
    BY <2>2 DEF Run
  <2>6. Fills(f)
    BY <2>4, <2>5
  <2>. QED BY <2>6
<1>6. Fills(trail)
  <2>. HIDE DEF Fills
  <2>. QED BY <1>5, Zenon
<1>. HIDE DEF trail
<1>7. trail[0] = first /\ \A k \in 1..N : trail[k] = Round(trail[k - 1])
  <2>1. \A k \in 0..N : trail[k] = IF k = 0 THEN first ELSE Round(trail[k - 1])
    BY <1>6
  <2>. HIDE DEF Fills
  <2>. QED BY <1>2, <2>1
<1>. HIDE DEF Fills
<1>8. \A k \in 0..N : trail[k] \in D
  BY <1>2, <1>3, <1>4, <1>7, Stays
<1>. DEFINE Grows(k) == Head(trail[k]) = start \/ Len(trail[k]) = k + 1
            T == {k \in Nat : k <= N => Grows(k)}
<1>9. 0 \in T
  BY <1>7 DEF first
<1>10. ASSUME NEW k \in T PROVE k + 1 \in T
  <2>. SUFFICES ASSUME k + 1 <= N PROVE Grows(k + 1)
    OBVIOUS
  <2>1. k \in 0..N /\ k + 1 \in 1..N /\ (k + 1) - 1 = k /\ Grows(k)
    BY <1>2
  <2>2. trail[k + 1] = Round(trail[k]) /\ trail[k] \in D
    BY <1>7, <1>8, <2>1
  <2>3. CASE Head(trail[k]) = start
    BY <1>4, <2>2, <2>3
  <2>4. CASE Head(trail[k]) # start
    BY <1>4, <2>1, <2>2, <2>4
  <2>. QED BY <2>3, <2>4
<1>11. T = Nat
  <2>1. T \in SUBSET Nat
    OBVIOUS
  <2>. HIDE DEF T
  <2>. QED BY <1>9, <1>10, <2>1, SetInduction
<1>12. Grows(N)
  BY <1>2, <1>11
<1>. DEFINE path == trail[N]
<1>13. path \in D
  BY <1>2, <1>8
<1>14. Grows(N) <=> Head(path) = start \/ Len(path) = N + 1
  OBVIOUS
<1>. HIDE DEF path, Grows
<1>15. /\ path \in Seq(Cells) /\ Len(path) >= 1 /\ path[Len(path)] = goal
       /\ \A i \in 2..Len(path) : path[i] # start /\ path[i - 1] = s.from[path[i]]
       /\ \A i \in 1..Len(path) : s.cost[path[i]] >= s.cost[path[1]] /\ s.cost[path[i]] >= 0
       /\ Cardinality({path[i] : i \in 1..Len(path)}) = Len(path)
  BY <1>13, Zenon DEF D, Trails
<1>. DEFINE m == Len(path)
<1>16. m \in Nat /\ m >= 1 /\ path \in Seq(Cells) /\ path[m] = goal /\ Len(path) = m
  <2>1. path \in Seq(Cells) /\ Len(path) >= 1 /\ path[Len(path)] = goal
    BY <1>15, Zenon
  <2>. QED BY <2>1
<1>17. \A i \in 2..m : path[i] # start /\ path[i - 1] = s.from[path[i]]
  BY <1>15, Zenon
<1>18. \A i \in 1..m : s.cost[path[i]] >= 0
  BY <1>15, Zenon
<1>19. Cardinality({path[i] : i \in 1..m}) = m
  BY <1>15, Zenon
<1>. HIDE DEF m
<1>20. \A i \in 1..m : path[i] \in Cells
  BY <1>16
<1>21. m <= N
  <2>1. {path[i] : i \in 1..m} \in SUBSET Cells
    BY <1>20
  <2>2. Cardinality({path[i] : i \in 1..m}) <= Cardinality(Cells)
    BY <2>1, CellsFinite, FS_Subset
  <2>. QED BY <1>19, <2>2 DEF N
<1>22. path[1] = start
  <2>1. Head(path) = path[1]
    BY <1>16
  <2>2. Head(path) = start \/ m = N + 1
    BY <1>12, <1>14, <1>16
  <2>. QED BY <1>2, <1>16, <1>21, <2>1, <2>2
<1>23. ASSUME NEW i \in 2..m
       PROVE  /\ path[i] \in Beside[path[i - 1]] /\ Open(grid, start, path[i - 1], path[i])
              /\ s.cost[path[i - 1]] + StepCost(grid, path[i - 1], path[i]) <= s.cost[path[i]]
              /\ s.cost[path[i - 1]] >= 0
  <2>1. i \in 1..m
    BY <1>16
  <2>2. path[i] \in Cells \ {start} /\ s.cost[path[i]] >= 0
    BY <1>17, <1>18, <1>20, <2>1
  <2>3. path[i - 1] = s.from[path[i]]
    BY <1>17
  <2>. QED BY <2>2, <2>3 DEF SearchInv, CameFrom
<1>24. Walk(grid, start, path)
  BY <1>16, <1>22, <1>23 DEF Walk
<1>. QED BY <1>1, <1>16, <1>21, <1>23, <1>24 DEF path, N

-----------------------------------------------------------------------------
(* What a path costs.                                                      *)

\* Induction along the numbers from one to a bound.
LEMMA UpTo ==
  ASSUME NEW T, NEW n \in Nat, 1 \in T, \A i \in 2..n : i - 1 \in T => i \in T
  PROVE  \A i \in 1..n : i \in T
<1>. DEFINE U == {k \in Nat : k + 1 <= n => k + 1 \in T}
<1>1. 0 \in U
  OBVIOUS
<1>2. ASSUME NEW k \in U PROVE k + 1 \in U
  <2>. SUFFICES ASSUME (k + 1) + 1 <= n PROVE (k + 1) + 1 \in T
    OBVIOUS
  <2>1. k + 1 \in T /\ (k + 1) + 1 \in 2..n /\ ((k + 1) + 1) - 1 = k + 1
    OBVIOUS
  <2>. QED BY <2>1
<1>3. U = Nat
  <2>1. U \in SUBSET Nat
    OBVIOUS
  <2>. HIDE DEF U
  <2>. QED BY <1>1, <1>2, <2>1, SetInduction
<1>4. ASSUME NEW i \in 1..n PROVE i \in T
  <2>1. i - 1 \in Nat /\ (i - 1) + 1 = i
    OBVIOUS
  <2>2. (i - 1) + 1 <= n => (i - 1) + 1 \in T
    BY <1>3, <2>1
  <2>. QED BY <2>1, <2>2
<1>. QED BY <1>4

\* The cost of a path up to each of its cells.
Lengths(grid, path, f) ==
  /\ f \in [1..Len(path) -> Nat] /\ f[1] = 0
  /\ \A i \in 2..Len(path) : f[i] = f[i - 1] + StepCost(grid, path[i - 1], path[i])

\* The length of a path is the sum of its steps.
LEMMA LengthIs ==
  ASSUME NEW grid, NEW path \in Seq(Cells), Len(path) >= 1
  PROVE  \E f : Lengths(grid, path, f) /\ Length(grid, path) = f[Len(path)]
<1>. DEFINE n == Len(path)
            Piece(i) == StepCost(grid, path[i - 1], path[i])
            Fills(f) == f = [i \in 1..n |-> IF i = 1 THEN 0 ELSE f[i - 1] + Piece(i)]
            length == CHOOSE f : Fills(f)
<1>1. Length(grid, path) = length[n]
  BY DEF Length
<1>2. n \in Nat /\ n >= 1
  OBVIOUS
<1>3. \A i : Piece(i) \in Nat
  BY StepCosts
<1>. HIDE DEF n, Piece
<1>4. \E f : Fills(f)
  <2>. DEFINE Step == [k \in 1..(n - 1) |-> [a \in Nat |-> a + Piece(k + 1)]]
  <2>1. Step \in [1..(n - 1) -> [Nat -> Nat]]
    <3>1. \A k, a \in Nat : a + Piece(k + 1) \in Nat
      BY <1>3
    <3>. QED BY <1>2, <3>1
  <2>2. PICK g : Run(g, Nat, 0, Step, n - 1)
    <3>1. n - 1 \in Nat
      BY <1>2
    <3>. HIDE DEF Step
    <3>. QED BY <2>1, <3>1, Iterates
  <2>. DEFINE f == [i \in 1..n |-> g[i - 1]]
  <2>3. g[0] = 0 /\ g \in [0..(n - 1) -> Nat]
    BY <2>2 DEF Run
  <2>4. ASSUME NEW i \in 1..n PROVE f[i] = IF i = 1 THEN 0 ELSE f[i - 1] + Piece(i)
    <3>1. CASE i = 1
      BY <1>2, <2>3, <3>1
    <3>2. CASE i # 1
      <4>. DEFINE k == i - 1
      <4>1. k \in 1..(n - 1) /\ k \in 1..n /\ k - 1 \in 0..(n - 1) /\ k + 1 = i
        BY <1>2, <3>2
      <4>2. g[k] = Step[k][g[k - 1]]
        BY <2>2, <4>1 DEF Run
      <4>3. g[k - 1] \in Nat
        BY <2>3, <4>1
      <4>4. Step[k][g[k - 1]] = g[k - 1] + Piece(k + 1)
        BY <4>1, <4>3
      <4>5. f[i] = g[k] /\ f[k] = g[k - 1]
        BY <4>1
      <4>. HIDE DEF f, Step
      <4>. QED BY <3>2, <4>1, <4>2, <4>4, <4>5
    <3>. QED BY <3>1, <3>2
  <2>5. f = [i \in 1..n |-> f[i]]
    OBVIOUS
  <2>. HIDE DEF f
  <2>6. Fills(f)
    BY <2>4, <2>5
  <2>. HIDE DEF Fills
  <2>. QED BY <2>6
<1>5. Fills(length)
  <2>. HIDE DEF Fills
  <2>. QED BY <1>4, Zenon
<1>. HIDE DEF length
<1>6. DOMAIN length = 1..n /\ length = [i \in 1..n |-> length[i]]
  BY <1>5
<1>7. \A i \in 1..n : length[i] = IF i = 1 THEN 0 ELSE length[i - 1] + Piece(i)
  BY <1>5
<1>. HIDE DEF Fills
<1>8. \A i \in 1..n : length[i] \in Nat
  <2>. DEFINE T == {i \in 1..n : length[i] \in Nat}
  <2>1. 1 \in T
    BY <1>2, <1>7
  <2>2. ASSUME NEW i \in 2..n, i - 1 \in T PROVE i \in T
    BY <1>2, <1>3, <1>7, <2>2
  <2>3. \A i \in 1..n : i \in T
    <3>. HIDE DEF T
    <3>. QED BY <1>2, <2>1, <2>2, UpTo
  <2>. QED BY <2>3
<1>9. length \in [1..n -> Nat] /\ length[1] = 0
  <2>1. length \in [1..n -> Nat]
    BY <1>6, <1>8
  <2>2. 1 \in 1..n
    BY <1>2
  <2>. QED BY <1>7, <2>1, <2>2
<1>10. \A i \in 2..n : length[i] = length[i - 1] + Piece(i)
  BY <1>2, <1>7
<1>11. Lengths(grid, path, length)
  BY <1>9, <1>10 DEF Lengths, n, Piece
<1>. QED BY <1>1, <1>11 DEF n

-----------------------------------------------------------------------------
(* The least cost, round by round.                                         *)

\* Costs of the cells, and a round of the reference that finds the least of them.
Measures == [Cells -> Nat \union {-1}]
WaysTo(grid, start, d, c) ==
  {d[p] + StepCost(grid, p, c) : p \in {q \in Beside[c] : d[q] >= 0 /\ Open(grid, start, q, c)}}
  \union ({d[c]} \ {-1})
LeastOf(ways) == CHOOSE w \in ways : \A v \in ways : w <= v
Relaxed(grid, start, d) ==
  [c \in Cells |-> IF WaysTo(grid, start, d, c) = {} THEN -1 ELSE LeastOf(WaysTo(grid, start, d, c))]

\* A round of the reference keeps what was reached, makes nothing dearer, and counts every step.
LEMMA RelaxedIs ==
  ASSUME NEW grid, NEW start, NEW d \in Measures
  PROVE  /\ Relaxed(grid, start, d) \in Measures
         /\ \A c \in Cells :
              /\ d[c] >= 0 => Relaxed(grid, start, d)[c] >= 0 /\ Relaxed(grid, start, d)[c] <= d[c]
              /\ \A p \in Beside[c] : d[p] >= 0 /\ Open(grid, start, p, c) =>
                   /\ Relaxed(grid, start, d)[c] >= 0
                   /\ Relaxed(grid, start, d)[c] <= d[p] + StepCost(grid, p, c)
              /\ Relaxed(grid, start, d)[c] >= 0 =>
                   \/ Relaxed(grid, start, d)[c] = d[c]
                   \/ \E p \in Beside[c] : /\ d[p] >= 0 /\ Open(grid, start, p, c)
                                           /\ Relaxed(grid, start, d)[c] = d[p] + StepCost(grid, p, c)
<1>. DEFINE R == Relaxed(grid, start, d)
            W(c) == WaysTo(grid, start, d, c)
<1>1. \A c \in Cells : R[c] = IF W(c) = {} THEN -1 ELSE LeastOf(W(c))
  BY DEF Relaxed
<1>2. R \in [Cells -> {R[c] : c \in Cells}]
  BY DEF Relaxed
<1>3. ASSUME NEW c \in Cells PROVE W(c) \in SUBSET Nat
  <2>1. \A p \in Beside[c] : p \in Cells /\ d[p] \in Nat \union {-1}
    BY DEF Measures, Beside
  <2>2. d[c] \in Nat \union {-1}
    BY DEF Measures
  <2>. QED BY <2>1, <2>2, StepCosts DEF WaysTo
<1>4. ASSUME NEW c \in Cells
      PROVE  /\ d[c] >= 0 => d[c] \in W(c)
             /\ \A p \in Beside[c] : d[p] >= 0 /\ Open(grid, start, p, c) => d[p] + StepCost(grid, p, c) \in W(c)
             /\ \A w \in W(c) : \/ w = d[c]
                                \/ \E p \in Beside[c] : /\ d[p] >= 0 /\ Open(grid, start, p, c)
                                                        /\ w = d[p] + StepCost(grid, p, c)
  <2>1. d[c] \in Nat \union {-1}
    BY DEF Measures
  <2>. QED BY <2>1 DEF WaysTo
<1>. HIDE DEF R, W
<1>5. ASSUME NEW c \in Cells
      PROVE  \/ W(c) = {} /\ R[c] = -1
             \/ R[c] \in W(c) /\ R[c] \in Nat /\ \A w \in W(c) : R[c] <= w
  <2>. SUFFICES ASSUME W(c) # {} PROVE LeastOf(W(c)) \in W(c) /\ \A w \in W(c) : LeastOf(W(c)) <= w
    BY <1>1, <1>3
  <2>1. \E w \in W(c) : \A v \in W(c) : w <= v
    BY <1>3, LeastNumber
  <2>. QED BY <2>1 DEF LeastOf
<1>6. R \in Measures
  <2>1. \A c \in Cells : R[c] \in Nat \union {-1}
    BY <1>5
  <2>. QED BY <1>2, <2>1 DEF Measures
<1>7. ASSUME NEW c \in Cells
      PROVE  /\ d[c] >= 0 => R[c] >= 0 /\ R[c] <= d[c]
             /\ \A p \in Beside[c] : d[p] >= 0 /\ Open(grid, start, p, c) =>
                  R[c] >= 0 /\ R[c] <= d[p] + StepCost(grid, p, c)
             /\ R[c] >= 0 => \/ R[c] = d[c]
                             \/ \E p \in Beside[c] : /\ d[p] >= 0 /\ Open(grid, start, p, c)
                                                     /\ R[c] = d[p] + StepCost(grid, p, c)
  <2>1. d[c] >= 0 => R[c] >= 0 /\ R[c] <= d[c]
    BY <1>4, <1>5
  <2>2. ASSUME NEW p \in Beside[c], d[p] >= 0, Open(grid, start, p, c)
        PROVE  R[c] >= 0 /\ R[c] <= d[p] + StepCost(grid, p, c)
    BY <1>4, <1>5, <2>2
  <2>3. R[c] >= 0 => R[c] \in W(c)
    BY <1>5
  <2>. QED BY <1>4, <2>1, <2>2, <2>3
<1>. QED BY <1>6, <1>7 DEF R

\* Round by round: once nothing changes, nothing will.
Rounds(grid, start, g) ==
  /\ g[0] = [c \in Cells |-> IF c = start THEN 0 ELSE -1]
  /\ \A k \in 1..Cardinality(Cells) : g[k] = Relaxed(grid, start, g[k - 1])
  /\ \A k \in 0..Cardinality(Cells) : g[k] \in Measures

\* The distances are what so many rounds leave.
LEMMA DistancesAre ==
  ASSUME NEW grid, NEW start
  PROVE  \E g : Rounds(grid, start, g) /\ Distances(grid, start) = g[Cardinality(Cells)]
<1>. DEFINE N == Cardinality(Cells)
            first == [cost |-> [c \in Cells |-> IF c = start THEN 0 ELSE -1], settled |-> FALSE]
            Round(s) == IF s.settled THEN s
                        ELSE [cost |-> Relaxed(grid, start, s.cost), settled |-> Relaxed(grid, start, s.cost) = s.cost]
            Fills(f) == f = [n \in 0..N |-> IF n = 0 THEN first ELSE Round(f[n - 1])]
            settle == CHOOSE f : Fills(f)
            D == {s \in [cost : Measures, settled : BOOLEAN] : s.settled => Relaxed(grid, start, s.cost) = s.cost}
<1>1. Distances(grid, start) = settle[N].cost
  BY DEF Distances, Relaxed, LeastOf, WaysTo
<1>2. N \in Nat
  BY CellsFinite
<1>. HIDE DEF N
<1>3. first \in D /\ first.cost = [c \in Cells |-> IF c = start THEN 0 ELSE -1]
  BY DEF Measures
<1>. HIDE DEF first
<1>4. ASSUME NEW s \in D PROVE Round(s) \in D /\ Round(s).cost = Relaxed(grid, start, s.cost)
  <2>1. CASE s.settled
    BY <2>1
  <2>2. CASE ~s.settled
    <3>1. Relaxed(grid, start, s.cost) \in Measures
      BY RelaxedIs
    <3>2. Round(s) = [cost |-> Relaxed(grid, start, s.cost), settled |-> Relaxed(grid, start, s.cost) = s.cost]
      BY <2>2
    <3>. HIDE DEF Round
    <3>. QED BY <3>1, <3>2
  <2>. QED BY <2>1, <2>2
<1>5. \A s \in D : s.cost \in Measures
  OBVIOUS
<1>. HIDE DEF Round, D
<1>6. \E f : Fills(f)
  <2>. DEFINE Step == [k \in 1..N |-> [s \in D |-> Round(s)]]
  <2>1. Step \in [1..N -> [D -> D]]
    BY <1>4
  <2>2. PICK f : Run(f, D, first, Step, N)
    <3>. HIDE DEF Step
    <3>. QED BY <1>2, <1>3, <2>1, Iterates
  <2>3. ASSUME NEW k \in 1..N PROVE f[k] = Round(f[k - 1])
    <3>1. k - 1 \in 0..N
      BY <1>2
    <3>2. f[k - 1] \in D
      BY <2>2, <3>1 DEF Run
    <3>3. Step[k][f[k - 1]] = Round(f[k - 1])
      BY <3>2
    <3>. QED BY <2>2, <3>3 DEF Run
  <2>4. \A k \in 0..N : f[k] = IF k = 0 THEN first ELSE Round(f[k - 1])
    BY <1>2, <2>2, <2>3 DEF Run
  <2>5. f = [k \in 0..N |-> f[k]]
    BY <2>2 DEF Run
  <2>6. Fills(f)
    BY <2>4, <2>5
  <2>. QED BY <2>6
<1>7. Fills(settle)
  <2>. HIDE DEF Fills
  <2>. QED BY <1>6, Zenon
<1>. HIDE DEF settle
<1>8. settle[0] = first /\ \A k \in 1..N : settle[k] = Round(settle[k - 1])
  <2>1. \A k \in 0..N : settle[k] = IF k = 0 THEN first ELSE Round(settle[k - 1])
    BY <1>7
  <2>. HIDE DEF Fills
  <2>. QED BY <1>2, <2>1
<1>. HIDE DEF Fills
<1>9. \A k \in 0..N : settle[k] \in D
  BY <1>2, <1>3, <1>4, <1>8, Stays
<1>. DEFINE g == [k \in 0..N |-> settle[k].cost]
<1>10. \A k \in 0..N : g[k] = settle[k].cost /\ g[k] \in Measures
  BY <1>5, <1>9
<1>. HIDE DEF g
<1>11. ASSUME NEW k \in 1..N PROVE g[k] = Relaxed(grid, start, g[k - 1])
  <2>1. k - 1 \in 0..N /\ k \in 0..N
    BY <1>2
  <2>2. settle[k - 1] \in D /\ settle[k] = Round(settle[k - 1])
    BY <1>8, <1>9, <2>1
  <2>3. settle[k].cost = Relaxed(grid, start, settle[k - 1].cost)
    BY <1>4, <2>2
  <2>. QED BY <1>10, <2>1, <2>3
<1>12. g[0] = [c \in Cells |-> IF c = start THEN 0 ELSE -1] /\ g[N] = settle[N].cost
  BY <1>2, <1>3, <1>8, <1>10
<1>13. Rounds(grid, start, g)
  BY <1>10, <1>11, <1>12 DEF Rounds, N
<1>. QED BY <1>1, <1>12, <1>13 DEF N

\* No walk costs less than the least cost of where it leads.
LEMMA WalkCosts ==
  ASSUME NEW grid, NEW start \in Cells, NEW path, Walk(grid, start, path), Len(path) <= Cardinality(Cells)
  PROVE  /\ Distances(grid, start)[path[Len(path)]] >= 0
         /\ Distances(grid, start)[path[Len(path)]] <= Length(grid, path)
<1>. DEFINE N == Cardinality(Cells)
            n == Len(path)
<1>1. /\ path \in Seq(Cells) /\ Len(path) >= 1 /\ path[1] = start
      /\ \A i \in 2..Len(path) : path[i] \in Beside[path[i - 1]] /\ Open(grid, start, path[i - 1], path[i])
  BY DEF Walk
<1>2. PICK f : Lengths(grid, path, f) /\ Length(grid, path) = f[Len(path)]
  BY <1>1, LengthIs
<1>3. PICK g : Rounds(grid, start, g) /\ Distances(grid, start) = g[N]
  BY DistancesAre
<1>4. /\ g[0] = [c \in Cells |-> IF c = start THEN 0 ELSE -1]
      /\ \A k \in 1..N : g[k] = Relaxed(grid, start, g[k - 1])
      /\ \A k \in 0..N : g[k] \in Measures
  BY <1>3 DEF Rounds
<1>5. N \in Nat /\ n \in Nat /\ n >= 1 /\ n <= N /\ path \in Seq(Cells)
  <2>1. path \in Seq(Cells) /\ Len(path) >= 1
    BY <1>1
  <2>. QED BY <2>1, CellsFinite
<1>6. f \in [1..n -> Nat] /\ f[1] = 0 /\ \A i \in 2..n : f[i] = f[i - 1] + StepCost(grid, path[i - 1], path[i])
  BY <1>2 DEF Lengths
<1>7. \A i \in 2..n : path[i] \in Beside[path[i - 1]] /\ Open(grid, start, path[i - 1], path[i])
  BY <1>1
<1>8. path[1] = start /\ \A i \in 1..n : path[i] \in Cells
  BY <1>1, <1>5
<1>9. Length(grid, path) = f[n]
  BY <1>2
<1>. HIDE DEF N, n
<1>. DEFINE Below(k, i) == g[k][path[i]] >= 0 /\ g[k][path[i]] <= f[i]
            T == {k \in Nat : k <= N => \A i \in 1..n : i <= k + 1 => Below(k, i)}
<1>10. 0 \in T
  <2>1. Below(0, 1)
    BY <1>4, <1>6, <1>8
  <2>2. \A i \in 1..n : i <= 0 + 1 => i = 1
    BY <1>5
  <2>. HIDE DEF Below
  <2>. QED BY <2>1, <2>2
<1>11. ASSUME NEW k \in T PROVE k + 1 \in T
  <2>. SUFFICES ASSUME k + 1 <= N, NEW i \in 1..n, i <= (k + 1) + 1 PROVE Below(k + 1, i)
    OBVIOUS
  <2>1. k \in 0..N /\ k + 1 \in 1..N /\ (k + 1) - 1 = k /\ k + 1 \in 0..N
    BY <1>5
  <2>2. g[k + 1] = Relaxed(grid, start, g[k]) /\ g[k] \in Measures /\ g[k + 1] \in Measures
    BY <1>4, <2>1
  <2>3. path[i] \in Cells /\ f[i] \in Nat /\ g[k][path[i]] \in Int /\ g[k + 1][path[i]] \in Int
    <3>1. path[i] \in Cells
      BY <1>8
    <3>. QED BY <1>6, <2>2, <3>1 DEF Measures
  <2>4. \A j \in 1..n : j <= k + 1 => Below(k, j)
    BY <2>1
  <2>5. CASE i <= k + 1
    <3>1. g[k][path[i]] >= 0 /\ g[k][path[i]] <= f[i]
      BY <2>4, <2>5
    <3>2. g[k + 1][path[i]] >= 0 /\ g[k + 1][path[i]] <= g[k][path[i]]
      BY <2>2, <2>3, <3>1, RelaxedIs
    <3>. QED BY <2>3, <3>1, <3>2
  <2>6. CASE i > k + 1
    <3>. DEFINE j == i - 1
    <3>1. i \in 2..n /\ j \in 1..n /\ j <= k + 1
      BY <1>5, <2>1, <2>6
    <3>2. g[k][path[j]] >= 0 /\ g[k][path[j]] <= f[j]
      BY <2>4, <3>1
    <3>3. path[j] \in Cells /\ f[j] \in Nat /\ g[k][path[j]] \in Int
      <4>1. path[j] \in Cells
        BY <1>8, <3>1
      <4>. QED BY <1>6, <2>2, <3>1, <4>1 DEF Measures
    <3>4. path[i] \in Beside[path[j]] /\ Open(grid, start, path[j], path[i]) /\ f[i] = f[j] + StepCost(grid, path[j], path[i])
      BY <1>6, <1>7, <3>1
    <3>. HIDE DEF j
    <3>5. path[j] \in Beside[path[i]]
      BY <2>3, <3>3, <3>4, BesideParts
    <3>6. g[k + 1][path[i]] >= 0 /\ g[k + 1][path[i]] <= g[k][path[j]] + StepCost(grid, path[j], path[i])
      BY <2>2, <2>3, <3>2, <3>4, <3>5, RelaxedIs
    <3>7. StepCost(grid, path[j], path[i]) \in Nat
      BY StepCosts
    <3>. QED BY <2>3, <3>2, <3>3, <3>4, <3>6, <3>7, SMTT(30)
  <2>. QED BY <2>1, <2>5, <2>6
<1>12. T = Nat
  <2>1. T \in SUBSET Nat
    OBVIOUS
  <2>. HIDE DEF T
  <2>. QED BY <1>10, <1>11, <2>1, SetInduction
<1>13. Below(N, n)
  <2>1. N \in T /\ n \in 1..n /\ n <= N + 1
    BY <1>5, <1>12
  <2>. HIDE DEF Below
  <2>. QED BY <2>1
<1>. QED BY <1>3, <1>9, <1>13 DEF n, N

\* A search that has ended has come to the goal at the least cost, and to a goal there is a way to.
LEMMA SearchIsCheapest ==
  ASSUME NEW grid, NEW start \in Cells, NEW goal \in Cells, NEW s,
         SearchInv(grid, start, goal, s), SearchEnded(goal, s)
  PROVE  /\ s.heap # {} => s.cost[goal] >= 0
         /\ Distances(grid, start)[goal] >= 0 =>
              s.heap # {} /\ s.cost[goal] <= Distances(grid, start)[goal]
<1>. DEFINE N == Cardinality(Cells)
<1>1. PICK g : Rounds(grid, start, g) /\ Distances(grid, start) = g[N]
  BY DistancesAre
<1>2. /\ g[0] = [c \in Cells |-> IF c = start THEN 0 ELSE -1]
      /\ \A k \in 1..N : g[k] = Relaxed(grid, start, g[k - 1])
      /\ \A k \in 0..N : g[k] \in Measures
  BY <1>1 DEF Rounds
<1>3. N \in Nat
  BY CellsFinite
<1>. HIDE DEF N
<1>4. /\ s.heap \in SUBSET Entry /\ s.cost \in [Cells -> Int] /\ s.from \in [Cells -> Cells]
      /\ CostsRest(start, s) /\ WaitsFor(start, goal, s)
      /\ PassedOn(grid, start, s) /\ goal \notin Passed(s)
  BY DEF SearchInv, SearchStates
<1>5. s.cost[start] = 0
  BY <1>4 DEF CostsRest
<1>6. Heuristic(goal, goal) = 0
  BY HeuristicIs
<1>7. ASSUME s.heap # {} PROVE s.cost[goal] >= 0 /\ \A e \in s.heap : s.cost[goal] <= e.rank
  <2>1. Earliest(s.heap) \in s.heap /\ \A e \in s.heap : Earliest(s.heap).rank <= e.rank
    BY <1>4, <1>7, EarliestIs
  <2>2. Earliest(s.heap).cell = goal
    BY <1>7 DEF SearchEnded
  <2>3. s.cost[goal] >= 0 /\ Earliest(s.heap).rank = Estimate(start, goal, s, goal)
    BY <1>4, <2>1, <2>2 DEF WaitsFor
  <2>4. Estimate(start, goal, s, goal) = s.cost[goal]
    BY <1>4, <1>5, <1>6 DEF Estimate
  <2>. QED BY <2>1, <2>3, <2>4
\* What is not reached as cheaply lies behind the goal.
<1>. DEFINE Far(d, c) == \/ s.cost[c] >= 0 /\ s.cost[c] <= d
                         \/ s.heap # {} /\ s.cost[goal] <= d + Heuristic(goal, c)
            T == {k \in Nat : k <= N => \A c \in Cells : g[k][c] >= 0 => Far(g[k][c], c)}
<1>8. 0 \in T
  <2>. SUFFICES ASSUME NEW c \in Cells, g[0][c] >= 0 PROVE Far(g[0][c], c)
    OBVIOUS
  <2>1. c = start /\ g[0][c] = 0
    BY <1>2
  <2>. QED BY <1>5, <2>1
<1>9. ASSUME NEW k \in T PROVE k + 1 \in T
  <2>. SUFFICES ASSUME k + 1 <= N, NEW c \in Cells, g[k + 1][c] >= 0 PROVE Far(g[k + 1][c], c)
    OBVIOUS
  <2>1. k \in 0..N /\ k + 1 \in 1..N /\ (k + 1) - 1 = k
    BY <1>3
  <2>2. g[k + 1] = Relaxed(grid, start, g[k]) /\ g[k] \in Measures
    BY <1>2, <2>1
  <2>3. \A p \in Cells : g[k][p] >= 0 => Far(g[k][p], p)
    BY <2>1
  <2>4. \/ g[k + 1][c] = g[k][c]
        \/ \E p \in Beside[c] : /\ g[k][p] >= 0 /\ Open(grid, start, p, c)
                                /\ g[k + 1][c] = g[k][p] + StepCost(grid, p, c)
    <3>. HIDE DEF Far, T
    <3>. QED BY <2>2, RelaxedIs
  <2>5. CASE g[k + 1][c] = g[k][c]
    <3>. HIDE DEF Far
    <3>. QED BY <2>3, <2>5
  <2>6. ASSUME NEW p \in Beside[c], g[k][p] >= 0, Open(grid, start, p, c),
               g[k + 1][c] = g[k][p] + StepCost(grid, p, c)
        PROVE  Far(g[k + 1][c], c)
    <3>. DEFINE d == g[k][p]
                step == StepCost(grid, p, c)
    <3>1. p \in Cells /\ c \in Beside[p]
      <4>1. p \in Cells
        BY DEF Beside
      <4>. QED BY <4>1, BesideParts
    <3>2. d \in Nat /\ step \in Nat /\ s.cost[p] \in Int /\ s.cost[c] \in Int /\ s.cost[goal] \in Int
      <4>1. d \in Nat
        BY <2>2, <2>6, <3>1 DEF Measures
      <4>. QED BY <1>4, <3>1, <4>1, StepCosts
    <3>3. Heuristic(goal, p) \in Nat /\ Heuristic(goal, c) \in Nat /\ Heuristic(goal, p) <= step + Heuristic(goal, c)
      BY <3>1, HeuristicIs, HeuristicConsistent
    <3>4. Far(d, p)
      <4>. HIDE DEF Far
      <4>. QED BY <2>3, <2>6, <3>1
    <3>. HIDE DEF d, step
    <3>5. CASE s.heap # {} /\ s.cost[goal] <= d + Heuristic(goal, p)
      <4>1. s.cost[goal] <= (d + step) + Heuristic(goal, c)
        BY <3>2, <3>3, <3>5
      <4>. QED BY <2>6, <3>5, <4>1 DEF d, step
    <3>6. CASE s.cost[p] >= 0 /\ s.cost[p] <= d
      <4>1. CASE p \in Passed(s)
        <5>1. s.cost[c] >= 0 /\ s.cost[c] <= s.cost[p] + step
          BY <1>4, <2>6, <3>1, <4>1 DEF PassedOn, step
        <5>2. s.cost[c] <= d + step
          BY <3>2, <3>6, <5>1
        <5>. QED BY <2>6, <5>1, <5>2 DEF d, step
      <4>2. CASE p \notin Passed(s)
        <5>1. PICK e \in s.heap : e.cell = p
          BY <3>1, <3>6, <4>2 DEF Passed
        <5>2. e.rank = Estimate(start, goal, s, p) /\ s.cost[goal] <= e.rank /\ s.heap # {}
          BY <1>4, <1>7, <5>1 DEF WaitsFor
        <5>3. s.cost[goal] <= (d + step) + Heuristic(goal, c)
          <6>1. CASE p = start
            <7>1. s.cost[goal] <= 0
              BY <5>2, <6>1 DEF Estimate
            <7>. QED BY <3>2, <3>3, <7>1
          <6>2. CASE p # start
            <7>1. s.cost[goal] <= s.cost[p] + Heuristic(goal, p)
              BY <5>2, <6>2 DEF Estimate
            <7>. QED BY <3>2, <3>3, <3>6, <7>1
          <6>. QED BY <6>1, <6>2
        <5>. QED BY <2>6, <5>2, <5>3 DEF d, step
      <4>. QED BY <4>1, <4>2
    <3>. QED BY <3>4, <3>5, <3>6
  <2>. HIDE DEF Far
  <2>. QED BY <2>4, <2>5, <2>6
<1>10. T = Nat
  <2>1. T \in SUBSET Nat
    OBVIOUS
  <2>. HIDE DEF T
  <2>. QED BY <1>8, <1>9, <2>1, SetInduction
<1>11. ASSUME g[N][goal] >= 0 PROVE s.heap # {} /\ s.cost[goal] <= g[N][goal]
  <2>1. Far(g[N][goal], goal)
    <3>1. N \in T
      BY <1>3, <1>10
    <3>. HIDE DEF Far
    <3>. QED BY <1>11, <3>1
  <2>2. s.cost[goal] \in Int /\ g[N][goal] \in Int
    BY <1>2, <1>3, <1>4 DEF Measures
  <2>3. ASSUME s.cost[goal] >= 0 PROVE s.heap # {}
    BY <1>4, <2>3 DEF Passed
  <2>. QED BY <1>6, <2>1, <2>2, <2>3
<1>. QED BY <1>1, <1>7, <1>11

-----------------------------------------------------------------------------
(* The path.                                                               *)

\* What A* returns is a walk to the goal, or nothing when there is none.
LEMMA AStarWalks ==
  ASSUME NEW grid, NEW start \in Cells, NEW goal \in Cells
  PROVE  LET path == AStar(grid, start, goal)
             s == Search(grid, start, goal)
         IN /\ Blocked(grid, goal) \/ s.heap = {} => path = <<>>
            /\ ~Blocked(grid, goal) /\ s.heap # {} =>
                 /\ path # <<>> /\ Walk(grid, start, path) /\ path[Len(path)] = goal
                 /\ Len(path) <= Cardinality(Cells) /\ Length(grid, path) <= s.cost[goal]
<1>. DEFINE s == Search(grid, start, goal)
            path == Trace(s.from, start, goal)
<1>1. AStar(grid, start, goal) = IF Blocked(grid, goal) \/ s.heap = {} THEN <<>> ELSE path
  BY DEF AStar
<1>2. SearchInv(grid, start, goal, s) /\ SearchEnded(goal, s)
  BY SearchEnds
<1>. HIDE DEF s
<1>3. ASSUME s.heap # {}
      PROVE  /\ path # <<>> /\ Walk(grid, start, path) /\ path[Len(path)] = goal
             /\ Len(path) <= Cardinality(Cells) /\ Length(grid, path) <= s.cost[goal]
  <2>1. s.cost[goal] >= 0
    BY <1>2, <1>3, SearchIsCheapest
  <2>2. /\ Walk(grid, start, path) /\ path[Len(path)] = goal /\ Len(path) <= Cardinality(Cells)
        /\ \A i \in 2..Len(path) : /\ s.cost[path[i - 1]] + StepCost(grid, path[i - 1], path[i]) <= s.cost[path[i]]
                                   /\ s.cost[path[i - 1]] >= 0
    BY <1>2, <2>1, TraceWalks
  <2>. HIDE DEF path
  <2>. DEFINE n == Len(path)
  <2>3. path \in Seq(Cells) /\ Len(path) >= 1 /\ path[1] = start
    BY <2>2 DEF Walk
  <2>4. n \in Nat /\ n >= 1 /\ \A i \in 1..n : path[i] \in Cells
    BY <2>3
  <2>5. PICK f : Lengths(grid, path, f) /\ Length(grid, path) = f[Len(path)]
    BY <2>3, LengthIs
  <2>6. f \in [1..n -> Nat] /\ f[1] = 0 /\ \A i \in 2..n : f[i] = f[i - 1] + StepCost(grid, path[i - 1], path[i])
    BY <2>5 DEF Lengths
  <2>7. \A i \in 2..n : s.cost[path[i - 1]] + StepCost(grid, path[i - 1], path[i]) <= s.cost[path[i]]
    BY <2>2
  <2>8. path[n] = goal /\ Length(grid, path) = f[n]
    BY <2>2, <2>5
  <2>. HIDE DEF n
  <2>9. \A i \in 1..n : s.cost[path[i]] \in Int /\ f[i] \in Int
    BY <1>2, <2>4, <2>6 DEF SearchInv, SearchStates
  <2>. DEFINE T == {i \in 1..n : f[i] <= s.cost[path[i]]}
  <2>10. 1 \in T
    BY <1>2, <2>3, <2>4, <2>6 DEF SearchInv, CostsRest
  <2>11. ASSUME NEW i \in 2..n, i - 1 \in T PROVE i \in T
    <3>. DEFINE j == i - 1
    <3>1. j \in 1..n /\ i \in 1..n
      BY <2>4
    <3>2. f[j] <= s.cost[path[j]] /\ f[i] = f[j] + StepCost(grid, path[j], path[i])
      BY <2>6, <2>11
    <3>3. s.cost[path[j]] + StepCost(grid, path[j], path[i]) <= s.cost[path[i]]
      BY <2>7
    <3>. HIDE DEF j
    <3>4. StepCost(grid, path[j], path[i]) \in Int
      BY StepCosts
    <3>5. f[i] <= s.cost[path[i]]
      BY <2>9, <3>1, <3>2, <3>3, <3>4
    <3>. QED BY <3>1, <3>5
  <2>12. \A i \in 1..n : i \in T
    <3>. HIDE DEF T
    <3>. QED BY <2>4, <2>10, <2>11, UpTo
  <2>13. f[n] <= s.cost[goal]
    <3>1. n \in T
      BY <2>4, <2>12
    <3>. QED BY <2>8, <3>1
  <2>14. path # <<>>
    BY <2>3
  <2>. QED BY <2>2, <2>8, <2>13, <2>14
<1>. HIDE DEF path
<1>. QED BY <1>1, <1>3 DEF s

\* A* finds the cheapest path to wherever there is one.
LEMMA AlwaysShortest ==
  ASSUME NEW grid, NEW start \in Cells
  PROVE  Shortest(grid, start)
<1>. SUFFICES ASSUME NEW goal \in Cells
              PROVE  LET path == AStar(grid, start, goal)
                     IN IF Blocked(grid, goal) \/ Distances(grid, start)[goal] < 0 THEN path = <<>>
                        ELSE path # <<>> /\ Length(grid, path) = Distances(grid, start)[goal]
  BY DEF Shortest
<1>. DEFINE path == AStar(grid, start, goal)
            s == Search(grid, start, goal)
            d == Distances(grid, start)[goal]
<1>1. SearchInv(grid, start, goal, s) /\ SearchEnded(goal, s)
  BY SearchEnds
<1>2. d >= 0 => s.heap # {} /\ s.cost[goal] <= d
  BY <1>1, SearchIsCheapest
<1>3. /\ Blocked(grid, goal) \/ s.heap = {} => path = <<>>
      /\ ~Blocked(grid, goal) /\ s.heap # {} =>
           /\ path # <<>> /\ Walk(grid, start, path) /\ path[Len(path)] = goal
           /\ Len(path) <= Cardinality(Cells) /\ Length(grid, path) <= s.cost[goal]
  BY AStarWalks
<1>. HIDE DEF path
<1>4. ~Blocked(grid, goal) /\ s.heap # {} => d >= 0 /\ d <= Length(grid, path)
  BY <1>3, WalkCosts
<1>5. s.cost[goal] \in Int /\ d \in Int
  <2>1. PICK g : Rounds(grid, start, g) /\ Distances(grid, start) = g[Cardinality(Cells)]
    BY DistancesAre
  <2>2. Distances(grid, start) \in Measures
    BY <2>1, CellsFinite DEF Rounds
  <2>. QED BY <1>1, <2>2 DEF Measures, SearchInv, SearchStates
<1>6. ~Blocked(grid, goal) /\ s.heap # {} => Length(grid, path) \in Int
  <2>. SUFFICES ASSUME Walk(grid, start, path) PROVE Length(grid, path) \in Int
    BY <1>3
  <2>1. path \in Seq(Cells) /\ Len(path) >= 1
    BY DEF Walk
  <2>2. PICK f : Lengths(grid, path, f) /\ Length(grid, path) = f[Len(path)]
    BY <2>1, LengthIs
  <2>3. Len(path) \in 1..Len(path)
    BY <2>1
  <2>. QED BY <2>2, <2>3 DEF Lengths
<1>. HIDE DEF s, d
<1>7. CASE Blocked(grid, goal) \/ d < 0
  BY <1>3, <1>4, <1>5, <1>7 DEF path, d
<1>8. CASE ~(Blocked(grid, goal) \/ d < 0)
  BY <1>2, <1>3, <1>4, <1>5, <1>6, <1>8 DEF path, d
<1>. QED BY <1>7, <1>8

-----------------------------------------------------------------------------
(* The corners of a path.                                                  *)

\* Between two places of a path it does not turn.
Level(path, a, b) == \A i \in (a + 1)..(b - 1) : Direction(path, i) = Direction(path, i + 1)
Turns(path, i) == i \in {1, Len(path)} \/ Direction(path, i) # Direction(path, i + 1)
\* From one corner to the next.
Leg(path, p, q) ==
  \E a, b \in 1..Len(path) : a < b /\ p = path[a] /\ q = path[b] /\ Level(path, a, b)

\* What may be kept of a path up to a cell.
Shortened(path, i) ==
  {q \in Seq(Cells) :
     /\ Len(q) >= 1 /\ q[1] = path[1]
     /\ \E b \in 1..i : q[Len(q)] = path[b] /\ \A m \in (b + 1)..i : ~Turns(path, m)
     /\ \A j \in 2..Len(q) : Leg(path, q[j - 1], q[j])}

\* One more cell of the path: where it turns it is kept, else the last leg grows.
LEMMA ShortenedOn ==
  ASSUME NEW path \in Seq(Cells), NEW i \in 2..Len(path), NEW q \in Shortened(path, i - 1)
  PROVE  (IF Turns(path, i) THEN Append(q, path[i]) ELSE q) \in Shortened(path, i)
<1>. DEFINE n == Len(path)
            l == Len(q)
<1>1. q \in Seq(Cells) /\ Len(q) >= 1 /\ q[1] = path[1]
  BY DEF Shortened
<1>2. PICK b \in 1..(i - 1) : q[Len(q)] = path[b] /\ \A m \in (b + 1)..(i - 1) : ~Turns(path, m)
  BY DEF Shortened
<1>3. \A j \in 2..Len(q) : Leg(path, q[j - 1], q[j])
  BY DEF Shortened
<1>4. n \in Nat /\ i \in 1..n /\ i \in Nat /\ i >= 2 /\ path[i] \in Cells /\ b \in 1..i /\ b \in 1..n /\ b < i
  <2>1. n \in Nat
    OBVIOUS
  <2>. QED BY <2>1
<1>5. CASE Turns(path, i)
  <2>. DEFINE r == Append(q, path[i])
  <2>1. l \in Nat /\ l >= 1
    BY <1>1
  <2>2. r \in Seq(Cells) /\ Len(r) = l + 1 /\ r[l + 1] = path[i] /\ \A j \in 1..l : r[j] = q[j]
    BY <1>1, <1>4
  <2>3. q[l] = path[b] /\ \A j \in 2..l : Leg(path, q[j - 1], q[j])
    BY <1>2, <1>3
  <2>. HIDE DEF r, l
  <2>4. r[1] = path[1]
    BY <1>1, <2>1, <2>2
  <2>5. Level(path, b, i)
    BY <1>2 DEF Level, Turns
  <2>6. Leg(path, q[l], path[i])
    BY <1>4, <2>3, <2>5 DEF Leg
  <2>7. ASSUME NEW j \in 2..(l + 1) PROVE Leg(path, r[j - 1], r[j])
    <3>1. CASE j = l + 1
      <4>1. j - 1 = l /\ l \in 1..l
        BY <2>1, <3>1
      <4>2. r[j - 1] = q[l]
        BY <2>2, <4>1
      <4>3. r[j] = path[i]
        BY <2>2, <3>1
      <4>. QED BY <2>6, <4>2, <4>3
    <3>2. CASE j # l + 1
      <4>1. j \in 2..l /\ j \in 1..l /\ j - 1 \in 1..l
        BY <2>1, <3>2
      <4>. QED BY <2>2, <2>3, <4>1
    <3>. QED BY <3>1, <3>2
  <2>8. \E a \in 1..i : r[l + 1] = path[a] /\ \A m \in (a + 1)..i : ~Turns(path, m)
    <3>1. i \in 1..i /\ \A m \in (i + 1)..i : FALSE
      BY <1>4
    <3>. QED BY <2>2, <3>1
  <2>9. Len(r) >= 1
    BY <2>1, <2>2
  <2>10. r \in Shortened(path, i)
    BY <2>2, <2>4, <2>7, <2>8, <2>9 DEF Shortened
  <2>. QED BY <1>5, <2>10 DEF r
<1>6. CASE ~Turns(path, i)
  <2>1. \A m \in (b + 1)..i : ~Turns(path, m)
    <3>. TAKE m \in (b + 1)..i
    <3>1. m = i \/ m \in (b + 1)..(i - 1)
      BY <1>4
    <3>. QED BY <1>2, <1>6, <3>1
  <2>2. q \in Shortened(path, i)
    BY <1>1, <1>2, <1>3, <1>4, <2>1 DEF Shortened
  <2>. QED BY <1>6, <2>2
<1>. QED BY <1>5, <1>6

\* What is kept of a path begins and ends where it did, and from each corner to the next the path
\* did not turn.
LEMMA SimplifyIs ==
  ASSUME NEW path \in Seq(Cells), Len(path) >= 1
  PROVE  LET q == Simplify(path)
         IN /\ q \in Seq(Cells) /\ Len(q) >= 1 /\ q[1] = path[1] /\ q[Len(q)] = path[Len(path)]
            /\ \A j \in 2..Len(q) : Leg(path, q[j - 1], q[j])
<1>. DEFINE n == Len(path)
            Take(i, q) == IF Turns(path, i) THEN Append(q, path[i]) ELSE q
            Fills(f) == f = [i \in 0..n |-> IF i = 0 THEN <<>> ELSE Take(i, f[i - 1])]
            kept == CHOOSE f : Fills(f)
<1>1. Simplify(path) = kept[n]
  <2>1. Simplify(path) = (CHOOSE f : f = [i \in 0..n |-> IF i = 0 THEN <<>>
           ELSE IF Turns(path, i) THEN Append(f[i - 1], path[i]) ELSE f[i - 1]])[n]
    BY DEF Simplify, Turns
  <2>. QED BY <2>1
<1>2. n \in Nat /\ n >= 1 /\ \A i \in 1..n : path[i] \in Cells
  OBVIOUS
<1>3. Len(path) = n
  OBVIOUS
<1>. HIDE DEF n
<1>4. \A i \in 1..n : \A q \in Seq(Cells) : Take(i, q) \in Seq(Cells)
  BY <1>2
<1>5. Turns(path, 1) /\ Turns(path, n)
  BY <1>3 DEF Turns
<1>6. Take(1, <<>>) = <<path[1]>>
  BY <1>5
<1>7. \A i \in 2..n : \A q \in Shortened(path, i - 1) : Take(i, q) \in Shortened(path, i)
  BY <1>3, ShortenedOn
<1>. HIDE DEF Take
<1>8. \E f : Fills(f)
  <2>. DEFINE Step == [i \in 1..n |-> [q \in Seq(Cells) |-> Take(i, q)]]
  <2>1. Step \in [1..n -> [Seq(Cells) -> Seq(Cells)]]
    BY <1>4
  <2>2. PICK f : Run(f, Seq(Cells), <<>>, Step, n)
    <3>1. <<>> \in Seq(Cells)
      OBVIOUS
    <3>. HIDE DEF Step
    <3>. QED BY <1>2, <2>1, <3>1, Iterates
  <2>3. ASSUME NEW k \in 1..n PROVE f[k] = Take(k, f[k - 1])
    <3>1. k - 1 \in 0..n
      BY <1>2
    <3>2. f[k - 1] \in Seq(Cells)
      BY <2>2, <3>1 DEF Run
    <3>3. Step[k][f[k - 1]] = Take(k, f[k - 1])
      BY <3>2
    <3>. QED BY <2>2, <3>3 DEF Run
  <2>4. \A k \in 0..n : f[k] = IF k = 0 THEN <<>> ELSE Take(k, f[k - 1])
    BY <1>2, <2>2, <2>3 DEF Run
  <2>5. f = [k \in 0..n |-> f[k]]
    BY <2>2 DEF Run
  <2>6. Fills(f)
    BY <2>4, <2>5
  <2>. QED BY <2>6
<1>9. Fills(kept)
  <2>. HIDE DEF Fills
  <2>. QED BY <1>8, Zenon
<1>. HIDE DEF kept
<1>10. kept[0] = <<>> /\ \A i \in 1..n : kept[i] = Take(i, kept[i - 1])
  <2>1. \A i \in 0..n : kept[i] = IF i = 0 THEN <<>> ELSE Take(i, kept[i - 1])
    BY <1>9
  <2>. HIDE DEF Fills
  <2>. QED BY <1>2, <2>1
<1>. HIDE DEF Fills
<1>. DEFINE T == {i \in 1..n : kept[i] \in Shortened(path, i)}
<1>11. 1 \in T
  <2>1. kept[1] = <<path[1]>>
    <3>1. 1 \in 1..n /\ 1 - 1 = 0
      BY <1>2
    <3>2. kept[1] = Take(1, kept[1 - 1])
      BY <1>10, <3>1
    <3>. QED BY <1>6, <1>10, <3>1, <3>2
  <2>2. path[1] \in Cells /\ 1 \in 1..n
    BY <1>2
  <2>3. <<path[1]>> \in Shortened(path, 1)
    BY <2>2 DEF Shortened
  <2>. QED BY <2>1, <2>2, <2>3
<1>12. ASSUME NEW i \in 2..n, i - 1 \in T PROVE i \in T
  <2>1. i \in 1..n
    BY <1>2
  <2>2. kept[i - 1] \in Shortened(path, i - 1)
    BY <1>12
  <2>3. kept[i] = Take(i, kept[i - 1])
    BY <1>10, <2>1
  <2>. QED BY <1>7, <2>1, <2>2, <2>3
<1>13. kept[n] \in Shortened(path, n)
  <2>1. \A i \in 1..n : i \in T
    <3>. HIDE DEF T
    <3>. QED BY <1>2, <1>11, <1>12, UpTo
  <2>. QED BY <1>2, <2>1
<1>. DEFINE q == kept[n]
<1>. HIDE DEF q
<1>14. /\ q \in Seq(Cells) /\ Len(q) >= 1 /\ q[1] = path[1]
       /\ \A j \in 2..Len(q) : Leg(path, q[j - 1], q[j])
  BY <1>13 DEF Shortened, q
<1>15. PICK b \in 1..n : q[Len(q)] = path[b] /\ \A m \in (b + 1)..n : ~Turns(path, m)
  BY <1>13 DEF Shortened, q
<1>16. b = n
  <2>. SUFFICES ASSUME b # n PROVE FALSE
    OBVIOUS
  <2>1. n \in (b + 1)..n
    BY <1>2
  <2>. QED BY <1>5, <1>15, <2>1
<1>. QED BY <1>1, <1>3, <1>14, <1>15, <1>16 DEF q

-----------------------------------------------------------------------------
(* The line between two corners.                                           *)

\* So many cells further.
Beyond(p, m, x, y) == <<p[1] + m * x, p[2] + m * y>>

\* Bresenham's line between two cells on a row, a column or a diagonal is the cells between them.
LEMMA LineIs ==
  ASSUME NEW p \in Int \X Int, NEW n \in Nat, n >= 1, NEW x \in -1..1, NEW y \in -1..1, x # 0 \/ y # 0
  PROVE  Line(p, Beyond(p, n, x, y)) \subseteq {Beyond(p, m, x, y) : m \in 0..n}
<1>. DEFINE q == Beyond(p, n, x, y)
            dx == Magnitude(q[1] - p[1])
            dy == -Magnitude(q[2] - p[2])
            Draw(s) ==
              LET right == 2 * s.error >= dy
                  up == 2 * s.error <= dx
              IN [cell |-> <<IF right THEN s.cell[1] + Sign(q[1] - p[1]) ELSE s.cell[1],
                             IF up THEN s.cell[2] + Sign(q[2] - p[2]) ELSE s.cell[2]>>,
                  error |-> s.error + (IF right THEN dy ELSE 0) + (IF up THEN dx ELSE 0)]
            first == [cell |-> p, error |-> dx + dy]
            Round(s) == IF s.cell = q THEN s ELSE Draw(s)
            Fills(f) == f = [k \in 0..(dx - dy) |-> IF k = 0 THEN first ELSE Round(f[k - 1])]
            drawn == CHOOSE f : Fills(f)
            N == dx - dy
            D == {[cell |-> Beyond(p, m, x, y), error |-> dx + dy] : m \in 0..n}
<1>1. Line(p, q) = {drawn[k].cell : k \in 0..N}
  BY DEF Line
<1>2. p[1] \in Int /\ p[2] \in Int /\ p = <<p[1], p[2]>>
  OBVIOUS
<1>3. q[1] - p[1] = n * x /\ q[2] - p[2] = n * y
  BY <1>2 DEF Beyond
<1>4. /\ dx = (IF x = 0 THEN 0 ELSE n) /\ Sign(q[1] - p[1]) = x
      /\ dy = (IF y = 0 THEN 0 ELSE -n) /\ Sign(q[2] - p[2]) = y
  <2>1. \A z \in -1..1 : /\ Magnitude(n * z) = (IF z = 0 THEN 0 ELSE n)
                         /\ Sign(n * z) = z
    <3>1. Magnitude(n * 0) = 0 /\ Magnitude(n * 1) = n /\ Magnitude(n * (-1)) = n
      BY DEF Magnitude
    <3>2. Sign(n * 0) = 0 /\ Sign(n * 1) = 1 /\ Sign(n * (-1)) = -1
      BY DEF Sign
    <3>3. \A z \in -1..1 : z = 0 \/ z = 1 \/ z = -1
      OBVIOUS
    <3>. QED BY <3>1, <3>2, <3>3
  <2>. HIDE DEF q
  <2>. QED BY <1>3, <2>1
<1>5. N \in Nat
  BY <1>4
<1>6. first \in D
  <2>1. Beyond(p, 0, x, y) = p
    BY <1>2 DEF Beyond
  <2>2. 0 \in 0..n
    OBVIOUS
  <2>. QED BY <2>1, <2>2
<1>7. ASSUME NEW s \in D PROVE Round(s) \in D
  <2>1. PICK m \in 0..n : s = [cell |-> Beyond(p, m, x, y), error |-> dx + dy]
    OBVIOUS
  <2>2. CASE m = n
    BY <2>1, <2>2
  <2>3. CASE m # n /\ s.cell # q
    <3>1. m + 1 \in 0..n
      BY <2>3
    <3>2. s.cell[1] = p[1] + m * x /\ s.cell[2] = p[2] + m * y /\ s.error = dx + dy
      BY <2>1 DEF Beyond
    <3>. DEFINE right == 2 * s.error >= dy
                up == 2 * s.error <= dx
    <3>3. (right <=> x # 0) /\ (up <=> y # 0)
      <4>. HIDE DEF dx, dy
      <4>. QED BY <1>4, <3>2
    <3>4. Draw(s) = [cell |-> <<IF right THEN s.cell[1] + x ELSE s.cell[1], IF up THEN s.cell[2] + y ELSE s.cell[2]>>,
                     error |-> s.error + (IF right THEN dy ELSE 0) + (IF up THEN dx ELSE 0)]
      <4>. HIDE DEF q, dx, dy
      <4>. QED BY <1>4
    <3>5. s.error + (IF right THEN dy ELSE 0) + (IF up THEN dx ELSE 0) = dx + dy
      <4>. HIDE DEF dx, dy, right, up
      <4>. QED BY <1>4, <3>2, <3>3
    <3>6. (IF right THEN s.cell[1] + x ELSE s.cell[1]) = p[1] + (m + 1) * x
      <4>1. (m + 1) * x = m * x + x /\ m * x \in Int
        BY <3>1
      <4>. HIDE DEF right
      <4>. QED BY <1>2, <3>2, <3>3, <4>1
    <3>7. (IF up THEN s.cell[2] + y ELSE s.cell[2]) = p[2] + (m + 1) * y
      <4>1. (m + 1) * y = m * y + y /\ m * y \in Int
        BY <3>1
      <4>. HIDE DEF up
      <4>. QED BY <1>2, <3>2, <3>3, <4>1
    <3>8. Draw(s) = [cell |-> Beyond(p, m + 1, x, y), error |-> dx + dy]
      <4>. HIDE DEF right, up, dx, dy, Draw
      <4>. QED BY <3>4, <3>5, <3>6, <3>7 DEF Beyond
    <3>9. Draw(s) \in D
      <4>. HIDE DEF Draw, dx, dy
      <4>. QED BY <3>1, <3>8
    <3>10. Round(s) = Draw(s)
      <4>. HIDE DEF Draw
      <4>. QED BY <2>3
    <3>. HIDE DEF Round, Draw, D
    <3>. QED BY <3>9, <3>10
  <2>4. CASE s.cell = q
    <3>. HIDE DEF D
    <3>. QED BY <2>4
  <2>. QED BY <2>2, <2>3, <2>4
<1>8. \A s \in D : s.cell \in {Beyond(p, m, x, y) : m \in 0..n}
  <2>. HIDE DEF dx, dy
  <2>. QED OBVIOUS
<1>9. Fills(drawn) <=> drawn = [k \in 0..N |-> IF k = 0 THEN first ELSE Round(drawn[k - 1])]
  OBVIOUS
<1>10. \A f : f = [k \in 0..N |-> IF k = 0 THEN first ELSE Round(f[k - 1])] => Fills(f)
  BY Zenon
<1>. HIDE DEF N, first, Round, D, Fills
<1>11. \E f : Fills(f)
  <2>. DEFINE Step == [k \in 1..N |-> [s \in D |-> Round(s)]]
  <2>1. Step \in [1..N -> [D -> D]]
    BY <1>7
  <2>2. PICK f : Run(f, D, first, Step, N)
    <3>. HIDE DEF Step
    <3>. QED BY <1>5, <1>6, <2>1, Iterates
  <2>3. ASSUME NEW k \in 1..N PROVE f[k] = Round(f[k - 1])
    <3>1. k - 1 \in 0..N
      BY <1>5
    <3>2. f[k - 1] \in D
      BY <2>2, <3>1 DEF Run
    <3>3. Step[k][f[k - 1]] = Round(f[k - 1])
      BY <3>2
    <3>. QED BY <2>2, <3>3 DEF Run
  <2>4. \A k \in 0..N : f[k] = IF k = 0 THEN first ELSE Round(f[k - 1])
    BY <1>5, <2>2, <2>3 DEF Run
  <2>5. f = [k \in 0..N |-> f[k]]
    BY <2>2 DEF Run
  <2>6. f = [k \in 0..N |-> IF k = 0 THEN first ELSE Round(f[k - 1])]
    BY <2>4, <2>5
  <2>. QED BY <1>10, <2>6
<1>12. Fills(drawn)
  BY <1>11, Zenon
<1>. HIDE DEF drawn
<1>13. drawn[0] = first /\ \A k \in 1..N : drawn[k] = Round(drawn[k - 1])
  <2>1. \A k \in 0..N : drawn[k] = IF k = 0 THEN first ELSE Round(drawn[k - 1])
    BY <1>9, <1>12
  <2>. QED BY <1>5, <2>1
<1>14. \A k \in 0..N : drawn[k] \in D
  BY <1>5, <1>6, <1>7, <1>13, Stays
<1>. QED BY <1>1, <1>8, <1>14

\* A stretch that goes straight on.
GoesStraight(path, a, b) ==
  \E x, y \in -1..1 :
    /\ \A m \in 0..(b - a) : path[a + m] = Beyond(path[a], m, x, y)
    /\ Line(path[a], path[b]) \subseteq {path[a + m] : m \in 0..(b - a)}

\* Where a walk does not turn it goes straight on, and the line is made up of its cells.
LEMMA LegIs ==
  ASSUME NEW grid, NEW start, NEW path, Walk(grid, start, path),
         NEW a \in 1..Len(path), NEW b \in 1..Len(path), a < b, Level(path, a, b)
  PROVE  GoesStraight(path, a, b)
<1>. DEFINE n == Len(path)
            x == Direction(path, a + 1)[1]
            y == Direction(path, a + 1)[2]
            p == path[a]
<1>1. n \in Nat /\ path \in Seq(Cells)
  <2>1. path \in Seq(Cells)
    BY DEF Walk
  <2>. QED BY <2>1
<1>2. a \in 1..n /\ b \in 1..n /\ a \in Nat /\ b \in Nat /\ a + 1 \in 2..n /\ a < b
  BY <1>1
<1>3. \A i \in 2..n : path[i] \in Beside[path[i - 1]]
  BY DEF Walk
<1>4. \A i \in 1..n : path[i] \in Cells /\ path[i][1] \in Int /\ path[i][2] \in Int
  <2>1. \A i \in 1..n : path[i] \in Cells
    BY <1>1
  <2>. QED BY <2>1, CellParts
<1>. HIDE DEF n
\* A step goes in its direction.
<1>5. ASSUME NEW i \in 2..n
      PROVE  LET d == Direction(path, i)
             IN /\ d[1] \in -1..1 /\ d[2] \in -1..1 /\ (d[1] # 0 \/ d[2] # 0)
                /\ path[i] = <<path[i - 1][1] + d[1], path[i - 1][2] + d[2]>>
  <2>1. i \in 1..n /\ i - 1 \in 1..n
    BY <1>1
  <2>. DEFINE u == path[i][1] - path[i - 1][1]
              v == path[i][2] - path[i - 1][2]
  <2>2. u \in -1..1 /\ v \in -1..1 /\ path[i] # path[i - 1]
    BY <1>3, <1>4, <2>1, BesideParts
  <2>3. \A z \in -1..1 : Sign(z) = z
    BY DEF Sign
  <2>4. Direction(path, i) = <<u, v>>
    BY <2>2, <2>3 DEF Direction
  <2>5. path[i] = <<path[i][1], path[i][2]>> /\ path[i - 1] = <<path[i - 1][1], path[i - 1][2]>>
    BY <1>4, <2>1, CellParts
  <2>6. path[i][1] = path[i - 1][1] + u /\ path[i][2] = path[i - 1][2] + v
    BY <1>4, <2>1
  <2>. HIDE DEF u, v
  <2>7. u # 0 \/ v # 0
    <3>. SUFFICES ASSUME u = 0, v = 0 PROVE FALSE
      OBVIOUS
    <3>1. path[i][1] = path[i - 1][1] /\ path[i][2] = path[i - 1][2]
      BY <1>4, <2>1, <2>6
    <3>. QED BY <2>2, <2>5, <3>1
  <2>. QED BY <2>2, <2>4, <2>5, <2>6, <2>7
<1>6. x \in -1..1 /\ y \in -1..1 /\ (x # 0 \/ y # 0)
  BY <1>2, <1>5
<1>7. \A i \in (a + 1)..b : Direction(path, i) = <<x, y>>
  <2>. DEFINE T == {k \in Nat : a + 1 + k <= b => Direction(path, a + 1 + k) = Direction(path, a + 1)}
  <2>1. 0 \in T
    BY <1>2
  <2>2. ASSUME NEW k \in T PROVE k + 1 \in T
    <3>. SUFFICES ASSUME a + 1 + (k + 1) <= b PROVE Direction(path, a + 1 + (k + 1)) = Direction(path, a + 1)
      OBVIOUS
    <3>. DEFINE i == a + 1 + k
    <3>1. i \in (a + 1)..(b - 1) /\ i <= b /\ a + 1 + (k + 1) = i + 1
      BY <1>2
    <3>2. Direction(path, i) = Direction(path, a + 1)
      BY <3>1
    <3>. HIDE DEF i
    <3>3. Direction(path, i) = Direction(path, i + 1)
      BY <3>1 DEF Level
    <3>. QED BY <3>1, <3>2, <3>3
  <2>3. T = Nat
    <3>1. T \in SUBSET Nat
      OBVIOUS
    <3>. HIDE DEF T
    <3>. QED BY <2>1, <2>2, <3>1, SetInduction
  <2>4. ASSUME NEW i \in (a + 1)..b PROVE Direction(path, i) = Direction(path, a + 1)
    <3>. DEFINE k == i - (a + 1)
    <3>1. k \in Nat /\ a + 1 + k = i /\ i <= b
      BY <1>2
    <3>2. k \in T
      BY <2>3, <3>1
    <3>3. Direction(path, a + 1 + k) = Direction(path, a + 1)
      BY <3>1, <3>2
    <3>. QED BY <3>1, <3>3
  <2>5. Direction(path, a + 1) = <<x, y>>
    BY DEF Direction
  <2>. QED BY <2>4, <2>5
<1>. HIDE DEF x, y
<1>. DEFINE S == {m \in Nat : m <= b - a => path[a + m] = Beyond(p, m, x, y)}
<1>8. 0 \in S
  <2>1. a + 0 = a /\ p[1] + 0 * x = p[1] /\ p[2] + 0 * y = p[2]
    BY <1>2, <1>4, <1>6
  <2>2. p = <<p[1], p[2]>>
    BY <1>2, <1>4, CellParts
  <2>3. path[a + 0] = Beyond(p, 0, x, y)
    BY <2>1, <2>2 DEF Beyond
  <2>. QED BY <2>3
<1>9. ASSUME NEW m \in S PROVE m + 1 \in S
  <2>. SUFFICES ASSUME m + 1 <= b - a PROVE path[a + (m + 1)] = Beyond(p, m + 1, x, y)
    OBVIOUS
  <2>. DEFINE i == a + (m + 1)
  <2>1. i \in 2..n /\ i \in (a + 1)..b /\ i - 1 = a + m /\ m <= b - a
    BY <1>1, <1>2
  <2>2. path[a + m] = Beyond(p, m, x, y)
    BY <2>1
  <2>. HIDE DEF i
  <2>3. Direction(path, i) = <<x, y>>
    BY <1>7, <2>1
  <2>4. path[i] = <<path[i - 1][1] + x, path[i - 1][2] + y>>
    BY <1>5, <2>1, <2>3
  <2>5. path[i - 1] = <<p[1] + m * x, p[2] + m * y>>
    BY <2>1, <2>2 DEF Beyond
  <2>6. (p[1] + m * x) + x = p[1] + (m + 1) * x /\ (p[2] + m * y) + y = p[2] + (m + 1) * y
    <3>1. \A u, k, z \in Int : (u + k * z) + z = u + (k + 1) * z
      OBVIOUS
    <3>2. p[1] \in Int /\ p[2] \in Int /\ m \in Int /\ x \in Int /\ y \in Int
      BY <1>2, <1>4, <1>6
    <3>. HIDE DEF p, S
    <3>. QED BY <3>1, <3>2
  <2>7. path[i] = Beyond(p, m + 1, x, y)
    BY <2>4, <2>5, <2>6 DEF Beyond
  <2>. QED BY <2>7 DEF i
<1>10. S = Nat
  <2>1. S \in SUBSET Nat
    OBVIOUS
  <2>. HIDE DEF S
  <2>. QED BY <1>8, <1>9, <2>1, SetInduction
<1>11. \A m \in 0..(b - a) : path[a + m] = Beyond(p, m, x, y)
  <2>. TAKE m \in 0..(b - a)
  <2>1. m \in Nat /\ m <= b - a
    BY <1>2
  <2>. QED BY <1>10, <2>1
<1>12. Line(p, path[b]) \subseteq {path[a + m] : m \in 0..(b - a)}
  <2>1. b - a \in Nat /\ b - a >= 1 /\ b - a \in 0..(b - a) /\ a + (b - a) = b
    BY <1>2
  <2>2. path[b] = Beyond(p, b - a, x, y)
    BY <1>11, <2>1
  <2>3. p \in Int \X Int
    BY <1>2, <1>4, CellParts
  <2>. HIDE DEF p
  <2>4. Line(p, Beyond(p, b - a, x, y)) \subseteq {Beyond(p, m, x, y) : m \in 0..(b - a)}
    BY <1>6, <2>1, <2>3, LineIs
  <2>. QED BY <1>11, <2>2, <2>4
<1>. QED BY <1>6, <1>11, <1>12 DEF GoesStraight

-----------------------------------------------------------------------------
(* What lies along a route.                                                *)

\* Beside a diagonal step: the two cells that complete the square.
Corners(c, n) == {<<n[1], c[2]>>, <<c[1], n[2]>>}
ClearLine(grid, start, line) ==
  /\ \A c \in line : c \in Cells /\ (c = start \/ ~Blocked(grid, c))
  /\ \A c, n \in line : Diagonal(c, n) /\ Square(c, n) = 2 =>
       \A d \in Corners(c, n) : d \in Cells /\ ~(d \in grid.occupied /\ d # start)

\* So the line from a corner to the next is as clear as the steps that it stands for.
LEMMA LegIsClear ==
  ASSUME NEW grid, NEW start \in Cells, NEW path, Walk(grid, start, path),
         NEW p, NEW q, Leg(path, p, q)
  PROVE  ClearLine(grid, start, Line(p, q))
<1>. DEFINE n == Len(path)
            line == Line(p, q)
<1>1. PICK a, b \in 1..Len(path) : a < b /\ p = path[a] /\ q = path[b] /\ Level(path, a, b)
  BY DEF Leg
<1>2. PICK x, y \in -1..1 : /\ \A m \in 0..(b - a) : path[a + m] = Beyond(p, m, x, y)
                            /\ line \subseteq {path[a + m] : m \in 0..(b - a)}
  <2>1. GoesStraight(path, a, b)
    BY <1>1, LegIs
  <2>. QED BY <1>1, <2>1 DEF GoesStraight
<1>3. n \in Nat /\ path \in Seq(Cells) /\ path[1] = start
  <2>1. path \in Seq(Cells) /\ path[1] = start
    BY DEF Walk
  <2>. QED BY <2>1
<1>4. a \in 1..n /\ b \in 1..n
  BY <1>1
<1>5. \A i \in 2..n : path[i] \in Beside[path[i - 1]] /\ Open(grid, start, path[i - 1], path[i])
  BY DEF Walk
<1>6. \A i \in 1..n : path[i] \in Cells
  BY <1>3
<1>. HIDE DEF n, line
<1>7. \A m \in 0..(b - a) : a + m \in 1..n
  BY <1>3, <1>4
<1>8. ASSUME NEW c \in line PROVE c \in Cells /\ (c = start \/ ~Blocked(grid, c))
  <2>1. PICK m \in 0..(b - a) : c = path[a + m]
    BY <1>2
  <2>. DEFINE i == a + m
  <2>2. i \in 1..n /\ c = path[i]
    BY <1>7, <2>1
  <2>. HIDE DEF i
  <2>3. CASE i = 1
    BY <1>3, <1>6, <2>2, <2>3
  <2>4. CASE i # 1
    <3>1. i \in 2..n
      BY <1>3, <2>2, <2>4
    <3>. QED BY <1>5, <1>6, <2>2, <3>1 DEF Open
  <2>. QED BY <2>3, <2>4
\* One step of the walk, seen from either end.
<1>9. ASSUME NEW i \in 2..n, Diagonal(path[i - 1], path[i])
      PROVE  \A d \in Corners(path[i - 1], path[i]) : d \in Cells /\ ~(d \in grid.occupied /\ d # start)
  <2>1. path[i - 1] \in Cells /\ path[i] \in Cells
    <3>1. i \in 1..n /\ i - 1 \in 1..n
      BY <1>3
    <3>. QED BY <1>6, <3>1
  <2>2. \A d \in Corners(path[i - 1], path[i]) : d \in Cells
    BY <2>1, CellParts, SMTT(30) DEF Corners
  <2>3. Open(grid, start, path[i - 1], path[i])
    BY <1>5
  <2>. QED BY <1>9, <2>2, <2>3 DEF Open, Corners
<1>10. ASSUME NEW c \in line, NEW e \in line, Diagonal(c, e), Square(c, e) = 2
       PROVE  \A d \in Corners(c, e) : d \in Cells /\ ~(d \in grid.occupied /\ d # start)
  <2>1. PICK k \in 0..(b - a) : c = path[a + k]
    BY <1>2
  <2>2. PICK m \in 0..(b - a) : e = path[a + m]
    BY <1>2
  <2>3. c = <<p[1] + k * x, p[2] + k * y>> /\ e = <<p[1] + m * x, p[2] + m * y>>
    BY <1>2, <2>1, <2>2 DEF Beyond
  <2>4. p[1] \in Int /\ p[2] \in Int /\ k \in Int /\ m \in Int
    BY <1>1, <1>4, <1>6, <2>1, CellParts
  <2>5. k = m + 1 \/ m = k + 1
    <3>. DEFINE z == k - m
    <3>1. c[1] - e[1] = z * x /\ c[2] - e[2] = z * y
      <4>1. \A u, v, w, t \in Int : (u + v * t) - (u + w * t) = (v - w) * t
        OBVIOUS
      <4>2. x \in Int /\ y \in Int
        OBVIOUS
      <4>. QED BY <2>3, <2>4, <4>1, <4>2
    <3>2. (z * x) * (z * x) + (z * y) * (z * y) = 2
      BY <1>10, <3>1 DEF Square
    <3>3. z * x # 0 /\ z * y # 0
      <4>1. c[1] # e[1] /\ c[2] # e[2]
        BY <1>10 DEF Diagonal
      <4>2. c[1] \in Int /\ e[1] \in Int /\ c[2] \in Int /\ e[2] \in Int
        BY <1>8, CellParts
      <4>. QED BY <3>1, <4>1, <4>2
    <3>4. z \in Int
      BY <2>4
    <3>. HIDE DEF z
    <3>5. x \in {-1, 1} /\ y \in {-1, 1}
      <4>1. z * 0 = 0
        BY <3>4
      <4>2. x # 0 /\ y # 0
        BY <3>3, <4>1
      <4>. QED BY <4>2
    <3>6. z * z = 1
      <4>1. (z * x) * (z * x) = z * z /\ (z * y) * (z * y) = z * z
        BY <3>4, <3>5
      <4>2. z * z \in Int
        BY <3>4
      <4>. QED BY <3>2, <4>1, <4>2
    <3>7. z = 1 \/ z = -1
      BY <3>4, <3>6
    <3>. QED BY <2>4, <3>7 DEF z
  <2>6. Corners(c, e) = Corners(e, c) /\ Diagonal(e, c)
    BY <1>10 DEF Corners, Diagonal
  <2>7. CASE m = k + 1
    <3>. DEFINE i == a + m
    <3>1. i \in 2..n /\ i - 1 = a + k
      BY <1>3, <1>4, <1>7, <2>7
    <3>2. c = path[i - 1] /\ e = path[i]
      BY <2>1, <2>2, <3>1
    <3>. HIDE DEF i
    <3>. QED BY <1>9, <1>10, <3>1, <3>2
  <2>8. CASE k = m + 1
    <3>. DEFINE i == a + k
    <3>1. i \in 2..n /\ i - 1 = a + m
      BY <1>3, <1>4, <1>7, <2>8
    <3>2. e = path[i - 1] /\ c = path[i]
      BY <2>1, <2>2, <3>1
    <3>. HIDE DEF i
    <3>. QED BY <1>9, <2>6, <3>1, <3>2
  <2>. QED BY <2>5, <2>7, <2>8
<1>11. ClearLine(grid, start, line)
  BY <1>8, <1>10 DEF ClearLine
<1>. QED BY <1>11 DEF line

\* There is nothing to simplify when there is no path.
LEMMA SimplifyNothing == Simplify(<<>>) = <<>>
<1>. DEFINE Fills(f) == f = [i \in 0..0 |-> IF i = 0 THEN <<>>
                               ELSE IF Turns(<<>>, i) THEN Append(f[i - 1], <<>>[i]) ELSE f[i - 1]]
            kept == CHOOSE f : Fills(f)
<1>1. Simplify(<<>>) = kept[0]
  <2>1. Simplify(<<>>) = (CHOOSE f : f = [i \in 0..Len(<<>>) |-> IF i = 0 THEN <<>>
           ELSE IF Turns(<<>>, i) THEN Append(f[i - 1], <<>>[i]) ELSE f[i - 1]])[Len(<<>>)]
    BY DEF Simplify, Turns
  <2>2. Len(<<>>) = 0
    OBVIOUS
  <2>. QED BY <2>1, <2>2
<1>2. Fills([i \in 0..0 |-> <<>>])
  <2>1. \A i \in 0..0 : i = 0
    OBVIOUS
  <2>. QED BY <2>1
<1>3. Fills(kept)
  <2>. HIDE DEF Fills
  <2>. QED BY <1>2, Zenon
<1>. HIDE DEF kept
<1>4. kept[0] = <<>>
  BY <1>3
<1>. QED BY <1>1, <1>4

\* A route that begins and ends as it should, on lines that are clear.
Goes(grid, start, goal, way) ==
  /\ Len(way) >= 1 /\ way[1] = start /\ way[Len(way)] = goal /\ way \in Seq(Cells)
  /\ \A j \in 2..Len(way) : ClearLine(grid, start, Line(way[j - 1], way[j]))

\* A route that is found starts where the robot is, ends at the goal, and its lines are clear.
LEMMA RouteIsClear ==
  ASSUME NEW grid, NEW start \in Cells, NEW goal \in Cells, Simplify(AStar(grid, start, goal)) # <<>>
  PROVE  Goes(grid, start, goal, Simplify(AStar(grid, start, goal))) /\ ~Blocked(grid, goal)
<1>. DEFINE path == AStar(grid, start, goal)
            q == Simplify(path)
<1>1. path # <<>>
  BY SimplifyNothing
<1>2. Walk(grid, start, path) /\ path[Len(path)] = goal /\ ~Blocked(grid, goal)
  BY <1>1, AStarWalks
<1>. HIDE DEF path
<1>3. path \in Seq(Cells) /\ Len(path) >= 1 /\ path[1] = start
  BY <1>2 DEF Walk
<1>4. /\ q \in Seq(Cells) /\ Len(q) >= 1 /\ q[1] = path[1] /\ q[Len(q)] = path[Len(path)]
      /\ \A j \in 2..Len(q) : Leg(path, q[j - 1], q[j])
  BY <1>3, SimplifyIs
<1>. HIDE DEF q
<1>5. \A j \in 2..Len(q) : ClearLine(grid, start, Line(q[j - 1], q[j]))
  BY <1>2, <1>4, LegIsClear
<1>6. Goes(grid, start, goal, q)
  BY <1>2, <1>3, <1>4, <1>5 DEF Goes
<1>. QED BY <1>2, <1>6 DEF q, path

\* What lies in the corridor lies on a line between two corners.
LEMMA CorridorIs ==
  ASSUME NEW way, Len(way) \in Nat, NEW c \in Corridor(way)
  PROVE  \E j \in 2..Len(way) : c \in Line(way[j - 1], way[j])
<1>1. PICK i \in 1..(Len(way) - 1) : c \in Line(way[i], way[i + 1])
  BY DEF Corridor
<1>2. i + 1 \in 2..Len(way) /\ (i + 1) - 1 = i
  OBVIOUS
<1>. QED BY <1>1, <1>2

\* Local plans are clear, and end where it is safe, near what was asked.
LEMMA AlwaysClear ==
  ASSUME NEW grid, NEW start \in Cells
  PROVE  LocalIsClear(grid, start)
<1>. SUFFICES ASSUME NEW requested \in Cells, LocalPlan(grid, start, requested) # <<>>
              PROVE  LET path == LocalPlan(grid, start, requested)
                     IN /\ ~Collides(grid, path) /\ ~Squeezes(grid, start, path)
                        /\ Safe(grid, path[Len(path)])
                        /\ Square(path[Len(path)], requested) <= SearchCells * SearchCells
  BY DEF LocalIsClear
<1>. DEFINE path == LocalPlan(grid, start, requested)
            safe == SafeGoal(grid, requested)
            goal == CHOOSE c \in safe : TRUE
<1>1. safe # {} /\ path = Simplify(AStar(grid, start, goal))
  BY DEF LocalPlan
<1>2. goal \in safe
  BY <1>1
<1>3. Safe(grid, goal) /\ goal \in Disc(requested, SearchCells)
  BY <1>2 DEF SafeGoal
<1>. HIDE DEF goal, safe, path
<1>4. Square(goal, requested) <= SearchCells * SearchCells /\ goal[1] \in Int /\ goal[2] \in Int
  <2>1. requested[1] \in Int /\ requested[2] \in Int /\ SearchCells \in Nat
    BY CellParts, GridAssumption
  <2>2. goal[1] \in Int /\ goal[2] \in Int /\ Square(requested, goal) <= SearchCells * SearchCells
    BY <1>3, <2>1 DEF Disc
  <2>3. Square(requested, goal) = Square(goal, requested)
    <3>1. \A i, j \in Int : (i - j) * (i - j) = (j - i) * (j - i)
      OBVIOUS
    <3>. QED BY <2>1, <2>2, <3>1 DEF Square
  <2>. QED BY <2>2, <2>3
<1>5. goal \in Cells
  <2>1. goal \in Disc(goal, Clearance)
    <3>1. Clearance \in Nat /\ goal = <<goal[1], goal[2]>>
      <4>1. requested[1] \in Int /\ requested[2] \in Int /\ SearchCells \in Nat
        BY CellParts, GridAssumption
      <4>. QED BY <1>3, <4>1, GridAssumption DEF Disc
    <3>2. goal[1] \in (goal[1] - Clearance)..(goal[1] + Clearance) /\ goal[2] \in (goal[2] - Clearance)..(goal[2] + Clearance)
      BY <1>4, <3>1
    <3>3. Square(goal, goal) = 0 /\ Clearance * Clearance >= 0
      <4>1. \A z \in Nat : z * z >= 0
        OBVIOUS
      <4>2. goal[1] - goal[1] = 0 /\ goal[2] - goal[2] = 0
        BY <1>4
      <4>. QED BY <3>1, <4>1, <4>2 DEF Square
    <3>. QED BY <3>1, <3>2, <3>3 DEF Disc
  <2>2. ~Blocked(grid, goal)
    BY <1>3, <2>1 DEF Safe
  <2>. QED BY <2>2 DEF Blocked
<1>6. Goes(grid, start, goal, path)
  <2>1. path # <<>>
    BY DEF path
  <2>. QED BY <1>1, <1>5, <2>1, RouteIsClear
<1>7. /\ Len(path) >= 1 /\ path[1] = start /\ path[Len(path)] = goal /\ Len(path) \in Nat
      /\ \A j \in 2..Len(path) : ClearLine(grid, start, Line(path[j - 1], path[j]))
  <2>1. path \in Seq(Cells)
    BY <1>6 DEF Goes
  <2>. QED BY <1>6, <2>1 DEF Goes
<1>8. ~Collides(grid, path)
  <2>. SUFFICES ASSUME NEW c \in Corridor(path), c \in grid.occupied, c # start PROVE FALSE
    BY <1>7 DEF Collides
  <2>1. PICK j \in 2..Len(path) : c \in Line(path[j - 1], path[j])
    BY <1>7, CorridorIs
  <2>2. ~Blocked(grid, c)
    BY <1>7, <2>1 DEF ClearLine
  <2>. QED BY <2>2 DEF Blocked
<1>9. ~Squeezes(grid, start, path)
  <2>. SUFFICES ASSUME NEW j \in 2..Len(path), NEW c \in Line(path[j - 1], path[j]), NEW n \in Line(path[j - 1], path[j]),
                       Diagonal(c, n), Square(c, n) = 2, Corners(c, n) \intersect (grid.occupied \ {start}) # {}
                PROVE  FALSE
    BY DEF Squeezes, Corners
  <2>1. ClearLine(grid, start, Line(path[j - 1], path[j]))
    BY <1>7
  <2>. QED BY <2>1 DEF ClearLine
<1>. QED BY <1>3, <1>4, <1>7, <1>8, <1>9 DEF path

\* Global routes lie in what was seen free: the cells they may pass are free, but for the start.
LEMMA AlwaysSeen ==
  ASSUME NEW raw, NEW seen, NEW start \in Cells
  PROVE  GlobalIsSeen(Grid(raw, seen), start)
<1>. DEFINE grid == Grid(raw, seen)
            safe == KnownFreeOnly(grid, start)
<1>1. grid.free \intersect grid.occupied = {}
  BY DEF Grid
<1>. HIDE DEF grid
<1>2. \A c \in Cells : c \notin safe.occupied => c = start \/ c \in grid.free
  BY DEF KnownFreeOnly
<1>. HIDE DEF safe
<1>. SUFFICES ASSUME NEW goal \in Cells, GlobalRoute(safe, start, goal) # <<>>
              PROVE  LET way == GlobalRoute(safe, start, goal)
                     IN Corridor(way) \ {start} \subseteq grid.free /\ ~Squeezes(grid, start, way)
  BY DEF GlobalIsSeen, grid, safe
<1>. DEFINE way == GlobalRoute(safe, start, goal)
<1>3. Goes(safe, start, goal, way)
  BY RouteIsClear DEF GlobalRoute
<1>. HIDE DEF way
<1>4. Len(way) \in Nat /\ \A j \in 2..Len(way) : ClearLine(safe, start, Line(way[j - 1], way[j]))
  <2>1. way \in Seq(Cells)
    BY <1>3 DEF Goes
  <2>. QED BY <1>3, <2>1 DEF Goes
<1>5. ASSUME NEW c \in Corridor(way), c # start PROVE c \in grid.free
  <2>1. PICK j \in 2..Len(way) : c \in Line(way[j - 1], way[j])
    BY <1>4, CorridorIs
  <2>2. c \in Cells /\ ~Blocked(safe, c)
    BY <1>4, <1>5, <2>1 DEF ClearLine
  <2>. QED BY <1>2, <1>5, <2>2 DEF Blocked
<1>6. ~Squeezes(grid, start, way)
  <2>. SUFFICES ASSUME NEW j \in 2..Len(way), NEW c \in Line(way[j - 1], way[j]), NEW n \in Line(way[j - 1], way[j]),
                       Diagonal(c, n), Square(c, n) = 2,
                       NEW d \in Corners(c, n), d \in grid.occupied, d # start
                PROVE  FALSE
    BY DEF Squeezes, Corners
  <2>1. ClearLine(safe, start, Line(way[j - 1], way[j]))
    BY <1>4
  <2>2. d \in Cells /\ d \notin safe.occupied
    BY <2>1 DEF ClearLine
  <2>. QED BY <1>1, <1>2, <2>2
<1>. QED BY <1>5, <1>6 DEF way

-----------------------------------------------------------------------------
(* The frontiers.                                                          *)

\* What spreads within some cells stays in every set of them that it cannot leave.
LEMMA SpreadStays ==
  ASSUME NEW within, IsFiniteSet(within), NEW steps, NEW Z \in SUBSET within, NEW first \in SUBSET Z,
         \A r \in Z, c \in within : \A s \in steps : c = Plus(r, s) => c \in Z
  PROVE  Spread(first, within, steps) \subseteq Z
<1>. DEFINE N == Cardinality(within)
            Round(reached) ==
              LET next == {c \in within : \E r \in reached, s \in steps : c = Plus(r, s)} \ reached
              IN IF next = {} THEN reached ELSE reached \union next
            Fills(f) == f = [n \in 0..N |-> IF n = 0 THEN first ELSE Round(f[n - 1])]
            spread == CHOOSE f : Fills(f)
            D == SUBSET Z
<1>1. Spread(first, within, steps) = spread[N]
  BY DEF Spread
<1>2. N \in Nat
  BY FS_CardinalityType
<1>. HIDE DEF N
<1>3. first \in D
  OBVIOUS
<1>4. \A reached \in D : Round(reached) \in D
  OBVIOUS
<1>. HIDE DEF Round, D
<1>5. \E f : Fills(f)
  <2>. DEFINE Step == [k \in 1..N |-> [reached \in D |-> Round(reached)]]
  <2>1. Step \in [1..N -> [D -> D]]
    BY <1>4
  <2>2. PICK f : Run(f, D, first, Step, N)
    <3>. HIDE DEF Step
    <3>. QED BY <1>2, <1>3, <2>1, Iterates
  <2>3. ASSUME NEW k \in 1..N PROVE f[k] = Round(f[k - 1])
    <3>1. k - 1 \in 0..N
      BY <1>2
    <3>2. f[k - 1] \in D
      BY <2>2, <3>1 DEF Run
    <3>3. Step[k][f[k - 1]] = Round(f[k - 1])
      BY <3>2
    <3>. QED BY <2>2, <3>3 DEF Run
  <2>4. \A k \in 0..N : f[k] = IF k = 0 THEN first ELSE Round(f[k - 1])
    BY <1>2, <2>2, <2>3 DEF Run
  <2>5. f = [k \in 0..N |-> f[k]]
    BY <2>2 DEF Run
  <2>6. Fills(f)
    BY <2>4, <2>5
  <2>. QED BY <2>6
<1>6. Fills(spread)
  <2>. HIDE DEF Fills
  <2>. QED BY <1>5, Zenon
<1>. HIDE DEF spread
<1>7. spread[0] = first /\ \A k \in 1..N : spread[k] = Round(spread[k - 1])
  <2>1. \A k \in 0..N : spread[k] = IF k = 0 THEN first ELSE Round(spread[k - 1])
    BY <1>6
  <2>. HIDE DEF Fills
  <2>. QED BY <1>2, <2>1
<1>. HIDE DEF Fills
<1>8. spread[N] \in D
  <2>1. \A k \in 0..N : spread[k] \in D
    BY <1>2, <1>3, <1>4, <1>7, Stays
  <2>. QED BY <1>2, <2>1
<1>. QED BY <1>1, <1>8 DEF D

\* A frontier was spread to from the robot through free cells, so that A* gets there.
LEMMA AlwaysReachable ==
  ASSUME NEW raw, NEW seen \in SUBSET Cells, NEW start \in Cells
  PROVE  FrontierIsReachable(Grid(raw, seen), start)
<1>. DEFINE grid == Grid(raw, seen)
<1>1. grid.free \intersect grid.occupied = {} /\ grid.free \in SUBSET Cells
  BY DEF Grid
<1>. HIDE DEF grid
<1>. SUFFICES ASSUME NEW frontier \in Frontiers(grid, start), NEW goal \in Cells, goal \in frontier
              PROVE  AStar(grid, start, goal) # <<>> /\ goal \in grid.free
  BY DEF FrontierIsReachable, grid
<1>. DEFINE reached == Spread({start}, grid.free, Sides)
<1>2. start \in grid.free
  BY DEF Frontiers
<1>3. IsFiniteSet(grid.free)
  BY <1>1, CellsFinite, FS_Subset
<1>4. reached \in SUBSET grid.free
  BY <1>2, <1>3, SpreadStays
<1>5. goal \in reached
  <2>1. PICK g \in Components(Boundary(grid, start)) : goal \in g
    BY <1>2 DEF Frontiers
  <2>2. PICK c \in Boundary(grid, start) : g = Spread({c}, Boundary(grid, start), (-1..1) \X (-1..1))
    BY <2>1 DEF Components
  <2>3. Boundary(grid, start) \in SUBSET reached
    BY DEF Boundary
  <2>4. IsFiniteSet(Boundary(grid, start))
    BY <1>3, <1>4, <2>3, FS_Subset
  <2>5. g \subseteq Boundary(grid, start)
    BY <2>2, <2>4, SpreadStays
  <2>. QED BY <2>1, <2>3, <2>5
<1>6. ~Blocked(grid, goal)
  BY <1>1, <1>4, <1>5 DEF Blocked
<1>. DEFINE s == Search(grid, start, goal)
<1>7. SearchInv(grid, start, goal, s) /\ SearchEnded(goal, s)
  BY SearchEnds
<1>. HIDE DEF s
\* With nothing left to expand, the search has been wherever the free cells lead.
<1>8. ASSUME s.heap = {} PROVE FALSE
  <2>. DEFINE Z == {c \in grid.free : s.cost[c] >= 0}
  <2>1. /\ s.cost[start] = 0 /\ PassedOn(grid, start, s) /\ goal \notin Passed(s)
    BY <1>7 DEF SearchInv, CostsRest
  <2>2. \A c \in Z : c \in Passed(s)
    BY <1>1, <1>8 DEF Passed
  <2>3. start \in Z
    BY <1>2, <2>1
  <2>4. ASSUME NEW r \in Z, NEW c \in grid.free, NEW d \in Sides, c = Plus(r, d) PROVE c \in Z
    <3>1. r \in Cells /\ c \in Cells /\ r[1] \in Int /\ r[2] \in Int
      BY <1>1, CellParts
    <3>2. c[1] = r[1] + d[1] /\ c[2] = r[2] + d[2]
      BY <2>4 DEF Plus
    <3>3. Square(r, c) = 1 /\ ~Diagonal(r, c)
      BY <3>1, <3>2 DEF Sides, Square, Diagonal
    <3>4. c \in Beside[r]
      BY <3>1, <3>3, BesideParts
    <3>5. Open(grid, start, r, c)
      BY <1>1, <3>1, <3>3 DEF Open, Blocked
    <3>6. s.cost[c] >= 0
      BY <2>1, <2>2, <3>4, <3>5 DEF PassedOn
    <3>. QED BY <3>6
  <2>5. reached \subseteq Z
    <3>1. Z \in SUBSET grid.free /\ {start} \in SUBSET Z
      BY <2>3
    <3>. HIDE DEF Z
    <3>. QED BY <1>3, <2>4, <3>1, SpreadStays
  <2>. QED BY <1>5, <2>1, <2>2, <2>5
<1>9. AStar(grid, start, goal) # <<>>
  BY <1>6, <1>8, AStarWalks DEF s
<1>. QED BY <1>4, <1>5, <1>9

-----------------------------------------------------------------------------
(* The questions to the planner.                                           *)

\* Whatever the map gives: obstacles, what was never seen through, and where the robot is.
Questions == [raw : SUBSET Cells, unseen : SUBSET Cells, start : Cells]

AskedInv == asked = NoQuestion \/ asked \in Questions

\* The grids that are asked about hold cells.
LEMMA FewAreCells ==
  ASSUME NEW n \in Nat, NEW cells \in SUBSET Cells, NEW some \in Few(n, cells) PROVE some \in SUBSET Cells
BY DEF Few

\* Nothing else is asked about.
LEMMA AskedStays == AskedInv /\ [NavigationNext]_navigationVars => AskedInv'
<1>. SUFFICES ASSUME AskedInv, [NavigationNext]_navigationVars PROVE AskedInv'
  OBVIOUS
<1>1. CASE UNCHANGED asked
  BY <1>1 DEF AskedInv
<1>2. CASE Sight
  <2>1. PICK start \in Starts, raw \in Few(MaxReturns, Returns) \union {{}} :
          asked' = [NoQuestion EXCEPT !.raw = raw, !.start = start]
    BY <1>2 DEF Sight
  <2>2. start \in Cells /\ raw \in SUBSET Cells
    BY MapsAssumption, FewAreCells
  <2>. QED BY <2>1, <2>2 DEF AskedInv, Questions, NoQuestion
<1>3. CASE Shade
  <2>1. PICK unseen \in Few(MaxUnseen, Cells) : asked' = [asked EXCEPT !.unseen = unseen]
    BY <1>3 DEF Shade
  <2>2. unseen \in SUBSET Cells
    BY MapsAssumption, FewAreCells
  <2>3. asked \in Questions
    BY <1>3 DEF AskedInv, Shade
  <2>. QED BY <2>1, <2>2, <2>3 DEF AskedInv, Questions
<1>. QED BY <1>1, <1>2, <1>3 DEF NavigationNext, ByClients, ByMap, ByTerrain, navigationVars

\* Whatever is asked, the answer is sound.
LEMMA AnswersAreSound == AskedInv => PlanIsSound
<1>. SUFFICES ASSUME AskedInv, asked # NoQuestion PROVE PlanIsSound
  BY DEF PlanIsSound
<1>. DEFINE seen == Cells \ asked.unseen
            grid == Grid(asked.raw, seen)
<1>1. asked.start \in Cells /\ seen \in SUBSET Cells
  BY DEF AskedInv, Questions
<1>. HIDE DEF seen
<1>2. GlobalIsSeen(grid, asked.start)
  BY <1>1, AlwaysSeen
<1>3. FrontierIsReachable(grid, asked.start)
  BY <1>1, AlwaysReachable
<1>. HIDE DEF grid
<1>4. Shortest(grid, asked.start)
  BY <1>1, AlwaysShortest
<1>5. LocalIsClear(grid, asked.start)
  BY <1>1, AlwaysClear
<1>. QED BY <1>2, <1>3, <1>4, <1>5 DEF PlanIsSound, grid, seen

\* Whatever the map gives and wherever the robot is, on a grid of any size: A* finds a path whenever
\* there is one, and none is cheaper, though it never looks again at a cell it has passed and lets a
\* cheaper entry overtake a dearer one; the corners of it that are kept still join to lines that are
\* clear and squeeze between no obstacles that touch; the goal near what was asked is safe; a global
\* route lies in what was seen free; and to every goal of a frontier there is a path.
THEOREM PlanAlwaysSound == NavigationSpec => []PlanIsSound
<1>1. NavigationInit => AskedInv
  BY DEF NavigationInit, AskedInv
<1>. QED BY <1>1, AskedStays, AnswersAreSound, PTL DEF NavigationSpec

\* Navigation starts in its parts and stays there, one of them at a time.
LEMMA PartsOfNavigation ==
  /\ NavigationInit => ClientsInit /\ MapInit /\ TerrainInit
  /\ [NavigationNext]_navigationVars =>
       [ClientsNext]_clientsVars /\ [MapNext]_mapVars /\ [TerrainNext]_terrainVars
<1>1. NavigationInit => ClientsInit /\ MapInit /\ TerrainInit
  BY DEF NavigationInit
<1>2. [NavigationNext]_navigationVars =>
        [ClientsNext]_clientsVars /\ [MapNext]_mapVars /\ [TerrainNext]_terrainVars
  BY DEF NavigationNext, ByClients, ByMap, ByTerrain, Sight, Shade, navigationVars
<1>. QED BY <1>1, <1>2

\* Clients, map, planner and terrain together keep all that the run of navigation checks of what
\* may never happen: a cancel reaches what drives and holds, no success is one that was over
\* before, the map is true, plans and paths are sound, goals follow their life cycle, and no
\* obstacle is lost.
THEOREM NavigationKeepsItsPromises ==
  NavigationSpec => /\ [](StopReaches /\ SuccessIsOwn /\ MapIsTrue /\ PlanIsSound /\ PathIsSafe)
                    /\ LifecycleSpec /\ ObstacleStays
<1>1. NavigationSpec => ClientsSpec /\ MapSpec /\ TerrainSpec
  BY PartsOfNavigation, PTL DEF NavigationSpec, ClientsSpec, MapSpec, TerrainSpec
<1>. QED BY <1>1, StopAlwaysReaches, SuccessIsAlwaysOwn, GoalsImplemented, MapAlwaysTrue,
            ObstacleAlwaysStays, PathAlwaysSafe, PlanAlwaysSound, PTL

=============================================================================
