---------------------------- MODULE SkillRunProofs ----------------------------
(***************************************************************************)
(* Proofs about SkillRun, for any number of skills, goals, viewers,        *)
(* sessions and pieces of speech: no skill and no shutdown leaves a goal   *)
(* of its own active, the robot is not driven forward on a reading that is *)
(* old, explore gives up exactly when it walks aimlessly, a plan is marked *)
(* when the substitute made it and holds only calls that were said and     *)
(* fit, the peers and relays of the camera are as many as there should be, *)
(* and speech is heard in its order and in time.  Each family of steps has *)
(* its own invariant, which the other families do not touch.               *)
(***************************************************************************)
EXTENDS SkillRun, FiniteSetTheorems, TLAPS

-----------------------------------------------------------------------------
(* Induction along a set of numbers, so that no operator is needed.        *)

LEMMA LeastNumber ==
  ASSUME NEW T \in SUBSET Nat, T # {}
  PROVE  \E n \in T : \A m \in T : n <= m
<1>. DEFINE R == {ss \in Nat \X Nat : ss[1] < ss[2]}
<1>1. IsWellFoundedOn(R, Nat)
  BY NatLessThanWellFounded DEF OpToRel
<1>2. \A m, n \in Nat : <<m, n>> \in R <=> m < n
  OBVIOUS
<1>. HIDE DEF R
<1>3. PICK n \in T : \A m \in T : ~(<<m, n>> \in R)
  BY <1>1, WFMin
<1>4. ASSUME NEW m \in T PROVE n <= m
  <2>1. ~(m < n)
    BY <1>2, <1>3
  <2>. QED BY <2>1
<1>. QED BY <1>4

LEMMA SetInduction ==
  ASSUME NEW T \in SUBSET Nat, 0 \in T, \A n \in T : n + 1 \in T
  PROVE  T = Nat
<1>. SUFFICES ASSUME T # Nat PROVE FALSE
  OBVIOUS
<1>1. PICK n \in Nat \ T : \A m \in Nat \ T : n <= m
  BY LeastNumber
<1>2. n - 1 \in T
  BY <1>1
<1>. QED BY <1>1, <1>2

-----------------------------------------------------------------------------
(* Errands.                                                                *)

AllKinds == NativeKinds \union SpatialKinds
Places == {"next", "wait", "glance", "plan", "done"}
Phases == {"travel", "turn", "face"}
Verdicts ==
  {"running", "canceled", "navigation_failed", "completed", "max_goals", "complete", "no_frontier",
   "no_information_gain", "no_terrain_frontier", "terrain_stopped", "goal_rejected", "target_lost",
   "target_reached", "max_iterations", "invalid_visual_projection", "navigation_rejected", "remembered",
   "leg_failed", "exhausted_current_map_memory", "provider_error", "found", "timed_out", "cancelled_by_stop"}
ErrandRecords ==
  [kind: AllKinds, pc: Places, phase: Phases, left: Int, steps: Int, reached: Int, idle: Int, late: BOOLEAN,
   verdict: Verdicts]
GoalRecords == [status: Outcomes \union {"idle", "active", "canceled"}, goal: 0..3]

\* A skill that was cancelled with its command, and find_object that ended by an exception.
Excused(e) == e.verdict = "cancelled_by_stop" \/ (e.kind = "find" /\ e.verdict = "provider_error")

\* Whoever is not waiting has no active goal of its own.
OwnGoalInv ==
  /\ goal \in 0..3
  /\ errand.pc # "done" => errand.verdict = "running"
  /\ errand.pc # "wait" /\ ~Excused(errand) /\ state.goal = goal => ~Goals!Active

\* The command is over before the goal is cancelled, so that nobody sets another.
ServiceInv ==
  /\ service \in {"cancelling", "down"} => errand.pc = "done"
  /\ service = "down" => ~Goals!Active

ErrandInv == errand \in ErrandRecords /\ state \in GoalRecords /\ OwnGoalInv /\ ServiceInv

\* The steps of an errand: it goes on or returns, with the goal as it is ...
GoesOn ==
  /\ UNCHANGED <<state, goal>>
  /\ errand'.pc # "done" => errand'.verdict = "running"
  /\ \/ errand'.pc = "wait" \/ Excused(errand')
     \/ errand.pc # "wait" \/ Terminal

\* ... sets a goal of its own ...
SetsGoal == Goals!Begin(NewId) /\ goal' = NewId /\ errand'.pc = "wait" /\ errand'.verdict = errand.verdict

\* ... or ends the wait for its goal with it.
EndsGoal ==
  /\ goal' = goal /\ state' \in GoalRecords /\ state'.goal = state.goal /\ state'.status # "active"
  /\ errand'.pc # "done" => errand'.verdict = "running"

ErrandMoves ==
  /\ errand.pc # "done" /\ errand' \in ErrandRecords
  /\ UNCHANGED <<client, desk, service>>
  /\ GoesOn \/ SetsGoal \/ EndsGoal

\* There is an id that nobody holds.
LEMMA NewIdShape == NewId \in 1..3 /\ NewId # state.goal /\ NewId # goal
<1>1. \E id \in 1..3 : id \notin {state.goal, goal}
  OBVIOUS
<1>. QED BY <1>1 DEF NewId

\* A verdict ends the errand.
LEMMA ReturnsShape ==
  ASSUME errand \in ErrandRecords, NEW v \in Verdicts, Returns(v)
  PROVE  /\ errand' \in ErrandRecords /\ errand'.pc = "done" /\ errand'.verdict = v
         /\ errand'.kind = errand.kind
<1>. DEFINE r == errand'
<1>1. r = [errand EXCEPT !.pc = "done", !.phase = "travel", !.left = 0, !.steps = 0, !.idle = 0,
                         !.late = FALSE, !.verdict = v]
  BY DEF Returns
<1>2. r = [kind |-> errand.kind, pc |-> "done", phase |-> "travel", left |-> 0, steps |-> 0,
           reached |-> errand.reached, idle |-> 0, late |-> FALSE, verdict |-> v]
  BY <1>1 DEF ErrandRecords
<1>3. errand.kind \in AllKinds /\ errand.reached \in Int /\ "done" \in Places /\ "travel" \in Phases
  BY DEF ErrandRecords, Places, Phases
<1>. HIDE DEF r
<1>4. r \in ErrandRecords /\ r.pc = "done" /\ r.verdict = v /\ r.kind = errand.kind
  BY <1>2, <1>3 DEF ErrandRecords
<1>. QED BY <1>4 DEF r

\* It does so as it stands, unless its goal drives the robot.
LEMMA ReturnsNowMoves ==
  ASSUME ErrandInv, errand.pc # "done", UNCHANGED <<client, desk, service>>, NEW v \in Verdicts,
         ReturnsNow(v), errand.pc # "wait" \/ Terminal \/ (errand.kind = "find" /\ v = "provider_error")
  PROVE  ErrandMoves
<1>1. /\ errand' \in ErrandRecords /\ errand'.pc = "done" /\ errand'.verdict = v
      /\ errand'.kind = errand.kind /\ UNCHANGED <<state, goal>>
  BY ReturnsShape DEF ErrandInv, ReturnsNow
<1>2. GoesOn
  BY <1>1 DEF GoesOn, Excused
<1>. QED BY <1>1, <1>2 DEF ErrandMoves

\* An errand with other numbers, at another place.
Form(place, phase, left, steps, reached, idle, late) ==
  [kind |-> errand.kind, pc |-> place, phase |-> phase, left |-> left, steps |-> steps,
   reached |-> reached, idle |-> idle, late |-> late, verdict |-> errand.verdict]

\* What an errand is made of.
LEMMA ErrandFields ==
  ASSUME errand \in ErrandRecords
  PROVE  /\ errand.kind \in AllKinds /\ errand.pc \in Places /\ errand.phase \in Phases
         /\ errand.left \in Int /\ errand.steps \in Int /\ errand.reached \in Int /\ errand.idle \in Int
         /\ errand.late \in BOOLEAN /\ errand.verdict \in Verdicts
         /\ errand = Form(errand.pc, errand.phase, errand.left, errand.steps, errand.reached, errand.idle,
                          errand.late)
BY DEF ErrandRecords, Form

\* The skill of a command is one of the kinds of errands, which starts by planning or by its first goal.
LEMMA FormShape ==
  ASSUME errand \in ErrandRecords, NEW p \in Places, NEW f \in Phases, NEW l \in Int, NEW s \in Int,
         NEW r \in Int, NEW i \in Int, NEW t \in BOOLEAN
  PROVE  /\ Form(p, f, l, s, r, i, t) \in ErrandRecords
         /\ Form(p, f, l, s, r, i, t).pc = p /\ Form(p, f, l, s, r, i, t).verdict = errand.verdict
BY ErrandFields DEF ErrandRecords, Form

\* The next place of an errand that goes on.
LEMMA BecomesMoves ==
  ASSUME ErrandInv, errand.pc # "done", UNCHANGED <<client, desk, service>>,
         NEW p \in Places \ {"done"}, NEW f \in Phases, NEW l \in Int, NEW s \in Int,
         NEW r \in Int, NEW i \in Int, NEW t \in BOOLEAN,
         errand' = Form(p, f, l, s, r, i, t), UNCHANGED <<state, goal>>,
         p = "wait" \/ errand.pc # "wait" \/ Terminal
  PROVE  ErrandMoves
<1>1. errand' \in ErrandRecords /\ errand'.pc = p /\ errand'.verdict = errand.verdict
  BY FormShape DEF ErrandInv
<1>2. GoesOn
  BY <1>1 DEF GoesOn, ErrandInv, OwnGoalInv
<1>. QED BY <1>1, <1>2 DEF ErrandMoves

\* A goal is refused, or accepted and waited for.
LEMMA SubmitMoves ==
  ASSUME ErrandInv, errand.pc \notin {"done", "wait"}, UNCHANGED <<client, desk, service>>,
         NEW refusal \in Verdicts, Submit(refusal)
  PROVE  ErrandMoves
<1>1. CASE ReturnsNow(refusal)
  BY <1>1, ReturnsNowMoves
<1>2. CASE ReturnsNow("provider_error")
  <2>1. "provider_error" \in Verdicts
    BY DEF Verdicts
  <2>. QED BY <1>2, <2>1, ReturnsNowMoves
<1>3. CASE /\ Goals!Begin(NewId) /\ goal' = NewId
           /\ errand' = [errand EXCEPT !.pc = "wait", !.late = FALSE]
  <2>1. "wait" \in Places
    BY DEF Places
  <2>2. errand' \in ErrandRecords /\ errand'.pc = "wait" /\ errand'.verdict = errand.verdict
    BY <1>3, <2>1 DEF ErrandInv, ErrandRecords
  <2>. QED BY <1>3, <2>2 DEF ErrandMoves, SetsGoal
<1>. QED BY <1>1, <1>2, <1>3 DEF Submit

\* A goal is cancelled, whether it drives or not.
LEMMA CancelShape ==
  ASSUME state \in GoalRecords, Cancel
  PROVE  state' \in GoalRecords /\ state'.goal = state.goal /\ state'.status # "active"
BY DEF Cancel, GoalRecords, Goals!End, Goals!Active

\* The end of a goal that the controllers take note of.
LEMMA StopsMoves ==
  ASSUME ErrandInv, errand.pc = "wait", UNCHANGED <<client, desk, service>>, Terminal, Stops
  PROVE  ErrandMoves
<1>1. "canceled" \in Verdicts /\ "navigation_failed" \in Verdicts
  BY DEF Verdicts
<1>. QED BY <1>1, ReturnsNowMoves DEF Stops

\* A skill has a next step, or waits for its goal.
LEMMA RunsPlaces ==
  ASSUME NEW kind, NEW place, Runs(kind, place), place # "done"
  PROVE  errand.pc = place /\ errand.kind = kind /\ errand.pc # "done" /\ UNCHANGED <<client, desk, service>>
BY DEF Runs, At

\* The controllers that follow a target or a picture move as an errand may.
LEMMA ControllersMove ==
  ASSUME ErrandInv,
         \/ PatrolNext \/ PatrolTerminal \/ FrontierNext \/ FrontierTerminal
         \/ TerrainPlan \/ PathReached \/ TerrainNext \/ TerrainTerminal
         \/ VisualLost \/ VisualCentered \/ VisualNext \/ VisualTerminal
  PROVE  ErrandMoves
<1>. DEFINE Reasons ==
       {"canceled", "navigation_failed", "completed", "max_goals", "complete", "no_frontier",
        "no_information_gain", "no_terrain_frontier", "terrain_stopped", "goal_rejected", "target_lost",
        "target_reached", "max_iterations", "invalid_visual_projection", "navigation_rejected"}
<1>0. Reasons \subseteq Verdicts
  BY DEF Verdicts
<1>00. errand \in ErrandRecords
  BY DEF ErrandInv
<1>1. CASE PatrolNext
  <2>1. errand.pc = "next" /\ UNCHANGED <<client, desk, service>>
    BY <1>1, RunsPlaces DEF PatrolNext
  <2>2. CASE ReturnsNow("completed")
    BY <1>0, <2>1, <2>2, ReturnsNowMoves
  <2>3. CASE Submit("navigation_failed")
    BY <1>0, <2>1, <2>3, SubmitMoves
  <2>. QED BY <1>1, <2>2, <2>3 DEF PatrolNext
<1>2. CASE PatrolTerminal
  <2>1. errand.pc = "wait" /\ Terminal /\ UNCHANGED <<client, desk, service>>
    BY <1>2, RunsPlaces DEF PatrolTerminal, Ended
  <2>2. CASE Stops
    BY <2>1, <2>2, StopsMoves
  <2>3. CASE Becomes([errand EXCEPT !.pc = "next", !.left = @ - 1, !.reached = @ + 1])
    <3>. DEFINE l == errand.left - 1
                r == errand.reached + 1
    <3>1. l \in Int /\ r \in Int
      BY <1>00, ErrandFields
    <3>2. errand' = [errand EXCEPT !.pc = "next", !.left = l, !.reached = r] /\ UNCHANGED <<state, goal>>
      BY <2>3 DEF Becomes
    <3>. HIDE DEF l, r
    <3>3. errand' = Form("next", errand.phase, l, errand.steps, r, errand.idle, errand.late)
      BY <1>00, <3>2 DEF ErrandRecords, Form
    <3>. QED BY <1>00, <2>1, <3>1, <3>2, <3>3, ErrandFields, BecomesMoves DEF Places, Phases
  <2>. QED BY <1>2, <2>2, <2>3 DEF PatrolTerminal
<1>3. CASE FrontierNext
  <2>1. errand.pc = "next" /\ UNCHANGED <<client, desk, service>>
    BY <1>3, RunsPlaces DEF FrontierNext
  <2>2. ASSUME NEW v \in Verdicts, ReturnsNow(v) PROVE ErrandMoves
    BY <2>1, <2>2, ReturnsNowMoves
  <2>3. CASE Submit("navigation_failed")
    BY <1>0, <2>1, <2>3, SubmitMoves
  <2>. QED BY <1>0, <1>3, <2>2, <2>3 DEF FrontierNext
<1>4. CASE FrontierTerminal
  <2>1. errand.pc = "wait" /\ Terminal /\ UNCHANGED <<client, desk, service>>
    BY <1>4, RunsPlaces DEF FrontierTerminal, Ended
  <2>2. CASE Stops
    BY <2>1, <2>2, StopsMoves
  <2>3. ASSUME NEW idle \in {0, errand.idle + 1},
               Becomes([errand EXCEPT !.pc = "next", !.left = @ - 1, !.reached = @ + 1, !.idle = idle])
        PROVE  ErrandMoves
    <3>. DEFINE l == errand.left - 1
                r == errand.reached + 1
                i == idle
    <3>1. l \in Int /\ r \in Int /\ i \in Int
      BY <1>00, ErrandFields
    <3>2. errand' = [errand EXCEPT !.pc = "next", !.left = l, !.reached = r, !.idle = i] /\ UNCHANGED <<state, goal>>
      BY <2>3 DEF Becomes
    <3>. HIDE DEF l, r, i
    <3>3. errand' = Form("next", errand.phase, l, errand.steps, r, i, errand.late)
      BY <1>00, <3>2 DEF ErrandRecords, Form
    <3>. QED BY <1>00, <2>1, <3>1, <3>2, <3>3, ErrandFields, BecomesMoves DEF Places, Phases
  <2>4. CASE ReturnsNow("no_information_gain")
    BY <1>0, <2>1, <2>4, ReturnsNowMoves
  <2>. QED BY <1>4, <2>2, <2>3, <2>4 DEF FrontierTerminal
<1>5. CASE TerrainPlan
  <2>1. errand.pc = "plan" /\ UNCHANGED <<client, desk, service>>
    BY <1>5, RunsPlaces DEF TerrainPlan
  <2>2. ASSUME NEW v \in Verdicts, ReturnsNow(v) PROVE ErrandMoves
    BY <2>1, <2>2, ReturnsNowMoves
  <2>3. ASSUME NEW n \in 0..MaxLegs, Becomes([errand EXCEPT !.pc = "next", !.steps = n])
        PROVE  ErrandMoves
    <3>. DEFINE s == n
    <3>1. s \in Int
      BY <1>00, ErrandFields
    <3>2. errand' = [errand EXCEPT !.pc = "next", !.steps = s] /\ UNCHANGED <<state, goal>>
      BY <2>3 DEF Becomes
    <3>. HIDE DEF s
    <3>3. errand' = Form("next", errand.phase, errand.left, s, errand.reached, errand.idle, errand.late)
      BY <1>00, <3>2 DEF ErrandRecords, Form
    <3>. QED BY <1>00, <2>1, <3>1, <3>2, <3>3, ErrandFields, BecomesMoves DEF Places, Phases
  <2>. QED BY <1>0, <1>5, <2>2, <2>3 DEF TerrainPlan
<1>6. CASE PathReached
  <2>1. errand.pc = "next" /\ UNCHANGED <<client, desk, service>>
    BY <1>6, RunsPlaces DEF PathReached
  <2>2. CASE ReturnsNow("completed")
    BY <1>0, <2>1, <2>2, ReturnsNowMoves
  <2>3. CASE Becomes([errand EXCEPT !.pc = "plan", !.left = @ - 1, !.reached = @ + 1])
    <3>. DEFINE l == errand.left - 1
                r == errand.reached + 1
    <3>1. l \in Int /\ r \in Int
      BY <1>00, ErrandFields
    <3>2. errand' = [errand EXCEPT !.pc = "plan", !.left = l, !.reached = r] /\ UNCHANGED <<state, goal>>
      BY <2>3 DEF Becomes
    <3>. HIDE DEF l, r
    <3>3. errand' = Form("plan", errand.phase, l, errand.steps, r, errand.idle, errand.late)
      BY <1>00, <3>2 DEF ErrandRecords, Form
    <3>. QED BY <1>00, <2>1, <3>1, <3>2, <3>3, ErrandFields, BecomesMoves DEF Places, Phases
  <2>. QED BY <1>6, <2>2, <2>3 DEF PathReached
<1>7. CASE TerrainNext
  <2>1. errand.pc = "next" /\ UNCHANGED <<client, desk, service>>
    BY <1>7, RunsPlaces DEF TerrainNext
  <2>2. CASE Submit("goal_rejected")
    BY <1>0, <2>1, <2>2, SubmitMoves
  <2>3. CASE ReturnsNow("terrain_stopped")
    BY <1>0, <2>1, <2>3, ReturnsNowMoves
  <2>. QED BY <1>7, <2>2, <2>3 DEF TerrainNext
<1>8. CASE TerrainTerminal
  <2>1. errand.pc = "wait" /\ Terminal /\ UNCHANGED <<client, desk, service>>
    BY <1>8, RunsPlaces DEF TerrainTerminal, Ended
  <2>2. CASE Stops
    BY <2>1, <2>2, StopsMoves
  <2>3. CASE Becomes([errand EXCEPT !.pc = "next", !.steps = @ - 1])
    <3>. DEFINE s == errand.steps - 1
    <3>1. s \in Int
      BY <1>00, ErrandFields
    <3>2. errand' = [errand EXCEPT !.pc = "next", !.steps = s] /\ UNCHANGED <<state, goal>>
      BY <2>3 DEF Becomes
    <3>. HIDE DEF s
    <3>3. errand' = Form("next", errand.phase, errand.left, s, errand.reached, errand.idle, errand.late)
      BY <1>00, <3>2 DEF ErrandRecords, Form
    <3>. QED BY <1>00, <2>1, <3>1, <3>2, <3>3, ErrandFields, BecomesMoves DEF Places, Phases
  <2>. QED BY <1>8, <2>2, <2>3 DEF TerrainTerminal
<1>9. CASE VisualLost
  <2>1. errand.pc = "next" /\ UNCHANGED <<client, desk, service>>
    BY <1>9, RunsPlaces DEF VisualLost
  <2>2. CASE ReturnsNow("target_lost")
    BY <1>0, <2>1, <2>2, ReturnsNowMoves
  <2>3. CASE Becomes([errand EXCEPT !.left = @ - 1, !.idle = @ + 1, !.reached = 0])
    <3>. DEFINE l == errand.left - 1
                i == errand.idle + 1
                r == 0
    <3>1. l \in Int /\ i \in Int /\ r \in Int
      BY <1>00, ErrandFields
    <3>2. errand' = [errand EXCEPT !.left = l, !.idle = i, !.reached = r] /\ UNCHANGED <<state, goal>>
      BY <2>3 DEF Becomes
    <3>. HIDE DEF l, i, r
    <3>3. errand' = Form(errand.pc, errand.phase, l, errand.steps, r, i, errand.late)
      BY <1>00, <3>2 DEF ErrandRecords, Form
    <3>. QED BY <1>00, <2>1, <3>1, <3>2, <3>3, ErrandFields, BecomesMoves DEF Places, Phases
  <2>. QED BY <1>9, <2>2, <2>3 DEF VisualLost
<1>10. CASE VisualCentered
  <2>1. errand.pc = "next" /\ UNCHANGED <<client, desk, service>>
    BY <1>10, RunsPlaces DEF VisualCentered
  <2>2. CASE ReturnsNow("target_reached")
    BY <1>0, <2>1, <2>2, ReturnsNowMoves
  <2>3. CASE Becomes([errand EXCEPT !.left = @ - 1, !.idle = 0, !.reached = 1])
    <3>. DEFINE l == errand.left - 1
                i == 0
                r == 1
    <3>1. l \in Int /\ i \in Int /\ r \in Int
      BY <1>00, ErrandFields
    <3>2. errand' = [errand EXCEPT !.left = l, !.idle = i, !.reached = r] /\ UNCHANGED <<state, goal>>
      BY <2>3 DEF Becomes
    <3>. HIDE DEF l, i, r
    <3>3. errand' = Form(errand.pc, errand.phase, l, errand.steps, r, i, errand.late)
      BY <1>00, <3>2 DEF ErrandRecords, Form
    <3>. QED BY <1>00, <2>1, <3>1, <3>2, <3>3, ErrandFields, BecomesMoves DEF Places, Phases
  <2>. QED BY <1>10, <2>2, <2>3 DEF VisualCentered
<1>11. CASE VisualNext
  <2>1. errand.pc = "next" /\ UNCHANGED <<client, desk, service>>
    BY <1>11, RunsPlaces DEF VisualNext
  <2>2. ASSUME NEW v \in Verdicts, ReturnsNow(v) PROVE ErrandMoves
    BY <2>1, <2>2, ReturnsNowMoves
  <2>3. CASE Submit("navigation_rejected")
    BY <1>0, <2>1, <2>3, SubmitMoves
  <2>. QED BY <1>0, <1>11, <2>2, <2>3 DEF VisualNext
<1>12. CASE VisualTerminal
  <2>1. errand.pc = "wait" /\ Terminal /\ UNCHANGED <<client, desk, service>>
    BY <1>12, RunsPlaces DEF VisualTerminal, Ended
  <2>2. CASE Stops
    BY <2>1, <2>2, StopsMoves
  <2>3. CASE Becomes([errand EXCEPT !.pc = "next", !.left = @ - 1, !.idle = 0, !.reached = 0])
    <3>. DEFINE l == errand.left - 1
                i == 0
                r == 0
    <3>1. l \in Int /\ i \in Int /\ r \in Int
      BY <1>00, ErrandFields
    <3>2. errand' = [errand EXCEPT !.pc = "next", !.left = l, !.idle = i, !.reached = r] /\ UNCHANGED <<state, goal>>
      BY <2>3 DEF Becomes
    <3>. HIDE DEF l, i, r
    <3>3. errand' = Form("next", errand.phase, l, errand.steps, r, i, errand.late)
      BY <1>00, <3>2 DEF ErrandRecords, Form
    <3>. QED BY <1>00, <2>1, <3>1, <3>2, <3>3, ErrandFields, BecomesMoves DEF Places, Phases
  <2>. QED BY <1>12, <2>2, <2>3 DEF VisualTerminal
<1>. QED BY <1>1, <1>2, <1>3, <1>4, <1>5, <1>6, <1>7, <1>8, <1>9, <1>10, <1>11, <1>12

\* So do the exploration of frontiers and the search in the memory.
LEMMA SearchesMove ==
  ASSUME ErrandInv,
         \/ RememberNext \/ TravelNext \/ Exhausted \/ TurnNext \/ Glance \/ GlanceFails \/ Face
         \/ FoundOnTheWay \/ SpatialTerminal \/ SpatialTimesOut
  PROVE  ErrandMoves
<1>0. {"remembered", "leg_failed", "exhausted_current_map_memory", "provider_error", "found", "timed_out"}
        \subseteq Verdicts
  BY DEF Verdicts
<1>00. errand \in ErrandRecords
  BY DEF ErrandInv
<1>1. CASE RememberNext
  <2>1. errand.pc = "next" /\ UNCHANGED <<client, desk, service>>
    BY <1>1, RunsPlaces DEF RememberNext
  <2>2. ASSUME NEW v \in Verdicts, ReturnsNow(v) PROVE ErrandMoves
    BY <2>1, <2>2, ReturnsNowMoves
  <2>3. CASE Submit("leg_failed")
    BY <1>0, <2>1, <2>3, SubmitMoves
  <2>. QED BY <1>0, <1>1, <2>2, <2>3 DEF RememberNext
<1>2. CASE TravelNext
  <2>1. errand.pc = "next" /\ UNCHANGED <<client, desk, service>>
    BY <1>2, RunsPlaces DEF TravelNext
  <2>2. CASE ReturnsNow("leg_failed")
    BY <1>0, <2>1, <2>2, ReturnsNowMoves
  <2>3. CASE Submit("leg_failed")
    BY <1>0, <2>1, <2>3, SubmitMoves
  <2>4. CASE Becomes([errand EXCEPT !.phase = "turn", !.steps = MaxLegs])
    <3>. DEFINE s == MaxLegs
    <3>1. s \in Int
      BY ErrandAssumption
    <3>2. errand' = [errand EXCEPT !.phase = "turn", !.steps = s] /\ UNCHANGED <<state, goal>>
      BY <2>4 DEF Becomes
    <3>. HIDE DEF s
    <3>3. errand' = Form(errand.pc, "turn", errand.left, s, errand.reached, errand.idle, errand.late)
      BY <1>00, <3>2 DEF ErrandRecords, Form
    <3>. QED BY <1>00, <2>1, <3>1, <3>2, <3>3, ErrandFields, BecomesMoves DEF Places, Phases
  <2>. QED BY <1>2, <2>2, <2>3, <2>4 DEF TravelNext
<1>3. CASE Exhausted
  <2>1. errand.pc = "next" /\ UNCHANGED <<client, desk, service>>
    BY <1>3, RunsPlaces DEF Exhausted
  <2>2. ReturnsNow("exhausted_current_map_memory")
    BY <1>3 DEF Exhausted
  <2>. QED BY <1>0, <2>1, <2>2, ReturnsNowMoves
<1>4. CASE TurnNext
  <2>1. errand.pc = "next" /\ UNCHANGED <<client, desk, service>>
    BY <1>4, RunsPlaces DEF TurnNext
  <2>2. CASE ReturnsNow("leg_failed")
    BY <1>0, <2>1, <2>2, ReturnsNowMoves
  <2>3. CASE Submit("leg_failed")
    BY <1>0, <2>1, <2>3, SubmitMoves
  <2>4. CASE Becomes([errand EXCEPT !.phase = "travel", !.left = @ - 1])
    <3>. DEFINE l == errand.left - 1
    <3>1. l \in Int
      BY <1>00, ErrandFields
    <3>2. errand' = [errand EXCEPT !.phase = "travel", !.left = l] /\ UNCHANGED <<state, goal>>
      BY <2>4 DEF Becomes
    <3>. HIDE DEF l
    <3>3. errand' = Form(errand.pc, "travel", l, errand.steps, errand.reached, errand.idle, errand.late)
      BY <1>00, <3>2 DEF ErrandRecords, Form
    <3>. QED BY <1>00, <2>1, <3>1, <3>2, <3>3, ErrandFields, BecomesMoves DEF Places, Phases
  <2>5. CASE Becomes([errand EXCEPT !.pc = "glance"])
    <3>1. errand' = [errand EXCEPT !.pc = "glance"] /\ UNCHANGED <<state, goal>>
      BY <2>5 DEF Becomes
    <3>2. errand' = Form("glance", errand.phase, errand.left, errand.steps, errand.reached, errand.idle, errand.late)
      BY <1>00, <3>1 DEF ErrandRecords, Form
    <3>3. "glance" \in Places \ {"done"}
      BY DEF Places
    <3>. QED BY <1>00, <2>1, <3>1, <3>2, <3>3, ErrandFields, BecomesMoves
  <2>. QED BY <1>4, <2>2, <2>3, <2>4, <2>5 DEF TurnNext
<1>5. CASE Glance
  <2>1. errand.pc = "glance" /\ UNCHANGED <<client, desk, service>>
    BY <1>5, RunsPlaces DEF Glance
  <2>2. CASE Becomes([errand EXCEPT !.pc = "next", !.steps = @ - 1])
    <3>. DEFINE s == errand.steps - 1
    <3>1. s \in Int
      BY <1>00, ErrandFields
    <3>2. errand' = [errand EXCEPT !.pc = "next", !.steps = s] /\ UNCHANGED <<state, goal>>
      BY <2>2 DEF Becomes
    <3>. HIDE DEF s
    <3>3. errand' = Form("next", errand.phase, errand.left, s, errand.reached, errand.idle, errand.late)
      BY <1>00, <3>2 DEF ErrandRecords, Form
    <3>. QED BY <1>00, <2>1, <3>1, <3>2, <3>3, ErrandFields, BecomesMoves DEF Places, Phases
  <2>3. CASE Becomes([errand EXCEPT !.pc = "next", !.phase = "face", !.steps = 1])
    <3>. DEFINE s == 1
    <3>1. s \in Int
      BY <1>00, ErrandFields
    <3>2. errand' = [errand EXCEPT !.pc = "next", !.phase = "face", !.steps = s] /\ UNCHANGED <<state, goal>>
      BY <2>3 DEF Becomes
    <3>. HIDE DEF s
    <3>3. errand' = Form("next", "face", errand.left, s, errand.reached, errand.idle, errand.late)
      BY <1>00, <3>2 DEF ErrandRecords, Form
    <3>. QED BY <1>00, <2>1, <3>1, <3>2, <3>3, ErrandFields, BecomesMoves DEF Places, Phases
  <2>4. CASE Becomes([errand EXCEPT !.pc = "next", !.left = @ - 1])
    <3>. DEFINE l == errand.left - 1
    <3>1. l \in Int
      BY <1>00, ErrandFields
    <3>2. errand' = [errand EXCEPT !.pc = "next", !.left = l] /\ UNCHANGED <<state, goal>>
      BY <2>4 DEF Becomes
    <3>. HIDE DEF l
    <3>3. errand' = Form("next", errand.phase, l, errand.steps, errand.reached, errand.idle, errand.late)
      BY <1>00, <3>2 DEF ErrandRecords, Form
    <3>. QED BY <1>00, <2>1, <3>1, <3>2, <3>3, ErrandFields, BecomesMoves DEF Places, Phases
  <2>. QED BY <1>5, <2>2, <2>3, <2>4 DEF Glance
<1>6. CASE GlanceFails
  <2>1. /\ errand.pc = "glance" \/ (errand.pc = "wait" /\ errand.kind = "find")
        /\ UNCHANGED <<client, desk, service>>
    BY <1>6, RunsPlaces DEF GlanceFails
  <2>2. ReturnsNow("provider_error")
    BY <1>6 DEF GlanceFails
  <2>. QED BY <1>0, <2>1, <2>2, ReturnsNowMoves
<1>7. CASE Face
  <2>1. errand.pc = "next" /\ UNCHANGED <<client, desk, service>>
    BY <1>7, RunsPlaces DEF Face
  <2>2. ASSUME NEW v \in Verdicts, ReturnsNow(v) PROVE ErrandMoves
    BY <2>1, <2>2, ReturnsNowMoves
  <2>3. CASE Submit("leg_failed")
    BY <1>0, <2>1, <2>3, SubmitMoves
  <2>. QED BY <1>0, <1>7, <2>2, <2>3 DEF Face
<1>8. CASE FoundOnTheWay
  <2>1. errand.pc = "wait" /\ UNCHANGED <<client, desk, service>>
    BY <1>8, RunsPlaces DEF FoundOnTheWay
  <2>2. errand' = [errand EXCEPT !.pc = "next", !.phase = "face", !.steps = 1, !.late = FALSE]
    BY <1>8 DEF FoundOnTheWay
  <2>. DEFINE t == FALSE
  <2>3. errand' = Form("next", "face", errand.left, 1, errand.reached, errand.idle, t)
    BY <1>00, <2>2 DEF ErrandRecords, Form
  <2>. "next" \in Places /\ "face" \in Phases /\ t \in BOOLEAN /\ 1 \in Int
    BY DEF Places, Phases
  <2>. HIDE DEF t
  <2>4. errand' \in ErrandRecords /\ errand'.pc = "next" /\ errand'.verdict = errand.verdict
    BY <1>00, <2>3, ErrandFields, FormShape
  <2>5. goal' = goal /\ state' \in GoalRecords /\ state'.goal = state.goal /\ state'.status # "active"
    BY <1>8, CancelShape DEF FoundOnTheWay, ErrandInv
  <2>6. EndsGoal
    BY <2>1, <2>4, <2>5 DEF EndsGoal, ErrandInv, OwnGoalInv
  <2>. QED BY <2>1, <2>4, <2>6 DEF ErrandMoves
<1>9. CASE SpatialTerminal
  <2>1. errand.pc = "wait" /\ Terminal /\ UNCHANGED <<client, desk, service>>
    BY <1>9, RunsPlaces DEF SpatialTerminal, SpatialWaits
  <2>2. CASE ReturnsNow("leg_failed")
    BY <1>0, <2>1, <2>2, ReturnsNowMoves
  <2>3. ASSUME NEW e \in Arrived, Becomes(e) PROVE ErrandMoves
    <3>1. \/ e = [errand EXCEPT !.pc = "glance"]
          \/ e = [errand EXCEPT !.pc = "next", !.steps = 0]
          \/ e = [errand EXCEPT !.pc = "next", !.phase = "turn", !.steps = MaxLegs]
          \/ e = [errand EXCEPT !.pc = "next"]
          \/ e = [errand EXCEPT !.pc = "next", !.steps = @ + 1]
      BY <2>3 DEF Arrived, OnTheWay, OneMorePiece
    <3>2. CASE e = [errand EXCEPT !.pc = "glance"]
      <4>1. errand' = [errand EXCEPT !.pc = "glance"] /\ UNCHANGED <<state, goal>>
        BY <2>3, <3>2 DEF Becomes
      <4>2. errand' = Form("glance", errand.phase, errand.left, errand.steps, errand.reached, errand.idle, errand.late)
        BY <1>00, <4>1 DEF ErrandRecords, Form
      <4>. QED BY <1>00, <2>1, <4>1, <4>2, ErrandFields, BecomesMoves DEF Places, Phases
    <3>3. CASE e = [errand EXCEPT !.pc = "next", !.steps = 0]
      <4>. DEFINE s == 0
      <4>1. s \in Int
        BY <1>00, ErrandFields
      <4>2. errand' = [errand EXCEPT !.pc = "next", !.steps = s] /\ UNCHANGED <<state, goal>>
        BY <2>3, <3>3 DEF Becomes
      <4>. HIDE DEF s
      <4>3. errand' = Form("next", errand.phase, errand.left, s, errand.reached, errand.idle, errand.late)
        BY <1>00, <4>2 DEF ErrandRecords, Form
      <4>. QED BY <1>00, <2>1, <4>1, <4>2, <4>3, ErrandFields, BecomesMoves DEF Places, Phases
    <3>4. CASE e = [errand EXCEPT !.pc = "next", !.phase = "turn", !.steps = MaxLegs]
      <4>. DEFINE s == MaxLegs
      <4>1. s \in Int
        BY ErrandAssumption
      <4>2. errand' = [errand EXCEPT !.pc = "next", !.phase = "turn", !.steps = s] /\ UNCHANGED <<state, goal>>
        BY <2>3, <3>4 DEF Becomes
      <4>. HIDE DEF s
      <4>3. errand' = Form("next", "turn", errand.left, s, errand.reached, errand.idle, errand.late)
        BY <1>00, <4>2 DEF ErrandRecords, Form
      <4>. QED BY <1>00, <2>1, <4>1, <4>2, <4>3, ErrandFields, BecomesMoves DEF Places, Phases
    <3>5. CASE e = [errand EXCEPT !.pc = "next", !.steps = @ + 1]
      <4>. DEFINE s == errand.steps + 1
      <4>1. s \in Int
        BY <1>00, ErrandFields
      <4>2. errand' = [errand EXCEPT !.pc = "next", !.steps = s] /\ UNCHANGED <<state, goal>>
        BY <2>3, <3>5 DEF Becomes
      <4>. HIDE DEF s
      <4>3. errand' = Form("next", errand.phase, errand.left, s, errand.reached, errand.idle, errand.late)
        BY <1>00, <4>2 DEF ErrandRecords, Form
      <4>. QED BY <1>00, <2>1, <4>1, <4>2, <4>3, ErrandFields, BecomesMoves DEF Places, Phases
    <3>6. CASE e = [errand EXCEPT !.pc = "next"]
      <4>1. errand' = [errand EXCEPT !.pc = "next"] /\ UNCHANGED <<state, goal>>
        BY <2>3, <3>6 DEF Becomes
      <4>2. errand' = Form("next", errand.phase, errand.left, errand.steps, errand.reached, errand.idle, errand.late)
        BY <1>00, <4>1 DEF ErrandRecords, Form
      <4>. QED BY <1>00, <2>1, <4>1, <4>2, ErrandFields, BecomesMoves DEF Places, Phases
    <3>. QED BY <3>1, <3>2, <3>3, <3>4, <3>5, <3>6
  <2>. QED BY <1>9, <2>2, <2>3 DEF SpatialTerminal
<1>10. CASE SpatialTimesOut
  <2>1. errand.pc = "wait" /\ UNCHANGED <<client, desk, service>>
    BY <1>10, RunsPlaces DEF SpatialTimesOut, SpatialWaits
  <2>2. errand' \in ErrandRecords /\ errand'.pc = "done" /\ errand'.verdict = "timed_out"
    BY <1>0, <1>00, <1>10, ReturnsShape DEF SpatialTimesOut
  <2>3. goal' = goal /\ state' \in GoalRecords /\ state'.goal = state.goal /\ state'.status # "active"
    BY <1>10, CancelShape DEF SpatialTimesOut, ErrandInv
  <2>. QED BY <2>1, <2>2, <2>3 DEF ErrandMoves, EndsGoal
<1>. QED BY <1>1, <1>2, <1>3, <1>4, <1>5, <1>6, <1>7, <1>8, <1>9, <1>10

\* Every step keeps the invariant.
LEMMA ErrandNextInv ==
  ASSUME ErrandInv, [ErrandNext]_errandVars
  PROVE  ErrandInv'
<1>0. errand \in ErrandRecords /\ state \in GoalRecords /\ goal \in 0..3 /\ state.goal \in 0..3
  BY DEF ErrandInv, GoalRecords, OwnGoalInv
<1>1. CASE Act
  <2>1. ErrandMoves
    BY <1>1, ControllersMove, SearchesMove DEF Act
  <2>2. ServiceInv'
    BY <2>1 DEF ErrandMoves, ErrandInv, ServiceInv
  <2>3. CASE GoesOn
    <3>1. Terminal => ~Goals!Active
      BY ErrandAssumption DEF Terminal, Goals!Active
    <3>2. OwnGoalInv'
      BY <2>3, <2>1, <3>1 DEF GoesOn, ErrandInv, ErrandMoves, OwnGoalInv, Goals!Active,
         Excused
    <3>. QED BY <2>1, <2>2, <2>3, <3>2 DEF ErrandInv, ErrandMoves, GoesOn
  <2>4. CASE SetsGoal
    <3>1. state' \in GoalRecords /\ goal' \in 0..3
      BY <1>0, <2>4, NewIdShape DEF SetsGoal, Goals!Begin, GoalRecords
    <3>2. OwnGoalInv'
      BY <1>0, <2>4, <2>1, <3>1 DEF SetsGoal, ErrandInv, ErrandMoves, OwnGoalInv
    <3>. QED BY <2>1, <2>2, <3>1, <3>2 DEF ErrandInv, ErrandMoves
  <2>5. CASE EndsGoal
    <3>1. OwnGoalInv'
      BY <2>5 DEF EndsGoal, ErrandInv, OwnGoalInv, Goals!Active
    <3>. QED BY <2>1, <2>2, <2>5, <3>1 DEF ErrandInv, ErrandMoves, EndsGoal
  <2>. QED BY <2>1, <2>3, <2>4, <2>5 DEF ErrandMoves
<1>2. CASE DeadlinePasses
  <2>1. errand' = [errand EXCEPT !.late = TRUE] /\ UNCHANGED <<state, goal, service>>
    BY <1>2 DEF DeadlinePasses, Becomes, SpatialWaits, Runs
  <2>. DEFINE t == TRUE
  <2>2. errand' = Form(errand.pc, errand.phase, errand.left, errand.steps, errand.reached, errand.idle, t)
    BY <1>0, <2>1 DEF ErrandRecords, Form
  <2>. t \in BOOLEAN
    OBVIOUS
  <2>. HIDE DEF t
  <2>3. errand' \in ErrandRecords /\ errand'.pc = errand.pc /\ errand'.verdict = errand.verdict
    BY <1>0, <2>2, ErrandFields, FormShape
  <2>4. errand'.kind = errand.kind
    BY <2>2 DEF Form
  <2>. QED BY <2>1, <2>3, <2>4 DEF ErrandInv, OwnGoalInv, ServiceInv, Goals!Active, Excused
<1>3. CASE GoalEnds \/ OtherEnds
  <2>1. /\ UNCHANGED <<errand, goal, service>>
        /\ state' \in GoalRecords /\ state'.goal = state.goal /\ state'.status # "active"
    BY <1>0, <1>3, ErrandAssumption DEF GoalEnds, OtherEnds, Goals!End, GoalRecords
  <2>. QED BY <2>1 DEF ErrandInv, OwnGoalInv, ServiceInv, Goals!Active
<1>4. CASE SensorsReturn
  <2>1. /\ UNCHANGED <<errand, goal, service>>
        /\ state' \in GoalRecords /\ state'.goal = state.goal /\ state'.status = "idle"
    BY <1>0, <1>4 DEF SensorsReturn, Goals!Recover, GoalRecords
  <2>. QED BY <2>1 DEF ErrandInv, OwnGoalInv, ServiceInv, Goals!Active
<1>5. CASE DeskSets
  <2>1. /\ UNCHANGED <<errand, goal, service>> /\ service = "up"
        /\ state' \in GoalRecords /\ state'.goal # goal
    BY <1>0, <1>5, NewIdShape DEF DeskSets, Goals!Begin, GoalRecords
  <2>. QED BY <1>0, <2>1 DEF ErrandInv, OwnGoalInv, ServiceInv
<1>6. CASE StopAsked
  BY <1>6 DEF StopAsked, ErrandInv, OwnGoalInv, ServiceInv, Goals!Active
<1>7. CASE RunnerEnds
  <2>1. UNCHANGED <<state, goal>> /\ service' = "cancelling"
    BY <1>7 DEF RunnerEnds
  <2>2. "cancelled_by_stop" \in Verdicts
    BY DEF Verdicts
  <2>3. /\ errand' \in ErrandRecords /\ errand'.pc = "done"
        /\ errand' = errand \/ errand'.verdict = "cancelled_by_stop"
    BY <1>0, <1>7, <2>2, ReturnsShape DEF RunnerEnds
  <2>. QED BY <2>1, <2>3 DEF ErrandInv, OwnGoalInv, ServiceInv, Goals!Active, Excused
<1>8. CASE GoalCancelled
  <2>1. /\ UNCHANGED <<errand, goal>> /\ service = "cancelling"
        /\ state' \in GoalRecords /\ state'.goal = state.goal /\ state'.status # "active"
    BY <1>0, <1>8, CancelShape DEF GoalCancelled
  <2>. QED BY <2>1 DEF ErrandInv, OwnGoalInv, ServiceInv, Goals!Active
<1>9. CASE UNCHANGED errandVars
  BY <1>9 DEF errandVars, ErrandInv, OwnGoalInv, ServiceInv, Goals!Active
<1>. QED BY <1>1, <1>2, <1>3, <1>4, <1>5, <1>6, <1>7, <1>8, <1>9 DEF ErrandNext

\* An errand begins without a goal.
LEMMA ErrandInitInv == ErrandInit => ErrandInv
<1>. SUFFICES ASSUME ErrandInit PROVE ErrandInv
  OBVIOUS
<1>1. PICK kind \in Kinds, n \in 0..MaxLegs :
        errand = [kind |-> kind, pc |-> IF kind = "terrain_explore" THEN "plan" ELSE "next",
                  phase |-> "travel", left |-> n,
                  steps |-> IF kind = "terrain" THEN n ELSE 0, reached |-> 0, idle |-> 0, late |-> FALSE,
                  verdict |-> "running"]
  BY DEF ErrandInit
<1>. Kinds \subseteq AllKinds
  <2>1. CASE client = "native"
    BY <2>1 DEF Kinds, AllKinds
  <2>2. CASE client = "mapped"
    BY <2>2 DEF Kinds, AllKinds, NativeKinds, SpatialKinds
  <2>3. CASE client \notin {"native", "mapped"}
    BY <2>3 DEF Kinds, AllKinds
  <2>. QED BY <2>1, <2>2, <2>3
<1>2. errand \in ErrandRecords /\ errand.pc # "done" /\ errand.verdict = "running"
  <2>1. n \in Int /\ 0 \in Int
    OBVIOUS
  <2>2. "next" \in Places /\ "plan" \in Places /\ "travel" \in Phases /\ "running" \in Verdicts
    BY DEF Places, Phases, Verdicts
  <2>. QED BY <1>1, <2>1, <2>2 DEF ErrandRecords
<1>3. state \in GoalRecords /\ state.goal = 0 /\ state.status = "idle" /\ goal = 0 /\ service = "up"
  BY DEF ErrandInit, Goals!Init, GoalRecords
<1>. QED BY <1>2, <1>3 DEF ErrandInv, OwnGoalInv, ServiceInv, Goals!Active

-----------------------------------------------------------------------------
(* Exploration.                                                            *)

Fronts == {"far", "near", "boxed", "none", "unread"}
LegMoves == {"none", "scan", "turn", "nudge", "retreat", "vlm_hold", "ahead", "back", "aside", "yaw"}

\* A state turns with the robot, so that it is no further turned than it is old.
SensorInv ==
  /\ sensor \in [age: 0..(MaxAge + 1), turned: 0..(MaxAge + 1)]
  /\ sensor.turned <= sensor.age

\* What explore decides on was polled, and the robot has not turned since.
BeliefInv ==
  /\ belief \in [front: Fronts, turned: Nat]
  /\ pc = "decide" => belief.turned <= MaxAge + 1
  /\ pc = "drive" /\ leg.move = "nudge" => belief.front = "far" /\ belief.turned <= MaxAge + 1

ExploreInv == SensorInv /\ BeliefInv /\ leg \in [move: LegMoves, left: Nat]

\* A polled reading is no older than the state it comes from.
LEMMA PollShape ==
  ASSUME ExploreInv, Poll
  PROVE  belief' \in [front: Fronts, turned: Nat] /\ belief'.turned <= MaxAge + 1
<1>1. MaxAge \in Nat /\ sensor.turned \in 0..(MaxAge + 1)
  BY ExplorationAssumption DEF ExploreInv, SensorInv
<1>2. CASE belief' = Unread
  BY <1>1, <1>2 DEF Unread, Fronts
<1>3. ASSUME NEW f \in {"far", "near", "boxed", "none"}, belief' = [front |-> f, turned |-> sensor.turned]
      PROVE  belief' \in [front: Fronts, turned: Nat] /\ belief'.turned <= MaxAge + 1
  BY <1>1, <1>3 DEF Fronts
<1>. QED BY <1>2, <1>3 DEF Poll, Readings

\* The state ages, but not beyond what is told apart.
LEMMA AgeShape == ASSUME SensorInv, SensorsAge PROVE SensorInv'
<1>1. MaxAge \in Nat /\ sensor \in [age: 0..(MaxAge + 1), turned: 0..(MaxAge + 1)]
  BY ExplorationAssumption DEF SensorInv
<1>2. CASE sensor' = [age |-> 0, turned |-> 0]
  BY <1>1, <1>2 DEF SensorInv
<1>3. CASE sensor' = [sensor EXCEPT !.age = IF @ > MaxAge THEN @ ELSE @ + 1]
  BY <1>1, <1>3 DEF SensorInv
<1>. QED BY <1>2, <1>3 DEF SensorsAge

\* What is driven next.
LEMMA DriveShape ==
  ASSUME NEW move \in LegMoves, NEW n \in Nat, Drive(move, n)
  PROVE  leg' \in [move: LegMoves, left: Nat] /\ leg'.move = move /\ pc' = "drive"
BY DEF Drive

\* An end, and a hold, drive nothing.
LEMMA StopShape ==
  ASSUME NEW reason, Stop(reason)
  PROVE  leg' \in [move: LegMoves, left: Nat] /\ pc' = "done"
BY DEF Stop, NoLeg, LegMoves

\* Every step of explore and of the moves keeps the readings and the belief.
LEMMA ExploreNextInv ==
  ASSUME ExploreInv, [ExploreNext]_exploreVars
  PROVE  ExploreInv'
<1>. USE ExplorationAssumption
<1>0. /\ TurnSegments \in Nat /\ MoveSegments \in Nat /\ MaxAge \in Nat
      /\ {"none", "scan", "turn", "nudge", "retreat", "vlm_hold", "ahead", "back", "aside", "yaw"} \subseteq LegMoves
  BY DEF LegMoves
<1>1. ASSUME pc' \notin {"decide", "drive"}, SensorInv', belief' \in [front: Fronts, turned: Nat],
             leg' \in [move: LegMoves, left: Nat]
      PROVE  ExploreInv'
  BY <1>1 DEF ExploreInv, BeliefInv
<1>2. ASSUME UNCHANGED sensor PROVE SensorInv'
  BY <1>2 DEF ExploreInv, SensorInv
<1>3. CASE StepRefused
  <2>1. PICK reason : StepEnds(reason)
    BY <1>3 DEF StepRefused
  <2>. QED BY <1>1, <1>2, <2>1, PollShape, StopShape DEF StepEnds
<1>4. CASE LoopEnds
  BY <1>1, <1>2, <1>4, StopShape DEF LoopEnds, ExploreInv, BeliefInv
<1>5. CASE StepScans
  <2>1. leg' \in [move: LegMoves, left: Nat] /\ leg'.move = "scan"
    BY <1>0, <1>5, DriveShape DEF StepScans
  <2>2. pc' = "drive" /\ UNCHANGED sensor /\ Poll
    BY <1>5 DEF StepScans, Drive
  <2>. QED BY <1>2, <2>1, <2>2, PollShape DEF ExploreInv, BeliefInv
<1>6. CASE Look
  <2>1. pc' = "decide" /\ UNCHANGED <<sensor, leg>> /\ Poll
    BY <1>6 DEF Look
  <2>. QED BY <1>2, <2>1, PollShape DEF ExploreInv, BeliefInv
<1>7. CASE Decide
  <2>1. SensorInv' /\ UNCHANGED belief /\ pc = "decide"
    BY <1>7, AgeShape DEF Decide, ExploreInv
  <2>2. CASE ~IsObstacleFront(belief) /\ Drive("nudge", MoveSegments)
    <3>1. leg' \in [move: LegMoves, left: Nat] /\ leg'.move = "nudge" /\ pc' = "drive"
      BY <1>0, <2>2, DriveShape
    <3>. QED BY <2>1, <2>2, <3>1 DEF ExploreInv, BeliefInv, IsObstacleFront
  <2>3. CASE Chooses("vlm_hold")
    BY <1>0, <1>1, <2>1, <2>3 DEF Chooses, ExploreInv, BeliefInv
  <2>4. CASE Stop("blocked")
    BY <1>1, <2>1, <2>4, StopShape DEF ExploreInv, BeliefInv
  <2>5. CASE Drive("turn", TurnSegments)
    <3>1. leg' \in [move: LegMoves, left: Nat] /\ leg'.move = "turn" /\ pc' = "drive"
      BY <1>0, <2>5, DriveShape
    <3>. QED BY <2>1, <3>1 DEF ExploreInv, BeliefInv
  <2>. QED BY <1>7, <2>2, <2>3, <2>4, <2>5 DEF Decide
<1>8. CASE Redecide
  <2>1. SensorInv' /\ belief' \in [front: Fronts, turned: Nat] /\ belief'.turned <= MaxAge + 1
    BY <1>2, <1>8, PollShape DEF Redecide
  <2>2. CASE Drive("retreat", MoveSegments)
    <3>1. leg' \in [move: LegMoves, left: Nat] /\ leg'.move = "retreat" /\ pc' = "drive"
      BY <1>0, <2>2, DriveShape
    <3>. QED BY <2>1, <3>1 DEF ExploreInv, BeliefInv
  <2>3. CASE ~IsObstacleFront(belief') /\ Drive("nudge", MoveSegments)
    <3>1. leg' \in [move: LegMoves, left: Nat] /\ leg'.move = "nudge" /\ pc' = "drive"
      BY <1>0, <2>3, DriveShape
    <3>. QED BY <2>1, <2>3, <3>1 DEF ExploreInv, BeliefInv, IsObstacleFront
  <2>4. CASE Chooses("vlm_hold")
    BY <1>0, <1>1, <2>1, <2>4 DEF Chooses
  <2>. QED BY <1>8, <2>2, <2>3, <2>4 DEF Redecide
<1>9. CASE Review
  <2>1. SensorInv' /\ belief' = Unread /\ leg' = NoLeg /\ pc' \in {"poll", "done"}
    BY <1>2, <1>9 DEF Review, Stop
  <2>2. Unread \in [front: Fronts, turned: Nat] /\ NoLeg \in [move: LegMoves, left: Nat]
    BY DEF Unread, Fronts, NoLeg, LegMoves
  <2>. QED BY <1>1, <2>1, <2>2
<1>10. CASE Segment
  <2>1. SensorInv'
    <3>1. sensor \in [age: 0..(MaxAge + 1), turned: 0..(MaxAge + 1)] /\ sensor.turned <= sensor.age
          /\ sensor.age <= MaxAge
      BY <1>10 DEF ExploreInv, SensorInv, Segment, Gate
    <3>2. CASE sensor' = [age |-> 0, turned |-> 0]
      BY <1>0, <3>2 DEF SensorInv
    <3>3. CASE sensor' = [Turned(sensor) EXCEPT !.age = @ + 1]
      <4>1. PICK n \in {sensor.turned, sensor.turned + 1} : sensor' = [age |-> sensor.age + 1, turned |-> n]
        BY <3>1, <3>3 DEF Turned
      <4>2. sensor.age + 1 \in 0..(MaxAge + 1) /\ n \in 0..(MaxAge + 1) /\ n <= sensor.age + 1
        BY <1>0, <3>1
      <4>. QED BY <4>1, <4>2 DEF SensorInv
    <3>. QED BY <1>10, <3>2, <3>3 DEF Segment
  <2>2. /\ belief' \in [front: Fronts, turned: Nat]
        /\ leg.move = "nudge" => belief' = belief
    BY <1>10 DEF Segment, Turned, Turns, ExploreInv, BeliefInv
  <2>3. leg' \in [move: LegMoves, left: Nat] /\ leg'.move = leg.move
    <3>1. leg \in [move: LegMoves, left: Nat]
      BY DEF ExploreInv
    <3>. QED BY <1>10, <3>1 DEF Segment
  <2>4. pc' = pc \/ pc' \in {"look", "relook", "review"}
    BY <1>10 DEF Segment, GoOn
  <2>. QED BY <1>10, <2>1, <2>2, <2>3, <2>4 DEF ExploreInv, BeliefInv, Segment
<1>11. CASE SegmentFails
  BY <1>1, <1>2, <1>11, StopShape DEF SegmentFails, ExploreInv, BeliefInv
<1>12. CASE MockDrive
  <2>1. belief' \in [front: Fronts, turned: Nat]
    BY <1>12 DEF MockDrive, Turned, ExploreInv, BeliefInv
  <2>2. leg' \in [move: LegMoves, left: Nat] /\ pc' \in {"look", "relook", "review"}
    BY <1>12 DEF MockDrive, GoOn, ExploreInv
  <2>. QED BY <1>1, <1>2, <1>12, <2>1, <2>2 DEF MockDrive
<1>13. CASE Rejected
  BY <1>1, <1>2, <1>13, StopShape DEF Rejected, ExploreInv, BeliefInv
<1>14. ASSUME NEW move \in LegMoves \ {"nudge"}, NEW n \in Nat, Drive(move, n), UNCHANGED sensor,
              UNCHANGED belief \/ Poll
       PROVE  ExploreInv'
  <2>1. leg' \in [move: LegMoves, left: Nat] /\ leg'.move = move /\ pc' = "drive"
    BY <1>14, DriveShape
  <2>2. belief' \in [front: Fronts, turned: Nat]
    BY <1>14, PollShape DEF ExploreInv, BeliefInv
  <2>. QED BY <1>2, <1>14, <2>1, <2>2 DEF ExploreInv, BeliefInv
<1>15. CASE Nudge
  BY <1>0, <1>14, <1>15 DEF Nudge, Begins
<1>16. CASE Scan
  BY <1>0, <1>14, <1>16 DEF Scan, Begins
<1>17. CASE Retreat
  BY <1>0, <1>14, <1>17 DEF Retreat, Begins
<1>18. CASE LocalNavBlocked
  BY <1>1, <1>2, <1>18, StopShape DEF LocalNavBlocked, ExploreInv, BeliefInv
<1>19. CASE LocalNav
  BY <1>0, <1>14, <1>19 DEF LocalNav, Begins
<1>20. CASE LocalNavTurns
  BY <1>0, <1>14, <1>20 DEF LocalNavTurns
<1>21. CASE Completed
  <2>1. belief' \in [front: Fronts, turned: Nat]
    BY <1>21, PollShape DEF Completed, ExploreInv, BeliefInv
  <2>2. UNCHANGED sensor /\ Stop("completed")
    BY <1>21 DEF Completed
  <2>. QED BY <1>1, <1>2, <2>1, <2>2, StopShape
<1>22. CASE UNCHANGED exploreVars
  BY <1>22 DEF exploreVars, ExploreInv, SensorInv, BeliefInv
<1>. QED
  BY <1>3, <1>4, <1>5, <1>6, <1>7, <1>8, <1>9, <1>10, <1>11, <1>12, <1>13, <1>15, <1>16,
     <1>17, <1>18,
     <1>19, <1>20, <1>21, <1>22 DEF ExploreNext

\* A skill starts where it stands, and has seen nothing.
LEMMA ExploreInitInv == ExploreInit => ExploreInv
BY ExplorationAssumption
   DEF ExploreInit, ExploreInv, SensorInv, BeliefInv, NoLeg, Unread, Fronts, LegMoves

-----------------------------------------------------------------------------
(* The guard against aimless exploring.                                    *)

StepRecords == [action: LegMoves, alt: {"none", "left", "right"}, progress: BOOLEAN]
GuardRecords == [noProgress: Nat, holds: Nat, alts: Seq({"left", "right"})]

TurnsOf(steps) == {i \in DOMAIN steps : steps[i].alt # "none"}
UpTo(steps, i) == {j \in TurnsOf(steps) : j <= i}
Rank(steps, i) == Cardinality(UpTo(steps, i))

\* The counters of the guard, said of the steps it has seen: each is as long as the run of
\* steps of its kind at the end, and the directions are those of the turns, in their order.
NoProgressCounts(steps, g) ==
  /\ g.noProgress <= Len(steps)
  /\ \A i \in Len(steps) - g.noProgress + 1 .. Len(steps) : ~steps[i].progress
  /\ g.noProgress < Len(steps) => steps[Len(steps) - g.noProgress].progress
HoldsCount(steps, g) ==
  /\ g.holds <= Len(steps)
  /\ \A i \in Len(steps) - g.holds + 1 .. Len(steps) : steps[i].action = "vlm_hold"
  /\ g.holds < Len(steps) => steps[Len(steps) - g.holds].action # "vlm_hold"
TurnsCount(steps, g) ==
  /\ Len(g.alts) = Cardinality(TurnsOf(steps))
  /\ \A i \in TurnsOf(steps) : g.alts[Rank(steps, i)] = steps[i].alt
  /\ \A r \in 1..Len(g.alts) : \E i \in TurnsOf(steps) : Rank(steps, i) = r
Counted(steps, g) == NoProgressCounts(steps, g) /\ HoldsCount(steps, g) /\ TurnsCount(steps, g)

GuardOutcomes == {"semantic_hold", "no_progress", "ping_pong"}

GuardInv ==
  /\ leg.move \in LegMoves /\ alt \in {"none", "left", "right"}
  /\ hint \in Hints
  /\ trace \in Seq(StepRecords) /\ guard \in GuardRecords
  /\ Counted(trace, guard)
  /\ outcome \in GuardOutcomes <=> Verdict(guard) # "running"
  /\ outcome \in GuardOutcomes => pc = "done"

\* The turns among the steps are a finite set, and so is every part of it.
LEMMA TurnsAreFinite ==
  ASSUME NEW steps \in Seq(StepRecords)
  PROVE  /\ IsFiniteSet(TurnsOf(steps)) /\ Cardinality(TurnsOf(steps)) \in Nat
         /\ \A T \in SUBSET TurnsOf(steps) : IsFiniteSet(T) /\ Cardinality(T) \in Nat
<1>1. IsFiniteSet(1..Len(steps))
  BY FS_Interval
<1>2. TurnsOf(steps) \in SUBSET (1..Len(steps))
  BY DEF TurnsOf
<1>3. IsFiniteSet(TurnsOf(steps))
  BY <1>1, <1>2, FS_Subset
<1>4. ASSUME NEW T \in SUBSET TurnsOf(steps) PROVE IsFiniteSet(T) /\ Cardinality(T) \in Nat
  BY <1>3, FS_Subset, FS_CardinalityType
<1>. QED BY <1>3, <1>4, FS_CardinalityType

\* The rank of a turn: how many turns there are up to it.  Ranks grow along the turns, by one
\* from a turn to the next, and those that follow a turn are the rest.
LEMMA RankBounds ==
  ASSUME NEW steps \in Seq(StepRecords), NEW i \in TurnsOf(steps)
  PROVE  Rank(steps, i) \in 1..Cardinality(TurnsOf(steps))
<1>1. /\ UpTo(steps, i) \in SUBSET TurnsOf(steps) /\ i \in UpTo(steps, i)
      /\ IsFiniteSet(TurnsOf(steps)) /\ IsFiniteSet(UpTo(steps, i)) /\ Cardinality(TurnsOf(steps)) \in Nat
      /\ Cardinality(UpTo(steps, i)) \in Nat
  BY TurnsAreFinite DEF UpTo, TurnsOf
<1>2. Cardinality(UpTo(steps, i)) <= Cardinality(TurnsOf(steps))
  BY <1>1, FS_Subset
<1>3. Cardinality(UpTo(steps, i)) # 0
  BY <1>1, FS_EmptySet
<1>. QED BY <1>1, <1>2, <1>3 DEF Rank

LEMMA RankGrows ==
  ASSUME NEW steps \in Seq(StepRecords), NEW i \in TurnsOf(steps), NEW j \in TurnsOf(steps), i < j
  PROVE  Rank(steps, i) < Rank(steps, j)
<1>0. i \in Nat /\ j \in Nat
  BY DEF TurnsOf
<1>1. /\ UpTo(steps, i) \in SUBSET UpTo(steps, j) /\ UpTo(steps, j) \in SUBSET TurnsOf(steps)
      /\ j \in UpTo(steps, j) /\ j \notin UpTo(steps, i)
      /\ \A k \in TurnsOf(steps) : k \in Nat
  BY <1>0 DEF UpTo, TurnsOf
<1>2. IsFiniteSet(UpTo(steps, j)) /\ Cardinality(UpTo(steps, j)) \in Nat
      /\ IsFiniteSet(UpTo(steps, i)) /\ Cardinality(UpTo(steps, i)) \in Nat
  BY <1>1, TurnsAreFinite
<1>3. /\ Cardinality(UpTo(steps, i)) <= Cardinality(UpTo(steps, j))
      /\ Cardinality(UpTo(steps, j)) = Cardinality(UpTo(steps, i)) => UpTo(steps, j) = UpTo(steps, i)
  BY <1>1, <1>2, FS_Subset
<1>. QED BY <1>1, <1>2, <1>3 DEF Rank

LEMMA NextRank ==
  ASSUME NEW steps \in Seq(StepRecords), NEW i \in TurnsOf(steps), NEW j \in TurnsOf(steps), i < j,
         \A k \in TurnsOf(steps) : k <= i \/ j <= k
  PROVE  Rank(steps, j) = Rank(steps, i) + 1
<1>0. \A k \in TurnsOf(steps) : k \in Nat
  BY DEF TurnsOf
<1>1. UpTo(steps, j) = UpTo(steps, i) \union {j} /\ j \notin UpTo(steps, i)
  BY <1>0 DEF UpTo
<1>2. IsFiniteSet(UpTo(steps, i))
  BY TurnsAreFinite DEF UpTo
<1>. QED BY <1>1, <1>2, FS_AddElement DEF Rank

LEMMA RankFromTheEnd ==
  ASSUME NEW steps \in Seq(StepRecords), NEW i \in TurnsOf(steps)
  PROVE  Cardinality({j \in TurnsOf(steps) : j >= i}) = Cardinality(TurnsOf(steps)) - Rank(steps, i) + 1
<1>. DEFINE since == {j \in TurnsOf(steps) : j >= i}
<1>0. \A k \in TurnsOf(steps) : k \in Nat
  BY DEF TurnsOf
<1>1. /\ UpTo(steps, i) \union since = TurnsOf(steps) /\ UpTo(steps, i) \intersect since = {i}
      /\ UpTo(steps, i) \in SUBSET TurnsOf(steps) /\ since \in SUBSET TurnsOf(steps)
  BY <1>0 DEF UpTo
<1>. HIDE DEF since
<1>2. /\ IsFiniteSet(UpTo(steps, i)) /\ IsFiniteSet(since)
      /\ Cardinality(UpTo(steps, i)) \in Nat /\ Cardinality(since) \in Nat
  BY <1>1, TurnsAreFinite
<1>3. Cardinality(TurnsOf(steps)) = Cardinality(UpTo(steps, i)) + Cardinality(since) - Cardinality({i})
  BY <1>1, <1>2, FS_Union
<1>4. Cardinality({i}) = 1
  BY FS_Singleton
<1>. QED BY <1>2, <1>3, <1>4 DEF Rank, since

\* One more step without an alternative turn leaves the turns as they were.
LEMMA TurnsKept ==
  ASSUME NEW steps \in Seq(StepRecords), NEW s \in StepRecords, s.alt = "none"
  PROVE  /\ TurnsOf(Append(steps, s)) = TurnsOf(steps)
         /\ \A i \in TurnsOf(steps) : /\ Rank(Append(steps, s), i) = Rank(steps, i)
                                     /\ Append(steps, s)[i] = steps[i]
<1>1. /\ DOMAIN Append(steps, s) = 1..(Len(steps) + 1) /\ DOMAIN steps = 1..Len(steps)
      /\ \A i \in 1..Len(steps) : Append(steps, s)[i] = steps[i]
      /\ Append(steps, s)[Len(steps) + 1] = s
  OBVIOUS
<1>2. TurnsOf(Append(steps, s)) = TurnsOf(steps)
  BY <1>1 DEF TurnsOf
<1>3. \A i \in TurnsOf(steps) : UpTo(Append(steps, s), i) = UpTo(steps, i)
  BY <1>2 DEF UpTo
<1>4. \A i \in TurnsOf(steps) : i \in 1..Len(steps)
  BY <1>1 DEF TurnsOf
<1>. QED BY <1>1, <1>2, <1>3, <1>4 DEF Rank

\* One more step with an alternative turn is the last turn, and leaves the others in their order.
LEMMA TurnAdded ==
  ASSUME NEW steps \in Seq(StepRecords), NEW s \in StepRecords, s.alt # "none"
  PROVE  /\ TurnsOf(Append(steps, s)) = TurnsOf(steps) \union {Len(steps) + 1}
         /\ \A i \in TurnsOf(steps) : /\ Rank(Append(steps, s), i) = Rank(steps, i)
                                     /\ Append(steps, s)[i] = steps[i]
         /\ Rank(Append(steps, s), Len(steps) + 1) = Cardinality(TurnsOf(steps)) + 1
         /\ Cardinality(TurnsOf(Append(steps, s))) = Cardinality(TurnsOf(steps)) + 1
<1>1. /\ DOMAIN Append(steps, s) = 1..(Len(steps) + 1) /\ DOMAIN steps = 1..Len(steps)
      /\ \A i \in 1..Len(steps) : Append(steps, s)[i] = steps[i]
      /\ Append(steps, s)[Len(steps) + 1] = s
  OBVIOUS
<1>2. TurnsOf(Append(steps, s)) = TurnsOf(steps) \union {Len(steps) + 1}
  BY <1>1 DEF TurnsOf
<1>3. \A i \in TurnsOf(steps) : i \in 1..Len(steps)
  BY <1>1 DEF TurnsOf
<1>4. \A i \in TurnsOf(steps) : UpTo(Append(steps, s), i) = UpTo(steps, i)
  BY <1>2, <1>3 DEF UpTo
<1>5. UpTo(Append(steps, s), Len(steps) + 1) = TurnsOf(steps) \union {Len(steps) + 1}
  BY <1>2, <1>3 DEF UpTo
<1>6. Len(steps) + 1 \notin TurnsOf(steps)
  BY <1>3
<1>7. Cardinality(TurnsOf(steps) \union {Len(steps) + 1}) = Cardinality(TurnsOf(steps)) + 1
  BY <1>6, TurnsAreFinite, FS_AddElement
<1>. QED BY <1>1, <1>2, <1>3, <1>4, <1>5, <1>7 DEF Rank

\* The guard, updated with a step.
UpdatedWith(g, s) ==
  [noProgress |-> IF s.progress THEN 0 ELSE g.noProgress + 1,
   holds      |-> IF ~s.progress /\ s.action = "vlm_hold" THEN g.holds + 1 ELSE 0,
   alts       |-> IF s.alt = "none" THEN g.alts ELSE Append(g.alts, s.alt)]

\* The counters count on, whatever the step was.
LEMMA CountsOn ==
  ASSUME NEW steps \in Seq(StepRecords), NEW s \in StepRecords, s.action = "vlm_hold" => ~s.progress,
         NEW g \in GuardRecords, Counted(steps, g)
  PROVE  /\ Append(steps, s) \in Seq(StepRecords) /\ UpdatedWith(g, s) \in GuardRecords
         /\ Counted(Append(steps, s), UpdatedWith(g, s))
<1>. DEFINE more == Append(steps, s)
            h == UpdatedWith(g, s)
<1>1. /\ more \in Seq(StepRecords) /\ Len(more) = Len(steps) + 1 /\ more[Len(steps) + 1] = s
      /\ \A i \in 1..Len(steps) : more[i] = steps[i]
      /\ Len(steps) \in Nat /\ DOMAIN steps = 1..Len(steps)
  OBVIOUS
<1>2. /\ g.noProgress \in Nat /\ g.holds \in Nat /\ g.alts \in Seq({"left", "right"})
      /\ s.progress \in BOOLEAN /\ s.alt \in {"none", "left", "right"}
  BY DEF GuardRecords, StepRecords
<1>3. /\ h.noProgress = (IF s.progress THEN 0 ELSE g.noProgress + 1)
      /\ h.holds = (IF ~s.progress /\ s.action = "vlm_hold" THEN g.holds + 1 ELSE 0)
      /\ h.alts = (IF s.alt = "none" THEN g.alts ELSE Append(g.alts, s.alt))
  BY DEF UpdatedWith
<1>4. h \in GuardRecords
  <2>1. h.alts \in Seq({"left", "right"})
    BY <1>2, <1>3
  <2>. QED BY <1>2, <1>3, <2>1 DEF UpdatedWith, GuardRecords
<1>. HIDE DEF more, h
<1>5. NoProgressCounts(more, h)
  <2>1. NoProgressCounts(steps, g)
    BY DEF Counted
  <2>2. CASE s.progress
    BY <1>1, <1>3, <2>2 DEF NoProgressCounts
  <2>3. CASE ~s.progress
    <3>1. h.noProgress = g.noProgress + 1
      BY <1>3, <2>3
    <3>2. \A i \in Len(more) - h.noProgress + 1 .. Len(more) : ~more[i].progress
      <4>1. ASSUME NEW i \in Len(more) - h.noProgress + 1 .. Len(more) PROVE ~more[i].progress
        <5>1. CASE i = Len(steps) + 1
          BY <1>1, <2>3, <5>1
        <5>2. CASE i # Len(steps) + 1
          <6>1. i \in Len(steps) - g.noProgress + 1 .. Len(steps) /\ i \in 1..Len(steps)
            BY <1>1, <1>2, <2>1, <3>1, <5>2 DEF NoProgressCounts
          <6>. QED BY <1>1, <2>1, <6>1 DEF NoProgressCounts
        <5>. QED BY <5>1, <5>2
      <4>. QED BY <4>1
    <3>3. h.noProgress < Len(more) => more[Len(more) - h.noProgress].progress
      <4>. SUFFICES ASSUME h.noProgress < Len(more) PROVE more[Len(more) - h.noProgress].progress
        OBVIOUS
      <4>0. /\ Len(more) = Len(steps) + 1 /\ Len(steps) \in Nat /\ g.noProgress \in Nat
            /\ h.noProgress = g.noProgress + 1 /\ h.noProgress < Len(more)
        BY <1>1, <1>2, <3>1
      <4>1. Len(more) - h.noProgress = Len(steps) - g.noProgress /\ g.noProgress < Len(steps)
        BY <4>0
      <4>2. Len(steps) - g.noProgress \in 1..Len(steps)
        BY <1>1, <1>2, <4>1
      <4>3. steps[Len(steps) - g.noProgress].progress
        BY <2>1, <4>1 DEF NoProgressCounts
      <4>. QED BY <1>1, <4>1, <4>2, <4>3
    <3>. QED BY <1>1, <1>2, <2>1, <3>1, <3>2, <3>3 DEF NoProgressCounts
  <2>. QED BY <2>2, <2>3
<1>6. HoldsCount(more, h)
  <2>1. HoldsCount(steps, g)
    BY DEF Counted
  <2>2. CASE s.action # "vlm_hold"
    BY <1>1, <1>3, <2>2 DEF HoldsCount
  <2>3. CASE s.action = "vlm_hold"
    <3>1. h.holds = g.holds + 1
      BY <1>2, <1>3, <2>3
    <3>2. \A i \in Len(more) - h.holds + 1 .. Len(more) : more[i].action = "vlm_hold"
      <4>1. ASSUME NEW i \in Len(more) - h.holds + 1 .. Len(more) PROVE more[i].action = "vlm_hold"
        <5>1. CASE i = Len(steps) + 1
          BY <1>1, <2>3, <5>1
        <5>2. CASE i # Len(steps) + 1
          <6>1. i \in Len(steps) - g.holds + 1 .. Len(steps) /\ i \in 1..Len(steps)
            BY <1>1, <1>2, <2>1, <3>1, <5>2 DEF HoldsCount
          <6>. QED BY <1>1, <2>1, <6>1 DEF HoldsCount
        <5>. QED BY <5>1, <5>2
      <4>. QED BY <4>1
    <3>3. h.holds < Len(more) => more[Len(more) - h.holds].action # "vlm_hold"
      <4>. SUFFICES ASSUME h.holds < Len(more) PROVE more[Len(more) - h.holds].action # "vlm_hold"
        OBVIOUS
      <4>0. /\ Len(more) = Len(steps) + 1 /\ Len(steps) \in Nat /\ g.holds \in Nat
            /\ h.holds = g.holds + 1 /\ h.holds < Len(more)
        BY <1>1, <1>2, <3>1
      <4>1. Len(more) - h.holds = Len(steps) - g.holds /\ g.holds < Len(steps)
        BY <4>0
      <4>2. Len(steps) - g.holds \in 1..Len(steps)
        BY <1>1, <1>2, <4>1
      <4>3. steps[Len(steps) - g.holds].action # "vlm_hold"
        BY <2>1, <4>1 DEF HoldsCount
      <4>. QED BY <1>1, <4>1, <4>2, <4>3
    <3>. QED BY <1>1, <1>2, <2>1, <3>1, <3>2, <3>3 DEF HoldsCount
  <2>. QED BY <2>2, <2>3
<1>7. TurnsCount(more, h)
  <2>1. TurnsCount(steps, g)
    BY DEF Counted
  <2>2. CASE s.alt = "none"
    <3>1. /\ TurnsOf(more) = TurnsOf(steps) /\ h.alts = g.alts
          /\ \A i \in TurnsOf(steps) : Rank(more, i) = Rank(steps, i) /\ more[i] = steps[i]
      BY <1>3, <2>2, TurnsKept DEF more
    <3>. QED BY <2>1, <3>1 DEF TurnsCount
  <2>3. CASE s.alt # "none"
    <3>1. /\ TurnsOf(more) = TurnsOf(steps) \union {Len(steps) + 1}
          /\ \A i \in TurnsOf(steps) : Rank(more, i) = Rank(steps, i) /\ more[i] = steps[i]
          /\ Rank(more, Len(steps) + 1) = Cardinality(TurnsOf(steps)) + 1
          /\ Cardinality(TurnsOf(more)) = Cardinality(TurnsOf(steps)) + 1
      BY <2>3, TurnAdded DEF more
    <3>2. h.alts = Append(g.alts, s.alt)
      BY <1>3, <2>3
    <3>3. /\ Len(h.alts) = Len(g.alts) + 1 /\ Len(g.alts) \in Nat
          /\ \A r \in 1..Len(g.alts) : h.alts[r] = g.alts[r]
          /\ h.alts[Len(g.alts) + 1] = s.alt
      BY <1>2, <3>2
    <3>4. Len(h.alts) = Cardinality(TurnsOf(more))
      BY <2>1, <3>1, <3>3 DEF TurnsCount
    <3>5. \A i \in TurnsOf(steps) : Rank(steps, i) \in 1..Len(g.alts)
      BY <2>1, RankBounds DEF TurnsCount
    <3>6. \A i \in TurnsOf(more) : h.alts[Rank(more, i)] = more[i].alt
      BY <1>1, <2>1, <3>1, <3>3, <3>5 DEF TurnsCount
    <3>7. ASSUME NEW r \in 1..Len(h.alts) PROVE \E i \in TurnsOf(more) : Rank(more, i) = r
      <4>1. CASE r = Len(g.alts) + 1
        BY <2>1, <3>1, <4>1 DEF TurnsCount
      <4>2. CASE r # Len(g.alts) + 1
        <5>1. r \in 1..Len(g.alts)
          BY <3>3, <4>2
        <5>. QED BY <2>1, <3>1, <5>1 DEF TurnsCount
      <4>. QED BY <4>1, <4>2
    <3>. QED BY <3>4, <3>6, <3>7 DEF TurnsCount
  <2>. QED BY <2>2, <2>3
<1>. QED BY <1>1, <1>4, <1>5, <1>6, <1>7 DEF Counted, more, h

\* The directions alternate exactly when the turns they stand for do.
LEMMA TurnsAlternate ==
  ASSUME NEW steps \in Seq(StepRecords), NEW g \in GuardRecords, TurnsCount(steps, g)
  PROVE  IsPingPong(g.alts) <=>
           /\ Cardinality(TurnsOf(steps)) >= PingPong
           /\ \A i, j \in TurnsOf(steps) :
                (/\ i < j /\ Cardinality({k \in TurnsOf(steps) : k >= i}) <= PingPong
                 /\ \A k \in TurnsOf(steps) : k <= i \/ j <= k) => steps[i].alt # steps[j].alt
<1>. DEFINE alts == g.alts
            n == Len(g.alts)
            From(i) == Cardinality({k \in TurnsOf(steps) : k >= i})
            Next2(i, j) == i < j /\ (\A k \in TurnsOf(steps) : k <= i \/ j <= k)
<1>1. /\ alts \in Seq({"left", "right"}) /\ n \in Nat /\ n = Cardinality(TurnsOf(steps))
      /\ PingPong \in Nat \ {0}
      /\ \A i \in TurnsOf(steps) : i \in Nat
  BY ExplorationAssumption DEF GuardRecords, TurnsCount, TurnsOf
<1>2. IsPingPong(alts) <=> n >= PingPong /\ \A p \in n - PingPong + 2 .. n : alts[p] # alts[p - 1]
  <2>1. CASE n < PingPong
    BY <1>1, <2>1 DEF IsPingPong
  <2>2. CASE n >= PingPong
    <3>1. \A i \in 1..PingPong : Recent(alts, PingPong)[i] = alts[n - PingPong + i]
      BY <1>1, <2>2 DEF Recent
    <3>2. ASSUME NEW i \in 2..PingPong
          PROVE  /\ Recent(alts, PingPong)[i] = alts[n - PingPong + i]
                 /\ Recent(alts, PingPong)[i - 1] = alts[n - PingPong + i - 1]
                 /\ n - PingPong + i \in n - PingPong + 2 .. n
      <4>1. i \in 1..PingPong /\ i - 1 \in 1..PingPong /\ n - PingPong + (i - 1) = n - PingPong + i - 1
            /\ n - PingPong + i \in n - PingPong + 2 .. n
        BY <1>1, <2>2
      <4>. QED BY <3>1, <4>1
    <3>3. ASSUME NEW p \in n - PingPong + 2 .. n
          PROVE  \E i \in 2..PingPong : p = n - PingPong + i
      <4>1. p - n + PingPong \in 2..PingPong /\ p = n - PingPong + (p - n + PingPong)
        BY <1>1, <2>2
      <4>. QED BY <4>1
    <3>. HIDE DEF alts, n
    <3>4. ASSUME \A i \in 2..PingPong : Recent(alts, PingPong)[i] # Recent(alts, PingPong)[i - 1],
                 NEW p \in n - PingPong + 2 .. n
          PROVE  alts[p] # alts[p - 1]
      <4>1. PICK i \in 2..PingPong : p = n - PingPong + i
        BY <3>3
      <4>2. p - 1 = n - PingPong + i - 1
        BY <1>1, <4>1
      <4>. QED BY <3>2, <3>4, <4>1, <4>2
    <3>5. ASSUME \A p \in n - PingPong + 2 .. n : alts[p] # alts[p - 1],
                 NEW i \in 2..PingPong
          PROVE  Recent(alts, PingPong)[i] # Recent(alts, PingPong)[i - 1]
      <4>1. alts[n - PingPong + i] # alts[(n - PingPong + i) - 1]
        BY <3>2, <3>5
      <4>2. (n - PingPong + i) - 1 = n - PingPong + i - 1
        BY <1>1
      <4>. QED BY <3>2, <4>1, <4>2
    <3>6. IsPingPong(alts) <=> \A i \in 2..PingPong : Recent(alts, PingPong)[i] # Recent(alts, PingPong)[i - 1]
      BY <2>2, Zenon DEF IsPingPong, n, alts
    <3>. QED BY <2>2, <3>4, <3>5, <3>6, Zenon
  <2>. QED BY <1>1, <2>1, <2>2
<1>3. \A i \in TurnsOf(steps) : /\ Rank(steps, i) \in 1..n /\ From(i) = n - Rank(steps, i) + 1
                                /\ alts[Rank(steps, i)] = steps[i].alt
  BY <1>1, RankBounds, RankFromTheEnd DEF TurnsCount
<1>4. ASSUME n >= PingPong, \A p \in n - PingPong + 2 .. n : alts[p] # alts[p - 1],
             NEW i \in TurnsOf(steps), NEW j \in TurnsOf(steps), Next2(i, j), From(i) <= PingPong
      PROVE  steps[i].alt # steps[j].alt
  <2>1. Rank(steps, j) = Rank(steps, i) + 1
    BY <1>4, NextRank
  <2>2. Rank(steps, j) \in n - PingPong + 2 .. n /\ Rank(steps, j) - 1 = Rank(steps, i)
    <3>. HIDE DEF From
    <3>1. Rank(steps, i) \in 1..n /\ Rank(steps, j) \in 1..n /\ n - Rank(steps, i) + 1 <= PingPong
      BY <1>3, <1>4, Zenon
    <3>2. n \in Nat /\ PingPong \in Nat
      BY <1>1
    <3>. DEFINE r == Rank(steps, i)
                s == Rank(steps, j)
    <3>3. r \in 1..n /\ s \in 1..n /\ s = r + 1 /\ n - r + 1 <= PingPong
      BY <2>1, <3>1
    <3>. HIDE DEF n, r, s
    <3>4. s \in n - PingPong + 2 .. n /\ s - 1 = r
      BY <3>2, <3>3
    <3>. QED BY <3>4 DEF r, s
  <2>. QED BY <1>3, <1>4, <2>2
<1>5. ASSUME n >= PingPong, NEW p \in n - PingPong + 2 .. n,
             \A i, j \in TurnsOf(steps) : Next2(i, j) /\ From(i) <= PingPong => steps[i].alt # steps[j].alt
      PROVE  alts[p] # alts[p - 1]
  <2>0. p \in 1..n /\ p - 1 \in 1..n
    BY <1>1, <1>5
  <2>1. PICK j \in TurnsOf(steps) : Rank(steps, j) = p
    BY <2>0 DEF TurnsCount
  <2>2. PICK i \in TurnsOf(steps) : Rank(steps, i) = p - 1
    BY <2>0 DEF TurnsCount
  <2>3. i < j
    <3>1. CASE i = j
      BY <2>0, <2>1, <2>2, <3>1
    <3>2. CASE j < i
      BY <2>0, <2>1, <2>2, <3>2, RankGrows
    <3>. QED BY <1>1, <3>1, <3>2
  <2>4. ASSUME NEW k \in TurnsOf(steps), i < k, k < j PROVE FALSE
    <3>1. Rank(steps, i) < Rank(steps, k) /\ Rank(steps, k) < Rank(steps, j) /\ Rank(steps, k) \in 1..n
      BY <1>3, <2>4, RankGrows
    <3>. QED BY <2>0, <2>1, <2>2, <3>1
  <2>5. Next2(i, j)
    BY <1>1, <2>3, <2>4
  <2>6. From(i) <= PingPong
    <3>. HIDE DEF From
    <3>1. From(i) = n - (p - 1) + 1
      BY <1>3, <2>2
    <3>. QED BY <1>1, <3>1
  <2>7. steps[i].alt # steps[j].alt
    BY <1>5, <2>5, <2>6
  <2>. QED BY <1>3, <2>1, <2>2, <2>7
<1>6. IsPingPong(alts) <=>
        n >= PingPong /\ \A i, j \in TurnsOf(steps) : Next2(i, j) /\ From(i) <= PingPong => steps[i].alt # steps[j].alt
  <2>. HIDE DEF From, Next2, n, alts
  <2>. QED BY <1>2, <1>4, <1>5
<1>. QED BY <1>1, <1>6, Zenon

\* The guard gives up exactly when the steps, counted as they are, are aimless.
LEMMA AimlessIsCounted ==
  ASSUME NEW steps \in Seq(StepRecords), NEW g \in GuardRecords, Counted(steps, g)
  PROVE  Aimless(steps) <=> Verdict(g) # "running"
<1>. DEFINE AllHold == /\ Len(steps) >= MaxHolds
                       /\ \A i \in Len(steps) - MaxHolds + 1 .. Len(steps) : steps[i].action = "vlm_hold"
            NoneGains == /\ Len(steps) >= MaxNoGain
                         /\ \A i \in Len(steps) - MaxNoGain + 1 .. Len(steps) : ~steps[i].progress
<1>1. /\ MaxHolds \in Nat \ {0} /\ MaxNoGain \in Nat \ {0} /\ Len(steps) \in Nat
      /\ g.noProgress \in Nat /\ g.holds \in Nat
  BY ExplorationAssumption DEF GuardRecords
<1>2. AllHold <=> g.holds >= MaxHolds
  <2>1. HoldsCount(steps, g)
    BY DEF Counted
  <2>2. CASE g.holds >= MaxHolds
    BY <1>1, <2>1, <2>2 DEF HoldsCount
  <2>3. CASE g.holds < MaxHolds
    <3>1. ASSUME AllHold PROVE FALSE
      <4>1. Len(steps) - g.holds \in Len(steps) - MaxHolds + 1 .. Len(steps) /\ g.holds < Len(steps)
        BY <1>1, <2>1, <2>3, <3>1 DEF HoldsCount
      <4>. QED BY <2>1, <3>1, <4>1 DEF HoldsCount
    <3>. QED BY <1>1, <2>3, <3>1
  <2>. QED BY <1>1, <2>2, <2>3
<1>3. NoneGains <=> g.noProgress >= MaxNoGain
  <2>1. NoProgressCounts(steps, g)
    BY DEF Counted
  <2>2. CASE g.noProgress >= MaxNoGain
    BY <1>1, <2>1, <2>2 DEF NoProgressCounts
  <2>3. CASE g.noProgress < MaxNoGain
    <3>1. ASSUME NoneGains PROVE FALSE
      <4>1. Len(steps) - g.noProgress \in Len(steps) - MaxNoGain + 1 .. Len(steps) /\ g.noProgress < Len(steps)
        BY <1>1, <2>1, <2>3, <3>1 DEF NoProgressCounts
      <4>. QED BY <2>1, <3>1, <4>1 DEF NoProgressCounts
    <3>. QED BY <1>1, <2>3, <3>1
  <2>. QED BY <1>1, <2>2, <2>3
<1>. DEFINE Alternates ==
              /\ Cardinality(TurnsOf(steps)) >= PingPong
              /\ \A i, j \in TurnsOf(steps) :
                   (/\ i < j /\ Cardinality({k \in TurnsOf(steps) : k >= i}) <= PingPong
                    /\ \A k \in TurnsOf(steps) : k <= i \/ j <= k) => steps[i].alt # steps[j].alt
<1>4. IsPingPong(g.alts) <=> Alternates
  BY TurnsAlternate DEF Counted
<1>5. Aimless(steps) <=> AllHold \/ NoneGains \/ Alternates
  BY Zenon DEF Aimless, TurnsOf
<1>6. Verdict(g) # "running" <=> g.holds >= MaxHolds \/ g.noProgress >= MaxNoGain \/ IsPingPong(g.alts)
  BY DEF Verdict
<1>. HIDE DEF AllHold, NoneGains, Alternates
<1>. QED BY <1>2, <1>3, <1>4, <1>5, <1>6

\* What does not touch the record of steps keeps the count, if it does not claim the guard's verdict.
LEMMA GuardKept ==
  ASSUME GuardInv, leg'.move \in LegMoves, alt' \in {"none", "left", "right"}, hint' \in Hints,
         UNCHANGED <<trace, guard>>,
         \/ pc # "done" /\ (outcome' = outcome \/ outcome' \notin GuardOutcomes)
         \/ UNCHANGED <<pc, outcome>>
  PROVE  GuardInv'
<1>1. trace' = trace /\ guard' = guard /\ Verdict(guard') = Verdict(guard)
  OBVIOUS
<1>2. CASE pc # "done" /\ (outcome' = outcome \/ outcome' \notin GuardOutcomes)
  <2>1. outcome \notin GuardOutcomes /\ outcome' \notin GuardOutcomes
    BY <1>2 DEF GuardInv
  <2>. QED BY <1>1, <2>1 DEF GuardInv, Counted, NoProgressCounts, HoldsCount, TurnsCount
<1>3. CASE UNCHANGED <<pc, outcome>>
  BY <1>1, <1>3 DEF GuardInv, Counted, NoProgressCounts, HoldsCount, TurnsCount
<1>. QED BY <1>2, <1>3

\* A finished step is counted, and explore goes on as long as it is not aimless.
LEMMA ReviewKeepsCount ==
  ASSUME GuardInv, Review, leg'.move \in LegMoves
  PROVE  GuardInv'
<1>1. PICK progress \in Progress(leg.move) :
        /\ guard' = Updated(leg.move, progress)
        /\ trace' = Append(trace, [action |-> leg.move, alt |-> alt, progress |-> progress])
  BY DEF Review
<1>. DEFINE s == [action |-> leg.move, alt |-> alt, progress |-> progress]
<1>2. s \in StepRecords /\ (s.action = "vlm_hold" => ~s.progress)
  BY DEF GuardInv, StepRecords, Progress
<1>3. guard' = UpdatedWith(guard, s)
  BY <1>1 DEF Updated, UpdatedWith
<1>4. trace' \in Seq(StepRecords) /\ guard' \in GuardRecords /\ Counted(trace, guard)'
  <2>1. trace' = Append(trace, s)
    BY <1>1
  <2>2. trace \in Seq(StepRecords) /\ guard \in GuardRecords /\ Counted(trace, guard)
    BY DEF GuardInv
  <2>3. /\ Append(trace, s) \in Seq(StepRecords) /\ UpdatedWith(guard, s) \in GuardRecords
        /\ Counted(Append(trace, s), UpdatedWith(guard, s))
    <3>. HIDE DEF s
    <3>. QED BY <1>2, <2>2, CountsOn
  <2>4. trace' \in Seq(StepRecords) /\ guard' \in GuardRecords /\ Counted(trace', guard')
    <3>. HIDE DEF s
    <3>. QED BY <1>3, <2>1, <2>3
  <2>. QED BY <2>4 DEF Counted, NoProgressCounts, HoldsCount, TurnsCount
<1>5. pc = "review" /\ outcome \notin GuardOutcomes
  BY DEF Review, GuardInv
<1>6. /\ outcome' \in GuardOutcomes <=> Verdict(guard') # "running"
      /\ outcome' \in GuardOutcomes => pc' = "done"
  <2>1. CASE Verdict(guard') = "running"
    BY <1>5, <2>1 DEF Review
  <2>2. CASE Verdict(guard') # "running"
    <3>1. Verdict(guard') \in GuardOutcomes
      BY <2>2 DEF Verdict, GuardOutcomes
    <3>. QED BY <2>2, <3>1 DEF Review, Stop
  <2>. QED BY <2>1, <2>2
<1>7. alt' = "none" /\ hint' = "none" /\ "none" \in Hints
  BY DEF Review, Hints
<1>8. (Verdict(guard))' = Verdict(guard')
  BY DEF Verdict, IsPingPong, Recent
<1>. QED BY <1>4, <1>6, <1>7, <1>8 DEF GuardInv

\* The guard counts along, whatever runs.
LEMMA GuardNextInv ==
  ASSUME GuardInv, leg'.move \in LegMoves, [ExploreNext]_exploreVars
  PROVE  GuardInv'
<1>0. alt \in {"none", "left", "right"} /\ hint \in Hints
  BY DEF GuardInv
<1>1. ASSUME NEW reason, Stop(reason), reason \notin GuardOutcomes, pc # "done",
             UNCHANGED <<trace, guard>>, alt' \in {"none", "left", "right"}, hint' \in Hints
      PROVE  GuardInv'
  <2>1. outcome' \notin GuardOutcomes
    BY <1>1 DEF Stop
  <2>. QED BY <1>1, <2>1, GuardKept
<1>2. ASSUME pc # "done", UNCHANGED <<trace, guard, outcome, alt, hint>>
      PROVE  GuardInv'
  BY <1>0, <1>2, GuardKept
<1>3. CASE StepRefused
  <2>1. PICK reason \in StopReasons \union {"stale_state"} : StepEnds(reason)
    BY <1>3 DEF StepRefused
  <2>2. reason \notin GuardOutcomes
    BY DEF StopReasons, GuardOutcomes
  <2>3. pc # "done" /\ Stop(reason) /\ UNCHANGED <<trace, guard, alt, hint>>
    BY <2>1 DEF StepEnds
  <2>. QED BY <1>0, <1>1, <2>2, <2>3
<1>4. CASE LoopEnds
  BY <1>0, <1>1, <1>4 DEF LoopEnds, GuardOutcomes
<1>5. CASE StepScans
  BY <1>2, <1>5 DEF StepScans
<1>6. CASE Look
  BY <1>2, <1>6 DEF Look
<1>7. CASE Decide
  <2>1. pc # "done" /\ UNCHANGED <<trace, guard>> /\ hint' \in Hints
    BY <1>7 DEF Decide
  <2>2. alt' \in {"none", "left", "right"}
    BY <1>0, <1>7, <2>1 DEF Decide, AltDirs
  <2>3. outcome' = outcome \/ outcome' = "blocked"
    BY <1>7 DEF Decide, Stop
  <2>. QED BY <2>1, <2>2, <2>3, GuardKept DEF GuardOutcomes
<1>8. CASE Redecide
  BY <1>2, <1>8 DEF Redecide
<1>9. CASE Review
  BY <1>9, ReviewKeepsCount
<1>10. CASE Segment
  BY <1>2, <1>10 DEF Segment
<1>11. CASE SegmentFails
  BY <1>0, <1>1, <1>11 DEF SegmentFails, GuardOutcomes
<1>12. CASE MockDrive
  BY <1>2, <1>12 DEF MockDrive
<1>13. CASE Rejected
  BY <1>0, <1>1, <1>13 DEF Rejected, GuardOutcomes
<1>14. CASE Nudge
  BY <1>2, <1>14 DEF Nudge, Begins
<1>15. CASE Scan
  BY <1>2, <1>15 DEF Scan, Begins
<1>16. CASE Retreat
  BY <1>2, <1>16 DEF Retreat, Begins
<1>17. CASE LocalNavBlocked
  BY <1>0, <1>1, <1>17 DEF LocalNavBlocked, GuardOutcomes
<1>18. CASE LocalNav
  BY <1>2, <1>18 DEF LocalNav, Begins
<1>19. CASE LocalNavTurns
  BY <1>2, <1>19 DEF LocalNavTurns
<1>20. CASE Completed
  <2>1. pc # "done" /\ Stop("completed") /\ UNCHANGED <<trace, guard, alt, hint>>
    BY <1>20 DEF Completed
  <2>. QED BY <1>0, <1>1, <2>1 DEF GuardOutcomes
<1>21. CASE UNCHANGED exploreVars
  <2>1. UNCHANGED <<trace, guard, alt, hint, pc, outcome>>
    BY <1>21 DEF exploreVars
  <2>. QED BY <1>0, <2>1, GuardKept
<1>. QED
  BY <1>3, <1>4, <1>5, <1>6, <1>7, <1>8, <1>9, <1>10, <1>11, <1>12, <1>13, <1>14, <1>15, <1>16,
     <1>17, <1>18, <1>19, <1>20, <1>21, Zenon DEF ExploreNext

\* Nothing has been counted yet.
LEMMA GuardInitInv == ExploreInit => GuardInv
<1>. SUFFICES ASSUME ExploreInit PROVE GuardInv
  OBVIOUS
<1>1. /\ leg.move = "none" /\ alt = "none" /\ hint = "none" /\ trace = <<>> /\ outcome = "running"
      /\ guard = [noProgress |-> 0, holds |-> 0, alts |-> <<>>]
  BY DEF ExploreInit, NoLeg
<1>2. /\ trace \in Seq(StepRecords) /\ Len(trace) = 0 /\ DOMAIN trace = {}
      /\ guard.noProgress = 0 /\ guard.holds = 0 /\ guard.alts = <<>> /\ Len(guard.alts) = 0
  BY <1>1
<1>3. guard \in GuardRecords
  <2>1. <<>> \in Seq({"left", "right"})
    OBVIOUS
  <2>. QED BY <1>1, <2>1 DEF GuardRecords
<1>4. TurnsOf(trace) = {} /\ Cardinality(TurnsOf(trace)) = 0
  <2>1. TurnsOf(trace) = {}
    BY <1>2 DEF TurnsOf
  <2>. QED BY <2>1, FS_EmptySet
<1>5. Counted(trace, guard)
  BY <1>2, <1>4 DEF Counted, NoProgressCounts, HoldsCount, TurnsCount
<1>6. Verdict(guard) = "running"
  <2>1. /\ MaxHolds \in Nat \ {0} /\ MaxNoGain \in Nat \ {0} /\ PingPong \in Nat \ {0}
    BY ExplorationAssumption
  <2>. QED BY <1>2, <2>1 DEF Verdict, IsPingPong
<1>. QED BY <1>1, <1>2, <1>3, <1>5, <1>6 DEF GuardInv, LegMoves, Hints, GuardOutcomes

-----------------------------------------------------------------------------
(* Planning.                                                               *)

\* The substitute is only asked for after the last vain attempt, or plans for itself.
AsksInv ==
  /\ llm \in {"openai", "compatible", "mock"} /\ asks \in Nat /\ degraded \in BOOLEAN
  /\ llm = "mock" => stage # "asking" /\ asks = 0 /\ degraded = FALSE
  /\ stage = "asking" => asks <= MaxRetries
  /\ stage = "acting" => (degraded <=> asks > MaxRetries)

\* Asking, answers and failures of the model keep the count of attempts.
LEMMA PlanningNextInv ==
  ASSUME AsksInv, [PlanningNext]_planningVars
  PROVE  AsksInv'
<1>0. MaxRetries \in Nat
  BY PlanningAssumption
<1>1. CASE Command
  BY <1>1 DEF Command, AsksInv
<1>2. CASE Ask
  <2>1. CASE llm = "mock"
    <3>1. UNCHANGED <<llm, asks, degraded>> /\ stage' = "acting"
      BY <1>2, <2>1 DEF Ask, TakePlan
    <3>. QED BY <1>0, <2>1, <3>1 DEF AsksInv
  <2>2. CASE llm # "mock"
    BY <1>0, <1>2, <2>2 DEF Ask, AsksInv
  <2>. QED BY <2>1, <2>2
<1>3. CASE Answered
  <2>1. stage = "asking" /\ stage' = "acting" /\ degraded' = FALSE /\ UNCHANGED <<llm, asks>>
    BY <1>3 DEF Answered, TakePlan, Recovered
  <2>2. asks \in Nat /\ ~(asks > MaxRetries) /\ llm # "mock"
    BY <1>0, <2>1 DEF AsksInv
  <2>. QED BY <2>1, <2>2, Zenon DEF AsksInv
<1>4. CASE Unanswered
  <2>1. stage = "asking" /\ asks' = asks + 1 /\ UNCHANGED llm
    BY <1>4 DEF Unanswered
  <2>2. CASE asks < MaxRetries
    BY <1>0, <1>4, <2>1, <2>2 DEF Unanswered, AsksInv
  <2>3. CASE ~(asks < MaxRetries)
    <3>1. stage' = "acting" /\ degraded' = TRUE
      BY <1>4, <2>3 DEF Unanswered, TakePlan
    <3>2. asks' \in Nat /\ asks' > MaxRetries /\ llm # "mock"
      BY <1>0, <2>1, <2>3 DEF AsksInv
    <3>. QED BY <2>1, <3>1, <3>2, Zenon DEF AsksInv
  <2>. QED BY <2>2, <2>3
<1>5. CASE Cancelled
  BY <1>5 DEF Cancelled, AsksInv
<1>6. CASE ActOn
  BY <1>6 DEF ActOn, AsksInv
<1>7. CASE Record
  BY <1>7 DEF Record, AsksInv
<1>8. CASE UNCHANGED planningVars
  BY <1>8 DEF planningVars, AsksInv
<1>. QED BY <1>1, <1>2, <1>3, <1>4, <1>5, <1>6, <1>7, <1>8 DEF PlanningNext

\* Nothing has been asked yet.
LEMMA PlanningInitInv == PlanningInit => AsksInv
<1>. SUFFICES ASSUME PlanningInit PROVE AsksInv
  OBVIOUS
<1>1. llm \in {"openai", "compatible", "mock"} /\ stage = "idle" /\ asks = 0 /\ degraded = FALSE
  BY Zenon DEF PlanningInit
<1>2. 0 \in Nat
  OBVIOUS
<1>. QED BY <1>1, <1>2, Zenon DEF AsksInv

\* What is kept of a list of calls, place by place: the function that Kept is defined by exists.
KeptUpTo(calls, places, n, before) ==
  IF n = 0 THEN <<>> ELSE IF n \in places THEN Append(before, calls[n]) ELSE before

LEMMA KeptExists ==
  ASSUME NEW calls \in Seq(Calls), NEW places
  PROVE  \E f : f = [n \in 0..Len(calls) |-> KeptUpTo(calls, places, n, f[n - 1])]
<1>. DEFINE Fills(f, m) == f = [n \in 0..m |-> KeptUpTo(calls, places, n, f[n - 1])]
            T == {m \in Nat : \E f : Fills(f, m)}
<1>1. 0 \in T
  <2>. DEFINE f == [n \in 0..0 |-> <<>>]
  <2>1. Fills(f, 0)
    BY DEF KeptUpTo
  <2>. QED BY <2>1
<1>2. ASSUME NEW m \in T PROVE m + 1 \in T
  <2>1. PICK f : Fills(f, m)
    BY <1>2
  <2>. DEFINE g == [n \in 0..(m + 1) |-> IF n = m + 1 THEN KeptUpTo(calls, places, n, f[m]) ELSE f[n]]
  <2>2. m \in Nat /\ DOMAIN f = 0..m
    BY <2>1
  <2>3. ASSUME NEW n \in 0..(m + 1) PROVE g[n] = KeptUpTo(calls, places, n, g[n - 1])
    <3>1. CASE n = m + 1
      <4>1. g[n] = KeptUpTo(calls, places, n, f[m]) /\ g[m] = f[m] /\ n - 1 = m
        BY <2>2, <3>1
      <4>. QED BY <4>1
    <3>2. CASE n = 0
      BY <2>1, <2>2, <3>2 DEF KeptUpTo
    <3>3. CASE n \in 1..m
      <4>1. n \in 0..m /\ n - 1 \in 0..m /\ n # m + 1 /\ n - 1 # m + 1 /\ n - 1 \in 0..(m + 1)
        BY <2>2, <3>3
      <4>2. g[n] = f[n] /\ g[n - 1] = f[n - 1]
        BY <4>1
      <4>3. f[n] = KeptUpTo(calls, places, n, f[n - 1])
        BY <2>1, <4>1
      <4>. QED BY <4>2, <4>3
    <3>. QED BY <2>2, <3>1, <3>2, <3>3
  <2>4. Fills(g, m + 1)
    <3>1. g = [n \in 0..(m + 1) |-> g[n]]
      OBVIOUS
    <3>. HIDE DEF g
    <3>. QED BY <2>3, <3>1
  <2>. HIDE DEF g, Fills
  <2>. QED BY <2>2, <2>4
<1>. HIDE DEF Fills
<1>3. T = Nat
  BY <1>1, <1>2, SetInduction
<1>4. PICK f : Fills(f, Len(calls))
  <2>1. Len(calls) \in T
    <3>. HIDE DEF T
    <3>. QED BY <1>3
  <2>. QED BY <2>1
<1>. QED BY <1>4 DEF Fills

\* What is kept are calls of the list, and from the places to keep.
LEMMA KeptAreCalls ==
  ASSUME NEW calls \in Seq(Calls), NEW places
  PROVE  /\ Kept(calls, places) \in Seq(Calls)
         /\ \A i \in DOMAIN Kept(calls, places) :
              \E j \in DOMAIN calls \intersect places : Kept(calls, places)[i] = calls[j]
<1>. DEFINE kept == CHOOSE f : f = [n \in 0..Len(calls) |-> KeptUpTo(calls, places, n, f[n - 1])]
            T == {m \in Nat : m <= Len(calls) =>
                    /\ kept[m] \in Seq(Calls)
                    /\ \A i \in DOMAIN kept[m] : \E j \in DOMAIN calls \intersect places : kept[m][i] = calls[j]}
<1>1. Kept(calls, places) = kept[Len(calls)]
  BY DEF Kept, KeptUpTo
<1>2. kept = [n \in 0..Len(calls) |-> KeptUpTo(calls, places, n, kept[n - 1])]
  <2>. DEFINE Fills(f) == f = [n \in 0..Len(calls) |-> KeptUpTo(calls, places, n, f[n - 1])]
  <2>1. \E f : Fills(f)
    BY KeptExists
  <2>2. kept = CHOOSE f : Fills(f)
    OBVIOUS
  <2>. HIDE DEF Fills, kept
  <2>3. Fills(kept)
    BY <2>1, <2>2, Zenon
  <2>. QED BY <2>3 DEF Fills
<1>. HIDE DEF kept
<1>3. Len(calls) \in Nat /\ DOMAIN calls = 1..Len(calls) /\ \A j \in DOMAIN calls : calls[j] \in Calls
  OBVIOUS
<1>4. /\ kept[0] = <<>>
      /\ \A n \in 1..Len(calls) :
           kept[n] = IF n \in places THEN Append(kept[n - 1], calls[n]) ELSE kept[n - 1]
  <2>1. kept[0] = KeptUpTo(calls, places, 0, kept[0 - 1])
    <3>1. 0 \in 0..Len(calls)
      BY <1>3
    <3>. QED BY <1>2, <3>1, Zenon
  <2>2. ASSUME NEW n \in 1..Len(calls)
        PROVE  n # 0 /\ kept[n] = KeptUpTo(calls, places, n, kept[n - 1])
    <3>1. n \in 0..Len(calls) /\ n # 0
      BY <1>3
    <3>2. kept[n] = KeptUpTo(calls, places, n, kept[n - 1])
      BY <1>2, <3>1, Zenon
    <3>. QED BY <3>1, <3>2
  <2>. QED BY <2>1, <2>2 DEF KeptUpTo
<1>5. 0 \in T
  <2>1. /\ kept[0] \in Seq(Calls)
        /\ \A i \in DOMAIN kept[0] : \E j \in DOMAIN calls \intersect places : kept[0][i] = calls[j]
    <3>1. kept[0] = <<>> /\ <<>> \in Seq(Calls) /\ \A i \in DOMAIN <<>> : FALSE
      BY <1>4
    <3>. QED BY <3>1
  <2>. QED BY <2>1
<1>6. ASSUME NEW m \in T PROVE m + 1 \in T
  <2>. SUFFICES ASSUME m + 1 <= Len(calls)
                PROVE  /\ kept[m + 1] \in Seq(Calls)
                       /\ \A i \in DOMAIN kept[m + 1] :
                            \E j \in DOMAIN calls \intersect places : kept[m + 1][i] = calls[j]
    OBVIOUS
  <2>1. /\ kept[m] \in Seq(Calls)
        /\ \A i \in DOMAIN kept[m] : \E j \in DOMAIN calls \intersect places : kept[m][i] = calls[j]
    BY <1>3
  <2>2. m + 1 \in 1..Len(calls) /\ (m + 1) - 1 = m
    BY <1>3
  <2>3. CASE m + 1 \notin places
    BY <1>4, <2>1, <2>2, <2>3
  <2>4. CASE m + 1 \in places
    <3>. DEFINE s == kept[m]
                c == calls[m + 1]
    <3>1. kept[m + 1] = Append(s, c) /\ c \in Calls /\ m + 1 \in DOMAIN calls \intersect places
      BY <1>3, <1>4, <2>2, <2>4
    <3>. HIDE DEF s, c
    <3>2. /\ s \in Seq(Calls)
          /\ \A i \in DOMAIN s : \E j \in DOMAIN calls \intersect places : s[i] = calls[j]
      BY <2>1 DEF s
    <3>3. /\ Append(s, c) \in Seq(Calls) /\ DOMAIN Append(s, c) = 1..(Len(s) + 1) /\ DOMAIN s = 1..Len(s)
          /\ \A i \in 1..Len(s) : Append(s, c)[i] = s[i]
          /\ Append(s, c)[Len(s) + 1] = c /\ Len(s) \in Nat
      BY <3>1, <3>2
    <3>4. ASSUME NEW i \in DOMAIN Append(s, c)
          PROVE  \E j \in DOMAIN calls \intersect places : Append(s, c)[i] = calls[j]
      <4>1. CASE i = Len(s) + 1
        <5>1. Append(s, c)[i] = calls[m + 1]
          BY <3>3, <4>1 DEF c
        <5>. QED BY <3>1, <5>1
      <4>2. CASE i # Len(s) + 1
        BY <3>2, <3>3, <4>2
      <4>. QED BY <4>1, <4>2
    <3>. QED BY <3>1, <3>3, <3>4
  <2>. QED BY <2>3, <2>4
<1>7. T = Nat
  <2>. HIDE DEF T
  <2>1. T \in SUBSET Nat
    BY DEF T
  <2>. QED BY <1>5, <1>6, <2>1, SetInduction
<1>8. /\ kept[Len(calls)] \in Seq(Calls)
      /\ \A i \in DOMAIN kept[Len(calls)] :
           \E j \in DOMAIN calls \intersect places : kept[Len(calls)][i] = calls[j]
  BY <1>3, <1>7
<1>. QED BY <1>1, <1>8

\* Nothing that a plan holds is to be turned down, and all of it was said.
Fits(call) == call.skill \in {"known", "hidden"} /\ call.args \in {"good", "default"}
SaidBy(plan, calls) == \A i \in DOMAIN plan : Fits(plan[i]) /\ \E j \in DOMAIN calls : calls[j] = plan[i]

AcceptedInv ==
  /\ said \in Seq(Calls) /\ queue \in Seq(Calls)
  /\ stage = "acting" => SaidBy(queue, said)

\* A validated list holds calls of the list that fit.
LEMMA ValidatedFit ==
  ASSUME NEW calls \in Seq(Calls)
  PROVE  Validated(calls) \in Seq(Calls) /\ SaidBy(Validated(calls), calls)
<1>. DEFINE places == {i \in DOMAIN calls : Accepts(calls[i])}
<1>1. /\ Kept(calls, places) \in Seq(Calls)
      /\ \A i \in DOMAIN Kept(calls, places) :
           \E j \in DOMAIN calls \intersect places : Kept(calls, places)[i] = calls[j]
  <2>. HIDE DEF places
  <2>. QED BY KeptAreCalls
<1>2. \A j \in places : j \in DOMAIN calls /\ calls[j] \in Calls /\ Accepts(calls[j])
  OBVIOUS
<1>3. \A call \in Calls : Accepts(call) => Fits(call)
  BY DEF Calls, Accepts, Fits
<1>4. Validated(calls) = Kept(calls, places)
  BY DEF Validated
<1>. HIDE DEF places
<1>. QED BY <1>1, <1>2, <1>3, <1>4 DEF SaidBy

\* What the answer says, as the client reads it, are calls.
LEMMA ParsedAreCalls ==
  ASSUME NEW reply \in Replies
  PROVE  Parsed(reply) \in Seq(Calls)
<1>1. reply.calls \in Seq(Calls) /\ reply.text \in Seq(Calls)
  BY PlanningAssumption
<1>2. FromText(reply.text) \in Seq(Calls)
  <2>1. \A call \in Calls : call.args \notin {"good", "wrong"} => [call EXCEPT !.args = "default"] \in Calls
    BY DEF Calls
  <2>2. /\ DOMAIN reply.text = 1..Len(reply.text) /\ Len(reply.text) \in Nat
        /\ \A i \in 1..Len(reply.text) : reply.text[i] \in Calls
    BY <1>1
  <2>3. FromText(reply.text) \in [1..Len(reply.text) -> Calls]
    BY <2>1, <2>2 DEF FromText
  <2>4. \A n \in Nat : \A f \in [1..n -> Calls] : f \in Seq(Calls)
    OBVIOUS
  <2>. QED BY <2>2, <2>3, <2>4
<1>3. ASSUME NEW places PROVE Kept(reply.calls, places) \in Seq(Calls)
  BY <1>1, KeptAreCalls
<1>. QED BY <1>2, <1>3 DEF Parsed

\* A plan that is taken fits, and so does one from a list that was validated before.
LEMMA TakenPlanFits ==
  ASSUME NEW calls \in Seq(Calls), NEW all \in Seq(Calls), TakePlan(calls), said' = all,
         calls = all \/ calls = Validated(all)
  PROVE  AcceptedInv'
<1>1. queue' = Validated(calls)
  BY DEF TakePlan
<1>2. Validated(calls) \in Seq(Calls) /\ SaidBy(Validated(calls), calls)
  BY ValidatedFit
<1>3. calls = all \/ SaidBy(calls, all)
  BY ValidatedFit
<1>4. SaidBy(Validated(calls), all)
  BY <1>2, <1>3 DEF SaidBy
<1>5. SaidBy(queue', said')
  BY <1>1, <1>4
<1>. QED BY <1>1, <1>2, <1>5 DEF AcceptedInv, SaidBy

\* Every step of the planner keeps its plan made of what was said and fits.
LEMMA AcceptedNextInv ==
  ASSUME AcceptedInv, [PlanningNext]_planningVars
  PROVE  AcceptedInv'
<1>1. CASE Command
  BY <1>1 DEF Command, AcceptedInv
<1>2. CASE Ask
  <2>1. CASE llm = "mock"
    <3>1. PICK plan \in Substitute : said' = plan /\ TakePlan(plan)
      BY <1>2, <2>1 DEF Ask
    <3>. QED BY <3>1, TakenPlanFits, PlanningAssumption
  <2>2. CASE llm # "mock"
    BY <1>2, <2>2 DEF Ask, AcceptedInv
  <2>. QED BY <2>1, <2>2
<1>3. CASE Answered
  <2>1. PICK reply \in Replies : said' = Parsed(reply) /\ TakePlan(Validated(Parsed(reply)))
    BY <1>3 DEF Answered
  <2>2. Parsed(reply) \in Seq(Calls) /\ Validated(Parsed(reply)) \in Seq(Calls)
    BY ParsedAreCalls, ValidatedFit
  <2>. QED BY <2>1, <2>2, TakenPlanFits
<1>4. CASE Unanswered
  <2>1. CASE asks < MaxRetries
    <3>1. UNCHANGED <<stage, said, queue>>
      BY <1>4, <2>1 DEF Unanswered
    <3>. QED BY <3>1 DEF AcceptedInv, SaidBy
  <2>2. CASE ~(asks < MaxRetries)
    <3>1. PICK plan \in Substitute : said' = plan /\ TakePlan(plan)
      BY <1>4, <2>2 DEF Unanswered
    <3>. QED BY <3>1, TakenPlanFits, PlanningAssumption
  <2>. QED BY <2>1, <2>2
<1>5. CASE Cancelled
  BY <1>5 DEF Cancelled, AcceptedInv
<1>6. CASE ActOn
  <2>1. CASE queue' = Tail(queue) /\ stage' = stage
    <3>1. said' = said /\ stage = "acting" /\ queue # <<>>
      BY <1>6 DEF ActOn
    <3>2. /\ queue \in Seq(Calls) /\ Tail(queue) \in Seq(Calls)
          /\ \A i \in DOMAIN Tail(queue) : i + 1 \in DOMAIN queue /\ Tail(queue)[i] = queue[i + 1]
      BY <3>1 DEF AcceptedInv
    <3>3. SaidBy(queue, said)
      BY <3>1 DEF AcceptedInv
    <3>4. SaidBy(Tail(queue), said)
      BY <3>2, <3>3 DEF SaidBy
    <3>. QED BY <2>1, <3>1, <3>2, <3>4 DEF AcceptedInv, SaidBy
  <2>2. CASE queue' = <<>> /\ stage' = "deciding"
    BY <1>6, <2>2 DEF ActOn, AcceptedInv
  <2>. QED BY <1>6, <2>1, <2>2 DEF ActOn
<1>7. CASE Record
  BY <1>7 DEF Record, AcceptedInv
<1>8. CASE UNCHANGED planningVars
  BY <1>8 DEF planningVars, AcceptedInv, SaidBy
<1>. QED BY <1>1, <1>2, <1>3, <1>4, <1>5, <1>6, <1>7, <1>8 DEF PlanningNext

\* There is no plan yet.
LEMMA AcceptedInitInv == PlanningInit => AcceptedInv
BY DEF PlanningInit, AcceptedInv

-----------------------------------------------------------------------------
(* The camera.                                                             *)

PeerStates == {"none", "awaiting", "refused", "negotiating", "answered", "shown", "cut", "closing",
               "abandoned", "closed"}

\* Who is open is known; once the viewers are closed nobody comes, and the shutdown leaves
\* fewer and fewer to close.
PeerInv ==
  /\ peer \in [Viewers -> PeerStates]
  /\ house \in {"up", "closing", "source", "leaving", "down"}
  /\ known = Open
  /\ house # "up" => \A v \in Viewers : peer[v] \in {"none", "refused", "closing", "abandoned", "closed"}
  /\ house \in {"source", "leaving", "down"} => \A v \in Viewers : peer[v] # "closing"
  /\ house = "down" => \A v \in Viewers : peer[v] # "abandoned"

\* Every viewer that comes, goes or is closed keeps the book of open peers.
LEMMA CameraNextInv ==
  ASSUME PeerInv, [CameraNext]_cameraVars
  PROVE  PeerInv'
<1>1. ASSUME UNCHANGED <<house, peer, known>> PROVE PeerInv'
  BY <1>1 DEF PeerInv, Open
<1>2. CASE PollFrame \/ Publish \/ TrackEnds \/ WantPasses \/ TapFails \/ Tapping
  BY <1>1, <1>2 DEF PollFrame, Publish, TrackEnds, WantPasses, TapFails, Tapping, TakeFrame,
     Encoded,
     TapEnds, TapCancelled
<1>3. ASSUME NEW v \in Viewers, NEW from \in PeerStates, NEW to \in PeerStates, InState(v, from, to),
             UNCHANGED house,
             known' = IF to \in {"negotiating", "answered", "shown", "cut"} THEN known \union {v} ELSE known \ {v},
             house = "up" \/ to = "closed", house = "down" => from \notin {"none", "refused", "closed"}
      PROVE  PeerInv'
  <2>1. /\ peer' \in [Viewers -> PeerStates] /\ peer'[v] = to /\ peer[v] = from
        /\ \A w \in Viewers : w # v => peer'[w] = peer[w]
    BY <1>3 DEF InState, PeerInv
  <2>2. known' = Open'
    BY <1>3, <2>1 DEF PeerInv, Open
  <2>. QED BY <1>3, <2>1, <2>2 DEF PeerInv
<1>4. ASSUME NEW v \in Viewers, OfferVideo(v) \/ Drop(v) \/ Negotiating(v)
      PROVE  PeerInv'
  <2>0. /\ UNCHANGED house
        /\ \A w \in Viewers : peer[w] \in PeerStates /\ (w \in known <=> w \in Open)
        /\ house # "up" => peer[v] \in {"none", "refused", "closing", "abandoned", "closed"}
    BY <1>4 DEF OfferVideo, Drop, Negotiating, NoTrack, Register, Answer, SuspendTap,
       TimesOut, PeerCloses,
       PeerInv
  <2>1. PICK from \in PeerStates, to \in PeerStates :
          /\ InState(v, from, to)
          /\ <<from, to>> \in {<<"none", "awaiting">>, <<"awaiting", "negotiating">>, <<"awaiting", "refused">>,
               <<"negotiating", "answered">>, <<"answered", "shown">>, <<"negotiating", "closing">>,
               <<"shown", "closing">>, <<"cut", "closing">>, <<"negotiating", "cut">>, <<"closing", "closed">>}
          /\ \/ to = "negotiating" /\ known' = known \union {v}
             \/ from \in {"negotiating", "shown", "cut"} /\ to = "closing" /\ known' = known \ {v}
             \/ to # "negotiating" /\ ~(from \in {"negotiating", "shown", "cut"} /\ to = "closing") /\ known' = known
          /\ from = "none" => house = "up"
    <3>1. CASE OfferVideo(v)
      BY <3>1 DEF OfferVideo, PeerStates
    <3>2. CASE Drop(v)
      BY <3>2 DEF Drop, PeerStates
    <3>3. CASE Register(v)
      BY <3>3 DEF Register, PeerStates
    <3>4. CASE NoTrack(v)
      BY <3>4 DEF NoTrack, PeerStates
    <3>5. CASE Answer(v)
      BY <3>5 DEF Answer, PeerStates
    <3>6. CASE SuspendTap(v)
      BY <3>6 DEF SuspendTap, PeerStates
    <3>7. CASE TimesOut(v)
      BY <3>7 DEF TimesOut, PeerStates
    <3>8. CASE PeerCloses(v)
      BY <3>8 DEF PeerCloses, PeerStates
    <3>. QED BY <1>4, <3>1, <3>2, <3>3, <3>4, <3>5, <3>6, <3>7, <3>8 DEF Negotiating
  <2>2. peer[v] = from
    BY <2>1 DEF InState
  <2>3. house = "up" \/ (from = "closing" /\ to = "closed")
    BY <2>0, <2>1, <2>2
  <2>4. v \in known <=> from \in {"negotiating", "answered", "shown", "cut"}
    BY <2>0, <2>2 DEF Open
  <2>5. known' = IF to \in {"negotiating", "answered", "shown", "cut"} THEN known \union {v} ELSE known \ {v}
    BY <2>1, <2>4
  <2>. QED BY <1>3, <2>0, <2>1, <2>3, <2>5
<1>5. CASE CloseViewers
  <2>1. /\ house' = "closing" /\ known' = {}
        /\ \A v \in Viewers : peer[v] \in PeerStates \ {"awaiting", "negotiating", "answered"}
        /\ peer' = [v \in Viewers |-> IF v \in Open THEN "closing" ELSE peer[v]]
    BY <1>5 DEF CloseViewers, PeerInv
  <2>2. \A v \in Viewers : peer'[v] \in {"none", "refused", "closing", "abandoned", "closed"}
    BY <2>1 DEF Open, PeerStates
  <2>3. peer' \in [Viewers -> PeerStates]
    BY <2>1 DEF PeerStates
  <2>4. Open' = {}
    BY <2>2 DEF Open
  <2>. QED BY <2>1, <2>2, <2>3, <2>4 DEF PeerInv
<1>6. ASSUME house # "up", NEW here \in {"source", "leaving", "down"}, house' = here, UNCHANGED known,
             peer' \in [Viewers -> PeerStates],
             \A v \in Viewers : peer'[v] \in {"none", "refused", "abandoned", "closed"},
             here = "down" => \A v \in Viewers : peer'[v] # "abandoned"
      PROVE  PeerInv'
  <2>1. Open = {} /\ Open' = {}
    BY <1>6 DEF PeerInv, Open
  <2>. QED BY <1>6, <2>1 DEF PeerInv
<1>7. CASE AllClosed
  <2>1. house = "closing" /\ house' = "source" /\ UNCHANGED known
        /\ peer' = [v \in Viewers |-> IF peer[v] = "closing" THEN "abandoned" ELSE peer[v]]
    BY <1>7 DEF AllClosed
  <2>2. \A v \in Viewers : peer[v] \in {"none", "refused", "closing", "abandoned", "closed"}
    BY <2>1 DEF PeerInv
  <2>3. \A v \in Viewers : peer'[v] \in {"none", "refused", "abandoned", "closed"}
    BY <2>1, <2>2
  <2>4. peer' \in [Viewers -> PeerStates]
    BY <2>1, <2>2 DEF PeerStates
  <2>. QED BY <1>6, <2>1, <2>3, <2>4
<1>8. CASE CloseSource
  <2>1. house = "source" /\ house' = "leaving" /\ UNCHANGED <<peer, known>>
    BY <1>8 DEF CloseSource
  <2>. QED BY <1>6, <2>1 DEF PeerInv
<1>9. CASE LeaveRobot
  <2>1. house = "leaving" /\ house' = "down" /\ UNCHANGED known
        /\ peer' = [v \in Viewers |-> IF peer[v] \in {"closing", "abandoned"} THEN "closed" ELSE peer[v]]
    BY <1>9 DEF LeaveRobot
  <2>2. \A v \in Viewers : peer[v] \in {"none", "refused", "closing", "abandoned", "closed"}
    BY <2>1 DEF PeerInv
  <2>3. \A v \in Viewers : peer'[v] \in {"none", "refused", "closed"}
    BY <2>1, <2>2
  <2>4. peer' \in [Viewers -> PeerStates]
    BY <2>1, <2>2 DEF PeerStates
  <2>. QED BY <1>6, <2>1, <2>3, <2>4
<1>10. CASE UNCHANGED cameraVars
  BY <1>1, <1>10 DEF cameraVars
<1>. QED BY <1>2, <1>4, <1>5, <1>7, <1>8, <1>9, <1>10 DEF CameraNext, Leaving

\* There are no viewers yet.
LEMMA CameraInitInv == CameraInit => PeerInv
<1>. SUFFICES ASSUME CameraInit PROVE PeerInv
  OBVIOUS
<1>1. peer = [v \in Viewers |-> "none"] /\ known = {} /\ house = "up"
  BY DEF CameraInit
<1>2. Open = {} /\ peer \in [Viewers -> PeerStates]
  BY <1>1 DEF Open, PeerStates
<1>. QED BY <1>1, <1>2 DEF PeerInv

-----------------------------------------------------------------------------
(* The relays.                                                             *)

Steady == session.up /\ ~session.leaving

RelayRecords == [of: Nat, loop: Nat, does: {"first", "drain", "stream", "closing", "over"}]
DecoderRecords == [in: Nat, loop: Nat, does: {"listen", "end", "wait", "over"}, queue: Seq(Nat), heard: Nat]

SessionInv ==
  /\ session \in [n: Nat, up: BOOLEAN, leaving: BOOLEAN]
  /\ (session.leaving => session.up) /\ (session.up => session.n >= 1)
  /\ track \in [n: {0, session.n}, live: BOOLEAN, late: BOOLEAN]
  /\ track.live => track.n = session.n
  /\ started \in BOOLEAN /\ watched \in Nat /\ (~session.up => watched = 0)
  /\ spoken \in Nat

\* Tasks are of this session or of an earlier one.
TasksInv ==
  /\ relays \in Seq(RelayRecords) /\ decoders \in Seq(DecoderRecords)
  /\ \A i \in DOMAIN relays : relays[i].of \in 1..session.n
  /\ \A d \in DOMAIN decoders : decoders[d].in \in 1..session.n

\* While the session is steady nothing is started twice, what has been started keeps the
\* flag, and at most one callback that somebody calls waits for a track.
OnceInv ==
  Steady =>
    /\ \A i, j \in DOMAIN relays : relays[i].of = session.n /\ relays[j].of = session.n => i = j
    /\ \A d, e \in DOMAIN decoders : decoders[d].in = session.n /\ decoders[e].in = session.n => d = e
    /\ \A i \in DOMAIN relays : relays[i].of = session.n => started /\ track.n = session.n
    /\ \A d \in DOMAIN decoders : decoders[d].in = session.n => started
    /\ mode.starts # "on_demand" => watched <= 1 /\ (mode.kinds # {} => started)

RelayInv == SessionInv /\ TasksInv /\ OnceInv

\* The queues hold pieces of speech.
LEMMA PushShape ==
  ASSUME NEW q \in Seq(Nat), NEW x \in Nat
  PROVE  Push(q, x) \in Seq(Nat)
<1>1. CASE Len(q) < QueueLimit
  BY <1>1 DEF Push
<1>2. CASE ~(Len(q) < QueueLimit) /\ q # <<>>
  <2>1. Tail(q) \in Seq(Nat)
    BY <1>2
  <2>. QED BY <1>2, <2>1 DEF Push
<1>3. q # <<>> \/ Len(q) < QueueLimit
  BY RelayAssumption
<1>. QED BY <1>1, <1>2, <1>3

\* A task is started.
LEMMA OneMore ==
  ASSUME NEW S, NEW s \in Seq(S), NEW x \in S
  PROVE  /\ Append(s, x) \in Seq(S) /\ DOMAIN Append(s, x) = DOMAIN s \union {Len(s) + 1}
         /\ Len(s) + 1 \notin DOMAIN s
         /\ Append(s, x)[Len(s) + 1] = x /\ \A i \in DOMAIN s : Append(s, x)[i] = s[i]
OBVIOUS

\* One entry changes.
LEMMA OneChanges ==
  ASSUME NEW S, NEW s \in Seq(S), NEW i \in DOMAIN s, NEW x \in S
  PROVE  /\ [s EXCEPT ![i] = x] \in Seq(S) /\ DOMAIN [s EXCEPT ![i] = x] = DOMAIN s
         /\ [s EXCEPT ![i] = x][i] = x /\ \A j \in DOMAIN s : j # i => [s EXCEPT ![i] = x][j] = s[j]
OBVIOUS

\* Relays and decoders that go on are those of the same session.
SameTasks ==
  /\ relays' \in Seq(RelayRecords) /\ decoders' \in Seq(DecoderRecords)
  /\ DOMAIN relays' = DOMAIN relays /\ DOMAIN decoders' = DOMAIN decoders
  /\ \A i \in DOMAIN relays : relays'[i].of = relays[i].of
  /\ \A d \in DOMAIN decoders : decoders'[d].in = decoders[d].in

\* Without a step of theirs the tasks are the same.
LEMMA NothingMoves == ASSUME RelayInv, UNCHANGED <<relays, decoders>> PROVE SameTasks
BY DEF RelayInv, TasksInv, SameTasks

\* A relay that goes on stays a relay of its track.
LEMMA RelayMoves ==
  ASSUME RelayInv, NEW i \in DOMAIN relays, NEW to \in {"first", "drain", "stream", "closing", "over"},
         relays' = [relays EXCEPT ![i].does = to], UNCHANGED decoders
  PROVE  SameTasks
<1>. DEFINE x == [relays[i] EXCEPT !.does = to]
<1>1. relays \in Seq(RelayRecords) /\ relays[i] \in RelayRecords
  BY DEF RelayInv, TasksInv
<1>2. x \in RelayRecords /\ x.of = relays[i].of
  BY <1>1 DEF RelayRecords
<1>3. relays' = [relays EXCEPT ![i] = x]
  OBVIOUS
<1>. HIDE DEF x
<1>4. relays' \in Seq(RelayRecords) /\ DOMAIN relays' = DOMAIN relays /\ relays'[i] = x
      /\ \A j \in DOMAIN relays : j # i => relays'[j] = relays[j]
  BY <1>1, <1>2, <1>3, OneChanges
<1>. QED BY <1>2, <1>4 DEF RelayInv, TasksInv, SameTasks

\* A decoder that goes on stays a decoder of its session.
LEMMA DecoderMoves ==
  ASSUME RelayInv, NEW d \in DOMAIN decoders, NEW x \in DecoderRecords, x.in = decoders[d].in,
         decoders' = [decoders EXCEPT ![d] = x], UNCHANGED relays
  PROVE  SameTasks
<1>1. decoders \in Seq(DecoderRecords)
  BY DEF RelayInv, TasksInv
<1>. QED BY <1>1, OneChanges DEF RelayInv, TasksInv, SameTasks

\* Nothing is started while the session is the same, or it is left.
LEMMA SameKeeps ==
  ASSUME RelayInv, SameTasks, SessionInv', session'.n = session.n, Steady' => Steady,
         Steady' => UNCHANGED <<started, watched, mode>> /\ track'.n = track.n
  PROVE  RelayInv'
<1>1. TasksInv'
  BY DEF RelayInv, TasksInv, SameTasks
<1>2. OnceInv'
  BY DEF RelayInv, OnceInv, SameTasks
<1>. QED BY <1>1, <1>2 DEF RelayInv

\* What is started is new, at most one, and of the track or the session of the moment.
NewRelays(rs) ==
  /\ DOMAIN relays' = DOMAIN relays \union rs /\ rs \intersect DOMAIN relays = {}
  /\ \A i \in DOMAIN relays : relays'[i].of = relays[i].of
  /\ \A i \in rs : relays'[i].of = track'.n
  /\ \A i, j \in rs : i = j
  /\ rs # {} => track'.n # 0 /\ "video" \in mode.kinds

NewDecoders(ds) ==
  /\ DOMAIN decoders' = DOMAIN decoders \union ds /\ ds \intersect DOMAIN decoders = {}
  /\ \A d \in DOMAIN decoders : decoders'[d].in = decoders[d].in
  /\ \A d \in ds : decoders'[d].in = session'.n
  /\ \A d, e \in ds : d = e
  /\ ds # {} => "audio" \in mode.kinds

\* A relay is started for a track that is there.
LEMMA VideoStarts ==
  ASSUME relays \in Seq(RelayRecords), watched \in Nat, NEW loop \in Nat, StartVideo(loop), track'.n \in Nat
  PROVE  /\ relays' \in Seq(RelayRecords) /\ watched' \in Nat /\ watched' <= watched + 1
         /\ \E rs : NewRelays(rs)
<1>1. NewRelay(loop) \in RelayRecords /\ NewRelay(loop).of = track'.n
  BY DEF NewRelay, RelayRecords
<1>2. CASE "video" \notin mode.kinds \/ track'.n = 0
  <2>1. relays' = relays /\ watched' \in Nat /\ watched' <= watched + 1
    BY <1>2 DEF StartVideo
  <2>2. NewRelays({})
    BY <2>1 DEF NewRelays
  <2>. QED BY <2>1, <2>2
<1>3. CASE "video" \in mode.kinds /\ track'.n # 0
  <2>1. relays' = Append(relays, NewRelay(loop)) /\ watched' = watched + 1
    BY <1>3 DEF StartVideo
  <2>2. NewRelays({Len(relays) + 1}) /\ relays' \in Seq(RelayRecords)
    BY <1>1, <1>3, <2>1, OneMore DEF NewRelays
  <2>. QED BY <2>1, <2>2
<1>. QED BY <1>2, <1>3

\* A decoder is started for the session.
LEMMA AudioStarts ==
  ASSUME decoders \in Seq(DecoderRecords), NEW loop \in Nat, StartAudio(loop), session'.n \in Nat
  PROVE  decoders' \in Seq(DecoderRecords) /\ \E ds : NewDecoders(ds)
<1>. DEFINE x == [in |-> session'.n, loop |-> loop, does |-> "listen", queue |-> <<>>, heard |-> 0]
<1>1. x \in DecoderRecords /\ x.in = session'.n
  BY DEF DecoderRecords
<1>2. CASE mode.starts = "gateway" \/ "audio" \notin mode.kinds
  <2>1. decoders' = decoders
    BY <1>2 DEF StartAudio
  <2>2. NewDecoders({})
    BY <2>1 DEF NewDecoders
  <2>. QED BY <2>1, <2>2
<1>3. CASE ~(mode.starts = "gateway" \/ "audio" \notin mode.kinds)
  <2>1. decoders' = Append(decoders, x)
    BY <1>3 DEF StartAudio
  <2>. HIDE DEF x
  <2>2. NewDecoders({Len(decoders) + 1}) /\ decoders' \in Seq(DecoderRecords)
    BY <1>1, <1>3, <2>1, OneMore DEF NewDecoders
  <2>. QED BY <2>2
<1>. QED BY <1>2, <1>3

\* The relays of a session start, once as long as the session is steady.
LEMMA StartsKeep ==
  ASSUME RelayInv, SessionInv', TasksInv', session'.n >= session.n, UNCHANGED mode,
         NEW newRelays, DOMAIN relays' = DOMAIN relays \union newRelays, newRelays \intersect DOMAIN relays = {},
         \A i \in DOMAIN relays : relays'[i].of = relays[i].of,
         \A i \in newRelays : relays'[i].of = session'.n,
         NEW newDecoders, DOMAIN decoders' = DOMAIN decoders \union newDecoders,
         newDecoders \intersect DOMAIN decoders = {},
         \A d \in DOMAIN decoders : decoders'[d].in = decoders[d].in,
         \A d \in newDecoders : decoders'[d].in = session'.n,
         Steady' => \/ /\ \A i \in DOMAIN relays : relays[i].of # session'.n
                       /\ \A i, j \in newRelays : i = j
                    \/ newRelays = {} /\ session'.n = session.n /\ Steady,
         Steady' => \/ /\ \A d \in DOMAIN decoders : decoders[d].in # session'.n
                       /\ \A d, e \in newDecoders : d = e
                    \/ newDecoders = {} /\ session'.n = session.n /\ Steady,
         Steady' => /\ \A i \in DOMAIN relays' : relays'[i].of = session'.n => started' /\ track'.n = session'.n
                    /\ \A d \in DOMAIN decoders' : decoders'[d].in = session'.n => started'
                    /\ mode.starts # "on_demand" => watched' <= 1 /\ (mode.kinds # {} => started')
  PROVE  RelayInv'
<1>1. ASSUME Steady', NEW i \in DOMAIN relays', NEW j \in DOMAIN relays',
             relays'[i].of = session'.n, relays'[j].of = session'.n
      PROVE  i = j
  <2>1. CASE \A k \in DOMAIN relays : relays[k].of # session'.n
    <3>1. i \in newRelays /\ j \in newRelays
      BY <1>1, <2>1
    <3>. QED BY <1>1, <2>1, <3>1
  <2>2. CASE newRelays = {} /\ session'.n = session.n /\ Steady
    BY <1>1, <2>2 DEF RelayInv, OnceInv
  <2>. QED BY <1>1, <2>1, <2>2
<1>2. ASSUME Steady', NEW i \in DOMAIN decoders', NEW j \in DOMAIN decoders',
             decoders'[i].in = session'.n, decoders'[j].in = session'.n
      PROVE  i = j
  <2>1. CASE \A k \in DOMAIN decoders : decoders[k].in # session'.n
    <3>1. i \in newDecoders /\ j \in newDecoders
      BY <1>2, <2>1
    <3>. QED BY <1>2, <2>1, <3>1
  <2>2. CASE newDecoders = {} /\ session'.n = session.n /\ Steady
    BY <1>2, <2>2 DEF RelayInv, OnceInv
  <2>. QED BY <1>2, <2>1, <2>2
<1>. QED BY <1>1, <1>2 DEF RelayInv, OnceInv

\* A new connection has no tasks yet, and starts them once.
LEMMA ConnectKeeps == ASSUME RelayInv, Connect PROVE RelayInv'
<1>0. /\ session \in [n: Nat, up: BOOLEAN, leaving: BOOLEAN] /\ session.n \in Nat /\ ~session.up /\ watched = 0
      /\ relays \in Seq(RelayRecords) /\ decoders \in Seq(DecoderRecords) /\ started \in BOOLEAN
      /\ spoken \in Nat /\ watched \in Nat
      /\ \A i \in DOMAIN relays : relays[i].of \in 1..session.n
      /\ \A d \in DOMAIN decoders : decoders[d].in \in 1..session.n
  BY DEF RelayInv, SessionInv, TasksInv, Connect
<1>1. /\ session' = [n |-> session.n + 1, up |-> TRUE, leaving |-> FALSE] /\ UNCHANGED <<mode, spoken>>
      /\ session'.n = session.n + 1 /\ session'.up /\ Steady'
  BY DEF Connect, Steady
<1>2. \/ track' = [n |-> session'.n, live |-> TRUE, late |-> FALSE]
      \/ track' = [n |-> 0, live |-> FALSE, late |-> FALSE]
  BY <1>1 DEF Connect
<1>3. /\ track'.n \in {0, session'.n} /\ track'.n \in Nat
      /\ track' \in [n: {0, session'.n}, live: BOOLEAN, late: BOOLEAN] /\ (track'.live => track'.n = session'.n)
  <2>0. session'.n \in Nat
    BY <1>0, <1>1
  <2>1. CASE track' = [n |-> session'.n, live |-> TRUE, late |-> FALSE]
    BY <2>0, <2>1
  <2>2. CASE track' = [n |-> 0, live |-> FALSE, late |-> FALSE]
    BY <2>0, <2>2
  <2>. QED BY <1>2, <2>1, <2>2
<1>4. started' \in BOOLEAN /\ (started' <=> mode.starts # "on_demand" /\ mode.kinds # {})
  BY Zenon DEF Connect
<1>5. session' \in [n: Nat, up: BOOLEAN, leaving: BOOLEAN] /\ ~session'.leaving /\ session'.n >= 1
  BY <1>0, <1>1
<1>6. CASE mode.starts = "on_demand"
  <2>1. UNCHANGED <<watched, relays, decoders>>
    BY <1>6 DEF Connect
  <2>2. SessionInv' /\ TasksInv'
    BY <1>0, <1>1, <1>3, <1>4, <1>5, <2>1 DEF SessionInv, TasksInv
  <2>3. OnceInv'
    BY <1>0, <1>1, <1>6, <2>1 DEF OnceInv
  <2>. QED BY <2>2, <2>3 DEF RelayInv
<1>7. CASE mode.starts # "on_demand"
  <2>1. StartVideo(session'.n) /\ StartAudio(session'.n) /\ session'.n \in Nat
    BY <1>5, <1>7 DEF Connect
  <2>2. /\ relays' \in Seq(RelayRecords) /\ watched' \in Nat /\ watched' <= watched + 1
        /\ \E rs : NewRelays(rs)
    BY <1>0, <1>3, <2>1, VideoStarts
  <2>3. decoders' \in Seq(DecoderRecords) /\ \E ds : NewDecoders(ds)
    BY <1>0, <2>1, AudioStarts
  <2>4. PICK rs : NewRelays(rs)
    BY <2>2
  <2>5. PICK ds : NewDecoders(ds)
    BY <2>3
  <2>6. /\ DOMAIN relays' = DOMAIN relays \union rs /\ rs \intersect DOMAIN relays = {}
        /\ \A i \in DOMAIN relays : relays'[i].of = relays[i].of
        /\ \A i \in rs : relays'[i].of = session'.n
        /\ \A i, j \in rs : i = j
        /\ rs # {} => track'.n = session'.n /\ mode.kinds # {}
    BY <1>3, <2>4 DEF NewRelays
  <2>7. /\ DOMAIN decoders' = DOMAIN decoders \union ds /\ ds \intersect DOMAIN decoders = {}
        /\ \A d \in DOMAIN decoders : decoders'[d].in = decoders[d].in
        /\ \A d \in ds : decoders'[d].in = session'.n
        /\ \A d, e \in ds : d = e
        /\ ds # {} => mode.kinds # {}
    BY <2>5 DEF NewDecoders
  <2>8. /\ \A i \in DOMAIN relays : relays[i].of # session'.n
        /\ \A d \in DOMAIN decoders : decoders[d].in # session'.n
    BY <1>0, <1>1
  <2>9. SessionInv'
    BY <1>0, <1>1, <1>3, <1>4, <1>5, <2>2 DEF SessionInv
  <2>10. TasksInv'
    <3>1. \A i \in DOMAIN relays' : relays'[i].of \in 1..session'.n
      BY <1>0, <1>1, <2>6
    <3>2. \A d \in DOMAIN decoders' : decoders'[d].in \in 1..session'.n
      BY <1>0, <1>1, <2>7
    <3>. QED BY <2>2, <2>3, <3>1, <3>2 DEF TasksInv
  <2>11. \A i \in DOMAIN relays' : relays'[i].of = session'.n => started' /\ track'.n = session'.n
    BY <1>4, <1>7, <2>6, <2>8
  <2>12. \A d \in DOMAIN decoders' : decoders'[d].in = session'.n => started'
    BY <1>4, <1>7, <2>7, <2>8
  <2>13. watched' <= 1 /\ (mode.kinds # {} => started')
    BY <1>0, <1>4, <1>7, <2>2
  <2>14. session'.n >= session.n /\ UNCHANGED mode
    BY <1>0, <1>1
  <2>15. Steady' => \/ /\ \A i \in DOMAIN relays : relays[i].of # session'.n
                       /\ \A i, j \in rs : i = j
                    \/ rs = {} /\ session'.n = session.n /\ Steady
    BY <2>6, <2>8
  <2>16. Steady' => \/ /\ \A d \in DOMAIN decoders : decoders[d].in # session'.n
                       /\ \A d, e \in ds : d = e
                    \/ ds = {} /\ session'.n = session.n /\ Steady
    BY <2>7, <2>8
  <2>17. Steady' => /\ \A i \in DOMAIN relays' : relays'[i].of = session'.n => started' /\ track'.n = session'.n
                    /\ \A d \in DOMAIN decoders' : decoders'[d].in = session'.n => started'
                    /\ mode.starts # "on_demand" => watched' <= 1 /\ (mode.kinds # {} => started')
    BY <2>11, <2>12, <2>13
  <2>. QED BY <2>6, <2>7, <2>9, <2>10, <2>14, <2>15, <2>16, <2>17, StartsKeep
<1>. QED BY <1>6, <1>7

\* Asked for, they start unless they have been started.
LEMMA EnsureKeeps == ASSUME RelayInv, EnsureRelays PROVE RelayInv'
<1>0. /\ session.n \in Nat /\ track.n \in {0, session.n} /\ session.n >= 1
      /\ relays \in Seq(RelayRecords) /\ decoders \in Seq(DecoderRecords)
      /\ spoken \in Nat /\ watched \in Nat
      /\ \A i \in DOMAIN relays : relays[i].of \in 1..session.n
      /\ \A d \in DOMAIN decoders : decoders[d].in \in 1..session.n
  BY DEF RelayInv, SessionInv, TasksInv, EnsureRelays
<1>1. /\ UNCHANGED <<session, track, mode, spoken>> /\ started' = TRUE /\ ~started /\ session.up
      /\ mode.kinds # {} /\ (Steady' <=> Steady)
  BY DEF EnsureRelays, Steady
<1>2. StartVideo(0) /\ StartAudio(0) /\ 0 \in Nat /\ track'.n \in Nat /\ session'.n \in Nat
  BY <1>0, <1>1 DEF EnsureRelays
<1>3. /\ relays' \in Seq(RelayRecords) /\ watched' \in Nat /\ watched' <= watched + 1
      /\ \E rs : NewRelays(rs)
  BY <1>0, <1>2, VideoStarts
<1>4. decoders' \in Seq(DecoderRecords) /\ \E ds : NewDecoders(ds)
  BY <1>0, <1>2, AudioStarts
<1>5. PICK rs : NewRelays(rs)
  BY <1>3
<1>6. PICK ds : NewDecoders(ds)
  BY <1>4
<1>7. /\ DOMAIN relays' = DOMAIN relays \union rs /\ rs \intersect DOMAIN relays = {}
      /\ \A i \in DOMAIN relays : relays'[i].of = relays[i].of
      /\ \A i \in rs : relays'[i].of = session'.n
      /\ \A i, j \in rs : i = j
      /\ rs # {} => track'.n = session'.n
  BY <1>0, <1>1, <1>5 DEF NewRelays
<1>8. /\ DOMAIN decoders' = DOMAIN decoders \union ds /\ ds \intersect DOMAIN decoders = {}
      /\ \A d \in DOMAIN decoders : decoders'[d].in = decoders[d].in
      /\ \A d \in ds : decoders'[d].in = session'.n
      /\ \A d, e \in ds : d = e
  BY <1>6 DEF NewDecoders
<1>9. Steady => /\ mode.starts = "on_demand"
                /\ \A i \in DOMAIN relays : relays[i].of # session.n
                /\ \A d \in DOMAIN decoders : decoders[d].in # session.n
  BY <1>1 DEF RelayInv, OnceInv
<1>10. SessionInv'
  BY <1>1, <1>3 DEF RelayInv, SessionInv
<1>11. TasksInv'
  <2>1. \A i \in DOMAIN relays' : relays'[i].of \in 1..session'.n
    BY <1>0, <1>1, <1>7
  <2>2. \A d \in DOMAIN decoders' : decoders'[d].in \in 1..session'.n
    BY <1>0, <1>1, <1>8
  <2>. QED BY <1>3, <1>4, <2>1, <2>2 DEF TasksInv
<1>12. Steady' => \/ /\ \A i \in DOMAIN relays : relays[i].of # session'.n
                     /\ \A i, j \in rs : i = j
                  \/ rs = {} /\ session'.n = session.n /\ Steady
  BY <1>1, <1>7, <1>9
<1>13. Steady' => \/ /\ \A d \in DOMAIN decoders : decoders[d].in # session'.n
                     /\ \A d, e \in ds : d = e
                  \/ ds = {} /\ session'.n = session.n /\ Steady
  BY <1>1, <1>8, <1>9
<1>14. Steady' => \A i \in DOMAIN relays' : relays'[i].of = session'.n => started' /\ track'.n = session'.n
  BY <1>1, <1>7, <1>9
<1>15. Steady' => /\ \A i \in DOMAIN relays' : relays'[i].of = session'.n => started' /\ track'.n = session'.n
                  /\ \A d \in DOMAIN decoders' : decoders'[d].in = session'.n => started'
                  /\ mode.starts # "on_demand" => watched' <= 1 /\ (mode.kinds # {} => started')
  BY <1>1, <1>9, <1>14
<1>16. session'.n >= session.n /\ UNCHANGED mode
  BY <1>0, <1>1
<1>. QED BY <1>7, <1>8, <1>10, <1>11, <1>12, <1>13, <1>15, <1>16, StartsKeep

\* One sequence after another.
LEMMA Joined ==
  ASSUME NEW S, NEW s \in Seq(S), NEW t \in Seq(S)
  PROVE  /\ s \o t \in Seq(S) /\ Len(s \o t) = Len(s) + Len(t)
         /\ \A i \in DOMAIN s : (s \o t)[i] = s[i]
         /\ \A i \in (Len(s) + 1) .. (Len(s) + Len(t)) :
              i - Len(s) \in 1..Len(t) /\ (s \o t)[i] = t[i - Len(s)]
OBVIOUS

\* A track that comes late is relayed once, unless the session is being left.
LEMMA TrackKeeps == ASSUME RelayInv, TrackArrives PROVE RelayInv'
<1>0. /\ session.n \in Nat /\ session.n >= 1 /\ session.up /\ track.n = 0 /\ "video" \in mode.kinds
      /\ relays \in Seq(RelayRecords) /\ watched \in Nat
      /\ UNCHANGED <<mode, session, started, watched, decoders, spoken>>
      /\ track' = [n |-> session.n, live |-> TRUE, late |-> TRUE]
  BY DEF RelayInv, SessionInv, TasksInv, TrackArrives
<1>1. SessionInv' /\ (Steady' <=> Steady) /\ track'.n = session'.n
  BY <1>0 DEF RelayInv, SessionInv, Steady
<1>2. CASE mode.starts = "on_demand"
  <2>1. UNCHANGED relays
    BY <1>2 DEF TrackArrives
  <2>2. TasksInv'
    BY <1>0, <2>1 DEF RelayInv, TasksInv
  <2>3. OnceInv'
    BY <1>0, <1>1, <2>1 DEF RelayInv, OnceInv
  <2>. QED BY <1>1, <2>2, <2>3 DEF RelayInv
<1>3. CASE mode.starts # "on_demand"
  <2>. DEFINE more == [i \in 1..watched |-> NewRelay(session.n)]
              rs == (Len(relays) + 1) .. (Len(relays) + watched)
  <2>1. NewRelay(session.n) \in RelayRecords /\ NewRelay(session.n).of = session.n
    BY <1>0 DEF NewRelay, RelayRecords
  <2>2. more \in Seq(RelayRecords) /\ Len(more) = watched /\ \A i \in 1..watched : more[i].of = session.n
    BY <1>0, <2>1
  <2>3. relays' = relays \o more
    BY <1>3 DEF TrackArrives
  <2>. HIDE DEF more
  <2>4. relays' \in Seq(RelayRecords) /\ Len(relays') = Len(relays) + watched
    BY <1>0, <2>2, <2>3, Joined
  <2>5. /\ \A i \in DOMAIN relays : relays'[i] = relays[i]
        /\ \A i \in rs : i - Len(relays) \in 1..watched /\ relays'[i] = more[i - Len(relays)]
    BY <1>0, <2>2, <2>3, Joined
  <2>6. DOMAIN relays' = DOMAIN relays \union rs /\ rs \intersect DOMAIN relays = {}
    BY <1>0, <2>4
  <2>7. \A i \in rs : relays'[i].of = session'.n
    BY <1>0, <2>2, <2>5
  <2>8. TasksInv'
    <3>1. \A i \in DOMAIN relays' : relays'[i].of \in 1..session'.n
      BY <1>0, <2>5, <2>6, <2>7 DEF RelayInv, TasksInv
    <3>. QED BY <1>0, <2>4, <3>1 DEF RelayInv, TasksInv
  <2>9. Steady => /\ \A i \in DOMAIN relays : relays[i].of # session.n
                  /\ watched <= 1 /\ started
    BY <1>0, <1>3 DEF RelayInv, OnceInv
  <2>10. Steady => \A i, j \in rs : i = j
    BY <1>0, <2>9
  <2>. HIDE DEF rs
  <2>11. Steady => /\ \A i \in DOMAIN relays' : relays'[i].of = session'.n => started' /\ track'.n = session'.n
                   /\ \A d \in DOMAIN decoders' : decoders'[d].in = session'.n => started'
                   /\ mode.starts # "on_demand" => watched' <= 1 /\ (mode.kinds # {} => started')
    BY <1>0, <1>1, <2>9
  <2>12. /\ DOMAIN decoders' = DOMAIN decoders \union {} /\ {} \intersect DOMAIN decoders = {}
         /\ \A d \in DOMAIN decoders : decoders'[d].in = decoders[d].in
         /\ session'.n >= session.n /\ session'.n = session.n
         /\ \A i \in DOMAIN relays : relays'[i].of = relays[i].of
    BY <1>0, <2>5
  <2>. DEFINE ds == {}
  <2>13. /\ DOMAIN decoders' = DOMAIN decoders \union ds /\ ds \intersect DOMAIN decoders = {} /\ ds = {}
         /\ \A d \in ds : decoders'[d].in = session'.n
    BY <2>12
  <2>. HIDE DEF ds
  <2>14. Steady' => \/ /\ \A i \in DOMAIN relays : relays[i].of # session'.n
                       /\ \A i, j \in rs : i = j
                    \/ rs = {} /\ session'.n = session.n /\ Steady
    BY <1>1, <2>9, <2>10, <2>12
  <2>15. Steady' => \/ /\ \A d \in DOMAIN decoders : decoders[d].in # session'.n
                       /\ \A d, e \in ds : d = e
                    \/ ds = {} /\ session'.n = session.n /\ Steady
    BY <1>1, <2>12, <2>13
  <2>16. Steady' => /\ \A i \in DOMAIN relays' : relays'[i].of = session'.n => started' /\ track'.n = session'.n
                    /\ \A d \in DOMAIN decoders' : decoders'[d].in = session'.n => started'
                    /\ mode.starts # "on_demand" => watched' <= 1 /\ (mode.kinds # {} => started')
    BY <1>1, <2>11
  <2>17. UNCHANGED mode
    BY <1>0
  <2>. QED BY <1>1, <2>6, <2>7, <2>8, <2>12, <2>13, <2>14, <2>15, <2>16, <2>17, StartsKeep
<1>. QED BY <1>2, <1>3

\* Nothing starts in a session that goes on.
LEMMA Quiet ==
  ASSUME RelayInv, SameTasks, UNCHANGED <<mode, session, started, watched, track>>, spoken' \in Nat
  PROVE  RelayInv'
<1>1. SessionInv' /\ session'.n = session.n /\ (Steady' => Steady)
      /\ UNCHANGED <<started, watched, mode>> /\ track'.n = track.n
  BY DEF RelayInv, SessionInv, Steady
<1>. QED BY <1>1, SameKeeps

\* A relay goes on.
LEMMA RelayGoesOn ==
  ASSUME RelayInv, NEW i \in DOMAIN relays, NEW from, NEW to \in {"first", "drain", "stream", "closing", "over"},
         RelayGoes(i, from, to)
  PROVE  RelayInv'
<1>1. /\ relays' = [relays EXCEPT ![i].does = to] /\ UNCHANGED decoders
      /\ UNCHANGED <<mode, session, started, watched, track>> /\ UNCHANGED spoken
  BY DEF RelayGoes
<1>2. SameTasks
  BY <1>1, RelayMoves
<1>3. spoken' \in Nat
  BY <1>1 DEF RelayInv, SessionInv
<1>. QED BY <1>1, <1>2, <1>3, Quiet

\* A decoder goes on, with its queue.
LEMMA DecoderGoesOn ==
  ASSUME RelayInv, NEW d \in DOMAIN decoders, NEW x \in DecoderRecords, x.in = decoders[d].in,
         decoders' = [decoders EXCEPT ![d] = x],
         UNCHANGED <<mode, session, started, watched, track, relays>>, spoken' \in Nat
  PROVE  RelayInv'
<1>1. UNCHANGED relays /\ UNCHANGED <<mode, session, started, watched, track>>
  OBVIOUS
<1>2. SameTasks
  BY <1>1, DecoderMoves
<1>. QED BY <1>1, <1>2, Quiet

\* A decoder whose process or session is over ends.
LEMMA DecoderGoesKeeps ==
  ASSUME RelayInv, NEW d \in DOMAIN decoders, NEW from, NEW to \in {"listen", "end", "wait", "over"},
         DecoderGoes(d, from, to)
  PROVE  RelayInv'
<1>. DEFINE x == [decoders[d] EXCEPT !.does = to]
<1>1. decoders[d] \in DecoderRecords /\ spoken \in Nat
  BY DEF RelayInv, TasksInv, SessionInv
<1>2. x \in DecoderRecords /\ x.in = decoders[d].in
  BY <1>1 DEF DecoderRecords
<1>3. /\ decoders' = [decoders EXCEPT ![d] = x]
      /\ UNCHANGED <<mode, session, started, watched, track, relays>> /\ spoken' \in Nat
  BY <1>1 DEF DecoderGoes
<1>. HIDE DEF x
<1>. QED BY <1>2, <1>3, DecoderGoesOn

\* A piece of speech enters the queue.
LEMMA SpeakKeeps == ASSUME RelayInv, NEW d \in DOMAIN decoders, Speak(d) PROVE RelayInv'
<1>1. decoders[d] \in DecoderRecords /\ spoken \in Nat /\ spoken + 1 \in Nat
  BY DEF RelayInv, TasksInv, SessionInv
<1>2. decoders[d].queue \in Seq(Nat)
  BY <1>1 DEF DecoderRecords
<1>. DEFINE q == Push(decoders[d].queue, spoken + 1)
            x == [decoders[d] EXCEPT !.queue = q]
<1>3. q \in Seq(Nat)
  BY <1>1, <1>2, PushShape
<1>4. /\ decoders' = [decoders EXCEPT ![d] = x]
      /\ UNCHANGED <<mode, session, started, watched, track, relays>> /\ spoken' \in Nat
  BY <1>1 DEF Speak
<1>. HIDE DEF q
<1>5. x \in DecoderRecords /\ x.in = decoders[d].in
  BY <1>1, <1>3 DEF DecoderRecords
<1>. HIDE DEF x
<1>. QED BY <1>4, <1>5, DecoderGoesOn

\* The end enters the queue when there is room.
LEMMA PutEndKeeps == ASSUME RelayInv, NEW d \in DOMAIN decoders, PutEnd(d) PROVE RelayInv'
<1>1. decoders[d] \in DecoderRecords /\ spoken \in Nat /\ End \in Nat
  BY DEF RelayInv, TasksInv, SessionInv, End
<1>. DEFINE q == Append(decoders[d].queue, End)
            x == [decoders[d] EXCEPT !.does = "wait", !.queue = q]
<1>2. q \in Seq(Nat)
  BY <1>1 DEF DecoderRecords
<1>3. /\ decoders' = [decoders EXCEPT ![d] = x]
      /\ UNCHANGED <<mode, session, started, watched, track, relays>> /\ spoken' \in Nat
  BY <1>1 DEF PutEnd
<1>. HIDE DEF q
<1>4. x \in DecoderRecords /\ x.in = decoders[d].in
  BY <1>1, <1>2 DEF DecoderRecords
<1>. HIDE DEF x
<1>. QED BY <1>3, <1>4, DecoderGoesOn

\* The robot takes from the queue.
LEMMA RobotPlaysKeeps == ASSUME RelayInv, RobotPlays PROVE RelayInv'
<1>. DEFINE d == Len(decoders)
            q == Tail(decoders[d].queue)
            h == IF Head(decoders[d].queue) = End THEN decoders[d].heard ELSE Head(decoders[d].queue)
            x == [decoders[d] EXCEPT !.queue = q, !.heard = h]
<1>1. decoders \in Seq(DecoderRecords) /\ decoders # <<>> /\ spoken \in Nat /\ decoders[d].queue # <<>>
  BY DEF RelayInv, TasksInv, SessionInv, RobotPlays
<1>2. d \in DOMAIN decoders /\ decoders[d] \in DecoderRecords
  BY <1>1
<1>3. /\ decoders' = [decoders EXCEPT ![d] = x]
      /\ UNCHANGED <<mode, session, started, watched, track, relays>> /\ spoken' \in Nat
  BY <1>1 DEF RobotPlays
<1>. HIDE DEF d
<1>4. decoders[d].queue \in Seq(Nat) /\ decoders[d].heard \in Nat
  BY <1>2 DEF DecoderRecords
<1>5. q \in Seq(Nat) /\ h \in Nat
  BY <1>1, <1>4
<1>. HIDE DEF q, h
<1>6. x \in DecoderRecords /\ x.in = decoders[d].in
  BY <1>2, <1>5 DEF DecoderRecords
<1>. HIDE DEF x
<1>. QED BY <1>2, <1>3, <1>6, DecoderGoesOn

\* What the connection goes through.
LEMMA SessionSteps == ASSUME RelayInv, TrackStops \/ BeginLeave \/ Leave PROVE RelayInv'
<1>1. SameTasks
  BY NothingMoves DEF TrackStops, BeginLeave, Leave
<1>2. CASE TrackStops
  <2>1. SessionInv' /\ session'.n = session.n /\ (Steady' => Steady)
        /\ UNCHANGED <<started, watched, mode>> /\ track'.n = track.n
    BY <1>2 DEF RelayInv, SessionInv, Steady, TrackStops
  <2>. QED BY <1>1, <2>1, SameKeeps
<1>3. CASE BeginLeave
  <2>1. SessionInv' /\ session'.n = session.n /\ ~Steady'
    BY <1>3 DEF RelayInv, SessionInv, Steady, BeginLeave
  <2>. QED BY <1>1, <2>1, SameKeeps
<1>4. CASE Leave
  <2>1. SessionInv' /\ session'.n = session.n /\ ~Steady'
    BY <1>4 DEF RelayInv, SessionInv, Steady, Leave
  <2>. QED BY <1>1, <2>1, SameKeeps
<1>. QED BY <1>2, <1>3, <1>4

\* Every step of the relays keeps what is started once.
LEMMA RelayNextInv == ASSUME RelayInv, [RelayNext]_relayVars PROVE RelayInv'
<1>0. spoken \in Nat
  BY DEF RelayInv, SessionInv
<1>1. CASE UNCHANGED relayVars
  <2>1. SameTasks /\ spoken' \in Nat /\ UNCHANGED <<mode, session, started, watched, track>>
    BY <1>0, <1>1, NothingMoves DEF relayVars
  <2>. QED BY <2>1, Quiet
<1>2. CASE Connect \/ EnsureRelays \/ TrackArrives
  BY <1>2, ConnectKeeps, EnsureKeeps, TrackKeeps
<1>3. CASE TrackStops \/ BeginLeave \/ Leave
  BY <1>3, SessionSteps
<1>4. CASE RelayWorks
  <2>1. PICK i \in DOMAIN relays : FirstFrame(i) \/ RelayEnds(i) \/ EncoderEnds(i)
    BY <1>4 DEF RelayWorks
  <2>. QED BY <2>1, RelayGoesOn DEF FirstFrame, RelayEnds, EncoderEnds
<1>5. CASE \E i \in DOMAIN relays : EncoderBreaks(i)
  BY <1>5, RelayGoesOn DEF EncoderBreaks
<1>6. CASE DecoderWorks
  <2>1. PICK d \in DOMAIN decoders : DecoderStops(d) \/ PutEnd(d) \/ EndRaises(d) \/ DecoderEnds(d)
    BY <1>6 DEF DecoderWorks
  <2>. QED BY <2>1, DecoderGoesKeeps, PutEndKeeps DEF DecoderStops, EndRaises, DecoderEnds
<1>7. CASE \/ EncodeVoice \/ VoiceBreaks \/ ProcessBreaks \/ RobotSpeaks
           \/ \E b \in Browsers : Attach(b) \/ CloseBrowser(b) \/ BrowserPlays(b)
  <2>1. /\ UNCHANGED <<relays, decoders>> /\ UNCHANGED <<mode, session, started, watched, track>>
        /\ spoken' = spoken \/ spoken' = spoken + 1
    <3>1. CASE EncodeVoice
      BY <3>1 DEF EncodeVoice
    <3>2. CASE VoiceBreaks
      BY <3>2 DEF VoiceBreaks
    <3>3. CASE ProcessBreaks
      BY <3>3 DEF ProcessBreaks
    <3>4. CASE RobotSpeaks
      BY <3>4 DEF RobotSpeaks
    <3>5. CASE \E b \in Browsers : Attach(b) \/ CloseBrowser(b) \/ BrowserPlays(b)
      BY <3>5 DEF Attach, CloseBrowser, BrowserPlays, Audience
    <3>. QED BY <1>7, <3>1, <3>2, <3>3, <3>4, <3>5
  <2>2. spoken' \in Nat
    BY <1>0, <2>1
  <2>. QED BY <2>1, <2>2, NothingMoves, Quiet
<1>8. CASE RobotPlays
  BY <1>8, RobotPlaysKeeps
<1>9. CASE \E d \in DOMAIN decoders : Speak(d)
  BY <1>9, SpeakKeeps
<1>. QED BY <1>1, <1>2, <1>3, <1>4, <1>5, <1>6, <1>7, <1>8, <1>9 DEF RelayNext

\* Nothing has been started yet.
LEMMA RelayInitInv == RelayInit => RelayInv
<1>. SUFFICES ASSUME RelayInit PROVE RelayInv
  OBVIOUS
<1>1. /\ session = [n |-> 0, up |-> FALSE, leaving |-> FALSE]
      /\ started = FALSE /\ watched = 0 /\ track = [n |-> 0, live |-> FALSE, late |-> FALSE]
      /\ relays = <<>> /\ decoders = <<>> /\ spoken = 0
  BY DEF RelayInit
<1>2. session.n = 0 /\ ~session.up /\ ~session.leaving /\ ~track.live /\ track.n = 0
  BY <1>1
<1>3. session \in [n: Nat, up: BOOLEAN, leaving: BOOLEAN]
      /\ track \in [n: {0, session.n}, live: BOOLEAN, late: BOOLEAN]
  BY <1>1, <1>2
<1>4. SessionInv
  BY <1>1, <1>2, <1>3 DEF SessionInv
<1>5. TasksInv /\ OnceInv
  BY <1>1, <1>2 DEF TasksInv, OnceInv, Steady
<1>. QED BY <1>4, <1>5 DEF RelayInv

\* What all members of a set are, it has at most one of.
LEMMA AtMostOne ==
  ASSUME NEW S, \A x, y \in S : x = y
  PROVE  Cardinality(S) <= 1
<1>1. CASE S = {}
  BY <1>1, FS_EmptySet
<1>2. CASE S # {}
  <2>1. PICK x : x \in S
    BY <1>2
  <2>2. S = {x}
    BY <2>1
  <2>. QED BY <2>2, FS_Singleton
<1>. QED BY <1>1, <1>2

\* One task empties the robot's track, and one decoder fills its speaker.
LEMMA RelaysAreSingle == RelayInv => OneRelayPerTrack
<1>. SUFFICES ASSUME RelayInv, session.up, ~session.leaving
              PROVE  /\ track.live => Cardinality({i \in DOMAIN relays : Empties(i)}) <= 1
                     /\ Cardinality({d \in DOMAIN decoders : decoders[d].in = session.n}) <= 1
  BY DEF OneRelayPerTrack
<1>0. Steady
  BY DEF Steady
<1>. DEFINE R == {i \in DOMAIN relays : Empties(i)}
            D == {d \in DOMAIN decoders : decoders[d].in = session.n}
<1>1. ASSUME track.live PROVE Cardinality(R) <= 1
  <2>1. \A i, j \in R : i = j
    BY <1>0, <1>1 DEF RelayInv, SessionInv, OnceInv, Empties
  <2>. HIDE DEF R
  <2>. QED BY <2>1, AtMostOne
<1>2. Cardinality(D) <= 1
  <2>1. \A d, e \in D : d = e
    BY <1>0 DEF RelayInv, OnceInv
  <2>. HIDE DEF D
  <2>. QED BY <2>1, AtMostOne
<1>. QED BY <1>1, <1>2

-----------------------------------------------------------------------------
(* The voice.                                                              *)

\* A queue of speech when piece s is the newest: what waits is yet to be heard, in its
\* order, and nothing that came after it has been left out.
Line(q, heard, s) ==
  /\ q \in Seq(Nat) /\ Len(q) <= QueueLimit /\ heard \in Nat /\ heard <= s
  /\ \A j \in 1..Len(q) : q[j] # End => heard < q[j] /\ q[j] <= s /\ s <= q[j] + (Len(q) - j)
  /\ \A i, j \in 1..Len(q) : i < j /\ q[i] # End /\ q[j] # End => q[i] < q[j]

\* Only the decoder that listens is spoken to: unless it is the newest, the newest has
\* nothing to play.  Decoders and browsers' tracks do not occur together.
SpeakerInv ==
  /\ port \in 0..Len(decoders) /\ (mode.starts = "gateway" => decoders = <<>>)
  /\ decoders # <<>> =>
       /\ Line(decoders[Len(decoders)].queue, decoders[Len(decoders)].heard, spoken)
       /\ port \notin {0, Len(decoders)} =>
            \A j \in 1..Len(decoders[Len(decoders)].queue) : decoders[Len(decoders)].queue[j] = End

AudienceRecords == [is: {"none", "open", "gone"}, of: Nat, said: Nat, queue: Seq(Nat), heard: Nat]
AudienceInv ==
  /\ audience \in [Browsers -> AudienceRecords]
  /\ \A b \in Browsers :
       /\ audience[b].is = "none" => audience[b].heard = 0
       /\ Line(audience[b].queue, audience[b].heard, audience[b].said)
       /\ \A j \in 1..Len(audience[b].queue) : audience[b].queue[j] # End

\* The oldest piece is dropped: the others are no further behind.
LEMMA TailLine ==
  ASSUME NEW q, NEW h, NEW s \in Nat, Line(q, h, s), q # <<>>
  PROVE  /\ Tail(q) \in Seq(Nat) /\ Len(Tail(q)) = Len(q) - 1
         /\ \A j \in 1..Len(Tail(q)) : Tail(q)[j] = q[j + 1] /\ j + 1 \in 1..Len(q)
         /\ Line(Tail(q), h, s)
<1>1. q \in Seq(Nat) /\ Len(q) \in Nat /\ h \in Nat /\ h <= s
  BY DEF Line
<1>2. Tail(q) \in Seq(Nat) /\ Len(Tail(q)) = Len(q) - 1
  BY <1>1
<1>3. \A j \in 1..Len(Tail(q)) : Tail(q)[j] = q[j + 1] /\ j + 1 \in 1..Len(q) /\ q[j + 1] \in Nat
  BY <1>1, <1>2
<1>. DEFINE t == Tail(q)
<1>. HIDE DEF t
<1>4. /\ t \in Seq(Nat) /\ Len(t) = Len(q) - 1
      /\ \A j \in 1..Len(t) : t[j] = q[j + 1] /\ j + 1 \in 1..Len(q) /\ q[j + 1] \in Nat
  BY <1>2, <1>3 DEF t
<1>5. \A j \in 1..Len(t) : t[j] # End => h < t[j] /\ t[j] <= s /\ s <= t[j] + (Len(t) - j)
  <2>. SUFFICES ASSUME NEW j \in 1..Len(t), t[j] # End
                PROVE  h < t[j] /\ t[j] <= s /\ s <= t[j] + (Len(t) - j)
    OBVIOUS
  <2>1. q[j + 1] # End /\ j + 1 \in 1..Len(q)
    BY <1>4
  <2>2. h < q[j + 1] /\ q[j + 1] <= s /\ s <= q[j + 1] + (Len(q) - (j + 1))
    BY <2>1 DEF Line
  <2>3. t[j] = q[j + 1] /\ Len(t) - j = Len(q) - (j + 1)
    BY <1>1, <1>4
  <2>. QED BY <2>2, <2>3
<1>6. \A i, j \in 1..Len(t) : i < j /\ t[i] # End /\ t[j] # End => t[i] < t[j]
  <2>. SUFFICES ASSUME NEW i \in 1..Len(t), NEW j \in 1..Len(t), i < j, t[i] # End, t[j] # End PROVE t[i] < t[j]
    OBVIOUS
  <2>1. i + 1 < j + 1 /\ i + 1 \in 1..Len(q) /\ j + 1 \in 1..Len(q) /\ q[i + 1] # End /\ q[j + 1] # End
    BY <1>4
  <2>2. q[i + 1] < q[j + 1]
    BY <2>1 DEF Line
  <2>. QED BY <1>4, <2>2
<1>7. Len(t) <= QueueLimit
  BY <1>1, <1>4, RelayAssumption DEF Line
<1>8. Line(t, h, s)
  BY <1>1, <1>4, <1>5, <1>6, <1>7 DEF Line
<1>. QED BY <1>2, <1>3, <1>8 DEF t

\* A piece that is the newest, or the end, joins a queue that has room.
LEMMA AppendLine ==
  ASSUME NEW q, NEW h, NEW s \in Nat, Line(q, h, s), Len(q) < QueueLimit
  PROVE  Line(Append(q, End), h, s) /\ Line(Append(q, s + 1), h, s + 1)
<1>1. q \in Seq(Nat) /\ Len(q) \in Nat /\ h \in Nat /\ h <= s
  BY DEF Line
<1>2. ASSUME NEW x \in Nat, NEW r \in Nat, (x = End /\ r = s) \/ (x = s + 1 /\ r = s + 1)
      PROVE  Line(Append(q, x), h, r)
  <2>. DEFINE a == Append(q, x)
  <2>1. /\ a \in Seq(Nat) /\ Len(a) = Len(q) + 1 /\ a[Len(q) + 1] = x
        /\ \A j \in 1..Len(q) : a[j] = q[j] /\ q[j] \in Nat
    BY <1>1
  <2>. HIDE DEF a
  <2>2. \A j \in 1..Len(a) : a[j] # End => h < a[j] /\ a[j] <= r /\ r <= a[j] + (Len(a) - j)
    <3>. SUFFICES ASSUME NEW j \in 1..Len(a), a[j] # End
                  PROVE  h < a[j] /\ a[j] <= r /\ r <= a[j] + (Len(a) - j)
      OBVIOUS
    <3>1. CASE j = Len(q) + 1
      BY <1>1, <1>2, <2>1, <3>1
    <3>2. CASE j \in 1..Len(q)
      <4>1. h < q[j] /\ q[j] <= s /\ s <= q[j] + (Len(q) - j)
        BY <2>1, <3>2 DEF Line
      <4>2. a[j] = q[j] /\ q[j] \in Nat /\ Len(a) - j = Len(q) - j + 1 /\ Len(q) - j \in Nat
        BY <1>1, <2>1, <3>2
      <4>3. q[j] <= r /\ r <= q[j] + (Len(q) - j + 1)
        BY <1>2, <4>1, <4>2
      <4>. QED BY <4>1, <4>2, <4>3
    <3>. QED BY <1>1, <2>1, <3>1, <3>2
  <2>3. \A i, j \in 1..Len(a) : i < j /\ a[i] # End /\ a[j] # End => a[i] < a[j]
    <3>. SUFFICES ASSUME NEW i \in 1..Len(a), NEW j \in 1..Len(a), i < j, a[i] # End, a[j] # End PROVE a[i] < a[j]
      OBVIOUS
    <3>0. i \in 1..Len(q) /\ a[i] = q[i] /\ q[i] \in Nat /\ q[i] <= s
      <4>1. i \in 1..Len(q)
        BY <1>1, <2>1
      <4>. QED BY <2>1, <4>1 DEF Line
    <3>1. CASE j = Len(q) + 1
      BY <1>2, <2>1, <3>0, <3>1
    <3>2. CASE j \in 1..Len(q)
      <4>1. q[i] < q[j]
        BY <2>1, <3>0, <3>2 DEF Line
      <4>. QED BY <2>1, <3>0, <3>2, <4>1
    <3>. QED BY <1>1, <2>1, <3>1, <3>2, SMTT(30)
  <2>4. Len(a) <= QueueLimit /\ h <= r
    BY <1>1, <1>2, <2>1, RelayAssumption
  <2>5. Line(a, h, r)
    BY <1>1, <2>1, <2>2, <2>3, <2>4 DEF Line
  <2>. QED BY <2>5 DEF a
<1>3. End \in Nat /\ s + 1 \in Nat
  BY DEF End
<1>4. Line(Append(q, End), h, s)
  BY <1>2, <1>3, Zenon
<1>5. Line(Append(q, s + 1), h, s + 1)
  BY <1>2, <1>3
<1>. QED BY <1>4, <1>5

\* A piece joins a queue, of which the oldest makes room if need be.
LEMMA PushLine ==
  ASSUME NEW q, NEW h, NEW s \in Nat, Line(q, h, s)
  PROVE  Line(Push(q, s + 1), h, s + 1)
<1>1. q \in Seq(Nat) /\ Len(q) \in Nat /\ Len(q) <= QueueLimit /\ QueueLimit \in Nat \ {0}
  BY RelayAssumption DEF Line
<1>2. CASE Len(q) < QueueLimit
  BY <1>2, AppendLine DEF Push
<1>3. CASE ~(Len(q) < QueueLimit)
  <2>1. q # <<>>
    BY <1>1, <1>3
  <2>2. Line(Tail(q), h, s) /\ Len(Tail(q)) < QueueLimit
    BY <1>1, <2>1, TailLine
  <2>. QED BY <1>3, <2>2, AppendLine DEF Push
<1>. QED BY <1>2, <1>3

\* A piece is taken: it is newer than what was heard, and among the last that were said.
LEMMA TakeLine ==
  ASSUME NEW q, NEW h, NEW s \in Nat, Line(q, h, s), q # <<>>
  PROVE  /\ Head(q) = End => Line(Tail(q), h, s)
         /\ Head(q) # End => /\ Line(Tail(q), Head(q), s)
                             /\ Head(q) > h /\ Head(q) + QueueLimit > s
<1>1. q \in Seq(Nat) /\ Len(q) \in Nat \ {0} /\ Len(q) <= QueueLimit /\ QueueLimit \in Nat /\ h \in Nat
  BY RelayAssumption DEF Line
<1>2. Head(q) = q[1] /\ 1 \in 1..Len(q) /\ q[1] \in Nat
  BY <1>1
<1>3. Line(Tail(q), h, s)
  BY TailLine
<1>4. ASSUME q[1] # End PROVE Line(Tail(q), q[1], s) /\ q[1] > h /\ q[1] + QueueLimit > s
  <2>1. h < q[1] /\ q[1] <= s /\ s <= q[1] + (Len(q) - 1)
    BY <1>2, <1>4 DEF Line
  <2>2. q[1] > h /\ q[1] + QueueLimit > s
    BY <1>1, <1>2, <2>1
  <2>. DEFINE t == Tail(q)
  <2>3. /\ \A j \in 1..Len(t) : t[j] = q[j + 1] /\ j + 1 \in 1..Len(q)
        /\ Line(t, h, s)
    BY TailLine
  <2>. HIDE DEF t
  <2>4. \A j \in 1..Len(t) : t[j] # End => q[1] < t[j]
    <3>. SUFFICES ASSUME NEW j \in 1..Len(t), t[j] # End PROVE q[1] < t[j]
      OBVIOUS
    <3>1. j + 1 \in 1..Len(q) /\ q[j + 1] # End /\ 1 < j + 1 /\ t[j] = q[j + 1]
      BY <2>3
    <3>. QED BY <1>2, <1>4, <3>1 DEF Line
  <2>5. Line(t, q[1], s)
    BY <1>2, <2>1, <2>3, <2>4 DEF Line
  <2>. QED BY <2>2, <2>5 DEF t
<1>. QED BY <1>2, <1>3, <1>4

\* A queue that holds speech only still does when a piece joins it.
LEMMA PushedSpeech ==
  ASSUME NEW q \in Seq(Nat), NEW s \in Nat, \A j \in 1..Len(q) : q[j] # End
  PROVE  \A j \in 1..Len(Push(q, s + 1)) : Push(q, s + 1)[j] # End
<1>0. s + 1 # End /\ s + 1 \in Nat
  BY DEF End
<1>1. ASSUME NEW t \in Seq(Nat), \A j \in 1..Len(t) : t[j] # End
      PROVE  \A j \in 1..Len(Append(t, s + 1)) : Append(t, s + 1)[j] # End
  BY <1>0, <1>1
<1>2. CASE Len(q) < QueueLimit
  <2>1. Push(q, s + 1) = Append(q, s + 1)
    BY <1>2 DEF Push
  <2>. QED BY <1>1, <2>1
<1>3. CASE ~(Len(q) < QueueLimit)
  <2>. DEFINE t == Tail(q)
  <2>1. q # <<>>
    BY <1>3, RelayAssumption
  <2>2. t \in Seq(Nat) /\ \A j \in 1..Len(t) : t[j] # End
    BY <2>1
  <2>3. Push(q, s + 1) = Append(t, s + 1)
    BY <1>3 DEF Push
  <2>. HIDE DEF t
  <2>. QED BY <1>1, <2>2, <2>3
<1>. QED BY <1>2, <1>3

\* A queue without speech in it may be left behind.
LEMMA IdleLine ==
  ASSUME NEW q, NEW h, NEW s \in Nat, Line(q, h, s), \A j \in 1..Len(q) : q[j] = End
  PROVE  Line(q, h, s + 1)
BY DEF Line

\* Nothing waits at first.
LEMMA EmptyLine == ASSUME NEW s \in Nat PROVE Line(<<>>, 0, s)
BY RelayAssumption DEF Line

\* What a step lets be heard on the robot and in the browsers.
RobotHears == \A d \in DOMAIN decoders : Fresh(decoders[d].heard, decoders'[d].heard, spoken)
BrowsersHear == \A b \in Browsers : Fresh(audience[b].heard, audience'[b].heard, audience[b].said)

\* The newest decoder has a queue in order again, or goes on with the one it had.
LEMMA SpeakerKept ==
  ASSUME SpeakerInv, RelayInv, RelayInv', UNCHANGED mode, Len(decoders') = Len(decoders),
         port' \in {0, port},
         decoders # <<>> =>
           /\ Line(decoders'[Len(decoders)].queue, decoders'[Len(decoders)].heard, spoken')
           /\ port \notin {0, Len(decoders)} =>
                \A j \in 1..Len(decoders'[Len(decoders)].queue) : decoders'[Len(decoders)].queue[j] = End
  PROVE  SpeakerInv'
<1>1. decoders \in Seq(DecoderRecords) /\ decoders' \in Seq(DecoderRecords)
  BY DEF RelayInv, TasksInv
<1>2. (decoders' = <<>>) <=> (decoders = <<>>)
  BY <1>1
<1>3. port' \in 0..Len(decoders') /\ (mode'.starts = "gateway" => decoders' = <<>>)
  BY <1>1, <1>2 DEF SpeakerInv
<1>4. ASSUME decoders' # <<>>
      PROVE  /\ Line(decoders'[Len(decoders')].queue, decoders'[Len(decoders')].heard, spoken')
             /\ port' \notin {0, Len(decoders')} =>
                  \A j \in 1..Len(decoders'[Len(decoders')].queue) : decoders'[Len(decoders')].queue[j] = End
  BY <1>2, <1>4
<1>. QED BY <1>3, <1>4, Zenon DEF SpeakerInv

\* The last of the decoders is one.
LEMMA NewestIsOne ==
  ASSUME RelayInv, decoders # <<>>
  PROVE  /\ decoders \in Seq(DecoderRecords) /\ Len(decoders) \in DOMAIN decoders
         /\ decoders[Len(decoders)] \in DecoderRecords
BY DEF RelayInv, TasksInv

\* Decoders that only go on keep what they hold.
LEMMA SpeakerRests ==
  ASSUME SpeakerInv, RelayInv, RelayInv', UNCHANGED <<mode, spoken>>, port' \in {0, port},
         Len(decoders') = Len(decoders),
         \A d \in DOMAIN decoders :
           decoders'[d].queue = decoders[d].queue /\ decoders'[d].heard = decoders[d].heard
  PROVE  SpeakerInv' /\ RobotHears
<1>1. RobotHears
  BY DEF RobotHears, Fresh
<1>2. decoders # <<>> =>
           /\ Line(decoders'[Len(decoders)].queue, decoders'[Len(decoders)].heard, spoken')
           /\ port \notin {0, Len(decoders)} =>
                \A j \in 1..Len(decoders'[Len(decoders)].queue) : decoders'[Len(decoders)].queue[j] = End
  BY NewestIsOne DEF SpeakerInv
<1>. QED BY <1>1, <1>2, SpeakerKept, Zenon

\* One decoder has another queue, or has heard more of it.
LEMMA SpeakerMoves ==
  ASSUME SpeakerInv, RelayInv, RelayInv', UNCHANGED <<mode, port>>, spoken \in Nat,
         NEW d \in DOMAIN decoders, NEW x, decoders' = [decoders EXCEPT ![d] = x],
         d = Len(decoders) =>
           /\ Line(x.queue, x.heard, spoken')
           /\ port \notin {0, d} => \A j \in 1..Len(x.queue) : x.queue[j] = End,
         d # Len(decoders) => (port = d /\ spoken' = spoken + 1) \/ spoken' = spoken,
         Fresh(decoders[d].heard, x.heard, spoken)
  PROVE  SpeakerInv' /\ RobotHears
<1>1. /\ decoders \in Seq(DecoderRecords) /\ decoders # <<>> /\ Len(decoders') = Len(decoders)
      /\ Len(decoders) \in DOMAIN decoders /\ DOMAIN decoders = 1..Len(decoders)
      /\ decoders'[d] = x /\ \A k \in DOMAIN decoders : k # d => decoders'[k] = decoders[k]
  BY DEF RelayInv, TasksInv
<1>2. RobotHears
  BY <1>1 DEF RobotHears, Fresh
<1>3. CASE d = Len(decoders)
  <2>1. decoders'[Len(decoders)] = x
    BY <1>1, <1>3
  <2>2. Line(x.queue, x.heard, spoken')
        /\ (port \notin {0, Len(decoders)} => \A j \in 1..Len(x.queue) : x.queue[j] = End)
    BY <1>3
  <2>3. UNCHANGED mode /\ port' \in {0, port}
    OBVIOUS
  <2>. QED BY <1>1, <1>2, <2>1, <2>2, <2>3, SpeakerKept
<1>4. CASE d # Len(decoders)
  <2>1. decoders'[Len(decoders)] = decoders[Len(decoders)]
    BY <1>1, <1>4
  <2>2. /\ Line(decoders[Len(decoders)].queue, decoders[Len(decoders)].heard, spoken)
        /\ port \notin {0, Len(decoders)} =>
             \A j \in 1..Len(decoders[Len(decoders)].queue) : decoders[Len(decoders)].queue[j] = End
    BY <1>1 DEF SpeakerInv
  <2>3. Line(decoders[Len(decoders)].queue, decoders[Len(decoders)].heard, spoken')
    <3>1. CASE spoken' = spoken
      BY <2>2, <3>1
    <3>2. CASE port = d /\ spoken' = spoken + 1
      <4>1. port \notin {0, Len(decoders)}
        BY <1>1, <1>4, <3>2
      <4>. QED BY <2>2, <3>2, <4>1, IdleLine
    <3>. QED BY <1>4, <3>1, <3>2
  <2>. QED BY <1>1, <1>2, <2>1, <2>2, <2>3, SpeakerKept
<1>. QED BY <1>2, <1>3, <1>4

\* Decoders are started with nothing in their queues.
LEMMA SpeakerStarts ==
  ASSUME SpeakerInv, RelayInv, RelayInv', UNCHANGED <<mode, spoken>>, NEW loop, StartAudio(loop)
  PROVE  SpeakerInv' /\ RobotHears
<1>0. decoders \in Seq(DecoderRecords) /\ spoken \in Nat
  BY DEF RelayInv, TasksInv, SessionInv
<1>1. CASE mode.starts = "gateway" \/ "audio" \notin mode.kinds
  <2>1. UNCHANGED <<decoders, port>>
    BY <1>1 DEF StartAudio
  <2>. QED BY <2>1, SpeakerRests
<1>2. CASE ~(mode.starts = "gateway" \/ "audio" \notin mode.kinds)
  <2>. DEFINE x == [in |-> session'.n, loop |-> loop, does |-> "listen", queue |-> <<>>, heard |-> 0]
  <2>1. decoders' = Append(decoders, x) /\ port' = (IF port = 0 THEN Len(decoders') ELSE port)
    BY <1>2 DEF StartAudio
  <2>2. x.queue = <<>> /\ x.heard = 0
    OBVIOUS
  <2>. HIDE DEF x
  <2>3. /\ Len(decoders') = Len(decoders) + 1 /\ decoders'[Len(decoders')] = x /\ decoders' # <<>>
        /\ \A d \in DOMAIN decoders : decoders'[d] = decoders[d]
    BY <1>0, <2>1
  <2>4. RobotHears
    BY <2>3 DEF RobotHears, Fresh
  <2>5. port' \in 0..Len(decoders') /\ mode'.starts # "gateway"
    BY <1>0, <1>2, <2>1, <2>3 DEF SpeakerInv
  <2>6. Line(decoders'[Len(decoders')].queue, decoders'[Len(decoders')].heard, spoken')
    BY <1>0, <2>2, <2>3, EmptyLine
  <2>7. \A j \in 1..Len(decoders'[Len(decoders')].queue) : decoders'[Len(decoders')].queue[j] = End
    BY <2>2, <2>3
  <2>. QED BY <2>4, <2>5, <2>6, <2>7, Zenon DEF SpeakerInv
<1>. QED BY <1>1, <1>2

\* The operator speaks.
LEMMA SpeakerSpeaks ==
  ASSUME SpeakerInv, RelayInv, RelayInv', NEW d \in DOMAIN decoders, Speak(d)
  PROVE  SpeakerInv' /\ RobotHears
<1>. DEFINE x == [decoders[d] EXCEPT !.queue = Push(decoders[d].queue, spoken + 1)]
<1>1. decoders[d] \in DecoderRecords /\ spoken \in Nat
  BY DEF RelayInv, TasksInv, SessionInv
<1>2. decoders' = [decoders EXCEPT ![d] = x] /\ UNCHANGED <<mode, port>> /\ port = d /\ spoken' = spoken + 1
  BY DEF Speak
<1>3. x.queue = Push(decoders[d].queue, spoken + 1) /\ x.heard = decoders[d].heard
  BY <1>1 DEF DecoderRecords
<1>4. d = Len(decoders) => Line(x.queue, x.heard, spoken')
  <2>1. d = Len(decoders) => Line(decoders[d].queue, decoders[d].heard, spoken)
    BY DEF SpeakerInv
  <2>. QED BY <1>1, <1>2, <1>3, <2>1, PushLine
<1>. HIDE DEF x
<1>5. Fresh(decoders[d].heard, x.heard, spoken)
  BY <1>3 DEF Fresh
<1>. QED BY <1>1, <1>2, <1>4, <1>5, SpeakerMoves

\* The end joins the queue of a decoder that stops.
LEMMA SpeakerEnds ==
  ASSUME SpeakerInv, RelayInv, RelayInv', NEW d \in DOMAIN decoders, PutEnd(d)
  PROVE  SpeakerInv' /\ RobotHears
<1>. DEFINE q == Append(decoders[d].queue, End)
            x == [decoders[d] EXCEPT !.does = "wait", !.queue = q]
<1>1. decoders[d] \in DecoderRecords /\ spoken \in Nat
  BY DEF RelayInv, TasksInv, SessionInv
<1>2. decoders' = [decoders EXCEPT ![d] = x] /\ UNCHANGED <<mode, port, spoken>>
      /\ Len(decoders[d].queue) < QueueLimit
  BY DEF PutEnd
<1>3. x.queue = q /\ x.heard = decoders[d].heard /\ decoders[d].queue \in Seq(Nat)
  BY <1>1 DEF DecoderRecords
<1>4. ASSUME d = Len(decoders)
      PROVE  /\ Line(x.queue, x.heard, spoken')
             /\ port \notin {0, d} => \A j \in 1..Len(x.queue) : x.queue[j] = End
  <2>1. /\ Line(decoders[d].queue, decoders[d].heard, spoken)
        /\ port \notin {0, d} => \A j \in 1..Len(decoders[d].queue) : decoders[d].queue[j] = End
    BY <1>4 DEF SpeakerInv
  <2>2. Line(q, decoders[d].heard, spoken)
    BY <1>1, <1>2, <2>1, AppendLine
  <2>3. \A j \in 1..Len(q) : (j \in 1..Len(decoders[d].queue) /\ q[j] = decoders[d].queue[j]) \/ q[j] = End
    BY <1>3 DEF End
  <2>. QED BY <1>2, <1>3, <2>1, <2>2, <2>3
<1>. HIDE DEF x, q
<1>5. Fresh(decoders[d].heard, x.heard, spoken)
  BY <1>3 DEF Fresh
<1>. QED BY <1>1, <1>2, <1>4, <1>5, SpeakerMoves

\* The robot plays what the newest decoder has for it.
LEMMA SpeakerPlays ==
  ASSUME SpeakerInv, RelayInv, RelayInv', RobotPlays
  PROVE  SpeakerInv' /\ RobotHears
<1>. DEFINE d == Len(decoders)
            q == decoders[d].queue
            h == decoders[d].heard
            g == IF Head(q) = End THEN h ELSE Head(q)
            x == [decoders[d] EXCEPT !.queue = Tail(q), !.heard = g]
<1>0. decoders # <<>>
  BY DEF RobotPlays
<1>1. d \in DOMAIN decoders /\ decoders[d] \in DecoderRecords /\ spoken \in Nat
  BY <1>0, NewestIsOne DEF RelayInv, SessionInv
<1>2. decoders' = [decoders EXCEPT ![d] = x] /\ UNCHANGED <<mode, port>> /\ spoken' = spoken /\ q # <<>>
  BY DEF RobotPlays
<1>3. /\ Line(q, h, spoken)
      /\ port \notin {0, d} => \A j \in 1..Len(q) : q[j] = End
  BY <1>0 DEF SpeakerInv
<1>4. x.queue = Tail(q) /\ x.heard = g
  BY <1>1 DEF DecoderRecords
<1>. HIDE DEF x
<1>5. /\ Head(q) = End => Line(Tail(q), h, spoken)
      /\ Head(q) # End => Line(Tail(q), Head(q), spoken) /\ Head(q) > h /\ Head(q) + QueueLimit > spoken
      /\ \A j \in 1..Len(Tail(q)) : Tail(q)[j] = q[j + 1] /\ j + 1 \in 1..Len(q)
  <2>. HIDE DEF q, h
  <2>1. Head(q) = End => Line(Tail(q), h, spoken)
    BY <1>1, <1>2, <1>3, TakeLine
  <2>2. Head(q) # End => Line(Tail(q), Head(q), spoken) /\ Head(q) > h /\ Head(q) + QueueLimit > spoken
    BY <1>1, <1>2, <1>3, TakeLine
  <2>3. \A j \in 1..Len(Tail(q)) : Tail(q)[j] = q[j + 1] /\ j + 1 \in 1..Len(q)
    BY <1>1, <1>2, <1>3, TailLine
  <2>. QED BY <2>1, <2>2, <2>3
<1>. HIDE DEF q, h
<1>6. Line(x.queue, x.heard, spoken')
  BY <1>2, <1>4, <1>5
<1>7. port \notin {0, d} => \A j \in 1..Len(x.queue) : x.queue[j] = End
  BY <1>3, <1>4, <1>5
<1>8. Fresh(h, x.heard, spoken)
  BY <1>4, <1>5 DEF Fresh
<1>. QED BY <1>1, <1>2, <1>6, <1>7, <1>8, SpeakerMoves DEF h

\* A decoder goes on.
LEMMA SpeakerGoes ==
  ASSUME SpeakerInv, RelayInv, RelayInv', NEW d \in DOMAIN decoders, NEW from, NEW to,
         DecoderGoes(d, from, to), UNCHANGED port
  PROVE  SpeakerInv' /\ RobotHears
<1>1. decoders \in Seq(DecoderRecords) /\ decoders' = [decoders EXCEPT ![d].does = to]
  BY DEF RelayInv, TasksInv, DecoderGoes
<1>2. Len(decoders') = Len(decoders)
      /\ \A k \in DOMAIN decoders :
           decoders'[k].queue = decoders[k].queue /\ decoders'[k].heard = decoders[k].heard
  <2>. DEFINE x == [decoders[d] EXCEPT !.does = to]
  <2>1. decoders[d] \in DecoderRecords
    BY <1>1
  <2>2. x.queue = decoders[d].queue /\ x.heard = decoders[d].heard /\ decoders' = [decoders EXCEPT ![d] = x]
    BY <1>1, <2>1 DEF DecoderRecords
  <2>. HIDE DEF x
  <2>. QED BY <1>1, <2>2
<1>3. UNCHANGED <<mode, spoken>> /\ port' \in {0, port}
  BY DEF DecoderGoes
<1>. QED BY <1>2, <1>3, SpeakerRests

\* Every step leaves the robot's speaker in order.
LEMMA SpeakerNextInv ==
  ASSUME SpeakerInv, RelayInv, RelayInv', [RelayNext]_relayVars
  PROVE  SpeakerInv' /\ RobotHears
<1>1. ASSUME UNCHANGED <<decoders, mode, spoken>>, port' \in {0, port} PROVE SpeakerInv' /\ RobotHears
  BY <1>1, SpeakerRests
<1>2. CASE Connect
  <2>1. CASE mode.starts = "on_demand"
    BY <1>1, <1>2, <2>1 DEF Connect
  <2>2. CASE mode.starts # "on_demand"
    <3>1. UNCHANGED <<mode, spoken>> /\ StartAudio(session'.n)
      BY <1>2, <2>2 DEF Connect
    <3>. QED BY <3>1, SpeakerStarts
  <2>. QED BY <2>1, <2>2
<1>3. CASE EnsureRelays
  <2>1. UNCHANGED <<mode, spoken>> /\ StartAudio(0)
    BY <1>3 DEF EnsureRelays
  <2>. QED BY <2>1, SpeakerStarts
<1>4. CASE UNCHANGED relayVars
  BY <1>1, <1>4 DEF relayVars
<1>5. CASE TrackArrives \/ TrackStops \/ BeginLeave \/ Leave
  BY <1>1, <1>5 DEF TrackArrives, TrackStops, BeginLeave, Leave
<1>6. CASE RelayWorks \/ \E i \in DOMAIN relays : EncoderBreaks(i)
  <2>1. UNCHANGED <<decoders, mode, spoken>> /\ port' \in {0, port}
    BY <1>6 DEF RelayWorks, FirstFrame, RelayEnds, EncoderEnds, EncoderBreaks, RelayGoes
  <2>. QED BY <1>1, <2>1
<1>7. CASE EncodeVoice \/ VoiceBreaks \/ ProcessBreaks
  BY <1>1, <1>7 DEF EncodeVoice, VoiceBreaks, ProcessBreaks
<1>8. CASE \E b \in Browsers : Attach(b) \/ CloseBrowser(b) \/ BrowserPlays(b)
  <2>1. UNCHANGED <<decoders, mode, spoken>> /\ port' \in {0, port}
    BY <1>8 DEF Attach, CloseBrowser, BrowserPlays, Audience
  <2>. QED BY <1>1, <2>1
<1>9. CASE DecoderWorks
  <2>1. PICK d \in DOMAIN decoders : DecoderStops(d) \/ PutEnd(d) \/ EndRaises(d) \/ DecoderEnds(d)
    BY <1>9 DEF DecoderWorks
  <2>. QED BY <2>1, SpeakerGoes, SpeakerEnds DEF DecoderStops, EndRaises, DecoderEnds
<1>10. CASE RobotPlays
  BY <1>10, SpeakerPlays
<1>11. CASE \E d \in DOMAIN decoders : Speak(d)
  BY <1>11, SpeakerSpeaks
<1>12. CASE RobotSpeaks
  <2>1. decoders = <<>> /\ UNCHANGED <<decoders, mode, port>>
    BY <1>12 DEF SpeakerInv, RobotSpeaks
  <2>. QED BY <2>1 DEF SpeakerInv, RobotHears
<1>. QED
  BY <1>2, <1>3, <1>4, <1>5, <1>6, <1>7, <1>8, <1>9, <1>10, <1>11, <1>12 DEF RelayNext

\* One browser's queue is in order again.
LEMMA BrowserMoves ==
  ASSUME AudienceInv, NEW b \in Browsers, NEW x \in AudienceRecords,
         audience' = [audience EXCEPT ![b] = x],
         x.is # "none", Line(x.queue, x.heard, x.said),
         \A j \in 1..Len(x.queue) : x.queue[j] # End, Fresh(audience[b].heard, x.heard, audience[b].said)
  PROVE  AudienceInv' /\ BrowsersHear
<1>1. /\ audience' \in [Browsers -> AudienceRecords] /\ audience'[b] = x
      /\ \A c \in Browsers : c # b => audience'[c] = audience[c]
  BY DEF AudienceInv
<1>2. BrowsersHear
  BY <1>1 DEF BrowsersHear, Fresh
<1>3. ASSUME NEW c \in Browsers
      PROVE  /\ audience'[c].is = "none" => audience'[c].heard = 0
             /\ Line(audience'[c].queue, audience'[c].heard, audience'[c].said)
             /\ \A j \in 1..Len(audience'[c].queue) : audience'[c].queue[j] # End
  BY <1>1, <1>3 DEF AudienceInv
<1>. QED BY <1>1, <1>2, <1>3, Zenon DEF AudienceInv

\* A browser takes from its queue.
LEMMA BrowserTakes ==
  ASSUME AudienceInv, NEW b \in Browsers, BrowserPlays(b)
  PROVE  AudienceInv' /\ BrowsersHear
<1>. DEFINE q == audience[b].queue
            h == audience[b].heard
            s == audience[b].said
            x == [audience[b] EXCEPT !.queue = Tail(q), !.heard = Head(q)]
<1>1. /\ audience[b] \in AudienceRecords /\ Line(q, h, s) /\ q # <<>>
      /\ \A j \in 1..Len(q) : q[j] # End
      /\ audience[b].is # "none"
  BY DEF AudienceInv, BrowserPlays
<1>2. audience' = [audience EXCEPT ![b] = x]
  BY DEF BrowserPlays, Audience
<1>3. /\ q \in Seq(Nat) /\ Head(q) = q[1] /\ q[1] \in Nat /\ q[1] # End /\ Tail(q) \in Seq(Nat)
      /\ s \in Nat
  BY <1>1 DEF AudienceRecords
<1>4. x \in AudienceRecords /\ x.is # "none" /\ x.queue = Tail(q) /\ x.heard = Head(q) /\ x.said = s
  BY <1>1, <1>3 DEF AudienceRecords
<1>. HIDE DEF x, q, h, s
<1>5. /\ Line(Tail(q), Head(q), s) /\ Head(q) > h /\ Head(q) + QueueLimit > s
      /\ \A j \in 1..Len(Tail(q)) : Tail(q)[j] # End
  <2>1. Line(Tail(q), Head(q), s) /\ Head(q) > h /\ Head(q) + QueueLimit > s
    BY <1>1, <1>3, TakeLine
  <2>2. \A j \in 1..Len(Tail(q)) : Tail(q)[j] = q[j + 1] /\ j + 1 \in 1..Len(q)
    BY <1>1, <1>3, TailLine
  <2>. QED BY <1>1, <2>1, <2>2
<1>6. Fresh(h, x.heard, s)
  BY <1>4, <1>5 DEF Fresh
<1>. QED BY <1>2, <1>4, <1>5, <1>6, BrowserMoves DEF h, s

\* The robot's speech reaches the browsers that were attached in its session.
LEMMA BrowsersAreTold ==
  ASSUME AudienceInv, RobotSpeaks
  PROVE  AudienceInv' /\ BrowsersHear
<1>. DEFINE told(b) == [audience[b] EXCEPT !.said = @ + 1, !.queue = Push(@, audience[b].said + 1)]
<1>1. audience' = [b \in Browsers |-> IF audience[b].of # session.n THEN audience[b] ELSE told(b)]
  BY DEF RobotSpeaks
<1>2. ASSUME NEW b \in Browsers
      PROVE  /\ audience'[b] \in AudienceRecords /\ audience'[b].is = audience[b].is
             /\ audience'[b].heard = audience[b].heard
             /\ Line(audience'[b].queue, audience'[b].heard, audience'[b].said)
             /\ \A j \in 1..Len(audience'[b].queue) : audience'[b].queue[j] # End
  <2>0. /\ audience[b] \in AudienceRecords /\ Line(audience[b].queue, audience[b].heard, audience[b].said)
        /\ \A j \in 1..Len(audience[b].queue) : audience[b].queue[j] # End
    BY DEF AudienceInv
  <2>1. CASE audience[b].of # session.n
    BY <1>1, <2>0, <2>1
  <2>2. CASE audience[b].of = session.n
    <3>. DEFINE n == audience[b].said + 1
                q == Push(audience[b].queue, n)
    <3>1. audience'[b] = told(b)
      BY <1>1, <2>2
    <3>2. audience[b].queue \in Seq(Nat) /\ audience[b].said \in Nat /\ n \in Nat
      BY <2>0 DEF AudienceRecords
    <3>3. q \in Seq(Nat)
      BY <3>2, PushShape
    <3>4. Line(q, audience[b].heard, n)
      BY <2>0, <3>2, PushLine
    <3>5. \A j \in 1..Len(q) : q[j] # End
      BY <2>0, <3>2, PushedSpeech DEF AudienceRecords
    <3>6. told(b) = [audience[b] EXCEPT !.said = n, !.queue = q]
      BY <2>0 DEF AudienceRecords
    <3>. HIDE DEF told, n, q
    <3>7. /\ told(b) \in AudienceRecords /\ told(b).is = audience[b].is /\ told(b).heard = audience[b].heard
          /\ told(b).queue = q /\ told(b).said = n
      BY <2>0, <3>2, <3>3, <3>6 DEF AudienceRecords
    <3>. QED BY <3>1, <3>4, <3>5, <3>7
  <2>. QED BY <2>1, <2>2
<1>3. audience' \in [Browsers -> AudienceRecords]
  BY <1>1, <1>2
<1>. HIDE DEF told
<1>4. BrowsersHear
  BY <1>2 DEF BrowsersHear, Fresh
<1>. QED BY <1>2, <1>3, <1>4 DEF AudienceInv

\* Every step leaves the browsers' queues in order.
LEMMA AudienceNextInv ==
  ASSUME AudienceInv, session.n \in Nat, [RelayNext]_relayVars
  PROVE  AudienceInv' /\ BrowsersHear
<1>1. ASSUME UNCHANGED audience PROVE AudienceInv' /\ BrowsersHear
  BY <1>1 DEF AudienceInv, BrowsersHear, Fresh
<1>2. CASE UNCHANGED relayVars
  BY <1>1, <1>2 DEF relayVars
<1>3. CASE Connect \/ EnsureRelays \/ TrackArrives \/ TrackStops \/ BeginLeave \/ Leave
  BY <1>1, <1>3 DEF Connect, EnsureRelays, TrackArrives, TrackStops, BeginLeave, Leave
<1>4. CASE RelayWorks \/ \E i \in DOMAIN relays : EncoderBreaks(i)
  <2>1. UNCHANGED audience
    BY <1>4 DEF RelayWorks, FirstFrame, RelayEnds, EncoderEnds, EncoderBreaks, RelayGoes
  <2>. QED BY <1>1, <2>1
<1>5. CASE DecoderWorks
  <2>1. UNCHANGED audience
    BY <1>5 DEF DecoderWorks, DecoderStops, PutEnd, EndRaises, DecoderEnds, DecoderGoes
  <2>. QED BY <1>1, <2>1
<1>6. CASE EncodeVoice \/ VoiceBreaks \/ ProcessBreaks \/ RobotPlays
  BY <1>1, <1>6 DEF EncodeVoice, VoiceBreaks, ProcessBreaks, RobotPlays
<1>7. ASSUME NEW d \in DOMAIN decoders, Speak(d) PROVE AudienceInv' /\ BrowsersHear
  BY <1>1, <1>7 DEF Speak
<1>8. CASE RobotSpeaks
  BY <1>8, BrowsersAreTold
<1>9. ASSUME NEW b \in Browsers, Attach(b) \/ CloseBrowser(b) \/ BrowserPlays(b)
      PROVE  AudienceInv' /\ BrowsersHear
  <2>1. CASE BrowserPlays(b)
    BY <2>1, BrowserTakes
  <2>2. CASE Attach(b)
    <3>. DEFINE x == [is |-> "open", of |-> session.n, said |-> 0, queue |-> <<>>, heard |-> 0]
    <3>0. <<>> \in Seq(Nat)
      OBVIOUS
    <3>1. x \in AudienceRecords /\ x.queue = <<>> /\ x.heard = 0 /\ x.is = "open" /\ x.said = 0
      BY <3>0 DEF AudienceRecords
    <3>2. audience' = [audience EXCEPT ![b] = x]
      BY <2>2 DEF Attach, Audience
    <3>. HIDE DEF x
    <3>3. Line(x.queue, x.heard, x.said) /\ \A j \in 1..Len(x.queue) : x.queue[j] # End
      BY <3>1, EmptyLine
    <3>4. audience[b].heard = 0
      BY <2>2 DEF AudienceInv, Attach
    <3>5. Fresh(audience[b].heard, x.heard, audience[b].said)
      BY <3>1, <3>4 DEF Fresh
    <3>. QED BY <3>1, <3>2, <3>3, <3>5, BrowserMoves
  <2>3. CASE CloseBrowser(b)
    <3>. DEFINE x == [audience[b] EXCEPT !.is = "gone"]
    <3>1. audience[b] \in AudienceRecords
      BY <2>3 DEF AudienceInv, CloseBrowser
    <3>2. /\ x \in AudienceRecords /\ x.queue = audience[b].queue /\ x.heard = audience[b].heard
          /\ x.said = audience[b].said /\ x.is = "gone"
      BY <3>1 DEF AudienceRecords
    <3>3. audience' = [audience EXCEPT ![b] = x]
      BY <2>3 DEF CloseBrowser, Audience
    <3>. HIDE DEF x
    <3>4. Line(x.queue, x.heard, x.said) /\ (\A j \in 1..Len(x.queue) : x.queue[j] # End)
          /\ Fresh(audience[b].heard, x.heard, audience[b].said)
      BY <3>2 DEF AudienceInv, Fresh
    <3>. QED BY <3>2, <3>3, <3>4, BrowserMoves
  <2>. QED BY <1>9, <2>1, <2>2, <2>3
<1>. QED
  BY <1>2, <1>3, <1>4, <1>5, <1>6, <1>7, <1>8, <1>9 DEF RelayNext

\* Nobody has spoken yet.
LEMMA VoiceInitInv == RelayInit => SpeakerInv /\ AudienceInv
<1>. SUFFICES ASSUME RelayInit PROVE SpeakerInv /\ AudienceInv
  OBVIOUS
<1>1. decoders = <<>> /\ port = 0 /\ spoken = 0 /\ audience = [b \in Browsers |-> NoAudience]
  BY DEF RelayInit
<1>2. /\ NoAudience \in AudienceRecords /\ NoAudience.is = "none" /\ NoAudience.queue = <<>>
      /\ NoAudience.heard = 0 /\ NoAudience.said = 0
  BY DEF NoAudience, AudienceRecords
<1>3. Line(<<>>, 0, 0)
  BY EmptyLine
<1>4. SpeakerInv
  BY <1>1 DEF SpeakerInv
<1>5. AudienceInv
  BY <1>1, <1>2, <1>3 DEF AudienceInv
<1>. QED BY <1>4, <1>5

-----------------------------------------------------------------------------
(* The skills together.                                                    *)

\* A step is one of a family, and nothing to the others.
LEMMA OneFamilySteps ==
  ASSUME [Next]_vars
  PROVE  /\ [ErrandNext]_errandVars /\ [ExploreNext]_exploreVars /\ [PlanningNext]_planningVars
         /\ [CameraNext]_cameraVars /\ [RelayNext]_relayVars
<1>1. CASE BySegments(ExploreNext)
  BY <1>1, Zenon DEF BySegments
<1>2. CASE ByGoals(ErrandNext)
  BY <1>2, Zenon DEF ByGoals
<1>3. CASE ByPlanner(PlanningNext)
  BY <1>3, Zenon DEF ByPlanner
<1>4. CASE ByCamera(CameraNext)
  BY <1>4, Zenon DEF ByCamera
<1>5. CASE ByRelays(RelayNext)
  BY <1>5, Zenon DEF ByRelays
<1>6. CASE UNCHANGED vars
  BY <1>6 DEF vars
<1>. QED BY <1>1, <1>2, <1>3, <1>4, <1>5, <1>6, Zenon DEF Next

\* A skill that has returned has left no goal of its own behind that drives the robot, and
\* neither has a service that is down, in whatever order it has cancelled and waited.
THEOREM GoalNeverLeftBehind == Spec => []NoGoalLeftBehind
<1>1. Init => ErrandInv
  BY ErrandInitInv, Zenon DEF Init
<1>2. ErrandInv /\ [Next]_vars => ErrandInv'
  BY OneFamilySteps, ErrandNextInv
<1>3. ErrandInv => NoGoalLeftBehind
  BY DEF ErrandInv, OwnGoalInv, ServiceInv, Excused, NoGoalLeftBehind, ReturnsIdle, DownIsIdle
<1>. QED BY <1>1, <1>2, <1>3, PTL DEF Spec

\* explore walks forward on a front that was read, clear, and not turned away from by more
\* than the age of the state that it was read from.
THEOREM ForwardAlwaysSensed == Spec => []ForwardIsSensed
<1>1. Init => ExploreInv
  BY ExploreInitInv, Zenon DEF Init
<1>2. ExploreInv /\ [Next]_vars => ExploreInv'
  BY OneFamilySteps, ExploreNextInv
<1>3. ExploreInv => ForwardIsSensed
  BY ExplorationAssumption DEF ExploreInv, BeliefInv, ForwardIsSensed
<1>. QED BY <1>1, <1>2, <1>3, PTL DEF Spec

\* explore gives up after the step, and only after a step, that makes the last steps all holds,
\* or all without progress, or its turns alternate.
THEOREM AimlessAlwaysStops == Spec => []AimlessStops
<1>1. Init => ExploreInv /\ GuardInv
  BY ExploreInitInv, GuardInitInv, Zenon DEF Init
<1>2. ASSUME ExploreInv, GuardInv, [Next]_vars PROVE ExploreInv' /\ GuardInv'
  <2>1. [ExploreNext]_exploreVars
    BY <1>2, OneFamilySteps
  <2>2. ExploreInv'
    BY <1>2, <2>1, ExploreNextInv
  <2>3. leg'.move \in LegMoves
    BY <2>2 DEF ExploreInv
  <2>. QED BY <1>2, <2>1, <2>2, <2>3, GuardNextInv
<1>3. GuardInv => AimlessStops
  BY AimlessIsCounted DEF GuardInv, AimlessStops, GuardOutcomes
<1>. QED BY <1>1, <1>2, <1>3, PTL DEF Spec

\* A plan is marked as degraded exactly when the substitute has made it, after the last vain
\* attempt, and no call of it is left that the answer did not hold or that its skill would
\* not accept.
THEOREM PlanAlwaysMarked == Spec => []PlanIsMarked
<1>1. Init => AsksInv /\ AcceptedInv
  BY PlanningInitInv, AcceptedInitInv, Zenon DEF Init
<1>2. AsksInv /\ AcceptedInv /\ [Next]_vars => AsksInv' /\ AcceptedInv'
  BY OneFamilySteps, PlanningNextInv, AcceptedNextInv
<1>3. AsksInv => DegradedIsMarked
  BY Zenon DEF AsksInv, DegradedIsMarked
<1>4. AcceptedInv => PlanIsAccepted
  BY DEF AcceptedInv, SaidBy, Fits, PlanIsAccepted
<1>5. AsksInv /\ AcceptedInv => PlanIsMarked
  BY <1>3, <1>4 DEF PlanIsMarked
<1>. QED BY <1>1, <1>2, <1>5, PTL DEF Spec

\* The camera knows every peer that is open, also while it shuts down, and while a session is
\* steady one relay empties its track and one decoder fills its speaker.
THEOREM MediaAlwaysCounted == Spec => []MediaIsCounted
<1>1. Init => PeerInv /\ RelayInv
  BY CameraInitInv, RelayInitInv, Zenon DEF Init
<1>2. PeerInv /\ RelayInv /\ [Next]_vars => PeerInv' /\ RelayInv'
  BY OneFamilySteps, CameraNextInv, RelayNextInv
<1>3. PeerInv => OpenPeersAreKnown
  BY DEF PeerInv, OpenPeersAreKnown
<1>4. PeerInv /\ RelayInv => MediaIsCounted
  BY <1>3, RelaysAreSingle DEF MediaIsCounted
<1>. QED BY <1>1, <1>2, <1>4, PTL DEF Spec

\* Speech is heard in its order and never further behind than the queue is long, on the
\* robot and in every browser, whatever was thrown away and whichever process ended: the
\* part of MediaFollows that says what no step may do.
THEOREM VoiceAlwaysRecent == Spec => VoiceIsRecent
<1>1. Init => RelayInv /\ SpeakerInv /\ AudienceInv
  BY RelayInitInv, VoiceInitInv, Zenon DEF Init
<1>2. ASSUME RelayInv, SpeakerInv, AudienceInv, [Next]_vars
      PROVE  (RelayInv /\ SpeakerInv /\ AudienceInv)' /\ RobotHears /\ BrowsersHear
  <2>1. [RelayNext]_relayVars /\ spoken \in Nat /\ session.n \in Nat
    BY <1>2, OneFamilySteps DEF RelayInv, SessionInv
  <2>2. RelayInv'
    BY <1>2, <2>1, RelayNextInv
  <2>. QED BY <1>2, <2>1, <2>2, SpeakerNextInv, AudienceNextInv
<1>3. RelayInv /\ SpeakerInv /\ AudienceInv /\ [Next]_vars =>
        [ /\ \A d \in DOMAIN decoders : Fresh(decoders[d].heard, decoders'[d].heard, spoken)
          /\ \A b \in Browsers : Fresh(audience[b].heard, audience'[b].heard, audience[b].said)]_relayVars
  BY <1>2 DEF RobotHears, BrowsersHear
<1>. QED BY <1>1, <1>2, <1>3, PTL DEF Spec, VoiceIsRecent

=============================================================================
