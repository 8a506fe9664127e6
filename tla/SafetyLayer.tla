----------------------------- MODULE SafetyLayer -----------------------------
(***************************************************************************)
(* What stands between a plan and the robot: the deterministic veto of     *)
(* safety/validator.py and safety/policy.py over the skill catalogue, and  *)
(* the fast reflexes of cognition/ that preempt the planner.  Operators    *)
(* only; BrainGraph.tla calls them from its nodes.                         *)
(***************************************************************************)
EXTENDS Naturals, Sequences, FiniteSetsExt

CONSTANT Debounce   \* settings.go2_reflex_error_debounce

ASSUME SafetyAssumption == Debounce \in Nat \ {0}

VARIABLE backend    \* settings.robot_backend, chosen once

Backends == {"mock", "unitree"}
-----------------------------------------------------------------------------
(* The world as the rules read it.  self is NoSelf until a Go2 state has    *)
(* been perceived; near: the target of a call is in range and seen lately. *)

NoSelf == [unknown |-> TRUE]
SelfStates == [error: BOOLEAN, stale: BOOLEAN, standing: BOOLEAN, moving: BOOLEAN]
World == [estop: BOOLEAN, battery: {"ok", "low", "critical"}, near: BOOLEAN,
          alert: BOOLEAN, self: SelfStates \union {NoSelf}]

(* The skill catalogue *)

\* Skills that carry CapabilityMetadata; every other skill is checked by name.
\* nav_go_relative stands for the native skills with the same declaration (nav_explore,
\* nav_patrol, nav_go_to_bbox, remember_room, find_object and the like).
Metadata ==
  LET Row(risk, motion, confirm, backends) ==
        [risk |-> risk, motion |-> motion, confirm |-> confirm, backends |-> backends]
      Everywhere == Backends IN
  [stop            |-> Row("low", "stop", FALSE, Everywhere),
   nudge           |-> Row("medium", "linear", TRUE, {"unitree"}),
   nav_cancel      |-> Row("low", "stop", FALSE, Everywhere),
   nav_go_relative |-> Row("medium", "linear", TRUE, Everywhere),
   nav_go_to_pose  |-> Row("medium", "linear", TRUE, Everywhere),
   nav_relocalize  |-> Row("low", "none", FALSE, Everywhere)]

Migrated == DOMAIN Metadata
Legacy == {"navigate", "patrol", "follow", "dock", "recognize", "report", "scan",
           "retreat", "explore", "go2_local_nav"}
Skills == Migrated \union Legacy

AlwaysAllowed == {"stop", "dock", "report"}
UnitreeHidden == {"navigate", "patrol", "follow", "dock"}

\* Fault: the list that still governs legacy skills lost an entry in the migration.
RequireConfirmationFor_Migrated == {"follow", "nudge", "explore", "go2_local_nav"}

RequireConfirmationFor == {"follow", "nudge", "scan", "retreat", "explore", "go2_local_nav"}

\* Skills that drive the Go2 by segments after looking at its own state once more.
SelfChecked == {"nudge", "scan", "retreat", "go2_local_nav"}
-----------------------------------------------------------------------------
(* SafetyValidator.validate.  Parameters were parsed by the planner, so     *)
(* parsing them again succeeds; args tells a call inside the fixed ranges.  *)

Calls == [skill: Skills, args: {"inside", "outside"}]

BackendAllows(s) ==
  IF s \in Migrated THEN backend \in Metadata[s].backends
  ELSE ~(backend = "unitree" /\ s \in UnitreeHidden)

PolicyAllows(s, w) ==
  /\ w.estop => Metadata[s].motion = "stop" \/ Metadata[s].risk = "read_only"
  /\ w.battery = "critical" =>
       Metadata[s].motion \in {"stop", "none"} \/ Metadata[s].risk = "read_only"

StateAllows(s, w) ==
  IF s \in Migrated THEN PolicyAllows(s, w)
  ELSE s \in AlwaysAllowed \/ (~w.estop /\ w.battery # "critical")

Preconditions(s, w) == s \in {"stop", "dock", "report", "nav_cancel"} \/ ~w.estop

RangeAllows(call, w) ==
  /\ call.skill \in {"navigate", "patrol", "follow"} => w.near
  /\ call.skill \in {"navigate", "patrol", "nudge", "scan", "retreat", "explore", "go2_local_nav"}
       => call.args = "inside"

Legal(call, w) ==
  /\ BackendAllows(call.skill)
  /\ StateAllows(call.skill, w)
  /\ Preconditions(call.skill, w)
  /\ RangeAllows(call, w)

NeedsConfirmation(s) ==
  IF s \in Migrated THEN Metadata[s].confirm ELSE s \in RequireConfirmationFor

Validation(call, w, granted) ==
  IF ~Legal(call, w) THEN "blocked"
  ELSE IF NeedsConfirmation(call.skill) /\ ~granted THEN "awaiting_confirmation"
  ELSE "validated"

\* check_robot_self_state: what a Go2 skill asks before it drives.
FitToDrive(w) == w.self # NoSelf /\ w.self.standing /\ ~w.self.error /\ ~w.self.stale
-----------------------------------------------------------------------------
(* FastReflex: rules in the order of their priority, the first that fires. *)

Rule(when, then) == [when |-> when, then |-> then]

FirstFired(rules) ==
  LET fired == {i \in DOMAIN rules : rules[i].when} IN
    IF fired = {} THEN <<>> ELSE rules[Min(fired)].then

\* Saturated at Debounce, which is all the comparison with it can tell.
ErrorStreak(w, streak) ==
  IF w.estop \/ w.self = NoSelf THEN streak
  ELSE IF w.self.error THEN Min({streak + 1, Debounce})
  ELSE 0

Go2Reflex(w, running, streak) ==
  FirstFired(<<
    Rule(w.self.error /\ streak >= Debounce, <<"stop", "report">>),
    Rule(w.self.stale, <<"stop", "report">>),
    Rule(~w.self.standing, <<"report">>),
    Rule(w.self.moving /\ ~running, <<"stop">>),
    Rule(w.battery = "critical", <<"stop", "report">>),
    Rule(w.battery = "low", <<"report">>),
    Rule(w.alert, <<"report">>)>>)

UnitreeReflex(w) ==
  FirstFired(<<
    Rule(w.battery = "critical", <<"stop", "report">>),
    Rule(w.battery = "low", <<"report">>),
    Rule(w.alert, <<"report">>)>>)

MockReflex(w) ==
  FirstFired(<<Rule(w.battery # "ok", <<"dock">>), Rule(w.alert, <<"report">>)>>)

\* Fault: the battery rules are asked before the emergency stop.
Reflex_BatteryFirst(w, running, streak) ==
  CASE w.self = NoSelf /\ backend = "mock" /\ w.battery # "ok" -> <<"dock">>
    [] w.estop -> <<"stop">>
    [] ~w.estop /\ w.self # NoSelf -> Go2Reflex(w, running, streak)
    [] ~w.estop /\ w.self = NoSelf /\ backend = "unitree" -> UnitreeReflex(w)
    [] OTHER -> MockReflex(w)

\* streak counts the present decision.  Reflex calls carry valid arguments.
Reflex(w, running, streak) ==
  CASE w.estop -> <<"stop">>
    [] ~w.estop /\ w.self # NoSelf -> Go2Reflex(w, running, streak)
    [] ~w.estop /\ w.self = NoSelf /\ backend = "unitree" -> UnitreeReflex(w)
    [] OTHER -> MockReflex(w)
-----------------------------------------------------------------------------
\* Skills that may set the robot in motion, whatever their metadata says.
Moves(s) == s \notin {"stop", "nav_cancel", "nav_relocalize", "report", "recognize"}
=============================================================================
