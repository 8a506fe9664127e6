---------------------------- MODULE GoalLifecycle ----------------------------
(***************************************************************************)
(* What a navigation client promises its callers.  Goals are numbered in   *)
(* order of acceptance.  A goal that was accepted alone, every earlier one *)
(* settled, ends once, and its outcome stays until the next goal; a goal   *)
(* that was accepted beside another may be shown the other's outcome.      *)
(* LocalNavigation.tla implements this; Errands.tla builds on it.          *)
(***************************************************************************)
EXTENDS Naturals

CONSTANT Outcomes   \* the terminal values of NavigationStatus

VARIABLES
  state,  \* status and goal_id of NavigationState
  alone   \* whether the newest goal was accepted alone

lifecycleVars == <<state, alone>>

Init == state = [status |-> "idle", goal |-> 0] /\ alone = TRUE

Active == state.status = "active"

Begin(id) ==
  /\ state' = [status |-> "active", goal |-> id]
  /\ alone' \in BOOLEAN
  /\ alone' => ~Active

Accept == Begin(state.goal + 1)

End(outcome) ==
  /\ Active \/ ~alone
  /\ state' = [state EXCEPT !.status = outcome]
  /\ UNCHANGED alone

\* A provider that lost its sensors reports idle again once they are back.
Recover ==
  /\ state.status = "unavailable"
  /\ state' = [state EXCEPT !.status = "idle"]
  /\ UNCHANGED alone

Next == Accept \/ (\E outcome \in Outcomes : End(outcome)) \/ Recover

Spec == Init /\ [][Next]_lifecycleVars
=============================================================================
