--------------------------- MODULE ConfirmedAction ---------------------------
(***************************************************************************)
(* What the brain promises an operator, whatever the planner proposes: a   *)
(* guarded call acts only after it was put to the operator and approved,   *)
(* one approval lets one call act once, and an unguarded call acts on its  *)
(* own.  BrainGraph.tla implements this.                                   *)
(***************************************************************************)
CONSTANTS
  Calls,
  Guarded,  \* the calls an operator has to confirm
  NoCall

VARIABLES
  pending,  \* the call put to the operator
  granted,  \* the call the operator approved, not yet acting
  acting    \* the call that acts

vars == <<pending, granted, acting>>

Init == pending = NoCall /\ granted = NoCall /\ acting = NoCall

Ask ==
  /\ acting = NoCall /\ granted = NoCall
  /\ pending' \in Guarded
  /\ UNCHANGED <<granted, acting>>

Approve ==
  /\ pending # NoCall
  /\ granted' = pending /\ pending' = NoCall
  /\ UNCHANGED acting

\* The operator says no, or the task is cancelled.
Withdraw == pending' = NoCall /\ UNCHANGED <<granted, acting>>

\* The world has changed since the question was asked.
Refuse == granted' = NoCall /\ UNCHANGED <<pending, acting>>

ActGranted ==
  /\ granted # NoCall
  /\ acting' = granted /\ granted' = NoCall
  /\ UNCHANGED pending

ActFreely ==
  /\ granted = NoCall
  /\ acting' \in Calls \ Guarded
  /\ UNCHANGED <<pending, granted>>

Rest == acting' = NoCall /\ UNCHANGED <<pending, granted>>

Next ==
  \/ Ask \/ ActFreely \/ Approve \/ Withdraw \/ Refuse \/ ActGranted \/ Rest

Spec == Init /\ [][Next]_vars
=============================================================================
