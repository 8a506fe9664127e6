---------------------------- MODULE TaskLifecycle ----------------------------
(***************************************************************************)
(* What the task queue promises of one task, whatever the interleaving of  *)
(* dispatch, operator requests, crashes and restarts: the status moves     *)
(* along the edges below only, and a new attempt is counted exactly when   *)
(* a queued task starts.  A terminal status has no outgoing edge.          *)
(***************************************************************************)
EXTENDS Naturals

CONSTANT Tasks

VARIABLES status, attempts

vars == <<status, attempts>>

Edges ==
  {<<"absent", "queued">>} \union
  ({"running"} \X {"completed", "awaiting_confirmation", "queued", "failed", "paused",
                   "cancelled"}) \union
  ({"awaiting_confirmation"} \X {"completed", "queued", "failed", "cancelled"}) \union
  ({"queued", "paused"} \X {"cancelled"}) \union
  {<<"paused", "queued">>}

Init ==
  /\ status = [t \in Tasks |-> "absent"]
  /\ attempts = [t \in Tasks |-> 0]

Start(t) ==
  /\ status[t] = "queued"
  /\ status' = [status EXCEPT ![t] = "running"]
  /\ attempts' = [attempts EXCEPT ![t] = @ + 1]

Move(t, s) ==
  /\ <<status[t], s>> \in Edges
  /\ status' = [status EXCEPT ![t] = s]
  /\ UNCHANGED attempts

Next ==
  \E t \in Tasks :
    \/ Start(t)
    \/ \E s \in {"queued", "completed", "awaiting_confirmation", "failed", "paused",
                 "cancelled"} : Move(t, s)

Spec == Init /\ [][Next]_vars
=============================================================================
