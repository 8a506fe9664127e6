------------------------------ MODULE Nav2Client ------------------------------
(***************************************************************************)
(* The third navigation client the settings may choose: Nav2, whose action *)
(* server drives the robot.  Every coroutine of the client is a row of     *)
(* blocking bridge calls in worker threads, one at a time behind a lock; a *)
(* step is one such call and what the coroutine does with its answer.      *)
(* The state is written after the call from what was asked before it.      *)
(***************************************************************************)
EXTENDS LocalNavigation

CONSTANT MaxLosses   \* bound on how often the action server goes away

ASSUME LossAssumption == MaxLosses \in Nat

VARIABLES
  nav,     \* _state of the client: status and goal_id
  server,  \* what became of each goal at the action server
  known,   \* _goal_handles: the goals whose acceptance reached the client
  reach,   \* the action server answers, and how often it may still go away
  query,   \* the call each caller awaits
  answer,  \* the goal for which each skill last returned a success
  asking   \* history: the goals that were being asked about when each was accepted

nav2Vars == <<nav, server, known, reach, query, answer, asking>>

NoQuery == [pc |-> "none", own |-> 0, arg |-> 0, left |-> 0]

Nav2TypeOK ==
  /\ nav \in [status: Statuses, goal: 0..MaxGoals]
  /\ server \in [Goals -> {"none", "running", "canceling", "succeeded", "canceled", "aborted"}]
  /\ known \subseteq Goals
  /\ reach \in [up: BOOLEAN, losses: 0..MaxLosses]
  /\ query \in [Callers -> [pc: {"none", "setReady", "setPose", "send", "ready", "pose", "goal", "cancel"},
                            own: 0..MaxGoals, arg: 0..MaxGoals, left: 0..MaxDuration]]
  /\ answer \in [Skills -> 0..MaxGoals]
  /\ asking \in [Goals -> SUBSET Goals]

Nav2Init ==
  /\ nav = [status |-> "unavailable", goal |-> 0]
  /\ server = [g \in Goals |-> "none"]
  /\ known = {}
  /\ reach = [up |-> FALSE, losses |-> MaxLosses]
  /\ query = [c \in Callers |-> NoQuery]
  /\ answer = [c \in Skills |-> 0]
  /\ asking = [g \in Goals |-> {}]

Asks(c, pc) == query' = [query EXCEPT ![c].pc = pc]
NavDone(c) == query' = [query EXCEPT ![c] = NoQuery]
-----------------------------------------------------------------------------
(* Setting a goal: is_ready, a pose, send_goal.  Nothing looks at a goal    *)
(* that is active.                                                          *)

NavSet(c) ==
  /\ query[c].pc = "none"
  /\ Asks(c, "setReady")
  /\ UNCHANGED <<nav, server, known, reach, answer, asking>>

\* Fault: a server out of reach is asked again and again.
NavSetReady_Retries(c) ==
  /\ query[c].pc = "setReady"
  /\ Asks(c, IF reach.up THEN "setPose" ELSE "setReady")
  /\ UNCHANGED <<nav, server, known, reach, answer, asking>>

NavSetReady(c) ==
  /\ query[c].pc = "setReady"
  /\ IF reach.up THEN Asks(c, "setPose") ELSE NavDone(c)
  /\ UNCHANGED <<nav, server, known, reach, answer, asking>>

\* No odometry, no transform to the map frame, or a goal of another map.
NavSetPose(c) ==
  /\ query[c].pc = "setPose"
  /\ Asks(c, "send") \/ NavDone(c)
  /\ UNCHANGED <<nav, server, known, reach, answer, asking>>

NewGoal == Cardinality({g \in Goals : server[g] # "none"}) + 1

\* The server runs one goal: a new one aborts the one before.
Runs(g) ==
  server' = [h \in Goals |-> IF h = g THEN "running"
                             ELSE IF server[h] \in {"running", "canceling"} THEN "aborted" ELSE server[h]]

\* The goals whose state is being asked for: the answer will be written over whatever
\* goal is there then.
InQuestion == {query[c].arg : c \in {d \in Callers : query[d].pc \in {"goal", "cancel"}}}

\* Fault: a goal is shown only where none was.
NavAccepted_FirstOnly(c, g) ==
  /\ Runs(g) /\ known' = known \union {g}
  /\ asking' = [asking EXCEPT ![g] = InQuestion]
  /\ nav' = IF nav.status = "active" THEN nav ELSE [status |-> "active", goal |-> g]
  /\ query' = [query EXCEPT ![c] = IF c \in Skills THEN [NoQuery EXCEPT !.pc = "ready", !.own = g, !.left = MaxDuration]
                                   ELSE NoQuery]

NavAccepted(c, g) ==
  /\ Runs(g) /\ known' = known \union {g}
  /\ asking' = [asking EXCEPT ![g] = InQuestion]
  /\ nav' = [status |-> "active", goal |-> g]
  /\ query' = [query EXCEPT ![c] = IF c \in Skills THEN [NoQuery EXCEPT !.pc = "ready", !.own = g, !.left = MaxDuration]
                                   ELSE NoQuery]

\* Rejected, or no answer in time: then the server may run a goal whose
\* handle the client never gets.
NavRefused(c) ==
  /\ UNCHANGED <<nav, known, asking>>
  /\ UNCHANGED server \/ (NewGoal \in Goals /\ reach.up /\ Runs(NewGoal))
  /\ NavDone(c)

NavSend(c) ==
  /\ query[c].pc = "send"
  /\ NavRefused(c) \/ (reach.up /\ NewGoal \in Goals /\ NavAccepted(c, NewGoal))
  /\ UNCHANGED <<reach, answer>>

-----------------------------------------------------------------------------
(* get_state, cancel, and the loop of the skill around them.               *)

\* cancel up to its bridge call: only an active goal, and the one asked for.  A skill
\* that gave up at its deadline says so, whatever became of the goal.
NavCancelCall(c, g) ==
  IF nav'.goal # 0 /\ nav'.status = "active" /\ g \in {0, nav'.goal}
  THEN query' = [query EXCEPT ![c].pc = "cancel", ![c].arg = nav'.goal]
  ELSE NavDone(c)

\* get_state returns: the skill takes any terminal status for its own goal's,
\* looks at its deadline, and polls again.
NavReturns(c) ==
  /\ IF c \notin Skills \/ nav'.status \in Outcomes THEN NavDone(c)
     ELSE IF query[c].left = 0 THEN NavCancelCall(c, query[c].own)
     ELSE Asks(c, "ready")
  /\ answer' = IF c \in Skills /\ nav'.status = "succeeded" THEN [answer EXCEPT ![c] = query[c].own]
               ELSE answer

NavWatch(c) ==
  /\ c \in Desks /\ query[c].pc = "none" /\ Asks(c, "ready")
  /\ UNCHANGED <<nav, server, known, reach, answer, asking>>

\* An unreachable server is a terminal status, whatever runs there.
NavReady(c) ==
  /\ query[c].pc = "ready"
  /\ IF reach.up THEN Asks(c, "pose") /\ UNCHANGED <<nav, answer>>
     ELSE nav' = [nav EXCEPT !.status = "unavailable"] /\ NavReturns(c)
  /\ UNCHANGED <<server, known, reach, asking>>

\* A terminal status is never asked about again; with no goal it is idle.
NavPose(c) ==
  /\ query[c].pc = "pose"
  /\ IF nav.goal = 0 \/ nav.status \in Outcomes
     THEN nav' = [nav EXCEPT !.status = IF nav.goal = 0 THEN "idle" ELSE @] /\ NavReturns(c)
     ELSE /\ query' = [query EXCEPT ![c].pc = "goal", ![c].arg = nav.goal]
          /\ UNCHANGED <<nav, answer>>
  /\ UNCHANGED <<server, known, reach, asking>>

\* Fault: an aborted goal counts as done.
MapStatus_Lenient(g) ==
  CASE server[g] \in {"succeeded", "aborted"} -> {"succeeded"}
    [] server[g] = "canceled" -> {"canceled"}
    [] OTHER -> {"active"}

\* _map_status: aborted is a failure or, by its message, a lack of progress.
MapStatus(g) ==
  CASE server[g] = "succeeded" -> {"succeeded"}
    [] server[g] = "canceled" -> {"canceled"}
    [] server[g] = "aborted" -> {"failed", "no_progress"}
    [] OTHER -> {"active"}

NavGoal(c) ==
  /\ query[c].pc = "goal"
  /\ \E status \in MapStatus(query[c].arg) : nav' = [nav EXCEPT !.status = status]
  /\ NavReturns(c)
  /\ UNCHANGED <<server, known, reach, asking>>

NavDeskCancels(c) ==
  /\ c \in Desks /\ query[c].pc = "none" /\ nav.goal # 0 /\ nav.status = "active"
  /\ query' = [query EXCEPT ![c].pc = "cancel", ![c].arg = nav.goal]
  /\ UNCHANGED <<nav, server, known, reach, answer, asking>>

\* Fault: the answer to the request is not looked at.
NavMarks_Unasked(canceled) == nav' = [nav EXCEPT !.status = "canceled"]

NavMarks(canceled) == nav' = IF canceled THEN [nav EXCEPT !.status = "canceled"] ELSE nav

\* The server takes the request, refuses it (the goal has ended) or does not
\* answer in time, having taken it or not.
NavCancels(c) ==
  /\ query[c].pc = "cancel"
  /\ \E taken, answered \in BOOLEAN :
       /\ taken => reach.up /\ server[query[c].arg] = "running"
       /\ server' = IF taken THEN [server EXCEPT ![query[c].arg] = "canceling"] ELSE server
       /\ NavMarks(taken /\ answered)
  /\ NavDone(c)
  /\ UNCHANGED <<known, reach, answer, asking>>

\* The command around the skill is cancelled; the bridge call runs out.
NavAbandon(c) ==
  /\ c \in Skills /\ query[c].pc \in {"ready", "pose", "goal"}
  /\ NavDone(c)
  /\ UNCHANGED <<nav, server, known, reach, answer, asking>>

NavTick ==
  /\ \E c \in Callers : query[c].left > 0
  /\ query' = [c \in Callers |-> [query[c] EXCEPT !.left = IF @ > 0 THEN @ - 1 ELSE 0]]
  /\ UNCHANGED <<nav, server, known, reach, answer, asking>>

-----------------------------------------------------------------------------
(* The action server.                                                      *)

ServerEnds ==
  /\ \E g \in Goals, outcome \in {"succeeded", "aborted", "canceled"} :
       /\ server[g] \in {"running", "canceling"}
       /\ outcome = "canceled" => server[g] = "canceling"
       /\ server' = [server EXCEPT ![g] = outcome]
  /\ UNCHANGED <<nav, known, reach, query, answer, asking>>

ServerComes ==
  /\ ~reach.up /\ reach' = [reach EXCEPT !.up = TRUE]
  /\ UNCHANGED <<nav, server, known, query, answer, asking>>

ServerGoes ==
  /\ reach.up /\ reach.losses > 0
  /\ reach' = [up |-> FALSE, losses |-> reach.losses - 1]
  /\ UNCHANGED <<nav, server, known, query, answer, asking>>

-----------------------------------------------------------------------------
NavAnswers(c) ==
  \/ NavSetReady(c) \/ NavSetPose(c) \/ NavSend(c) \/ NavReady(c) \/ NavPose(c) \/ NavGoal(c) \/ NavCancels(c)

Nav2Next ==
  \/ \E c \in Callers : NavSet(c) \/ NavAnswers(c) \/ NavWatch(c) \/ NavDeskCancels(c) \/ NavAbandon(c)
  \/ NavTick \/ ServerEnds \/ ServerComes \/ ServerGoes

\* _create_navigation_client: the settings build one client.
ClientsInit == Init /\ Nav2Init
ClientsNext ==
  \/ provider # "nav2" /\ Next /\ UNCHANGED nav2Vars
  \/ provider = "nav2" /\ Nav2Next /\ UNCHANGED vars

clientsVars == <<vars, nav2Vars>>

ClientsSpec == ClientsInit /\ [][ClientsNext]_clientsVars

\* Every bridge call has a timeout of its own, and the local clients keep the
\* fairness they had.
ClientsFairness ==
  /\ Fairness
  /\ \A c \in Callers : WF_nav2Vars(NavAnswers(c))
  /\ WF_nav2Vars(NavTick)

-----------------------------------------------------------------------------
\* What the action server drives is the goal the client shows active, so that a cancel
\* reaches it; not when the server was out of reach when last asked, when the acceptance
\* never arrived, or when an answer about an older goal was under way at the acceptance.
RunningIsShown ==
  \A g \in known : server[g] = "running" =>
    \/ nav = [status |-> "active", goal |-> g] \/ nav.status = "unavailable"
    \/ nav.goal = g /\ asking[g] # {}

\* What stops the robot, with any client: a cancel reaches what drives, and holds.
StopReaches == OperatorCanStop /\ CancelHolds /\ RunningIsShown

\* A success the skill reports was won by its own goal, a later one, or one that was
\* being asked about when its own was accepted.
NavSuccessIsRecent ==
  \A c \in Skills : answer[c] # 0 =>
    \E g \in Goals :
      server[g] = "succeeded" /\ (g >= answer[c] \/ g \in asking[answer[c]])

SuccessIsOwn == SuccessIsRecent /\ NavSuccessIsRecent

\* A skill is answered, whatever the server does: no wait is for ever.
NavWaitEnds == \A c \in Skills : query[c].pc # "none" ~> query[c].pc = "none"

EveryWaitEnds == WaitsEnd /\ NavWaitEnds
=============================================================================
