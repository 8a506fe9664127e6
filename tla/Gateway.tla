------------------------------- MODULE Gateway -------------------------------
(***************************************************************************)
(* The browser gateway: signalling offers become peers of                  *)
(* BrowserPeerManager, each with a TeleopBridge whose sender loop keeps a  *)
(* lease of the shared TeleopSession (TeleopSession.tla) and resends the   *)
(* last joystick value.  One user is followed through page reloads, a      *)
(* second tab, lost networks and the end of the gateway.  Offers are       *)
(* handled one at a time; state callbacks, the pruner, messages and sender *)
(* loops run between their awaits.                                         *)
(***************************************************************************)
EXTENDS Naturals, FiniteSets

CONSTANTS
  MaxPeers,  \* bound on the offers that make a peer
  Deadman    \* deadman_ms, in ticks

ASSUME GatewayAssumption == MaxPeers \in Nat \ {0} /\ Deadman \in Nat \ {0}

VARIABLES
  running,  \* RobotGateway.run: "serving", "closing", "ended"
  token,    \* _peer_tokens of the user
  current,  \* _peers of the user: the peer of an offer, or 0
  young,    \* the current peer is less than ten seconds old
  driver,   \* _teleop of the user: whose bridge it is, or 0
  pc,       \* connectionState of each peer
  offer,    \* handle_offer: its step and its peer
  teardown, \* _tear_down_peer, as called by each of its callers
  bridge,   \* the bridge of each peer
  holder,   \* the bridge whose lease the session honours, or 0
  moving,   \* the session's setpoint is not zero
  silence   \* ticks of driving for a browser that is not there, up to Deadman + 1

gatewayVars == <<running, token, current, young, driver, pc, offer, teardown, bridge, holder, moving, silence>>
peerVars == <<token, current, young, driver, pc, offer, teardown>>
driveVars == <<bridge, holder, moving, silence>>

Peers == 1..MaxPeers
\* Who tears down: the handler of an offer, the pruner, close_all, and the
\* state callback of each peer.
Closers == ({"offer", "pruner", "all"} \X {0}) \union ({"state"} \X Peers)
OfferCloser == <<"offer", 0>>
Pruner == <<"pruner", 0>>
CloseAll == <<"all", 0>>
Callback(p) == <<"state", p>>
NoBridge == [target |-> "zero", task |-> FALSE, lease |-> "none"]
NoTeardown == [pc |-> "none", peer |-> 0, bridge |-> 0]

GatewayTypeOK ==
  /\ running \in {"serving", "closing", "ended"}
  /\ token \in 0..MaxPeers /\ current \in 0..MaxPeers /\ driver \in 0..MaxPeers
  /\ young \in BOOLEAN
  /\ pc \in [Peers -> {"none", "new", "connecting", "connected", "gone", "failed", "closed",
                    "abandoned"}]
  /\ offer \in [pc: {"none", "tear", "describe", "attach", "gather"}, peer: 0..MaxPeers]
  /\ teardown \in [Closers -> [pc: {"none", "lock", "halt", "cancel", "close"},
                               peer: 0..MaxPeers, bridge: 0..MaxPeers]]
  /\ bridge \in [Peers -> [target: {"zero", "go"}, task: BOOLEAN, lease: {"none", "asked", "held"}]]
  /\ holder \in 0..MaxPeers /\ moving \in BOOLEAN /\ silence \in 0..Deadman + 1

GatewayInit ==
  /\ running = "serving"
  /\ token = 0 /\ current = 0 /\ young = FALSE /\ driver = 0
  /\ pc = [p \in Peers |-> "none"]
  /\ offer = [pc |-> "none", peer |-> 0]
  /\ teardown = [c \in Closers |-> NoTeardown]
  /\ bridge = [p \in Peers |-> NoBridge]
  /\ holder = 0 /\ moving = FALSE /\ silence = 0

IsCurrent(p) == token = p /\ current = p
Idle(c) == teardown[c].pc = "none"
LockHeld == \E c \in Closers : teardown[c].pc \in {"halt", "cancel", "close"}

\* peer is the one to be closed, 0 for whichever is there.
TearDown(c, p) == teardown' = [teardown EXCEPT ![c] = [NoTeardown EXCEPT !.pc = "lock", !.peer = p]]

-----------------------------------------------------------------------------
(* handle_offer                                                            *)

\* Fault: the new peer takes the place of the old one at once.
Offer_NoTeardown ==
  /\ running = "serving" /\ offer.pc = "none" /\ Idle(OfferCloser) /\ token < MaxPeers
  /\ ~(current # 0 /\ young /\ pc[current] \in {"connecting", "connected"})
  /\ token' = token + 1
  /\ offer' = [pc |-> "tear", peer |-> token + 1]
  /\ UNCHANGED <<running, current, young, driver, pc, teardown, driveVars>>

\* A duplicate of a young offer is ignored; any other takes the place of the
\* peer that is there, whatever its state.
Offer ==
  /\ running = "serving" /\ offer.pc = "none" /\ Idle(OfferCloser) /\ token < MaxPeers
  /\ ~(current # 0 /\ young /\ pc[current] \in {"connecting", "connected"})
  /\ token' = token + 1
  /\ TearDown(OfferCloser, 0)
  /\ offer' = [pc |-> "tear", peer |-> token + 1]
  /\ UNCHANGED <<running, current, young, driver, pc, driveVars>>

Create ==
  /\ offer.pc = "tear" /\ Idle(OfferCloser)
  /\ LET p == offer.peer IN
     /\ current' = p /\ driver' = p /\ young' = TRUE
     /\ pc' = [pc EXCEPT ![p] = "new"]
     /\ offer' = [offer EXCEPT !.pc = "describe"]
  /\ UNCHANGED <<running, token, teardown, driveVars>>

\* setRemoteDescription, the media, the answer: each looks whether the peer is
\* still the user's.
Describe ==
  /\ offer.pc \in {"describe", "attach", "gather"}
  /\ LET p == offer.peer IN
     IF IsCurrent(p)
     THEN /\ offer' = CASE offer.pc = "describe" -> [offer EXCEPT !.pc = "attach"]
                        [] offer.pc = "attach" -> [offer EXCEPT !.pc = "gather"]
                        [] OTHER -> [pc |-> "none", peer |-> 0]
          /\ pc' = IF pc[p] = "new" THEN [pc EXCEPT ![p] = "connecting"] ELSE pc
     ELSE /\ offer' = [pc |-> "none", peer |-> 0]
          /\ pc' = [pc EXCEPT ![p] = "closed"]
  /\ UNCHANGED <<running, token, current, young, driver, teardown, driveVars>>

OfferFails ==
  /\ offer.pc \in {"describe", "attach", "gather"} /\ Idle(OfferCloser)
  /\ LET p == offer.peer IN
     IF IsCurrent(p) THEN TearDown(OfferCloser, p) /\ UNCHANGED pc
     ELSE pc' = [pc EXCEPT ![p] = "closed"] /\ UNCHANGED teardown
  /\ offer' = [pc |-> "none", peer |-> 0]
  /\ UNCHANGED <<running, token, current, young, driver, driveVars>>

-----------------------------------------------------------------------------
(* The browser and the network.                                            *)

Connected(p) ==
  /\ pc[p] = "connecting" /\ pc' = [pc EXCEPT ![p] = "connected"]
  /\ UNCHANGED <<running, token, current, young, driver, offer, teardown, driveVars>>

\* The tab is closed or its network is lost: the callbacks act on "failed" only,
\* which the connection may report much later.
Leaves(p) ==
  /\ pc[p] = "connected" /\ pc' = [pc EXCEPT ![p] = "gone"]
  /\ UNCHANGED <<running, token, current, young, driver, offer, teardown, driveVars>>

\* Fault: a failure found while the offer is still handled is left to its handler.
Failed_WhileOffered(p) ==
  /\ pc[p] \in {"connecting", "connected", "gone"}
  /\ pc' = [pc EXCEPT ![p] = "failed"]
  /\ IF IsCurrent(p) /\ offer.peer # p THEN TearDown(Callback(p), p) ELSE UNCHANGED teardown
  /\ UNCHANGED <<running, token, current, young, driver, offer, driveVars>>

\* on_state and on_ice_state, for the current peer.
Failed(p) ==
  /\ pc[p] \in {"connecting", "connected", "gone"}
  /\ pc' = [pc EXCEPT ![p] = "failed"]
  /\ IF IsCurrent(p) THEN TearDown(Callback(p), p) ELSE UNCHANGED teardown
  /\ UNCHANGED <<running, token, current, young, driver, offer, driveVars>>

Ages ==
  /\ young /\ young' = FALSE
  /\ UNCHANGED <<running, token, current, driver, pc, offer, teardown, driveVars>>

Prune ==
  /\ running = "serving" /\ Idle(Pruner)
  /\ current # 0 /\ ~young /\ pc[current] = "connecting"
  /\ TearDown(Pruner, current)
  /\ UNCHANGED <<running, token, current, young, driver, pc, offer, driveVars>>

\* A move: the channel knows its bridge, current or not.
Message(p) ==
  /\ pc[p] = "connected"
  /\ \E target \in {"zero", "go"} :
       bridge' = [bridge EXCEPT ![p].target = target, ![p].task = TRUE]
  /\ silence' = 0
  /\ UNCHANGED <<running, peerVars, holder, moving>>

-----------------------------------------------------------------------------
(* _tear_down_peer                                                         *)

\* Fault: whatever peer is there is closed, though another was meant.
Locked_AnyPeer(c) ==
  /\ teardown[c].pc = "lock" /\ ~LockHeld
  /\ driver' = 0
  /\ teardown' = [teardown EXCEPT ![c].pc = "halt", ![c].bridge = driver]
  /\ bridge' = IF driver = 0 THEN bridge ELSE [bridge EXCEPT ![driver].target = "zero"]
  /\ UNCHANGED <<running, token, current, young, pc, offer, holder, moving, silence>>

\* Under the lock: not for a peer that was replaced meanwhile.
Locked(c) ==
  /\ teardown[c].pc = "lock" /\ ~LockHeld
  /\ LET p == teardown[c].peer IN
     IF p # 0 /\ ~IsCurrent(p)
     THEN teardown' = [teardown EXCEPT ![c] = NoTeardown] /\ UNCHANGED <<driver, bridge>>
     ELSE /\ driver' = 0
          /\ teardown' = [teardown EXCEPT ![c].pc = "halt", ![c].bridge = driver]
          /\ bridge' = IF driver = 0 THEN bridge ELSE [bridge EXCEPT ![driver].target = "zero"]
  /\ UNCHANGED <<running, token, current, young, pc, offer, holder, moving, silence>>

\* TeleopBridge.stop: the sender loop is left to send the zero for a moment.
Halted(c) ==
  /\ teardown[c].pc = "halt"
  /\ teardown' = [teardown EXCEPT ![c].pc = "cancel"]
  /\ UNCHANGED <<running, token, current, young, driver, pc, offer, driveVars>>

\* The session forgets the lease, and with it the setpoint.
Release(b) ==
  IF bridge[b].lease = "held" /\ holder = b THEN holder' = 0 /\ moving' = FALSE
  ELSE UNCHANGED <<holder, moving>>

\* The loop is cancelled and has sent its zero, the lease is released, the
\* peer leaves the table.
Stopped(c) ==
  /\ teardown[c].pc = "cancel"
  /\ LET b == teardown[c].bridge IN
     IF b = 0 THEN UNCHANGED <<bridge, holder, moving>>
     ELSE /\ bridge' = [bridge EXCEPT ![b].task = FALSE, ![b].lease = "none"]
          /\ Release(b)
  /\ current' = 0 /\ young' = FALSE
  /\ teardown' = [teardown EXCEPT ![c].pc = "close", ![c].peer = current]
  /\ UNCHANGED <<running, token, driver, pc, offer, silence>>

\* pc.close, which is given up after two seconds, for good.
Closed(c) ==
  /\ teardown[c].pc = "close"
  /\ LET p == teardown[c].peer IN
     IF p = 0 THEN UNCHANGED pc ELSE \E s \in {"closed", "abandoned"} : pc' = [pc EXCEPT ![p] = s]
  /\ teardown' = [teardown EXCEPT ![c] = NoTeardown]
  /\ UNCHANGED <<running, token, current, young, driver, offer, driveVars>>

-----------------------------------------------------------------------------
(* The sender loop and the session.                                        *)

\* The session grants a new lease to the operator that holds it already, and
\* goes on to cancel navigation before it answers: a loop that is cancelled
\* meanwhile never learns of its lease.
Acquire(b) ==
  /\ bridge[b].task /\ bridge[b].lease = "none"
  /\ bridge' = [bridge EXCEPT ![b].lease = "asked"]
  /\ holder' = b /\ moving' = (moving /\ holder # 0)
  /\ UNCHANGED <<running, peerVars, silence>>

Acquired(b) ==
  /\ bridge[b].task /\ bridge[b].lease = "asked"
  /\ \/ /\ bridge' = [bridge EXCEPT ![b].lease = "held"]
        /\ UNCHANGED <<holder, moving>>
     \/ /\ bridge' = [bridge EXCEPT ![b].lease = "none"]
        /\ IF holder = b THEN holder' = 0 /\ moving' = FALSE ELSE UNCHANGED <<holder, moving>>
  /\ UNCHANGED <<running, peerVars, silence>>

\* A setpoint, new or the same again to keep the lease.
Send(b) ==
  /\ bridge[b].task /\ bridge[b].lease = "held"
  /\ IF holder = b
     THEN moving' = (bridge[b].target = "go") /\ UNCHANGED bridge
     ELSE bridge' = [bridge EXCEPT ![b].lease = "none"] /\ UNCHANGED moving
  /\ UNCHANGED <<running, peerVars, holder, silence>>

\* Five idle rounds: the loop sends a zero, releases and ends.
LoopEnds(b) ==
  /\ bridge[b].task /\ bridge[b].target = "zero" /\ bridge[b].lease # "asked"
  /\ bridge' = [bridge EXCEPT ![b].task = FALSE, ![b].lease = "none"]
  /\ Release(b)
  /\ UNCHANGED <<running, peerVars, silence>>

\* The session's deadman: nobody renews the setpoint.
Expires ==
  /\ holder # 0 /\ ~bridge[holder].task
  /\ holder' = 0 /\ moving' = FALSE
  /\ UNCHANGED <<running, peerVars, bridge, silence>>

Tick ==
  /\ moving /\ pc[holder] # "connected" /\ silence <= Deadman
  /\ silence' = silence + 1
  /\ UNCHANGED <<running, peerVars, bridge, holder, moving>>

-----------------------------------------------------------------------------
(* The end of RobotGateway.run: the signalling socket closes, a message    *)
(* cannot be parsed, or an offer takes more than a minute.                 *)

\* The handler and the pruner are cancelled wherever they are.
RunEnds ==
  /\ running = "serving"
  /\ running' = "closing"
  /\ offer' = [pc |-> "none", peer |-> 0]
  /\ teardown' = [teardown EXCEPT ![OfferCloser] = NoTeardown, ![Pruner] = NoTeardown,
                                  ![CloseAll] = IF current = 0 THEN NoTeardown
                                             ELSE [NoTeardown EXCEPT !.pc = "lock"]]
  /\ UNCHANGED <<token, current, young, driver, pc, driveVars>>

CloseAllEnds ==
  /\ running = "closing" /\ Idle(CloseAll)
  /\ running' = "ended"
  /\ UNCHANGED <<peerVars, driveVars>>

-----------------------------------------------------------------------------
Handler == Create \/ Describe
Teardown(c) == Locked(c) \/ Halted(c) \/ Stopped(c) \/ Closed(c)
Loop(b) == Acquire(b) \/ Acquired(b) \/ Send(b) \/ LoopEnds(b)

GatewayNext ==
  \/ Offer \/ Handler \/ OfferFails
  \/ \E p \in Peers : Connected(p) \/ Leaves(p) \/ Failed(p) \/ Message(p) \/ Loop(p)
  \/ Ages \/ Prune \/ Expires \/ Tick
  \/ \E c \in Closers : Teardown(c)
  \/ RunEnds \/ CloseAllEnds

GatewaySpec == GatewayInit /\ [][GatewayNext]_gatewayVars
GatewayFairSpec == GatewaySpec /\ WF_gatewayVars(Handler) /\ WF_gatewayVars(CloseAllEnds) /\ \A c \in Closers : WF_gatewayVars(Teardown(c))
-----------------------------------------------------------------------------
\* A teardown that was meant for one peer, by its failure or its age, closes no
\* other, however long it waited for the lock.
ReplacementSurvives ==
  [][\A c \in Closers :
       teardown[c].pc = "cancel" /\ teardown[c].peer # 0 /\ teardown'[c].pc = "close" =>
         teardown'[c].peer \in {0, teardown[c].peer}]_gatewayVars

\* While the gateway serves, a connection that is open is the user's own, or someone
\* is about to close it, unless its close has been given up.
NoPeerLeaks ==
  running = "serving" =>
    \A p \in Peers : pc[p] \notin {"none", "closed", "abandoned"} =>
      \/ p \in {current, offer.peer}
      \/ \E c \in Closers : teardown[c].pc = "close" /\ teardown[c].peer = p

\* A peer that has failed is closed, or its close given up, while the gateway serves.
FailedIsClosed ==
  \A p \in Peers :
    pc[p] = "failed" ~> pc[p] \in {"closed", "abandoned"} \/ running # "serving"

\* Peers are torn down, each once it has failed, and no other in its place.
PeersAreReaped == ReplacementSurvives /\ FailedIsClosed

\* "if no fresh setpoint arrives within deadman_ms the drive is zeroed ... so a
\* dropped network link or a stalled operator never leaves the dog moving."
DeadmanHolds == moving => silence <= Deadman
=============================================================================
