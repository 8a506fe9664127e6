------------------------------ MODULE LinksProofs ------------------------------
(***************************************************************************)
(* Proofs about Links, RobotConnection and Gateway for any number of       *)
(* retries, outages, attempts and offers: a connection behind every flag   *)
(* that claims one, no rival handshake, a shutdown that is final, no peer  *)
(* that is forgotten while open, and no replacement closed in the place of *)
(* the peer that failed.                                                   *)
(***************************************************************************)
EXTENDS Links, Integers, TLAPS

-----------------------------------------------------------------------------
(* The connection.                                                         *)

\* A thread that is still there has been told to stop and outlived its join.
Settled == Alive => thread.stop /\ thread.given

\* So is the last one whenever connect() is neither at work on it nor up with it; the
\* earlier ones are, because connect() moves on only then.
SettledInv ==
  /\ main \in {"off", "loop", "pause", "raised", "exited"} \/ closing = "done" => Settled
  /\ main = "exited" => ~Alive
  /\ former # "running"

\* The thread of the attempt connect() is at.
AttemptInv ==
  /\ main \in {"waiting", "timeout", "clean", "stop"} => ~thread.stop
  /\ main \in {"timeout", "clean", "stop"} => ~connected \/ late
  /\ main = "join" => thread.stop
  /\ main = "waiting" /\ thread.pc \in {"installed", "idle"}
       => connected /\ ~late /\ thread.pc = "installed"

\* The thread of the connection connect() has returned.
UpInv ==
  main = "up" =>
    /\ thread.pc \in {"none", "installed", "idle", "ended"} \/ (thread.stop /\ thread.given)
    /\ closing = "join" => thread.stop

\* What disconnect() has undone by the time it joins.
CloseInv ==
  /\ closing # "no" => shutdown
  /\ shutdown => main \in {"pause", "loop", "raised", "up", "exited"}
  /\ closing \in {"join", "done"} => ~connected /\ conn = "none"

FlagInv == ConnectedIsServed /\ UpIsConnected

ConnectionInv ==
  ConnectionTypeOK /\ SettledInv /\ AttemptInv /\ UpInv /\ CloseInv /\ FlagInv

\* Every step of the connection keeps its invariant.
LEMMA ConnectionNextInv ==
  ASSUME ConnectionInv, [ConnectionNext]_connectionVars
  PROVE  ConnectionInv'
<1>1. ASSUME ConnectBegins PROVE ConnectionInv'
  BY <1>1, ConnectionAssumption DEF ConnectionInv, ConnectionTypeOK, SettledInv,
     AttemptInv, UpInv, CloseInv, FlagInv, Settled, Alive, Served, ConnectedIsServed,
     UpIsConnected, ConnectBegins, line
<1>2. ASSUME ConnectOnce PROVE ConnectionInv'
  BY <1>2, ConnectionAssumption DEF ConnectionInv, ConnectionTypeOK, SettledInv,
     AttemptInv, UpInv, CloseInv, FlagInv, Settled, Alive, Served, ConnectedIsServed,
     UpIsConnected, ConnectOnce, caller, NoThread
<1>3. ASSUME ShutDownMeanwhile PROVE ConnectionInv'
  BY <1>3, ConnectionAssumption DEF ConnectionInv, ConnectionTypeOK, SettledInv,
     AttemptInv, UpInv, CloseInv, FlagInv, Settled, Alive, Served, ConnectedIsServed,
     UpIsConnected, ShutDownMeanwhile, caller, line
<1>4. ASSUME Succeeds PROVE ConnectionInv'
  BY <1>4, ConnectionAssumption DEF ConnectionInv, ConnectionTypeOK, SettledInv,
     AttemptInv, UpInv, CloseInv, FlagInv, Settled, Alive, Served, ConnectedIsServed,
     UpIsConnected, Succeeds, caller, line
<1>5. ASSUME Fails PROVE ConnectionInv'
  BY <1>5, ConnectionAssumption DEF ConnectionInv, ConnectionTypeOK, SettledInv,
     AttemptInv, UpInv, CloseInv, FlagInv, Settled, Alive, Served, ConnectedIsServed,
     UpIsConnected, Fails, Lowered, Causes
<1>6. ASSUME WaitTimesOut PROVE ConnectionInv'
  BY <1>6, ConnectionAssumption DEF ConnectionInv, ConnectionTypeOK, SettledInv,
     AttemptInv, UpInv, CloseInv, FlagInv, Settled, Alive, Served, ConnectedIsServed,
     UpIsConnected, WaitTimesOut, Ready, caller, line
<1>7. ASSUME TimeoutRaises PROVE ConnectionInv'
  <2>1. /\ main = "timeout" /\ main' = "clean" /\ cause' = "slot"
        /\ connected' = FALSE /\ late' = FALSE
        /\ UNCHANGED <<retries, closing, shutdown, thread, former, slot, conn>>
    BY <1>7 DEF TimeoutRaises, Lowered
  <2>2. ConnectionTypeOK'
    <3>1. connected' \in BOOLEAN /\ late' \in BOOLEAN /\ cause' \in Causes
      BY <2>1 DEF Causes
    <3>. QED BY <2>1, <3>1 DEF ConnectionInv, ConnectionTypeOK
  <2>. QED
    BY <2>1, <2>2 DEF ConnectionInv, ConnectionTypeOK, SettledInv, AttemptInv, UpInv, CloseInv,
       FlagInv, Settled, Served, ConnectedIsServed, UpIsConnected
<1>8. ASSUME CleanConn PROVE ConnectionInv'
  BY <1>8, ConnectionAssumption DEF ConnectionInv, ConnectionTypeOK, SettledInv,
     AttemptInv, UpInv, CloseInv, FlagInv, Settled, Alive, Served, ConnectedIsServed,
     UpIsConnected, CleanConn, caller, Releases, PeerOf
<1>9. ASSUME StopLoop PROVE ConnectionInv'
  BY <1>9, ConnectionAssumption DEF ConnectionInv, ConnectionTypeOK, SettledInv,
     AttemptInv, UpInv, CloseInv, FlagInv, Settled, Alive, Served, ConnectedIsServed,
     UpIsConnected, StopLoop, caller, line
<1>10. ASSUME Join PROVE ConnectionInv'
  BY <1>10, ConnectionAssumption DEF ConnectionInv, ConnectionTypeOK, SettledInv,
     AttemptInv, UpInv, CloseInv, FlagInv, Settled, Alive, Served, ConnectedIsServed,
     UpIsConnected, Join, caller, line
<1>11. ASSUME Retry PROVE ConnectionInv'
  BY <1>11, ConnectionAssumption DEF ConnectionInv, ConnectionTypeOK, SettledInv,
     AttemptInv, UpInv, CloseInv, FlagInv, Settled, Alive, Served, ConnectedIsServed,
     UpIsConnected, Retry, line
<1>12. ASSUME BackOff PROVE ConnectionInv'
  BY <1>12, ConnectionAssumption DEF ConnectionInv, ConnectionTypeOK, SettledInv,
     AttemptInv, UpInv, CloseInv, FlagInv, Settled, Alive, Served, ConnectedIsServed,
     UpIsConnected, BackOff, caller, line
<1>13. ASSUME AuthRaises PROVE ConnectionInv'
  BY <1>13, ConnectionAssumption DEF ConnectionInv, ConnectionTypeOK, SettledInv,
     AttemptInv, UpInv, CloseInv, FlagInv, Settled, Alive, Served, ConnectedIsServed,
     UpIsConnected, AuthRaises, caller, line
<1>14. ASSUME Interrupted PROVE ConnectionInv'
  BY <1>14, ConnectionAssumption DEF ConnectionInv, ConnectionTypeOK, SettledInv,
     AttemptInv, UpInv, CloseInv, FlagInv, Settled, Alive, Served, ConnectedIsServed,
     UpIsConnected, Interrupted, caller, line
<1>15. ASSUME Disconnect PROVE ConnectionInv'
  BY <1>15, ConnectionAssumption DEF ConnectionInv, ConnectionTypeOK, SettledInv,
     AttemptInv, UpInv, CloseInv, FlagInv, Settled, Alive, Served, ConnectedIsServed,
     UpIsConnected, Disconnect, line
<1>16. ASSUME Dismantle PROVE ConnectionInv'
  BY <1>16, ConnectionAssumption DEF ConnectionInv, ConnectionTypeOK, SettledInv,
     AttemptInv, UpInv, CloseInv, FlagInv, Settled, Alive, Served, ConnectedIsServed,
     UpIsConnected, Dismantle, Lowered, Releases, PeerOf
<1>17. ASSUME Joined PROVE ConnectionInv'
  BY <1>17, ConnectionAssumption DEF ConnectionInv, ConnectionTypeOK, SettledInv,
     AttemptInv, UpInv, CloseInv, FlagInv, Settled, Alive, Served, ConnectedIsServed,
     UpIsConnected, Joined, line
<1>18. ASSUME Exit PROVE ConnectionInv'
  BY <1>18, ConnectionAssumption DEF ConnectionInv, ConnectionTypeOK, SettledInv,
     AttemptInv, UpInv, CloseInv, FlagInv, Settled, Alive, Served, ConnectedIsServed,
     UpIsConnected, Exit, caller
<1>19. ASSUME FormerEnds PROVE ConnectionInv'
  BY <1>19, ConnectionAssumption DEF ConnectionInv, ConnectionTypeOK, SettledInv,
     AttemptInv, UpInv, CloseInv, FlagInv, Settled, Alive, Served, ConnectedIsServed,
     UpIsConnected, FormerEnds, caller
<1>20. ASSUME LinkLost PROVE ConnectionInv'
  BY <1>20, ConnectionAssumption DEF ConnectionInv, ConnectionTypeOK, SettledInv,
     AttemptInv, UpInv, CloseInv, FlagInv, Settled, Alive, Served, ConnectedIsServed,
     UpIsConnected, LinkLost, caller
<1>21. ASSUME SlotTimesOut PROVE ConnectionInv'
  BY <1>21, ConnectionAssumption DEF ConnectionInv, ConnectionTypeOK, SettledInv,
     AttemptInv, UpInv, CloseInv, FlagInv, Settled, Alive, Served, ConnectedIsServed,
     UpIsConnected, SlotTimesOut, caller
<1>22. ASSUME ThreadStep PROVE ConnectionInv'
  <2>1. main # "exited" /\ Alive /\ UNCHANGED <<main, caller, former>>
        /\ \E q \in {"shaking", "preparing", "failing", "failed", "installed", "idle", "ended"} :
              thread' = [thread EXCEPT !.pc = q]
    BY <1>22 DEF ThreadStep, Shake, Shaken, Unreachable, HandshakeFails, HandshakeReleased,
       KeepaliveEnds, Install, SubscribeFails, ThreadEnds, Thread, Alive, ConnectionInv,
       ConnectionTypeOK
  <2>0. /\ thread'.stop = thread.stop /\ thread'.given = thread.given
        /\ thread' \in [pc: {"none", "shaking", "preparing", "failing", "failed", "installed",
                            "idle", "ended"}, stop: BOOLEAN, given: BOOLEAN]
    BY <2>1 DEF ConnectionInv, ConnectionTypeOK
  <2>2. \/ /\ thread'.pc = "ended" /\ thread.stop /\ UNCHANGED <<conn, connected, late>>
        \/ /\ ~(thread.stop /\ thread.given)
           /\ \/ /\ UNCHANGED <<conn, connected, late>>
                 /\ thread'.pc \in {"shaking", "preparing", "failing", "failed"}
                 /\ thread.pc \in {"shaking", "preparing", "failing"}
              \/ /\ UNCHANGED <<conn, connected, late>>
                 /\ thread.pc = "installed" /\ thread'.pc = "idle" /\ ~connected
              \/ /\ thread.pc = "preparing" /\ thread'.pc = "installed"
                 /\ conn' = "own" /\ connected' = TRUE /\ late' \in BOOLEAN
                 /\ main = "waiting" => ~late'
                 /\ main # "waiting" => late'
              \/ /\ thread.pc = "preparing" /\ thread'.pc = "failed"
                 /\ conn' = "own" /\ UNCHANGED <<connected, late>>
    BY <1>22 DEF ThreadStep, Shake, Shaken, Unreachable, HandshakeFails, HandshakeReleased,
       KeepaliveEnds, Install, SubscribeFails, ThreadEnds, Thread, ConnectionInv,
       ConnectionTypeOK
  <2>3. slot' \in {"free", "own", "gone"}
    BY <1>22 DEF ThreadStep, Shake, Shaken, Unreachable, HandshakeFails, HandshakeReleased,
       KeepaliveEnds, Install, SubscribeFails, ThreadEnds, Releases, ConnectionInv,
       ConnectionTypeOK
  <2>4. ~(thread.stop /\ thread.given)
          => main \in {"waiting", "timeout", "clean", "stop", "join", "up"} /\ closing # "done"
    BY <2>1 DEF ConnectionInv, ConnectionTypeOK, SettledInv, Settled
  <2>5. ConnectionTypeOK'
    <3>1. /\ conn' \in {"none", "own", "former"}
          /\ connected' \in BOOLEAN /\ late' \in BOOLEAN
      BY <2>2 DEF ConnectionInv, ConnectionTypeOK
    <3>. QED BY <2>0, <2>1, <2>3, <3>1 DEF ConnectionInv, ConnectionTypeOK, caller
  <2>6. SettledInv'
    BY <2>0, <2>1, <2>2, <2>4 DEF ConnectionInv, SettledInv, Settled, Alive, caller
  <2>7. AttemptInv'
    BY <2>0, <2>1, <2>2, <2>4 DEF ConnectionInv, ConnectionTypeOK, AttemptInv, caller
  <2>8. CloseInv'
    BY <2>0, <2>1, <2>2, <2>4 DEF ConnectionInv, CloseInv, UpInv, SettledInv, Settled, Alive,
       ConnectionTypeOK, caller
  <2>9. UpInv' /\ FlagInv'
    BY <2>0, <2>1, <2>2, <2>4 DEF ConnectionInv, ConnectionTypeOK, AttemptInv, UpInv, CloseInv,
       FlagInv, Served, ConnectedIsServed, UpIsConnected, Alive, caller
  <2>. QED BY <2>5, <2>6, <2>7, <2>8, <2>9 DEF ConnectionInv
<1>23. ASSUME UNCHANGED connectionVars PROVE ConnectionInv'
  BY <1>23, ConnectionAssumption DEF ConnectionInv, ConnectionTypeOK, SettledInv,
     AttemptInv, UpInv, CloseInv, FlagInv, Settled, Alive, Served, ConnectedIsServed,
     UpIsConnected, connectionVars
<1>. QED
  BY <1>1, <1>2, <1>3, <1>4, <1>5, <1>6, <1>7, <1>8, <1>9, <1>10, <1>11, <1>12, <1>13,
     <1>14, <1>15, <1>16, <1>17, <1>18, <1>19, <1>20, <1>21, <1>22, <1>23 DEF
     ConnectionNext, Caller, Closer

\* connect() starts with no thread.
LEMMA ConnectionInitInv == ConnectionInit => ConnectionInv
<1>0. ConnectionInit => retries \in 0..SlotRetries + 1
  BY ConnectionAssumption DEF ConnectionInit
<1>1. NoThread \in [pc: {"none", "shaking", "preparing", "failing", "failed", "installed",
                       "idle", "ended"}, stop: BOOLEAN, given: BOOLEAN]
  BY DEF NoThread
<1>2. ConnectionInit => ConnectionTypeOK
  BY <1>0, <1>1 DEF ConnectionInit, ConnectionTypeOK, Causes
<1>3. ConnectionInit => ~Alive
  BY DEF ConnectionInit, NoThread, Alive
<1>. QED
  BY <1>2, <1>3 DEF ConnectionInit, ConnectionInv, SettledInv, AttemptInv, UpInv, CloseInv,
     FlagInv, Settled, Served, ConnectedIsServed, UpIsConnected

\* After a disconnect() no thread is left but one that would not stop.
LEMMA ConnectionInvTells == ConnectionInv => ConnectionIsTrue
BY DEF ConnectionInv, SettledInv, CloseInv, FlagInv, Settled, ConnectionIsTrue,
   ShutdownIsFinal, OneHandshake

\* For any number of retries, outages and attempts: at every moment, whatever connect()
\* and disconnect() are doing, a set _connected has a live connection behind it, unless a
\* handshake that finished late has set it; connect() returns with it set and leaves no
\* rival thread; disconnect() is final.
THEOREM ConnectionAlwaysTrue == ConnectionSpec => []ConnectionIsTrue
BY ConnectionInitInv, ConnectionNextInv, ConnectionInvTells, PTL DEF ConnectionSpec

-----------------------------------------------------------------------------
(* The gateway.                                                            *)

Holds(c) == teardown[c].pc \in {"halt", "cancel", "close"}

\* The offer being handled is the newest, and its peer is new to everybody.
OfferInv ==
  /\ offer.pc = "none" => offer.peer = 0
  /\ offer.pc # "none" => offer.peer = token /\ token # 0
  /\ \A p \in Peers : p > token \/ (offer.pc = "tear" /\ p = token) => pc[p] = "none"

\* A peer that is in the table, or about to be closed, was made.
Made(p) == p \in Peers => pc[p] # "none"
MadeInv ==
  /\ Made(current)
  /\ \A c \in Closers : teardown[c].pc = "close" => Made(teardown[c].peer)

\* The teardown that makes room for an offer is complete before its peer is made.
RoomInv ==
  offer.pc = "tear" =>
    /\ teardown[OfferCloser].pc = "lock" => teardown[OfferCloser].peer = 0
    /\ teardown[OfferCloser].pc \in {"none", "close"} => current = 0

\* A peer fails once, so that its callback does not overtake itself.
CallbackInv == \A p \in Peers : ~Idle(Callback(p)) => pc[p] \in {"failed", "closed", "abandoned"}

\* One teardown at a time, and the one it was meant for is still the user's.
LockInv ==
  /\ \A c, d \in Closers : Holds(c) /\ Holds(d) => c = d
  /\ \A c \in Closers :
       teardown[c].pc \in {"halt", "cancel"} /\ teardown[c].peer # 0 => current = teardown[c].peer

GatewayInv ==
  GatewayTypeOK /\ OfferInv /\ MadeInv /\ RoomInv /\ CallbackInv /\ LockInv /\ NoPeerLeaks

\* The bounds of the constants.
LEMMA Zero == 0 \in 0..MaxPeers /\ 0 \in 0..Deadman + 1 /\ MaxPeers \in Nat /\ Deadman \in Nat
BY GatewayAssumption

\* Who tears down is told apart by role and peer.
LEMMA Names ==
  /\ OfferCloser \in Closers /\ Pruner \in Closers /\ CloseAll \in Closers
  /\ \A p \in Peers : Callback(p) \in Closers
  /\ OfferCloser # Pruner /\ OfferCloser # CloseAll /\ Pruner # CloseAll
  /\ \A p \in Peers : Callback(p) \notin {OfferCloser, Pruner, CloseAll}
  /\ \A p, q \in Peers : Callback(p) = Callback(q) => p = q
BY DEF Closers, OfferCloser, Pruner, CloseAll, Callback

\* The records of a teardown and of a bridge.
TearType == [pc: {"none", "lock", "halt", "cancel", "close"}, peer: 0..MaxPeers, bridge: 0..MaxPeers]
BridgeType == [target: {"zero", "go"}, task: BOOLEAN, lease: {"none", "asked", "held"}]

\* A teardown begins by waiting for the lock.
LEMMA TearDownShape ==
  ASSUME GatewayInv, NEW c \in Closers, NEW q \in 0..MaxPeers, TearDown(c, q)
  PROVE  /\ teardown' \in [Closers -> TearType]
         /\ teardown'[c].pc = "lock" /\ teardown'[c].peer = q
         /\ \A d \in Closers : d # c => teardown'[d] = teardown[d]
<1>. DEFINE r == [NoTeardown EXCEPT !.pc = "lock", !.peer = q]
<1>1. r \in TearType /\ r.pc = "lock" /\ r.peer = q
  BY Zero DEF NoTeardown, TearType
<1>2. teardown' = [teardown EXCEPT ![c] = r]
  BY DEF TearDown
<1>. HIDE DEF r
<1>. QED BY <1>1, <1>2 DEF GatewayInv, GatewayTypeOK, TearType

\* An open peer that leaves the table or its handler is handed to a teardown, and a
\* teardown that is about to close one goes on to do so.
LEMMA LeaksKeep ==
  ASSUME GatewayInv, running' = "serving" => running = "serving",
         \A p \in Peers : pc'[p] \notin {"none", "closed", "abandoned"} =>
           \/ p \in {current', offer'.peer}
           \/ \E c \in Closers : teardown'[c].pc = "close" /\ teardown'[c].peer = p
           \/ pc[p] \notin {"none", "closed", "abandoned"} /\ p \notin {current, offer.peer},
         \A c \in Closers : teardown[c].pc = "close" =>
           \/ teardown'[c].pc = "close" /\ teardown'[c].peer = teardown[c].peer
           \/ teardown[c].peer \in Peers => pc'[teardown[c].peer] \in {"none", "closed", "abandoned"}
  PROVE  NoPeerLeaks'
BY DEF GatewayInv, NoPeerLeaks

\* No peer is unmade, the table takes a peer that was made, and what a teardown is
\* about to close is what it was about to close or comes from the table.
LEMMA MadeKeep ==
  ASSUME GatewayInv,
         \A p \in Peers : pc[p] # "none" => pc'[p] # "none",
         current' \in {0, current} \/ pc'[current'] # "none",
         \A c \in Closers : teardown'[c].pc = "close" =>
           \/ teardown[c].pc = "close" /\ teardown'[c].peer = teardown[c].peer
           \/ teardown'[c].peer \in {0, current}
  PROVE  MadeInv'
<1>1. 0 \notin Peers
  BY DEF Peers
<1>2. Made(current)'
  BY <1>1 DEF GatewayInv, MadeInv, Made
<1>3. ASSUME NEW c \in Closers, teardown'[c].pc = "close" PROVE Made(teardown[c].peer)'
  BY <1>1, <1>3 DEF GatewayInv, MadeInv, Made
<1>. QED BY <1>2, <1>3 DEF MadeInv

\* The sender loops and the session change nothing of the peers.
LEMMA DriveKeeps ==
  ASSUME GatewayInv, UNCHANGED <<running, peerVars>>, bridge' \in [Peers -> BridgeType],
         holder' \in 0..MaxPeers, moving' \in BOOLEAN, silence' \in 0..Deadman + 1
  PROVE  GatewayInv'
<1>1. GatewayTypeOK'
  BY DEF GatewayInv, GatewayTypeOK, BridgeType, peerVars
<1>2. OfferInv' /\ MadeInv' /\ RoomInv'
  BY DEF GatewayInv, OfferInv, MadeInv, Made, RoomInv, peerVars
<1>3. CallbackInv' /\ LockInv'
  BY DEF GatewayInv, CallbackInv, LockInv, Holds, Idle, peerVars
<1>4. NoPeerLeaks'
  BY DEF GatewayInv, NoPeerLeaks, peerVars
<1>. QED BY <1>1, <1>2, <1>3, <1>4 DEF GatewayInv

\* An offer whose peer was replaced closes it on the spot.
LEMMA OfferCloses ==
  ASSUME GatewayInv, NEW q \in Peers, q = offer.peer, q = token,
         offer.pc \in {"describe", "attach", "gather"},
         offer' = [pc |-> "none", peer |-> 0], pc' = [pc EXCEPT ![q] = "closed"],
         UNCHANGED <<running, token, current, young, driver, teardown, bridge, holder, moving,
                     silence>>
  PROVE  GatewayInv'
<1>1. offer'.pc = "none" /\ offer'.peer = 0
      /\ offer' \in [pc: {"none", "tear", "describe", "attach", "gather"}, peer: 0..MaxPeers]
  BY Zero
<1>2. /\ pc' \in [Peers -> {"none", "new", "connecting", "connected", "gone", "failed",
                            "closed", "abandoned"}]
      /\ \A r \in Peers : pc'[r] = IF r = q THEN "closed" ELSE pc[r]
  BY DEF GatewayInv, GatewayTypeOK
<1>3. \A r \in Peers : r > token => r # q
  BY DEF Peers
<1>4. GatewayTypeOK'
  BY <1>1, <1>2 DEF GatewayInv, GatewayTypeOK
<1>5. OfferInv' /\ MadeInv' /\ RoomInv'
  BY <1>1, <1>2, <1>3 DEF MadeInv, Made, GatewayInv, GatewayTypeOK, OfferInv, RoomInv, Peers
<1>6. CallbackInv' /\ LockInv'
  BY <1>2 DEF GatewayInv, CallbackInv, LockInv, Holds, Idle
<1>7. NoPeerLeaks'
  BY <1>1, <1>2 DEF GatewayInv, NoPeerLeaks
<1>. QED BY <1>4, <1>5, <1>6, <1>7 DEF GatewayInv

\* Every step of the gateway keeps its invariant.
LEMMA GatewayNextInv ==
  ASSUME GatewayInv, [GatewayNext]_gatewayVars
  PROVE  GatewayInv'
<1>1. ASSUME Offer PROVE GatewayInv'
  <2>1. /\ running = "serving" /\ offer.pc = "none" /\ Idle(OfferCloser) /\ token < MaxPeers
        /\ token' = token + 1 /\ offer' = [pc |-> "tear", peer |-> token + 1]
        /\ UNCHANGED <<running, current, young, driver, pc, bridge, holder, moving, silence>>
        /\ TearDown(OfferCloser, 0)
    BY <1>1 DEF Offer, driveVars
  <2>2. /\ teardown' \in [Closers -> TearType]
        /\ teardown'[OfferCloser].pc = "lock" /\ teardown'[OfferCloser].peer = 0
        /\ \A c \in Closers : c # OfferCloser => teardown'[c] = teardown[c]
    BY <2>1, Names, TearDownShape, Zero
  <2>3. /\ token \in 0..MaxPeers /\ token + 1 \in 0..MaxPeers /\ token + 1 # 0
    BY <2>1, GatewayAssumption DEF GatewayInv, GatewayTypeOK
  <2>4. offer' \in [pc: {"none", "tear", "describe", "attach", "gather"}, peer: 0..MaxPeers]
        /\ offer'.pc = "tear" /\ offer'.peer = token + 1 /\ offer.peer = 0
    BY <2>1, <2>3 DEF GatewayInv, OfferInv
  <2>11. GatewayTypeOK'
    BY <2>1, <2>2, <2>3, <2>4, Names DEF GatewayInv, GatewayTypeOK, TearType, BridgeType
  <2>12. OfferInv'
    BY <2>1, <2>2, <2>3, <2>4, Names DEF GatewayInv, GatewayTypeOK, OfferInv, Peers, Idle
  <2>22. \A u \in Peers : pc[u] # "none" => pc'[u] # "none"
    BY <2>1, <2>2, <2>3, <2>4, Names DEF GatewayInv, GatewayTypeOK, OfferInv, Peers
  <2>23. current' \in {0, current} \/ pc'[current'] # "none"
    BY <2>1, <2>2, <2>3, <2>4, Names DEF GatewayInv, GatewayTypeOK
  <2>24. \A d \in Closers : teardown'[d].pc = "close" =>
           \/ teardown[d].pc = "close" /\ teardown'[d].peer = teardown[d].peer
           \/ teardown'[d].peer \in {0, current}
    BY <2>1, <2>2, <2>3, <2>4, Names DEF GatewayInv, GatewayTypeOK, Idle, Holds
  <2>13. MadeInv'
    BY <2>22, <2>23, <2>24, MadeKeep
  <2>14. RoomInv'
    BY <2>1, <2>2, <2>3, <2>4, Names DEF GatewayInv, RoomInv, OfferInv
  <2>15. CallbackInv'
    BY <2>1, <2>2, <2>3, <2>4, Names DEF GatewayInv, CallbackInv, OfferInv, Idle
  <2>16. LockInv'
    BY <2>1, <2>2, <2>3, <2>4, Names DEF GatewayInv, LockInv, RoomInv, Holds, Idle
  <2>20. \A u \in Peers : pc'[u] \notin {"none", "closed", "abandoned"} =>
           \/ u \in {current', offer'.peer}
           \/ \E d \in Closers : teardown'[d].pc = "close" /\ teardown'[d].peer = u
           \/ pc[u] \notin {"none", "closed", "abandoned"} /\ u \notin {current, offer.peer}
    BY <2>1, <2>2, <2>3, <2>4, Names DEF GatewayInv, GatewayTypeOK, OfferInv, RoomInv,
       Idle, Peers
  <2>21. \A d \in Closers : teardown[d].pc = "close" =>
           \/ teardown'[d].pc = "close" /\ teardown'[d].peer = teardown[d].peer
           \/ teardown[d].peer \in Peers => pc'[teardown[d].peer] \in {"none", "closed", "abandoned"}
    BY <2>1, <2>2, <2>3, <2>4, Names DEF GatewayInv, GatewayTypeOK, Idle, Holds, Peers
  <2>17. NoPeerLeaks'
    BY <2>1, <2>2, <2>3, <2>4, <2>20, <2>21, LeaksKeep
  <2>. QED BY <2>11, <2>12, <2>13, <2>14, <2>15, <2>16, <2>17 DEF GatewayInv
<1>2. ASSUME Create PROVE GatewayInv'
  <2> DEFINE q == offer.peer
  <2>1. /\ offer.pc = "tear" /\ Idle(OfferCloser) /\ current' = q /\ driver' = q /\ young' = TRUE
        /\ pc' = [pc EXCEPT ![q] = "new"] /\ offer' = [offer EXCEPT !.pc = "describe"]
        /\ UNCHANGED <<running, token, teardown, bridge, holder, moving, silence>>
    BY <1>2 DEF Create, driveVars
  <2>2. q \in Peers /\ q = token /\ q \in 0..MaxPeers /\ q # 0
    BY <2>1 DEF GatewayInv, GatewayTypeOK, OfferInv, Peers
  <2>3. current = 0 /\ \A c \in Closers :
          teardown[c].pc \in {"halt", "cancel"} => teardown[c].peer = 0
    BY <2>1, Names DEF GatewayInv, RoomInv, LockInv, Idle
  <2>4. offer'.pc = "describe" /\ offer'.peer = q
        /\ offer' \in [pc: {"none", "tear", "describe", "attach", "gather"}, peer: 0..MaxPeers]
    BY <2>1 DEF GatewayInv, GatewayTypeOK
  <2>5. pc[q] = "none"
    BY <2>1, <2>2 DEF GatewayInv, OfferInv
  <2>6. /\ pc' \in [Peers -> {"none", "new", "connecting", "connected", "gone", "failed",
                              "closed", "abandoned"}]
        /\ \A r \in Peers : r # q => pc'[r] = pc[r]
    BY <2>1 DEF GatewayInv, GatewayTypeOK
  <2>7. \A r \in Peers : r > token => r # q
    BY <2>2 DEF Peers
  <2>. HIDE DEF q
  <2>11. GatewayTypeOK'
    BY <2>1, <2>2, <2>3, <2>4, <2>5, <2>6, <2>7, Names DEF GatewayInv, GatewayTypeOK,
       TearType, BridgeType
  <2>12. OfferInv'
    BY <2>1, <2>2, <2>3, <2>4, <2>5, <2>6, <2>7, Names DEF GatewayInv, GatewayTypeOK,
       OfferInv, Peers, Idle
  <2>22. \A u \in Peers : pc[u] # "none" => pc'[u] # "none"
    BY <2>1, <2>2, <2>3, <2>4, <2>5, <2>6, <2>7, Names DEF GatewayInv, GatewayTypeOK,
       OfferInv, Peers
  <2>23. current' \in {0, current} \/ pc'[current'] # "none"
    BY <2>1, <2>2, <2>3, <2>4, <2>5, <2>6, <2>7, Names DEF GatewayInv, GatewayTypeOK
  <2>24. \A d \in Closers : teardown'[d].pc = "close" =>
           \/ teardown[d].pc = "close" /\ teardown'[d].peer = teardown[d].peer
           \/ teardown'[d].peer \in {0, current}
    BY <2>1, <2>2, <2>3, <2>4, <2>5, <2>6, <2>7, Names DEF GatewayInv, GatewayTypeOK, Idle,
       Holds
  <2>13. MadeInv'
    BY <2>22, <2>23, <2>24, MadeKeep
  <2>14. RoomInv'
    BY <2>1, <2>2, <2>3, <2>4, <2>5, <2>6, <2>7, Names DEF GatewayInv, RoomInv, OfferInv
  <2>15. CallbackInv'
    BY <2>1, <2>2, <2>3, <2>4, <2>5, <2>6, <2>7, Names DEF GatewayInv, CallbackInv,
       OfferInv, Idle
  <2>16. LockInv'
    BY <2>1, <2>2, <2>3, <2>4, <2>5, <2>6, <2>7, Names DEF GatewayInv, LockInv, RoomInv,
       Holds, Idle
  <2>20. \A u \in Peers : pc'[u] \notin {"none", "closed", "abandoned"} =>
           \/ u \in {current', offer'.peer}
           \/ \E d \in Closers : teardown'[d].pc = "close" /\ teardown'[d].peer = u
           \/ pc[u] \notin {"none", "closed", "abandoned"} /\ u \notin {current, offer.peer}
    BY <2>1, <2>2, <2>3, <2>4, <2>5, <2>6, <2>7, Names DEF GatewayInv, GatewayTypeOK,
       OfferInv, RoomInv, Idle, Peers
  <2>21. \A d \in Closers : teardown[d].pc = "close" =>
           \/ teardown'[d].pc = "close" /\ teardown'[d].peer = teardown[d].peer
           \/ teardown[d].peer \in Peers => pc'[teardown[d].peer] \in {"none", "closed", "abandoned"}
    BY <2>1, <2>2, <2>3, <2>4, <2>5, <2>6, <2>7, Names DEF GatewayInv, GatewayTypeOK, Idle,
       Holds, Peers
  <2>17. NoPeerLeaks'
    BY <2>1, <2>2, <2>3, <2>4, <2>5, <2>6, <2>7, <2>20, <2>21, LeaksKeep
  <2>. QED BY <2>11, <2>12, <2>13, <2>14, <2>15, <2>16, <2>17 DEF GatewayInv
<1>3. ASSUME Describe PROVE GatewayInv'
  <2> DEFINE q == offer.peer
  <2>1. /\ offer.pc \in {"describe", "attach", "gather"}
        /\ UNCHANGED <<running, token, current, young, driver, teardown, bridge, holder, moving,
                       silence>>
    BY <1>3 DEF Describe, driveVars
  <2>2. q \in Peers /\ q = token /\ q # 0
    BY <2>1 DEF GatewayInv, GatewayTypeOK, OfferInv, Peers
  <2>3. CASE IsCurrent(q)
    <3>1. /\ offer' = CASE offer.pc = "describe" -> [offer EXCEPT !.pc = "attach"]
                        [] offer.pc = "attach" -> [offer EXCEPT !.pc = "gather"]
                        [] OTHER -> [pc |-> "none", peer |-> 0]
          /\ pc' = IF pc[q] = "new" THEN [pc EXCEPT ![q] = "connecting"] ELSE pc
      BY <1>3, <2>3 DEF Describe
    <3>2. /\ offer'.pc \in {"none", "attach", "gather"}
          /\ offer'.peer = IF offer'.pc = "none" THEN 0 ELSE q
          /\ offer' \in [pc: {"none", "tear", "describe", "attach", "gather"}, peer: 0..MaxPeers]
      <4>1. CASE offer.pc = "describe"
        BY <2>1, <3>1, <4>1 DEF GatewayInv, GatewayTypeOK
      <4>2. CASE offer.pc = "attach"
        BY <2>1, <3>1, <4>2 DEF GatewayInv, GatewayTypeOK
      <4>3. CASE offer.pc = "gather"
        BY <2>1, <3>1, <4>3, Zero DEF GatewayInv, GatewayTypeOK
      <4>. QED BY <2>1, <4>1, <4>2, <4>3
    <3>3. /\ pc' \in [Peers -> {"none", "new", "connecting", "connected", "gone", "failed",
                                "closed", "abandoned"}]
          /\ \A r \in Peers : pc'[r] = pc[r] \/ (r = q /\ pc[r] = "new" /\ pc'[r] = "connecting")
      BY <3>1 DEF GatewayInv, GatewayTypeOK
    <3>4. current = q /\ \A r \in Peers : r > token => r # q
      BY <2>2, <2>3 DEF IsCurrent, Peers
    <3>. HIDE DEF q
    <3>11. GatewayTypeOK'
      BY <2>1, <2>2, <3>2, <3>3, <3>4, Names DEF GatewayInv, GatewayTypeOK, TearType,
         BridgeType
    <3>12. OfferInv'
      BY <2>1, <2>2, <3>2, <3>3, <3>4, Names DEF GatewayInv, GatewayTypeOK, OfferInv, Peers,
         Idle
    <3>22. \A u \in Peers : pc[u] # "none" => pc'[u] # "none"
      BY <2>1, <2>2, <3>2, <3>3, <3>4, Names DEF GatewayInv, GatewayTypeOK, OfferInv, Peers
    <3>23. current' \in {0, current} \/ pc'[current'] # "none"
      BY <2>1, <2>2, <3>2, <3>3, <3>4, Names DEF GatewayInv, GatewayTypeOK
    <3>24. \A d \in Closers : teardown'[d].pc = "close" =>
             \/ teardown[d].pc = "close" /\ teardown'[d].peer = teardown[d].peer
             \/ teardown'[d].peer \in {0, current}
      BY <2>1, <2>2, <3>2, <3>3, <3>4, Names DEF GatewayInv, GatewayTypeOK, Idle, Holds
    <3>13. MadeInv'
      BY <3>22, <3>23, <3>24, MadeKeep
    <3>14. RoomInv'
      BY <2>1, <2>2, <3>2, <3>3, <3>4, Names DEF GatewayInv, RoomInv, OfferInv
    <3>15. CallbackInv'
      BY <2>1, <2>2, <3>2, <3>3, <3>4, Names DEF GatewayInv, CallbackInv, OfferInv, Idle
    <3>16. LockInv'
      BY <2>1, <2>2, <3>2, <3>3, <3>4, Names DEF GatewayInv, LockInv, RoomInv, Holds, Idle
    <3>20. \A u \in Peers : pc'[u] \notin {"none", "closed", "abandoned"} =>
             \/ u \in {current', offer'.peer}
             \/ \E d \in Closers : teardown'[d].pc = "close" /\ teardown'[d].peer = u
             \/ pc[u] \notin {"none", "closed", "abandoned"} /\ u \notin {current, offer.peer}
      BY <2>1, <2>2, <3>2, <3>3, <3>4, Names DEF GatewayInv, GatewayTypeOK, OfferInv,
         RoomInv, Idle, Peers
    <3>21. \A d \in Closers : teardown[d].pc = "close" =>
             \/ teardown'[d].pc = "close" /\ teardown'[d].peer = teardown[d].peer
             \/ teardown[d].peer \in Peers => pc'[teardown[d].peer] \in {"none", "closed", "abandoned"}
      BY <2>1, <2>2, <3>2, <3>3, <3>4, Names DEF GatewayInv, GatewayTypeOK, Idle, Holds,
         Peers
    <3>17. NoPeerLeaks'
      BY <2>1, <2>2, <3>2, <3>3, <3>4, <3>20, <3>21, LeaksKeep
    <3>. QED BY <3>11, <3>12, <3>13, <3>14, <3>15, <3>16, <3>17 DEF GatewayInv
  <2>4. CASE ~IsCurrent(q)
    <3>1. offer' = [pc |-> "none", peer |-> 0] /\ pc' = [pc EXCEPT ![q] = "closed"]
      BY <1>3, <2>4 DEF Describe
    <3>2. q = offer.peer
      OBVIOUS
    <3>. HIDE DEF q
    <3>. QED BY <2>1, <2>2, <3>1, <3>2, OfferCloses
  <2>. QED BY <2>3, <2>4
<1>4. ASSUME OfferFails PROVE GatewayInv'
  <2> DEFINE q == offer.peer
  <2>1. /\ offer.pc \in {"describe", "attach", "gather"} /\ Idle(OfferCloser)
        /\ offer' = [pc |-> "none", peer |-> 0]
        /\ UNCHANGED <<running, token, current, young, driver, bridge, holder, moving, silence>>
    BY <1>4 DEF OfferFails, driveVars
  <2>2. q \in Peers /\ q = token /\ q # 0
    BY <2>1 DEF GatewayInv, GatewayTypeOK, OfferInv, Peers
  <2>3. CASE ~IsCurrent(q)
    <3>1. UNCHANGED teardown /\ pc' = [pc EXCEPT ![q] = "closed"]
      BY <1>4, <2>3 DEF OfferFails
    <3>2. q = offer.peer
      OBVIOUS
    <3>. HIDE DEF q
    <3>. QED BY <2>1, <2>2, <3>1, <3>2, OfferCloses
  <2>4. CASE IsCurrent(q)
    <3>1. UNCHANGED pc /\ TearDown(OfferCloser, q) /\ current = q
      BY <1>4, <2>4 DEF OfferFails, IsCurrent
    <3>2. /\ teardown' \in [Closers -> TearType] /\ teardown'[OfferCloser].pc = "lock"
          /\ \A c \in Closers : c # OfferCloser => teardown'[c] = teardown[c]
      <4>1. q \in 0..MaxPeers
        BY DEF GatewayInv, GatewayTypeOK
      <4>. QED BY <3>1, <4>1, Names, TearDownShape
    <3>3. offer'.pc = "none" /\ offer'.peer = 0
          /\ offer' \in [pc: {"none", "tear", "describe", "attach", "gather"}, peer: 0..MaxPeers]
      BY <2>1, Zero
    <3>. HIDE DEF q
    <3>11. GatewayTypeOK'
      BY <2>1, <2>2, <3>1, <3>2, <3>3, Names DEF GatewayInv, GatewayTypeOK, TearType,
         BridgeType
    <3>12. OfferInv'
      BY <2>1, <2>2, <3>1, <3>2, <3>3, Names DEF GatewayInv, GatewayTypeOK, OfferInv, Peers,
         Idle
    <3>22. \A u \in Peers : pc[u] # "none" => pc'[u] # "none"
      BY <2>1, <2>2, <3>1, <3>2, <3>3, Names DEF GatewayInv, GatewayTypeOK, OfferInv, Peers
    <3>23. current' \in {0, current} \/ pc'[current'] # "none"
      BY <2>1, <2>2, <3>1, <3>2, <3>3, Names DEF GatewayInv, GatewayTypeOK
    <3>24. \A d \in Closers : teardown'[d].pc = "close" =>
             \/ teardown[d].pc = "close" /\ teardown'[d].peer = teardown[d].peer
             \/ teardown'[d].peer \in {0, current}
      BY <2>1, <2>2, <3>1, <3>2, <3>3, Names DEF GatewayInv, GatewayTypeOK, Idle, Holds
    <3>13. MadeInv'
      BY <3>22, <3>23, <3>24, MadeKeep
    <3>14. RoomInv'
      BY <2>1, <2>2, <3>1, <3>2, <3>3, Names DEF GatewayInv, RoomInv, OfferInv
    <3>15. CallbackInv'
      BY <2>1, <2>2, <3>1, <3>2, <3>3, Names DEF GatewayInv, CallbackInv, OfferInv, Idle
    <3>16. LockInv'
      BY <2>1, <2>2, <3>1, <3>2, <3>3, Names DEF GatewayInv, LockInv, RoomInv, Holds, Idle
    <3>20. \A u \in Peers : pc'[u] \notin {"none", "closed", "abandoned"} =>
             \/ u \in {current', offer'.peer}
             \/ \E d \in Closers : teardown'[d].pc = "close" /\ teardown'[d].peer = u
             \/ pc[u] \notin {"none", "closed", "abandoned"} /\ u \notin {current, offer.peer}
      BY <2>1, <2>2, <3>1, <3>2, <3>3, Names DEF GatewayInv, GatewayTypeOK, OfferInv,
         RoomInv, Idle, Peers
    <3>21. \A d \in Closers : teardown[d].pc = "close" =>
             \/ teardown'[d].pc = "close" /\ teardown'[d].peer = teardown[d].peer
             \/ teardown[d].peer \in Peers => pc'[teardown[d].peer] \in {"none", "closed", "abandoned"}
      BY <2>1, <2>2, <3>1, <3>2, <3>3, Names DEF GatewayInv, GatewayTypeOK, Idle, Holds,
         Peers
    <3>17. NoPeerLeaks'
      BY <2>1, <2>2, <3>1, <3>2, <3>3, <3>20, <3>21, LeaksKeep
    <3>. QED BY <3>11, <3>12, <3>13, <3>14, <3>15, <3>16, <3>17 DEF GatewayInv
  <2>. QED BY <2>3, <2>4
<1>5. ASSUME NEW p \in Peers, Connected(p) PROVE GatewayInv'
  BY <1>5, Names DEF GatewayInv, MadeInv, Made, GatewayTypeOK, OfferInv, RoomInv,
     CallbackInv, LockInv, NoPeerLeaks, Holds, Idle, IsCurrent, LockHeld, TearDown,
     NoTeardown, NoBridge, peerVars, driveVars, Release, Connected
<1>6. ASSUME NEW p \in Peers, Leaves(p) PROVE GatewayInv'
  BY <1>6, Names DEF GatewayInv, MadeInv, Made, GatewayTypeOK, OfferInv, RoomInv,
     CallbackInv, LockInv, NoPeerLeaks, Holds, Idle, IsCurrent, LockHeld, TearDown,
     NoTeardown, NoBridge, peerVars, driveVars, Release, Leaves
<1>7. ASSUME NEW p \in Peers, Failed(p) PROVE GatewayInv'
  <2>1. /\ pc[p] \in {"connecting", "connected", "gone"} /\ pc' = [pc EXCEPT ![p] = "failed"]
        /\ UNCHANGED <<running, token, current, young, driver, offer, bridge, holder, moving, silence>>
        /\ teardown' = teardown \/ TearDown(Callback(p), p)
    BY <1>7 DEF Failed, driveVars
  <2>2. Idle(Callback(p))
    BY <2>1 DEF GatewayInv, CallbackInv
  <2>3. /\ teardown' \in [Closers -> TearType]
        /\ teardown' = teardown \/ teardown'[Callback(p)].pc = "lock"
        /\ \A c \in Closers : c # Callback(p) => teardown'[c] = teardown[c]
    <3>1. CASE teardown' = teardown
      BY <3>1 DEF GatewayInv, GatewayTypeOK, TearType
    <3>2. CASE TearDown(Callback(p), p)
      <4>1. p \in 0..MaxPeers
        BY DEF Peers
      <4>. QED BY <3>2, <4>1, Names, TearDownShape
    <3>. QED BY <2>1, <3>1, <3>2
  <2>4. /\ pc' \in [Peers -> {"none", "new", "connecting", "connected", "gone", "failed",
                              "closed", "abandoned"}]
        /\ pc'[p] = "failed" /\ \A r \in Peers : r # p => pc'[r] = pc[r]
    BY <2>1 DEF GatewayInv, GatewayTypeOK
  <2>11. GatewayTypeOK'
    BY <2>1, <2>2, <2>3, <2>4, Names DEF GatewayInv, GatewayTypeOK, TearType, BridgeType
  <2>12. OfferInv'
    BY <2>1, <2>2, <2>3, <2>4, Names DEF GatewayInv, GatewayTypeOK, OfferInv, Peers, Idle
  <2>22. \A u \in Peers : pc[u] # "none" => pc'[u] # "none"
    BY <2>1, <2>2, <2>3, <2>4, Names DEF GatewayInv, GatewayTypeOK, OfferInv, Peers
  <2>23. current' \in {0, current} \/ pc'[current'] # "none"
    BY <2>1, <2>2, <2>3, <2>4, Names DEF GatewayInv, GatewayTypeOK
  <2>24. \A d \in Closers : teardown'[d].pc = "close" =>
           \/ teardown[d].pc = "close" /\ teardown'[d].peer = teardown[d].peer
           \/ teardown'[d].peer \in {0, current}
    BY <2>1, <2>2, <2>3, <2>4, Names DEF GatewayInv, GatewayTypeOK, Idle, Holds
  <2>13. MadeInv'
    BY <2>22, <2>23, <2>24, MadeKeep
  <2>14. RoomInv'
    BY <2>1, <2>2, <2>3, <2>4, Names DEF GatewayInv, RoomInv, OfferInv
  <2>15. CallbackInv'
    BY <2>1, <2>2, <2>3, <2>4, Names DEF GatewayInv, CallbackInv, OfferInv, Idle
  <2>16. LockInv'
    BY <2>1, <2>2, <2>3, <2>4, Names DEF GatewayInv, LockInv, RoomInv, Holds, Idle
  <2>20. \A u \in Peers : pc'[u] \notin {"none", "closed", "abandoned"} =>
           \/ u \in {current', offer'.peer}
           \/ \E d \in Closers : teardown'[d].pc = "close" /\ teardown'[d].peer = u
           \/ pc[u] \notin {"none", "closed", "abandoned"} /\ u \notin {current, offer.peer}
    BY <2>1, <2>2, <2>3, <2>4, Names DEF GatewayInv, GatewayTypeOK, OfferInv, RoomInv,
       Idle, Peers
  <2>21. \A d \in Closers : teardown[d].pc = "close" =>
           \/ teardown'[d].pc = "close" /\ teardown'[d].peer = teardown[d].peer
           \/ teardown[d].peer \in Peers => pc'[teardown[d].peer] \in {"none", "closed", "abandoned"}
    BY <2>1, <2>2, <2>3, <2>4, Names DEF GatewayInv, GatewayTypeOK, Idle, Holds, Peers
  <2>17. NoPeerLeaks'
    BY <2>1, <2>2, <2>3, <2>4, <2>20, <2>21, LeaksKeep
  <2>. QED BY <2>11, <2>12, <2>13, <2>14, <2>15, <2>16, <2>17 DEF GatewayInv
<1>8. ASSUME NEW p \in Peers, Message(p) PROVE GatewayInv'
  <2>1. PICK target \in {"zero", "go"} :
          bridge' = [bridge EXCEPT ![p].target = target, ![p].task = TRUE]
    BY <1>8 DEF Message
  <2>2. bridge' \in [Peers -> BridgeType]
    BY <2>1 DEF GatewayInv, GatewayTypeOK, BridgeType
  <2>3. UNCHANGED <<running, peerVars, holder, moving>> /\ silence' = 0
        /\ 0 \in 0..Deadman + 1
    BY <1>8, Zero DEF Message
  <2>. QED BY <2>2, <2>3, DriveKeeps DEF GatewayInv, GatewayTypeOK
<1>9. ASSUME NEW p \in Peers, Acquire(p) PROVE GatewayInv'
  <2>1. bridge' \in [Peers -> BridgeType]
    BY <1>9 DEF GatewayInv, GatewayTypeOK, BridgeType, Acquire
  <2>2. holder' \in 0..MaxPeers
    BY <1>9, GatewayAssumption DEF GatewayInv, GatewayTypeOK, Peers, Acquire
  <2>3. moving' \in BOOLEAN
    BY <1>9 DEF GatewayInv, GatewayTypeOK, Acquire
  <2>4. UNCHANGED <<running, peerVars, silence>>
    BY <1>9 DEF Acquire
  <2>. QED BY <2>1, <2>2, <2>3, <2>4, DriveKeeps DEF GatewayInv, GatewayTypeOK
<1>10. ASSUME NEW p \in Peers, Acquired(p) PROVE GatewayInv'
  <2>1. bridge' \in [Peers -> BridgeType]
    BY <1>10 DEF GatewayInv, GatewayTypeOK, BridgeType, Acquired
  <2>2. holder' \in 0..MaxPeers
    BY <1>10, GatewayAssumption DEF GatewayInv, GatewayTypeOK, Peers, Acquired
  <2>3. moving' \in BOOLEAN
    BY <1>10 DEF GatewayInv, GatewayTypeOK, Acquired
  <2>4. UNCHANGED <<running, peerVars, silence>>
    BY <1>10 DEF Acquired
  <2>. QED BY <2>1, <2>2, <2>3, <2>4, DriveKeeps DEF GatewayInv, GatewayTypeOK
<1>11. ASSUME NEW p \in Peers, Send(p) PROVE GatewayInv'
  <2>1. bridge' \in [Peers -> BridgeType]
    BY <1>11 DEF GatewayInv, GatewayTypeOK, BridgeType, Send
  <2>2. holder' \in 0..MaxPeers
    BY <1>11, GatewayAssumption DEF GatewayInv, GatewayTypeOK, Peers, Send
  <2>3. moving' \in BOOLEAN
    BY <1>11 DEF GatewayInv, GatewayTypeOK, Send
  <2>4. UNCHANGED <<running, peerVars, silence>>
    BY <1>11 DEF Send
  <2>. QED BY <2>1, <2>2, <2>3, <2>4, DriveKeeps DEF GatewayInv, GatewayTypeOK
<1>12. ASSUME NEW p \in Peers, LoopEnds(p) PROVE GatewayInv'
  <2>1. bridge' \in [Peers -> BridgeType]
    BY <1>12 DEF GatewayInv, GatewayTypeOK, BridgeType, LoopEnds
  <2>2. holder' \in 0..MaxPeers
    BY <1>12, GatewayAssumption DEF GatewayInv, GatewayTypeOK, Peers, LoopEnds, Release
  <2>3. moving' \in BOOLEAN
    BY <1>12 DEF GatewayInv, GatewayTypeOK, LoopEnds, Release
  <2>4. UNCHANGED <<running, peerVars, silence>>
    BY <1>12 DEF LoopEnds
  <2>. QED BY <2>1, <2>2, <2>3, <2>4, DriveKeeps DEF GatewayInv, GatewayTypeOK
<1>13. ASSUME Ages PROVE GatewayInv'
  BY <1>13, Names DEF GatewayInv, MadeInv, Made, GatewayTypeOK, OfferInv, RoomInv,
     CallbackInv, LockInv, NoPeerLeaks, Holds, Idle, IsCurrent, LockHeld, TearDown,
     NoTeardown, NoBridge, peerVars, driveVars, Release, Ages
<1>14. ASSUME Prune PROVE GatewayInv'
  <2>1. /\ running = "serving" /\ Idle(Pruner) /\ TearDown(Pruner, current)
        /\ UNCHANGED <<running, token, current, young, driver, pc, offer, bridge, holder, moving,
                       silence>>
    BY <1>14 DEF Prune, driveVars
  <2>2. /\ teardown' \in [Closers -> TearType] /\ teardown'[Pruner].pc = "lock"
        /\ \A c \in Closers : c # Pruner => teardown'[c] = teardown[c]
    <3>1. current \in 0..MaxPeers
      BY DEF GatewayInv, GatewayTypeOK
    <3>. QED BY <2>1, <3>1, Names, TearDownShape
  <2>11. GatewayTypeOK'
    BY <2>1, <2>2, Names DEF GatewayInv, GatewayTypeOK, TearType, BridgeType
  <2>12. OfferInv'
    BY <2>1, <2>2, Names DEF GatewayInv, GatewayTypeOK, OfferInv, Peers, Idle
  <2>22. \A u \in Peers : pc[u] # "none" => pc'[u] # "none"
    BY <2>1, <2>2, Names DEF GatewayInv, GatewayTypeOK, OfferInv, Peers
  <2>23. current' \in {0, current} \/ pc'[current'] # "none"
    BY <2>1, <2>2, Names DEF GatewayInv, GatewayTypeOK
  <2>24. \A d \in Closers : teardown'[d].pc = "close" =>
           \/ teardown[d].pc = "close" /\ teardown'[d].peer = teardown[d].peer
           \/ teardown'[d].peer \in {0, current}
    BY <2>1, <2>2, Names DEF GatewayInv, GatewayTypeOK, Idle, Holds
  <2>13. MadeInv'
    BY <2>22, <2>23, <2>24, MadeKeep
  <2>14. RoomInv'
    BY <2>1, <2>2, Names DEF GatewayInv, RoomInv, OfferInv
  <2>15. CallbackInv'
    BY <2>1, <2>2, Names DEF GatewayInv, CallbackInv, OfferInv, Idle
  <2>16. LockInv'
    BY <2>1, <2>2, Names DEF GatewayInv, LockInv, RoomInv, Holds, Idle
  <2>20. \A u \in Peers : pc'[u] \notin {"none", "closed", "abandoned"} =>
           \/ u \in {current', offer'.peer}
           \/ \E d \in Closers : teardown'[d].pc = "close" /\ teardown'[d].peer = u
           \/ pc[u] \notin {"none", "closed", "abandoned"} /\ u \notin {current, offer.peer}
    BY <2>1, <2>2, Names DEF GatewayInv, GatewayTypeOK, OfferInv, RoomInv, Idle, Peers
  <2>21. \A d \in Closers : teardown[d].pc = "close" =>
           \/ teardown'[d].pc = "close" /\ teardown'[d].peer = teardown[d].peer
           \/ teardown[d].peer \in Peers => pc'[teardown[d].peer] \in {"none", "closed", "abandoned"}
    BY <2>1, <2>2, Names DEF GatewayInv, GatewayTypeOK, Idle, Holds, Peers
  <2>17. NoPeerLeaks'
    BY <2>1, <2>2, <2>20, <2>21, LeaksKeep
  <2>. QED BY <2>11, <2>12, <2>13, <2>14, <2>15, <2>16, <2>17 DEF GatewayInv
<1>15. ASSUME Expires PROVE GatewayInv'
  <2>1. UNCHANGED <<running, peerVars, bridge, silence>> /\ holder' = 0 /\ moving' = FALSE
        /\ 0 \in 0..MaxPeers
    BY <1>15, GatewayAssumption DEF Expires
  <2>. QED BY <2>1, DriveKeeps DEF GatewayInv, GatewayTypeOK, BridgeType
<1>16. ASSUME Tick PROVE GatewayInv'
  <2>1. UNCHANGED <<running, peerVars, bridge, holder, moving>> /\ silence' \in 0..Deadman + 1
    BY <1>16, GatewayAssumption DEF Tick, GatewayInv, GatewayTypeOK
  <2>. QED BY <2>1, DriveKeeps DEF GatewayInv, GatewayTypeOK, BridgeType
<1>17. ASSUME NEW c \in Closers, Locked(c) PROVE GatewayInv'
  <2>1. /\ teardown[c].pc = "lock" /\ ~LockHeld
        /\ UNCHANGED <<running, token, current, young, pc, offer, holder, moving, silence>>
    BY <1>17 DEF Locked
  <2>2. \A d \in Closers : ~Holds(d)
    BY <2>1 DEF LockHeld, Holds
  <2>3. CASE teardown[c].peer # 0 /\ ~IsCurrent(teardown[c].peer)
    <3>1. teardown' = [teardown EXCEPT ![c] = NoTeardown] /\ UNCHANGED <<driver, bridge>>
      BY <1>17, <2>3 DEF Locked
    <3>2. NoTeardown \in TearType /\ NoTeardown.pc = "none"
      BY Zero DEF NoTeardown, TearType
    <3>3. /\ teardown' \in [Closers -> TearType] /\ teardown'[c].pc = "none"
          /\ \A d \in Closers : d # c => teardown'[d] = teardown[d]
      BY <3>1, <3>2 DEF GatewayInv, GatewayTypeOK, TearType
    <3>4. c = OfferCloser => offer.pc # "tear"
      BY <2>1, <2>3 DEF GatewayInv, RoomInv
    <3>11. GatewayTypeOK'
      BY <2>1, <2>2, <3>1, <3>3, <3>4, Names DEF GatewayInv, GatewayTypeOK, TearType,
         BridgeType
    <3>12. OfferInv'
      BY <2>1, <2>2, <3>1, <3>3, <3>4, Names DEF GatewayInv, GatewayTypeOK, OfferInv, Peers,
         Idle
    <3>22. \A u \in Peers : pc[u] # "none" => pc'[u] # "none"
      BY <2>1, <2>2, <3>1, <3>3, <3>4, Names DEF GatewayInv, GatewayTypeOK, OfferInv, Peers
    <3>23. current' \in {0, current} \/ pc'[current'] # "none"
      BY <2>1, <2>2, <3>1, <3>3, <3>4, Names DEF GatewayInv, GatewayTypeOK
    <3>24. \A d \in Closers : teardown'[d].pc = "close" =>
             \/ teardown[d].pc = "close" /\ teardown'[d].peer = teardown[d].peer
             \/ teardown'[d].peer \in {0, current}
      BY <2>1, <2>2, <3>1, <3>3, <3>4, Names DEF GatewayInv, GatewayTypeOK, Idle, Holds
    <3>13. MadeInv'
      BY <3>22, <3>23, <3>24, MadeKeep
    <3>14. RoomInv'
      BY <2>1, <2>2, <3>1, <3>3, <3>4, Names DEF GatewayInv, RoomInv, OfferInv
    <3>15. CallbackInv'
      BY <2>1, <2>2, <3>1, <3>3, <3>4, Names DEF GatewayInv, CallbackInv, OfferInv, Idle
    <3>16. LockInv'
      BY <2>1, <2>2, <3>1, <3>3, <3>4, Names DEF GatewayInv, LockInv, RoomInv, Holds, Idle
    <3>20. \A u \in Peers : pc'[u] \notin {"none", "closed", "abandoned"} =>
             \/ u \in {current', offer'.peer}
             \/ \E d \in Closers : teardown'[d].pc = "close" /\ teardown'[d].peer = u
             \/ pc[u] \notin {"none", "closed", "abandoned"} /\ u \notin {current, offer.peer}
      BY <2>1, <2>2, <3>1, <3>3, <3>4, Names DEF GatewayInv, GatewayTypeOK, OfferInv,
         RoomInv, Idle, Peers
    <3>21. \A d \in Closers : teardown[d].pc = "close" =>
             \/ teardown'[d].pc = "close" /\ teardown'[d].peer = teardown[d].peer
             \/ teardown[d].peer \in Peers => pc'[teardown[d].peer] \in {"none", "closed", "abandoned"}
      BY <2>1, <2>2, <3>1, <3>3, <3>4, Names DEF GatewayInv, GatewayTypeOK, Idle, Holds,
         Peers
    <3>17. NoPeerLeaks'
      BY <2>1, <2>2, <3>1, <3>3, <3>4, <3>20, <3>21, LeaksKeep
    <3>. QED BY <3>11, <3>12, <3>13, <3>14, <3>15, <3>16, <3>17 DEF GatewayInv
  <2>4. CASE ~(teardown[c].peer # 0 /\ ~IsCurrent(teardown[c].peer))
    <3>1. /\ driver' = 0
          /\ teardown' = [teardown EXCEPT ![c].pc = "halt", ![c].bridge = driver]
          /\ bridge' = IF driver = 0 THEN bridge ELSE [bridge EXCEPT ![driver].target = "zero"]
      BY <1>17, <2>4 DEF Locked
    <3>2. /\ teardown' \in [Closers -> TearType] /\ teardown'[c].pc = "halt"
          /\ teardown'[c].peer = teardown[c].peer
          /\ \A d \in Closers : d # c => teardown'[d] = teardown[d]
      <4>1. teardown \in [Closers -> TearType] /\ driver \in 0..MaxPeers
        BY DEF GatewayInv, GatewayTypeOK, TearType
      <4>2. teardown'[c] = [teardown[c] EXCEPT !.pc = "halt", !.bridge = driver]
            /\ \A d \in Closers : d # c => teardown'[d] = teardown[d]
        BY <3>1, <4>1
      <4> DEFINE r == [teardown[c] EXCEPT !.pc = "halt", !.bridge = driver]
      <4>5. r \in TearType /\ r.pc = "halt" /\ r.peer = teardown[c].peer
        BY <4>1 DEF TearType
      <4>6. teardown'[c] = r
        BY <4>2
      <4> HIDE DEF r
      <4>3. /\ teardown'[c] \in TearType /\ teardown'[c].pc = "halt"
            /\ teardown'[c].peer = teardown[c].peer
        BY <4>5, <4>6
      <4>. QED BY <3>1, <4>1, <4>2, <4>3
    <3>3. bridge' \in [Peers -> BridgeType] /\ driver' \in 0..MaxPeers
      BY <3>1, Zero DEF GatewayInv, GatewayTypeOK, BridgeType
    <3>4. teardown[c].peer # 0 => current = teardown[c].peer
      BY <2>4 DEF IsCurrent
    <3>11. GatewayTypeOK'
      BY <2>1, <2>2, <3>1, <3>2, <3>3, <3>4, Names DEF GatewayInv, GatewayTypeOK, TearType,
         BridgeType
    <3>12. OfferInv'
      BY <2>1, <2>2, <3>1, <3>2, <3>3, <3>4, Names DEF GatewayInv, GatewayTypeOK, OfferInv,
         Peers, Idle
    <3>22. \A u \in Peers : pc[u] # "none" => pc'[u] # "none"
      BY <2>1, <2>2, <3>1, <3>2, <3>3, <3>4, Names DEF GatewayInv, GatewayTypeOK, OfferInv,
         Peers
    <3>23. current' \in {0, current} \/ pc'[current'] # "none"
      BY <2>1, <2>2, <3>1, <3>2, <3>3, <3>4, Names DEF GatewayInv, GatewayTypeOK
    <3>24. \A d \in Closers : teardown'[d].pc = "close" =>
             \/ teardown[d].pc = "close" /\ teardown'[d].peer = teardown[d].peer
             \/ teardown'[d].peer \in {0, current}
      BY <2>1, <2>2, <3>1, <3>2, <3>3, <3>4, Names DEF GatewayInv, GatewayTypeOK, Idle, Holds
    <3>13. MadeInv'
      BY <3>22, <3>23, <3>24, MadeKeep
    <3>14. RoomInv'
      BY <2>1, <2>2, <3>1, <3>2, <3>3, <3>4, Names DEF GatewayInv, RoomInv, OfferInv
    <3>15. CallbackInv'
      BY <2>1, <2>2, <3>1, <3>2, <3>3, <3>4, Names DEF GatewayInv, CallbackInv, OfferInv,
         Idle
    <3>16. LockInv'
      BY <2>1, <2>2, <3>1, <3>2, <3>3, <3>4, Names DEF GatewayInv, LockInv, RoomInv, Holds,
         Idle
    <3>20. \A u \in Peers : pc'[u] \notin {"none", "closed", "abandoned"} =>
             \/ u \in {current', offer'.peer}
             \/ \E d \in Closers : teardown'[d].pc = "close" /\ teardown'[d].peer = u
             \/ pc[u] \notin {"none", "closed", "abandoned"} /\ u \notin {current, offer.peer}
      BY <2>1, <2>2, <3>1, <3>2, <3>3, <3>4, Names DEF GatewayInv, GatewayTypeOK, OfferInv,
         RoomInv, Idle, Peers
    <3>21. \A d \in Closers : teardown[d].pc = "close" =>
             \/ teardown'[d].pc = "close" /\ teardown'[d].peer = teardown[d].peer
             \/ teardown[d].peer \in Peers => pc'[teardown[d].peer] \in {"none", "closed", "abandoned"}
      BY <2>1, <2>2, <3>1, <3>2, <3>3, <3>4, Names DEF GatewayInv, GatewayTypeOK, Idle,
         Holds, Peers
    <3>17. NoPeerLeaks'
      BY <2>1, <2>2, <3>1, <3>2, <3>3, <3>4, <3>20, <3>21, LeaksKeep
    <3>. QED BY <3>11, <3>12, <3>13, <3>14, <3>15, <3>16, <3>17 DEF GatewayInv
  <2>. QED BY <2>3, <2>4
<1>18. ASSUME NEW c \in Closers, Halted(c) PROVE GatewayInv'
  BY <1>18, Names DEF GatewayInv, MadeInv, Made, GatewayTypeOK, OfferInv, RoomInv,
     CallbackInv, LockInv, NoPeerLeaks, Holds, Idle, IsCurrent, LockHeld, TearDown,
     NoTeardown, NoBridge, peerVars, driveVars, Release, Halted
<1>19. ASSUME NEW c \in Closers, Stopped(c) PROVE GatewayInv'
  <2>1. /\ teardown[c].pc = "cancel" /\ current' = 0 /\ young' = FALSE
        /\ teardown' = [teardown EXCEPT ![c].pc = "close", ![c].peer = current]
        /\ UNCHANGED <<running, token, driver, pc, offer, silence>>
    BY <1>19 DEF Stopped
  <2>2. /\ bridge' \in [Peers -> BridgeType] /\ holder' \in 0..MaxPeers /\ moving' \in BOOLEAN
    <3> DEFINE b == teardown[c].bridge
    <3>1. CASE b = 0
      BY <1>19, <3>1 DEF Stopped, GatewayInv, GatewayTypeOK, BridgeType
    <3>2. CASE b # 0
      <4>1. bridge' = [bridge EXCEPT ![b].task = FALSE, ![b].lease = "none"] /\ Release(b)
        BY <1>19, <3>2 DEF Stopped
      <4>2. bridge' \in [Peers -> BridgeType]
        BY <4>1 DEF GatewayInv, GatewayTypeOK, BridgeType
      <4>3. holder' \in 0..MaxPeers /\ moving' \in BOOLEAN
        BY <4>1, Zero DEF Release, GatewayInv, GatewayTypeOK
      <4>. QED BY <4>2, <4>3
    <3>. QED BY <3>1, <3>2
  <2>3. /\ teardown' \in [Closers -> TearType] /\ teardown'[c].pc = "close"
        /\ teardown'[c].peer = current
        /\ \A d \in Closers : d # c => teardown'[d] = teardown[d]
    BY <2>1 DEF GatewayInv, GatewayTypeOK, TearType
  <2>4. current' \in 0..MaxPeers
    BY <2>1, GatewayAssumption
  <2>5. \A d \in Closers : d # c => ~Holds(d)
    BY <2>1 DEF GatewayInv, LockInv, Holds
  <2>11. GatewayTypeOK'
    BY <2>1, <2>2, <2>3, <2>4, <2>5, Names DEF GatewayInv, GatewayTypeOK, TearType,
       BridgeType
  <2>12. OfferInv'
    BY <2>1, <2>2, <2>3, <2>4, <2>5, Names DEF GatewayInv, GatewayTypeOK, OfferInv, Peers,
       Idle
  <2>22. \A u \in Peers : pc[u] # "none" => pc'[u] # "none"
    BY <2>1, <2>2, <2>3, <2>4, <2>5, Names DEF GatewayInv, GatewayTypeOK, OfferInv, Peers
  <2>23. current' \in {0, current} \/ pc'[current'] # "none"
    BY <2>1, <2>2, <2>3, <2>4, <2>5, Names DEF GatewayInv, GatewayTypeOK
  <2>24. \A d \in Closers : teardown'[d].pc = "close" =>
           \/ teardown[d].pc = "close" /\ teardown'[d].peer = teardown[d].peer
           \/ teardown'[d].peer \in {0, current}
    BY <2>1, <2>2, <2>3, <2>4, <2>5, Names DEF GatewayInv, GatewayTypeOK, Idle, Holds
  <2>13. MadeInv'
    BY <2>22, <2>23, <2>24, MadeKeep
  <2>14. RoomInv'
    BY <2>1, <2>2, <2>3, <2>4, <2>5, Names DEF GatewayInv, RoomInv, OfferInv
  <2>15. CallbackInv'
    BY <2>1, <2>2, <2>3, <2>4, <2>5, Names DEF GatewayInv, CallbackInv, OfferInv, Idle
  <2>16. LockInv'
    BY <2>1, <2>2, <2>3, <2>4, <2>5, Names DEF GatewayInv, LockInv, RoomInv, Holds, Idle
  <2>20. \A u \in Peers : pc'[u] \notin {"none", "closed", "abandoned"} =>
           \/ u \in {current', offer'.peer}
           \/ \E d \in Closers : teardown'[d].pc = "close" /\ teardown'[d].peer = u
           \/ pc[u] \notin {"none", "closed", "abandoned"} /\ u \notin {current, offer.peer}
    BY <2>1, <2>2, <2>3, <2>4, <2>5, Names DEF GatewayInv, GatewayTypeOK, OfferInv,
       RoomInv, Idle, Peers
  <2>21. \A d \in Closers : teardown[d].pc = "close" =>
           \/ teardown'[d].pc = "close" /\ teardown'[d].peer = teardown[d].peer
           \/ teardown[d].peer \in Peers => pc'[teardown[d].peer] \in {"none", "closed", "abandoned"}
    BY <2>1, <2>2, <2>3, <2>4, <2>5, Names DEF GatewayInv, GatewayTypeOK, Idle, Holds,
       Peers
  <2>17. NoPeerLeaks'
    BY <2>1, <2>2, <2>3, <2>4, <2>5, <2>20, <2>21, LeaksKeep
  <2>. QED BY <2>11, <2>12, <2>13, <2>14, <2>15, <2>16, <2>17 DEF GatewayInv
<1>20. ASSUME NEW c \in Closers, Closed(c) PROVE GatewayInv'
  <2> DEFINE q == teardown[c].peer
  <2>0. PICK s \in {"closed", "abandoned"} : pc' = IF q = 0 THEN pc ELSE [pc EXCEPT ![q] = s]
    BY <1>20 DEF Closed
  <2>1. /\ teardown[c].pc = "close"
        /\ teardown' = [teardown EXCEPT ![c] = NoTeardown]
        /\ UNCHANGED <<running, token, current, young, driver, offer, bridge, holder, moving, silence>>
    BY <1>20 DEF Closed, driveVars
  <2>2. NoTeardown \in TearType /\ NoTeardown.pc = "none"
    BY Zero DEF NoTeardown, TearType
  <2>3. /\ teardown' \in [Closers -> TearType] /\ teardown'[c].pc = "none"
        /\ \A d \in Closers : d # c => teardown'[d] = teardown[d]
    BY <2>1, <2>2 DEF GatewayInv, GatewayTypeOK, TearType
  <2>4. /\ pc' \in [Peers -> {"none", "new", "connecting", "connected", "gone", "failed",
                              "closed", "abandoned"}]
        /\ \A r \in Peers : pc'[r] = IF r = q THEN s ELSE pc[r]
    BY <2>0, <2>1 DEF GatewayInv, GatewayTypeOK, Peers
  <2>5. q \in Peers => q <= token /\ ~(offer.pc = "tear" /\ q = token)
    BY <2>1 DEF GatewayInv, GatewayTypeOK, OfferInv, MadeInv, Made, Peers
  <2>11. GatewayTypeOK'
    BY <2>1, <2>3, <2>4, <2>5, Names DEF GatewayInv, GatewayTypeOK, TearType, BridgeType
  <2>12. OfferInv'
    BY <2>1, <2>3, <2>4, <2>5, Names, SMTT(30) DEF GatewayInv, GatewayTypeOK, OfferInv, Peers, Idle
  <2>22. \A u \in Peers : pc[u] # "none" => pc'[u] # "none"
    BY <2>1, <2>3, <2>4, <2>5, Names DEF GatewayInv, GatewayTypeOK, OfferInv, Peers
  <2>23. current' \in {0, current} \/ pc'[current'] # "none"
    BY <2>1, <2>3, <2>4, <2>5, Names DEF GatewayInv, GatewayTypeOK
  <2>24. \A d \in Closers : teardown'[d].pc = "close" =>
           \/ teardown[d].pc = "close" /\ teardown'[d].peer = teardown[d].peer
           \/ teardown'[d].peer \in {0, current}
    BY <2>1, <2>3, <2>4, <2>5, Names DEF GatewayInv, GatewayTypeOK, Idle, Holds
  <2>13. MadeInv'
    BY <2>22, <2>23, <2>24, MadeKeep
  <2>14. RoomInv'
    BY <2>1, <2>3, <2>4, <2>5, Names DEF GatewayInv, RoomInv, OfferInv
  <2>15. CallbackInv'
    BY <2>1, <2>3, <2>4, <2>5, Names DEF GatewayInv, CallbackInv, OfferInv, Idle
  <2>16. LockInv'
    BY <2>1, <2>3, <2>4, <2>5, Names DEF GatewayInv, LockInv, RoomInv, Holds, Idle
  <2>20. \A u \in Peers : pc'[u] \notin {"none", "closed", "abandoned"} =>
           \/ u \in {current', offer'.peer}
           \/ \E d \in Closers : teardown'[d].pc = "close" /\ teardown'[d].peer = u
           \/ pc[u] \notin {"none", "closed", "abandoned"} /\ u \notin {current, offer.peer}
    BY <2>1, <2>3, <2>4, <2>5, Names DEF GatewayInv, GatewayTypeOK, OfferInv, RoomInv,
       Idle, Peers
  <2>21. \A d \in Closers : teardown[d].pc = "close" =>
           \/ teardown'[d].pc = "close" /\ teardown'[d].peer = teardown[d].peer
           \/ teardown[d].peer \in Peers => pc'[teardown[d].peer] \in {"none", "closed", "abandoned"}
    BY <2>1, <2>3, <2>4, <2>5, Names DEF GatewayInv, GatewayTypeOK, Idle, Holds, Peers
  <2>17. NoPeerLeaks'
    BY <2>1, <2>3, <2>4, <2>5, <2>20, <2>21, LeaksKeep
  <2>. QED BY <2>11, <2>12, <2>13, <2>14, <2>15, <2>16, <2>17 DEF GatewayInv
<1>21. ASSUME RunEnds PROVE GatewayInv'
  <2>1. /\ running' = "closing" /\ offer' = [pc |-> "none", peer |-> 0]
        /\ UNCHANGED <<token, current, young, driver, pc, bridge, holder, moving, silence>>
        /\ teardown' = [teardown EXCEPT ![OfferCloser] = NoTeardown, ![Pruner] = NoTeardown,
                                        ![CloseAll] = IF current = 0 THEN NoTeardown
                                                      ELSE [NoTeardown EXCEPT !.pc = "lock"]]
    BY <1>21 DEF RunEnds, driveVars
  <2>2. /\ NoTeardown \in TearType /\ NoTeardown.pc = "none"
        /\ [NoTeardown EXCEPT !.pc = "lock"] \in TearType
        /\ [NoTeardown EXCEPT !.pc = "lock"].pc = "lock"
    BY Zero DEF NoTeardown, TearType
  <2>3. /\ teardown' \in [Closers -> TearType]
        /\ \A c \in Closers : \/ teardown'[c] = teardown[c]
                              \/ /\ c \in {OfferCloser, Pruner, CloseAll}
                                 /\ teardown'[c].pc \in {"none", "lock"}
    BY <2>1, <2>2, Names DEF GatewayInv, GatewayTypeOK, TearType
  <2>4. offer'.pc = "none" /\ offer'.peer = 0
        /\ offer' \in [pc: {"none", "tear", "describe", "attach", "gather"}, peer: 0..MaxPeers]
    BY <2>1, Zero
  <2>11. GatewayTypeOK'
    BY <2>1, <2>3, <2>4, Names DEF GatewayInv, GatewayTypeOK, TearType, BridgeType
  <2>12. OfferInv'
    BY <2>1, <2>3, <2>4, Names DEF GatewayInv, GatewayTypeOK, OfferInv, Peers, Idle
  <2>22. \A u \in Peers : pc[u] # "none" => pc'[u] # "none"
    BY <2>1, <2>3, <2>4, Names DEF GatewayInv, GatewayTypeOK, OfferInv, Peers
  <2>23. current' \in {0, current} \/ pc'[current'] # "none"
    BY <2>1, <2>3, <2>4, Names DEF GatewayInv, GatewayTypeOK
  <2>24. \A d \in Closers : teardown'[d].pc = "close" =>
           \/ teardown[d].pc = "close" /\ teardown'[d].peer = teardown[d].peer
           \/ teardown'[d].peer \in {0, current}
    BY <2>1, <2>3, <2>4, Names DEF GatewayInv, GatewayTypeOK, Idle, Holds
  <2>13. MadeInv'
    BY <2>22, <2>23, <2>24, MadeKeep
  <2>14. RoomInv'
    BY <2>1, <2>3, <2>4, Names DEF GatewayInv, RoomInv, OfferInv
  <2>15. CallbackInv'
    BY <2>1, <2>3, <2>4, Names DEF GatewayInv, CallbackInv, OfferInv, Idle
  <2>16. LockInv'
    BY <2>1, <2>3, <2>4, Names DEF GatewayInv, LockInv, RoomInv, Holds, Idle
  <2>17. NoPeerLeaks'
    BY <2>1 DEF NoPeerLeaks
  <2>. QED BY <2>11, <2>12, <2>13, <2>14, <2>15, <2>16, <2>17 DEF GatewayInv
<1>22. ASSUME CloseAllEnds PROVE GatewayInv'
  BY <1>22, Names DEF GatewayInv, MadeInv, Made, GatewayTypeOK, OfferInv, RoomInv,
     CallbackInv, LockInv, NoPeerLeaks, Holds, Idle, IsCurrent, LockHeld, TearDown,
     NoTeardown, NoBridge, peerVars, driveVars, Release, CloseAllEnds
<1>23. ASSUME UNCHANGED gatewayVars PROVE GatewayInv'
  BY <1>23 DEF GatewayInv, MadeInv, Made, GatewayTypeOK, OfferInv, RoomInv, CallbackInv,
     LockInv, NoPeerLeaks, Holds, Idle, IsCurrent, LockHeld, TearDown, NoTeardown,
     NoBridge, peerVars, driveVars, Release, gatewayVars
<1>. QED
  BY <1>1, <1>2, <1>3, <1>4, <1>5, <1>6, <1>7, <1>8, <1>9, <1>10, <1>11, <1>12, <1>13,
     <1>14, <1>15, <1>16, <1>17, <1>18, <1>19, <1>20, <1>21, <1>22, <1>23
  DEF GatewayNext, Handler, Teardown, Loop

\* The gateway starts with an empty table.
LEMMA GatewayInitInv == GatewayInit => GatewayInv
<1>. SUFFICES ASSUME GatewayInit PROVE GatewayInv
  OBVIOUS
<1>1. NoTeardown \in TearType /\ NoTeardown.pc = "none" /\ NoBridge \in BridgeType
  BY Zero DEF NoTeardown, NoBridge, TearType, BridgeType
<1>2. GatewayTypeOK
  BY <1>1, Zero DEF GatewayInit, GatewayTypeOK, TearType, BridgeType
<1>3. OfferInv /\ MadeInv /\ RoomInv
  BY <1>1, Names DEF GatewayInit, OfferInv, MadeInv, Made, RoomInv, Peers
<1>4. CallbackInv /\ LockInv
  BY <1>1, Names DEF GatewayInit, CallbackInv, LockInv, Holds, Idle
<1>5. NoPeerLeaks
  BY DEF GatewayInit, NoPeerLeaks
<1>. QED BY <1>2, <1>3, <1>4, <1>5 DEF GatewayInv

\* While the gateway serves, an open connection is the user's own, or someone is about
\* to close it, however offers, callbacks, the pruner and teardowns interleave.
THEOREM PeersNeverLeak == GatewaySpec => []NoPeerLeaks
<1>1. GatewayInv => NoPeerLeaks
  BY DEF GatewayInv
<1>. QED BY <1>1, GatewayInitInv, GatewayNextInv, PTL DEF GatewaySpec

\* A teardown goes from cancelling its loop to closing its peer in one step only, and
\* the peer it closes is the one it was meant for.
LEMMA ReplacementStep ==
  ASSUME GatewayInv, [GatewayNext]_gatewayVars, NEW c \in Closers,
         teardown[c].pc = "cancel", teardown[c].peer # 0, teardown'[c].pc = "close"
  PROVE  teardown'[c].peer \in {0, teardown[c].peer}
<1>1. current = teardown[c].peer
  BY DEF GatewayInv, LockInv
<1>2. ASSUME NEW d \in Closers, Stopped(d) PROVE teardown'[c].peer \in {0, teardown[c].peer}
  BY <1>1, <1>2 DEF Stopped, GatewayInv, GatewayTypeOK
<1>3. ASSUME NEW d \in Closers, NEW q, TearDown(d, q) PROVE FALSE
  BY <1>3 DEF TearDown, NoTeardown, GatewayInv, GatewayTypeOK
<1>4. ASSUME NEW d \in Closers, Locked(d) \/ Halted(d) \/ Closed(d) PROVE FALSE
  BY <1>4 DEF Locked, Halted, Closed, NoTeardown, GatewayInv, GatewayTypeOK
<1>5. ASSUME RunEnds PROVE FALSE
  BY <1>5, Names DEF RunEnds, NoTeardown, GatewayInv, GatewayTypeOK
<1>6. ASSUME teardown' = teardown PROVE FALSE
  BY <1>6
<1>7. ASSUME Offer \/ OfferFails \/ Prune PROVE FALSE
  BY <1>3, <1>6, <1>7, Names DEF Offer, OfferFails, Prune
<1>8. ASSUME NEW p \in Peers, Failed(p) PROVE FALSE
  BY <1>3, <1>6, <1>8, Names DEF Failed
<1>9. ASSUME NEW p \in Peers, Connected(p) \/ Leaves(p) \/ Message(p) \/ Loop(p) PROVE FALSE
  BY <1>6, <1>9 DEF Connected, Leaves, Message, Loop, Acquire, Acquired, Send, LoopEnds,
     peerVars
<1>10. ASSUME Handler \/ Ages \/ Expires \/ Tick \/ CloseAllEnds PROVE FALSE
  BY <1>6, <1>10 DEF Handler, Create, Describe, Ages, Expires, Tick, CloseAllEnds, peerVars
<1>11. CASE UNCHANGED gatewayVars
  BY <1>6, <1>11 DEF gatewayVars
<1>. QED
  BY <1>2, <1>4, <1>5, <1>7, <1>8, <1>9, <1>10, <1>11 DEF GatewayNext, Teardown

\* A teardown that was meant for one peer, by its failure or its age, closes no other,
\* however long it waited for the lock and whatever offer came meanwhile.
THEOREM ReplacementAlwaysSurvives == GatewaySpec => ReplacementSurvives
<1>1. GatewayInv /\ [GatewayNext]_gatewayVars =>
        [\A c \in Closers :
           teardown[c].pc = "cancel" /\ teardown[c].peer # 0 /\ teardown'[c].pc = "close" =>
             teardown'[c].peer \in {0, teardown[c].peer}]_gatewayVars
  BY ReplacementStep
<1>. QED BY <1>1, GatewayInitInv, GatewayNextInv, PTL DEF GatewaySpec, ReplacementSurvives

-----------------------------------------------------------------------------
(* The two together.                                                       *)

\* The transport and the gateway in one process keep both promises: a step of one
\* leaves the other's variables alone.
THEOREM LinksKeepTheirPromises ==
  LinksFairSpec => [](ConnectionIsTrue /\ NoPeerLeaks) /\ ReplacementSurvives
<1>1. LinksInit => ConnectionInit /\ GatewayInit
  BY DEF LinksInit
<1>2. [LinksNext]_linksVars => [ConnectionNext]_connectionVars /\ [GatewayNext]_gatewayVars
  BY DEF LinksNext, ByConnection, ByGateway, linksVars
<1>3. LinksFairSpec => ConnectionSpec /\ GatewaySpec
  BY <1>1, <1>2, PTL DEF LinksFairSpec, ConnectionSpec, GatewaySpec
<1>. QED BY <1>3, ConnectionAlwaysTrue, PeersNeverLeak, ReplacementAlwaysSurvives, PTL
===============================================================================
