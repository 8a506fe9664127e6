--------------------------- MODULE RobotConnection ---------------------------
(***************************************************************************)
(* UnitreeWebRTCTransport's connection.  connect() runs on the caller's    *)
(* event loop, which it blocks while it waits, and gives each attempt a    *)
(* thread with a loop of its own for the handshake and the life of the     *)
(* connection; disconnect() may come from another task wherever connect()  *)
(* sleeps.  The robot has one slot; it forgets a silent peer after a       *)
(* minute.  The link may be lost at any time, and nothing in the transport *)
(* looks at it: whether the robot still answers is a matter of the age of  *)
(* its reports (Telemetry.tla).                                            *)
(***************************************************************************)
EXTENDS Naturals

CONSTANT SlotRetries  \* retries on an occupied slot that fit into its ninety seconds

ASSUME ConnectionAssumption == SlotRetries \in Nat

VARIABLES
  main,      \* where connect() is; then "up", "raised" or "exited"
  cause,     \* the class of the last failure
  retries,   \* what is left of SlotRetries, more than it before slot_retry_deadline is set
  thread,    \* _bg_thread: the thread of the present attempt
  former,    \* threads of earlier attempts that still run: none, all outlived a join, or not
  slot,      \* the robot's peer: nobody, the present attempt, or one that is gone
  conn,      \* _conn: nobody's, the present attempt's or an earlier one's
  connected, \* _connected
  late,      \* history: _connected was set by an attempt whose wait had been given up
  closing,   \* where disconnect() is
  shutdown   \* _transport_shutdown

connectionVars ==
  <<main, cause, retries, thread, former, slot, conn, connected, late, closing, shutdown>>
caller == <<cause, retries, closing, shutdown>>
line == <<former, slot, conn, connected, late>>

Causes == {"auth", "slot", "other"}

\* stop: loop.stop was called.  given: a join has given up on it.
NoThread == [pc |-> "none", stop |-> FALSE, given |-> FALSE]

ConnectionTypeOK ==
  /\ main \in {"off", "loop", "waiting", "timeout", "clean", "stop", "join", "pause",
               "up", "raised", "exited"}
  /\ cause \in Causes /\ retries \in 0..SlotRetries + 1
  /\ thread \in [pc: {"none", "shaking", "preparing", "failing", "failed", "installed",
                      "idle", "ended"},
                 stop: BOOLEAN, given: BOOLEAN]
  /\ former \in {"none", "given", "running"}
  /\ slot \in {"free", "own", "gone"} /\ conn \in {"none", "own", "former"}
  /\ closing \in {"no", "halt", "join", "done"}
  /\ connected \in BOOLEAN /\ late \in BOOLEAN /\ shutdown \in BOOLEAN

ConnectionInit ==
  /\ main = "off" /\ cause = "other" /\ retries = SlotRetries + 1
  /\ thread = NoThread /\ former = "none" /\ slot = "free" /\ conn = "none"
  /\ connected = FALSE /\ late = FALSE
  /\ closing = "no" /\ shutdown = FALSE

Alive == thread.pc \notin {"none", "ended"}

\* ready_event is set: the attempt has succeeded or failed.
Ready == thread.pc \in {"failed", "installed", "idle"}

\* conn.disconnect, best effort: it may fail or run out of time.
Releases(peer) == slot' = slot \/ (slot = peer /\ slot' = "free")

\* What conn.disconnect is called on, when there is something.
PeerOf(c) == IF c = "own" THEN "own" ELSE "gone"

Lowered == connected' = FALSE /\ late' = FALSE
-----------------------------------------------------------------------------
(* connect()                                                               *)

\* A connect() that is called again once it has raised begins like the first.
ConnectBegins ==
  /\ main \in {"off", "raised"}
  /\ IF connected THEN main' = "up" /\ UNCHANGED retries
                  ELSE main' = "loop" /\ retries' = SlotRetries + 1
  /\ UNCHANGED <<cause, closing, shutdown, thread, line>>

\* _connect_once: a thread for the attempt, and a blocking wait.
ConnectOnce ==
  /\ main = "loop" /\ ~shutdown
  /\ thread' = [NoThread EXCEPT !.pc = "shaking"]
  /\ former' = IF ~Alive THEN former ELSE IF thread.given THEN "given" ELSE "running"
  /\ slot' = IF slot = "own" THEN "gone" ELSE slot
  /\ conn' = IF conn = "own" THEN "former" ELSE conn
  /\ main' = "waiting"
  /\ UNCHANGED <<caller, connected, late>>

ShutDownMeanwhile ==
  /\ main = "loop" /\ shutdown
  /\ main' = "raised"
  /\ UNCHANGED <<caller, thread, line>>

\* Fault: the error of the thread is not raised again.
Succeeds_WhateverHappened ==
  /\ main = "waiting" /\ Ready
  /\ main' = "up"
  /\ UNCHANGED <<caller, thread, line>>

Succeeds ==
  /\ main = "waiting" /\ thread.pc \in {"installed", "idle"}
  /\ main' = "up"
  /\ UNCHANGED <<caller, thread, line>>

\* The error of the handshake, classified by its wording.
Fails ==
  /\ main = "waiting" /\ thread.pc = "failed"
  /\ Lowered
  /\ cause' \in Causes
  /\ main' = "clean"
  /\ UNCHANGED <<retries, closing, shutdown, thread, former, slot, conn>>

WaitTimesOut ==
  /\ main = "waiting" /\ ~Ready
  /\ main' = "timeout"
  /\ UNCHANGED <<caller, thread, line>>

\* The thread may have finished since the wait gave up.
TimeoutRaises ==
  /\ main = "timeout"
  /\ Lowered
  /\ cause' = "slot" /\ main' = "clean"
  /\ UNCHANGED <<retries, closing, shutdown, thread, former, slot, conn>>

-----------------------------------------------------------------------------
(* _cleanup_failed_attempt: _connected is not looked at                    *)

CleanConn ==
  /\ main = "clean"
  /\ conn' = "none"
  /\ IF conn # "none" /\ Alive THEN Releases(PeerOf(conn)) ELSE UNCHANGED slot
  /\ main' = "stop"
  /\ UNCHANGED <<caller, thread, former, connected, late>>

StopLoop ==
  /\ main = "stop"
  /\ thread' = [thread EXCEPT !.stop = TRUE]
  /\ main' = "join"
  /\ UNCHANGED <<caller, line>>

\* Fault: the next attempt does not wait for the thread of this one.
Join_Skipped ==
  /\ main = "join"
  /\ main' = "pause"
  /\ UNCHANGED <<caller, thread, line>>

\* Fault: the join has no timeout.
Join_Untimed ==
  /\ main = "join" /\ thread.pc = "ended"
  /\ main' = "pause"
  /\ UNCHANGED <<caller, thread, line>>

\* The join ends, or gives up after five seconds.
Join ==
  /\ main = "join"
  /\ thread' = [thread EXCEPT !.given = Alive]
  /\ main' = "pause"
  /\ UNCHANGED <<caller, line>>

\* An occupied slot is tried again every two seconds until the deadline that
\* its first report set.
Retry ==
  /\ main = "pause" /\ cause = "slot"
  /\ \/ retries > 0 /\ retries' = retries - 1 /\ main' = "loop"
     \/ retries <= SlotRetries /\ main' = "raised" /\ UNCHANGED retries
  /\ UNCHANGED <<cause, closing, shutdown, thread, line>>

\* Any other failure is tried again without a limit.
BackOff ==
  /\ main = "pause" /\ cause = "other"
  /\ main' = "loop"
  /\ UNCHANGED <<caller, thread, line>>

AuthRaises ==
  /\ main = "pause" /\ cause = "auth"
  /\ main' = "raised"
  /\ UNCHANGED <<caller, thread, line>>

\* The task that connects is cancelled while it sleeps.
Interrupted ==
  /\ main = "pause" /\ main' = "raised"
  /\ UNCHANGED <<caller, thread, line>>

-----------------------------------------------------------------------------
(* The thread of an attempt.                                               *)

Thread(pc) == thread' = [thread EXCEPT !.pc = pc]

Shake ==
  /\ thread.pc = "shaking" /\ slot = "free"
  /\ slot' = "own"
  /\ UNCHANGED <<thread, conn, connected, late>>

Shaken ==
  /\ thread.pc = "shaking" /\ slot = "own"
  /\ Thread("preparing")
  /\ UNCHANGED <<slot, conn, connected, late>>

\* The port does not answer: there is no connection to release.
Unreachable ==
  /\ thread.pc = "shaking" /\ slot # "own"
  /\ Thread("failed")
  /\ UNCHANGED <<slot, conn, connected, late>>

\* conn.connect, the media or the first requests raise: _safe_disconnect_conn.
HandshakeFails ==
  /\ thread.pc \in {"shaking", "preparing"}
  /\ Thread("failing")
  /\ UNCHANGED <<slot, conn, connected, late>>

HandshakeReleased ==
  /\ thread.pc = "failing"
  /\ Thread("failed") /\ Releases("own")
  /\ UNCHANGED <<conn, connected, late>>

\* The keepalive loop notices a disconnect.
KeepaliveEnds ==
  /\ thread.pc = "installed" /\ ~connected
  /\ Thread("idle")
  /\ UNCHANGED <<slot, conn, connected, late>>

\* From the last answer to ready_event without an await.
Install ==
  /\ thread.pc = "preparing"
  /\ conn' = "own" /\ connected' = TRUE /\ late' = (main # "waiting")
  /\ Thread("installed")
  /\ UNCHANGED slot

SubscribeFails ==
  /\ thread.pc = "preparing"
  /\ conn' = "own"
  /\ Thread("failed")
  /\ UNCHANGED <<slot, connected, late>>

\* The loop stops: what is pending is cancelled, and a cancelled handshake does
\* not pass through the handlers that would release it.
ThreadEnds ==
  /\ Alive /\ thread.stop
  /\ Thread("ended")
  /\ slot' = IF slot = "own" THEN "gone" ELSE slot
  /\ UNCHANGED <<conn, connected, late>>

\* A thread that was stopped and outlives its join hangs in one call, and ends
\* after it.
ThreadStep ==
  /\ main # "exited"
  /\ \/ /\ ~(thread.stop /\ thread.given)
        /\ \/ Shake \/ Shaken \/ Unreachable \/ HandshakeFails \/ HandshakeReleased
           \/ KeepaliveEnds \/ Install \/ SubscribeFails
     \/ ThreadEnds
  /\ UNCHANGED <<main, caller, former>>

FormerEnds ==
  /\ former # "none" /\ former' = "none"
  /\ UNCHANGED <<main, caller, thread, slot, conn, connected, late>>

\* The link is lost, or the robot drops its peer; the thread sleeps on.
LinkLost ==
  /\ thread.pc = "installed" /\ slot = "own"
  /\ slot' = "gone"
  /\ UNCHANGED <<main, caller, thread, former, conn, connected, late>>

\* The robot forgets a peer that is gone.
SlotTimesOut ==
  /\ slot = "gone" /\ slot' = "free"
  /\ UNCHANGED <<main, caller, thread, former, conn, connected, late>>

-----------------------------------------------------------------------------
(* disconnect(), and the end of the process                                *)

\* Fault: connect() is not told.
Disconnect_Untold ==
  /\ closing = "no" /\ main \in {"pause", "up", "raised"}
  /\ closing' = "halt"
  /\ UNCHANGED <<main, cause, retries, shutdown, thread, line>>

\* Up to the halt of the robot, which it awaits.
Disconnect ==
  /\ closing = "no" /\ main \in {"pause", "up", "raised"}
  /\ shutdown' = TRUE
  /\ closing' = "halt"
  /\ UNCHANGED <<main, cause, retries, thread, line>>

\* From the halt to the join of the thread; a failed attempt has cleaned up its own.
Dismantle ==
  /\ closing = "halt" /\ main \in {"pause", "up", "raised"}
  /\ Lowered /\ conn' = "none"
  /\ IF main = "up"
     THEN /\ IF conn # "none" THEN Releases(PeerOf(conn)) ELSE UNCHANGED slot
          /\ thread' = [thread EXCEPT !.stop = TRUE]
     ELSE UNCHANGED <<thread, slot>>
  /\ closing' = "join"
  /\ UNCHANGED <<main, cause, retries, shutdown, former>>

\* The join ends, or gives up after three seconds.
Joined ==
  /\ closing = "join" /\ main \in {"pause", "up", "raised"}
  /\ thread' = [thread EXCEPT !.given = Alive]
  /\ closing' = "done"
  /\ UNCHANGED <<main, cause, retries, shutdown, line>>

\* The host leaves after a failed connect() or its own disconnect().  The atexit
\* handler raises a flag that a live connection may or may not see in time.
Exit ==
  /\ main = "raised" \/ (main = "up" /\ closing = "done")
  /\ main' = "exited"
  /\ slot' \in IF slot = "own" THEN {"gone", "free"} ELSE {slot}
  /\ thread' = IF Alive THEN [thread EXCEPT !.pc = "ended"] ELSE thread
  /\ former' = "none"
  /\ UNCHANGED <<caller, conn, connected, late>>

-----------------------------------------------------------------------------
Caller ==
  \/ ConnectOnce \/ ShutDownMeanwhile \/ Succeeds \/ Fails \/ WaitTimesOut \/ TimeoutRaises
  \/ CleanConn \/ StopLoop \/ Join \/ Retry \/ BackOff \/ AuthRaises

Closer == Dismantle \/ Joined

ConnectionNext ==
  \/ ConnectBegins \/ Caller \/ Interrupted
  \/ Disconnect \/ Closer \/ Exit
  \/ ThreadStep \/ FormerEnds \/ LinkLost \/ SlotTimesOut

ConnectionSpec == ConnectionInit /\ [][ConnectionNext]_connectionVars

\* connect() and disconnect() wait with a timeout at every point.
ConnectionFairSpec == ConnectionSpec /\ WF_connectionVars(Caller) /\ WF_connectionVars(Closer)

-----------------------------------------------------------------------------
\* The connection that _connected claims: this attempt's, served by its thread.
Served == conn = "own" /\ thread.pc = "installed" /\ ~thread.stop

\* Whenever _connected is set, in connect() or after it, the connection is there, with
\* one exception: a handshake that finished after its wait was given up sets a flag that
\* nothing takes back when its connection is cleaned up, until another attempt or a
\* disconnect() does.
ConnectedIsServed == main # "exited" /\ connected /\ ~late => Served

\* A connect() that returned left _connected set, until it is closed.
UpIsConnected == main = "up" /\ closing \in {"no", "halt"} => connected

\* "Go2 sees two overlapping WebRTC handshakes from the same IP and rejects
\* both": a new attempt has no rival, but for a thread that would not stop.
OneHandshake == former # "running"

\* After disconnect() nothing is connected, and nothing connects any more.
ShutdownIsFinal ==
  closing = "done" => ~connected /\ conn = "none" /\ (Alive => thread.given)

\* What the transport says of its connection is true as far as the code keeps it so,
\* before and after shutdown, and its attempts do not get in each other's way.
ConnectionIsTrue == ConnectedIsServed /\ UpIsConnected /\ ShutdownIsFinal /\ OneHandshake

\* A failure that connect() retries without a limit.
Outage == Fails /\ cause' = "other"

\* connect() returns or raises, unless outages go on for ever.
ConnectEnds ==
  \/ []<><<Outage>>_connectionVars
  \/ main = "loop" ~> main \in {"up", "raised", "exited"}

=============================================================================
