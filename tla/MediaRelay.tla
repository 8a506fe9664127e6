----------------------------- MODULE MediaRelay ------------------------------
(***************************************************************************)
(* The robot's picture and voice on their way to browsers.  Outside the    *)
(* gateway each video track is piped into an encoder (ffmpeg) and the      *)
(* operator's voice comes from a decoder that listens on a port; inside it *)
(* the frames go straight to the browsers.  Tasks and processes outlive    *)
(* the session with the robot that started them, sessions follow each      *)
(* other, and bounded queues stand between those who speak and hear.       *)
(***************************************************************************)
EXTENDS Naturals, FiniteSets, Sequences

CONSTANTS
  MediaModes,  \* when the relays start (at_once, on_demand, or gateway), and which
  Browsers,    \* peers of the gateway
  QueueLimit,  \* maxsize of the queues: 100 chunks, 50 frames
  MaxStarts,   \* bound on the tasks up to which relays are asked for while the robot is left
  MaxSessions, \* bound on the connections to the robot
  MaxChunks,   \* bound on the pieces of speech
  MaxBreaks    \* bound on the processes that end by themselves

ASSUME RelayAssumption == QueueLimit \in Nat \ {0} /\ MaxChunks \in Nat

VARIABLES
  mode,
  session,  \* the connection, whether it is up, and whether disconnect has begun
  started,  \* _media_relays_started
  watched,  \* callbacks registered for further tracks of the session
  track,    \* the session's video track: its number, if it delivers, if it came late
  relays,   \* the tasks that empty a video track, one per start
  decoders, \* the tasks that fill the robot's speaker, with their queues, one per start
  port,     \* the decoder whose process listens, or 0
  encoder,  \* the process for the robot's microphone, in this session
  audience, \* per browser: its peer connection, the session it was attached in, the pieces its
            \* callback was given, and the queue of its audio track
  spoken,     \* pieces of speech so far
  breaks

relayVars == <<mode, session, started, watched, track, relays, decoders, port, encoder, audience, spoken, breaks>>

NoAudience == [is |-> "none", of |-> 0, said |-> 0, queue |-> <<>>, heard |-> 0]
End == 0   \* None, which ends a queue

RelayInit ==
  /\ mode \in MediaModes
  /\ session = [n |-> 0, up |-> FALSE, leaving |-> FALSE]
  /\ started = FALSE /\ watched = 0 /\ track = [n |-> 0, live |-> FALSE, late |-> FALSE]
  /\ relays = <<>> /\ decoders = <<>> /\ port = 0 /\ encoder = "none"
  /\ audience = [b \in Browsers |-> NoAudience]
  /\ spoken = 0 /\ breaks = 0

\* The loop of a session cancels its tasks when it ends; 0 is the loop of the service.
Over(loop) == loop # 0 /\ ~(session.up /\ session.n = loop)
Yields(t) == track.live /\ track.n = t

-----------------------------------------------------------------------------
(* Starting.                                                               *)

NewRelay(loop) == [of |-> track'.n, loop |-> loop, does |-> IF mode.starts = "gateway" THEN "drain" ELSE "first"]

\* Fault: only tracks that come later are relayed.
StartVideo_CallbackOnly(loop) == watched' = watched + 1 /\ UNCHANGED relays

\* start_go2_video_relay, prime_go2_video_for_connect: later tracks by callback, the others now.
StartVideo(loop) ==
  IF "video" \notin mode.kinds THEN UNCHANGED <<watched, relays>> ELSE
  /\ watched' = watched + 1
  /\ relays' = IF track'.n = 0 THEN relays ELSE Append(relays, NewRelay(loop))

\* start_go2_audio_relay; the speaker is switched to the new queue, and a
\* process that cannot have the port ends.  The gateway sends silence.
StartAudio(loop) ==
  IF mode.starts = "gateway" \/ "audio" \notin mode.kinds THEN UNCHANGED <<decoders, port>>
  ELSE /\ decoders' = Append(decoders, [in |-> session'.n, loop |-> loop, does |-> "listen",
                                        queue |-> <<>>, heard |-> 0])
       /\ port' = IF port = 0 THEN Len(decoders') ELSE port

\* _do_connect; the camera may have published its track by then.  On demand
\* nothing is started, and the connection's own track listeners are removed.
Connect ==
  /\ ~session.up /\ session.n < MaxSessions
  /\ session' = [n |-> session.n + 1, up |-> TRUE, leaving |-> FALSE]
  /\ \/ "video" \in mode.kinds /\ track' = [n |-> session.n + 1, live |-> TRUE, late |-> FALSE]
     \/ track' = [n |-> 0, live |-> FALSE, late |-> FALSE]
  /\ started' = (mode.starts # "on_demand" /\ mode.kinds # {})
  /\ encoder' = "none"
  /\ IF mode.starts = "on_demand" THEN UNCHANGED <<watched, relays, decoders, port>>
     ELSE StartVideo(session'.n) /\ StartAudio(session'.n)
  /\ UNCHANGED <<mode, audience, spoken, breaks>>

\* Fault: relays that run are not looked for.
EnsureRelays_Again ==
  /\ mode.starts # "gateway" /\ mode.kinds # {} /\ session.up
  /\ started' = TRUE
  /\ UNCHANGED track /\ StartVideo(0)
  /\ UNCHANGED session /\ StartAudio(0)
  /\ UNCHANGED <<mode, encoder, audience, spoken, breaks>>

\* POST /api/media/relays/start, ensure_media_relays.
EnsureRelays ==
  /\ mode.starts # "gateway" /\ mode.kinds # {} /\ session.up /\ ~started
  /\ session.leaving => Len(relays) + Len(decoders) < MaxStarts
  /\ started' = TRUE
  /\ UNCHANGED track /\ StartVideo(0)
  /\ UNCHANGED session /\ StartAudio(0)
  /\ UNCHANGED <<mode, encoder, audience, spoken, breaks>>

\* A track comes after the connection: the callbacks hear of it unless nobody
\* listens to the connection.
TrackArrives ==
  /\ session.up /\ track.n = 0 /\ "video" \in mode.kinds
  /\ track' = [n |-> session.n, live |-> TRUE, late |-> TRUE]
  /\ relays' = IF mode.starts = "on_demand" THEN relays
               ELSE relays \o [i \in 1..watched |-> NewRelay(session.n)]
  /\ UNCHANGED <<mode, session, started, watched, decoders, port, encoder, audience, spoken, breaks>>

TrackStops ==
  /\ track.live /\ track' = [track EXCEPT !.live = FALSE]
  /\ UNCHANGED <<mode, session, started, watched, relays, decoders, port, encoder, audience, spoken, breaks>>

\* disconnect resets the flag, and then waits for the robot to halt.
BeginLeave ==
  /\ session.up /\ ~session.leaving
  /\ session' = [session EXCEPT !.leaving = TRUE]
  /\ started' = FALSE
  /\ UNCHANGED <<mode, watched, track, relays, decoders, port, encoder, audience, spoken, breaks>>

\* The connection and its loop end, or are given up after three seconds.
Leave ==
  /\ session.leaving /\ session' = [session EXCEPT !.up = FALSE, !.leaving = FALSE]
  /\ track' = [n |-> 0, live |-> FALSE, late |-> FALSE] /\ watched' = 0
  /\ UNCHANGED <<mode, started, relays, decoders, port, encoder, audience, spoken, breaks>>

-----------------------------------------------------------------------------
(* Pictures.                                                               *)

RelayGoes(i, from, to) ==
  /\ relays[i].does = from /\ relays' = [relays EXCEPT ![i].does = to]
  /\ UNCHANGED <<mode, session, started, watched, track, decoders, port, encoder, audience, spoken>>

\* The first frame tells the size and starts the encoder, unless the size is none.
FirstFrame(i) ==
  /\ Yields(relays[i].of) /\ ~Over(relays[i].loop)
  /\ \/ RelayGoes(i, "first", "stream") /\ UNCHANGED breaks
     \/ RelayGoes(i, "first", "over") /\ breaks < MaxBreaks /\ breaks' = breaks + 1

\* recv() raises: the track is over or the task was cancelled.
RelayEnds(i) ==
  /\ ~Yields(relays[i].of) \/ Over(relays[i].loop)
  /\ RelayGoes(i, "first", "over") \/ RelayGoes(i, "drain", "over") \/ RelayGoes(i, "stream", "closing")
  /\ UNCHANGED breaks

EncoderBreaks(i) ==
  /\ breaks < MaxBreaks /\ breaks' = breaks + 1
  /\ RelayGoes(i, "stream", "closing")

\* Fault: the encoder's input stays open while it is waited for.
EncoderEnds_Unclosed(i) == RelayGoes(i, "closing", "over") /\ breaks = MaxBreaks /\ UNCHANGED breaks

\* Its input is closed, and the encoder ends.
EncoderEnds(i) == RelayGoes(i, "closing", "over") /\ UNCHANGED breaks

-----------------------------------------------------------------------------
(* The operator's voice.                                                   *)

\* Fault: the newest piece is thrown away.
Push_KeepsOld(queue, piece) == IF Len(queue) < QueueLimit THEN Append(queue, piece) ELSE queue

\* push_pcm, push_frame: the oldest makes room.
Push(queue, piece) == Append(IF Len(queue) < QueueLimit THEN queue ELSE Tail(queue), piece)

DecoderGoes(d, from, to) ==
  /\ decoders[d].does = from /\ decoders' = [decoders EXCEPT ![d].does = to]
  /\ UNCHANGED <<mode, session, started, watched, track, relays, encoder, audience, spoken>>

Speak(d) ==
  /\ port = d /\ decoders[d].does = "listen" /\ ~Over(decoders[d].loop) /\ spoken < MaxChunks
  /\ spoken' = spoken + 1
  /\ decoders' = [decoders EXCEPT ![d].queue = Push(@, spoken + 1)]
  /\ UNCHANGED <<mode, session, started, watched, track, relays, port, encoder, audience, breaks>>

\* The connection's sender takes from the queue it was given last.
RobotPlays ==
  /\ session.up /\ decoders # <<>>
  /\ LET d == Len(decoders)
     IN /\ decoders[d].in = session.n /\ decoders[d].queue # <<>>
        /\ decoders' = [decoders EXCEPT ![d].queue = Tail(@),
                          ![d].heard = IF Head(decoders[d].queue) = End THEN @ ELSE Head(decoders[d].queue)]
  /\ UNCHANGED <<mode, session, started, watched, track, relays, port, encoder, audience, spoken, breaks>>

\* The process is over, or the task cancelled.
DecoderStops(d) ==
  /\ port # d \/ Over(decoders[d].loop)
  /\ DecoderGoes(d, "listen", "end") /\ UNCHANGED <<port, breaks>>

\* track.end() waits for room; nobody makes any once the session is over.
PutEnd(d) ==
  /\ decoders[d].does = "end" /\ Len(decoders[d].queue) < QueueLimit
  /\ decoders' = [decoders EXCEPT ![d].does = "wait", ![d].queue = Append(@, End)]
  /\ UNCHANGED <<mode, session, started, watched, track, relays, port, encoder, audience, spoken, breaks>>

\* From the service's loop it may not wait on a queue of the connection's loop.
EndRaises(d) ==
  /\ decoders[d].loop = 0 /\ Len(decoders[d].queue) = QueueLimit
  /\ DecoderGoes(d, "end", "over") /\ UNCHANGED <<port, breaks>>

\* The process is waited for, but nobody ends it.
DecoderEnds(d) ==
  /\ port # d
  /\ DecoderGoes(d, "wait", "over") /\ UNCHANGED <<port, breaks>>

ProcessBreaks ==
  /\ port # 0 /\ breaks < MaxBreaks
  /\ port' = 0 /\ breaks' = breaks + 1
  /\ UNCHANGED <<mode, session, started, watched, track, relays, decoders, encoder, audience, spoken>>

-----------------------------------------------------------------------------
(* The robot's voice.                                                      *)

Heeded == session.up /\ mode.starts = "at_once" /\ "audio" \in mode.kinds

\* Fault: a process that has ended is not replaced.
EncodeVoice_Once ==
  /\ Heeded /\ encoder = "none" /\ encoder' = "runs"
  /\ UNCHANGED <<mode, session, started, watched, track, relays, decoders, port, audience, spoken, breaks>>

\* A frame of the microphone: without a process that runs, one is started.
EncodeVoice ==
  /\ Heeded /\ encoder # "runs" /\ encoder' = "runs"
  /\ UNCHANGED <<mode, session, started, watched, track, relays, decoders, port, audience, spoken, breaks>>

VoiceBreaks ==
  /\ encoder = "runs" /\ breaks < MaxBreaks
  /\ encoder' = "broken" /\ breaks' = breaks + 1
  /\ UNCHANGED <<mode, session, started, watched, track, relays, decoders, port, audience, spoken>>

Audience(b, value) ==
  /\ audience' = [audience EXCEPT ![b] = value]
  /\ UNCHANGED <<mode, session, started, watched, track, relays, decoders, port, encoder, spoken, breaks>>

\* attach_go2_to_browser: a queue of its own, and a callback on the session's connection
\* that is never taken back.
Attach(b) ==
  /\ mode.starts = "gateway" /\ session.up /\ audience[b].is = "none"
  /\ Audience(b, [is |-> "open", of |-> session.n, said |-> 0, queue |-> <<>>, heard |-> 0])

CloseBrowser(b) == audience[b].is = "open" /\ Audience(b, [audience[b] EXCEPT !.is = "gone"])

BrowserPlays(b) ==
  /\ audience[b].is = "open" /\ audience[b].queue # <<>>
  /\ Audience(b, [audience[b] EXCEPT !.queue = Tail(@), !.heard = Head(audience[b].queue)])

RobotSpeaks ==
  /\ mode.starts = "gateway" /\ session.up /\ spoken < MaxChunks
  /\ spoken' = spoken + 1
  /\ audience' = [b \in Browsers |->
       IF audience[b].of # session.n THEN audience[b]
       ELSE [audience[b] EXCEPT !.said = @ + 1, !.queue = Push(@, audience[b].said + 1)]]
  /\ UNCHANGED <<mode, session, started, watched, track, relays, decoders, port, encoder, breaks>>

RelayWorks == \E i \in DOMAIN relays : FirstFrame(i) \/ RelayEnds(i) \/ EncoderEnds(i)
DecoderWorks == \E d \in DOMAIN decoders : DecoderStops(d) \/ PutEnd(d) \/ EndRaises(d) \/ DecoderEnds(d)

RelayNext ==
  \/ Connect \/ EnsureRelays \/ TrackArrives \/ TrackStops \/ BeginLeave \/ Leave
  \/ RelayWorks \/ DecoderWorks \/ EncodeVoice \/ VoiceBreaks \/ ProcessBreaks \/ RobotPlays \/ RobotSpeaks
  \/ \E i \in DOMAIN relays : EncoderBreaks(i)
  \/ \E d \in DOMAIN decoders : Speak(d)
  \/ \E b \in Browsers : Attach(b) \/ CloseBrowser(b) \/ BrowserPlays(b)

\* Tasks go on, frames of a live track and of the microphone come.
RelayFairness == WF_relayVars(RelayWorks) /\ WF_relayVars(EncodeVoice)

RelaySpec == RelayInit /\ [][RelayNext]_relayVars /\ RelayFairness

-----------------------------------------------------------------------------
Empties(i) == relays[i].of = track.n /\ relays[i].does \in {"first", "stream", "drain"}

(* Starting relays is "idempotent" (ensure_media_relays): however often they   *)
(* are asked for, one task empties the robot's track, which would lose half    *)
(* its frames to a second one, and one decoder fills its speaker; but for the  *)
(* time that a disconnect takes, which has reset the flag.                     *)
OneRelayPerTrack ==
  session.up /\ ~session.leaving =>
    /\ track.live => Cardinality({i \in DOMAIN relays : Empties(i)}) <= 1
    /\ Cardinality({d \in DOMAIN decoders : decoders[d].in = session.n}) <= 1

Outlives(i) == IF i \in DOMAIN relays THEN ~Yields(relays[i].of) /\ relays[i].does # "over" ELSE FALSE

Fresh(then, now, said) == now # then => now > then /\ now + QueueLimit > said

(* Speech is heard in its order and at most the queue's length behind what was *)
(* said, on the robot and in every browser, whatever was thrown away.          *)
VoiceIsRecent ==
  [][/\ \A d \in DOMAIN decoders : Fresh(decoders[d].heard, decoders'[d].heard, spoken)
     /\ \A b \in Browsers : Fresh(audience[b].heard, audience'[b].heard, audience[b].said)]_relayVars

(* No encoder outlives the track it shows.  A track that was there when the    *)
(* relays started is shown as long as it delivers and no process broke, when   *)
(* the relays start with the connection or are asked for; and a process for    *)
(* the microphone that broke is replaced.                                      *)
RelayFollows ==
  /\ \A i \in 1..MaxSessions : Outlives(i) ~> ~Outlives(i)
  /\ WF_relayVars(EnsureRelays) /\ <>[](session.up /\ ~session.leaving /\ track.live /\ ~track.late /\ mode.starts # "gateway" /\ "video" \in mode.kinds)
       => <>[](breaks > 0 \/ \E i \in DOMAIN relays : Empties(i) /\ relays[i].does = "stream")
  /\ <>[]Heeded => []<>(encoder = "runs")
=============================================================================
