-------------------------------- MODULE Camera --------------------------------
(***************************************************************************)
(* The pictures of the dashboard.  Live video goes through a peer          *)
(* connection per viewer; the fallback are single pictures, which a task   *)
(* (the tap) takes from the robot's video track while somebody polls for   *)
(* them.  Every frame of a track goes to one of its receivers only, so     *)
(* that an answered viewer stops the tap and a poll starts it again.       *)
(* Requests run on the loop of the service, peers and the callback of a    *)
(* new track on that of the connection, the tap on either.                 *)
(***************************************************************************)
EXTENDS Naturals

CONSTANTS
  Viewers,   \* offers of live video, each of one peer
  MaxTracks, \* bound on the tracks that the robot publishes, one after the other
  MaxLosses  \* bound on the taps that end by an exception of their own

VARIABLES
  house,   \* the service: up, closing its peers, then its source, leaving the robot, or down
  feed,    \* the tracks published so far, and whether the last one still delivers
  tap,     \* _task: what it is doing, the track it drains, and whether stop() has cancelled it
  picture, \* _latest_jpeg: none, or from before or after the last poll
  wanted,  \* _requested_until is still to come
  peer,    \* per viewer: the offer and its peer connection
  known,   \* _peers
  losses

cameraVars == <<house, feed, tap, picture, wanted, peer, known, losses>>

NewTap == [does |-> "receive", from |-> feed.published, cancelled |-> FALSE]

CameraInit ==
  /\ house = "up" /\ feed = [published |-> 0, live |-> FALSE]
  /\ tap = [does |-> "nothing", from |-> 0, cancelled |-> FALSE]
  /\ picture = "none" /\ wanted = TRUE
  /\ peer = [v \in Viewers |-> "none"] /\ known = {} /\ losses = 0

Running == tap.does # "nothing"

-----------------------------------------------------------------------------
(* The tap.                                                                *)

\* Fault: a task that has ended is not replaced.
AttachTrack_Once == tap' = IF tap.from # 0 THEN tap ELSE NewTap'

\* attach_track, on the track of the connection that delivers or did so last.
AttachTrack == tap' = IF Running THEN tap ELSE NewTap'

\* GET /api/camera/frame: the tap is armed again, the picture returned as it is.
PollFrame ==
  /\ house = "up"
  /\ wanted' = TRUE
  /\ picture' = IF picture = "new" THEN "old" ELSE picture
  /\ UNCHANGED <<house, feed, peer, known, losses>>
  /\ IF feed.published = 0 THEN UNCHANGED tap ELSE AttachTrack

\* A track arrives; the callback knows the source, also when the service has let go of it.
Publish ==
  /\ house # "down" /\ ~feed.live /\ feed.published < MaxTracks
  /\ feed' = [published |-> feed.published + 1, live |-> TRUE]
  /\ IF house = "leaving" THEN tap' = NewTap' ELSE AttachTrack
  /\ UNCHANGED <<house, picture, wanted, peer, known, losses>>

TrackEnds ==
  /\ feed.live
  /\ feed' = [feed EXCEPT !.live = FALSE]
  /\ UNCHANGED <<house, tap, picture, wanted, peer, known, losses>>

Delivers == feed.live /\ tap.from = feed.published /\ ~tap.cancelled

\* A frame is thrown away unless a picture is wanted and the last one is not too recent.
TakeFrame ==
  /\ tap.does = "receive" /\ Delivers /\ wanted
  /\ tap' = [tap EXCEPT !.does = "encode"]
  /\ UNCHANGED <<house, feed, picture, wanted, peer, known, losses>>

\* The frame is encoded on a thread of its own.
Encoded ==
  /\ tap.does = "encode" /\ ~tap.cancelled
  /\ tap' = [tap EXCEPT !.does = "receive"]
  /\ picture' = "new"
  /\ UNCHANGED <<house, feed, wanted, peer, known, losses>>

\* Frames come more often than _requested_until passes (0.35 s).
WantPasses ==
  /\ wanted /\ ~(tap.does = "receive" /\ Delivers /\ picture # "new")
  /\ wanted' = FALSE
  /\ UNCHANGED <<house, feed, tap, picture, peer, known, losses>>

TapOver == tap' = [tap EXCEPT !.does = "nothing"]

\* recv() raises: the track is over, or was cancelled while it waited.
TapEnds ==
  /\ tap.does = "receive" /\ ~Delivers
  /\ TapOver
  /\ UNCHANGED <<house, feed, picture, wanted, peer, known, losses>>

\* A picture that is being encoded when the task is cancelled is not stored.
TapCancelled ==
  /\ tap.does = "encode" /\ tap.cancelled
  /\ TapOver
  /\ UNCHANGED <<house, feed, picture, wanted, peer, known, losses>>

\* Any other exception is logged, and ends the task as well.
TapFails ==
  /\ Running /\ losses < MaxLosses
  /\ losses' = losses + 1
  /\ TapOver
  /\ UNCHANGED <<house, feed, picture, wanted, peer, known>>

-----------------------------------------------------------------------------
(* Live video.                                                             *)

InState(v, from, to) == peer[v] = from /\ peer' = [peer EXCEPT ![v] = to]

\* POST /api/camera/webrtc/offer: the camera is switched on, and its track awaited.
OfferVideo(v) ==
  /\ house = "up"
  /\ InState(v, "none", "awaiting")
  /\ UNCHANGED <<house, feed, tap, picture, wanted, known, losses>>

\* A track is found, of whatever state, and a peer is registered for it.
Register(v) ==
  /\ feed.published > 0
  /\ InState(v, "awaiting", "negotiating")
  /\ known' = known \union {v}
  /\ UNCHANGED <<house, feed, tap, picture, wanted, losses>>

NoTrack(v) ==
  /\ feed.published = 0
  /\ InState(v, "awaiting", "refused")
  /\ UNCHANGED <<house, feed, tap, picture, wanted, known, losses>>

Answer(v) ==
  /\ InState(v, "negotiating", "answered")
  /\ UNCHANGED <<house, feed, tap, picture, wanted, known, losses>>

\* The answer returns to the service, which stops the tap.
SuspendTap(v) ==
  /\ InState(v, "answered", "shown")
  /\ tap' = [tap EXCEPT !.cancelled = Running]
  /\ UNCHANGED <<house, feed, picture, wanted, known, losses>>

\* The negotiation fails, or the connection is lost when the request is over.
Drop(v) ==
  /\ \E from \in {"negotiating", "shown", "cut"} : InState(v, from, "closing")
  /\ known' = known \ {v}
  /\ UNCHANGED <<house, feed, tap, picture, wanted, losses>>

\* Fault: the peer of a cancelled negotiation is forgotten.
TimesOut_Forgets(v) ==
  /\ \/ InState(v, "awaiting", "refused") /\ UNCHANGED known
     \/ InState(v, "negotiating", "cut") /\ known' = known \ {v}
  /\ UNCHANGED <<house, feed, tap, picture, wanted, losses>>

\* The bridge gives up after twenty seconds and cancels the negotiation; what it
\* has registered stays.
TimesOut(v) ==
  /\ InState(v, "awaiting", "refused") \/ InState(v, "negotiating", "cut")
  /\ UNCHANGED <<house, feed, tap, picture, wanted, known, losses>>

PeerCloses(v) ==
  /\ InState(v, "closing", "closed")
  /\ UNCHANGED <<house, feed, tap, picture, wanted, known, losses>>

-----------------------------------------------------------------------------
(* stop(), once the server has finished its requests.                      *)

CloseViewers ==
  /\ house = "up" /\ \A v \in Viewers : peer[v] \notin {"awaiting", "negotiating", "answered"}
  /\ house' = "closing"
  /\ peer' = [v \in Viewers |-> IF v \in known THEN "closing" ELSE peer[v]]
  /\ known' = {}
  /\ UNCHANGED <<feed, tap, picture, wanted, losses>>

\* The peers are closed one after the other, for at most five seconds.
AllClosed ==
  /\ house = "closing"
  /\ house' = "source"
  /\ peer' = [v \in Viewers |-> IF peer[v] = "closing" THEN "abandoned" ELSE peer[v]]
  /\ UNCHANGED <<feed, tap, picture, wanted, known, losses>>

\* aclose of the frame source: it does not wait for a task of another loop.
CloseSource ==
  /\ house = "source" /\ house' = "leaving"
  /\ tap' = [tap EXCEPT !.cancelled = Running]
  /\ UNCHANGED <<feed, picture, wanted, peer, known, losses>>

\* The transport's disconnect ends the loop and all that runs on it.
LeaveRobot ==
  /\ house = "leaving" /\ house' = "down"
  /\ feed' = [feed EXCEPT !.live = FALSE]
  /\ peer' = [v \in Viewers |-> IF peer[v] \in {"closing", "abandoned"} THEN "closed" ELSE peer[v]]
  /\ UNCHANGED <<tap, picture, wanted, known, losses>>

Tapping == TakeFrame \/ Encoded \/ TapEnds \/ TapCancelled
Negotiating(v) == NoTrack(v) \/ Register(v) \/ Answer(v) \/ SuspendTap(v) \/ TimesOut(v) \/ PeerCloses(v)
Leaving == AllClosed \/ CloseSource \/ LeaveRobot

CameraNext ==
  \/ PollFrame \/ Publish \/ TrackEnds \/ WantPasses \/ TapFails \/ Tapping \/ CloseViewers \/ Leaving
  \/ \E v \in Viewers : OfferVideo(v) \/ Drop(v) \/ Negotiating(v)

CameraFairness ==
  /\ WF_cameraVars(Tapping) /\ WF_cameraVars(Leaving)
  /\ \A v \in Viewers : WF_cameraVars(Negotiating(v))

CameraSpec == CameraInit /\ [][CameraNext]_cameraVars /\ CameraFairness

-----------------------------------------------------------------------------
Open == {v \in Viewers : peer[v] \in {"negotiating", "answered", "shown", "cut"}}

(* Every peer connection that is open is registered, also the one whose        *)
(* negotiation was cancelled at any await, so that the shutdown finds it, and  *)
(* no closed one stays registered; after the shutdown none is open.            *)
OpenPeersAreKnown ==
  /\ known = Open
  /\ house = "down" => \A v \in Viewers : peer[v] \in {"none", "refused", "closed"}

(* While the dashboard polls and the robot's track delivers, there is a new    *)
(* picture again and again, however often viewers have stopped the tap or a    *)
(* track or a decoding error has ended it (go2_video_tap, runner: "re-armed on *)
(* the next snapshot request").  After the shutdown the tap does not go on.    *)
TapFollowsPolls ==
  /\ WF_cameraVars(PollFrame) /\ <>[](feed.live /\ house = "up") => []<>(picture = "new")
  /\ house = "down" ~> ~Running
=============================================================================
