-------------------------------- MODULE Links ---------------------------------
(***************************************************************************)
(* The connections of the process, one at a time: the transport's to the   *)
(* robot, or the gateway's to the browsers of a user.                      *)
(***************************************************************************)
EXTENDS RobotConnection, Gateway

VARIABLE part \* connection or gateway

linksVars == <<part, connectionVars, gatewayVars>>

LinksInit == part \in {"connection", "gateway"} /\ ConnectionInit /\ GatewayInit

ByConnection(step) == part = "connection" /\ step /\ UNCHANGED <<part, gatewayVars>>
ByGateway(step) == part = "gateway" /\ step /\ UNCHANGED <<part, connectionVars>>

LinksNext == ByConnection(ConnectionNext) \/ ByGateway(GatewayNext)

\* connect() and disconnect() wait with a timeout at every point; the handlers
\* and teardowns of the gateway are tasks of one event loop.
LinksFairness ==
  /\ WF_linksVars(ByConnection(Caller)) /\ WF_linksVars(ByConnection(Closer))
  /\ WF_linksVars(ByGateway(Handler)) /\ WF_linksVars(ByGateway(CloseAllEnds))
  /\ \A c \in Closers : WF_linksVars(ByGateway(Teardown(c)))

LinksFairSpec == LinksInit /\ [][LinksNext]_linksVars /\ LinksFairness
=============================================================================
