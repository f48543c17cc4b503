---------------------------- MODULE MCConnection ----------------------------
(***************************************************************************)
(* The two ends of a connection, LogServ of the agent and LogClient of     *)
(* LogView.  Each is checked against an environment that does whatever the *)
(* other end and the network can do, so a behaviour is about one of them   *)
(* and the other keeps still.  Two connections are enough for the agent to *)
(* use a number again and to erase one listener while the other is served, *)
(* and for the viewer to complete a frame that was cut with another one.   *)
(***************************************************************************)
EXTENDS LogServ

CONSTANT MaxConnects

ASSUME LogClientConstants == MaxConnects \in Nat

VARIABLES
  agentOfView, link, pipe, came, registered, linesOfView,
  mInit, mTestConnent, mLogCache, mServInit, viewer,
  received, owed, cuts, connects

C == INSTANCE LogClient WITH agent <- agentOfView, lines <- linesOfView

clientVars == <<agentOfView, link, pipe, came, registered, linesOfView,
  mInit, mTestConnent, mLogCache, mServInit, viewer, received, owed, cuts, connects>>

allVars == <<vars, clientVars>>

ClientStill == UNCHANGED clientVars
ServStill == UNCHANGED vars

\* Of the end that keeps still there is one initial state.
ServInit == Init /\ C!Init /\ agentOfView = "down" /\ ~mServInit
ClientInit == Init /\ C!Init

ServSpec ==
  /\ ServInit
  /\ [][Next /\ ClientStill]_allVars
  /\ WF_allVars(Traffic /\ ClientStill)
  /\ WF_allVars(ServThread /\ ClientStill)
  /\ WF_allVars(NotifyThread /\ ClientStill)

ClientSpec ==
  /\ ClientInit
  /\ [][C!Next /\ ServStill]_allVars
  /\ WF_allVars(C!ClientThread /\ ServStill)
  /\ WF_allVars(C!Register /\ ServStill)
  /\ WF_allVars(C!SegmentArrives /\ ServStill)

\* The properties of LogClient, under their names.
ClientTypeOK == C!TypeOK
LinesIntact == C!LinesIntact
ClientDelivers == C!ClientDelivers
ClientRecovers == C!ClientRecovers
=============================================================================
