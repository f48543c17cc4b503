------------------------------ MODULE LogClient ------------------------------
(***************************************************************************)
(* The viewer's end of a connection: CTcpClient (LogLib/tcpclient.cpp),    *)
(* its thread, and CServMonitor (LogView/ServSniff).  The thread receives, *)
(* and when recv fails it connects again until it succeeds, registering    *)
(* each time.  The agent and the network are the environment: the agent    *)
(* stops and starts, and a connection ends after any byte, with or without *)
(* a word to the viewer.                                                   *)
(*                                                                         *)
(* CServMonitor never clears mLogCache, so the beginning of a frame that   *)
(* was cut stays there and is completed with the bytes of the next         *)
(* connection.  Its constructor sets neither mInit nor mListener and       *)
(* nobody calls its Init.                                                  *)
(***************************************************************************)
EXTENDS LogProtocol, Selecting, SequencesExt

CONSTANTS
  MaxConnects, \* connections made in a behaviour
  MaxLines     \* lines dispatched in a behaviour, numbered from 1

VARIABLES
  \* the agent and the connection, if any: the bytes sent to the viewer, how many
  \* of them have arrived, and whether the agent has read the register frame
  agent, link, pipe, came, registered, lines,
  \* CTcpClient
  mInit, mTestConnent,
  \* CServMonitor; what its constructor leaves in mInit; the viewer's process
  mLogCache, mServInit, viewer,
  \* what the properties remember: the contents passed to OnLogReceived, lines sent
  \* on the connection and not yet received, recv errors with a part of a frame
  \* in mLogCache, connections made
  received, owed, cuts, connects

agentVars == <<agent, link, pipe, came, registered, lines>>
viewerVars == <<mInit, mTestConnent, mLogCache, mServInit, viewer>>
vars == <<agentVars, viewerVars, received, owed, cuts, connects>>

Line == 1 .. MaxLines

\* One file; a word of text is longer than any packet when read as a length.
Path == <<2000>>
Text(n) == <<3000 + n>>
LogFrame(n) == EncodeLog(Path, Text(n))
Altered == 0     \* of received: a content that is no line

LineOf(info) ==
  IF info.mFilePath = Path /\ \E n \in Line : info.mContent = Text(n)
  THEN CHOOSE n \in Line : info.mContent = Text(n)
  ELSE Altered

TypeOK ==
  /\ agent \in {"up", "down"}
  /\ link \in {"none", "open", "ended", "silent"}
  /\ \A k \in DOMAIN pipe : pipe[k] \in Nat
  /\ came \in 0 .. Len(pipe)
  /\ registered \in BOOLEAN /\ mInit \in BOOLEAN /\ mTestConnent \in BOOLEAN
  /\ lines \in 0 .. MaxLines
  /\ mServInit \in BOOLEAN /\ viewer \in {"up", "crashed"}
  /\ received \in Seq(0 .. MaxLines) /\ owed \in Seq(Line)
  /\ cuts \in 0 .. MaxConnects /\ connects \in 0 .. MaxConnects
  /\ link # "none" => mInit

-----------------------------------------------------------------------------
(* The agent and the network (external).                                   *)

ViewerOnly == UNCHANGED <<viewerVars, received, cuts, connects>>

AgentStarts ==
  /\ agent = "down" /\ agent' = "up"
  /\ ViewerOnly /\ UNCHANGED <<link, pipe, came, registered, lines, owed>>

\* The connection ends, after some of what was sent: with FIN or RST, or unheard.
Break(end) ==
  /\ link = "open" /\ link' = end
  /\ \E n \in 0 .. Len(pipe) : pipe' = SubSeq(pipe, 1, n) /\ came' = n
  /\ registered' = FALSE

LinkEnds ==
  /\ Break("ended") \/ Break("silent")
  /\ ViewerOnly /\ UNCHANGED <<agent, lines, owed>>

AgentStops ==
  /\ agent = "up" /\ agent' = "down"
  /\ \/ Break("ended") \/ Break("silent")
     \/ link # "open" /\ UNCHANGED <<link, pipe, came, registered>>
  /\ ViewerOnly /\ UNCHANGED <<lines, owed>>

\* The register frame, which the viewer has sent on an open connection, arrives.
Register ==
  /\ link = "open" /\ ~registered /\ registered' = TRUE
  /\ ViewerOnly /\ UNCHANGED <<agent, link, pipe, came, lines, owed>>

\* TCP delivers what was sent in pieces of any size.
SegmentArrives ==
  /\ came = 0 /\ came' \in 1 .. Len(pipe)
  /\ ViewerOnly /\ UNCHANGED <<agent, link, pipe, registered, lines, owed>>

Network == Register \/ SegmentArrives

Dispatch ==
  /\ agent = "up" /\ lines < MaxLines
  /\ lines' = lines + 1
  /\ IF registered
     THEN pipe' = pipe \o LogFrame(lines') /\ owed' = Append(owed, lines')
     ELSE UNCHANGED <<pipe, owed>>
  /\ ViewerOnly /\ UNCHANGED <<agent, link, came, registered>>

-----------------------------------------------------------------------------
(* CTcpClient.  connect succeeds when the agent is up and answers in time; *)
(* the socket of an attempt that fails is closed.                          *)

Connect(ok) ==
  /\ ok => agent = "up" /\ connects < MaxConnects
  /\ connects' = IF ok THEN connects + 1 ELSE connects
  /\ link' = IF ok THEN "open" ELSE "none"
  /\ pipe' = <<>> /\ came' = 0 /\ registered' = FALSE

\* Mutant: InitClient starts the thread and leaves mInit.
RunUnset ==
  /\ viewer = "up" /\ ~mServInit /\ ~mInit
  /\ \E ok \in BOOLEAN : Connect(ok)
  /\ UNCHANGED <<agent, lines, viewerVars, received, owed, cuts>>

\* CServMonitor::Run and InitClient, whose thread starts only after a success.
Run ==
  /\ viewer = "up" /\ ~mServInit /\ ~mInit
  /\ \E ok \in BOOLEAN : Connect(ok) /\ mInit' = ok
  /\ UNCHANGED <<agent, lines, mTestConnent, mLogCache, mServInit, viewer, received,
                 owed, cuts>>

Running == viewer = "up" /\ mInit

\* Mutant: the thread tries once.
ConnectOnce ==
  /\ Running /\ mTestConnent
  /\ \E ok \in BOOLEAN : Connect(ok)
  /\ mTestConnent' = FALSE
  /\ UNCHANGED <<agent, lines, mInit, mLogCache, mServInit, viewer, received, owed,
                 cuts>>

\* TestConnect: when it fails, the thread sleeps and tries again.
TestConnect ==
  /\ Running /\ mTestConnent
  /\ \E ok \in BOOLEAN : Connect(ok) /\ mTestConnent' = ~ok
  /\ UNCHANGED <<agent, lines, mInit, mLogCache, mServInit, viewer, received, owed,
                 cuts>>

LogFrames == [mCommand : {em_cmd_log}, mContent : Seq(Nat)]

\* OnSingleResult for each frame, unless mListener, read uninitialised, ends it.
OnResults(result) ==
  \E logs \in {Select(result, LogFrames)} :
    \/ /\ received' = received \o [k \in DOMAIN logs |->
                                     LineOf(DecodeLog(logs[k].mContent))]
       /\ owed' = SubSeq(owed, Len(logs) + 1, Len(owed))
       /\ UNCHANGED viewer
    \/ /\ logs # <<>> /\ viewer' = "crashed"
       /\ UNCHANGED <<received, owed>>

\* Mutant: what is left over after the decoded frames is dropped.
DropLeftover ==
  /\ Running /\ ~mTestConnent /\ came # 0
  /\ \E packet \in {mLogCache \o SubSeq(pipe, 1, came)} :
       \E r \in {GetRecvResult(packet)} : mLogCache' = <<>> /\ OnResults(r.result)
  /\ pipe' = SubSeq(pipe, came + 1, Len(pipe)) /\ came' = 0
  /\ UNCHANGED <<agent, link, registered, lines, mInit, mTestConnent, mServInit,
                 cuts, connects>>

\* Mutant: GetRecvResult is given a copy of mLogCache.
DecodeCopy ==
  /\ Running /\ ~mTestConnent /\ came # 0
  /\ \E packet \in {mLogCache \o SubSeq(pipe, 1, came)} :
       \E r \in {GetRecvResult(packet)} : mLogCache' = packet /\ OnResults(r.result)
  /\ pipe' = SubSeq(pipe, came + 1, Len(pipe)) /\ came' = 0
  /\ UNCHANGED <<agent, link, registered, lines, mInit, mTestConnent, mServInit,
                 cuts, connects>>

\* recv and OnClientRecvData (\E, not LET, so that TLC evaluates each term once).
OnClientRecvData ==
  /\ Running /\ ~mTestConnent /\ came # 0
  /\ \E packet \in {mLogCache \o SubSeq(pipe, 1, came)} :
       \E r \in {GetRecvResult(packet)} : mLogCache' = r.packet /\ OnResults(r.result)
  /\ pipe' = SubSeq(pipe, came + 1, Len(pipe)) /\ came' = 0
  /\ UNCHANGED <<agent, link, registered, lines, mInit, mTestConnent, mServInit,
                 cuts, connects>>

\* recv fails.  OnClientSocketErr does nothing, mLogCache stays.
OnClientSocketErr ==
  /\ Running /\ ~mTestConnent /\ pipe = <<>> /\ link = "ended"
  /\ link' = "none" /\ mTestConnent' = TRUE
  /\ owed' = <<>>
  /\ cuts' = IF mLogCache = <<>> THEN cuts ELSE cuts + 1
  /\ UNCHANGED <<agent, pipe, came, registered, lines, mInit, mLogCache, mServInit,
                 viewer, received, connects>>

ClientThread == TestConnect \/ OnClientRecvData \/ OnClientSocketErr

-----------------------------------------------------------------------------
Init ==
  /\ agent \in {"up", "down"} /\ link = "none" /\ pipe = <<>> /\ came = 0
  /\ registered = FALSE /\ lines = 0
  /\ mInit = FALSE /\ mTestConnent = FALSE
  /\ mLogCache = <<>> /\ mServInit \in BOOLEAN /\ viewer = "up"
  /\ received = <<>> /\ owed = <<>> /\ cuts = 0 /\ connects = 0

Next ==
  \/ AgentStarts \/ AgentStops \/ LinkEnds \/ Network \/ Dispatch
  \/ Run \/ ClientThread

Spec == Init /\ [][Next]_vars

\* The client's thread runs and TCP carries what was sent, either way; the agent,
\* the connection and the user who calls Run are free.
FairSpec ==
  Spec /\ WF_vars(ClientThread) /\ WF_vars(Register) /\ WF_vars(SegmentArrives)

-----------------------------------------------------------------------------
(* Properties.                                                             *)

(***************************************************************************)
(* StreamIntact: as long as no connection ended inside a frame, what is in *)
(* mLogCache and on its way is exactly the frames of the lines that are    *)
(* owed, whatever pieces recv gave, so that no line is altered or lost.    *)
(***************************************************************************)
FrameSize == Len(LogFrame(1))

Frames(ns) ==
  [k \in 1 .. Len(ns) * FrameSize |->
     LogFrame(ns[((k - 1) \div FrameSize) + 1])[((k - 1) % FrameSize) + 1]]

StreamIntact ==
  cuts = 0 /\ viewer = "up" =>
    /\ \A k \in DOMAIN received : received[k] # Altered
    /\ link = "open" => mLogCache \o pipe = Frames(owed)

(***************************************************************************)
(* OneAlteredPerCut: the part of a frame that OnClientSocketErr leaves in  *)
(* mLogCache spoils one line at most: the bad magic behind it empties the  *)
(* cache, and what comes next is recognised by its magic again.            *)
(***************************************************************************)
OneAlteredPerCut ==
  Len(Select(received, {Altered})) <= cuts

(***************************************************************************)
(* LinesIntact: both of these: no line is altered but one for each time    *)
(* a connection ends inside a frame (ServMonitor.cpp:76).                  *)
(***************************************************************************)
LinesIntact == StreamIntact /\ OneAlteredPerCut

(***************************************************************************)
(* ClientDelivers: the lines that come out whole are a Delivery without a  *)
(* fault, none of them twice, however often the connection ended inside a  *)
(* frame and whatever was lost then.                                       *)
(***************************************************************************)
Stream == INSTANCE Delivery
  WITH Viewer <- {"viewer"}, dispatched <- lines, faults <- 0,
       shown <- [v \in {"viewer"} |-> Select(received, Line)]

ClientDelivers == Stream!Spec

(***************************************************************************)
(* RegistersAgain: a client whose connection has ended, and whose recv has *)
(* said so, tries until it is connected and registered with the agent, and *)
(* begins again when that connection ends too, unless the agent goes down  *)
(* or the next connection goes unheard (link is "silent").  The last       *)
(* connection there is (MaxConnects) may end as well.                      *)
(***************************************************************************)
RegistersAgain ==
  (Running /\ link = "none") ~>
    \/ registered \/ viewer = "crashed" \/ agent = "down" \/ link = "silent"
    \/ link = "none" /\ connects = MaxConnects

(***************************************************************************)
(* OwedArrives: a line that was sent to a viewer on a connection that      *)
(* stays open comes out of OnClientRecvData, if no connection has ended    *)
(* inside a frame before.                                                  *)
(***************************************************************************)
OwedArrives ==
  \A n \in Line :
    (n \in ToSet(owed)) ~>
      (n \in ToSet(received) \/ link # "open" \/ cuts # 0 \/ viewer = "crashed")

(***************************************************************************)
(* ClientRecovers: both of these: the thread of CTcpClient gets back to the *)
(* agent (tcpclient.cpp:165), and on a connection that stays it gets each  *)
(* line out.                                                               *)
(***************************************************************************)
ClientRecovers == RegistersAgain /\ OwedArrives

=============================================================================
