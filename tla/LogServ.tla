------------------------------- MODULE LogServ -------------------------------
(***************************************************************************)
(* The network side of the Linux agent: CTcpServ's select thread           *)
(* (LogLib/tcpserv.cpp) and the listeners of CLogMonitor                   *)
(* (LogSniff/LogMonitor.cpp).  Viewers connect, send a register frame and  *)
(* are sent every line that is dispatched from then on.  The inotify       *)
(* thread dispatches lines under CLogMonitor's lock, with a blocking send  *)
(* for each listener; the select thread takes the lock to decode what a    *)
(* viewer sent, but not to erase a listener that is gone.                  *)
(*                                                                         *)
(* Socket numbers are reused, the lowest free one first, and mDataCache is *)
(* never erased, so a connection can inherit the bytes of an earlier one.  *)
(***************************************************************************)
EXTENDS LogProtocol

CONSTANTS
  MaxConn,     \* connections made in a behaviour, numbered in that order
  MaxSock,     \* socket numbers of the agent; 0 is none
  MaxLines,    \* lines dispatched in a behaviour, numbered from 1
  Room         \* lines that fit in the buffers of a connection

ASSUME LogServConstants ==
  /\ MaxConn \in Nat \ {0} /\ MaxSock \in Nat /\ MaxSock >= MaxConn
  /\ MaxLines \in Nat /\ Room \in Nat \ {0}

VARIABLES
  \* the viewers and the network
  peer, outbox, toServ, toView, reset, backlog,
  \* CTcpServ: the number of each connection; the select thread
  sockOf, servPc,
  \* CLogMonitor
  mListener, mDataCache, lock,
  \* the inotify thread in DispatchLog
  lines, it,
  \* the agent's process
  agent,
  \* what the properties remember; races counts the listeners erased under it
  sent, since, inherited, races

viewerVars == <<peer, outbox, toServ, toView, reset, backlog>>
monitorVars == <<mListener, mDataCache, lock>>
historyVars == <<sent, since, inherited, races>>
vars == <<viewerVars, sockOf, servPc, monitorVars, lines, it, agent, historyVars>>

Conn == 1 .. MaxConn
Sock == 1 .. MaxSock
Line == 1 .. MaxLines
RegisterFrame == EncodeRegister(1)
Word == {RegisterFrame[k] : k \in DOMAIN RegisterFrame}
Never == MaxLines + 1     \* of since: the connection has not registered

Owner(s) == {c \in Conn : sockOf[c] = s}

WireTypes ==
  /\ outbox \in [Conn -> Seq(Word)] /\ toServ \in [Conn -> Seq(Word)]
  /\ toView \in [Conn -> Seq(Line)]
  /\ mDataCache \in [Sock -> Seq(Word)]
  /\ reset \subseteq Conn /\ inherited \subseteq Conn

ServTypes ==
  /\ peer \in [Conn -> {"idle", "open", "closed"}]
  /\ backlog \in Seq(Conn)
  /\ sockOf \in [Conn -> 0 .. MaxSock]
  /\ servPc \in 0 .. MaxConn
  /\ mListener \subseteq Sock
  /\ lock \in {"free", "notify", "serv"}
  /\ lines \in 0 .. MaxLines /\ it \in 0 .. MaxSock
  /\ agent \in {"up", "dead"}
  /\ sent \in [Conn -> Seq(Line)] /\ since \in [Conn -> 0 .. Never]
  /\ races \in Nat
  /\ agent = "up" => (lock = "notify" <=> it # 0)

TypeOK == WireTypes /\ ServTypes

-----------------------------------------------------------------------------
(* The viewers and TCP (external).                                         *)

ServerOnly == UNCHANGED <<sockOf, servPc, monitorVars, lines, it, agent, historyVars>>

Connect(c) ==
  /\ peer[c] = "idle" /\ \A d \in 1 .. c - 1 : peer[d] # "idle"
  /\ agent = "up"
  /\ peer' = [peer EXCEPT ![c] = "open"]
  /\ outbox' = [outbox EXCEPT ![c] = RegisterFrame]
  /\ backlog' = Append(backlog, c)
  /\ ServerOnly /\ UNCHANGED <<toServ, toView, reset>>

\* TCP delivers what was sent in pieces of any size.
SegmentArrives(c) ==
  \E n \in 1 .. Len(outbox[c]) :
    /\ toServ' = [toServ EXCEPT ![c] = @ \o SubSeq(outbox[c], 1, n)]
    /\ outbox' = [outbox EXCEPT ![c] = SubSeq(@, n + 1, Len(@))]
    /\ ServerOnly /\ UNCHANGED <<peer, toView, reset, backlog>>

ViewerReads(c) ==
  /\ peer[c] = "open" /\ toView[c] # <<>>
  /\ toView' = [toView EXCEPT ![c] = Tail(@)]
  /\ ServerOnly /\ UNCHANGED <<peer, outbox, toServ, reset, backlog>>

\* The viewer leaves or loses the connection, whatever it had still to send.
Disconnect(c) ==
  /\ peer[c] = "open"
  /\ peer' = [peer EXCEPT ![c] = "closed"]
  /\ outbox' = [outbox EXCEPT ![c] = <<>>]
  /\ reset' = IF toView[c] = <<>> THEN reset ELSE reset \cup {c}
  /\ toView' = [toView EXCEPT ![c] = <<>>]
  /\ ServerOnly /\ UNCHANGED <<toServ, backlog>>

\* What TCP, and a viewer that is connected, do without being asked.
Traffic == \E c \in Conn : SegmentArrives(c) \/ ViewerReads(c)

-----------------------------------------------------------------------------
(* The select thread: CTcpServ::run and the callbacks of CLogMonitor.      *)

Selecting == agent = "up" /\ servPc = 0 /\ lock # "serv"

Accept ==
  /\ Selecting /\ backlog # <<>>
  /\ LET c == Head(backlog)
     IN  \E s \in Sock :
           /\ Owner(s) = {} /\ \A t \in 1 .. s - 1 : Owner(t) # {}
           /\ sockOf' = [sockOf EXCEPT ![c] = s]
           /\ inherited' = IF mDataCache[s] = <<>> THEN inherited
                           ELSE inherited \cup {c}
  /\ backlog' = Tail(backlog)
  /\ UNCHANGED <<peer, outbox, toServ, toView, reset, servPc, monitorVars, lines,
                 it, agent, sent, since, races>>

Registers(result) == \E k \in DOMAIN result : result[k].mCommand = em_cmd_register

\* Mutant: what is left over after the decoded frames is dropped.
DropLeftover(c) ==
  /\ Selecting /\ lock = "free"
  /\ sockOf[c] # 0 /\ toServ[c] # <<>> /\ c \notin reset
  /\ LET s == sockOf[c]
         r == GetRecvResult(mDataCache[s] \o toServ[c])
     IN  /\ mDataCache' = [mDataCache EXCEPT ![s] = <<>>]
         /\ mListener' = IF Registers(r.result) THEN mListener \cup {s} ELSE mListener
         /\ since' = IF Registers(r.result) /\ s \notin mListener
                     THEN [since EXCEPT ![c] = lines] ELSE since
         /\ lock' = IF r.state = "spin" THEN "serv" ELSE "free"
  /\ toServ' = [toServ EXCEPT ![c] = <<>>]
  /\ UNCHANGED <<peer, outbox, toView, reset, backlog, sockOf, servPc, lines, it,
                 agent, sent, inherited, races>>

\* recv, OnServRecvData under the lock, OnRecvComplete for each frame.
OnServRecvData(c) ==
  /\ Selecting /\ lock = "free"
  /\ sockOf[c] # 0 /\ toServ[c] # <<>> /\ c \notin reset
  /\ LET s == sockOf[c]
         r == GetRecvResult(mDataCache[s] \o toServ[c])
     IN  /\ mDataCache' = [mDataCache EXCEPT ![s] = r.packet]
         /\ mListener' = IF Registers(r.result) THEN mListener \cup {s} ELSE mListener
         /\ since' = IF Registers(r.result) /\ s \notin mListener
                     THEN [since EXCEPT ![c] = lines] ELSE since
         /\ lock' = IF r.state = "spin" THEN "serv" ELSE "free"
  /\ toServ' = [toServ EXCEPT ![c] = <<>>]
  /\ UNCHANGED <<peer, outbox, toView, reset, backlog, sockOf, servPc, lines, it,
                 agent, sent, inherited, races>>

\* Mutant: the listener is not erased.
CloseKeepsListener(c) ==
  /\ Selecting /\ sockOf[c] # 0
  /\ peer[c] = "closed" /\ (toServ[c] = <<>> \/ c \in reset)
  /\ servPc' = c
  /\ UNCHANGED <<viewerVars, sockOf, monitorVars, lines, it, agent, historyVars>>

\* recv fails: mListener.erase, with no lock held.
OnServSocketClose(c) ==
  /\ Selecting /\ sockOf[c] # 0
  /\ peer[c] = "closed" /\ (toServ[c] = <<>> \/ c \in reset)
  /\ mListener' = mListener \ {sockOf[c]}
  /\ servPc' = c
  /\ races' = IF it = sockOf[c] THEN races + 1 ELSE races
  /\ UNCHANGED <<viewerVars, sockOf, mDataCache, lock, lines, it, agent, sent, since,
                 inherited>>

CloseSocket ==
  /\ agent = "up" /\ servPc # 0
  /\ sockOf' = [sockOf EXCEPT ![servPc] = 0]
  /\ servPc' = 0
  /\ UNCHANGED <<viewerVars, monitorVars, lines, it, agent, historyVars>>

ServThread ==
  \/ Accept \/ CloseSocket
  \/ \E c \in Conn : OnServRecvData(c) \/ OnServSocketClose(c)

-----------------------------------------------------------------------------
(* The inotify thread: one line of DispatchLog.                            *)

First(S) == IF S = {} THEN {0} ELSE {s \in S : \A t \in S : s <= t}
Above(s) == {t \in mListener : t > s}

DispatchLine ==
  /\ agent = "up" /\ lock = "free" /\ lines < MaxLines
  /\ lines' = lines + 1
  /\ it' \in First(mListener)
  /\ lock' = IF mListener = {} THEN "free" ELSE "notify"
  /\ UNCHANGED <<viewerVars, sockOf, servPc, mListener, mDataCache, agent,
                 historyVars>>

\* ++it.  When the select thread has erased the element, the iterator points to
\* freed memory and follows what it finds there: it may come to a later or to an
\* earlier element, or to the end, or bring the agent down.
Advance ==
  IF it \in mListener
  THEN it' \in First(Above(it)) /\ UNCHANGED agent
  ELSE \/ it' \in mListener \cup {0} /\ UNCHANGED agent
       \/ it' = 0 /\ agent' = "dead"

\* Mutant: the lock is not released behind the last listener.
LockKept == lock' = "notify"

LoopEnds == lock' = IF it' = 0 THEN "free" ELSE "notify"

\* Mutant: a send that fills the buffers is taken for one that failed, and repeated.
SendRepeated(c) ==
  /\ agent = "up" /\ lock = "notify" /\ sockOf[c] = it
  /\ peer[c] = "open" /\ Len(toView[c]) < Room
  /\ toView' = [toView EXCEPT ![c] = Append(@, lines)]
  /\ sent' = [sent EXCEPT ![c] = Append(@, lines)]
  /\ UNCHANGED <<peer, outbox, toServ, reset, backlog, sockOf, servPc, monitorVars,
                 lines, it, agent, since, inherited, races>>

\* send to a viewer that has room: it blocks, lock in hand, while there is none.
SendLog(c) ==
  /\ agent = "up" /\ lock = "notify" /\ sockOf[c] = it
  /\ peer[c] = "open" /\ Len(toView[c]) < Room
  /\ toView' = [toView EXCEPT ![c] = Append(@, lines)]
  /\ sent' = [sent EXCEPT ![c] = Append(@, lines)]
  /\ Advance /\ LoopEnds
  /\ UNCHANGED <<peer, outbox, toServ, reset, backlog, sockOf, servPc, mListener,
                 mDataCache, lines, since, inherited, races>>

\* The first send after the viewer has left goes nowhere and is answered by RST.
SendToClosed(c) ==
  /\ agent = "up" /\ lock = "notify" /\ sockOf[c] = it
  /\ peer[c] = "closed" /\ c \notin reset
  /\ reset' = reset \cup {c}
  /\ Advance /\ LoopEnds
  /\ UNCHANGED <<peer, outbox, toServ, toView, backlog, sockOf, servPc, mListener,
                 mDataCache, lines, historyVars>>

\* The next one raises SIGPIPE, which the agent neither handles nor ignores.
SendToReset(c) ==
  /\ agent = "up" /\ lock = "notify" /\ sockOf[c] = it /\ c \in reset
  /\ agent' = "dead"
  /\ UNCHANGED <<viewerVars, sockOf, servPc, monitorVars, lines, it, historyVars>>

\* The number is no longer a socket: EBADF.
SendToNone ==
  /\ agent = "up" /\ lock = "notify" /\ Owner(it) = {}
  /\ Advance /\ LoopEnds
  /\ UNCHANGED <<viewerVars, sockOf, servPc, mListener, mDataCache, lines, historyVars>>

NotifyThread ==
  \/ \E c \in Conn : SendLog(c) \/ SendToClosed(c) \/ SendToReset(c)
  \/ SendToNone

-----------------------------------------------------------------------------
Init ==
  /\ peer = [c \in Conn |-> "idle"]
  /\ outbox = [c \in Conn |-> <<>>] /\ toServ = [c \in Conn |-> <<>>]
  /\ toView = [c \in Conn |-> <<>>]
  /\ reset = {} /\ backlog = <<>>
  /\ sockOf = [c \in Conn |-> 0] /\ servPc = 0
  /\ mListener = {} /\ mDataCache = [s \in Sock |-> <<>>] /\ lock = "free"
  /\ lines = 0 /\ it = 0 /\ agent = "up"
  /\ sent = [c \in Conn |-> <<>>] /\ since = [c \in Conn |-> Never]
  /\ inherited = {} /\ races = 0

Next ==
  \/ \E c \in Conn : Connect(c) \/ Disconnect(c)
  \/ Traffic \/ ServThread
  \/ DispatchLine \/ NotifyThread

Spec == Init /\ [][Next]_vars

\* Both threads run, TCP delivers, and a viewer that is connected reads; whether
\* a viewer connects or leaves, and whether a log grows, is up to others.
FairSpec ==
  Spec /\ WF_vars(Traffic) /\ WF_vars(ServThread) /\ WF_vars(NotifyThread)

-----------------------------------------------------------------------------
(* Properties.                                                             *)

(***************************************************************************)
(* ListenersAreRegistered: a number in mListener belongs to an open        *)
(* connection whose own register frame was decoded.  The select thread     *)
(* erases the listener before it closes the socket, so a number that is    *)
(* reused never brings the new viewer the old one's lines.                 *)
(***************************************************************************)
ListenersAreRegistered ==
  \A s \in mListener : \E c \in Owner(s) : since[c] # Never

(***************************************************************************)
(* GaplessStream: a viewer is sent the lines dispatched since it           *)
(* registered, each once, in order and none left out, however accepts,     *)
(* registrations and closes of others fall between the sends of a line.    *)
(* While no listener was erased under the iterator of DispatchLog.         *)
(***************************************************************************)
UpToDate(c) ==
  lines - (IF lock = "notify" /\ it <= sockOf[c] THEN 1 ELSE 0)

GaplessStream ==
  races = 0 =>
    \A c \in Conn :
      /\ \A k \in DOMAIN sent[c] : sent[c][k] = since[c] + k
      /\ sockOf[c] \in mListener /\ peer[c] = "open" /\ agent = "up" =>
           since[c] + Len(sent[c]) = UpToDate(c)

(***************************************************************************)
(* ListenersServed: both of these: mListener has registered viewers only   *)
(* (LogMonitor.cpp:144, 237), and each of them misses nothing.             *)
(***************************************************************************)
ListenersServed == ListenersAreRegistered /\ GaplessStream

(***************************************************************************)
(* ServDelivers: what a viewer is sent is a Delivery, always: a listener   *)
(* that is erased under the iterator makes others miss a line, or sends    *)
(* the loop back to those that had it, but each such race costs a viewer   *)
(* one line sent twice at most, and none comes behind a later one.         *)
(***************************************************************************)
Streams == INSTANCE Delivery
  WITH Viewer <- Conn, dispatched <- lines, shown <- sent, faults <- races

ServDelivers == Streams!Spec

(***************************************************************************)
(* SpinsOnStaleBytes: GetRecvResult loops for ever, the lock held, only    *)
(* when a connection was given a number whose mDataCache still held the    *)
(* beginning of another viewer's frame.                                    *)
(***************************************************************************)
SpinsOnStaleBytes == lock = "serv" => inherited # {}

(***************************************************************************)
(* RegisterHeard: a viewer whose register frame has left becomes a         *)
(* listener, however TCP cuts the frame and however long other viewers     *)
(* hold DispatchLog, unless it leaves, or inherits bytes, or the agent is  *)
(* dead or caught in GetRecvResult.                                        *)
(***************************************************************************)
RegisterHeard ==
  \A c \in Conn :
    (peer[c] = "open") ~>
      \/ since[c] # Never \/ peer[c] = "closed" \/ c \in inherited
      \/ agent = "dead" \/ lock = "serv"

(***************************************************************************)
(* DispatchEnds: the inotify thread does not hold the lock for ever, since *)
(* every viewer reads or leaves; viewers wait for it and it waits for      *)
(* them, the select thread for both.                                       *)
(***************************************************************************)
DispatchEnds == (lock = "notify") ~> (lock # "notify" \/ agent = "dead")

(***************************************************************************)
(* BothThreadsGoOn: both of these: the select thread gets to what a viewer *)
(* sent, and the inotify thread gives the lock back (LogMonitor.cpp:144,   *)
(* 202).                                                                   *)
(***************************************************************************)
BothThreadsGoOn == RegisterHeard /\ DispatchEnds

=============================================================================
