----------------------------- MODULE DbgCapture -----------------------------
(***************************************************************************)
(* LogView's capture of OutputDebugString (LogView/DbgMsg.cpp).            *)
(*                                                                         *)
(* Each channel (the global one and the one of the session) is a shared    *)
(* page with two auto-reset events, as Windows defines it: a debugged      *)
(* program waits for the ack event, fills the page and sets the ready      *)
(* event.  DbgThread serves all channels and copies each message to a      *)
(* buffer; CacheThread empties that buffer and passes the messages on.     *)
(*                                                                         *)
(* A message stands for its text; character k of message m is <<m, k>>.    *)
(***************************************************************************)
EXTENDS Selecting

CONSTANTS
  NChannels,   \* channels, in the order of mDbgCache (2 in the source)
  Msg,         \* the messages the debugged programs print
  Session,     \* the channel each message is printed on
  Owner,       \* the process that prints it
  TextLen,     \* its length
  None,        \* the empty page before the first message
  BuffSize,    \* mBuffSize (1 MB in the source)
  OwnPid       \* LogView's own process id

Channel == 1 .. NChannels
Pid == {Owner[m] : m \in Msg} \cup {0}

ASSUME DbgConstants ==
  /\ NChannels \in Nat \ {0} /\ BuffSize \in Nat \ {0}
  /\ Session \in [Msg -> Channel]
  /\ TextLen \in [Msg \cup {None} -> Nat]
  /\ None \notin Msg /\ TextLen[None] = 0

VARIABLES
  \* the operating system and the debugged programs, one writer a channel
  ack, ready, pagePid, pageText, wpc, wmsg, todo,
  \* DbgThread: what it does, the channels it is to read, where it polls
  dpc, set1, pollAt, pidArg,
  \* the second-level cache, under mBuffLocker
  mBuffer, mCurPos, mBuffDesc, mBuffNotify,
  \* CacheThread, and the messages that reach PushDbgContent
  cpc, result, shown,
  \* what the properties remember
  sent, got, stored, doubleAck

osVars == <<ack, ready, pagePid, pageText, wpc, wmsg, todo>>
dbgVars == <<dpc, set1, pollAt, pidArg>>
cacheVars == <<mBuffer, mCurPos, mBuffDesc, mBuffNotify>>
showVars == <<cpc, result, shown>>
historyVars == <<sent, got, stored, doubleAck>>
vars == <<osVars, dbgVars, cacheVars, showVars, historyVars>>

Text == Msg \cup {None}
Char == Text \X Nat
Cell == 0 .. BuffSize - 1
Desc == [mPid : Pid, mStartPos : Nat, mLength : Nat]
Node == [mPid : Pid, mContent : Seq(Char)]
Message == [mPid : Pid, text : Text]
Writing == {"pid", "text", "signal"}

OsTypes ==
  /\ ack \in [Channel -> BOOLEAN] /\ ready \in [Channel -> BOOLEAN]
  /\ pagePid \in [Channel -> Pid] /\ pageText \in [Channel -> Text]
  /\ wpc \in [Channel -> {"free", "wait", "pid", "text", "signal"}]
  /\ wmsg \in [Channel -> Text] /\ todo \subseteq Msg
  /\ \A c \in Channel : wpc[c] # "free" => wmsg[c] \in Msg

DbgTypes ==
  /\ dpc \in {"ack", "wait", "poll", "pid", "text"}
  /\ set1 \in Seq(Channel) /\ pollAt \in Nat \ {0} /\ pidArg \in Pid
  /\ dpc \in {"poll", "pid", "text"} => set1 # <<>>

CacheTypes ==
  /\ mBuffer \in [Cell -> Char] /\ mCurPos \in Nat
  /\ mBuffDesc \in Seq(Desc) /\ mBuffNotify \in BOOLEAN

ShowTypes ==
  /\ cpc \in {"wait", "take", "emit"}
  /\ result \in Seq(Node) /\ shown \in Seq(Node)
  /\ cpc = "emit" => result # <<>>

HistoryTypes ==
  /\ sent \in [Channel -> Seq(Message)] /\ got \in [Channel -> Seq(Message)]
  /\ stored \in Seq(Message) /\ doubleAck \in [Channel -> BOOLEAN]

TypeOK == OsTypes /\ DbgTypes /\ CacheTypes /\ ShowTypes /\ HistoryTypes

-----------------------------------------------------------------------------
(* OutputDebugString in the debugged programs (external).                  *)

Enter(c, m) ==
  /\ wpc[c] = "free" /\ m \in todo /\ Session[m] = c
  /\ todo' = todo \ {m}
  /\ wpc' = [wpc EXCEPT ![c] = "wait"]
  /\ wmsg' = [wmsg EXCEPT ![c] = m]
  /\ UNCHANGED <<ack, ready, pagePid, pageText, dbgVars, cacheVars, showVars,
                 historyVars>>

\* After ten seconds without an ack the message is not printed at all.
GiveUp(c) ==
  /\ wpc[c] = "wait"
  /\ wpc' = [wpc EXCEPT ![c] = "free"]
  /\ UNCHANGED <<ack, ready, pagePid, pageText, wmsg, todo, dbgVars, cacheVars,
                 showVars, historyVars>>

TakeAck(c) ==
  /\ wpc[c] = "wait" /\ ack[c]
  /\ ack' = [ack EXCEPT ![c] = FALSE]
  /\ wpc' = [wpc EXCEPT ![c] = "pid"]
  /\ UNCHANGED <<ready, pagePid, pageText, wmsg, todo, dbgVars, cacheVars,
                 showVars, historyVars>>

WritePid(c) ==
  /\ wpc[c] = "pid"
  /\ pagePid' = [pagePid EXCEPT ![c] = Owner[wmsg[c]]]
  /\ wpc' = [wpc EXCEPT ![c] = "text"]
  /\ UNCHANGED <<ack, ready, pageText, wmsg, todo, dbgVars, cacheVars, showVars,
                 historyVars>>

WriteText(c) ==
  /\ wpc[c] = "text"
  /\ pageText' = [pageText EXCEPT ![c] = wmsg[c]]
  /\ wpc' = [wpc EXCEPT ![c] = "signal"]
  /\ UNCHANGED <<ack, ready, pagePid, wmsg, todo, dbgVars, cacheVars, showVars,
                 historyVars>>

Signal(c) ==
  /\ wpc[c] = "signal"
  /\ ready' = [ready EXCEPT ![c] = TRUE]
  /\ wpc' = [wpc EXCEPT ![c] = "free"]
  /\ sent' = [sent EXCEPT ![c] =
                Append(@, [mPid |-> Owner[wmsg[c]], text |-> wmsg[c]])]
  /\ UNCHANGED <<ack, pagePid, pageText, wmsg, todo, dbgVars, cacheVars,
                 showVars, got, stored, doubleAck>>

WriterStep(c) ==
  TakeAck(c) \/ WritePid(c) \/ WriteText(c) \/ Signal(c)

-----------------------------------------------------------------------------
(* DbgThread.                                                              *)

\* Every round acknowledges every channel, also one that was not read.
SetAckEvents ==
  /\ dpc = "ack"
  /\ ack' = [c \in Channel |-> TRUE]
  /\ doubleAck' =
       [c \in Channel |-> doubleAck[c] \/ ready[c] \/ wpc[c] \in Writing]
  /\ dpc' = "wait"
  /\ UNCHANGED <<ready, pagePid, pageText, wpc, wmsg, todo, set1, pollAt,
                 pidArg, cacheVars, showVars, sent, got, stored>>

\* Mutant: the ready events are created manual-reset.
WaitReadyKeepsEvent(c) ==
  /\ dpc = "wait" /\ ready[c]
  /\ \A b \in 1 .. c - 1 : ~ready[b]
  /\ set1' = <<c>> /\ pollAt' = c + 1
  /\ dpc' = "poll"
  /\ UNCHANGED <<osVars, pidArg, cacheVars, showVars, historyVars>>

\* WaitForMultipleObjects consumes the first event that is set.
WaitReady(c) ==
  /\ dpc = "wait" /\ ready[c]
  /\ \A b \in 1 .. c - 1 : ~ready[b]
  /\ ready' = [ready EXCEPT ![c] = FALSE]
  /\ set1' = <<c>> /\ pollAt' = c + 1
  /\ dpc' = "poll"
  /\ UNCHANGED <<ack, pagePid, pageText, wpc, wmsg, todo, pidArg, cacheVars,
                 showVars, historyVars>>

Poll ==
  /\ dpc = "poll" /\ pollAt <= NChannels
  /\ set1' = IF ready[pollAt] THEN Append(set1, pollAt) ELSE set1
  /\ ready' = [ready EXCEPT ![pollAt] = FALSE]
  /\ pollAt' = pollAt + 1
  /\ UNCHANGED <<ack, pagePid, pageText, wpc, wmsg, todo, dpc, pidArg,
                 cacheVars, showVars, historyVars>>

PollDone ==
  /\ dpc = "poll" /\ pollAt > NChannels
  /\ dpc' = "pid"
  /\ UNCHANGED <<osVars, set1, pollAt, pidArg, cacheVars, showVars, historyVars>>

\* The argument ptr->mPid is read before PushStrToCache takes its lock.
ReadPid ==
  /\ dpc = "pid"
  /\ pidArg' = pagePid[Head(set1)]
  /\ dpc' = "text"
  /\ UNCHANGED <<osVars, set1, pollAt, cacheVars, showVars, historyVars>>

(***************************************************************************)
(* PushStrToCache copies the text behind mCurPos, and takes it back when   *)
(* mCurPos reaches mBuffSize.  An empty text is not stored.                *)
(***************************************************************************)
Copied(text) ==
  [p \in Cell |-> IF mCurPos <= p /\ p < mCurPos + TextLen[text]
                  THEN <<text, p - mCurPos + 1>> ELSE mBuffer[p]]

Fits(text) == TextLen[text] > 0 /\ mCurPos + TextLen[text] < BuffSize

PushStrToCache ==
  /\ dpc = "text"
  /\ LET c == Head(set1)
         text == pageText[c]
         message == [mPid |-> pidArg, text |-> text]
     IN  /\ mBuffer' = Copied(text)
         /\ got' = [got EXCEPT ![c] = Append(@, message)]
         /\ IF Fits(text)
            THEN /\ mBuffDesc' = Append(mBuffDesc,
                       [mPid |-> pidArg, mStartPos |-> mCurPos,
                        mLength |-> TextLen[text]])
                 /\ mCurPos' = mCurPos + TextLen[text]
                 /\ mBuffNotify' = TRUE
                 /\ stored' = Append(stored, message)
            ELSE UNCHANGED <<mBuffDesc, mCurPos, mBuffNotify, stored>>
  /\ set1' = Tail(set1)
  /\ dpc' = IF Tail(set1) = <<>> THEN "ack" ELSE "pid"
  /\ UNCHANGED <<osVars, pollAt, pidArg, showVars, sent, doubleAck>>

-----------------------------------------------------------------------------
(* CacheThread.                                                            *)

WaitNotify ==
  /\ cpc = "wait" /\ mBuffNotify
  /\ mBuffNotify' = FALSE
  /\ cpc' = "take"
  /\ UNCHANGED <<osVars, dbgVars, mBuffer, mCurPos, mBuffDesc, result, shown,
                 historyVars>>

NodeAt(desc) ==
  [mPid |-> desc.mPid,
   mContent |-> [k \in 1 .. desc.mLength |-> mBuffer[desc.mStartPos + k - 1]]]

CacheNodes == [i \in 1 .. Len(mBuffDesc) |-> NodeAt(mBuffDesc[i])]

\* Mutant: the caller does not ask whether there was anything to take.
TakeAlwaysEmits ==
  /\ cpc = "take"
  /\ result' = CacheNodes
  /\ mCurPos' = 0 /\ mBuffDesc' = <<>>
  /\ cpc' = "emit"
  /\ UNCHANGED <<osVars, dbgVars, mBuffer, mBuffNotify, shown, historyVars>>

\* Mutant: mBuffDesc.clear() is forgotten.
TakeKeepsDescriptors ==
  /\ cpc = "take"
  /\ result' = CacheNodes
  /\ mCurPos' = 0
  /\ cpc' = IF mBuffDesc = <<>> THEN "wait" ELSE "emit"
  /\ UNCHANGED <<osVars, dbgVars, mBuffer, mBuffDesc, mBuffNotify, shown,
                 historyVars>>

GetStrSetFromCache ==
  /\ cpc = "take"
  /\ result' = CacheNodes
  /\ mCurPos' = 0 /\ mBuffDesc' = <<>>
  /\ cpc' = IF mBuffDesc = <<>> THEN "wait" ELSE "emit"
  /\ UNCHANGED <<osVars, dbgVars, mBuffer, mBuffNotify, shown, historyVars>>

\* Mutant: the event is manual-reset and reset when the list is shown.
ShowThenReset ==
  /\ cpc = "emit"
  /\ shown' = IF Head(result).mPid = OwnPid THEN shown
              ELSE Append(shown, Head(result))
  /\ result' = Tail(result)
  /\ cpc' = IF Tail(result) = <<>> THEN "wait" ELSE "emit"
  /\ mBuffNotify' = FALSE
  /\ UNCHANGED <<osVars, dbgVars, mBuffer, mCurPos, mBuffDesc, historyVars>>

\* LogView does not show what it prints itself.
OnDbgMsg ==
  /\ cpc = "emit"
  /\ shown' = IF Head(result).mPid = OwnPid THEN shown
              ELSE Append(shown, Head(result))
  /\ result' = Tail(result)
  /\ cpc' = IF Tail(result) = <<>> THEN "wait" ELSE "emit"
  /\ UNCHANGED <<osVars, dbgVars, cacheVars, historyVars>>

-----------------------------------------------------------------------------
\* The state InitCapturer leaves when it has started both threads.
Init ==
  /\ ack = [c \in Channel |-> FALSE] /\ ready = [c \in Channel |-> FALSE]
  /\ pagePid = [c \in Channel |-> 0] /\ pageText = [c \in Channel |-> None]
  /\ wpc = [c \in Channel |-> "free"] /\ wmsg = [c \in Channel |-> None]
  /\ todo = Msg
  /\ dpc = "ack" /\ set1 = <<>> /\ pollAt = 1 /\ pidArg = 0
  /\ mBuffer = [p \in Cell |-> <<None, 0>>]
  /\ mCurPos = 0 /\ mBuffDesc = <<>> /\ mBuffNotify = FALSE
  /\ cpc = "wait" /\ result = <<>> /\ shown = <<>>
  /\ sent = [c \in Channel |-> <<>>] /\ got = [c \in Channel |-> <<>>]
  /\ stored = <<>> /\ doubleAck = [c \in Channel |-> FALSE]

DbgThread ==
  \/ SetAckEvents \/ (\E c \in Channel : WaitReady(c)) \/ Poll \/ PollDone
  \/ ReadPid \/ PushStrToCache

CacheThread == WaitNotify \/ GetStrSetFromCache \/ OnDbgMsg

Next ==
  \/ \E c \in Channel : \E m \in Msg : Enter(c, m)
  \/ \E c \in Channel : GiveUp(c) \/ WriterStep(c)
  \/ DbgThread
  \/ CacheThread

Spec == Init /\ [][Next]_vars

\* Windows schedules both threads and the programs that have begun to print.
FairSpec ==
  /\ Spec
  /\ WF_vars(DbgThread) /\ WF_vars(CacheThread)
  /\ \A c \in Channel : WF_vars(WriterStep(c))

-----------------------------------------------------------------------------
(* Properties.                                                             *)

(***************************************************************************)
(* CacheTiled: the descriptors cut the part of mBuffer before mCurPos into *)
(* adjacent pieces, with nothing between them, and mCurPos stays below     *)
(* mBuffSize, so that the copy loop of PushStrToCache never writes past    *)
(* the buffer, whatever the rollback and the emptying thread do.           *)
(***************************************************************************)
EndOf(i) == mBuffDesc[i].mStartPos + mBuffDesc[i].mLength

CacheTiled ==
  /\ mCurPos < BuffSize
  /\ mBuffDesc = <<>> => mCurPos = 0
  /\ mBuffDesc # <<>> => mBuffDesc[1].mStartPos = 0
  /\ \A i \in 1 .. Len(mBuffDesc) :
       EndOf(i) = IF i = Len(mBuffDesc) THEN mCurPos
                  ELSE mBuffDesc[i + 1].mStartPos

(***************************************************************************)
(* CacheLossless: what PushStrToCache stored and what left LogView's own   *)
(* process is shown, or about to be, or in the buffer: each message whole, *)
(* once and in order, though both threads use the same bytes again.        *)
(***************************************************************************)
NodeOf(message) ==
  [mPid |-> message.mPid,
   mContent |-> [k \in 1 .. TextLen[message.text] |-> <<message.text, k>>]]

Foreign(nodes) == Select(nodes, {n \in Node : n.mPid # OwnPid})

CacheLossless ==
  Foreign([i \in 1 .. Len(stored) |-> NodeOf(stored[i])])
    = shown \o Foreign(result) \o Foreign(CacheNodes)

(***************************************************************************)
(* CacheIsSound: both of these: the descriptors fit the bytes they describe, *)
(* and the bytes are those of the messages, at DbgMsg.cpp:174-178 and      *)
(* 208-228 in particular, where a full buffer is emptied and used again.   *)
(***************************************************************************)
CacheIsSound == CacheTiled /\ CacheLossless

(***************************************************************************)
(* NotifyNotLost: when the cache holds a message, CacheThread is on its    *)
(* way to it or will find mBuffNotify set: the auto-reset event, set once  *)
(* for many messages, wakes the thread for the last of them as well.       *)
(***************************************************************************)
NotifyNotLost == mBuffDesc # <<>> => mBuffNotify \/ cpc = "take"

(***************************************************************************)
(* NotBothWaiting: DbgThread does not sleep in WaitForMultipleObjects      *)
(* while a channel has neither an ack to take, nor a writer at work, nor   *)
(* a message: then DbgThread and all programs that print would wait for    *)
(* each other until the programs give up.                                  *)
(***************************************************************************)
NotBothWaiting ==
  dpc = "wait" => \A c \in Channel : ack[c] \/ wpc[c] \in Writing \/ ready[c]

(***************************************************************************)
(* NobodyWaitsInVain: both of these: neither thread of CDbgCapturer sleeps *)
(* on work that is there or on programs that sleep themselves              *)
(* (DbgMsg.cpp:228, 236, 278).                                             *)
(***************************************************************************)
NobodyWaitsInVain == NotifyNotLost /\ NotBothWaiting

(***************************************************************************)
(* ExactWhenAckedOnce: on a channel that was never acknowledged while a    *)
(* message was being written or waited to be read, DbgThread reads every   *)
(* message once, in order and with the pid of its own process.             *)
(***************************************************************************)
ToRead(c) == ready[c] \/ (\E i \in 1 .. Len(set1) : set1[i] = c)

ExactWhenAckedOnce ==
  \A c \in Channel : ~doubleAck[c] =>
    sent[c] = got[c] \o
      IF ToRead(c) THEN <<[mPid |-> pagePid[c], text |-> pageText[c]]>>
      ELSE <<>>

(***************************************************************************)
(* Drains: the cache and the list of the emptying thread become empty      *)
(* again and again: nothing that is captured stays unshown.                *)
(***************************************************************************)
Drains == []<>(mBuffDesc = <<>> /\ result = <<>>)

(***************************************************************************)
(* NoneOverwritten: a message that is in the page and was signalled is     *)
(* read before another one replaces it: README.md:8 promises that all log  *)
(* data is kept in memory.  The code breaks it: a channel that had no      *)
(* message in this round gets a second ack while its writer is at work, so *)
(* the next program replaces the message before DbgThread reads it.        *)
(***************************************************************************)
NoneOverwritten ==
  [][\A c \in Channel : pageText'[c] # pageText[c] => ~ToRead(c)]_vars

=============================================================================
