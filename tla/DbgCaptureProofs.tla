-------------------------- MODULE DbgCaptureProofs --------------------------
(***************************************************************************)
(* Proofs about DbgCapture, for any number of channels, programs and       *)
(* messages and for any size of the buffer.                                *)
(***************************************************************************)
EXTENDS DbgCapture, SequenceFacts, TLAPS

(***************************************************************************)
(* The inductive invariant.  CacheTiled chains the descriptors one to the  *)
(* next; CacheInside is what that chain comes to: every piece ends before  *)
(* mCurPos.  TypeOK needs both: the pieces GetStrSetFromCache cuts out are *)
(* strings of characters only because they lie inside mBuffer.             *)
(***************************************************************************)
CacheInside == \A i \in 1 .. Len(mBuffDesc) : EndOf(i) <= mCurPos

IInv == TypeOK /\ CacheTiled /\ CacheInside

USE DbgConstants DEF DbgConstants

LEMMA FunctionIsSeq ==
  ASSUME NEW S, NEW n \in Nat, NEW f \in [1 .. n -> S]
  PROVE  f \in Seq(S)
<1>1. f \in UNION {[1 .. m -> S] : m \in Nat}
  BY Zenon
<1> QED
  BY <1>1, SeqDef, Zenon

LEMMA PidAndText ==
  /\ \A m \in Msg : Owner[m] \in Pid
  /\ 0 \in Pid /\ None \in Text /\ Msg \subseteq Text
  /\ \A t \in Text : TextLen[t] \in Nat
BY DEF Pid, Text

\* The nodes cut out of the cache are strings, one for each descriptor.
LEMMA NodesTyped ==
  ASSUME TypeOK, CacheTiled, CacheInside
  PROVE  /\ CacheNodes \in Seq(Node)
         /\ mBuffDesc # <<>> => CacheNodes # <<>>
<1>1. mBuffDesc \in Seq(Desc) /\ mBuffer \in [Cell -> Char] /\ mCurPos \in Nat
  BY DEF TypeOK, CacheTypes
<1>2. ASSUME NEW i \in 1 .. Len(mBuffDesc)
      PROVE  NodeAt(mBuffDesc[i]) \in Node
  <2>1. mBuffDesc[i] \in Desc
    BY <1>1, <1>2, ElementOfSeq
  <2>2. mBuffDesc[i].mStartPos + mBuffDesc[i].mLength < BuffSize
    BY <1>1, <2>1 DEF CacheTiled, CacheInside, EndOf, Desc
  <2> DEFINE d == mBuffDesc[i]
             content == [k \in 1 .. d.mLength |-> mBuffer[d.mStartPos + k - 1]]
  <2>3. ASSUME NEW k \in 1 .. d.mLength
        PROVE  mBuffer[d.mStartPos + k - 1] \in Char
    <3>1. d.mStartPos + k - 1 \in Cell
      BY <2>1, <2>2 DEF Desc, Cell
    <3> QED
      BY <1>1, <3>1
  <2>4. d.mLength \in Nat /\ d.mPid \in Pid
    BY <2>1 DEF Desc
  <2>5. content \in [1 .. d.mLength -> Char]
    BY <2>3
  <2>6. content \in Seq(Char)
    BY <2>4, <2>5, FunctionIsSeq
  <2> QED
    BY <2>4, <2>6 DEF NodeAt, Node
<1>3. Len(mBuffDesc) \in Nat
  BY <1>1, LenProperties
<1>4. CacheNodes \in [1 .. Len(mBuffDesc) -> Node]
  BY <1>2 DEF CacheNodes
<1>5. CacheNodes \in Seq(Node)
  BY <1>3, <1>4, FunctionIsSeq
<1>6. ASSUME mBuffDesc # <<>> PROVE CacheNodes # <<>>
  <2>1. Len(mBuffDesc) > 0
    BY <1>1, <1>6, EmptySeq
  <2>2. DOMAIN CacheNodes = 1 .. Len(mBuffDesc)
    BY <1>4
  <2>3. 1 \in DOMAIN CacheNodes
    BY <1>3, <2>1, <2>2
  <2> QED
    BY <2>3
<1> QED
  BY <1>5, <1>6

LEMMA InitInv == Init => IInv
<1> SUFFICES ASSUME Init PROVE IInv
  OBVIOUS
<1>1. \A S : <<>> \in Seq(S)
  BY EmptySeq
<1>2. OsTypes
  BY PidAndText DEF Init, OsTypes
<1>3. DbgTypes
  BY <1>1, PidAndText DEF Init, DbgTypes
<1>4. <<None, 0>> \in Char
  BY PidAndText DEF Char
<1>5. CacheTypes
  BY <1>1, <1>4 DEF Init, CacheTypes
<1>6. ShowTypes /\ HistoryTypes
  BY <1>1 DEF Init, ShowTypes, HistoryTypes
<1>7. CacheTiled /\ CacheInside
  BY DEF Init, CacheTiled, CacheInside, EndOf
<1> QED
  BY <1>2, <1>3, <1>5, <1>6, <1>7 DEF IInv, TypeOK

-----------------------------------------------------------------------------
(* Types: one step per action.                                             *)

LEMMA TypesKept == IInv /\ [Next]_vars => TypeOK'
<1> SUFFICES ASSUME IInv, [Next]_vars PROVE TypeOK'
  OBVIOUS
<1>0. TypeOK
  BY DEF IInv
<1> USE <1>0 DEF TypeOK
<1>1. ASSUME NEW c \in Channel, NEW m \in Msg, Enter(c, m) PROVE TypeOK'
  <2>1. OsTypes'
    BY <1>1, PidAndText DEF Enter, OsTypes
  <2> QED
    BY <1>1, <2>1 DEF Enter, dbgVars, cacheVars, showVars, historyVars,
       DbgTypes, CacheTypes, ShowTypes, HistoryTypes
<1>2. ASSUME NEW c \in Channel, GiveUp(c) PROVE TypeOK'
  <2>1. OsTypes'
    BY <1>2 DEF GiveUp, OsTypes
  <2> QED
    BY <1>2, <2>1 DEF GiveUp, dbgVars, cacheVars, showVars, historyVars,
       DbgTypes, CacheTypes, ShowTypes, HistoryTypes
<1>3. ASSUME NEW c \in Channel, TakeAck(c) PROVE TypeOK'
  <2>1. OsTypes'
    BY <1>3 DEF TakeAck, OsTypes
  <2> QED
    BY <1>3, <2>1 DEF TakeAck, dbgVars, cacheVars, showVars, historyVars,
       DbgTypes, CacheTypes, ShowTypes, HistoryTypes
<1>4. ASSUME NEW c \in Channel, WritePid(c) PROVE TypeOK'
  <2>1. OsTypes'
    BY <1>4, PidAndText DEF WritePid, OsTypes
  <2> QED
    BY <1>4, <2>1 DEF WritePid, dbgVars, cacheVars, showVars, historyVars,
       DbgTypes, CacheTypes, ShowTypes, HistoryTypes
<1>5. ASSUME NEW c \in Channel, WriteText(c) PROVE TypeOK'
  <2>1. OsTypes'
    BY <1>5 DEF WriteText, OsTypes
  <2> QED
    BY <1>5, <2>1 DEF WriteText, dbgVars, cacheVars, showVars, historyVars,
       DbgTypes, CacheTypes, ShowTypes, HistoryTypes
<1>6. ASSUME NEW c \in Channel, Signal(c) PROVE TypeOK'
  <2>1. OsTypes'
    BY <1>6 DEF Signal, OsTypes
  <2> DEFINE msg == [mPid |-> Owner[wmsg[c]], text |-> wmsg[c]]
  <2>2. msg \in Message
    BY <1>6, PidAndText DEF Signal, OsTypes, Message
  <2>3. Append(sent[c], msg) \in Seq(Message)
    BY <2>2, AppendProperties DEF HistoryTypes
  <2>4. HistoryTypes'
    BY <1>6, <2>3 DEF Signal, HistoryTypes
  <2> QED
    BY <1>6, <2>1, <2>4 DEF Signal, dbgVars, cacheVars, showVars,
       DbgTypes, CacheTypes, ShowTypes
<1>7. ASSUME SetAckEvents PROVE TypeOK'
  <2>1. OsTypes' /\ HistoryTypes'
    BY <1>7 DEF SetAckEvents, OsTypes, HistoryTypes, Writing
  <2> QED
    BY <1>7, <2>1 DEF SetAckEvents, cacheVars, showVars, DbgTypes, CacheTypes,
       ShowTypes
<1>8. ASSUME NEW c \in Channel, WaitReady(c) PROVE TypeOK'
  <2>1. OsTypes'
    BY <1>8 DEF WaitReady, OsTypes
  <2>2. <<c>> \in Seq(Channel) /\ <<c>> # <<>> /\ c + 1 \in Nat \ {0}
    BY DEF Channel
  <2>3. DbgTypes'
    BY <1>8, <2>2 DEF WaitReady, DbgTypes
  <2> QED
    BY <1>8, <2>1, <2>3 DEF WaitReady, cacheVars, showVars, historyVars,
       CacheTypes, ShowTypes, HistoryTypes
<1>9. ASSUME Poll PROVE TypeOK'
  <2>1. pollAt \in Channel
    BY <1>9 DEF Poll, DbgTypes, Channel
  <2>2. OsTypes'
    BY <1>9, <2>1 DEF Poll, OsTypes
  <2>3. Append(set1, pollAt) \in Seq(Channel) /\ Append(set1, pollAt) # <<>>
    BY <2>1, AppendProperties DEF DbgTypes
  <2>4. DbgTypes'
    BY <1>9, <2>3 DEF Poll, DbgTypes
  <2> QED
    BY <1>9, <2>2, <2>4 DEF Poll, cacheVars, showVars, historyVars,
       CacheTypes, ShowTypes, HistoryTypes
<1>10. ASSUME PollDone PROVE TypeOK'
  BY <1>10 DEF PollDone, osVars, cacheVars, showVars, historyVars,
     OsTypes, DbgTypes, CacheTypes, ShowTypes, HistoryTypes
<1>11. ASSUME ReadPid PROVE TypeOK'
  <2>1. Head(set1) \in Channel
    BY <1>11, HeadTailProperties DEF ReadPid, DbgTypes
  <2>2. DbgTypes'
    BY <1>11, <2>1 DEF ReadPid, DbgTypes, OsTypes
  <2> QED
    BY <1>11, <2>2 DEF ReadPid, osVars, cacheVars, showVars, historyVars,
       OsTypes, CacheTypes, ShowTypes, HistoryTypes
<1>12. ASSUME PushStrToCache PROVE TypeOK'
  <2> DEFINE c == Head(set1)
             text == pageText[c]
             message == [mPid |-> pidArg, text |-> text]
             desc == [mPid |-> pidArg, mStartPos |-> mCurPos,
                      mLength |-> TextLen[text]]
  <2>1. c \in Channel /\ Tail(set1) \in Seq(Channel)
    BY <1>12, HeadTailProperties DEF PushStrToCache, DbgTypes
  <2>2. text \in Text /\ TextLen[text] \in Nat
    BY <2>1, PidAndText DEF OsTypes
  <2>3. message \in Message /\ desc \in Desc
    BY <2>2 DEF Message, Desc, DbgTypes, CacheTypes
  <2>4. Copied(text) \in [Cell -> Char]
    <3>1. ASSUME NEW p \in Cell, mCurPos <= p
          PROVE  <<text, p - mCurPos + 1>> \in Char
      BY <2>2, <3>1 DEF Cell, Char, CacheTypes
    <3> QED
      BY <3>1 DEF Copied, CacheTypes
  <2>5. CacheTypes'
    <3>1. Append(mBuffDesc, desc) \in Seq(Desc)
      BY <2>3, AppendProperties DEF CacheTypes
    <3>2. mBuffer' = Copied(text)
      BY <1>12 DEF PushStrToCache
    <3>3. CASE Fits(text)
      <4>1. /\ mBuffDesc' = Append(mBuffDesc, desc) /\ mBuffNotify' = TRUE
            /\ mCurPos' = mCurPos + TextLen[text]
        BY <1>12, <3>3 DEF PushStrToCache
      <4> QED
        BY <2>2, <2>4, <3>1, <3>2, <4>1 DEF CacheTypes
    <3>4. CASE ~Fits(text)
      <4>1. UNCHANGED <<mBuffDesc, mCurPos, mBuffNotify>>
        BY <1>12, <3>4 DEF PushStrToCache
      <4> QED
        BY <2>4, <3>2, <4>1 DEF CacheTypes
    <3> QED
      BY <3>3, <3>4
  <2>6. HistoryTypes'
    <3>1. /\ Append(got[c], message) \in Seq(Message)
          /\ Append(stored, message) \in Seq(Message)
      BY <2>1, <2>3, AppendProperties DEF HistoryTypes
    <3> QED
      BY <1>12, <2>1, <3>1 DEF PushStrToCache, HistoryTypes
  <2>7. DbgTypes'
    <3>1. /\ set1' = Tail(set1) /\ UNCHANGED <<pollAt, pidArg>>
          /\ dpc' = IF Tail(set1) = <<>> THEN "ack" ELSE "pid"
      BY <1>12 DEF PushStrToCache
    <3> HIDE DEF c
    <3> QED
      BY <2>1, <3>1 DEF DbgTypes
  <2> QED
    BY <1>12, <2>5, <2>6, <2>7 DEF PushStrToCache, osVars, showVars,
       OsTypes, ShowTypes
<1>13. ASSUME WaitNotify PROVE TypeOK'
  BY <1>13 DEF WaitNotify, osVars, dbgVars, historyVars,
     OsTypes, DbgTypes, CacheTypes, ShowTypes, HistoryTypes
<1>14. ASSUME GetStrSetFromCache PROVE TypeOK'
  <2>1. /\ CacheNodes \in Seq(Node)
        /\ mBuffDesc # <<>> => CacheNodes # <<>>
    BY NodesTyped DEF IInv
  <2>2. ShowTypes'
    BY <1>14, <2>1 DEF GetStrSetFromCache, ShowTypes
  <2>3. CacheTypes'
    BY <1>14, EmptySeq DEF GetStrSetFromCache, CacheTypes
  <2> QED
    BY <1>14, <2>2, <2>3 DEF GetStrSetFromCache, osVars, dbgVars, historyVars,
       OsTypes, DbgTypes, HistoryTypes
<1>15. ASSUME OnDbgMsg PROVE TypeOK'
  <2>1. Head(result) \in Node /\ Tail(result) \in Seq(Node)
    BY <1>15, HeadTailProperties DEF OnDbgMsg, ShowTypes
  <2>2. Append(shown, Head(result)) \in Seq(Node)
    BY <2>1, AppendProperties DEF ShowTypes
  <2>3. ShowTypes'
    BY <1>15, <2>1, <2>2 DEF OnDbgMsg, ShowTypes
  <2> QED
    BY <1>15, <2>3 DEF OnDbgMsg, osVars, dbgVars, cacheVars, historyVars,
       OsTypes, DbgTypes, CacheTypes, HistoryTypes
<1>16. ASSUME UNCHANGED vars PROVE TypeOK'
  BY <1>16 DEF vars, osVars, dbgVars, cacheVars, showVars, historyVars,
     OsTypes, DbgTypes, CacheTypes, ShowTypes, HistoryTypes
<1> QED
  BY <1>1, <1>2, <1>3, <1>4, <1>5, <1>6, <1>7, <1>8, <1>9, <1>10, <1>11,
     <1>12, <1>13, <1>14, <1>15, <1>16
  DEF Next, WriterStep, DbgThread, CacheThread

-----------------------------------------------------------------------------
(* The cache.                                                              *)

LEMMA CacheKept == IInv /\ [Next]_vars => (CacheTiled /\ CacheInside)'
<1> SUFFICES ASSUME IInv, [Next]_vars PROVE (CacheTiled /\ CacheInside)'
  OBVIOUS
<1>0. mBuffDesc \in Seq(Desc) /\ mCurPos \in Nat /\ CacheTiled /\ CacheInside
  BY DEF IInv, TypeOK, CacheTypes
<1>1. CASE UNCHANGED <<mCurPos, mBuffDesc>>
  BY <1>0, <1>1 DEF CacheTiled, CacheInside, EndOf
<1>2. CASE PushStrToCache /\ ~UNCHANGED <<mCurPos, mBuffDesc>>
  <2>0. PICK n \in Nat : n = Len(mBuffDesc)
    BY <1>0, LenProperties
  <2> DEFINE text == pageText[Head(set1)]
             desc == [mPid |-> pidArg, mStartPos |-> mCurPos,
                      mLength |-> TextLen[text]]
  <2>1. Head(set1) \in Channel
    BY <1>2, HeadTailProperties DEF IInv, TypeOK, DbgTypes, PushStrToCache
  <2>2. TextLen[text] \in Nat /\ pidArg \in Pid
    BY <2>1, PidAndText DEF IInv, TypeOK, OsTypes, DbgTypes
  <2>3. /\ Fits(text)
        /\ mBuffDesc' = Append(mBuffDesc, desc)
        /\ mCurPos' = mCurPos + TextLen[text]
    BY <1>2 DEF PushStrToCache
  <2>4. desc \in Desc
    BY <1>0, <2>2 DEF Desc
  <2>5. mBuffDesc # <<>> <=> n > 0
    BY <1>0, <2>0, EmptySeq
  <2>6. /\ Len(mBuffDesc') = n + 1
        /\ \A i \in 1 .. n : mBuffDesc'[i] = mBuffDesc[i]
        /\ mBuffDesc'[n + 1] = desc
    BY <1>0, <2>0, <2>3, <2>4, AppendProperties
  <2>7. mBuffDesc' # <<>>
    BY <2>5, <2>6, EmptySeq
  <2>8. \A i \in 1 .. n : mBuffDesc[i] \in Desc
    BY <1>0, <2>0, ElementOfSeq
  <2>9. /\ \A i \in 1 .. n : EndOf(i)' = EndOf(i)
        /\ EndOf(n + 1)' = mCurPos + TextLen[text]
    BY <2>6 DEF EndOf
  <2> HIDE DEF desc
  <2>10. mCurPos' < BuffSize
    BY <2>3 DEF Fits
  <2>11. mBuffDesc'[1].mStartPos = 0
    BY <1>0, <2>0, <2>5, <2>6 DEF CacheTiled, desc
  <2>12. ASSUME NEW i \in 1 .. n + 1
         PROVE  EndOf(i)' = IF i = n + 1 THEN mCurPos'
                            ELSE mBuffDesc'[i + 1].mStartPos
    <3>1. CASE i = n + 1
      BY <2>3, <2>9, <3>1
    <3>2. CASE i = n
      <4>1. EndOf(i) = mCurPos /\ i \in 1 .. n
        BY <1>0, <2>0, <3>2 DEF CacheTiled
      <4>2. mBuffDesc'[i + 1].mStartPos = mCurPos
        BY <2>6, <3>2 DEF desc
      <4> QED
        BY <2>9, <3>2, <4>1, <4>2
    <3>3. CASE i < n
      <4>1. i \in 1 .. n /\ i + 1 \in 1 .. n
        BY <3>3
      <4>2. EndOf(i) = mBuffDesc[i + 1].mStartPos
        BY <1>0, <2>0, <3>3, <4>1 DEF CacheTiled
      <4> QED
        BY <2>6, <2>9, <3>3, <4>1, <4>2
    <3> QED
      BY <3>1, <3>2, <3>3
  <2>13. CacheInside'
    <3>1. mCurPos <= mCurPos'
      BY <1>0, <2>2, <2>3
    <3>2. ASSUME NEW i \in 1 .. n PROVE EndOf(i) \in Nat /\ EndOf(i) <= mCurPos
      BY <1>0, <2>0, <2>8 DEF CacheInside, Desc, EndOf
    <3>3. ASSUME NEW i \in 1 .. n PROVE EndOf(i)' <= mCurPos'
      <4>1. EndOf(i)' = EndOf(i)
        BY <2>9
      <4> QED
        BY <1>0, <2>2, <2>3, <3>1, <3>2, <4>1
    <3>4. EndOf(n + 1)' <= mCurPos'
      BY <1>0, <2>2, <2>3, <2>9
    <3>5. \A i \in 1 .. n + 1 : i \in 1 .. n \/ i = n + 1
      OBVIOUS
    <3> QED
      BY <2>6, <3>3, <3>4, <3>5 DEF CacheInside
  <2> QED
    BY <2>6, <2>7, <2>10, <2>11, <2>12, <2>13 DEF CacheTiled
<1>3. CASE GetStrSetFromCache
  BY <1>3 DEF GetStrSetFromCache, CacheTiled, CacheInside
<1> QED
  BY <1>1, <1>2, <1>3
  DEF Next, WriterStep, DbgThread, CacheThread, Enter, GiveUp, TakeAck,
      WritePid, WriteText, Signal, SetAckEvents, WaitReady, Poll, PollDone,
      ReadPid, WaitNotify, OnDbgMsg, vars, cacheVars

(***************************************************************************)
(* InvariantHolds: every variable keeps its type, and the cache stays cut  *)
(* into adjacent pieces below mBuffSize, for any messages and any buffer.  *)
(***************************************************************************)
THEOREM InvariantHolds == Spec => []IInv
<1>1. IInv /\ [Next]_vars => IInv'
  BY TypesKept, CacheKept DEF IInv
<1> QED
  BY InitInv, <1>1, PTL DEF Spec

\* TypeOK: every variable of the capture stays in its type, so no copy out
\* of mBuffer ever reads outside of it.
THEOREM TypeCorrect == Spec => []TypeOK
<1>1. IInv => TypeOK
  BY DEF IInv
<1> QED
  BY InvariantHolds, <1>1, PTL

\* CacheTiled: PushStrToCache and GetStrSetFromCache keep the descriptors
\* adjacent and the copied text inside the buffer.
THEOREM CacheStaysTiled == Spec => []CacheTiled
<1>1. IInv => CacheTiled
  BY DEF IInv
<1> QED
  BY InvariantHolds, <1>1, PTL

-----------------------------------------------------------------------------
(* The handshakes.                                                         *)

\* NotifyNotLost: CacheThread never sleeps on a cache that holds a message.
THEOREM CacheThreadIsWoken == Spec => []NotifyNotLost
<1>1. Init => NotifyNotLost
  BY DEF Init, NotifyNotLost
<1>2. NotifyNotLost /\ [Next]_vars => NotifyNotLost'
  <2> SUFFICES ASSUME NotifyNotLost, [Next]_vars PROVE NotifyNotLost'
    OBVIOUS
  <2> USE DEF NotifyNotLost
  <2>1. CASE PushStrToCache
    BY <2>1 DEF PushStrToCache, showVars
  <2>2. CASE WaitNotify
    BY <2>2 DEF WaitNotify
  <2>3. CASE GetStrSetFromCache
    BY <2>3 DEF GetStrSetFromCache
  <2>4. CASE OnDbgMsg
    BY <2>4 DEF OnDbgMsg, cacheVars
  <2>5. CASE UNCHANGED <<mBuffDesc, mBuffNotify, cpc>>
    BY <2>5
  <2> QED
    BY <2>1, <2>2, <2>3, <2>4, <2>5
    DEF Next, WriterStep, DbgThread, CacheThread, Enter, GiveUp, TakeAck,
        WritePid, WriteText, Signal, SetAckEvents, WaitReady, Poll, PollDone,
        ReadPid, vars, cacheVars, showVars
<1> QED
  BY <1>1, <1>2, PTL DEF Spec

\* NotBothWaiting: DbgThread and the programs that print never wait for
\* each other with no ack, no message and no writer on a channel.
THEOREM NoMutualWait == Spec => []NotBothWaiting
<1>1. Init => NotBothWaiting
  BY DEF Init, NotBothWaiting
<1>2. IInv /\ NotBothWaiting /\ [Next]_vars => NotBothWaiting'
  <2> SUFFICES ASSUME IInv, NotBothWaiting, [Next]_vars
               PROVE  NotBothWaiting'
    OBVIOUS
  <2> USE DEF NotBothWaiting, Writing, IInv, TypeOK, OsTypes
  <2>1. ASSUME NEW c \in Channel, NEW m \in Msg, Enter(c, m)
        PROVE  NotBothWaiting'
    BY <2>1 DEF Enter, dbgVars
  <2>2. ASSUME NEW c \in Channel, GiveUp(c) PROVE NotBothWaiting'
    BY <2>2 DEF GiveUp, dbgVars
  <2>3. ASSUME NEW c \in Channel, TakeAck(c) PROVE NotBothWaiting'
    BY <2>3 DEF TakeAck, dbgVars
  <2>4. ASSUME NEW c \in Channel, WritePid(c) PROVE NotBothWaiting'
    BY <2>4 DEF WritePid, dbgVars
  <2>5. ASSUME NEW c \in Channel, WriteText(c) PROVE NotBothWaiting'
    BY <2>5 DEF WriteText, dbgVars
  <2>6. ASSUME NEW c \in Channel, Signal(c) PROVE NotBothWaiting'
    BY <2>6 DEF Signal, dbgVars
  <2>7. CASE SetAckEvents
    BY <2>7 DEF SetAckEvents
  <2>8. ASSUME NEW c \in Channel, WaitReady(c) PROVE NotBothWaiting'
    BY <2>8 DEF WaitReady
  <2>9. CASE Poll \/ PollDone \/ ReadPid
    BY <2>9 DEF Poll, PollDone, ReadPid
  <2>10. CASE PushStrToCache
    <3>1. dpc' # "wait"
      BY <2>10 DEF PushStrToCache
    <3> QED
      BY <3>1
  <2>11. CASE CacheThread
    BY <2>11 DEF CacheThread, WaitNotify, GetStrSetFromCache, OnDbgMsg, osVars,
       dbgVars
  <2>12. CASE UNCHANGED vars
    BY <2>12 DEF vars, osVars, dbgVars
  <2> QED
    BY <2>1, <2>2, <2>3, <2>4, <2>5, <2>6, <2>7, <2>8, <2>9, <2>10, <2>11,
       <2>12 DEF Next, WriterStep, DbgThread
<1> QED
  BY InvariantHolds, <1>1, <1>2, PTL DEF Spec

\* NobodyWaitsInVain: no thread of the capture sleeps on work that is there,
\* and none waits for a program that waits for it.
THEOREM NobodyWaits == Spec => []NobodyWaitsInVain
BY CacheThreadIsWoken, NoMutualWait, PTL DEF NobodyWaitsInVain

-----------------------------------------------------------------------------
(* What one acknowledgement a message is worth.                            *)

Queued(c) == \E i \in 1 .. Len(set1) : set1[i] = c

(***************************************************************************)
(* Taken: set1 has channels only between the wait and the next             *)
(* acknowledgement, each once, those behind pollAt not yet.                *)
(***************************************************************************)
Taken ==
  /\ dpc \in {"ack", "wait"} => set1 = <<>>
  /\ dpc = "poll" => \A i \in 1 .. Len(set1) : set1[i] < pollAt
  /\ \A i, j \in 1 .. Len(set1) : i # j => set1[i] # set1[j]

\* Written: a writer that is about to signal has filled the page.
Written ==
  \A c \in Channel :
    /\ wpc[c] \in {"text", "signal"} => pagePid[c] = Owner[wmsg[c]]
    /\ wpc[c] = "signal" => pageText[c] = wmsg[c]

(***************************************************************************)
(* OneAtATime: without a second acknowledgement the ack, the writer, the   *)
(* ready event and the entry in set1 are one token of a channel: only one  *)
(* of them is there, so nobody writes the page while DbgThread reads it.   *)
(***************************************************************************)
OneAtATime ==
  \A c \in Channel : ~doubleAck[c] =>
    /\ ack[c] => wpc[c] \notin Writing /\ ~ready[c] /\ ~Queued(c)
    /\ wpc[c] \in Writing => ~ready[c] /\ ~Queued(c)
    /\ ready[c] => ~Queued(c)
    /\ dpc = "text" /\ set1[1] = c => pidArg = pagePid[c]

TokenInv == Taken /\ Written /\ OneAtATime

LEMMA TakenKept == IInv /\ Taken /\ [Next]_vars => Taken'
<1> SUFFICES ASSUME IInv, Taken, [Next]_vars PROVE Taken'
  OBVIOUS
<1>0. set1 \in Seq(Channel) /\ pollAt \in Nat
  BY DEF IInv, TypeOK, DbgTypes
<1>1. ASSUME NEW c \in Channel, WaitReady(c) PROVE Taken'
  <2>1. set1' = <<c>> /\ pollAt' = c + 1 /\ dpc' = "poll"
    BY <1>1 DEF WaitReady
  <2>2. Len(set1') = 1 /\ set1'[1] = c
    BY <2>1
  <2>3. c < c + 1
    BY DEF Channel
  <2> QED
    BY <2>1, <2>2, <2>3 DEF Taken
<1>2. CASE Poll
  <2>0. PICK n \in Nat : n = Len(set1)
    BY <1>0, LenProperties
  <2>1. pollAt \in Channel /\ dpc = "poll" /\ dpc' = "poll" /\ pollAt' = pollAt + 1
    BY <1>0, <1>2 DEF Poll, Channel, IInv, TypeOK, DbgTypes
  <2>2. \A i \in 1 .. n : set1[i] \in Channel /\ set1[i] < pollAt
    BY <1>0, <2>0, <2>1, ElementOfSeq DEF Taken
  <2>3. CASE set1' = set1
    <3>1. \A i \in 1 .. n : set1[i] < pollAt + 1
      BY <1>0, <2>2 DEF Channel
    <3> QED
      BY <2>0, <2>1, <2>3, <3>1 DEF Taken
  <2>4. CASE set1' = Append(set1, pollAt)
    <3>1. /\ Len(set1') = n + 1 /\ set1'[n + 1] = pollAt
          /\ \A i \in 1 .. n : set1'[i] = set1[i]
      BY <1>0, <2>0, <2>1, <2>4, AppendProperties
    <3>2. \A i \in 1 .. n + 1 : i = n + 1 \/ i \in 1 .. n
      OBVIOUS
    <3>3. ASSUME NEW i \in 1 .. n
          PROVE  set1'[i] < pollAt + 1 /\ set1'[i] # pollAt
      <4>1. set1'[i] = set1[i] /\ set1[i] \in Nat /\ set1[i] < pollAt
        BY <2>2, <3>1 DEF Channel
      <4> QED
        BY <1>0, <4>1
    <3>4. \A i \in 1 .. n + 1 : set1'[i] < pollAt + 1
      <4>1. set1'[n + 1] < pollAt + 1
        BY <1>0, <3>1
      <4> QED
        BY <3>2, <3>3, <4>1
    <3>5. \A i, j \in 1 .. n : i # j => set1'[i] # set1'[j]
      BY <2>0, <3>1 DEF Taken
    <3>6. \A i, j \in 1 .. n + 1 : i # j => set1'[i] # set1'[j]
      BY <3>1, <3>2, <3>3, <3>5
    <3> QED
      BY <2>1, <3>1, <3>4, <3>6 DEF Taken
  <2> QED
    BY <1>2, <2>3, <2>4 DEF Poll
<1>3. CASE PushStrToCache
  <2>0. PICK n \in Nat : n = Len(set1)
    BY <1>0, LenProperties
  <2>1. set1 # <<>> /\ set1' = Tail(set1) /\ dpc' \in {"ack", "pid"}
    BY <1>3 DEF PushStrToCache, IInv, TypeOK, DbgTypes
  <2>2. dpc' = "ack" => set1' = <<>>
    BY <1>3, <2>1 DEF PushStrToCache
  <2>3. n > 0
    BY <1>0, <2>0, <2>1, EmptySeq
  <2>4. Len(set1') = n - 1 /\ \A i \in 1 .. n - 1 : set1'[i] = set1[i + 1]
    BY <1>0, <2>0, <2>1, HeadTailProperties
  <2>5. \A i \in 1 .. n - 1 : i + 1 \in 1 .. n
    BY <2>3
  <2>6. \A i, j \in 1 .. n - 1 : i # j => i + 1 # j + 1
    OBVIOUS
  <2>7. \A i, j \in 1 .. n - 1 : i # j => set1'[i] # set1'[j]
    BY <2>0, <2>4, <2>5, <2>6 DEF Taken
  <2> QED
    BY <2>1, <2>2, <2>4, <2>7 DEF Taken
<1>4. CASE SetAckEvents \/ PollDone \/ ReadPid
  BY <1>4 DEF SetAckEvents, PollDone, ReadPid, Taken
<1>5. CASE UNCHANGED dbgVars
  BY <1>5 DEF dbgVars, Taken
<1> QED
  BY <1>1, <1>2, <1>3, <1>4, <1>5
  DEF Next, WriterStep, DbgThread, CacheThread, Enter, GiveUp, TakeAck,
      WritePid, WriteText, Signal, WaitNotify, GetStrSetFromCache, OnDbgMsg,
      vars

LEMMA WrittenKept == IInv /\ Written /\ [Next]_vars => Written'
<1> SUFFICES ASSUME IInv, Written, [Next]_vars PROVE Written'
  OBVIOUS
<1> USE DEF IInv, TypeOK, OsTypes
<1>1. ASSUME NEW c \in Channel, NEW m \in Msg, Enter(c, m) PROVE Written'
  BY <1>1 DEF Enter, Written
<1>2. ASSUME NEW c \in Channel, GiveUp(c) PROVE Written'
  BY <1>2 DEF GiveUp, Written
<1>3. ASSUME NEW c \in Channel, TakeAck(c) PROVE Written'
  BY <1>3 DEF TakeAck, Written
<1>4. ASSUME NEW c \in Channel, WritePid(c) PROVE Written'
  BY <1>4 DEF WritePid, Written
<1>5. ASSUME NEW c \in Channel, WriteText(c) PROVE Written'
  BY <1>5 DEF WriteText, Written
<1>6. ASSUME NEW c \in Channel, Signal(c) PROVE Written'
  BY <1>6 DEF Signal, Written
<1>7. CASE UNCHANGED <<wpc, wmsg, pagePid, pageText>>
  BY <1>7 DEF Written
<1> QED
  BY <1>1, <1>2, <1>3, <1>4, <1>5, <1>6, <1>7
  DEF Next, WriterStep, DbgThread, CacheThread, SetAckEvents, WaitReady, Poll,
      PollDone, ReadPid, PushStrToCache, WaitNotify, GetStrSetFromCache,
      OnDbgMsg, vars, osVars


LEMMA OneAtATimeKept ==
  IInv /\ TokenInv /\ [Next]_vars => OneAtATime'
<1> SUFFICES ASSUME IInv, TokenInv, [Next]_vars PROVE OneAtATime'
  OBVIOUS
<1>0. /\ set1 \in Seq(Channel) /\ OsTypes /\ doubleAck \in [Channel -> BOOLEAN]
      /\ OneAtATime /\ Taken
  BY DEF IInv, TypeOK, DbgTypes, HistoryTypes, TokenInv
<1> USE <1>0 DEF OsTypes, Writing
<1>1. ASSUME NEW c \in Channel, NEW m \in Msg, Enter(c, m) PROVE OneAtATime'
  BY <1>1 DEF Enter, dbgVars, historyVars, OneAtATime, Queued
<1>2. ASSUME NEW c \in Channel, GiveUp(c) PROVE OneAtATime'
  BY <1>2 DEF GiveUp, dbgVars, historyVars, OneAtATime, Queued
<1>3. ASSUME NEW c \in Channel, TakeAck(c) PROVE OneAtATime'
  BY <1>3 DEF TakeAck, dbgVars, historyVars, OneAtATime, Queued
<1>4. ASSUME NEW c \in Channel, WritePid(c) PROVE OneAtATime'
  <2>1. dpc = "text" => set1 # <<>>
    BY DEF IInv, TypeOK, DbgTypes
  <2>2. set1 # <<>> => 1 \in 1 .. Len(set1)
    BY EmptySeq
  <2>3. ~doubleAck[c] => ~Queued(c)
    BY <1>4 DEF WritePid, OneAtATime
  <2>4. dpc = "text" /\ ~doubleAck[c] => set1[1] # c
    BY <2>1, <2>2, <2>3 DEF Queued
  <2> QED
    BY <1>4, <2>4 DEF WritePid, dbgVars, historyVars, OneAtATime, Queued
<1>5. ASSUME NEW c \in Channel, WriteText(c) PROVE OneAtATime'
  BY <1>5 DEF WriteText, dbgVars, historyVars, OneAtATime, Queued
<1>6. ASSUME NEW c \in Channel, Signal(c) PROVE OneAtATime'
  BY <1>6 DEF Signal, dbgVars, OneAtATime, Queued
<1>7. CASE SetAckEvents
  <2>1. set1 = <<>> /\ set1' = set1 /\ dpc' = "wait"
    BY <1>7 DEF SetAckEvents, Taken
  <2>2. \A c \in Channel : ~Queued(c)'
    BY <2>1 DEF Queued
  <2>3. \A c \in Channel : ~doubleAck'[c] => ~ready[c] /\ wpc[c] \notin Writing
    BY <1>7 DEF SetAckEvents
  <2> QED
    BY <1>7, <2>1, <2>2, <2>3 DEF SetAckEvents, OneAtATime
<1>8. ASSUME NEW c \in Channel, WaitReady(c) PROVE OneAtATime'
  <2>1. set1' = <<c>> /\ dpc' = "poll" /\ UNCHANGED <<ack, wpc, doubleAck>>
        /\ ready' = [ready EXCEPT ![c] = FALSE] /\ ready[c]
    BY <1>8 DEF WaitReady, historyVars
  <2>2. \A b \in Channel : Queued(b)' => b = c
    BY <2>1 DEF Queued
  <2> QED
    BY <2>1, <2>2 DEF OneAtATime
<1>9. CASE Poll
  <2>1. /\ pollAt \in Channel /\ dpc' = "poll" /\ UNCHANGED <<ack, wpc, doubleAck>>
        /\ ready' = [ready EXCEPT ![pollAt] = FALSE]
        /\ set1' = IF ready[pollAt] THEN Append(set1, pollAt) ELSE set1
    BY <1>9 DEF Poll, historyVars, Channel, IInv, TypeOK, DbgTypes
  <2>2. CASE ready[pollAt]
    <3>0. PICK n \in Nat : n = Len(set1)
      BY LenProperties
    <3>1. /\ Len(set1') = n + 1 /\ set1'[n + 1] = pollAt
          /\ \A i \in 1 .. n : set1'[i] = set1[i]
      BY <2>1, <2>2, <3>0, AppendProperties
    <3>2. \A i \in 1 .. n + 1 : i = n + 1 \/ i \in 1 .. n
      OBVIOUS
    <3>3. \A b \in Channel : Queued(b)' => b = pollAt \/ Queued(b)
      BY <3>0, <3>1, <3>2 DEF Queued
    <3> QED
      BY <2>1, <2>2, <3>3 DEF OneAtATime
  <2>3. CASE ~ready[pollAt]
    <3>1. set1' = set1
      BY <2>1, <2>3
    <3>2. \A b \in Channel : Queued(b)' <=> Queued(b)
      BY <3>1 DEF Queued
    <3> QED
      BY <2>1, <3>2 DEF OneAtATime
  <2> QED
    BY <2>2, <2>3
<1>10. CASE PollDone
  BY <1>10 DEF PollDone, osVars, historyVars, OneAtATime, Queued
<1>11. CASE ReadPid
  <2>1. set1 # <<>>
    BY <1>11 DEF ReadPid, IInv, TypeOK, DbgTypes
  <2>2. Head(set1) = set1[1]
    BY <2>1, HeadTailProperties
  <2> QED
    BY <1>11, <2>2 DEF ReadPid, osVars, historyVars, OneAtATime, Queued
<1>12. CASE PushStrToCache
  <2>0. PICK n \in Nat : n = Len(set1)
    BY LenProperties
  <2>1. set1 # <<>> /\ set1' = Tail(set1) /\ dpc' \in {"ack", "pid"}
        /\ UNCHANGED <<ack, ready, wpc, doubleAck>>
    BY <1>12 DEF PushStrToCache, osVars, IInv, TypeOK, DbgTypes
  <2>2. n > 0
    BY <2>0, <2>1, EmptySeq
  <2>3. Len(set1') = n - 1 /\ \A i \in 1 .. n - 1 : set1'[i] = set1[i + 1]
    BY <2>0, <2>1, HeadTailProperties
  <2>4. \A i \in 1 .. n - 1 : i + 1 \in 1 .. n
    BY <2>2
  <2>5. \A b \in Channel : Queued(b)' => Queued(b)
    BY <2>0, <2>3, <2>4 DEF Queued
  <2> QED
    BY <2>1, <2>5 DEF OneAtATime
<1>13. CASE UNCHANGED <<ack, ready, pagePid, wpc, dpc, set1, pidArg, doubleAck>>
  BY <1>13 DEF OneAtATime, Queued
<1> QED
  BY <1>1, <1>2, <1>3, <1>4, <1>5, <1>6, <1>7, <1>8, <1>9, <1>10, <1>11,
     <1>12, <1>13
  DEF Next, WriterStep, DbgThread, CacheThread, WaitNotify, GetStrSetFromCache,
      OnDbgMsg, vars, osVars, dbgVars, historyVars


LEMMA ToReadIs == \A c : ToRead(c) <=> ready[c] \/ Queued(c)
BY DEF ToRead, Queued

\* ReadyTaken: what WaitReady and Poll take from the event they put in set1.
LEMMA ReadyTaken ==
  ASSUME IInv, TokenInv, Poll \/ \E c \in Channel : WaitReady(c)
  PROVE  \A b \in Channel : ToRead(b)' <=> ToRead(b)
<1>0. set1 \in Seq(Channel) /\ Taken /\ ready \in [Channel -> BOOLEAN]
  BY DEF IInv, TypeOK, DbgTypes, OsTypes, TokenInv
<1>1. ASSUME NEW c \in Channel, WaitReady(c), NEW b \in Channel
      PROVE  ToRead(b)' <=> ToRead(b)
  <2>1. /\ set1 = <<>> /\ set1' = <<c>> /\ ready[c]
        /\ ready' = [ready EXCEPT ![c] = FALSE]
    BY <1>0, <1>1 DEF WaitReady, Taken
  <2>2. Len(set1') = 1 /\ set1'[1] = c /\ Len(set1) = 0
    BY <2>1
  <2>3. (Queued(b)' <=> b = c) /\ ~Queued(b)
    BY <2>2 DEF Queued
  <2>4. ready'[b] <=> ready[b] /\ b # c
    BY <1>0, <2>1
  <2> QED
    BY <2>1, <2>3, <2>4 DEF ToRead, Queued
<1>2. ASSUME Poll, NEW b \in Channel PROVE ToRead(b)' <=> ToRead(b)
  <2>0. PICK n \in Nat : n = Len(set1)
    BY <1>0, LenProperties
  <2>1. /\ pollAt \in Channel /\ ready' = [ready EXCEPT ![pollAt] = FALSE]
        /\ set1' = IF ready[pollAt] THEN Append(set1, pollAt) ELSE set1
    BY <1>2 DEF Poll, Channel, IInv, TypeOK, DbgTypes
  <2>2. ready'[b] <=> ready[b] /\ b # pollAt
    BY <1>0, <2>1
  <2>3. CASE ready[pollAt]
    <3>1. /\ Len(set1') = n + 1 /\ set1'[n + 1] = pollAt
          /\ \A i \in 1 .. n : set1'[i] = set1[i]
      BY <1>0, <2>0, <2>1, <2>3, AppendProperties
    <3>2. \A i \in 1 .. n + 1 : i = n + 1 \/ i \in 1 .. n
      OBVIOUS
    <3>3. n + 1 \in 1 .. n + 1 /\ \A i \in 1 .. n : i \in 1 .. n + 1
      OBVIOUS
    <3>4. Queued(b)' <=> b = pollAt \/ Queued(b)
      BY <2>0, <3>1, <3>2, <3>3 DEF Queued
    <3> QED
      BY <2>2, <2>3, <3>4 DEF ToRead, Queued
  <2>4. CASE ~ready[pollAt]
    <3>1. set1' = set1
      BY <2>1, <2>4
    <3>2. Queued(b)' <=> Queued(b)
      BY <3>1 DEF Queued
    <3> QED
      BY <2>2, <2>4, <3>2 DEF ToRead, Queued
  <2> QED
    BY <2>3, <2>4
<1> QED
  BY <1>1, <1>2

\* HeadRead: PushStrToCache takes the first channel of set1 and no other.
LEMMA HeadRead ==
  ASSUME IInv, TokenInv, PushStrToCache, NEW b \in Channel, ~doubleAck[b]
  PROVE  /\ b = Head(set1) => ToRead(b) /\ ~ToRead(b)'
         /\ b # Head(set1) => (ToRead(b)' <=> ToRead(b))
<1>0. set1 \in Seq(Channel) /\ Taken /\ OneAtATime
  BY DEF IInv, TypeOK, DbgTypes, TokenInv
<1>1. PICK n \in Nat : n = Len(set1)
  BY <1>0, LenProperties
<1>2. set1 # <<>> /\ set1' = Tail(set1) /\ ready' = ready
  BY DEF PushStrToCache, osVars, IInv, TypeOK, DbgTypes
<1>3. n > 0 /\ Head(set1) = set1[1]
  BY <1>0, <1>1, <1>2, EmptySeq, HeadTailProperties
<1>4. Len(set1') = n - 1 /\ \A i \in 1 .. n - 1 : set1'[i] = set1[i + 1]
  BY <1>0, <1>1, <1>2, HeadTailProperties
<1>5. \A i \in 1 .. n - 1 : i + 1 \in 1 .. n /\ i + 1 # 1
  BY <1>3
<1>6. \A i \in 1 .. n : i = 1 \/ (i - 1 \in 1 .. n - 1 /\ (i - 1) + 1 = i)
  BY <1>3
<1>7. 1 \in 1 .. n
  BY <1>3
<1>8. ASSUME b = Head(set1) PROVE ToRead(b) /\ ~ToRead(b)'
  <2>1. Queued(b)
    BY <1>1, <1>3, <1>7, <1>8 DEF Queued
  <2>2. ~ready[b]
    BY <1>0, <2>1 DEF OneAtATime
  <2>3. ASSUME NEW i \in 1 .. n - 1 PROVE set1'[i] # b
    <3>1. i + 1 \in 1 .. n /\ i + 1 # 1 /\ set1'[i] = set1[i + 1]
      BY <1>4, <1>5
    <3>2. set1[i + 1] # set1[1]
      BY <1>0, <1>1, <1>7, <3>1 DEF Taken
    <3> QED
      BY <1>3, <1>8, <3>1, <3>2
  <2>4. ~Queued(b)'
    BY <1>4, <2>3 DEF Queued
  <2> QED
    BY <1>2, <2>1, <2>2, <2>4 DEF ToRead, Queued
<1>9. ASSUME b # Head(set1) PROVE ToRead(b)' <=> ToRead(b)
  <2>1. Queued(b)' => Queued(b)
    BY <1>1, <1>4, <1>5 DEF Queued
  <2>2. Queued(b) => Queued(b)'
    <3>1. ASSUME NEW i \in 1 .. n, set1[i] = b PROVE Queued(b)'
      <4>1. i # 1
        BY <1>3, <1>9, <3>1
      <4>2. i - 1 \in 1 .. n - 1 /\ (i - 1) + 1 = i
        BY <1>6, <4>1
      <4>3. set1'[i - 1] = b
        BY <1>4, <3>1, <4>2
      <4> QED
        BY <1>4, <4>2, <4>3 DEF Queued
    <3> QED
      BY <1>1, <3>1 DEF Queued
  <2> QED
    BY <1>2, <2>1, <2>2 DEF ToRead, Queued
<1> QED
  BY <1>8, <1>9

Page(c) == [mPid |-> pagePid[c], text |-> pageText[c]]
Waiting(c) == IF ToRead(c) THEN <<Page(c)>> ELSE <<>>

ExactOn(c) == ~doubleAck[c] => sent[c] = got[c] \o Waiting(c)

LEMMA ExactIs == ExactWhenAckedOnce <=> \A c \in Channel : ExactOn(c)
BY DEF ExactWhenAckedOnce, ExactOn, Waiting, Page

LEMMA ExactKept ==
  ASSUME IInv, TokenInv, [Next]_vars, NEW b \in Channel, ExactOn(b)
  PROVE  ExactOn(b)'
<1>0. /\ OsTypes /\ HistoryTypes /\ OneAtATime /\ Written
      /\ set1 \in Seq(Channel) /\ (dpc = "text" => set1 # <<>>)
  BY DEF IInv, TypeOK, DbgTypes, TokenInv
<1>1. CASE UNCHANGED <<ready, set1, pagePid, pageText, sent, got, doubleAck>>
  <2>1. Waiting(b)' = Waiting(b)
    BY <1>1 DEF Waiting, Page, ToRead
  <2> QED
    BY <1>1, <2>1 DEF ExactOn
<1>2. ASSUME NEW c \in Channel, WritePid(c) \/ WriteText(c) PROVE ExactOn(b)'
  <2>1. /\ UNCHANGED <<ready, set1, sent, got, doubleAck>>
        /\ b # c => Page(b)' = Page(b)
        /\ wpc[c] \in Writing
    BY <1>0, <1>2 DEF WritePid, WriteText, dbgVars, historyVars, OsTypes, Page,
       Writing
  <2>2. ~doubleAck[c] => ~ToRead(c)
    BY <1>0, <2>1, ToReadIs DEF OneAtATime
  <2>3. ToRead(b)' <=> ToRead(b)
    BY <2>1 DEF ToRead
  <2>4. ~doubleAck[b] => Waiting(b)' = Waiting(b)
    BY <2>1, <2>2, <2>3 DEF Waiting
  <2> QED
    BY <2>1, <2>4 DEF ExactOn
<1>3. ASSUME NEW c \in Channel, Signal(c) PROVE ExactOn(b)'
  <2> DEFINE message == [mPid |-> Owner[wmsg[c]], text |-> wmsg[c]]
  <2>1. /\ UNCHANGED <<set1, pagePid, pageText, got, doubleAck>>
        /\ ready' = [ready EXCEPT ![c] = TRUE] /\ wpc[c] = "signal"
        /\ sent' = [sent EXCEPT ![c] = Append(@, message)]
    BY <1>3 DEF Signal, dbgVars
  <2>2. CASE b # c
    <3>1. sent'[b] = sent[b] /\ (ready'[b] <=> ready[b])
      BY <1>0, <2>1, <2>2 DEF OsTypes, HistoryTypes
    <3>2. Waiting(b)' = Waiting(b)
      BY <2>1, <3>1 DEF Waiting, Page, ToRead
    <3> QED
      BY <2>1, <3>1, <3>2 DEF ExactOn
  <2>3. CASE b = c
    <3>1. SUFFICES ASSUME ~doubleAck[b] PROVE sent'[b] = got[b] \o Waiting(b)'
      BY <2>1 DEF ExactOn
    <3>2. ~ToRead(b)
      BY <1>0, <2>1, <2>3, <3>1, ToReadIs DEF OneAtATime, Writing
    <3>3. ready'[b]
      BY <1>0, <2>1, <2>3 DEF OsTypes
    <3>4. ToRead(b)'
      BY <3>3 DEF ToRead
    <3>5. Page(b)' = message
      BY <1>0, <2>1, <2>3 DEF Written, Page
    <3>6. Waiting(b) = <<>> /\ Waiting(b)' = <<message>>
      BY <3>2, <3>4, <3>5 DEF Waiting
    <3>7. got[b] \in Seq(Message) /\ message \in Message
      BY <1>0, <2>1, <2>3, PidAndText DEF HistoryTypes, OsTypes, Message
    <3>8. sent[b] = got[b]
      BY <3>1, <3>6, <3>7, ConcatEmptySeq DEF ExactOn
    <3>9. sent'[b] = Append(got[b], message)
      BY <1>0, <2>1, <2>3, <3>8 DEF HistoryTypes
    <3> HIDE DEF message
    <3>10. Append(got[b], message) = got[b] \o <<message>>
      BY <3>7, AppendIsConcat
    <3> QED
      BY <3>6, <3>9, <3>10
  <2> QED
    BY <2>2, <2>3
<1>4. CASE SetAckEvents
  <2>1. UNCHANGED <<ready, set1, pagePid, pageText, sent, got>>
    BY <1>4 DEF SetAckEvents
  <2>2. ~doubleAck'[b] => ~doubleAck[b]
    BY <1>4 DEF SetAckEvents
  <2>3. Waiting(b)' = Waiting(b)
    BY <2>1 DEF Waiting, Page, ToRead
  <2> QED
    BY <2>1, <2>2, <2>3 DEF ExactOn
<1>5. CASE Poll \/ \E c \in Channel : WaitReady(c)
  <2>1. UNCHANGED <<pagePid, pageText, sent, got, doubleAck>>
    BY <1>5 DEF Poll, WaitReady, historyVars
  <2>2. ToRead(b)' <=> ToRead(b)
    BY <1>5, ReadyTaken
  <2>3. Waiting(b)' = Waiting(b)
    BY <2>1, <2>2 DEF Waiting, Page
  <2> QED
    BY <2>1, <2>3 DEF ExactOn
<1>6. CASE PushStrToCache
  <2> DEFINE c == Head(set1)
             message == [mPid |-> pidArg, text |-> pageText[c]]
  <2>1. /\ UNCHANGED <<pagePid, pageText, sent, doubleAck>>
        /\ got' = [got EXCEPT ![c] = Append(@, message)]
        /\ dpc = "text"
    BY <1>6 DEF PushStrToCache, osVars
  <2>2. c \in Channel /\ c = set1[1]
    BY <1>0, <2>1, HeadTailProperties
  <2>3. SUFFICES ASSUME ~doubleAck[b] PROVE sent[b] = got'[b] \o Waiting(b)'
    BY <2>1 DEF ExactOn
  <2>4. CASE b # c
    <3>1. got'[b] = got[b]
      BY <1>0, <2>1, <2>4 DEF HistoryTypes
    <3>2. ToRead(b)' <=> ToRead(b)
      BY <1>6, <2>3, <2>4, HeadRead
    <3>3. Waiting(b)' = Waiting(b)
      BY <2>1, <3>2 DEF Waiting, Page
    <3> QED
      BY <2>3, <3>1, <3>3 DEF ExactOn
  <2>5. CASE b = c
    <3>1. ToRead(b) /\ ~ToRead(b)'
      BY <1>6, <2>3, <2>5, HeadRead
    <3>2. Page(b) = message
      BY <1>0, <2>1, <2>2, <2>3, <2>5 DEF OneAtATime, Page
    <3>3. Waiting(b) = <<message>> /\ Waiting(b)' = <<>>
      BY <3>1, <3>2 DEF Waiting
    <3>4. got[b] \in Seq(Message) /\ message \in Message
      BY <1>0, <2>1, <2>2, <2>5, PidAndText DEF HistoryTypes, OsTypes, Message,
         IInv, TypeOK, DbgTypes
    <3>5. got'[b] = Append(got[b], message)
      BY <1>0, <2>1, <2>5 DEF HistoryTypes
    <3>6. sent[b] = got[b] \o <<message>>
      BY <2>3, <3>3 DEF ExactOn
    <3> HIDE DEF message
    <3>7. Append(got[b], message) = got[b] \o <<message>>
      BY <3>4, AppendIsConcat
    <3>8. Append(got[b], message) \o <<>> = Append(got[b], message)
      BY <3>4, AppendProperties, ConcatEmptySeq
    <3> QED
      BY <3>3, <3>5, <3>6, <3>7, <3>8
  <2> QED
    BY <2>4, <2>5
<1> QED
  BY <1>1, <1>2, <1>3, <1>4, <1>5, <1>6
  DEF Next, WriterStep, DbgThread, CacheThread, Enter, GiveUp, TakeAck,
      PollDone, ReadPid, WaitNotify, GetStrSetFromCache, OnDbgMsg,
      vars, osVars, dbgVars, historyVars

(***************************************************************************)
(* OneAckKeepsAll: on a channel that never got a second acknowledgement,   *)
(* DbgThread reads every message once, in order and with its process, for  *)
(* any number of channels, messages and programs.                          *)
(***************************************************************************)
THEOREM OneAckKeepsAll == Spec => []ExactWhenAckedOnce
<1>1. Init => TokenInv /\ ExactWhenAckedOnce
  <2> SUFFICES ASSUME Init PROVE TokenInv /\ ExactWhenAckedOnce
    OBVIOUS
  <2>1. Len(set1) = 0
    BY DEF Init
  <2>2. Taken /\ Written
    BY <2>1 DEF Init, Taken, Written
  <2>3. \A c \in Channel : ~ToRead(c) /\ ~Queued(c)
    BY <2>1 DEF Init, ToRead, Queued
  <2>4. OneAtATime
    BY <2>3 DEF Init, OneAtATime, Writing
  <2>5. ASSUME NEW c \in Channel PROVE ExactOn(c)
    <3>1. Waiting(c) = <<>> /\ sent[c] = <<>> /\ got[c] = <<>>
      BY <2>3 DEF Init, Waiting
    <3> QED
      BY <3>1 DEF ExactOn
  <2> QED
    BY <2>2, <2>4, <2>5, ExactIs DEF TokenInv
<1>2. IInv /\ TokenInv /\ [Next]_vars => TokenInv'
  BY TakenKept, WrittenKept, OneAtATimeKept DEF TokenInv
<1>3. IInv /\ TokenInv /\ ExactWhenAckedOnce /\ [Next]_vars
        => ExactWhenAckedOnce'
  <2> SUFFICES ASSUME IInv, TokenInv, ExactWhenAckedOnce, [Next]_vars
               PROVE  ExactWhenAckedOnce'
    OBVIOUS
  <2>1. \A c \in Channel : ExactOn(c)'
    BY ExactIs, ExactKept
  <2> QED
    BY <2>1 DEF ExactWhenAckedOnce, ExactOn, Waiting, Page
<1> QED
  BY InvariantHolds, <1>1, <1>2, <1>3, PTL DEF Spec

-----------------------------------------------------------------------------
(* What waits to be shown.                                                 *)

(***************************************************************************)
(* WaitingAreStored: what lies in the buffer are the last messages that    *)
(* PushStrToCache stored, and what CacheThread took out and has not shown  *)
(* yet are those before them: each whole, once and in order, although both *)
(* threads use the same bytes again.  A list that is being shown is never  *)
(* replaced.                                                               *)
(***************************************************************************)
Cut(buffer, d) ==
  [mPid |-> d.mPid,
   mContent |-> [k \in 1 .. d.mLength |-> buffer[d.mStartPos + k - 1]]]

InBuffer ==
  \A k \in 1 .. Len(mBuffDesc) :
    Cut(mBuffer, mBuffDesc[k]) = NodeOf(stored[Len(stored) - Len(mBuffDesc) + k])

InResult ==
  \A k \in 1 .. Len(result) :
    result[k] = NodeOf(stored[Len(stored) - Len(mBuffDesc) - Len(result) + k])

WaitingAreStored ==
  /\ Len(result) + Len(mBuffDesc) <= Len(stored)
  /\ InBuffer /\ InResult
  /\ cpc # "emit" => result = <<>>

\* mBuffer after PushStrToCache: the text behind pos.
Copy(old, pos, text) ==
  [p \in Cell |-> IF pos <= p /\ p < pos + TextLen[text]
                  THEN <<text, p - pos + 1>> ELSE old[p]]

\* A copy behind pos leaves the pieces before pos as they are.
LEMMA CopyKeeps ==
  ASSUME NEW pos \in Nat, pos < BuffSize, NEW text \in Text, NEW old,
         NEW d \in Desc, d.mStartPos + d.mLength <= pos
  PROVE  Cut(Copy(old, pos, text), d) = Cut(old, d)
<1>0. PICK new : new = Copy(old, pos, text)
  OBVIOUS
<1>1. d.mStartPos \in Nat /\ d.mLength \in Nat
  BY DEF Desc
<1>2. ASSUME NEW k \in 1 .. d.mLength
      PROVE  new[d.mStartPos + k - 1] = old[d.mStartPos + k - 1]
  <2>1. PICK p \in Nat : p = d.mStartPos + k - 1
    BY <1>1
  <2>2. p < pos
    BY <1>1, <2>1
  <2>3. p \in Cell
    BY <2>2 DEF Cell
  <2> QED
    BY <1>0, <2>1, <2>2, <2>3 DEF Copy
<1> QED
  BY <1>0, <1>2 DEF Cut

\* A copy that fits is the text it was made from.
LEMMA CopyIsText ==
  ASSUME NEW pos \in Nat, NEW text \in Text, pos + TextLen[text] < BuffSize, NEW old
  PROVE  \A k \in 1 .. TextLen[text] : Copy(old, pos, text)[pos + k - 1] = <<text, k>>
<1>1. PICK n \in Nat : n = TextLen[text]
  BY PidAndText
<1>2. ASSUME NEW k \in 1 .. n PROVE Copy(old, pos, text)[pos + k - 1] = <<text, k>>
  <2>1. PICK p \in Nat : p = pos + k - 1
    OBVIOUS
  <2>2. pos <= p /\ p < pos + n /\ p - pos + 1 = k
    BY <2>1
  <2>3. p \in Cell
    BY <1>1, <2>2 DEF Cell
  <2> QED
    BY <1>1, <2>1, <2>2, <2>3 DEF Copy
<1> QED
  BY <1>1, <1>2

LEMMA PushKeepsWaiting ==
  ASSUME IInv, WaitingAreStored, PushStrToCache
  PROVE  WaitingAreStored'
<1> DEFINE text == pageText[Head(set1)]
           desc == [mPid |-> pidArg, mStartPos |-> mCurPos, mLength |-> TextLen[text]]
           message == [mPid |-> pidArg, text |-> text]
<1>1. /\ mBuffDesc \in Seq(Desc) /\ stored \in Seq(Message) /\ result \in Seq(Node)
      /\ mCurPos \in Nat /\ mCurPos < BuffSize
  BY DEF IInv, TypeOK, CacheTypes, HistoryTypes, ShowTypes, CacheTiled
<1>2. text \in Text /\ pidArg \in Pid
  <2>1. Head(set1) \in Channel
    BY HeadTailProperties DEF IInv, TypeOK, DbgTypes, PushStrToCache
  <2> QED
    BY <2>1 DEF IInv, TypeOK, OsTypes, DbgTypes
<1>3. mBuffer' = Copy(mBuffer, mCurPos, text) /\ result' = result /\ cpc' = cpc
  BY DEF PushStrToCache, Copied, Copy, showVars
<1>4. desc \in Desc /\ message \in Message
  BY <1>1, <1>2, PidAndText DEF Desc, Message
<1>5. PICK nb \in Nat : nb = Len(mBuffDesc)
  BY <1>1, LenProperties
<1>6. PICK nr \in Nat : nr = Len(result)
  BY <1>1, LenProperties
<1>7. PICK ns \in Nat : ns = Len(stored)
  BY <1>1, LenProperties
<1>8. nr + nb <= ns
  BY <1>5, <1>6, <1>7 DEF WaitingAreStored
<1>9. ASSUME NEW k \in 1 .. nb
      PROVE  Cut(mBuffer', mBuffDesc[k]) = NodeOf(stored[ns - nb + k])
  <2>1. mBuffDesc[k] \in Desc
    BY <1>1, <1>5, ElementOfSeq
  <2>2. mBuffDesc[k].mStartPos + mBuffDesc[k].mLength <= mCurPos
    BY <1>5 DEF IInv, CacheInside, EndOf
  <2>3. Cut(mBuffer', mBuffDesc[k]) = Cut(mBuffer, mBuffDesc[k])
    BY <1>1, <1>2, <1>3, <2>1, <2>2, CopyKeeps
  <2>4. Cut(mBuffer, mBuffDesc[k]) = NodeOf(stored[ns - nb + k])
    BY <1>5, <1>7 DEF WaitingAreStored, InBuffer
  <2> QED
    BY <2>3, <2>4
<1>10. CASE ~Fits(text)
  <2>1. mBuffDesc' = mBuffDesc /\ stored' = stored
    BY <1>10 DEF PushStrToCache
  <2>2. InBuffer'
    BY <1>5, <1>7, <1>9, <2>1 DEF InBuffer
  <2> QED
    BY <1>3, <2>1, <2>2 DEF WaitingAreStored, InResult
<1>11. CASE Fits(text)
  <2>1. mBuffDesc' = Append(mBuffDesc, desc) /\ stored' = Append(stored, message)
    BY <1>11 DEF PushStrToCache
  <2>2. Cut(mBuffer', desc) = NodeOf(message)
    <3>1. mCurPos + TextLen[text] < BuffSize
      BY <1>11 DEF Fits
    <3> HIDE DEF text
    <3>2. \A k \in 1 .. TextLen[text] : mBuffer'[mCurPos + k - 1] = <<text, k>>
      BY <1>1, <1>2, <1>3, <3>1, CopyIsText
    <3> QED
      BY <3>2 DEF Cut, NodeOf
  <2> HIDE DEF desc, message
  <2>3. /\ Len(mBuffDesc') = nb + 1 /\ mBuffDesc'[nb + 1] = desc
        /\ \A k \in 1 .. nb : mBuffDesc'[k] = mBuffDesc[k]
    BY <1>1, <1>4, <1>5, <2>1, AppendProperties
  <2>4. /\ Len(stored') = ns + 1 /\ stored'[ns + 1] = message
        /\ \A k \in 1 .. ns : stored'[k] = stored[k]
    BY <1>1, <1>4, <1>7, <2>1, AppendProperties
  <2>5. ASSUME NEW k \in 1 .. nb + 1
        PROVE  Cut(mBuffer', mBuffDesc'[k]) = NodeOf(stored'[(ns + 1) - (nb + 1) + k])
    <3>1. CASE k = nb + 1
      <4>1. (ns + 1) - (nb + 1) + k = ns + 1
        BY <3>1
      <4> QED
        BY <2>2, <2>3, <2>4, <3>1, <4>1
    <3>2. CASE k \in 1 .. nb
      <4>1. (ns + 1) - (nb + 1) + k = ns - nb + k /\ ns - nb + k \in 1 .. ns
        BY <1>8, <3>2
      <4> QED
        BY <1>9, <2>3, <2>4, <3>2, <4>1
    <3> QED
      BY <3>1, <3>2
  <2>6. ASSUME NEW k \in 1 .. nr
        PROVE  result'[k] = NodeOf(stored'[(ns + 1) - (nb + 1) - nr + k])
    <3>1. (ns + 1) - (nb + 1) - nr + k = ns - nb - nr + k /\ ns - nb - nr + k \in 1 .. ns
      BY <1>8
    <3>2. result[k] = NodeOf(stored[ns - nb - nr + k])
      BY <1>5, <1>6, <1>7 DEF WaitingAreStored, InResult
    <3> QED
      BY <1>3, <2>4, <3>1, <3>2
  <2>7. InBuffer'
    BY <2>3, <2>4, <2>5 DEF InBuffer
  <2>8. InResult'
    BY <1>3, <1>6, <2>3, <2>4, <2>6 DEF InResult
  <2>9. Len(result') + Len(mBuffDesc') <= Len(stored')
    BY <1>3, <1>6, <1>8, <2>3, <2>4
  <2> QED
    BY <1>3, <2>7, <2>8, <2>9 DEF WaitingAreStored
<1> QED
  BY <1>10, <1>11

LEMMA TakeKeepsWaiting ==
  ASSUME IInv, WaitingAreStored, GetStrSetFromCache
  PROVE  WaitingAreStored'
<1>1. mBuffDesc \in Seq(Desc) /\ stored \in Seq(Message)
  BY DEF IInv, TypeOK, CacheTypes, HistoryTypes
<1>2. /\ result = <<>> /\ result' = CacheNodes /\ mBuffDesc' = <<>> /\ stored' = stored
      /\ cpc' = IF mBuffDesc = <<>> THEN "wait" ELSE "emit"
  BY DEF WaitingAreStored, GetStrSetFromCache, historyVars
<1>3. PICK nb \in Nat : nb = Len(mBuffDesc)
  BY <1>1, LenProperties
<1>4. PICK ns \in Nat : ns = Len(stored)
  BY <1>1, LenProperties
<1>5. nb <= ns
  BY <1>2, <1>3, <1>4 DEF WaitingAreStored
<1>6. CacheNodes \in Seq(Node)
  BY NodesTyped DEF IInv
<1>7. /\ DOMAIN CacheNodes = 1 .. nb
      /\ \A k \in 1 .. nb : CacheNodes[k] = NodeOf(stored[ns - nb + k])
  BY <1>3, <1>4 DEF CacheNodes, NodeAt, Cut, WaitingAreStored, InBuffer
<1>8. Len(result') = nb
  <2>1. PICK l \in Nat : l = Len(CacheNodes) /\ DOMAIN CacheNodes = 1 .. l
    BY <1>6, LenProperties
  <2>2. 1 .. l = 1 .. nb
    BY <1>7, <2>1
  <2>3. l = nb
    BY <2>2
  <2> QED
    BY <1>2, <2>1, <2>3
<1>9. Len(mBuffDesc') = 0
  BY <1>2
<1>10. InResult'
  <2>1. \A k \in 1 .. nb : ns - 0 - nb + k = ns - nb + k
    OBVIOUS
  <2> QED
    BY <1>2, <1>4, <1>7, <1>8, <1>9, <2>1 DEF InResult
<1>11. InBuffer'
  BY <1>9 DEF InBuffer
<1>12. cpc' # "emit" => result' = <<>>
  <2>1. ASSUME mBuffDesc = <<>> PROVE CacheNodes = <<>>
    <3>1. nb = 0
      BY <1>3, <2>1
    <3> QED
      BY <1>2, <1>6, <1>8, <3>1, EmptySeq
  <2> QED
    BY <1>2, <2>1
<1> QED
  BY <1>2, <1>4, <1>5, <1>8, <1>9, <1>10, <1>11, <1>12 DEF WaitingAreStored

LEMMA ShowKeepsWaiting ==
  ASSUME IInv, WaitingAreStored, OnDbgMsg
  PROVE  WaitingAreStored'
<1>1. /\ mBuffDesc \in Seq(Desc) /\ stored \in Seq(Message) /\ result \in Seq(Node)
      /\ result # <<>>
  BY DEF IInv, TypeOK, CacheTypes, HistoryTypes, ShowTypes, OnDbgMsg
<1>2. /\ UNCHANGED <<mBuffer, mBuffDesc, stored>> /\ result' = Tail(result)
      /\ cpc' = IF Tail(result) = <<>> THEN "wait" ELSE "emit"
  BY DEF OnDbgMsg, cacheVars, historyVars
<1>3. PICK nb \in Nat : nb = Len(mBuffDesc)
  BY <1>1, LenProperties
<1>4. PICK ns \in Nat : ns = Len(stored)
  BY <1>1, LenProperties
<1>5. PICK nr \in Nat \ {0} : nr = Len(result)
  BY <1>1, EmptySeq
<1>6. Len(result') = nr - 1 /\ \A k \in 1 .. nr - 1 : result'[k] = result[k + 1]
  BY <1>1, <1>2, <1>5, HeadTailProperties
<1>7. ASSUME NEW k \in 1 .. nr - 1
      PROVE  result'[k] = NodeOf(stored[ns - nb - (nr - 1) + k])
  <2>1. k + 1 \in 1 .. nr /\ ns - nb - nr + (k + 1) = ns - nb - (nr - 1) + k
    OBVIOUS
  <2>2. result[k + 1] = NodeOf(stored[ns - nb - nr + (k + 1)])
    BY <1>3, <1>4, <1>5, <2>1 DEF WaitingAreStored, InResult
  <2> QED
    BY <1>6, <2>1, <2>2
<1>8. InResult'
  BY <1>2, <1>3, <1>4, <1>6, <1>7 DEF InResult
<1>9. InBuffer'
  BY <1>2 DEF WaitingAreStored, InBuffer
<1>10. Len(result') + Len(mBuffDesc') <= Len(stored')
  BY <1>2, <1>3, <1>4, <1>5, <1>6 DEF WaitingAreStored
<1> QED
  BY <1>2, <1>8, <1>9, <1>10 DEF WaitingAreStored

(***************************************************************************)
(* NothingIsTorn: a message that PushStrToCache stored stays whole and in  *)
(* its place until it is shown, whatever is copied over the bytes of those *)
(* that were taken out (DbgMsg.cpp:174-178, 208-228).                      *)
(***************************************************************************)
THEOREM NothingIsTorn == Spec => []WaitingAreStored
<1>1. Init => WaitingAreStored
  BY DEF Init, WaitingAreStored, InBuffer, InResult
<1>2. IInv /\ WaitingAreStored /\ [Next]_vars => WaitingAreStored'
  <2> SUFFICES ASSUME IInv, WaitingAreStored, [Next]_vars PROVE WaitingAreStored'
    OBVIOUS
  <2>1. CASE WaitNotify
    BY <2>1 DEF WaitNotify, historyVars, WaitingAreStored, InBuffer, InResult
  <2>2. CASE UNCHANGED <<mBuffer, mBuffDesc, cpc, result, stored>>
    BY <2>2 DEF WaitingAreStored, InBuffer, InResult
  <2> QED
    BY <2>1, <2>2, PushKeepsWaiting, TakeKeepsWaiting, ShowKeepsWaiting
    DEF Next, WriterStep, DbgThread, CacheThread, Enter, GiveUp, TakeAck,
        WritePid, WriteText, Signal, SetAckEvents, WaitReady, Poll, PollDone,
        ReadPid, vars, cacheVars, showVars, historyVars
<1> QED
  BY InvariantHolds, <1>1, <1>2, PTL DEF Spec

-----------------------------------------------------------------------------
(* What is shown.                                                          *)

Nodes(messages) == [i \in 1 .. Len(messages) |-> NodeOf(messages[i])]

\* The node of a message is a string with the pid of a program.
LEMMA NodeTyped ==
  ASSUME NEW m \in Message
  PROVE  NodeOf(m) \in Node
<1>1. m.mPid \in Pid /\ m.text \in Text /\ TextLen[m.text] \in Nat
  BY PidAndText DEF Message
<1> DEFINE content == [k \in 1 .. TextLen[m.text] |-> <<m.text, k>>]
<1>2. content \in [1 .. TextLen[m.text] -> Char]
  BY <1>1 DEF Char
<1>3. content \in Seq(Char)
  BY <1>1, <1>2, FunctionIsSeq
<1> QED
  BY <1>1, <1>3 DEF NodeOf, Node

LEMMA NodesOfMessages ==
  ASSUME NEW ms \in Seq(Message)
  PROVE  Nodes(ms) \in Seq(Node) /\ Len(Nodes(ms)) = Len(ms)
<1>1. Len(ms) \in Nat /\ \A i \in 1 .. Len(ms) : NodeOf(ms[i]) \in Node
  BY LenProperties, ElementOfSeq, NodeTyped
<1>2. Nodes(ms) \in [1 .. Len(ms) -> Node]
  BY <1>1 DEF Nodes
<1>3. Nodes(ms) \in Seq(Node)
  BY <1>1, <1>2, FunctionIsSeq
<1>4. PICK l \in Nat : l = Len(Nodes(ms)) /\ DOMAIN Nodes(ms) = 1 .. l
  BY <1>3, LenProperties
<1>5. 1 .. l = 1 .. Len(ms)
  BY <1>2, <1>4
<1>6. l = Len(ms)
  BY <1>1, <1>5
<1> QED
  BY <1>3, <1>4, <1>6

LEMMA NodesOfAppend ==
  ASSUME NEW ms \in Seq(Message), NEW m \in Message
  PROVE  Nodes(Append(ms, m)) = Append(Nodes(ms), NodeOf(m))
<1>1. PICK n \in Nat : n = Len(ms)
  BY LenProperties
<1>2. PICK r : r = Append(ms, m)
  OBVIOUS
<1>3. /\ r \in Seq(Message) /\ Len(r) = n + 1 /\ r[n + 1] = m
      /\ \A i \in 1 .. n : r[i] = ms[i]
  BY <1>1, <1>2, AppendProperties
<1>4. PICK a : a = Nodes(ms)
  OBVIOUS
<1>5. a \in Seq(Node) /\ Len(a) = n /\ NodeOf(m) \in Node
  BY <1>1, <1>4, NodesOfMessages, NodeTyped
<1>6. PICK b : b = Append(a, NodeOf(m))
  OBVIOUS
<1>7. /\ b \in Seq(Node) /\ Len(b) = n + 1 /\ b[n + 1] = NodeOf(m)
      /\ \A i \in 1 .. n : b[i] = a[i]
  BY <1>5, <1>6, AppendProperties
<1>8. PICK c : c = Nodes(r)
  OBVIOUS
<1>9. c \in Seq(Node) /\ Len(c) = n + 1
  BY <1>3, <1>8, NodesOfMessages
<1>10. ASSUME NEW i \in 1 .. n + 1 PROVE c[i] = b[i]
  <2>1. c[i] = NodeOf(r[i])
    BY <1>3, <1>8 DEF Nodes
  <2>2. CASE i = n + 1
    BY <1>3, <1>7, <2>1, <2>2
  <2>3. CASE i \in 1 .. n
    <3>1. a[i] = NodeOf(ms[i])
      BY <1>1, <1>4, <2>3 DEF Nodes
    <3> QED
      BY <1>3, <1>7, <2>1, <2>3, <3>1
  <2> QED
    BY <2>2, <2>3
<1>11. c = b
  BY <1>7, <1>9, <1>10, SeqEqual
<1> QED
  BY <1>2, <1>4, <1>6, <1>8, <1>11

Alien == {n \in Node : n.mPid # OwnPid}

\* What Select does to one node, and to two lists of nodes.
LEMMA ForeignFacts ==
  /\ Foreign(<<>>) = <<>>
  /\ \A s \in Seq(Node) : Foreign(s) \in Seq(Node)
  /\ \A s \in Seq(Node), e \in Node :
       Foreign(Append(s, e)) = IF e.mPid # OwnPid THEN Append(Foreign(s), e)
                               ELSE Foreign(s)
  /\ \A s \in Seq(Node), t \in Seq(Node) : Foreign(s \o t) = Foreign(s) \o Foreign(t)
<1>1. \A s : Foreign(s) = Select(s, Alien)
  BY DEF Foreign, Alien
<1>2. Foreign(<<>>) = <<>>
  BY <1>1, SelectEmpty
<1>3. ASSUME NEW s \in Seq(Node) PROVE Foreign(s) \in Seq(Node)
  <2>1. Select(s, Alien) \in Seq(Node \cap Alien) /\ Node \cap Alien \subseteq Node
    BY SelectType
  <2> QED
    BY <1>1, <2>1, SeqMonotonic
<1>4. ASSUME NEW s \in Seq(Node), NEW e \in Node
      PROVE  Foreign(Append(s, e)) = IF e.mPid # OwnPid THEN Append(Foreign(s), e)
                                     ELSE Foreign(s)
  <2>1. e \in Alien <=> e.mPid # OwnPid
    BY DEF Alien
  <2>2. Select(Append(s, e), Alien) = IF e \in Alien THEN Append(Select(s, Alien), e)
                                      ELSE Select(s, Alien)
    BY SelectAppend
  <2> QED
    BY <1>1, <2>1, <2>2
<1>5. ASSUME NEW s \in Seq(Node), NEW t \in Seq(Node)
      PROVE  Foreign(s \o t) = Foreign(s) \o Foreign(t)
  <2>1. Select(s \o t, Alien) = Select(s, Alien) \o Select(t, Alien)
    <3> HIDE DEF Alien
    <3> QED
      BY SelectConcat
  <2> QED
    BY <1>1, <2>1
<1> QED
  BY <1>2, <1>3, <1>4, <1>5

\* One message more at the end of three lists in a row.
LEMMA AppendToLast ==
  ASSUME NEW T, NEW a \in Seq(T), NEW b \in Seq(T), NEW c \in Seq(T), NEW e \in T
  PROVE  a \o b \o Append(c, e) = Append(a \o b \o c, e)
<1>1. a \o b \in Seq(T)
  BY ConcatProperties
<1> QED
  BY <1>1, AppendAcross

\* What the cache holds, as nodes of the messages that were stored last.
LEMMA CacheIsStored ==
  ASSUME IInv, WaitingAreStored
  PROVE  CacheNodes = [k \in 1 .. Len(mBuffDesc) |->
                         NodeOf(stored[Len(stored) - Len(mBuffDesc) + k])]
BY DEF CacheNodes, NodeAt, Cut, WaitingAreStored, InBuffer

LEMMA CacheIsStoredNext ==
  ASSUME WaitingAreStored'
  PROVE  CacheNodes' = [k \in 1 .. Len(mBuffDesc') |->
                          NodeOf(stored'[Len(stored') - Len(mBuffDesc') + k])]
BY DEF CacheNodes, NodeAt, Cut, WaitingAreStored, InBuffer

Lossless == Foreign(Nodes(stored)) = shown \o Foreign(result) \o Foreign(CacheNodes)

LEMMA LosslessIs == Lossless <=> CacheLossless
BY DEF Lossless, CacheLossless, Nodes

LEMMA ListsTyped ==
  ASSUME IInv
  PROVE  /\ stored \in Seq(Message) /\ shown \in Seq(Node) /\ result \in Seq(Node)
         /\ mBuffDesc \in Seq(Desc)
         /\ CacheNodes \in Seq(Node) /\ Nodes(stored) \in Seq(Node)
         /\ Foreign(result) \in Seq(Node) /\ Foreign(CacheNodes) \in Seq(Node)
<1>1. /\ stored \in Seq(Message) /\ shown \in Seq(Node) /\ result \in Seq(Node)
      /\ mBuffDesc \in Seq(Desc)
  BY DEF IInv, TypeOK, HistoryTypes, ShowTypes, CacheTypes
<1>2. CacheNodes \in Seq(Node) /\ Nodes(stored) \in Seq(Node)
  BY <1>1, NodesTyped, NodesOfMessages DEF IInv
<1> QED
  BY <1>1, <1>2, ForeignFacts

LEMMA PushKeepsLossless ==
  ASSUME IInv, WaitingAreStored, Lossless, PushStrToCache
  PROVE  Lossless'
<1> DEFINE text == pageText[Head(set1)]
           desc == [mPid |-> pidArg, mStartPos |-> mCurPos, mLength |-> TextLen[text]]
           message == [mPid |-> pidArg, text |-> text]
<1>1. result' = result /\ shown' = shown
  BY DEF PushStrToCache, showVars
<1>2. message \in Message
  <2>1. Head(set1) \in Channel
    BY HeadTailProperties DEF IInv, TypeOK, DbgTypes, PushStrToCache
  <2> QED
    BY <2>1 DEF IInv, TypeOK, OsTypes, DbgTypes, Message
<1>3. WaitingAreStored'
  BY PushKeepsWaiting
<1>4. PICK nb \in Nat : nb = Len(mBuffDesc)
  BY ListsTyped, LenProperties
<1>5. PICK ns \in Nat : ns = Len(stored)
  BY ListsTyped, LenProperties
<1>6. nb <= ns
  <2>1. Len(result) \in Nat /\ Len(result) + Len(mBuffDesc) <= Len(stored)
    BY ListsTyped, LenProperties DEF WaitingAreStored
  <2> QED
    BY <1>4, <1>5, <2>1
<1>7. CacheNodes = [k \in 1 .. nb |-> NodeOf(stored[ns - nb + k])]
  BY <1>4, <1>5, CacheIsStored
<1>8. CASE ~Fits(text)
  <2>1. mBuffDesc' = mBuffDesc /\ stored' = stored
    BY <1>8 DEF PushStrToCache
  <2>2. CacheNodes' = CacheNodes
    BY <1>3, <1>4, <1>5, <1>7, <2>1, CacheIsStoredNext
  <2> QED
    BY <1>1, <2>1, <2>2 DEF Lossless
<1>9. CASE Fits(text)
  <2>1. mBuffDesc' = Append(mBuffDesc, desc) /\ stored' = Append(stored, message)
    BY <1>9 DEF PushStrToCache
  <2>2. desc \in Desc
    <3>1. pidArg \in Pid /\ mCurPos \in Nat
      BY DEF IInv, TypeOK, DbgTypes, CacheTypes
    <3>2. TextLen[text] \in Nat
      BY <1>2, PidAndText DEF Message
    <3> QED
      BY <3>1, <3>2 DEF Desc
  <2> HIDE DEF text, desc, message
  <2>3. Len(mBuffDesc') = nb + 1
    BY <1>4, <2>1, <2>2, ListsTyped, AppendProperties
  <2>4. /\ Len(stored') = ns + 1 /\ stored'[ns + 1] = message
        /\ \A k \in 1 .. ns : stored'[k] = stored[k]
    BY <1>2, <1>5, <2>1, ListsTyped, AppendProperties
  <2>5. CacheNodes' = [k \in 1 .. nb + 1 |-> NodeOf(stored'[(ns + 1) - (nb + 1) + k])]
    BY <1>3, <2>3, <2>4, CacheIsStoredNext
  <2>6. NodeOf(message) \in Node
    BY <1>2, NodeTyped
  <2>7. CacheNodes' = Append(CacheNodes, NodeOf(message))
    <3>1. PICK a : a = CacheNodes
      OBVIOUS
    <3>2. a \in Seq(Node) /\ Len(a) = nb
      <4>1. a \in Seq(Node)
        BY <3>1, ListsTyped
      <4>2. PICK l \in Nat : l = Len(a) /\ DOMAIN a = 1 .. l
        BY <4>1, LenProperties
      <4>3. 1 .. l = 1 .. nb
        BY <1>7, <3>1, <4>2
      <4>4. l = nb
        BY <4>3
      <4> QED
        BY <4>1, <4>2, <4>4
    <3>3. PICK b : b = Append(a, NodeOf(message))
      OBVIOUS
    <3>4. /\ b \in Seq(Node) /\ Len(b) = nb + 1 /\ b[nb + 1] = NodeOf(message)
          /\ \A k \in 1 .. nb : b[k] = a[k]
      BY <2>6, <3>2, <3>3, AppendProperties
    <3>5. ASSUME NEW k \in 1 .. nb + 1
          PROVE  NodeOf(stored'[(ns + 1) - (nb + 1) + k]) = b[k]
      <4>1. CASE k = nb + 1
        <5>1. (ns + 1) - (nb + 1) + k = ns + 1
          BY <4>1
        <5> QED
          BY <2>4, <3>4, <4>1, <5>1
      <4>2. CASE k \in 1 .. nb
        <5>1. (ns + 1) - (nb + 1) + k = ns - nb + k /\ ns - nb + k \in 1 .. ns
          BY <1>6, <4>2
        <5>2. a[k] = NodeOf(stored[ns - nb + k])
          BY <1>7, <3>1, <4>2
        <5> QED
          BY <2>4, <3>4, <4>2, <5>1, <5>2
      <4> QED
        BY <4>1, <4>2
    <3>6. b = [k \in 1 .. nb + 1 |-> b[k]]
      <4>1. DOMAIN b = 1 .. nb + 1 /\ b \in [1 .. nb + 1 -> Node]
        BY <3>4, LenProperties
      <4> QED
        BY <4>1
    <3>7. CacheNodes' = [k \in 1 .. nb + 1 |-> b[k]]
      BY <2>5, <3>5
    <3> QED
      BY <3>1, <3>3, <3>6, <3>7
  <2>8. Nodes(stored') = Append(Nodes(stored), NodeOf(message))
    BY <1>2, <2>1, ListsTyped, NodesOfAppend
  <2>9. PICK e \in Node : e = NodeOf(message)
    BY <2>6
  <2>10. /\ Foreign(Nodes(stored')) = IF e.mPid # OwnPid
                                      THEN Append(Foreign(Nodes(stored)), e)
                                      ELSE Foreign(Nodes(stored))
         /\ Foreign(CacheNodes') = IF e.mPid # OwnPid
                                   THEN Append(Foreign(CacheNodes), e)
                                   ELSE Foreign(CacheNodes)
    BY <2>7, <2>8, <2>9, ListsTyped, ForeignFacts
  <2>11. shown \o Foreign(result) \o Append(Foreign(CacheNodes), e)
           = Append(shown \o Foreign(result) \o Foreign(CacheNodes), e)
    <3>1. PICK a \in Seq(Node), b \in Seq(Node), c \in Seq(Node) :
            a = shown /\ b = Foreign(result) /\ c = Foreign(CacheNodes)
      BY ListsTyped
    <3>2. a \o b \o Append(c, e) = Append(a \o b \o c, e)
      BY AppendToLast
    <3> QED
      BY <3>1, <3>2
  <2> QED
    BY <1>1, <2>10, <2>11 DEF Lossless
<1> QED
  BY <1>8, <1>9

LEMMA TakeKeepsLossless ==
  ASSUME IInv, WaitingAreStored, Lossless, GetStrSetFromCache
  PROVE  Lossless'
<1>1. /\ result = <<>> /\ result' = CacheNodes /\ mBuffDesc' = <<>>
      /\ stored' = stored /\ shown' = shown
  BY DEF WaitingAreStored, GetStrSetFromCache, historyVars
<1>2. CacheNodes' = <<>>
  <2>1. CacheNodes' = [k \in 1 .. 0 |-> NodeAt(mBuffDesc[k])']
    BY <1>1 DEF CacheNodes
  <2> QED
    BY <2>1
<1>3. Foreign(result) = <<>> /\ Foreign(CacheNodes)' = <<>>
  BY <1>1, <1>2, ForeignFacts DEF Foreign
<1>4. shown \o <<>> = shown
  BY ListsTyped, ConcatEmptySeq
<1>5. shown \o Foreign(CacheNodes) \o <<>> = shown \o Foreign(CacheNodes)
  <2>1. shown \o Foreign(CacheNodes) \in Seq(Node)
    BY ListsTyped, ConcatProperties
  <2> QED
    BY <2>1, ConcatEmptySeq
<1>6. Foreign(Nodes(stored)) = shown \o Foreign(CacheNodes)
  BY <1>3, <1>4 DEF Lossless
<1> QED
  BY <1>1, <1>2, <1>3, <1>5, <1>6, ForeignFacts DEF Lossless

LEMMA ShowKeepsLossless ==
  ASSUME IInv, WaitingAreStored, Lossless, OnDbgMsg
  PROVE  Lossless'
<1>1. /\ UNCHANGED <<mBuffer, mBuffDesc, stored>> /\ result' = Tail(result)
      /\ shown' = IF Head(result).mPid = OwnPid THEN shown
                  ELSE Append(shown, Head(result))
      /\ result # <<>>
  BY DEF OnDbgMsg, cacheVars, historyVars, IInv, TypeOK, ShowTypes
<1>2. CacheNodes' = CacheNodes
  BY <1>1 DEF CacheNodes, NodeAt
<1>3. PICK h \in Node, t \in Seq(Node) : h = Head(result) /\ t = Tail(result)
  BY <1>1, ListsTyped, HeadTailProperties
<1>4. result = <<h>> \o t
  BY <1>1, <1>3, ListsTyped, HeadTailAppend, HeadTailProperties, ConcatSimplifications
<1>5. <<h>> \in Seq(Node) /\ <<h>> = Append(<<>>, h)
  BY EmptySeq
<1>6. Foreign(<<h>>) = IF h.mPid # OwnPid THEN <<h>> ELSE <<>>
  BY ZenonT(40), <1>5, EmptySeq, ForeignFacts
<1>7. PICK fh \in Seq(Node), ft \in Seq(Node), fc \in Seq(Node) :
        fh = Foreign(<<h>>) /\ ft = Foreign(t) /\ fc = Foreign(CacheNodes)
  BY <1>5, ListsTyped, ForeignFacts
<1>8. Foreign(result) = fh \o ft
  BY <1>4, <1>5, <1>7, ForeignFacts
<1>9. shown' = shown \o fh
  <2>1. CASE h.mPid = OwnPid
    BY <1>1, <1>3, <1>6, <1>7, <2>1, ListsTyped, ConcatEmptySeq
  <2>2. CASE h.mPid # OwnPid
    BY <1>1, <1>3, <1>6, <1>7, <2>2, ListsTyped, AppendIsConcat
  <2> QED
    BY <2>1, <2>2
<1>10. shown \o (fh \o ft) = (shown \o fh) \o ft
  <2>1. shown \in Seq(Node)
    BY ListsTyped
  <2> QED
    BY <1>7, <2>1, ConcatAssociative, SMTT(60)
<1> QED
  BY <1>1, <1>2, <1>3, <1>7, <1>8, <1>9, <1>10 DEF Lossless

(***************************************************************************)
(* CacheIsSound: for any messages, programs, channels and size of the      *)
(* buffer, what PushStrToCache stored and LogView did not print itself is  *)
(* shown, in the list of CacheThread or in the buffer: each message whole, *)
(* once and in order, and the descriptors fit the bytes they describe.     *)
(***************************************************************************)
THEOREM NothingIsLost == Spec => []CacheIsSound
<1>1. Init => WaitingAreStored
  BY DEF Init, WaitingAreStored, InBuffer, InResult
<1>2. Init => Lossless
  <2> SUFFICES ASSUME Init PROVE Lossless
    OBVIOUS
  <2>1. stored = <<>> /\ result = <<>> /\ mBuffDesc = <<>> /\ shown = <<>>
    BY DEF Init
  <2>2. Nodes(stored) = <<>> /\ CacheNodes = <<>>
    BY <2>1 DEF Nodes, CacheNodes
  <2>3. <<>> \o <<>> = <<>>
    BY EmptySeq, ConcatEmptySeq
  <2> QED
    BY <2>1, <2>2, <2>3, ForeignFacts DEF Lossless
<1>3. IInv /\ WaitingAreStored /\ Lossless /\ [Next]_vars => Lossless'
  <2> SUFFICES ASSUME IInv, WaitingAreStored, Lossless, [Next]_vars PROVE Lossless'
    OBVIOUS
  <2>1. CASE UNCHANGED <<mBuffer, mBuffDesc, result, shown, stored>>
    BY <2>1 DEF Lossless, Nodes, CacheNodes, NodeAt, Foreign
  <2> QED
    BY <2>1, PushKeepsLossless, TakeKeepsLossless, ShowKeepsLossless
    DEF Next, WriterStep, DbgThread, CacheThread, Enter, GiveUp, TakeAck,
        WritePid, WriteText, Signal, SetAckEvents, WaitReady, Poll, PollDone,
        ReadPid, WaitNotify, vars, cacheVars, showVars, historyVars
<1>4. IInv /\ Lossless => CacheIsSound
  BY LosslessIs DEF IInv, CacheIsSound
<1> QED
  BY InvariantHolds, NothingIsTorn, <1>2, <1>3, <1>4, PTL DEF Spec

=============================================================================
