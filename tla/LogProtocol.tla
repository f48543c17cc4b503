----------------------------- MODULE LogProtocol -----------------------------
(***************************************************************************)
(* The framing both ends of a LogSniff connection use: CLogProtocol        *)
(* (LogLib/LogProtocol.cpp).  A packet is a sequence of words; one word    *)
(* stands for one four-byte field of LpHeader, or for one field of a       *)
(* frame's content, and lengths count words.                               *)
(***************************************************************************)
EXTENDS Naturals, Sequences

LogMagic == 1000          \* "logs", longer than any packet when read as a length
em_cmd_register == 0
em_cmd_log == 3

HeaderSize == 3           \* mMagic, mCommand, mLength

\* Mutant: mLength keeps the zero of LpHeader's constructor.
EncodeNoLength(command, content) == <<LogMagic, command, 0>> \o content

Encode(command, content) ==
  <<LogMagic, command, HeaderSize + Len(content)>> \o content

EncodeRegister(version) == Encode(em_cmd_register, <<version>>)

EncodeLog(logPath, logContent) ==
  Encode(em_cmd_log, <<Len(logPath)>> \o logPath \o <<Len(logContent)>> \o logContent)

\* The lengths in the content are trusted: one that is too large makes DecodeLog
\* read behind the string.  What it finds there is no path and no line; the empty
\* sequence stands for it.
DecodeLog(content) ==
  LET Read(pos) ==
        IF pos \in DOMAIN content /\ pos + content[pos] <= Len(content)
        THEN SubSeq(content, pos + 1, pos + content[pos]) ELSE <<>>
      path == Read(1)
  IN  [mFilePath |-> path, mContent |-> Read(Len(path) + 2)]

(***************************************************************************)
(* GetRecvResult takes frame after frame.  A bad magic behind them empties *)
(* the packet and the list of frames.  A header whose mLength is zero is   *)
(* taken over and over: the loop never ends, state "spin".                 *)
(***************************************************************************)
GetRecvResult(packet) ==
  LET left(pos)   == Len(packet) + 1 - pos
      length(pos) == packet[pos + 2]
      bad(pos)    == left(pos) >= HeaderSize /\ packet[pos] # LogMagic
      whole(pos)  == /\ left(pos) >= HeaderSize /\ packet[pos] = LogMagic
                     /\ left(pos) >= length(pos)
      taken(pos)  == whole(pos) /\ length(pos) # 0
      frame(pos)  == [mCommand |-> packet[pos + 1],
                      mContent |-> SubSeq(packet, pos + HeaderSize,
                                          pos + length(pos) - 1)]
      behind[pos \in 1 .. Len(packet) + 1] ==
        IF taken(pos) THEN behind[pos + length(pos)] ELSE pos
      frames[pos \in 1 .. Len(packet) + 1] ==
        IF taken(pos) THEN <<frame(pos)>> \o frames[pos + length(pos)] ELSE <<>>
      end == behind[1]
  IN  CASE bad(end)   -> [state |-> "bad", packet |-> <<>>, result |-> <<>>]
        [] whole(end) -> [state |-> "spin", packet |-> <<>>, result |-> <<>>]
        [] OTHER      -> [state |-> "wait", packet |-> SubSeq(packet, end, Len(packet)),
                          result |-> frames[1]]

=============================================================================
