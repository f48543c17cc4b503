------------------------------ MODULE LogTail ------------------------------
(***************************************************************************)
(* How the Linux agent tails one log file: CLogMonitor::FileNotifyProc and *)
(* DispatchLog (LogSniff/LogMonitor.cpp), called by the inotify thread for *)
(* every event on the file, while another program appends to the file,     *)
(* truncates it, renames it away, creates it anew or deletes it, and while *)
(* an fopen may fail and a read of the events may be cut short.            *)
(*                                                                         *)
(* A byte of the log is a number, given in the order of writing, so a line *)
(* that is lost, repeated or torn shows; newline holds those bytes that    *)
(* end a line.  The file has one name; fd is the handle DispatchLog holds, *)
(* which keeps the old contents when the name is unlinked or reused.       *)
(***************************************************************************)
EXTENDS Selecting, SequencesExt

CONSTANTS
  MaxBytes,    \* bytes the writing program appends in a behaviour
  MaxClears,   \* truncations, renames and deletions in a behaviour
  MaxFaults,   \* failed fopens of a file that is there, and reads cut short
  MaxEvents,   \* inotify events queued; further ones merge with the last
  ChunkSize    \* size of the fread buffer (1024 in the source)

ASSUME LogTailConstants ==
  /\ MaxBytes \in Nat \ {0} /\ MaxClears \in Nat /\ MaxFaults \in Nat
  /\ MaxEvents \in Nat \ {0} /\ ChunkSize \in Nat \ {0}

VARIABLES
  \* the file system and the program that writes the log
  newline, present, data, written, clears, faults, events,
  \* start-up thread: InitMonitor
  init,
  \* inotify thread: program counter and the locals of the handler
  pc, st_size, str, fd, orphan,
  \* LogFileInfo of the file in mLogCache
  known, mLastPos, mLastCache,
  \* the lines sent to the listeners, and what the properties remember
  dispatched, ghost

fsVars == <<newline, present, data, written, clears>>
handlerVars == <<st_size, str, fd, orphan>>
infoVars == <<known, mLastPos, mLastCache>>
vars == <<fsVars, faults, events, init, pc, handlerVars, infoVars,
          dispatched, ghost>>

Byte == 1 .. MaxBytes

TypeOK ==
  /\ newline \subseteq Byte
  /\ present \in BOOLEAN
  /\ data \in Seq(Byte) /\ orphan \in Seq(Byte) /\ str \in Seq(Byte)
  /\ written \in 0 .. MaxBytes /\ clears \in 0 .. MaxClears
  /\ faults \in 0 .. MaxFaults /\ events \in 0 .. MaxEvents
  /\ init \in {"enum", "watch", "register", "serve"}
  /\ pc \in {"wait", "stat", "open", "read", "send"}
  /\ fd \in {"closed", "named", "unlinked"}
  /\ known \in BOOLEAN
  /\ st_size \in 0 .. MaxBytes /\ mLastPos \in 0 .. MaxBytes
  /\ mLastCache \in Seq(Byte)
  /\ dispatched \in Seq(Seq(Byte))
  /\ ~known => mLastPos = 0 /\ mLastCache = <<>>

(***************************************************************************)
(* The split of DispatchLog: the lines that are complete, without their    *)
(* newline and without the empty ones, and the tail that stays cached; ends *)
(* are the bytes that are a newline.                                       *)
(***************************************************************************)
SplitByte(acc, b, ends) ==
  IF b \notin ends THEN [acc EXCEPT !.rest = Append(@, b)]
  ELSE [lines |-> IF acc.rest = <<>> THEN acc.lines
                  ELSE Append(acc.lines, acc.rest),
        rest  |-> <<>>]

Split(s, ends) ==
  LET cut[n \in 0 .. Len(s)] ==
        IF n = 0 THEN [lines |-> <<>>, rest |-> <<>>]
        ELSE SplitByte(cut[n - 1], s[n], ends)
  IN  cut[Len(s)]

-----------------------------------------------------------------------------
(* The log's writer and the file system (external).                        *)

Watched == init \in {"register", "serve"}

Notify ==
  events' = IF Watched /\ events < MaxEvents THEN events + 1 ELSE events

\* A handler that has the file open keeps the contents it opened.
Unlinked ==
  /\ fd' = IF fd = "named" THEN "unlinked" ELSE fd
  /\ orphan' = IF fd = "named" THEN data ELSE orphan

\* missed: that the file went away, the last time it did, reaches no one.
Cleared(missed) ==
  /\ clears < MaxClears
  /\ clears' = clears + 1
  /\ ghost' = [ghost EXCEPT !.cleared = @ \/ known, !.missed = missed]

WriterOnly ==
  UNCHANGED <<newline, faults, init, pc, st_size, str, infoVars, dispatched>>

AppendByte ==
  /\ present /\ written < MaxBytes
  /\ written' = written + 1
  /\ data' = Append(data, written + 1)
  /\ Notify /\ WriterOnly
  /\ UNCHANGED <<present, clears, fd, orphan, ghost>>

Truncate ==
  /\ present /\ data # <<>>
  /\ data' = <<>>
  /\ Cleared(ghost.missed) /\ Notify /\ WriterOnly
  /\ UNCHANGED <<present, written, fd, orphan>>

\* NOTIFY_MASK has no IN_MOVED_FROM: of a rename alone nothing is told.
Rename ==
  /\ present
  /\ present' = FALSE /\ data' = <<>>
  /\ Cleared(TRUE) /\ Unlinked /\ WriterOnly
  /\ UNCHANGED <<written, events>>

Delete ==
  /\ present
  /\ present' = FALSE /\ data' = <<>>
  /\ Cleared(init # "serve") /\ Unlinked /\ Notify /\ WriterOnly
  /\ UNCHANGED written

Create ==
  /\ ~present
  /\ present' = TRUE
  /\ Notify /\ WriterOnly
  /\ UNCHANGED <<data, written, clears, fd, orphan, ghost>>

Writer == AppendByte \/ Truncate \/ Rename \/ Delete \/ Create

-----------------------------------------------------------------------------
(* The start-up thread: InitMonitor.                                       *)

\* EnumFiles: the part of a file that is already there is not sent.
FileEnumProc ==
  /\ init = "enum"
  /\ init' = "watch"
  /\ known' = present
  /\ mLastPos' = Len(data)
  /\ ghost' = [ghost EXCEPT !.skipped = ToSet(data)]
  /\ UNCHANGED <<fsVars, faults, events, pc, handlerVars, mLastCache,
                 dispatched>>

\* CFileNotify::Register: the watch first, then the callback's entry.
MonitorPath ==
  /\ init = "watch"
  /\ init' = "register"
  /\ UNCHANGED <<fsVars, faults, events, pc, handlerVars, infoVars, dispatched,
                 ghost>>

RegisterCallback ==
  /\ init = "register"
  /\ init' = "serve"
  /\ ghost' = [ghost EXCEPT !.blind = written]
  /\ UNCHANGED <<fsVars, faults, events, pc, handlerVars, infoVars,
                 dispatched>>

-----------------------------------------------------------------------------
(* The inotify thread: OnFileEvent, FileNotifyProc, DispatchLog.           *)

\* An event that is read before the callback is registered reaches no one.
OnFileEvent ==
  /\ pc = "wait" /\ events > 0
  /\ events' = events - 1
  /\ pc' = IF init = "serve" THEN "stat" ELSE "wait"
  /\ UNCHANGED <<fsVars, faults, init, handlerVars, infoVars, dispatched,
                 ghost>>

\* CFileNotify::run stops at an event without a name (a watch that ended) and
\* throws away the events behind it in its buffer.
RestThrownAway ==
  /\ pc = "wait" /\ faults < MaxFaults
  /\ events' \in 0 .. events - 1
  /\ faults' = faults + 1
  /\ ghost' = [ghost EXCEPT !.missed = @ \/ ~present, !.thrown = written]
  /\ UNCHANGED <<fsVars, init, pc, handlerVars, infoVars, dispatched>>

\* Mutant: the comparison with mLastPos is off by one.
StatIgnoresOneByte ==
  /\ pc = "stat" /\ present
  /\ known' = TRUE
  /\ st_size' = Len(data)
  /\ pc' = IF Len(data) > mLastPos + 1 THEN "open" ELSE "wait"
  /\ UNCHANGED <<fsVars, faults, events, init, str, fd, orphan, mLastPos,
                 mLastCache, dispatched, ghost>>

StatFound ==
  /\ pc = "stat" /\ present
  /\ known' = TRUE
  /\ st_size' = Len(data)
  /\ pc' = IF Len(data) > mLastPos THEN "open" ELSE "wait"
  /\ UNCHANGED <<fsVars, faults, events, init, str, fd, orphan, mLastPos,
                 mLastCache, dispatched, ghost>>

\* Mutant: a failed stat returns without touching mLogCache.
StatFailedKeepsEntry ==
  /\ pc = "stat" /\ ~present
  /\ pc' = "wait"
  /\ UNCHANGED <<fsVars, faults, events, init, handlerVars, infoVars,
                 dispatched, ghost>>

\* Mutant: the entry is marked free and its position survives.
StatFailedKeepsPosition ==
  /\ pc = "stat" /\ ~present
  /\ known' = FALSE
  /\ pc' = "wait"
  /\ UNCHANGED <<fsVars, faults, events, init, handlerVars, mLastPos,
                 mLastCache, dispatched, ghost>>

\* The entry is erased: if the file comes back, it is a new one.
StatFailed ==
  /\ pc = "stat" /\ ~present
  /\ known' = FALSE /\ mLastPos' = 0 /\ mLastCache' = <<>>
  /\ pc' = "wait"
  /\ ghost' = [ghost EXCEPT !.cleared = FALSE, !.overshot = FALSE,
                            !.epoch = Len(dispatched)]
  /\ UNCHANGED <<fsVars, faults, events, init, handlerVars, dispatched>>

Open ==
  /\ pc = "open" /\ present
  /\ fd' = "named" /\ str' = <<>>
  /\ pc' = "read"
  /\ UNCHANGED <<fsVars, faults, events, init, st_size, orphan, infoVars,
                 dispatched, ghost>>

\* The file is gone, or is there and cannot be opened: DispatchLog returns
\* without a word and its caller moves on over what was not read.
OpenFailed ==
  /\ pc = "open"
  /\ present => faults < MaxFaults
  /\ faults' = IF present THEN faults + 1 ELSE faults
  /\ mLastPos' = st_size
  /\ pc' = "wait"
  /\ ghost' = [ghost EXCEPT !.skipped =
       @ \cup {data[k] : k \in (mLastPos + 1 .. st_size) \cap DOMAIN data}]
  /\ UNCHANGED <<fsVars, events, init, handlerVars, known, mLastCache,
                 dispatched>>

FdData == IF fd = "named" THEN data ELSE orphan

\* One fread: a whole buffer when there is that much, whatever st_size said.
Chunk ==
  LET pos == mLastPos + Len(str)
      end == IF pos + ChunkSize < Len(FdData) THEN pos + ChunkSize
             ELSE Len(FdData)
  IN  SubSeq(FdData, pos + 1, end)

\* Mutant: the loop around fread is forgotten.
ReadOnce ==
  /\ pc = "read"
  /\ str' = str \o Chunk
  /\ pc' = "send"
  /\ UNCHANGED <<fsVars, faults, events, init, st_size, fd, orphan, infoVars,
                 dispatched, ghost>>

ReadChunk ==
  /\ pc = "read"
  /\ str' = str \o Chunk
  /\ pc' = IF Chunk = <<>> \/ mLastPos + Len(str') >= st_size
           THEN "send" ELSE "read"
  /\ UNCHANGED <<fsVars, faults, events, init, st_size, fd, orphan, infoVars,
                 dispatched, ghost>>

SendLines ==
  /\ pc = "send"
  /\ LET cut == Split(mLastCache \o str, newline)
     IN  /\ dispatched' = dispatched \o cut.lines
         /\ mLastCache' = cut.rest
  /\ mLastPos' = st_size
  /\ fd' = "closed" /\ orphan' = <<>> /\ str' = <<>>
  /\ pc' = "wait"
  /\ ghost' = [ghost EXCEPT !.overshot = @ \/ mLastPos + Len(str) > st_size]
  /\ UNCHANGED <<fsVars, faults, events, init, st_size, known>>

NotifyThread ==
  \/ OnFileEvent \/ RestThrownAway \/ StatFound \/ StatFailed
  \/ Open \/ OpenFailed \/ ReadChunk \/ SendLines

-----------------------------------------------------------------------------
Init ==
  /\ newline \in SUBSET Byte
  /\ present \in BOOLEAN
  /\ written \in IF present THEN {0, 1} ELSE {0}
  /\ data = [k \in 1 .. written |-> k]
  /\ clears = 0 /\ faults = 0 /\ events = 0
  /\ init = "enum" /\ pc = "wait"
  /\ st_size = 0 /\ str = <<>> /\ fd = "closed" /\ orphan = <<>>
  /\ known = FALSE /\ mLastPos = 0 /\ mLastCache = <<>>
  /\ dispatched = <<>>
  /\ ghost = [cleared |-> FALSE, overshot |-> FALSE, missed |-> FALSE,
              skipped |-> {}, blind |-> 0, thrown |-> 0, epoch |-> 0]

Next ==
  \/ Writer
  \/ FileEnumProc \/ MonitorPath \/ RegisterCallback
  \/ NotifyThread

Spec == Init /\ [][Next]_vars

FairSpec ==
  Spec /\ WF_vars(FileEnumProc \/ MonitorPath \/ RegisterCallback)
       /\ WF_vars(NotifyThread)

-----------------------------------------------------------------------------
(* Properties.                                                             *)

(***************************************************************************)
(* NothingSkipped: while the file has only grown, every byte before        *)
(* mLastPos has been sent or waits in mLastCache for its newline, but for  *)
(* those that were there at start-up and those that an fopen failed to get *)
(* at (ghost.skipped).  FileNotifyProc moves mLastPos to st_size, whatever *)
(* DispatchLog did (LogMonitor.cpp:54): this says that a failed fopen is   *)
(* the only way in which it moves over what was not read.                  *)
(***************************************************************************)
Taken ==
  (UNION {ToSet(line) : line \in ToSet(dispatched)}) \cup ToSet(mLastCache)

NothingSkipped ==
  ~ghost.cleared =>
    /\ mLastPos <= Len(data)
    /\ \A k \in 1 .. mLastPos :
         data[k] \notin ghost.skipped \cup newline => data[k] \in Taken

(***************************************************************************)
(* WholeLinesInOrder: the lines sent for a file are the complete, not      *)
(* empty lines of the part before mLastPos, each once and in the file's    *)
(* order, as long as no fread went past st_size and the file only grew.    *)
(* Of that part the bytes skipped are cut out: what stands on both sides   *)
(* of a hole is sent as one line.                                          *)
(***************************************************************************)
Part == Select(SubSeq(data, 1, mLastPos), Byte \ ghost.skipped)

CompleteLines(s) ==
  {SubSeq(s, r[1], r[2]) : r \in
     {q \in (DOMAIN s) \X (DOMAIN s) :
        /\ q[1] <= q[2] /\ q[2] < Len(s) /\ s[q[2] + 1] \in newline
        /\ \A k \in q[1] .. q[2] : s[k] \notin newline
        /\ q[1] = 1 \/ s[q[1] - 1] \in newline}}

WholeLinesInOrder ==
  ~ghost.cleared /\ ~ghost.overshot =>
    LET sent == SubSeq(dispatched, ghost.epoch + 1, Len(dispatched))
    IN  /\ ToSet(sent) = CompleteLines(Part)
        /\ \A k \in 1 .. Len(sent) - 1 : sent[k][1] < sent[k + 1][1]

(***************************************************************************)
(* SentIsTheFile: both of these: up to mLastPos the agent has read all of  *)
(* the file that an fopen let it read and, while no fread went past        *)
(* st_size, sent its lines and no others (LogMonitor.cpp:54, 149, 163,     *)
(* 186-212).                                                               *)
(***************************************************************************)
SentIsTheFile == NothingSkipped /\ WholeLinesInOrder

(***************************************************************************)
(* NoStaleEntry: when a watched file is gone and its events are handled,   *)
(* mLogCache has no entry for it, so a file of that name that appears      *)
(* later is read from its first byte and not from an old mLastPos.  Not so *)
(* when no event told that it went (ghost.missed): it was renamed, it went *)
(* before the callback was registered, or the event was thrown away.       *)
(***************************************************************************)
NoStaleEntry ==
  init = "serve" /\ pc = "wait" /\ events = 0 /\ ~present /\ ~ghost.missed
    => ~known

(***************************************************************************)
(* CatchesUp: mLastPos gets past a byte appended after the callback is     *)
(* registered, unless the file is cleared under a known position.  The     *)
(* events are merged and the reads are raced by further writes, and still  *)
(* none is left behind; events that are thrown away are made good by the   *)
(* next append, and only when none comes do bytes stay unread.  That what  *)
(* mLastPos passes is sent, if the file opens, is SentIsTheFile.           *)
(***************************************************************************)
Unread == ToSet(SubSeq(data, mLastPos + 1, Len(data)))

CatchesUp ==
  \A b \in Byte :
    (init = "serve" /\ b > ghost.blind /\ b \in Unread)
      ~> (b \notin Unread \/ ghost.cleared \/ ghost.thrown = written)

(***************************************************************************)
(* SentLinesAreWhole: what DispatchLog sends as a line is consecutive      *)
(* bytes of the file, as "//send log by line" (LogMonitor.cpp:183) says.   *)
(* The code breaks it: fread takes up to 1024 bytes where st_size promised *)
(* fewer, mLastPos only moves to st_size, and the bytes in between are     *)
(* read again behind their first copy in mLastCache.                       *)
(***************************************************************************)
SentLinesAreWhole ==
  clears = 0 =>
    \A line \in ToSet(dispatched) :
      \A k \in 1 .. Len(line) - 1 : line[k + 1] = line[k] + 1

=============================================================================
