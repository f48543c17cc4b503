------------------------------ MODULE LocalTail ------------------------------
(***************************************************************************)
(* How LogView follows one file of a directory on its own machine:         *)
(* CLocalMonitor (LocalSniff/LocalMonitor.cpp) on CWinFileNotify           *)
(* (LocalSniff/WinFileNotify.cpp).  The user interface adds a directory: it*)
(* is enumerated twice, once for the position in each file and once for    *)
(* its size and time, then watched.  One thread learns of new files from   *)
(* ReadDirectoryChangesW, one compares size and time of all known files,   *)
(* the active ones each second, the passive ones each 30 seconds, and has  *)
(* the monitor read what was appended.                                     *)
(*                                                                         *)
(* A byte is a number in the order of writing.  The time of the last write *)
(* is a counter that may lag behind, as Windows writes it late.  The       *)
(* passage of an hour, by which a file becomes passive, may be seen at any *)
(* check.  A directory above the watched one can be added too: Register    *)
(* refuses it (IsPathInCache), after its files were enumerated again.      *)
(* Each open of the file may fail though it is there: another program has  *)
(* it for itself, or may read what this one may not.  No place retries.    *)
(* Lines are cut from mLastCache as LogTail cuts them; here received is    *)
(* all that was put in it.  A file that is rotated counts as truncated.    *)
(***************************************************************************)
EXTENDS Naturals, Sequences, SequencesExt

CONSTANTS
  MaxBytes,    \* bytes the writing program appends in a behaviour
  MaxClears,   \* truncations
  MaxAdds,     \* directories the user adds, the watched one and others above
  MaxFails,    \* opens of the file that fail
  ChunkSize    \* size of the fread buffer (1024 in the source)

VARIABLES
  \* the file and the program that writes it
  exists, data, written, wtime, clears,
  \* user interface: where it is in AddPath, and the calls so far
  ui, adds,
  \* ReadDirectoryChangesW: a request stands; a creation is to be reported
  posted, created,
  \* CWinFileNotify: is the directory in mIoSet, which set is the file in, and
  \* its FileCacheData
  mIoSet, fileSet, mLastSize, mLastWriteTime, mNewFile,
  \* LocalLogCache of the file, if mLogCache has it; mFileSize is mLastPos
  cached, mLastPos,
  \* thread of CheckFileChanged with the locals of FileNotify; orphan: its
  \* entry is no longer that of mLogCache
  pc, size, str, orphan,
  \* what the properties remember; skipped: the places in the file the position
  \* moved over though nothing was read
  received, start, skipped, unseen, fails

fileVars == <<exists, data, written, wtime, clears>>
uiVars == <<ui, adds>>
infoVars == <<fileSet, mLastSize, mLastWriteTime, mNewFile>>
entryVars == <<cached, mLastPos, received, start, skipped>>
localVars == <<size, str, orphan>>
vars == <<fileVars, uiVars, posted, created, mIoSet, infoVars, entryVars,
          pc, localVars, unseen, fails>>

Byte == 1 .. MaxBytes
NoSize == MaxBytes + 1     \* INVALID_FILE_SIZE, 0xFFFFFFFF: more than a file has

TypeOK ==
  /\ exists \in BOOLEAN /\ data \in Seq(Byte) /\ Len(data) <= MaxBytes
  /\ written \in 0 .. MaxBytes /\ wtime \in 1 .. 1 + MaxBytes + MaxClears
  /\ clears \in 0 .. MaxClears /\ adds \in 0 .. MaxAdds
  /\ ui \in {"idle", "enumerated", "loaded", "requested"}
  /\ posted \in BOOLEAN /\ created \in BOOLEAN /\ mIoSet \in BOOLEAN
  /\ fileSet \in {"none", "active", "passive"} /\ mNewFile \in BOOLEAN
  /\ mLastSize \in 0 .. NoSize /\ mLastWriteTime \in 0 .. wtime
  /\ cached \in BOOLEAN /\ mLastPos \in 0 .. MaxBytes
  /\ pc \in {"sleep", "stat", "read"} /\ size \in 0 .. MaxBytes
  /\ str \in Seq(Byte) /\ received \in Seq(Byte) /\ start \in 0 .. MaxBytes
  /\ orphan \in BOOLEAN /\ unseen \in BOOLEAN
  /\ skipped \subseteq Byte /\ fails \in 0 .. MaxFails
  /\ ~cached => mLastPos = 0 /\ received = <<>>

Locked == pc # "sleep"

\* fopen, and CreateFileA, of a file that is there.
OpensFile(ok) ==
  /\ ok \/ fails < MaxFails
  /\ fails' = IF ok THEN fails ELSE fails + 1

\* What CheckFileChanged takes for a change of the file.  Mutant: of its time only.
ChangedTime(time, length) == mNewFile \/ time # mLastWriteTime

Changed(time, length) ==
  mNewFile \/ time # mLastWriteTime \/ length > mLastSize

\* For unseen: a change that CheckFileChanged has to find.
Pending == mNewFile \/ wtime # mLastWriteTime \/ Len(data) > mLastSize

-----------------------------------------------------------------------------
(* The program that writes the file (external).                            *)

WriterOnly ==
  UNCHANGED <<uiVars, posted, mIoSet, infoVars, entryVars, pc, localVars, fails>>

Create ==
  /\ ~exists
  /\ exists' = TRUE
  /\ created' = posted
  /\ WriterOnly /\ UNCHANGED <<data, written, wtime, clears, unseen>>

\* What was not seen of the file is seen with the next change that is noted; a
\* longer file is none once its size was taken for NoSize.
AppendByte ==
  /\ exists /\ written < MaxBytes
  /\ written' = written + 1
  /\ data' = Append(data, written + 1)
  /\ wtime' \in {wtime, wtime + 1}
  /\ WriterOnly /\ UNCHANGED <<exists, clears, created>>
  /\ unseen' = (pc # "stat" /\ ~Pending')

Truncate ==
  /\ exists /\ data # <<>> /\ clears < MaxClears
  /\ clears' = clears + 1
  /\ data' = <<>>
  /\ wtime' = wtime + 1
  /\ WriterOnly /\ UNCHANGED <<exists, written, created, unseen>>

Writer == Create \/ AppendByte \/ Truncate

-----------------------------------------------------------------------------
(* CWinFileNotify: a file is entered once, with the size it has then.  A   *)
(* failed CreateFileA gives INVALID_HANDLE_VALUE, for which the code does  *)
(* not look: the size is NoSize and the time 0, which is long ago.         *)

OnFileNotify(newFile) ==
  IF fileSet # "none" THEN UNCHANGED <<infoVars, fails>>
  ELSE \E ok \in BOOLEAN :
         /\ OpensFile(ok)
         /\ fileSet' \in IF ok THEN {"active", "passive"} ELSE {"passive"}
         /\ mLastSize' = IF ok THEN Len(data) ELSE NoSize
         /\ mLastWriteTime' = IF ok THEN wtime ELSE 0
         /\ mNewFile' = newFile

(* The user interface: AddPath of CLocalMonitor, Register of CWinFileNotify*)

UiOnly == UNCHANGED <<fileVars, created, pc, size, str>>

\* FileEnumProc, without a lock: what is in the file already is not read, unless
\* it cannot be opened: then the position is its start.  A call of FileNotify
\* that is under way keeps the old entry.  Register goes on with a directory
\* that is not in mIoSet and that it can open.
FileEnumProc ==
  /\ ui = "idle" /\ adds < MaxAdds
  /\ adds' = adds + 1
  /\ ui' \in IF mIoSet THEN {"idle"} ELSE {"idle", "enumerated"}
  /\ IF exists
     THEN \E ok \in BOOLEAN :
            /\ OpensFile(ok)
            /\ cached' = TRUE
            /\ mLastPos' = IF ok THEN Len(data) ELSE 0
            /\ start' = mLastPos' /\ received' = <<>> /\ skipped' = {}
            /\ unseen' = (mLastPos' < Len(data) /\ pc # "stat"
                         /\ fileSet # "none" /\ ~Pending)
     ELSE UNCHANGED <<entryVars, unseen, fails>>
  /\ orphan' = (orphan \/ (exists /\ Locked))
  /\ UiOnly /\ UNCHANGED <<posted, mIoSet, infoVars>>

LogEnumHandler ==
  /\ ui = "enumerated" /\ ~Locked
  /\ ui' = "loaded"
  /\ IF exists THEN OnFileNotify(FALSE) ELSE UNCHANGED <<infoVars, fails>>
  /\ UiOnly /\ UNCHANGED <<adds, posted, mIoSet, entryVars, orphan>>
  /\ unseen' = (unseen \/ (exists /\ fileSet = "none" /\ mLastPos < Len(data)
                          /\ ~Pending'))

PostRequest ==
  /\ ui = "loaded"
  /\ ui' = "requested"
  /\ posted' = TRUE
  /\ UiOnly /\ UNCHANGED <<adds, mIoSet, infoVars, entryVars, orphan, unseen, fails>>

PushBack ==
  /\ ui = "requested"
  /\ ui' = "idle"
  /\ mIoSet' = TRUE
  /\ UiOnly /\ UNCHANGED <<adds, posted, infoVars, entryVars, orphan, unseen, fails>>

\* DelPath, UnRegister: the handle is closed; the files stay known.
UnRegister ==
  /\ ui = "idle" /\ mIoSet /\ ~Locked /\ adds < MaxAdds
  /\ mIoSet' = FALSE /\ posted' = FALSE /\ created' = FALSE
  /\ UNCHANGED <<fileVars, uiVars, infoVars, entryVars, pc, localVars, unseen, fails>>

Add == LogEnumHandler \/ PostRequest \/ PushBack

-----------------------------------------------------------------------------
(* LogCreateNotifyThread                                                   *)

OnCreated ==
  /\ created /\ ~Locked
  /\ created' = FALSE
  /\ OnFileNotify(TRUE)
  /\ UNCHANGED <<fileVars, uiVars, posted, mIoSet, entryVars, pc, localVars, unseen>>

-----------------------------------------------------------------------------
(* LogChangeNotifyThread, with the lock of CWinFileNotify                  *)

\* The first of three reasons that applies is noted: a new time leaves the
\* old size.
Noted(time, length) ==
  /\ mNewFile' = FALSE
  /\ mLastWriteTime' = IF mNewFile THEN mLastWriteTime ELSE time
  /\ mLastSize' = IF mNewFile \/ time # mLastWriteTime THEN mLastSize ELSE length

\* CheckFileChanged: the callback, if the file is in a watched directory.  A
\* passive file that changed becomes active, an active one that did not may
\* become passive.  A file that cannot be opened has time 0 and size NoSize.
CheckFileChanged(set) ==
  /\ ~Locked /\ fileSet = set
  /\ \E ok \in BOOLEAN :
       /\ OpensFile(ok)
       /\ LET time == IF ok THEN wtime ELSE 0
              length == IF ok THEN Len(data) ELSE NoSize
          IN  \/ /\ Changed(time, length) /\ Noted(time, length)
                 /\ fileSet' = "active"
                 /\ pc' = IF mIoSet THEN "stat" ELSE "sleep"
                 /\ unseen' = (unseen \/ (~mIoSet /\ ui # "idle"))
              \/ /\ ~Changed(time, length)
                 /\ fileSet' \in IF ok THEN {set, "passive"} ELSE {"passive"}
                 /\ UNCHANGED <<mNewFile, mLastWriteTime, mLastSize, pc, unseen>>
  /\ orphan' = FALSE
  /\ UNCHANGED <<fileVars, uiVars, posted, created, mIoSet, entryVars, size, str>>

MonitorOnly == UNCHANGED <<fileVars, uiVars, posted, created, mIoSet, infoVars>>

\* FileNotify of CLocalMonitor: a file nobody enumerated is read from the
\* start; one that did not grow beyond the known size is not read.
FileNotify ==
  /\ pc = "stat"
  /\ cached' = TRUE
  /\ size' = Len(data)
  /\ str' = <<>>
  /\ pc' = IF mLastPos < Len(data) THEN "read" ELSE "sleep"
  /\ orphan' = FALSE /\ unseen' = FALSE
  /\ MonitorOnly /\ UNCHANGED <<mLastPos, received, start, skipped, fails>>

\* The file cannot be opened: the change is noted already and not tried again.
FileNotifyFails ==
  /\ pc = "stat" /\ OpensFile(FALSE)
  /\ cached' = TRUE
  /\ pc' = "sleep"
  /\ orphan' = FALSE
  /\ unseen' = (unseen \/ (mLastPos < Len(data) /\ ~Pending))
  /\ MonitorOnly /\ UNCHANGED <<mLastPos, received, start, skipped, size, str>>

\* GetFileContent: fread until the end of the file, wherever it is by now.
\* The old position is start plus what was read when the entry was replaced.
ReadChunk ==
  /\ pc = "read" /\ ~orphan
  /\ LET from == mLastPos + Len(str)
     IN  /\ from < Len(data)
         /\ str' = str \o SubSeq(data, from + 1, Min({from + ChunkSize, Len(data)}))
  /\ MonitorOnly /\ UNCHANGED <<entryVars, pc, size, orphan, unseen, fails>>

\* Mutant: the position is set one past the size.
ReadDonePast ==
  /\ pc = "read" /\ ~orphan /\ mLastPos + Len(str) >= Len(data)
  /\ received' = received \o str
  /\ mLastPos' = size + 1
  /\ pc' = "sleep"
  /\ MonitorOnly /\ UNCHANGED <<cached, start, skipped, localVars, unseen, fails>>

\* The size read before the content becomes the position after it.
ReadDone ==
  /\ pc = "read" /\ ~orphan /\ mLastPos + Len(str) >= Len(data)
  /\ received' = received \o str
  /\ mLastPos' = size
  /\ pc' = "sleep"
  /\ MonitorOnly /\ UNCHANGED <<cached, start, skipped, localVars, unseen, fails>>

\* GetFileContent cannot open the file and returns nothing; FileNotify goes on
\* as if it had read.
ReadFails ==
  /\ pc = "read" /\ ~orphan /\ str = <<>> /\ OpensFile(FALSE)
  /\ skipped' = skipped \cup (mLastPos + 1 .. size)
  /\ mLastPos' = size
  /\ pc' = "sleep"
  /\ MonitorOnly /\ UNCHANGED <<cached, received, start, localVars, unseen>>

\* The entry was replaced meanwhile: what is read goes to the old one.
ReadOrphan ==
  /\ pc = "read" /\ orphan
  /\ pc' = "sleep"
  /\ MonitorOnly /\ UNCHANGED <<entryVars, localVars, unseen, fails>>

Reading ==
  FileNotify \/ FileNotifyFails \/ ReadChunk \/ ReadDone \/ ReadFails \/ ReadOrphan

-----------------------------------------------------------------------------
Init ==
  /\ exists \in BOOLEAN
  /\ data = <<>> /\ written = 0 /\ wtime = 1 /\ clears = 0
  /\ ui = "idle" /\ adds = 0
  /\ posted = FALSE /\ created = FALSE /\ mIoSet = FALSE
  /\ fileSet = "none" /\ mLastSize = 0 /\ mLastWriteTime = 0 /\ mNewFile = FALSE
  /\ cached = FALSE /\ mLastPos = 0
  /\ pc = "sleep" /\ size = 0 /\ str = <<>> /\ orphan = FALSE
  /\ received = <<>> /\ start = 0 /\ skipped = {} /\ unseen = FALSE /\ fails = 0

Next ==
  \/ Writer
  \/ FileEnumProc \/ Add \/ UnRegister
  \/ OnCreated
  \/ \E set \in {"active", "passive"} : CheckFileChanged(set)
  \/ Reading

\* The threads go on, both lists of files are checked again and again, and an
\* AddPath that was begun ends; nobody has to write or to add a path.
Fairness ==
  /\ WF_vars(Add)
  /\ WF_vars(OnCreated)
  /\ \A set \in {"active", "passive"} : WF_vars(CheckFileChanged(set))
  /\ WF_vars(Reading)

Spec == Init /\ [][Next]_vars /\ Fairness

-----------------------------------------------------------------------------
(* Properties                                                              *)

\* LocalMonitor.cpp:259: the size is read before the content, and the position
\* set to it after.  Bytes can be read twice by that, but from the place where
\* the file was enumerated, or from its start, none is skipped but those
\* GetFileContent could not open the file for (lines 332, 274), each time as many
\* as the file had grown by: as long as the file is not truncated.
NoGap ==
  clears = 0 =>
    \A i \in 1 .. Len(received) :
      (IF i = 1 THEN start ELSE received[i-1]) + 1 .. received[i] - 1 \subseteq skipped

\* The end of the file was there at the start, was received, or was skipped.
EndReached == Len(data) \in {start} \cup ToSet(received) \cup skipped

\* WinFileNotify.cpp:315 and 119: the monitor reads up to the end of a file in a
\* watched directory, whether it is new, active or passive and although the
\* time of its last write may lag, again and again.  The exceptions are: the
\* file was truncated; it was created between the second enumeration and the
\* first request for changes, so nobody knows it; or it has not grown since it
\* grew between the enumerations, or since a change was noted before the
\* directory was in mIoSet, or since FileNotify, or FileEnumProc, could not open
\* it; or a failed open made the size NoSize, and the time lags behind (line
\* 130); or GetFileContent could not open it and its end was skipped.
LocalCatchesUp ==
  []<>(mIoSet /\ exists /\ clears = 0 /\ fileSet # "none" /\ ~unseen => EndReached)

=============================================================================
