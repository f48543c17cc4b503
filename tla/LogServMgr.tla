----------------------------- MODULE LogServMgr -----------------------------
(***************************************************************************)
(* What LogView follows and what it remembers of it: CLogServMgr           *)
(* (LogView/LogServMgr.cpp) lists the paths of this machine and keeps them *)
(* in a row of config.db; CLogReceiver hands them to CLocalMonitor, which  *)
(* registers them with CWinFileNotify.  A second thread receives the       *)
(* answers of agents to a scan and saves each in the same database.        *)
(* LogView may end at any moment and be started again.                     *)
(*                                                                         *)
(* The code compares paths as texts and asks whether one contains the      *)
(* other; directories are compared without regard to case, so spellings    *)
(* of one path are one path here.  A row holds the listed paths with ";"   *)
(* between them: a path with a ";" in it reads back as several.  All       *)
(* agents answer with the same unique (GroupReceiver.cpp), so there is one *)
(* row for them.  Directories are neither created nor deleted, but one may *)
(* be refused to LogView when it is to be registered.  The pages call      *)
(* InitReceiver twice; the second call changes nothing.                    *)
(***************************************************************************)
EXTENDS Naturals, Sequences, SequencesExt

CONSTANTS
  Path,        \* texts the user may enter as a path, and their pieces
  Folder,      \* those that are directories
  Inside,      \* of a path: the paths whose text its text contains
  Above,       \* of a path: itself and the directories it is in
  Pieces,      \* of a path: what it reads back as from the database
  MaxStarts,   \* starts of LogView
  MaxCalls,    \* paths the user adds or deletes
  MaxScans     \* scans that are sent

ASSUME LogServMgrConstants ==
  /\ Folder \subseteq Path
  /\ Inside \in [Path -> SUBSET Path] /\ Above \in [Path -> SUBSET Path]
  /\ \A p \in Path : p \in Above[p] /\ Above[p] \subseteq Inside[p]
  /\ Pieces \in [Path -> Seq(Path)]
  /\ MaxStarts \in Nat /\ MaxCalls \in Nat /\ MaxScans \in Nat

VARIABLES
  \* config.db: the row of this machine; is there one of an agent
  row, remote,
  \* user interface thread: where it is, the call it works on, the paths that
  \* CLocalMonitor::Run still has to add
  ui, call, todo,
  \* LogServDesc of this machine: mPathSet, and mLocalServDesc.mPathSet
  listed, loaded,
  \* CLocalMonitor::mPathSet; CWinFileNotify::mIoSet
  mPathSet, mIoSet,
  \* the event of Refush, the scan thread, answers on their way, the thread
  \* of CGroupSender
  mNotifyEvent, scan, answers, udp,
  \* bounds
  starts, calls, scans,
  \* what the properties remember: paths listed without being handed to the
  \* monitor, paths watched since the start, paths the monitor has though they
  \* could not be opened, what was listed before the call
  dropped, watched, unopened, before

dbVars == <<row, remote>>
uiVars == <<ui, call, todo>>
descVars == <<listed, loaded>>
monitorVars == <<mPathSet, mIoSet>>
scanVars == <<mNotifyEvent, scan, answers, udp>>
boundVars == <<starts, calls, scans>>
ghostVars == <<dropped, watched, unopened, before>>
vars == <<dbVars, uiVars, descVars, monitorVars, scanVars, boundVars, ghostVars>>

Call == [kind : {"none", "add", "drop", "delete"}, path : Path \cup {""}]
NoCall == [kind |-> "none", path |-> ""]
Running == ui # "off"

TypeOK ==
  /\ row \in Seq(Path) /\ remote \in BOOLEAN
  /\ ui \in {"off", "run", "select", "exec", "monitor", "idle"}
  /\ call \in Call /\ todo \in Seq(Path)
  /\ listed \in Seq(Path) /\ loaded \in Seq(Path)
  /\ mPathSet \subseteq Folder /\ mIoSet \subseteq mPathSet
  /\ mNotifyEvent \in BOOLEAN /\ scan \in {"wait", "sleep"}
  /\ answers \in 0 .. MaxScans /\ udp \in {"recv", "select", "exec"}
  /\ starts \in 0 .. MaxStarts /\ calls \in 0 .. MaxCalls /\ scans \in 0 .. MaxScans
  /\ dropped \subseteq Path /\ mIoSet \subseteq watched /\ watched \subseteq Folder
  /\ unopened \subseteq mPathSet \ mIoSet /\ before \in Seq(Path)

-----------------------------------------------------------------------------
(* LogServDesc and the monitor.                                            *)

\* LogServDesc::IsPathInCache, and the same test in the dialog.
IsPathInCache(paths, p) == \E i \in DOMAIN paths : paths[i] \in Inside[p]

\* Register refuses a path whose text is in that of a watched directory, and
\* gives up when CreateFileA does not open the directory; AddPath keeps it in
\* mPathSet all the same.
Register(p) ==
  IF \E q \in mIoSet : p \in Inside[q]
  THEN UNCHANGED <<mIoSet, watched, unopened>>
  ELSE \/ /\ mIoSet' = mIoSet \cup {p} /\ watched' = watched \cup {p}
          /\ UNCHANGED unopened
       \/ unopened' = unopened \cup {p} /\ UNCHANGED <<mIoSet, watched>>

AddPath(p) ==
  IF p \in mPathSet \/ p \notin Folder
  THEN UNCHANGED <<monitorVars, watched, unopened>>
  ELSE mPathSet' = mPathSet \cup {p} /\ Register(p)

\* Mutant: UnRegister is not called.
DelPathStaysWatched(p) ==
  /\ mPathSet' = mPathSet \ {p} /\ unopened' = unopened \ {p}
  /\ UNCHANGED <<mIoSet, watched>>

\* Mutant: whatever has the text of the path in it goes too.
DelPathWithText(p) ==
  /\ mPathSet' = {q \in mPathSet : p \notin Inside[q]}
  /\ mIoSet' = mIoSet \cap mPathSet' /\ unopened' = unopened \cap mPathSet'
  /\ UNCHANGED watched

DelPath(p) ==
  /\ mPathSet' = mPathSet \ {p}
  /\ mIoSet' = mIoSet \ {p} /\ unopened' = unopened \ {p}
  /\ UNCHANGED watched

-----------------------------------------------------------------------------
(* Start and end of the program.                                           *)

\* LoadCacheFromDb saves again each row it reads.  The frame of an agent is a
\* null pointer in _LoadLogServ: with its row in the database the start fails.
Start ==
  /\ ui = "off" /\ starts < MaxStarts
  /\ starts' = starts + 1
  /\ listed' = FlattenSeq([i \in DOMAIN row |-> Pieces[row[i]]])
  /\ loaded' = listed' /\ row' = listed' /\ before' = listed'
  /\ IF remote THEN UNCHANGED uiVars
     ELSE ui' = "run" /\ call' = NoCall /\ todo' = listed'
  /\ UNCHANGED <<remote, monitorVars, scanVars, calls, scans, dropped, watched,
                 unopened>>

\* Nothing of the process is left; what was listed is kept for the properties.
Gone ==
  /\ ui' = "off" /\ call' = NoCall /\ todo' = <<>>
  /\ mPathSet' = {} /\ mIoSet' = {}
  /\ mNotifyEvent' = FALSE /\ scan' = "wait" /\ answers' = 0 /\ udp' = "recv"
  /\ dropped' = {} /\ watched' = {} /\ unopened' = {}
  /\ UNCHANGED <<dbVars, descVars, boundVars, before>>

End == Running /\ Gone

\* Two saves at once: one of them may find the database locked, for which
\* SqliteOperator throws an exception that nobody catches.
Busy ==
  /\ ui \in {"select", "exec"} /\ udp \in {"select", "exec"}
  /\ ui = "exec" \/ udp = "exec"
  /\ Gone

-----------------------------------------------------------------------------
(* User interface thread.                                                  *)

Idle == ui = "idle" /\ calls < MaxCalls

UiOnly == UNCHANGED <<remote, loaded, scanVars, starts, scans>>

\* AddPathMonitor from the page, or AddPath alone when a directory is dropped
\* on the window.
Add(kind, p) ==
  /\ Idle /\ ~IsPathInCache(listed, p)
  /\ kind = "drop" => p \in Folder
  /\ ui' = "run" /\ call' = [kind |-> kind, path |-> p] /\ todo' = loaded
  /\ calls' = calls + 1
  /\ listed' = Append(listed, p) /\ before' = listed
  /\ dropped' = IF kind = "drop" THEN dropped \cup {p} ELSE dropped \ {p}
  /\ UiOnly /\ UNCHANGED <<row, monitorVars, watched, unopened>>

Delete(p) ==
  /\ Idle /\ Contains(listed, p)
  /\ ui' = "run" /\ call' = [kind |-> "delete", path |-> p] /\ todo' = loaded
  /\ calls' = calls + 1
  /\ listed' = RemoveFirst(listed, p) /\ before' = listed
  /\ UiOnly /\ UNCHANGED <<row, monitorVars, dropped, watched, unopened>>

\* CLocalMonitor::Run adds what was loaded at the start, at every change.
RunNext ==
  /\ ui = "run" /\ todo # <<>>
  /\ AddPath(Head(todo))
  /\ todo' = Tail(todo)
  /\ UiOnly /\ UNCHANGED <<row, ui, call, listed, calls, dropped, before>>

RunDone ==
  /\ ui = "run" /\ todo = <<>>
  /\ ui' = IF call = NoCall THEN "idle" ELSE "select"
  /\ UiOnly /\ UNCHANGED <<row, call, todo, listed, monitorVars, calls, ghostVars>>

SaveSelect ==
  /\ ui = "select"
  /\ ui' = "exec"
  /\ UiOnly /\ UNCHANGED <<row, call, todo, listed, monitorVars, calls, ghostVars>>

\* Mutant: the paths of mLocalServDesc are written, not mPathSet.
SaveExecLoaded ==
  /\ ui = "exec"
  /\ row' = loaded
  /\ ui' = IF call.kind = "drop" THEN "idle" ELSE "monitor"
  /\ call' = IF call.kind = "drop" THEN NoCall ELSE call
  /\ UiOnly /\ UNCHANGED <<todo, listed, monitorVars, calls, ghostVars>>

SaveExec ==
  /\ ui = "exec"
  /\ row' = listed
  /\ ui' = IF call.kind = "drop" THEN "idle" ELSE "monitor"
  /\ call' = IF call.kind = "drop" THEN NoCall ELSE call
  /\ UiOnly /\ UNCHANGED <<todo, listed, monitorVars, calls, ghostVars>>

Monitor ==
  /\ ui = "monitor"
  /\ ui' = "idle" /\ call' = NoCall
  /\ IF call.kind = "add" THEN AddPath(call.path) ELSE DelPath(call.path)
  /\ UiOnly /\ UNCHANGED <<row, todo, listed, calls, dropped, before>>

Refush ==
  /\ ui = "idle" /\ ~mNotifyEvent
  /\ mNotifyEvent' = TRUE
  /\ UNCHANGED <<dbVars, uiVars, descVars, monitorVars, scan, answers, udp,
                 boundVars, ghostVars>>

-----------------------------------------------------------------------------
(* Discovery: the scan thread and the thread that receives the answers.    *)

ScanOnly == UNCHANGED <<row, uiVars, descVars, monitorVars, starts, calls, ghostVars>>

\* A scan is sent to the group; an answer comes or is lost.
ScanThread ==
  /\ Running
  /\ \/ /\ scan = "wait" /\ mNotifyEvent /\ scans < MaxScans
        /\ mNotifyEvent' = FALSE /\ scan' = "sleep" /\ scans' = scans + 1
        /\ answers' \in {answers, answers + 1}
     \/ /\ scan = "sleep"
        /\ scan' = "wait"
        /\ UNCHANGED <<mNotifyEvent, scans, answers>>
  /\ ScanOnly /\ UNCHANGED <<remote, udp>>

\* OnRecvDesc announces and saves the description, but puts it in no cache.
OnRecvDesc ==
  /\ Running /\ udp = "recv" /\ answers > 0
  /\ answers' = answers - 1
  /\ udp' = "select"
  /\ ScanOnly /\ UNCHANGED <<remote, mNotifyEvent, scan, scans>>

SaveDesc ==
  /\ Running
  /\ \/ udp = "select" /\ udp' = "exec" /\ UNCHANGED remote
     \/ udp = "exec" /\ udp' = "recv" /\ remote' = TRUE
  /\ ScanOnly /\ UNCHANGED <<mNotifyEvent, scan, scans, answers>>

-----------------------------------------------------------------------------

Init ==
  /\ row = <<>> /\ remote = FALSE
  /\ ui = "off" /\ call = NoCall /\ todo = <<>>
  /\ listed = <<>> /\ loaded = <<>>
  /\ mPathSet = {} /\ mIoSet = {}
  /\ mNotifyEvent = FALSE /\ scan = "wait" /\ answers = 0 /\ udp = "recv"
  /\ starts = 0 /\ calls = 0 /\ scans = 0
  /\ dropped = {} /\ watched = {} /\ unopened = {} /\ before = <<>>

User == \E p \in Path : Add("add", p) \/ Add("drop", p) \/ Delete(p)

UiThread == RunNext \/ RunDone \/ SaveSelect \/ SaveExec \/ Monitor

Next ==
  \/ Start \/ End \/ Busy
  \/ User \/ Refush \/ UiThread
  \/ ScanThread \/ OnRecvDesc \/ SaveDesc

Spec == Init /\ [][Next]_vars

-----------------------------------------------------------------------------
(* Properties.                                                             *)

\* When the user interface is idle, each directory that is listed is followed:
\* it, or one it is in, is registered with CWinFileNotify.  Four things can
\* prevent that.  It was dropped on the window, which lists it only
\* (MainView.cpp:538); a path with its text in it was watched, below it or just
\* a neighbour with a longer name, for which Register refuses it without a word
\* (WinFileNotify.cpp:40, LocalMonitor.cpp:125); it could not be opened when it
\* was added, which nobody tells the user and, as AddPath has it in mPathSet
\* now, no later Run tries again (WinFileNotify.cpp:313, LocalMonitor.cpp:106);
\* or it was read back twice, as a path of its own and as part of one with a
\* ";", and deleted once.
ListedIsFollowed ==
  ui = "idle" =>
    \A p \in ToSet(listed) \cap Folder :
      \/ Above[p] \cap mIoSet # {}
      \/ p \in dropped \/ p \in unopened
      \/ \E q \in watched \ {p} : p \in Inside[q]
      \/ \E i, j \in DOMAIN loaded : i # j /\ loaded[i] = p /\ loaded[j] = p

\* What is followed is listed, or was when LogView started: Run adds the paths
\* of mLocalServDesc at every change, those that were deleted since included
\* (LocalMonitor.cpp:43, LogReceiver.cpp:126).  Nothing else comes back.
FollowedIsListed ==
  mPathSet \subseteq ToSet(listed) \cup ToSet(loaded)
                      \cup (IF call.kind = "delete" THEN {call.path} ELSE {})

\* Both of these: what CLocalMonitor follows is what the page lists.
MonitorAgrees == ListedIsFollowed /\ FollowedIsListed

\* The database has the list as it is once a call is through with it, and
\* otherwise as it was before the call: however LogView ends, also by the
\* exception of a locked database (SqliteOperator.cpp:163), and whatever the
\* other thread saves in between, one addition or deletion is lost at most.
DatabaseKeepsUp ==
  /\ row \in {listed, before}
  /\ ui \in {"idle", "monitor"} => row = listed

=============================================================================
