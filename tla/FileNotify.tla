----------------------------- MODULE FileNotify -----------------------------
(***************************************************************************)
(* The directory watches of the Linux agent: CFileNotify                   *)
(* (LogSniff/FileNotify.cpp).  Register watches a directory and, with      *)
(* EnumFiles, all directories below it; the inotify thread is started      *)
(* before that, watches directories that are created later, and tells the  *)
(* registration of every other change.  Meanwhile other programs create    *)
(* and delete directories and write files in them.                         *)
(*                                                                         *)
(* A directory is the sequence of names that leads to it from the          *)
(* monitored one.  A path is what the code has as a string: a directory or *)
(* file, and whether it is spelled with a double slash, which happens when *)
(* the path given to the agent ends with a slash.  What is in a directory  *)
(* has an inode, which a watch belongs to; a directory that is deleted and *)
(* created again has another one.  main registers one path, so there is    *)
(* one FileNotifyRegister.  Directories are not renamed.                   *)
(***************************************************************************)
EXTENDS Integers, Sequences, SequencesExt

CONSTANTS
  Dir,          \* directories that can exist; << >> is the monitored one
  FileName,     \* names of the files that change in them
  Strip,        \* a name without its leading dot, if it has one
  MaxDirs,      \* directories that are created in a behaviour
  MaxDeletes,   \* directories that are deleted
  MaxChanges,   \* changes of files
  MaxRead       \* events that fit in one read (1024 bytes in the source)

Root == << >>
Child == Dir \ {Root}
Parent(d) == Front(d)
Name(d) == Last(d)

ASSUME FileNotifyConstants ==
  /\ Root \in Dir /\ Dir \subseteq Seq(DOMAIN Strip)
  /\ \A d \in Child : d # << >> /\ Parent(d) \in Dir
  /\ \A d \in Child : Append(Parent(d), Strip[Name(d)]) \in Dir
  /\ {Name(d) : d \in Child} \cup FileName \subseteq DOMAIN Strip
  /\ MaxDirs \in Nat /\ MaxDeletes \in Nat /\ MaxChanges \in Nat
  /\ MaxRead \in Nat \ {0}

VARIABLES
  \* the file system: inode of a directory (0: it does not exist)
  ino, inodes, deletes, changes,
  \* inotify: the inode each watch descriptor was given for; the event queue
  watch, queue,
  \* main thread: Register, and the locals of EnumFiles
  slash, init, pathSet, found,
  \* CFileNotify and its one registration
  mWdGlobal1, mWdGlobal2, mWdSet, mRegisterCache,
  \* inotify thread: what is left of the read buffer
  buffer,
  \* what the properties remember
  lost, changed, dropped

fsVars == <<ino, inodes, deletes, changes>>
mainVars == <<slash, init, pathSet, found, mRegisterCache>>
wdVars == <<mWdGlobal1, mWdGlobal2, mWdSet>>
ghostVars == <<lost, changed, dropped>>
vars == <<fsVars, watch, queue, mainVars, wdVars, buffer, ghostVars>>

Exists(d) == ino[d] # 0
Inode == 1 .. (MaxDirs + 1)
Wd == 1 .. Len(watch)
Failed == -1
Event == [wd : Inode, kind : {"file", "mkdir", "rmdir", "ignored"},
          name : DOMAIN Strip, at : Dir]
Path == [dir : Dir, odd : BOOLEAN]

TypeOK ==
  /\ ino \in [Dir -> Inode \cup {0}] /\ inodes \in Inode
  /\ deletes \in 0 .. MaxDeletes /\ changes \in 0 .. MaxChanges
  /\ watch \in Seq(Inode) /\ queue \in Seq(Event) /\ buffer \in Seq(Event)
  /\ slash \in BOOLEAN /\ mRegisterCache \in BOOLEAN
  /\ init \in {"watch", "enum", "done"}
  /\ pathSet \in Seq(Dir) /\ found \subseteq Dir
  /\ DOMAIN mWdGlobal1 \subseteq Path
  /\ \A p \in DOMAIN mWdGlobal1 : mWdGlobal1[p] \in Wd \cup {Failed}
  /\ DOMAIN mWdGlobal2 \subseteq Wd \cup {Failed}
  /\ \A w \in DOMAIN mWdGlobal2 : mWdGlobal2[w] \in Path
  /\ mWdSet \subseteq Wd \cup {Failed}
  /\ lost \subseteq Dir /\ changed \subseteq Dir /\ dropped \in BOOLEAN

\* std::map::operator[] on the left of an assignment.
Put(f, k, v) == [x \in (DOMAIN f) \cup {k} |-> IF x = k THEN v ELSE f[x]]

\* The registration has a watch on what is now called d.
Watched(d) == Exists(d) /\ \E w \in mWdSet \ {Failed} : watch[w] = ino[d]

-----------------------------------------------------------------------------
(* The file system and inotify (external).                                 *)

WdOf(i) == {w \in Wd : watch[w] = i}

\* An event for the watch on inode i, if there is one; one that repeats the
\* last of the queue is merged with it.
Queue(q, i, kind, name, at) ==
  IF WdOf(i) = {} THEN q
  ELSE LET e == [wd |-> CHOOSE w \in WdOf(i) : TRUE, kind |-> kind,
                 name |-> name, at |-> at]
       IN  IF q # <<>> /\ Last(q) = e THEN q ELSE Append(q, e)

FileSystemOnly == UNCHANGED <<watch, mainVars, wdVars, buffer, dropped>>

\* Nothing will see a directory whose parent is neither watched nor still to
\* be listed by EnumFiles.
MkDir(d) ==
  /\ ~Exists(d) /\ Exists(Parent(d)) /\ inodes <= MaxDirs
  /\ inodes' = inodes + 1
  /\ ino' = [ino EXCEPT ![d] = inodes + 1]
  /\ queue' = Queue(queue, ino[Parent(d)], "mkdir", Name(d), Parent(d))
  /\ lost' = IF \/ WdOf(ino[Parent(d)]) # {}
                \/ init = "watch"
                \/ Parent(d) \in found \cup ToSet(pathSet)
             THEN lost ELSE lost \cup {d}
  /\ FileSystemOnly /\ UNCHANGED <<deletes, changes, changed>>

\* The parent's watch is told, that of the directory ends; either comes first.
RmDir(d) ==
  /\ Exists(d) /\ \A c \in Child : Parent(c) = d => ~Exists(c)
  /\ deletes < MaxDeletes
  /\ deletes' = deletes + 1
  /\ ino' = [ino EXCEPT ![d] = 0]
  /\ LET Told(q) == Queue(q, ino[Parent(d)], "rmdir", Name(d), Parent(d))
         Ends(q) == Queue(q, ino[d], "ignored", Name(d), d)
     IN  queue' \in {Ends(Told(queue)), Told(Ends(queue))}
  /\ lost' = lost \ {d}
  /\ FileSystemOnly /\ UNCHANGED <<inodes, changes, changed>>

\* A file in d is created, written or deleted.
ChangeFile(d) ==
  /\ Exists(d) /\ changes < MaxChanges
  /\ changes' = changes + 1
  /\ \E n \in FileName : queue' = Queue(queue, ino[d], "file", n, d)
  /\ changed' = IF mRegisterCache /\ Watched(d) THEN changed \cup {d} ELSE changed
  /\ FileSystemOnly /\ UNCHANGED <<ino, inodes, deletes, lost>>

FileSystem ==
  \/ \E d \in Child : MkDir(d) \/ RmDir(d)
  \/ \E d \in Dir : ChangeFile(d)

-----------------------------------------------------------------------------
(* MonitorPath, called by both threads with the lock held.                 *)

\* inotify_add_watch (external): an inode has one descriptor; numbers are not
\* used again.
AddWatch(d) ==
  IF ~Exists(d) THEN Failed
  ELSE IF WdOf(ino[d]) # {} THEN CHOOSE w \in WdOf(ino[d]) : TRUE
  ELSE Len(watch) + 1

\* A path that was ever watched keeps its descriptor, dead or failed as it
\* may be.
MonitorPath(p) ==
  LET known == p \in DOMAIN mWdGlobal1
      wd == IF known THEN mWdGlobal1[p] ELSE AddWatch(p.dir)
  IN  /\ mWdGlobal1' = Put(mWdGlobal1, p, wd)
      /\ mWdGlobal2' = IF known THEN mWdGlobal2 ELSE Put(mWdGlobal2, wd, p)
      /\ mWdSet' = mWdSet \cup {wd}
      /\ watch' = IF wd > Len(watch) THEN Append(watch, ino[p.dir]) ELSE watch

-----------------------------------------------------------------------------
(* The main thread: Register, which holds the lock from end to end.        *)

MainOnly == UNCHANGED <<fsVars, queue, slash, buffer, changed, dropped>>

RegisterRoot ==
  /\ init = "watch"
  /\ init' = "enum"
  /\ MonitorPath([dir |-> Root, odd |-> FALSE])
  /\ pathSet' = <<Root>>
  /\ MainOnly /\ UNCHANGED <<found, mRegisterCache, lost>>

\* opendir and readdir of the next directory; it may be gone.
OpenDir ==
  /\ init = "enum" /\ found = {} /\ pathSet # <<>>
  /\ found' = {d \in Child : Exists(d) /\ Parent(d) = Head(pathSet)}
  /\ pathSet' = Tail(pathSet)
  /\ MainOnly /\ UNCHANGED <<init, watch, wdVars, mRegisterCache, lost>>

\* Mutant: EnumFiles is called without withSub.
EnumTopDir(d) ==
  /\ d \in found
  /\ found' = found \ {d}
  /\ MonitorPath([dir |-> d, odd |-> FALSE])
  /\ lost' = lost \ {d}
  /\ MainOnly /\ UNCHANGED <<init, pathSet, mRegisterCache>>

\* FileEnumProc: EnumFiles never doubles a slash.
EnumDir(d) ==
  /\ d \in found
  /\ found' = found \ {d}
  /\ MonitorPath([dir |-> d, odd |-> FALSE])
  /\ pathSet' = Append(pathSet, d)
  /\ lost' = lost \ {d}
  /\ MainOnly /\ UNCHANGED <<init, mRegisterCache>>

PushBack ==
  /\ init = "enum" /\ found = {} /\ pathSet = <<>>
  /\ init' = "done"
  /\ mRegisterCache' = TRUE
  /\ MainOnly /\ UNCHANGED <<watch, pathSet, found, wdVars, lost>>

Register == RegisterRoot \/ OpenDir \/ (\E d \in Dir : EnumDir(d)) \/ PushBack

-----------------------------------------------------------------------------
(* The inotify thread: run.                                                *)

ThreadOnly == UNCHANGED <<fsVars, mainVars>>

\* Mutant: one event is taken from what a read returns.
ReadFirst ==
  /\ buffer = <<>> /\ queue # <<>>
  /\ buffer' = SubSeq(queue, 1, 1)
  /\ queue' = SubSeq(queue, Min({MaxRead, Len(queue)}) + 1, Len(queue))
  /\ ThreadOnly /\ UNCHANGED <<watch, wdVars, ghostVars>>

Read ==
  /\ buffer = <<>> /\ queue # <<>>
  /\ LET n == Min({MaxRead, Len(queue)})
     IN  /\ buffer' = SubSeq(queue, 1, n)
         /\ queue' = SubSeq(queue, n + 1, Len(queue))
  /\ ThreadOnly /\ UNCHANGED <<watch, wdVars, ghostVars>>

\* Mutant: the path is built from the registration's mMonitorPath.
FilePathOfRoot(e) == [dir |-> Append(Root, Strip[e.name]), odd |-> slash]

FilePath(e) ==
  LET p == mWdGlobal2[e.wd]
  IN  [dir |-> Append(p.dir, Strip[e.name]), odd |-> p.odd \/ (slash /\ p.dir = Root)]

\* Is the event handled for the registration?  Until push_back there is none.
Handled(e) == mRegisterCache /\ e.wd \in mWdSet

\* OnFileEvent, a directory was created.
OnDirCreated ==
  /\ buffer # <<>> /\ Head(buffer).kind = "mkdir"
  /\ buffer' = Tail(buffer)
  /\ LET e == Head(buffer)
         d == Append(e.at, e.name)
     IN  \/ /\ Handled(e)
            /\ MonitorPath(FilePath(e))
            /\ UNCHANGED lost
         \/ /\ ~Handled(e)
            /\ lost' = IF Exists(d) /\ ~Watched(d) THEN lost \cup {d} ELSE lost
            /\ UNCHANGED <<watch, wdVars>>
  /\ ThreadOnly /\ UNCHANGED <<queue, changed, dropped>>

\* OnFileEvent, any other change: mNotify.
OnFileEvent ==
  /\ buffer # <<>> /\ Head(buffer).kind \in {"file", "rmdir"}
  /\ buffer' = Tail(buffer)
  /\ LET e == Head(buffer)
     IN  \/ /\ Handled(e)
            /\ changed' = IF e.kind = "file" THEN changed \ {e.at} ELSE changed
         \/ /\ ~Handled(e)
            /\ UNCHANGED changed
  /\ ThreadOnly /\ UNCHANGED <<queue, watch, wdVars, lost, dropped>>

\* An event without a name, which is the end of a watch, ends the loop over
\* the buffer: what else was read is thrown away.
OnIgnored ==
  /\ buffer # <<>> /\ Head(buffer).kind = "ignored"
  /\ buffer' = <<>>
  /\ LET behind == {Tail(buffer)[k] : k \in 1 .. Len(buffer) - 1}
         dirs == {Append(e.at, e.name) : e \in {b \in behind : b.kind = "mkdir"}}
     IN  /\ dropped' = (dropped \/ behind # {})
         /\ lost' = lost \cup {d \in dirs : Exists(d) /\ ~Watched(d)}
  /\ ThreadOnly /\ UNCHANGED <<queue, watch, wdVars, changed>>

NotifyThread == Read \/ OnDirCreated \/ OnFileEvent \/ OnIgnored

-----------------------------------------------------------------------------
Init ==
  /\ ino = [d \in Dir |-> IF d = Root THEN 1 ELSE 0]
  /\ inodes = 1 /\ deletes = 0 /\ changes = 0
  /\ watch = <<>> /\ queue = <<>> /\ buffer = <<>>
  /\ slash \in BOOLEAN
  /\ init = "watch" /\ pathSet = <<>> /\ found = {}
  /\ mWdGlobal1 = << >> /\ mWdGlobal2 = << >> /\ mWdSet = {}
  /\ mRegisterCache = FALSE
  /\ lost = {} /\ changed = {} /\ dropped = FALSE

Next == FileSystem \/ Register \/ NotifyThread

\* Both threads of the agent go on; nobody has to change the file system.
Fairness == WF_vars(Register) /\ WF_vars(NotifyThread)

Spec == Init /\ [][Next]_vars /\ Fairness

-----------------------------------------------------------------------------
(* Properties                                                              *)

\* FileNotify.cpp:83: what the log monitor is told names the very file that
\* changed, without the leading dot of its name, through all descriptors that
\* die and directories that come back; and it is spelled as EnumFiles spelled
\* it, under which mLogCache knows the file, unless the path given to the
\* agent ends with a slash.
ToldIsTrue ==
  \A e \in ToSet(buffer) :
    Handled(e) /\ e.kind # "ignored" =>
      /\ FilePath(e).dir = Append(e.at, Strip[e.name])
      /\ FilePath(e).odd => slash

\* A path of d is in mWdGlobal1 with a descriptor that failed or is dead.
StaleEntry(d) ==
  \E p \in DOMAIN mWdGlobal1 :
    /\ p.dir = d
    /\ mWdGlobal1[p] = Failed \/ watch[mWdGlobal1[p]] # ino[d]

\* FileNotify.cpp:93, "folder created, add a watch": once all events are
\* handled, a directory below the monitored one is watched.  The exceptions
\* are these: it was created before its parent was watched, or handled before
\* push_back, or thrown away behind the end of another watch (lost); its path
\* was watched before (FileNotify.cpp:37); its name begins with a dot, so that
\* another path was watched for it (FileNotify.cpp:88).
BlindSpots ==
  mRegisterCache /\ queue = <<>> /\ buffer = <<>> =>
    \A d \in Dir : Exists(d) =>
      \/ Watched(d)
      \/ d \in lost
      \/ StaleEntry(d)
      \/ d # Root /\ Strip[Name(d)] # Name(d)

\* FileNotify.cpp:135: a change in a watched directory is told, however the
\* events are merged and cut into reads: again and again no change is waiting,
\* unless events were thrown away behind the end of a watch (FileNotify.cpp:158).
ChangeTold == []<>(changed = {} \/ dropped)

=============================================================================
