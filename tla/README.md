# A verification project for LogSniff / LogView

This directory holds TLA+ models of LogSniff (the agent for Linux) and LogView
(the viewer for Windows), configurations that check them with TLC, and proofs
checked by TLAPS. Paths are relative to the repository. `PROJECT.json` maps every
definition to the lines it models and lists the runs, the mutants that show that
each property can fail, the hazards and the theorems.

## 1. The system

| Component | State | Operations | Works with |
| --- | --- | --- | --- |
| Tailing of log files (`LogSniff/LogMonitor.cpp`) | `mLogCache`: for each file `mLastPos`, `mLastCache` | `InitMonitor`, `FileEnumProc`, `FileNotifyProc`, `DispatchLog` | called by the inotify thread; sends to the listeners |
| TCP server (`LogLib/tcpserv.cpp`) and listeners (`LogMonitor.cpp`) | `mClientSet`; `mListener`, `mDataCache` | select loop: accept, recv, close; `OnServRecvData`, `OnRecvComplete`, `OnServSocketClose` | viewers over TCP; shares `mListener` and the lock with `DispatchLog` |
| Wire protocol (`LogLib/LogProtocol.cpp`) | none | encode and decode of register, log and description; `GetRecvResult` | both ends |
| Directory watches (`LogSniff/FileNotify.cpp`) | `mWdGlobal1/2`, `mRegisterCache` | `Register`, `MonitorPath`, `OnFileEvent`, read loop | inotify; calls `FileNotifyProc` |
| Discovery (`LogSniff/GroupReceiver.cpp`, `LogView/LogServMgr.cpp`, `GroupSender.cpp`) | list of servers, its database | scan, answer, `OnRecvDesc`, add and delete paths, notify | multicast |
| TCP client (`LogLib/tcpclient.cpp`, `LogView/ServSniff`) | socket, `mLogCache` | connect again and again, register, decode | the agent; pushes log lines to the page |
| Capture of OutputDebugString (`LogView/DbgMsg.cpp`) | two channels (page and two events), second-level cache | `DbgThread`, `PushStrToCache`, `CacheThread`, `GetStrSetFromCache`, `OnDbgMsg` | programs that print; pushes to the page |
| Local log monitor (`LogView/LocalSniff`) | file positions, watched paths, mode | completion-port thread, scan thread, `Register`, `FileNotify` | Windows; pushes to the page |
| Filter rules (`LogView/LogScript`) | a compiled rule: disjunction of conjunctions | `Compile`, `OnRuleFilter`, `InputLog` | pages and search |
| Log pages (`LogView/view`, `SyntaxHlpr`) | `mContent`, `mFilterResult`, `mLastPos`, filter, text cache | `PushLog`, `SetFilter`, `ClearLogView`, timer | capture threads and user interface, without a lock |
| Configuration (`LogView/GlobalDef.cpp`) | lists of paths, filters, searches; a JSON file | `SaveConfig`, `LoadConfig`, `Enter...Str` | user interface |
| Thread pool (`LogLib/tpool.cpp`) | queue, counters, threads, two events | `exec`, `ThreadProc`, destructor | nobody in the tree yet |
| Events, locks, threads (`LogLib/*.cpp`, `LogSniff/common`) | a condition variable; a recursive mutex | `SetEvent`, `Wait`, `StartThread` | all |

What is hard: on the agent, three threads (start-up, inotify, select) share a
file cache, a set of socket numbers and one lock, and only some of the accesses
take it; files change while they are read; viewers come, go, are slow, and TCP
cuts their frames. On the viewer, the page of a channel is shared with programs
LogView does not control, events are auto-reset, a buffer is emptied while it is
filled, and the pages are written by capture threads and by the user interface.

What must hold, by component:

* tailing: no byte skipped of a file that can be opened, no line torn, repeated
  or out of order, no position kept for a file that is gone, and the end of the
  file reached;
* server: a number among the listeners is a registered viewer; a viewer gets
  every line from its registration on, once; nobody waits for ever;
* protocol: the frames that come out are the ones put in, however they are cut;
* capture: what was read is shown, whole, once and in order; the buffer's
  descriptors describe it; no thread sleeps on work; capture and programs do not
  wait for each other;
* pool: counters are exact, tasks run in order, every task runs;
* client: what comes out of the stream is what was put in, and a line that is
  not a line of the agent's only comes out after a connection that was cut; it
  registers after every connect, and what has arrived is passed on;
* rules: a compiled rule keeps the lines that the rule says, and what is not a
  rule is not compiled;
* pages: the window shows what the filter keeps of the text, each line once and
  in order, and the text loses nothing;
* directory watches: a change in a watched directory is told, under the path of
  the file that changed; a new directory is watched;
* local monitor: no byte is skipped between two reads of a file that can be
  opened, and the end of a file in a watched directory is reached;
* servers: what is listed is followed and what is followed is listed; the
  database has the list, whenever LogView ends;
* configuration: every string that was entered is remembered, once, the latest
  first, except for what an end in the middle of a save takes away.

The code does not keep all of this. Where it falls short, the property that is
checked names the case as an exception and says that there is no other (section
3, "Exceptions"); where a document claims more than the code does, there is a
run that refutes the claim (section 3, "Findings").

## 2. Modules

```
LogTail        MCLogTail         LogTailProofs
DbgCapture     MCDbgCapture      DbgCaptureProofs
ThreadPool     MCThreadPool      ThreadPoolProofs
LogProtocol  (pure operators)
Delivery  (abstract)
LogServ    (EXTENDS LogProtocol, implements Delivery)   \
LogClient  (EXTENDS LogProtocol, implements Delivery)   / MCConnection   ConnectionProofs
ScriptEngine   \
LogPage        / MCPages         LogPageProofs
FileNotify     \
LocalTail      / MCWatch         WatchProofs
LogServMgr     \
LogViewConfig  / MCSettings        SettingsProofs
Selecting                        SequenceFacts
```

How they fit together: an agent is `LogTail` (what is read from a file) in front
of `LogServ` (who is sent it); the viewer's end of the connection is `LogClient`;
what `LocalTail`, `DbgCapture` or it hands on is pushed to a page, `LogPage`, which filters with
what `ScriptEngine` compiles. `Delivery` is the contract between the two ends of
the connection: lines are dispatched, and a viewer is shown some of them, none
behind a later one and no more of them twice than there were faults. A fault of the
agent is a listener erased under the iterator of `DispatchLog`; the viewer has none, so
what it shows it shows once. On the agent `FileNotify` is what calls the
handler of `LogTail`; on the viewer `LogServMgr` says which directories `LocalTail`
may look at. `MCConnection`, `MCPages`, `MCWatch` and `MCSettings` have two modules each that
share no state, and a behaviour is about one of the two while the other keeps
still. In `MCWatch` and `MCSettings` the first variable, `platform` or `part`, says which; in
`MCConnection` and `MCPages` there is a specification for each, and a run of its own. `Selecting` is the one operator that filters a
sequence by membership in a set, which `LogPage`, `DbgCapture`, `LogTail` and
`LogViewConfig` share, and `SequenceFacts` the facts about sequences that several proofs need.

**LogTail** models `CLogMonitor::FileNotifyProc` and `DispatchLog` for one file.
The file is a sequence of bytes, each byte the number under which it was
written, so that a loss, a repetition and a tear all show. The handler is split
where another process can interfere: `stat` (`StatFound`, `StatFailed`), `fopen`
(`Open`, `OpenFailed`), every `fread` (`ReadChunk`), and split and send
(`SendLines`). An `fopen` fails when the file is gone, and may fail when it is there;
`mLastPos` moves to `st_size` either way, since `FileNotifyProc` does not learn of it. The
handler holds an open file, so a file that is unlinked or renamed under it keeps
its contents (`orphan`). The start-up thread is `FileEnumProc`, `MonitorPath`,
`RegisterCallback`, in the order of `InitMonitor`; an event that is read before the
registration is dropped, as `OnFileEvent` drops it when no entry of `mRegisterCache` has
its descriptor. `RestThrownAway` is the end of the loop over one read at an event without
a name: events of this file behind it are lost. The writer is the environment: it
appends, truncates, renames the file away, deletes it and creates it again. A
rename and the creation of a new file under the old name are two steps, and
the first gives no event, because `NOTIFY_MASK` has no `IN_MOVED_FROM`. The ghost record
remembers why an entry may stay (`missed`), which bytes were skipped (`skipped`) and how
far the file had got when events were thrown away (`thrown`).

**DbgCapture** models `DbgThread` and `CacheThread`, with every wait and every
read of shared memory an action of its own: `SetAckEvents`, `WaitReady`, `Poll`,
`ReadPid` and `PushStrToCache` (the argument `ptr->mPid` is evaluated before the
lock is taken, the text is copied under it), `WaitNotify`, `GetStrSetFromCache`,
`OnDbgMsg`. A character of the cache is the pair of its message and its place in
it. The programs follow OutputDebugString's protocol: take the ack, write pid
and text, set the ready event, or give up. `InitCapturer` waits for
`CacheThread` before it starts `DbgThread`, so `Init` has both threads ready.

**ThreadPool** models the pool with one action for each critical section of
`ThreadProc` and `exec`, the auto-reset work event, and a destructor that may
come at any time. `WakeForExit` needs the work event unset: the work event is
first in the array and wins.

**LogProtocol** is the header and `GetRecvResult` as a recursive function of the
packet; a word is a field of four bytes. A header whose `mLength` is 0 makes the
loop of the code endless; the model's value for it is `"spin"`.

**LogServ** puts the agent's select thread beside the inotify thread's loop over
`mListener`. Connections have socket numbers, which the kernel gives lowest
first and uses again; `mDataCache` is indexed by number and never erased.
`OnServRecvData` takes the lock, `OnServSocketClose` does not. A `send` blocks,
lock in hand, while the viewer's buffer is full; after the viewer has left, the
first send is answered by a reset and the next raises SIGPIPE, which ends the
agent. When the select thread erases the element the iterator stands on,
`++it` follows the links of a freed node: `Advance` goes to any listener, earlier
ones included, to the end, or kills the process. `races` counts these. The model takes the lock for one line;
the code keeps it for all lines of one event, so the model has more
interleavings. A line is a number; what file it is from does not matter here.

**LogClient** is the other end: `CTcpClient` and `CServMonitor`. The agent and TCP are
the environment: the agent starts and stops, a connection ends after any byte,
with a reset that `recv` sees or silently. `ClientThread` is the loop of
`CTcpClient::run`: `OnClientRecvData` takes any piece of what has arrived, appends it to
`mLogCache` and passes on every whole frame; an error closes, connects again and
registers. `mLogCache` is not cleared then, so half a frame of the old connection
is completed with the bytes of the new one. Attempts to connect that fail are not
counted and have no bound; `MaxConnects` bounds the connections that are made. `mInit` of `CServMonitor` is read before
anything was written to it; `Init` takes either value. `mListener` is never set, so
any line that is passed on may end the viewer.

**ScriptEngine** is `Compile` as the state machine it is: a scan of the script with a
stack of positions, which rewrites the script under itself whenever a bracket
is closed. `SimpleCompile`, `CalAndResult`, `CalOrResult` and `OnRuleFilter` are operators. The
script is a sequence of tokens, a line the set of the words it contains. What a rule
means (`Means`) is said apart from that: `Reading` reads the rule from left to right with
one level for each open bracket, rewrites nothing and multiplies nothing out, and
`Complete` says whether the rule has one of the forms of README.md:34-38.

**LogPage** puts `PushLog` on the capture thread beside `SetFilter`, `ClearLogView` and
`TimerCache` on the thread of the user interface, one action for each statement
that touches what both use. Two statements that use one string at the same
time, one of them writing, may end LogView (`Crash`): the string is a `std::string`.
The timer runs between the operations of its thread. Entering the filter that
is in force does nothing, as in the code. `alone` and `disturbed` remember which
operations a push has met.

**FileNotify** models `CFileNotify` of the agent. A directory is the sequence of names
that leads to it; the inode it has at the moment is what a watch belongs to, so a
directory that is deleted and created again is another one under the same path.
`Register` is split at each system call of `EnumFiles` (`RegisterRoot`, `OpenDir`, `EnumDir`,
`PushBack`), because the inotify thread reads events, and other programs create
directories, in between. `MonitorPath` is the operator both threads use, with the
two maps as they are: a path found in `mWdGlobal1` keeps its descriptor. `Read` takes what
fits in the buffer, `OnDirCreated`, `OnFileEvent` and `OnIgnored` are the loop over it: an event
without a name, which is the end of a watch, ends that loop. A path is a directory
and whether a double slash is in it. `lost`, `changed` and `dropped` remember which
directories nothing will see, which changes nobody was told of yet, and whether
events were thrown away.

**LocalTail** models one file under `CLocalMonitor` and `CWinFileNotify`: the user interface
in `AddPath` (`FileEnumProc`, `LogEnumHandler`, `PostRequest`, `PushBack`), the thread of the completion
port (`OnCreated`), and the thread that compares size and time (`CheckFileChanged`, then
`FileNotify`, `ReadChunk`, `ReadDone` of `CLocalMonitor`). The time of the last write is a counter
that need not move with a write. `FileEnumProc` takes no lock, so it can replace the
entry under a read that is going on: that read ends in the old entry (`orphan`). Apart
from the guess at its encoding, the code opens the file in five places, and each may fail although the file is there
(`OpensFile`): in `FileEnumProc` the position is then 0; in `OnFileNotify` and `CheckFileChanged`
`INVALID_HANDLE_VALUE` is not noticed, and time 0 and the size 0xFFFFFFFF (`NoSize`) are noted;
`FileNotifyFails` returns with the change already noted; and `ReadFails` is `GetFileContent`
that returns nothing while its caller moves the position on (`skipped`). `unseen` remembers
that the file has not grown since something was missed that only growth repairs.

**LogServMgr** models the list of paths of this machine through its four copies: the
row in the database, `LogServDesc`, `mPathSet` of `CLocalMonitor`, `mIoSet` of `CWinFileNotify`. A path is a
text, and `Inside` says which other texts it contains, because that is what the code
asks. `Register` refuses some paths for that and can fail to open others (`unopened`);
`AddPath` keeps both in `mPathSet`. Each save is a `SELECT` and an `INSERT` or `UPDATE`; the thread of `CGroupSender` saves the
answer to a scan at the same time, and `Busy` is the exception that ends LogView
when SQLite finds its file locked. `End` is an end at any other moment; `Start` reads
the row back, and cannot when an agent's row is there too (`_LoadLogServ` uses a null
pointer).

**LogViewConfig** models `LogViewConfigMgr`: the four lists of strings and one setting.
`SaveConfig` is three actions, `DeleteFile`, `OpenFile` and `WriteFile`, with an end possible between any two.
What pages and menus enter again at a start (`EnterAgain`) is part of it, because each
entry is a save.

## 3. Runs

| Run | Bounds | Shows |
| --- | --- | --- |
| `tail` | 3 bytes, newlines anywhere, 2 clearings, 1 fault (a failed `fopen`, events thrown away), 2 queued events, 2 bytes a read | `SentIsTheFile` (`NothingSkipped` and `WholeLinesInOrder`), `NoStaleEntry`, `CatchesUp` |
| `tail_torn` | 4 bytes, no clearing, no fault | a counterexample to `SentLinesAreWhole` |
| `dbg` | 2 channels, 4 messages of 1 or 2 characters by 4 processes, a buffer of 4 | `CacheIsSound` (`CacheTiled`, `CacheLossless`), `NobodyWaitsInVain` (`NotifyNotLost`, `NotBothWaiting`), `ExactWhenAckedOnce`, `Drains` |
| `dbg_lost` | as `dbg` | a counterexample to `NoneOverwritten` |
| `pool` | 1 thread at first, 2 at most, 3 tasks | `NoTaskForgotten` (`FreeCountExact`, `NoSleepOnWork`), `FirstInFirstOut`, `EveryTaskRuns` |
| `serv` | 2 connections, 2 numbers, 2 lines, room for 1 line | `ListenersServed` (`ListenersAreRegistered`, `GaplessStream`), `SpinsOnStaleBytes`, `ServDelivers`, `BothThreadsGoOn` (`RegisterHeard`, `DispatchEnds`) |
| `client` | 3 connections, any number of attempts, 3 lines, frames of 7 words cut anywhere | `LinesIntact` (`StreamIntact`, `OneAlteredPerCut`), `ClientDelivers`, `ClientRecovers` (`RegistersAgain`, `OwedArrives`) |
| `page` | 3 lines, 2 filters, 3 operations | `PageAgrees`, `EndsOnlyWhenMet`, `NothingThrownAway`, `WindowCatchesUp` |
| `rules` | 1460 rules over 3 words, up to two groups and two levels of brackets, whole and with a bracket or an operand missing | `BracketsHandled` (`StackOfBrackets`, `FaultyRejected`), `KeepsWhatItMeans` |
| `rules_order` | the whole ones of these, those with a literal behind a group included | a counterexample to `OrderIsFree` |
| `watch` | agent: 4 directories (the monitored one, `a`, `.a`, `a/b`), 2 created, 1 deleted, 2 changes, 2 events a read; viewer: 3 bytes, 1 truncation, 2 additions, 1 open that fails, 1 byte a read | `ToldIsTrue`, `BlindSpots`, `ChangeTold`; `NoGap`, `LocalCatchesUp` |
| `settings` | database: 5 paths, any of which may fail to open, 2 starts, 3 calls, 2 scans; file: 3 strings, 2 starts, 3 changes | `MonitorAgrees` (`ListedIsFollowed`, `FollowedIsListed`), `DatabaseKeepsUp`; `HistoryKept` |

Each run also checks its type invariant.

Why these bounds are enough for the cases of interest:

* `tail`: a read that passes `st_size` needs two bytes in a read where one was
  promised; a line that spans two events and a byte behind it are three bytes in
  all, and so are a byte skipped and one on either side. A torn line needs a line
  of two bytes and a repetition, four bytes, so `tail_torn` has these and nothing
  else. Merging shows with two events. Two clearings are a rename that leaves its
  entry behind and a deletion of the file that came after it. One fault is enough
  for each of the two kinds; two of them do not depend on each other.
* `dbg`: the channels are the two of the source. A double ack needs a message on
  the other channel and two writers on this one; the overflow needs a message
  that does not fit behind another (2 and 1 and 1 of 4), and the buffer is used
  again after it was emptied.
* `pool`: more tasks than threads, one thread still to be created, a wake-up
  that stands for two calls.
* `serv`: two connections are enough for a number to be used again and for a
  listener to be erased while the other is served; with room for one line the
  second send blocks. The invariants and `ServDelivers` also held with three
  connections (1.9 million states), too slow for the liveness properties.

* `client`: two connections for a frame that is cut and completed with another's
  bytes, and a third, so that a client that has come back once must come back again;
  attempts in between fail as often as they like. With three lines the altered one is followed by a whole one, which shows
  that the stream recovers. A piece of any length arrives.
* `page`: an operation that a push spoils, one that repairs, and one that a later
  push meets again; a filter that keeps one line of three.
* `rules`: every rule of one or two literals, with and without a third behind `||`;
  a group before, behind and inside another. Three words and a negation tell
  `a && b || c` from `a && (b || c)`. The rules with a literal behind a group are not
  `Complete`; `KeepsWhatItMeans` says nothing of them, and `OrderIsFree` of `rules_order` does. Which rules are well
  formed is the definition `WellFormed`, on the text as it was entered: every group
  is also tried with a bracket too few or too many and with `&& ||` at either end.

* `watch`: a directory that is created, deleted and created again under its name
  takes two creations and a deletion; `a/b` is a directory that appears while its
  parent is enumerated, `.a` one whose path loses its dot. Two events a read put
  an event behind the end of a watch into the same buffer. The file of the viewer
  has a byte before the first enumeration, one between two of them and one after;
  one open that fails can be any of the five, and what it spoils is repaired, or
  not, by opens that succeed.
* `settings`: `log` and `logs` contain each other's text without being in each other,
  `log/sub` and `log/x.txt` are below, and `old;log` reads back as several. Two starts
  are one restart, after which the lists are those of the database.

`CHECK_DEADLOCK FALSE` is in every cfg because every model has a bounded
environment (bytes, messages, tasks, connections): when it is used up and all is
handled, the system rests.

### Findings

* `tail_torn`: `DispatchLog` reads 1024 bytes at a time and stops when it has *at
  least* what `st_size` promised, then `mLastPos` is set to `st_size`. Bytes
  appended between `stat` and `fread` are therefore read twice. When the first
  copy ends inside a line, that part waits in `mLastCache` and the second copy
  is put behind it: a line is sent that is not in the file. The comment above
  the loop says `//send log by line`. `NothingSkipped` and `WholeLinesInOrder`
  show that this is the only way: without such a read the lines are right, and
  nothing is skipped but what an `fopen` that failed did not get at.
* `dbg_lost`: each round of `DbgThread` sets the ack event of *every* channel.
  A channel whose writer took the previous ack and is still writing gets a second
  one; the next program takes it and overwrites the page before the first
  message is read. README.md:8 says that all log data is kept in memory.
  `ExactWhenAckedOnce` shows that a channel that never got such a second ack
  loses nothing.

* `rules_order`: `SimpleCompile` puts a keyword behind `&&` into the last rule of the
  vector. `(a || b) && c` is compiled to `a || (b && c)`, and lines with `a` and without
  `c` are kept; `c && (a || b)` is multiplied out and right. README.md:35 says that
  `&&` keeps the lines that contain both, and the comment above `CalAndResult` shows
  the product. (Without brackets the last rule is what `a || b && c` is commonly
  taken to mean; those are among the forms of `KeepsWhatItMeans`, which holds. README.md
  does not say what `a || b && (c || d)` means, and `Complete` leaves it out.)

What `page` says of a push that meets an operation is what the code leaves to
chance, and no document promises more: a push between `ClearCache` and `SetText` is
shown twice, one between `InputLog` and the assignment to `mLastPos` can stay hidden until
the filter changes, and one that cut its piece before `SetFilter` shows a line that
the new filter does not keep. `PageAgrees` says that this is the only way and that
one undisturbed `SetFilter` repairs all but `mTotalCount`.

### Exceptions

The runs show, beside what their properties say, where the code falls short of
what one would expect. No document promises more, so these are exceptions that
the properties name and not findings:

* agent, `NothingSkipped`: when `fopen` fails (`LogMonitor.cpp:149`), also of a file that is
  there, `mLastPos` moves on all the same (line 54) and the bytes are never sent.
* agent, `NoStaleEntry`: a file that is renamed away keeps its entry until an event of its
  name is handled while it is gone, since `NOTIFY_MASK` (`FileNotify.cpp:6`) does not ask
  for renames; so does one that was deleted before the callback was registered,
  or whose event was thrown away. What comes under that name is read from the old
  position.
* agent, `CatchesUp`: bytes whose event was thrown away (`FileNotify.cpp:158`) wait for the next
  append.
* agent, `GaplessStream`: a listener that is erased under the iterator can make others miss
  the line, or bring them one twice, which `ServDelivers` counts.
* agent, `BlindSpots` and `ChangeTold`: a directory is not watched when it was created
  before its parent was; when its event was read before `mRegisterCache` had the
  registration, or stood behind the end of another watch in one read
  (`FileNotify.cpp:158` leaves the loop); when a directory of that path was watched
  before, since `mWdGlobal1` still has the dead descriptor (`FileNotify.cpp:37`); and when
  its name begins with a dot, which is cut off (`FileNotify.cpp:88`).
* viewer, `NoGap`: what `GetFileContent` could not open the file for (`LocalMonitor.cpp:332`) is
  skipped, because the position moves to the size all the same (line 274).
* viewer, `LocalCatchesUp`: a file created between the second enumeration and the first
  request for changes is not known until its directory is added again; what was
  appended between the two enumerations, or noted before the directory was in
  `mIoSet`, is shown only with the next change of the file. So is a change for which
  `FileNotify` could not open the file (`LocalMonitor.cpp:255`), because it is noted already;
  and after a failed open in `CWinFileNotify` (`WinFileNotify.cpp:130`, 357) a change only shows
  in the time, never in the size, which is 0xFFFFFFFF then.
* viewer, `MonitorAgrees`: `Register` asks whether the text of one path is in that of another.
  With `logs` watched, `log` is accepted into the list and never watched; with `log`
  listed, the dialog refuses `logs` (`TabCfgPage.cpp:161`). A directory dropped on the window
  is listed and saved but not followed until the next start. A directory that cannot
  be opened when it is added (`WinFileNotify.cpp:313`) is listed and not watched, and no
  later change of the list tries it again (`LocalMonitor.cpp:106`). A path loaded at the
  start and then deleted is followed again at the next change of the list.
* viewer, `Start` and `Busy`: once the answer of an agent is in the database LogView
  does not start any more (`MainView.cpp:373`), and two saves at the same moment can end it.
* viewer, `HistoryKept`: an end inside `SaveConfig` loses all lists; the searches in
  files are written and never read back; pause and automatic scrolling are changed
  in a copy of the settings only.

## 4. Fairness

* `LogTail`: the start-up thread goes on, and the inotify thread does not stop
  inside a handler or with an event queued. The writer is free to stop.
* `DbgCapture`: weak fairness of `DbgThread`, of `CacheThread` and of a program
  that has begun to print; entering OutputDebugString and giving up are free.
* `ThreadPool`: weak fairness of each thread, which includes that `run()` of a
  task returns.
* `LogServ`: weak fairness of the select thread and of the inotify thread, and of
  TCP together with viewers that read while they are connected. That a viewer
  connects or leaves and that a log grows is not assumed. A blocking `send` is an
  action that is not enabled, so fairness of the inotify thread says nothing
  while it blocks: `DispatchEnds` needs that viewers read or leave, and that is
  what `WF_vars(Traffic)` says.

* `LogClient`: weak fairness of the client's thread, of the agent's reading of a
  register frame and of the arrival of bytes that were sent. The user who calls
  `Run`, the agent that stops or starts, and the connection that ends are free.
* `LogPage`: weak fairness of a `PushLog` that has begun and of the user interface: an
  operation that has begun goes on and the timer fires (`SetTimer`, every 500 ms).
  Lines and operations need not come.

* `FileNotify`: weak fairness of `Register` and of the inotify thread: both threads of the
  agent go on. Nobody has to change the file system.
* `LocalTail`: weak fairness of an `AddPath` that has begun, of the two threads of
  `CWinFileNotify`, and of `CheckFileChanged` for each of the two sets: both are walked again and
  again, the active one each second and the passive one each 30 seconds. A lock
  is not held for ever, because a read ends at the end of the file and the model
  bounds the bytes.
* `LogServMgr` and `LogViewConfig` are about states and have no fairness: LogView may end at
  any moment.

## 5. Proofs

`DbgCaptureProofs` proves for every number of channels, every set of messages
with any lengths, and every buffer size:

* `TypeCorrect`, `CacheStaysTiled`: by `IInv = TypeOK /\ CacheTiled /\
  CacheInside`. `CacheTiled` chains each descriptor to the next; `CacheInside` is
  what the chain comes to, every piece ends before `mCurPos`. The pieces that
  `GetStrSetFromCache` cuts out are strings of characters only because of both.
* `CacheThreadIsWoken` (`NotifyNotLost`), inductive by itself, and `NoMutualWait`
  (`NotBothWaiting`), inductive with `IInv`; `NobodyWaits` (`NobodyWaitsInVain`) is both.
* `OneAckKeepsAll` (`ExactWhenAckedOnce`): by an invariant that treats the ack of a channel as a
  token. While the channel never got a second one, at most one of these is true:
  the ack event is set, a program is at work, the ready event is set, `DbgThread` is
  about to read the page (`OneAtATime`). A program that is about to signal has filled
  the page (`Written`), and a channel is read once in a round (`Taken`).
* `NothingIsTorn` (`WaitingAreStored`): the pieces in the buffer are the last messages that were
  stored, and the list of `CacheThread` those before them, character by character. A copy
  behind `mCurPos` leaves the pieces before it alone (`CopyKeeps`), because of `CacheInside`.
* `NothingIsLost` (`CacheIsSound`): with that, what was shown, what `CacheThread` holds and what is
  in the buffer are all that was stored and is not LogView's own, whole and in order.

`ThreadPoolProofs` proves for every number of threads and tasks:

* `TypeCorrect`, `CountersExact`: by `IInv = TypeOK /\ AliveAreFirst /\
  LeaveOnlyAtExit /\ Counted`. That `m_freeCount` stays a natural number needs
  the equation with the number of running threads, and that needs that threads
  are created in the order of their numbers and leave only at exit.
* `WorkWakesAThread` (`NoSleepOnWork`): uses `CountersExact`, because `exec` relies
  on `m_freeCount` for the claim that some thread exists that is awake or asleep
  on the event.
* `NothingIsForgotten` (`NoTaskForgotten`) is both, and `StartedInOrder` (`FirstInFirstOut`).

`ConnectionProofs` proves, of `LogServ`, for every number of connections, socket numbers and lines:

* `OnlyViewersListen` (`ListenersAreRegistered`): by `IInv = ServTypes /\ Sockets`.
  A listener stays registered only because its number has one owner (`OneOwner`),
  because a connection that waits in the backlog has no number (`Queued`), and
  because `closesocket` comes after `mListener.erase` (`Closing`).
* `StreamsAreGapless` (`GaplessStream`): by `IInv` and `StreamInv`: while nothing was
  erased under it, the iterator stands on a listener and passes over none
  (`IteratorSteps`), and a viewer that has not registered was sent nothing.
  `GetRecvResult` plays no part in either proof, so they hold however frames are
  cut and decoded.
* `ListenersAreServed` (`ListenersServed`) is both of them.
* `ServImplementsDelivery` (`ServDelivers`): by `DeliveryInv`. Every step of `LogServ` is a step of
  `Delivery` or leaves its variables alone, also when the select thread erases the
  element under the iterator, which `GaplessStream` has to leave out. A viewer can then miss a
  line, or get it again when `++it` leads back to it. The repetitions are paid for by
  the races: for each viewer those it had, and one more if it has the line in hand
  and the loop may still come to it (`Again`), are no more than the races (`RepeatsPaid`).
  While the iterator stands on a listener it moves on to later ones only, so that a
  viewer which has the line is reached again only after a race, which pays. No line is
  sent before it is dispatched (`SoFar`), and nobody is served before it has a socket
  (`Unserved`).
* `TypeCorrect` (`TypeOK`): what is left in `mDataCache` is made of bytes that came. The two
  functions of `GetRecvResult` call themselves with a later position, so that they have
  a solution at all (`JumpsExist`, `FramedExist`) and what it is (`Received`) is proved
  from the last byte of the packet to the first (`Descends`).
* `SpinNeedsStaleBytes` (`SpinsOnStaleBytes`): while no connection was given a number with old
  bytes, what a connection has in `mDataCache`, in the socket and still to send is, put
  together, one beginning of its register frame (`Onward`), and of such a beginning
  `GetRecvResult` takes nothing or the whole frame. So `mLength` is never 0 there.

and, of `LogClient`, for every number of lines and of connections that end anywhere, by
`ClientInv = ClientTypeOK /\ Connected /\ Spliced /\ Rising /\ Owing`, which is about the bytes
in `mLogCache` and on their way, put together:

* `Spliced`: after a connection has ended inside a frame those bytes are no longer a row
  of frames, so the invariant gives each byte an age, the number of the connection
  it came by (`Ages`). The age rises only where a frame begins, and from each
  beginning on the words of one frame follow as long as the age stays. A frame that
  `GetRecvResult` puts together from two connections ends behind such a rise, so what it
  takes is paid for by the rise (`TakenPays`, `PacketPays`): lines that came out altered
  are never more than the age of the first byte that is left, and with `Ready`, which
  says that an unfinished frame at the end is of an earlier connection, never more
  than the connections that were cut. The age is a witness of the proof and not a
  variable of the model.
* `Rising` (`RisingTo`): the numbers of lines that stand in those bytes go up and are higher
  than all that were shown. The splice keeps this: what is skipped stays skipped.
* `Owing`: while no connection was cut, those bytes are the frames of the lines that are
  owed, less what was taken of them (`Chain`).
* Hence `ClientTypeCorrect` (`ClientTypeOK`), `LinesStayIntact` (`LinesIntact`) and
  `ClientImplementsDelivery` (`ClientDelivers`): each line that is passed on is a step of
  `Delivery`, however many frames one `recv` completes and whichever of them are altered.
  `PacketRead` says for any packet what `GetRecvResult` takes from it and what that costs, by
  induction from its last byte to its first, since that is how its functions recur.

`EachEndAlone`: a behaviour of either run is one of `LogServ` or of `LogClient`.

`LogPageProofs` proves, of `LogPage`, for every number of lines and operations and every filter:

* `NoEndAlone` (`EndsOnlyWhenMet`): a push and an operation that are both under way have
  met (`MetIsNoted`), and the position is behind the end only inside `ClearLogView`
  (`PosInside`): so `substr` cannot throw for what an earlier meeting left behind.
* `TextIsKept` (`NothingThrownAway`).
* `TypeCorrect` (`TypeOK`), and `PageIsRight` (`PageAgrees`): what stands in the window is what
  the filter keeps of the text up to `mShowPos`. That filtering a text and then
  filtering what is appended is filtering the whole is `SelectConcat` of
  `SequenceFacts`.

and, of `ScriptEngine`, for every script and for vectors of any length:

* `ScriptTypesCorrect` (`ScriptTypes`): the scan rewrites the script under itself, and every
  variable that stands in it then has its vector (`VarsKnown`). This needs that a script
  does not contain the names of such variables from the start: `ScriptConstants` of
  `MCPages`.
* `BracketsAreFound` (`StackOfBrackets`): `StackOfBrackets` is inductive with the types of the
  scan, because what `CloseBracket` cuts out lies right of all positions that stay on
  the stack. That these are in order is stated for all pairs of them.
* `FaultyAreRejected` (`BracketsHandled`): exactly the scripts with matching brackets and
  without an operator that stands alone are compiled. `WellFormed` is about the text as
  it was entered and `Compile` judges pieces of one it has rewritten, so the invariant is
  that the two texts are alike in both respects (`SameVerdict`): replacing a pair of brackets
  that has no bracket inside by a variable changes no depth outside (`MatchSurvives`), and
  no lone operator outside (`LoneSurvives`), and the text inside has none (`InnerHas`).
  On a text without brackets the syntax check of `SimpleCompile`, which goes by the place of
  an operand among the pieces of `Split`, finds just the lone operators (`BadIsLone`).
  So `a &&` and `a && || b` are compiled: an operator at the end is dropped, and one
  behind another becomes part of the keyword.
* `AndKeepsWhatBothKeep`, `OrKeepsWhatEitherKeeps`: the product of `CalAndResult` is laid out row by
  row (`RowAndColumn`, `RowInside`), so each pair of rules has a place in it.
* `AndLastKeeps`: what a keyword behind `&&` does to any vector, which is the finding of
  `rules_order` for all of them.
* `RulesKeepWhatTheyMean` (`KeepsWhatItMeans`), by `MeaningInv`: the script as it stands is
  still read like the rule that was entered (`MeaningKept`). A variable that replaced a
  bracket is read as what was between the brackets: reading up to the bracket is not
  changed (`ReadingsAgree`), what is inside is read on a level of its own
  (`InnerReading`), and behind it the two readings are level again (`ReplacedReading`).
  What is inside has no brackets, and `FlatMeans` shows that `SimpleCompile` computes what
  such a text means, operand by operand: the last rule of the vector is the conjunction
  that is being read and the others are the disjuncts before it, as long as no
  keyword comes behind a vector. That is the form `Fits` asks for, and `AndLastKeeps` says
  what happens otherwise. `SimpleCompile` is a recursive function, so `ComputedIsResult`
  first shows that any vectors which follow its steps are the ones it computes.

`EachPartAlone`: a behaviour of either run of `MCPages` is one of `LogPage` or of `ScriptEngine`.

`LogTailProofs` proves for every number of bytes, events and clearings:

* `EntriesAreDropped` (`NoStaleEntry`): by `IInv`: for an entry of a file that is gone
  an event is queued or being handled (`EventOnItsWay`), unless nothing told of it: the
  file was renamed, its event was thrown away, or it went before the callback was
  registered (`BeforeServe`).
* `ReadsAreTheFile` (`ReadsTheFile`): while the file only grows, and when `fopen` has succeeded,
  what is handed to the split into lines is an unbroken piece of the file from
  `mLastPos` on and reaches at least to `st_size`, for any size of the buffer.
* `FileIsSent` (`SentIsTheFile`): the lines that were sent and the rest that waits are that
  file, in order, but for the bytes a failed `fopen` moved `mLastPos` over; what stands on
  both sides of such a hole is one line. It takes what the split does to every string: the lines and the rest
  it returns are its input without the line ends, and splitting a string after its
  first part is the same as splitting the parts (`CutAt`).
* `TypeCorrect` (`TypeOK`).

`WatchProofs` proves, of `FileNotify`, for every tree of directories and any number of
changes and, of `LocalTail`, for every number of bytes and additions and any buffer:

* `PathsAreTrue` (`ToldIsTrue`): each inode has one home, the directory it was created as; the
  path in `mWdGlobal2` of a live descriptor is the home of the inode it was given for, and
  events name that home even when they are read after the directory is gone.
* `WatchesKnown` (`BlindSpots`): a directory that exists and that no watch knows is under one
  that the agent is still to list, or its creation is an event that is still to be read.
  By itself this is not inductive. `Accounted` says it of every directory with the
  place where the listing stands: what is under a directory that `EnumFiles` has passed
  is known or was created later, and whatever is created under a watched directory is
  an event. `Phases` relates the place in the listing to what is on its stack, and
  `Rooted` says that a directory exists only under one that exists.
* `NotifyTypeCorrect` (`TypeOK` of `FileNotify`): the number of descriptors is bounded by the
  number of inodes ever made, since no two live descriptors have the same (`FewWatches`).
* `NoByteIsSkipped` (`NoGap`): the position is beyond the last byte that was received only by
  bytes `GetFileContent` could not open the file for, and what a read has collected
  continues from the position. An entry that is replaced during a read
  starts anew, and the read that goes on belongs to the old one.
* `EachAlone`: a behaviour of `MCWatch` is, in the variables of either module, a behaviour of
  that module; so `BothTypesCorrect` (`BothTypeOK`), and what was proved of each module
  holds of what the run `watch` explores.

`SettingsProofs` proves, of `LogServMgr`, for every set of paths, whichever of them contain each
other, and of `LogViewConfig`, for every set of strings, for any number of starts and calls:

* `RowKeepsUp` (`DatabaseKeepsUp`): between two calls the row is the list as it is (`Saved`).
* `MonitorIsTheList` (`MonitorAgrees`): neither half is inductive alone. A path of the monitor
  that is not in `mIoSet` is inside one that was watched since the start, or could not
  be opened when it was added (`Watching`); a
  listed directory is followed, or was dropped on the window, or is in hand or still to
  be added (`AllReached`), or was twice in the list the start read (`TwiceFromStart`), in
  which case deleting it once leaves it listed. That list is split from the texts
  in the row and is the only one in which a path can stand twice.
* `HistoryIsKept` (`HistoryKept`): each list in memory matches what was entered (`InMemory`), and
  the file has the lists as of the last save, or nothing between `DeleteFile` and
  `WriteFile` (`Saving`, `OnDisk`); a `SaveConfig` that has not begun to delete has not yet
  written the string it was called for.
* `EachAlone`: a behaviour of `MCSettings` is one of each module, hence `SettingsTypesCorrect`
  (`SettingsTypeOK`).

`SequenceFacts` proves what a filter and a split compute for every sequence. Its induction
is `NatInduces`, which takes the property as a set of numbers, so that no operator has
to be instantiated; `RecursionExists` shows that a recursive definition over the numbers
has a solution, which `SelectSolves` needs to reason about `Select` at all.

The assumptions are those of the modules (`DbgConstants`, `PoolConstants`,
`LogServConstants`, `LogClientConstants`, `LogTailConstants`, `LogPageConstants`, `ScriptConstants`,
`FileNotifyConstants`, `LocalTailConstants`, `LogServMgrConstants`, `LogViewConfigConstants`) and are evaluated by the runs.

Only model-checked are the liveness properties: fairness and ENABLED are out of the
prover's reach. Every invariant and every action property of the passing runs is stated by
a theorem. The three properties that a run refutes, `SentLinesAreWhole`, `NoneOverwritten`
and `OrderIsFree`, are not theorems, of course; what holds in their place is
`WholeLinesInOrder`, `ExactWhenAckedOnce` and `KeepsWhatItMeans`.

## 6. Not modelled, and why

* Failures of the agent's own start (`socket`, `bind`, `listen`,
  `inotify_init`): the agent does not run then.
* The second `OnServSocketClose`/`closesocket` when a socket is in `errSet` after a
  failed `recv` (`tcpserv.cpp:210`): Linux puts out-of-band data there, which no
  viewer sends.
* `CTcpClient::Close`, `CServMonitor::Init` and `GetThreadPool` have no caller in the
  tree; the pool is modelled all the same, as a component with a contract.
* Time, process names and the wording of a line in `OnDbgMsg`.
* Blanks in rules (`ScriptCleanUp`), styles and colours, and rules with the same
  operator twice in a row.
* Viewing an agent's logs remotely, beyond `LogClient`: no answer to a scan is ever put in
  `mLogServCache` (`LogServMgr.cpp`), so a server cannot be chosen in this build, and no
  two threads push to one page. `mPause` drops lines before they reach a page.
* The JSON of descriptions and of the configuration, and text encodings.
* A notification buffer of Windows that overflows, and files that are deleted there.
* On the agent's side: a queue of inotify that overflows, directories that are
  renamed, and files that are renamed into a name that is watched (which also gives
  no event, so such a file is a new one only once it changes).
* An erasure from `mListener` of another node than the iterator's at the very time when
  `++it` walks the tree: erasures and steps of the iterator are atomic.
* `CNotifyEvent` and `CUdpServ`, which have no user in the tree.
* Windows, dialogs and menus: what they change is a command of `LogServMgr`, `LogViewConfig` or `LogPage`.
* Vendored code (jsoncpp, SQLite, deelx, crc32, winsize, Scintilla), drawing and
  layout, string conversions. These are the larger part of the tree: the headers
  of SQLite, deelx and Scintilla and two copies of jsoncpp alone are more than half
  of its lines, and the logic of LogSniff and LogView that is modelled is a few
  thousand.

## 7. What could come next

1. Rules with blanks and with styles (`ScriptCleanUp`), for which a script would have to
   be a text rather than a row of tokens.
2. Several files in one `LogTail`, for `mLogCache` as a map, and two registrations in
   `FileNotify`, should `main` ever register more than one path.
3. The switch between servers, once an answer to a scan enters `mLogServCache`: an old
   monitor that still runs would push to the page of the new one.
