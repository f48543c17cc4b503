----------------------------- MODULE ThreadPool -----------------------------
(***************************************************************************)
(* The thread pool of LogLib (tpool.cpp).  Threads sleep on an auto-reset  *)
(* work event and a manual-reset exit event; exec queues a task and, when  *)
(* m_freeCount says that no thread is free, starts one more.  The number   *)
(* of free threads is a counter the threads keep up to date themselves,    *)
(* under the pool's lock; a thread that is woken drains the whole queue.   *)
(***************************************************************************)
EXTENDS Naturals, Sequences, FiniteSets

CONSTANTS Task, NoTask, InitCount, MaxCount

ASSUME PoolConstants ==
  /\ InitCount \in Nat /\ MaxCount \in Nat \ {0} /\ InitCount <= MaxCount
  /\ NoTask \notin Task

VARIABLES
  m_runable, m_freeCount, m_curCount,   \* under the lock
  workNotify, exitNotify,               \* m_hWorkNotify, m_hExitNotify
  pc, task,                             \* each thread, in order of creation
  closed,                               \* the destructor has returned
  submitted, started, finished          \* what the properties remember

poolVars == <<m_runable, m_freeCount, m_curCount>>
historyVars == <<submitted, started, finished>>
vars == <<poolVars, workNotify, exitNotify, pc, task, closed, historyVars>>

Thread == 1 .. MaxCount
Alive == {t \in Thread : pc[t] # "none"}
Running == {t \in Thread : pc[t] = "run"}

TypeOK ==
  /\ m_runable \in Seq(Task)
  /\ m_freeCount \in Nat /\ m_curCount \in 0 .. MaxCount
  /\ workNotify \in BOOLEAN /\ exitNotify \in BOOLEAN /\ closed \in BOOLEAN
  /\ pc \in [Thread -> {"none", "wait", "drain", "run", "exited", "killed"}]
  /\ task \in [Thread -> Task \cup {NoTask}]
  /\ \A t \in Running : task[t] \in Task
  /\ submitted \in Seq(Task) /\ started \in Seq(Task)
  /\ finished \subseteq Task

-----------------------------------------------------------------------------
CreateNewThread ==
  /\ m_freeCount = 0 /\ m_curCount < MaxCount
  /\ m_freeCount' = 1 /\ m_curCount' = m_curCount + 1
  /\ pc' = [pc EXCEPT ![m_curCount + 1] = "wait"]

\* The caller gives each task to the pool once; it owns the task from then on.
Exec(k) ==
  /\ ~exitNotify
  /\ \A i \in 1 .. Len(submitted) : submitted[i] # k
  /\ m_runable' = Append(m_runable, k)
  /\ submitted' = Append(submitted, k)
  /\ \/ CreateNewThread
     \/ /\ ~(m_freeCount = 0 /\ m_curCount < MaxCount)
        /\ UNCHANGED <<m_freeCount, m_curCount, pc>>
  /\ workNotify' = TRUE
  /\ UNCHANGED <<exitNotify, task, closed, started, finished>>

\* The work event comes first in the array, so it wins over the exit event.
WakeForWork(t) ==
  /\ pc[t] = "wait" /\ workNotify
  /\ workNotify' = FALSE
  /\ pc' = [pc EXCEPT ![t] = "drain"]
  /\ UNCHANGED <<poolVars, exitNotify, task, closed, historyVars>>

WakeForExit(t) ==
  /\ pc[t] = "wait" /\ ~workNotify /\ exitNotify
  /\ pc' = [pc EXCEPT ![t] = "exited"]
  /\ UNCHANGED <<poolVars, workNotify, exitNotify, task, closed, historyVars>>

\* Mutant: the newest task first.
TakeNewest(t) ==
  /\ pc[t] = "drain" /\ m_runable # <<>>
  /\ LET n == Len(m_runable)
     IN  /\ task' = [task EXCEPT ![t] = m_runable[n]]
         /\ m_runable' = SubSeq(m_runable, 1, n - 1)
         /\ started' = Append(started, m_runable[n])
  /\ m_freeCount' = m_freeCount - 1
  /\ pc' = [pc EXCEPT ![t] = "run"]
  /\ UNCHANGED <<m_curCount, workNotify, exitNotify, closed, submitted, finished>>

TakeTask(t) ==
  /\ pc[t] = "drain" /\ m_runable # <<>>
  /\ m_freeCount' = m_freeCount - 1
  /\ task' = [task EXCEPT ![t] = Head(m_runable)]
  /\ m_runable' = Tail(m_runable)
  /\ started' = Append(started, Head(m_runable))
  /\ pc' = [pc EXCEPT ![t] = "run"]
  /\ UNCHANGED <<m_curCount, workNotify, exitNotify, closed, submitted, finished>>

QueueEmpty(t) ==
  /\ pc[t] = "drain" /\ m_runable = <<>>
  /\ pc' = [pc EXCEPT ![t] = "wait"]
  /\ UNCHANGED <<poolVars, workNotify, exitNotify, task, closed, historyVars>>

\* Mutant: m_freeCount++ is forgotten.
FinishUncounted(t) ==
  /\ pc[t] = "run"
  /\ finished' = finished \cup {task[t]}
  /\ pc' = [pc EXCEPT ![t] = "drain"]
  /\ UNCHANGED <<poolVars, workNotify, exitNotify, task, closed, submitted,
                 started>>

\* Mutant: one task for each wake-up, without the inner loop.
FinishThenSleep(t) ==
  /\ pc[t] = "run"
  /\ finished' = finished \cup {task[t]}
  /\ m_freeCount' = m_freeCount + 1
  /\ pc' = [pc EXCEPT ![t] = "wait"]
  /\ UNCHANGED <<m_runable, m_curCount, workNotify, exitNotify, task, closed,
                 submitted, started>>

FinishTask(t) ==
  /\ pc[t] = "run"
  /\ finished' = finished \cup {task[t]}
  /\ m_freeCount' = m_freeCount + 1
  /\ pc' = [pc EXCEPT ![t] = "drain"]
  /\ UNCHANGED <<m_runable, m_curCount, workNotify, exitNotify, task, closed,
                 submitted, started>>

ThreadProc(t) ==
  \/ WakeForWork(t) \/ WakeForExit(t) \/ TakeTask(t) \/ QueueEmpty(t)
  \/ FinishTask(t)

\* The destructor: ask the threads to leave, wait, kill those that remain.
Destroy ==
  /\ ~exitNotify
  /\ exitNotify' = TRUE
  /\ UNCHANGED <<poolVars, workNotify, pc, task, closed, historyVars>>

Terminate ==
  /\ exitNotify /\ ~closed
  /\ closed' = TRUE
  /\ pc' = [t \in Thread |-> IF pc[t] \in {"wait", "drain", "run"} THEN "killed"
                             ELSE pc[t]]
  /\ UNCHANGED <<poolVars, workNotify, exitNotify, task, historyVars>>

-----------------------------------------------------------------------------
Init ==
  /\ m_runable = <<>> /\ m_freeCount = InitCount /\ m_curCount = InitCount
  /\ workNotify = FALSE /\ exitNotify = FALSE /\ closed = FALSE
  /\ pc = [t \in Thread |-> IF t <= InitCount THEN "wait" ELSE "none"]
  /\ task = [t \in Thread |-> NoTask]
  /\ submitted = <<>> /\ started = <<>> /\ finished = {}

Next ==
  \/ \E k \in Task : Exec(k)
  \/ \E t \in Thread : ThreadProc(t)
  \/ Destroy \/ Terminate

Spec == Init /\ [][Next]_vars

\* Every thread is scheduled and every task's run() returns.
FairSpec == Spec /\ \A t \in Thread : WF_vars(ThreadProc(t))

-----------------------------------------------------------------------------
(* Properties.                                                             *)

(***************************************************************************)
(* FreeCountExact: m_freeCount is the number of threads that do not run a  *)
(* task, so it never goes below zero and exec starts a thread only when    *)
(* all that exist are busy.  Until the destructor has killed threads.      *)
(***************************************************************************)
FreeCountExact ==
  ~closed => /\ m_curCount = Cardinality(Alive)
             /\ m_freeCount + Cardinality(Running) = m_curCount

(***************************************************************************)
(* NoSleepOnWork: while tasks are queued and the pool is in use, some      *)
(* thread is awake or the work event is set for one that sleeps: however   *)
(* many calls of exec one auto-reset event stands for, no task is left     *)
(* behind with all threads asleep.                                         *)
(***************************************************************************)
NoSleepOnWork ==
  m_runable # <<>> /\ ~exitNotify =>
    \/ \E t \in Thread : pc[t] \in {"drain", "run"}
    \/ workNotify /\ \E t \in Thread : pc[t] = "wait"

(***************************************************************************)
(* NoTaskForgotten: both of these: exec decides by m_freeCount whether a new *)
(* thread is needed (tpool.cpp:76), so the count must be right, and the    *)
(* thread it relies on must not be one that sleeps on (tpool.cpp:80).      *)
(***************************************************************************)
NoTaskForgotten == FreeCountExact /\ NoSleepOnWork

(***************************************************************************)
(* FirstInFirstOut: the tasks are started in the order of exec, none of    *)
(* them twice and none of them left out.                                   *)
(***************************************************************************)
FirstInFirstOut == submitted = started \o m_runable

(***************************************************************************)
(* EveryTaskRuns: a task given to exec is finished in the end, unless the  *)
(* pool is destroyed, although exec may find a free thread that is about   *)
(* to take an earlier task, and starts no thread for the new one.          *)
(***************************************************************************)
EveryTaskRuns ==
  \A k \in Task :
    (\E i \in 1 .. Len(submitted) : submitted[i] = k)
      ~> (k \in finished \/ exitNotify)

=============================================================================
