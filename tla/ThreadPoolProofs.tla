-------------------------- MODULE ThreadPoolProofs --------------------------
(***************************************************************************)
(* Proofs about ThreadPool, for any set of tasks and any sizes.            *)
(***************************************************************************)
EXTENDS ThreadPool, FiniteSetTheorems, SequenceTheorems, TLAPS

USE PoolConstants DEF PoolConstants

(***************************************************************************)
(* The inductive invariant: the threads that exist are the first           *)
(* m_curCount ones, and they leave or are killed only once the destructor  *)
(* runs.  With the count of the free threads this shows that m_freeCount   *)
(* is never decremented at zero, which TypeOK claims.                      *)
(***************************************************************************)
AliveAreFirst == \A t \in Thread : pc[t] = "none" <=> t > m_curCount

LeaveOnlyAtExit ==
  /\ \A t \in Thread : pc[t] = "exited" => exitNotify
  /\ \A t \in Thread : pc[t] = "killed" => closed
  /\ closed => exitNotify /\ \A t \in Thread : pc[t] \in {"none", "exited", "killed"}

Counted == ~closed => m_freeCount + Cardinality(Running) = m_curCount

IInv == TypeOK /\ AliveAreFirst /\ LeaveOnlyAtExit /\ Counted

LEMMA RunningFinite ==
  /\ IsFiniteSet(Running) /\ Cardinality(Running) \in Nat
  /\ IsFiniteSet(Thread) /\ Running \subseteq Thread
<1>1. IsFiniteSet(Thread)
  BY FS_Interval DEF Thread
<1>2. Running \subseteq Thread
  BY DEF Running
<1> QED
  BY <1>1, <1>2, FS_Subset, FS_CardinalityType

\* A thread that exists and runs nothing leaves the runners a minority.
LEMMA FreeLeft ==
  ASSUME TypeOK, AliveAreFirst, NEW t \in Thread, pc[t] # "none", pc[t] # "run"
  PROVE  Cardinality(Running) < m_curCount
<1>1. m_curCount \in 1 .. MaxCount /\ t \in 1 .. m_curCount
  BY DEF TypeOK, AliveAreFirst, Thread
<1>2. Running \subseteq (1 .. m_curCount) \ {t}
  BY DEF Running, AliveAreFirst, Thread, TypeOK
<1>3. PICK S : S = 1 .. m_curCount
  OBVIOUS
<1>4. IsFiniteSet(S) /\ Cardinality(S) = m_curCount /\ t \in S
  BY <1>1, <1>3, FS_Interval
<1>5. IsFiniteSet(S \ {t}) /\ Cardinality(S \ {t}) = m_curCount - 1
  BY <1>4, FS_RemoveElement
<1>6. Cardinality(Running) <= Cardinality(S \ {t})
  BY <1>2, <1>3, <1>5, FS_Subset
<1> QED
  BY <1>1, <1>5, <1>6, RunningFinite

LEMMA InitInv == Init => IInv
<1> SUFFICES ASSUME Init PROVE IInv
  OBVIOUS
<1>1. Running = {}
  BY DEF Init, Running
<1>2. TypeOK
  <2>1. /\ m_runable \in Seq(Task) /\ submitted \in Seq(Task)
        /\ started \in Seq(Task)
    BY EmptySeq DEF Init
  <2>2. InitCount \in 0 .. MaxCount
    OBVIOUS
  <2>3. pc \in [Thread -> {"none", "wait", "drain", "run", "exited", "killed"}]
    BY DEF Init
  <2>4. task \in [Thread -> Task \cup {NoTask}]
    BY DEF Init
  <2> QED
    BY <1>1, <2>1, <2>2, <2>3, <2>4 DEF Init, TypeOK
<1>3. AliveAreFirst /\ LeaveOnlyAtExit
  BY DEF Init, AliveAreFirst, LeaveOnlyAtExit, Thread
<1>4. Counted
  BY <1>1, FS_EmptySet DEF Init, Counted
<1> QED
  BY <1>2, <1>3, <1>4 DEF IInv

LEMMA NextInv == IInv /\ [Next]_vars => IInv'
<1> SUFFICES ASSUME IInv, [Next]_vars PROVE IInv'
  OBVIOUS
<1> USE DEF IInv
<1>1. ASSUME NEW k \in Task, Exec(k) PROVE IInv'
  <2>1. /\ Append(m_runable, k) \in Seq(Task)
        /\ Append(submitted, k) \in Seq(Task)
    BY AppendProperties DEF TypeOK
  <2>2. CASE CreateNewThread
    <3>1. m_curCount + 1 \in Thread
      BY <2>2 DEF CreateNewThread, TypeOK, Thread
    <3>2. Running' = Running
      BY <2>2, <3>1 DEF CreateNewThread, Running, TypeOK, AliveAreFirst, Thread
    <3>3. TypeOK'
      BY <1>1, <2>1, <2>2, <3>1, <3>2 DEF Exec, CreateNewThread, TypeOK, Thread
    <3>4. AliveAreFirst'
      BY <2>2, <3>1 DEF CreateNewThread, AliveAreFirst, TypeOK, Thread
    <3>5. LeaveOnlyAtExit'
      BY <1>1, <2>2, <3>1 DEF Exec, CreateNewThread, LeaveOnlyAtExit, TypeOK
    <3>6. Counted'
      BY <1>1, <2>2, <3>2, RunningFinite DEF Exec, CreateNewThread, Counted, TypeOK
    <3> QED
      BY <3>3, <3>4, <3>5, <3>6
  <2>3. CASE UNCHANGED <<m_freeCount, m_curCount, pc>>
    <3>1. Running' = Running
      BY <2>3 DEF Running
    <3> QED
      BY <1>1, <2>1, <2>3, <3>1
      DEF Exec, TypeOK, AliveAreFirst, LeaveOnlyAtExit, Counted
  <2> QED
    BY <1>1, <2>2, <2>3 DEF Exec
<1>2. ASSUME NEW t \in Thread, WakeForWork(t) PROVE IInv'
  <2>1. Running' = Running
    BY <1>2 DEF WakeForWork, Running, TypeOK
  <2> QED
    BY <1>2, <2>1 DEF WakeForWork, poolVars, historyVars, TypeOK, AliveAreFirst,
       LeaveOnlyAtExit, Counted
<1>3. ASSUME NEW t \in Thread, WakeForExit(t) PROVE IInv'
  <2>1. Running' = Running
    BY <1>3 DEF WakeForExit, Running, TypeOK
  <2> QED
    BY <1>3, <2>1 DEF WakeForExit, poolVars, historyVars, TypeOK, AliveAreFirst,
       LeaveOnlyAtExit, Counted
<1>4. ASSUME NEW t \in Thread, TakeTask(t) PROVE IInv'
  <2>0. ~closed
    BY <1>4 DEF TakeTask, LeaveOnlyAtExit
  <2>1. /\ Running' = Running \cup {t} /\ t \notin Running
    BY <1>4 DEF TakeTask, Running, TypeOK
  <2>2. Cardinality(Running') = Cardinality(Running) + 1
    BY <2>1, RunningFinite, FS_AddElement
  <2>3. m_freeCount - 1 \in Nat
    BY <1>4, <2>0, FreeLeft, RunningFinite DEF TakeTask, Counted, TypeOK
  <2>4. Head(m_runable) \in Task /\ Tail(m_runable) \in Seq(Task)
    BY <1>4, HeadTailProperties DEF TakeTask, TypeOK
  <2>5. Append(started, Head(m_runable)) \in Seq(Task)
    BY <2>4, AppendProperties DEF TypeOK
  <2>6. TypeOK'
    BY <1>4, <2>1, <2>3, <2>4, <2>5 DEF TakeTask, TypeOK
  <2>7. Counted'
    BY <1>4, <2>0, <2>2, RunningFinite DEF TakeTask, Counted, TypeOK
  <2> QED
    BY <1>4, <2>6, <2>7 DEF TakeTask, AliveAreFirst, LeaveOnlyAtExit, TypeOK
<1>5. ASSUME NEW t \in Thread, QueueEmpty(t) PROVE IInv'
  <2>1. Running' = Running
    BY <1>5 DEF QueueEmpty, Running, TypeOK
  <2> QED
    BY <1>5, <2>1 DEF QueueEmpty, poolVars, historyVars, TypeOK, AliveAreFirst,
       LeaveOnlyAtExit, Counted
<1>6. ASSUME NEW t \in Thread, FinishTask(t) PROVE IInv'
  <2>1. Running' = Running \ {t} /\ t \in Running
    BY <1>6 DEF FinishTask, Running, TypeOK
  <2>2. Cardinality(Running') = Cardinality(Running) - 1
    BY <2>1, RunningFinite, FS_RemoveElement
  <2>3. TypeOK'
    BY <1>6, <2>1 DEF FinishTask, TypeOK
  <2>4. Counted'
    BY <1>6, <2>2, RunningFinite DEF FinishTask, Counted, TypeOK
  <2> QED
    BY <1>6, <2>3, <2>4 DEF FinishTask, AliveAreFirst, LeaveOnlyAtExit, TypeOK
<1>7. ASSUME Destroy PROVE IInv'
  <2>1. Running' = Running
    BY <1>7 DEF Destroy, Running
  <2> QED
    BY <1>7, <2>1 DEF Destroy, poolVars, historyVars, TypeOK, AliveAreFirst,
       LeaveOnlyAtExit, Counted
<1>8. ASSUME Terminate PROVE IInv'
  <2>1. Running' = {}
    BY <1>8 DEF Terminate, Running, TypeOK
  <2>2. TypeOK'
    BY <1>8, <2>1 DEF Terminate, poolVars, historyVars, TypeOK
  <2>3. AliveAreFirst' /\ LeaveOnlyAtExit'
    BY <1>8 DEF Terminate, poolVars, AliveAreFirst, LeaveOnlyAtExit, TypeOK
  <2> QED
    BY <1>8, <2>2, <2>3 DEF Terminate, Counted
<1>9. CASE UNCHANGED vars
  <2>1. Running' = Running
    BY <1>9 DEF vars, Running
  <2> QED
    BY <1>9, <2>1 DEF vars, poolVars, historyVars, TypeOK, AliveAreFirst,
       LeaveOnlyAtExit, Counted
<1> QED
  BY <1>1, <1>2, <1>3, <1>4, <1>5, <1>6, <1>7, <1>8, <1>9 DEF Next, ThreadProc

\* The strengthened invariant of the pool.
THEOREM InvariantHolds == Spec => []IInv
  BY InitInv, NextInv, PTL DEF Spec

\* TypeOK: m_freeCount in particular never goes below zero.
THEOREM TypeCorrect == Spec => []TypeOK
<1>1. IInv => TypeOK
  BY DEF IInv
<1> QED
  BY InvariantHolds, <1>1, PTL

\* FreeCountExact: the counter the threads keep by hand is the number of
\* threads that run no task, and m_curCount the number of threads.
THEOREM CountersExact == Spec => []FreeCountExact
<1>1. IInv => FreeCountExact
  <2> SUFFICES ASSUME IInv PROVE FreeCountExact
    OBVIOUS
  <2>1. Alive = 1 .. m_curCount
    BY DEF IInv, TypeOK, AliveAreFirst, Alive, Thread
  <2>2. m_curCount \in Nat
    BY DEF IInv, TypeOK
  <2>3. Cardinality(Alive) = m_curCount
    BY <2>1, <2>2, FS_Interval
  <2> QED
    BY <2>3 DEF IInv, Counted, FreeCountExact
<1> QED
  BY InvariantHolds, <1>1, PTL

-----------------------------------------------------------------------------
\* NoSleepOnWork: no queued task with all threads asleep and no event set.
THEOREM WorkWakesAThread == Spec => []NoSleepOnWork
<1>1. Init => NoSleepOnWork
  BY DEF Init, NoSleepOnWork
<1>2. IInv /\ NoSleepOnWork /\ [Next]_vars => NoSleepOnWork'
  <2> SUFFICES ASSUME IInv, NoSleepOnWork, [Next]_vars PROVE NoSleepOnWork'
    OBVIOUS
  <2> USE DEF IInv, NoSleepOnWork, TypeOK
  <2>1. ASSUME NEW k \in Task, Exec(k) PROVE NoSleepOnWork'
    <3>1. workNotify'
      BY <2>1 DEF Exec
    <3>2. CASE CreateNewThread
      <4>1. m_curCount + 1 \in Thread
        BY <3>2 DEF CreateNewThread, Thread
      <4>2. pc'[m_curCount + 1] = "wait"
        BY <3>2, <4>1 DEF CreateNewThread
      <4> QED
        BY <3>1, <4>1, <4>2
    <3>3. CASE ~(m_freeCount = 0 /\ m_curCount < MaxCount) /\ pc' = pc
      <4>1. m_curCount > 0
        BY <2>1, <3>3, RunningFinite DEF Exec, Counted, LeaveOnlyAtExit
      <4>2. 1 \in Thread /\ pc[1] # "none"
        BY <4>1 DEF AliveAreFirst, Thread
      <4>3. pc[1] \in {"wait", "drain", "run"}
        BY <2>1, <4>2 DEF Exec, LeaveOnlyAtExit
      <4> QED
        BY <3>1, <3>3, <4>2, <4>3
    <3> QED
      BY <2>1, <3>2, <3>3 DEF Exec
  <2>2. ASSUME NEW t \in Thread, WakeForWork(t) PROVE NoSleepOnWork'
    BY <2>2 DEF WakeForWork, poolVars
  <2>3. ASSUME NEW t \in Thread, WakeForExit(t) PROVE NoSleepOnWork'
    BY <2>3 DEF WakeForExit
  <2>4. ASSUME NEW t \in Thread, TakeTask(t) PROVE NoSleepOnWork'
    BY <2>4 DEF TakeTask
  <2>5. ASSUME NEW t \in Thread, QueueEmpty(t) PROVE NoSleepOnWork'
    BY <2>5 DEF QueueEmpty, poolVars
  <2>6. ASSUME NEW t \in Thread, FinishTask(t) PROVE NoSleepOnWork'
    BY <2>6 DEF FinishTask
  <2>7. CASE Destroy \/ Terminate
    BY <2>7 DEF Destroy, Terminate
  <2>8. CASE UNCHANGED vars
    BY <2>8 DEF vars, poolVars
  <2> QED
    BY <2>1, <2>2, <2>3, <2>4, <2>5, <2>6, <2>7, <2>8 DEF Next, ThreadProc
<1> QED
  BY InvariantHolds, <1>1, <1>2, PTL DEF Spec

\* FirstInFirstOut: tasks start in the order of exec, each at most once.
THEOREM StartedInOrder == Spec => []FirstInFirstOut
<1>1. Init => FirstInFirstOut
  BY ConcatEmptySeq, EmptySeq DEF Init, FirstInFirstOut
<1>2. IInv /\ FirstInFirstOut /\ [Next]_vars => FirstInFirstOut'
  <2> SUFFICES ASSUME IInv, FirstInFirstOut, [Next]_vars PROVE FirstInFirstOut'
    OBVIOUS
  <2>0. m_runable \in Seq(Task) /\ started \in Seq(Task)
    BY DEF IInv, TypeOK
  <2>1. ASSUME NEW k \in Task, Exec(k) PROVE FirstInFirstOut'
    <3>1. Append(started \o m_runable, k) = started \o Append(m_runable, k)
      BY <2>0
    <3> QED
      BY <2>1, <3>1 DEF Exec, FirstInFirstOut
  <2>2. ASSUME NEW t \in Thread, TakeTask(t) PROVE FirstInFirstOut'
    <3>1. m_runable # <<>>
      BY <2>2 DEF TakeTask
    <3>2. started \o m_runable = Append(started, Head(m_runable)) \o Tail(m_runable)
      BY <2>0, <3>1
    <3> QED
      BY <2>2, <3>2 DEF TakeTask, FirstInFirstOut
  <2>3. CASE UNCHANGED <<submitted, started, m_runable>>
    BY <2>3 DEF FirstInFirstOut
  <2> QED
    BY <2>1, <2>2, <2>3 DEF Next, ThreadProc, WakeForWork, WakeForExit,
       QueueEmpty, FinishTask, Destroy, Terminate, vars, poolVars, historyVars
<1> QED
  BY InvariantHolds, <1>1, <1>2, PTL DEF Spec

\* NoTaskForgotten: the counters are right and no task waits for a thread that
\* sleeps, for any number of threads and tasks.
THEOREM NothingIsForgotten == Spec => []NoTaskForgotten
BY CountersExact, WorkWakesAThread, PTL DEF NoTaskForgotten

=============================================================================
