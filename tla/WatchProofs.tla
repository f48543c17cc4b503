----------------------------- MODULE WatchProofs -----------------------------
(***************************************************************************)
(* Proofs about the two programs that watch directories.  FileNotify, for  *)
(* any tree of directories, any names and any number of events in a read:  *)
(* paths are true, no directory is forgotten.  LocalTail, for any number   *)
(* of bytes, truncations and calls and any size of the buffer: types, and  *)
(* no byte is skipped.                                                     *)
(***************************************************************************)
EXTENDS MCWatch, SequenceTheorems, FiniteSetTheorems, TLAPS

USE FileNotifyConstants DEF FileNotifyConstants

-----------------------------------------------------------------------------
(* Sequences and sets.                                                     *)

LEMMA MinOfTwo ==
  ASSUME NEW a \in Nat, NEW b \in Nat
  PROVE  Min({a, b}) = IF a <= b THEN a ELSE b
<1>1. CASE a <= b
  BY <1>1, SMT DEF Min
<1>2. CASE ~(a <= b)
  BY <1>2, SMT DEF Min
<1> QED
  BY <1>1, <1>2

LEMMA ElementsOf ==
  ASSUME NEW S, NEW q \in Seq(S)
  PROVE  /\ ToSet(q) = {q[i] : i \in 1 .. Len(q)}
         /\ ToSet(q) \subseteq S
<1>1. DOMAIN q = 1 .. Len(q)
  BY LenProperties
<1> QED
  BY <1>1, ElementOfSeq DEF ToSet

\* What Read, and the handlers of an event, leave of a sequence was in it.
LEMMA PartOf ==
  ASSUME NEW S, NEW q \in Seq(S), NEW a \in Nat \ {0}, NEW b \in 0 .. Len(q)
  PROVE  /\ SubSeq(q, a, b) \in Seq(S)
         /\ ToSet(SubSeq(q, a, b)) \subseteq ToSet(q)
<1>1. PICK n \in Nat : n = Len(q)
  BY LenProperties
<1>2. \A i \in a .. b : i \in 1 .. n
  BY <1>1
<1>3. \A i \in a .. b : q[i] \in ToSet(q)
  BY <1>1, <1>2, ElementsOf
<1>4. a \in Int /\ b \in Int
  BY <1>1
<1>5. SubSeq(q, a, b) \in Seq(ToSet(q))
  BY <1>3, <1>4, SubSeqProperties
<1>6. \A i \in a .. b : q[i] \in S
  BY <1>1, <1>2, ElementOfSeq
<1>7. SubSeq(q, a, b) \in Seq(S)
  BY <1>4, <1>6, SubSeqProperties
<1> QED
  BY <1>5, <1>7, ElementsOf

LEMMA TailOf ==
  ASSUME NEW S, NEW q \in Seq(S), q # <<>>
  PROVE  /\ Head(q) \in ToSet(q)
         /\ Tail(q) \in Seq(S) /\ ToSet(Tail(q)) \subseteq ToSet(q)
<1>1. PICK n \in Nat : n = Len(q)
  BY LenProperties
<1>2. n > 0
  BY <1>1, EmptySeq
<1>3. /\ Head(q) = q[1] /\ Tail(q) \in Seq(S)
      /\ Len(Tail(q)) = n - 1 /\ \A i \in 1 .. n - 1 : Tail(q)[i] = q[i + 1]
  BY <1>1, <1>2, HeadTailProperties
<1>4. 1 \in 1 .. n /\ \A i \in 1 .. n - 1 : i + 1 \in 1 .. n
  BY <1>2
<1>5. \A i \in 1 .. n : q[i] \in ToSet(q)
  BY <1>1, ElementsOf
<1>6. \A i \in 1 .. n - 1 : Tail(q)[i] \in ToSet(q)
  BY <1>3, <1>4, <1>5
<1>7. ToSet(Tail(q)) = {Tail(q)[i] : i \in 1 .. n - 1}
  BY <1>3, ElementsOf
<1> QED
  BY <1>3, <1>4, <1>5, <1>6, <1>7

LEMMA AppendedTo ==
  ASSUME NEW S, NEW q \in Seq(S), NEW e \in S
  PROVE  /\ Append(q, e) \in Seq(S)
         /\ ToSet(Append(q, e)) = ToSet(q) \cup {e}
<1>1. PICK n \in Nat : n = Len(q)
  BY LenProperties
<1>2. /\ Append(q, e) \in Seq(S) /\ Len(Append(q, e)) = n + 1
      /\ Append(q, e)[n + 1] = e
      /\ \A i \in 1 .. n : Append(q, e)[i] = q[i]
  BY <1>1, AppendProperties
<1>3. \A i \in 1 .. n + 1 : i = n + 1 \/ i \in 1 .. n
  OBVIOUS
<1>4. n + 1 \in 1 .. n + 1 /\ \A i \in 1 .. n : i \in 1 .. n + 1
  OBVIOUS
<1>5. ToSet(Append(q, e)) = {Append(q, e)[i] : i \in 1 .. n + 1}
  BY <1>2, ElementsOf
<1>6. ToSet(q) = {q[i] : i \in 1 .. n}
  BY <1>1, ElementsOf
<1> QED
  BY <1>2, <1>3, <1>4, <1>5, <1>6

-----------------------------------------------------------------------------
(***************************************************************************)
(* The inductive invariant.  An inode is that of one directory for ever,   *)
(* its home, whatever is deleted and created again.  Every event carries a *)
(* descriptor whose inode is at home in the directory the event is about,  *)
(* and mWdGlobal2 names that home for each descriptor: for dead ones too.  *)
(***************************************************************************)
EventSet == [wd : Nat, kind : {"file", "mkdir", "rmdir", "ignored"},
             name : DOMAIN Strip, at : Dir]

Types ==
  /\ inodes \in Inode /\ ino \in [Dir -> Nat]
  /\ \A d \in Dir : ino[d] <= inodes
  /\ watch \in Seq(Nat) /\ \A w \in Wd : watch[w] \in 1 .. inodes
  /\ queue \in Seq(EventSet) /\ buffer \in Seq(EventSet)
  /\ slash \in BOOLEAN /\ found \subseteq Dir

Descriptors ==
  /\ \A p \in DOMAIN mWdGlobal1 : mWdGlobal1[p] \in DOMAIN mWdGlobal2
  /\ DOMAIN mWdGlobal2 \subseteq Wd \cup {Failed}
  /\ mWdSet \subseteq DOMAIN mWdGlobal2
  /\ \A w \in DOMAIN mWdGlobal2 :
       mWdGlobal2[w] \in Path /\ (mWdGlobal2[w].odd => slash)

EventAt(home, e) ==
  /\ e.wd \in Wd /\ home[watch[e.wd]] = e.at
  /\ e.kind = "mkdir" => Append(e.at, Strip[e.name]) \in Dir

Homes(home) ==
  /\ home \in [Inode -> Dir]
  /\ \A d \in Dir : Exists(d) => home[ino[d]] = d

Events(home) == \A e \in ToSet(queue) \cup ToSet(buffer) : EventAt(home, e)

Named(home) ==
  \A w \in DOMAIN mWdGlobal2 \ {Failed} : home[watch[w]] = mWdGlobal2[w].dir

Belongs(home) == Homes(home) /\ Events(home) /\ Named(home)

IInv == Types /\ Descriptors /\ \E home : Belongs(home)

LEMMA Told == IInv => ToldIsTrue
<1> SUFFICES ASSUME IInv, NEW e \in ToSet(buffer), Handled(e)
             PROVE  /\ FilePath(e).dir = Append(e.at, Strip[e.name])
                    /\ FilePath(e).odd => slash
  BY DEF ToldIsTrue
<1>1. PICK home : Belongs(home)
  BY DEF IInv
<1>2. e.wd \in Wd /\ home[watch[e.wd]] = e.at
  BY <1>1 DEF Belongs, Events, EventAt
<1>3. e.wd \in DOMAIN mWdGlobal2 /\ e.wd # Failed
  BY <1>2 DEF IInv, Descriptors, Handled, Wd, Failed
<1>4. mWdGlobal2[e.wd].dir = e.at /\ (mWdGlobal2[e.wd].odd => slash)
  BY <1>1, <1>2, <1>3 DEF IInv, Descriptors, Belongs, Named
<1> QED
  BY <1>4 DEF FilePath

LEMMA InitInv == Init => IInv
<1> SUFFICES ASSUME Init PROVE IInv
  OBVIOUS
<1>1. <<>> \in Seq(Nat) /\ <<>> \in Seq(EventSet) /\ Len(<<>>) = 0
  BY EmptySeq
<1>2. Wd = {}
  BY <1>1 DEF Init, Wd
<1>3. Types
  BY <1>1, <1>2 DEF Init, Types, Inode
<1>4. DOMAIN mWdGlobal1 = {} /\ DOMAIN mWdGlobal2 = {}
  BY DEF Init
<1>5. Descriptors
  BY <1>4 DEF Init, Descriptors
<1>6. ToSet(queue) = {} /\ ToSet(buffer) = {}
  BY <1>1 DEF Init, ToSet
<1>7. Belongs([i \in Inode |-> Root])
  BY <1>4, <1>6 DEF Init, Belongs, Homes, Events, Named, Exists, Inode
<1> QED
  BY <1>3, <1>5, <1>7 DEF IInv

-----------------------------------------------------------------------------
(* The file system.                                                        *)

\* An event that is queued for a directory belongs to it.
LEMMA QueuedEvent ==
  ASSUME Types, NEW home, Homes(home), NEW q \in Seq(EventSet),
         \A e \in ToSet(q) : EventAt(home, e),
         NEW at \in Dir, NEW name \in DOMAIN Strip,
         NEW kind \in {"file", "mkdir", "rmdir", "ignored"},
         kind = "mkdir" => Append(at, Strip[name]) \in Dir
  PROVE  /\ Queue(q, ino[at], kind, name, at) \in Seq(EventSet)
         /\ \A e \in ToSet(Queue(q, ino[at], kind, name, at)) : EventAt(home, e)
<1>1. CASE WdOf(ino[at]) = {}
  BY <1>1 DEF Queue
<1>2. CASE WdOf(ino[at]) # {}
  <2>1. PICK w : w = CHOOSE v \in WdOf(ino[at]) : TRUE
    OBVIOUS
  <2>2. w \in Wd /\ watch[w] = ino[at]
    BY <1>2, <2>1 DEF WdOf
  <2>3. ino[at] # 0 /\ w \in Nat
    BY <2>2 DEF Types, Wd
  <2>4. PICK e : e = [wd |-> w, kind |-> kind, name |-> name, at |-> at]
    OBVIOUS
  <2>5. e \in EventSet
    BY <2>3, <2>4 DEF EventSet
  <2>6. EventAt(home, e)
    BY <2>2, <2>3, <2>4 DEF EventAt, Homes, Exists
  <2>7. Queue(q, ino[at], kind, name, at) \in {q, Append(q, e)}
    BY <1>2, <2>1, <2>4 DEF Queue
  <2>8. Append(q, e) \in Seq(EventSet) /\ ToSet(Append(q, e)) = ToSet(q) \cup {e}
    BY <2>5, AppendedTo
  <2> HIDE DEF EventAt
  <2>9. \A x \in ToSet(Append(q, e)) : EventAt(home, x)
    BY <2>6, <2>8
  <2> QED
    BY <2>7, <2>8, <2>9
<1> QED
  BY <1>1, <1>2

LEMMA MkDirKeeps == ASSUME IInv, NEW d \in Child, MkDir(d) PROVE IInv'
<1> SUFFICES ASSUME NEW home, Belongs(home) PROVE IInv'
  BY DEF IInv
<1>1. /\ ~Exists(d) /\ inodes <= MaxDirs /\ inodes' = inodes + 1
      /\ ino' = [ino EXCEPT ![d] = inodes + 1]
      /\ queue' = Queue(queue, ino[Parent(d)], "mkdir", Name(d), Parent(d))
      /\ UNCHANGED <<watch, buffer, slash, found, mWdGlobal1, mWdGlobal2, mWdSet>>
  BY DEF MkDir, FileSystemOnly, mainVars, wdVars
<1>2. d \in Dir /\ Parent(d) \in Dir /\ Name(d) \in DOMAIN Strip
      /\ Append(Parent(d), Strip[Name(d)]) \in Dir
  BY DEF Child
<1>3. Types /\ Descriptors /\ Homes(home) /\ Events(home) /\ Named(home)
  BY DEF IInv, Belongs
<1>4. /\ queue' \in Seq(EventSet)
      /\ \A e \in ToSet(queue') : EventAt(home, e)
  BY <1>1, <1>2, <1>3, QueuedEvent DEF Types, Events
<1>5. Types'
  <2>1. inodes \in Nat /\ inodes' \in Inode /\ inodes < inodes'
    BY <1>1, <1>3 DEF Types, Inode
  <2>2. ino' \in [Dir -> Nat]
    <3>1. ino \in [Dir -> Nat] /\ ino' = [ino EXCEPT ![d] = inodes'] /\ inodes' \in Nat
      BY <1>1, <1>3, <2>1 DEF Types
    <3> QED
      BY <3>1
  <2>3. ASSUME NEW x \in Dir PROVE ino'[x] <= inodes'
    <3>1. ino[x] \in Nat /\ ino[x] <= inodes
      BY <1>3 DEF Types
    <3>2. ino'[x] = IF x = d THEN inodes' ELSE ino[x]
      BY <1>1, <1>3 DEF Types
    <3> QED
      BY <2>1, <3>1, <3>2 DEF Inode
  <2>4. \A w \in Wd' : watch'[w] \in 1 .. inodes'
    BY SMTT(30), <1>1, <1>3, <2>1 DEF Types, Wd
  <2> QED
    BY <1>1, <1>3, <1>4, <2>1, <2>2, <2>3, <2>4 DEF Types
<1>6. Descriptors'
  BY <1>1, <1>3 DEF Descriptors, Wd
<1>7. PICK new \in [Inode -> Dir] :
        new[inodes + 1] = d /\ \A i \in 1 .. inodes : new[i] = home[i]
  <2>1. PICK new : new = [home EXCEPT ![inodes + 1] = d]
    OBVIOUS
  <2>2. inodes \in Nat /\ inodes + 1 \in Inode /\ 1 .. inodes \subseteq Inode
    BY <1>1, <1>3 DEF Types, Inode
  <2>3. home \in [Inode -> Dir]
    BY <1>3 DEF Homes
  <2>4. /\ new \in [Inode -> Dir] /\ new[inodes + 1] = d
        /\ \A i \in 1 .. inodes : new[i] = home[i]
    BY <1>2, <2>1, <2>2, <2>3
  <2> QED
    BY <2>4
<1>8. Homes(new)'
  <2>1. ASSUME NEW x \in Dir, Exists(x)' PROVE new[ino'[x]] = x
    <3>1. CASE x = d
      BY <1>1, <1>2, <1>3, <1>7, <3>1 DEF Types
    <3>2. CASE x # d
      <4>1. ino'[x] = ino[x] /\ ino[x] # 0
        BY <1>1, <1>3, <2>1, <3>2 DEF Types, Exists
      <4>2. ino[x] \in 1 .. inodes
        BY SMTT(30), <1>3, <4>1 DEF Types, Inode
      <4> QED
        BY <1>3, <1>7, <4>1, <4>2 DEF Homes, Exists
    <3> QED
      BY <3>1, <3>2
  <2> QED
    BY <1>7, <2>1 DEF Homes
<1>9. Events(new)'
  <2>1. \A e \in ToSet(queue') \cup ToSet(buffer') : EventAt(home, e)
    BY <1>1, <1>3, <1>4 DEF Events
  <2>2. ASSUME NEW e \in ToSet(queue') \cup ToSet(buffer')
        PROVE  EventAt(new, e)'
    <3>1. EventAt(home, e)
      BY <2>1
    <3>2. watch' = watch /\ watch[e.wd] \in 1 .. inodes
      BY <1>1, <1>3, <3>1 DEF Types, EventAt
    <3>3. new[watch[e.wd]] = home[watch[e.wd]]
      BY <1>7, <3>2
    <3> QED
      BY <3>1, <3>2, <3>3 DEF EventAt, Wd
  <2> QED
    BY <2>2 DEF Events
<1>10. Named(new)'
  BY <1>1, <1>3, <1>7 DEF Types, Descriptors, Named, Wd
<1> QED
  BY <1>5, <1>6, <1>8, <1>9, <1>10 DEF IInv, Belongs

LEMMA RmDirKeeps == ASSUME IInv, NEW d \in Child, RmDir(d) PROVE IInv'
<1> SUFFICES ASSUME NEW home, Belongs(home) PROVE IInv'
  BY DEF IInv
<1> DEFINE Parted(q) == Queue(q, ino[Parent(d)], "rmdir", Name(d), Parent(d))
           Ended(q) == Queue(q, ino[d], "ignored", Name(d), d)
<1>1. /\ ino' = [ino EXCEPT ![d] = 0]
      /\ queue' \in {Ended(Parted(queue)), Parted(Ended(queue))}
      /\ UNCHANGED <<inodes, watch, buffer, slash, found, mWdGlobal1, mWdGlobal2,
                     mWdSet>>
  BY DEF RmDir, FileSystemOnly, mainVars, wdVars
<1>2. d \in Dir /\ Parent(d) \in Dir /\ Name(d) \in DOMAIN Strip
  BY DEF Child
<1>3. Types /\ Descriptors /\ Homes(home) /\ Events(home) /\ Named(home)
  BY DEF IInv, Belongs
<1>4. ASSUME NEW q \in Seq(EventSet), \A e \in ToSet(q) : EventAt(home, e)
      PROVE  /\ Parted(q) \in Seq(EventSet) /\ Ended(q) \in Seq(EventSet)
             /\ \A e \in ToSet(Parted(q)) \cup ToSet(Ended(q)) : EventAt(home, e)
  BY <1>2, <1>3, <1>4, QueuedEvent
<1> HIDE DEF Parted, Ended
<1>5. queue \in Seq(EventSet) /\ \A e \in ToSet(queue) : EventAt(home, e)
  BY <1>3 DEF Types, Events
<1>6. queue' \in Seq(EventSet) /\ \A e \in ToSet(queue') : EventAt(home, e)
  <2>1. /\ Parted(queue) \in Seq(EventSet) /\ Ended(queue) \in Seq(EventSet)
        /\ \A e \in ToSet(Parted(queue)) : EventAt(home, e)
        /\ \A e \in ToSet(Ended(queue)) : EventAt(home, e)
    BY <1>4, <1>5
  <2> QED
    BY <1>1, <1>4, <2>1
<1>7. Types'
  BY <1>1, <1>2, <1>3, <1>6 DEF Types, Inode, Wd
<1>8. Descriptors'
  BY <1>1, <1>3 DEF Descriptors, Wd
<1>9. Homes(home)'
  BY <1>1, <1>2, <1>3 DEF Types, Homes, Exists
<1>10. Events(home)' /\ Named(home)'
  BY <1>1, <1>3, <1>6 DEF Events, Named, EventAt, Wd
<1> QED
  BY <1>7, <1>8, <1>9, <1>10 DEF IInv, Belongs

LEMMA ChangeKeeps == ASSUME IInv, NEW d \in Dir, ChangeFile(d) PROVE IInv'
<1> SUFFICES ASSUME NEW home, Belongs(home) PROVE IInv'
  BY DEF IInv
<1>1. PICK n \in FileName : queue' = Queue(queue, ino[d], "file", n, d)
  BY DEF ChangeFile
<1>2. UNCHANGED <<ino, inodes, watch, buffer, slash, found, mWdGlobal1,
                  mWdGlobal2, mWdSet>>
  BY DEF ChangeFile, FileSystemOnly, mainVars, wdVars
<1>3. Types /\ Descriptors /\ Homes(home) /\ Events(home) /\ Named(home)
  BY DEF IInv, Belongs
<1>4. queue' \in Seq(EventSet) /\ \A e \in ToSet(queue') : EventAt(home, e)
  BY <1>1, <1>3, QueuedEvent DEF Types, Events
<1>5. Types' /\ Descriptors' /\ Homes(home)'
  BY <1>2, <1>3, <1>4 DEF Types, Descriptors, Homes, Exists, Wd
<1>6. Events(home)' /\ Named(home)'
  BY <1>2, <1>3, <1>4 DEF Events, Named, EventAt, Wd
<1> QED
  BY <1>5, <1>6 DEF IInv, Belongs

-----------------------------------------------------------------------------
(* MonitorPath and the threads.                                            *)

(***************************************************************************)
(* A watch that is added, or found again, is entered under a path of the   *)
(* directory whose inode it is for.                                        *)
(***************************************************************************)
LEMMA MonitorKeeps ==
  ASSUME Types, Descriptors, NEW home, Homes(home), Named(home),
         NEW p \in Path, p.odd => slash, MonitorPath(p),
         UNCHANGED <<ino, inodes, slash>>
  PROVE  /\ Descriptors' /\ Named(home)'
         /\ watch' \in Seq(Nat) /\ \A w \in Wd' : watch'[w] \in 1 .. inodes
         /\ \A w \in Wd : w \in Wd' /\ watch'[w] = watch[w]
<1> DEFINE wd == IF p \in DOMAIN mWdGlobal1 THEN mWdGlobal1[p] ELSE AddWatch(p.dir)
<1>0. PICK n \in Nat : n = Len(watch)
  BY LenProperties DEF Types
<1>1. /\ mWdGlobal1' = Put(mWdGlobal1, p, wd)
      /\ mWdGlobal2' = IF p \in DOMAIN mWdGlobal1 THEN mWdGlobal2
                       ELSE Put(mWdGlobal2, wd, p)
      /\ mWdSet' = mWdSet \cup {wd}
      /\ watch' = IF wd > n THEN Append(watch, ino[p.dir]) ELSE watch
  BY <1>0 DEF MonitorPath
<1>2. p.dir \in Dir /\ p.odd \in BOOLEAN
  BY DEF Path
<1>3. CASE p \in DOMAIN mWdGlobal1
  <2>1. wd = mWdGlobal1[p] /\ wd \in DOMAIN mWdGlobal2
    BY <1>3 DEF Descriptors
  <2>2. wd \in 1 .. n \/ wd = -1
    BY <1>0, <2>1 DEF Descriptors, Wd, Failed
  <2> HIDE DEF wd
  <2>3. watch' = watch /\ mWdGlobal2' = mWdGlobal2
    BY <1>1, <1>3, <2>2
  <2>4. /\ DOMAIN mWdGlobal1' = DOMAIN mWdGlobal1 \cup {p}
        /\ \A x \in DOMAIN mWdGlobal1' :
             mWdGlobal1'[x] = IF x = p THEN wd ELSE mWdGlobal1[x]
    BY <1>1 DEF Put
  <2>5. Descriptors'
    BY <1>1, <2>1, <2>3, <2>4 DEF Descriptors, Wd
  <2> QED
    BY <2>3, <2>5 DEF Named, Types, Wd
<1>4. CASE p \notin DOMAIN mWdGlobal1
  <2>1. wd = AddWatch(p.dir)
    BY <1>4
  <2>2. \/ wd = -1
        \/ wd \in 1 .. n /\ watch[wd] = ino[p.dir] /\ Exists(p.dir)
        \/ wd = n + 1 /\ Exists(p.dir)
    <3>1. CASE ~Exists(p.dir)
      BY <2>1, <3>1 DEF AddWatch, Failed
    <3>2. CASE Exists(p.dir) /\ WdOf(ino[p.dir]) # {}
      <4>1. wd \in WdOf(ino[p.dir])
        BY <2>1, <3>2 DEF AddWatch
      <4> QED
        BY <1>0, <3>2, <4>1 DEF WdOf, Wd
    <3>3. CASE Exists(p.dir) /\ WdOf(ino[p.dir]) = {}
      BY <1>0, <2>1, <3>3 DEF AddWatch
    <3> QED
      BY <3>1, <3>2, <3>3
  <2> HIDE DEF wd
  <2>3. /\ DOMAIN mWdGlobal1' = DOMAIN mWdGlobal1 \cup {p}
        /\ \A x \in DOMAIN mWdGlobal1' :
             mWdGlobal1'[x] = IF x = p THEN wd ELSE mWdGlobal1[x]
        /\ DOMAIN mWdGlobal2' = DOMAIN mWdGlobal2 \cup {wd}
        /\ \A x \in DOMAIN mWdGlobal2' :
             mWdGlobal2'[x] = IF x = wd THEN p ELSE mWdGlobal2[x]
    BY <1>1, <1>4 DEF Put
  <2>4. /\ watch' \in Seq(Nat) /\ Len(watch') \in {n, n + 1}
        /\ \A w \in 1 .. n : watch'[w] = watch[w]
        /\ wd = n + 1 <=> Len(watch') = n + 1
        /\ wd = n + 1 => watch'[n + 1] = ino[p.dir]
    <3>1. CASE wd = n + 1
      <4>1. wd > n
        BY <3>1
      <4>2. watch' = Append(watch, ino[p.dir]) /\ ino[p.dir] \in Nat
        BY <1>1, <1>2, <4>1 DEF Types
      <4>3. watch \in Seq(Nat)
        BY DEF Types
      <4> QED
        BY <1>0, <3>1, <4>2, <4>3, AppendProperties
    <3>2. CASE wd # n + 1
      <4>1. ~(wd > n)
        BY <2>2, <3>2
      <4> QED
        BY <1>0, <1>1, <3>2, <4>1 DEF Types
    <3> QED
      BY <3>1, <3>2
  <2>5. /\ Wd = 1 .. n /\ Wd' = 1 .. Len(watch')
        /\ \A w \in Wd' : w \in Wd \/ w = n + 1
        /\ n + 1 \in Wd' <=> wd = n + 1
        /\ \A w \in Wd : w \in Wd'
    BY <1>0, <2>4 DEF Wd
  <2>6. Exists(p.dir) => ino[p.dir] \in 1 .. inodes
    BY <1>2 DEF Types, Exists, Inode
  <2>7. \A w \in Wd' : watch'[w] \in 1 .. inodes
    <3>1. ASSUME NEW w \in Wd' PROVE watch'[w] \in 1 .. inodes
      <4>1. CASE w \in Wd
        BY <2>4, <2>5, <4>1 DEF Types
      <4>2. CASE w = n + 1
        BY SMTT(30), <2>2, <2>4, <2>5, <2>6, <4>2 DEF Types
      <4> QED
        BY <2>5, <4>1, <4>2
    <3> QED
      BY <3>1
  <2>8. wd \in Wd' \cup {Failed}
    BY <2>2, <2>5 DEF Failed
  <2>9. Descriptors'
    BY <1>1, <2>3, <2>5, <2>8 DEF Descriptors
  <2>10. wd # Failed => home[watch'[wd]] = p.dir
    BY <1>2, <2>2, <2>4 DEF Homes, Failed
  <2>11. \A w \in DOMAIN mWdGlobal2 \ {Failed} : watch'[w] = watch[w]
    BY <2>4, <2>5 DEF Descriptors
  <2>12. Named(home)'
    BY <2>3, <2>10, <2>11 DEF Named
  <2> QED
    BY <2>4, <2>5, <2>7, <2>9, <2>12
<1> QED
  BY <1>3, <1>4

\* The events that are still to come keep their place.
LEMMA WatchKeeps ==
  ASSUME IInv, NEW p \in Path, p.odd => slash, MonitorPath(p),
         UNCHANGED <<ino, inodes, slash, queue>>, found' \subseteq Dir,
         buffer' \in Seq(EventSet), ToSet(buffer') \subseteq ToSet(buffer)
  PROVE  IInv'
<1>1. PICK home : Belongs(home)
  BY DEF IInv
<1>2. Types /\ Descriptors /\ Homes(home) /\ Events(home) /\ Named(home)
  BY <1>1 DEF IInv, Belongs
<1>3. /\ Descriptors' /\ Named(home)'
      /\ watch' \in Seq(Nat) /\ \A w \in Wd' : watch'[w] \in 1 .. inodes
      /\ \A w \in Wd : w \in Wd' /\ watch'[w] = watch[w]
  BY <1>2, MonitorKeeps
<1>4. Types'
  BY <1>2, <1>3 DEF Types
<1>5. Homes(home)'
  BY <1>2 DEF Homes, Exists
<1>6. Events(home)'
  BY <1>2, <1>3 DEF Events, EventAt
<1> QED
  BY <1>3, <1>4, <1>5, <1>6 DEF IInv, Belongs

LEMMA RegisterKeeps == IInv /\ Register => IInv'
<1> SUFFICES ASSUME IInv, Register PROVE IInv'
  OBVIOUS
<1>0. /\ UNCHANGED <<ino, inodes, queue, slash, buffer>>
      /\ buffer \in Seq(EventSet) /\ found \subseteq Dir
  BY DEF Register, RegisterRoot, OpenDir, EnumDir, PushBack, MainOnly, fsVars,
     IInv, Types
<1>1. CASE RegisterRoot
  <2>1. [dir |-> Root, odd |-> FALSE] \in Path
    BY DEF Path
  <2> QED
    BY <1>0, <1>1, <2>1, WatchKeeps DEF RegisterRoot
<1>2. ASSUME NEW d \in Dir, EnumDir(d) PROVE IInv'
  <2>1. [dir |-> d, odd |-> FALSE] \in Path
    BY DEF Path
  <2> QED
    BY <1>0, <1>2, <2>1, WatchKeeps DEF EnumDir
<1>3. CASE OpenDir \/ PushBack
  <2>1. UNCHANGED <<watch, mWdGlobal1, mWdGlobal2, mWdSet>> /\ found' \subseteq Dir
    BY <1>0, <1>3 DEF OpenDir, PushBack, wdVars, Child
  <2> QED
    BY <1>0, <2>1 DEF IInv, Types, Descriptors, Belongs, Homes, Events, Named,
       EventAt, Exists, Wd
<1> QED
  BY <1>1, <1>2, <1>3 DEF Register

\* The path that is watched when a directory was created.
LEMMA PathOfEvent ==
  ASSUME IInv, NEW e \in ToSet(buffer), e.kind = "mkdir", Handled(e)
  PROVE  /\ FilePath(e) \in Path /\ (FilePath(e).odd => slash)
         /\ FilePath(e).dir = Append(e.at, Strip[e.name])
<1>1. PICK home : Events(home) /\ Named(home)
  BY DEF IInv, Belongs
<1>2. e.wd \in Wd /\ home[watch[e.wd]] = e.at /\ Append(e.at, Strip[e.name]) \in Dir
  BY <1>1 DEF Events, EventAt
<1>3. e.wd \in DOMAIN mWdGlobal2 \ {Failed}
  BY <1>2 DEF IInv, Descriptors, Handled, Wd, Failed
<1>4. mWdGlobal2[e.wd].dir = e.at /\ mWdGlobal2[e.wd] \in Path
      /\ (mWdGlobal2[e.wd].odd => slash)
  BY <1>1, <1>2, <1>3 DEF IInv, Descriptors, Named
<1>5. slash \in BOOLEAN /\ mWdGlobal2[e.wd].odd \in BOOLEAN
  BY <1>4 DEF IInv, Types, Path
<1>6. FilePath(e).dir = Append(e.at, Strip[e.name])
  BY <1>4 DEF FilePath
<1>7. FilePath(e) \in Path
  BY <1>2, <1>4, <1>5 DEF FilePath, Path
<1> QED
  BY <1>4, <1>6, <1>7 DEF FilePath

LEMMA NotifyKeeps == IInv /\ NotifyThread => IInv'
<1> SUFFICES ASSUME IInv, NotifyThread PROVE IInv'
  OBVIOUS
<1>0. /\ UNCHANGED <<ino, inodes, slash, found>>
      /\ queue \in Seq(EventSet) /\ buffer \in Seq(EventSet) /\ found \subseteq Dir
  BY DEF NotifyThread, Read, OnDirCreated, OnFileEvent, OnIgnored, ThreadOnly,
     fsVars, mainVars, IInv, Types
<1>1. ASSUME UNCHANGED <<watch, mWdGlobal1, mWdGlobal2, mWdSet>>,
             queue' \in Seq(EventSet), buffer' \in Seq(EventSet),
             ToSet(queue') \cup ToSet(buffer') \subseteq ToSet(queue) \cup ToSet(buffer)
      PROVE  IInv'
  <2>1. Types'
    BY <1>0, <1>1 DEF IInv, Types, Wd
  <2>2. Descriptors'
    BY <1>1, <1>0 DEF IInv, Descriptors, Wd
  <2>3. PICK home : Belongs(home)
    BY DEF IInv
  <2>4. Homes(home)' /\ Named(home)'
    BY <1>0, <1>1, <2>3 DEF Belongs, Homes, Named, Exists
  <2>5. Events(home)'
    BY <1>1, <2>3 DEF Belongs, Events, EventAt, Wd
  <2> QED
    BY <2>1, <2>2, <2>4, <2>5 DEF IInv, Belongs
<1>2. CASE Read
  <2>1. PICK n \in Nat : n = Len(queue)
    BY <1>0, LenProperties
  <2>2. PICK k : k = Min({MaxRead, n})
    OBVIOUS
  <2>3. k \in 0 .. n
    BY <2>1, <2>2, MinOfTwo
  <2>4. /\ buffer' = SubSeq(queue, 1, k) /\ queue' = SubSeq(queue, k + 1, n)
        /\ UNCHANGED <<watch, mWdGlobal1, mWdGlobal2, mWdSet>>
    BY <1>2, <2>1, <2>2 DEF Read, wdVars
  <2>5. 1 \in Nat \ {0} /\ k + 1 \in Nat \ {0} /\ n \in 0 .. n
    BY <2>3
  <2>6. /\ buffer' \in Seq(EventSet) /\ ToSet(buffer') \subseteq ToSet(queue)
        /\ queue' \in Seq(EventSet) /\ ToSet(queue') \subseteq ToSet(queue)
    BY <1>0, <2>1, <2>3, <2>4, <2>5, PartOf
  <2> QED
    BY <1>1, <2>4, <2>6
<1>3. CASE OnDirCreated
  <2>1. PICK e : e = Head(buffer)
    OBVIOUS
  <2>2. /\ e \in ToSet(buffer) /\ e.kind = "mkdir" /\ queue' = queue
        /\ buffer' \in Seq(EventSet) /\ ToSet(buffer') \subseteq ToSet(buffer)
    BY <1>0, <1>3, <2>1, TailOf DEF OnDirCreated
  <2>3. CASE Handled(e) /\ MonitorPath(FilePath(e))
    <3>1. FilePath(e) \in Path /\ (FilePath(e).odd => slash)
      BY <2>2, <2>3, PathOfEvent
    <3> QED
      BY <1>0, <2>2, <2>3, <3>1, WatchKeeps
  <2>4. CASE UNCHANGED <<watch, wdVars>>
    BY <1>0, <1>1, <2>2, <2>4 DEF wdVars
  <2> QED
    BY <1>3, <2>1, <2>3, <2>4 DEF OnDirCreated
<1>4. CASE OnFileEvent
  <2>1. buffer' \in Seq(EventSet) /\ ToSet(buffer') \subseteq ToSet(buffer)
    BY <1>0, <1>4, TailOf DEF OnFileEvent
  <2> QED
    BY <1>0, <1>1, <1>4, <2>1 DEF OnFileEvent, wdVars
<1>5. CASE OnIgnored
  <2>1. buffer' = <<>> /\ <<>> \in Seq(EventSet) /\ ToSet(<<>>) = {}
    BY <1>5, EmptySeq DEF OnIgnored, ToSet
  <2> QED
    BY <1>0, <1>1, <1>5, <2>1 DEF OnIgnored, wdVars
<1> QED
  BY <1>2, <1>3, <1>4, <1>5 DEF NotifyThread

LEMMA InvKept == ASSUME IInv, [Next]_vars PROVE IInv'
<1>1. CASE UNCHANGED vars
  BY <1>1 DEF vars, fsVars, mainVars, wdVars, IInv, Types, Descriptors,
     Belongs, Homes, Events, Named, EventAt, Exists, Wd
<1> QED
  BY <1>1, MkDirKeeps, RmDirKeeps, ChangeKeeps, RegisterKeeps, NotifyKeeps
  DEF Next, FileSystem

(***************************************************************************)
(* PathsAreTrue: every change that is told names the file that changed,    *)
(* for any tree, however directories are deleted and created again, events *)
(* merged and cut into reads.                                              *)
(***************************************************************************)
THEOREM PathsAreTrue == Spec => []ToldIsTrue
<1>1. IInv /\ [Next]_vars => IInv'
  BY InvKept
<1> QED
  BY InitInv, Told, <1>1, PTL DEF Spec

HIDE FileNotifyConstants DEF FileNotifyConstants

-----------------------------------------------------------------------------
(* FileNotify: directories above a directory.                              *)

\* The directory that the first k names of d lead to.
Above(d, k) == SubSeq(d, 1, k)

LEMMA AboveFacts ==
  ASSUME NEW S, NEW d \in Seq(S), NEW k \in 0 .. Len(d)
  PROVE  /\ Above(d, k) \in Seq(S) /\ Len(Above(d, k)) = k
         /\ \A i \in 1 .. k : Above(d, k)[i] = d[i]
<1>1. PICK n \in Nat : n = Len(d)
  BY LenProperties
<1>2. k \in Int /\ 1 \in Int /\ \A i \in 1 .. k : i \in 1 .. n
  BY <1>1
<1>3. \A i \in 1 .. k : d[i] \in S
  BY <1>1, <1>2, ElementOfSeq
<1>4. /\ Above(d, k) \in Seq(S)
      /\ Len(Above(d, k)) = IF 1 <= k THEN k - 1 + 1 ELSE 0
      /\ \A i \in 1 .. k - 1 + 1 : Above(d, k)[i] = d[1 + i - 1]
  BY <1>2, <1>3, SubSeqProperties DEF Above
<1>5. k - 1 + 1 = k /\ (~(1 <= k) => k = 0) /\ \A i \in 1 .. k : 1 + i - 1 = i
  BY <1>1
<1> QED
  BY <1>4, <1>5

LEMMA AboveAll ==
  ASSUME NEW S, NEW d \in Seq(S)
  PROVE  Above(d, Len(d)) = d /\ Above(d, 0) = << >>
  BY SubSeqFull, SubSeqEmpty DEF Above

LEMMA AboveAbove ==
  ASSUME NEW S, NEW d \in Seq(S), NEW k \in 0 .. Len(d), NEW j \in 0 .. k
  PROVE  Above(Above(d, k), j) = Above(d, j)
<1>1. PICK n \in Nat : n = Len(d)
  BY LenProperties
<1>2. j \in 0 .. Len(d) /\ \A i \in 1 .. j : i \in 1 .. k
  BY <1>1
<1>3. PICK a \in Seq(S) : a = Above(d, k)
  BY AboveFacts
<1>4. Len(a) = k /\ \A i \in 1 .. k : a[i] = d[i]
  BY <1>3, AboveFacts
<1>5. j \in 0 .. Len(a)
  BY <1>4
<1>6. /\ Above(a, j) \in Seq(S) /\ Len(Above(a, j)) = j
      /\ \A i \in 1 .. j : Above(a, j)[i] = a[i]
  BY <1>5, AboveFacts
<1>7. /\ Above(d, j) \in Seq(S) /\ Len(Above(d, j)) = j
      /\ \A i \in 1 .. j : Above(d, j)[i] = d[i]
  BY <1>2, AboveFacts
<1>8. Above(a, j) = Above(d, j)
  BY <1>2, <1>4, <1>6, <1>7, SeqEqual
<1> QED
  BY <1>3, <1>8

LEMMA ParentOfAbove ==
  ASSUME NEW S, NEW d \in Seq(S), NEW k \in 1 .. Len(d)
  PROVE  Above(d, k) # << >> /\ Parent(Above(d, k)) = Above(d, k - 1)
<1>1. PICK n \in Nat : n = Len(d)
  BY LenProperties
<1>2. k \in 0 .. Len(d) /\ k - 1 \in 0 .. k /\ k # 0
  BY <1>1
<1>3. Len(Above(d, k)) = k
  BY <1>2, AboveFacts
<1>4. Parent(Above(d, k)) = Above(Above(d, k), k - 1)
  BY <1>3 DEF Parent, Front, Above
<1>5. Above(d, k) # << >>
  BY <1>2, <1>3, EmptySeq
<1> QED
  BY <1>2, <1>4, <1>5, AboveAbove

LEMMA LastNamed ==
  ASSUME NEW S, NEW d \in Seq(S), NEW n \in S
  PROVE  Append(d, n) # << >> /\ Name(Append(d, n)) = n
  BY AppendProperties DEF Name, Last

LEMMA ParentAndName ==
  ASSUME NEW S, NEW d \in Seq(S), d # << >>
  PROVE  /\ Append(Parent(d), Name(d)) = d /\ Len(d) \in Nat \ {0}
         /\ Parent(d) = Above(d, Len(d) - 1)
<1>1. Len(d) \in Nat \ {0}
  BY EmptySeq
<1>2. Parent(d) = Above(d, Len(d) - 1) /\ Name(d) = d[Len(d)]
  BY DEF Parent, Front, Above, Name, Last
<1>3. PICK k \in Nat : k = Len(d) - 1
  BY <1>1
<1>4. k \in 0 .. Len(d) /\ k + 1 = Len(d) /\ Len(d) \in 1 .. Len(d)
  BY <1>1, <1>3
<1>5. PICK a \in Seq(S) : a = Above(d, k)
  BY <1>4, AboveFacts
<1>6. Len(a) = k /\ \A i \in 1 .. k : a[i] = d[i]
  BY <1>4, <1>5, AboveFacts
<1>7. PICK e \in S : e = d[Len(d)]
  BY <1>4, ElementOfSeq
<1>8. /\ Append(a, e) \in Seq(S) /\ Len(Append(a, e)) = k + 1
      /\ \A i \in 1 .. k : Append(a, e)[i] = a[i]
      /\ Append(a, e)[k + 1] = e
  BY <1>6, <1>7, AppendProperties
<1>9. \A i \in 1 .. k + 1 : i = k + 1 \/ i \in 1 .. k
  BY <1>3
<1>10. \A i \in 1 .. k + 1 : Append(a, e)[i] = d[i]
  BY <1>4, <1>6, <1>7, <1>8, <1>9
<1>11. Append(a, e) = d
  BY <1>4, <1>8, <1>10, SeqEqual
<1> QED
  BY <1>1, <1>2, <1>3, <1>5, <1>7, <1>11

\* What a read takes and what it leaves is all there was.
LEMMA NothingFallsOut ==
  ASSUME NEW S, NEW q \in Seq(S), NEW k \in 0 .. Len(q)
  PROVE  ToSet(q) \subseteq ToSet(SubSeq(q, 1, k)) \cup ToSet(SubSeq(q, k + 1, Len(q)))
<1>1. PICK n \in Nat : n = Len(q)
  BY LenProperties
<1>2. k \in Int /\ 1 \in Int /\ n \in Int /\ k + 1 \in Int
  BY <1>1
<1>3. /\ \A i \in 1 .. k : i \in 1 .. n
      /\ \A i \in k + 1 .. n : i \in 1 .. n
  BY <1>1
<1>4. \A i \in 1 .. n : q[i] \in S
  BY <1>1, ElementOfSeq
<1>5. PICK a \in Seq(S) : a = SubSeq(q, 1, k)
  BY <1>2, <1>3, <1>4, SubSeqProperties
<1>6. PICK b \in Seq(S) : b = SubSeq(q, k + 1, n)
  BY <1>2, <1>3, <1>4, SubSeqProperties
<1>7. Len(a) = k /\ \A i \in 1 .. k : a[i] = q[i]
  BY <1>1, <1>5, AboveFacts DEF Above
<1>8. /\ Len(b) = IF k + 1 <= n THEN n - (k + 1) + 1 ELSE 0
      /\ \A i \in 1 .. n - (k + 1) + 1 : b[i] = q[k + 1 + i - 1]
  BY <1>2, <1>3, <1>4, <1>6, SubSeqProperties
<1>9. ASSUME NEW i \in 1 .. n PROVE q[i] \in ToSet(a) \cup ToSet(b)
  <2>1. CASE i <= k
    <3>1. i \in 1 .. Len(a) /\ a[i] = q[i]
      BY <1>7, <2>1
    <3> QED
      BY <3>1, ElementsOf
  <2>2. CASE i > k
    <3>1. PICK j \in Nat : j = i - k
      BY <1>1, <2>2
    <3>2. j \in 1 .. n - (k + 1) + 1 /\ k + 1 + j - 1 = i /\ j \in 1 .. Len(b)
      BY <1>1, <1>8, <2>2, <3>1
    <3>3. b[j] = q[i]
      BY <1>8, <3>2
    <3> QED
      BY <3>2, <3>3, ElementsOf
  <2> QED
    BY <1>1, <2>1, <2>2
<1> QED
  BY <1>1, <1>5, <1>6, <1>9, ElementsOf

\* The first event is taken, the others stay.
LEMMA HeadAndTail ==
  ASSUME NEW S, NEW q \in Seq(S), q # <<>>
  PROVE  ToSet(q) \subseteq {Head(q)} \cup ToSet(Tail(q))
<1>1. PICK n \in Nat : n = Len(q)
  BY LenProperties
<1>2. /\ Head(q) = q[1] /\ Tail(q) \in Seq(S)
      /\ Len(Tail(q)) = n - 1 /\ \A i \in 1 .. n - 1 : Tail(q)[i] = q[i + 1]
  BY <1>1, HeadTailProperties
<1>3. ASSUME NEW i \in 1 .. n, i # 1 PROVE q[i] \in ToSet(Tail(q))
  <2>1. i - 1 \in 1 .. n - 1 /\ i - 1 + 1 = i
    BY <1>3
  <2>2. Tail(q)[i - 1] = q[i] /\ i - 1 \in 1 .. Len(Tail(q))
    BY <1>2, <2>1
  <2>3. ToSet(Tail(q)) = {Tail(q)[j] : j \in 1 .. Len(Tail(q))}
    BY <1>2, ElementsOf
  <2> QED
    BY <2>2, <2>3
<1> QED
  BY <1>1, <1>2, <1>3, ElementsOf

-----------------------------------------------------------------------------
(* FileNotify: blind spots.                                                *)

\* An inode has one descriptor.
OneEach == \A v \in Wd, w \in Wd : watch[v] = watch[w] => v = w

\* What the values of the other variables come from.
NotifyTypes ==
  /\ deletes \in 0 .. MaxDeletes /\ changes \in 0 .. MaxChanges
  /\ init \in {"watch", "enum", "done"} /\ mRegisterCache \in BOOLEAN
  /\ pathSet \in Seq(Dir) /\ DOMAIN mWdGlobal1 \subseteq Path
  /\ lost \subseteq Dir /\ changed \subseteq Dir /\ dropped \in BOOLEAN
  /\ \A e \in ToSet(queue) \cup ToSet(buffer) :
       e.kind = "mkdir" => Append(e.at, e.name) \in Child

\* A directory stands in directories that exist.
Rooted ==
  /\ Exists(Root)
  /\ \A d \in Dir : Exists(d) =>
       \A k \in 0 .. Len(d) : Above(d, k) \in Dir /\ Exists(Above(d, k))

\* Before push_back nothing is handled, after it nothing is enumerated.
Phases ==
  /\ mRegisterCache => init = "done"
  /\ init = "watch" => mWdGlobal1 = << >> /\ watch = <<>>
  /\ init # "enum" => found = {} /\ pathSet = <<>>

\* EnumFiles will come to d, from a directory above it.
ToCome(d) ==
  \/ d \in found
  \/ \E k \in 0 .. Len(d) - 1 : Above(d, k) \in found \cup ToSet(pathSet)

\* Its creation is still to be handled.
Pending(d) ==
  \E e \in ToSet(queue) \cup ToSet(buffer) :
    e.kind = "mkdir" /\ Append(e.at, e.name) = d

Dotted(d) == d # Root /\ Strip[Name(d)] # Name(d)

Known(d) == Watched(d) \/ d \in lost \/ StaleEntry(d) \/ Dotted(d)

\* No directory is forgotten: what is not known will be listed, or its event
\* is still to come.
Accounted ==
  \A d \in Dir : Exists(d) =>
    Known(d) \/ init = "watch" \/ ToCome(d) \/ Pending(d)

NotifyInv == OneEach /\ NotifyTypes /\ Rooted /\ Phases /\ Accounted

\* Nothing is left to be handled when the queue and the buffer are empty.
LEMMA AllSeen == NotifyInv => BlindSpots
<1> SUFFICES ASSUME NotifyInv, mRegisterCache, queue = <<>>, buffer = <<>>,
                    NEW d \in Dir, Exists(d)
             PROVE  Known(d)
  BY DEF BlindSpots, Known, Dotted
<1>1. init # "watch" /\ found = {} /\ pathSet = <<>>
  BY DEF NotifyInv, Phases
<1>2. ToSet(<<>>) = {}
  BY EmptySeq DEF ToSet
<1>3. ~ToCome(d) /\ ~Pending(d)
  BY <1>1, <1>2 DEF ToCome, Pending
<1> QED
  BY <1>1, <1>3 DEF NotifyInv, Accounted

LEMMA InitNotify == Init => NotifyInv
<1> SUFFICES ASSUME Init PROVE NotifyInv
  OBVIOUS
<1> USE FileNotifyConstants DEF FileNotifyConstants
<1>1. <<>> \in Seq(Dir) /\ <<>> \in Seq(DOMAIN Strip) /\ Len(<<>>) = 0
  BY EmptySeq
<1>2. Wd = {} /\ ToSet(queue) = {} /\ ToSet(buffer) = {}
  BY <1>1 DEF Init, Wd, ToSet
<1>3. OneEach
  BY <1>2 DEF OneEach
<1>4. NotifyTypes
  <2>1. DOMAIN mWdGlobal1 = {} /\ deletes = 0 /\ changes = 0 /\ pathSet = <<>>
        /\ init = "watch" /\ lost = {} /\ changed = {}
    BY DEF Init
  <2>2. mRegisterCache \in BOOLEAN /\ dropped \in BOOLEAN
    BY Zenon DEF Init
  <2> QED
    BY <1>1, <1>2, <2>1, <2>2 DEF NotifyTypes
<1>5. Rooted
  <2>1. Root \in Dir /\ \A d \in Dir : Exists(d) <=> d = Root
    BY DEF Init, Exists
  <2>2. Root \in Seq(DOMAIN Strip) /\ Len(Root) = 0
    BY <1>1 DEF Root
  <2>3. Above(Root, 0) = Root
    BY <2>2, AboveAll DEF Root
  <2>4. \A k \in 0 .. Len(Root) : k = 0
    BY <2>2
  <2> QED
    BY <2>1, <2>3, <2>4 DEF Rooted
<1>6. Phases
  BY DEF Init, Phases
<1>7. Accounted
  BY DEF Init, Accounted
<1> QED
  BY <1>3, <1>4, <1>5, <1>6, <1>7 DEF NotifyInv

-----------------------------------------------------------------------------
(* FileNotify: what the file system does.                                  *)

About(kind, name, at) ==
  {e \in EventSet : e.kind = kind /\ e.name = name /\ e.at = at}

\* An event is added at the end of the queue, or is there already.
LEMMA QueueGrows ==
  ASSUME NEW q \in Seq(EventSet), NEW at \in Dir, NEW name \in DOMAIN Strip,
         NEW kind \in {"file", "mkdir", "rmdir", "ignored"},
         NEW r, r = Queue(q, ino[at], kind, name, at)
  PROVE  /\ r \in Seq(EventSet) /\ ToSet(q) \subseteq ToSet(r)
         /\ ToSet(r) \subseteq ToSet(q) \cup About(kind, name, at)
         /\ WdOf(ino[at]) # {} => ToSet(r) \cap About(kind, name, at) # {}
<1>1. CASE WdOf(ino[at]) = {}
  BY <1>1 DEF Queue
<1>2. CASE WdOf(ino[at]) # {}
  <2>1. PICK w : w = CHOOSE v \in WdOf(ino[at]) : TRUE
    OBVIOUS
  <2>2. w \in Nat
    <3>1. w \in Wd
      BY <1>2, <2>1 DEF WdOf
    <3> QED
      BY <3>1 DEF Wd
  <2>3. PICK e : e = [wd |-> w, kind |-> kind, name |-> name, at |-> at]
    OBVIOUS
  <2>4. e \in EventSet /\ e \in About(kind, name, at)
    BY <2>2, <2>3 DEF EventSet, About
  <2>5. r = IF q # <<>> /\ Last(q) = e THEN q ELSE Append(q, e)
    BY <1>2, <2>1, <2>3 DEF Queue
  <2>6. Append(q, e) \in Seq(EventSet) /\ ToSet(Append(q, e)) = ToSet(q) \cup {e}
    BY <2>4, AppendedTo
  <2>7. CASE q # <<>> /\ Last(q) = e
    <3>1. Len(q) \in 1 .. Len(q)
      BY <2>7, EmptySeq
    <3>2. e \in ToSet(q)
      BY <2>7, <3>1, ElementsOf DEF Last
    <3> QED
      BY <2>4, <2>5, <2>7, <3>2
  <2>8. CASE ~(q # <<>> /\ Last(q) = e)
    BY <2>4, <2>5, <2>6, <2>8
  <2> QED
    BY <2>7, <2>8
<1> QED
  BY <1>1, <1>2

\* What is below a directory that exists exists for the same reason.
LEMMA MkDirNotify == ASSUME IInv, NotifyInv, NEW new \in Child, MkDir(new) PROVE NotifyInv'
<1> USE FileNotifyConstants DEF FileNotifyConstants
<1>0. Types /\ OneEach /\ NotifyTypes /\ Rooted /\ Phases /\ Accounted
  BY DEF IInv, NotifyInv
<1>1. /\ ~Exists(new) /\ Exists(Parent(new))
      /\ ino' = [ino EXCEPT ![new] = inodes + 1]
      /\ queue' = Queue(queue, ino[Parent(new)], "mkdir", Name(new), Parent(new))
      /\ lost' = IF \/ WdOf(ino[Parent(new)]) # {}
                    \/ init = "watch"
                    \/ Parent(new) \in found \cup ToSet(pathSet)
                 THEN lost ELSE lost \cup {new}
      /\ UNCHANGED <<watch, buffer, init, pathSet, found, mRegisterCache, mWdGlobal1, mWdSet,
                     deletes, changes, changed, dropped>>
  BY DEF MkDir, FileSystemOnly, mainVars, wdVars
<1>2. /\ new \in Dir /\ Parent(new) \in Dir /\ Name(new) \in DOMAIN Strip
      /\ new \in Seq(DOMAIN Strip) /\ new # << >>
  BY DEF Child, Root
<1>3. /\ Append(Parent(new), Name(new)) = new /\ Len(new) \in Nat \ {0}
      /\ Parent(new) = Above(new, Len(new) - 1)
  BY <1>2, ParentAndName
<1>4. /\ \A d \in Dir : d # new => ino'[d] = ino[d]
      /\ ino'[new] # 0
  <2>1. ino \in [Dir -> Nat] /\ inodes \in Nat
    BY <1>0 DEF Types, Inode
  <2> QED
    BY <1>1, <1>2, <2>1
<1>5. /\ ToSet(queue) \subseteq ToSet(queue')
      /\ \A e \in ToSet(queue') : e \in ToSet(queue) \/
           (e.kind = "mkdir" /\ e.name = Name(new) /\ e.at = Parent(new))
      /\ WdOf(ino[Parent(new)]) # {} =>
           \E e \in ToSet(queue') :
             e.kind = "mkdir" /\ e.name = Name(new) /\ e.at = Parent(new)
  <2>1. queue \in Seq(EventSet)
    BY <1>0 DEF Types
  <2>2. PICK q : q = queue' /\ q = Queue(queue, ino[Parent(new)], "mkdir", Name(new), Parent(new))
    BY <1>1
  <2>3. ToSet(queue) \subseteq ToSet(q)
    BY <1>0, <1>2, <2>1, <2>2, QueueGrows
  <2>4. ToSet(q) \subseteq ToSet(queue) \cup About("mkdir", Name(new), Parent(new))
    BY <1>0, <1>2, <2>1, <2>2, QueueGrows
  <2>5. WdOf(ino[Parent(new)]) # {} =>
          ToSet(q) \cap About("mkdir", Name(new), Parent(new)) # {}
    BY <1>0, <1>2, <2>1, <2>2, QueueGrows
  <2> QED
    BY <2>2, <2>3, <2>4, <2>5 DEF About
<1> HIDE FileNotifyConstants DEF FileNotifyConstants
<1>6. OneEach' /\ Phases'
  BY <1>0, <1>1 DEF OneEach, Phases, Wd
<1>7. NotifyTypes'
  <2>1. \A e \in ToSet(queue') \cup ToSet(buffer') :
          e.kind = "mkdir" => Append(e.at, e.name) \in Child
    BY <1>0, <1>1, <1>3, <1>5 DEF NotifyTypes
  <2>2. lost' \subseteq Dir
    BY <1>0, <1>1, <1>2 DEF NotifyTypes
  <2> QED
    BY <1>0, <1>1, <2>1, <2>2 DEF NotifyTypes
<1>8. \A d \in Dir : Exists(d) => Exists(d)'
  BY <1>1, <1>4 DEF Exists
<1>9. Rooted'
  <2>1. ASSUME NEW d \in Dir, Exists(d)', NEW k \in 0 .. Len(d)
        PROVE  Above(d, k) \in Dir /\ Exists(Above(d, k))'
    <3>1. CASE d # new
      <4>1. Exists(d)
        BY <1>4, <2>1, <3>1 DEF Exists
      <4> QED
        BY <1>0, <1>8, <4>1 DEF Rooted
    <3>2. CASE d = new /\ k = Len(d)
      BY <1>2, <2>1, <3>2, AboveAll
    <3>3. CASE d = new /\ k # Len(d)
      <4>1. k \in 0 .. Len(new) - 1 /\ Len(new) - 1 \in 0 .. Len(new)
        BY <1>3, <3>3
      <4>2. Above(Parent(new), k) = Above(new, k)
        BY <1>2, <1>3, <4>1, AboveAbove
      <4>3. Len(Parent(new)) = Len(new) - 1
        BY <1>2, <1>3, <4>1, AboveFacts
      <4>4. Above(Parent(new), k) \in Dir /\ Exists(Above(Parent(new), k))
        BY <1>0, <1>1, <1>2, <4>1, <4>3 DEF Rooted
      <4> QED
        BY <1>8, <3>3, <4>2, <4>4
    <3> QED
      BY <3>1, <3>2, <3>3
  <2>2. Exists(Root)'
    BY <1>0, <1>8, FileNotifyConstants DEF Rooted, FileNotifyConstants
  <2> QED
    BY <2>1, <2>2 DEF Rooted
<1>10. ASSUME NEW d \in Dir, Exists(d)'
       PROVE  (Known(d) \/ init = "watch" \/ ToCome(d) \/ Pending(d))'
  <2>1. CASE d # new
    <3>1. ino'[d] = ino[d] /\ Exists(d)
      BY <1>4, <1>10, <2>1 DEF Exists
    <3>2. Known(d) \/ init = "watch" \/ ToCome(d) \/ Pending(d)
      BY <1>0, <3>1 DEF Accounted
    <3>3. Known(d) => Known(d)'
      BY <1>1, <3>1 DEF Known, Watched, StaleEntry, Dotted, Exists
    <3>4. ToCome(d) => ToCome(d)'
      BY <1>1 DEF ToCome
    <3>5. Pending(d) => Pending(d)'
      BY <1>1, <1>5 DEF Pending
    <3> QED
      BY <1>1, <3>2, <3>3, <3>4, <3>5
  <2>2. CASE d = new
    <3>1. CASE WdOf(ino[Parent(new)]) # {}
      <4>1. Pending(new)'
        BY <1>3, <1>5, <3>1 DEF Pending
      <4> QED
        BY <2>2, <4>1
    <3>2. CASE Parent(new) \in found \cup ToSet(pathSet)
      <4>1. Len(new) - 1 \in 0 .. Len(new) - 1
        BY <1>3
      <4>2. ToCome(new)'
        BY <1>1, <1>3, <3>2, <4>1 DEF ToCome
      <4> QED
        BY <2>2, <4>2
    <3> QED
      BY <1>1, <2>2, <3>1, <3>2 DEF Known
  <2> QED
    BY <2>1, <2>2
<1>11. Accounted'
  BY <1>10 DEF Accounted
<1> QED
  BY <1>6, <1>7, <1>9, <1>11 DEF NotifyInv

\* A directory is deleted after all that is below it.
LEMMA RmDirNotify == ASSUME IInv, NotifyInv, NEW old \in Child, RmDir(old) PROVE NotifyInv'
<1>0. Types /\ OneEach /\ NotifyTypes /\ Rooted /\ Phases /\ Accounted
  BY DEF IInv, NotifyInv
<1> DEFINE Parted(q) == Queue(q, ino[Parent(old)], "rmdir", Name(old), Parent(old))
           Ended(q) == Queue(q, ino[old], "ignored", Name(old), old)
<1>1. /\ \A c \in Child : Parent(c) = old => ~Exists(c)
      /\ deletes < MaxDeletes /\ deletes' = deletes + 1
      /\ ino' = [ino EXCEPT ![old] = 0]
      /\ queue' \in {Ended(Parted(queue)), Parted(Ended(queue))}
      /\ lost' = lost \ {old}
      /\ UNCHANGED <<watch, buffer, init, pathSet, found, mRegisterCache, mWdGlobal1, mWdSet,
                     changes, changed, dropped>>
  BY DEF RmDir, FileSystemOnly, mainVars, wdVars
<1>2. /\ old \in Dir /\ Parent(old) \in Dir /\ Name(old) \in DOMAIN Strip /\ old # << >>
  BY FileNotifyConstants DEF FileNotifyConstants, Child, Root
<1>3. ASSUME NEW q \in Seq(EventSet)
      PROVE  /\ Parted(q) \in Seq(EventSet) /\ Ended(q) \in Seq(EventSet)
             /\ ToSet(q) \subseteq ToSet(Parted(q)) /\ ToSet(q) \subseteq ToSet(Ended(q))
             /\ \A e \in ToSet(Parted(q)) : e \in ToSet(q) \/ e.kind = "rmdir"
             /\ \A e \in ToSet(Ended(q)) : e \in ToSet(q) \/ e.kind = "ignored"
  <2>1. PICK r : r = Parted(q)
    OBVIOUS
  <2>2. PICK s : s = Ended(q)
    OBVIOUS
  <2>3. r \in Seq(EventSet) /\ s \in Seq(EventSet)
    BY <1>0, <1>2, <2>1, <2>2, QueueGrows
  <2>4. ToSet(q) \subseteq ToSet(r)
    BY <1>0, <1>2, <2>1, QueueGrows
  <2>7. ToSet(q) \subseteq ToSet(s)
    BY <1>0, <1>2, <2>2, QueueGrows
  <2>5. ToSet(r) \subseteq ToSet(q) \cup About("rmdir", Name(old), Parent(old))
    BY <1>0, <1>2, <2>1, QueueGrows
  <2>6. ToSet(s) \subseteq ToSet(q) \cup About("ignored", Name(old), old)
    BY <1>0, <1>2, <2>2, QueueGrows
  <2> QED
    BY <2>1, <2>2, <2>3, <2>4, <2>5, <2>6, <2>7 DEF About
<1> HIDE DEF Parted, Ended
<1>4. /\ ToSet(queue) \subseteq ToSet(queue')
      /\ \A e \in ToSet(queue') : e \in ToSet(queue) \/ e.kind # "mkdir"
  <2>1. queue \in Seq(EventSet)
    BY <1>0 DEF Types
  <2>2. PICK p \in Seq(EventSet) : p = Parted(queue)
    BY <1>3, <2>1
  <2>3. PICK q \in Seq(EventSet) : q = Ended(queue)
    BY <1>3, <2>1
  <2>4. CASE queue' = Ended(p)
    <3>1. /\ ToSet(queue) \subseteq ToSet(p) /\ ToSet(p) \subseteq ToSet(queue')
          /\ \A e \in ToSet(p) : e \in ToSet(queue) \/ e.kind = "rmdir"
          /\ \A e \in ToSet(queue') : e \in ToSet(p) \/ e.kind = "ignored"
      BY <1>3, <2>1, <2>2, <2>4
    <3> QED
      BY <3>1
  <2>5. CASE queue' = Parted(q)
    <3>1. /\ ToSet(queue) \subseteq ToSet(q) /\ ToSet(q) \subseteq ToSet(queue')
          /\ \A e \in ToSet(q) : e \in ToSet(queue) \/ e.kind = "ignored"
          /\ \A e \in ToSet(queue') : e \in ToSet(q) \/ e.kind = "rmdir"
      BY <1>3, <2>1, <2>3, <2>5
    <3> QED
      BY <3>1
  <2> QED
    BY <1>1, <2>2, <2>3, <2>4, <2>5
<1>5. /\ \A d \in Dir : d # old => ino'[d] = ino[d]
      /\ ~Exists(old)'
  <2>1. ino \in [Dir -> Nat]
    BY <1>0 DEF Types
  <2> QED
    BY <1>1, <1>2, <2>1 DEF Exists
<1>6. OneEach' /\ Phases'
  BY <1>0, <1>1 DEF OneEach, Phases, Wd
<1>7. NotifyTypes'
  <2>1. \A e \in ToSet(queue') \cup ToSet(buffer') :
          e.kind = "mkdir" => Append(e.at, e.name) \in Child
    BY <1>0, <1>1, <1>4 DEF NotifyTypes
  <2>2. deletes' \in 0 .. MaxDeletes
    BY <1>0, <1>1, FileNotifyConstants DEF NotifyTypes, FileNotifyConstants
  <2> QED
    BY <1>0, <1>1, <2>1, <2>2 DEF NotifyTypes
<1>8. Rooted'
  <2>1. ASSUME NEW d \in Dir, Exists(d)', NEW k \in 0 .. Len(d)
        PROVE  Above(d, k) \in Dir /\ Exists(Above(d, k))'
    <3>1. d # old /\ Exists(d) /\ d \in Seq(DOMAIN Strip)
      BY <1>5, <2>1, FileNotifyConstants DEF Exists, FileNotifyConstants
    <3>2. \A j \in 0 .. Len(d) : Above(d, j) \in Dir /\ Exists(Above(d, j))
      BY <1>0, <3>1 DEF Rooted
    <3>3. ASSUME Above(d, k) = old PROVE FALSE
      <4>1. PICK n \in Nat : n = Len(d)
        BY <3>1, LenProperties
      <4>2. k # n
        BY <3>1, <3>3, <4>1, AboveAll
      <4>3. k + 1 \in 1 .. Len(d) /\ k + 1 \in 0 .. Len(d) /\ k + 1 - 1 = k
        BY <4>1, <4>2
      <4>4. PICK c : c = Above(d, k + 1)
        OBVIOUS
      <4>5. c # << >> /\ Parent(c) = Above(d, k + 1 - 1)
        BY <3>1, <4>3, <4>4, ParentOfAbove
      <4>6. c \in Dir /\ Exists(c)
        BY <3>2, <4>3, <4>4
      <4>7. c \in Child /\ Parent(c) = old
        BY <3>3, <4>3, <4>5, <4>6 DEF Child, Root
      <4> QED
        BY <1>1, <4>6, <4>7
    <3> QED
      BY <1>5, <3>2, <3>3 DEF Exists
  <2>2. Exists(Root)'
    BY <1>0, <1>2, <1>5, FileNotifyConstants DEF Rooted, FileNotifyConstants, Exists, Root
  <2> QED
    BY <2>1, <2>2 DEF Rooted
<1>9. ASSUME NEW d \in Dir, Exists(d)'
      PROVE  (Known(d) \/ init = "watch" \/ ToCome(d) \/ Pending(d))'
  <2>1. d # old /\ ino'[d] = ino[d] /\ Exists(d)
    BY <1>5, <1>9 DEF Exists
  <2>2. Known(d) \/ init = "watch" \/ ToCome(d) \/ Pending(d)
    BY <1>0, <2>1 DEF Accounted
  <2>3. Known(d) => Known(d)'
    BY <1>1, <2>1 DEF Known, Watched, StaleEntry, Dotted, Exists
  <2>4. ToCome(d) => ToCome(d)'
    BY <1>1 DEF ToCome
  <2>5. Pending(d) => Pending(d)'
    BY <1>1, <1>4 DEF Pending
  <2> QED
    BY <1>1, <2>2, <2>3, <2>4, <2>5
<1>10. Accounted'
  BY <1>9 DEF Accounted
<1> QED
  BY <1>6, <1>7, <1>8, <1>10 DEF NotifyInv

LEMMA ChangeNotify == ASSUME IInv, NotifyInv, NEW d \in Dir, ChangeFile(d) PROVE NotifyInv'
<1>0. Types /\ OneEach /\ NotifyTypes /\ Rooted /\ Phases /\ Accounted
  BY DEF IInv, NotifyInv
<1>1. PICK n \in FileName : queue' = Queue(queue, ino[d], "file", n, d)
  BY DEF ChangeFile
<1>2. /\ changes < MaxChanges /\ changes' = changes + 1 /\ changed' \subseteq changed \cup {d}
      /\ UNCHANGED <<ino, lost, watch, buffer, init, pathSet, found, mRegisterCache,
                     mWdGlobal1, mWdSet, deletes, dropped>>
  BY DEF ChangeFile, FileSystemOnly, mainVars, wdVars
<1>3. /\ ToSet(queue) \subseteq ToSet(queue')
      /\ \A e \in ToSet(queue') : e \in ToSet(queue) \/ e.kind = "file"
  <2>1. queue \in Seq(EventSet) /\ n \in DOMAIN Strip
    BY <1>0, FileNotifyConstants DEF Types, FileNotifyConstants
  <2>2. PICK q : q = queue' /\ q = Queue(queue, ino[d], "file", n, d)
    BY <1>1
  <2>3. ToSet(queue) \subseteq ToSet(q)
    BY <1>0, <2>1, <2>2, QueueGrows
  <2>4. ToSet(q) \subseteq ToSet(queue) \cup About("file", n, d)
    BY <1>0, <2>1, <2>2, QueueGrows
  <2> QED
    BY <2>2, <2>3, <2>4 DEF About
<1>4. OneEach' /\ Phases' /\ Rooted'
  BY <1>0, <1>2 DEF OneEach, Phases, Wd, Rooted, Exists
<1>5. NotifyTypes'
  <2>1. \A e \in ToSet(queue') \cup ToSet(buffer') :
          e.kind = "mkdir" => Append(e.at, e.name) \in Child
    BY <1>0, <1>2, <1>3 DEF NotifyTypes
  <2>2. changes' \in 0 .. MaxChanges /\ changed' \subseteq Dir
    BY <1>0, <1>2, FileNotifyConstants DEF NotifyTypes, FileNotifyConstants
  <2> QED
    BY <1>0, <1>2, <2>1, <2>2 DEF NotifyTypes
<1>6. Accounted'
  BY <1>0, <1>2, <1>3
  DEF Accounted, Known, Watched, StaleEntry, Dotted, Exists, ToCome, Pending
<1> QED
  BY <1>4, <1>5, <1>6 DEF NotifyInv

-----------------------------------------------------------------------------
(* FileNotify: what the threads do.                                        *)

(***************************************************************************)
(* MonitorPath takes nothing away, and after it the directory is watched,  *)
(* unless its path was watched for a directory that is gone.               *)
(***************************************************************************)
LEMMA MonitorWatches ==
  ASSUME Types, Descriptors, OneEach, NEW p \in Path, MonitorPath(p), UNCHANGED ino
  PROVE  /\ OneEach' /\ DOMAIN mWdGlobal1' = DOMAIN mWdGlobal1 \cup {p}
         /\ \A d \in Dir : Watched(d) => Watched(d)'
         /\ \A d \in Dir : StaleEntry(d) => StaleEntry(d)'
         /\ Exists(p.dir) => Watched(p.dir)' \/ StaleEntry(p.dir)'
<1> DEFINE wd == IF p \in DOMAIN mWdGlobal1 THEN mWdGlobal1[p] ELSE AddWatch(p.dir)
<1>0. PICK n \in Nat : n = Len(watch)
  BY LenProperties DEF Types
<1>1. /\ mWdGlobal1' = Put(mWdGlobal1, p, wd) /\ mWdSet' = mWdSet \cup {wd}
      /\ watch' = IF wd > n THEN Append(watch, ino[p.dir]) ELSE watch
  BY <1>0 DEF MonitorPath
<1>2. p.dir \in Dir
  BY DEF Path
<1>3. /\ DOMAIN mWdGlobal1' = DOMAIN mWdGlobal1 \cup {p}
      /\ \A x \in DOMAIN mWdGlobal1' : mWdGlobal1'[x] = IF x = p THEN wd ELSE mWdGlobal1[x]
  BY <1>1 DEF Put
<1>4. \A x \in DOMAIN mWdGlobal1 : mWdGlobal1[x] \in Wd \cup {Failed}
  BY DEF Descriptors
<1>5. \A w \in mWdSet \ {Failed} : w \in Wd
  BY DEF Descriptors
<1>6. CASE p \in DOMAIN mWdGlobal1
  <2>1. wd = mWdGlobal1[p] /\ (wd \in 1 .. n \/ wd = -1)
    BY <1>0, <1>4, <1>6 DEF Wd, Failed
  <2> HIDE DEF wd
  <2>2. watch' = watch /\ \A x \in DOMAIN mWdGlobal1' : mWdGlobal1'[x] = mWdGlobal1[x]
    BY <1>1, <1>3, <2>1
  <2>3. DOMAIN mWdGlobal1' = DOMAIN mWdGlobal1
    BY <1>3, <1>6
  <2>4. OneEach'
    BY <2>2 DEF OneEach, Wd
  <2>5. \A d \in Dir : /\ Watched(d) => Watched(d)'
                       /\ StaleEntry(d) => StaleEntry(d)'
    BY <1>1, <2>2, <2>3 DEF Watched, StaleEntry, Exists
  <2>6. Exists(p.dir) => Watched(p.dir)' \/ StaleEntry(p.dir)'
    <3>1. CASE wd = Failed \/ watch[wd] # ino[p.dir]
      BY <1>6, <2>1, <2>2, <2>3, <3>1 DEF StaleEntry
    <3>2. CASE wd # Failed /\ watch[wd] = ino[p.dir]
      BY <1>1, <2>2, <3>2 DEF Watched, Exists
    <3> QED
      BY <3>1, <3>2
  <2> QED
    BY <1>3, <2>4, <2>5, <2>6
<1>7. CASE p \notin DOMAIN mWdGlobal1
  <2>1. wd = AddWatch(p.dir)
    BY <1>7
  <2>2. \/ wd = -1 /\ ~Exists(p.dir)
        \/ wd \in 1 .. n /\ watch[wd] = ino[p.dir]
        \/ wd = n + 1 /\ WdOf(ino[p.dir]) = {}
    <3>1. CASE ~Exists(p.dir)
      BY <2>1, <3>1 DEF AddWatch, Failed
    <3>2. CASE Exists(p.dir) /\ WdOf(ino[p.dir]) # {}
      <4>1. wd \in WdOf(ino[p.dir])
        BY <2>1, <3>2 DEF AddWatch
      <4> QED
        BY <1>0, <3>2, <4>1 DEF WdOf, Wd
    <3>3. CASE Exists(p.dir) /\ WdOf(ino[p.dir]) = {}
      BY <1>0, <2>1, <3>3 DEF AddWatch
    <3> QED
      BY <3>1, <3>2, <3>3
  <2> HIDE DEF wd
  <2>3. /\ \A w \in Wd : w \in Wd' /\ watch'[w] = watch[w]
        /\ wd = n + 1 => watch'[wd] = ino[p.dir] /\ wd \notin Wd
        /\ \A w \in Wd' : w \in Wd \/ (w = n + 1 /\ wd = n + 1)
    <3>1. CASE wd = n + 1
      <4>1. wd > n
        BY <3>1
      <4>2. watch' = Append(watch, ino[p.dir]) /\ ino[p.dir] \in Nat
        BY <1>1, <1>2, <4>1 DEF Types
      <4>3. watch \in Seq(Nat)
        BY DEF Types
      <4>4. /\ Len(watch') = n + 1 /\ watch'[n + 1] = ino[p.dir]
            /\ \A w \in 1 .. n : watch'[w] = watch[w]
        BY <1>0, <4>2, <4>3, AppendProperties
      <4>5. Wd = 1 .. n /\ Wd' = 1 .. n + 1
        BY <1>0, <4>4 DEF Wd
      <4>6. /\ n + 1 \notin 1 .. n
            /\ \A w \in 1 .. n + 1 : w \in 1 .. n \/ w = n + 1
            /\ \A w \in 1 .. n : w \in 1 .. n + 1
        OBVIOUS
      <4> QED
        BY <3>1, <4>4, <4>5, <4>6
    <3>2. CASE wd # n + 1
      <4>1. ~(wd > n)
        BY <2>2, <3>2
      <4> QED
        BY <1>1, <3>2, <4>1 DEF Wd
    <3> QED
      BY <3>1, <3>2
  <2>4. Exists(p.dir) => wd # Failed /\ watch'[wd] = ino[p.dir]
    <3>1. CASE wd \in 1 .. n /\ watch[wd] = ino[p.dir]
      <4>1. wd \in Wd /\ wd # -1
        BY <1>0, <3>1 DEF Wd
      <4> QED
        BY <2>3, <3>1, <4>1 DEF Failed
    <3>2. CASE wd = n + 1
      <4>1. wd # -1
        BY <3>2
      <4> QED
        BY <2>3, <3>2, <4>1 DEF Failed
    <3> QED
      BY <2>2, <3>1, <3>2
  <2>5. Exists(p.dir) => Watched(p.dir)'
    BY <1>1, <2>4 DEF Watched, Exists
  <2>6. OneEach'
    <3>1. ASSUME NEW v \in Wd', NEW w \in Wd', watch'[v] = watch'[w] PROVE v = w
      <4>1. CASE v \in Wd /\ w \in Wd
        BY <2>3, <3>1, <4>1 DEF OneEach
      <4>2. CASE v \notin Wd /\ w \notin Wd
        BY <2>3, <4>2
      <4>3. wd = n + 1 => \A x \in Wd : watch'[x] # ino[p.dir]
        <5>1. ASSUME wd = n + 1 PROVE WdOf(ino[p.dir]) = {}
          BY <2>2, <5>1
        <5> QED
          BY <2>3, <5>1 DEF WdOf
      <4>4. CASE v \in Wd /\ w \notin Wd
        BY <2>3, <3>1, <4>3, <4>4
      <4>5. CASE v \notin Wd /\ w \in Wd
        BY <2>3, <3>1, <4>3, <4>5
      <4> QED
        BY <4>1, <4>2, <4>4, <4>5
    <3> QED
      BY <3>1 DEF OneEach
  <2>7. \A d \in Dir : Watched(d) => Watched(d)'
    BY <1>1, <1>5, <2>3 DEF Watched, Exists
  <2>8. \A d \in Dir : StaleEntry(d) => StaleEntry(d)'
    <3>1. \A x \in DOMAIN mWdGlobal1 : x \in DOMAIN mWdGlobal1' /\ mWdGlobal1'[x] = mWdGlobal1[x]
      BY <1>3, <1>7
    <3>2. \A x \in DOMAIN mWdGlobal1 :
            mWdGlobal1[x] # Failed => watch'[mWdGlobal1[x]] = watch[mWdGlobal1[x]]
      BY <1>4, <2>3
    <3> QED
      BY <3>1, <3>2 DEF StaleEntry
  <2> QED
    BY <1>3, <2>5, <2>6, <2>7, <2>8
<1> QED
  BY <1>6, <1>7

\* EnumFiles lists a directory, then those in it, until none is left.
LEMMA RegisterNotify == ASSUME IInv, NotifyInv, Register PROVE NotifyInv'
<1>0. /\ Types /\ Descriptors /\ OneEach /\ NotifyTypes /\ Rooted /\ Phases /\ Accounted
      /\ UNCHANGED <<ino, inodes, deletes, changes, queue, buffer, changed, dropped>>
  BY DEF IInv, NotifyInv, Register, RegisterRoot, OpenDir, EnumDir, PushBack, MainOnly, fsVars
<1>1. Rooted'
  BY <1>0 DEF Rooted, Exists
<1>2. CASE RegisterRoot
  <2>1. PICK p \in Path : p = [dir |-> Root, odd |-> FALSE]
    BY FileNotifyConstants DEF FileNotifyConstants, Path
  <2>2. /\ init = "watch" /\ init' = "enum" /\ MonitorPath(p) /\ pathSet' = <<Root>>
        /\ UNCHANGED <<found, mRegisterCache, lost>> /\ p.dir = Root
    BY <1>2, <2>1 DEF RegisterRoot
  <2>3. /\ OneEach' /\ DOMAIN mWdGlobal1' = DOMAIN mWdGlobal1 \cup {p}
        /\ Exists(Root) => Watched(Root)' \/ StaleEntry(Root)'
    BY <1>0, <2>2, MonitorWatches
  <2>4. Root \in Dir /\ Dir \subseteq Seq(DOMAIN Strip)
    BY FileNotifyConstants DEF FileNotifyConstants
  <2>5. pathSet' \in Seq(Dir) /\ ToSet(pathSet') = {Root}
    <3>0. << >> \in Seq(Dir) /\ ToSet(<< >>) = {}
      BY EmptySeq DEF ToSet
    <3>1. PICK none \in Seq(Dir) : none = << >> /\ ToSet(none) = {}
      BY <3>0
    <3>2. PICK s : s = Append(none, Root)
      OBVIOUS
    <3>3. s \in Seq(Dir) /\ ToSet(s) = ToSet(none) \cup {Root}
      BY <2>4, <3>2, AppendedTo
    <3>4. s = <<Root>>
      BY <3>1, <3>2
    <3> QED
      BY <2>2, <3>1, <3>3, <3>4
  <2>6. NotifyTypes'
    BY <1>0, <2>2, <2>3, <2>5 DEF NotifyTypes
  <2>7. Phases'
    BY <1>0, <2>2 DEF Phases
  <2>8. ASSUME NEW d \in Dir, Exists(d)' PROVE Known(d)' \/ ToCome(d)'
    <3>1. CASE d = Root
      BY <1>0, <2>3, <3>1 DEF Known, Rooted
    <3>2. CASE d # Root
      <4>1. d \in Seq(DOMAIN Strip) /\ Len(d) \in Nat \ {0}
        BY <2>4, <3>2, EmptySeq DEF Root
      <4>2. Above(d, 0) = Root /\ 0 \in 0 .. Len(d) - 1
        BY <4>1, AboveAll DEF Root
      <4> QED
        BY <2>5, <4>2 DEF ToCome
    <3> QED
      BY <3>1, <3>2
  <2>9. Accounted'
    BY <2>8 DEF Accounted
  <2> QED
    BY <1>1, <2>3, <2>6, <2>7, <2>9 DEF NotifyInv
<1>3. CASE OpenDir
  <2>1. /\ init = "enum" /\ found = {} /\ pathSet # <<>> /\ pathSet' = Tail(pathSet)
        /\ found' = {d \in Child : Exists(d) /\ Parent(d) = Head(pathSet)}
        /\ UNCHANGED <<init, watch, mWdGlobal1, mWdSet, mRegisterCache, lost>>
    BY <1>3 DEF OpenDir, wdVars
  <2>2. OneEach' /\ Phases'
    BY <1>0, <2>1 DEF OneEach, Phases, Wd
  <2>3. pathSet \in Seq(Dir)
    BY <1>0 DEF NotifyTypes
  <2>4. pathSet' \in Seq(Dir) /\ ToSet(pathSet) \subseteq {Head(pathSet)} \cup ToSet(pathSet')
    BY <2>1, <2>3, TailOf, HeadAndTail
  <2>5. NotifyTypes'
    BY <1>0, <2>1, <2>4 DEF NotifyTypes
  <2>6. ASSUME NEW d \in Dir, Exists(d)', ToCome(d) PROVE ToCome(d)'
    <3>1. PICK k \in 0 .. Len(d) - 1 : Above(d, k) \in ToSet(pathSet)
      BY <2>1, <2>6 DEF ToCome
    <3>2. CASE Above(d, k) \in ToSet(pathSet')
      BY <3>1, <3>2 DEF ToCome
    <3>3. CASE Above(d, k) = Head(pathSet)
      <4>1. d \in Seq(DOMAIN Strip)
        BY FileNotifyConstants DEF FileNotifyConstants
      <4>2. PICK n \in Nat : n = Len(d)
        BY <4>1, LenProperties
      <4>3. PICK j \in Nat : j = k + 1
        BY <3>1, <4>2
      <4>4. j \in 1 .. Len(d) /\ j \in 0 .. Len(d) /\ j - 1 = k
        BY <3>1, <4>2, <4>3
      <4>5. PICK c : c = Above(d, j)
        OBVIOUS
      <4>6. c # << >> /\ Parent(c) = Head(pathSet)
        BY <3>3, <4>1, <4>4, <4>5, ParentOfAbove
      <4>7. c \in Dir /\ Exists(c)
        BY <1>0, <2>6, <4>4, <4>5 DEF Rooted, Exists
      <4>8. c \in found'
        BY <2>1, <4>6, <4>7 DEF Child, Root
      <4>9. CASE j = n
        BY <4>1, <4>2, <4>5, <4>8, <4>9, AboveAll DEF ToCome
      <4>10. CASE j # n
        <5>1. j \in 0 .. Len(d) - 1
          BY <4>2, <4>4, <4>10
        <5> QED
          BY <4>5, <4>8, <5>1 DEF ToCome
      <4> QED
        BY <4>9, <4>10
    <3> QED
      BY <2>4, <3>1, <3>2, <3>3
  <2>7. ASSUME NEW d \in Dir, Exists(d)'
        PROVE  (Known(d) \/ init = "watch" \/ ToCome(d) \/ Pending(d))'
    <3>1. Known(d) \/ ToCome(d) \/ Pending(d)
      BY <1>0, <2>1, <2>7 DEF Accounted, Exists
    <3>2. Known(d) => Known(d)'
      BY <1>0, <2>1 DEF Known, Watched, StaleEntry, Dotted, Exists
    <3>3. Pending(d) => Pending(d)'
      BY <1>0 DEF Pending
    <3> QED
      BY <2>6, <2>7, <3>1, <3>2, <3>3
  <2>8. Accounted'
    BY <2>7 DEF Accounted
  <2> QED
    BY <1>1, <2>2, <2>5, <2>8 DEF NotifyInv
<1>4. ASSUME NEW s \in Dir, EnumDir(s) PROVE NotifyInv'
  <2>1. PICK p \in Path : p = [dir |-> s, odd |-> FALSE]
    BY DEF Path
  <2>2. /\ s \in found /\ found' = found \ {s} /\ MonitorPath(p) /\ p.dir = s
        /\ pathSet' = Append(pathSet, s) /\ lost' = lost \ {s}
        /\ UNCHANGED <<init, mRegisterCache>>
    BY <1>4, <2>1 DEF EnumDir
  <2>3. OneEach' /\ DOMAIN mWdGlobal1' = DOMAIN mWdGlobal1 \cup {p}
    BY <1>0, <2>2, MonitorWatches
  <2>4. /\ \A d \in Dir : Watched(d) => Watched(d)'
        /\ \A d \in Dir : StaleEntry(d) => StaleEntry(d)'
        /\ Exists(s) => Watched(s)' \/ StaleEntry(s)'
    BY <1>0, <2>2, MonitorWatches
  <2>5. pathSet' \in Seq(Dir) /\ ToSet(pathSet') = ToSet(pathSet) \cup {s}
    BY <1>0, <2>2, AppendedTo DEF NotifyTypes
  <2>6. NotifyTypes'
    BY <1>0, <2>2, <2>3, <2>5 DEF NotifyTypes
  <2>7. Phases'
    BY <1>0, <2>2 DEF Phases
  <2>8. ASSUME NEW d \in Dir, Exists(d)'
        PROVE  (Known(d) \/ init = "watch" \/ ToCome(d) \/ Pending(d))'
    <3>1. Exists(d) /\ (Known(d) \/ init = "watch" \/ ToCome(d) \/ Pending(d))
      BY <1>0, <2>8 DEF Accounted, Exists
    <3>2. d = s => Known(d)'
      BY <2>4, <3>1 DEF Known
    <3>3. d # s /\ Known(d) => Known(d)'
      BY <2>2, <2>4 DEF Known, Dotted
    <3>4. d # s /\ ToCome(d) => ToCome(d)'
      BY <2>2, <2>5 DEF ToCome
    <3>5. Pending(d) => Pending(d)'
      BY <1>0 DEF Pending
    <3> QED
      BY <2>2, <3>1, <3>2, <3>3, <3>4, <3>5
  <2>9. Accounted'
    BY <2>8 DEF Accounted
  <2> QED
    BY <1>1, <2>3, <2>6, <2>7, <2>9 DEF NotifyInv
<1>5. CASE PushBack
  <2>1. /\ init = "enum" /\ init' = "done" /\ found = {} /\ pathSet = <<>>
        /\ mRegisterCache' = TRUE
        /\ UNCHANGED <<watch, pathSet, found, mWdGlobal1, mWdSet, lost>>
    BY <1>5 DEF PushBack, wdVars
  <2>2. OneEach' /\ NotifyTypes' /\ Phases'
    BY <1>0, <2>1 DEF OneEach, NotifyTypes, Phases, Wd
  <2>3. Accounted'
    BY <1>0, <2>1 DEF Accounted, Known, Watched, StaleEntry, Dotted, Exists, ToCome, Pending
  <2> QED
    BY <1>1, <2>2, <2>3 DEF NotifyInv
<1> QED
  BY <1>2, <1>3, <1>4, <1>5 DEF Register

\* An event that is handled accounts for its directory; the others remain.
LEMMA NotifyNotify == ASSUME IInv, NotifyInv, NotifyThread PROVE NotifyInv'
<1>0. /\ Types /\ Descriptors /\ OneEach /\ NotifyTypes /\ Rooted /\ Phases /\ Accounted
      /\ UNCHANGED <<ino, deletes, changes, init, pathSet, found, mRegisterCache>>
      /\ queue \in Seq(EventSet) /\ buffer \in Seq(EventSet)
  BY DEF IInv, NotifyInv, Types, NotifyThread, Read, OnDirCreated, OnFileEvent, OnIgnored,
     ThreadOnly, fsVars, mainVars
<1>1. Rooted'
  BY <1>0 DEF Rooted, Exists
<1>2. ASSUME OneEach', DOMAIN mWdGlobal1' \subseteq Path, mRegisterCache \/ watch' = watch,
             mRegisterCache \/ mWdGlobal1' = mWdGlobal1, lost' \subseteq Dir,
             changed' \subseteq Dir, dropped' \in BOOLEAN,
             ToSet(queue') \cup ToSet(buffer') \subseteq ToSet(queue) \cup ToSet(buffer),
             \A d \in Dir : Exists(d) /\ Known(d) => Known(d)',
             \A d \in Dir : Exists(d) /\ Pending(d) => Known(d)' \/ Pending(d)'
      PROVE  NotifyInv'
  <2>1. NotifyTypes'
    BY <1>0, <1>2 DEF NotifyTypes
  <2>2. Phases'
    BY <1>0, <1>2 DEF Phases
  <2>3. \A d \in Dir : ToCome(d) => ToCome(d)'
    BY <1>0 DEF ToCome
  <2>4. ASSUME NEW d \in Dir, Exists(d)'
        PROVE  (Known(d) \/ init = "watch" \/ ToCome(d) \/ Pending(d))'
    <3>1. Exists(d) /\ (Known(d) \/ init = "watch" \/ ToCome(d) \/ Pending(d))
      BY <1>0, <2>4 DEF Accounted, Exists
    <3> QED
      BY <1>0, <1>2, <2>3, <3>1
  <2>5. Accounted'
    BY <2>4 DEF Accounted
  <2> QED
    BY <1>1, <1>2, <2>1, <2>2, <2>5 DEF NotifyInv
<1> HIDE DEF NotifyInv
<1>3. ASSUME UNCHANGED <<watch, mWdGlobal1, mWdSet>>, lost \subseteq lost'
      PROVE  /\ OneEach' /\ DOMAIN mWdGlobal1' \subseteq Path
             /\ \A d \in Dir : Known(d) => Known(d)'
  BY <1>0, <1>3 DEF OneEach, Wd, NotifyTypes, Known, Watched, StaleEntry, Dotted, Exists
<1>4. CASE Read
  <2>1. PICK n \in Nat : n = Len(queue)
    BY <1>0, LenProperties
  <2>2. PICK k : k = Min({MaxRead, n})
    OBVIOUS
  <2>3. k \in 0 .. n
    BY <2>1, <2>2, MinOfTwo, FileNotifyConstants DEF FileNotifyConstants
  <2>4. /\ buffer' = SubSeq(queue, 1, k) /\ queue' = SubSeq(queue, k + 1, n)
        /\ UNCHANGED <<watch, mWdGlobal1, mWdSet, lost, changed, dropped>>
    BY <1>4, <2>1, <2>2 DEF Read, wdVars, ghostVars
  <2>5. ToSet(queue) \subseteq ToSet(buffer') \cup ToSet(queue') /\ buffer = <<>>
    BY <1>0, <1>4, <2>1, <2>3, <2>4, NothingFallsOut DEF Read
  <2>6. /\ ToSet(buffer') \subseteq ToSet(queue) /\ ToSet(queue') \subseteq ToSet(queue)
    <3>1. 1 \in Nat \ {0} /\ k + 1 \in Nat \ {0} /\ n \in 0 .. n
      BY <2>3
    <3> QED
      BY <1>0, <2>1, <2>3, <2>4, <3>1, PartOf
  <2>7. ToSet(buffer) = {}
    BY <2>5, EmptySeq DEF ToSet
  <2>8. \A d \in Dir : Pending(d) => Pending(d)'
    BY <2>5, <2>7 DEF Pending
  <2>9. lost' \subseteq Dir /\ changed' \subseteq Dir /\ dropped' \in BOOLEAN
    BY <1>0, <2>4 DEF NotifyTypes
  <2> QED
    BY <1>2, <1>3, <2>4, <2>6, <2>8, <2>9
<1>5. PICK e : e = Head(buffer)
  OBVIOUS
<1>6. ASSUME buffer # <<>>, buffer' = Tail(buffer)
      PROVE  /\ e \in ToSet(buffer) /\ e \in EventSet
             /\ ToSet(buffer') \subseteq ToSet(buffer)
             /\ ToSet(buffer) \subseteq {e} \cup ToSet(buffer')
  <2>1. e \in ToSet(buffer) /\ ToSet(buffer') \subseteq ToSet(buffer)
    BY <1>0, <1>5, <1>6, TailOf
  <2>2. ToSet(buffer) \subseteq {e} \cup ToSet(buffer')
    BY <1>0, <1>5, <1>6, HeadAndTail
  <2> QED
    BY <1>0, <2>1, <2>2, ElementsOf
<1>7. CASE OnDirCreated
  <2>1. PICK new : new = Append(e.at, e.name)
    OBVIOUS
  <2>2. /\ e.kind = "mkdir" /\ e \in ToSet(buffer) /\ e \in EventSet
        /\ UNCHANGED <<queue, changed, dropped>>
        /\ ToSet(buffer') \subseteq ToSet(buffer)
        /\ ToSet(buffer) \subseteq {e} \cup ToSet(buffer')
    BY <1>5, <1>6, <1>7 DEF OnDirCreated
  <2>3. new \in Child /\ new \in Dir /\ new # Root
    BY <1>0, <2>1, <2>2 DEF NotifyTypes, Child
  <2>4. Name(new) = e.name /\ e.name \in DOMAIN Strip
    <3>1. e.at \in Seq(DOMAIN Strip) /\ e.name \in DOMAIN Strip
      BY <2>2, FileNotifyConstants DEF FileNotifyConstants, EventSet
    <3> QED
      BY <2>1, <3>1, LastNamed
  <2>5. \A d \in Dir : d # new /\ Pending(d) => Pending(d)'
    BY <2>1, <2>2 DEF Pending
  <2>6. changed' \subseteq Dir /\ dropped' \in BOOLEAN
    BY <1>0, <2>2 DEF NotifyTypes
  <2>7. CASE Handled(e) /\ MonitorPath(FilePath(e)) /\ lost' = lost
    <3>1. PICK p : p = FilePath(e)
      OBVIOUS
    <3>2. p \in Path /\ p.dir = Append(e.at, Strip[e.name]) /\ MonitorPath(p)
      BY <2>2, <2>7, <3>1, PathOfEvent
    <3>3. OneEach' /\ DOMAIN mWdGlobal1' = DOMAIN mWdGlobal1 \cup {p}
      BY <1>0, <3>2, MonitorWatches
    <3>4. /\ \A d \in Dir : Watched(d) => Watched(d)'
          /\ \A d \in Dir : StaleEntry(d) => StaleEntry(d)'
          /\ Exists(p.dir) => Watched(p.dir)' \/ StaleEntry(p.dir)'
      BY <1>0, <3>2, MonitorWatches
    <3>5. \A d \in Dir : Known(d) => Known(d)'
      BY <2>7, <3>4 DEF Known, Dotted
    <3>6. Exists(new) => Known(new)'
      <4>1. CASE Strip[e.name] = e.name
        BY <2>1, <3>2, <3>4, <4>1 DEF Known
      <4>2. CASE Strip[e.name] # e.name
        BY <2>3, <2>4, <4>2 DEF Known, Dotted
      <4> QED
        BY <4>1, <4>2
    <3>7. mRegisterCache /\ lost' \subseteq Dir /\ DOMAIN mWdGlobal1' \subseteq Path
      BY <1>0, <2>7, <3>2, <3>3 DEF Handled, NotifyTypes
    <3>8. \A d \in Dir : Exists(d) /\ Pending(d) => Known(d)' \/ Pending(d)'
      BY <2>5, <3>6
    <3> QED
      BY <1>2, <2>2, <2>6, <3>3, <3>5, <3>7, <3>8
  <2>8. CASE /\ lost' = IF Exists(new) /\ ~Watched(new) THEN lost \cup {new} ELSE lost
             /\ UNCHANGED <<watch, wdVars>>
    <3>1. UNCHANGED <<watch, mWdGlobal1, mWdSet>> /\ lost \subseteq lost' /\ lost' \subseteq Dir
      BY <1>0, <2>3, <2>8 DEF wdVars, NotifyTypes
    <3>2. Exists(new) => Known(new)'
      BY <1>0, <2>8, <3>1 DEF Known, Watched, Exists
    <3>3. \A d \in Dir : Exists(d) /\ Pending(d) => Known(d)' \/ Pending(d)'
      BY <2>5, <3>2
    <3> QED
      BY <1>2, <1>3, <2>2, <2>6, <3>1, <3>3
  <2> QED
    BY <1>5, <1>7, <2>1, <2>7, <2>8 DEF OnDirCreated
<1>8. CASE OnFileEvent
  <2>1. /\ e.kind # "mkdir" /\ UNCHANGED <<queue, watch, mWdGlobal1, mWdSet, lost, dropped>>
        /\ changed' \subseteq changed
        /\ ToSet(buffer') \subseteq ToSet(buffer)
        /\ ToSet(buffer) \subseteq {e} \cup ToSet(buffer')
    BY <1>5, <1>6, <1>8 DEF OnFileEvent, wdVars
  <2>2. \A d \in Dir : Pending(d) => Pending(d)'
    BY <2>1 DEF Pending
  <2>3. lost' \subseteq Dir /\ changed' \subseteq Dir /\ dropped' \in BOOLEAN
    BY <1>0, <2>1 DEF NotifyTypes
  <2> QED
    BY <1>2, <1>3, <2>1, <2>2, <2>3
<1>9. CASE OnIgnored
  <2> DEFINE behind == {Tail(buffer)[k] : k \in 1 .. Len(buffer) - 1}
             dirs == {Append(b.at, b.name) : b \in {x \in behind : x.kind = "mkdir"}}
  <2>1. /\ e.kind = "ignored" /\ buffer # <<>> /\ buffer' = <<>>
        /\ UNCHANGED <<queue, watch, mWdGlobal1, mWdSet, changed>>
        /\ lost' = lost \cup {d \in dirs : Exists(d) /\ ~Watched(d)}
        /\ dropped' = (dropped \/ behind # {})
    BY <1>5, <1>9 DEF OnIgnored, wdVars
  <2>2. behind = ToSet(Tail(buffer))
    <3>1. /\ Tail(buffer) \in Seq(EventSet) /\ Len(Tail(buffer)) = Len(buffer) - 1
      BY <1>0, <2>1, HeadTailProperties
    <3> QED
      BY <3>1, ElementsOf
  <2>3. behind \subseteq ToSet(buffer) /\ ToSet(buffer) \subseteq {e} \cup behind
    BY <1>0, <1>5, <2>1, <2>2, TailOf, HeadAndTail
  <2>4. dirs \subseteq Dir
    BY <1>0, <2>3 DEF NotifyTypes, Child
  <2>5. ASSUME NEW d \in Dir, Exists(d), Pending(d) PROVE Known(d)' \/ Pending(d)'
    <3>1. PICK b \in ToSet(queue) \cup ToSet(buffer) : b.kind = "mkdir" /\ Append(b.at, b.name) = d
      BY <2>5 DEF Pending
    <3>2. CASE b \in ToSet(queue)
      BY <2>1, <3>1, <3>2 DEF Pending
    <3>3. CASE b \in ToSet(buffer)
      <4>1. d \in dirs
        BY <2>1, <2>3, <3>1, <3>3
      <4>2. Watched(d) => Watched(d)'
        BY <1>0, <2>1 DEF Watched, Exists
      <4> QED
        BY <2>1, <2>5, <4>1, <4>2 DEF Known
    <3> QED
      BY <3>1, <3>2, <3>3
  <2>6. ToSet(buffer') = {}
    BY <2>1, EmptySeq DEF ToSet
  <2>7. lost \subseteq lost' /\ lost' \subseteq Dir /\ changed' \subseteq Dir
    BY <1>0, <2>1, <2>4 DEF NotifyTypes
  <2>8. dropped' \in BOOLEAN
    BY <1>0, <2>1 DEF NotifyTypes
  <2> HIDE DEF behind, dirs
  <2> QED
    BY <1>2, <1>3, <2>1, <2>5, <2>6, <2>7, <2>8
<1> QED
  BY <1>4, <1>7, <1>8, <1>9 DEF NotifyThread

\* Both invariants are kept together.
LEMMA NotifyInvKept == ASSUME IInv, NotifyInv, [Next]_vars PROVE IInv' /\ NotifyInv'
<1>1. IInv'
  BY InvKept
<1>2. CASE UNCHANGED vars
  <2>0. OneEach /\ NotifyTypes /\ Rooted /\ Phases /\ Accounted
    BY DEF NotifyInv
  <2>1. UNCHANGED <<ino, deletes, changes, watch, queue, init, pathSet, found, mWdGlobal1,
                    mWdSet, mRegisterCache, buffer, lost, changed, dropped>>
    BY <1>2 DEF vars, fsVars, mainVars, wdVars, ghostVars
  <2>2. OneEach' /\ NotifyTypes' /\ Phases'
    BY <2>0, <2>1 DEF OneEach, NotifyTypes, Phases, Wd
  <2>3. Rooted'
    BY <2>0, <2>1 DEF Rooted, Exists
  <2>4. Accounted'
    BY <2>0, <2>1 DEF Accounted, Known, Watched, StaleEntry, Dotted, Exists, ToCome, Pending
  <2> QED
    BY <1>1, <2>2, <2>3, <2>4 DEF NotifyInv
<1> QED
  BY <1>1, <1>2, MkDirNotify, RmDirNotify, ChangeNotify, RegisterNotify, NotifyNotify
  DEF Next, FileSystem

\* The descriptors are of different inodes, so there are no more of them.
LEMMA FewWatches == ASSUME Types, OneEach PROVE Len(watch) <= inodes
<1>1. PICK n \in Nat : n = Len(watch)
  BY LenProperties DEF Types
<1>2. inodes \in Nat
  BY DEF Types, Inode
<1>3. /\ IsFiniteSet(1 .. n) /\ IsFiniteSet(1 .. inodes)
      /\ Cardinality(1 .. n) = n /\ Cardinality(1 .. inodes) = inodes
  <2>1. /\ \A m \in Nat : IsFiniteSet(1 .. m)
        /\ \A m \in Nat : Cardinality(1 .. m) = IF 1 > m THEN 0 ELSE m - 1 + 1
    BY FS_Interval
  <2>2. \A m \in Nat : (IF 1 > m THEN 0 ELSE m - 1 + 1) = m
    OBVIOUS
  <2> QED
    BY <1>1, <1>2, <2>1, <2>2
<1>4. ASSUME inodes < n PROVE FALSE
  <2>1. PICK f : f = [w \in 1 .. n |-> watch[w]]
    OBVIOUS
  <2>2. f \in [1 .. n -> 1 .. inodes]
    BY <1>1, <2>1 DEF Types, Wd
  <2>3. \E v, w \in 1 .. n : v # w /\ f[v] = f[w]
    BY <1>3, <1>4, <2>2, FS_PigeonHole
  <2> QED
    BY <1>1, <2>1, <2>3 DEF OneEach, Wd
<1> QED
  BY <1>1, <1>2, <1>4

LEMMA NotifyTyped == ASSUME IInv, NotifyInv PROVE TypeOK
<1>0. Types /\ Descriptors /\ OneEach /\ NotifyTypes
  BY DEF IInv, NotifyInv
<1>1. inodes \in Inode /\ Inode = 1 .. MaxDirs + 1 /\ MaxDirs \in Nat
  BY <1>0, FileNotifyConstants DEF Types, Inode, FileNotifyConstants
<1>2. 1 .. inodes \subseteq Inode /\ Wd \subseteq Inode
  <2>1. Len(watch) \in Nat /\ Len(watch) <= inodes
    BY <1>0, FewWatches, LenProperties DEF Types
  <2> QED
    BY <1>1, <2>1 DEF Wd
<1>3. ino \in [Dir -> Inode \cup {0}]
  <2>1. \A d \in Dir : ino[d] \in Inode \cup {0}
    BY <1>0, <1>1 DEF Types
  <2> QED
    BY <1>0, <2>1 DEF Types
<1>4. watch \in Seq(Inode)
  <2>1. watch \in Seq(Nat) /\ \A w \in 1 .. Len(watch) : watch[w] \in Inode
    BY <1>0, <1>2 DEF Types, Wd
  <2>2. ToSet(watch) = {watch[w] : w \in 1 .. Len(watch)}
    BY <2>1, ElementsOf
  <2>3. 1 \in Int /\ Len(watch) \in Int
    BY <2>1, LenProperties
  <2>4. SubSeq(watch, 1, Len(watch)) \in Seq(Inode)
    BY <2>1, <2>3, SubSeqProperties
  <2>5. SubSeq(watch, 1, Len(watch)) = watch
    BY <2>1, SubSeqFull
  <2> QED
    BY <2>4, <2>5
<1>5. ASSUME NEW q \in Seq(EventSet), \A e \in ToSet(q) : e.wd \in Wd
      PROVE  q \in Seq(Event)
  <2>1. ASSUME NEW i \in 1 .. Len(q) PROVE q[i] \in Event
    <3>1. q[i] \in EventSet /\ q[i].wd \in Wd
      BY <1>5, ElementOfSeq, ElementsOf
    <3> QED
      BY <1>2, <3>1 DEF EventSet, Event
  <2>2. 1 \in Int /\ Len(q) \in Int
    BY LenProperties
  <2>3. SubSeq(q, 1, Len(q)) \in Seq(Event)
    BY <2>1, <2>2, SubSeqProperties
  <2>4. SubSeq(q, 1, Len(q)) = q
    BY SubSeqFull
  <2> QED
    BY <2>3, <2>4
<1>6. queue \in Seq(Event) /\ buffer \in Seq(Event)
  <2>1. \A e \in ToSet(queue) \cup ToSet(buffer) : e.wd \in Wd
    BY DEF IInv, Belongs, Events, EventAt
  <2>2. queue \in Seq(EventSet) /\ buffer \in Seq(EventSet)
    BY <1>0 DEF Types
  <2> QED
    BY <1>5, <2>1, <2>2
<1>7. /\ \A p \in DOMAIN mWdGlobal1 : mWdGlobal1[p] \in Wd \cup {Failed}
      /\ DOMAIN mWdGlobal2 \subseteq Wd \cup {Failed}
      /\ \A w \in DOMAIN mWdGlobal2 : mWdGlobal2[w] \in Path
      /\ mWdSet \subseteq Wd \cup {Failed}
  BY <1>0 DEF Descriptors
<1>8. slash \in BOOLEAN /\ found \subseteq Dir
  BY <1>0 DEF Types
<1> QED
  BY <1>0, <1>1, <1>3, <1>4, <1>6, <1>7, <1>8 DEF NotifyTypes, TypeOK

-----------------------------------------------------------------------------
(***************************************************************************)
(* WatchesKnown: whatever is created, deleted and changed while both       *)
(* threads run, every directory is watched once all events are handled,    *)
(* but for the exceptions that BlindSpots names.                           *)
(***************************************************************************)
THEOREM WatchesKnown == Spec => []BlindSpots
<1>1. Init => IInv /\ NotifyInv
  BY InitInv, InitNotify
<1>2. (IInv /\ NotifyInv) /\ [Next]_vars => (IInv /\ NotifyInv)'
  BY NotifyInvKept
<1>3. IInv /\ NotifyInv => BlindSpots
  BY AllSeen
<1> QED
  BY <1>1, <1>2, <1>3, PTL DEF Spec

(***************************************************************************)
(* NotifyTypeCorrect: every variable of the agent's directory watches has  *)
(* its type; no more descriptors are given out than there were inodes.     *)
(***************************************************************************)
THEOREM NotifyTypeCorrect == Spec => []TypeOK
<1>1. Init => IInv /\ NotifyInv
  BY InitInv, InitNotify
<1>2. (IInv /\ NotifyInv) /\ [Next]_vars => (IInv /\ NotifyInv)'
  BY NotifyInvKept
<1>3. IInv /\ NotifyInv => TypeOK
  BY NotifyTyped
<1> QED
  BY <1>1, <1>2, <1>3, PTL DEF Spec

-----------------------------------------------------------------------------
(* LocalTail: reading without gaps.                                        *)

LEMMA LocalMin ==
  ASSUME NEW a \in Nat, NEW b \in Nat
  PROVE  L!Min({a, b}) = IF a <= b THEN a ELSE b
<1>1. CASE a <= b
  BY <1>1, SMT DEF L!Min
<1>2. CASE ~(a <= b)
  BY <1>2, SMT DEF L!Min
<1> QED
  BY <1>1, <1>2

(***************************************************************************)
(* The inductive invariant.  Of a file that was not truncated, byte k has  *)
(* the number k.  What is being read continues at mLastPos without a gap;  *)
(* and from the last byte that was received mLastPos moved only over what  *)
(* GetFileContent could not open the file for: else it is set to a size    *)
(* that was read before the content.                                       *)
(***************************************************************************)
LocalTypes ==
  /\ data \in Seq(Nat) /\ written \in Nat /\ clears \in Nat
  /\ exists \in BOOLEAN /\ orphan \in BOOLEAN
  /\ mLastPos \in Nat /\ start \in Nat /\ size \in Nat
  /\ str \in Seq(Nat) /\ received \in Seq(Nat)
  /\ pc \in {"sleep", "stat", "read"}

Grown == Len(data) = written /\ \A k \in 1 .. Len(data) : data[k] = k

Positions ==
  /\ mLastPos <= Len(data)
  /\ (IF received = <<>> THEN start ELSE received[Len(received)]) + 1 .. mLastPos
       \subseteq skipped

ReadOn ==
  pc = "read" /\ ~orphan =>
    /\ size <= Len(data) /\ mLastPos + Len(str) <= Len(data)
    /\ \A k \in 1 .. Len(str) : str[k] = mLastPos + k

LocalInv == LocalTypes /\ (clears = 0 => Grown /\ Positions /\ ReadOn /\ NoGap)

LEMMA LocalInit == L!Init => LocalInv
<1> SUFFICES ASSUME L!Init PROVE LocalInv
  OBVIOUS
<1>1. <<>> \in Seq(Nat) /\ Len(<<>>) = 0
  BY EmptySeq
<1>2. /\ data = <<>> /\ str = <<>> /\ received = <<>> /\ written = 0
      /\ clears = 0 /\ mLastPos = 0 /\ start = 0 /\ size = 0
      /\ exists \in BOOLEAN /\ orphan = FALSE /\ pc = "sleep"
  BY DEF L!Init
<1>3. LocalTypes
  BY <1>1, <1>2 DEF LocalTypes
<1>4. Len(data) = 0 /\ Len(received) = 0
  BY <1>1, <1>2
<1> QED
  BY <1>2, <1>3, <1>4 DEF LocalInv, Grown, Positions, ReadOn, NoGap, L!NoGap

\* The file grows: what was read of it stays what it was.
LEMMA AppendKeeps == LocalInv /\ L!AppendByte => LocalInv'
<1> SUFFICES ASSUME LocalInv, L!AppendByte PROVE LocalInv'
  OBVIOUS
<1>1. /\ written' = written + 1 /\ data' = Append(data, written + 1)
      /\ UNCHANGED <<exists, clears, orphan, mLastPos, start, size, str, received,
                     skipped, pc>>
  BY DEF L!AppendByte, L!WriterOnly, L!localVars, L!entryVars
<1>2. data \in Seq(Nat) /\ written \in Nat /\ written + 1 \in Nat
  BY DEF LocalInv, LocalTypes
<1>3. PICK n \in Nat : n = Len(data)
  BY <1>2, LenProperties
<1>4. /\ data' \in Seq(Nat) /\ Len(data') = n + 1 /\ data'[n + 1] = written + 1
      /\ \A k \in 1 .. n : data'[k] = data[k]
  BY <1>1, <1>2, <1>3, AppendProperties
<1>5. LocalTypes'
  BY <1>1, <1>2, <1>4 DEF LocalInv, LocalTypes
<1>6. ASSUME clears = 0 PROVE (Grown /\ Positions /\ ReadOn /\ NoGap)'
  <2>1. Grown /\ Positions /\ ReadOn /\ NoGap /\ LocalTypes
    BY <1>6 DEF LocalInv
  <2>2. Grown'
    BY <1>1, <1>3, <1>4, <2>1 DEF Grown
  <2>3. Positions'
    BY <1>1, <1>3, <1>4, <2>1 DEF Positions, LocalTypes
  <2>4. ReadOn'
    <3>1. PICK m \in Nat : m = Len(str)
      BY <2>1, LenProperties DEF LocalTypes
    <3> QED
      BY <1>1, <1>3, <1>4, <2>1, <3>1 DEF ReadOn, LocalTypes
  <2>5. NoGap'
    BY <1>1, <2>1 DEF NoGap, L!NoGap
  <2> QED
    BY <2>2, <2>3, <2>4, <2>5
<1> QED
  BY <1>1, <1>5, <1>6 DEF LocalInv

\* An enumeration makes a new entry; a read that is under way is not its.
LEMMA EnumKeeps == LocalInv /\ L!FileEnumProc => LocalInv'
<1> SUFFICES ASSUME LocalInv, L!FileEnumProc PROVE LocalInv'
  OBVIOUS
<1>1. /\ UNCHANGED <<data, written, clears, exists, size, str, pc>>
      /\ orphan' = (orphan \/ (exists /\ pc # "sleep"))
  BY DEF L!FileEnumProc, L!UiOnly, L!fileVars, L!Locked
<1>2. CASE exists
  <2>1. mLastPos' \in {0, Len(data)} /\ start' = mLastPos' /\ received' = <<>>
    BY <1>2 DEF L!FileEnumProc
  <2>2. Len(data) \in Nat /\ <<>> \in Seq(Nat) /\ Len(<<>>) = 0
    BY LenProperties, EmptySeq DEF LocalInv, LocalTypes
  <2>3. orphan' \in BOOLEAN
    BY <1>1 DEF LocalInv, LocalTypes
  <2>4. LocalTypes'
    BY <1>1, <2>1, <2>2, <2>3 DEF LocalInv, LocalTypes
  <2>5. pc' = "read" => orphan'
    BY <1>1, <1>2
  <2>6. mLastPos' <= Len(data)
    BY <2>1, <2>2
  <2>7. start' + 1 .. mLastPos' = {}
    <3>1. start' \in Nat
      BY <2>1, <2>2
    <3>2. PICK k \in Nat : k = start'
      BY <3>1
    <3>3. mLastPos' = k
      BY <2>1, <3>2
    <3>4. k + 1 .. k = {}
      OBVIOUS
    <3> QED
      BY <3>2, <3>3, <3>4
  <2>8. Positions'
    BY <1>1, <2>1, <2>6, <2>7 DEF Positions
  <2>9. NoGap'
    BY <2>1, <2>2 DEF NoGap, L!NoGap
  <2>10. clears = 0 => Grown'
    BY <1>1 DEF LocalInv, Grown
  <2> QED
    BY <1>1, <2>4, <2>5, <2>8, <2>9, <2>10 DEF LocalInv, ReadOn
<1>3. CASE ~exists
  <2>1. UNCHANGED <<mLastPos, start, received, skipped>>
    BY <1>3 DEF L!FileEnumProc, L!entryVars
  <2>2. orphan' = orphan
    BY <1>1, <1>3 DEF LocalInv, LocalTypes
  <2> QED
    BY <1>1, <2>1, <2>2 DEF LocalInv, LocalTypes, Grown, Positions, ReadOn, NoGap, L!NoGap
<1> QED
  BY <1>2, <1>3 DEF LocalInv, LocalTypes

LEMMA StatKeeps == LocalInv /\ L!FileNotify => LocalInv'
<1> SUFFICES ASSUME LocalInv, L!FileNotify PROVE LocalInv'
  OBVIOUS
<1>1. /\ UNCHANGED <<data, written, clears, exists, mLastPos, start, received, skipped>>
      /\ size' = Len(data) /\ str' = <<>> /\ orphan' = FALSE
      /\ pc' = IF mLastPos < Len(data) THEN "read" ELSE "sleep"
  BY DEF L!FileNotify, L!MonitorOnly, L!fileVars
<1>2. Len(data) \in Nat /\ <<>> \in Seq(Nat) /\ Len(<<>>) = 0
  BY LenProperties, EmptySeq DEF LocalInv, LocalTypes
<1>3. LocalTypes'
  BY <1>1, <1>2 DEF LocalInv, LocalTypes
<1>4. clears = 0 => ReadOn'
  BY <1>1, <1>2 DEF LocalInv, LocalTypes, Positions, ReadOn
<1> QED
  BY <1>1, <1>3, <1>4 DEF LocalInv, Grown, Positions, NoGap, L!NoGap

-----------------------------------------------------------------------------
(* Reading.                                                                *)

\* One fread, of any size, continues where the last one ended.
LEMMA ChunkKeeps ==
  ASSUME LocalInv, L!ReadChunk
  PROVE  LocalInv'
<1> DEFINE from == mLastPos + Len(str)
           end == L!Min({from + ChunkSize, Len(data)})
<1>0. LocalTypes
  BY DEF LocalInv
<1>1. PICK n \in Nat : n = Len(data)
  BY <1>0, LenProperties DEF LocalTypes
<1>2. PICK m \in Nat : m = Len(str)
  BY <1>0, LenProperties DEF LocalTypes
<1>3. /\ UNCHANGED <<data, written, clears, exists, mLastPos, start, received,
                     skipped, pc, size, orphan>>
      /\ pc = "read" /\ ~orphan /\ from < n
      /\ str' = str \o SubSeq(data, from + 1, end)
  BY <1>1 DEF L!ReadChunk, L!MonitorOnly, L!fileVars, L!entryVars
<1>4. from \in Nat /\ from = mLastPos + m
  BY <1>0, <1>2 DEF LocalTypes
<1>5. end \in Nat /\ from <= end /\ end <= n
  <2>1. end = IF from + ChunkSize <= n THEN from + ChunkSize ELSE n
    BY <1>1, <1>4, LocalMin, LocalTailConstants DEF LocalTailConstants
  <2> HIDE DEF end
  <2>2. from + ChunkSize \in Nat /\ from <= from + ChunkSize
    BY <1>4, LocalTailConstants DEF LocalTailConstants
  <2>3. from < n
    BY <1>3
  <2> QED
    BY <1>4, <2>1, <2>2, <2>3
<1> HIDE DEF from, end
<1>6. PICK piece : piece = SubSeq(data, from + 1, end)
  OBVIOUS
<1>7. /\ piece \in Seq(Nat) /\ Len(piece) = end - from
      /\ \A k \in 1 .. end - from : piece[k] = data[from + k]
  <2>1. from + 1 \in Int /\ end \in Int
        /\ \A i \in from + 1 .. end : i \in 1 .. n
    BY <1>4, <1>5
  <2>2. \A i \in from + 1 .. end : data[i] \in Nat
    BY <1>0, <1>1, <2>1, ElementOfSeq DEF LocalTypes
  <2>3. /\ SubSeq(data, from + 1, end) \in Seq(Nat)
        /\ Len(SubSeq(data, from + 1, end)) =
             IF from + 1 <= end THEN end - (from + 1) + 1 ELSE 0
        /\ \A k \in 1 .. end - (from + 1) + 1 :
             SubSeq(data, from + 1, end)[k] = data[from + 1 + k - 1]
    BY <2>1, <2>2, SubSeqProperties
  <2>4. end - (from + 1) + 1 = end - from
    BY <1>4, <1>5
  <2>5. \A k \in 1 .. end - from : from + 1 + k - 1 = from + k
    BY <1>4, <1>5
  <2>6. Len(piece) = end - from
    BY <1>4, <1>5, <1>6, <2>3
  <2> QED
    BY <1>6, <2>3, <2>4, <2>5, <2>6
<1>8. /\ str' \in Seq(Nat) /\ Len(str') = m + (end - from)
      /\ \A k \in 1 .. m : str'[k] = str[k]
      /\ \A k \in m + 1 .. m + (end - from) : str'[k] = piece[k - m]
  <2>1. str \in Seq(Nat) /\ str' = str \o piece
    BY <1>0, <1>3, <1>6 DEF LocalTypes
  <2>2. end - from \in Nat
    BY <1>4, <1>5
  <2>3. /\ str \o piece \in Seq(Nat) /\ Len(str \o piece) = m + (end - from)
        /\ \A k \in 1 .. m + (end - from) :
             (str \o piece)[k] = IF k <= m THEN str[k] ELSE piece[k - m]
    <3>1. /\ str \o piece \in Seq(Nat) /\ Len(str \o piece) = Len(str) + Len(piece)
          /\ \A k \in 1 .. Len(str) + Len(piece) :
               (str \o piece)[k] = IF k <= Len(str) THEN str[k] ELSE piece[k - Len(str)]
      BY <1>7, <2>1, ConcatProperties
    <3> QED
      BY <1>2, <1>7, <3>1
  <2>4. \A k \in 1 .. m : k \in 1 .. m + (end - from) /\ k <= m
    BY <2>2
  <2>5. \A k \in m + 1 .. m + (end - from) :
          k \in 1 .. m + (end - from) /\ ~(k <= m)
    BY <2>2
  <2> QED
    BY <2>1, <2>3, <2>4, <2>5
<1>9. LocalTypes'
  BY <1>0, <1>3, <1>8 DEF LocalTypes
<1>10. ASSUME clears = 0 PROVE ReadOn'
  <2>1. Grown /\ ReadOn
    BY <1>10 DEF LocalInv
  <2>2. m + (end - from) = end - mLastPos /\ mLastPos + (end - mLastPos) <= n
    BY <1>0, <1>4, <1>5 DEF LocalTypes
  <2>3. \A k \in 1 .. m : str'[k] = mLastPos + k
    BY <1>2, <1>3, <1>8, <2>1 DEF ReadOn
  <2>4. ASSUME NEW k \in m + 1 .. m + (end - from)
        PROVE  str'[k] = mLastPos + k
    <3>1. k - m \in 1 .. end - from /\ from + (k - m) = mLastPos + k
      BY <1>0, <1>4, <1>5 DEF LocalTypes
    <3>2. from + (k - m) \in 1 .. n
      BY <1>4, <1>5, <3>1
    <3>3. str'[k] = data[from + (k - m)]
      BY <1>7, <1>8, <3>1
    <3> QED
      BY <1>1, <2>1, <3>1, <3>2, <3>3 DEF Grown
  <2>5. \A k \in 1 .. m + (end - from) : k \in 1 .. m \/ k \in m + 1 .. m + (end - from)
    BY <1>4, <1>5
  <2>6. \A k \in 1 .. m + (end - from) : str'[k] = mLastPos + k
    BY <2>3, <2>4, <2>5
  <2> QED
    BY <1>0, <1>1, <1>3, <1>8, <2>1, <2>2, <2>6 DEF ReadOn, LocalTypes
<1> QED
  BY <1>3, <1>9, <1>10 DEF LocalInv, Grown, Positions, NoGap, L!NoGap

\* The text goes behind what was received, and mLastPos to the size.
LEMMA DoneKeeps == LocalInv /\ L!ReadDone => LocalInv'
<1> SUFFICES ASSUME LocalInv, L!ReadDone PROVE LocalInv'
  OBVIOUS
<1>0. LocalTypes
  BY DEF LocalInv
<1>1. PICK n \in Nat : n = Len(data)
  BY <1>0, LenProperties DEF LocalTypes
<1>2. PICK m \in Nat : m = Len(str)
  BY <1>0, LenProperties DEF LocalTypes
<1>3. PICK r \in Nat : r = Len(received)
  BY <1>0, LenProperties DEF LocalTypes
<1>4. /\ UNCHANGED <<data, written, clears, exists, start, size, str, orphan, skipped>>
      /\ received' = received \o str /\ mLastPos' = size /\ pc' = "sleep"
      /\ pc = "read" /\ ~orphan /\ mLastPos + m >= n
  BY <1>1, <1>2 DEF L!ReadDone, L!MonitorOnly, L!fileVars, L!localVars
<1>5. /\ received' \in Seq(Nat) /\ Len(received') = r + m
      /\ \A i \in 1 .. r + m :
           received'[i] = IF i <= r THEN received[i] ELSE str[i - r]
  <2>1. received \in Seq(Nat) /\ str \in Seq(Nat)
    BY <1>0 DEF LocalTypes
  <2> QED
    BY <1>2, <1>3, <1>4, <2>1, ConcatProperties
<1>6. LocalTypes'
  BY <1>0, <1>4, <1>5 DEF LocalTypes
<1>7. ASSUME clears = 0 PROVE Positions' /\ NoGap'
  <2>1. Positions /\ ReadOn /\ NoGap
    BY <1>7 DEF LocalInv
  <2>2. size <= n /\ \A k \in 1 .. m : str[k] = mLastPos + k
    BY <1>1, <1>2, <1>4, <2>1 DEF ReadOn
  <2>3. \A i \in r + 1 .. r + m : received'[i] = mLastPos + (i - r)
    <3>1. ASSUME NEW i \in r + 1 .. r + m PROVE received'[i] = mLastPos + (i - r)
      <4>1. i \in 1 .. r + m /\ ~(i <= r) /\ i - r \in 1 .. m
        OBVIOUS
      <4> QED
        BY <1>5, <2>2, <4>1
    <3> QED
      BY <3>1
  <2>4. \A i \in 1 .. r : received'[i] = received[i] /\ received[i] \in Nat
    <3>1. \A i \in 1 .. r : i \in 1 .. r + m /\ i <= r
      OBVIOUS
    <3>2. \A i \in 1 .. r : received[i] \in Nat
      BY <1>0, <1>3, ElementOfSeq DEF LocalTypes
    <3> QED
      BY <1>5, <3>1, <3>2
  <2>5. received = <<>> <=> r = 0
    BY <1>0, <1>3, EmptySeq DEF LocalTypes
  <2>6. received' = <<>> <=> r + m = 0
    BY <1>5, EmptySeq
  \* Between what was received before and mLastPos all was skipped.
  <2>7. PICK last \in Nat : /\ last = IF r = 0 THEN start ELSE received[r]
                           /\ last + 1 .. mLastPos \subseteq skipped
    <3>1. r > 0 => r \in 1 .. r
      OBVIOUS
    <3>2. PICK e : e = IF r = 0 THEN start ELSE received[r]
      OBVIOUS
    <3>3. e \in Nat
      BY <1>0, <2>4, <3>1, <3>2 DEF LocalTypes
    <3>4. e + 1 .. mLastPos \subseteq skipped
      BY <1>3, <2>1, <2>5, <3>2 DEF Positions
    <3> QED
      BY <3>2, <3>3, <3>4
  <2>8. Positions'
    <3>1. CASE m = 0
      <4>1. size <= mLastPos
        BY <1>0, <1>1, <1>4, <2>2, <3>1 DEF LocalTypes
      <4>2. last + 1 .. size \subseteq last + 1 .. mLastPos
        BY <1>0, <4>1 DEF LocalTypes
      <4>3. r > 0 => r \in 1 .. r
        OBVIOUS
      <4>4. last = IF r + m = 0 THEN start ELSE received'[r + m]
        BY <2>4, <2>7, <3>1, <4>3
      <4> QED
        BY <1>1, <1>4, <1>5, <2>2, <2>6, <2>7, <4>2, <4>4 DEF Positions
    <3>2. CASE m > 0
      <4>1. r + m \in r + 1 .. r + m /\ r + m # 0
        BY <3>2
      <4>2. received'[r + m] = mLastPos + ((r + m) - r)
        BY <2>3, <4>1
      <4>3. received'[r + m] + 1 .. size = {}
        BY <1>0, <1>1, <1>4, <2>2, <4>2 DEF LocalTypes
      <4> QED
        BY <1>1, <1>4, <1>5, <2>2, <2>6, <4>1, <4>3 DEF Positions
    <3> QED
      BY <3>1, <3>2
  <2>9. ASSUME NEW i \in 1 .. r + m
        PROVE  (IF i = 1 THEN start ELSE received'[i - 1]) + 1 .. received'[i] - 1
                 \subseteq skipped
    <3>1. CASE i <= r
      <4>1. i \in 1 .. r /\ (i # 1 => i - 1 \in 1 .. r)
        BY <3>1
      <4>2. (IF i = 1 THEN start ELSE received[i - 1]) + 1 .. received[i] - 1
              \subseteq skipped
        BY <1>3, <1>7, <2>1, <4>1 DEF NoGap, L!NoGap
      <4> QED
        BY <2>4, <4>1, <4>2
    <3>2. CASE i = r + 1
      <4>1. i \in r + 1 .. r + m
        BY <3>2
      <4>2. received'[i] = mLastPos + 1
        BY <2>3, <3>2, <4>1
      <4>3. received'[i] - 1 = mLastPos
        BY <1>0, <4>2 DEF LocalTypes
      <4>4. r > 0 => r \in 1 .. r /\ i - 1 = r /\ i # 1
        BY <3>2
      <4>5. last = IF i = 1 THEN start ELSE received'[i - 1]
        BY <2>4, <2>7, <3>2, <4>4
      <4> QED
        BY <2>7, <4>3, <4>5
    <3>3. CASE i > r + 1
      <4>1. i \in r + 1 .. r + m /\ i - 1 \in r + 1 .. r + m /\ i # 1
        BY <3>3
      <4>2. received'[i] = mLastPos + (i - r) /\ received'[i - 1] = mLastPos + ((i - 1) - r)
        BY <2>3, <4>1
      <4>3. received'[i - 1] + 1 .. received'[i] - 1 = {}
        BY <1>0, <4>1, <4>2 DEF LocalTypes
      <4> QED
        BY <4>1, <4>3
    <3> QED
      BY <3>1, <3>2, <3>3
  <2>10. NoGap'
    BY <1>4, <1>5, <2>9 DEF NoGap, L!NoGap
  <2> QED
    BY <2>8, <2>10
<1> QED
  BY <1>4, <1>6, <1>7 DEF LocalInv, Grown, ReadOn

\* What could not be opened counts as skipped.
LEMMA FailsKeeps == LocalInv /\ L!ReadFails => LocalInv'
<1> SUFFICES ASSUME LocalInv, L!ReadFails PROVE LocalInv'
  OBVIOUS
<1>1. /\ UNCHANGED <<data, written, clears, exists, start, size, str, orphan, received>>
      /\ mLastPos' = size /\ skipped' = skipped \cup (mLastPos + 1 .. size)
      /\ pc = "read" /\ ~orphan /\ pc' = "sleep"
  BY DEF L!ReadFails, L!MonitorOnly, L!fileVars, L!localVars
<1>2. LocalTypes /\ LocalTypes'
  BY <1>1 DEF LocalInv, LocalTypes
<1>3. ASSUME clears = 0 PROVE Positions' /\ NoGap'
  <2>1. Positions /\ ReadOn /\ NoGap
    BY <1>3 DEF LocalInv
  <2>2. PICK last : last = IF received = <<>> THEN start ELSE received[Len(received)]
    OBVIOUS
  <2>3. last \in Nat
    <3>1. PICK r \in Nat : r = Len(received)
      BY <1>2, LenProperties DEF LocalTypes
    <3>2. received # <<>> => r \in 1 .. r
      BY <1>2, <3>1, EmptySeq DEF LocalTypes
    <3>3. received # <<>> => received[r] \in Nat
      BY <1>2, <3>1, <3>2, ElementOfSeq DEF LocalTypes
    <3> QED
      BY <1>2, <2>2, <3>1, <3>3 DEF LocalTypes
  <2>4. last + 1 .. mLastPos \subseteq skipped /\ size <= Len(data)
    BY <1>1, <2>1, <2>2 DEF Positions, ReadOn
  <2>5. last + 1 .. size \subseteq skipped'
    BY <1>1, <1>2, <2>3, <2>4 DEF LocalTypes
  <2>6. Positions'
    BY <1>1, <2>2, <2>4, <2>5 DEF Positions
  <2>7. NoGap'
    BY <1>1, <2>1 DEF NoGap, L!NoGap
  <2> QED
    BY <2>6, <2>7
<1> QED
  BY <1>1, <1>2, <1>3 DEF LocalInv, Grown, ReadOn

LEMMA LocalKept == ASSUME LocalInv, [L!Next]_(L!vars) PROVE LocalInv'
<1>1. CASE L!Truncate
  <2>1. clears' # 0 /\ data' = <<>>
    BY <1>1 DEF L!Truncate, LocalInv, LocalTypes
  <2> QED
    BY <1>1, <2>1, EmptySeq
    DEF L!Truncate, L!WriterOnly, L!localVars, L!entryVars, LocalInv, LocalTypes
<1>2. CASE L!ReadOrphan
  BY <1>2 DEF L!ReadOrphan, L!MonitorOnly, L!fileVars, L!entryVars, L!localVars, LocalInv,
     LocalTypes, Grown, Positions, ReadOn, NoGap, L!NoGap
<1>3. ASSUME NEW set \in {"active", "passive"}, L!CheckFileChanged(set)
      PROVE  LocalInv'
  <2>1. /\ UNCHANGED <<L!fileVars, L!entryVars, size, str>>
        /\ pc' \in {"stat", "sleep"} /\ orphan' = FALSE
    BY <1>3 DEF L!CheckFileChanged, L!Locked, LocalInv, LocalTypes
  <2> QED
    BY <2>1 DEF L!fileVars, L!entryVars, LocalInv, LocalTypes, Grown, Positions, ReadOn, NoGap, L!NoGap
<1>4. CASE L!FileNotifyFails
  <2>1. /\ UNCHANGED <<data, written, clears, exists, mLastPos, start, received, skipped,
                       size, str>>
        /\ pc' = "sleep" /\ orphan' = FALSE
    BY <1>4 DEF L!FileNotifyFails, L!MonitorOnly, L!fileVars
  <2> QED
    BY <2>1 DEF LocalInv, LocalTypes, Grown, Positions, ReadOn, NoGap, L!NoGap
<1>5. CASE /\ UNCHANGED <<data, written, clears, L!entryVars, pc, L!localVars>>
           /\ exists' \in BOOLEAN
  BY <1>5 DEF L!entryVars, L!localVars, LocalInv, LocalTypes, Grown, Positions, ReadOn, NoGap, L!NoGap
<1> QED
  BY <1>1, <1>2, <1>3, <1>4, <1>5, AppendKeeps, EnumKeeps, StatKeeps, ChunkKeeps,
     DoneKeeps, FailsKeeps
  DEF L!Next, L!Writer, L!Create, L!Add, L!LogEnumHandler, L!PostRequest, L!PushBack,
      L!UnRegister, L!OnCreated, L!Reading, L!WriterOnly, L!UiOnly, L!fileVars, L!entryVars,
      L!localVars, L!vars, LocalInv, LocalTypes

(***************************************************************************)
(* NoByteIsSkipped: whatever is added, removed, checked and written at the *)
(* same time and whichever open of the file fails, what CLocalMonitor reads*)
(* of a file that is not truncated continues what it read before: bytes may*)
(* come twice, and one is missed only if GetFileContent could not open the *)
(* file (LocalMonitor.cpp:332) when the position was moved over it.        *)
(***************************************************************************)
THEOREM NoByteIsSkipped == L!Spec => []NoGap
<1>1. LocalInv /\ [L!Next]_(L!vars) => LocalInv'
  BY LocalKept
<1>2. LocalInv => NoGap
  BY DEF LocalInv, NoGap, L!NoGap
<1> QED
  BY LocalInit, <1>1, <1>2, PTL DEF L!Spec

-----------------------------------------------------------------------------
(* LocalTail: types.                                                       *)

\* The file holds at most the bytes that were written, and only writing and
\* truncating moves its time.
FileBounds ==
  /\ exists \in BOOLEAN /\ data \in Seq(L!Byte) /\ Len(data) <= written
  /\ written \in 0 .. MaxBytes /\ clears \in 0 .. MaxClears
  /\ wtime \in Nat /\ 1 <= wtime /\ wtime <= 1 + written + clears

UserBounds ==
  /\ ui \in {"idle", "enumerated", "loaded", "requested"} /\ adds \in 0 .. MaxAdds
  /\ posted \in BOOLEAN /\ created \in BOOLEAN /\ mIoSet \in BOOLEAN
  /\ orphan \in BOOLEAN /\ unseen \in BOOLEAN

\* Only so many opens fail.
FailBounds == fails \in 0 .. MaxFails

InfoBounds ==
  /\ fileSet \in {"none", "active", "passive"} /\ mNewFile \in BOOLEAN
  /\ mLastSize \in 0 .. L!NoSize /\ mLastWriteTime \in 0 .. wtime

\* A file is read after it was entered in mLogCache.
EntryBounds ==
  /\ cached \in BOOLEAN /\ pc \in {"sleep", "stat", "read"} /\ (pc = "read" => cached)
  /\ mLastPos \in 0 .. MaxBytes /\ size \in 0 .. MaxBytes /\ start \in 0 .. MaxBytes
  /\ str \in Seq(L!Byte) /\ received \in Seq(L!Byte)
  /\ skipped \subseteq L!Byte
  /\ ~cached => mLastPos = 0 /\ received = <<>>

LocalBounds == FileBounds /\ UserBounds /\ FailBounds /\ InfoBounds /\ EntryBounds

LEMMA LocalTypeCorrect == LocalBounds => L!TypeOK
<1> SUFFICES ASSUME LocalBounds PROVE L!TypeOK
  OBVIOUS
<1>1. PICK n \in Nat : n = Len(data)
  BY LenProperties DEF LocalBounds, FileBounds
<1>2. n <= MaxBytes /\ wtime \in 1 .. 1 + MaxBytes + MaxClears
  BY <1>1, LocalTailConstants DEF LocalTailConstants, LocalBounds, FileBounds
<1> QED
  BY <1>1, <1>2
  DEF LocalBounds, FileBounds, UserBounds, FailBounds, InfoBounds, EntryBounds, L!TypeOK

LEMMA LocalBoundsInit == L!Init => LocalBounds
<1> SUFFICES ASSUME L!Init PROVE LocalBounds
  OBVIOUS
<1> USE LocalTailConstants DEF LocalTailConstants
<1>1. <<>> \in Seq(L!Byte) /\ Len(<<>>) = 0
  BY EmptySeq
<1>2. FileBounds
  BY <1>1 DEF L!Init, FileBounds
<1>3. UserBounds
  <2>1. ui = "idle" /\ adds \in 0 .. MaxAdds
    BY DEF L!Init
  <2>2. /\ posted \in BOOLEAN /\ created \in BOOLEAN /\ mIoSet \in BOOLEAN
        /\ orphan \in BOOLEAN /\ unseen \in BOOLEAN
    BY Zenon DEF L!Init
  <2> QED
    BY <2>1, <2>2 DEF UserBounds
<1>4. InfoBounds
  <2>1. fileSet = "none" /\ mLastSize \in 0 .. L!NoSize /\ mLastWriteTime \in 0 .. wtime
    BY DEF L!Init, L!NoSize
  <2>2. mNewFile \in BOOLEAN
    BY Zenon DEF L!Init
  <2> QED
    BY <2>1, <2>2 DEF InfoBounds
<1>5. EntryBounds
  <2>1. /\ pc = "sleep" /\ mLastPos = 0 /\ mLastPos \in 0 .. MaxBytes
        /\ size \in 0 .. MaxBytes /\ start \in 0 .. MaxBytes
    BY DEF L!Init
  <2>2. cached \in BOOLEAN /\ str = <<>> /\ received = <<>> /\ skipped = {}
    BY Zenon DEF L!Init
  <2> QED
    BY <1>1, <2>1, <2>2 DEF EntryBounds
<1>6. FailBounds
  BY DEF L!Init, FailBounds
<1> QED
  BY <1>2, <1>3, <1>4, <1>5, <1>6 DEF LocalBounds

LEMMA FileBounded == ASSUME LocalBounds, [L!Next]_(L!vars) PROVE FileBounds'
<1>0. PICK n \in Nat : n = Len(data)
  BY LenProperties DEF LocalBounds, FileBounds
<1> USE LocalTailConstants DEF LocalTailConstants
<1>1. CASE L!Create
  BY <1>1 DEF L!Create, LocalBounds, FileBounds
<1>2. CASE L!AppendByte
  <2>1. written + 1 \in L!Byte
    BY <1>2 DEF L!AppendByte, L!Byte, LocalBounds, FileBounds
  <2>2. Append(data, written + 1) \in Seq(L!Byte) /\ Len(Append(data, written + 1)) = n + 1
    BY <1>0, <2>1, AppendProperties DEF LocalBounds, FileBounds
  <2> QED
    BY <1>0, <1>2, <2>2 DEF L!AppendByte, LocalBounds, FileBounds
<1>3. CASE L!Truncate
  <2>1. <<>> \in Seq(L!Byte) /\ Len(<<>>) = 0
    BY EmptySeq
  <2> QED
    BY <1>0, <1>3, <2>1 DEF L!Truncate, LocalBounds, FileBounds
<1>4. CASE UNCHANGED L!fileVars
  BY <1>4 DEF L!fileVars, LocalBounds, FileBounds
<1>5. L!Next => L!Writer \/ UNCHANGED L!fileVars
  BY DEF L!Next, L!FileEnumProc, L!Add, L!LogEnumHandler, L!PostRequest, L!PushBack, L!UiOnly,
     L!UnRegister, L!OnCreated, L!CheckFileChanged, L!Reading, L!FileNotify,
     L!FileNotifyFails, L!ReadChunk, L!ReadDone, L!ReadFails, L!ReadOrphan, L!MonitorOnly
<1> QED
  BY <1>1, <1>2, <1>3, <1>4, <1>5 DEF L!Writer, L!vars

LEMMA UserBounded == ASSUME LocalBounds, [L!Next]_(L!vars) PROVE UserBounds'
<1> USE LocalTailConstants DEF LocalTailConstants, LocalBounds, UserBounds
<1>1. CASE L!Writer
  <2>1. unseen' \in BOOLEAN
    BY <1>1 DEF L!Writer, L!Create, L!AppendByte, L!Truncate
  <2> QED
    BY <1>1, <2>1
    DEF L!Writer, L!Create, L!AppendByte, L!Truncate, L!WriterOnly, L!uiVars, L!localVars
<1>2. CASE L!FileEnumProc
  <2>1. exists \in BOOLEAN /\ L!Locked \in BOOLEAN
    BY DEF FileBounds, L!Locked
  <2>2. unseen' \in BOOLEAN
    BY <1>2 DEF L!FileEnumProc
  <2>3. ui' \in {"idle", "enumerated"} /\ adds' \in 0 .. MaxAdds
    BY <1>2 DEF L!FileEnumProc
  <2> QED
    BY <1>2, <2>1, <2>2, <2>3 DEF L!FileEnumProc, L!UiOnly
<1>3. CASE L!LogEnumHandler
  <2>1. unseen' \in BOOLEAN
    BY <1>3 DEF L!LogEnumHandler
  <2> QED
    BY <1>3, <2>1 DEF L!LogEnumHandler, L!UiOnly
<1>4. CASE L!PostRequest
  BY <1>4 DEF L!PostRequest, L!UiOnly
<1>5. CASE L!PushBack
  BY <1>5 DEF L!PushBack, L!UiOnly
<1>6. CASE L!UnRegister
  BY <1>6 DEF L!UnRegister, L!uiVars, L!localVars
<1>7. CASE L!OnCreated
  BY <1>7 DEF L!OnCreated, L!uiVars, L!localVars
<1>8. ASSUME NEW set \in {"active", "passive"}, L!CheckFileChanged(set)
      PROVE  UserBounds'
  <2>1. unseen' \in BOOLEAN
    BY <1>8 DEF L!CheckFileChanged
  <2> QED
    BY <1>8, <2>1 DEF L!CheckFileChanged, L!uiVars
<1>9. CASE L!Reading
  <2>1. unseen' \in BOOLEAN
    BY <1>9 DEF L!Reading, L!FileNotify, L!FileNotifyFails, L!ReadChunk, L!ReadDone,
       L!ReadFails, L!ReadOrphan
  <2> QED
    BY <1>9, <2>1
    DEF L!Reading, L!FileNotify, L!FileNotifyFails, L!ReadChunk, L!ReadDone, L!ReadFails,
        L!ReadOrphan, L!MonitorOnly, L!uiVars, L!localVars
<1>10. CASE UNCHANGED L!vars
  BY <1>10 DEF L!vars, L!uiVars, L!localVars
<1> QED
  BY <1>1, <1>2, <1>3, <1>4, <1>5, <1>6, <1>7, <1>8, <1>9, <1>10 DEF L!Next, L!Add

LEMMA FailBounded == ASSUME LocalBounds, [L!Next]_(L!vars) PROVE FailBounds'
<1>1. fails \in 0 .. MaxFails /\ MaxFails \in Nat
  BY LocalTailConstants DEF LocalTailConstants, LocalBounds, FailBounds
<1>2. ASSUME NEW ok \in BOOLEAN, L!OpensFile(ok) PROVE FailBounds'
  BY <1>1, <1>2 DEF L!OpensFile, FailBounds
<1>3. CASE UNCHANGED fails
  BY <1>1, <1>3 DEF FailBounds
<1>4. ASSUME NEW new, L!OnFileNotify(new) PROVE FailBounds'
  BY <1>2, <1>3, <1>4 DEF L!OnFileNotify
<1>5. CASE L!FileEnumProc
  BY <1>2, <1>3, <1>5 DEF L!FileEnumProc
<1>6. CASE L!LogEnumHandler \/ L!OnCreated
  BY <1>3, <1>4, <1>6 DEF L!LogEnumHandler, L!OnCreated
<1>7. ASSUME NEW set \in {"active", "passive"}, L!CheckFileChanged(set)
      PROVE  FailBounds'
  BY <1>2, <1>7 DEF L!CheckFileChanged
<1>8. CASE L!FileNotifyFails \/ L!ReadFails
  BY <1>2, <1>8 DEF L!FileNotifyFails, L!ReadFails
<1>9. CASE L!Writer \/ L!PostRequest \/ L!PushBack \/ L!UnRegister
  BY <1>3, <1>9 DEF L!Writer, L!Create, L!AppendByte, L!Truncate, L!WriterOnly,
     L!PostRequest, L!PushBack, L!UnRegister
<1>10. CASE L!FileNotify \/ L!ReadChunk \/ L!ReadDone \/ L!ReadOrphan \/ UNCHANGED L!vars
  BY <1>3, <1>10 DEF L!FileNotify, L!ReadChunk, L!ReadDone, L!ReadOrphan, L!vars
<1> QED
  BY <1>5, <1>6, <1>7, <1>8, <1>9, <1>10 DEF L!Next, L!Add, L!Reading

\* A file is entered with the size it has, or with none.
LEMMA InfoBounded == ASSUME LocalBounds, [L!Next]_(L!vars) PROVE InfoBounds'
<1>0. PICK n \in 0 .. MaxBytes : n = Len(data)
  <2>1. Len(data) \in Nat
    BY LenProperties DEF LocalBounds, FileBounds
  <2> QED
    BY <2>1, LocalTailConstants DEF LocalBounds, FileBounds, LocalTailConstants
<1>1. InfoBounds /\ wtime \in Nat
  BY DEF LocalBounds, FileBounds
<1>11. n \in 0 .. L!NoSize /\ L!NoSize \in 0 .. L!NoSize
  BY <1>0, LocalTailConstants DEF LocalTailConstants, L!NoSize
<1>2. CASE L!Writer
  <2>1. UNCHANGED L!infoVars /\ wtime' \in {wtime, wtime + 1}
    BY <1>2 DEF L!Writer, L!Create, L!AppendByte, L!Truncate, L!WriterOnly
  <2> QED
    BY <1>1, <2>1 DEF L!infoVars, InfoBounds
<1>3. CASE UNCHANGED <<L!infoVars, wtime>>
  BY <1>1, <1>3 DEF L!infoVars, InfoBounds
<1>4. ASSUME NEW new \in BOOLEAN, L!OnFileNotify(new), wtime' = wtime PROVE InfoBounds'
  <2>1. CASE UNCHANGED L!infoVars
    BY <1>3, <1>4, <2>1
  <2>2. CASE ~(UNCHANGED L!infoVars)
    <3>1. /\ fileSet' \in {"active", "passive"} /\ mLastSize' \in {n, L!NoSize}
          /\ mLastWriteTime' \in {0, wtime}
      BY <1>0, <1>4, <2>2 DEF L!OnFileNotify
    <3>2. mNewFile' \in BOOLEAN
      BY <1>4, <2>2 DEF L!OnFileNotify
    <3> QED
      BY <1>1, <1>4, <1>11, <3>1, <3>2 DEF InfoBounds
  <2> QED
    BY <2>1, <2>2
<1>5. CASE L!LogEnumHandler \/ L!OnCreated
  BY <1>3, <1>4, <1>5 DEF L!LogEnumHandler, L!OnCreated, L!UiOnly, L!fileVars
<1>6. ASSUME NEW set \in {"active", "passive"}, L!CheckFileChanged(set)
      PROVE  InfoBounds'
  <2>1. wtime' = wtime /\ fileSet' \in {"active", "passive"}
    BY <1>6 DEF L!CheckFileChanged, L!fileVars
  <2>2. /\ mNewFile' \in BOOLEAN /\ mLastSize' \in {mLastSize, n, L!NoSize}
        /\ mLastWriteTime' \in {mLastWriteTime, wtime, 0}
    <3>1. ASSUME NEW time \in {wtime, 0}, NEW length \in {n, L!NoSize},
                 \/ L!Noted(time, length)
                 \/ UNCHANGED <<mNewFile, mLastWriteTime, mLastSize>>
          PROVE  /\ mNewFile' \in BOOLEAN /\ mLastSize' \in {mLastSize, n, L!NoSize}
                 /\ mLastWriteTime' \in {mLastWriteTime, wtime, 0}
      BY <1>1, <3>1 DEF L!Noted, InfoBounds
    <3> QED
      BY <1>0, <1>6, <3>1 DEF L!CheckFileChanged
  <2> QED
    BY <1>1, <1>11, <2>1, <2>2 DEF InfoBounds
<1>7. CASE L!FileEnumProc \/ L!PostRequest \/ L!PushBack
  BY <1>3, <1>7 DEF L!FileEnumProc, L!PostRequest, L!PushBack, L!UiOnly, L!fileVars
<1>8. CASE L!UnRegister
  BY <1>3, <1>8 DEF L!UnRegister, L!fileVars
<1>9. CASE L!Reading
  BY <1>3, <1>9 DEF L!Reading, L!FileNotify, L!FileNotifyFails, L!ReadChunk, L!ReadDone,
     L!ReadFails, L!ReadOrphan, L!MonitorOnly, L!fileVars
<1>10. CASE UNCHANGED L!vars
  BY <1>3, <1>10 DEF L!vars, L!fileVars
<1> QED
  BY <1>2, <1>5, <1>6, <1>7, <1>8, <1>9, <1>10 DEF L!Next, L!Add

\* What is read is a part of the file.
LEMMA ChunkTyped ==
  ASSUME LocalBounds, L!ReadChunk
  PROVE  str' \in Seq(L!Byte)
<1>0. PICK n \in Nat : n = Len(data)
  BY LenProperties DEF LocalBounds, FileBounds
<1>1. mLastPos \in Nat /\ str \in Seq(L!Byte) /\ data \in Seq(L!Byte) /\ ChunkSize \in Nat
  BY LocalTailConstants DEF LocalTailConstants, LocalBounds, FileBounds, EntryBounds
<1>2. PICK from \in Nat : from = mLastPos + Len(str)
  BY <1>1, LenProperties
<1>3. PICK e : e = L!Min({from + ChunkSize, n})
  OBVIOUS
<1>4. e \in Nat /\ e <= n
  <2>1. from + ChunkSize \in Nat
    BY <1>1, <1>2
  <2>2. e = IF from + ChunkSize <= n THEN from + ChunkSize ELSE n
    BY <1>0, <1>3, <2>1, LocalMin
  <2> QED
    BY <1>0, <2>1, <2>2
<1>5. SubSeq(data, from + 1, e) \in Seq(L!Byte)
  <2>1. \A i \in (from + 1) .. e : i \in 1 .. n
    BY <1>4
  <2>2. \A i \in (from + 1) .. e : data[i] \in L!Byte
    BY <1>0, <1>1, <2>1, ElementOfSeq
  <2>3. from + 1 \in Int /\ e \in Int
    BY <1>2, <1>4
  <2> QED
    BY <2>2, <2>3, SubSeqProperties
<1>6. str' = str \o SubSeq(data, from + 1, e)
  BY <1>0, <1>2, <1>3 DEF L!ReadChunk
<1> QED
  BY <1>1, <1>5, <1>6, ConcatProperties

LEMMA EntryBounded == ASSUME LocalBounds, [L!Next]_(L!vars) PROVE EntryBounds'
<1>0. PICK n \in 0 .. MaxBytes : n = Len(data)
  <2>1. Len(data) \in Nat
    BY LenProperties DEF LocalBounds, FileBounds
  <2> QED
    BY <2>1, LocalTailConstants DEF LocalBounds, FileBounds, LocalTailConstants
<1>1. EntryBounds /\ exists \in BOOLEAN /\ <<>> \in Seq(L!Byte)
  BY EmptySeq DEF LocalBounds, FileBounds
<1>2. CASE UNCHANGED <<L!entryVars, pc, size, str>>
  BY <1>1, <1>2 DEF L!entryVars, EntryBounds
<1>3. CASE L!Writer
  BY <1>2, <1>3 DEF L!Writer, L!Create, L!AppendByte, L!Truncate, L!WriterOnly, L!localVars
<1>4. CASE L!FileEnumProc
  <2>1. UNCHANGED <<pc, size, str>> /\ cached' = IF exists THEN TRUE ELSE cached
    BY <1>4 DEF L!FileEnumProc, L!UiOnly, L!entryVars
  <2>2. CASE exists
    <3>1. mLastPos' \in {0, n} /\ start' = mLastPos' /\ received' = <<>> /\ skipped' = {}
      BY <1>0, <1>4, <2>2 DEF L!FileEnumProc
    <3>2. mLastPos' \in 0 .. MaxBytes /\ start' \in 0 .. MaxBytes
      <4>1. 0 \in 0 .. MaxBytes
        BY LocalTailConstants DEF LocalTailConstants
      <4> QED
        BY <1>0, <3>1, <4>1
    <3> QED
      BY <1>1, <2>1, <2>2, <3>1, <3>2 DEF EntryBounds
  <2>3. CASE ~exists
    <3>1. UNCHANGED <<mLastPos, start, received, skipped>>
      BY <1>4, <2>3 DEF L!FileEnumProc, L!entryVars
    <3> QED
      BY <1>1, <2>1, <2>3, <3>1 DEF EntryBounds
  <2> QED
    BY <1>1, <2>2, <2>3
<1>5. CASE L!LogEnumHandler \/ L!PostRequest \/ L!PushBack
  BY <1>2, <1>5 DEF L!LogEnumHandler, L!PostRequest, L!PushBack, L!UiOnly
<1>6. CASE L!UnRegister \/ L!OnCreated
  BY <1>2, <1>6 DEF L!UnRegister, L!OnCreated, L!localVars
<1>7. ASSUME NEW set \in {"active", "passive"}, L!CheckFileChanged(set)
      PROVE  EntryBounds'
  <2>1. UNCHANGED <<L!entryVars, size, str>> /\ pc' \in {"stat", "sleep"}
    BY <1>7 DEF L!CheckFileChanged, L!Locked
  <2> QED
    BY <1>1, <2>1 DEF L!entryVars, EntryBounds
<1>8. CASE L!FileNotify
  <2>1. /\ cached' = TRUE /\ size' = n /\ str' = <<>> /\ pc' \in {"read", "sleep"}
        /\ UNCHANGED <<mLastPos, start, received, skipped>>
    BY <1>0, <1>8 DEF L!FileNotify
  <2> QED
    BY <1>0, <1>1, <2>1 DEF EntryBounds
<1>9. CASE L!ReadChunk
  <2>1. UNCHANGED <<L!entryVars, pc, size>> /\ str' \in Seq(L!Byte)
    BY <1>9, ChunkTyped DEF L!ReadChunk
  <2> QED
    BY <1>1, <2>1 DEF L!entryVars, EntryBounds
<1>10. CASE L!ReadDone
  <2>1. /\ received' = received \o str /\ mLastPos' = size /\ pc' = "sleep"
        /\ cached /\ UNCHANGED <<cached, start, skipped, size, str>>
    BY <1>1, <1>10 DEF L!ReadDone, L!localVars, EntryBounds
  <2>2. received \o str \in Seq(L!Byte)
    BY <1>1, ConcatProperties DEF EntryBounds
  <2> QED
    BY <1>1, <2>1, <2>2 DEF EntryBounds
<1>11. CASE L!ReadOrphan
  BY <1>1, <1>11 DEF L!ReadOrphan, L!entryVars, L!localVars, EntryBounds
<1>12. CASE UNCHANGED L!vars
  BY <1>2, <1>12 DEF L!vars, L!localVars
<1>13. CASE L!FileNotifyFails
  <2>1. /\ cached' = TRUE /\ pc' = "sleep"
        /\ UNCHANGED <<mLastPos, start, received, skipped, size, str>>
    BY <1>13 DEF L!FileNotifyFails
  <2> QED
    BY <1>1, <2>1 DEF EntryBounds
<1>14. CASE L!ReadFails
  <2>1. /\ skipped' = skipped \cup (mLastPos + 1 .. size) /\ mLastPos' = size
        /\ pc' = "sleep" /\ cached /\ UNCHANGED <<cached, start, received, size, str>>
    BY <1>1, <1>14 DEF L!ReadFails, L!localVars, EntryBounds
  <2>2. mLastPos + 1 .. size \subseteq L!Byte
    BY <1>1, LocalTailConstants DEF LocalTailConstants, EntryBounds, L!Byte
  <2> QED
    BY <1>1, <2>1, <2>2 DEF EntryBounds
<1> QED
  BY <1>3, <1>4, <1>5, <1>6, <1>7, <1>8, <1>9, <1>10, <1>11, <1>12, <1>13, <1>14
  DEF L!Next, L!Add, L!Reading

LEMMA LocalBoundsKept == LocalBounds /\ [L!Next]_(L!vars) => LocalBounds'
  BY FileBounded, UserBounded, FailBounded, InfoBounded, EntryBounded DEF LocalBounds

-----------------------------------------------------------------------------
(* Both programs.                                                          *)

(***************************************************************************)
(* EachAlone: what TLC runs is each of the two programs, alone: a behaviour*)
(* of MCSpec is one of FileNotify and one of LocalTail.                    *)
(***************************************************************************)
THEOREM EachAlone ==
  MCSpec => /\ Init /\ [][Next]_vars
            /\ L!Init /\ [][L!Next]_(L!vars)
<1>1. MCInit => Init /\ L!Init
  BY DEF MCInit
<1>2. [MCNext]_allVars => [Next]_vars
  BY DEF MCNext, Linux, Windows, allVars
<1>3. UNCHANGED viewVars => UNCHANGED L!vars
  BY DEF viewVars, L!vars, L!fileVars, L!uiVars, L!infoVars, L!entryVars, L!localVars
<1>4. [MCNext]_allVars => [L!Next]_(L!vars)
  BY <1>3 DEF MCNext, Linux, Windows, allVars
<1> QED
  BY <1>1, <1>2, <1>4, PTL DEF MCSpec

(***************************************************************************)
(* BothTypesCorrect: every variable of both programs has its type.         *)
(***************************************************************************)
THEOREM BothTypesCorrect == MCSpec => []BothTypeOK
<1>1. Init => IInv /\ NotifyInv
  BY InitInv, InitNotify
<1>2. (IInv /\ NotifyInv) /\ [Next]_vars => (IInv /\ NotifyInv)'
  BY NotifyInvKept
<1>3. (IInv /\ NotifyInv) /\ LocalBounds => BothTypeOK
  BY NotifyTyped, LocalTypeCorrect DEF BothTypeOK
<1> QED
  BY <1>1, <1>2, <1>3, LocalBoundsInit, LocalBoundsKept, EachAlone, PTL

=============================================================================
