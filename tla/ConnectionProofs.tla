-------------------------- MODULE ConnectionProofs --------------------------
(***************************************************************************)
(* Proofs about the two ends of a connection, for any number of viewers,   *)
(* lines, socket numbers and connections made again.  First what           *)
(* GetRecvResult of LogProtocol returns for a packet.  Of LogServ: who     *)
(* listens and what each listener is sent, to which that plays no part;    *)
(* what is left in mDataCache, and when that spins.  Of LogClient: what    *)
(* comes out of a stream whose connections may have ended inside a frame.  *)
(***************************************************************************)
EXTENDS MCConnection, SequenceFacts

-----------------------------------------------------------------------------
(* What GetRecvResult returns.  Its two functions call themselves with a   *)
(* later position, so they exist by induction from the last one down.      *)

\* A set that has every position whose later positions it has, has all.
LEMMA Descends ==
  ASSUME NEW n \in Nat, NEW A,
         \A k \in 1 .. n : (\A j \in k + 1 .. n : j \in A) => k \in A
  PROVE  1 .. n \subseteq A
<1> DEFINE D == {m \in Nat : \A k \in 1 .. n : n - k < m => k \in A}
<1>1. 0 \in D
  OBVIOUS
<1>2. ASSUME NEW m \in Nat, m \in D PROVE m + 1 \in D
  <2> SUFFICES ASSUME NEW k \in 1 .. n, n - k < m + 1 PROVE k \in A
    OBVIOUS
  <2>1. \A j \in k + 1 .. n : j \in 1 .. n /\ n - j < m
    OBVIOUS
  <2>2. \A j \in k + 1 .. n : j \in A
    BY <1>2, <2>1
  <2> QED
    BY <2>2
<1>3. Nat \subseteq D
  BY <1>1, <1>2, NatInduces
<1> SUFFICES ASSUME NEW k \in 1 .. n PROVE k \in A
  OBVIOUS
<1>4. n - k + 1 \in Nat /\ n - k < n - k + 1
  OBVIOUS
<1>5. n - k + 1 \in D
  BY <1>3, <1>4
<1> QED
  BY <1>4, <1>5

(***************************************************************************)
(* A recursive definition that jumps forward has a solution: from k it     *)
(* goes to next[k] with step[k], and where next[k] is 0 it ends with       *)
(* last[k].                                                                *)
(***************************************************************************)
Jumps(V, n, next, step, last) ==
  /\ n \in Nat /\ next \in [1 .. n -> Nat]
  /\ \A k \in 1 .. n : next[k] # 0 => next[k] \in k + 1 .. n
  /\ step \in [1 .. n -> [V -> V]] /\ last \in [1 .. n -> V]

JumpSolves(g, V, n, next, step, last) ==
  /\ g \in [1 .. n -> V]
  /\ \A k \in 1 .. n :
       g[k] = IF next[k] = 0 THEN last[k] ELSE step[k][g[next[k]]]

LEMMA JumpsExist ==
  ASSUME NEW V, NEW n, NEW next, NEW step, NEW last, Jumps(V, n, next, step, last)
  PROVE  \E g : JumpSolves(g, V, n, next, step, last)
<1>0. /\ n \in Nat /\ next \in [1 .. n -> Nat]
      /\ \A k \in 1 .. n : next[k] # 0 => next[k] \in k + 1 .. n
      /\ step \in [1 .. n -> [V -> V]] /\ last \in [1 .. n -> V]
  BY DEF Jumps
<1> DEFINE Solved(m) == \E g \in [n + 1 - m .. n -> V] :
             \A k \in n + 1 - m .. n :
               g[k] = IF next[k] = 0 THEN last[k] ELSE step[k][g[next[k]]]
           S == {m \in Nat : m <= n => Solved(m)}
<1>1. 0 \in S
  <2> DEFINE g == [k \in n + 1 - 0 .. n |-> 0]
  <2>1. n + 1 - 0 .. n = {}
    BY <1>0
  <2>2. g \in [n + 1 - 0 .. n -> V]
    BY <2>1
  <2>3. Solved(0)
    BY <2>1, <2>2
  <2> QED
    BY <2>3
<1>2. ASSUME NEW m \in Nat, m \in S PROVE m + 1 \in S
  <2> SUFFICES ASSUME m + 1 <= n PROVE Solved(m + 1)
    OBVIOUS
  <2>0. m <= n
    BY <1>0
  <2>1. PICK g \in [n + 1 - m .. n -> V] :
          \A k \in n + 1 - m .. n :
            g[k] = IF next[k] = 0 THEN last[k] ELSE step[k][g[next[k]]]
    BY <1>2, <2>0
  <2>2. PICK i \in Nat : i = n - m
    BY <1>0, <2>0
  <2>3. /\ n + 1 - (m + 1) = i /\ n + 1 - m = i + 1 /\ i \in 1 .. n
    BY <1>0, <2>2
  <2> DEFINE v == IF next[i] = 0 THEN last[i] ELSE step[i][g[next[i]]]
             h == [k \in i .. n |-> IF k = i THEN v ELSE g[k]]
  <2>4. v \in V
    <3>1. next[i] # 0 => g[next[i]] \in V
      BY <1>0, <2>1, <2>3
    <3>2. last[i] \in V /\ \A x \in V : step[i][x] \in V
      BY <1>0, <2>3
    <3> QED
      BY <3>1, <3>2
  <2>5. h \in [i .. n -> V]
    <3>1. \A k \in i .. n : k # i => k \in i + 1 .. n
      BY <1>0, <2>2
    <3>2. \A k \in i .. n : k # i => g[k] \in V
      BY <2>1, <2>3, <3>1
    <3> HIDE DEF v
    <3> QED
      BY <2>4, <3>2
  <2>6. ASSUME NEW k \in i .. n
        PROVE  h[k] = IF next[k] = 0 THEN last[k] ELSE step[k][h[next[k]]]
    <3>1. k \in 1 .. n /\ (next[k] # 0 => next[k] \in k + 1 .. n)
      BY <1>0, <2>3
    <3>2. next[k] # 0 => next[k] \in i .. n /\ next[k] # i
      BY <1>0, <2>3, <3>1
    <3>3. next[k] # 0 => h[next[k]] = g[next[k]]
      BY <3>2
    <3>4. CASE k = i
      BY <3>3, <3>4
    <3>5. CASE k # i
      <4>1. k \in i + 1 .. n /\ h[k] = g[k]
        BY <1>0, <2>3, <3>5
      <4>2. g[k] = IF next[k] = 0 THEN last[k] ELSE step[k][g[next[k]]]
        BY <2>1, <2>3, <4>1
      <4> QED
        BY <3>3, <4>1, <4>2
    <3> QED
      BY <3>4, <3>5
  <2> HIDE DEF h
  <2> QED
    BY <2>3, <2>5, <2>6
<1>3. n \in S
  BY <1>0, <1>1, <1>2, NatInduces
<1>4. Solved(n)
  BY <1>0, <1>3
<1>5. n + 1 - n = 1
  BY <1>0
<1> QED
  BY <1>4, <1>5 DEF JumpSolves

-----------------------------------------------------------------------------
(* GetRecvResult.                                                          *)

\* What it asks of a position of the packet.
Whole(p, pos) ==
  /\ Len(p) + 1 - pos >= HeaderSize /\ p[pos] = LogMagic
  /\ Len(p) + 1 - pos >= p[pos + 2]

Taken(p, pos) == Whole(p, pos) /\ p[pos + 2] # 0

Bad(p, pos) == Len(p) + 1 - pos >= HeaderSize /\ p[pos] # LogMagic

FrameAt(p, pos) ==
  [mCommand |-> p[pos + 1],
   mContent |-> SubSeq(p, pos + HeaderSize, pos + p[pos + 2] - 1)]

Frame(T) == [mCommand : T, mContent : Seq(T)]

\* b is where the frames from a position on end, f what they are.
Ends(b, p) ==
  /\ b \in [1 .. Len(p) + 1 -> 1 .. Len(p) + 1]
  /\ \A k \in 1 .. Len(p) + 1 : b[k] = IF Taken(p, k) THEN b[k + p[k + 2]] ELSE k

Framed(f, p, T) ==
  /\ f \in [1 .. Len(p) + 1 -> Seq(Frame(T))]
  /\ \A k \in 1 .. Len(p) + 1 :
       f[k] = IF Taken(p, k) THEN <<FrameAt(p, k)>> \o f[k + p[k + 2]] ELSE <<>>

Outcome(p, end, all) ==
  CASE Bad(p, end)   -> [state |-> "bad", packet |-> <<>>, result |-> <<>>]
    [] Whole(p, end) -> [state |-> "spin", packet |-> <<>>, result |-> <<>>]
    [] OTHER         -> [state |-> "wait", packet |-> SubSeq(p, end, Len(p)),
                         result |-> all]

\* A frame that is taken lies in the packet and is not empty.
LEMMA TakenInside ==
  ASSUME NEW T, T \subseteq Nat, NEW p, p \in Seq(T), NEW k \in 1 .. Len(p) + 1,
         Taken(p, k)
  PROVE  /\ k + p[k + 2] \in k + 1 .. Len(p) + 1
         /\ FrameAt(p, k) \in Frame(T)
<1>1. PICK n \in Nat : n = Len(p)
  BY LenProperties
<1>2. n + 1 - k >= 3 /\ n + 1 - k >= p[k + 2] /\ p[k + 2] # 0
  BY <1>1 DEF Taken, Whole, HeaderSize
<1>3. k + 1 \in 1 .. n /\ k + 2 \in 1 .. n
  BY <1>1, <1>2
<1>4. p[k + 1] \in T /\ p[k + 2] \in T
  BY <1>1, <1>3, ElementOfSeq
<1>5. PICK m \in Nat : m = p[k + 2]
  BY <1>4
<1>6. \A i \in k + 3 .. k + m - 1 : p[i] \in T
  <2>1. \A i \in k + 3 .. k + m - 1 : i \in 1 .. n
    BY <1>1, <1>2, <1>5
  <2> QED
    BY <1>1, <2>1, ElementOfSeq
<1>7. SubSeq(p, k + 3, k + m - 1) \in Seq(T)
  BY <1>1, <1>6, SubSeqProperties
<1>8. k + p[k + 2] \in k + 1 .. n + 1
  BY <1>1, <1>2, <1>5
<1>9. FrameAt(p, k) = [mCommand |-> p[k + 1], mContent |-> SubSeq(p, k + 3, k + m - 1)]
  BY <1>5 DEF FrameAt, HeaderSize
<1> QED
  BY <1>1, <1>4, <1>7, <1>8, <1>9 DEF Frame

LEMMA EndsExist ==
  ASSUME NEW T, T \subseteq Nat, NEW p, p \in Seq(T)
  PROVE  \E b : Ends(b, p)
<1>1. PICK n \in Nat : n = Len(p) + 1
  BY LenProperties
<1> DEFINE next == [k \in 1 .. n |-> IF Taken(p, k) THEN k + p[k + 2] ELSE 0]
           step == [k \in 1 .. n |-> [v \in 1 .. n |-> v]]
           last == [k \in 1 .. n |-> k]
<1>2. \A k \in 1 .. n : Taken(p, k) => k + p[k + 2] \in k + 1 .. n
  BY <1>1, TakenInside
<1>3. /\ next \in [1 .. n -> Nat]
      /\ \A k \in 1 .. n : next[k] # 0 => next[k] \in k + 1 .. n
  <2>1. \A k \in 1 .. n : \A x \in k + 1 .. n : x \in Nat
    OBVIOUS
  <2> QED
    BY <1>2, <2>1
<1>4. step \in [1 .. n -> [1 .. n -> 1 .. n]] /\ last \in [1 .. n -> 1 .. n]
  OBVIOUS
<1>5. Jumps(1 .. n, n, next, step, last)
  <2> HIDE DEF next, step, last
  <2> QED
    BY <1>3, <1>4 DEF Jumps
<1>6. PICK g : JumpSolves(g, 1 .. n, n, next, step, last)
  <2> HIDE DEF next, step, last
  <2> QED
    BY <1>5, JumpsExist
<1>7. ASSUME NEW k \in 1 .. n
      PROVE  g[k] = IF Taken(p, k) THEN g[k + p[k + 2]] ELSE k
  <2>1. g[k] = IF next[k] = 0 THEN last[k] ELSE step[k][g[next[k]]]
    <3> HIDE DEF next, step, last
    <3> QED
      BY <1>6 DEF JumpSolves
  <2>2. g \in [1 .. n -> 1 .. n]
    BY <1>6 DEF JumpSolves
  <2>3. CASE Taken(p, k)
    <3>1. PICK x \in k + 1 .. n : x = k + p[k + 2]
      BY <1>2, <2>3
    <3>2. next[k] = x /\ x # 0 /\ x \in 1 .. n
      BY <2>3, <3>1
    <3>3. step[k][g[x]] = g[x]
      BY <2>2, <3>2
    <3> QED
      BY <2>1, <2>3, <3>1, <3>2, <3>3
  <2>4. CASE ~Taken(p, k)
    BY <2>1, <2>4
  <2> QED
    BY <2>3, <2>4
<1>8. g \in [1 .. n -> 1 .. n]
  BY <1>6 DEF JumpSolves
<1> QED
  BY <1>1, <1>7, <1>8 DEF Ends

LEMMA FramedExist ==
  ASSUME NEW T, T \subseteq Nat, NEW p, p \in Seq(T)
  PROVE  \E f : Framed(f, p, T)
<1>1. PICK n \in Nat : n = Len(p) + 1
  BY LenProperties
<1> DEFINE V == Seq(Frame(T))
           next == [k \in 1 .. n |-> IF Taken(p, k) THEN k + p[k + 2] ELSE 0]
           step == [k \in 1 .. n |-> [v \in V |->
                      IF Taken(p, k) THEN <<FrameAt(p, k)>> \o v ELSE v]]
           last == [k \in 1 .. n |-> <<>>]
<1>2. \A k \in 1 .. n : Taken(p, k) =>
        k + p[k + 2] \in k + 1 .. n /\ FrameAt(p, k) \in Frame(T)
  BY <1>1, TakenInside
<1>3. /\ next \in [1 .. n -> Nat]
      /\ \A k \in 1 .. n : next[k] # 0 => next[k] \in k + 1 .. n
  <2>1. \A k \in 1 .. n : \A x \in k + 1 .. n : x \in Nat
    OBVIOUS
  <2> QED
    BY <1>2, <2>1
<1>4. step \in [1 .. n -> [V -> V]] /\ last \in [1 .. n -> V]
  <2>1. ASSUME NEW k \in 1 .. n, Taken(p, k), NEW v \in V
        PROVE  <<FrameAt(p, k)>> \o v \in V
    <3>1. PICK e \in Frame(T) : e = FrameAt(p, k)
      BY <1>2, <2>1
    <3>2. <<e>> \in V
      BY AppendIsConcat
    <3> QED
      BY <3>1, <3>2, ConcatProperties
  <2>2. <<>> \in V
    BY EmptySeq
  <2> HIDE DEF V
  <2> QED
    BY <2>1, <2>2
<1>5. Jumps(V, n, next, step, last)
  <2> HIDE DEF next, step, last
  <2> QED
    BY <1>3, <1>4 DEF Jumps
<1>6. PICK g : JumpSolves(g, V, n, next, step, last)
  <2> HIDE DEF next, step, last
  <2> QED
    BY <1>5, JumpsExist
<1>7. ASSUME NEW k \in 1 .. n
      PROVE  g[k] = IF Taken(p, k) THEN <<FrameAt(p, k)>> \o g[k + p[k + 2]] ELSE <<>>
  <2>1. g[k] = IF next[k] = 0 THEN last[k] ELSE step[k][g[next[k]]]
    <3> HIDE DEF next, step, last
    <3> QED
      BY <1>6 DEF JumpSolves
  <2>2. g \in [1 .. n -> V]
    BY <1>6 DEF JumpSolves
  <2>3. CASE Taken(p, k)
    <3>1. PICK x \in k + 1 .. n : x = k + p[k + 2]
      BY <1>2, <2>3
    <3>2. next[k] = x /\ x # 0 /\ x \in 1 .. n
      BY <2>3, <3>1
    <3>3. g[x] \in V
      BY <2>2, <3>2
    <3>4. step[k][g[x]] = <<FrameAt(p, k)>> \o g[x]
      <4> HIDE DEF V
      <4> QED
        BY <2>3, <3>3
    <3> QED
      BY <2>1, <2>3, <3>1, <3>2, <3>4
  <2>4. CASE ~Taken(p, k)
    BY <2>1, <2>4
  <2> QED
    BY <2>3, <2>4
<1>8. g \in [1 .. n -> V]
  BY <1>6 DEF JumpSolves
<1> QED
  BY <1>1, <1>7, <1>8 DEF Framed


\* A function that satisfies the equation has its values in the right set.
LEMMA EndsTyped ==
  ASSUME NEW T, T \subseteq Nat, NEW p, p \in Seq(T), NEW b,
         b = [k \in 1 .. Len(p) + 1 |-> IF Taken(p, k) THEN b[k + p[k + 2]] ELSE k]
  PROVE  Ends(b, p)
<1>1. PICK n \in Nat : n = Len(p) + 1
  BY LenProperties
<1> DEFINE A == {k \in 1 .. n : b[k] \in 1 .. n}
<1>2. /\ DOMAIN b = 1 .. n /\ b = [k \in DOMAIN b |-> b[k]]
      /\ \A k \in 1 .. n : b[k] = IF Taken(p, k) THEN b[k + p[k + 2]] ELSE k
  BY <1>1
<1>3. ASSUME NEW k \in 1 .. n, \A j \in k + 1 .. n : j \in A PROVE k \in A
  <2>1. CASE Taken(p, k)
    <3>1. PICK x \in k + 1 .. n : x = k + p[k + 2]
      BY <1>1, <2>1, TakenInside
    <3>2. b[x] \in 1 .. n
      BY <1>3
    <3> QED
      BY <1>2, <2>1, <3>1, <3>2
  <2>2. CASE ~Taken(p, k)
    BY <1>2, <2>2
  <2> QED
    BY <2>1, <2>2
<1>4. 1 .. n \subseteq A
  <2> HIDE DEF A
  <2> QED
    BY <1>3, Descends
<1>5. b \in [1 .. n -> 1 .. n]
  BY <1>2, <1>4
<1> QED
  BY <1>1, <1>2, <1>5 DEF Ends

LEMMA FramedTyped ==
  ASSUME NEW T, T \subseteq Nat, NEW p, p \in Seq(T), NEW f,
         f = [k \in 1 .. Len(p) + 1 |->
                IF Taken(p, k) THEN <<FrameAt(p, k)>> \o f[k + p[k + 2]] ELSE <<>>]
  PROVE  Framed(f, p, T)
<1>1. PICK n \in Nat : n = Len(p) + 1
  BY LenProperties
<1> DEFINE V == Seq(Frame(T))
           A == {k \in 1 .. n : f[k] \in V}
<1>2. /\ DOMAIN f = 1 .. n /\ f = [k \in DOMAIN f |-> f[k]]
      /\ \A k \in 1 .. n :
           f[k] = IF Taken(p, k) THEN <<FrameAt(p, k)>> \o f[k + p[k + 2]] ELSE <<>>
  BY <1>1
<1>3. ASSUME NEW k \in 1 .. n, \A j \in k + 1 .. n : j \in A PROVE k \in A
  <2>1. CASE Taken(p, k)
    <3>1. PICK x \in k + 1 .. n : x = k + p[k + 2]
      BY <1>1, <2>1, TakenInside
    <3>2. f[x] \in V
      BY <1>3
    <3>3. PICK e \in Frame(T) : e = FrameAt(p, k)
      BY <1>1, <2>1, TakenInside
    <3>4. <<e>> \in V /\ <<e>> \o f[x] \in V
      BY <3>2, AppendIsConcat, ConcatProperties
    <3> HIDE DEF V
    <3> QED
      BY <1>2, <2>1, <3>1, <3>3, <3>4
  <2>2. CASE ~Taken(p, k)
    <3>1. <<>> \in V
      BY EmptySeq
    <3> HIDE DEF V
    <3> QED
      BY <1>2, <2>2, <3>1
  <2> QED
    BY <2>1, <2>2
<1>4. 1 .. n \subseteq A
  <2> HIDE DEF A
  <2> QED
    BY <1>3, Descends
<1>5. f \in [1 .. n -> V]
  <2> HIDE DEF V
  <2> QED
    BY <1>2, <1>4
<1> QED
  BY <1>1, <1>2, <1>5 DEF Framed

(***************************************************************************)
(* Received: what GetRecvResult returns is what its two recursive          *)
(* functions say, for any packet.                                          *)
(***************************************************************************)
LEMMA Received ==
  ASSUME NEW T, T \subseteq Nat, NEW packet, packet \in Seq(T)
  PROVE  \E b, f : /\ Ends(b, packet) /\ Framed(f, packet, T)
                   /\ GetRecvResult(packet) = Outcome(packet, b[1], f[1])
<1> DEFINE endBody(g) == [k \in 1 .. Len(packet) + 1 |->
                            IF Taken(packet, k) THEN g[k + packet[k + 2]] ELSE k]
           frameBody(g) == [k \in 1 .. Len(packet) + 1 |->
                              IF Taken(packet, k)
                              THEN <<FrameAt(packet, k)>> \o g[k + packet[k + 2]]
                              ELSE <<>>]
           behind == CHOOSE g : g = endBody(g)
           frames == CHOOSE g : g = frameBody(g)
<1>1. GetRecvResult(packet) = Outcome(packet, behind[1], frames[1])
  BY DEF GetRecvResult, Outcome, Bad, Whole, Taken, FrameAt
<1>2. behind = endBody(behind)
  <2>1. PICK b : Ends(b, packet)
    BY EndsExist
  <2>2. b = endBody(b)
    BY <2>1 DEF Ends
  <2> HIDE DEF endBody
  <2> QED
    BY <2>2
<1>3. frames = frameBody(frames)
  <2>1. PICK f : Framed(f, packet, T)
    BY FramedExist
  <2>2. f = frameBody(f)
    BY <2>1 DEF Framed
  <2> HIDE DEF frameBody
  <2> QED
    BY <2>2
<1>4. PICK b, f : b = behind /\ f = frames
  OBVIOUS
<1> HIDE DEF behind, frames
<1>5. Ends(b, packet)
  <2>1. b = endBody(b)
    <3> HIDE DEF endBody
    <3> QED
      BY <1>2, <1>4
  <2> QED
    BY <2>1, EndsTyped
<1>6. Framed(f, packet, T)
  <2>1. f = frameBody(f)
    <3> HIDE DEF frameBody
    <3> QED
      BY <1>3, <1>4
  <2> QED
    BY <2>1, FramedTyped
<1> QED
  BY <1>1, <1>4, <1>5, <1>6

\* What is left, and the frames that came out, are words of the packet.
LEMMA ResultTyped ==
  ASSUME NEW T, T \subseteq Nat, NEW packet, packet \in Seq(T)
  PROVE  /\ GetRecvResult(packet).state \in {"bad", "spin", "wait"}
         /\ GetRecvResult(packet).packet \in Seq(T)
         /\ GetRecvResult(packet).result \in Seq(Frame(T))
<1>1. PICK b, f : /\ Ends(b, packet) /\ Framed(f, packet, T)
                  /\ GetRecvResult(packet) = Outcome(packet, b[1], f[1])
  BY Received
<1>2. PICK n \in Nat : n = Len(packet)
  BY LenProperties
<1>3. PICK end \in 1 .. n + 1 : end = b[1]
  BY <1>1, <1>2 DEF Ends
<1>4. PICK all \in Seq(Frame(T)) : all = f[1]
  BY <1>1, <1>2 DEF Framed
<1>5. SubSeq(packet, end, n) \in Seq(T)
  <2>1. \A i \in end .. n : packet[i] \in T
    BY <1>2, ElementOfSeq
  <2> QED
    BY <2>1, SubSeqProperties
<1>6. <<>> \in Seq(T) /\ <<>> \in Seq(Frame(T))
  BY EmptySeq
<1>7. GetRecvResult(packet) = Outcome(packet, end, all)
  BY <1>1, <1>3, <1>4
<1> QED
  BY <1>2, <1>5, <1>6, <1>7 DEF Outcome

-----------------------------------------------------------------------------
(***************************************************************************)
(* The inductive invariant.  A socket number has one owner; the connection *)
(* that is being closed is no listener any more; those that wait to be     *)
(* accepted, and those that were never made, have no number and have not   *)
(* registered; and a registration lasts until the close.                   *)
(***************************************************************************)
OneOwner ==
  \A c, d \in Conn : sockOf[c] # 0 /\ sockOf[c] = sockOf[d] => c = d

Closing == servPc # 0 => sockOf[servPc] # 0 /\ sockOf[servPc] \notin mListener

Queued == \A i \in 1 .. Len(backlog) :
            /\ peer[backlog[i]] # "idle"
            /\ sockOf[backlog[i]] = 0 /\ since[backlog[i]] = Never
            /\ \A j \in 1 .. Len(backlog) : backlog[i] = backlog[j] => i = j

Unmade == \A c \in Conn : peer[c] = "idle" => sockOf[c] = 0 /\ since[c] = Never

StaysRegistered ==
  \A c \in Conn :
    sockOf[c] # 0 /\ c # servPc /\ since[c] # Never => sockOf[c] \in mListener

Dispatching == lock = "notify" => lines # 0

Sockets ==
  /\ OneOwner /\ Closing /\ Queued /\ Unmade /\ StaysRegistered /\ Dispatching
  /\ ListenersAreRegistered

IInv == ServTypes /\ Sockets

(***************************************************************************)
(* The invariant of the streams: the iterator stands on a listener, and    *)
(* who has not registered was sent nothing.                                *)
(***************************************************************************)
IteratorValid == races = 0 /\ lock = "notify" => it \in mListener

SilentBefore == races = 0 => \A c \in Conn : since[c] = Never => sent[c] = <<>>

StreamInv == IteratorValid /\ SilentBefore /\ GaplessStream

USE LogServConstants DEF LogServConstants

-----------------------------------------------------------------------------
LEMMA ConstantTypes ==
  /\ Never \in Nat /\ Never = MaxLines + 1 /\ MaxLines \in Nat
  /\ MaxSock \in Nat /\ MaxConn \in Nat
  /\ \A c \in Conn : c \in Nat /\ c # 0 /\ c \in 0 .. MaxConn
  /\ \A s \in Sock : s \in Nat /\ s # 0 /\ s \in 0 .. MaxSock
BY DEF Conn, Sock, Never

LEMMA SocketOf ==
  ASSUME ServTypes, NEW c \in Conn, sockOf[c] # 0
  PROVE  sockOf[c] \in Sock
<1>1. sockOf[c] \in 0 .. MaxSock
  BY DEF ServTypes
<1> QED
  BY <1>1, ConstantTypes DEF Sock

LEMMA InitInv == Init => IInv
<1> SUFFICES ASSUME Init PROVE IInv
  OBVIOUS
<1>1. sent \in [Conn -> Seq(Line)] /\ backlog \in Seq(Conn)
  BY EmptySeq DEF Init
<1>2. 0 \in 0 .. MaxSock /\ 0 \in 0 .. MaxConn /\ 0 \in 0 .. MaxLines
      /\ Never \in 0 .. Never
  BY ConstantTypes
<1>3. ServTypes
  BY <1>1, <1>2 DEF Init, ServTypes
<1>4. Sockets
  BY EmptySeq DEF Init, Sockets, OneOwner, Closing, Queued, Unmade, StaysRegistered,
     Dispatching, ListenersAreRegistered
<1> QED
  BY <1>3, <1>4 DEF IInv

\* Where the iterator goes.
LEMMA AdvanceTypes ==
  ASSUME ServTypes, Advance
  PROVE  /\ it' \in 0 .. MaxSock
         /\ agent' \in {"up", "dead"}
<1>1. mListener \subseteq Sock /\ it \in 0 .. MaxSock /\ agent \in {"up", "dead"}
  BY DEF ServTypes
<1>2. Above(it) \subseteq Sock
  BY <1>1 DEF Above
<1>3. 0 \in 0 .. MaxSock /\ Sock \subseteq 0 .. MaxSock
  BY DEF Sock
<1> QED
  BY <1>1, <1>2, <1>3 DEF Advance, First

LEMMA SendTypes ==
  ASSUME ServTypes, Advance, LoopEnds, agent = "up"
  PROVE  /\ it' \in 0 .. MaxSock /\ agent' \in {"up", "dead"}
         /\ lock' \in {"free", "notify", "serv"}
         /\ agent' = "up" => (lock' = "notify" <=> it' # 0)
BY AdvanceTypes DEF LoopEnds

-----------------------------------------------------------------------------
LEMMA TypesKept == IInv /\ [Next]_vars => ServTypes'
<1> SUFFICES ASSUME IInv, [Next]_vars PROVE ServTypes'
  OBVIOUS
<1>0. ServTypes /\ Sockets
  BY DEF IInv
<1>1. ASSUME NEW c \in Conn, Connect(c) PROVE ServTypes'
  <2>1. backlog' \in Seq(Conn)
    BY <1>0, <1>1, AppendProperties DEF ServTypes, Connect
  <2> QED
    BY <1>0, <1>1, <2>1 DEF ServTypes, Connect, ServerOnly, monitorVars, historyVars
<1>2. ASSUME NEW c \in Conn, Disconnect(c) PROVE ServTypes'
  BY <1>0, <1>2 DEF ServTypes, Disconnect, ServerOnly, monitorVars, historyVars
<1>3. ASSUME Traffic PROVE ServTypes'
  BY <1>0, <1>3 DEF ServTypes, Traffic, SegmentArrives, ViewerReads, ServerOnly,
     monitorVars, historyVars
<1>4. ASSUME Accept PROVE ServTypes'
  <2>1. backlog' \in Seq(Conn) /\ Head(backlog) \in Conn
    BY <1>0, <1>4, HeadTailProperties DEF ServTypes, Accept
  <2>2. sockOf' \in [Conn -> 0 .. MaxSock]
    BY <1>0, <1>4, ConstantTypes DEF ServTypes, Accept
  <2> QED
    BY <1>0, <1>4, <2>1, <2>2 DEF ServTypes, Accept, monitorVars
<1>5. ASSUME NEW c \in Conn, OnServRecvData(c) PROVE ServTypes'
  <2>1. sockOf[c] \in Sock
    BY <1>0, <1>5, ConstantTypes DEF ServTypes, OnServRecvData, Sock
  <2>2. mListener' \subseteq Sock
    BY <1>0, <1>5, <2>1 DEF ServTypes, OnServRecvData
  <2>3. since' \in [Conn -> 0 .. Never]
    <3>1. lines \in 0 .. Never
      BY <1>0, ConstantTypes DEF ServTypes
    <3> QED
      BY <1>0, <1>5, <3>1 DEF ServTypes, OnServRecvData
  <2>4. lock' \in {"free", "serv"} /\ lock = "free"
    BY <1>5 DEF OnServRecvData
  <2> QED
    BY <1>0, <1>5, <2>2, <2>3, <2>4 DEF ServTypes, OnServRecvData
<1>6. ASSUME NEW c \in Conn, OnServSocketClose(c) PROVE ServTypes'
  BY <1>0, <1>6, ConstantTypes DEF ServTypes, OnServSocketClose, viewerVars
<1>7. ASSUME CloseSocket PROVE ServTypes'
  <2>1. sockOf' \in [Conn -> 0 .. MaxSock]
    <3>1. 0 \in 0 .. MaxSock
      OBVIOUS
    <3> QED
      BY <1>0, <1>7, <3>1 DEF ServTypes, CloseSocket
  <2>2. servPc' \in 0 .. MaxConn
    BY <1>7, ConstantTypes DEF CloseSocket
  <2> QED
    BY <1>0, <1>7, <2>1, <2>2
    DEF ServTypes, CloseSocket, viewerVars, monitorVars, historyVars
<1>8. ASSUME DispatchLine PROVE ServTypes'
  <2>1. mListener \subseteq Sock /\ lines' \in 0 .. MaxLines
    BY <1>0, <1>8, ConstantTypes DEF ServTypes, DispatchLine
  <2>2. it' \in 0 .. MaxSock /\ lock' \in {"free", "notify"}
        /\ (lock' = "notify" <=> it' # 0)
    BY <1>8, <2>1, ConstantTypes DEF DispatchLine, First
  <2> QED
    BY <1>0, <1>8, <2>1, <2>2 DEF ServTypes, DispatchLine, viewerVars, historyVars
<1>9. ASSUME NEW c \in Conn, SendLog(c) PROVE ServTypes'
  <2>1. lines \in Line
    BY <1>0, <1>9 DEF ServTypes, Sockets, Dispatching, SendLog, Line
  <2>2. sent' \in [Conn -> Seq(Line)]
    BY <1>0, <1>9, <2>1, AppendProperties DEF ServTypes, SendLog
  <2> QED
    BY <1>0, <1>9, <2>2, SendTypes DEF ServTypes, SendLog
<1>10. ASSUME NEW c \in Conn, SendToClosed(c) PROVE ServTypes'
  BY <1>0, <1>10, SendTypes DEF ServTypes, SendToClosed, historyVars
<1>11. ASSUME NEW c \in Conn, SendToReset(c) PROVE ServTypes'
  BY <1>0, <1>11 DEF ServTypes, SendToReset, viewerVars, monitorVars, historyVars
<1>12. ASSUME SendToNone PROVE ServTypes'
  BY <1>0, <1>12, SendTypes DEF ServTypes, SendToNone, viewerVars, historyVars
<1>13. ASSUME UNCHANGED vars PROVE ServTypes'
  BY <1>0, <1>13 DEF ServTypes, vars, viewerVars, monitorVars, historyVars
<1> QED
  BY <1>1, <1>2, <1>3, <1>4, <1>5, <1>6, <1>7, <1>8, <1>9, <1>10, <1>11, <1>12,
     <1>13 DEF Next, ServThread, NotifyThread

-----------------------------------------------------------------------------
LEMMA SocketsKept == IInv /\ [Next]_vars => Sockets'
<1> SUFFICES ASSUME IInv, [Next]_vars PROVE Sockets'
  OBVIOUS
<1>0. ServTypes /\ Sockets
  BY DEF IInv
<1> USE DEF OneOwner, Closing, Unmade, StaysRegistered, Dispatching,
            ListenersAreRegistered, Owner
<1>1. ASSUME NEW c \in Conn, Connect(c) PROVE Sockets'
  <2>1. Queued'
    <3>1. PICK n \in Nat : n = Len(backlog)
      BY <1>0, LenProperties DEF ServTypes
    <3>2. /\ Len(backlog') = n + 1
          /\ \A i \in 1 .. n : backlog'[i] = backlog[i] /\ backlog[i] \in Conn
          /\ backlog'[n + 1] = c
      BY <1>0, <1>1, <3>1, AppendProperties, ElementOfSeq DEF ServTypes, Connect
    <3>3. peer[c] = "idle" /\ sockOf[c] = 0 /\ since[c] = Never
      BY <1>0, <1>1 DEF Sockets, Connect
    <3>4. \A d \in Conn : peer'[d] = IF d = c THEN "open" ELSE peer[d]
      BY <1>0, <1>1 DEF ServTypes, Connect
    <3>5. sockOf' = sockOf /\ since' = since
      BY <1>1 DEF Connect, ServerOnly, historyVars
    <3>6. Never' = Never
      BY DEF Never
    <3> QED
      BY <1>0, <3>1, <3>2, <3>3, <3>4, <3>5, <3>6 DEF Sockets, Queued
  <2> QED
    BY <1>0, <1>1, <2>1
    DEF Sockets, ServTypes, Connect, ServerOnly, monitorVars, historyVars, Never
<1>2. ASSUME NEW c \in Conn, Disconnect(c) PROVE Sockets'
  <2>1. Queued'
    <3>1. backlog' = backlog /\ sockOf' = sockOf /\ since' = since /\ Never' = Never
      BY <1>2 DEF Disconnect, ServerOnly, historyVars, Never
    <3>2. \A d \in Conn : peer'[d] = "idle" => peer[d] = "idle"
      BY <1>0, <1>2 DEF ServTypes, Disconnect
    <3>3. \A k \in 1 .. Len(backlog) : backlog[k] \in Conn
      BY <1>0, ElementOfSeq DEF ServTypes
    <3> QED
      BY <1>0, <3>1, <3>2, <3>3 DEF Sockets, Queued
  <2> QED
    BY <1>0, <1>2, <2>1
    DEF Sockets, ServTypes, Disconnect, ServerOnly, monitorVars, historyVars, Never
<1>3. ASSUME Traffic PROVE Sockets'
  BY <1>0, <1>3
  DEF Sockets, Queued, Traffic, SegmentArrives, ViewerReads, ServerOnly, monitorVars,
      historyVars, Never
<1>4. ASSUME Accept PROVE Sockets'
  <2> DEFINE c == Head(backlog)
  <2>1. c \in Conn /\ c = backlog[1] /\ backlog # <<>>
    BY <1>0, <1>4, HeadTailProperties DEF ServTypes, Accept
  <2>2. PICK n \in Nat : n = Len(backlog)
    BY <1>0, LenProperties DEF ServTypes
  <2>3. /\ n # 0 /\ Len(backlog') = n - 1
        /\ \A i \in 1 .. n - 1 : backlog'[i] = backlog[i + 1]
        /\ \A i \in 1 .. n : backlog[i] \in Conn
    BY <1>0, <1>4, <2>1, <2>2, HeadTailProperties, ElementOfSeq, EmptySeq
    DEF ServTypes, Accept
  <2>4. sockOf[c] = 0 /\ since[c] = Never /\ peer[c] # "idle"
    BY <1>0, <2>1, <2>2, <2>3 DEF Sockets, Queued
  <2>5. PICK s \in Sock : Owner(s) = {} /\ sockOf' = [sockOf EXCEPT ![c] = s]
    BY <1>4 DEF Accept
  <2>6. s # 0 /\ s \notin mListener
    BY <1>0, <2>5, ConstantTypes DEF Sockets
  <2>7. /\ \A d \in Conn : sockOf'[d] = IF d = c THEN s ELSE sockOf[d]
        /\ \A d \in Conn : sockOf[d] # s
    BY <1>0, <2>5 DEF ServTypes
  <2>8. /\ UNCHANGED <<peer, since, servPc, mListener, lock, lines>> /\ servPc = 0
    BY <1>4 DEF Accept, Selecting, monitorVars
  <2>9. Queued'
    <3>1. \A i \in 1 .. n - 1 : backlog'[i] # c /\ i + 1 \in 1 .. n
      BY <1>0, <2>1, <2>2, <2>3 DEF Sockets, Queued
    <3>2. /\ Len(backlog) = n /\ Never' = Never /\ peer' = peer /\ since' = since
          /\ \A i \in 1 .. n - 1 : sockOf'[backlog'[i]] = sockOf[backlog[i + 1]]
      BY <2>2, <2>3, <2>7, <2>8, <3>1 DEF Never
    <3>3. \A i, j \in 1 .. n - 1 : i # j => i + 1 # j + 1
      OBVIOUS
    <3>4. \A i \in 1 .. n :
            /\ peer[backlog[i]] # "idle" /\ since[backlog[i]] = Never
            /\ sockOf[backlog[i]] = 0
            /\ \A j \in 1 .. n : backlog[i] = backlog[j] => i = j
      BY <1>0, <3>2 DEF Sockets, Queued
    <3>5. \A i \in 1 .. n - 1 :
            /\ peer'[backlog'[i]] # "idle" /\ since'[backlog'[i]] = Never'
            /\ sockOf'[backlog'[i]] = 0
      <4> SUFFICES ASSUME NEW i \in 1 .. n - 1
                   PROVE  /\ peer'[backlog'[i]] # "idle" /\ since'[backlog'[i]] = Never'
                          /\ sockOf'[backlog'[i]] = 0
        OBVIOUS
      <4>1. PICK b : b = backlog[i + 1] /\ backlog'[i] = b
        BY <2>3
      <4>2. peer[b] # "idle" /\ since[b] = Never /\ sockOf[b] = 0
        BY <3>1, <3>4, <4>1
      <4> QED
        BY <3>2, <4>1, <4>2
    <3>6. \A i, j \in 1 .. n - 1 : backlog'[i] = backlog'[j] => i = j
      BY <2>3, <3>1, <3>3, <3>4
    <3> QED
      BY <2>3, <3>5, <3>6 DEF Queued
  <2>10. ListenersAreRegistered'
    BY <1>0, <2>1, <2>4, <2>6, <2>7, <2>8 DEF Sockets, Never
  <2>11. OneOwner' /\ Closing' /\ Unmade' /\ StaysRegistered' /\ Dispatching'
    BY <1>0, <2>1, <2>4, <2>6, <2>7, <2>8 DEF Sockets, Never
  <2> QED
    BY <2>9, <2>10, <2>11 DEF Sockets
<1>5. ASSUME NEW c \in Conn, OnServRecvData(c) PROVE Sockets'
  <2> DEFINE new == since' # since
  <2>1. sockOf[c] # 0 /\ servPc = 0 /\ lock = "free"
    BY <1>5 DEF OnServRecvData, Selecting
  <2>2. lines \in Nat /\ lines # Never /\ lines <= MaxLines
    BY <1>0, ConstantTypes DEF ServTypes
  <2>3. \/ mListener' = mListener /\ since' = since
        \/ /\ mListener' = mListener \cup {sockOf[c]}
           /\ since' = IF sockOf[c] \notin mListener
                       THEN [since EXCEPT ![c] = lines] ELSE since
    BY <1>5 DEF OnServRecvData
  <2>4. UNCHANGED <<peer, backlog, sockOf, servPc, lines>> /\ lock' # "notify"
    BY <1>5 DEF OnServRecvData
  <2>5. since[c] # Never => sockOf[c] \in mListener
    BY <1>0, <2>1, ConstantTypes DEF Sockets
  <2>6. \A d \in Conn : d # c => since'[d] = since[d]
    BY <1>0, <2>3 DEF ServTypes
  <2>7. since[c] # Never => since'[c] = since[c]
    BY <2>3, <2>5
  <2>8. \A d \in Conn : since[d] # Never => since'[d] # Never
    BY <2>6, <2>7
  <2>9. ListenersAreRegistered'
    <3>1. \A s \in mListener : \E d \in Conn : sockOf[d] = s /\ since'[d] # Never
      BY <1>0, <2>8 DEF Sockets
    <3>2. sockOf[c] \notin mListener /\ mListener' # mListener => since'[c] # Never
      BY <1>0, <2>2, <2>3 DEF ServTypes
    <3> QED
      BY <2>3, <2>4, <3>1, <3>2 DEF Never
  <2>10. Queued'
    <3>1. \A i \in 1 .. Len(backlog) : backlog[i] \in Conn
      BY <1>0, ElementOfSeq DEF ServTypes
    <3>2. Queued
      BY <1>0 DEF Sockets
    <3>3. \A i \in 1 .. Len(backlog) : backlog[i] # c
      BY <2>1, <3>2 DEF Queued
    <3>4. Never' = Never
      BY <2>4 DEF Never
    <3> QED
      BY <2>4, <2>6, <3>1, <3>2, <3>3, <3>4 DEF Queued
  <2>11. StaysRegistered'
    <3>1. since'[c] # Never => sockOf[c] \in mListener'
      BY <1>0, <2>3, <2>5 DEF ServTypes
    <3> QED
      BY <1>0, <2>3, <2>4, <2>6, <3>1 DEF Sockets, Never
  <2>12. OneOwner' /\ Unmade' /\ Dispatching' /\ Closing'
    BY <1>0, <2>1, <2>4, <2>6 DEF Sockets, Never
  <2> QED
    BY <2>9, <2>10, <2>11, <2>12 DEF Sockets
<1>6. ASSUME NEW c \in Conn, OnServSocketClose(c) PROVE Sockets'
  <2>1. /\ sockOf[c] # 0 /\ servPc = 0 /\ servPc' = c
        /\ mListener' = mListener \ {sockOf[c]}
        /\ UNCHANGED <<peer, backlog, sockOf, since, lines, lock>>
    BY <1>6 DEF OnServSocketClose, Selecting, viewerVars
  <2>2. c # 0
    BY ConstantTypes
  <2>3. OneOwner' /\ Closing' /\ Unmade' /\ Dispatching' /\ ListenersAreRegistered'
    BY <1>0, <2>1, <2>2 DEF Sockets, Never
  <2>4. Queued'
    BY <1>0, <2>1 DEF Sockets, Queued, Never
  <2>5. StaysRegistered'
    <3>1. \A d \in Conn : d # 0
      BY ConstantTypes
    <3> QED
      BY <1>0, <2>1, <3>1 DEF Sockets, Never
  <2> QED
    BY <2>3, <2>4, <2>5 DEF Sockets
<1>7. ASSUME CloseSocket PROVE Sockets'
  <2>1. /\ servPc # 0 /\ servPc \in Conn /\ servPc' = 0
        /\ sockOf' = [sockOf EXCEPT ![servPc] = 0]
        /\ UNCHANGED <<peer, backlog, mListener, since, lines, lock>>
    BY <1>0, <1>7, ConstantTypes
    DEF ServTypes, CloseSocket, viewerVars, monitorVars, historyVars, Conn
  <2>2. \A d \in Conn : sockOf'[d] = IF d = servPc THEN 0 ELSE sockOf[d]
    BY <1>0, <2>1 DEF ServTypes
  <2>3. Queued'
    <3>1. \A i \in 1 .. Len(backlog) : backlog[i] \in Conn
      BY <1>0, ElementOfSeq DEF ServTypes
    <3> QED
      BY <1>0, <2>1, <2>2, <3>1 DEF Sockets, Queued, Never
  <2>4. ListenersAreRegistered'
    BY <1>0, <2>1, <2>2 DEF Sockets, Never
  <2>5. OneOwner' /\ Unmade' /\ Dispatching' /\ Closing' /\ StaysRegistered'
    BY <1>0, <2>1, <2>2, ConstantTypes DEF Sockets, Never
  <2> QED
    BY <2>3, <2>4, <2>5 DEF Sockets
<1>8. ASSUME DispatchLine PROVE Sockets'
  <2>1. lines \in Nat /\ lines' = lines + 1
        /\ UNCHANGED <<peer, backlog, sockOf, servPc, mListener, since>>
    BY <1>0, <1>8, ConstantTypes DEF ServTypes, DispatchLine, viewerVars, historyVars
  <2> QED
    BY <1>0, <2>1 DEF Sockets, Queued, Never
<1>9. ASSUME NotifyThread PROVE Sockets'
  <2>1. /\ UNCHANGED <<peer, backlog, sockOf, servPc, mListener, since, lines>>
        /\ lock = "notify"
    BY <1>9 DEF NotifyThread, SendLog, SendToClosed, SendToReset, SendToNone,
       viewerVars, monitorVars, historyVars
  <2> QED
    BY <1>0, <2>1 DEF Sockets, Queued, Never
<1>10. ASSUME UNCHANGED vars PROVE Sockets'
  BY <1>0, <1>10 DEF Sockets, Queued, Never, vars, viewerVars, monitorVars, historyVars
<1> QED
  BY <1>1, <1>2, <1>3, <1>4, <1>5, <1>6, <1>7, <1>8, <1>9, <1>10
  DEF Next, ServThread

(***************************************************************************)
(* InvariantHolds: the invariant of the sockets and listeners holds in     *)
(* every reachable state.                                                  *)
(***************************************************************************)
THEOREM InvariantHolds == Spec => []IInv
<1>1. IInv /\ [Next]_vars => IInv'
  BY TypesKept, SocketsKept DEF IInv
<1> QED
  BY InitInv, <1>1, PTL DEF Spec

(***************************************************************************)
(* OnlyViewersListen: a number in mListener is that of an open connection  *)
(* whose viewer registered, though numbers are used again and the erase    *)
(* in OnServSocketClose takes no lock.                                     *)
(***************************************************************************)
THEOREM OnlyViewersListen == Spec => []ListenersAreRegistered
<1>1. IInv => ListenersAreRegistered
  BY DEF IInv, Sockets
<1> QED
  BY InvariantHolds, <1>1, PTL

-----------------------------------------------------------------------------
(* What a viewer is sent.                                                  *)

\* The iterator passes over no listener, and stands on one or has finished.
LEMMA IteratorSteps ==
  ASSUME ServTypes, Advance, LoopEnds, it \in mListener
  PROVE  /\ it' = 0 => lock' = "free" /\ \A s \in mListener : s <= it
         /\ it' # 0 => /\ lock' = "notify" /\ it' \in mListener /\ it < it'
                       /\ \A s \in mListener : s <= it \/ it' <= s
         /\ agent' = agent
<1>1. mListener \subseteq Sock /\ \A s \in Sock : s \in Nat /\ s # 0
  BY ConstantTypes DEF ServTypes
<1>2. it' \in First(Above(it)) /\ agent' = agent
  BY DEF Advance
<1>3. CASE Above(it) = {}
  <2>1. it' = 0
    BY <1>2, <1>3 DEF First
  <2>2. \A s \in mListener : s <= it
    BY <1>1, <1>3 DEF Above
  <2> QED
    BY <1>2, <2>1, <2>2 DEF LoopEnds
<1>4. CASE Above(it) # {}
  <2>1. it' \in Above(it) /\ \A s \in Above(it) : it' <= s
    BY <1>2, <1>4 DEF First
  <2>2. it' \in mListener /\ it' > it /\ it' # 0
    BY <1>1, <2>1 DEF Above
  <2>3. \A s \in mListener : s <= it \/ it' <= s
    BY <1>1, <2>1 DEF Above
  <2> QED
    BY <1>1, <1>2, <2>2, <2>3 DEF LoopEnds
<1> QED
  BY <1>3, <1>4

\* A line counts as sent once the iterator has left the listener.
LEMMA UpToDateSteps ==
  ASSUME ServTypes, Advance, LoopEnds, it \in mListener, lock = "notify",
         UNCHANGED <<lines, sockOf>>,
         NEW d \in Conn, sockOf[d] \in mListener
  PROVE  UpToDate(d)' = IF sockOf[d] = it THEN lines ELSE UpToDate(d)
<1>1. PICK s \in Nat : s = sockOf[d]
  BY ConstantTypes DEF ServTypes
<1>2. PICK i \in Nat : i = it
  BY ConstantTypes DEF ServTypes
<1>3. UpToDate(d) = IF i <= s THEN lines - 1 ELSE lines
  BY <1>1, <1>2, ConstantTypes DEF UpToDate, ServTypes
<1>4. CASE it' = 0
  <2>1. lock' = "free" /\ s <= i
    BY <1>1, <1>2, <1>4, IteratorSteps
  <2>2. UpToDate(d)' = lines
    BY <2>1, ConstantTypes DEF UpToDate, ServTypes
  <2> QED
    BY <1>1, <1>2, <1>3, <2>1, <2>2
<1>5. CASE it' # 0
  <2>1. it' \in Nat
    BY AdvanceTypes, ConstantTypes
  <2>2. PICK j \in Nat : j = it'
    BY <2>1
  <2>3. lock' = "notify" /\ i < j /\ (s <= i \/ j <= s)
    BY <1>1, <1>2, <1>5, <2>2, IteratorSteps
  <2>4. UpToDate(d)' = IF j <= s THEN lines - 1 ELSE lines
    BY <1>1, <2>2, <2>3, ConstantTypes DEF UpToDate, ServTypes
  <2> QED
    BY <1>1, <1>2, <1>3, <2>3, <2>4
<1> QED
  BY <1>4, <1>5

LEMMA InitStreams == Init => StreamInv
BY EmptySeq, ConstantTypes
DEF Init, StreamInv, IteratorValid, SilentBefore, GaplessStream

\* Steps that leave the streams, the listeners and the iterator as they are.
LEMMA StreamsUntouched ==
  ASSUME StreamInv,
         UNCHANGED <<sent, since, races, lines, it, lock, mListener, sockOf>>,
         \A c \in Conn :
           peer'[c] = "open" /\ agent' = "up" /\ sockOf[c] \in mListener =>
             peer[c] = "open" /\ agent = "up"
  PROVE  StreamInv'
BY DEF StreamInv, IteratorValid, SilentBefore, GaplessStream, UpToDate, Never

LEMMA StreamsKept == IInv /\ StreamInv /\ [Next]_vars => StreamInv'
<1> SUFFICES ASSUME IInv, StreamInv, [Next]_vars PROVE StreamInv'
  OBVIOUS
<1>0. ServTypes /\ Sockets
  BY DEF IInv
<1>1. ASSUME NEW c \in Conn, Connect(c) PROVE StreamInv'
  <2>1. c # 0 /\ sockOf[c] = 0 /\ 0 \notin mListener
    BY <1>0, <1>1, ConstantTypes DEF ServTypes, Sockets, Unmade, Connect
  <2>2. \A d \in Conn : peer'[d] = "open" /\ d # c => peer[d] = "open"
    BY <1>0, <1>1 DEF ServTypes, Connect
  <2>3. UNCHANGED <<sent, since, races, lines, it, lock, mListener, sockOf, agent>>
    BY <1>1 DEF Connect, ServerOnly, monitorVars, historyVars
  <2> QED
    BY <2>1, <2>2, <2>3, StreamsUntouched
<1>2. ASSUME NEW c \in Conn, Disconnect(c) PROVE StreamInv'
  <2>1. \A d \in Conn : peer'[d] = "open" => peer[d] = "open"
    BY <1>0, <1>2 DEF ServTypes, Disconnect
  <2>2. UNCHANGED <<sent, since, races, lines, it, lock, mListener, sockOf, agent>>
    BY <1>2 DEF Disconnect, ServerOnly, monitorVars, historyVars
  <2> QED
    BY <2>1, <2>2, StreamsUntouched
<1>3. ASSUME Traffic PROVE StreamInv'
  <2>1. UNCHANGED <<peer, sent, since, races, lines, it, lock, mListener, sockOf,
                    agent>>
    BY <1>3 DEF Traffic, SegmentArrives, ViewerReads, ServerOnly, monitorVars,
       historyVars
  <2> QED
    BY <2>1, StreamsUntouched
<1>4. ASSUME Accept PROVE StreamInv'
  <2> DEFINE c == Head(backlog)
  <2>1. PICK s \in Sock : Owner(s) = {} /\ sockOf' = [sockOf EXCEPT ![c] = s]
    BY <1>4 DEF Accept
  <2>2. s \notin mListener
    BY <1>0, <2>1 DEF Sockets, ListenersAreRegistered
  <2>3. \A d \in Conn : sockOf'[d] \in mListener => sockOf'[d] = sockOf[d]
    BY <1>0, <2>1, <2>2 DEF ServTypes
  <2>4. UNCHANGED <<peer, sent, since, races, lines, it, lock, mListener, agent>>
    BY <1>4 DEF Accept, monitorVars
  <2> QED
    BY <2>3, <2>4
    DEF StreamInv, IteratorValid, SilentBefore, GaplessStream, UpToDate, Never
<1>5. ASSUME NEW c \in Conn, OnServRecvData(c) PROVE StreamInv'
  <2>1. sockOf[c] # 0 /\ servPc = 0 /\ lock = "free" /\ lock' # "notify"
    BY <1>5 DEF OnServRecvData, Selecting
  <2>2. lines \in Nat /\ lines # Never
    BY <1>0, ConstantTypes DEF ServTypes
  <2>3. UNCHANGED <<peer, sent, races, lines, it, sockOf, agent>>
    BY <1>5 DEF OnServRecvData
  <2>4. CASE sockOf[c] \in mListener \/ mListener' = mListener
    <3>1. mListener' = mListener /\ since' = since
      BY <1>5, <2>4 DEF OnServRecvData
    <3> QED
      BY <2>1, <2>3, <3>1
      DEF StreamInv, IteratorValid, SilentBefore, GaplessStream, UpToDate, Never
  <2>5. CASE sockOf[c] \notin mListener /\ mListener' # mListener
    <3>1. /\ mListener' = mListener \cup {sockOf[c]}
          /\ since' = [since EXCEPT ![c] = lines]
      BY <1>5, <2>5 DEF OnServRecvData
    <3>2. since[c] = Never
      BY <1>0, <2>1, <2>5, ConstantTypes DEF Sockets, StaysRegistered
    <3>3. races = 0 => sent[c] = <<>>
      BY <3>2 DEF StreamInv, SilentBefore
    <3>4. \A d \in Conn : since'[d] = IF d = c THEN lines ELSE since[d]
      BY <1>0, <3>1 DEF ServTypes
    <3>5. \A d \in Conn : sockOf[d] = sockOf[c] => d = c
      BY <1>0, <2>1 DEF Sockets, OneOwner
    <3>6. IteratorValid' /\ SilentBefore'
      BY <2>1, <2>2, <2>3, <3>3, <3>4
      DEF StreamInv, IteratorValid, SilentBefore, Never
    <3>7. ASSUME races = 0, NEW d \in Conn
          PROVE  /\ \A k \in DOMAIN sent[d] : sent[d][k] = since'[d] + k
                 /\ sockOf[d] \in mListener' /\ peer[d] = "open" /\ agent = "up" =>
                      since'[d] + Len(sent[d]) = lines
      <4>1. CASE d = c
        <5>1. DOMAIN sent[d] = {} /\ Len(sent[d]) = 0
          BY <3>3, <3>7, <4>1, EmptySeq
        <5> QED
          BY <2>2, <3>4, <4>1, <5>1
      <4>2. CASE d # c
        BY <2>1, <2>2, <3>1, <3>4, <3>5, <3>7, <4>2
        DEF StreamInv, GaplessStream, UpToDate
      <4> QED
        BY <4>1, <4>2
    <3>8. GaplessStream'
      BY <2>1, <2>2, <2>3, <3>7 DEF GaplessStream, UpToDate
    <3> QED
      BY <3>6, <3>8 DEF StreamInv
  <2> QED
    BY <2>4, <2>5
<1>6. ASSUME NEW c \in Conn, OnServSocketClose(c) PROVE StreamInv'
  <2>1. /\ mListener' = mListener \ {sockOf[c]}
        /\ races' = IF it = sockOf[c] THEN races + 1 ELSE races
        /\ UNCHANGED <<peer, sent, since, lines, it, lock, sockOf, agent>>
    BY <1>6 DEF OnServSocketClose, viewerVars
  <2>2. races' = 0 => races = 0 /\ it # sockOf[c]
    BY <1>0, <2>1 DEF ServTypes
  <2> QED
    BY <2>1, <2>2
    DEF StreamInv, IteratorValid, SilentBefore, GaplessStream, UpToDate, Never
<1>7. ASSUME CloseSocket PROVE StreamInv'
  <2>1. UNCHANGED <<peer, sent, since, races, lines, it, lock, mListener, agent>>
    BY <1>7 DEF CloseSocket, viewerVars, monitorVars, historyVars
  <2>2. 0 \notin mListener
    BY <1>0, ConstantTypes DEF ServTypes
  <2>3. \A d \in Conn : sockOf'[d] \in mListener => sockOf'[d] = sockOf[d]
    BY <1>0, <1>7, <2>2 DEF ServTypes, CloseSocket
  <2> QED
    BY <2>1, <2>3
    DEF StreamInv, IteratorValid, SilentBefore, GaplessStream, UpToDate, Never
<1>8. ASSUME DispatchLine PROVE StreamInv'
  <2>1. /\ lock = "free" /\ lines' = lines + 1 /\ lines \in Nat
        /\ it' \in First(mListener)
        /\ lock' = IF mListener = {} THEN "free" ELSE "notify"
        /\ UNCHANGED <<peer, sent, since, races, mListener, sockOf, agent>>
    BY <1>0, <1>8, ConstantTypes DEF ServTypes, DispatchLine, viewerVars, historyVars
  <2>2. mListener # {} => it' \in mListener /\ \A s \in mListener : it' <= s
    BY <2>1 DEF First
  <2>3. ASSUME NEW d \in Conn, sockOf[d] \in mListener
        PROVE  UpToDate(d) = lines /\ UpToDate(d)' = lines
    BY <2>1, <2>2, <2>3 DEF UpToDate
  <2> QED
    BY <2>1, <2>2, <2>3
    DEF StreamInv, IteratorValid, SilentBefore, GaplessStream, Never
<1>9. ASSUME NEW c \in Conn, SendLog(c) PROVE StreamInv'
  <2>1. /\ agent = "up" /\ lock = "notify" /\ sockOf[c] = it /\ peer[c] = "open"
        /\ sent' = [sent EXCEPT ![c] = Append(@, lines)]
        /\ Advance /\ LoopEnds
        /\ UNCHANGED <<peer, since, races, lines, mListener, sockOf>>
    BY <1>9 DEF SendLog
  <2> SUFFICES ASSUME races = 0 PROVE StreamInv'
    BY <2>1 DEF StreamInv, IteratorValid, SilentBefore, GaplessStream
  <2>2. it \in mListener /\ it # 0
    BY <1>0, <2>1 DEF StreamInv, IteratorValid, ServTypes
  <2>3. since[c] # Never
    <3>1. PICK d \in Conn : sockOf[d] = it /\ since[d] # Never
      BY <1>0, <2>2 DEF Sockets, ListenersAreRegistered, Owner
    <3> QED
      BY <1>0, <2>1, <2>2, <3>1 DEF Sockets, OneOwner
  <2>4. \A d \in Conn : sockOf[d] = it => d = c
    BY <1>0, <2>1, <2>2 DEF Sockets, OneOwner
  <2>5. /\ it \in Nat /\ lines \in Nat /\ since[c] \in Nat
        /\ \A d \in Conn : sockOf[d] \in Nat
        /\ sent[c] \in Seq(Line)
    BY <1>0, ConstantTypes DEF ServTypes
  <2>6. since[c] + Len(sent[c]) = lines - 1
    BY <2>1, <2>2, <2>5 DEF StreamInv, GaplessStream, UpToDate
  <2>7. lines \in Line
    BY <1>0, <2>1 DEF Sockets, Dispatching, ServTypes, Line
  <2>8. /\ Len(sent'[c]) = Len(sent[c]) + 1 /\ DOMAIN sent'[c] = 1 .. Len(sent[c]) + 1
        /\ \A k \in 1 .. Len(sent[c]) : sent'[c][k] = sent[c][k]
        /\ sent'[c][Len(sent[c]) + 1] = lines
        /\ Len(sent[c]) \in Nat /\ DOMAIN sent[c] = 1 .. Len(sent[c])
    <3>1. sent'[c] = Append(sent[c], lines)
      BY <1>0, <2>1 DEF ServTypes
    <3> QED
      BY <2>5, <2>7, <3>1, AppendProperties, LenProperties
  <2>9. \A d \in Conn : d # c => sent'[d] = sent[d]
    BY <1>0, <2>1 DEF ServTypes
  <2>10. IteratorValid' /\ SilentBefore'
    <3>1. IteratorValid'
      BY <1>0, <2>1, <2>2, IteratorSteps DEF IteratorValid
    <3>2. SilentBefore'
      BY <2>1, <2>3, <2>9 DEF StreamInv, SilentBefore, Never
    <3> QED
      BY <3>1, <3>2
  <2>11. ASSUME NEW d \in Conn, d # c, sockOf[d] \in mListener
         PROVE  UpToDate(d)' = UpToDate(d)
    <3>1. sockOf[d] # it
      BY <2>4, <2>11
    <3> QED
      BY <1>0, <2>1, <2>2, <2>11, <3>1, UpToDateSteps
  <2>12. UpToDate(c)' = lines
    BY <1>0, <2>1, <2>2, UpToDateSteps
  <2>13. GaplessStream'
    <3>1. ASSUME NEW d \in Conn, d # c
          PROVE  /\ \A k \in DOMAIN sent'[d] : sent'[d][k] = since[d] + k
                 /\ sockOf[d] \in mListener /\ peer[d] = "open" =>
                      since[d] + Len(sent'[d]) = UpToDate(d)'
      BY <2>1, <2>9, <2>11, <3>1 DEF StreamInv, GaplessStream
    <3>2. /\ \A k \in DOMAIN sent'[c] : sent'[c][k] = since[c] + k
          /\ since[c] + Len(sent'[c]) = UpToDate(c)'
      <4>1. \A k \in 1 .. Len(sent[c]) : sent'[c][k] = since[c] + k
        BY <2>8 DEF StreamInv, GaplessStream
      <4>2. sent'[c][Len(sent[c]) + 1] = since[c] + (Len(sent[c]) + 1)
        <5>1. PICK n \in Nat : n = Len(sent[c])
          BY <2>8
        <5>2. since[c] + (n + 1) = lines
          <6>1. since[c] \in Nat /\ lines \in Nat /\ since[c] + n = lines - 1
            BY <2>5, <2>6, <5>1
          <6> QED
            BY <6>1
        <5> QED
          BY <2>8, <5>1, <5>2
      <4>3. since[c] + Len(sent'[c]) = UpToDate(c)'
        <5>1. PICK n \in Nat : n = Len(sent[c])
          BY <2>8
        <5>2. since[c] + (n + 1) = lines
          <6>1. since[c] \in Nat /\ lines \in Nat /\ since[c] + n = lines - 1
            BY <2>5, <2>6, <5>1
          <6> QED
            BY <6>1
        <5>3. Len(sent'[c]) = n + 1
          BY <2>8, <5>1
        <5> QED
          BY <2>12, <5>2, <5>3
      <4> QED
        BY <2>8, <4>1, <4>2, <4>3
    <3> QED
      BY <2>1, <3>1, <3>2 DEF GaplessStream
  <2> QED
    BY <2>10, <2>13 DEF StreamInv
<1>10. ASSUME NEW c \in Conn, SendToClosed(c) \/ SendToReset(c) PROVE StreamInv'
  <2>1. /\ agent = "up" /\ lock = "notify" /\ sockOf[c] = it
        /\ UNCHANGED <<peer, sent, since, races, lines, mListener, sockOf>>
        /\ \/ peer[c] = "closed" /\ Advance /\ LoopEnds
           \/ agent' = "dead" /\ UNCHANGED <<it, lock>>
    BY <1>10 DEF SendToClosed, SendToReset, viewerVars, monitorVars, historyVars
  <2> SUFFICES ASSUME races = 0 PROVE StreamInv'
    BY <2>1 DEF StreamInv, IteratorValid, SilentBefore, GaplessStream
  <2>2. it \in mListener /\ it # 0
    BY <1>0, <2>1 DEF StreamInv, IteratorValid, ServTypes
  <2>3. CASE peer[c] = "closed" /\ Advance /\ LoopEnds
    <3>1. \A d \in Conn : sockOf[d] = it => d = c
      BY <1>0, <2>1, <2>2 DEF Sockets, OneOwner
    <3>3. ASSUME NEW d \in Conn, d # c, sockOf[d] \in mListener
          PROVE  UpToDate(d)' = UpToDate(d)
      <4>1. sockOf[d] # it
        BY <3>1, <3>3
      <4> QED
        BY <1>0, <2>1, <2>2, <2>3, <3>3, <4>1, UpToDateSteps
    <3>4. agent' = "up" /\ IteratorValid'
      BY <1>0, <2>1, <2>2, <2>3, IteratorSteps DEF IteratorValid
    <3>5. \A d \in Conn : peer[d] = "open" => d # c
      BY <2>3
    <3>6. GaplessStream'
      BY <2>1, <3>3, <3>5 DEF StreamInv, GaplessStream
    <3>7. SilentBefore'
      BY <2>1 DEF StreamInv, SilentBefore, Never
    <3> QED
      BY <3>4, <3>6, <3>7 DEF StreamInv
  <2>4. CASE agent' = "dead" /\ UNCHANGED <<it, lock>>
    BY <2>1, <2>4, StreamsUntouched
  <2> QED
    BY <2>1, <2>3, <2>4
<1>11. ASSUME SendToNone PROVE StreamInv'
  <2>1. /\ agent = "up" /\ lock = "notify" /\ Owner(it) = {}
        /\ UNCHANGED <<sent, since, races>>
    BY <1>11 DEF SendToNone, historyVars
  <2>2. races # 0
    BY <1>0, <2>1 DEF StreamInv, IteratorValid, Sockets, ListenersAreRegistered
  <2> QED
    BY <2>1, <2>2 DEF StreamInv, IteratorValid, SilentBefore, GaplessStream
<1>12. ASSUME UNCHANGED vars PROVE StreamInv'
  BY <1>12, StreamsUntouched DEF vars, viewerVars, monitorVars, historyVars
<1> QED
  BY <1>1, <1>2, <1>3, <1>4, <1>5, <1>6, <1>7, <1>8, <1>9, <1>10, <1>11, <1>12
  DEF Next, ServThread, NotifyThread

(***************************************************************************)
(* StreamsAreGapless: every registered viewer is sent all lines from its   *)
(* registration on, each once and in order, for any number of viewers and  *)
(* whatever the others do, while no listener is erased under the iterator. *)
(***************************************************************************)
THEOREM StreamsAreGapless == Spec => []GaplessStream
<1>1. StreamInv => GaplessStream
  BY DEF StreamInv
<1> QED
  BY InvariantHolds, InitStreams, StreamsKept, <1>1, PTL DEF Spec

-----------------------------------------------------------------------------
(***************************************************************************)
(* That LogServ implements Delivery.  Again(c) says that c has the line    *)
(* which is being dispatched and may be sent it once more.  The iterator   *)
(* moves up from a listener, so it comes back to nobody; only from one     *)
(* that was erased under it does it go anywhere, and then it stands on a   *)
(* listener again.  What a viewer was sent twice, with what it may still   *)
(* be, is therefore paid for by the listeners that were erased.            *)
(***************************************************************************)
Holds(c) == sent[c] # <<>> /\ sent[c][Len(sent[c])] = lines

Reaches(s) ==
  IF it \in mListener THEN it <= s /\ s \in mListener
                      ELSE s = it \/ s \in mListener

Again(c) == lock = "notify" /\ Holds(c) /\ Reaches(sockOf[c])

Twice(s) == Cardinality(Streams!Repeated(s))

RepeatsPaid == \A c \in Conn : Twice(sent[c]) + (IF Again(c) THEN 1 ELSE 0) <= races

SoFar == \A c \in Conn : \A k \in DOMAIN sent[c] : sent[c][k] <= lines

Unserved ==
  /\ \A c \in Conn : peer[c] = "idle" => sent[c] = <<>>
  /\ \A i \in 1 .. Len(backlog) : sent[backlog[i]] = <<>>

DeliveryInv == RepeatsPaid /\ SoFar /\ Unserved

\* Delivery counts what came twice as it is counted here.
LEMMA SameCount ==
  /\ \A S : Streams!Cardinality(S) = Cardinality(S)
  /\ \A S : C!Stream!Cardinality(S) = Cardinality(S)
BY DEF Streams!Cardinality, C!Stream!Cardinality, Cardinality

\* A line that is added is one more that came twice, or it is not.
LEMMA RepeatedAppend ==
  ASSUME NEW s \in Seq(Line), NEW v \in Line
  PROVE  /\ Twice(s) \in Nat /\ Twice(Append(s, v)) \in Nat
         /\ Twice(Append(s, v)) <=
              Twice(s) + (IF s # <<>> /\ s[Len(s)] = v THEN 1 ELSE 0)
<1>1. PICK n \in Nat : n = Len(s)
  BY LenProperties
<1> DEFINE y == Append(s, v)
           R == Streams!Repeated(s)
           Q == Streams!Repeated(y)
<1>2. Len(y) = n + 1 /\ y[n + 1] = v /\ \A k \in 1 .. n : y[k] = s[k]
  BY <1>1, AppendProperties
<1>3. R = {k \in 2 .. n : s[k] = s[k - 1]}
  BY <1>1 DEF Streams!Repeated
<1>4. Q = {k \in 2 .. n + 1 : y[k] = y[k - 1]}
  BY <1>2 DEF Streams!Repeated
<1>5. IsFiniteSet(2 .. n)
  BY FS_Interval
<1>6. IsFiniteSet(R) /\ Cardinality(R) \in Nat
  BY <1>3, <1>5, FS_Subset, FS_CardinalityType
<1>7. \A k \in 2 .. n : y[k] = s[k] /\ y[k - 1] = s[k - 1]
  BY <1>2
<1>8. s # <<>> <=> n # 0
  BY <1>1, EmptySeq
<1>9. CASE s # <<>> /\ s[n] = v
  <2>1. Q = R \cup {n + 1}
    <3>1. n + 1 \in Q
      BY <1>2, <1>4, <1>8, <1>9
    <3>2. \A k \in 2 .. n + 1 : k \in 2 .. n \/ k = n + 1
      OBVIOUS
    <3>3. \A k \in 2 .. n : k \in 2 .. n + 1
      OBVIOUS
    <3> HIDE DEF R, Q
    <3>4. \A k : k \in Q <=> k \in R \/ k = n + 1
      BY <1>3, <1>4, <1>7, <3>1, <3>2, <3>3
    <3> QED
      BY <3>4
  <2>2. Cardinality(Q) = Cardinality(R) \/ Cardinality(Q) = Cardinality(R) + 1
    <3> HIDE DEF R, Q
    <3> QED
      BY <1>6, <2>1, FS_AddElement
  <2> HIDE DEF R, Q
  <2>3. Cardinality(Q) \in Nat /\ Cardinality(Q) <= Cardinality(R) + 1
    BY <1>6, <2>2
  <2> QED
    BY <1>1, <1>6, <1>9, <2>3 DEF Twice, R, Q
<1>10. CASE ~(s # <<>> /\ s[n] = v)
  <2>1. Q = R
    <3>1. n + 1 \notin Q
      <4>1. ASSUME n + 1 \in 2 .. n + 1 PROVE y[n + 1] # y[(n + 1) - 1]
        <5>1. n # 0 /\ (n + 1) - 1 = n /\ n \in 1 .. n
          BY <4>1
        <5> QED
          BY <1>2, <1>8, <1>10, <5>1
      <4> QED
        BY <1>4, <4>1
    <3>2. \A k \in 2 .. n + 1 : k \in 2 .. n \/ k = n + 1
      OBVIOUS
    <3>3. \A k \in 2 .. n : k \in 2 .. n + 1
      OBVIOUS
    <3> HIDE DEF R, Q
    <3>4. \A k : k \in Q <=> k \in R
      BY <1>3, <1>4, <1>7, <3>1, <3>2, <3>3
    <3> QED
      BY <3>4
  <2> HIDE DEF R, Q
  <2>2. Cardinality(Q) = Cardinality(R) /\ Cardinality(R) <= Cardinality(R) + 0
    BY <1>6, <2>1
  <2> QED
    BY <1>1, <1>6, <1>10, <2>2 DEF Twice, R, Q
<1> QED
  BY <1>9, <1>10

LEMMA TwiceTyped ==
  ASSUME ServTypes, NEW c \in Conn
  PROVE  Twice(sent[c]) \in Nat /\ races \in Nat
<1>1. PICK s \in Seq(Line) : s = sent[c]
  BY DEF ServTypes
<1>2. PICK n \in Nat : n = Len(s)
  BY LenProperties
<1>3. IsFiniteSet(2 .. n)
  BY FS_Interval
<1>4. Streams!Repeated(s) \in SUBSET (2 .. n)
  BY <1>2 DEF Streams!Repeated
<1>5. IsFiniteSet(Streams!Repeated(s))
  BY <1>3, <1>4, FS_Subset
<1>6. Cardinality(Streams!Repeated(s)) \in Nat
  BY <1>5, FS_CardinalityType
<1> QED
  BY <1>1, <1>6 DEF Twice, ServTypes

LEMMA InitDelivery == Init => DeliveryInv /\ Streams!Init
<1> SUFFICES ASSUME Init PROVE DeliveryInv /\ Streams!Init
  OBVIOUS
<1>1. Streams!Repeated(<<>>) = {}
  BY EmptySeq DEF Streams!Repeated
<1>2. Twice(<<>>) = 0
  BY <1>1, FS_EmptySet DEF Twice
<1>3. RepeatsPaid
  <2>1. \A c \in Conn : sent[c] = <<>> /\ ~Again(c)
    BY DEF Init, Again
  <2> QED
    BY <1>2, <2>1 DEF RepeatsPaid, Init
<1> QED
  BY <1>3, EmptySeq, ConstantTypes DEF Init, DeliveryInv, SoFar, Unserved, Streams!Init

\* Steps that send nothing and let nobody who has the line be reached again.
LEMMA NothingSent ==
  ASSUME ServTypes, DeliveryInv, UNCHANGED <<sent, lines, races, backlog>>,
         \A c \in Conn : peer'[c] = "idle" => peer[c] = "idle",
         \A c \in Conn : Again(c)' => Again(c)
  PROVE  DeliveryInv'
<1>1. RepeatsPaid'
  <2> SUFFICES ASSUME NEW c \in Conn
               PROVE  Twice(sent[c]) + (IF Again(c)' THEN 1 ELSE 0) <= races
    BY DEF RepeatsPaid, Twice, Streams!Repeated
  <2>1. Twice(sent[c]) + (IF Again(c) THEN 1 ELSE 0) <= races
    BY DEF DeliveryInv, RepeatsPaid
  <2>2. Twice(sent[c]) \in Nat /\ races \in Nat
    BY TwiceTyped
  <2> QED
    BY <2>1, <2>2
<1> QED
  BY <1>1 DEF DeliveryInv, SoFar, Unserved

\* Steps that leave the loop of DispatchLog and the listeners alone.
LEMMA LoopStill ==
  ASSUME UNCHANGED <<sent, lines, lock, it, mListener>>, NEW c \in Conn,
         Reaches(sockOf'[c]) => sockOf'[c] = sockOf[c] \/ sent[c] = <<>>
  PROVE  Again(c)' => Again(c)
BY DEF Again, Holds, Reaches

\* Wherever the iterator goes, it goes to a listener, and comes to none again
\* that it could not have come to before; nor to the one it has left.
LEMMA LoopGoesOn ==
  ASSUME IInv, Advance, LoopEnds, agent = "up", lock = "notify",
         UNCHANGED <<lines, sockOf, mListener>>,
         NEW c \in Conn, lock' = "notify", Reaches(sockOf[c])'
  PROVE  Reaches(sockOf[c]) /\ sockOf[c] # it
<1>1. ServTypes
  BY DEF IInv
<1>2. it' # 0 /\ it \in Nat /\ it # 0
  BY <1>1, ConstantTypes DEF LoopEnds, ServTypes
<1>3. mListener \subseteq Sock
  BY <1>1 DEF ServTypes
<1>4. PICK s \in Nat : s = sockOf[c]
  BY <1>1, ConstantTypes DEF ServTypes
<1>5. CASE it \in mListener
  <2>1. it' \in mListener /\ it < it' /\ it' \in Nat
    BY <1>1, <1>2, <1>3, <1>5, IteratorSteps, ConstantTypes
  <2>2. it' <= s /\ s \in mListener
    BY <1>4, <2>1 DEF Reaches
  <2> QED
    BY <1>2, <1>4, <1>5, <2>1, <2>2 DEF Reaches
<1>6. CASE it \notin mListener
  <2>1. it' \in mListener
    BY <1>2, <1>6 DEF Advance
  <2>2. s \in mListener
    BY <1>4, <2>1 DEF Reaches
  <2> QED
    BY <1>4, <1>6, <2>2 DEF Reaches
<1> QED
  BY <1>5, <1>6

\* The line that is being dispatched is shown to c, for the second time perhaps.
LEMMA SendDelivers ==
  ASSUME IInv, DeliveryInv, NEW c \in Conn, SendLog(c)
  PROVE  DeliveryInv' /\ Streams!Show(c)
<1>0. ServTypes /\ Sockets
  BY DEF IInv
<1>1. /\ agent = "up" /\ lock = "notify" /\ sockOf[c] = it /\ peer[c] = "open"
      /\ sent' = [sent EXCEPT ![c] = Append(@, lines)]
      /\ Advance /\ LoopEnds
      /\ UNCHANGED <<peer, backlog, lines, sockOf, races, mListener>>
  BY DEF SendLog
<1>2. lines \in Line /\ lines \in Nat /\ it \in Nat /\ it # 0 /\ sent[c] \in Seq(Line)
  BY <1>0, <1>1, ConstantTypes DEF Sockets, Dispatching, ServTypes, Line
<1>3. PICK n \in Nat : n = Len(sent[c])
  BY <1>2, LenProperties
<1>4. /\ Len(sent'[c]) = n + 1
      /\ DOMAIN sent'[c] = 1 .. n + 1 /\ DOMAIN sent[c] = 1 .. n
      /\ \A k \in 1 .. n : sent'[c][k] = sent[c][k] /\ sent[c][k] \in Line
      /\ sent'[c][n + 1] = lines /\ sent'[c] = Append(sent[c], lines)
  <2>1. sent'[c] = Append(sent[c], lines)
    BY <1>0, <1>1 DEF ServTypes
  <2> QED
    BY <1>2, <1>3, <2>1, AppendProperties, LenProperties, ElementOfSeq
<1>5. \A k \in 1 .. n : sent[c][k] <= lines
  BY <1>4 DEF DeliveryInv, SoFar
<1>6. \A d \in Conn : d # c => sent'[d] = sent[d]
  BY <1>0, <1>1 DEF ServTypes
<1>7. Twice(sent'[c]) <= races /\ ~Again(c)'
  <2>1. ~Again(c)'
    BY <1>1, LoopGoesOn DEF Again
  <2>2. Reaches(sockOf[c])
    BY <1>1, <1>2 DEF Reaches
  <2>3. Again(c) <=> sent[c] # <<>> /\ sent[c][n] = lines
    BY <1>1, <1>3, <2>2 DEF Again, Holds
  <2>4. Twice(sent[c]) + (IF Again(c) THEN 1 ELSE 0) <= races
    BY DEF DeliveryInv, RepeatsPaid
  <2>5. PICK a \in Nat, b \in Nat, r \in Nat :
          /\ a = Twice(sent[c]) /\ b = Twice(sent'[c]) /\ r = races
          /\ b <= a + (IF Again(c) THEN 1 ELSE 0)
    BY <1>0, <1>2, <1>3, <1>4, <2>3, RepeatedAppend, TwiceTyped
  <2> QED
    BY <2>1, <2>4, <2>5
<1>8. RepeatsPaid'
  <2> SUFFICES ASSUME NEW d \in Conn
               PROVE  Twice(sent'[d]) + (IF Again(d)' THEN 1 ELSE 0) <= races
    BY <1>1 DEF RepeatsPaid, Twice, Streams!Repeated
  <2>1. CASE d = c
    <3>1. Twice(sent'[c]) \in Nat
      BY <1>2, <1>4, RepeatedAppend
    <3> QED
      BY <1>7, <2>1, <3>1
  <2>2. CASE d # c
    <3>1. Again(d)' => Again(d)
      BY <1>1, <1>6, <2>2, LoopGoesOn DEF Again, Holds
    <3>2. Twice(sent[d]) + (IF Again(d) THEN 1 ELSE 0) <= races
      BY DEF DeliveryInv, RepeatsPaid
    <3>3. Twice(sent[d]) \in Nat /\ races \in Nat
      BY <1>0, TwiceTyped
    <3> QED
      BY <1>6, <2>2, <3>1, <3>2, <3>3
  <2> QED
    BY <2>1, <2>2
<1>9. SoFar'
  <2> SUFFICES ASSUME NEW d \in Conn, NEW k \in DOMAIN sent'[d]
               PROVE  sent'[d][k] <= lines
    BY <1>1 DEF SoFar
  <2> QED
    BY <1>2, <1>4, <1>5, <1>6 DEF DeliveryInv, SoFar
<1>10. Unserved'
  <2>1. \A i \in 1 .. Len(backlog) : backlog[i] # c
    BY <1>0, <1>1, <1>2 DEF Sockets, Queued, Dispatching, ServTypes
  <2>2. \A i \in 1 .. Len(backlog) : backlog[i] \in Conn
    BY <1>0, ElementOfSeq DEF ServTypes
  <2> QED
    BY <1>1, <1>6, <2>1, <2>2 DEF DeliveryInv, Unserved
<1>11. Streams!Show(c)
  <2>1. SubSeq(sent'[c], 1, n) = sent[c]
    BY <1>2, <1>3, <1>4
  <2>2. \A k \in n + 1 .. Len(sent'[c]) :
          sent'[c][k] \in 1 .. lines /\ (k > 1 => sent'[c][k - 1] <= sent'[c][k])
    <3>1. \A k \in n + 1 .. Len(sent'[c]) : k = n + 1
      BY <1>4
    <3>2. lines \in 1 .. lines
      BY <1>2 DEF Line
    <3>3. n + 1 > 1 => n \in 1 .. n /\ (n + 1) - 1 = n
      OBVIOUS
    <3>4. n + 1 > 1 => sent'[c][(n + 1) - 1] <= sent'[c][n + 1]
      BY <1>4, <1>5, <3>3
    <3> QED
      BY <1>4, <3>1, <3>2, <3>4
  <2>3. Streams!Extends(sent'[c], sent[c])
    <3>1. Streams!Cardinality(Streams!Repeated(sent'[c])) <= races
      BY <1>7, SameCount DEF Twice
    <3> QED
      BY <1>3, <1>4, <2>1, <2>2, <3>1 DEF Streams!Extends
  <2>4. sent' = [sent EXCEPT ![c] = sent'[c]]
    BY <1>0, <1>1 DEF ServTypes
  <2> QED
    BY <1>1, <2>3, <2>4 DEF Streams!Show
<1> QED
  BY <1>8, <1>9, <1>10, <1>11 DEF DeliveryInv

\* A listener is erased, under the iterator or elsewhere.
LEMMA EraseDelivers ==
  ASSUME IInv, DeliveryInv, NEW c \in Conn, OnServSocketClose(c)
  PROVE  DeliveryInv' /\ [Streams!Next]_(Streams!vars)
<1>0. ServTypes
  BY DEF IInv
<1>1. /\ mListener' = mListener \ {sockOf[c]}
      /\ races' = IF it = sockOf[c] THEN races + 1 ELSE races
      /\ UNCHANGED <<peer, sent, lines, it, lock, sockOf, backlog>>
  BY DEF OnServSocketClose, viewerVars
<1>2. CASE it = sockOf[c]
  <2>1. races' = races + 1
    BY <1>1, <1>2
  <2>2. RepeatsPaid'
    <3> SUFFICES ASSUME NEW d \in Conn
                 PROVE  Twice(sent[d]) + (IF Again(d)' THEN 1 ELSE 0) <= races + 1
      BY <1>1, <2>1 DEF RepeatsPaid, Twice, Streams!Repeated
    <3>1. Twice(sent[d]) + (IF Again(d) THEN 1 ELSE 0) <= races
      BY DEF DeliveryInv, RepeatsPaid
    <3>2. Twice(sent[d]) \in Nat /\ races \in Nat
      BY <1>0, TwiceTyped
    <3> QED
      BY <3>1, <3>2
  <2>3. Streams!Fault
    BY <1>1, <2>1 DEF Streams!Fault
  <2> QED
    BY <1>1, <2>2, <2>3 DEF DeliveryInv, SoFar, Unserved, Streams!Next
<1>3. CASE it # sockOf[c]
  <2>1. it \in mListener <=> it \in mListener'
    BY <1>1, <1>3
  <2>2. \A d \in Conn : Again(d)' => Again(d)
    BY <1>1, <2>1 DEF Again, Holds, Reaches
  <2>3. races' = races
    BY <1>1, <1>3
  <2> QED
    BY <1>0, <1>1, <2>2, <2>3, NothingSent DEF Streams!vars
<1> QED
  BY <1>2, <1>3

LEMMA DeliveryKept ==
  IInv /\ DeliveryInv /\ [Next]_vars => DeliveryInv' /\ [Streams!Next]_(Streams!vars)
<1> SUFFICES ASSUME IInv, DeliveryInv, [Next]_vars
             PROVE  DeliveryInv' /\ [Streams!Next]_(Streams!vars)
  OBVIOUS
<1>0. ServTypes /\ Sockets
  BY DEF IInv
<1>1. ASSUME UNCHANGED <<sent, lines, races>>
      PROVE  [Streams!Next]_(Streams!vars)
  BY <1>1 DEF Streams!vars
<1>2. ASSUME NEW c \in Conn, Connect(c)
      PROVE  DeliveryInv' /\ UNCHANGED <<sent, lines, races>>
  <2>1. /\ peer[c] = "idle" /\ peer' = [peer EXCEPT ![c] = "open"]
        /\ backlog' = Append(backlog, c)
        /\ UNCHANGED <<sent, lines, it, lock, sockOf, races, mListener>>
    BY <1>2 DEF Connect, ServerOnly, monitorVars, historyVars
  <2>2. sent[c] = <<>> /\ \A d \in Conn : peer'[d] = "idle" => peer[d] = "idle"
    BY <1>0, <2>1 DEF DeliveryInv, Unserved, ServTypes
  <2>3. PICK n \in Nat : n = Len(backlog)
    BY <1>0, LenProperties DEF ServTypes
  <2>4. /\ Len(backlog') = n + 1 /\ backlog'[n + 1] = c
        /\ \A i \in 1 .. n : backlog'[i] = backlog[i]
    BY <1>0, <2>1, <2>3, AppendProperties DEF ServTypes
  <2>5. \A i \in 1 .. Len(backlog') : sent[backlog'[i]] = <<>>
    BY <2>2, <2>3, <2>4 DEF DeliveryInv, Unserved
  <2>6. RepeatsPaid' /\ SoFar'
    BY <2>1 DEF DeliveryInv, RepeatsPaid, SoFar, Again, Holds, Reaches, Twice,
       Streams!Repeated
  <2> QED
    BY <2>1, <2>2, <2>5, <2>6 DEF DeliveryInv, Unserved
<1>3. ASSUME NEW c \in Conn, Disconnect(c)
      PROVE  DeliveryInv' /\ UNCHANGED <<sent, lines, races>>
  <2>1. UNCHANGED <<sent, lines, it, lock, sockOf, backlog, races, mListener>>
    BY <1>3 DEF Disconnect, ServerOnly, monitorVars, historyVars
  <2>2. \A d \in Conn : peer'[d] = "idle" => peer[d] = "idle"
    BY <1>0, <1>3 DEF Disconnect, ServTypes
  <2>3. \A d \in Conn : Again(d)' => Again(d)
    BY <2>1, LoopStill
  <2> QED
    BY <1>0, <2>1, <2>2, <2>3, NothingSent
<1>4. ASSUME Traffic PROVE DeliveryInv' /\ UNCHANGED <<sent, lines, races>>
  <2>1. UNCHANGED <<peer, sent, lines, it, lock, sockOf, backlog, races, mListener>>
    BY <1>4 DEF Traffic, SegmentArrives, ViewerReads, ServerOnly, monitorVars,
       historyVars
  <2>2. \A d \in Conn : Again(d)' => Again(d)
    BY <2>1, LoopStill
  <2> QED
    BY <1>0, <2>1, <2>2, NothingSent
<1>5. ASSUME Accept PROVE DeliveryInv' /\ UNCHANGED <<sent, lines, races>>
  <2>1. /\ backlog # <<>> /\ backlog' = Tail(backlog)
        /\ UNCHANGED <<peer, sent, lines, it, lock, races, mListener>>
        /\ \E s \in Sock : sockOf' = [sockOf EXCEPT ![Head(backlog)] = s]
    BY <1>5 DEF Accept, monitorVars
  <2>2. PICK n \in Nat : n = Len(backlog)
    BY <1>0, LenProperties DEF ServTypes
  <2>3. /\ n # 0 /\ Head(backlog) = backlog[1] /\ Len(backlog') = n - 1
        /\ \A i \in 1 .. n - 1 : backlog'[i] = backlog[i + 1]
    BY <1>0, <2>1, <2>2, HeadTailProperties, EmptySeq DEF ServTypes
  <2>4. sent[Head(backlog)] = <<>>
    BY <2>2, <2>3 DEF DeliveryInv, Unserved
  <2>5. \A i \in 1 .. Len(backlog') : sent[backlog'[i]] = <<>>
    BY <2>2, <2>3 DEF DeliveryInv, Unserved
  <2>6. \A d \in Conn : sockOf'[d] = sockOf[d] \/ sent[d] = <<>>
    BY <1>0, <2>1, <2>4 DEF ServTypes
  <2>7. \A d \in Conn : Again(d)' => Again(d)
    BY <2>1, <2>6, LoopStill
  <2>8. RepeatsPaid'
    <3> SUFFICES ASSUME NEW d \in Conn
                 PROVE  Twice(sent[d]) + (IF Again(d)' THEN 1 ELSE 0) <= races
      BY <2>1 DEF RepeatsPaid, Twice, Streams!Repeated
    <3>1. Twice(sent[d]) + (IF Again(d) THEN 1 ELSE 0) <= races
      BY DEF DeliveryInv, RepeatsPaid
    <3>2. Twice(sent[d]) \in Nat /\ races \in Nat
      BY <1>0, TwiceTyped
    <3> QED
      BY <2>7, <3>1, <3>2
  <2> QED
    BY <2>1, <2>5, <2>8 DEF DeliveryInv, Unserved, SoFar
<1>6. ASSUME NEW c \in Conn, OnServRecvData(c)
      PROVE  DeliveryInv' /\ UNCHANGED <<sent, lines, races>>
  <2>1. /\ UNCHANGED <<peer, sent, lines, it, sockOf, backlog, races>>
        /\ lock' = "free" \/ lock' = "serv"
    BY <1>6 DEF OnServRecvData
  <2>2. \A d \in Conn : ~Again(d)'
    BY <2>1 DEF Again
  <2> QED
    BY <1>0, <2>1, <2>2, NothingSent
<1>7. ASSUME CloseSocket PROVE DeliveryInv' /\ UNCHANGED <<sent, lines, races>>
  <2>1. /\ UNCHANGED <<peer, sent, lines, it, lock, backlog, races, mListener>>
        /\ agent = "up" /\ sockOf' = [sockOf EXCEPT ![servPc] = 0]
    BY <1>7 DEF CloseSocket, viewerVars, monitorVars, historyVars
  <2>2. lock = "notify" => it # 0
    BY <1>0, <2>1 DEF ServTypes
  <2>3. 0 \notin mListener
    BY <1>0, ConstantTypes DEF ServTypes
  <2>4. \A d \in Conn : sockOf'[d] = sockOf[d] \/ sockOf'[d] = 0
    BY <1>0, <2>1 DEF ServTypes
  <2>5. \A d \in Conn : Again(d)' => Again(d)
    BY <2>1, <2>2, <2>3, <2>4 DEF Again, Holds, Reaches
  <2> QED
    BY <1>0, <2>1, <2>5, NothingSent
<1>8. ASSUME DispatchLine PROVE DeliveryInv' /\ Streams!Dispatch
  <2>1. /\ lock = "free" /\ lines' = lines + 1 /\ lines \in Nat
        /\ UNCHANGED <<peer, sent, sockOf, backlog, races>>
    BY <1>0, <1>8 DEF DispatchLine, viewerVars, historyVars, ServTypes
  <2>2. \A c \in Conn : \A k \in DOMAIN sent[c] : sent[c][k] \in Nat
    BY <1>0, ElementOfSeq, LenProperties DEF ServTypes, Line
  <2>3. \A c \in Conn : \A k \in DOMAIN sent[c] :
          sent[c][k] <= lines + 1 /\ sent[c][k] # lines + 1
    BY <2>1, <2>2 DEF DeliveryInv, SoFar
  <2>4. ASSUME NEW d \in Conn PROVE ~Holds(d)'
    <3>1. PICK s \in Seq(Line) : s = sent[d]
      BY <1>0 DEF ServTypes
    <3>2. s # <<>> => Len(s) \in DOMAIN s
      BY EmptySeq, LenProperties
    <3> QED
      BY <2>1, <2>3, <3>1, <3>2 DEF Holds
  <2>5. RepeatsPaid'
    <3> SUFFICES ASSUME NEW d \in Conn
                 PROVE  Twice(sent[d]) + (IF Again(d)' THEN 1 ELSE 0) <= races
      BY <2>1 DEF RepeatsPaid, Twice, Streams!Repeated
    <3>1. Twice(sent[d]) + (IF Again(d) THEN 1 ELSE 0) <= races
      BY DEF DeliveryInv, RepeatsPaid
    <3>2. Twice(sent[d]) \in Nat /\ races \in Nat
      BY <1>0, TwiceTyped
    <3>3. ~Again(d)'
      BY <2>4 DEF Again
    <3> QED
      BY <3>1, <3>2, <3>3
  <2>6. SoFar'
    BY <2>1, <2>3 DEF SoFar
  <2> QED
    BY <2>1, <2>5, <2>6 DEF DeliveryInv, Unserved, Streams!Dispatch
<1>9. ASSUME SendToNone \/ \E c \in Conn : SendToClosed(c) \/ SendToReset(c)
      PROVE  DeliveryInv' /\ UNCHANGED <<sent, lines, races>>
  <2>1. /\ UNCHANGED <<peer, sent, lines, sockOf, backlog, races, mListener>>
        /\ lock = "notify" /\ agent = "up"
        /\ \/ Advance /\ LoopEnds
           \/ UNCHANGED <<it, lock>>
    BY <1>9 DEF SendToClosed, SendToReset, SendToNone, viewerVars, monitorVars,
       historyVars
  <2>2. ASSUME NEW d \in Conn PROVE Again(d)' => Again(d)
    <3>1. CASE Advance /\ LoopEnds
      <4>1. lock' = "notify" /\ Reaches(sockOf[d])' => Reaches(sockOf[d])
        BY <2>1, <3>1, LoopGoesOn
      <4> QED
        BY <2>1, <4>1 DEF Again, Holds
    <3>2. CASE UNCHANGED <<it, lock>>
      BY <2>1, <3>2, LoopStill
    <3> QED
      BY <2>1, <3>1, <3>2
  <2> QED
    BY <1>0, <2>1, <2>2, NothingSent
<1>10. ASSUME UNCHANGED vars PROVE DeliveryInv' /\ UNCHANGED <<sent, lines, races>>
  <2>1. UNCHANGED <<peer, sent, lines, it, lock, sockOf, backlog, races, mListener>>
    BY <1>10 DEF vars, viewerVars, monitorVars, historyVars
  <2>2. \A d \in Conn : Again(d)' => Again(d)
    BY <2>1, LoopStill
  <2> QED
    BY <1>0, <2>1, <2>2, NothingSent
<1>11. \A c \in Conn : SendLog(c) => DeliveryInv' /\ Streams!Show(c)
  BY SendDelivers
<1>12. \A c \in Conn :
         OnServSocketClose(c) => DeliveryInv' /\ [Streams!Next]_(Streams!vars)
  BY EraseDelivers
<1> QED
  BY <1>1, <1>2, <1>3, <1>4, <1>5, <1>6, <1>7, <1>8, <1>9, <1>10, <1>11, <1>12
  DEF Next, ServThread, NotifyThread, Streams!Next

(***************************************************************************)
(* ServImplementsDelivery: the agent's two threads implement Delivery for  *)
(* any number of viewers and lines: Init maps to Init, and every step to   *)
(* the dispatch of a line, to a fault, to a line shown to one viewer, or   *)
(* to nothing.  No line is dispatched that was not read, none comes behind *)
(* a later one, and a listener that is erased under the iterator           *)
(* (LogMonitor.cpp:200, 237), which can send the loop back, costs a viewer *)
(* one line that it is sent twice at most.                                 *)
(***************************************************************************)
THEOREM ServImplementsDelivery == Spec => ServDelivers
<1>1. IInv /\ DeliveryInv /\ [Next]_vars => DeliveryInv'
  BY DeliveryKept
<1>2. IInv /\ DeliveryInv /\ [Next]_vars => [Streams!Next]_(Streams!vars)
  BY DeliveryKept
<1>3. Init => DeliveryInv
  BY InitDelivery
<1>4. Init => Streams!Init
  BY InitDelivery
<1> QED
  BY InvariantHolds, <1>1, <1>2, <1>3, <1>4, PTL DEF Spec, ServDelivers, Streams!Spec

\* ListenersServed: a line goes to viewers that registered, and each of them
\* gets all lines from its registration on.
THEOREM ListenersAreServed == Spec => []ListenersServed
BY OnlyViewersListen, StreamsAreGapless, PTL DEF ListenersServed


-----------------------------------------------------------------------------
(* What viewers send.                                                      *)

LEMMA FrameWords ==
  /\ RegisterFrame \in Seq(Word) /\ Len(RegisterFrame) = 4 /\ Word \subseteq Nat
  /\ RegisterFrame[1] = LogMagic /\ RegisterFrame[2] = 0 /\ RegisterFrame[3] = 4
<1>1. RegisterFrame = <<1000, 0, 4>> \o <<1>>
  BY DEF RegisterFrame, EncodeRegister, Encode, LogMagic, em_cmd_register, HeaderSize
<1>2. PICK s, t : s = <<1000, 0, 4>> /\ t = <<1>>
  <2>1. PICK s : s = <<1000, 0, 4>>
    OBVIOUS
  <2>2. PICK t : t = <<1>>
    OBVIOUS
  <2> QED BY <2>1, <2>2
<1>3. s \in Seq(Nat) /\ t \in Seq(Nat)
  BY <1>2
<1>4. Len(s) = 3 /\ Len(t) = 1 /\ s[1] = 1000 /\ s[2] = 0 /\ s[3] = 4
  BY <1>2
<1>5. PICK f \in Seq(Nat) : f = s \o t
  BY <1>3, ConcatProperties
<1>6. Len(f) = 4 /\ \A i \in 1 .. 4 : f[i] = IF i <= 3 THEN s[i] ELSE t[i - 3]
  <2>1. Len(f) = Len(s) + Len(t)
    BY <1>3, <1>5, ConcatProperties
  <2>2. \A i \in 1 .. Len(s) + Len(t) : f[i] = IF i <= Len(s) THEN s[i] ELSE t[i - Len(s)]
    BY <1>3, <1>5, ConcatProperties
  <2> QED
    BY <1>4, <2>1, <2>2
<1>7. f = RegisterFrame
  BY <1>1, <1>2, <1>5
<1>8. DOMAIN f = 1 .. 4
  BY <1>6, LenProperties
<1>9. \A i \in 1 .. 4 : f[i] \in Nat /\ f[i] \in Word
  BY <1>6, <1>7, <1>8, ElementOfSeq DEF Word
<1>10. f \in Seq(Word)
  BY <1>6, <1>9, SeqNarrows
<1>11. Word \subseteq Nat
  BY <1>7, <1>8, <1>9 DEF Word
<1>12. f[1] = 1000 /\ f[2] = 0 /\ f[3] = 4
  BY <1>4, <1>6
<1> QED
  BY <1>6, <1>7, <1>10, <1>11, <1>12 DEF LogMagic

\* The words of p are those of the register frame behind the first at of them.
Fits(p, at) ==
  at + Len(p) <= 4 /\ \A i \in 1 .. Len(p) : p[i] = RegisterFrame[at + i]

LEMMA FitsConcat ==
  ASSUME NEW p \in Seq(Word), NEW q \in Seq(Word), NEW at \in Nat
  PROVE  Fits(p, at) /\ Fits(q, at + Len(p)) => Fits(p \o q, at)
<1>1. PICK n \in Nat, m \in Nat : n = Len(p) /\ m = Len(q)
  BY LenProperties
<1>2. PICK r \in Seq(Word) : r = p \o q
  BY ConcatProperties
<1>3. Len(r) = n + m /\ \A i \in 1 .. n + m : r[i] = IF i <= n THEN p[i] ELSE q[i - n]
  BY <1>1, <1>2, ConcatProperties
<1> SUFFICES ASSUME Fits(p, at), Fits(q, at + n) PROVE Fits(r, at)
  BY <1>1, <1>2
<1>4. at + (n + m) <= 4
  BY <1>1 DEF Fits
<1>5. ASSUME NEW i \in 1 .. n + m PROVE r[i] = RegisterFrame[at + i]
  <2>1. CASE i <= n
    BY <1>1, <1>3, <2>1 DEF Fits
  <2>2. CASE ~(i <= n)
    <3>1. i - n \in 1 .. m /\ at + n + (i - n) = at + i
      BY <2>2
    <3>2. q[i - n] = RegisterFrame[at + n + (i - n)]
      BY <1>1, <3>1 DEF Fits
    <3> QED
      BY <1>3, <2>2, <3>1, <3>2
  <2> QED
    BY <2>1, <2>2
<1> QED
  BY <1>3, <1>4, <1>5 DEF Fits

LEMMA FitsPieces ==
  ASSUME NEW p \in Seq(Word), NEW at \in Nat, Fits(p, at), NEW k \in 1 .. Len(p)
  PROVE  /\ SubSeq(p, 1, k) \in Seq(Word) /\ Fits(SubSeq(p, 1, k), at)
         /\ Len(SubSeq(p, 1, k)) = k
         /\ SubSeq(p, k + 1, Len(p)) \in Seq(Word)
         /\ Fits(SubSeq(p, k + 1, Len(p)), at + k)
<1>1. PICK n \in Nat : n = Len(p)
  BY LenProperties
<1>2. \A i \in 1 .. n : p[i] \in Word /\ p[i] = RegisterFrame[at + i]
  BY <1>1, ElementOfSeq DEF Fits
<1>3. PICK s, t : s = SubSeq(p, 1, k) /\ t = SubSeq(p, k + 1, n)
  OBVIOUS
<1>4. k \in Nat /\ k <= n /\ at + n <= 4
  BY <1>1 DEF Fits
<1>5. s \in Seq(Word) /\ Len(s) = k /\ \A i \in 1 .. k : s[i] = p[i]
  <2>1. \A i \in 1 .. k : p[i] \in Word
    BY <1>2, <1>4
  <2>2. /\ s \in Seq(Word) /\ Len(s) = IF 1 <= k THEN k - 1 + 1 ELSE 0
        /\ \A i \in 1 .. k - 1 + 1 : s[i] = p[1 + i - 1]
    BY <1>3, <1>4, <2>1, SubSeqProperties
  <2>3. k - 1 + 1 = k /\ 1 <= k /\ \A i \in 1 .. k : 1 + i - 1 = i
    BY <1>1
  <2> QED
    BY <2>2, <2>3
<1>6. t \in Seq(Word) /\ Len(t) = n - k /\ \A i \in 1 .. n - k : t[i] = p[k + i]
  <2>1. \A i \in k + 1 .. n : p[i] \in Word
    BY <1>2, <1>4
  <2>2. /\ t \in Seq(Word) /\ Len(t) = IF k + 1 <= n THEN n - (k + 1) + 1 ELSE 0
        /\ \A i \in 1 .. n - (k + 1) + 1 : t[i] = p[k + 1 + i - 1]
    BY <1>3, <1>4, <2>1, SubSeqProperties
  <2>3. /\ n - (k + 1) + 1 = n - k /\ (~(k + 1 <= n) => n - k = 0)
        /\ \A i \in 1 .. n - k : k + 1 + i - 1 = k + i
    BY <1>4
  <2> QED
    BY <2>2, <2>3
<1>7. Fits(s, at)
  <2>1. \A i \in 1 .. k : i \in 1 .. n
    BY <1>4
  <2>2. \A i \in 1 .. k : s[i] = RegisterFrame[at + i]
    BY <1>2, <1>5, <2>1
  <2>3. at + k <= 4
    BY <1>4
  <2> QED
    BY <1>5, <2>2, <2>3 DEF Fits
<1>8. Fits(t, at + k)
  <2>1. \A i \in 1 .. n : p[i] = RegisterFrame[at + i]
    BY <1>2 DEF Fits
  <2> SUFFICES ASSUME NEW i \in 1 .. n - k PROVE t[i] = RegisterFrame[at + k + i]
    BY <1>4, <1>6 DEF Fits
  <2>2. k + i \in 1 .. n /\ at + (k + i) = at + k + i
    BY <1>4
  <2>3. t[i] = p[k + i]
    BY <1>6
  <2>4. p[k + i] = RegisterFrame[at + (k + i)]
    BY <2>1, <2>2
  <2> QED
    BY <2>2, <2>3, <2>4
<1> QED
  BY <1>1, <1>3, <1>5, <1>6, <1>7, <1>8

\* The beginning of a register frame waits for the rest; the frame is taken.
LEMMA FrameReceived ==
  ASSUME NEW p \in Seq(Word), Fits(p, 0)
  PROVE  /\ GetRecvResult(p).state = "wait"
         /\ IF Len(p) = 4 THEN GetRecvResult(p).packet = <<>>
            ELSE GetRecvResult(p).packet = p
<1>1. PICK b, f : /\ Ends(b, p) /\ Framed(f, p, Word)
                  /\ GetRecvResult(p) = Outcome(p, b[1], f[1])
  BY FrameWords, Received
<1>2. PICK n \in 0 .. 4 : n = Len(p)
  <2>1. PICK n \in Nat : n = Len(p)
    BY LenProperties
  <2>2. n \in 0 .. 4
    BY <2>1 DEF Fits
  <2> QED
    BY <2>1, <2>2
<1>3. \A i \in 1 .. n : p[i] = RegisterFrame[i]
  BY <1>2 DEF Fits
<1>4. PICK end : end = b[1]
  OBVIOUS
<1>5. \A k \in 1 .. n + 1 : Whole(p, k) => n = 4 /\ k = 1
  <2> SUFFICES ASSUME NEW k \in 1 .. n + 1, Whole(p, k) PROVE n = 4 /\ k = 1
    OBVIOUS
  <2>1. n + 1 - k >= 3 /\ n + 1 - k >= p[k + 2]
    BY <1>2 DEF Whole, HeaderSize
  <2>2. CASE k = 1
    <3>1. p[3] = 4
      BY <1>3, <2>1, <2>2, FrameWords
    <3> QED
      BY <2>1, <2>2, <3>1
  <2>3. CASE k # 1
    <3>1. n = 4 /\ k = 2
      BY <2>1, <2>3
    <3>2. p[2] = LogMagic
      BY <3>1 DEF Whole
    <3>3. p[2] = 0
      BY <1>3, <3>1, FrameWords
    <3> QED
      BY <3>2, <3>3 DEF LogMagic
  <2> QED
    BY <2>2, <2>3
<1>6. CASE n = 4
  <2>1. Taken(p, 1) /\ p[3] = 4 /\ ~Taken(p, 5)
    BY <1>2, <1>3, <1>5, <1>6, FrameWords DEF Taken, Whole, HeaderSize
  <2>2. b[1] = b[5] /\ b[5] = 5
    BY <1>1, <1>2, <1>6, <2>1 DEF Ends
  <2>3. ~Bad(p, 5) /\ ~Whole(p, 5)
    BY <1>2, <1>5, <1>6 DEF Bad, HeaderSize
  <2>4. SubSeq(p, 5, 4) = <<>>
    BY SubSeqEmpty
  <2> QED
    BY <1>1, <1>2, <1>6, <2>2, <2>3, <2>4 DEF Outcome
<1>7. CASE n # 4
  <2>1. ~Taken(p, 1) /\ ~Whole(p, 1)
    BY <1>5, <1>7 DEF Taken
  <2>2. b[1] = 1
    BY <1>1, <1>2, <2>1 DEF Ends
  <2>3. ~Bad(p, 1)
    BY <1>2, <1>3, FrameWords DEF Bad, HeaderSize
  <2>4. SubSeq(p, 1, n) = p
    BY <1>2, SubSeqFull
  <2> QED
    BY <1>1, <1>2, <1>7, <2>1, <2>2, <2>3, <2>4 DEF Outcome
<1> QED
  BY <1>6, <1>7

-----------------------------------------------------------------------------
(* TypeOK.                                                                 *)

LEMMA WireTypesKept == IInv /\ WireTypes /\ [Next]_vars => WireTypes'
<1> SUFFICES ASSUME IInv, WireTypes, [Next]_vars PROVE WireTypes'
  OBVIOUS
<1>0. ServTypes /\ Sockets /\ Word' = Word /\ Line' = Line
  BY DEF IInv
<1> USE DEF WireTypes
<1>1. ASSUME NEW c \in Conn, Connect(c) PROVE WireTypes'
  BY <1>0, <1>1, FrameWords DEF Connect, ServerOnly, monitorVars, historyVars
<1>2. ASSUME NEW c \in Conn, Disconnect(c) PROVE WireTypes'
  <2>1. <<>> \in Seq(Word) /\ <<>> \in Seq(Line)
    BY EmptySeq
  <2>2. reset' \subseteq Conn
    BY <1>2 DEF Disconnect
  <2> QED
    BY <1>0, <1>2, <2>1, <2>2 DEF Disconnect, ServerOnly, monitorVars, historyVars
<1>3. ASSUME NEW c \in Conn, SegmentArrives(c) PROVE WireTypes'
  <2>1. PICK o \in Seq(Word), t \in Seq(Word) : o = outbox[c] /\ t = toServ[c]
    OBVIOUS
  <2>2. PICK n \in 1 .. Len(o) :
          /\ toServ' = [toServ EXCEPT ![c] = @ \o SubSeq(outbox[c], 1, n)]
          /\ outbox' = [outbox EXCEPT ![c] = SubSeq(@, n + 1, Len(@))]
    BY <1>3, <2>1 DEF SegmentArrives
  <2>3. PICK m \in Nat : m = Len(o)
    BY LenProperties
  <2>4. \A i \in 1 .. m : o[i] \in Word
    BY <2>3, ElementOfSeq
  <2>5. SubSeq(o, 1, n) \in Seq(Word) /\ SubSeq(o, n + 1, m) \in Seq(Word)
    <3>1. \A i \in 1 .. n : o[i] \in Word
      BY <2>3, <2>4
    <3>2. \A i \in n + 1 .. m : o[i] \in Word
      BY <2>3, <2>4
    <3> QED
      BY <2>3, <3>1, <3>2, SubSeqProperties
  <2>6. t \o SubSeq(o, 1, n) \in Seq(Word)
    BY <2>5, ConcatProperties
  <2>7. toServ' \in [Conn -> Seq(Word)] /\ outbox' \in [Conn -> Seq(Word)]
    BY <2>1, <2>2, <2>3, <2>5, <2>6
  <2> QED
    BY <1>0, <1>3, <2>7 DEF SegmentArrives, ServerOnly, monitorVars, historyVars
<1>4. ASSUME NEW c \in Conn, ViewerReads(c) PROVE WireTypes'
  <2>1. Tail(toView[c]) \in Seq(Line)
    BY <1>4, HeadTailProperties DEF ViewerReads
  <2> QED
    BY <1>0, <1>4, <2>1 DEF ViewerReads, ServerOnly, monitorVars, historyVars
<1>5. ASSUME Accept PROVE WireTypes'
  <2>1. Head(backlog) \in Conn
    BY <1>0, <1>5, HeadTailProperties DEF ServTypes, Accept
  <2> QED
    BY <1>0, <1>5, <2>1 DEF Accept, monitorVars
<1>6. ASSUME NEW c \in Conn, OnServRecvData(c) PROVE WireTypes'
  <2>1. PICK s \in Sock : s = sockOf[c]
    BY <1>0, <1>6, ConstantTypes DEF ServTypes, OnServRecvData, Sock
  <2>2. PICK p \in Seq(Word) : p = mDataCache[s] \o toServ[c]
    BY ConcatProperties
  <2>3. GetRecvResult(p).packet \in Seq(Word) /\ <<>> \in Seq(Word)
    BY FrameWords, ResultTyped, EmptySeq
  <2>4. /\ mDataCache' = [mDataCache EXCEPT ![s] = GetRecvResult(p).packet]
        /\ toServ' = [toServ EXCEPT ![c] = <<>>]
        /\ UNCHANGED <<outbox, toView, reset, inherited>>
    BY <1>6, <2>1, <2>2 DEF OnServRecvData
  <2> QED
    BY <1>0, <2>3, <2>4
<1>7. ASSUME NEW c \in Conn, OnServSocketClose(c) PROVE WireTypes'
  BY <1>0, <1>7 DEF OnServSocketClose, viewerVars
<1>8. ASSUME CloseSocket \/ DispatchLine PROVE WireTypes'
  BY <1>0, <1>8 DEF CloseSocket, DispatchLine, viewerVars, monitorVars, historyVars
<1>9. ASSUME NEW c \in Conn, SendLog(c) PROVE WireTypes'
  <2>1. lines \in Line
    BY <1>0, <1>9 DEF ServTypes, Sockets, Dispatching, SendLog, Line
  <2>2. Append(toView[c], lines) \in Seq(Line)
    BY <2>1, AppendProperties
  <2> QED
    BY <1>0, <1>9, <2>2 DEF SendLog
<1>10. ASSUME SendToNone \/ \E c \in Conn : SendToClosed(c) \/ SendToReset(c)
       PROVE  WireTypes'
  BY <1>0, <1>10
  DEF SendToNone, SendToClosed, SendToReset, viewerVars, monitorVars, historyVars
<1>11. ASSUME UNCHANGED vars PROVE WireTypes'
  BY <1>0, <1>11 DEF vars, viewerVars, monitorVars, historyVars
<1> QED
  BY <1>1, <1>2, <1>3, <1>4, <1>5, <1>6, <1>7, <1>8, <1>9, <1>10, <1>11
  DEF Next, Traffic, ServThread, NotifyThread

LEMMA InitWireTypes == Init => WireTypes
<1>1. <<>> \in Seq(Word) /\ <<>> \in Seq(Line)
  BY EmptySeq
<1> QED
  BY <1>1 DEF Init, WireTypes

(***************************************************************************)
(* TypeCorrect: for any number of viewers, sockets and lines, what is      *)
(* cached of a viewer's bytes is bytes, whatever GetRecvResult cuts off    *)
(* them (LogMonitor.cpp:144), and the rest of the types.                   *)
(***************************************************************************)
THEOREM TypeCorrect == Spec => []TypeOK
<1>1. IInv /\ WireTypes => TypeOK
  BY DEF IInv, TypeOK
<1> QED
  BY InvariantHolds, InitWireTypes, WireTypesKept, <1>1, PTL DEF Spec

-----------------------------------------------------------------------------
(* The first bytes of a connection.                                        *)

Waiting == {backlog[i] : i \in 1 .. Len(backlog)}

Cached(c) == IF sockOf[c] = 0 THEN <<>> ELSE mDataCache[sockOf[c]]

\* What is cached, what has arrived and what has not are one beginning of a
\* register frame.
Onward(c) ==
  /\ Fits(Cached(c), 0) /\ Fits(toServ[c], Len(Cached(c)))
  /\ Fits(outbox[c], Len(Cached(c)) + Len(toServ[c]))

FirstBytes ==
  inherited = {} =>
    /\ lock # "serv"
    /\ \A c \in Conn : sockOf[c] # 0 \/ c \in Waiting => Onward(c)

NothingYet == \A c \in Conn : peer[c] = "idle" => outbox[c] = <<>> /\ toServ[c] = <<>>

BytesInv == FirstBytes /\ NothingYet

LEMMA FitsEmpty == ASSUME NEW at \in 0 .. 4 PROVE Fits(<<>>, at)
<1>1. Len(<<>>) = 0
  BY EmptySeq
<1> QED
  BY <1>1 DEF Fits

LEMMA CachedTyped ==
  ASSUME ServTypes, WireTypes, NEW c \in Conn
  PROVE  Cached(c) \in Seq(Word) /\ toServ[c] \in Seq(Word) /\ outbox[c] \in Seq(Word)
<1>1. sockOf[c] # 0 => sockOf[c] \in Sock
  BY DEF ServTypes, Sock
<1>2. <<>> \in Seq(Word)
  BY EmptySeq
<1> QED
  BY <1>1, <1>2 DEF Cached, WireTypes

\* A connection keeps its bytes while nothing of it changes.
LEMMA OnwardKept ==
  ASSUME NEW c \in Conn, Onward(c), toServ'[c] = toServ[c], outbox'[c] = outbox[c],
         Cached(c)' = Cached(c)
  PROVE  Onward(c)'
BY DEF Onward, Fits, RegisterFrame

LEMMA OnwardNext ==
  ASSUME NEW c \in Conn
  PROVE  Onward(c)' <=>
           /\ Fits(Cached(c)', 0) /\ Fits(toServ'[c], Len(Cached(c)'))
           /\ Fits(outbox'[c], Len(Cached(c)') + Len(toServ'[c]))
BY DEF Onward, Fits, RegisterFrame

LEMMA BytesUntouched ==
  ASSUME BytesInv, lock' # "serv" \/ lock' = lock,
         UNCHANGED <<peer, outbox, toServ, backlog, sockOf, mDataCache, inherited>>
  PROVE  BytesInv'
<1>1. NothingYet'
  BY DEF BytesInv, NothingYet
<1>2. Waiting' = Waiting /\ \A c \in Conn : Cached(c)' = Cached(c)
  BY DEF Waiting, Cached
<1>3. FirstBytes'
  BY <1>2, OnwardKept DEF BytesInv, FirstBytes
<1> QED
  BY <1>1, <1>3 DEF BytesInv

LEMMA BytesKept == IInv /\ WireTypes /\ BytesInv /\ [Next]_vars => BytesInv'
<1> SUFFICES ASSUME IInv, WireTypes, BytesInv, [Next]_vars PROVE BytesInv'
  OBVIOUS
<1>0. ServTypes /\ Sockets
  BY DEF IInv
<1>1. ASSUME NEW c \in Conn, Connect(c) PROVE BytesInv'
  <2>1. /\ peer[c] = "idle" /\ sockOf[c] = 0 /\ toServ[c] = <<>>
        /\ UNCHANGED <<toServ, sockOf, mDataCache, inherited, lock>>
    BY <1>0, <1>1
    DEF Connect, ServerOnly, monitorVars, historyVars, Sockets, Unmade, BytesInv,
        NothingYet
  <2>2. \A d \in Conn : /\ outbox'[d] = IF d = c THEN RegisterFrame ELSE outbox[d]
                        /\ peer'[d] = IF d = c THEN "open" ELSE peer[d]
    BY <1>0, <1>1 DEF Connect, ServTypes, WireTypes
  <2>3. Waiting' = Waiting \cup {c}
    <3>1. PICK n \in Nat : n = Len(backlog)
      BY <1>0, LenProperties DEF ServTypes
    <3>2. /\ Len(backlog') = n + 1 /\ backlog'[n + 1] = c
          /\ \A i \in 1 .. n : backlog'[i] = backlog[i]
      BY <1>0, <1>1, <3>1, AppendProperties DEF ServTypes, Connect
    <3>3. n + 1 \in 1 .. n + 1 /\ \A i \in 1 .. n + 1 : i \in 1 .. n \/ i = n + 1
      OBVIOUS
    <3>4. \A i \in 1 .. n : i \in 1 .. n + 1
      OBVIOUS
    <3> QED
      BY <3>1, <3>2, <3>3, <3>4 DEF Waiting
  <2>4. \A d \in Conn : Cached(d)' = Cached(d)
    BY <2>1 DEF Cached
  <2>5. Onward(c)'
    <3>1. Cached(c)' = <<>> /\ toServ'[c] = <<>> /\ outbox'[c] = RegisterFrame
      BY <2>1, <2>2, <2>4 DEF Cached
    <3>2. Len(<<>>) = 0
      BY EmptySeq
    <3>3. Fits(RegisterFrame, 0) /\ Fits(<<>>, 0)
      BY FrameWords, FitsEmpty DEF Fits
    <3>4. RegisterFrame' = RegisterFrame
      BY DEF RegisterFrame
    <3> QED
      BY <3>1, <3>2, <3>3, <3>4 DEF Onward, Fits
  <2>6. FirstBytes'
    <3> SUFFICES ASSUME inherited = {}, NEW d \in Conn,
                        sockOf[d] # 0 \/ d \in Waiting, d # c
                 PROVE  Onward(d)'
      BY <2>1, <2>3, <2>5 DEF FirstBytes, BytesInv
    <3>1. Onward(d)
      BY DEF BytesInv, FirstBytes
    <3> QED
      BY <2>1, <2>2, <2>4, <3>1, OnwardKept
  <2>7. NothingYet'
    BY <2>1, <2>2 DEF BytesInv, NothingYet
  <2> QED
    BY <2>6, <2>7 DEF BytesInv
<1>2. ASSUME NEW c \in Conn, Disconnect(c) PROVE BytesInv'
  <2>1. /\ UNCHANGED <<toServ, sockOf, mDataCache, inherited, lock, backlog>>
        /\ peer[c] # "idle"
    BY <1>2 DEF Disconnect, ServerOnly, monitorVars, historyVars
  <2>2. \A d \in Conn : /\ outbox'[d] = IF d = c THEN <<>> ELSE outbox[d]
                        /\ peer'[d] = IF d = c THEN "closed" ELSE peer[d]
    BY <1>0, <1>2 DEF Disconnect, ServTypes, WireTypes
  <2>3. Waiting' = Waiting /\ \A d \in Conn : Cached(d)' = Cached(d)
    BY <2>1 DEF Waiting, Cached
  <2>4. Onward(c) => Onward(c)'
    <3> SUFFICES ASSUME Onward(c) PROVE Onward(c)'
      OBVIOUS
    <3>1. PICK p \in Seq(Word), t \in Seq(Word) : p = Cached(c) /\ t = toServ[c]
      BY <1>0, CachedTyped
    <3>2. Len(p) \in Nat /\ Len(t) \in Nat
      BY LenProperties
    <3>3. Len(p) + Len(t) <= 4 /\ Len(p) + Len(t) \in 0 .. 4
      BY <3>1, <3>2 DEF Onward, Fits
    <3>4. Fits(<<>>, Len(p) + Len(t))
      BY <3>3, FitsEmpty
    <3>5. RegisterFrame' = RegisterFrame
      BY DEF RegisterFrame
    <3> QED
      BY <2>1, <2>2, <2>3, <3>1, <3>4, <3>5 DEF Onward, Fits
  <2>5. FirstBytes'
    <3> SUFFICES ASSUME inherited = {}, NEW d \in Conn, sockOf[d] # 0 \/ d \in Waiting
                 PROVE  Onward(d)'
      BY <2>1, <2>3 DEF FirstBytes, BytesInv
    <3>1. Onward(d)
      BY DEF BytesInv, FirstBytes
    <3> QED
      BY <2>1, <2>2, <2>3, <2>4, <3>1, OnwardKept
  <2>6. NothingYet'
    BY <2>1, <2>2 DEF BytesInv, NothingYet
  <2> QED
    BY <2>5, <2>6 DEF BytesInv
<1>3. ASSUME NEW c \in Conn, SegmentArrives(c) PROVE BytesInv'
  <2>1. PICK o \in Seq(Word), t \in Seq(Word), p \in Seq(Word) :
          o = outbox[c] /\ t = toServ[c] /\ p = Cached(c)
    BY <1>0, CachedTyped
  <2>2. PICK n \in 1 .. Len(o) :
          /\ toServ' = [toServ EXCEPT ![c] = @ \o SubSeq(outbox[c], 1, n)]
          /\ outbox' = [outbox EXCEPT ![c] = SubSeq(@, n + 1, Len(@))]
    BY <1>3, <2>1 DEF SegmentArrives
  <2>3. UNCHANGED <<sockOf, mDataCache, inherited, lock, backlog, peer>>
    BY <1>3 DEF SegmentArrives, ServerOnly, monitorVars, historyVars
  <2>4. PICK q, r : q = SubSeq(o, 1, n) /\ r = SubSeq(o, n + 1, Len(o))
    OBVIOUS
  <2>5. \A d \in Conn : /\ toServ'[d] = IF d = c THEN t \o q ELSE toServ[d]
                        /\ outbox'[d] = IF d = c THEN r ELSE outbox[d]
    BY <2>1, <2>2, <2>4 DEF WireTypes
  <2>6. Waiting' = Waiting /\ \A d \in Conn : Cached(d)' = Cached(d)
    BY <2>3 DEF Waiting, Cached
  <2>7. Onward(c) => Onward(c)'
    <3> SUFFICES ASSUME Onward(c) PROVE Onward(c)'
      OBVIOUS
    <3>1. PICK i \in Nat, j \in Nat, k \in Nat : i = Len(p) /\ j = Len(t) /\ k = Len(o)
      BY LenProperties
    <3>2. Fits(p, 0) /\ Fits(t, i) /\ Fits(o, i + j)
      BY <2>1, <3>1 DEF Onward
    <3>3. /\ q \in Seq(Word) /\ Len(q) = n /\ Fits(q, i + j)
          /\ r \in Seq(Word) /\ Fits(r, i + j + n)
      BY <2>4, <3>1, <3>2, FitsPieces
    <3>4. Fits(t \o q, i) /\ Len(t \o q) = j + n
      <4>1. Fits(t \o q, i)
        BY <3>1, <3>2, <3>3, FitsConcat
      <4>2. Len(t \o q) = Len(t) + Len(q)
        BY <3>3, ConcatProperties
      <4> QED
        BY <3>1, <3>3, <4>1, <4>2
    <3>5. i + (j + n) = i + j + n
      BY <3>1
    <3> QED
      BY <2>1, <2>5, <2>6, <3>1, <3>2, <3>3, <3>4, <3>5, OnwardNext
  <2>8. FirstBytes'
    <3> SUFFICES ASSUME inherited = {}, NEW d \in Conn, sockOf[d] # 0 \/ d \in Waiting
                 PROVE  Onward(d)'
      BY <2>3, <2>6 DEF FirstBytes, BytesInv
    <3>1. Onward(d)
      BY DEF BytesInv, FirstBytes
    <3> QED
      BY <2>3, <2>5, <2>6, <2>7, <3>1, OnwardKept
  <2>9. NothingYet'
    <3>1. peer[c] # "idle"
      <4>1. o # <<>>
        BY <2>2, EmptySeq
      <4> QED
        BY <2>1, <4>1 DEF BytesInv, NothingYet
    <3> QED
      BY <2>3, <2>5, <3>1 DEF BytesInv, NothingYet
  <2> QED
    BY <2>8, <2>9 DEF BytesInv
<1>4. ASSUME Accept PROVE BytesInv'
  <2>1. PICK c \in Conn : c = Head(backlog) /\ c = backlog[1] /\ backlog # <<>>
    BY <1>0, <1>4, HeadTailProperties DEF ServTypes, Accept
  <2>2. PICK s \in Sock : /\ sockOf' = [sockOf EXCEPT ![c] = s]
                          /\ inherited' = IF mDataCache[s] = <<>> THEN inherited
                                          ELSE inherited \cup {c}
    BY <1>4, <2>1 DEF Accept
  <2>3. UNCHANGED <<peer, outbox, toServ, mDataCache, lock>>
    BY <1>4 DEF Accept, monitorVars
  <2>4. PICK n \in Nat : n = Len(backlog)
    BY <1>0, LenProperties DEF ServTypes
  <2>5. /\ n # 0 /\ Len(backlog') = n - 1
        /\ \A i \in 1 .. n - 1 : backlog'[i] = backlog[i + 1]
    BY <1>0, <1>4, <2>1, <2>4, HeadTailProperties, EmptySeq DEF ServTypes, Accept
  <2>6. c \in Waiting /\ Waiting' \subseteq Waiting
    <3>1. 1 \in 1 .. n /\ \A i \in 1 .. n - 1 : i + 1 \in 1 .. n
      BY <2>5
    <3>2. c \in Waiting
      BY <2>1, <2>4, <3>1 DEF Waiting
    <3>3. Waiting' = {backlog'[i] : i \in 1 .. n - 1}
      BY <2>5 DEF Waiting
    <3>4. \A i \in 1 .. n - 1 : backlog[i + 1] \in Waiting
      BY <2>4, <3>1 DEF Waiting
    <3> QED
      BY <2>5, <3>2, <3>3, <3>4
  <2>7. sockOf[c] = 0
    <3>1. 1 \in 1 .. Len(backlog)
      BY <2>4, <2>5
    <3> QED
      BY <1>0, <2>1, <3>1 DEF Sockets, Queued
  <2>8. \A d \in Conn : sockOf'[d] = IF d = c THEN s ELSE sockOf[d]
    BY <1>0, <2>1, <2>2 DEF ServTypes
  <2>9. FirstBytes'
    <3> SUFFICES ASSUME inherited' = {} PROVE FirstBytes'
      BY DEF FirstBytes
    <3>1. inherited = {} /\ mDataCache[s] = <<>>
      BY <2>2
    <3>2. Cached(c) = <<>> /\ Cached(c)' = <<>>
      BY <2>1, <2>3, <2>7, <2>8, <3>1 DEF Cached
    <3>3. \A d \in Conn : d # c => Cached(d)' = Cached(d)
      BY <2>3, <2>8 DEF Cached
    <3>4. lock' # "serv"
      BY <2>3, <3>1 DEF BytesInv, FirstBytes
    <3>5. ASSUME NEW d \in Conn, sockOf'[d] # 0 \/ d \in Waiting' PROVE Onward(d)'
      <4>1. sockOf[d] # 0 \/ d \in Waiting
        BY <2>6, <2>8, <3>5
      <4>2. Onward(d)
        BY <3>1, <4>1 DEF BytesInv, FirstBytes
      <4> QED
        BY <2>3, <3>2, <3>3, <4>2, OnwardKept
    <3> QED
      BY <3>4, <3>5 DEF FirstBytes
  <2>10. NothingYet'
    BY <2>3 DEF BytesInv, NothingYet
  <2> QED
    BY <2>9, <2>10 DEF BytesInv
<1>5. ASSUME NEW c \in Conn, OnServRecvData(c) PROVE BytesInv'
  <2>1. PICK s \in Sock : s = sockOf[c] /\ s # 0
    BY <1>0, <1>5, SocketOf DEF OnServRecvData
  <2>2. PICK m \in Seq(Word), t \in Seq(Word), o \in Seq(Word) :
          m = mDataCache[s] /\ t = toServ[c] /\ o = outbox[c]
    BY DEF WireTypes
  <2>3. PICK p \in Seq(Word) : p = m \o t
    BY ConcatProperties
  <2>4. PICK r : r = GetRecvResult(p)
    OBVIOUS
  <2>5. /\ mDataCache' = [mDataCache EXCEPT ![s] = r.packet]
        /\ toServ' = [toServ EXCEPT ![c] = <<>>]
        /\ lock' = IF r.state = "spin" THEN "serv" ELSE "free"
        /\ UNCHANGED <<peer, outbox, sockOf, backlog, inherited>>
    BY <1>5, <2>1, <2>2, <2>3, <2>4 DEF OnServRecvData
  <2>6. /\ \A d \in Conn : toServ'[d] = IF d = c THEN <<>> ELSE toServ[d]
        /\ \A x \in Sock : mDataCache'[x] = IF x = s THEN r.packet ELSE mDataCache[x]
    BY <2>5 DEF WireTypes
  <2>7. FirstBytes'
    <3> SUFFICES ASSUME inherited = {} PROVE FirstBytes'
      BY <2>5 DEF FirstBytes
    <3>1. Onward(c) /\ Cached(c) = m
      BY <2>1, <2>2 DEF BytesInv, FirstBytes, Cached
    <3>2. PICK i \in Nat, j \in Nat : i = Len(m) /\ j = Len(t)
      BY LenProperties
    <3>3. Fits(m, 0) /\ Fits(t, i) /\ Fits(o, i + j)
      BY <2>2, <3>1, <3>2 DEF Onward
    <3>4. Fits(p, 0) /\ Len(p) = i + j
      <4>1. 0 + i = i
        OBVIOUS
      <4> QED
        BY <2>3, <3>2, <3>3, <4>1, FitsConcat, ConcatProperties
    <3>5. r.state = "wait" /\ r.packet = IF i + j = 4 THEN <<>> ELSE p
      BY <2>4, <3>4, FrameReceived
    <3>6. ASSUME NEW d \in Conn, sockOf[d] # 0 \/ d \in Waiting, d # c
          PROVE  Onward(d)'
      <4>1. Onward(d)
        BY <3>6 DEF BytesInv, FirstBytes
      <4>2. Cached(d)' = Cached(d)
        <5>1. CASE sockOf[d] = 0
          BY <2>5, <5>1 DEF Cached
        <5>2. CASE sockOf[d] # 0
          <6>1. sockOf[d] \in Sock
            BY <1>0, <5>2, SocketOf
          <6>2. sockOf[d] # s
            BY <1>0, <2>1, <3>6, <5>2 DEF Sockets, OneOwner
          <6> QED
            BY <2>5, <2>6, <6>1, <6>2 DEF Cached
        <5> QED
          BY <5>1, <5>2
      <4> QED
        BY <2>5, <2>6, <3>6, <4>1, <4>2, OnwardKept
    <3>7. Onward(c)'
      <4>1. Cached(c)' = r.packet /\ toServ'[c] = <<>> /\ outbox'[c] = o
        BY <2>1, <2>2, <2>5, <2>6 DEF Cached
      <4>2. RegisterFrame' = RegisterFrame /\ Len(<<>>) = 0
        BY EmptySeq DEF RegisterFrame
      <4>3. CASE i + j = 4
        <5>1. PICK k \in Nat : k = Len(o)
          BY LenProperties
        <5>2. 4 + k <= 4
          BY <3>3, <4>3, <5>1 DEF Fits
        <5>3. k = 0
          BY <5>2
        <5>4. o = <<>>
          BY <5>1, <5>3, EmptySeq
        <5>5. Fits(<<>>, 0)
          BY FitsEmpty
        <5>6. r.packet = <<>>
          BY <3>5, <4>3
        <5> QED
          BY <4>1, <4>2, <5>4, <5>5, <5>6 DEF Onward, Fits
      <4>4. CASE i + j # 4
        <5>1. r.packet = p /\ i + j \in 0 .. 4
          BY <3>2, <3>4, <3>5, <4>4 DEF Fits
        <5>2. Fits(<<>>, i + j)
          BY <5>1, FitsEmpty
        <5>3. i + j + 0 = i + j
          BY <3>2
        <5> QED
          BY <3>3, <3>4, <4>1, <4>2, <5>1, <5>2, <5>3 DEF Onward, Fits
      <4> QED
        BY <4>3, <4>4
    <3>8. Waiting' = Waiting /\ lock' # "serv"
      BY <2>5, <3>5 DEF Waiting
    <3> QED
      BY <2>5, <3>6, <3>7, <3>8 DEF FirstBytes
  <2>8. NothingYet'
    BY <2>5, <2>6 DEF BytesInv, NothingYet
  <2> QED
    BY <2>7, <2>8 DEF BytesInv
<1>6. ASSUME CloseSocket PROVE BytesInv'
  <2>1. /\ servPc # 0 /\ servPc \in Conn
        /\ sockOf' = [sockOf EXCEPT ![servPc] = 0]
        /\ UNCHANGED <<peer, outbox, toServ, backlog, mDataCache, inherited, lock>>
    BY <1>0, <1>6, ConstantTypes
    DEF ServTypes, CloseSocket, viewerVars, monitorVars, historyVars, Conn
  <2>2. \A d \in Conn : sockOf'[d] = IF d = servPc THEN 0 ELSE sockOf[d]
    BY <1>0, <2>1 DEF ServTypes
  <2>3. Waiting' = Waiting /\ servPc \notin Waiting
    <3>1. sockOf[servPc] # 0
      BY <1>0, <2>1 DEF Sockets, Closing
    <3>2. \A i \in 1 .. Len(backlog) : sockOf[backlog[i]] = 0
      BY <1>0 DEF Sockets, Queued
    <3> QED
      BY <2>1, <3>1, <3>2 DEF Waiting
  <2>4. FirstBytes'
    <3> SUFFICES ASSUME inherited = {}, NEW d \in Conn,
                        sockOf'[d] # 0 \/ d \in Waiting
                 PROVE  Onward(d)'
      BY <2>1, <2>3 DEF FirstBytes, BytesInv
    <3>1. d # servPc
      BY <2>2, <2>3
    <3>2. Onward(d)
      BY <2>2, <3>1 DEF BytesInv, FirstBytes
    <3>3. Cached(d)' = Cached(d)
      BY <2>1, <2>2, <3>1 DEF Cached
    <3> QED
      BY <2>1, <3>2, <3>3, OnwardKept
  <2>5. NothingYet'
    BY <2>1 DEF BytesInv, NothingYet
  <2> QED
    BY <2>4, <2>5 DEF BytesInv
<1>7. ASSUME \/ \E c \in Conn : ViewerReads(c) \/ OnServSocketClose(c)
             \/ DispatchLine \/ NotifyThread \/ UNCHANGED vars
      PROVE  BytesInv'
  <2>1. UNCHANGED <<peer, outbox, toServ, backlog, sockOf, mDataCache, inherited>>
    BY <1>7
    DEF ViewerReads, OnServSocketClose, DispatchLine, NotifyThread, SendLog,
        SendToClosed, SendToReset, SendToNone, ServerOnly, vars, viewerVars,
        monitorVars, historyVars
  <2>2. lock' # "serv" \/ lock' = lock
    BY <1>7
    DEF ViewerReads, OnServSocketClose, DispatchLine, NotifyThread, SendLog,
        SendToClosed, SendToReset, SendToNone, LoopEnds, ServerOnly, vars,
        monitorVars
  <2> QED
    BY <2>1, <2>2, BytesUntouched
<1> QED
  BY <1>1, <1>2, <1>3, <1>4, <1>5, <1>6, <1>7 DEF Next, Traffic, ServThread

LEMMA InitBytes == Init => BytesInv
<1> SUFFICES ASSUME Init PROVE BytesInv
  OBVIOUS
<1>1. Waiting = {}
  BY EmptySeq DEF Init, Waiting
<1> QED
  BY <1>1 DEF Init, BytesInv, FirstBytes, NothingYet

(***************************************************************************)
(* SpinNeedsStaleBytes: GetRecvResult loops for ever, with the lock, only  *)
(* when a connection was given a number whose bytes in mDataCache          *)
(* (LogMonitor.cpp:144) were not its own: by itself, a viewer's register   *)
(* frame never has the length 0, however it is cut and whoever connects    *)
(* and leaves meanwhile.                                                   *)
(***************************************************************************)
THEOREM SpinNeedsStaleBytes == Spec => []SpinsOnStaleBytes
<1>1. BytesInv => SpinsOnStaleBytes
  BY DEF BytesInv, FirstBytes, SpinsOnStaleBytes
<1> QED
  BY InvariantHolds, InitWireTypes, WireTypesKept, InitBytes, BytesKept, <1>1, PTL
  DEF Spec

-----------------------------------------------------------------------------
(* The viewer's end.  First what the operators of LogClient are, and that  *)
(* those it has in common with LogServ mean the same.                      *)

\* A word on the wire to the viewer is a length, a text or a path: never 0.
Field == Nat \ {0}

LogWords(n) == <<1000, 3, 7, 1, 2000, 1, 3000 + n>>

LEMMA SameSelect == \A s, S : C!Select(s, S) = Select(s, S)
  BY DEF C!Select, Select

LEMMA SameResult == \A p : C!GetRecvResult(p) = GetRecvResult(p)
  BY DEF C!GetRecvResult, GetRecvResult, C!HeaderSize, HeaderSize, C!LogMagic, LogMagic

\* Two tuples make a third: how the provers are told what \o gives.
Joins(s, t, u) ==
  /\ Len(u) = Len(s) + Len(t)
  /\ \A i \in 1 .. Len(s) : u[i] = s[i]
  /\ \A i \in 1 .. Len(t) : u[Len(s) + i] = t[i]

LEMMA Joined ==
  ASSUME NEW T, NEW s \in Seq(T), NEW t \in Seq(T), NEW u \in Seq(T), Joins(s, t, u)
  PROVE  s \o t = u
<1>1. PICK n \in Nat, m \in Nat, r \in Seq(T) : n = Len(s) /\ m = Len(t) /\ r = s \o t
  BY LenProperties, ConcatProperties
<1>2. Len(r) = n + m /\ \A i \in 1 .. n + m : r[i] = IF i <= n THEN s[i] ELSE t[i - n]
  BY <1>1, ConcatProperties
<1>3. ASSUME NEW i \in 1 .. n + m PROVE r[i] = u[i]
  <2>1. CASE i <= n
    BY <1>1, <1>2, <2>1 DEF Joins
  <2>2. CASE ~(i <= n)
    <3>1. i - n \in 1 .. m /\ n + (i - n) = i
      BY <2>2
    <3>2. u[n + (i - n)] = t[i - n]
      BY <1>1, <3>1 DEF Joins
    <3> QED
      BY <1>2, <2>2, <3>1, <3>2
  <2> QED
    BY <2>1, <2>2
<1> QED
  BY <1>1, <1>2, <1>3, SeqEqual DEF Joins

LEMMA WordsOfFrame ==
  ASSUME NEW n \in Nat
  PROVE  /\ LogWords(n) \in Seq(Field) /\ Len(LogWords(n)) = 7
         /\ LogWords(n)[1] = 1000 /\ LogWords(n)[2] = 3 /\ LogWords(n)[3] = 7
         /\ LogWords(n)[4] = 1 /\ LogWords(n)[5] = 2000 /\ LogWords(n)[6] = 1
         /\ LogWords(n)[7] = 3000 + n
         /\ C!LogFrame(n) = LogWords(n)
<1>1. C!LogFrame(n) =
        <<1000, 3, 3 + Len(((<<1>> \o <<2000>>) \o <<1>>) \o <<3000 + n>>)>>
          \o (((<<1>> \o <<2000>>) \o <<1>>) \o <<3000 + n>>)
  <2>1. Len(<<2000>>) = 1 /\ Len(<<3000 + n>>) = 1
    OBVIOUS
  <2> QED
    BY <2>1 DEF C!LogFrame, C!EncodeLog, C!Encode, C!Path, C!Text, C!LogMagic,
                C!em_cmd_log, C!HeaderSize
<1> DEFINE a == <<1>>
           b == <<2000>>
           ab == <<1, 2000>>
           aba == <<1, 2000, 1>>
           d == <<3000 + n>>
           abad == <<1, 2000, 1, 3000 + n>>
           h == <<1000, 3, 7>>
<1>2. a \o b = ab
  <2>1. a \in Seq(Nat) /\ b \in Seq(Nat) /\ ab \in Seq(Nat)
    OBVIOUS
  <2>5. /\ Len(a) = 1 /\ Len(b) = 1 /\ Len(ab) = 2
        /\ a[1] = 1 /\ b[1] = 2000 /\ ab[1] = 1 /\ ab[2] = 2000
    OBVIOUS
  <2> HIDE DEF a, b, ab
  <2>2. Joins(a, b, ab)
    BY <2>5 DEF Joins
  <2> QED
    BY <2>1, <2>2, Joined
<1>3. ab \o a = aba
  <2>1. a \in Seq(Nat) /\ ab \in Seq(Nat) /\ aba \in Seq(Nat)
    OBVIOUS
  <2>5. /\ Len(a) = 1 /\ Len(ab) = 2 /\ Len(aba) = 3
        /\ a[1] = 1 /\ ab[1] = 1 /\ ab[2] = 2000
        /\ aba[1] = 1 /\ aba[2] = 2000 /\ aba[3] = 1
    OBVIOUS
  <2> HIDE DEF a, ab, aba
  <2>2. Joins(ab, a, aba)
    BY <2>5 DEF Joins
  <2> QED
    BY <2>1, <2>2, Joined
<1>4. aba \o d = abad
  <2>1. d \in Seq(Nat) /\ aba \in Seq(Nat) /\ abad \in Seq(Nat)
    OBVIOUS
  <2>5. /\ Len(d) = 1 /\ Len(aba) = 3 /\ Len(abad) = 4 /\ d[1] = 3000 + n
        /\ aba[1] = 1 /\ aba[2] = 2000 /\ aba[3] = 1
        /\ abad[1] = 1 /\ abad[2] = 2000 /\ abad[3] = 1 /\ abad[4] = 3000 + n
    OBVIOUS
  <2> HIDE DEF d, aba, abad
  <2>2. Joins(aba, d, abad)
    BY <2>5 DEF Joins
  <2> QED
    BY <2>1, <2>2, Joined
<1>5. Len(<<1, 2000, 1, 3000 + n>>) = 4
  OBVIOUS
<1>6. h \o abad = LogWords(n)
  <2>1. h \in Seq(Nat) /\ abad \in Seq(Nat)
    OBVIOUS
  <2>5. /\ Len(h) = 3 /\ Len(abad) = 4
        /\ h[1] = 1000 /\ h[2] = 3 /\ h[3] = 7
        /\ abad[1] = 1 /\ abad[2] = 2000 /\ abad[3] = 1 /\ abad[4] = 3000 + n
    OBVIOUS
  <2>2. PICK w : w = LogWords(n)
    OBVIOUS
  <2>6. w \in Seq(Nat)
    BY <2>2 DEF LogWords
  <2>3. /\ Len(w) = 7 /\ w[1] = 1000 /\ w[2] = 3 /\ w[3] = 7
        /\ w[4] = 1 /\ w[5] = 2000 /\ w[6] = 1 /\ w[7] = 3000 + n
    BY <2>2 DEF LogWords
  <2> HIDE DEF h, abad
  <2>4. Joins(h, abad, w)
    BY <2>3, <2>5 DEF Joins
  <2>7. h \o abad = w
    BY <2>1, <2>4, <2>6, Joined
  <2> QED
    BY <2>2, <2>7
<1>7. C!LogFrame(n) = LogWords(n)
  BY <1>1, <1>2, <1>3, <1>4, <1>5, <1>6
<1>8. LogWords(n) \in Seq(Field) /\ Len(LogWords(n)) = 7
  BY DEF LogWords, Field
<1> QED
  BY <1>7, <1>8 DEF LogWords

LEMMA FrameSizeIs == C!FrameSize = 7
<1>1. 1 \in Nat
  OBVIOUS
<1> QED
  BY <1>1, WordsOfFrame DEF C!FrameSize

-----------------------------------------------------------------------------
(* The lines in a list of frames, which OnSingleResult reports.            *)

Decoded(fr) == C!LineOf(C!DecodeLog(fr.mContent))

Logs(fs) == Select(fs, C!LogFrames)

LinesOf(fs) == [i \in DOMAIN Logs(fs) |-> Decoded(Logs(fs)[i])]

LEMMA Single ==
  ASSUME NEW c, NEW i \in Nat, c[i] \in Nat
  PROVE  SubSeq(c, i, i) = <<c[i]>>
<1>1. PICK e : e = c[i] /\ e \in Nat
  OBVIOUS
<1>2. PICK s : s = SubSeq(c, i, i)
  OBVIOUS
<1>3. \A j \in i .. i : c[j] \in Nat
  OBVIOUS
<1>4. /\ s \in Seq(Nat) /\ Len(s) = IF i <= i THEN i - i + 1 ELSE 0
      /\ \A j \in 1 .. i - i + 1 : s[j] = c[i + j - 1]
  BY <1>2, <1>3, SubSeqProperties
<1>5. i - i + 1 = 1 /\ i <= i /\ i + 1 - 1 = i /\ 1 \in 1 .. 1
  OBVIOUS
<1>6. s \in Seq(Nat) /\ Len(s) = 1 /\ s[1] = e
  BY <1>1, <1>4, <1>5
<1>7. <<e>> \in Seq(Nat) /\ Len(<<e>>) = 1 /\ <<e>>[1] = e
  BY <1>1
<1>8. PICK r : r = <<e>>
  OBVIOUS
<1>9. r \in Seq(Nat) /\ Len(r) = 1 /\ \A j \in 1 .. 1 : s[j] = r[j]
  BY <1>6, <1>7, <1>8
<1>10. s = r
  BY <1>6, <1>9, SeqEqual
<1> QED
  BY <1>1, <1>2, <1>8, <1>10

LEMMA DecodedType == ASSUME NEW fr PROVE Decoded(fr) \in 0 .. MaxLines
<1> DEFINE info == C!DecodeLog(fr.mContent)
<1>1. CASE info.mFilePath = C!Path /\ \E n \in C!Line : info.mContent = C!Text(n)
  <2>1. PICK m : m = CHOOSE n \in C!Line : info.mContent = C!Text(n)
    OBVIOUS
  <2>2. m \in C!Line
    BY <1>1, <2>1
  <2>3. Decoded(fr) = m
    BY <1>1, <2>1 DEF Decoded, C!LineOf
  <2> QED
    BY <2>2, <2>3, LogServConstants DEF C!Line, LogServConstants
<1>2. CASE ~(info.mFilePath = C!Path /\ \E n \in C!Line : info.mContent = C!Text(n))
  BY <1>2, LogServConstants DEF Decoded, C!LineOf, C!Altered, LogServConstants
<1> QED
  BY <1>1, <1>2

\* A line that comes out of a frame is one of the words of its content.
LEMMA DecodedText ==
  ASSUME NEW fr, fr.mContent \in Seq(Nat), NEW n \in C!Line, Decoded(fr) = n
  PROVE  \E i \in 1 .. Len(fr.mContent) : fr.mContent[i] = 3000 + n
<1> DEFINE info == C!DecodeLog(fr.mContent)
<1>0. n \in Nat \ {0}
  BY LogServConstants DEF C!Line, LogServConstants
<1>1. info.mContent = C!Text(n)
  <2>1. info.mFilePath = C!Path /\ \E m \in C!Line : info.mContent = C!Text(m)
    BY <1>0 DEF Decoded, C!LineOf, C!Altered
  <2>2. n = CHOOSE m \in C!Line : info.mContent = C!Text(m)
    BY <2>1 DEF Decoded, C!LineOf
  <2> QED
    BY <2>1, <2>2
<1>2. PICK c \in Seq(Nat) : c = fr.mContent
  OBVIOUS
<1>3. PICK m \in Nat : m = Len(c)
  BY LenProperties
<1>4. PICK path : path = info.mFilePath
  OBVIOUS
<1>5. PICK pos : pos = Len(path) + 2
  OBVIOUS
<1>6. info.mContent = IF pos \in DOMAIN c /\ pos + c[pos] <= Len(c)
                      THEN SubSeq(c, pos + 1, pos + c[pos]) ELSE <<>>
  BY <1>2, <1>4, <1>5 DEF C!DecodeLog
<1>7. Len(info.mContent) = 1 /\ info.mContent[1] = 3000 + n
  <2>1. Len(<<3000 + n>>) = 1 /\ <<3000 + n>>[1] = 3000 + n
    OBVIOUS
  <2>2. info.mContent = <<3000 + n>>
    BY <1>1 DEF C!Text
  <2> HIDE DEF info
  <2> QED
    BY <2>1, <2>2
<1>8. pos \in DOMAIN c /\ pos + c[pos] <= Len(c)
  <2>1. Len(<<>>) = 0
    OBVIOUS
  <2> QED
    <3> HIDE DEF info
    <3>1. info.mContent # <<>>
      BY <1>7, <2>1
    <3> QED
      BY <1>6, <3>1
<1>9. pos \in 1 .. m
  BY <1>3, <1>8, LenProperties
<1>10. PICK w \in Nat : w = c[pos]
  BY <1>3, <1>9, ElementOfSeq
<1>11. \A i \in pos + 1 .. pos + w : c[i] \in Nat
  <2>1. \A i \in pos + 1 .. pos + w : i \in 1 .. m
    BY <1>3, <1>8, <1>9, <1>10
  <2> QED
    BY <1>3, <2>1, ElementOfSeq
<1>12. PICK s : s = SubSeq(c, pos + 1, pos + w)
  OBVIOUS
<1>13. /\ Len(s) = IF pos + 1 <= pos + w THEN pos + w - (pos + 1) + 1 ELSE 0
       /\ \A i \in 1 .. pos + w - (pos + 1) + 1 : s[i] = c[pos + 1 + i - 1]
  <2>1. PICK i \in Int, j \in Int : i = pos + 1 /\ j = pos + w
    BY <1>9, <1>10
  <2>2. \A k \in i .. j : c[k] \in Nat
    BY <1>11, <2>1
  <2>3. /\ Len(SubSeq(c, i, j)) = IF i <= j THEN j - i + 1 ELSE 0
        /\ \A k \in 1 .. j - i + 1 : SubSeq(c, i, j)[k] = c[i + k - 1]
    BY <2>2, SubSeqProperties
  <2>4. SubSeq(c, i, j) = s
    BY <1>12, <2>1
  <2>5. /\ Len(s) = IF i <= j THEN j - i + 1 ELSE 0
        /\ \A k \in 1 .. j - i + 1 : s[k] = c[i + k - 1]
    BY <2>3, <2>4
  <2>6. PICK N : N = pos + w - (pos + 1) + 1
    OBVIOUS
  <2>7. j - i + 1 = N /\ (i <= j <=> pos + 1 <= pos + w)
    BY <1>9, <1>10, <2>1, <2>6
  <2>8. Len(s) = (IF pos + 1 <= pos + w THEN N ELSE 0)
        /\ \A k \in 1 .. N : s[k] = c[pos + 1 + k - 1]
    BY <2>1, <2>5, <2>7
  <2> QED
    BY <2>6, <2>8
<1>14. Len(s) = 1 /\ s[1] = 3000 + n
  <2>1. info.mContent = SubSeq(c, pos + 1, pos + c[pos])
    BY <1>6, <1>8
  <2>2. info.mContent = s
    <3> HIDE DEF info
    <3> QED
      BY <1>10, <1>12, <2>1
  <2> HIDE DEF info
  <2> QED
    BY <1>7, <2>2
<1>15. w = 1
  <2>1. pos + w - (pos + 1) + 1 = w /\ (pos + 1 <= pos + w <=> w # 0)
    BY <1>9, <1>10
  <2>0. PICK l : l = Len(s)
    OBVIOUS
  <2>4. l = 1
    BY <1>14, <2>0
  <2>2. CASE w = 0
    <3>1. l = 0
      BY <1>13, <2>0, <2>1, <2>2
    <3> QED
      BY <2>4, <3>1
  <2>3. CASE w # 0
    <3>1. l = w
      BY <1>13, <2>0, <2>1, <2>3
    <3> QED
      BY <2>4, <3>1
  <2> QED
    BY <2>2, <2>3
<1>16. s[1] = c[pos + 1] /\ pos + 1 \in 1 .. m
  <2>1. 1 \in 1 .. pos + w - (pos + 1) + 1 /\ pos + 1 + 1 - 1 = pos + 1
    BY <1>9, <1>10, <1>15
  <2>2. pos + 1 \in 1 .. m
    BY <1>3, <1>8, <1>9, <1>10, <1>15
  <2> QED
    BY <1>13, <2>1, <2>2
<1> QED
  BY <1>2, <1>3, <1>14, <1>16

ReadAt(c, pos) ==
  IF pos \in DOMAIN c /\ pos + c[pos] <= Len(c)
  THEN SubSeq(c, pos + 1, pos + c[pos]) ELSE <<>>

LEMMA DecodeLogReads ==
  ASSUME NEW c, Len(ReadAt(c, 1)) = 1
  PROVE  C!DecodeLog(c) = [mFilePath |-> ReadAt(c, 1), mContent |-> ReadAt(c, 3)]
<1>1. PICK path : path = ReadAt(c, 1)
  OBVIOUS
<1>2. PICK m, pos : m = Len(path) /\ pos = m + 2
  OBVIOUS
<1>5. m = 1
  BY <1>1, <1>2
<1>3. pos = 3
  BY <1>2, <1>5
<1>4. C!DecodeLog(c) = [mFilePath |-> path, mContent |-> ReadAt(c, pos)]
  BY <1>1, <1>2 DEF C!DecodeLog, ReadAt
<1> QED
  BY <1>1, <1>3, <1>4

\* A frame that arrives whole is the line that was sent.
LEMMA DecodedWhole ==
  ASSUME NEW fr, NEW n \in C!Line, fr.mContent = <<1, 2000, 1, 3000 + n>>
  PROVE  Decoded(fr) = n
<1>0. n \in Nat \ {0}
  BY LogServConstants DEF C!Line, LogServConstants
<1>1. PICK c : c = <<1, 2000, 1, 3000 + n>>
  OBVIOUS
<1>2. /\ c \in Seq(Nat) /\ Len(c) = 4 /\ DOMAIN c = 1 .. 4
      /\ c[1] = 1 /\ c[2] = 2000 /\ c[3] = 1 /\ c[4] = 3000 + n
  BY <1>0, <1>1
<1>3. \A i \in 1 .. 4 : SubSeq(c, i, i) = <<c[i]>>
  <2> SUFFICES ASSUME NEW i \in 1 .. 4 PROVE SubSeq(c, i, i) = <<c[i]>>
    OBVIOUS
  <2>1. c[i] \in Nat
    BY <1>0, <1>2
  <2> QED
    BY <2>1, Single
<1>4. SubSeq(c, 2, 2) = <<2000>> /\ SubSeq(c, 4, 4) = <<3000 + n>>
  <2>1. c[2] = 2000 /\ c[4] = 3000 + n
    BY <1>2
  <2>2. SubSeq(c, 2, 2) = <<c[2]>> /\ SubSeq(c, 4, 4) = <<c[4]>>
    BY <1>3
  <2> QED
    BY <2>1, <2>2
<1>5. Len(<<2000>>) = 1
  OBVIOUS
<1>6. C!DecodeLog(c) = [mFilePath |-> <<2000>>, mContent |-> <<3000 + n>>]
  <2>1. ReadAt(c, 1) = <<2000>> /\ ReadAt(c, 3) = <<3000 + n>>
    BY <1>2, <1>4 DEF ReadAt
  <2>2. Len(ReadAt(c, 1)) = 1
    BY <1>5, <2>1
  <2> QED
    BY <2>1, <2>2, DecodeLogReads
<1>7. PICK info : info = C!DecodeLog(c)
  OBVIOUS
<1>8. info.mFilePath = C!Path /\ info.mContent = C!Text(n)
  BY <1>6, <1>7 DEF C!Path, C!Text
<1>9. \A m \in C!Line : info.mContent = C!Text(m) => m = n
  <2> SUFFICES ASSUME NEW m \in C!Line, C!Text(m) = C!Text(n) PROVE m = n
    BY <1>8
  <2>1. m \in Nat
    BY LogServConstants DEF C!Line, LogServConstants
  <2>2. <<3000 + m>>[1] = <<3000 + n>>[1]
    BY DEF C!Text
  <2> QED
    BY <1>0, <2>1, <2>2
<1>10. n = CHOOSE m \in C!Line : info.mContent = C!Text(m)
  BY <1>8, <1>9
<1>11. \E m \in C!Line : info.mContent = C!Text(m)
  BY <1>8
<1>12. C!LineOf(info) = n
  BY <1>8, <1>10, <1>11 DEF C!LineOf
<1> QED
  BY <1>1, <1>7, <1>12 DEF Decoded

LEMMA LinesTyped ==
  ASSUME NEW T, NEW fs \in Seq(T)
  PROVE  LinesOf(fs) \in Seq(0 .. MaxLines) /\ Len(LinesOf(fs)) = Len(Logs(fs))
<1>1. Logs(fs) \in Seq(T \cap C!LogFrames)
  BY SelectType DEF Logs
<1>2. PICK m \in Nat : m = Len(Logs(fs))
  BY <1>1, LenProperties
<1>3. DOMAIN Logs(fs) = 1 .. m
  BY <1>1, <1>2, LenProperties
<1>4. LinesOf(fs) \in [1 .. m -> 0 .. MaxLines]
  BY <1>3, DecodedType DEF LinesOf
<1>5. LinesOf(fs) \in Seq(0 .. MaxLines)
  <2> DEFINE V == 0 .. MaxLines
  <2>1. LinesOf(fs) \in [1 .. m -> V]
    BY <1>4
  <2> HIDE DEF V
  <2>2. LinesOf(fs) \in Seq(V)
    BY <2>1, SeqDef
  <2> QED
    BY <2>2 DEF V
<1>6. DOMAIN LinesOf(fs) = 1 .. m /\ DOMAIN LinesOf(fs) = 1 .. Len(LinesOf(fs))
      /\ Len(LinesOf(fs)) \in Nat
  BY <1>4, <1>5, LenProperties
<1>7. Len(LinesOf(fs)) = m
  BY <1>6
<1> QED
  BY <1>2, <1>5, <1>7

LEMMA LinesEmpty == LinesOf(<<>>) = <<>>
<1>1. Logs(<<>>) = <<>>
  BY SelectEmpty DEF Logs
<1>2. <<>> \in Seq({}) /\ Len(<<>>) = 0
  BY EmptySeq
<1>3. LinesOf(<<>>) \in Seq(0 .. MaxLines) /\ Len(LinesOf(<<>>)) = 0
  BY <1>1, <1>2, LinesTyped
<1> QED
  BY <1>3, EmptySeq

LEMMA LinesSplit ==
  ASSUME NEW T, NEW fr \in T, NEW fs \in Seq(T)
  PROVE  LinesOf(<<fr>> \o fs) =
           IF fr \in C!LogFrames THEN <<Decoded(fr)>> \o LinesOf(fs) ELSE LinesOf(fs)
<1>1. <<fr>> \in Seq(T) /\ <<>> \in Seq(T) /\ <<fr>> = Append(<<>>, fr)
  BY EmptySeq
<1>2. Select(<<fr>>, C!LogFrames) =
        IF fr \in C!LogFrames THEN Append(<<>>, fr) ELSE <<>>
  <2>1. Select(Append(<<>>, fr), C!LogFrames) =
          IF fr \in C!LogFrames THEN Append(Select(<<>>, C!LogFrames), fr)
          ELSE Select(<<>>, C!LogFrames)
    BY <1>1, SelectAppend
  <2>2. Select(<<>>, C!LogFrames) = <<>>
    BY SelectEmpty
  <2> QED
    BY <1>1, <2>1, <2>2
<1>3. Logs(<<fr>> \o fs) = Select(<<fr>>, C!LogFrames) \o Logs(fs)
  BY <1>1, SelectConcat DEF Logs
<1>4. PICK q \in Seq(T \cap C!LogFrames) : q = Logs(fs)
  BY SelectType DEF Logs
<1>5. PICK m \in Nat : m = Len(q) /\ DOMAIN q = 1 .. m
  BY LenProperties
<1>6. CASE fr \in C!LogFrames
  <2>1. <<fr>> \in Seq(T \cap C!LogFrames) /\ Len(<<fr>>) = 1 /\ <<fr>>[1] = fr
    BY <1>6
  <2>2. PICK r \in Seq(T \cap C!LogFrames) : r = <<fr>> \o q
    BY <2>1, ConcatProperties
  <2>3. Len(r) = 1 + m /\ \A i \in 1 .. 1 + m : r[i] = IF i <= 1 THEN fr ELSE q[i - 1]
    <3>1. Len(r) = Len(<<fr>>) + Len(q)
      BY <2>1, <2>2, ConcatProperties
    <3>2. \A i \in 1 .. Len(<<fr>>) + Len(q) :
            r[i] = IF i <= Len(<<fr>>) THEN <<fr>>[i] ELSE q[i - Len(<<fr>>)]
      BY <2>1, <2>2, ConcatProperties
    <3> QED
      BY <1>5, <2>1, <3>1, <3>2
  <2>4. Logs(<<fr>> \o fs) = r
    BY <1>1, <1>2, <1>3, <1>4, <1>6, <2>2
  <2>5. <<fr>> \o fs \in Seq(T)
    BY <1>1, ConcatProperties
  <2>6. PICK u \in Seq(0 .. MaxLines) : u = LinesOf(<<fr>> \o fs)
    BY <2>5, LinesTyped
  <2>7. PICK v \in Seq(0 .. MaxLines) : v = LinesOf(fs)
    BY LinesTyped
  <2>8. Len(u) = 1 + m /\ Len(v) = m
    BY <1>4, <1>5, <2>3, <2>4, <2>5, <2>6, <2>7, LinesTyped
  <2>9. DOMAIN r = 1 .. 1 + m
    BY <2>3, LenProperties
  <2>10. \A i \in 1 .. 1 + m : u[i] = Decoded(r[i])
    BY <2>4, <2>6, <2>9 DEF LinesOf
  <2>11. \A i \in 1 .. m : v[i] = Decoded(q[i])
    BY <1>4, <1>5, <2>7 DEF LinesOf
  <2>12. PICK d \in 0 .. MaxLines : d = Decoded(fr)
    BY DecodedType
  <2>13. <<d>> \in Seq(0 .. MaxLines) /\ Len(<<d>>) = 1 /\ <<d>>[1] = d
    OBVIOUS
  <2>14. PICK t \in Seq(0 .. MaxLines) : t = <<d>> \o v
    BY <2>13, ConcatProperties
  <2>15. Len(t) = 1 + m /\ \A i \in 1 .. 1 + m : t[i] = IF i <= 1 THEN d ELSE v[i - 1]
    <3>1. Len(t) = Len(<<d>>) + Len(v)
      BY <2>13, <2>14, ConcatProperties
    <3>2. \A i \in 1 .. Len(<<d>>) + Len(v) :
            t[i] = IF i <= Len(<<d>>) THEN <<d>>[i] ELSE v[i - Len(<<d>>)]
      BY <2>13, <2>14, ConcatProperties
    <3> QED
      BY <2>8, <2>13, <3>1, <3>2
  <2>16. ASSUME NEW i \in 1 .. 1 + m PROVE u[i] = t[i]
    <3>1. CASE i = 1
      BY <2>3, <2>10, <2>12, <2>15, <3>1
    <3>2. CASE i # 1
      <4>1. i - 1 \in 1 .. m /\ ~(i <= 1)
        BY <3>2
      <4>2. r[i] = q[i - 1] /\ t[i] = v[i - 1] /\ v[i - 1] = Decoded(q[i - 1])
        BY <2>3, <2>11, <2>15, <4>1
      <4> QED
        BY <2>10, <4>2
    <3> QED
      BY <3>1, <3>2
  <2>17. u = t
    BY <2>8, <2>15, <2>16, SeqEqual
  <2> QED
    BY <1>6, <2>6, <2>7, <2>12, <2>14, <2>17
<1>7. CASE fr \notin C!LogFrames
  <2>1. Logs(<<fr>> \o fs) = Logs(fs)
    BY <1>2, <1>3, <1>4, <1>7, ConcatEmptySeq
  <2> QED
    BY <1>7, <2>1 DEF LinesOf
<1> QED
  BY <1>6, <1>7

LEMMA SelectCons ==
  ASSUME NEW T, NEW e \in T, NEW s \in Seq(T), NEW S
  PROVE  Select(<<e>> \o s, S) = IF e \in S THEN <<e>> \o Select(s, S) ELSE Select(s, S)
<1>1. <<e>> \in Seq(T) /\ <<>> \in Seq(T) /\ <<e>> = Append(<<>>, e)
  BY EmptySeq
<1>2. Select(<<e>>, S) = IF e \in S THEN <<e>> ELSE <<>>
  <2>1. Select(Append(<<>>, e), S) =
          IF e \in S THEN Append(Select(<<>>, S), e) ELSE Select(<<>>, S)
    BY <1>1, SelectAppend
  <2>2. Select(<<>>, S) = <<>>
    BY SelectEmpty
  <2> QED
    BY <1>1, <2>1, <2>2
<1>3. Select(<<e>> \o s, S) = Select(<<e>>, S) \o Select(s, S)
  BY <1>1, SelectConcat
<1>4. Select(s, S) \in Seq(T \cap S)
  BY SelectType
<1> QED
  BY <1>2, <1>3, <1>4, ConcatEmptySeq

-----------------------------------------------------------------------------
(* What a packet is made of, when connections may have ended inside frames. *)

\* What is left of the frame of line n that begins at k: its words, as far as the
\* bytes of x are of the same connection as the first of them.
FrameFrom(x, age, k, n) ==
  \A j \in 0 .. 6 :
    k + j \in 1 .. Len(x) /\ age[k + j] = age[k] => x[k + j] = LogWords(n)[j + 1]

(***************************************************************************)
(* Ages: age numbers the connections that the bytes of x came by, no       *)
(* higher than top, with one more for what is still to come.  It rises     *)
(* only where a frame begins, and from each beginning there is a frame up  *)
(* to where the connection ended.                                          *)
(***************************************************************************)
Ages(age, x, top) ==
  /\ age \in [1 .. Len(x) + 1 -> 0 .. top]
  /\ \A i, j \in 1 .. Len(x) + 1 : i <= j => age[i] <= age[j]
  /\ \A k \in 2 .. Len(x) : age[k - 1] = age[k] \/ x[k] = LogMagic
  /\ \A k \in 1 .. Len(x) : x[k] = LogMagic => \E n \in C!Line : FrameFrom(x, age, k, n)

AlteredIn(fs) == Len(Select(LinesOf(fs), {0}))

LEMMA AlteredTyped ==
  ASSUME NEW T, NEW fs \in Seq(T)
  PROVE  AlteredIn(fs) \in Nat
<1>1. LinesOf(fs) \in Seq(0 .. MaxLines)
  BY LinesTyped
<1>2. Select(LinesOf(fs), {0}) \in Seq((0 .. MaxLines) \cap {0})
  BY <1>1, SelectType
<1> QED
  BY <1>2, LenProperties DEF AlteredIn

LEMMA AlteredSplit ==
  ASSUME NEW T, NEW fr \in T, NEW fs \in Seq(T)
  PROVE  /\ AlteredIn(fs) \in Nat /\ AlteredIn(<<fr>> \o fs) <= AlteredIn(fs) + 1
         /\ (fr \in C!LogFrames => Decoded(fr) # 0)
              => AlteredIn(<<fr>> \o fs) = AlteredIn(fs)
<1>1. PICK d \in 0 .. MaxLines : d = Decoded(fr)
  BY DecodedType
<1>2. PICK ls \in Seq(0 .. MaxLines) : ls = LinesOf(fs)
  BY LinesTyped
<1>3. LinesOf(<<fr>> \o fs) = IF fr \in C!LogFrames THEN <<d>> \o ls ELSE ls
  BY <1>1, <1>2, LinesSplit
<1>4. PICK q \in Seq((0 .. MaxLines) \cap {0}) : q = Select(ls, {0})
  BY SelectType
<1>5. PICK m \in Nat : m = Len(q) /\ m = AlteredIn(fs)
  BY <1>2, <1>4, LenProperties DEF AlteredIn
<1>6. Select(<<d>> \o ls, {0}) = IF d \in {0} THEN <<d>> \o q ELSE q
  <2> DEFINE V == 0 .. MaxLines
  <2>1. d \in V /\ ls \in Seq(V)
    OBVIOUS
  <2> HIDE DEF V
  <2>2. Select(<<d>> \o ls, {0}) =
          IF d \in {0} THEN <<d>> \o Select(ls, {0}) ELSE Select(ls, {0})
    BY <2>1, SelectCons
  <2> QED
    BY <1>4, <2>2
<1>7. d = 0 => Len(<<d>> \o q) = m + 1
  <2> SUFFICES ASSUME d = 0 PROVE Len(<<d>> \o q) = m + 1
    OBVIOUS
  <2>1. <<d>> \in Seq((0 .. MaxLines) \cap {0}) /\ Len(<<d>>) = 1
    BY LogServConstants DEF LogServConstants
  <2>2. Len(<<d>> \o q) = Len(<<d>>) + Len(q)
    BY <2>1, ConcatProperties
  <2> QED
    BY <1>5, <2>1, <2>2
<1>8. PICK a : a = AlteredIn(<<fr>> \o fs)
  OBVIOUS
<1>9. CASE fr \in C!LogFrames /\ d = 0
  <2>1. a = Len(<<d>> \o q)
    BY <1>3, <1>6, <1>8, <1>9 DEF AlteredIn
  <2> QED
    BY <1>1, <1>5, <1>7, <1>8, <1>9, <2>1
<1>10. CASE ~(fr \in C!LogFrames /\ d = 0)
  <2>1. a = m
    BY <1>2, <1>3, <1>4, <1>5, <1>6, <1>8, <1>10 DEF AlteredIn
  <2> QED
    BY <1>5, <1>8, <2>1
<1> QED
  BY <1>9, <1>10

Alike(s, t) == Len(s) = Len(t) /\ \A i \in 1 .. Len(s) : s[i] = t[i]

LEMMA AlikeEqual ==
  ASSUME NEW T, NEW s \in Seq(T), NEW t \in Seq(T), Alike(s, t)
  PROVE  s = t
BY SeqEqual DEF Alike

LEMMA FourWords ==
  ASSUME NEW s \in Seq(Nat), NEW n \in Nat, Len(s) = 4,
         s[1] = 1 /\ s[2] = 2000 /\ s[3] = 1 /\ s[4] = 3000 + n
  PROVE  s = <<1, 2000, 1, 3000 + n>>
<1>1. PICK t : t = <<1, 2000, 1, 3000 + n>>
  OBVIOUS
<1>2. /\ t \in Seq(Nat) /\ Len(t) = 4
      /\ t[1] = 1 /\ t[2] = 2000 /\ t[3] = 1 /\ t[4] = 3000 + n
  BY <1>1
<1>3. \A i \in 1 .. 4 : s[i] = t[i]
  BY <1>2
<1>5. Alike(s, t)
  BY <1>2, <1>3 DEF Alike
<1>6. t \in Seq(Nat)
  BY <1>2
<1>4. s = t
  BY <1>5, <1>6, AlikeEqual
<1> QED
  BY <1>1, <1>4

\* What a frame is that was taken.
LEMMA FrameContent ==
  ASSUME NEW p, p \in Seq(Field), NEW k \in 1 .. Len(p) + 1, Taken(p, k)
  PROVE  /\ k + 2 \in 1 .. Len(p) /\ p[k] = LogMagic
         /\ p[k + 2] \in Nat \ {0} /\ k + p[k + 2] <= Len(p) + 1
         /\ FrameAt(p, k) \in Frame(Field) /\ FrameAt(p, k).mContent \in Seq(Nat)
         /\ FrameAt(p, k).mCommand = p[k + 1]
         /\ Len(FrameAt(p, k).mContent) = IF p[k + 2] >= 3 THEN p[k + 2] - 3 ELSE 0
         /\ \A i \in 1 .. p[k + 2] - 3 : FrameAt(p, k).mContent[i] = p[k + 2 + i]
<1>1. PICK n \in Nat : n = Len(p)
  BY LenProperties
<1>2. n + 1 - k >= 3 /\ n + 1 - k >= p[k + 2] /\ p[k + 2] # 0 /\ p[k] = LogMagic
  BY <1>1 DEF Taken, Whole, HeaderSize
<1>3. k + 1 \in 1 .. n /\ k + 2 \in 1 .. n
  BY <1>1, <1>2
<1>4. PICK m \in Nat \ {0} : m = p[k + 2]
  <2>1. p[k + 2] \in Field
    BY <1>1, <1>3, ElementOfSeq
  <2> QED
    BY <2>1 DEF Field
<1>5. k + m <= n + 1
  BY <1>1, <1>2, <1>4
<1>6. FrameAt(p, k) \in Frame(Field)
  <2>1. Field \subseteq Nat
    BY DEF Field
  <2> QED
    BY <2>1, TakenInside
<1>7. PICK s \in Seq(Field) : s = FrameAt(p, k).mContent
  BY <1>6 DEF Frame
<1>8. s = SubSeq(p, k + 3, k + m - 1) /\ FrameAt(p, k).mCommand = p[k + 1]
  BY <1>4, <1>7 DEF FrameAt, HeaderSize
<1>9. PICK i \in Int, j \in Int : i = k + 3 /\ j = k + m - 1
  OBVIOUS
<1>10. \A x \in i .. j : p[x] \in Field
  <2>1. \A x \in i .. j : x \in 1 .. n
    BY <1>5, <1>9
  <2> QED
    BY <1>1, <2>1, ElementOfSeq
<1>11. /\ Len(SubSeq(p, i, j)) = IF i <= j THEN j - i + 1 ELSE 0
       /\ \A x \in 1 .. j - i + 1 : SubSeq(p, i, j)[x] = p[i + x - 1]
  BY <1>10, SubSeqProperties
<1>12. j - i + 1 = m - 3 /\ (i <= j <=> m > 3) /\ (m = 3 => m - 3 = 0)
  BY <1>9
<1>13. Len(s) = IF m >= 3 THEN m - 3 ELSE 0
  <2>1. Len(s) = IF i <= j THEN j - i + 1 ELSE 0
    BY <1>8, <1>9, <1>11
  <2> QED
    BY <1>12, <2>1
<1>14. \A x \in 1 .. m - 3 : s[x] = p[k + 2 + x]
  <2> SUFFICES ASSUME NEW x \in 1 .. m - 3 PROVE s[x] = p[k + 2 + x]
    OBVIOUS
  <2>1. i + x - 1 = k + 2 + x
    BY <1>9
  <2>2. s[x] = p[i + x - 1]
    BY <1>8, <1>9, <1>11, <1>12
  <2> QED
    BY <2>1, <2>2
<1>15. s \in Seq(Nat)
  <2>1. Field \subseteq Nat
    BY DEF Field
  <2> QED
    BY <2>1, SeqMonotonic
<1> QED
  BY <1>1, <1>2, <1>3, <1>4, <1>5, <1>6, <1>7, <1>8, <1>13, <1>14, <1>15

\* A frame is whole and its line comes out, or it spans the end of a connection.
LEMMA TakenPays ==
  ASSUME NEW p, p \in Seq(Field), NEW top \in Nat, NEW age, Ages(age, p, top),
         NEW k \in 1 .. Len(p) + 1, Taken(p, k)
  PROVE  \/ age[k] < age[k + p[k + 2]]
         \/ /\ age[k] <= age[k + p[k + 2]]
            /\ Decoded(FrameAt(p, k)) # 0
<1>1. PICK n \in Nat : n = Len(p)
  BY LenProperties
<1>2. PICK m \in Nat \ {0} : m = p[k + 2]
  BY FrameContent
<1>3. k + 2 \in 1 .. n /\ k + m <= n + 1 /\ p[k] = LogMagic
  BY <1>1, <1>2, FrameContent
<1>4. /\ \A i \in 1 .. n + 1 : age[i] \in Nat
      /\ \A i, j \in 1 .. n + 1 : i <= j => age[i] <= age[j]
      /\ \A i \in 2 .. n : age[i - 1] = age[i] \/ p[i] = LogMagic
      /\ \A i \in 1 .. n : p[i] = LogMagic => \E l \in C!Line : FrameFrom(p, age, i, l)
  <2>1. \A i \in 1 .. n + 1 : age[i] \in Nat
    BY <1>1 DEF Ages
  <2>2. \A i, j \in 1 .. n + 1 : i <= j => age[i] <= age[j]
    BY <1>1 DEF Ages
  <2>3. \A i \in 2 .. n : age[i - 1] = age[i] \/ p[i] = LogMagic
    BY <1>1 DEF Ages
  <2>4. \A i \in 1 .. n : p[i] = LogMagic => \E l \in C!Line : FrameFrom(p, age, i, l)
    BY <1>1 DEF Ages
  <2> QED
    BY <2>1, <2>2, <2>3, <2>4
<1>5. PICK l \in C!Line : FrameFrom(p, age, k, l)
  BY <1>3, <1>4
<1>6. l \in Nat \ {0}
  BY LogServConstants DEF C!Line, LogServConstants
<1>7. \A j \in 0 .. 6 : k + j \in 1 .. n /\ age[k + j] = age[k]
                          => p[k + j] = LogWords(l)[j + 1]
  BY <1>1, <1>5 DEF FrameFrom
<1>8. CASE age[k + 2] = age[k]
  <2>1. m = 7
    <3>1. p[k + 2] = LogWords(l)[2 + 1]
      BY <1>3, <1>7, <1>8
    <3> QED
      BY <1>2, <1>6, <3>1, WordsOfFrame
  <2>2. k + 6 \in 1 .. n /\ k + 7 \in 1 .. n + 1
    BY <1>3, <2>1
  <2>3. CASE age[k + 6] = age[k]
    <3>1. ASSUME NEW j \in 3 .. 6 PROVE p[k + j] = LogWords(l)[j + 1]
      <4>1. k + j \in 1 .. n /\ j \in 0 .. 6
        BY <2>2
      <4>2. age[k] <= age[k + j] /\ age[k + j] <= age[k + 6]
        BY <1>3, <1>4, <2>2, <4>1
      <4>3. age[k + j] = age[k]
        BY <1>3, <1>4, <2>2, <2>3, <4>1, <4>2
      <4> QED
        BY <1>7, <4>1, <4>3
    <3>2. p[k + 3] = 1 /\ p[k + 4] = 2000 /\ p[k + 5] = 1 /\ p[k + 6] = 3000 + l
      <4>1. /\ p[k + 3] = LogWords(l)[3 + 1] /\ p[k + 4] = LogWords(l)[4 + 1]
            /\ p[k + 5] = LogWords(l)[5 + 1] /\ p[k + 6] = LogWords(l)[6 + 1]
        BY <3>1
      <4> QED
        BY <1>6, <4>1, WordsOfFrame
    <3>3. PICK s \in Seq(Nat) : s = FrameAt(p, k).mContent
      BY FrameContent
    <3>4. Len(s) = 4 /\ \A i \in 1 .. 4 : s[i] = p[k + 2 + i]
      <4>1. /\ Len(s) = IF m >= 3 THEN m - 3 ELSE 0
            /\ \A i \in 1 .. m - 3 : s[i] = p[k + 2 + i]
        BY <1>2, <3>3, FrameContent
      <4>2. m >= 3 /\ m - 3 = 4
        BY <2>1
      <4> QED
        BY <4>1, <4>2
    <3>5. s[1] = 1 /\ s[2] = 2000 /\ s[3] = 1 /\ s[4] = 3000 + l
      <4>1. k + 2 + 1 = k + 3 /\ k + 2 + 2 = k + 4 /\ k + 2 + 3 = k + 5 /\ k + 2 + 4 = k + 6
        OBVIOUS
      <4>2. s[1] = p[k + 2 + 1] /\ s[2] = p[k + 2 + 2]
        BY <3>4
      <4>3. s[3] = p[k + 2 + 3] /\ s[4] = p[k + 2 + 4]
        BY <3>4
      <4> QED
        BY <3>2, <4>1, <4>2, <4>3
    <3>9. s = <<1, 2000, 1, 3000 + l>>
      BY <1>6, <3>4, <3>5, FourWords
    <3>10. Decoded(FrameAt(p, k)) = l
      <4>1. FrameAt(p, k).mContent = <<1, 2000, 1, 3000 + l>>
        BY <3>3, <3>9
      <4> QED
        BY <4>1, DecodedWhole
    <3>11. age[k] <= age[k + 7]
      BY <1>3, <1>4, <2>2
    <3> QED
      BY <1>2, <1>6, <2>1, <3>10, <3>11
  <2>4. CASE age[k + 6] # age[k]
    <3>1. age[k] <= age[k + 6] /\ age[k + 6] <= age[k + 7]
      BY <1>3, <1>4, <2>2
    <3>2. age[k] \in Nat /\ age[k + 6] \in Nat /\ age[k + 7] \in Nat
      BY <1>3, <1>4, <2>2
    <3> QED
      BY <1>2, <2>1, <2>4, <3>1, <3>2
  <2> QED
    BY <2>3, <2>4
<1>9. CASE age[k + 2] # age[k]
  <2>1. k + 1 \in 1 .. n /\ k + 1 \in 2 .. n /\ k + 2 \in 2 .. n /\ k \in 1 .. n
    BY <1>3
  <2>2. m >= 2
    <3>1. CASE age[k + 1] # age[k + 2]
      <4>1. (k + 2) - 1 = k + 1
        OBVIOUS
      <4>2. p[k + 2] = LogMagic
        BY <1>4, <2>1, <3>1, <4>1
      <4> QED
        BY <1>2, <4>2 DEF LogMagic
    <3>2. CASE age[k + 1] = age[k + 2]
      <4>1. (k + 1) - 1 = k /\ (k + 1) + 1 = k + 2
        OBVIOUS
      <4>2. p[k + 1] = LogMagic
        BY <1>4, <1>9, <2>1, <3>2, <4>1
      <4>3. PICK h \in C!Line : FrameFrom(p, age, k + 1, h)
        BY <1>4, <2>1, <4>2
      <4>4. h \in Nat
        BY LogServConstants DEF C!Line, LogServConstants
      <4>5. p[(k + 1) + 1] = LogWords(h)[1 + 1]
        <5>1. 1 \in 0 .. 6 /\ (k + 1) + 1 \in 1 .. n /\ age[(k + 1) + 1] = age[k + 1]
          BY <1>3, <3>2, <4>1
        <5> QED
          BY <1>1, <4>3, <5>1 DEF FrameFrom
      <4>6. p[k + 2] = 3
        <5>1. LogWords(h)[1 + 1] = 3
          BY <4>4, WordsOfFrame
        <5> QED
          BY <4>1, <4>5, <5>1
      <4> QED
        BY <1>2, <4>6
    <3> QED
      BY <3>1, <3>2
  <2>3. k + m \in 1 .. n + 1 /\ k + 2 <= k + m
    BY <1>3, <2>2
  <2>4. age[k] <= age[k + 2] /\ age[k + 2] <= age[k + m]
    BY <1>3, <1>4, <2>1, <2>3
  <2>5. age[k] \in Nat /\ age[k + 2] \in Nat /\ age[k + m] \in Nat
    BY <1>3, <1>4, <2>1, <2>3
  <2>6. age[k] < age[k + m]
    BY <1>9, <2>4, <2>5
  <2>7. age[k] < age[k + p[k + 2]]
    BY <1>2, <2>6
  <2> QED
    BY <2>7
<1> QED
  BY <1>8, <1>9

-----------------------------------------------------------------------------
(* What comes out of a packet.  Each by induction from its end.            *)

\* The frames that come out cost the lines that are altered a connection each.
LEMMA PacketPays ==
  ASSUME NEW p, p \in Seq(Field), NEW top \in Nat, NEW age, Ages(age, p, top),
         NEW b, Ends(b, p), NEW f, Framed(f, p, Field)
  PROVE  \A k \in 1 .. Len(p) + 1 : age[k] + AlteredIn(f[k]) <= age[b[k]]
<1>1. PICK n \in Nat : n = Len(p) + 1
  BY LenProperties
<1>2. /\ b \in [1 .. n -> 1 .. n]
      /\ \A k \in 1 .. n : b[k] = IF Taken(p, k) THEN b[k + p[k + 2]] ELSE k
  BY <1>1 DEF Ends
<1>3. /\ f \in [1 .. n -> Seq(Frame(Field))]
      /\ \A k \in 1 .. n :
           f[k] = IF Taken(p, k) THEN <<FrameAt(p, k)>> \o f[k + p[k + 2]] ELSE <<>>
  BY <1>1 DEF Framed
<1>4. \A k \in 1 .. n : age[k] \in Nat
  BY <1>1 DEF Ages
<1> DEFINE A == {k \in 1 .. n : age[k] + AlteredIn(f[k]) <= age[b[k]]}
<1>5. ASSUME NEW k \in 1 .. n, \A j \in k + 1 .. n : j \in A PROVE k \in A
  <2>1. CASE Taken(p, k)
    <3>1. PICK fr \in Frame(Field), x \in k + 1 .. n :
            fr = FrameAt(p, k) /\ x = k + p[k + 2]
      <4>1. Field \subseteq Nat
        BY DEF Field
      <4> QED
        BY <1>1, <2>1, <4>1, TakenInside
    <3>2. PICK fs \in Seq(Frame(Field)) : fs = f[x]
      BY <1>3
    <3>3. f[k] = <<fr>> \o fs /\ b[k] = b[x]
      BY <1>2, <1>3, <2>1, <3>1, <3>2
    <3>4. age[x] + AlteredIn(fs) <= age[b[x]]
      BY <1>5, <3>2
    <3>5. \/ age[k] < age[x]
          \/ age[k] <= age[x] /\ Decoded(fr) # 0
      BY <1>1, <2>1, <3>1, TakenPays
    <3>6. /\ AlteredIn(fs) \in Nat /\ AlteredIn(<<fr>> \o fs) <= AlteredIn(fs) + 1
          /\ Decoded(fr) # 0 => AlteredIn(<<fr>> \o fs) = AlteredIn(fs)
      BY AlteredSplit
    <3>7. AlteredIn(<<fr>> \o fs) \in Nat
      <4>1. <<fr>> \o fs \in Seq(Frame(Field))
        BY <1>3, <3>3
      <4> QED
        BY <4>1, AlteredTyped
    <3>8. age[k] \in Nat /\ age[x] \in Nat /\ age[b[x]] \in Nat
      BY <1>2, <1>4
    <3>9. age[k] + AlteredIn(<<fr>> \o fs) <= age[b[x]]
      <4>1. PICK a \in Nat, c \in Nat : a = AlteredIn(fs) /\ c = AlteredIn(<<fr>> \o fs)
        BY <3>6, <3>7
      <4>2. PICK u \in Nat, v \in Nat, w \in Nat : u = age[k] /\ v = age[x] /\ w = age[b[x]]
        BY <3>8
      <4>3. v + a <= w /\ c <= a + 1
        BY <3>4, <3>6, <4>1, <4>2
      <4>4. u < v \/ (u <= v /\ c = a)
        BY <3>5, <3>6, <4>1, <4>2
      <4>5. u + c <= w
        BY <4>3, <4>4
      <4> QED
        BY <4>1, <4>2, <4>5
    <3> QED
      BY <3>3, <3>9
  <2>2. CASE ~Taken(p, k)
    <3>1. f[k] = <<>> /\ b[k] = k
      BY <1>2, <1>3, <2>2
    <3>2. AlteredIn(<<>>) = 0
      <4>1. Len(<<>>) = 0
        OBVIOUS
      <4> QED
        BY <4>1, LinesEmpty, SelectEmpty DEF AlteredIn
    <3> QED
      BY <1>4, <3>1, <3>2
  <2> QED
    BY <2>1, <2>2
<1>6. 1 .. n \subseteq A
  <2> HIDE DEF A
  <2> QED
    BY <1>5, Descends
<1> QED
  BY <1>1, <1>6

Increasing(s) == \A i, j \in 1 .. Len(s) : i < j => s[i] < s[j]

TextsRise(x) ==
  \A i, j \in 1 .. Len(x) : i < j /\ x[i] > 3000 /\ x[j] > 3000 => x[i] < x[j]

ShownIn(fs) == Select(LinesOf(fs), C!Line)

\* The word w is in p, not before k and before e.
Found(w, p, k, e) == \E j \in 1 .. Len(p) : k <= j /\ j < e /\ p[j] = w

\* The lines in q come out of p between k and e.
Comes(q, p, k, e) ==
  /\ q \in Seq(C!Line) /\ Increasing(q)
  /\ \A i \in 1 .. Len(q) : Found(3000 + q[i], p, k, e)

LEMMA FrameText ==
  ASSUME NEW p, p \in Seq(Field), NEW k \in 1 .. Len(p) + 1, Taken(p, k),
         NEW d \in C!Line, Decoded(FrameAt(p, k)) = d
  PROVE  Found(3000 + d, p, k, k + p[k + 2])
<1>1. PICK n \in Nat : n = Len(p)
  BY LenProperties
<1>2. PICK m \in Nat \ {0} : m = p[k + 2]
  BY FrameContent
<1>3. PICK fr : fr = FrameAt(p, k)
  OBVIOUS
<1>4. PICK s \in Seq(Nat) : s = fr.mContent
  BY <1>3, FrameContent
<1>5. /\ k + m <= n + 1
      /\ Len(s) = IF m >= 3 THEN m - 3 ELSE 0
      /\ \A i \in 1 .. m - 3 : s[i] = p[k + 2 + i]
  <2>1. k + m <= n + 1
    BY <1>1, <1>2, FrameContent
  <2>2. Len(s) = IF m >= 3 THEN m - 3 ELSE 0
    BY <1>2, <1>3, <1>4, FrameContent
  <2>3. \A i \in 1 .. m - 3 : s[i] = p[k + 2 + i]
    BY <1>2, <1>3, <1>4, FrameContent
  <2> QED
    BY <2>1, <2>2, <2>3
<1>6. PICK i \in 1 .. Len(s) : s[i] = 3000 + d
  BY <1>3, <1>4, DecodedText
<1>7. i \in 1 .. m - 3
  BY <1>5
<1>8. k + 2 + i \in 1 .. n /\ k <= k + 2 + i /\ k + 2 + i < k + m
  BY <1>5, <1>7
<1>9. p[k + 2 + i] = 3000 + d
  BY <1>5, <1>6, <1>7
<1> QED
  BY <1>1, <1>2, <1>8, <1>9 DEF Found

\* One more in front.
LEMMA ComesBefore ==
  ASSUME NEW p, p \in Seq(Field), TextsRise(p), NEW k \in Nat, NEW x \in Nat,
         NEW e \in Nat, NEW q, Comes(q, p, x, e), k <= x, x <= e
  PROVE  /\ Comes(q, p, k, e)
         /\ \A d \in C!Line : Found(3000 + d, p, k, x) => Comes(<<d>> \o q, p, k, e)
<1>1. PICK n \in Nat : n = Len(p)
  BY LenProperties
<1>2. PICK m \in Nat : q \in Seq(C!Line) /\ m = Len(q)
  BY LenProperties DEF Comes
<1>3. \A i \in 1 .. m : \E j \in 1 .. n : x <= j /\ j < e /\ p[j] = 3000 + q[i]
  BY <1>1, <1>2 DEF Comes, Found
<1>4. \A i \in 1 .. m : q[i] \in Nat \ {0}
  <2>1. \A i \in 1 .. m : q[i] \in C!Line
    BY <1>2, ElementOfSeq
  <2> QED
    BY <2>1, LogServConstants DEF C!Line, LogServConstants
<1>5. Comes(q, p, k, e)
  <2>1. \A i \in 1 .. m : \E j \in 1 .. n : k <= j /\ j < e /\ p[j] = 3000 + q[i]
    BY <1>3
  <2>2. Increasing(q)
    BY DEF Comes
  <2> QED
    BY <1>1, <1>2, <2>1, <2>2 DEF Comes, Found
<1>6. ASSUME NEW d \in C!Line, NEW h \in 1 .. n, k <= h, h < x, p[h] = 3000 + d
      PROVE  Comes(<<d>> \o q, p, k, e)
  <2>0. d \in Nat \ {0}
    BY LogServConstants DEF C!Line, LogServConstants
  <2>1. <<d>> \in Seq(C!Line) /\ Len(<<d>>) = 1 /\ <<d>>[1] = d
    BY <2>0
  <2>2. PICK r \in Seq(C!Line) : r = <<d>> \o q
    BY <1>2, <2>1, ConcatProperties
  <2>3. Len(r) = 1 + m /\ \A i \in 1 .. 1 + m : r[i] = IF i <= 1 THEN d ELSE q[i - 1]
    <3>1. Len(r) = Len(<<d>>) + Len(q)
      BY <1>2, <2>1, <2>2, ConcatProperties
    <3>2. \A i \in 1 .. Len(<<d>>) + Len(q) :
            r[i] = IF i <= Len(<<d>>) THEN <<d>>[i] ELSE q[i - Len(<<d>>)]
      BY <1>2, <2>1, <2>2, ConcatProperties
    <3> QED
      BY <1>2, <2>1, <3>1, <3>2
  <2>4. \A i \in 1 .. n : p[i] \in Nat
    BY <1>1, ElementOfSeq DEF Field
  <2>5. \A i \in 1 .. m : d < q[i]
    <3> SUFFICES ASSUME NEW i \in 1 .. m PROVE d < q[i]
      OBVIOUS
    <3>1. PICK j \in 1 .. n : x <= j /\ j < e /\ p[j] = 3000 + q[i]
      BY <1>3
    <3>2. q[i] \in Nat \ {0}
      BY <1>4
    <3>3. p[h] > 3000 /\ p[j] > 3000 /\ h < j
      BY <1>6, <2>0, <3>1, <3>2
    <3>4. p[h] < p[j]
      BY <1>1, <3>3 DEF TextsRise
    <3> QED
      BY <1>6, <2>0, <3>1, <3>2, <3>4
  <2>6. Increasing(r)
    <3> SUFFICES ASSUME NEW i \in 1 .. 1 + m, NEW j \in 1 .. 1 + m, i < j
                 PROVE  r[i] < r[j]
      BY <2>3 DEF Increasing
    <3>1. j - 1 \in 1 .. m /\ r[j] = q[j - 1]
      BY <2>3
    <3>2. CASE i = 1
      BY <2>3, <2>5, <3>1, <3>2
    <3>3. CASE i # 1
      <4>1. i - 1 \in 1 .. m /\ r[i] = q[i - 1] /\ i - 1 < j - 1
        BY <2>3, <3>3
      <4>2. \A a, c \in 1 .. m : a < c => q[a] < q[c]
        BY <1>2 DEF Comes, Increasing
      <4> QED
        BY <3>1, <4>1, <4>2
    <3> QED
      BY <3>2, <3>3
  <2>7. ASSUME NEW i \in 1 .. 1 + m
        PROVE  \E j \in 1 .. n : k <= j /\ j < e /\ p[j] = 3000 + r[i]
    <3>1. CASE i = 1
      <4>1. r[i] = d /\ h < e
        BY <1>6, <2>3, <3>1
      <4> QED
        BY <1>6, <4>1
    <3>2. CASE i # 1
      <4>0. i - 1 \in 1 .. m /\ ~(i <= 1)
        BY <3>2
      <4>1. i - 1 \in 1 .. m /\ r[i] = q[i - 1]
        BY <2>3, <4>0
      <4>2. PICK j \in 1 .. n : x <= j /\ j < e /\ p[j] = 3000 + q[i - 1]
        BY <1>3, <4>1
      <4>3. k <= j
        BY <4>2
      <4> QED
        BY <4>1, <4>2, <4>3
    <3> QED
      BY <3>1, <3>2
  <2>8. \A i \in 1 .. Len(r) : Found(3000 + r[i], p, k, e)
    BY <1>1, <2>3, <2>7 DEF Found
  <2>9. Comes(r, p, k, e)
    BY <2>2, <2>6, <2>8 DEF Comes
  <2> QED
    BY <2>2, <2>9
<1>7. ASSUME NEW d \in C!Line, Found(3000 + d, p, k, x) PROVE Comes(<<d>> \o q, p, k, e)
  <2>1. PICK h \in 1 .. n : k <= h /\ h < x /\ p[h] = 3000 + d
    BY <1>1, <1>7 DEF Found
  <2> QED
    BY <1>6, <2>1
<1> QED
  BY <1>5, <1>7

LEMMA ShownSplit ==
  ASSUME NEW T, NEW fr \in T, NEW fs \in Seq(T)
  PROVE  /\ ShownIn(fs) \in Seq(C!Line)
         /\ ShownIn(<<fr>> \o fs) =
              IF fr \in C!LogFrames /\ Decoded(fr) \in C!Line
              THEN <<Decoded(fr)>> \o ShownIn(fs) ELSE ShownIn(fs)
<1>1. PICK d \in 0 .. MaxLines : d = Decoded(fr)
  BY DecodedType
<1>2. PICK ls \in Seq(0 .. MaxLines) : ls = LinesOf(fs)
  BY LinesTyped
<1>3. LinesOf(<<fr>> \o fs) = IF fr \in C!LogFrames THEN <<d>> \o ls ELSE ls
  BY <1>1, <1>2, LinesSplit
<1>4. Select(<<d>> \o ls, C!Line) =
        IF d \in C!Line THEN <<d>> \o Select(ls, C!Line) ELSE Select(ls, C!Line)
  <2> DEFINE V == 0 .. MaxLines
  <2>1. d \in V /\ ls \in Seq(V)
    OBVIOUS
  <2> HIDE DEF V
  <2> QED
    BY <2>1, SelectCons
<1>5. ShownIn(fs) \in Seq(C!Line)
  <2>1. Select(ls, C!Line) \in Seq((0 .. MaxLines) \cap C!Line)
    BY SelectType
  <2> QED
    BY <1>2, <2>1, SeqMonotonic DEF ShownIn
<1> QED
  BY <1>1, <1>2, <1>3, <1>4, <1>5 DEF ShownIn

LEMMA ComesEmpty ==
  ASSUME NEW p, NEW k \in Nat
  PROVE  Comes(<<>>, p, k, k)
<1>1. <<>> \in Seq(C!Line) /\ Len(<<>>) = 0
  BY EmptySeq
<1>2. 1 .. Len(<<>>) = {}
  BY <1>1
<1> QED
  BY <1>1, <1>2 DEF Comes, Increasing

LEMMA PacketTexts ==
  ASSUME NEW p, p \in Seq(Field), TextsRise(p),
         NEW b, Ends(b, p), NEW f, Framed(f, p, Field)
  PROVE  \A k \in 1 .. Len(p) + 1 : k <= b[k] /\ Comes(ShownIn(f[k]), p, k, b[k])
<1>1. PICK n \in Nat : n = Len(p) + 1
  BY LenProperties
<1>2. /\ b \in [1 .. n -> 1 .. n]
      /\ \A k \in 1 .. n : b[k] = IF Taken(p, k) THEN b[k + p[k + 2]] ELSE k
  BY <1>1 DEF Ends
<1>3. /\ f \in [1 .. n -> Seq(Frame(Field))]
      /\ \A k \in 1 .. n :
           f[k] = IF Taken(p, k) THEN <<FrameAt(p, k)>> \o f[k + p[k + 2]] ELSE <<>>
  BY <1>1 DEF Framed
<1> DEFINE A == {k \in 1 .. n : k <= b[k] /\ Comes(ShownIn(f[k]), p, k, b[k])}
<1>4. ASSUME NEW k \in 1 .. n, \A j \in k + 1 .. n : j \in A PROVE k \in A
  <2>1. CASE Taken(p, k)
    <3>1. PICK fr \in Frame(Field), x \in k + 1 .. n :
            fr = FrameAt(p, k) /\ x = k + p[k + 2]
      <4>1. Field \subseteq Nat
        BY DEF Field
      <4> QED
        BY <1>1, <2>1, <4>1, TakenInside
    <3>2. PICK fs \in Seq(Frame(Field)) : fs = f[x]
      BY <1>3
    <3>3. f[k] = <<fr>> \o fs /\ b[k] = b[x]
      BY <1>2, <1>3, <2>1, <3>1, <3>2
    <3>4. PICK e \in 1 .. n : e = b[x]
      BY <1>2
    <3>5. x <= e /\ Comes(ShownIn(fs), p, x, e)
      BY <1>4, <3>2, <3>4
    <3>6. /\ Comes(ShownIn(fs), p, k, e)
          /\ \A d \in C!Line :
               Found(3000 + d, p, k, x) => Comes(<<d>> \o ShownIn(fs), p, k, e)
      <4>1. k \in Nat /\ x \in Nat /\ e \in Nat /\ k <= x
        OBVIOUS
      <4> QED
        BY <3>5, <4>1, ComesBefore
    <3>7. Comes(ShownIn(<<fr>> \o fs), p, k, e)
      <4>1. CASE fr \in C!LogFrames /\ Decoded(fr) \in C!Line
        <5>1. PICK d \in C!Line : d = Decoded(fr)
          BY <4>1
        <5>2. Found(3000 + d, p, k, x)
          BY <1>1, <2>1, <3>1, <5>1, FrameText
        <5>3. ShownIn(<<fr>> \o fs) = <<d>> \o ShownIn(fs)
          BY <4>1, <5>1, ShownSplit
        <5>4. Comes(<<d>> \o ShownIn(fs), p, k, e)
          <6>1. k \in Nat /\ x \in Nat /\ e \in Nat /\ k <= x /\ x <= e
            BY <3>5
          <6>2. PICK q : q = ShownIn(fs) /\ Comes(q, p, x, e)
            BY <3>5
          <6>3. Comes(<<d>> \o q, p, k, e)
            BY <5>2, <6>1, <6>2, ComesBefore
          <6> QED
            BY <6>2, <6>3
        <5> QED
          BY <5>3, <5>4, Zenon
      <4>2. CASE ~(fr \in C!LogFrames /\ Decoded(fr) \in C!Line)
        BY <3>6, <4>2, ShownSplit
      <4> QED
        BY <4>1, <4>2
    <3>8. k <= e
      BY <3>5
    <3> QED
      BY <3>3, <3>4, <3>7, <3>8
  <2>2. CASE ~Taken(p, k)
    <3>1. f[k] = <<>> /\ b[k] = k
      BY <1>2, <1>3, <2>2
    <3>2. ShownIn(<<>>) = <<>>
      BY LinesEmpty, SelectEmpty DEF ShownIn
    <3> QED
      BY <3>1, <3>2, ComesEmpty
  <2> QED
    BY <2>1, <2>2
<1>5. 1 .. n \subseteq A
  <2> HIDE DEF A
  <2> QED
    BY <1>4, Descends
<1> QED
  BY <1>1, <1>5

\* x is the frames of the lines ns, one after the other.
Chain(x, ns) ==
  /\ Len(x) = 7 * Len(ns)
  /\ \A j \in Nat, i \in 1 .. 7 : j < Len(ns) => x[7 * j + i] = LogWords(ns[j + 1])[i]

\* p begins like x.
Begins(p, x) == Len(p) <= Len(x) /\ \A i \in 1 .. Len(p) : p[i] = x[i]

LEMMA ChainWords ==
  ASSUME NEW x, NEW ns \in Seq(C!Line), Chain(x, ns), NEW p, p \in Seq(Field),
         Begins(p, x), NEW j \in Nat, 7 * j < Len(p)
  PROVE  /\ p[7 * j + 1] = 1000
         /\ 7 * j + 3 <= Len(p) => p[7 * j + 2] = 3 /\ p[7 * j + 3] = 7
<1>1. PICK n \in Nat, m \in Nat : n = Len(p) /\ m = Len(ns)
  BY LenProperties
<1>2. n <= 7 * m /\ 7 * j < n
  BY <1>1 DEF Chain, Begins
<1>3. j < m
  BY <1>2
<1>4. \A i \in 1 .. 7 : x[7 * j + i] = LogWords(ns[j + 1])[i]
  BY <1>1, <1>3 DEF Chain
<1>5. ns[j + 1] \in Nat
  <2>1. j + 1 \in 1 .. m
    BY <1>3
  <2>2. ns[j + 1] \in C!Line
    BY <1>1, <2>1, ElementOfSeq
  <2> QED
    BY <2>2, LogServConstants DEF C!Line, LogServConstants
<1>6. x[7 * j + 1] = 1000 /\ x[7 * j + 2] = 3 /\ x[7 * j + 3] = 7
  <2>1. 1 \in 1 .. 7 /\ 2 \in 1 .. 7 /\ 3 \in 1 .. 7
    OBVIOUS
  <2>2. PICK l \in Nat : l = ns[j + 1]
    BY <1>5
  <2>3. /\ x[7 * j + 1] = LogWords(l)[1] /\ x[7 * j + 2] = LogWords(l)[2]
        /\ x[7 * j + 3] = LogWords(l)[3]
    BY <1>4, <2>1, <2>2
  <2> QED
    BY <2>3, WordsOfFrame
<1>7. \A i \in 1 .. n : p[i] = x[i]
  BY <1>1 DEF Begins
<1>8. 7 * j + 1 \in 1 .. n
  BY <1>2
<1>9. 7 * j + 3 <= n => 7 * j + 2 \in 1 .. n /\ 7 * j + 3 \in 1 .. n
  OBVIOUS
<1> QED
  BY <1>1, <1>6, <1>7, <1>8, <1>9

\* Each frame that comes out of them is one of the lines.
LEMMA PacketWhole ==
  ASSUME NEW p, p \in Seq(Field), NEW b, Ends(b, p), NEW f, Framed(f, p, Field),
         NEW x, NEW ns \in Seq(C!Line), Chain(x, ns), Begins(p, x)
  PROVE  \A j \in Nat : 7 * j + 1 \in 1 .. Len(p) + 1 =>
           b[7 * j + 1] = 7 * j + 1 + 7 * Len(LinesOf(f[7 * j + 1]))
<1>1. PICK n \in Nat : n = Len(p) + 1
  BY LenProperties
<1>2. /\ b \in [1 .. n -> 1 .. n]
      /\ \A k \in 1 .. n : b[k] = IF Taken(p, k) THEN b[k + p[k + 2]] ELSE k
  BY <1>1 DEF Ends
<1>3. /\ f \in [1 .. n -> Seq(Frame(Field))]
      /\ \A k \in 1 .. n :
           f[k] = IF Taken(p, k) THEN <<FrameAt(p, k)>> \o f[k + p[k + 2]] ELSE <<>>
  BY <1>1 DEF Framed
<1> DEFINE A == {k \in 1 .. n : \A j \in Nat : k = 7 * j + 1 =>
                   b[k] = k + 7 * Len(LinesOf(f[k]))}
<1>4. ASSUME NEW k \in 1 .. n, \A j \in k + 1 .. n : j \in A PROVE k \in A
  <2> SUFFICES ASSUME NEW j \in Nat, k = 7 * j + 1
               PROVE  b[k] = k + 7 * Len(LinesOf(f[k]))
    OBVIOUS
  <2>1. CASE Taken(p, k)
    <3>1. PICK fr \in Frame(Field), y \in k + 1 .. n :
            fr = FrameAt(p, k) /\ y = k + p[k + 2]
      <4>1. Field \subseteq Nat
        BY DEF Field
      <4> QED
        BY <1>1, <2>1, <4>1, TakenInside
    <3>2. k + 2 \in 1 .. Len(p) /\ fr.mCommand = p[k + 1] /\ fr.mContent \in Seq(Nat)
      BY <1>1, <2>1, <3>1, FrameContent
    <3>3. k + 1 = 7 * j + 2 /\ k + 2 = 7 * j + 3 /\ 7 * j < Len(p) /\ 7 * j + 3 <= Len(p)
      BY <1>1, <3>2, <2>1
    <3>4. p[k + 1] = 3 /\ p[k + 2] = 7
      BY <3>3, ChainWords
    <3>5. fr \in C!LogFrames
      <4>1. fr = [mCommand |-> fr.mCommand, mContent |-> fr.mContent]
        BY DEF Frame
      <4>2. fr.mCommand = 3
        BY <3>2, <3>4
      <4> QED
        BY <3>2, <4>1, <4>2 DEF C!LogFrames, C!em_cmd_log
    <3>6. PICK fs \in Seq(Frame(Field)) : fs = f[y]
      BY <1>3
    <3>7. f[k] = <<fr>> \o fs /\ b[k] = b[y]
      BY <1>2, <1>3, <2>1, <3>1, <3>6
    <3>8. y = 7 * (j + 1) + 1 /\ y = k + 7 /\ j + 1 \in Nat
      BY <3>1, <3>4
    <3>9. b[y] = y + 7 * Len(LinesOf(fs))
      BY <1>4, <3>6, <3>8
    <3>10. LinesOf(<<fr>> \o fs) = <<Decoded(fr)>> \o LinesOf(fs)
      BY <3>5, LinesSplit
    <3>11. PICK d \in 0 .. MaxLines, ls \in Seq(0 .. MaxLines) :
             d = Decoded(fr) /\ ls = LinesOf(fs)
      BY DecodedType, LinesTyped
    <3>12. PICK m \in Nat : m = Len(ls)
      BY LenProperties
    <3>13. Len(<<d>> \o ls) = 1 + m
      <4>1. <<d>> \in Seq(0 .. MaxLines) /\ Len(<<d>>) = 1
        OBVIOUS
      <4>2. Len(<<d>> \o ls) = Len(<<d>>) + Len(ls)
        BY <4>1, ConcatProperties
      <4> QED
        BY <3>12, <4>1, <4>2
    <3>14. Len(LinesOf(f[k])) = 1 + m
      BY <3>7, <3>10, <3>11, <3>13
    <3>15. b[k] = y + 7 * m
      BY <3>7, <3>9, <3>11, <3>12
    <3> QED
      BY <3>8, <3>14, <3>15
  <2>2. CASE ~Taken(p, k)
    <3>1. f[k] = <<>> /\ b[k] = k
      BY <1>2, <1>3, <2>2
    <3>2. Len(LinesOf(f[k])) = 0
      <4>1. Len(<<>>) = 0
        OBVIOUS
      <4> QED
        BY <3>1, <4>1, LinesEmpty
    <3> QED
      BY <3>1, <3>2
  <2> QED
    BY <2>1, <2>2
<1>5. 1 .. n \subseteq A
  <2> HIDE DEF A
  <2> QED
    BY <1>4, Descends
<1> QED
  BY <1>1, <1>5

LEMMA EndsStop ==
  ASSUME NEW p, p \in Seq(Field), NEW b, Ends(b, p)
  PROVE  \A k \in 1 .. Len(p) + 1 : ~Taken(p, b[k])
<1>1. PICK n \in Nat : n = Len(p) + 1
  BY LenProperties
<1>2. \A k \in 1 .. n : b[k] = IF Taken(p, k) THEN b[k + p[k + 2]] ELSE k
  BY <1>1 DEF Ends
<1> DEFINE A == {k \in 1 .. n : ~Taken(p, b[k])}
<1>3. ASSUME NEW k \in 1 .. n, \A j \in k + 1 .. n : j \in A PROVE k \in A
  <2>1. CASE Taken(p, k)
    <3>1. Field \subseteq Nat
      BY DEF Field
    <3>2. k + p[k + 2] \in k + 1 .. n
      BY <1>1, <2>1, <3>1, TakenInside
    <3> QED
      BY <1>2, <1>3, <2>1, <3>2
  <2>2. CASE ~Taken(p, k)
    BY <1>2, <2>2
  <2> QED
    BY <2>1, <2>2
<1>4. 1 .. n \subseteq A
  <2> HIDE DEF A
  <2> QED
    BY <1>3, Descends
<1> QED
  BY <1>1, <1>4

(***************************************************************************)
(* PacketRead: what GetRecvResult takes from a packet, and what it costs.  *)
(***************************************************************************)
Taking(r, p, e, all) ==
  /\ e \in 1 .. Len(p) + 1 /\ all \in Seq(Frame(Field))
  /\ r.packet = SubSeq(p, e, Len(p)) /\ r.result = all
  /\ \A top \in Nat : \A age : Ages(age, p, top) => age[1] + AlteredIn(all) <= age[e]
  /\ TextsRise(p) => Comes(ShownIn(all), p, 1, e)
  /\ \A ns \in Seq(C!Line) : \A x :
       Chain(x, ns) /\ Begins(p, x) => e = 1 + 7 * Len(LinesOf(all))

LEMMA PacketRead ==
  ASSUME NEW p, p \in Seq(Field)
  PROVE  \E e, all : Taking(GetRecvResult(p), p, e, all)
<1>1. PICK n \in Nat : n = Len(p)
  BY LenProperties
<1>2. PICK b, f : /\ Ends(b, p) /\ Framed(f, p, Field)
                  /\ GetRecvResult(p) = Outcome(p, b[1], f[1])
  <2>1. Field \subseteq Nat
    BY DEF Field
  <2> QED
    BY <2>1, Received
<1>3. PICK r : r = GetRecvResult(p)
  OBVIOUS
<1>4. PICK end \in 1 .. n + 1 : end = b[1]
  BY <1>1, <1>2 DEF Ends
<1>6. 1 \in 1 .. Len(p) + 1
  BY <1>1
<1>5. PICK all \in Seq(Frame(Field)) : all = f[1]
  <2> DEFINE I == 1 .. Len(p) + 1
             V == Seq(Frame(Field))
  <2>1. f \in [I -> V] /\ 1 \in I
    BY <1>2, <1>6 DEF Framed
  <2> HIDE DEF I, V
  <2>2. f[1] \in V
    BY <2>1
  <2> QED
    BY <2>2 DEF V
<1>7. r = Outcome(p, end, all)
  BY <1>2, <1>3, <1>4, <1>5
<1>8. ~Taken(p, end)
  BY <1>2, <1>4, <1>6, EndsStop
<1>9. ASSUME NEW top \in Nat, NEW age, Ages(age, p, top)
      PROVE  age[1] + AlteredIn(all) <= age[end]
  BY <1>2, <1>4, <1>5, <1>6, <1>9, PacketPays
<1>10. TextsRise(p) => Comes(ShownIn(all), p, 1, end)
  BY <1>2, <1>4, <1>5, <1>6, PacketTexts
<1>11. ASSUME NEW ns \in Seq(C!Line), NEW x, Chain(x, ns), Begins(p, x)
       PROVE  /\ end = 1 + 7 * Len(LinesOf(all))
              /\ ~Bad(p, end) /\ ~Whole(p, end)
  <2>1. PICK m \in Nat : m = Len(LinesOf(all))
    <3>1. LinesOf(all) \in Seq(0 .. MaxLines)
      BY LinesTyped
    <3> QED
      BY <3>1, LenProperties
  <2>2. 7 * 0 + 1 = 1 /\ 0 \in Nat
    OBVIOUS
  <2>3. b[7 * 0 + 1] = 7 * 0 + 1 + 7 * Len(LinesOf(f[7 * 0 + 1]))
    <3>1. \A j \in Nat : 7 * j + 1 \in 1 .. Len(p) + 1 =>
            b[7 * j + 1] = 7 * j + 1 + 7 * Len(LinesOf(f[7 * j + 1]))
      BY <1>2, <1>11, PacketWhole
    <3>2. 7 * 0 + 1 \in 1 .. Len(p) + 1
      BY <1>6, <2>2
    <3>3. PICK z : z = 0
      OBVIOUS
    <3>4. z \in Nat /\ 7 * z + 1 \in 1 .. Len(p) + 1
      BY <3>2, <3>3
    <3>5. b[7 * z + 1] = 7 * z + 1 + 7 * Len(LinesOf(f[7 * z + 1]))
      BY <3>1, <3>4
    <3> QED
      BY <3>3, <3>5
  <2>4. end = 1 + 7 * m
    BY <1>4, <1>5, <2>1, <2>2, <2>3
  <2>5. ASSUME n + 1 - end >= 3
        PROVE  p[end] = 1000 /\ p[end + 2] = 7
    <3>1. 7 * m < n /\ 7 * m + 3 <= n /\ end = 7 * m + 1 /\ end + 2 = 7 * m + 3
      BY <2>4, <2>5
    <3> QED
      BY <1>1, <1>11, <3>1, ChainWords
  <2>6. ~Bad(p, end)
    BY <1>1, <2>5 DEF Bad, HeaderSize, LogMagic
  <2>7. ~Whole(p, end)
    <3> SUFFICES ASSUME Whole(p, end) PROVE FALSE
      OBVIOUS
    <3>1. n + 1 - end >= 3
      BY <1>1 DEF Whole, HeaderSize
    <3>2. p[end + 2] = 7
      BY <2>5, <3>1
    <3> QED
      BY <1>8, <3>2 DEF Taken
  <2> QED
    BY <2>1, <2>4, <2>6, <2>7
<1>12. CASE ~Bad(p, end) /\ ~Whole(p, end)
  <2>1. r.packet = SubSeq(p, end, Len(p)) /\ r.result = all
    BY <1>7, <1>12 DEF Outcome
  <2>2. Taking(r, p, end, all)
    BY <1>1, <1>9, <1>10, <1>11, <2>1 DEF Taking
  <2> QED
    BY <1>3, <2>2
<1>13. CASE ~(~Bad(p, end) /\ ~Whole(p, end))
  <2>1. r.packet = <<>> /\ r.result = <<>>
    BY <1>7, <1>13 DEF Outcome
  <2>2. SubSeq(p, n + 1, n) = <<>>
    BY SubSeqEmpty
  <2>3. <<>> \in Seq(Frame(Field)) /\ n + 1 \in 1 .. n + 1
    BY EmptySeq
  <2>4. AlteredIn(<<>>) = 0 /\ ShownIn(<<>>) = <<>>
    <3>1. Len(<<>>) = 0
      OBVIOUS
    <3> QED
      BY <3>1, LinesEmpty, SelectEmpty DEF AlteredIn, ShownIn
  <2>5. ASSUME NEW top \in Nat, NEW age, Ages(age, p, top)
        PROVE  age[1] + AlteredIn(<<>>) <= age[n + 1]
    <3>1. 1 \in 1 .. n + 1 /\ n + 1 \in 1 .. n + 1 /\ 1 <= n + 1
      OBVIOUS
    <3>2. age[1] \in Nat /\ age[1] <= age[n + 1]
      BY <1>1, <2>5, <3>1 DEF Ages
    <3> QED
      BY <2>4, <3>2
  <2>6. Comes(<<>>, p, 1, n + 1)
    <3>1. <<>> \in Seq(C!Line) /\ 1 .. Len(<<>>) = {}
      BY EmptySeq
    <3> QED
      BY <3>1 DEF Comes, Increasing
  <2>7. Taking(r, p, n + 1, <<>>)
    BY <1>1, <1>11, <1>13, <2>1, <2>2, <2>3, <2>4, <2>5, <2>6 DEF Taking
  <2> QED
    BY <1>3, <2>7
<1> QED
  BY <1>12, <1>13

-----------------------------------------------------------------------------
(* Pieces of what is on its way.                                           *)

\* s is the part of x that begins behind e.
Piece(s, x, e) ==
  /\ e \in Nat /\ Len(s) + e <= Len(x)
  /\ \A k \in 1 .. Len(s) : s[k] = x[e + k]

LEMMA AgesPiece ==
  ASSUME NEW x, x \in Seq(Field), NEW s, s \in Seq(Field), NEW e \in Nat, Piece(s, x, e),
         NEW top \in Nat, NEW age, Ages(age, x, top)
  PROVE  Ages([k \in 1 .. Len(s) + 1 |-> age[e + k]], s, top)
<1>1. PICK n \in Nat, m \in Nat : n = Len(x) /\ m = Len(s)
  BY LenProperties
<1>2. m + e <= n /\ \A k \in 1 .. m : s[k] = x[e + k]
  BY <1>1 DEF Piece
<1>3. PICK a : a = [k \in 1 .. m + 1 |-> age[e + k]]
  OBVIOUS
<1>4. \A k \in 1 .. m + 1 : a[k] = age[e + k] /\ e + k \in 1 .. n + 1
  BY <1>2, <1>3
<1>5. a \in [1 .. m + 1 -> 0 .. top]
  <2>1. \A k \in 1 .. n + 1 : age[k] \in 0 .. top
    BY <1>1 DEF Ages
  <2> QED
    BY <1>3, <1>4, <2>1
<1>6. \A i, j \in 1 .. m + 1 : i <= j => a[i] <= a[j]
  <2> SUFFICES ASSUME NEW i \in 1 .. m + 1, NEW j \in 1 .. m + 1, i <= j
               PROVE  a[i] <= a[j]
    OBVIOUS
  <2>1. e + i <= e + j
    OBVIOUS
  <2>2. age[e + i] <= age[e + j]
    BY <1>1, <1>4, <2>1 DEF Ages
  <2> QED
    BY <1>4, <2>2
<1>7. \A k \in 2 .. m : a[k - 1] = a[k] \/ s[k] = LogMagic
  <2> SUFFICES ASSUME NEW k \in 2 .. m PROVE a[k - 1] = a[k] \/ s[k] = LogMagic
    OBVIOUS
  <2>1. k - 1 \in 1 .. m + 1 /\ k \in 1 .. m + 1 /\ k \in 1 .. m /\ e + k \in 2 .. n
        /\ e + (k - 1) = (e + k) - 1
    BY <1>2
  <2>2. age[(e + k) - 1] = age[e + k] \/ x[e + k] = LogMagic
    BY <1>1, <2>1 DEF Ages
  <2> QED
    BY <1>2, <1>4, <2>1, <2>2
<1>8. ASSUME NEW k \in 1 .. m, s[k] = LogMagic PROVE \E l \in C!Line : FrameFrom(s, a, k, l)
  <2>1. e + k \in 1 .. n /\ x[e + k] = LogMagic /\ k \in 1 .. m + 1
    BY <1>2, <1>8
  <2>2. PICK l \in C!Line : FrameFrom(x, age, e + k, l)
    BY <1>1, <2>1 DEF Ages
  <2>3. ASSUME NEW j \in 0 .. 6, k + j \in 1 .. m, a[k + j] = a[k]
        PROVE  s[k + j] = LogWords(l)[j + 1]
    <3>1. (e + k) + j \in 1 .. n /\ (e + k) + j = e + (k + j) /\ k + j \in 1 .. m + 1
      BY <1>2, <2>3
    <3>2. age[(e + k) + j] = age[e + k]
      BY <1>4, <2>1, <2>3, <3>1
    <3>3. x[(e + k) + j] = LogWords(l)[j + 1]
      BY <1>1, <2>2, <3>1, <3>2 DEF FrameFrom
    <3> QED
      BY <1>2, <2>3, <3>1, <3>3
  <2> QED
    BY <1>1, <2>3 DEF FrameFrom
<1> QED
  BY <1>1, <1>3, <1>5, <1>6, <1>7, <1>8 DEF Ages

LEMMA RisePiece ==
  ASSUME NEW x, x \in Seq(Field), NEW s, s \in Seq(Field), NEW e \in Nat, Piece(s, x, e),
         TextsRise(x)
  PROVE  TextsRise(s)
<1>1. PICK n \in Nat, m \in Nat : n = Len(x) /\ m = Len(s)
  BY LenProperties
<1>2. m + e <= n /\ \A k \in 1 .. m : s[k] = x[e + k]
  BY <1>1 DEF Piece
<1> SUFFICES ASSUME NEW i \in 1 .. m, NEW j \in 1 .. m, i < j, s[i] > 3000, s[j] > 3000
             PROVE  s[i] < s[j]
  BY <1>1 DEF TextsRise
<1>3. e + i \in 1 .. n /\ e + j \in 1 .. n /\ e + i < e + j
  BY <1>2
<1>4. x[e + i] > 3000 /\ x[e + j] > 3000
  BY <1>2
<1>5. x[e + i] < x[e + j]
  BY <1>1, <1>3, <1>4 DEF TextsRise
<1> QED
  BY <1>2, <1>5

\* The part of two sequences in a row that is behind the first d elements.
LEMMA RestOfTwo ==
  ASSUME NEW T, NEW p, p \in Seq(T), NEW t, t \in Seq(T), NEW d \in 0 .. Len(p)
  PROVE  /\ Piece(p, p \o t, 0)
         /\ SubSeq(p, d + 1, Len(p)) \in Seq(T)
         /\ Len(SubSeq(p, d + 1, Len(p)) \o t) + d = Len(p \o t)
         /\ Piece(SubSeq(p, d + 1, Len(p)) \o t, p \o t, d)
<1>1. PICK x \in Seq(T) : x = p \o t
  BY ConcatProperties
<1>2. PICK m \in Nat, l \in Nat : m = Len(p) /\ l = Len(t)
  BY LenProperties
<1>3. Len(x) = m + l /\ \A i \in 1 .. m + l : x[i] = IF i <= m THEN p[i] ELSE t[i - m]
  BY <1>1, <1>2, ConcatProperties
<1>4. Piece(p, x, 0)
  <2>1. \A k \in 1 .. m : k \in 1 .. m + l /\ k <= m /\ 0 + k = k
    OBVIOUS
  <2>2. m + 0 <= m + l /\ \A k \in 1 .. m : p[k] = x[0 + k]
    BY <1>3, <2>1
  <2> QED
    BY <1>2, <1>3, <2>2 DEF Piece
<1>5. PICK s : s = SubSeq(p, d + 1, Len(p))
  OBVIOUS
<1>6. d \in Nat /\ d <= m
  BY <1>2
<1>7. s \in Seq(T)
  BY <1>5, <1>6, PieceTyped
<1>8. SubSeq(x, d + 1, Len(x)) = s \o t
  BY <1>1, <1>5, SuffixOfConcat
<1>9. PICK r \in Seq(T) : r = s \o t
  BY <1>7, ConcatProperties
<1>10. Len(r) = m + l - d /\ \A k \in 1 .. m + l - d : r[k] = x[d + k]
  <2>1. PICK i \in Int, j \in Int : i = d + 1 /\ j = m + l
    OBVIOUS
  <2>2. \A k \in i .. j : x[k] \in T
    <3>1. \A k \in i .. j : k \in 1 .. m + l
      BY <1>6, <2>1
    <3> QED
      BY <1>3, <3>1, ElementOfSeq
  <2>3. r = SubSeq(x, i, j)
    BY <1>3, <1>8, <1>9, <2>1
  <2>4. /\ Len(r) = IF i <= j THEN j - i + 1 ELSE 0
        /\ \A k \in 1 .. j - i + 1 : r[k] = x[i + k - 1]
    BY <2>2, <2>3, SubSeqProperties
  <2>5. j - i + 1 = m + l - d /\ (~(i <= j) => m + l - d = 0)
        /\ \A k \in 1 .. m + l - d : i + k - 1 = d + k
    BY <1>6, <2>1
  <2> QED
    BY <2>4, <2>5
<1>11. Piece(r, x, d)
  <2>1. d \in Nat /\ (m + l - d) + d <= m + l
    BY <1>6
  <2> QED
    BY <1>3, <1>10, <2>1 DEF Piece
<1>12. Len(r) + d = Len(x)
  BY <1>3, <1>6, <1>10
<1> QED
  BY <1>1, <1>4, <1>5, <1>7, <1>9, <1>11, <1>12

Parted(x, p, t) == x = p \o t

LEMMA Regrouped ==
  ASSUME NEW T, NEW a \in Seq(T), NEW b \in Seq(T), NEW c \in Seq(T)
  PROVE  Parted(a \o (b \o c), a \o b, c)
<1>1. a \o (b \o c) = (a \o b) \o c
  BY ConcatAssociative, SMTT(30)
<1> QED BY <1>1 DEF Parted

\* What OnClientRecvData has for a packet is the front of the bytes.
LEMMA PacketOfBytes ==
  ASSUME NEW T, NEW cache, cache \in Seq(T), NEW on, on \in Seq(T), NEW n \in 0 .. Len(on)
  PROVE  /\ cache \o SubSeq(on, 1, n) \in Seq(T)
         /\ SubSeq(on, n + 1, Len(on)) \in Seq(T)
         /\ Parted(cache \o on, cache \o SubSeq(on, 1, n), SubSeq(on, n + 1, Len(on)))
<1>1. PICK h, t : h = SubSeq(on, 1, n) /\ t = SubSeq(on, n + 1, Len(on))
  OBVIOUS
<1>2. PICK N \in Nat : N = Len(on) /\ n \in 0 .. N
  BY LenProperties
<1>3. h \in Seq(T) /\ t \in Seq(T)
  <2>1. \A i \in 1 .. n : on[i] \in T
    <3>1. \A i \in 1 .. n : i \in 1 .. N
      BY <1>2
    <3> QED
      BY <1>2, <3>1, ElementOfSeq
  <2>2. h \in Seq(T)
    BY <1>1, <1>2, <2>1, SubSeqProperties
  <2>3. t \in Seq(T)
    BY <1>1, <1>2, PieceTyped
  <2> QED
    BY <2>2, <2>3
<1>4. h \o t = on
  BY <1>1, CutAt
<1>5. Parted(cache \o (h \o t), cache \o h, t)
  BY <1>3, Regrouped
<1>6. cache \o h \in Seq(T)
  BY <1>3, ConcatProperties
<1> QED
  BY <1>1, <1>3, <1>4, <1>5, <1>6 DEF Parted

\* The last byte of an unfinished frame is of an earlier connection.
Ready(age, x) ==
  \A k \in 1 .. Len(x) : x[k] = LogMagic => k + 6 <= Len(x) \/ age[k] < age[Len(x) + 1]

LEMMA ReadyPiece ==
  ASSUME NEW x, x \in Seq(Field), NEW s, s \in Seq(Field), NEW e \in Nat, Piece(s, x, e),
         Len(s) + e = Len(x), NEW age, Ready(age, x)
  PROVE  Ready([k \in 1 .. Len(s) + 1 |-> age[e + k]], s)
<1>1. PICK n \in Nat, m \in Nat : n = Len(x) /\ m = Len(s)
  BY LenProperties
<1>2. m + e = n /\ \A k \in 1 .. m : s[k] = x[e + k]
  BY <1>1 DEF Piece
<1>3. PICK a : a = [k \in 1 .. m + 1 |-> age[e + k]]
  OBVIOUS
<1>4. ASSUME NEW k \in 1 .. m, s[k] = LogMagic PROVE k + 6 <= m \/ a[k] < a[m + 1]
  <2>0. e + k \in 1 .. n
    BY <1>2
  <2>1. e + k \in 1 .. n /\ x[e + k] = LogMagic
    BY <1>2, <1>4, <2>0
  <2>2. (e + k) + 6 <= n \/ age[e + k] < age[n + 1]
    BY <1>1, <2>1 DEF Ready
  <2>3. e + (m + 1) = n + 1 /\ k \in 1 .. m + 1 /\ m + 1 \in 1 .. m + 1
    BY <1>2
  <2>4. a[k] = age[e + k] /\ a[m + 1] = age[e + (m + 1)]
    BY <1>3, <2>3
  <2>5. CASE (e + k) + 6 <= n
    BY <1>2, <2>5
  <2> QED
    BY <2>2, <2>3, <2>4, <2>5
<1> QED
  BY <1>1, <1>3, <1>4 DEF Ready

\* A frame is written behind what is there.
Behind(y, x, w) ==
  /\ y \in Seq(Field) /\ Len(y) = Len(x) + 7
  /\ \A k \in 1 .. Len(x) : y[k] = x[k]
  /\ \A i \in 1 .. 7 : y[Len(x) + i] = w[i]

LEMMA FrameBehind ==
  ASSUME NEW x, x \in Seq(Field), NEW n, n \in C!Line
  PROVE  Behind(x \o LogWords(n), x, LogWords(n))
<1>1. PICK L \in Nat : L = Len(x)
  BY LenProperties
<1>2. n \in Nat
  BY DEF C!Line
<1>3. PICK w \in Seq(Field) : w = LogWords(n) /\ Len(w) = 7
  BY <1>2, WordsOfFrame
<1>4. PICK y : y = x \o w
  OBVIOUS
<1>5. /\ y \in Seq(Field) /\ Len(y) = L + 7
      /\ \A i \in 1 .. L + 7 : y[i] = IF i <= L THEN x[i] ELSE w[i - L]
  <2>1. PICK N \in Nat, M \in Nat : N = Len(x) /\ M = Len(w)
    BY <1>1, <1>3
  <2>2. /\ y \in Seq(Field) /\ Len(y) = N + M
        /\ \A i \in 1 .. N + M : y[i] = IF i <= N THEN x[i] ELSE w[i - N]
    BY <1>4, <2>1, ConcatProperties
  <2> QED
    BY <1>1, <1>3, <2>1, <2>2
<1>6. \A i \in 1 .. L : i \in 1 .. L + 7 /\ i <= L
  OBVIOUS
<1>7. \A i \in 1 .. 7 : L + i \in 1 .. L + 7 /\ ~(L + i <= L) /\ (L + i) - L = i
  OBVIOUS
<1>8. \A i \in 1 .. L : y[i] = x[i]
  BY <1>5, <1>6
<1>9. \A i \in 1 .. 7 : y[L + i] = w[i]
  BY <1>5, <1>7
<1>10. Behind(y, x, w)
  BY <1>1, <1>5, <1>8, <1>9 DEF Behind
<1> QED
  BY <1>3, <1>4, <1>10

LEMMA MagicOnce ==
  ASSUME NEW n, n \in C!Line, NEW i \in 1 .. 7, LogWords(n)[i] = LogMagic
  PROVE  i = 1
<1>1. n \in Nat
  BY DEF C!Line
<1>2. PICK w : w = LogWords(n) /\ w[2] = 3 /\ w[3] = 7 /\ w[4] = 1 /\ w[5] = 2000
               /\ w[6] = 1 /\ w[7] = 3000 + n
  BY <1>1, WordsOfFrame
<1>3. w[i] = 1000
  BY <1>2 DEF LogMagic
<1>4. i = 1 \/ i = 2 \/ i = 3 \/ i = 4 \/ i = 5 \/ i = 6 \/ i = 7
  OBVIOUS
<1> QED
  BY <1>1, <1>2, <1>3, <1>4

LEMMA AgesAppend ==
  ASSUME NEW x, x \in Seq(Field), NEW top \in Nat, NEW age, Ages(age, x, top),
         Ready(age, x), NEW n, n \in C!Line
  PROVE  \E a : /\ Ages(a, x \o LogWords(n), top) /\ Ready(a, x \o LogWords(n))
                /\ a[1] = age[1]
<1>1. PICK L \in Nat : L = Len(x)
  BY LenProperties
<1>2. PICK w : w = LogWords(n)
  OBVIOUS
<1>3. PICK y \in Seq(Field) :
        /\ y = x \o w /\ Len(y) = L + 7
        /\ \A k \in 1 .. L : y[k] = x[k]
        /\ \A i \in 1 .. 7 : y[L + i] = w[i]
  <2>1. PICK y : y = x \o w
    OBVIOUS
  <2>2. Behind(y, x, w)
    BY <1>2, <2>1, FrameBehind
  <2> QED
    BY <1>1, <2>1, <2>2 DEF Behind
<1>4. PICK a : a = [k \in 1 .. L + 8 |-> IF k <= L THEN age[k] ELSE age[L + 1]]
  OBVIOUS
<1>5. /\ \A k \in 1 .. L : a[k] = age[k]
      /\ \A k \in L + 1 .. L + 8 : a[k] = age[L + 1]
  <2>1. \A k \in 1 .. L : k \in 1 .. L + 8 /\ k <= L
    OBVIOUS
  <2>2. \A k \in L + 1 .. L + 8 : k \in 1 .. L + 8 /\ ~(k <= L)
    OBVIOUS
  <2> QED
    BY <1>4, <2>1, <2>2
<1>6. /\ \A k \in 1 .. L + 1 : age[k] \in 0 .. top
      /\ \A i, j \in 1 .. L + 1 : i <= j => age[i] <= age[j]
  BY <1>1 DEF Ages
<1>7. a \in [1 .. L + 8 -> 0 .. top]
  <2>1. \A k \in 1 .. L + 8 : (IF k <= L THEN age[k] ELSE age[L + 1]) \in 0 .. top
    <3> SUFFICES ASSUME NEW k \in 1 .. L + 8
                 PROVE  (IF k <= L THEN age[k] ELSE age[L + 1]) \in 0 .. top
      OBVIOUS
    <3>1. L + 1 \in 1 .. L + 1 /\ (k <= L => k \in 1 .. L + 1)
      OBVIOUS
    <3> QED
      BY <1>6, <3>1
  <2> QED
    BY <1>4, <2>1
<1>8. ASSUME NEW i \in 1 .. L + 8, NEW j \in 1 .. L + 8, i <= j PROVE a[i] <= a[j]
  <2>1. CASE i \in 1 .. L /\ j \in 1 .. L
    <3>1. i \in 1 .. L + 1 /\ j \in 1 .. L + 1
      BY <2>1
    <3> QED
      BY <1>5, <1>6, <1>8, <2>1, <3>1
  <2>2. CASE i \in 1 .. L /\ j \in L + 1 .. L + 8
    <3>1. i \in 1 .. L + 1 /\ L + 1 \in 1 .. L + 1 /\ i <= L + 1
      BY <2>2
    <3> QED
      BY <1>5, <1>6, <2>2, <3>1
  <2>3. CASE i \in L + 1 .. L + 8 /\ j \in L + 1 .. L + 8
    <3>1. L + 1 \in 1 .. L + 1
      OBVIOUS
    <3>2. age[L + 1] \in Nat
      BY <1>6, <3>1
    <3> QED
      BY <1>5, <2>3, <3>2
  <2> QED
    BY <1>8, <2>1, <2>2, <2>3
<1>9. ASSUME NEW k \in 2 .. L + 7 PROVE a[k - 1] = a[k] \/ y[k] = LogMagic
  <2>1. CASE k <= L
    <3>1. k \in 2 .. L /\ k \in 1 .. L /\ k - 1 \in 1 .. L
      BY <2>1
    <3>2. age[k - 1] = age[k] \/ x[k] = LogMagic
      BY <1>1, <3>1 DEF Ages
    <3> QED
      BY <1>3, <1>5, <3>1, <3>2
  <2>2. CASE k = L + 1
    <3>1. w[1] = 1000
      <4>1. n \in Nat
        BY DEF C!Line
      <4> QED
        BY <1>2, <4>1, WordsOfFrame
    <3>2. y[L + 1] = w[1]
      <4>1. 1 \in 1 .. 7
        OBVIOUS
      <4> QED
        BY <1>3, <4>1
    <3> QED
      BY <2>2, <3>1, <3>2 DEF LogMagic
  <2>3. CASE k > L + 1
    <3>1. k \in L + 1 .. L + 8 /\ k - 1 \in L + 1 .. L + 8
      BY <2>3
    <3> QED
      BY <1>5, <3>1
  <2> QED
    BY <2>1, <2>2, <2>3
<1>10. ASSUME NEW k \in 1 .. L + 7, y[k] = LogMagic, k > L PROVE k = L + 1
  <2>1. PICK i \in 1 .. 7 : k = L + i
    <3>1. k - L \in 1 .. 7 /\ k = L + (k - L)
      BY <1>10
    <3> QED
      BY <3>1
  <2>2. w[i] = LogMagic
    BY <1>3, <1>10, <2>1
  <2>3. i = 1
    BY <1>2, <2>2, MagicOnce
  <2> QED
    BY <2>1, <2>3
<1>11. ASSUME NEW k \in 1 .. L + 7, y[k] = LogMagic
       PROVE  \E l \in C!Line : FrameFrom(y, a, k, l)
  <2>1. CASE k <= L
    <3>0. k \in 1 .. L
      BY <2>1
    <3>1. k \in 1 .. L /\ x[k] = LogMagic
      BY <1>3, <1>11, <3>0
    <3>2. PICK l \in C!Line : FrameFrom(x, age, k, l)
      BY <1>1, <3>1 DEF Ages
    <3>3. k + 6 <= L \/ age[k] < age[L + 1]
      BY <1>1, <3>1 DEF Ready
    <3>4. ASSUME NEW j \in 0 .. 6, k + j \in 1 .. L + 7, a[k + j] = a[k]
          PROVE  y[k + j] = LogWords(l)[j + 1]
      <4>1. age[k] \in Nat /\ age[L + 1] \in Nat
        <5>1. k \in 1 .. L + 1 /\ L + 1 \in 1 .. L + 1
          BY <3>1
        <5> QED
          BY <1>6, <5>1
      <4>2. k + j \in 1 .. L
        <5> SUFFICES ASSUME k + j > L PROVE FALSE
          BY <3>4
        <5>1. k + j \in L + 1 .. L + 8 /\ ~(k + 6 <= L)
          BY <3>4
        <5>2. a[k + j] = age[L + 1] /\ a[k] = age[k]
          BY <1>5, <3>1, <5>1
        <5>3. age[k] < age[L + 1]
          BY <3>3, <5>1
        <5>4. age[k] = age[L + 1]
          BY <3>4, <5>2
        <5> QED
          BY <4>1, <5>3, <5>4
      <4>3. age[k + j] = age[k]
        BY <1>5, <3>1, <3>4, <4>2
      <4>4. x[k + j] = LogWords(l)[j + 1]
        BY <1>1, <3>2, <4>2, <4>3 DEF FrameFrom
      <4> QED
        BY <1>3, <4>2, <4>4
    <3> QED
      BY <1>3, <3>4 DEF FrameFrom
  <2>2. CASE k > L
    <3>1. k = L + 1
      BY <1>10, <1>11, <2>2
    <3>2. ASSUME NEW j \in 0 .. 6 PROVE y[k + j] = LogWords(n)[j + 1]
      <4>1. j + 1 \in 1 .. 7 /\ k + j = L + (j + 1)
        BY <3>1
      <4> QED
        BY <1>2, <1>3, <4>1
    <3> QED
      BY <3>2 DEF FrameFrom
  <2> QED
    BY <2>1, <2>2
<1>12. ASSUME NEW k \in 1 .. L + 7, y[k] = LogMagic
       PROVE  k + 6 <= L + 7 \/ a[k] < a[L + 8]
  <2>1. CASE k <= L
    <3>0. k \in 1 .. L /\ L + 8 \in L + 1 .. L + 8
      BY <2>1
    <3>1. k \in 1 .. L /\ x[k] = LogMagic /\ L + 8 \in L + 1 .. L + 8
      BY <1>3, <1>12, <3>0
    <3>2. k + 6 <= L \/ age[k] < age[L + 1]
      BY <1>1, <3>1 DEF Ready
    <3>3. a[k] = age[k] /\ a[L + 8] = age[L + 1]
      BY <1>5, <3>1
    <3>4. CASE k + 6 <= L
      BY <3>4
    <3> QED
      BY <3>2, <3>3, <3>4
  <2>2. CASE k > L
    <3>1. k = L + 1
      BY <1>10, <1>12, <2>2
    <3> QED
      BY <3>1
  <2> QED
    BY <2>1, <2>2
<1>13. a[1] = age[1]
  <2>1. 1 \in 1 .. L \/ (L + 1 = 1 /\ 1 \in L + 1 .. L + 8)
    OBVIOUS
  <2> QED
    BY <1>5, <2>1
<1>14. Ages(a, y, top)
  <2>1. Len(y) + 1 = L + 8
    BY <1>3
  <2> QED
    BY <1>3, <1>7, <1>8, <1>9, <1>11, <2>1 DEF Ages
<1>15. Ready(a, y)
  <2>1. Len(y) + 1 = L + 8
    BY <1>3
  <2> QED
    BY <1>3, <1>12, <2>1 DEF Ready
<1> QED
  BY <1>2, <1>3, <1>13, <1>14, <1>15

\* The bytes behind what is there will be of a later connection.
LEMMA AgesRaised ==
  ASSUME NEW x, x \in Seq(Field), Len(x) # 0, NEW top \in Nat, NEW age, Ages(age, x, top)
  PROVE  \E a : Ages(a, x, top + 1) /\ Ready(a, x) /\ a[1] = age[1]
<1>1. PICK L \in Nat : L = Len(x) /\ L # 0
  BY LenProperties
<1>2. PICK a : a = [k \in 1 .. L + 1 |-> IF k <= L THEN age[k] ELSE top + 1]
  OBVIOUS
<1>3. a[L + 1] = top + 1 /\ \A k \in 1 .. L : a[k] = age[k]
  <2>1. L + 1 \in 1 .. L + 1 /\ ~(L + 1 <= L) /\ \A k \in 1 .. L : k \in 1 .. L + 1 /\ k <= L
    OBVIOUS
  <2> QED
    BY <1>2, <2>1
<1>4. \A k \in 1 .. L : age[k] \in 0 .. top
  <2>1. \A k \in 1 .. L + 1 : age[k] \in 0 .. top
    BY <1>1 DEF Ages
  <2>2. \A k \in 1 .. L : k \in 1 .. L + 1
    OBVIOUS
  <2> QED
    BY <2>1, <2>2
<1>5. a \in [1 .. L + 1 -> 0 .. top + 1]
  <2>1. ASSUME NEW k \in 1 .. L + 1
        PROVE  (IF k <= L THEN age[k] ELSE top + 1) \in 0 .. top + 1
    <3>1. k <= L => k \in 1 .. L
      OBVIOUS
    <3> QED
      BY <1>4, <3>1
  <2> QED
    BY <1>2, <2>1
<1>6. ASSUME NEW i \in 1 .. L + 1, NEW j \in 1 .. L + 1, i <= j PROVE a[i] <= a[j]
  <2>1. CASE j \in 1 .. L
    <3>1. i \in 1 .. L
      BY <1>6, <2>1
    <3>2. i \in 1 .. L + 1 /\ j \in 1 .. L + 1
      OBVIOUS
    <3>3. age[i] <= age[j]
      BY <1>1, <1>6, <3>2 DEF Ages
    <3> QED
      BY <1>3, <2>1, <3>1, <3>3
  <2>2. CASE j = L + 1
    <3>1. a[i] \in 0 .. top + 1
      BY <1>5
    <3> QED
      BY <1>3, <2>2, <3>1
  <2> QED
    BY <2>1, <2>2
<1>7. ASSUME NEW k \in 2 .. L PROVE a[k - 1] = a[k] \/ x[k] = LogMagic
  <2>1. k \in 1 .. L /\ k - 1 \in 1 .. L
    OBVIOUS
  <2>2. age[k - 1] = age[k] \/ x[k] = LogMagic
    BY <1>1 DEF Ages
  <2> QED
    BY <1>3, <2>1, <2>2
<1>8. ASSUME NEW k \in 1 .. L, x[k] = LogMagic PROVE \E l \in C!Line : FrameFrom(x, a, k, l)
  <2>1. PICK l \in C!Line : FrameFrom(x, age, k, l)
    BY <1>1, <1>8 DEF Ages
  <2>2. \A j \in 0 .. 6 : k + j \in 1 .. L => a[k + j] = age[k + j] /\ a[k] = age[k]
    BY <1>3
  <2> QED
    BY <1>1, <2>1, <2>2 DEF FrameFrom
<1>9. \A k \in 1 .. L : a[k] < a[L + 1]
  BY <1>3, <1>4
<1>10. a[1] = age[1]
  <2>1. 1 \in 1 .. L
    BY <1>1
  <2> QED
    BY <1>3, <2>1
<1>11. Ages(a, x, top + 1)
  BY <1>1, <1>5, <1>6, <1>7, <1>8 DEF Ages
<1>12. Ready(a, x)
  BY <1>1, <1>9 DEF Ready
<1> QED
  BY <1>10, <1>11, <1>12

(***************************************************************************)
(* Rising: the lines in x are numbered upward and no higher than m, and    *)
(* are numbered higher than those that were shown, q.                      *)
(***************************************************************************)
RisingTo(x, q, m) ==
  /\ TextsRise(x) /\ \A i \in 1 .. Len(x) : x[i] <= 3000 + m
  /\ q \in Seq(C!Line) /\ Increasing(q)
  /\ \A i \in 1 .. Len(q) : q[i] <= m
  /\ \A i \in 1 .. Len(q), j \in 1 .. Len(x) : x[j] > 3000 => 3000 + q[i] < x[j]

LEMMA NumbersOf ==
  ASSUME NEW q, q \in Seq(C!Line)
  PROVE  \A i \in 1 .. Len(q) : q[i] \in Nat \ {0}
<1>1. C!Line \subseteq Nat \ {0}
  BY DEF C!Line
<1>2. \A i \in 1 .. Len(q) : q[i] \in C!Line
  BY ElementOfSeq
<1> QED
  BY <1>1, <1>2

LEMMA WordsOf ==
  ASSUME NEW x, x \in Seq(Field)
  PROVE  \A i \in 1 .. Len(x) : x[i] \in Nat
<1>1. Field \subseteq Nat
  BY DEF Field
<1>2. \A i \in 1 .. Len(x) : x[i] \in Field
  BY ElementOfSeq
<1> QED
  BY <1>1, <1>2

LEMMA RisingLater ==
  ASSUME NEW x, x \in Seq(Field), NEW m \in Nat, NEW q, RisingTo(x, q, m)
  PROVE  RisingTo(x, q, m + 1)
<1>1. PICK L \in Nat, K \in Nat : L = Len(x) /\ K = Len(q)
  BY LenProperties DEF RisingTo
<1>2. \A i \in 1 .. L : x[i] \in Nat
  BY <1>1, WordsOf
<1>3. \A i \in 1 .. K : q[i] \in Nat
  BY <1>1, NumbersOf DEF RisingTo
<1>4. \A i \in 1 .. L : x[i] <= 3000 + (m + 1)
  BY <1>1, <1>2 DEF RisingTo
<1>5. \A i \in 1 .. K : q[i] <= m + 1
  BY <1>1, <1>3 DEF RisingTo
<1> QED
  BY <1>1, <1>4, <1>5 DEF RisingTo

LEMMA RisingAppend ==
  ASSUME NEW x, x \in Seq(Field), NEW m \in Nat, m + 1 \in C!Line, NEW q,
         RisingTo(x, q, m)
  PROVE  RisingTo(x \o LogWords(m + 1), q, m + 1)
<1>1. PICK L \in Nat, K \in Nat : L = Len(x) /\ K = Len(q)
  BY LenProperties DEF RisingTo
<1>2. \A i \in 1 .. L : x[i] \in Nat /\ x[i] <= 3000 + m
  BY <1>1, WordsOf DEF RisingTo
<1>0. PICK n \in C!Line : n = m + 1 /\ n \in Nat
  OBVIOUS
<1>3. \A i \in 1 .. K : q[i] \in Nat /\ q[i] <= m
  BY <1>1, NumbersOf DEF RisingTo
<1>13. PICK w : w = LogWords(n)
  OBVIOUS
<1>4. PICK y \in Seq(Field) :
        /\ y = x \o w /\ Len(y) = L + 7
        /\ \A k \in 1 .. L : y[k] = x[k]
        /\ \A i \in 1 .. 7 : y[L + i] = w[i]
  <2>1. PICK y : y = x \o w
    OBVIOUS
  <2>2. Behind(y, x, w)
    BY <1>13, <2>1, FrameBehind
  <2> QED
    BY <1>1, <2>1, <2>2 DEF Behind
<1>14. /\ y[L + 1] = 1000 /\ y[L + 2] = 3 /\ y[L + 3] = 7 /\ y[L + 4] = 1
       /\ y[L + 5] = 2000 /\ y[L + 6] = 1 /\ y[L + 7] = 3000 + n
  <2>1. n \in Nat
    BY <1>0
  <2>2. /\ LogWords(n)[1] = 1000 /\ LogWords(n)[2] = 3 /\ LogWords(n)[3] = 7
        /\ LogWords(n)[4] = 1 /\ LogWords(n)[5] = 2000 /\ LogWords(n)[6] = 1
        /\ LogWords(n)[7] = 3000 + n
    BY <2>1, WordsOfFrame
  <2>3. /\ w[1] = 1000 /\ w[2] = 3 /\ w[3] = 7 /\ w[4] = 1 /\ w[5] = 2000
        /\ w[6] = 1 /\ w[7] = 3000 + n
    BY <1>13, <2>2
  <2>4. \A i \in 1 .. 7 : y[L + i] = w[i]
    BY <1>4
  <2>5. 1 \in 1 .. 7 /\ 2 \in 1 .. 7 /\ 3 \in 1 .. 7 /\ 4 \in 1 .. 7 /\ 5 \in 1 .. 7
        /\ 6 \in 1 .. 7 /\ 7 \in 1 .. 7
    OBVIOUS
  <2>6. /\ y[L + 1] = w[1] /\ y[L + 2] = w[2] /\ y[L + 3] = w[3] /\ y[L + 4] = w[4]
        /\ y[L + 5] = w[5] /\ y[L + 6] = w[6] /\ y[L + 7] = w[7]
    BY <2>4, <2>5
  <2> QED
    BY <2>3, <2>6
<1>5. ASSUME NEW k \in 1 .. L + 7
      PROVE  k \in 1 .. L \/ y[k] <= 3000 \/ (k = L + 7 /\ y[k] = 3000 + (m + 1))
  <2>1. CASE k \in 1 .. L
    BY <2>1
  <2>2. CASE k = L + 7
    <3>1. y[k] = 3000 + n
      BY <1>14, <2>2
    <3> QED
      BY <1>0, <2>2, <3>1
  <2>3. CASE ~(k \in 1 .. L) /\ k # L + 7
    <3>1. k = L + 1 \/ k = L + 2 \/ k = L + 3 \/ k = L + 4 \/ k = L + 5 \/ k = L + 6
      BY <2>3
    <3>0. /\ y[L + 1] = 1000 /\ y[L + 2] = 3 /\ y[L + 3] = 7 /\ y[L + 4] = 1
          /\ y[L + 5] = 2000 /\ y[L + 6] = 1
      BY <1>14
    <3>2. CASE k = L + 1
      BY <3>0, <3>2
    <3>3. CASE k = L + 2
      BY <3>0, <3>3
    <3>4. CASE k = L + 3
      BY <3>0, <3>4
    <3>5. CASE k = L + 4
      BY <3>0, <3>5
    <3>6. CASE k = L + 5
      BY <3>0, <3>6
    <3>7. CASE k = L + 6
      BY <3>0, <3>7
    <3> QED
      BY <3>1, <3>2, <3>3, <3>4, <3>5, <3>6, <3>7
  <2> QED
    BY <2>1, <2>2, <2>3
<1>6. \A k \in 1 .. L + 7 : y[k] \in Nat /\ (k \in 1 .. L => y[k] = x[k] /\ y[k] <= 3000 + m)
  <2>1. \A k \in 1 .. L + 7 : y[k] \in Nat
    BY <1>4, WordsOf
  <2>2. \A k \in 1 .. L : y[k] = x[k]
    BY <1>4
  <2> QED
    BY <1>2, <2>1, <2>2
<1>15. Len(y) = L + 7
  BY <1>4
<1>7. TextsRise(y)
  <2> SUFFICES ASSUME NEW i \in 1 .. L + 7, NEW j \in 1 .. L + 7, i < j, y[i] > 3000,
                      y[j] > 3000
               PROVE  y[i] < y[j]
    BY <1>15 DEF TextsRise
  <2>1. y[i] \in Nat /\ y[j] \in Nat
    BY <1>6
  <2>2. i \in 1 .. L
    <3>1. i # L + 7
      OBVIOUS
    <3> QED
      BY <1>5, <2>1, <3>1
  <2>3. CASE j \in 1 .. L
    <3>1. x[i] < x[j]
      BY <1>1, <1>6, <2>2, <2>3 DEF RisingTo, TextsRise
    <3> QED
      BY <1>6, <2>2, <2>3, <3>1
  <2>4. CASE ~(j \in 1 .. L)
    <3>1. y[j] = 3000 + (m + 1)
      BY <1>5, <2>1, <2>4
    <3>2. y[i] <= 3000 + m
      BY <1>6, <2>2
    <3> QED
      BY <2>1, <3>1, <3>2
  <2> QED
    BY <2>3, <2>4
<1>8. \A k \in 1 .. L + 7 : y[k] <= 3000 + (m + 1)
  <2> SUFFICES ASSUME NEW k \in 1 .. L + 7 PROVE y[k] <= 3000 + (m + 1)
    OBVIOUS
  <2>1. y[k] \in Nat /\ (k \in 1 .. L => y[k] <= 3000 + m)
    BY <1>6
  <2> QED
    BY <1>5, <2>1
<1>9. ASSUME NEW i \in 1 .. K, NEW j \in 1 .. L + 7, y[j] > 3000 PROVE 3000 + q[i] < y[j]
  <2>1. y[j] \in Nat /\ q[i] \in Nat /\ q[i] <= m
    BY <1>3, <1>6
  <2>2. CASE j \in 1 .. L
    <3>1. y[j] = x[j]
      BY <1>6, <2>2
    <3>2. 3000 + q[i] < x[j]
      BY <1>1, <1>9, <2>2, <3>1 DEF RisingTo
    <3> QED
      BY <3>1, <3>2
  <2>3. CASE ~(j \in 1 .. L)
    <3>1. y[j] = 3000 + (m + 1)
      BY <1>5, <1>9, <2>1, <2>3
    <3> QED
      BY <2>1, <3>1
  <2> QED
    BY <2>2, <2>3
<1>10. \A i \in 1 .. K : q[i] <= m + 1
  BY <1>3
<1>11. q \in Seq(C!Line) /\ Increasing(q)
  BY DEF RisingTo
<1>12. RisingTo(y, q, n)
  <2>1. Len(y) = L + 7 /\ Len(q) = K
    BY <1>1, <1>4
  <2>2. \A i \in 1 .. Len(y) : y[i] <= 3000 + n
    BY <1>0, <1>8, <2>1
  <2>3. \A i \in 1 .. Len(q) : q[i] <= n
    BY <1>0, <1>10, <2>1
  <2>4. \A i \in 1 .. Len(q), j \in 1 .. Len(y) : y[j] > 3000 => 3000 + q[i] < y[j]
    BY <1>9, <2>1
  <2> QED
    BY <1>7, <1>11, <2>2, <2>3, <2>4 DEF RisingTo
<1> QED
  BY <1>0, <1>4, <1>12, <1>13

LEMMA RisingPiece ==
  ASSUME NEW x, x \in Seq(Field), NEW s, s \in Seq(Field), NEW e \in Nat, Piece(s, x, e),
         NEW m \in Nat, NEW q, RisingTo(x, q, m)
  PROVE  RisingTo(s, q, m)
<1>1. PICK n \in Nat, l \in Nat : n = Len(x) /\ l = Len(s)
  BY LenProperties
<1>2. \A k \in 1 .. l : e + k \in 1 .. n /\ s[k] = x[e + k]
  BY <1>1 DEF Piece
<1>3. TextsRise(s)
  BY RisePiece DEF RisingTo
<1>4. \A k \in 1 .. l : s[k] <= 3000 + m
  BY <1>1, <1>2 DEF RisingTo
<1>5. \A i \in 1 .. Len(q), j \in 1 .. l : s[j] > 3000 => 3000 + q[i] < s[j]
  BY <1>1, <1>2 DEF RisingTo
<1> QED
  BY <1>1, <1>3, <1>4, <1>5 DEF RisingTo

\* Lines that come out of the front of x are shown, and the rest of x is left.
LEMMA RisingShown ==
  ASSUME NEW x, x \in Seq(Field), NEW m \in Nat, NEW q, RisingTo(x, q, m),
         NEW p, p \in Seq(Field), Piece(p, x, 0), NEW e \in Nat, NEW d,
         Comes(d, p, 1, e + 1), NEW r, r \in Seq(Field), Piece(r, x, e)
  PROVE  RisingTo(r, q \o d, m)
<1>1. PICK n \in Nat, l \in Nat, h \in Nat : n = Len(x) /\ l = Len(r) /\ h = Len(p)
  BY LenProperties
<1>2. \A k \in 1 .. l : e + k \in 1 .. n /\ r[k] = x[e + k]
  BY <1>1 DEF Piece
<1>3. \A k \in 1 .. h : k \in 1 .. n /\ p[k] = x[k]
  <2>1. h + 0 <= n /\ \A k \in 1 .. h : p[k] = x[0 + k] /\ 0 + k = k
    BY <1>1 DEF Piece
  <2> QED
    BY <2>1
<1>4. PICK a \in Nat, b \in Nat : a = Len(q) /\ b = Len(d)
  BY LenProperties DEF RisingTo, Comes
<1>5. q \in Seq(C!Line) /\ d \in Seq(C!Line)
  BY DEF RisingTo, Comes
<1>6. /\ \A i \in 1 .. a : q[i] \in Nat /\ q[i] <= m
      /\ \A i \in 1 .. b : d[i] \in Nat
      /\ \A k \in 1 .. n : x[k] \in Nat /\ x[k] <= 3000 + m
  <2>1. \A k \in 1 .. n : x[k] \in Nat
    BY <1>1, WordsOf
  <2>2. \A k \in 1 .. n : x[k] <= 3000 + m
    BY <1>1 DEF RisingTo
  <2>3. \A i \in 1 .. a : q[i] \in Nat /\ q[i] <= m
    BY <1>4, <1>5, NumbersOf DEF RisingTo
  <2>4. \A i \in 1 .. b : d[i] \in Nat
    BY <1>4, <1>5, NumbersOf
  <2> QED
    BY <2>1, <2>2, <2>3, <2>4
<1>7. \A i \in 1 .. b : \E k \in 1 .. n : k < e + 1 /\ x[k] = 3000 + d[i]
  <2> SUFFICES ASSUME NEW i \in 1 .. b
               PROVE  \E k \in 1 .. n : k < e + 1 /\ x[k] = 3000 + d[i]
    OBVIOUS
  <2>1. Found(3000 + d[i], p, 1, e + 1)
    BY <1>4 DEF Comes
  <2>2. PICK k \in 1 .. h : k < e + 1 /\ p[k] = 3000 + d[i]
    BY <1>1, <2>1 DEF Found
  <2> QED
    BY <1>3, <2>2
<1>8. PICK y : y = q \o d
  OBVIOUS
<1>9. y \in Seq(C!Line) /\ Len(y) = a + b
      /\ \A i \in 1 .. a + b : y[i] = IF i <= a THEN q[i] ELSE d[i - a]
  BY <1>4, <1>5, <1>8, ConcatProperties
<1>10. ASSUME NEW i \in 1 .. a + b
       PROVE  \/ i \in 1 .. a /\ y[i] = q[i]
              \/ ~(i <= a) /\ i - a \in 1 .. b /\ y[i] = d[i - a]
  BY <1>9
<1>11. ASSUME NEW i \in 1 .. a, NEW j \in 1 .. b PROVE q[i] < d[j]
  <2>1. PICK k \in 1 .. n : x[k] = 3000 + d[j]
    BY <1>7
  <2>2. d[j] \in Nat /\ d[j] # 0
    BY <1>4, <1>5, NumbersOf
  <2>3. x[k] > 3000
    BY <2>1, <2>2
  <2>4. 3000 + q[i] < x[k]
    BY <1>1, <1>4, <2>3 DEF RisingTo
  <2>5. q[i] \in Nat
    BY <1>6
  <2>6. 3000 + q[i] < 3000 + d[j]
    BY <2>1, <2>4
  <2> QED
    BY <2>2, <2>5, <2>6
<1>12. Increasing(y)
  <2> SUFFICES ASSUME NEW i \in 1 .. a + b, NEW j \in 1 .. a + b, i < j
               PROVE  y[i] < y[j]
    BY <1>9 DEF Increasing
  <2>1. CASE i <= a /\ j <= a
    <3>1. i \in 1 .. a /\ j \in 1 .. a /\ y[i] = q[i] /\ y[j] = q[j]
      BY <1>9, <2>1
    <3> QED
      BY <1>4, <3>1 DEF RisingTo, Increasing
  <2>2. CASE i <= a /\ ~(j <= a)
    <3>1. i \in 1 .. a /\ j - a \in 1 .. b /\ y[i] = q[i] /\ y[j] = d[j - a]
      BY <1>9, <2>2
    <3> QED
      BY <1>11, <3>1
  <2>3. CASE ~(i <= a)
    <3>1. i - a \in 1 .. b /\ j - a \in 1 .. b /\ i - a < j - a
          /\ y[i] = d[i - a] /\ y[j] = d[j - a]
      BY <1>9, <2>3
    <3>2. \A u, v \in 1 .. b : u < v => d[u] < d[v]
      BY <1>4 DEF Comes, Increasing
    <3>3. d[i - a] < d[j - a]
      BY <3>1, <3>2
    <3> QED
      BY <3>1, <3>3
  <2> QED
    BY <2>1, <2>2, <2>3
<1>13. \A i \in 1 .. a + b : y[i] <= m
  <2> SUFFICES ASSUME NEW i \in 1 .. a + b PROVE y[i] <= m
    OBVIOUS
  <2>1. CASE i \in 1 .. a /\ y[i] = q[i]
    BY <1>6, <2>1
  <2>2. CASE i - a \in 1 .. b /\ y[i] = d[i - a]
    <3>1. PICK v \in Nat : v = d[i - a]
      BY <1>6, <2>2
    <3>2. PICK k \in 1 .. n : x[k] = 3000 + v
      BY <1>7, <2>2, <3>1
    <3>3. x[k] <= 3000 + m
      BY <1>6
    <3> QED
      BY <2>2, <3>1, <3>2, <3>3
  <2> QED
    BY <1>10, <2>1, <2>2
<1>14. ASSUME NEW i \in 1 .. a + b, NEW j \in 1 .. l, r[j] > 3000 PROVE 3000 + y[i] < r[j]
  <2>1. e + j \in 1 .. n /\ r[j] = x[e + j]
    BY <1>2
  <2>2. CASE i \in 1 .. a /\ y[i] = q[i]
    <3>1. 3000 + q[i] < x[e + j]
      BY <1>1, <1>4, <1>14, <2>1, <2>2 DEF RisingTo
    <3> QED
      BY <2>1, <2>2, <3>1
  <2>3. CASE i - a \in 1 .. b /\ y[i] = d[i - a]
    <3>1. PICK v \in Nat : v = d[i - a] /\ v # 0
      BY <1>4, <1>5, <2>3, NumbersOf
    <3>2. PICK k \in 1 .. n : k < e + 1 /\ x[k] = 3000 + v
      BY <1>7, <2>3, <3>1
    <3>3. k < e + j /\ x[k] > 3000
      BY <3>1, <3>2
    <3>4. x[k] < x[e + j]
      BY <1>1, <1>14, <2>1, <3>3 DEF RisingTo, TextsRise
    <3> QED
      BY <2>1, <2>3, <3>1, <3>2, <3>4
  <2> QED
    BY <1>10, <2>2, <2>3
<1>15. TextsRise(r) /\ \A k \in 1 .. l : r[k] <= 3000 + m
  <2>1. RisingTo(r, q, m)
    BY RisingPiece
  <2> QED
    BY <1>1, <2>1 DEF RisingTo
<1>16. RisingTo(r, y, m)
  BY <1>1, <1>9, <1>12, <1>13, <1>14, <1>15 DEF RisingTo
<1> QED
  BY <1>8, <1>16

-----------------------------------------------------------------------------
(* Frames in a row.                                                        *)

LEMMA ChainEmpty == Chain(<<>>, <<>>)
<1>1. Len(<<>>) = 0
  OBVIOUS
<1> QED
  BY <1>1 DEF Chain

LEMMA ChainAppend ==
  ASSUME NEW x, x \in Seq(Field), NEW ns \in Seq(C!Line), Chain(x, ns),
         NEW n, n \in C!Line
  PROVE  Chain(x \o LogWords(n), Append(ns, n))
<1>1. PICK K \in Nat : K = Len(ns)
  BY LenProperties
<1>2. Len(x) = 7 * K
  BY <1>1 DEF Chain
<1>3. PICK w : w = LogWords(n)
  OBVIOUS
<1>4. PICK y : /\ y = x \o w /\ Len(y) = 7 * K + 7
               /\ \A k \in 1 .. 7 * K : y[k] = x[k]
               /\ \A i \in 1 .. 7 : y[7 * K + i] = w[i]
  <2>1. PICK y : y = x \o w
    OBVIOUS
  <2>2. Behind(y, x, w)
    BY <1>3, <2>1, FrameBehind
  <2>3. Len(y) = 7 * K + 7
    BY <1>2, <2>2 DEF Behind
  <2>4. \A k \in 1 .. 7 * K : y[k] = x[k]
    BY <1>2, <2>2 DEF Behind
  <2>5. \A i \in 1 .. 7 : y[7 * K + i] = w[i]
    BY <1>2, <2>2 DEF Behind
  <2> QED
    BY <2>1, <2>3, <2>4, <2>5
<1>5. PICK ms : /\ ms = Append(ns, n) /\ Len(ms) = K + 1
                /\ \A i \in 1 .. K : ms[i] = ns[i]
                /\ ms[K + 1] = n
  <2>1. PICK ms : ms = Append(ns, n)
    OBVIOUS
  <2>2. Len(ms) = K + 1 /\ ms[K + 1] = n
    BY <1>1, <2>1, AppendProperties
  <2>3. \A i \in 1 .. K : ms[i] = ns[i]
    BY <1>1, <2>1, AppendProperties
  <2> QED
    BY <2>1, <2>2, <2>3
<1>6. ASSUME NEW j \in Nat, NEW i \in 1 .. 7, j < K + 1
      PROVE  y[7 * j + i] = LogWords(ms[j + 1])[i]
  <2>1. CASE j < K
    <3>1. 7 * j + i \in 1 .. 7 * K /\ j + 1 \in 1 .. K
      BY <2>1
    <3>2. x[7 * j + i] = LogWords(ns[j + 1])[i]
      BY <1>1, <2>1 DEF Chain
    <3>3. y[7 * j + i] = x[7 * j + i] /\ ms[j + 1] = ns[j + 1]
      BY <1>4, <1>5, <3>1
    <3> QED
      BY <3>2, <3>3
  <2>2. CASE j = K
    <3>1. y[7 * j + i] = w[i]
      BY <1>4, <2>2
    <3>2. ms[j + 1] = n
      BY <1>5, <2>2
    <3> QED
      BY <1>3, <3>1, <3>2
  <2> QED
    BY <1>6, <2>1, <2>2
<1>7. Chain(y, ms)
  <2>1. 7 * K + 7 = 7 * (K + 1)
    OBVIOUS
  <2> QED
    BY <1>4, <1>5, <1>6, <2>1 DEF Chain
<1> QED
  BY <1>3, <1>4, <1>5, <1>7

\* What is behind the first l frames.
LEMMA ChainPiece ==
  ASSUME NEW x, x \in Seq(Field), NEW ns \in Seq(C!Line), Chain(x, ns),
         NEW l \in Nat, NEW r, r \in Seq(Field), Piece(r, x, 7 * l),
         Len(r) + 7 * l = Len(x)
  PROVE  /\ SubSeq(ns, l + 1, Len(ns)) \in Seq(C!Line)
         /\ Chain(r, SubSeq(ns, l + 1, Len(ns)))
<1>1. PICK K \in Nat, L \in Nat : K = Len(ns) /\ L = Len(r)
  BY LenProperties
<1>2. Len(x) = 7 * K /\ L + 7 * l = 7 * K
  BY <1>1 DEF Chain
<1>3. l <= K /\ L = 7 * (K - l) /\ K - l \in Nat
  BY <1>2
<1>4. PICK ms : ms = SubSeq(ns, l + 1, K)
  OBVIOUS
<1>5. ms \in Seq(C!Line)
  BY <1>1, <1>4, PieceTyped
<1>6. Len(ms) = K - l /\ \A i \in 1 .. K - l : ms[i] = ns[l + i]
  <2>1. PICK a \in Int, b \in Int : a = l + 1 /\ b = K
    OBVIOUS
  <2>2. \A k \in a .. b : ns[k] \in C!Line
    <3>1. \A k \in a .. b : k \in 1 .. K
      BY <2>1
    <3> QED
      BY <1>1, <3>1, ElementOfSeq
  <2>3. /\ Len(ms) = IF a <= b THEN b - a + 1 ELSE 0
        /\ \A k \in 1 .. b - a + 1 : ms[k] = ns[a + k - 1]
    BY <1>4, <2>1, <2>2, SubSeqProperties
  <2>4. b - a + 1 = K - l /\ (~(a <= b) => K - l = 0)
        /\ \A k \in 1 .. K - l : a + k - 1 = l + k
    BY <1>3, <2>1
  <2> QED
    BY <2>3, <2>4
<1>7. ASSUME NEW j \in Nat, NEW i \in 1 .. 7, j < K - l
      PROVE  r[7 * j + i] = LogWords(ms[j + 1])[i]
  <2>1. 7 * j + i \in 1 .. L /\ j + 1 \in 1 .. K - l /\ l + j \in Nat /\ l + j < K
    BY <1>3, <1>7
  <2>2. r[7 * j + i] = x[7 * l + (7 * j + i)]
    BY <1>1, <2>1 DEF Piece
  <2>3. x[7 * (l + j) + i] = LogWords(ns[(l + j) + 1])[i]
    BY <1>1, <2>1 DEF Chain
  <2>4. 7 * (l + j) + i = 7 * l + (7 * j + i) /\ (l + j) + 1 = l + (j + 1)
    OBVIOUS
  <2>5. ms[j + 1] = ns[l + (j + 1)]
    BY <1>6, <2>1
  <2> QED
    BY <2>2, <2>3, <2>4, <2>5
<1>8. Chain(r, ms)
  BY <1>1, <1>3, <1>6, <1>7 DEF Chain
<1> QED
  BY <1>1, <1>4, <1>5, <1>8

LEMMA ChainIsFrames ==
  ASSUME NEW x, x \in Seq(Field), NEW ns \in Seq(C!Line), Chain(x, ns)
  PROVE  x = C!Frames(ns)
<1>1. PICK K \in Nat : K = Len(ns)
  BY LenProperties
<1>2. Len(x) = 7 * K
  BY <1>1 DEF Chain
<1>3. ASSUME NEW k \in 1 .. 7 * K
      PROVE  x[k] = C!LogFrame(ns[((k - 1) \div 7) + 1])[((k - 1) % 7) + 1]
  <2>1. PICK j \in Nat, i \in 1 .. 7 : j = (k - 1) \div 7 /\ i = ((k - 1) % 7) + 1
    OBVIOUS
  <2>2. k = 7 * j + i /\ j < K
    BY <2>1
  <2>3. x[k] = LogWords(ns[j + 1])[i]
    BY <1>1, <2>2 DEF Chain
  <2>4. ns[j + 1] \in Nat
    <3>1. j + 1 \in 1 .. K
      BY <2>2
    <3> QED
      BY <1>1, <3>1, NumbersOf
  <2>5. C!LogFrame(ns[j + 1]) = LogWords(ns[j + 1])
    <3>1. PICK v \in Nat : v = ns[j + 1]
      BY <2>4
    <3>2. C!LogFrame(v) = LogWords(v)
      BY WordsOfFrame
    <3> QED
      BY <3>1, <3>2
  <2> QED
    BY <2>1, <2>3, <2>5
<1>4. x = [k \in 1 .. Len(x) |-> x[k]]
  <2>1. x \in [1 .. Len(x) -> Field]
    BY LenProperties
  <2> QED
    BY <2>1
<1>5. C!Frames(ns) = [k \in 1 .. K * 7 |->
                        C!LogFrame(ns[((k - 1) \div 7) + 1])[((k - 1) % 7) + 1]]
  BY <1>1, FrameSizeIs DEF C!Frames
<1>6. K * 7 = 7 * K
  OBVIOUS
<1> QED
  BY <1>2, <1>3, <1>4, <1>5, <1>6

\* Where nothing of S is selected there is nothing of S.
LEMMA SelectHas ==
  ASSUME NEW T, NEW S
  PROVE  \A s \in Seq(T) : Len(Select(s, S)) = 0 =>
           \A i \in 1 .. Len(s) : s[i] \notin S
<1> DEFINE A == {s \in Seq(T) : Len(Select(s, S)) = 0 =>
                                  \A i \in 1 .. Len(s) : s[i] \notin S}
<1>1. <<>> \in A
  <2>1. <<>> \in Seq(T) /\ 1 .. Len(<<>>) = {}
    BY EmptySeq
  <2> QED
    BY <2>1
<1>2. ASSUME NEW s \in Seq(T), NEW e \in T, s \in A PROVE Append(s, e) \in A
  <2>1. PICK n \in Nat : n = Len(s)
    BY LenProperties
  <2>2. PICK a : /\ a = Append(s, e) /\ a \in Seq(T) /\ Len(a) = n + 1
                 /\ \A i \in 1 .. n : a[i] = s[i]
                 /\ a[n + 1] = e
    <3>1. PICK a : a = Append(s, e)
      OBVIOUS
    <3>2. a \in Seq(T) /\ Len(a) = n + 1 /\ a[n + 1] = e
      BY <2>1, <3>1, AppendProperties
    <3>3. \A i \in 1 .. n : a[i] = s[i]
      BY <2>1, <3>1, AppendProperties
    <3> QED
      BY <3>1, <3>2, <3>3
  <2>3. Select(a, S) = IF e \in S THEN Append(Select(s, S), e) ELSE Select(s, S)
    BY <2>2, SelectAppend
  <2>4. PICK q \in Seq(T \cap S) : q = Select(s, S)
    BY SelectType
  <2>5. e \in S => Len(Append(q, e)) # 0
    <3>1. e \in S => Len(Append(q, e)) = Len(q) + 1 /\ Len(q) \in Nat
      BY AppendProperties, LenProperties
    <3> QED
      BY <3>1
  <2>6. Len(Select(a, S)) = 0 => e \notin S /\ Select(a, S) = Select(s, S)
    BY <2>3, <2>4, <2>5
  <2>7. ASSUME Len(Select(a, S)) = 0, NEW i \in 1 .. n + 1 PROVE a[i] \notin S
    <3>1. \A k \in 1 .. n : s[k] \notin S
      BY <1>2, <2>1, <2>6, <2>7
    <3>2. i \in 1 .. n \/ i = n + 1
      OBVIOUS
    <3> QED
      BY <2>2, <2>6, <2>7, <3>1, <3>2
  <2> QED
    BY <2>2, <2>7
<1>3. Seq(T) \subseteq A
  <2> HIDE DEF A
  <2> QED
    BY <1>1, <1>2, SeqInduces
<1> QED
  BY <1>3

-----------------------------------------------------------------------------
(***************************************************************************)
(* The viewer's inductive invariant, over the bytes that are left in       *)
(* mLogCache and on their way.  Connected: where the thread is, what is    *)
(* left of a connection that is gone.  Spliced: the bytes have ages.       *)
(***************************************************************************)
Bytes == mLogCache \o pipe

Connected ==
  /\ pipe \in Seq(Field) /\ mLogCache \in Seq(Field)
  /\ mTestConnent => mInit
  /\ ~mInit \/ mTestConnent => link = "none"
  /\ link = "none" => pipe = <<>> /\ owed = <<>> /\ (cuts = 0 => mLogCache = <<>>)
  /\ registered => link = "open"
  /\ cuts + (IF link = "none" THEN 0 ELSE 1) <= connects

Spliced ==
  \E age : /\ Ages(age, Bytes, cuts)
           /\ link \in {"open", "none"} => Ready(age, Bytes)
           /\ Len(Select(received, {0})) <= age[1]

Rising == RisingTo(Bytes, Select(received, C!Line), linesOfView)

Owing == cuts = 0 /\ viewer = "up" /\ link = "open" => Chain(Bytes, owed)

ClientInv == ClientTypeOK /\ Connected /\ Spliced /\ Rising /\ Owing

LEMMA ClientLines == C!Line = 1 .. MaxLines /\ C!Line \subseteq 0 .. MaxLines
BY DEF C!Line

LEMMA BytesTyped ==
  ASSUME Connected
  PROVE  Bytes \in Seq(Field)
BY ConcatProperties DEF Connected, Bytes

LEMMA BytesTypedNext ==
  ASSUME Connected'
  PROVE  Bytes' \in Seq(Field)
<1>1. mLogCache' \in Seq(Field) /\ pipe' \in Seq(Field)
  BY DEF Connected
<1>2. mLogCache' \o pipe' \in Seq(Field)
  BY <1>1, ConcatProperties
<1> QED
  BY <1>2 DEF Bytes

LEMMA InitClient == C!Init => ClientInv
<1> SUFFICES ASSUME C!Init PROVE ClientInv
  OBVIOUS
<1>1. /\ pipe = <<>> /\ mLogCache = <<>> /\ received = <<>> /\ owed = <<>> /\ cuts = 0
      /\ connects = 0 /\ link = "none" /\ came = 0 /\ registered = FALSE /\ linesOfView = 0
      /\ agentOfView \in {"up", "down"} /\ mInit = FALSE /\ mTestConnent = FALSE
      /\ mServInit \in BOOLEAN /\ viewer = "up"
  BY DEF C!Init
<1>2. /\ <<>> \in Seq(Field) /\ <<>> \in Seq(0 .. MaxLines) /\ <<>> \in Seq(C!Line)
      /\ DOMAIN <<>> = {} /\ Len(<<>>) = 0
  BY EmptySeq
<1>3. ClientTypeOK
  <2>1. 0 \in 0 .. MaxLines /\ 0 \in 0 .. MaxConnects /\ 0 \in 0 .. 0
    BY LogServConstants, LogClientConstants
  <2> QED
    BY <1>1, <1>2, <2>1 DEF ClientTypeOK, C!TypeOK
<1>4. Connected
  BY <1>1, <1>2 DEF Connected
<1>5. Bytes = <<>>
  <2>1. <<>> \o <<>> = <<>>
    OBVIOUS
  <2> QED
    BY <1>1, <2>1 DEF Bytes
<1>6. Select(received, C!Line) = <<>> /\ Select(received, {0}) = <<>>
  BY <1>1, SelectEmpty
<1>7. Spliced
  <2>1. PICK a : a = [k \in 1 .. 1 |-> 0]
    OBVIOUS
  <2>2. a \in [1 .. 1 -> 0 .. 0] /\ a[1] = 0
    BY <2>1
  <2>3. Ages(a, <<>>, 0) /\ Ready(a, <<>>)
    <3>1. Len(<<>>) = 0 /\ 0 + 1 = 1 /\ 2 .. 0 = {} /\ 1 .. 0 = {}
      OBVIOUS
    <3>2. \A i, j \in 1 .. 1 : i <= j => a[i] <= a[j]
      BY <2>2
    <3> QED
      BY <2>2, <3>1, <3>2 DEF Ages, Ready
  <2>4. Len(<<>>) <= a[1]
    BY <1>2, <2>2
  <2> QED
    BY <1>1, <1>5, <1>6, <2>3, <2>4 DEF Spliced
<1>8. Rising
  <2>1. 1 .. Len(<<>>) = {}
    BY <1>2
  <2> QED
    BY <1>2, <1>5, <1>6, <2>1 DEF Rising, RisingTo, TextsRise, Increasing
<1>9. Owing
  BY <1>1 DEF Owing
<1> QED
  BY <1>3, <1>4, <1>7, <1>8, <1>9 DEF ClientInv

\* The parts of an action that ends the connection.
LEMMA BreakKeeps ==
  ASSUME Connected, NEW end \in {"ended", "silent"}, C!Break(end)
  PROVE  /\ link = "open" /\ link' = end /\ pipe' \in Seq(Field) /\ registered' = FALSE
         /\ came' \in 0 .. Len(pipe')
         /\ \E n \in 0 .. Len(pipe) : pipe' = SubSeq(pipe, 1, n)
<1>1. PICK n \in 0 .. Len(pipe) : pipe' = SubSeq(pipe, 1, n) /\ came' = n
  BY DEF C!Break
<1>2. PICK L \in Nat : L = Len(pipe)
  BY LenProperties DEF Connected
<1>3. \A k \in 1 .. n : pipe[k] \in Field
  <2>1. \A k \in 1 .. n : k \in 1 .. L
    BY <1>2
  <2> QED
    BY <1>2, <2>1, ElementOfSeq DEF Connected
<1>4. n \in Nat /\ 1 \in Int
  BY <1>2
<1>5. SubSeq(pipe, 1, n) \in Seq(Field) /\ Len(SubSeq(pipe, 1, n)) = n
  <2>1. /\ SubSeq(pipe, 1, n) \in Seq(Field)
        /\ Len(SubSeq(pipe, 1, n)) = IF 1 <= n THEN n - 1 + 1 ELSE 0
    BY <1>3, <1>4, SubSeqProperties
  <2> QED
    BY <1>4, <2>1
<1>6. link = "open" /\ link' = end /\ registered' = FALSE
  BY DEF C!Break
<1> QED
  BY <1>1, <1>4, <1>5, <1>6

LEMMA FieldsAreWords ==
  ASSUME NEW x, x \in Seq(Field)
  PROVE  \A k \in DOMAIN x : x[k] \in Nat
<1>1. DOMAIN x = 1 .. Len(x)
  BY LenProperties
<1> QED
  BY <1>1, WordsOf

(***************************************************************************)
(* What OnClientRecvData does: it takes from the packet p what is before   *)
(* e, all is the frames in it, and r the bytes that are left.              *)
(***************************************************************************)
TakesFrom(p, e, all) ==
  /\ Taking(GetRecvResult(p), p, e, all)
  /\ p \in Seq(Field) /\ Piece(p, Bytes, 0)
  /\ mLogCache' \in Seq(Field) /\ pipe' \in Seq(Field) /\ came' = 0
  /\ Len(Bytes') + (e - 1) = Len(Bytes) /\ Piece(Bytes', Bytes, e - 1)
  /\ \/ /\ received' = received \o LinesOf(all)
        /\ owed' = SubSeq(owed, Len(LinesOf(all)) + 1, Len(owed))
        /\ viewer' = viewer
     \/ viewer' = "crashed" /\ received' = received /\ owed' = owed

LEMMA ResultsShown ==
  ASSUME NEW all \in Seq(Frame(Field)), C!OnResults(all)
  PROVE  \/ /\ received' = received \o LinesOf(all)
            /\ owed' = SubSeq(owed, Len(LinesOf(all)) + 1, Len(owed))
            /\ viewer' = viewer
         \/ viewer' = "crashed" /\ received' = received /\ owed' = owed
<1>1. PICK logs : logs = Logs(all)
  OBVIOUS
<1>2. C!Select(all, C!LogFrames) = logs
  BY <1>1, SameSelect DEF Logs
<1>3. LinesOf(all) = [k \in DOMAIN logs |-> C!LineOf(C!DecodeLog(logs[k].mContent))]
  BY <1>1 DEF LinesOf, Decoded
<1>4. Len(LinesOf(all)) = Len(logs)
  BY <1>1, LinesTyped
<1>5. \/ /\ received' = received \o [k \in DOMAIN logs |->
                                     C!LineOf(C!DecodeLog(logs[k].mContent))]
         /\ owed' = SubSeq(owed, Len(logs) + 1, Len(owed))
         /\ UNCHANGED viewer
      \/ /\ logs # <<>> /\ viewer' = "crashed"
         /\ UNCHANGED <<received, owed>>
  BY <1>2, Zenon DEF C!OnResults
<1> QED
  BY <1>3, <1>4, <1>5

LEMMA ReceivedStep ==
  ASSUME ClientTypeOK, Connected, C!OnClientRecvData
  PROVE  \E p, e, all : TakesFrom(p, e, all)
<1>1. PICK cache, on : cache = mLogCache /\ on = pipe
  OBVIOUS
<1>2. cache \in Seq(Field) /\ on \in Seq(Field) /\ Bytes = cache \o on
  BY <1>1 DEF Connected, Bytes
<1>3. PICK n : n = came /\ n \in 0 .. Len(on)
  BY <1>1 DEF ClientTypeOK, C!TypeOK
<1>4. PICK p : p = cache \o SubSeq(on, 1, n)
  OBVIOUS
<1>5. PICK t : t = SubSeq(on, n + 1, Len(on))
  OBVIOUS
<1>6. p \in Seq(Field) /\ t \in Seq(Field) /\ Bytes = p \o t
  <2>1. /\ cache \o SubSeq(on, 1, n) \in Seq(Field)
        /\ SubSeq(on, n + 1, Len(on)) \in Seq(Field)
        /\ Parted(cache \o on, cache \o SubSeq(on, 1, n), SubSeq(on, n + 1, Len(on)))
    <3>1. cache \in Seq(Field) /\ on \in Seq(Field) /\ n \in 0 .. Len(on)
      BY <1>2, <1>3
    <3>2. cache \o SubSeq(on, 1, n) \in Seq(Field)
      BY <3>1, PacketOfBytes
    <3>3. SubSeq(on, n + 1, Len(on)) \in Seq(Field)
      BY <3>1, PacketOfBytes
    <3>4. Parted(cache \o on, cache \o SubSeq(on, 1, n), SubSeq(on, n + 1, Len(on)))
      BY <3>1, PacketOfBytes
    <3> QED
      BY <3>2, <3>3, <3>4
  <2> QED
    BY <1>2, <1>4, <1>5, <2>1 DEF Parted
<1>7. PICK r : r = GetRecvResult(p)
  OBVIOUS
<1>8. mLogCache' = r.packet /\ C!OnResults(r.result) /\ pipe' = t /\ came' = 0
  <2>1. \E packet \in {mLogCache \o SubSeq(pipe, 1, came)} :
          \E q \in {C!GetRecvResult(packet)} :
             mLogCache' = q.packet /\ C!OnResults(q.result)
    BY DEF C!OnClientRecvData
  <2>2. \E q \in {C!GetRecvResult(p)} : mLogCache' = q.packet /\ C!OnResults(q.result)
    BY <1>1, <1>3, <1>4, <2>1
  <2>3. C!GetRecvResult(p) = r
    BY <1>7, SameResult
  <2>4. mLogCache' = r.packet /\ C!OnResults(r.result)
    BY <2>2, <2>3
  <2>5. pipe' = SubSeq(pipe, came + 1, Len(pipe)) /\ came' = 0
    BY DEF C!OnClientRecvData
  <2> QED
    BY <1>1, <1>3, <1>5, <2>4, <2>5
<1>9. PICK e, all : Taking(r, p, e, all)
  BY <1>6, <1>7, PacketRead
<1>10. /\ e \in 1 .. Len(p) + 1 /\ all \in Seq(Frame(Field))
       /\ r.packet = SubSeq(p, e, Len(p)) /\ r.result = all
  BY <1>9 DEF Taking
<1>11. PICK d \in 0 .. Len(p) : d = e - 1 /\ e = d + 1
  <2>1. Len(p) \in Nat
    BY <1>6, LenProperties
  <2> QED
    BY <1>10, <2>1
<1>12. PICK x : x = Bytes /\ x = p \o t
  BY <1>6
<1>13. PICK s : s = SubSeq(p, d + 1, Len(p))
  OBVIOUS
<1>14. /\ Piece(p, x, 0) /\ s \in Seq(Field)
       /\ Len(s \o t) + d = Len(x) /\ Piece(s \o t, x, d)
  BY <1>6, <1>12, <1>13, RestOfTwo
<1>15. mLogCache' = s
  BY <1>8, <1>10, <1>11, <1>13
<1>16. Bytes' = s \o t
  BY <1>8, <1>15 DEF Bytes
<1>17. \/ /\ received' = received \o LinesOf(all)
          /\ owed' = SubSeq(owed, Len(LinesOf(all)) + 1, Len(owed))
          /\ viewer' = viewer
       \/ viewer' = "crashed" /\ received' = received /\ owed' = owed
  <2>1. C!OnResults(all)
    BY <1>8, <1>10
  <2> QED
    BY <1>10, <2>1, ResultsShown
<1>18. TakesFrom(p, e, all)
  BY <1>6, <1>7, <1>8, <1>9, <1>11, <1>12, <1>14, <1>15, <1>16, <1>17 DEF TakesFrom
<1> QED
  BY <1>18

\* Those who keep the sequences.
LEMMA SequencesKept ==
  ASSUME ClientTypeOK, Connected,
         UNCHANGED <<pipe, mLogCache, received, owed>>,
         came' \in 0 .. Len(pipe),
         agentOfView' \in {"up", "down"}, link' \in {"none", "open", "ended", "silent"},
         registered' \in BOOLEAN, mInit' \in BOOLEAN, mTestConnent' \in BOOLEAN,
         linesOfView' \in 0 .. MaxLines, mServInit' \in BOOLEAN,
         viewer' \in {"up", "crashed"}, cuts' \in 0 .. MaxConnects, connects' \in 0 .. MaxConnects,
         link' # "none" => mInit', mTestConnent' => mInit',
         ~mInit' \/ mTestConnent' => link' = "none",
         link' = "none" => pipe = <<>> /\ owed = <<>> /\ (cuts' = 0 => mLogCache = <<>>),
         registered' => link' = "open",
         cuts' + (IF link' = "none" THEN 0 ELSE 1) <= connects'
  PROVE  ClientTypeOK' /\ Connected'
<1>1. pipe' = pipe /\ mLogCache' = mLogCache /\ received' = received /\ owed' = owed
  OBVIOUS
<1>2. Connected'
  BY <1>1 DEF Connected
<1>3. \A k \in DOMAIN pipe : pipe[k] \in Nat
  BY FieldsAreWords DEF Connected
<1>4. received \in Seq(0 .. MaxLines) /\ owed \in Seq(C!Line)
  BY DEF ClientTypeOK, C!TypeOK
<1>5. ClientTypeOK'
  BY <1>1, <1>3, <1>4 DEF ClientTypeOK, C!TypeOK, C!Line
<1> QED
  BY <1>2, <1>5

\* Those who leave the bytes alone.
LEMMA BytesStill ==
  ASSUME ClientInv, UNCHANGED <<mLogCache, pipe, received, owed, cuts, viewer>>,
         linesOfView' = linesOfView \/ linesOfView' = linesOfView + 1,
         link' \in {"open", "none"} => link \in {"open", "none"}
  PROVE  Spliced' /\ Rising' /\ Owing'
<1>1. Bytes' = Bytes /\ received' = received /\ owed' = owed /\ cuts' = cuts
      /\ viewer' = viewer
  BY DEF Bytes
<1>2. Spliced'
  <2>1. PICK age : /\ Ages(age, Bytes, cuts)
                   /\ link \in {"open", "none"} => Ready(age, Bytes)
                   /\ Len(Select(received, {0})) <= age[1]
    BY DEF ClientInv, Spliced
  <2> QED
    BY <1>1, <2>1 DEF Spliced
<1>3. Rising'
  <2>1. PICK x \in Seq(Field), m \in Nat : x = Bytes /\ m = linesOfView
    <3>1. linesOfView \in Nat
      BY LogServConstants DEF ClientInv, ClientTypeOK, C!TypeOK
    <3>2. Bytes \in Seq(Field)
      BY BytesTyped DEF ClientInv
    <3> QED
      BY <3>1, <3>2
  <2>2. PICK q : q = Select(received, C!Line)
    OBVIOUS
  <2>3. RisingTo(x, q, m)
    BY <2>1, <2>2 DEF ClientInv, Rising
  <2>4. RisingTo(x, q, m + 1)
    BY <2>3, RisingLater
  <2>5. Bytes' = x /\ Select(received, C!Line)' = q
    BY <1>1, <2>1, <2>2 DEF C!Line
  <2> QED
    BY <2>1, <2>3, <2>4, <2>5 DEF Rising
<1>4. Owing'
  <2> SUFFICES ASSUME cuts = 0, viewer = "up", link' = "open" PROVE Chain(Bytes, owed)
    BY <1>1 DEF Owing
  <2>1. CASE link = "open"
    BY <2>1 DEF ClientInv, Owing
  <2>2. CASE link = "none"
    <3>1. pipe = <<>> /\ owed = <<>> /\ mLogCache = <<>>
      BY <2>2 DEF ClientInv, Connected
    <3>2. <<>> \o <<>> = <<>>
      OBVIOUS
    <3> QED
      BY <3>1, <3>2, ChainEmpty DEF Bytes
  <2> QED
    BY <2>1, <2>2
<1> QED
  BY <1>2, <1>3, <1>4

LEMMA BytesCut ==
  ASSUME ClientInv, UNCHANGED <<mLogCache, received, owed, cuts, viewer, linesOfView>>,
         pipe' \in Seq(Field), \E n \in 0 .. Len(pipe) : pipe' = SubSeq(pipe, 1, n),
         link' \notin {"open", "none"}
  PROVE  Spliced' /\ Rising' /\ Owing'
<1>1. PICK x \in Seq(Field), cache \in Seq(Field), on \in Seq(Field) :
        x = Bytes /\ cache = mLogCache /\ on = pipe /\ x = cache \o on
  <2>1. mLogCache \in Seq(Field) /\ pipe \in Seq(Field)
    BY DEF ClientInv, Connected
  <2>2. Bytes \in Seq(Field)
    BY BytesTyped DEF ClientInv
  <2> QED
    BY <2>1, <2>2 DEF Bytes
<1>2. PICK n \in 0 .. Len(on) : pipe' = SubSeq(on, 1, n)
  BY <1>1
<1>3. PICK p \in Seq(Field), t \in Seq(Field) :
        p = cache \o SubSeq(on, 1, n) /\ Parted(x, p, t)
  BY <1>1, PacketOfBytes
<1>4. Bytes' = p
  BY <1>1, <1>2, <1>3 DEF Bytes
<1>5. Piece(p, x, 0)
  <2>1. 0 \in 0 .. Len(p)
    BY LenProperties
  <2>2. Piece(p, p \o t, 0)
    BY <2>1, RestOfTwo
  <2> QED
    BY <1>3, <2>2 DEF Parted
<1>6. Spliced'
  <2>1. PICK top \in Nat : top = cuts
    BY LogClientConstants DEF ClientInv, ClientTypeOK, C!TypeOK
  <2>2. PICK age : Ages(age, x, top) /\ Len(Select(received, {0})) <= age[1]
    BY <1>1, <2>1 DEF ClientInv, Spliced
  <2>3. PICK a : a = [k \in 1 .. Len(p) + 1 |-> age[0 + k]]
    OBVIOUS
  <2>4. Ages(a, p, top)
    <3>1. 0 \in Nat
      OBVIOUS
    <3> QED
      BY <1>5, <2>2, <2>3, <3>1, AgesPiece
  <2>5. a[1] = age[1]
    <3>1. 1 \in 1 .. Len(p) + 1 /\ 0 + 1 = 1
      BY LenProperties
    <3> QED
      BY <2>3, <3>1
  <2> QED
    BY <1>4, <2>1, <2>2, <2>4, <2>5 DEF Spliced
<1>7. Rising'
  <2>1. PICK m \in Nat : m = linesOfView
    BY LogServConstants DEF ClientInv, ClientTypeOK, C!TypeOK
  <2>2. PICK q : q = Select(received, C!Line)
    OBVIOUS
  <2>3. RisingTo(x, q, m)
    BY <1>1, <2>1, <2>2 DEF ClientInv, Rising
  <2>4. RisingTo(p, q, m)
    BY <1>5, <2>3, RisingPiece
  <2>5. Select(received, C!Line)' = q /\ linesOfView' = m
    BY <2>1, <2>2 DEF C!Line
  <2> QED
    BY <1>4, <2>4, <2>5 DEF Rising
<1>8. Owing'
  BY DEF Owing
<1> QED
  BY <1>6, <1>7, <1>8

\* A line is dispatched to a viewer that is registered.
LEMMA BytesSent ==
  ASSUME ClientInv, UNCHANGED <<mLogCache, received, cuts, viewer, link>>,
         linesOfView' = linesOfView + 1, linesOfView + 1 \in C!Line, registered,
         pipe' = pipe \o LogWords(linesOfView + 1),
         owed' = Append(owed, linesOfView + 1)
  PROVE  pipe' \in Seq(Field) /\ Spliced' /\ Rising' /\ Owing'
<1>1. PICK x \in Seq(Field), cache \in Seq(Field), on \in Seq(Field) :
        x = Bytes /\ cache = mLogCache /\ on = pipe /\ x = cache \o on
  <2>1. mLogCache \in Seq(Field) /\ pipe \in Seq(Field)
    BY DEF ClientInv, Connected
  <2>2. Bytes \in Seq(Field)
    BY BytesTyped DEF ClientInv
  <2> QED
    BY <2>1, <2>2 DEF Bytes
<1>2. PICK m \in Nat : m = linesOfView
  BY LogServConstants DEF ClientInv, ClientTypeOK, C!TypeOK
<1>3. PICK n \in C!Line : n = m + 1 /\ n \in Nat
  BY <1>2
<1>4. PICK w \in Seq(Field) : w = LogWords(n)
  BY <1>3, WordsOfFrame
<1>5. pipe' = on \o w /\ pipe' \in Seq(Field)
  <2>1. pipe' = on \o w
    BY <1>1, <1>2, <1>3, <1>4
  <2>2. on \o w \in Seq(Field)
    BY ConcatProperties
  <2> QED
    BY <2>1, <2>2
<1>6. Bytes' = x \o w
  <2>1. Parted(cache \o (on \o w), cache \o on, w)
    BY Regrouped
  <2> QED
    BY <1>1, <1>5, <2>1 DEF Bytes, Parted
<1>7. link = "open"
  BY DEF ClientInv, Connected
<1>8. Spliced'
  <2>1. PICK top \in Nat : top = cuts
    BY LogClientConstants DEF ClientInv, ClientTypeOK, C!TypeOK
  <2>2. PICK age : Ages(age, x, top) /\ Ready(age, x) /\ Len(Select(received, {0})) <= age[1]
    BY <1>1, <1>7, <2>1 DEF ClientInv, Spliced
  <2>3. PICK a : Ages(a, x \o w, top) /\ Ready(a, x \o w) /\ a[1] = age[1]
    BY <1>4, <2>2, AgesAppend
  <2> QED
    BY <1>6, <2>1, <2>2, <2>3 DEF Spliced
<1>9. Rising'
  <2>2. PICK q : q = Select(received, C!Line)
    OBVIOUS
  <2>3. RisingTo(x, q, m)
    BY <1>1, <1>2, <2>2 DEF ClientInv, Rising
  <2>4. RisingTo(x \o LogWords(m + 1), q, m + 1)
    <3>1. m + 1 \in C!Line
      BY <1>3
    <3> QED
      BY <2>3, <3>1, RisingAppend
  <2>5. Select(received, C!Line)' = q /\ linesOfView' = n
    BY <1>2, <1>3, <2>2 DEF C!Line
  <2>6. RisingTo(x \o w, q, n)
    BY <1>3, <1>4, <2>4
  <2> QED
    BY <1>6, <2>5, <2>6 DEF Rising
<1>10. Owing'
  <2> SUFFICES ASSUME cuts = 0, viewer = "up" PROVE Chain(Bytes', owed')
    BY DEF Owing
  <2>1. PICK ns \in Seq(C!Line) : ns = owed
    BY DEF ClientInv, ClientTypeOK, C!TypeOK
  <2>2. Chain(x, ns)
    BY <1>1, <1>7, <2>1 DEF ClientInv, Owing
  <2>3. Chain(x \o w, Append(ns, n))
    BY <1>4, <2>2, ChainAppend
  <2>4. owed' = Append(ns, n)
    BY <1>2, <1>3, <2>1
  <2> QED
    BY <1>6, <2>3, <2>4
<1> QED
  BY <1>5, <1>8, <1>9, <1>10

\* recv fails, and a part of a frame may stay.
LEMMA BytesLeft ==
  ASSUME ClientInv, UNCHANGED <<mLogCache, pipe, received, viewer, linesOfView>>,
         pipe = <<>>, link' = "none",
         cuts' = IF mLogCache = <<>> THEN cuts ELSE cuts + 1
  PROVE  Spliced' /\ Rising' /\ Owing'
<1>1. Bytes' = Bytes /\ received' = received
  BY DEF Bytes
<1>2. PICK x \in Seq(Field) : x = Bytes /\ x = mLogCache
  <2>1. Bytes \in Seq(Field)
    BY BytesTyped DEF ClientInv
  <2>2. PICK cache \in Seq(Field) : cache = mLogCache
    BY DEF ClientInv, Connected
  <2>3. cache \o <<>> = cache
    BY ConcatEmptySeq
  <2> QED
    BY <2>1, <2>2, <2>3 DEF Bytes
<1>3. Spliced'
  <2>1. PICK top \in Nat : top = cuts
    BY LogClientConstants DEF ClientInv, ClientTypeOK, C!TypeOK
  <2>2. PICK age : Ages(age, x, top) /\ Len(Select(received, {0})) <= age[1]
    BY <1>2, <2>1 DEF ClientInv, Spliced
  <2>3. CASE Len(x) = 0
    <3>1. x = <<>>
      BY <2>3, EmptySeq
    <3>2. 1 .. 0 = {}
      OBVIOUS
    <3>3. Ready(age, x)
      BY <2>3, <3>2 DEF Ready
    <3>4. cuts' = top
      BY <1>2, <2>1, <3>1
    <3> QED
      BY <1>1, <1>2, <2>2, <3>3, <3>4 DEF Spliced
  <2>4. CASE Len(x) # 0
    <3>1. x # <<>>
      BY <2>4, EmptySeq
    <3>2. cuts' = top + 1
      BY <1>2, <2>1, <3>1
    <3>3. PICK a : Ages(a, x, top + 1) /\ Ready(a, x) /\ a[1] = age[1]
      BY <2>2, <2>4, AgesRaised
    <3> QED
      BY <1>1, <1>2, <2>2, <3>2, <3>3 DEF Spliced
  <2> QED
    BY <2>3, <2>4
<1>4. Rising'
  <2>1. Select(received, C!Line)' = Select(received, C!Line) /\ linesOfView' = linesOfView
    BY DEF C!Line
  <2> QED
    BY <1>1, <2>1 DEF ClientInv, Rising
<1>5. Owing'
  BY DEF Owing
<1> QED
  BY <1>3, <1>4, <1>5

\* The lines in what was taken.
LEMMA LinesTaken ==
  ASSUME ClientTypeOK, NEW all \in Seq(Frame(Field))
  PROVE  /\ received \o LinesOf(all) \in Seq(0 .. MaxLines)
         /\ SubSeq(owed, Len(LinesOf(all)) + 1, Len(owed)) \in Seq(C!Line)
         /\ Select(received \o LinesOf(all), C!Line)
              = Select(received, C!Line) \o ShownIn(all)
         /\ Len(Select(received, {0})) \in Nat /\ AlteredIn(all) \in Nat
         /\ Len(Select(received \o LinesOf(all), {0}))
              = Len(Select(received, {0})) + AlteredIn(all)
<1> DEFINE V == 0 .. MaxLines
<1>1. PICK r \in Seq(V), ns \in Seq(C!Line) : r = received /\ ns = owed
  BY DEF ClientTypeOK, C!TypeOK
<1>2. PICK ls \in Seq(V) : ls = LinesOf(all)
  BY LinesTyped
<1> HIDE DEF V
<1>3. r \o ls \in Seq(V)
  BY ConcatProperties
<1>4. PICK l \in Nat : l = Len(ls)
  BY LenProperties
<1>5. SubSeq(ns, l + 1, Len(ns)) \in Seq(C!Line)
  BY PieceTyped
<1>6. /\ Select(r \o ls, C!Line) = Select(r, C!Line) \o Select(ls, C!Line)
      /\ Select(r \o ls, {0}) = Select(r, {0}) \o Select(ls, {0})
  <2>1. Select(r \o ls, C!Line) = Select(r, C!Line) \o Select(ls, C!Line)
    BY SelectConcat
  <2>2. Select(r \o ls, {0}) = Select(r, {0}) \o Select(ls, {0})
    BY SelectConcat
  <2> QED
    BY <2>1, <2>2
<1>7. PICK u \in Seq(V \cap {0}), v \in Seq(V \cap {0}) :
        u = Select(r, {0}) /\ v = Select(ls, {0})
  BY SelectType
<1>8. Len(u \o v) = Len(u) + Len(v) /\ Len(u) \in Nat /\ Len(v) \in Nat
  BY ConcatProperties, LenProperties
<1>9. AlteredIn(all) = Len(v) /\ ShownIn(all) = Select(ls, C!Line)
  BY <1>2, <1>7 DEF AlteredIn, ShownIn
<1>10. received \o LinesOf(all) \in Seq(0 .. MaxLines)
  BY <1>1, <1>2, <1>3 DEF V
<1>11. SubSeq(owed, Len(LinesOf(all)) + 1, Len(owed)) \in Seq(C!Line)
  BY <1>1, <1>2, <1>4, <1>5
<1>12. Select(received \o LinesOf(all), C!Line) = Select(received, C!Line) \o ShownIn(all)
  BY <1>1, <1>2, <1>6, <1>9
<1>13. /\ Len(Select(received, {0})) = Len(u)
       /\ Len(Select(received \o LinesOf(all), {0})) = Len(u \o v)
  BY <1>1, <1>2, <1>6, <1>7
<1> QED
  BY <1>8, <1>9, <1>10, <1>11, <1>12, <1>13

LEMMA BytesTaken ==
  ASSUME ClientInv, NEW p, NEW e, NEW all, TakesFrom(p, e, all),
         UNCHANGED <<cuts, linesOfView, link>>
  PROVE  Spliced' /\ Rising' /\ Owing'
<1>1. PICK x \in Seq(Field), y \in Seq(Field) : x = Bytes /\ y = Bytes'
  <2>1. Bytes \in Seq(Field)
    BY BytesTyped DEF ClientInv
  <2>2. mLogCache' \o pipe' \in Seq(Field)
    BY ConcatProperties DEF TakesFrom
  <2> QED
    BY <2>1, <2>2 DEF Bytes
<1>2. p \in Seq(Field) /\ e \in 1 .. Len(p) + 1 /\ all \in Seq(Frame(Field))
  BY DEF TakesFrom, Taking
<1>3. PICK d \in Nat : d = e - 1 /\ e = d + 1 /\ d <= Len(p)
  <2>1. Len(p) \in Nat
    BY <1>2, LenProperties
  <2>2. e \in Nat /\ e >= 1 /\ e <= Len(p) + 1
    BY <1>2, <2>1
  <2>3. e - 1 \in Nat /\ e = (e - 1) + 1 /\ e - 1 <= Len(p)
    BY <2>1, <2>2
  <2> QED
    BY <2>3
<1>4. Piece(p, x, 0) /\ Piece(y, x, d) /\ Len(y) + d = Len(x)
  BY <1>1, <1>3 DEF TakesFrom
<1>5. PICK L \in Nat, M \in Nat, P \in Nat : L = Len(x) /\ M = Len(y) /\ P = Len(p)
  BY <1>2, LenProperties
<1>6. \/ /\ received' = received \o LinesOf(all)
         /\ owed' = SubSeq(owed, Len(LinesOf(all)) + 1, Len(owed))
         /\ viewer' = viewer
      \/ viewer' = "crashed" /\ received' = received /\ owed' = owed
  BY DEF TakesFrom
<1>7. ClientTypeOK
  BY DEF ClientInv
<1>8. Spliced'
  <2>1. PICK top \in Nat : top = cuts
    BY <1>7, LogClientConstants DEF ClientTypeOK, C!TypeOK
  <2>2. PICK age : /\ Ages(age, x, top) /\ (link \in {"open", "none"} => Ready(age, x))
                   /\ Len(Select(received, {0})) <= age[1]
    BY <1>1, <2>1 DEF ClientInv, Spliced
  <2>3. PICK b : b = [k \in 1 .. Len(p) + 1 |-> age[0 + k]]
    OBVIOUS
  <2>4. PICK a : a = [k \in 1 .. Len(y) + 1 |-> age[d + k]]
    OBVIOUS
  <2>5. Ages(b, p, top)
    <3>1. 0 \in Nat
      OBVIOUS
    <3> QED
      BY <1>2, <1>4, <2>2, <2>3, <3>1, AgesPiece
  <2>6. Ages(a, y, top)
    BY <1>4, <2>2, <2>4, AgesPiece
  <2>7. link \in {"open", "none"} => Ready(a, y)
    BY <1>4, <2>2, <2>4, ReadyPiece
  <2>8. b[1] + AlteredIn(all) <= b[e]
    <3>1. \A t \in Nat : \A g : Ages(g, p, t) => g[1] + AlteredIn(all) <= g[e]
      BY DEF TakesFrom, Taking
    <3> QED
      BY <2>5, <3>1
  <2>9. b[1] = age[1] /\ b[e] = age[e] /\ a[1] = age[e]
    <3>1. 1 \in 1 .. P + 1 /\ e \in 1 .. P + 1 /\ 1 \in 1 .. M + 1
      BY <1>2, <1>5
    <3>2. 0 + 1 = 1 /\ 0 + e = e /\ d + 1 = e
      BY <1>3
    <3> QED
      BY <1>5, <2>3, <2>4, <3>1, <3>2
  <2>10. age[1] \in Nat /\ age[e] \in Nat
    <3>1. b[1] \in Nat /\ b[e] \in Nat
      <4>1. 1 \in 1 .. P + 1 /\ e \in 1 .. P + 1
        BY <1>2, <1>5
      <4>2. \A k \in 1 .. P + 1 : b[k] \in 0 .. top
        BY <1>5, <2>5 DEF Ages
      <4> QED
        BY <4>1, <4>2
    <3> QED
      BY <2>9, <3>1
  <2>11. /\ Len(Select(received, {0})) \in Nat /\ AlteredIn(all) \in Nat
         /\ Len(Select(received \o LinesOf(all), {0}))
              = Len(Select(received, {0})) + AlteredIn(all)
    BY <1>2, <1>7, LinesTaken
  <2>12. Len(Select(received, {0})) + AlteredIn(all) <= a[1]
    BY <2>2, <2>8, <2>9, <2>10, <2>11
  <2>13. Len(Select(received', {0})) <= a[1]
    <3>1. CASE received' = received \o LinesOf(all)
      BY <2>11, <2>12, <3>1
    <3>2. CASE received' = received
      <4>1. Len(Select(received, {0})) <= a[1]
        BY <2>9, <2>10, <2>11, <2>12
      <4> QED
        BY <3>2, <4>1
    <3> QED
      BY <1>6, <3>1, <3>2
  <2>14. cuts' = top /\ Bytes' = y /\ link' = link
    BY <1>1, <2>1
  <2> QED
    BY <2>6, <2>7, <2>13, <2>14 DEF Spliced
<1>9. Rising'
  <2>1. PICK m \in Nat : m = linesOfView
    BY <1>7, LogServConstants DEF ClientTypeOK, C!TypeOK
  <2>2. PICK q : q = Select(received, C!Line)
    OBVIOUS
  <2>3. RisingTo(x, q, m)
    BY <1>1, <2>1, <2>2 DEF ClientInv, Rising
  <2>4. linesOfView' = m /\ Bytes' = y
    BY <1>1, <2>1
  <2>5. CASE received' = received \o LinesOf(all)
    <3>1. Select(received', C!Line) = q \o ShownIn(all)
      BY <1>2, <1>7, <2>2, <2>5, LinesTaken
    <3>2. Comes(ShownIn(all), p, 1, d + 1)
      <4>1. TextsRise(p)
        <5>1. 0 \in Nat /\ TextsRise(x)
          BY <2>3 DEF RisingTo
        <5> QED
          BY <1>2, <1>4, <5>1, RisePiece
      <4>2. Comes(ShownIn(all), p, 1, e)
        BY <4>1 DEF TakesFrom, Taking
      <4> QED
        BY <1>3, <4>2
    <3>3. RisingTo(y, q \o ShownIn(all), m)
      BY <1>2, <1>4, <2>3, <3>2, RisingShown
    <3>4. Select(received, C!Line)' = q \o ShownIn(all)
      BY <3>1 DEF C!Line
    <3> QED
      BY <2>4, <3>3, <3>4 DEF Rising
  <2>6. CASE received' = received
    <3>1. RisingTo(y, q, m)
      BY <1>4, <2>3, RisingPiece
    <3>2. Select(received, C!Line)' = q
      BY <2>2, <2>6 DEF C!Line
    <3> QED
      BY <2>4, <3>1, <3>2 DEF Rising
  <2> QED
    BY <1>6, <2>5, <2>6
<1>10. Owing'
  <2> SUFFICES ASSUME cuts = 0, viewer' = "up", link = "open" PROVE Chain(Bytes', owed')
    BY DEF Owing
  <2>1. /\ viewer = "up"
        /\ owed' = SubSeq(owed, Len(LinesOf(all)) + 1, Len(owed))
    BY <1>6
  <2>2. PICK ns \in Seq(C!Line) : ns = owed
    BY <1>7 DEF ClientTypeOK, C!TypeOK
  <2>3. Chain(x, ns)
    BY <1>1, <2>1, <2>2 DEF ClientInv, Owing
  <2>4. Begins(p, x)
    <3>1. P <= L
      BY <1>4, <1>5 DEF Piece
    <3>2. \A k \in 1 .. P : p[k] = x[0 + k]
      BY <1>4, <1>5 DEF Piece
    <3>4. \A k \in 1 .. P : 0 + k = k
      OBVIOUS
    <3>5. \A k \in 1 .. P : p[k] = x[k]
      BY <3>2, <3>4
    <3> QED
      BY <1>5, <3>1, <3>5 DEF Begins
  <2>5. PICK l \in Nat : l = Len(LinesOf(all))
    <3>1. LinesOf(all) \in Seq(0 .. MaxLines)
      BY <1>2, LinesTyped
    <3> QED
      BY <3>1, LenProperties
  <2>6. e = 1 + 7 * l
    <3>1. e = 1 + 7 * Len(LinesOf(all))
      BY <2>3, <2>4 DEF TakesFrom, Taking
    <3> QED
      BY <2>5, <3>1
  <2>7. d = 7 * l
    BY <1>3, <2>6
  <2>8. Piece(y, x, 7 * l) /\ Len(y) + 7 * l = Len(x)
    BY <1>4, <2>7
  <2>9. Chain(y, SubSeq(ns, l + 1, Len(ns)))
    BY <2>3, <2>8, ChainPiece
  <2> QED
    BY <1>1, <2>1, <2>2, <2>5, <2>9
<1> QED
  BY <1>8, <1>9, <1>10

-----------------------------------------------------------------------------
(* Each action of the client and its environment.                          *)

LEMMA ClientTypes ==
  ASSUME ClientTypeOK
  PROVE  /\ agentOfView \in {"up", "down"} /\ link \in {"none", "open", "ended", "silent"}
         /\ came \in 0 .. Len(pipe)
         /\ registered \in BOOLEAN /\ mInit \in BOOLEAN /\ mTestConnent \in BOOLEAN
         /\ linesOfView \in 0 .. MaxLines /\ linesOfView \in Nat
         /\ mServInit \in BOOLEAN /\ viewer \in {"up", "crashed"}
         /\ cuts \in 0 .. MaxConnects /\ connects \in 0 .. MaxConnects
         /\ cuts \in Nat /\ connects \in Nat
         /\ link # "none" => mInit
BY LogServConstants, LogClientConstants DEF ClientTypeOK, C!TypeOK

LEMMA AgentStartsKeeps ==
  ASSUME ClientInv, C!AgentStarts
  PROVE  ClientInv'
<1>1. /\ UNCHANGED <<pipe, mLogCache, received, owed, came, link, registered, mInit,
                     mTestConnent, linesOfView, mServInit, viewer, cuts, connects>>
      /\ agentOfView' = "up"
  BY DEF C!AgentStarts, C!ViewerOnly, C!viewerVars
<1>2. ClientTypeOK /\ Connected
  BY DEF ClientInv
<1>3. ClientTypeOK' /\ Connected'
  BY <1>1, <1>2, ClientTypes, SequencesKept DEF Connected
<1>4. Spliced' /\ Rising' /\ Owing'
  BY <1>1, BytesStill
<1> QED
  BY <1>3, <1>4 DEF ClientInv

LEMMA BreakKeepsAll ==
  ASSUME ClientInv, C!Break("ended") \/ C!Break("silent"), agentOfView' \in {"up", "down"},
         UNCHANGED <<mLogCache, received, owed, mInit, mTestConnent, linesOfView,
                     mServInit, viewer, cuts, connects>>
  PROVE  ClientInv'
<1>1. PICK end \in {"ended", "silent"} : C!Break(end)
  OBVIOUS
<1>2. ClientTypeOK /\ Connected
  BY DEF ClientInv
<1>3. /\ link = "open" /\ link' = end /\ pipe' \in Seq(Field) /\ registered' = FALSE
      /\ came' \in 0 .. Len(pipe')
      /\ \E n \in 0 .. Len(pipe) : pipe' = SubSeq(pipe, 1, n)
  BY <1>1, <1>2, BreakKeeps
<1>4. \A k \in DOMAIN pipe' : pipe'[k] \in Nat
  BY <1>3, FieldsAreWords
<1>5. received \in Seq(0 .. MaxLines) /\ owed \in Seq(C!Line)
  BY <1>2 DEF ClientTypeOK, C!TypeOK
<1>6. ClientTypeOK'
  <2>1. /\ agentOfView' \in {"up", "down"}
        /\ link' \in {"none", "open", "ended", "silent"}
        /\ registered' \in BOOLEAN /\ mInit' \in BOOLEAN /\ mTestConnent' \in BOOLEAN
        /\ linesOfView' \in 0 .. MaxLines
        /\ mServInit' \in BOOLEAN /\ viewer' \in {"up", "crashed"}
        /\ cuts' \in 0 .. MaxConnects /\ connects' \in 0 .. MaxConnects
        /\ mInit'
    BY <1>2, <1>3, ClientTypes
  <2>2. received' \in Seq(0 .. MaxLines) /\ owed' \in Seq(C!Line)
    BY <1>5
  <2> QED
    BY <1>3, <1>4, <2>1, <2>2 DEF ClientTypeOK, C!TypeOK, C!Line
<1>7. Connected'
  BY <1>2, <1>3 DEF Connected
<1>8. Spliced' /\ Rising' /\ Owing'
  BY <1>1, <1>3, BytesCut
<1> QED
  BY <1>6, <1>7, <1>8 DEF ClientInv

LEMMA NetworkKeeps ==
  ASSUME ClientInv, C!Network
  PROVE  ClientInv'
<1>1. UNCHANGED <<pipe, mLogCache, received, owed, link, agentOfView, mInit,
                  mTestConnent, linesOfView, mServInit, viewer, cuts, connects>>
  BY DEF C!Network, C!Register, C!SegmentArrives, C!ViewerOnly, C!viewerVars
<1>2. ClientTypeOK /\ Connected
  BY DEF ClientInv
<1>3. /\ came' \in 0 .. Len(pipe) /\ registered' \in BOOLEAN
      /\ registered' => link = "open"
  <2>1. CASE C!Register
    BY <1>2, <2>1, ClientTypes DEF C!Register
  <2>2. CASE C!SegmentArrives
    <3>1. came' \in 1 .. Len(pipe) /\ registered' = registered
      BY <2>2 DEF C!SegmentArrives
    <3>2. Len(pipe) \in Nat
      BY <1>2, LenProperties DEF Connected
    <3>3. came' \in 0 .. Len(pipe)
      BY <3>1, <3>2
    <3> QED
      BY <1>2, <3>1, <3>3, ClientTypes DEF Connected
  <2> QED
    BY <2>1, <2>2 DEF C!Network
<1>4. ClientTypeOK' /\ Connected'
  <2>1. /\ mTestConnent' => mInit'
        /\ ~mInit' \/ mTestConnent' => link' = "none"
        /\ link' = "none" => pipe = <<>> /\ owed = <<>> /\ (cuts' = 0 => mLogCache = <<>>)
        /\ registered' => link' = "open"
        /\ cuts' + (IF link' = "none" THEN 0 ELSE 1) <= connects'
    BY <1>1, <1>2, <1>3 DEF Connected
  <2>2. /\ came' \in 0 .. Len(pipe)
        /\ agentOfView' \in {"up", "down"} /\ link' \in {"none", "open", "ended", "silent"}
        /\ registered' \in BOOLEAN /\ mInit' \in BOOLEAN /\ mTestConnent' \in BOOLEAN
        /\ linesOfView' \in 0 .. MaxLines /\ mServInit' \in BOOLEAN
        /\ viewer' \in {"up", "crashed"} /\ cuts' \in 0 .. MaxConnects
        /\ connects' \in 0 .. MaxConnects /\ (link' # "none" => mInit')
    BY <1>1, <1>2, <1>3, ClientTypes
  <2> QED
    BY <1>1, <1>2, <2>1, <2>2, SequencesKept
<1>5. Spliced' /\ Rising' /\ Owing'
  BY <1>1, BytesStill
<1> QED
  BY <1>4, <1>5 DEF ClientInv

LEMMA AgentStopsKeeps ==
  ASSUME ClientInv, C!AgentStops
  PROVE  ClientInv'
<1>1. /\ agentOfView' = "down"
      /\ UNCHANGED <<mLogCache, received, owed, mInit, mTestConnent, linesOfView,
                     mServInit, viewer, cuts, connects>>
  BY DEF C!AgentStops, C!ViewerOnly, C!viewerVars
<1>2. CASE C!Break("ended") \/ C!Break("silent")
  BY <1>1, <1>2, BreakKeepsAll
<1>3. CASE UNCHANGED <<link, pipe, came, registered>>
  <2>1. ClientTypeOK /\ Connected
    BY DEF ClientInv
  <2>2. ClientTypeOK' /\ Connected'
    BY <1>1, <1>3, <2>1, ClientTypes, SequencesKept DEF Connected
  <2>3. Spliced' /\ Rising' /\ Owing'
    BY <1>1, <1>3, BytesStill
  <2> QED
    BY <2>2, <2>3 DEF ClientInv
<1> QED
  BY <1>2, <1>3 DEF C!AgentStops

LEMMA LinkEndsKeeps ==
  ASSUME ClientInv, C!LinkEnds
  PROVE  ClientInv'
<1>1. UNCHANGED <<mLogCache, received, owed, mInit, mTestConnent, linesOfView,
                  mServInit, viewer, cuts, connects, agentOfView>>
  BY DEF C!LinkEnds, C!ViewerOnly, C!viewerVars
<1>2. C!Break("ended") \/ C!Break("silent")
  BY DEF C!LinkEnds
<1>3. agentOfView' \in {"up", "down"}
  BY <1>1, ClientTypes DEF ClientInv
<1> QED
  BY <1>1, <1>2, <1>3, BreakKeepsAll

LEMMA DispatchKeeps ==
  ASSUME ClientInv, C!Dispatch
  PROVE  ClientInv'
<1>1. /\ linesOfView < MaxLines /\ linesOfView' = linesOfView + 1
      /\ UNCHANGED <<agentOfView, mLogCache, received, mInit, mTestConnent, came, registered,
                     mServInit, viewer, cuts, connects, link>>
  BY DEF C!Dispatch, C!ViewerOnly, C!viewerVars
<1>2. ClientTypeOK /\ Connected
  BY DEF ClientInv
<1>3. PICK n \in C!Line : n = linesOfView + 1
  BY <1>1, <1>2, ClientTypes, LogServConstants DEF C!Line
<1>4. CASE registered
  <2>1. /\ pipe' = pipe \o C!LogFrame(linesOfView') /\ owed' = Append(owed, linesOfView')
    BY <1>4 DEF C!Dispatch
  <2>2. PICK m \in Nat : m = n /\ C!LogFrame(m) = LogWords(m)
    <3>1. n \in Nat
      BY DEF C!Line
    <3> QED
      BY <3>1, WordsOfFrame
  <2>3. pipe' = pipe \o LogWords(linesOfView + 1) /\ owed' = Append(owed, linesOfView + 1)
    BY <1>1, <1>3, <2>1, <2>2
  <2>4. linesOfView + 1 \in C!Line
    BY <1>3
  <2>5. pipe' \in Seq(Field) /\ Spliced' /\ Rising' /\ Owing'
    BY <1>1, <1>4, <2>3, <2>4, BytesSent
  <2>6. owed' \in Seq(C!Line)
    <3>1. owed \in Seq(C!Line)
      BY <1>2 DEF ClientTypeOK, C!TypeOK
    <3>2. Append(owed, n) \in Seq(C!Line)
      BY <3>1, AppendProperties
    <3> QED
      BY <1>3, <2>3, <3>2
  <2>7. \A k \in DOMAIN pipe' : pipe'[k] \in Nat
    BY <2>5, FieldsAreWords
  <2>8. came' \in 0 .. Len(pipe')
    <3>1. PICK p \in Seq(Field), w \in Seq(Field) : p = pipe /\ w = LogWords(m)
      BY <1>2, <2>2, WordsOfFrame DEF Connected
    <3>2. Len(p \o w) = Len(p) + Len(w) /\ Len(p) \in Nat /\ Len(w) \in Nat
      BY ConcatProperties, LenProperties
    <3>3. pipe' = p \o w /\ came' \in 0 .. Len(p)
      BY <1>1, <1>2, <2>1, <2>2, <1>3, <3>1, ClientTypes
    <3> QED
      BY <3>2, <3>3
  <2>9. linesOfView' \in 0 .. MaxLines
    BY <1>1, <1>2, ClientTypes, LogServConstants
  <2>10. ClientTypeOK'
    <3>1. received' \in Seq(0 .. MaxLines)
      BY <1>1, <1>2 DEF ClientTypeOK, C!TypeOK
    <3>2. /\ agentOfView' \in {"up", "down"}
          /\ link' \in {"none", "open", "ended", "silent"}
          /\ registered' \in BOOLEAN /\ mInit' \in BOOLEAN /\ mTestConnent' \in BOOLEAN
          /\ mServInit' \in BOOLEAN /\ viewer' \in {"up", "crashed"}
          /\ cuts' \in 0 .. MaxConnects /\ connects' \in 0 .. MaxConnects
          /\ (link' # "none" => mInit')
      BY <1>1, <1>2, ClientTypes
    <3> QED
      BY <2>6, <2>7, <2>8, <2>9, <3>1, <3>2 DEF ClientTypeOK, C!TypeOK, C!Line
  <2>11. Connected'
    <3>1. link = "open"
      BY <1>2, <1>4 DEF Connected
    <3> QED
      BY <1>1, <1>2, <2>5, <3>1 DEF Connected
  <2> QED
    BY <2>5, <2>10, <2>11 DEF ClientInv
<1>5. CASE ~registered
  <2>1. UNCHANGED <<pipe, owed>>
    BY <1>5 DEF C!Dispatch
  <2>2. linesOfView' \in 0 .. MaxLines
    BY <1>1, <1>2, ClientTypes, LogServConstants
  <2>3. ClientTypeOK' /\ Connected'
    BY <1>1, <1>2, <2>1, <2>2, ClientTypes, SequencesKept DEF Connected
  <2>4. Spliced' /\ Rising' /\ Owing'
    BY <1>1, <2>1, BytesStill
  <2> QED
    BY <2>3, <2>4 DEF ClientInv
<1> QED
  BY <1>4, <1>5

\* A call of connect when no connection is left.
LEMMA ConnectKeeps ==
  ASSUME ClientInv, NEW ok \in BOOLEAN, C!Connect(ok), link = "none",
         mInit' \in BOOLEAN, mTestConnent' \in BOOLEAN,
         mTestConnent' => mInit', ok => mInit' /\ ~mTestConnent',
         UNCHANGED <<agentOfView, linesOfView, mLogCache, mServInit, viewer, received,
                     owed, cuts>>
  PROVE  ClientInv'
<1>1. ClientTypeOK /\ Connected
  BY DEF ClientInv
<1>2. /\ ok => connects < MaxConnects
      /\ connects' = IF ok THEN connects + 1 ELSE connects
      /\ link' = IF ok THEN "open" ELSE "none"
      /\ pipe' = <<>> /\ came' = 0 /\ registered' = FALSE
  BY DEF C!Connect
<1>3. pipe = <<>> /\ owed = <<>> /\ (cuts = 0 => mLogCache = <<>>)
  BY <1>1 DEF Connected
<1>4. Len(pipe) = 0
  BY <1>3
<1>5. ClientTypeOK' /\ Connected'
  <2>1. UNCHANGED <<pipe, mLogCache, received, owed>> /\ came' \in 0 .. Len(pipe)
    BY <1>2, <1>3, <1>4
  <2>2. connects' \in 0 .. MaxConnects /\ cuts' \in 0 .. MaxConnects
    <3>1. /\ connects \in 0 .. MaxConnects /\ cuts \in 0 .. MaxConnects
          /\ MaxConnects \in Nat
      BY <1>1, ClientTypes, LogClientConstants
    <3>2. CASE ok
      BY <1>2, <3>1, <3>2
    <3>3. CASE ~ok
      BY <1>2, <3>1, <3>3
    <3> QED
      BY <3>2, <3>3
  <2>3. /\ agentOfView' \in {"up", "down"} /\ link' \in {"none", "open", "ended", "silent"}
        /\ registered' \in BOOLEAN
        /\ linesOfView' \in 0 .. MaxLines /\ mServInit' \in BOOLEAN
        /\ viewer' \in {"up", "crashed"}
    BY <1>1, <1>2, ClientTypes
  <2>4. /\ link' # "none" => mInit'
        /\ mTestConnent' => mInit'
        /\ ~mInit' \/ mTestConnent' => link' = "none"
        /\ registered' => link' = "open"
    BY <1>2
  <2>5. link' = "none" => pipe = <<>> /\ owed = <<>> /\ (cuts' = 0 => mLogCache = <<>>)
    BY <1>3
  <2>6. cuts' + (IF link' = "none" THEN 0 ELSE 1) <= connects'
    <3>1. PICK c \in Nat, t \in Nat : c = cuts /\ t = connects
      BY <1>1, ClientTypes
    <3>2. c + 0 <= t
      BY <1>1, <3>1 DEF Connected
    <3>3. c + 1 <= t + 1 /\ c + 0 <= t
      BY <3>2
    <3> QED
      BY <1>2, <3>1, <3>3
  <2> QED
    BY <1>1, <2>1, <2>2, <2>3, <2>4, <2>5, <2>6, SequencesKept
<1>6. Spliced' /\ Rising' /\ Owing'
  <2>1. UNCHANGED <<mLogCache, pipe, received, owed, cuts, viewer>>
    BY <1>2, <1>3
  <2> QED
    BY <2>1, BytesStill
<1> QED
  BY <1>5, <1>6 DEF ClientInv

LEMMA RunKeeps ==
  ASSUME ClientInv, C!Run
  PROVE  ClientInv'
<1>1. PICK ok \in BOOLEAN : C!Connect(ok) /\ mInit' = ok
  BY DEF C!Run
<1>2. /\ ~mInit
      /\ UNCHANGED <<agentOfView, linesOfView, mTestConnent, mLogCache, mServInit, viewer,
                     received, owed, cuts>>
  BY DEF C!Run
<1>3. link = "none" /\ ~mTestConnent /\ mTestConnent \in BOOLEAN
  BY <1>2, ClientTypes DEF ClientInv, Connected
<1> QED
  BY <1>1, <1>2, <1>3, ConnectKeeps

LEMMA TestConnectKeeps ==
  ASSUME ClientInv, C!TestConnect
  PROVE  ClientInv'
<1>1. PICK ok \in BOOLEAN : C!Connect(ok) /\ mTestConnent' = ~ok
  BY DEF C!TestConnect
<1>2. /\ mInit /\ mTestConnent
      /\ UNCHANGED <<agentOfView, linesOfView, mInit, mLogCache, mServInit, viewer,
                     received, owed, cuts>>
  BY DEF C!TestConnect, C!Running
<1>3. link = "none" /\ mInit' \in BOOLEAN /\ mInit'
  BY <1>2, ClientTypes DEF ClientInv, Connected
<1> QED
  BY <1>1, <1>2, <1>3, ConnectKeeps

LEMMA SocketErrKeeps ==
  ASSUME ClientInv, C!OnClientSocketErr
  PROVE  ClientInv'
<1>1. /\ mInit /\ pipe = <<>> /\ link = "ended" /\ link' = "none"
      /\ mTestConnent' = TRUE /\ owed' = <<>>
      /\ cuts' = IF mLogCache = <<>> THEN cuts ELSE cuts + 1
      /\ UNCHANGED <<agentOfView, pipe, came, registered, linesOfView, mInit, mLogCache,
                     mServInit, viewer, received, connects>>
  BY DEF C!OnClientSocketErr, C!Running
<1>2. ClientTypeOK /\ Connected
  BY DEF ClientInv
<1>3. PICK c \in Nat, t \in 0 .. MaxConnects : c = cuts /\ t = connects /\ c + 1 <= t
  BY <1>1, <1>2, ClientTypes DEF Connected
<1>4. cuts' \in 0 .. MaxConnects /\ cuts' <= t /\ cuts' \in Nat
  BY <1>1, <1>3, LogClientConstants
<1>5. cuts' = 0 => mLogCache = <<>>
  BY <1>1, <1>3
<1>6. Connected'
  <2>1. cuts' + 0 <= connects'
    BY <1>1, <1>3, <1>4
  <2>2. ~registered
    BY <1>1, <1>2 DEF Connected
  <2> QED
    BY <1>1, <1>2, <1>5, <2>1, <2>2 DEF Connected
<1>7. ClientTypeOK'
  <2>1. /\ agentOfView' \in {"up", "down"} /\ link' \in {"none", "open", "ended", "silent"}
        /\ came' \in 0 .. Len(pipe')
        /\ registered' \in BOOLEAN /\ mInit' \in BOOLEAN /\ mTestConnent' \in BOOLEAN
        /\ linesOfView' \in 0 .. MaxLines
        /\ mServInit' \in BOOLEAN /\ viewer' \in {"up", "crashed"}
        /\ cuts' \in 0 .. MaxConnects /\ connects' \in 0 .. MaxConnects
        /\ link' # "none" => mInit'
    BY <1>1, <1>2, <1>4, ClientTypes
  <2>2. \A k \in DOMAIN pipe' : pipe'[k] \in Nat
    BY <1>6, FieldsAreWords DEF Connected
  <2>3. received' \in Seq(0 .. MaxLines)
    BY <1>1, <1>2 DEF ClientTypeOK, C!TypeOK
  <2>4. owed' \in Seq(C!Line)
    BY <1>1, EmptySeq
  <2> QED
    BY <2>1, <2>2, <2>3, <2>4 DEF ClientTypeOK, C!TypeOK, C!Line
<1>8. Spliced' /\ Rising' /\ Owing'
  BY <1>1, BytesLeft
<1> QED
  BY <1>6, <1>7, <1>8 DEF ClientInv

LEMMA RecvKeeps ==
  ASSUME ClientInv, C!OnClientRecvData
  PROVE  ClientInv'
<1>1. /\ mInit /\ ~mTestConnent /\ came # 0
      /\ UNCHANGED <<agentOfView, link, registered, linesOfView, mInit, mTestConnent,
                     mServInit, cuts, connects>>
  BY DEF C!OnClientRecvData, C!Running
<1>2. ClientTypeOK /\ Connected
  BY DEF ClientInv
<1>3. PICK p, e, all : TakesFrom(p, e, all)
  BY <1>2, ReceivedStep
<1>4. all \in Seq(Frame(Field)) /\ mLogCache' \in Seq(Field) /\ pipe' \in Seq(Field)
      /\ came' = 0
  BY <1>3 DEF TakesFrom, Taking
<1>5. link # "none"
  <2> SUFFICES ASSUME link = "none" PROVE FALSE
    OBVIOUS
  <2>1. pipe = <<>>
    BY <1>2 DEF Connected
  <2>2. came \in 0 .. Len(pipe) /\ Len(pipe) = 0
    BY <1>2, <2>1, ClientTypes
  <2> QED
    BY <1>1, <2>2
<1>6. Connected'
  BY <1>1, <1>2, <1>4, <1>5 DEF Connected
<1>7. received' \in Seq(0 .. MaxLines) /\ owed' \in Seq(C!Line)
      /\ viewer' \in {"up", "crashed"}
  <2>1. /\ received \o LinesOf(all) \in Seq(0 .. MaxLines)
        /\ SubSeq(owed, Len(LinesOf(all)) + 1, Len(owed)) \in Seq(C!Line)
    BY <1>2, <1>4, LinesTaken
  <2>2. received \in Seq(0 .. MaxLines) /\ owed \in Seq(C!Line)
    BY <1>2 DEF ClientTypeOK, C!TypeOK
  <2>3. viewer \in {"up", "crashed"}
    BY <1>2, ClientTypes
  <2> QED
    BY <1>3, <2>1, <2>2, <2>3 DEF TakesFrom
<1>8. ClientTypeOK'
  <2>1. /\ agentOfView' \in {"up", "down"} /\ link' \in {"none", "open", "ended", "silent"}
        /\ registered' \in BOOLEAN /\ mInit' \in BOOLEAN /\ mTestConnent' \in BOOLEAN
        /\ linesOfView' \in 0 .. MaxLines /\ mServInit' \in BOOLEAN
        /\ cuts' \in 0 .. MaxConnects /\ connects' \in 0 .. MaxConnects
        /\ link' # "none" => mInit'
    BY <1>1, <1>2, ClientTypes
  <2>2. came' \in 0 .. Len(pipe')
    BY <1>4, LenProperties
  <2>3. \A k \in DOMAIN pipe' : pipe'[k] \in Nat
    BY <1>4, FieldsAreWords
  <2> QED
    BY <1>7, <2>1, <2>2, <2>3 DEF ClientTypeOK, C!TypeOK, C!Line
<1>9. Spliced' /\ Rising' /\ Owing'
  BY <1>1, <1>3, BytesTaken
<1> QED
  BY <1>6, <1>8, <1>9 DEF ClientInv

LEMMA ClientKeeps ==
  ASSUME ClientInv, [C!Next]_(C!vars)
  PROVE  ClientInv'
<1>1. CASE UNCHANGED C!vars
  <2>1. UNCHANGED <<agentOfView, link, pipe, came, registered, linesOfView, mInit,
                    mTestConnent, mLogCache, mServInit, viewer, received, owed, cuts, connects>>
    BY <1>1 DEF C!vars, C!agentVars, C!viewerVars
  <2>2. ClientTypeOK /\ Connected
    BY DEF ClientInv
  <2>3. ClientTypeOK' /\ Connected'
    BY <2>1, <2>2 DEF ClientTypeOK, C!TypeOK, C!Line, Connected
  <2>4. Spliced' /\ Rising' /\ Owing'
    BY <2>1, BytesStill
  <2> QED
    BY <2>3, <2>4 DEF ClientInv
<1>2. CASE C!AgentStarts
  BY <1>2, AgentStartsKeeps
<1>3. CASE C!AgentStops
  BY <1>3, AgentStopsKeeps
<1>4. CASE C!LinkEnds
  BY <1>4, LinkEndsKeeps
<1>5. CASE C!Network
  BY <1>5, NetworkKeeps
<1>6. CASE C!Dispatch
  BY <1>6, DispatchKeeps
<1>7. CASE C!Run
  BY <1>7, RunKeeps
<1>8. CASE C!TestConnect
  BY <1>8, TestConnectKeeps
<1>9. CASE C!OnClientRecvData
  BY <1>9, RecvKeeps
<1>10. CASE C!OnClientSocketErr
  BY <1>10, SocketErrKeeps
<1> QED
  BY <1>1, <1>2, <1>3, <1>4, <1>5, <1>6, <1>7, <1>8, <1>9, <1>10
  DEF C!Next, C!ClientThread

(***************************************************************************)
(* ClientTypeCorrect: the type invariant of LogClient: no word that is no  *)
(* number, no more bytes arrived than are on their way, no more broken     *)
(* frames than calls of connect, and a thread wherever there is a          *)
(* connection (tcpclient.cpp:165).                                         *)
(***************************************************************************)
THEOREM ClientTypeCorrect == C!Spec => []ClientTypeOK
<1>1. ClientInv => ClientTypeOK
  BY DEF ClientInv
<1> QED
  BY InitClient, ClientKeeps, <1>1, PTL DEF C!Spec

(***************************************************************************)
(* LinesStayIntact: LinesIntact, for any number of lines and of            *)
(* connections: bytes are exactly the frames that are owed as long as no   *)
(* connection ended inside one, and a connection that did spoils one line  *)
(* at most, though mLogCache is never cleared (ServMonitor.cpp:76).        *)
(***************************************************************************)
THEOREM LinesStayIntact == C!Spec => []LinesIntact
<1>1. ASSUME ClientInv PROVE LinesIntact
  <2>1. PICK age : Ages(age, Bytes, cuts) /\ Len(Select(received, {0})) <= age[1]
    BY <1>1 DEF ClientInv, Spliced
  <2>2. PICK rs \in Seq(0 .. MaxLines) : rs = received
    BY <1>1 DEF ClientInv, ClientTypeOK, C!TypeOK
  <2>3. Len(Select(rs, {0})) \in Nat
    <3> DEFINE V == 0 .. MaxLines
    <3>1. rs \in Seq(V)
      OBVIOUS
    <3> HIDE DEF V
    <3>2. Select(rs, {0}) \in Seq(V \cap {0})
      BY <3>1, SelectType
    <3> QED
      BY <3>2, LenProperties
  <2>4. age[1] \in 0 .. cuts /\ cuts \in Nat
    <3>1. Len(Bytes) \in Nat
      BY <1>1, BytesTyped, LenProperties DEF ClientInv
    <3>2. 1 \in 1 .. Len(Bytes) + 1
      BY <3>1
    <3>3. age[1] \in 0 .. cuts
      BY <2>1, <3>2 DEF Ages
    <3> QED
      BY <1>1, <3>3, ClientTypes DEF ClientInv
  <2>5. Len(Select(received, {0})) <= cuts
    BY <2>1, <2>2, <2>3, <2>4
  <2>6. C!OneAlteredPerCut
    <3>1. C!Altered = 0
      BY DEF C!Altered
    <3>2. C!Select(received, {C!Altered}) = Select(received, {0})
      BY <3>1, SameSelect
    <3> QED
      BY <2>5, <3>2 DEF C!OneAlteredPerCut
  <2>7. ASSUME cuts = 0, viewer = "up"
        PROVE  /\ \A k \in DOMAIN received : received[k] # C!Altered
               /\ link = "open" => mLogCache \o pipe = C!Frames(owed)
    <3>1. Len(Select(rs, {0})) = 0
      BY <2>2, <2>3, <2>5, <2>7
    <3>2. \A k \in 1 .. Len(rs) : rs[k] # 0
      <4> DEFINE V == 0 .. MaxLines
      <4>1. rs \in Seq(V)
        OBVIOUS
      <4> HIDE DEF V
      <4>2. \A k \in 1 .. Len(rs) : rs[k] \notin {0}
        BY <3>1, <4>1, SelectHas
      <4> QED
        BY <4>2
    <3>3. DOMAIN rs = 1 .. Len(rs)
      BY LenProperties
    <3>4. \A k \in DOMAIN received : received[k] # C!Altered
      BY <2>2, <3>2, <3>3 DEF C!Altered
    <3>5. ASSUME link = "open" PROVE mLogCache \o pipe = C!Frames(owed)
      <4>1. Chain(Bytes, owed)
        BY <1>1, <2>7, <3>5 DEF ClientInv, Owing
      <4>2. PICK x \in Seq(Field), ns \in Seq(C!Line) : x = Bytes /\ ns = owed
        BY <1>1, BytesTyped DEF ClientInv, ClientTypeOK, C!TypeOK
      <4>3. x = C!Frames(ns)
        BY <4>1, <4>2, ChainIsFrames
      <4>4. Bytes = C!Frames(owed)
        BY <4>2, <4>3
      <4> QED
        BY <4>4 DEF Bytes
    <3> QED
      BY <3>4, <3>5
  <2>8. C!StreamIntact
    BY <2>7 DEF C!StreamIntact
  <2> QED
    BY <2>6, <2>8 DEF LinesIntact, C!LinesIntact
<1> QED
  BY InitClient, ClientKeeps, <1>1, PTL DEF C!Spec

\* In Delivery's words.
LEMMA StreamWords ==
  /\ C!Stream!vars = <<linesOfView,
                        [v \in {"viewer"} |-> C!Select(received, C!Line)], 0>>
  /\ C!Select(received, C!Line) = Select(received, C!Line)
  /\ C!Select(received, C!Line)' = Select(received', C!Line)
<1>1. C!Select(received, C!Line) = Select(received, C!Line)
  BY SameSelect
<1>2. C!Select(received, C!Line)' = Select(received', C!Line)
  <2>1. C!Select(received', C!Line) = Select(received', C!Line)
    BY SameSelect
  <2> QED
    BY <2>1 DEF C!Line
<1> QED
  BY <1>1, <1>2 DEF C!Stream!vars

LEMMA StillDelivery ==
  ASSUME UNCHANGED <<linesOfView, received>>
  PROVE  UNCHANGED C!Stream!vars
<1>1. C!Select(received, C!Line)' = C!Select(received, C!Line)
  <2>1. Select(received', C!Line) = Select(received, C!Line)
    OBVIOUS
  <2> QED
    BY <2>1, StreamWords
<1> QED
  BY <1>1 DEF C!Stream!vars

LEMMA DispatchDelivers ==
  ASSUME linesOfView' = linesOfView + 1, received' = received
  PROVE  C!Stream!Next
<1>1. C!Select(received, C!Line)' = C!Select(received, C!Line)
  <2>1. Select(received', C!Line) = Select(received, C!Line)
    OBVIOUS
  <2> QED
    BY <2>1, StreamWords
<1>2. C!Stream!Dispatch
  BY <1>1 DEF C!Stream!Dispatch
<1> QED
  BY <1>2 DEF C!Stream!Next

LEMMA RecvDelivers ==
  ASSUME ClientInv, ClientInv', C!OnClientRecvData
  PROVE  [C!Stream!Next]_(C!Stream!vars)
<1>1. linesOfView' = linesOfView
  BY DEF C!OnClientRecvData
<1>2. ClientTypeOK /\ Connected
  BY DEF ClientInv
<1>3. PICK p, e, all : TakesFrom(p, e, all)
  BY <1>2, ReceivedStep
<1>4. received' = received \o LinesOf(all) \/ received' = received
  BY <1>3 DEF TakesFrom
<1>5. all \in Seq(Frame(Field))
  BY <1>3 DEF TakesFrom, Taking
<1>6. CASE received' = received
  BY <1>1, <1>6, StillDelivery
<1>7. CASE received' = received \o LinesOf(all)
  <2>1. PICK q \in Seq(C!Line) : q = Select(received, C!Line)
    BY DEF ClientInv, Rising, RisingTo
  <2>2. PICK d \in Seq(C!Line) : d = ShownIn(all)
    <3> DEFINE V == Frame(Field)
    <3>1. all \in Seq(V)
      BY <1>5
    <3>2. LinesOf(all) \in Seq(0 .. MaxLines)
      BY <1>5, LinesTyped
    <3>3. Select(LinesOf(all), C!Line) \in Seq((0 .. MaxLines) \cap C!Line)
      BY <3>2, SelectType
    <3>4. (0 .. MaxLines) \cap C!Line = C!Line
      BY ClientLines
    <3> QED
      BY <3>3, <3>4 DEF ShownIn
  <2>3. Select(received', C!Line) = q \o d
    BY <1>2, <1>5, <1>7, <2>1, <2>2, LinesTaken
  <2>4. PICK y \in Seq(C!Line) : y = q \o d
    BY ConcatProperties
  <2>5. PICK a \in Nat, b \in Nat : a = Len(q) /\ b = Len(d) /\ Len(y) = a + b
    BY <2>4, LenProperties, ConcatProperties
  <2>6. PICK m : m = linesOfView /\ RisingTo(Bytes', y, m)
    <3>1. RisingTo(Bytes', Select(received', C!Line), linesOfView')
      <4>1. Select(received, C!Line)' = Select(received', C!Line)
        BY DEF C!Line
      <4> QED
        BY <4>1 DEF ClientInv, Rising
    <3> QED
      BY <1>1, <2>3, <2>4, <3>1
  <2>7. PICK old, new : /\ old = [v \in {"viewer"} |-> q]
                        /\ new = [v \in {"viewer"} |-> y]
    OBVIOUS
  <2>8. /\ [v \in {"viewer"} |-> C!Select(received, C!Line)] = old
        /\ [v \in {"viewer"} |-> C!Select(received, C!Line)]' = new
    BY <2>1, <2>3, <2>4, <2>7, StreamWords
  <2>9. CASE b = 0
    <3>1. d = <<>>
      BY <2>5, <2>9, EmptySeq
    <3>2. q \o <<>> = q
      BY ConcatEmptySeq
    <3>3. y = q
      BY <2>4, <3>1, <3>2
    <3>4. old = new
      BY <2>7, <3>3
    <3> QED
      BY <1>1, <2>8, <3>4 DEF C!Stream!vars
  <2>10. CASE b # 0
    <3>1. SubSeq(y, 1, Len(q)) = q
      BY <2>4, PrefixOfConcat
    <3>2. ASSUME NEW k \in a + 1 .. a + b
          PROVE  y[k] \in 1 .. m /\ (k > 1 => y[k - 1] <= y[k])
      <4>1. k \in 1 .. a + b /\ (k > 1 => k - 1 \in 1 .. a + b /\ k - 1 < k)
        BY <3>2
      <4>2. y[k] \in Nat \ {0}
        BY <2>5, <4>1, NumbersOf
      <4>3. y[k] <= m
        BY <2>5, <2>6, <4>1 DEF RisingTo
      <4>4. m \in Nat
        BY <1>2, <2>6, ClientTypes
      <4>5. y[k] \in 1 .. m
        BY <4>2, <4>3, <4>4
      <4>6. k > 1 => y[k - 1] <= y[k]
        <5>1. k > 1 => y[k - 1] < y[k]
          BY <2>5, <2>6, <4>1 DEF RisingTo, Increasing
        <5>2. k > 1 => y[k - 1] \in Nat
          BY <2>5, <4>1, NumbersOf
        <5> QED
          BY <4>2, <5>1, <5>2
      <4> QED
        BY <4>5, <4>6
    <3>3. C!Stream!Extends(y, q)
      <4>1. Len(y) > Len(q)
        BY <2>5, <2>10
      <4>2. \A k \in Len(q) + 1 .. Len(y) :
              y[k] \in 1 .. linesOfView /\ (k > 1 => y[k - 1] <= y[k])
        BY <2>5, <2>6, <3>2
      <4>3. C!Stream!Repeated(y) = {}
        <5>1. \A k \in 2 .. a + b : k \in 1 .. a + b /\ k - 1 \in 1 .. a + b /\ k - 1 < k
          BY <2>5
        <5>2. \A k \in 2 .. a + b : y[k - 1] < y[k]
          BY <2>5, <2>6, <5>1 DEF RisingTo, Increasing
        <5>3. \A k \in 2 .. a + b : y[k] # y[k - 1]
          <6>1. \A k \in 1 .. a + b : y[k] \in Nat
            BY <2>5, NumbersOf
          <6> QED
            BY <5>1, <5>2, <6>1
        <5> QED
          BY <2>5, <5>3 DEF C!Stream!Repeated
      <4>4. C!Stream!Cardinality(C!Stream!Repeated(y)) <= 0
        BY <4>3, FS_EmptySet, SameCount
      <4> QED
        BY <3>1, <4>1, <4>2, <4>4 DEF C!Stream!Extends
    <3>4. /\ new["viewer"] = y /\ old["viewer"] = q
          /\ new = [old EXCEPT !["viewer"] = new["viewer"]]
      BY <2>7
    <3>5. C!Stream!Show("viewer")
      BY <1>1, <2>8, <3>3, <3>4 DEF C!Stream!Show
    <3> QED
      BY <3>5 DEF C!Stream!Next
  <2> QED
    BY <2>9, <2>10
<1> QED
  BY <1>4, <1>6, <1>7

LEMMA ClientRefines ==
  ASSUME ClientInv, ClientInv', [C!Next]_(C!vars)
  PROVE  [C!Stream!Next]_(C!Stream!vars)
<1>1. CASE UNCHANGED C!vars
  BY <1>1, StillDelivery DEF C!vars, C!agentVars
<1>2. CASE C!AgentStarts \/ C!AgentStops \/ C!LinkEnds \/ C!Network
  <2>1. UNCHANGED <<linesOfView, received>>
    BY <1>2 DEF C!AgentStarts, C!AgentStops, C!LinkEnds, C!Network, C!Register,
       C!SegmentArrives, C!ViewerOnly
  <2> QED
    BY <2>1, StillDelivery
<1>3. CASE C!Dispatch
  <2>1. linesOfView' = linesOfView + 1 /\ received' = received
    BY <1>3 DEF C!Dispatch, C!ViewerOnly
  <2> QED
    BY <2>1, DispatchDelivers
<1>4. CASE C!Run \/ C!TestConnect \/ C!OnClientSocketErr
  <2>1. UNCHANGED <<linesOfView, received>>
    BY <1>4 DEF C!Run, C!TestConnect, C!OnClientSocketErr
  <2> QED
    BY <2>1, StillDelivery
<1>5. CASE C!OnClientRecvData
  BY <1>5, RecvDelivers
<1> QED
  BY <1>1, <1>2, <1>3, <1>4, <1>5 DEF C!Next, C!ClientThread

LEMMA ClientDelivery == C!Init => C!Stream!Init
<1> SUFFICES ASSUME C!Init PROVE C!Stream!Init
  OBVIOUS
<1>1. linesOfView = 0 /\ received = <<>>
  BY DEF C!Init
<1>2. C!Select(received, C!Line) = <<>>
  BY <1>1, StreamWords, SelectEmpty
<1> QED
  BY <1>1, <1>2 DEF C!Stream!Init

(***************************************************************************)
(* ClientImplementsDelivery: what comes out of CServMonitor is a Delivery: *)
(* a line of the agent's, behind those it has shown, never one twice,      *)
(* whatever the bytes of a broken connection are completed with            *)
(* (ServMonitor.cpp:69).                                                   *)
(***************************************************************************)
THEOREM ClientImplementsDelivery == C!Spec => ClientDelivers
<1>1. ClientInv /\ ClientInv' /\ [C!Next]_(C!vars)
        => [C!Stream!Next]_(C!Stream!vars)
  BY ClientRefines
<1> QED
  BY InitClient, ClientKeeps, ClientDelivery, <1>1, PTL
  DEF C!Spec, ClientDelivers, C!ClientDelivers, C!Stream!Spec

(***************************************************************************)
(* EachEndAlone: a behaviour in which the other end keeps still is one of  *)
(* the end that moves, so the theorems hold of what the runs check.        *)
(***************************************************************************)
THEOREM EachEndAlone == (ServSpec => Spec) /\ (ClientSpec => C!Spec)
<1>1. [Next /\ ClientStill]_allVars => [Next]_vars
  BY DEF ClientStill, allVars, vars
<1>2. [C!Next /\ ServStill]_allVars => [C!Next]_(C!vars)
  BY DEF ServStill, allVars, clientVars, C!vars, C!agentVars, C!viewerVars
<1> QED
  BY <1>1, <1>2, PTL DEF ServSpec, ServInit, ClientSpec, ClientInit, Spec, C!Spec
=============================================================================
