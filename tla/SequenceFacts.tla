---------------------------- MODULE SequenceFacts ----------------------------
(***************************************************************************)
(* What the other proofs need to know of sequences and of functions that   *)
(* are defined by recursion over them.                                     *)
(*                                                                         *)
(* The induction theorems of the library take an operator as a parameter   *)
(* and cannot be used here.  Induction over a set needs none: a set that   *)
(* has 0 and with every number the next one has all numbers.  It follows   *)
(* from the library's theorems about the cardinality of finite sets.       *)
(***************************************************************************)
EXTENDS Selecting, FiniteSets, SequenceTheorems, FunctionTheorems,
        FiniteSetTheorems, TLAPS

-----------------------------------------------------------------------------
(* Induction.                                                              *)

\* If n were missing, k |-> k + 1 would map the members up to n to those of
\* them that are not 0, which are fewer.
LEMMA NatInduces ==
  ASSUME NEW S, 0 \in S, \A n \in Nat : n \in S => n + 1 \in S
  PROVE  Nat \subseteq S
<1> SUFFICES ASSUME NEW n \in Nat, n \notin S
             PROVE  FALSE
  OBVIOUS
<1> DEFINE T == {k \in 0 .. n : k \in S}
           U == {k \in T : k # 0}
           f == [k \in T |-> k + 1]
<1>1. IsFiniteSet(0 .. n)
  BY FS_Interval
<1>2. T \in SUBSET (0 .. n) /\ IsFiniteSet(T)
  BY <1>1, FS_Subset
<1>3. U \in SUBSET T /\ IsFiniteSet(U) /\ 0 \in T
  BY <1>2, FS_Subset
<1>4. f \in Injection(T, U)
  <2>1. \A k \in T : k + 1 \in U
    OBVIOUS
  <2> QED
    BY <2>1 DEF Injection, IsInjective
<1>5. Cardinality(T) <= Cardinality(U)
  BY <1>3, <1>4, FS_Injection
<1>6. /\ Cardinality(U) <= Cardinality(T)
      /\ Cardinality(T) = Cardinality(U) => T = U
  BY <1>2, <1>3, FS_Subset
<1>7. Cardinality(T) \in Nat /\ Cardinality(U) \in Nat
  BY <1>2, <1>3, FS_CardinalityType
<1>8. T # U
  BY <1>3
<1> QED
  <2> HIDE DEF T, U
  <2> QED
    BY <1>5, <1>6, <1>7, <1>8

\* A set that has the empty sequence and is closed under Append has all.
LEMMA SeqInduces ==
  ASSUME NEW T, NEW A, <<>> \in A,
         \A s \in Seq(T), e \in T : s \in A => Append(s, e) \in A
  PROVE  Seq(T) \subseteq A
<1> DEFINE L == {n \in Nat : \A s \in Seq(T) : Len(s) = n => s \in A}
<1>1. 0 \in L
  BY EmptySeq
<1>2. ASSUME NEW n \in Nat, n \in L PROVE n + 1 \in L
  <2> SUFFICES ASSUME NEW s \in Seq(T), Len(s) = n + 1 PROVE s \in A
    OBVIOUS
  <2>1. s # <<>>
    BY EmptySeq
  <2>2. PICK r \in Seq(T), e \in T : s = Append(r, e)
    BY <2>1, SequenceEmptyOrAppend
  <2>3. Len(r) = n
    <3>1. Len(s) = Len(r) + 1 /\ Len(r) \in Nat
      BY <2>2, AppendProperties, LenProperties
    <3> QED
      BY <3>1
  <2> QED
    BY <1>2, <2>2, <2>3
<1>3. Nat \subseteq L
  BY <1>1, <1>2, NatInduces
<1> SUFFICES ASSUME NEW s \in Seq(T) PROVE s \in A
  OBVIOUS
<1>4. Len(s) \in L
  BY <1>3, LenProperties
<1> QED
  BY <1>4

(***************************************************************************)
(* A recursive definition over 0 .. n has a solution: there is a function  *)
(* that starts with b and takes step[k] to get from k - 1 to k.            *)
(***************************************************************************)
Recursion(V, b, n, step) == b \in V /\ n \in Nat /\ step \in [1 .. n -> [V -> V]]

Solves(g, V, b, n, step) ==
  g \in [0 .. n -> V] /\ g[0] = b /\ \A k \in 1 .. n : g[k] = step[k][g[k - 1]]

LEMMA RecursionExists ==
  ASSUME NEW V, NEW b, NEW n, NEW step, Recursion(V, b, n, step)
  PROVE  \E g : Solves(g, V, b, n, step)
<1>0. b \in V /\ n \in Nat /\ step \in [1 .. n -> [V -> V]]
  BY DEF Recursion
<1> DEFINE Solved(m) == \E g \in [0 .. m -> V] :
             g[0] = b /\ \A k \in 1 .. m : g[k] = step[k][g[k - 1]]
           S == {m \in Nat : m <= n => Solved(m)}
<1>1. 0 \in S
  <2> DEFINE g == [k \in 0 .. 0 |-> b]
  <2>1. g \in [0 .. 0 -> V] /\ g[0] = b
    BY <1>0
  <2>2. \A k \in 1 .. 0 : g[k] = step[k][g[k - 1]]
    OBVIOUS
  <2> HIDE DEF g
  <2>3. Solved(0)
    BY <2>1, <2>2
  <2> QED
    BY <2>3
<1>2. ASSUME NEW m \in Nat, m \in S PROVE m + 1 \in S
  <2> SUFFICES ASSUME m + 1 <= n PROVE Solved(m + 1)
    OBVIOUS
  <2>1. PICK g \in [0 .. m -> V] :
          g[0] = b /\ \A k \in 1 .. m : g[k] = step[k][g[k - 1]]
    <3>1. m <= n
      BY <1>0
    <3> QED
      BY <1>2, <3>1
  <2> DEFINE h == [k \in 0 .. m + 1 |-> IF k = m + 1 THEN step[m + 1][g[m]] ELSE g[k]]
  <2>2. m + 1 \in 1 .. n /\ g[m] \in V
    BY <2>1
  <2>3. step[m + 1][g[m]] \in V
    BY <1>0, <2>2
  <2>4. h \in [0 .. m + 1 -> V]
    BY <2>3
  <2>5. h[0] = b
    BY <2>1
  <2>6. ASSUME NEW k \in 1 .. m + 1 PROVE h[k] = step[k][h[k - 1]]
    <3>1. k - 1 \in 0 .. m /\ h[k - 1] = g[k - 1]
      OBVIOUS
    <3>2. CASE k = m + 1
      BY <3>1, <3>2
    <3>3. CASE k # m + 1
      <4>1. k \in 1 .. m /\ h[k] = g[k]
        BY <3>3
      <4> QED
        BY <2>1, <3>1, <4>1
    <3> QED
      BY <3>2, <3>3
  <2> HIDE DEF h
  <2> QED
    BY <2>4, <2>5, <2>6
<1>3. n \in S
  BY <1>0, <1>1, <1>2, NatInduces
<1> QED
  BY <1>0, <1>3 DEF Solves

-----------------------------------------------------------------------------
(* Select.                                                                 *)

\* The function in the definition of Select is a solution of its equation.
Selects(g, s, S) ==
  /\ g[0] = <<>> /\ Select(s, S) = g[Len(s)]
  /\ \A k \in 1 .. Len(s) :
       g[k] = IF s[k] \in S THEN Append(g[k - 1], s[k]) ELSE g[k - 1]

LEMMA SelectSolves ==
  ASSUME NEW T, NEW s, s \in Seq(T), NEW S
  PROVE  \E g : g \in [0 .. Len(s) -> Seq(T)] /\ Selects(g, s, S)
<1> DEFINE n == Len(s)
           V == Seq(T)
           step == [k \in 1 .. n |-> [v \in V |->
                      IF s[k] \in S THEN Append(v, s[k]) ELSE v]]
           body(f) == [k \in 0 .. n |->
                        IF k = 0 THEN <<>>
                        ELSE IF s[k] \in S THEN Append(f[k - 1], s[k])
                        ELSE f[k - 1]]
           front == CHOOSE f : f = body(f)
<1>1. n \in Nat
  BY LenProperties
<1>2. step \in [1 .. n -> [V -> V]]
  BY <1>1, AppendProperties, ElementOfSeq
<1>3. <<>> \in V
  BY EmptySeq
<1>4. \E g \in [0 .. n -> V] :
        g[0] = <<>> /\ \A k \in 1 .. n : g[k] = step[k][g[k - 1]]
  <2>1. Recursion(V, <<>>, n, step)
    BY <1>1, <1>2, <1>3 DEF Recursion
  <2> HIDE DEF n, V, step
  <2> QED
    BY <2>1, RecursionExists DEF Solves
<1>5. PICK g \in [0 .. n -> V] :
        g[0] = <<>> /\ \A k \in 1 .. n : g[k] = step[k][g[k - 1]]
  BY <1>4
<1>6. \A k \in 1 .. n :
        g[k] = IF s[k] \in S THEN Append(g[k - 1], s[k]) ELSE g[k - 1]
  <2> SUFFICES ASSUME NEW k \in 1 .. n
               PROVE  g[k] = IF s[k] \in S THEN Append(g[k - 1], s[k]) ELSE g[k - 1]
    OBVIOUS
  <2>1. g[k - 1] \in V
    BY <1>1
  <2> QED
    BY <1>5, <2>1
<1>7. g = body(g)
  <2>1. ASSUME NEW k \in 0 .. n
        PROVE  g[k] = IF k = 0 THEN <<>>
                      ELSE IF s[k] \in S THEN Append(g[k - 1], s[k]) ELSE g[k - 1]
    <3>1. CASE k = 0
      BY <1>5, <3>1
    <3>2. CASE k # 0
      <4>1. k \in 1 .. n
        BY <1>1, <3>2
      <4> QED
        BY <1>6, <3>2, <4>1
    <3> QED
      BY <3>1, <3>2
  <2>2. g = [k \in 0 .. n |-> g[k]]
    OBVIOUS
  <2> QED
    BY <2>1, <2>2
<1>8. front = body(front)
  <2> HIDE DEF body
  <2> QED
    BY <1>7
<1>9. Select(s, S) = front[n]
  BY DEF Select
<1>10. PICK f : f = front
  OBVIOUS
<1>11. f = body(f) /\ Select(s, S) = f[n]
  <2> HIDE DEF front, body
  <2> QED
    BY <1>8, <1>9, <1>10
<1>12. /\ f[0] = <<>>
       /\ \A k \in 1 .. n : f[k] = IF s[k] \in S THEN Append(f[k - 1], s[k])
                                   ELSE f[k - 1]
       /\ f = [k \in 0 .. n |-> f[k]]
  <2> HIDE DEF front
  <2>1. 0 \in 0 .. n /\ \A k \in 1 .. n : k \in 0 .. n /\ k # 0
    BY <1>1
  <2>2. /\ DOMAIN f = 0 .. n
        /\ \A k \in 0 .. n : f[k] = IF k = 0 THEN <<>>
                                    ELSE IF s[k] \in S THEN Append(f[k - 1], s[k])
                                    ELSE f[k - 1]
        /\ f = [k \in DOMAIN f |-> f[k]]
    BY <1>11
  <2> HIDE DEF n
  <2> QED
    BY <2>1, <2>2
<1>13. \A k \in 0 .. n : f[k] \in V
  <2> DEFINE A == {k \in Nat : k <= n => f[k] \in V}
  <2> HIDE DEF front, V, n
  <2>1. 0 \in A
    BY <1>3, <1>12
  <2>2. ASSUME NEW k \in Nat, k \in A PROVE k + 1 \in A
    <3> SUFFICES ASSUME k + 1 <= n PROVE f[k + 1] \in V
      OBVIOUS
    <3>1. k + 1 \in 1 .. n /\ (k + 1) - 1 = k /\ f[k] \in V
      BY <1>1, <2>2
    <3>2. f[k + 1] = IF s[k + 1] \in S THEN Append(f[k], s[k + 1]) ELSE f[k]
      BY <1>12, <3>1
    <3> QED
      BY <3>1, <3>2, AppendProperties, ElementOfSeq DEF V, n
  <2>3. Nat \subseteq A
    BY <2>1, <2>2, NatInduces
  <2> QED
    BY <1>1, <2>3
<1>14. f \in [0 .. n -> V]
  <2> HIDE DEF V, n, front
  <2> QED
    BY <1>12, <1>13
<1> HIDE DEF front
<1> QED
  BY <1>11, <1>12, <1>14 DEF Selects

\* A sequence is over any set that has its elements.
LEMMA SeqNarrows ==
  ASSUME NEW T, NEW s, s \in Seq(T), NEW U, \A k \in 1 .. Len(s) : s[k] \in U
  PROVE  s \in Seq(U)
<1>1. Len(s) \in Nat /\ s \in [1 .. Len(s) -> T]
  BY LenProperties
<1>2. s \in [1 .. Len(s) -> U]
  BY <1>1
<1> QED
  BY <1>1, <1>2, SeqDef

LEMMA AppendAcross ==
  ASSUME NEW T, NEW s \in Seq(T), NEW t \in Seq(T), NEW e \in T
  PROVE  s \o Append(t, e) = Append(s \o t, e)
<1>1. /\ s \o t \in Seq(T) /\ Append(t, e) \in Seq(T)
      /\ Len(s \o t) = Len(s) + Len(t) /\ Len(Append(t, e)) = Len(t) + 1
  BY ConcatProperties, AppendProperties
<1>2. /\ s \o Append(t, e) \in Seq(T) /\ Append(s \o t, e) \in Seq(T)
      /\ Len(s \o Append(t, e)) = Len(s) + (Len(t) + 1)
      /\ Len(Append(s \o t, e)) = (Len(s) + Len(t)) + 1
  BY <1>1, ConcatProperties, AppendProperties
<1>3. Len(s) \in Nat /\ Len(t) \in Nat
  BY LenProperties
<1>4. ASSUME NEW k \in 1 .. Len(s) + Len(t) + 1
      PROVE  (s \o Append(t, e))[k] = Append(s \o t, e)[k]
  <2>1. (s \o Append(t, e))[k] = IF k <= Len(s) THEN s[k] ELSE Append(t, e)[k - Len(s)]
    BY <1>1, <1>3, ConcatProperties
  <2>2. CASE k = Len(s) + Len(t) + 1
    <3>1. ~(k <= Len(s)) /\ k - Len(s) = Len(t) + 1
      BY <1>3, <2>2
    <3>2. Append(t, e)[Len(t) + 1] = e /\ Append(s \o t, e)[Len(s \o t) + 1] = e
      BY <1>1, AppendProperties
    <3> QED
      BY <1>1, <2>1, <2>2, <3>1, <3>2
  <2>3. CASE k # Len(s) + Len(t) + 1
    <3>1. k \in 1 .. Len(s) + Len(t)
      BY <1>3, <2>3
    <3>2. Append(s \o t, e)[k] = (s \o t)[k]
      BY <1>1, <3>1, AppendProperties
    <3>3. (s \o t)[k] = IF k <= Len(s) THEN s[k] ELSE t[k - Len(s)]
      BY <3>1, ConcatProperties
    <3>4. ~(k <= Len(s)) => k - Len(s) \in 1 .. Len(t)
      BY <1>3, <3>1
    <3>5. ~(k <= Len(s)) => Append(t, e)[k - Len(s)] = t[k - Len(s)]
      BY <3>4, AppendProperties
    <3> QED
      BY <2>1, <3>2, <3>3, <3>5
  <2> QED
    BY <2>2, <2>3
<1> QED
  BY <1>2, <1>3, <1>4, SeqEqual

\* What follows the first e elements grows with the sequence.
LEMMA SuffixOfConcat ==
  ASSUME NEW T, NEW s, s \in Seq(T), NEW t, t \in Seq(T), NEW e \in 0 .. Len(s)
  PROVE  SubSeq(s \o t, e + 1, Len(s \o t)) = SubSeq(s, e + 1, Len(s)) \o t
<1>1. PICK n \in Nat, m \in Nat, c \in Seq(T) : n = Len(s) /\ m = Len(t) /\ c = s \o t
  BY LenProperties, ConcatProperties
<1>2. /\ c \in Seq(T) /\ Len(c) = n + m
      /\ \A i \in 1 .. n + m : c[i] = IF i <= n THEN s[i] ELSE t[i - n]
  BY <1>1, ConcatProperties
<1>3. e \in Nat /\ e <= n
  BY <1>1
<1>4. PICK x : x = SubSeq(c, e + 1, n + m)
  OBVIOUS
<1>5. x \in Seq(T) /\ Len(x) = n + m - e /\ \A i \in 1 .. n + m - e : x[i] = c[e + i]
  <2>1. \A i \in e + 1 .. n + m : c[i] \in T
    BY <1>2, <1>3, ElementOfSeq
  <2>2. /\ SubSeq(c, e + 1, n + m) \in Seq(T)
        /\ Len(SubSeq(c, e + 1, n + m)) =
             IF e + 1 <= n + m THEN n + m - (e + 1) + 1 ELSE 0
        /\ \A i \in 1 .. n + m - (e + 1) + 1 :
             SubSeq(c, e + 1, n + m)[i] = c[e + 1 + i - 1]
    BY <1>3, <2>1, SubSeqProperties
  <2>3. n + m - (e + 1) + 1 = n + m - e /\ (~(e + 1 <= n + m) => n + m - e = 0)
    BY <1>3
  <2>4. \A i \in 1 .. n + m - e : e + 1 + i - 1 = e + i
    BY <1>3
  <2> QED
    BY <1>4, <2>2, <2>3, <2>4
<1>6. PICK y : y = SubSeq(s, e + 1, n)
  OBVIOUS
<1>7. y \in Seq(T) /\ Len(y) = n - e /\ \A i \in 1 .. n - e : y[i] = s[e + i]
  <2>1. \A i \in e + 1 .. n : s[i] \in T
    BY <1>1, <1>3, ElementOfSeq
  <2>2. /\ SubSeq(s, e + 1, n) \in Seq(T)
        /\ Len(SubSeq(s, e + 1, n)) = IF e + 1 <= n THEN n - (e + 1) + 1 ELSE 0
        /\ \A i \in 1 .. n - (e + 1) + 1 : SubSeq(s, e + 1, n)[i] = s[e + 1 + i - 1]
    BY <1>3, <2>1, SubSeqProperties
  <2>3. n - (e + 1) + 1 = n - e /\ (~(e + 1 <= n) => n - e = 0)
    BY <1>3
  <2>4. \A i \in 1 .. n - e : e + 1 + i - 1 = e + i
    BY <1>3
  <2> QED
    BY <1>6, <2>2, <2>3, <2>4
<1>8. /\ y \o t \in Seq(T) /\ Len(y \o t) = (n - e) + m
      /\ \A i \in 1 .. (n - e) + m :
           (y \o t)[i] = IF i <= n - e THEN y[i] ELSE t[i - (n - e)]
  <2>1. /\ y \o t \in Seq(T) /\ Len(y \o t) = Len(y) + Len(t)
        /\ \A i \in 1 .. Len(y) + Len(t) :
             (y \o t)[i] = IF i <= Len(y) THEN y[i] ELSE t[i - Len(y)]
    BY <1>7, ConcatProperties
  <2>2. Len(y) = n - e /\ Len(t) = m
    BY <1>1, <1>7
  <2> QED
    BY <2>1, <2>2
<1>9. ASSUME NEW i \in 1 .. n + m - e PROVE x[i] = (y \o t)[i]
  <2>1. e + i \in 1 .. n + m /\ i \in 1 .. (n - e) + m /\ x[i] = c[e + i]
    BY <1>3, <1>5
  <2>2. CASE i <= n - e
    <3>1. e + i <= n /\ i \in 1 .. n - e
      BY <1>3, <2>2
    <3> QED
      BY <1>2, <1>7, <1>8, <2>1, <2>2, <3>1
  <2>3. CASE ~(i <= n - e)
    <3>1. ~(e + i <= n) /\ e + i - n = i - (n - e)
      BY <1>3, <2>3
    <3>2. c[e + i] = t[e + i - n]
      BY <1>2, <2>1, <3>1
    <3>3. (y \o t)[i] = t[i - (n - e)]
      BY <1>8, <2>1, <2>3
    <3> QED
      BY <2>1, <3>1, <3>2, <3>3
  <2> QED
    BY <2>2, <2>3
<1>10. x = y \o t
  <2>1. Len(x) = Len(y \o t)
    BY <1>3, <1>5, <1>8
  <2> QED
    BY <1>5, <1>8, <1>9, <2>1, SeqEqual
<1> QED
  BY <1>1, <1>2, <1>4, <1>6, <1>10

LEMMA SelectEmpty ==
  ASSUME NEW S
  PROVE  Select(<<>>, S) = <<>>
<1>1. <<>> \in Seq({}) /\ Len(<<>>) = 0
  BY EmptySeq
<1>2. PICK g : Selects(g, <<>>, S)
  BY <1>1, SelectSolves
<1> QED
  BY <1>1, <1>2 DEF Selects

\* Two functions that follow the same recursion agree.
LEMMA SelectAppend ==
  ASSUME NEW T, NEW s \in Seq(T), NEW e \in T, NEW S
  PROVE  Select(Append(s, e), S) =
           IF e \in S THEN Append(Select(s, S), e) ELSE Select(s, S)
<1>1. /\ Append(s, e) \in Seq(T) /\ Len(Append(s, e)) = Len(s) + 1
      /\ \A k \in 1 .. Len(s) : Append(s, e)[k] = s[k]
      /\ Append(s, e)[Len(s) + 1] = e
  BY AppendProperties
<1>2. PICK g : /\ g[0] = <<>> /\ Select(s, S) = g[Len(s)]
               /\ \A k \in 1 .. Len(s) :
                    g[k] = IF s[k] \in S THEN Append(g[k - 1], s[k]) ELSE g[k - 1]
  BY SelectSolves DEF Selects
<1>3. PICK r : r = Append(s, e)
  OBVIOUS
<1>4. PICK n \in Nat : n = Len(s)
  BY LenProperties
<1>5. PICK h : /\ h[0] = <<>> /\ Select(r, S) = h[n + 1]
               /\ \A k \in 1 .. n + 1 :
                    h[k] = IF r[k] \in S THEN Append(h[k - 1], r[k]) ELSE h[k - 1]
  <2>1. r \in Seq(T) /\ Len(r) = n + 1
    BY <1>1, <1>3, <1>4
  <2>2. PICK h : Selects(h, r, S)
    BY <2>1, SelectSolves
  <2> QED
    BY <2>1, <2>2 DEF Selects
<1>6. g[n] = h[n]
  <2> DEFINE A == {k \in Nat : k <= n => g[k] = h[k]}
  <2>1. 0 \in A
    BY <1>2, <1>5
  <2>2. ASSUME NEW k \in Nat, k \in A PROVE k + 1 \in A
    <3> SUFFICES ASSUME k + 1 <= n PROVE g[k + 1] = h[k + 1]
      OBVIOUS
    <3>1. /\ k + 1 \in 1 .. n /\ k + 1 \in 1 .. n + 1
          /\ (k + 1) - 1 = k /\ g[k] = h[k]
      BY <2>2
    <3>2. r[k + 1] = s[k + 1]
      BY <1>1, <1>3, <1>4, <3>1
    <3> QED
      BY <1>2, <1>4, <1>5, <3>1, <3>2
  <2> HIDE DEF A
  <2>3. Nat \subseteq A
    BY <2>1, <2>2, NatInduces
  <2> QED
    BY <2>3 DEF A
<1>7. n + 1 \in 1 .. n + 1 /\ (n + 1) - 1 = n
  OBVIOUS
<1> QED
  BY <1>1, <1>2, <1>3, <1>4, <1>5, <1>6, <1>7

LEMMA SelectType ==
  ASSUME NEW T, NEW S
  PROVE  \A s \in Seq(T) : Select(s, S) \in Seq(T \cap S) /\ Len(Select(s, S)) <= Len(s)
<1> DEFINE A == {s \in Seq(T) :
                   Select(s, S) \in Seq(T \cap S) /\ Len(Select(s, S)) <= Len(s)}
<1>1. <<>> \in A
  <2>1. <<>> \in Seq(T) /\ <<>> \in Seq(T \cap S) /\ Len(<<>>) <= Len(<<>>)
    BY EmptySeq
  <2> QED
    BY <2>1, SelectEmpty
<1>2. ASSUME NEW s \in Seq(T), NEW e \in T, s \in A PROVE Append(s, e) \in A
  <2>1. Append(s, e) \in Seq(T) /\ Len(Append(s, e)) = Len(s) + 1 /\ Len(s) \in Nat
    BY AppendProperties, LenProperties
  <2>2. PICK r \in Seq(T \cap S) : r = Select(s, S) /\ Len(r) <= Len(s) /\ Len(r) \in Nat
    BY <1>2, LenProperties
  <2>3. CASE e \in S
    <3>1. Append(r, e) \in Seq(T \cap S) /\ Len(Append(r, e)) = Len(r) + 1
      BY <2>3, AppendProperties
    <3>2. Select(Append(s, e), S) = Append(r, e)
      BY <2>2, <2>3, SelectAppend
    <3> QED
      BY <2>1, <2>2, <3>1, <3>2
  <2>4. CASE e \notin S
    <3>1. Select(Append(s, e), S) = r
      BY <2>2, <2>4, SelectAppend
    <3> QED
      BY <2>1, <2>2, <3>1
  <2> QED
    BY <2>3, <2>4
<1> HIDE DEF A
<1>3. Seq(T) \subseteq A
  BY <1>1, <1>2, SeqInduces
<1> QED
  BY <1>3 DEF A

\* What is selected of two sequences in a row is selected of each.
LEMMA SelectConcat ==
  ASSUME NEW T, NEW S, NEW s \in Seq(T)
  PROVE  \A t \in Seq(T) : Select(s \o t, S) = Select(s, S) \o Select(t, S)
<1> DEFINE A == {t \in Seq(T) : Select(s \o t, S) = Select(s, S) \o Select(t, S)}
<1>0. Select(s, S) \in Seq(T)
  <2>1. Select(s, S) \in Seq(T \cap S) /\ T \cap S \subseteq T
    BY SelectType
  <2> QED
    BY <2>1, SeqMonotonic
<1>1. <<>> \in A
  BY <1>0, EmptySeq, SelectEmpty, ConcatEmptySeq
<1>2. ASSUME NEW t \in Seq(T), NEW e \in T, t \in A PROVE Append(t, e) \in A
  <2>1. Append(t, e) \in Seq(T) /\ s \o t \in Seq(T)
    BY AppendProperties, ConcatProperties
  <2>2. s \o Append(t, e) = Append(s \o t, e)
    BY AppendAcross
  <2>3. Select(t, S) \in Seq(T)
    <3>1. Select(t, S) \in Seq(T \cap S) /\ T \cap S \subseteq T
      BY SelectType
    <3> QED
      BY <3>1, SeqMonotonic
  <2>4. Select(s, S) \o Append(Select(t, S), e) = Append(Select(s, S) \o Select(t, S), e)
    BY <1>0, <2>3, AppendAcross
  <2>5. Select(Append(s \o t, e), S) =
          IF e \in S THEN Append(Select(s \o t, S), e) ELSE Select(s \o t, S)
    BY <2>1, SelectAppend
  <2>6. Select(Append(t, e), S) = IF e \in S THEN Append(Select(t, S), e) ELSE Select(t, S)
    BY SelectAppend
  <2> QED
    BY <1>2, <2>1, <2>2, <2>4, <2>5, <2>6
<1> HIDE DEF A
<1>3. Seq(T) \subseteq A
  BY <1>1, <1>2, SeqInduces
<1> QED
  BY <1>3 DEF A

LEMMA SelectAll ==
  ASSUME NEW T, NEW S, T \subseteq S
  PROVE  \A s \in Seq(T) : Select(s, S) = s
<1> DEFINE A == {s \in Seq(T) : Select(s, S) = s}
<1>1. <<>> \in A
  BY EmptySeq, SelectEmpty
<1>2. ASSUME NEW s \in Seq(T), NEW e \in T, s \in A PROVE Append(s, e) \in A
  BY <1>2, AppendProperties, SelectAppend
<1> HIDE DEF A
<1>3. Seq(T) \subseteq A
  BY <1>1, <1>2, SeqInduces
<1> QED
  BY <1>3 DEF A

LEMMA SelectAgrees ==
  ASSUME NEW T, NEW S, NEW U, T \cap S = T \cap U
  PROVE  \A s \in Seq(T) : Select(s, S) = Select(s, U)
<1> DEFINE A == {s \in Seq(T) : Select(s, S) = Select(s, U)}
<1>1. <<>> \in A
  BY EmptySeq, SelectEmpty
<1>2. ASSUME NEW s \in Seq(T), NEW e \in T, s \in A PROVE Append(s, e) \in A
  <2>1. e \in S <=> e \in U
    OBVIOUS
  <2> QED
    BY <1>2, <2>1, AppendProperties, SelectAppend
<1> HIDE DEF A
<1>3. Seq(T) \subseteq A
  BY <1>1, <1>2, SeqInduces
<1> QED
  BY <1>3 DEF A

LEMMA SelectNone ==
  ASSUME NEW T, NEW S, T \cap S = {}
  PROVE  \A s \in Seq(T) : Select(s, S) = <<>>
<1> DEFINE A == {s \in Seq(T) : Select(s, S) = <<>>}
<1>1. <<>> \in A
  BY EmptySeq, SelectEmpty
<1>2. ASSUME NEW s \in Seq(T), NEW e \in T, s \in A PROVE Append(s, e) \in A
  BY <1>2, AppendProperties, SelectAppend
<1> HIDE DEF A
<1>3. Seq(T) \subseteq A
  BY <1>1, <1>2, SeqInduces
<1> QED
  BY <1>3 DEF A

-----------------------------------------------------------------------------
(* Beginnings and ends of sequences.                                       *)

LEMMA PrefixOfConcat ==
  ASSUME NEW T, NEW s, s \in Seq(T), NEW t, t \in Seq(T)
  PROVE  SubSeq(s \o t, 1, Len(s)) = s
<1>1. PICK n \in Nat, m \in Nat, c \in Seq(T) : n = Len(s) /\ m = Len(t) /\ c = s \o t
  BY LenProperties, ConcatProperties
<1>2. c \in Seq(T) /\ Len(c) = n + m /\ \A i \in 1 .. n : c[i] = s[i]
  <2>1. /\ c \in Seq(T) /\ Len(c) = n + m
        /\ \A i \in 1 .. n + m : c[i] = IF i <= n THEN s[i] ELSE t[i - n]
    BY <1>1, ConcatProperties
  <2> QED
    BY <2>1
<1>3. \A i \in 1 .. n : c[i] \in T
  BY <1>1, <1>2, ElementOfSeq
<1>4. PICK x : x = SubSeq(c, 1, n)
  OBVIOUS
<1>5. x \in Seq(T) /\ Len(x) = n /\ \A i \in 1 .. n : x[i] = c[i]
  <2>1. /\ x \in Seq(T) /\ Len(x) = IF 1 <= n THEN n - 1 + 1 ELSE 0
        /\ \A i \in 1 .. n - 1 + 1 : x[i] = c[1 + i - 1]
    BY <1>3, <1>4, SubSeqProperties
  <2>2. n - 1 + 1 = n /\ (~(1 <= n) => n = 0) /\ \A i \in 1 .. n : 1 + i - 1 = i
    OBVIOUS
  <2> QED
    BY <2>1, <2>2
<1>6. x = s
  BY <1>1, <1>2, <1>5, SeqEqual
<1> QED
  BY <1>1, <1>4, <1>6

LEMMA PrefixOfAppend ==
  ASSUME NEW T, NEW s, s \in Seq(T), NEW e, e \in T
  PROVE  SubSeq(Append(s, e), 1, Len(s)) = s
<1>1. <<e>> \in Seq(T) /\ Append(s, e) = s \o <<e>>
  BY AppendIsConcat
<1> QED
  BY <1>1, PrefixOfConcat

\* A piece is of the same type, also one that begins behind the end.
LEMMA PieceTyped ==
  ASSUME NEW T, NEW s, s \in Seq(T), NEW i \in Nat
  PROVE  SubSeq(s, i + 1, Len(s)) \in Seq(T)
<1>1. PICK n \in Nat : n = Len(s)
  BY LenProperties
<1>2. \A k \in (i + 1) .. n : s[k] \in T
  <2>1. \A k \in (i + 1) .. n : k \in 1 .. n
    OBVIOUS
  <2> QED
    BY <1>1, <2>1, ElementOfSeq
<1> QED
  BY <1>1, <1>2, SubSeqProperties

\* What is before a position and what is behind it.
LEMMA CutAt ==
  ASSUME NEW T, NEW s, s \in Seq(T), NEW i, i \in 0 .. Len(s)
  PROVE  SubSeq(s, 1, i) \o SubSeq(s, i + 1, Len(s)) = s
<1>1. PICK n \in Nat : n = Len(s)
  BY LenProperties
<1>2. /\ 1 \in 1 .. n + 1 /\ i \in (1 - 1) .. n /\ n \in i .. n
  BY <1>1
<1>3. SubSeq(s, 1, i) \o SubSeq(s, i + 1, n) = SubSeq(s, 1, n)
  BY <1>1, <1>2, ConcatAdjacentSubSeq
<1> QED
  BY <1>1, <1>3, SubSeqFull

=============================================================================
