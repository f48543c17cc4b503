--------------------------- MODULE SettingsProofs ---------------------------
(***************************************************************************)
(* Proofs about LogServMgr and LogViewConfig, for any sets of paths and    *)
(* strings and any number of starts and calls: what LogView follows is     *)
(* what it lists, and what it finds at a start is what it had, except for  *)
(* what the properties name.                                               *)
(***************************************************************************)
EXTENDS MCSettings, SequenceFacts

USE LogServMgrConstants DEF LogServMgrConstants

-----------------------------------------------------------------------------
(* Sequences.                                                              *)

LEMMA ElementsOf ==
  ASSUME NEW T, NEW s, s \in Seq(T)
  PROVE  /\ ToSet(s) = {s[i] : i \in 1 .. Len(s)}
         /\ ToSet(s) \subseteq T /\ DOMAIN s = 1 .. Len(s)
<1>1. DOMAIN s = 1 .. Len(s)
  BY LenProperties
<1> QED
  BY <1>1, ElementOfSeq DEF ToSet

LEMMA ToSetEmpty == ToSet(<<>>) = {}
BY EmptySeq DEF ToSet

LEMMA HeadAndTail ==
  ASSUME NEW T, NEW s, s \in Seq(T), s # <<>>
  PROVE  /\ Head(s) \in T /\ Tail(s) \in Seq(T)
         /\ Head(s) \in ToSet(s) /\ ToSet(s) = {Head(s)} \cup ToSet(Tail(s))
<1>1. PICK n \in Nat : n = Len(s)
  BY LenProperties
<1>2. PICK t, h : t = Tail(s) /\ h = Head(s)
  OBVIOUS
<1>3. /\ h \in T /\ h = s[1] /\ t \in Seq(T) /\ Len(t) = n - 1
      /\ \A i \in 1 .. n - 1 : t[i] = s[i + 1]
  BY <1>1, <1>2, HeadTailProperties
<1>4. n # 0
  BY <1>1, EmptySeq
<1>5. ToSet(s) = {s[i] : i \in 1 .. n} /\ ToSet(t) = {t[i] : i \in 1 .. n - 1}
  BY <1>1, <1>3, ElementsOf
<1>6. h \in ToSet(s) /\ ToSet(t) \subseteq ToSet(s)
  <2>1. 1 \in 1 .. n /\ \A i \in 1 .. n - 1 : i + 1 \in 1 .. n
    BY <1>4
  <2> QED
    BY <1>3, <1>5, <2>1
<1>7. ASSUME NEW i \in 1 .. n PROVE s[i] \in {h} \cup ToSet(t)
  <2>1. CASE i = 1
    BY <1>3, <2>1
  <2>2. CASE i # 1
    <3>1. i - 1 \in 1 .. n - 1 /\ (i - 1) + 1 = i
      BY <2>2
    <3>2. t[i - 1] = s[i]
      BY <1>3, <3>1
    <3> QED
      BY <1>5, <3>1, <3>2
  <2> QED
    BY <2>1, <2>2
<1> QED
  BY <1>2, <1>3, <1>5, <1>6, <1>7

Twice(s, x) == \E i, j \in DOMAIN s : i # j /\ s[i] = x /\ s[j] = x

LEMMA AppendFacts ==
  ASSUME NEW T, NEW s, s \in Seq(T), NEW e \in T
  PROVE  /\ Append(s, e) \in Seq(T) /\ ToSet(Append(s, e)) = ToSet(s) \cup {e}
         /\ \A x : Twice(Append(s, e), x) => Twice(s, x) \/ (x = e /\ e \in ToSet(s))
<1>1. PICK n \in Nat : n = Len(s)
  BY LenProperties
<1>2. PICK t : t = Append(s, e)
  OBVIOUS
<1>3. /\ t \in Seq(T) /\ Len(t) = n + 1 /\ t[n + 1] = e
      /\ \A i \in 1 .. n : t[i] = s[i]
  BY <1>1, <1>2, AppendProperties
<1>4. /\ ToSet(s) = {s[i] : i \in 1 .. n} /\ ToSet(t) = {t[i] : i \in 1 .. n + 1}
      /\ DOMAIN s = 1 .. n /\ DOMAIN t = 1 .. n + 1
  BY <1>1, <1>3, ElementsOf
<1>5. /\ n + 1 \in 1 .. n + 1 /\ \A i \in 1 .. n : i \in 1 .. n + 1
      /\ \A i \in 1 .. n + 1 : i = n + 1 \/ i \in 1 .. n
  OBVIOUS
<1>6. ToSet(t) = ToSet(s) \cup {e}
  BY <1>3, <1>4, <1>5
<1>7. ASSUME NEW x, Twice(t, x) PROVE Twice(s, x) \/ (x = e /\ e \in ToSet(s))
  <2>1. PICK i \in 1 .. n + 1, j \in 1 .. n + 1 : i # j /\ t[i] = x /\ t[j] = x
    BY <1>4, <1>7 DEF Twice
  <2>2. CASE i \in 1 .. n /\ j \in 1 .. n
    <3>1. i \in DOMAIN s /\ j \in DOMAIN s /\ s[i] = x /\ s[j] = x
      BY <1>3, <1>4, <2>1, <2>2
    <3>2. \E p, q \in DOMAIN s : p # q /\ s[p] = x /\ s[q] = x
      BY <2>1, <3>1
    <3>3. Twice(s, x)
      BY <3>2 DEF Twice
    <3> QED
      BY <3>3
  <2>3. CASE i = n + 1
    BY <1>3, <1>4, <1>5, <2>1, <2>3
  <2>4. CASE j = n + 1
    BY <1>3, <1>4, <1>5, <2>1, <2>4
  <2> QED
    BY <1>5, <2>2, <2>3, <2>4
<1> QED
  BY <1>2, <1>3, <1>6, <1>7

\* Of a set of positions there is a first one.
LEMMA FirstExists ==
  ASSUME NEW S, S \subseteq Nat, S # {}
  PROVE  Min(S) \in S /\ \A y \in S : Min(S) <= y
<1> DEFINE A == {n \in Nat : (\E x \in S : x <= n) => \E x \in S : \A y \in S : x <= y}
<1>1. 0 \in A
  OBVIOUS
<1>2. ASSUME NEW n \in Nat, n \in A PROVE n + 1 \in A
  <2> SUFFICES ASSUME NEW z \in S, z <= n + 1, ~ \E x \in S : x <= n
               PROVE  \E x \in S : \A y \in S : x <= y
    BY <1>2
  <2>1. \A y \in S : z <= y
    OBVIOUS
  <2> QED
    BY <2>1
<1>3. Nat \subseteq A
  <2> HIDE DEF A
  <2> QED
    BY <1>1, <1>2, NatInduces
<1>4. PICK x \in S : \A y \in S : x <= y
  <2>1. PICK z \in S : TRUE
    OBVIOUS
  <2>2. z \in Nat /\ z <= z
    OBVIOUS
  <2> QED
    BY <1>3, <2>2
<1> QED
  BY <1>4 DEF Min

LEMMA RemoveAtFacts ==
  ASSUME NEW T, NEW s, s \in Seq(T), NEW i \in 1 .. Len(s)
  PROVE  /\ RemoveAt(s, i) \in Seq(T) /\ Len(RemoveAt(s, i)) = Len(s) - 1
         /\ \A k \in 1 .. Len(s) - 1 :
              RemoveAt(s, i)[k] = IF k < i THEN s[k] ELSE s[k + 1]
<1>1. PICK n \in Nat : n = Len(s)
  BY LenProperties
<1>2. PICK a, b : a = SubSeq(s, 1, i - 1) /\ b = SubSeq(s, i + 1, n)
  OBVIOUS
<1>3. \A k \in 1 .. n : s[k] \in T
  BY <1>1, ElementOfSeq
<1>4. a \in Seq(T) /\ Len(a) = i - 1 /\ \A k \in 1 .. i - 1 : a[k] = s[k]
  <2>1. \A k \in 1 .. i - 1 : s[k] \in T
    BY <1>1, <1>3
  <2>2. /\ a \in Seq(T) /\ Len(a) = IF 1 <= i - 1 THEN i - 1 - 1 + 1 ELSE 0
        /\ \A k \in 1 .. i - 1 - 1 + 1 : a[k] = s[1 + k - 1]
    BY <1>1, <1>2, <2>1, SubSeqProperties
  <2>3. /\ i - 1 - 1 + 1 = i - 1 /\ (~(1 <= i - 1) => i - 1 = 0)
        /\ \A k \in 1 .. i - 1 : 1 + k - 1 = k
    BY <1>1
  <2> QED
    BY <2>2, <2>3
<1>5. b \in Seq(T) /\ Len(b) = n - i /\ \A k \in 1 .. n - i : b[k] = s[i + k]
  <2>1. \A k \in i + 1 .. n : s[k] \in T
    BY <1>1, <1>3
  <2>2. /\ b \in Seq(T) /\ Len(b) = IF i + 1 <= n THEN n - (i + 1) + 1 ELSE 0
        /\ \A k \in 1 .. n - (i + 1) + 1 : b[k] = s[i + 1 + k - 1]
    BY <1>1, <1>2, <2>1, SubSeqProperties
  <2>3. /\ n - (i + 1) + 1 = n - i /\ (~(i + 1 <= n) => n - i = 0)
        /\ \A k \in 1 .. n - i : i + 1 + k - 1 = i + k
    BY <1>1
  <2> QED
    BY <2>2, <2>3
<1>6. PICK r : r = a \o b
  OBVIOUS
<1>7. /\ r \in Seq(T) /\ Len(r) = (i - 1) + (n - i)
      /\ \A k \in 1 .. (i - 1) + (n - i) :
           r[k] = IF k <= i - 1 THEN a[k] ELSE b[k - (i - 1)]
  <2>1. r \in Seq(T) /\ Len(r) = Len(a) + Len(b)
    BY <1>4, <1>5, <1>6, ConcatProperties
  <2>2. \A k \in 1 .. Len(a) + Len(b) : r[k] = IF k <= Len(a) THEN a[k] ELSE b[k - Len(a)]
    BY <1>4, <1>5, <1>6, ConcatProperties
  <2>3. Len(a) = i - 1 /\ Len(b) = n - i
    BY <1>4, <1>5
  <2> QED
    BY <2>1, <2>2, <2>3
<1>8. (i - 1) + (n - i) = n - 1
  BY <1>1
<1>9. ASSUME NEW k \in 1 .. n - 1 PROVE r[k] = IF k < i THEN s[k] ELSE s[k + 1]
  <2>1. CASE k < i
    <3>1. k <= i - 1 /\ k \in 1 .. i - 1
      BY <1>1, <2>1
    <3> QED
      BY <1>4, <1>7, <1>8, <2>1, <3>1
  <2>2. CASE ~(k < i)
    <3>1. ~(k <= i - 1) /\ k - (i - 1) \in 1 .. n - i /\ i + (k - (i - 1)) = k + 1
      BY <1>1, <2>2
    <3> QED
      BY <1>5, <1>7, <1>8, <2>2, <3>1
  <2> QED
    BY <2>1, <2>2
<1>10. RemoveAt(s, i) = r
  BY <1>1, <1>2, <1>6 DEF RemoveAt
<1> QED
  BY <1>1, <1>7, <1>8, <1>9, <1>10

\* What RemoveFirst leaves: all but one occurrence of e.
LEMMA RemoveFirstFacts ==
  ASSUME NEW T, NEW s, s \in Seq(T), NEW e
  PROVE  /\ RemoveFirst(s, e) \in Seq(T)
         /\ ToSet(RemoveFirst(s, e)) \subseteq ToSet(s)
         /\ ToSet(s) \subseteq ToSet(RemoveFirst(s, e)) \cup {e}
         /\ \A x : Twice(RemoveFirst(s, e), x) => Twice(s, x)
         /\ e \in ToSet(RemoveFirst(s, e)) => Twice(s, e)
<1>1. PICK n \in Nat : n = Len(s)
  BY LenProperties
<1>2. DOMAIN s = 1 .. n /\ ToSet(s) = {s[i] : i \in 1 .. n}
  BY <1>1, ElementsOf
<1>3. CASE ~ \E i \in 1 .. n : s[i] = e
  <2>1. RemoveFirst(s, e) = s
    BY <1>1, <1>3 DEF RemoveFirst
  <2> QED
    BY <1>2, <1>3, <2>1
<1>4. CASE \E i \in 1 .. n : s[i] = e
  <2> DEFINE S == {i \in 1 .. n : s[i] = e}
  <2>1. S \subseteq Nat /\ S # {}
    <3>1. PICK k \in 1 .. n : s[k] = e
      BY <1>4
    <3>2. k \in S /\ S \subseteq 1 .. n /\ 1 .. n \subseteq Nat
      BY <3>1
    <3> QED
      BY <3>2
  <2>2. PICK i \in S : i = Min(S)
    <3> HIDE DEF S
    <3> QED
      BY <2>1, FirstExists
  <2>3. RemoveFirst(s, e) = RemoveAt(s, i)
    <3>1. SelectInSeq(s, LAMBDA v : v = e) = Min(S)
      BY <1>1, <2>1 DEF SelectInSeq
    <3> QED
      BY <1>1, <1>4, <2>2, <3>1 DEF RemoveFirst
  <2>4. PICK r \in Seq(T) : r = RemoveAt(s, i)
    BY <1>1, RemoveAtFacts
  <2>5. /\ Len(r) = n - 1 /\ i \in 1 .. n /\ s[i] = e
        /\ \A k \in 1 .. n - 1 : r[k] = IF k < i THEN s[k] ELSE s[k + 1]
    BY <1>1, <2>4, RemoveAtFacts
  <2> HIDE DEF S
  <2>6. DOMAIN r = 1 .. n - 1 /\ ToSet(r) = {r[k] : k \in 1 .. n - 1}
    BY <2>5, ElementsOf
  <2> DEFINE at(k) == IF k < i THEN k ELSE k + 1
  <2>7. /\ \A k \in 1 .. n - 1 : at(k) \in 1 .. n /\ at(k) # i /\ r[k] = s[at(k)]
        /\ \A k, l \in 1 .. n - 1 : k # l => at(k) # at(l)
    BY <2>5
  <2>8. \A j \in 1 .. n : j # i => \E k \in 1 .. n - 1 : r[k] = s[j]
    <3> SUFFICES ASSUME NEW j \in 1 .. n, j # i
                 PROVE  \E k \in 1 .. n - 1 : r[k] = s[j]
      OBVIOUS
    <3>1. CASE j < i
      <4>1. j \in 1 .. n - 1 /\ r[j] = s[j]
        BY <2>5, <3>1
      <4> QED
        BY <4>1
    <3>2. CASE i < j
      <4>1. j - 1 \in 1 .. n - 1 /\ ~(j - 1 < i) /\ (j - 1) + 1 = j
        BY <2>5, <3>2
      <4>2. r[j - 1] = s[j]
        BY <2>5, <4>1
      <4> QED
        BY <4>1, <4>2
    <3> QED
      BY <2>5, <3>1, <3>2
  <2> HIDE DEF at
  <2>9. ToSet(r) \subseteq ToSet(s) /\ ToSet(s) \subseteq ToSet(r) \cup {e}
    <3>1. ToSet(s) = {s[j] : j \in 1 .. n}
      BY <1>2
    <3>2. \A k \in 1 .. n - 1 : r[k] \in ToSet(s)
      BY <2>7, <3>1
    <3>3. \A j \in 1 .. n : s[j] \in ToSet(r) \cup {e}
      BY <2>5, <2>6, <2>8
    <3> QED
      BY <2>6, <3>1, <3>2, <3>3
  <2>10. \A x : Twice(r, x) => Twice(s, x)
    <3> SUFFICES ASSUME NEW x, Twice(r, x) PROVE Twice(s, x)
      OBVIOUS
    <3>1. PICK k \in 1 .. n - 1, l \in 1 .. n - 1 : k # l /\ r[k] = x /\ r[l] = x
      BY <2>6 DEF Twice
    <3>2. /\ at(k) \in DOMAIN s /\ at(l) \in DOMAIN s /\ at(k) # at(l)
          /\ s[at(k)] = x /\ s[at(l)] = x
      BY <1>2, <2>7, <3>1
    <3>3. Twice(s, x)
      BY <3>2 DEF Twice
    <3> QED
      BY <3>3
  <2>11. e \in ToSet(r) => Twice(s, e)
    <3> SUFFICES ASSUME NEW k \in 1 .. n - 1, r[k] = e PROVE Twice(s, e)
      BY <2>6
    <3>1. /\ at(k) \in DOMAIN s /\ i \in DOMAIN s /\ at(k) # i
          /\ s[at(k)] = e /\ s[i] = e
      BY <1>2, <2>5, <2>7
    <3> QED
      BY <3>1 DEF Twice
  <2> QED
    BY <2>3, <2>4, <2>9, <2>10, <2>11
<1> QED
  BY <1>3, <1>4

\* The pieces of a row make one list.
LEMMA FlattenTyped ==
  ASSUME NEW T, NEW ss, ss \in Seq(Seq(T))
  PROVE  FlattenSeq(ss) \in Seq(T)
<1>1. PICK n \in Nat : n = Len(ss)
  BY LenProperties
<1>2. CASE n = 0
  <2>1. ss = <<>>
    BY <1>1, <1>2, EmptySeq
  <2> QED
    BY <1>1, <1>2, <2>1, EmptySeq DEF FlattenSeq
<1>3. CASE n # 0
  <2> DEFINE V == Seq(T)
             step == [k \in 1 .. n |-> [v \in V |-> v \o ss[k]]]
             body(f) == [i \in 1 .. Len(ss) |->
                           IF i = 1 THEN ss[i] ELSE f[i - 1] \o ss[i]]
             flatten == CHOOSE f : f = body(f)
  <2>1. FlattenSeq(ss) = flatten[n]
    BY <1>1, <1>3 DEF FlattenSeq
  <2>2. \A k \in 1 .. n : ss[k] \in V
    BY <1>1, ElementOfSeq
  <2>3. <<>> \in V /\ \A v, w \in V : v \o w \in V /\ <<>> \o v = v
    BY EmptySeq, ConcatProperties, ConcatEmptySeq
  <2>4. step \in [1 .. n -> [V -> V]]
    <3> HIDE DEF V
    <3> QED
      BY <2>2, <2>3
  <2>5. PICK g : Solves(g, V, <<>>, n, step)
    <3>1. Recursion(V, <<>>, n, step)
      <4> HIDE DEF V, step
      <4> QED
        BY <2>3, <2>4 DEF Recursion
    <3> HIDE DEF V, step
    <3> QED
      BY <3>1, RecursionExists
  <2>6. /\ g \in [0 .. n -> V] /\ g[0] = <<>>
        /\ \A k \in 1 .. n : g[k] = g[k - 1] \o ss[k]
    <3>1. /\ g \in [0 .. n -> V] /\ g[0] = <<>>
          /\ \A k \in 1 .. n : g[k] = step[k][g[k - 1]]
      <4> HIDE DEF V, step
      <4> QED
        BY <2>5 DEF Solves
    <3>2. ASSUME NEW k \in 1 .. n PROVE g[k] = g[k - 1] \o ss[k]
      <4>1. k - 1 \in 0 .. n /\ g[k - 1] \in V
        BY <3>1
      <4> HIDE DEF V
      <4> QED
        BY <3>1, <4>1
    <3> QED
      BY <3>1, <3>2
  <2> DEFINE h == [i \in 1 .. n |-> g[i]]
  <2>7. h = body(h)
    <3>1. ASSUME NEW i \in 1 .. n
          PROVE  g[i] = IF i = 1 THEN ss[i] ELSE h[i - 1] \o ss[i]
      <4>1. CASE i = 1
        <5>1. 1 \in 1 .. n /\ 1 - 1 = 0
          BY <4>1
        <5>2. g[1] = g[0] \o ss[1]
          BY <2>6, <5>1
        <5> HIDE DEF V
        <5> QED
          BY <2>2, <2>3, <2>6, <4>1, <5>1, <5>2
      <4>2. CASE i # 1
        <5>1. i - 1 \in 1 .. n
          BY <4>2
        <5> QED
          BY <2>6, <4>2, <5>1
      <4> QED
        BY <4>1, <4>2
    <3> QED
      BY <1>1, <3>1
  <2>8. flatten = body(flatten)
    <3> HIDE DEF body
    <3> QED
      BY <2>7
  <2>9. PICK f : f = flatten
    OBVIOUS
  <2>10. \A i \in 1 .. n : f[i] = IF i = 1 THEN ss[i] ELSE f[i - 1] \o ss[i]
    <3>1. f = body(f)
      <4> HIDE DEF flatten, body
      <4> QED
        BY <2>8, <2>9
    <3> HIDE DEF flatten
    <3> QED
      BY <1>1, <3>1
  <2> DEFINE A == {k \in Nat : k + 1 <= n => f[k + 1] \in V}
  <2>11. Nat \subseteq A
    <3> HIDE DEF V, flatten
    <3>1. 0 \in A
      BY <1>3, <2>2, <2>10
    <3>2. ASSUME NEW k \in Nat, k \in A PROVE k + 1 \in A
      <4> SUFFICES ASSUME k + 1 + 1 <= n PROVE f[k + 1 + 1] \in V
        OBVIOUS
      <4>1. k + 1 + 1 \in 1 .. n /\ k + 1 + 1 # 1 /\ (k + 1 + 1) - 1 = k + 1
        OBVIOUS
      <4>2. f[k + 1] \in V
        BY <3>2
      <4> QED
        BY <2>2, <2>3, <2>10, <4>1, <4>2
    <3> HIDE DEF A
    <3> QED
      BY <3>1, <3>2, NatInduces
  <2>12. PICK m \in Nat : m + 1 = n
    <3>1. n - 1 \in Nat /\ (n - 1) + 1 = n
      BY <1>3
    <3> QED
      BY <3>1
  <2>13. f[n] \in V
    <3> HIDE DEF V, flatten
    <3>1. m \in A
      BY <2>11
    <3>2. f[m + 1] \in V
      BY <2>12, <3>1
    <3> QED
      BY <2>12, <3>2
  <2> HIDE DEF flatten
  <2> QED
    BY <2>1, <2>9, <2>13
<1> QED
  BY <1>2, <1>3
-----------------------------------------------------------------------------
(***************************************************************************)
(* The inductive invariant of LogServMgr.  In which phase there is a call, *)
(* and what it is about; what the row holds; what is followed is watched,  *)
(* could not be opened, or was refused for a text; and a listed directory is followed unless it *)
(* was dropped, is twice in the list of the start, is about to be added,   *)
(* or Run has still to come to it.                                         *)
(***************************************************************************)
Phases ==
  /\ call.kind = "none" => call = NoCall
  /\ ui \in {"off", "idle"} => call = NoCall
  /\ ui \in {"select", "exec", "monitor"} => call # NoCall
  /\ ui = "monitor" => call.kind \in {"add", "delete"}
  /\ ui # "run" => todo = <<>>
  /\ ui = "off" => mPathSet = {}
  /\ call.kind = "add" => call.path \in ToSet(listed)
  /\ ToSet(todo) \subseteq ToSet(loaded)

Saved == DatabaseKeepsUp /\ (ui = "run" /\ call = NoCall => row = listed)

Watching ==
  \A p \in mPathSet :
    p \in mIoSet \/ p \in unopened \/ \E q \in watched \ {p} : p \in Inside[q]

\* A path is listed twice, or is still listed after one deletion, only if it
\* was twice in the list of the start.
TwiceFromStart ==
  /\ \A p \in Path : Twice(listed, p) => Twice(loaded, p)
  /\ call.kind = "delete" /\ call.path \in ToSet(listed) => Twice(loaded, call.path)

Reached(p) ==
  \/ p \in mPathSet \/ p \in dropped \/ Twice(loaded, p)
  \/ call.kind = "add" /\ call.path = p
  \/ p \in ToSet(todo)

AllReached == ui # "off" => \A p \in ToSet(listed) \cap Folder : Reached(p)

ServersTypes == TypeOK /\ answers <= scans

ServersInv ==
  /\ ServersTypes /\ Phases /\ Saved /\ Watching
  /\ TwiceFromStart /\ AllReached /\ FollowedIsListed

LEMMA InitServers == Init => ServersInv
<1> SUFFICES ASSUME Init PROVE ServersInv
  OBVIOUS
<1>1. /\ ui = "off" /\ call = NoCall /\ todo = <<>> /\ listed = <<>> /\ loaded = <<>>
      /\ row = <<>> /\ before = <<>> /\ remote = FALSE
      /\ mPathSet = {} /\ mIoSet = {} /\ watched = {} /\ dropped = {} /\ unopened = {}
      /\ mNotifyEvent = FALSE /\ scan = "wait" /\ answers = 0 /\ udp = "recv"
      /\ starts = 0 /\ calls = 0 /\ scans = 0
  BY DEF Init
<1>2. <<>> \in Seq(Path) /\ ToSet(<<>>) = {} /\ DOMAIN <<>> = {}
  BY EmptySeq, ElementsOf, ToSetEmpty
<1>3. NoCall \in Call /\ NoCall.kind = "none" /\ NoCall.path = ""
  BY DEF NoCall, Call
<1>4. ServersTypes
  <2>1. /\ answers \in 0 .. MaxScans /\ answers <= scans /\ starts \in 0 .. MaxStarts
        /\ calls \in 0 .. MaxCalls /\ scans \in 0 .. MaxScans
    BY <1>1
  <2> QED
    BY <1>1, <1>2, <1>3, <2>1 DEF ServersTypes, TypeOK
<1>5. Phases /\ Saved /\ Watching
  BY <1>1, <1>2, <1>3 DEF Phases, Saved, Watching, DatabaseKeepsUp
<1>6. TwiceFromStart /\ AllReached /\ FollowedIsListed
  BY <1>1, <1>2, <1>3 DEF TwiceFromStart, AllReached, FollowedIsListed, Twice
<1> QED
  BY <1>4, <1>5, <1>6 DEF ServersInv

-----------------------------------------------------------------------------
\* What AddPath does to the monitor.
LEMMA AddPathFacts ==
  ASSUME TypeOK, Watching, NEW p, AddPath(p)
  PROVE  /\ mPathSet' \subseteq Folder /\ mIoSet' \subseteq mPathSet'
         /\ mIoSet' \subseteq watched' /\ watched' \subseteq Folder
         /\ unopened' \subseteq mPathSet' \ mIoSet'
         /\ mPathSet \subseteq mPathSet' /\ mPathSet' \subseteq mPathSet \cup {p}
         /\ p \in Folder => p \in mPathSet'
         /\ Watching'
<1>1. /\ mPathSet \subseteq Folder /\ mIoSet \subseteq mPathSet
      /\ mIoSet \subseteq watched /\ watched \subseteq Folder
      /\ unopened \subseteq mPathSet \ mIoSet
  BY DEF TypeOK
<1>2. CASE p \in mPathSet \/ p \notin Folder
  <2>1. UNCHANGED <<mPathSet, mIoSet, watched, unopened>>
    BY <1>2 DEF AddPath, monitorVars
  <2> QED
    BY <1>1, <1>2, <2>1 DEF Watching
<1>3. CASE p \notin mPathSet /\ p \in Folder /\ \E q \in mIoSet : p \in Inside[q]
  <2>1. /\ mPathSet' = mPathSet \cup {p} /\ mIoSet' = mIoSet /\ watched' = watched
        /\ unopened' = unopened
    BY <1>3 DEF AddPath, Register
  <2>2. \E q \in watched \ {p} : p \in Inside[q]
    BY <1>1, <1>3
  <2> QED
    BY <1>1, <1>3, <2>1, <2>2 DEF Watching
<1>4. CASE p \notin mPathSet /\ p \in Folder /\ ~ \E q \in mIoSet : p \in Inside[q]
  <2>1. /\ mPathSet' = mPathSet \cup {p}
        /\ \/ /\ mIoSet' = mIoSet \cup {p} /\ watched' = watched \cup {p}
              /\ unopened' = unopened
           \/ /\ mIoSet' = mIoSet /\ watched' = watched
              /\ unopened' = unopened \cup {p}
    BY <1>4 DEF AddPath, Register
  <2> QED
    BY <1>1, <1>4, <2>1 DEF Watching
<1> QED
  BY <1>2, <1>3, <1>4

LEMMA DelPathFacts ==
  ASSUME TypeOK, Watching, NEW p, DelPath(p)
  PROVE  /\ mPathSet' = mPathSet \ {p} /\ mIoSet' \subseteq mPathSet'
         /\ mIoSet' \subseteq watched' /\ watched' = watched
         /\ unopened' \subseteq mPathSet' \ mIoSet'
         /\ Watching'
BY DEF TypeOK, Watching, DelPath

\* A list that is read back is a list of paths.
LEMMA ReadBack ==
  ASSUME NEW r \in Seq(Path)
  PROVE  FlattenSeq([i \in DOMAIN r |-> Pieces[r[i]]]) \in Seq(Path)
<1>1. PICK n \in Nat : n = Len(r)
  BY LenProperties
<1>2. DOMAIN r = 1 .. n /\ \A i \in 1 .. n : r[i] \in Path
  BY <1>1, ElementsOf, ElementOfSeq
<1>3. [i \in DOMAIN r |-> Pieces[r[i]]] \in [1 .. n -> Seq(Path)]
  BY <1>2
<1>4. [i \in DOMAIN r |-> Pieces[r[i]]] \in Seq(Seq(Path))
  BY <1>3, IsASeq
<1> QED
  BY <1>4, FlattenTyped

-----------------------------------------------------------------------------
LEMMA ServersKept == ServersInv /\ [Next]_vars => ServersInv'
<1> SUFFICES ASSUME ServersInv, [Next]_vars PROVE ServersInv'
  OBVIOUS
<1>0. /\ TypeOK /\ answers <= scans /\ Phases /\ Saved /\ Watching
      /\ TwiceFromStart /\ AllReached /\ FollowedIsListed
  BY DEF ServersInv, ServersTypes
<1>a. NoCall \in Call /\ NoCall.kind = "none" /\ NoCall.path = ""
  BY DEF NoCall, Call
<1>b. <<>> \in Seq(Path) /\ ToSet(<<>>) = {}
  BY EmptySeq, ToSetEmpty
<1>1. CASE Start
  <2>1. /\ ui = "off" /\ starts' = starts + 1 /\ starts < MaxStarts
        /\ listed' = FlattenSeq([i \in DOMAIN row |-> Pieces[row[i]]])
        /\ loaded' = listed' /\ row' = listed' /\ before' = listed'
        /\ UNCHANGED <<remote, mPathSet, mIoSet, mNotifyEvent, scan, answers, udp,
                       calls, scans, dropped, watched, unopened>>
        /\ \/ UNCHANGED <<ui, call, todo>>
           \/ ui' = "run" /\ call' = NoCall /\ todo' = listed'
    BY <1>1 DEF Start, monitorVars, scanVars, uiVars
  <2>2. listed' \in Seq(Path)
    BY <1>0, <2>1, ReadBack DEF TypeOK
  <2>3. call = NoCall /\ todo = <<>> /\ mPathSet = {}
    BY <1>0, <2>1 DEF Phases
  <2>4. ServersTypes'
    <3>1. starts' \in 0 .. MaxStarts /\ answers' <= scans'
      BY <1>0, <2>1 DEF TypeOK
    <3>2. /\ ui' \in {"off", "run", "select", "exec", "monitor", "idle"}
          /\ call' \in Call /\ todo' \in Seq(Path)
      BY <1>0, <1>a, <2>1, <2>2 DEF TypeOK
    <3> QED
      BY <1>0, <2>1, <2>2, <3>1, <3>2 DEF ServersTypes, TypeOK
  <2>5. Phases'
    BY <1>0, <1>a, <1>b, <2>1, <2>3 DEF Phases
  <2>6. Saved' /\ Watching' /\ FollowedIsListed'
    BY <1>0, <1>a, <2>1, <2>3 DEF Saved, DatabaseKeepsUp, Watching, FollowedIsListed
  <2>7. TwiceFromStart'
    BY <1>a, <2>1, <2>3 DEF TwiceFromStart
  <2>8. AllReached'
    BY <2>1 DEF AllReached, Reached
  <2> QED
    BY <2>4, <2>5, <2>6, <2>7, <2>8 DEF ServersInv
<1>2. CASE End \/ Busy
  <2>1. /\ ui' = "off" /\ call' = NoCall /\ todo' = <<>>
        /\ mPathSet' = {} /\ mIoSet' = {} /\ dropped' = {} /\ watched' = {}
        /\ unopened' = {}
        /\ mNotifyEvent' = FALSE /\ scan' = "wait" /\ answers' = 0 /\ udp' = "recv"
        /\ UNCHANGED <<row, remote, listed, loaded, starts, calls, scans, before>>
    BY <1>2 DEF End, Busy, Gone, dbVars, descVars, boundVars
  <2>2. ServersTypes'
    <3>1. answers' \in 0 .. MaxScans /\ answers' <= scans'
      BY <1>0, <2>1 DEF TypeOK
    <3> QED
      BY <1>0, <1>a, <1>b, <2>1, <3>1 DEF ServersTypes, TypeOK
  <2>3. Phases' /\ AllReached'
    BY <1>0, <1>a, <1>b, <2>1 DEF Phases, AllReached
  <2>4. Saved' /\ Watching' /\ FollowedIsListed' /\ TwiceFromStart'
    BY <1>0, <1>a, <2>1
    DEF Saved, DatabaseKeepsUp, Watching, FollowedIsListed, TwiceFromStart
  <2> QED
    BY <2>2, <2>3, <2>4 DEF ServersInv
<1>3. ASSUME NEW kind \in {"add", "drop"}, NEW p \in Path, Add(kind, p)
      PROVE  ServersInv'
  <2>1. /\ ui = "idle" /\ calls < MaxCalls /\ ~IsPathInCache(listed, p)
        /\ ui' = "run" /\ call' = [kind |-> kind, path |-> p] /\ todo' = loaded
        /\ calls' = calls + 1 /\ listed' = Append(listed, p) /\ before' = listed
        /\ dropped' = IF kind = "drop" THEN dropped \cup {p} ELSE dropped \ {p}
        /\ UNCHANGED <<row, remote, loaded, mNotifyEvent, scan, answers, udp,
                       starts, scans, mPathSet, mIoSet, watched, unopened>>
    BY <1>3 DEF Add, Idle, UiOnly, scanVars, monitorVars
  <2>2. call'.kind = kind /\ call'.path = p /\ call' \in Call
    BY <2>1 DEF Call
  <2>3. call = NoCall /\ todo = <<>> /\ row = listed
    BY <1>0, <2>1 DEF Phases, Saved, DatabaseKeepsUp
  <2>4. PICK t : t = Append(listed, p)
    OBVIOUS
  <2>5. /\ t \in Seq(Path) /\ ToSet(t) = ToSet(listed) \cup {p}
        /\ \A x : Twice(t, x) => Twice(listed, x) \/ (x = p /\ p \in ToSet(listed))
    BY <1>0, <2>4, AppendFacts DEF TypeOK
  <2>6. p \notin ToSet(listed)
    <3>1. p \in Inside[p]
      OBVIOUS
    <3>2. ToSet(listed) = {listed[i] : i \in DOMAIN listed}
      BY DEF ToSet
    <3> QED
      BY <2>1, <3>1, <3>2 DEF IsPathInCache
  <2>7. ServersTypes'
    BY <1>0, <2>1, <2>2, <2>4, <2>5 DEF ServersTypes, TypeOK
  <2>8. Phases'
    BY <1>0, <1>a, <2>1, <2>2, <2>4, <2>5 DEF Phases
  <2>9. Saved' /\ Watching' /\ FollowedIsListed'
    <3>1. call' # NoCall
      BY <1>a, <2>2
    <3> QED
      BY <1>0, <1>a, <2>1, <2>2, <2>3, <2>4, <2>5, <3>1
      DEF Saved, DatabaseKeepsUp, Watching, FollowedIsListed
  <2>10. TwiceFromStart'
    BY <1>0, <2>1, <2>2, <2>4, <2>5, <2>6 DEF TwiceFromStart
  <2>11. AllReached'
    <3> SUFFICES ASSUME NEW q \in ToSet(t) \cap Folder PROVE Reached(q)'
      BY <2>1, <2>4 DEF AllReached
    <3>1. CASE q = p
      BY <2>1, <2>2, <3>1 DEF Reached
    <3>2. CASE q # p
      <4>1. Reached(q)
        BY <1>0, <2>1, <2>5, <3>2 DEF AllReached
      <4>2. q \in mPathSet \/ q \in dropped \/ Twice(loaded, q)
        BY <1>a, <1>b, <2>3, <4>1 DEF Reached
      <4> QED
        BY <2>1, <3>2, <4>2 DEF Reached
    <3> QED
      BY <3>1, <3>2
  <2> QED
    BY <2>7, <2>8, <2>9, <2>10, <2>11 DEF ServersInv
<1>4. ASSUME NEW p \in Path, Delete(p) PROVE ServersInv'
  <2>1. /\ ui = "idle" /\ calls < MaxCalls
        /\ ui' = "run" /\ call' = [kind |-> "delete", path |-> p] /\ todo' = loaded
        /\ calls' = calls + 1 /\ listed' = RemoveFirst(listed, p) /\ before' = listed
        /\ UNCHANGED <<row, remote, loaded, mNotifyEvent, scan, answers, udp,
                       starts, scans, mPathSet, mIoSet, dropped, watched,
                       unopened>>
    BY <1>4 DEF Delete, Idle, UiOnly, scanVars, monitorVars
  <2>2. call'.kind = "delete" /\ call'.path = p /\ call' \in Call
    BY <2>1 DEF Call
  <2>3. call = NoCall /\ todo = <<>> /\ row = listed
    BY <1>0, <2>1 DEF Phases, Saved, DatabaseKeepsUp
  <2>4. PICK t : t = RemoveFirst(listed, p)
    OBVIOUS
  <2>5. /\ t \in Seq(Path) /\ ToSet(t) \subseteq ToSet(listed)
        /\ ToSet(listed) \subseteq ToSet(t) \cup {p}
        /\ \A x : Twice(t, x) => Twice(listed, x)
        /\ p \in ToSet(t) => Twice(listed, p)
    BY <1>0, <2>4, RemoveFirstFacts DEF TypeOK
  <2>6. ServersTypes'
    BY <1>0, <2>1, <2>2, <2>4, <2>5 DEF ServersTypes, TypeOK
  <2>7. Phases'
    BY <1>0, <1>a, <2>1, <2>2, <2>4, <2>5 DEF Phases
  <2>8. Saved' /\ Watching' /\ FollowedIsListed'
    <3>1. call' # NoCall
      BY <1>a, <2>2
    <3> QED
      BY <1>0, <1>a, <2>1, <2>2, <2>3, <2>4, <2>5, <3>1
      DEF Saved, DatabaseKeepsUp, Watching, FollowedIsListed
  <2>9. TwiceFromStart'
    BY <1>0, <2>1, <2>2, <2>4, <2>5 DEF TwiceFromStart
  <2>10. AllReached'
    <3> SUFFICES ASSUME NEW q \in ToSet(t) \cap Folder PROVE Reached(q)'
      BY <2>1, <2>4 DEF AllReached
    <3>1. Reached(q)
      BY <1>0, <2>1, <2>5 DEF AllReached
    <3>2. q \in mPathSet \/ q \in dropped \/ Twice(loaded, q)
      BY <1>a, <1>b, <2>3, <3>1 DEF Reached
    <3> QED
      BY <2>1, <3>2 DEF Reached
  <2> QED
    BY <2>6, <2>7, <2>8, <2>9, <2>10 DEF ServersInv
<1>5. CASE RunNext
  <2>1. /\ ui = "run" /\ todo # <<>> /\ AddPath(Head(todo)) /\ todo' = Tail(todo)
        /\ UNCHANGED <<row, remote, ui, call, listed, loaded, calls, dropped, before,
                       mNotifyEvent, scan, answers, udp, starts, scans>>
    BY <1>5 DEF RunNext, UiOnly, scanVars
  <2>2. PICK p, t : p = Head(todo) /\ t = Tail(todo)
    OBVIOUS
  <2>3. p \in Path /\ t \in Seq(Path) /\ ToSet(todo) = {p} \cup ToSet(t)
    BY <1>0, <2>1, <2>2, HeadAndTail DEF TypeOK
  <2>4. /\ mPathSet' \subseteq Folder /\ mIoSet' \subseteq mPathSet'
        /\ mIoSet' \subseteq watched' /\ watched' \subseteq Folder
        /\ unopened' \subseteq mPathSet' \ mIoSet'
        /\ mPathSet \subseteq mPathSet' /\ mPathSet' \subseteq mPathSet \cup {p}
        /\ p \in Folder => p \in mPathSet'
        /\ Watching'
    BY <1>0, <2>1, <2>2, AddPathFacts
  <2>5. ServersTypes'
    BY <1>0, <2>1, <2>2, <2>3, <2>4 DEF ServersTypes, TypeOK
  <2>6. Phases'
    BY <1>0, <2>1, <2>2, <2>3 DEF Phases
  <2>7. Saved' /\ TwiceFromStart'
    BY <1>0, <2>1 DEF Saved, DatabaseKeepsUp, TwiceFromStart
  <2>8. FollowedIsListed'
    <3>1. p \in ToSet(loaded)
      BY <1>0, <2>3 DEF Phases
    <3> QED
      BY <1>0, <2>1, <2>4, <3>1 DEF FollowedIsListed
  <2>9. AllReached'
    <3> SUFFICES ASSUME NEW q \in ToSet(listed) \cap Folder PROVE Reached(q)'
      BY <2>1 DEF AllReached
    <3>1. Reached(q)
      BY <1>0, <2>1 DEF AllReached
    <3> QED
      BY <2>1, <2>2, <2>3, <2>4, <3>1 DEF Reached
  <2> QED
    BY <2>4, <2>5, <2>6, <2>7, <2>8, <2>9 DEF ServersInv
<1>6. CASE RunDone \/ SaveSelect
  <2>1. /\ \/ ui = "run" /\ todo = <<>> /\ call = NoCall /\ ui' = "idle"
           \/ ui = "run" /\ todo = <<>> /\ call # NoCall /\ ui' = "select"
           \/ ui = "select" /\ ui' = "exec"
        /\ UNCHANGED <<row, remote, call, todo, listed, loaded, mPathSet, mIoSet, calls,
                       dropped, watched, unopened, before, mNotifyEvent, scan, answers, udp,
                       starts, scans>>
    BY <1>6 DEF RunDone, SaveSelect, UiOnly, scanVars, monitorVars, ghostVars
  <2>2. ServersTypes'
    BY <1>0, <2>1 DEF ServersTypes, TypeOK
  <2>3. Phases'
    BY <1>0, <2>1 DEF Phases
  <2>4. Saved'
    BY <1>0, <2>1 DEF Saved, DatabaseKeepsUp
  <2>5. TwiceFromStart' /\ Watching' /\ FollowedIsListed'
    BY <1>0, <2>1 DEF TwiceFromStart, Watching, FollowedIsListed
  <2>6. AllReached'
    BY <1>0, <2>1 DEF AllReached, Reached
  <2> QED
    BY <2>2, <2>3, <2>4, <2>5, <2>6 DEF ServersInv
<1>7. CASE SaveExec
  <2>1. /\ ui = "exec" /\ row' = listed
        /\ \/ call.kind = "drop" /\ ui' = "idle" /\ call' = NoCall
           \/ call.kind # "drop" /\ ui' = "monitor" /\ call' = call
        /\ UNCHANGED <<remote, todo, listed, loaded, mPathSet, mIoSet, calls,
                       dropped, watched, unopened, before, mNotifyEvent, scan, answers, udp,
                       starts, scans>>
    BY <1>7 DEF SaveExec, UiOnly, scanVars, monitorVars, ghostVars
  <2>2. ServersTypes'
    BY <1>0, <1>a, <2>1 DEF ServersTypes, TypeOK
  <2>3. Phases'
    <3>1. call.kind \in {"none", "add", "drop", "delete"} /\ call.kind # "none"
      BY <1>0, <2>1 DEF Phases, TypeOK, Call
    <3> QED
      BY <1>0, <1>a, <2>1, <3>1 DEF Phases
  <2>4. Saved'
    BY <1>0, <2>1 DEF Saved, DatabaseKeepsUp
  <2>5. TwiceFromStart' /\ Watching' /\ FollowedIsListed'
    BY <1>0, <1>a, <2>1 DEF TwiceFromStart, Watching, FollowedIsListed
  <2>6. AllReached'
    BY <1>0, <1>a, <2>1 DEF AllReached, Reached
  <2> QED
    BY <2>2, <2>3, <2>4, <2>5, <2>6 DEF ServersInv
<1>8. CASE Monitor
  <2>1. /\ ui = "monitor" /\ ui' = "idle" /\ call' = NoCall
        /\ call.kind = "add" => AddPath(call.path)
        /\ call.kind # "add" => DelPath(call.path)
        /\ UNCHANGED <<row, remote, todo, listed, loaded, calls, dropped, before,
                       mNotifyEvent, scan, answers, udp, starts, scans>>
    BY <1>8 DEF Monitor, UiOnly, scanVars
  <2>2. todo = <<>> /\ call.kind \in {"add", "delete"} /\ row = listed
    BY <1>0, <2>1 DEF Phases, Saved, DatabaseKeepsUp
  <2>3. PICK p : p = call.path
    OBVIOUS
  <2>4. CASE call.kind = "add"
    <3>1. /\ mPathSet' \subseteq Folder /\ mIoSet' \subseteq mPathSet'
          /\ mIoSet' \subseteq watched' /\ watched' \subseteq Folder
          /\ unopened' \subseteq mPathSet' \ mIoSet'
          /\ mPathSet \subseteq mPathSet' /\ mPathSet' \subseteq mPathSet \cup {p}
          /\ p \in Folder => p \in mPathSet'
          /\ Watching'
      BY <1>0, <2>1, <2>3, <2>4, AddPathFacts
    <3>2. p \in ToSet(listed)
      BY <1>0, <2>3, <2>4 DEF Phases
    <3>3. ServersTypes'
      BY <1>0, <1>a, <2>1, <3>1 DEF ServersTypes, TypeOK
    <3>4. Phases' /\ Saved' /\ TwiceFromStart'
      BY <1>0, <1>a, <2>1, <2>2
      DEF Phases, Saved, DatabaseKeepsUp, TwiceFromStart
    <3>5. FollowedIsListed'
      BY <1>0, <1>a, <2>1, <2>4, <3>1, <3>2 DEF FollowedIsListed
    <3>6. AllReached'
      <4> SUFFICES ASSUME NEW q \in ToSet(listed) \cap Folder PROVE Reached(q)'
        BY <2>1 DEF AllReached
      <4>1. Reached(q)
        BY <1>0, <2>1 DEF AllReached
      <4> QED
        BY <1>b, <2>1, <2>2, <2>3, <3>1, <4>1 DEF Reached
    <3> QED
      BY <3>1, <3>3, <3>4, <3>5, <3>6 DEF ServersInv
  <2>5. CASE call.kind = "delete"
    <3>1. /\ mPathSet' = mPathSet \ {p} /\ mIoSet' \subseteq mPathSet'
          /\ mIoSet' \subseteq watched' /\ watched' = watched
          /\ unopened' \subseteq mPathSet' \ mIoSet'
          /\ Watching'
      BY <1>0, <2>1, <2>3, <2>5, DelPathFacts
    <3>2. p \in ToSet(listed) => Twice(loaded, p)
      BY <1>0, <2>3, <2>5 DEF TwiceFromStart
    <3>3. ServersTypes'
      BY <1>0, <1>a, <2>1, <3>1 DEF ServersTypes, TypeOK
    <3>4. Phases' /\ Saved' /\ TwiceFromStart'
      BY <1>0, <1>a, <1>b, <2>1, <2>2, <3>1
      DEF Phases, Saved, DatabaseKeepsUp, TwiceFromStart
    <3>5. FollowedIsListed'
      BY <1>0, <1>a, <2>1, <2>3, <2>5, <3>1 DEF FollowedIsListed
    <3>6. AllReached'
      <4> SUFFICES ASSUME NEW q \in ToSet(listed) \cap Folder PROVE Reached(q)'
        BY <2>1 DEF AllReached
      <4>1. Reached(q)
        BY <1>0, <2>1 DEF AllReached
      <4> QED
        BY <1>b, <2>1, <2>2, <2>3, <2>5, <3>1, <3>2, <4>1 DEF Reached
    <3> QED
      BY <3>1, <3>3, <3>4, <3>5, <3>6 DEF ServersInv
  <2> QED
    BY <2>2, <2>4, <2>5
<1>9. CASE Refush \/ ScanThread \/ OnRecvDesc \/ SaveDesc
  <2>1. UNCHANGED <<row, ui, call, todo, listed, loaded, mPathSet, mIoSet, starts, calls,
                    dropped, watched, unopened, before>>
    BY <1>9 DEF Refush, ScanThread, OnRecvDesc, SaveDesc, ScanOnly, dbVars, uiVars,
                descVars, monitorVars, boundVars, ghostVars
  <2>2. ServersTypes'
    <3>1. CASE Refush
      <4>1. mNotifyEvent' = TRUE /\ UNCHANGED <<remote, scan, answers, udp, scans>>
        BY <3>1 DEF Refush, dbVars, boundVars
      <4> QED
        BY <1>0, <2>1, <4>1 DEF ServersTypes, TypeOK
    <3>2. CASE ScanThread
      <4>1. /\ UNCHANGED <<remote, udp>>
            /\ \/ /\ scans < MaxScans /\ scans' = scans + 1 /\ mNotifyEvent' = FALSE
                  /\ scan' = "sleep" /\ answers' \in {answers, answers + 1}
               \/ scan' = "wait" /\ UNCHANGED <<mNotifyEvent, scans, answers>>
        BY <3>2 DEF ScanThread
      <4>2. PICK a \in Nat, s \in Nat : a = answers /\ s = scans /\ a <= s /\ s <= MaxScans
        BY <1>0 DEF TypeOK
      <4>3. /\ answers' \in 0 .. MaxScans /\ scans' \in 0 .. MaxScans
            /\ answers' <= scans'
        BY <4>1, <4>2
      <4>4. mNotifyEvent' \in BOOLEAN /\ scan' \in {"wait", "sleep"}
        BY <1>0, <4>1 DEF TypeOK
      <4> QED
        BY <1>0, <2>1, <4>1, <4>3, <4>4 DEF ServersTypes, TypeOK
    <3>3. CASE OnRecvDesc \/ SaveDesc
      <4>1. /\ UNCHANGED <<mNotifyEvent, scan, scans>>
            /\ \/ answers > 0 /\ answers' = answers - 1 /\ udp' = "select" /\ UNCHANGED remote
               \/ udp' = "exec" /\ UNCHANGED <<remote, answers>>
               \/ udp' = "recv" /\ remote' = TRUE /\ UNCHANGED answers
        BY <3>3 DEF OnRecvDesc, SaveDesc
      <4>2. PICK a \in Nat, s \in Nat : a = answers /\ s = scans /\ a <= s /\ s <= MaxScans
        BY <1>0 DEF TypeOK
      <4>3. answers' \in 0 .. MaxScans /\ answers' <= scans'
        BY <4>1, <4>2
      <4>4. remote' \in BOOLEAN /\ udp' \in {"recv", "select", "exec"}
        BY <1>0, <4>1 DEF TypeOK
      <4> QED
        BY <1>0, <2>1, <4>1, <4>3, <4>4 DEF ServersTypes, TypeOK
    <3> QED
      BY <1>9, <3>1, <3>2, <3>3
  <2>3. Phases'
    BY <1>0, <2>1 DEF Phases
  <2>4. Saved'
    BY <1>0, <2>1 DEF Saved, DatabaseKeepsUp
  <2>5. TwiceFromStart' /\ Watching' /\ FollowedIsListed'
    BY <1>0, <2>1 DEF TwiceFromStart, Watching, FollowedIsListed
  <2>6. AllReached'
    BY <1>0, <2>1 DEF AllReached, Reached
  <2> QED
    BY <2>2, <2>3, <2>4, <2>5, <2>6 DEF ServersInv
<1>10. CASE UNCHANGED vars
  <2>1. UNCHANGED <<row, remote, ui, call, todo, listed, loaded, mPathSet, mIoSet,
                    mNotifyEvent, scan, answers, udp, starts, calls, scans,
                    dropped, watched, unopened, before>>
    BY <1>10 DEF vars, dbVars, uiVars, descVars, monitorVars, scanVars, boundVars,
                 ghostVars
  <2>2. ServersTypes' /\ Phases' /\ Saved'
    BY <1>0, <2>1 DEF ServersTypes, TypeOK, Phases, Saved, DatabaseKeepsUp
  <2>3. TwiceFromStart' /\ Watching' /\ FollowedIsListed' /\ AllReached'
    BY <1>0, <2>1 DEF TwiceFromStart, Watching, FollowedIsListed, AllReached, Reached
  <2> QED
    BY <2>2, <2>3 DEF ServersInv
<1> QED
  BY <1>1, <1>2, <1>3, <1>4, <1>5, <1>6, <1>7, <1>8, <1>9, <1>10
  DEF Next, User, UiThread

(***************************************************************************)
(* However LogView ends, the row of this machine has the list as it is, or *)
(* as it was before the call that was under way, for any paths and calls.  *)
(***************************************************************************)
THEOREM RowKeepsUp == Spec => []DatabaseKeepsUp
<1>1. ServersInv => DatabaseKeepsUp
  BY DEF ServersInv, Saved
<1> QED
  BY <1>1, InitServers, ServersKept, PTL DEF Spec

(***************************************************************************)
(* What is followed is what is listed, and what is listed is followed      *)
(* except for the four reasons ListedIsFollowed names, for any set of paths*)
(* and whichever of them contain each other or cannot be opened.           *)
(***************************************************************************)
THEOREM MonitorIsTheList == Spec => []MonitorAgrees
<1>1. ASSUME ServersInv, ui = "idle", NEW p \in ToSet(listed) \cap Folder
      PROVE  \/ Above[p] \cap mIoSet # {}
             \/ p \in dropped \/ p \in unopened
             \/ \E q \in watched \ {p} : p \in Inside[q]
             \/ \E i, j \in DOMAIN loaded : i # j /\ loaded[i] = p /\ loaded[j] = p
  <2>1. /\ call.kind # "add" /\ p \notin ToSet(todo)
    <3>1. call = NoCall /\ todo = <<>>
      BY <1>1 DEF ServersInv, Phases
    <3> QED
      BY <3>1, ToSetEmpty DEF NoCall
  <2>2. p \in mPathSet \/ p \in dropped \/ Twice(loaded, p)
    BY <1>1, <2>1 DEF ServersInv, AllReached, Reached
  <2>3. CASE p \in mPathSet
    <3>1. p \in Above[p]
      OBVIOUS
    <3> QED
      BY <1>1, <2>3, <3>1 DEF ServersInv, Watching
  <2>4. CASE Twice(loaded, p)
    BY <2>4 DEF Twice
  <2> QED
    BY <2>2, <2>3, <2>4
<1>2. ServersInv => MonitorAgrees
  BY <1>1 DEF MonitorAgrees, ListedIsFollowed, ServersInv
<1> QED
  BY <1>2, InitServers, ServersKept, PTL DEF Spec
-----------------------------------------------------------------------------
(* Lists that are sorted by the last time each string was entered.         *)

\* The m elements of kept are elements of list, which has n, in their order.
InOrder(kept, m, list, n) ==
  \A i, j \in 1 .. m : i < j =>
    \E k, l \in 1 .. n : k < l /\ list[k] = kept[i] /\ list[l] = kept[j]

\* What Select keeps is in the order it had.
LEMMA SelectInside ==
  ASSUME NEW T, NEW S, NEW list, list \in Seq(T), NEW kept, kept = Select(list, S)
  PROVE  /\ ToSet(kept) = ToSet(list) \cap S
         /\ InOrder(kept, Len(kept), list, Len(list))
<1> DEFINE Keeps(s, r) == /\ ToSet(r) = ToSet(s) \cap S
                          /\ InOrder(r, Len(r), s, Len(s))
           A == {s \in Seq(T) : Keeps(s, Select(s, S))}
<1>1. <<>> \in A
  <2>1. <<>> \in Seq(T) /\ Len(<<>>) = 0 /\ ToSet(<<>>) = {}
    BY EmptySeq, ToSetEmpty
  <2> QED
    BY <2>1, SelectEmpty DEF InOrder
<1>2. ASSUME NEW s \in Seq(T), NEW e \in T, s \in A PROVE Append(s, e) \in A
  <2>1. PICK t, r, q : t = Append(s, e) /\ r = Select(s, S) /\ q = Select(t, S)
    OBVIOUS
  <2>2. PICK n \in Nat : n = Len(s)
    BY LenProperties
  <2>3. /\ t \in Seq(T) /\ Len(t) = n + 1 /\ t[n + 1] = e
        /\ \A i \in 1 .. n : t[i] = s[i]
    BY <2>1, <2>2, AppendProperties
  <2>4. r \in Seq(T \cap S) /\ q = IF e \in S THEN Append(r, e) ELSE r
    <3>1. r \in Seq(T \cap S)
      BY <2>1, SelectType
    <3>2. Select(Append(s, e), S) = IF e \in S THEN Append(Select(s, S), e) ELSE Select(s, S)
      BY SelectAppend
    <3> QED
      BY <2>1, <3>1, <3>2
  <2>5. PICK m \in Nat : m = Len(r)
    BY <2>4, LenProperties
  <2>6. ToSet(t) = ToSet(s) \cup {e}
    BY <2>1, AppendFacts
  <2>7. /\ ToSet(r) = ToSet(s) \cap S
        /\ \A i, j \in 1 .. m : i < j =>
             \E k, l \in 1 .. n : k < l /\ s[k] = r[i] /\ s[l] = r[j]
    <3>1. ToSet(r) = ToSet(s) \cap S /\ InOrder(r, m, s, n)
      BY <1>2, <2>1, <2>2, <2>5
    <3> QED
      BY <3>1 DEF InOrder
  <2>8. CASE e \notin S
    <3>1. q = r
      BY <2>4, <2>8
    <3>2. ToSet(q) = ToSet(t) \cap S
      BY <2>6, <2>7, <2>8, <3>1
    <3>3. ASSUME NEW i \in 1 .. m, NEW j \in 1 .. m, i < j
          PROVE  \E k, l \in 1 .. n + 1 : k < l /\ t[k] = r[i] /\ t[l] = r[j]
      <4>1. PICK k \in 1 .. n, l \in 1 .. n : k < l /\ s[k] = r[i] /\ s[l] = r[j]
        BY <2>7, <3>3
      <4>2. k \in 1 .. n + 1 /\ l \in 1 .. n + 1 /\ t[k] = r[i] /\ t[l] = r[j]
        BY <2>3, <4>1
      <4> QED
        BY <4>1, <4>2
    <3>4. InOrder(q, m, t, n + 1)
      BY ZenonT(40), <3>1, <3>3 DEF InOrder
    <3>5. Keeps(t, q)
      BY <2>3, <2>5, <3>1, <3>2, <3>4
    <3> HIDE DEF Keeps
    <3> QED
      BY <2>1, <2>3, <3>5
  <2>9. CASE e \in S
    <3>1. /\ q = Append(r, e) /\ Len(q) = m + 1 /\ q[m + 1] = e
          /\ \A i \in 1 .. m : q[i] = r[i]
      BY <2>4, <2>5, <2>9, AppendProperties
    <3>2. ToSet(q) = ToSet(t) \cap S
      <4>0. e \in T \cap S
        BY <2>9
      <4>1. ToSet(q) = ToSet(r) \cup {e}
        <5>1. ToSet(Append(r, e)) = ToSet(r) \cup {e}
          BY ZenonT(40), <2>4, <4>0, AppendFacts
        <5> QED
          BY <3>1, <5>1
      <4> QED
        BY <2>6, <2>7, <2>9, <4>1
    <3>3. ASSUME NEW i \in 1 .. m + 1, NEW j \in 1 .. m + 1, i < j
          PROVE  \E k, l \in 1 .. n + 1 : k < l /\ t[k] = q[i] /\ t[l] = q[j]
      <4>1. i \in 1 .. m /\ q[i] = r[i]
        BY <3>1, <3>3
      <4>2. CASE j = m + 1
        <5>1. r[i] \in ToSet(r)
          BY <2>4, <2>5, <4>1, ElementsOf
        <5>2. PICK k \in 1 .. n : s[k] = r[i]
          BY <2>2, <2>7, <5>1, ElementsOf
        <5>3. k \in 1 .. n + 1 /\ n + 1 \in 1 .. n + 1 /\ k < n + 1 /\ t[k] = q[i]
              /\ t[n + 1] = q[j]
          BY <2>3, <3>1, <4>1, <4>2, <5>2
        <5> QED
          BY <5>3
      <4>3. CASE j # m + 1
        <5>1. j \in 1 .. m /\ q[j] = r[j]
          BY <3>1, <4>3
        <5>2. PICK k \in 1 .. n, l \in 1 .. n : k < l /\ s[k] = r[i] /\ s[l] = r[j]
          BY <2>7, <3>3, <4>1, <5>1
        <5>3. k \in 1 .. n + 1 /\ l \in 1 .. n + 1 /\ t[k] = q[i] /\ t[l] = q[j]
          BY <2>3, <4>1, <5>1, <5>2
        <5> QED
          BY <5>2, <5>3
      <4> QED
        BY <4>2, <4>3
    <3>4. InOrder(q, m + 1, t, n + 1)
      BY <3>3 DEF InOrder
    <3>5. Keeps(t, q)
      BY <2>3, <3>1, <3>2, <3>4
    <3> HIDE DEF Keeps
    <3> QED
      BY <2>1, <2>3, <3>5
  <2> QED
    BY <2>8, <2>9
<1>3. Seq(T) \subseteq A
  <2> HIDE DEF A
  <2> QED
    BY <1>1, <1>2, SeqInduces
<1>4. Keeps(list, Select(list, S))
  <2> HIDE DEF Keeps
  <2> QED
    BY <1>3
<1> QED
  BY <1>4

\* LogViewConfig has these by its own EXTENDS.
LEMMA SameSelect == \A s, S : C!Select(s, S) = Select(s, S)
BY DEF C!Select, Select

LEMMA SameToSet == \A s : C!ToSet(s) = ToSet(s)
BY DEF C!ToSet, ToSet

\* There is a last place where a string stands.
LEMMA LastFacts ==
  ASSUME NEW T, NEW log, log \in Seq(T), NEW x, x \in ToSet(log)
  PROVE  /\ C!LastOf(x, log) \in 1 .. Len(log) /\ log[C!LastOf(x, log)] = x
         /\ \A j \in 1 .. Len(log) : log[j] = x => j <= C!LastOf(x, log)
<1>1. PICK n \in Nat : n = Len(log)
  BY LenProperties
<1>2. DOMAIN log = 1 .. n /\ ToSet(log) = {log[i] : i \in 1 .. n}
  BY <1>1, ElementsOf
<1> DEFINE D == {m \in Nat : m < n /\ log[n - m] = x}
<1>3. \A j \in 1 .. n : log[j] = x => n - j \in D
  BY <1>1
<1>4. D \subseteq Nat /\ D # {}
  <2>1. PICK j \in 1 .. n : log[j] = x
    BY <1>2
  <2> HIDE DEF D
  <2>2. n - j \in D
    BY <1>3, <2>1
  <2> QED
    BY <2>2 DEF D
<1>5. PICK m \in D : \A y \in D : m <= y
  <2> HIDE DEF D
  <2> QED
    BY <1>4, FirstExists
<1>6. m \in Nat /\ m < n /\ log[n - m] = x
  BY <1>5
<1>7. PICK i \in 1 .. n : i = n - m
  BY <1>6
<1>8. log[i] = x /\ \A j \in 1 .. n : log[j] = x => j <= i
  <2> HIDE DEF D
  <2>1. ASSUME NEW j \in 1 .. n, log[j] = x PROVE j <= i
    <3>1. m <= n - j
      BY <1>3, <1>5, <2>1
    <3> QED
      BY <1>6, <1>7, <3>1
  <2> QED
    BY <1>6, <1>7, <2>1
<1>9. \E k \in DOMAIN log : log[k] = x /\ \A j \in DOMAIN log : log[j] = x => j <= k
  BY <1>2, <1>8
<1>10. PICK last : last = C!LastOf(x, log)
  OBVIOUS
<1>11. /\ last \in DOMAIN log /\ log[last] = x
       /\ \A j \in DOMAIN log : log[j] = x => j <= last
  BY <1>9, <1>10 DEF C!LastOf
<1> QED
  BY <1>1, <1>2, <1>10, <1>11

LEMMA LastAppend ==
  ASSUME NEW T, NEW log, log \in Seq(T), NEW e \in T
  PROVE  /\ C!LastOf(e, Append(log, e)) = Len(log) + 1
         /\ \A x \in ToSet(log) : x # e =>
              C!LastOf(x, Append(log, e)) = C!LastOf(x, log)
<1>1. PICK n \in Nat : n = Len(log)
  BY LenProperties
<1>2. PICK t : t = Append(log, e)
  OBVIOUS
<1>3. /\ t \in Seq(T) /\ Len(t) = n + 1 /\ t[n + 1] = e
      /\ \A i \in 1 .. n : t[i] = log[i]
  BY <1>1, <1>2, AppendProperties
<1>4. ToSet(t) = ToSet(log) \cup {e}
  BY <1>2, AppendFacts
<1>5. C!LastOf(e, t) = n + 1
  <2>1. PICK k \in 1 .. n + 1 : k = C!LastOf(e, t)
    BY <1>3, <1>4, LastFacts
  <2>2. n + 1 <= k
    <3>1. \A j \in 1 .. n + 1 : t[j] = e => j <= k
      BY <1>3, <1>4, <2>1, LastFacts
    <3>2. n + 1 \in 1 .. n + 1
      OBVIOUS
    <3> QED
      BY <1>3, <3>1, <3>2
  <2> QED
    BY <2>1, <2>2
<1>6. ASSUME NEW x \in ToSet(log), x # e PROVE C!LastOf(x, t) = C!LastOf(x, log)
  <2>1. PICK k \in 1 .. n : k = C!LastOf(x, log)
    BY <1>1, LastFacts
  <2>2. log[k] = x /\ \A j \in 1 .. n : log[j] = x => j <= k
    BY <1>1, <2>1, LastFacts
  <2>3. PICK i \in 1 .. n + 1 : i = C!LastOf(x, t)
    BY <1>3, <1>4, LastFacts
  <2>4. t[i] = x /\ \A j \in 1 .. n + 1 : t[j] = x => j <= i
    BY <1>3, <1>4, <2>3, LastFacts
  <2>5. i \in 1 .. n
    BY <1>3, <1>6, <2>4
  <2>6. log[i] = x /\ k \in 1 .. n + 1 /\ t[k] = x
    BY <1>3, <2>2, <2>4, <2>5
  <2>7. i <= k /\ k <= i
    BY <2>2, <2>4, <2>5, <2>6
  <2> QED
    BY <2>1, <2>3, <2>7
<1> QED
  BY <1>1, <1>2, <1>5, <1>6

\* list has the strings of log, the one that was entered later before the other.
Match(list, log) ==
  /\ ToSet(list) = ToSet(log)
  /\ \A i, j \in DOMAIN list : i < j => C!LastOf(list[i], log) > C!LastOf(list[j], log)

\* A string that comes to the front has to be the last one of the log.
LEMMA MovedToFront ==
  ASSUME NEW list, list \in Seq(Str), NEW h \in Str, NEW log, NEW log2,
         Match(list, log), ToSet(log2) = ToSet(log) \cup {h},
         \A x \in ToSet(log) : x # h =>
           /\ C!LastOf(x, log2) = C!LastOf(x, log)
           /\ C!LastOf(h, log2) > C!LastOf(x, log2)
  PROVE  /\ C!InsertStrToList(h, list) \in Seq(Str)
         /\ Match(C!InsertStrToList(h, list), log2)
<1>1. PICK r : r = Select(list, Str \ {h})
  OBVIOUS
<1>2. r \in Seq(Str)
  <2>1. r \in Seq(Str \cap (Str \ {h}))
    BY <1>1, SelectType
  <2> QED
    BY <2>1, SeqNarrows
<1>3. ToSet(r) = ToSet(list) \cap (Str \ {h}) /\ InOrder(r, Len(r), list, Len(list))
  BY <1>1, SelectInside
<1>4. PICK n \in Nat, m \in Nat : n = Len(list) /\ m = Len(r)
  BY <1>2, LenProperties
<1>5. DOMAIN list = 1 .. n /\ ToSet(list) = {list[i] : i \in 1 .. n}
      /\ ToSet(list) \subseteq Str /\ ToSet(r) = {r[i] : i \in 1 .. m}
  BY <1>2, <1>4, ElementsOf
<1>6. PICK t : t = <<h>> \o r
  OBVIOUS
<1>7. /\ t \in Seq(Str) /\ Len(t) = m + 1 /\ t[1] = h
      /\ \A i \in 2 .. m + 1 : t[i] = r[i - 1]
  <2>1. /\ <<h>> \in Seq(Str) /\ Len(<<h>>) = 1 /\ <<h>>[1] = h
    OBVIOUS
  <2>2. /\ t \in Seq(Str) /\ Len(t) = 1 + m
        /\ \A i \in 1 .. 1 + m : t[i] = IF i <= 1 THEN <<h>>[i] ELSE r[i - 1]
    BY <1>2, <1>4, <1>6, <2>1, ConcatProperties
  <2> QED
    BY <2>1, <2>2
<1>8. DOMAIN t = 1 .. m + 1 /\ ToSet(t) = {t[i] : i \in 1 .. m + 1}
  BY <1>7, ElementsOf
<1>9. ToSet(t) = {h} \cup ToSet(r)
  <2>1. ToSet(t) \subseteq {h} \cup ToSet(r)
    <3>1. ASSUME NEW i \in 1 .. m + 1 PROVE t[i] \in {h} \cup ToSet(r)
      <4>1. CASE i = 1
        BY <1>7, <4>1
      <4>2. CASE i # 1
        <5>1. i \in 2 .. m + 1 /\ i - 1 \in 1 .. m
          BY <4>2
        <5> QED
          BY <1>5, <1>7, <5>1
      <4> QED
        BY <4>1, <4>2
    <3> QED
      BY <1>8, <3>1
  <2>2. ASSUME NEW i \in 1 .. m PROVE r[i] \in ToSet(t)
    <3>1. i + 1 \in 2 .. m + 1 /\ i + 1 \in 1 .. m + 1 /\ (i + 1) - 1 = i
      OBVIOUS
    <3>2. t[i + 1] = r[i]
      BY <1>7, <3>1
    <3> QED
      BY <1>8, <3>1, <3>2
  <2>3. h \in ToSet(t)
    <3>1. 1 \in 1 .. m + 1
      OBVIOUS
    <3> QED
      BY <1>7, <1>8, <3>1
  <2> QED
    BY <1>5, <2>1, <2>2, <2>3
<1>10. ToSet(t) = ToSet(log2)
  BY <1>3, <1>5, <1>9 DEF Match
<1>11. ASSUME NEW i \in 1 .. m + 1, NEW j \in 1 .. m + 1, i < j
       PROVE  C!LastOf(t[i], log2) > C!LastOf(t[j], log2)
  <2>1. j \in 2 .. m + 1 /\ j - 1 \in 1 .. m
    BY <1>11
  <2>2. t[j] = r[j - 1] /\ r[j - 1] \in ToSet(r)
    BY <1>5, <1>7, <2>1
  <2>3. t[j] \in ToSet(log) /\ t[j] # h
    BY <1>3, <2>2 DEF Match
  <2>4. CASE i = 1
    BY <1>7, <2>3, <2>4
  <2>5. CASE i # 1
    <3>1. i \in 2 .. m + 1 /\ i - 1 \in 1 .. m /\ i - 1 < j - 1
      BY <1>11, <2>5
    <3>2. t[i] = r[i - 1] /\ r[i - 1] \in ToSet(r)
      BY <1>5, <1>7, <3>1
    <3>3. t[i] \in ToSet(log) /\ t[i] # h
      BY <1>3, <3>2 DEF Match
    <3>4. PICK k \in 1 .. n, l \in 1 .. n :
            k < l /\ list[k] = t[i] /\ list[l] = t[j]
      <4>1. PICK k \in 1 .. n, l \in 1 .. n :
              k < l /\ list[k] = r[i - 1] /\ list[l] = r[j - 1]
        <5>1. \A x, y \in 1 .. m : x < y =>
                \E k, l \in 1 .. n : k < l /\ list[k] = r[x] /\ list[l] = r[y]
          BY <1>3, <1>4 DEF InOrder
        <5>2. PICK x \in 1 .. m, y \in 1 .. m : x = i - 1 /\ y = j - 1 /\ x < y
          BY <2>1, <3>1
        <5> QED
          BY <5>1, <5>2
      <4> QED
        BY <2>2, <3>2, <4>1
    <3>5. C!LastOf(t[i], log) > C!LastOf(t[j], log)
      BY <1>5, <3>4 DEF Match
    <3> QED
      BY <2>3, <3>3, <3>5
  <2> QED
    BY <2>4, <2>5
<1>12. C!InsertStrToList(h, list) = t
  BY <1>1, <1>6, SameSelect DEF C!InsertStrToList
<1>13. Match(t, log2)
  BY <1>8, <1>10, <1>11 DEF Match
<1> QED
  BY <1>7, <1>12, <1>13

LEMMA EnteredNew ==
  ASSUME NEW list, list \in Seq(Str), NEW str \in Str, NEW log, log \in Seq(Str),
         Match(list, log)
  PROVE  /\ C!InsertStrToList(str, list) \in Seq(Str)
         /\ Match(C!InsertStrToList(str, list), Append(log, str))
<1>1. PICK n \in Nat : n = Len(log)
  BY LenProperties
<1>2. PICK t : t = Append(log, str)
  OBVIOUS
<1>3. ToSet(t) = ToSet(log) \cup {str}
  BY <1>2, AppendFacts
<1>4. C!LastOf(str, t) = n + 1
  BY <1>1, <1>2, LastAppend
<1>5. ASSUME NEW x \in ToSet(log), x # str
      PROVE  /\ C!LastOf(x, t) = C!LastOf(x, log)
             /\ C!LastOf(str, t) > C!LastOf(x, t)
  <2>1. C!LastOf(x, t) = C!LastOf(x, log)
    BY <1>2, <1>5, LastAppend
  <2>2. PICK k \in 1 .. n : k = C!LastOf(x, log)
    BY <1>1, LastFacts
  <2> QED
    BY <1>4, <2>1, <2>2
<1> QED
  BY <1>2, <1>3, <1>5, MovedToFront

LEMMA EnteredAgain ==
  ASSUME NEW list, list \in Seq(Str), list # <<>>, NEW log, Match(list, log)
  PROVE  /\ C!InsertStrToList(Head(list), list) \in Seq(Str)
         /\ Match(C!InsertStrToList(Head(list), list), log)
<1>1. PICK n \in Nat : n = Len(list)
  BY LenProperties
<1>2. PICK h \in Str : h = Head(list)
  BY HeadAndTail
<1>3. h = list[1] /\ 1 \in 1 .. n /\ h \in ToSet(list)
  <2>1. n # 0
    BY <1>1, EmptySeq
  <2> QED
    BY <1>1, <1>2, <2>1, HeadAndTail, HeadTailProperties
<1>4. DOMAIN list = 1 .. n /\ ToSet(list) = {list[i] : i \in 1 .. n}
  BY <1>1, ElementsOf
<1>5. ASSUME NEW x \in ToSet(log), x # h
      PROVE  C!LastOf(h, log) > C!LastOf(x, log)
  <2>1. PICK j \in 1 .. n : list[j] = x
    BY <1>4 DEF Match
  <2>2. 1 < j
    BY <1>3, <1>5, <2>1
  <2> QED
    BY <1>3, <1>4, <2>1, <2>2 DEF Match
<1>6. ToSet(log) = ToSet(log) \cup {h}
  BY <1>3 DEF Match
<1> QED
  BY <1>2, <1>5, <1>6, MovedToFront
LEMMA FrontTyped ==
  ASSUME NEW T, NEW s, s \in Seq(T)
  PROVE  C!Front(s) \in Seq(T)
<1>1. PICK n \in Nat : n = Len(s)
  BY LenProperties
<1>2. \A i \in 1 .. n - 1 : s[i] \in T
  BY <1>1, ElementOfSeq
<1>3. SubSeq(s, 1, n - 1) \in Seq(T)
  BY <1>2, SubSeqProperties
<1> QED
  BY <1>1, <1>3 DEF C!Front

LEMMA FrontOfAppend ==
  ASSUME NEW T, NEW s, s \in Seq(T), NEW e \in T
  PROVE  C!Front(Append(s, e)) = s
<1>1. PICK n \in Nat : n = Len(s)
  BY LenProperties
<1>2. PICK t : t = Append(s, e)
  OBVIOUS
<1>3. t \in Seq(T) /\ Len(t) = n + 1 /\ \A i \in 1 .. n : t[i] = s[i] /\ t[i] \in T
  BY <1>1, <1>2, AppendProperties, ElementOfSeq
<1>4. PICK f : f = SubSeq(t, 1, n)
  OBVIOUS
<1>5. f \in Seq(T) /\ Len(f) = n /\ \A i \in 1 .. n : f[i] = s[i]
  <2>1. /\ f \in Seq(T) /\ Len(f) = IF 1 <= n THEN n - 1 + 1 ELSE 0
        /\ \A i \in 1 .. n - 1 + 1 : f[i] = t[1 + i - 1]
    BY <1>3, <1>4, SubSeqProperties
  <2>2. n - 1 + 1 = n /\ (~(1 <= n) => n = 0) /\ \A i \in 1 .. n : 1 + i - 1 = i
    OBVIOUS
  <2> QED
    BY <1>3, <2>1, <2>2
<1>6. f = s
  BY <1>1, <1>5, SeqEqual
<1>7. (n + 1) - 1 = n
  OBVIOUS
<1> QED
  BY <1>2, <1>3, <1>4, <1>6, <1>7 DEF C!Front

-----------------------------------------------------------------------------
(***************************************************************************)
(* The inductive invariant of LogViewConfig: what is in the lists is the   *)
(* history, and so is what is in the file, unless a save has just deleted  *)
(* it, except for the one change that is about to be saved.                *)
(***************************************************************************)
Lists == {"dbg.flt", "dbg.find", "file.flt", "file.find"}

Saving ==
  /\ pc \in {"off", "update", "idle"} => pending = "none"
  /\ pc = "open" => disk = "none"
  /\ pc = "write" => disk = "blank"
  /\ pc = "update" => todoLists # <<>>
  /\ pc = "off" => entered["file.find"] = <<>>

InMemory ==
  pc # "off" => mTopMost = chosen /\ \A l \in Lists : Match(mLists[l], entered[l])

ListOnDisk(l) == IF disk = "full" THEN savedLists[l] ELSE <<>>
Unchanged(l) == IF pc = "delete" /\ pending = l THEN C!Front(entered[l]) ELSE entered[l]

OnDisk ==
  pc \notin {"open", "write"} =>
    /\ (disk = "full" /\ savedTopMost) =
         (IF pc = "delete" /\ pending = "topmost" THEN ~chosen ELSE chosen)
    /\ \A l \in Lists \ {"file.find"} : Match(ListOnDisk(l), Unchanged(l))

ConfigInv == C!TypeOK /\ Saving /\ InMemory /\ OnDisk

LEMMA ChangesAreCounted == MaxChanges \in Nat
BY LogViewConfigConstants DEF LogViewConfigConstants

LEMMA MatchEmpty == Match(<<>>, <<>>)
BY EmptySeq, ElementsOf, ToSetEmpty DEF Match

LEMMA InitConfig == C!Init => ConfigInv
<1> SUFFICES ASSUME C!Init PROVE ConfigInv
  OBVIOUS
<1>1. /\ disk = "none" /\ savedLists = C!NoLists /\ savedTopMost = FALSE
      /\ mLists = C!NoLists /\ mTopMost = FALSE /\ pc = "off" /\ todoLists = <<>>
      /\ startsOfConfig = 0 /\ changes = 0
      /\ entered = C!NoLists /\ chosen = FALSE /\ pending = "none"
  BY DEF C!Init
<1>2. \A l \in Lists : C!NoLists[l] = <<>>
  BY DEF C!NoLists, C!List, Lists
<1>3. C!NoLists \in [C!List -> Seq(Str)]
  BY EmptySeq DEF C!NoLists
<1>4. C!TypeOK
  <2>1. startsOfConfig \in 0 .. MaxStarts /\ changes \in 0 .. MaxChanges
    BY <1>1, ChangesAreCounted
  <2>2. todoLists \in Seq(C!List \cup {"save"})
    BY <1>1, EmptySeq
  <2> QED
    BY <1>1, <1>3, <2>1, <2>2 DEF C!TypeOK
<1>5. Saving /\ InMemory
  BY <1>1, <1>2 DEF Saving, InMemory, Lists
<1>6. OnDisk
  <2>1. \A l \in Lists : Match(ListOnDisk(l), Unchanged(l))
    BY <1>1, <1>2, MatchEmpty DEF ListOnDisk, Unchanged
  <2> QED
    BY <1>1, <2>1 DEF OnDisk
<1> QED
  BY <1>4, <1>5, <1>6 DEF ConfigInv

\* A list that a string was put at the front of, and the save that follows.
LEMMA EnterKeeps ==
  ASSUME ConfigInv, NEW l \in Lists, NEW str \in Str, C!Enter(l, str),
         pc \in {"update", "idle"}, todoLists' \in Seq(C!List \cup {"save"}),
         changes' \in 0 .. MaxChanges,
         \/ /\ entered' = [entered EXCEPT ![l] = Append(@, str)] /\ pending' = l
         \/ /\ mLists[l] # <<>> /\ str = Head(mLists[l])
            /\ UNCHANGED <<entered, pending>>
  PROVE  ConfigInv'
<1>0. C!TypeOK /\ Saving /\ InMemory /\ OnDisk /\ Lists = C!List
  BY DEF ConfigInv, Lists, C!List
<1>1. /\ mLists' = [mLists EXCEPT ![l] = C!InsertStrToList(str, @)]
      /\ pc' = "delete"
      /\ UNCHANGED <<disk, savedLists, savedTopMost, mTopMost, startsOfConfig, chosen>>
  BY DEF C!Enter, C!diskVars
<1>2. /\ mLists \in [Lists -> Seq(Str)] /\ entered \in [Lists -> Seq(Str)]
      /\ pending = "none"
  BY <1>0 DEF C!TypeOK, Saving
<1>3. PICK list, log : list = mLists[l] /\ log = entered[l]
  OBVIOUS
<1>4. list \in Seq(Str) /\ log \in Seq(Str) /\ Match(list, log)
  BY <1>0, <1>2, <1>3 DEF InMemory
<1>5. PICK new : new = C!InsertStrToList(str, list)
  OBVIOUS
<1>6. CASE entered' = [entered EXCEPT ![l] = Append(@, str)] /\ pending' = l
  <2>1. new \in Seq(Str) /\ Match(new, Append(log, str)) /\ Append(log, str) \in Seq(Str)
    BY <1>4, <1>5, EnteredNew, AppendProperties
  <2>2. /\ mLists' \in [Lists -> Seq(Str)] /\ mLists'[l] = new
        /\ entered' \in [Lists -> Seq(Str)] /\ entered'[l] = Append(log, str)
        /\ \A k \in Lists : k # l => mLists'[k] = mLists[k] /\ entered'[k] = entered[k]
    BY <1>1, <1>2, <1>3, <1>5, <1>6, <2>1
  <2>3. C!TypeOK'
    BY <1>0, <1>1, <1>6, <2>2 DEF C!TypeOK
  <2>4. Saving'
    BY <1>1 DEF Saving
  <2>5. InMemory'
    <3>1. ASSUME NEW k \in Lists PROVE Match(mLists'[k], entered'[k])
      <4>1. CASE k = l
        BY <2>1, <2>2, <4>1
      <4>2. CASE k # l
        BY <1>0, <2>2, <4>2 DEF InMemory
      <4> QED
        BY <4>1, <4>2
    <3>2. mTopMost' = chosen'
      BY <1>0, <1>1 DEF InMemory
    <3> QED
      BY <3>1, <3>2 DEF InMemory
  <2>6. OnDisk'
    <3>1. ASSUME NEW k \in Lists \ {"file.find"}
          PROVE  ListOnDisk(k)' = ListOnDisk(k) /\ Unchanged(k)' = Unchanged(k)
      <4>1. ListOnDisk(k)' = ListOnDisk(k)
        BY <1>1 DEF ListOnDisk
      <4>2. Unchanged(k) = entered[k]
        BY DEF Unchanged
      <4>3. CASE k = l
        <5>1. C!Front(Append(log, str)) = log
          BY <1>4, FrontOfAppend
        <5>2. Unchanged(k)' = C!Front(entered'[k])
          BY <1>1, <1>6, <4>3 DEF Unchanged, C!Front
        <5> QED
          BY <1>3, <2>2, <4>1, <4>2, <4>3, <5>1, <5>2
      <4>4. CASE k # l
        <5>1. Unchanged(k)' = entered'[k]
          BY <1>6, <4>4 DEF Unchanged
        <5> QED
          BY <2>2, <4>1, <4>2, <4>4, <5>1
      <4> QED
        BY <4>3, <4>4
    <3>2. (disk' = "full" /\ savedTopMost')
            = (IF pc' = "delete" /\ pending' = "topmost" THEN ~chosen' ELSE chosen')
      BY <1>0, <1>1, <1>6 DEF OnDisk, Lists
    <3>3. \A k \in Lists \ {"file.find"} : Match(ListOnDisk(k)', Unchanged(k)')
      BY <1>0, <3>1 DEF OnDisk
    <3> QED
      BY <3>2, <3>3 DEF OnDisk, Match, C!LastOf, ToSet
  <2> QED
    BY <2>3, <2>4, <2>5, <2>6 DEF ConfigInv
<1>7. CASE /\ mLists[l] # <<>> /\ str = Head(mLists[l])
           /\ UNCHANGED <<entered, pending>>
  <2>1. new \in Seq(Str) /\ Match(new, log)
    BY <1>3, <1>4, <1>5, <1>7, EnteredAgain
  <2>2. /\ mLists' \in [Lists -> Seq(Str)] /\ mLists'[l] = new
        /\ \A k \in Lists : k # l => mLists'[k] = mLists[k]
    BY <1>1, <1>2, <1>3, <1>5, <2>1
  <2>3. C!TypeOK'
    BY <1>0, <1>1, <1>7, <2>2 DEF C!TypeOK
  <2>4. Saving'
    BY <1>1 DEF Saving
  <2>5. InMemory'
    <3>1. ASSUME NEW k \in Lists PROVE Match(mLists'[k], entered[k])
      <4>1. CASE k = l
        BY <1>3, <2>1, <2>2, <4>1
      <4>2. CASE k # l
        BY <1>0, <2>2, <4>2 DEF InMemory
      <4> QED
        BY <4>1, <4>2
    <3>2. mTopMost' = chosen'
      BY <1>0, <1>1 DEF InMemory
    <3> QED
      BY <1>7, <3>1, <3>2 DEF InMemory
  <2>6. OnDisk'
    <3>1. \A k \in Lists : ListOnDisk(k)' = ListOnDisk(k)
      BY <1>1 DEF ListOnDisk
    <3>2. \A k \in Lists : Unchanged(k)' = entered[k] /\ Unchanged(k) = entered[k]
      BY <1>1, <1>2, <1>7 DEF Unchanged, Lists
    <3>3. (disk' = "full" /\ savedTopMost')
            = (IF pc' = "delete" /\ pending' = "topmost" THEN ~chosen' ELSE chosen')
      BY <1>0, <1>1, <1>2, <1>7 DEF OnDisk
    <3>4. \A k \in Lists \ {"file.find"} : Match(ListOnDisk(k)', Unchanged(k)')
      BY <1>0, <3>1, <3>2 DEF OnDisk
    <3> QED
      BY <3>3, <3>4 DEF OnDisk, Match, C!LastOf, ToSet
  <2> QED
    BY <2>3, <2>4, <2>5, <2>6 DEF ConfigInv
<1> QED
  BY <1>6, <1>7
-----------------------------------------------------------------------------
LEMMA ConfigTyped ==
  ASSUME ConfigInv
  PROVE  /\ disk \in {"none", "blank", "full"}
         /\ savedLists \in [Lists -> Seq(Str)] /\ savedTopMost \in BOOLEAN
         /\ mLists \in [Lists -> Seq(Str)] /\ mTopMost \in BOOLEAN
         /\ pc \in {"off", "update", "delete", "open", "write", "idle"}
         /\ todoLists \in Seq(Lists \cup {"save"})
         /\ startsOfConfig \in 0 .. MaxStarts /\ changes \in 0 .. MaxChanges
         /\ entered \in [Lists -> Seq(Str)] /\ chosen \in BOOLEAN
         /\ pending \in Lists \cup {"none", "topmost"}
BY DEF ConfigInv, C!TypeOK, C!List, Lists

LEMMA NothingListed ==
  /\ C!NoLists \in [Lists -> Seq(Str)] /\ \A l \in Lists : C!NoLists[l] = <<>>
BY EmptySeq DEF C!NoLists, C!List, Lists

\* A step that leaves the lists on disk and in memory alone.
LEMMA ListsUntouched ==
  ASSUME ConfigInv, UNCHANGED <<disk, savedLists, mLists, entered>>,
         UNCHANGED pending \/ pending' \notin Lists, NEW l \in Lists,
         ~(pc = "delete" /\ pending = l), ~(pc' = "delete" /\ pending' = l)
  PROVE  /\ Match(mLists[l], entered[l])' = Match(mLists[l], entered[l])
         /\ Match(ListOnDisk(l), Unchanged(l))' = Match(ListOnDisk(l), Unchanged(l))
<1>1. mLists'[l] = mLists[l] /\ entered'[l] = entered[l]
  OBVIOUS
<1>2. ListOnDisk(l)' = ListOnDisk(l)
  BY DEF ListOnDisk
<1>3. Unchanged(l) = entered[l] /\ Unchanged(l)' = entered'[l]
  BY DEF Unchanged
<1> QED
  BY <1>1, <1>2, <1>3 DEF Match, C!LastOf, ToSet

LEMMA ConfigKept == ConfigInv /\ [C!Next]_(C!vars) => ConfigInv'
<1> SUFFICES ASSUME ConfigInv, [C!Next]_(C!vars) PROVE ConfigInv'
  OBVIOUS
<1>0. /\ C!TypeOK /\ Saving /\ InMemory /\ OnDisk /\ Lists = C!List
  BY DEF ConfigInv, Lists, C!List
<1>a. /\ disk \in {"none", "blank", "full"}
      /\ savedLists \in [Lists -> Seq(Str)] /\ savedTopMost \in BOOLEAN
      /\ mLists \in [Lists -> Seq(Str)] /\ mTopMost \in BOOLEAN
      /\ pc \in {"off", "update", "delete", "open", "write", "idle"}
      /\ todoLists \in Seq(Lists \cup {"save"})
      /\ startsOfConfig \in 0 .. MaxStarts /\ changes \in 0 .. MaxChanges
      /\ entered \in [Lists -> Seq(Str)] /\ chosen \in BOOLEAN
      /\ pending \in Lists \cup {"none", "topmost"}
  BY ConfigTyped
<1>b. /\ C!NoLists \in [Lists -> Seq(Str)] /\ \A l \in Lists : C!NoLists[l] = <<>>
  BY NothingListed
<1>c. /\ Len(C!Again) = 4 /\ C!Again # <<>> /\ C!Again \in Seq(Lists \cup {"save"})
  BY DEF C!Again, Lists
<1>1. CASE C!Start
  <2>1. /\ pc = "off" /\ startsOfConfig < MaxStarts
        /\ startsOfConfig' = startsOfConfig + 1
        /\ mLists' = IF disk = "full" THEN [savedLists EXCEPT !["file.find"] = <<>>]
                     ELSE C!NoLists
        /\ mTopMost' = (disk = "full" /\ savedTopMost)
        /\ pc' = "update" /\ todoLists' = C!Again
        /\ UNCHANGED <<disk, savedLists, savedTopMost, changes, entered, chosen, pending>>
    BY <1>1 DEF C!Start, C!diskVars, C!ghostVars
  <2>2. pending = "none" /\ entered["file.find"] = <<>>
    BY <1>0, <2>1 DEF Saving
  <2>3. \A l \in Lists : mLists'[l] = IF l = "file.find" THEN <<>> ELSE ListOnDisk(l)
    BY <1>a, <1>b, <2>1 DEF ListOnDisk, Lists
  <2>4. mLists' \in [Lists -> Seq(Str)]
    <3>1. <<>> \in Seq(Str)
      BY EmptySeq
    <3> QED
      BY <1>a, <1>b, <2>1, <3>1
  <2>5. \A l \in Lists : Unchanged(l) = entered[l] /\ Unchanged(l)' = entered[l]
    BY <2>1, <2>2 DEF Unchanged, Lists
  <2>6. C!TypeOK'
    <3>1. startsOfConfig' \in 0 .. MaxStarts
      BY <1>a, <2>1
    <3>2. mTopMost' \in BOOLEAN
      BY <2>1
    <3> QED
      BY <1>0, <1>a, <1>c, <2>1, <2>4, <3>1, <3>2 DEF C!TypeOK
  <2>7. Saving'
    BY <1>c, <2>1, <2>2 DEF Saving
  <2>8. InMemory'
    <3>1. ASSUME NEW l \in Lists PROVE Match(mLists'[l], entered[l])
      <4>1. CASE l = "file.find"
        BY <2>2, <2>3, <4>1, MatchEmpty
      <4>2. CASE l # "file.find"
        BY <1>0, <2>1, <2>3, <2>5, <4>2 DEF OnDisk
      <4> QED
        BY <4>1, <4>2
    <3>2. mTopMost' = chosen
      BY <1>0, <2>1, <2>2 DEF OnDisk
    <3> QED
      BY <2>1, <3>1, <3>2 DEF InMemory
  <2>9. OnDisk'
    <3>1. \A l \in Lists : ListOnDisk(l)' = ListOnDisk(l)
      BY <2>1 DEF ListOnDisk
    <3>2. \A l \in Lists \ {"file.find"} : Match(ListOnDisk(l)', Unchanged(l)')
      BY <1>0, <2>1, <2>5, <3>1 DEF OnDisk
    <3>3. (disk' = "full" /\ savedTopMost')
            = (IF pc' = "delete" /\ pending' = "topmost" THEN ~chosen' ELSE chosen')
      BY <1>0, <2>1, <2>2 DEF OnDisk
    <3> QED
      BY <3>2, <3>3 DEF OnDisk, Match, C!LastOf, ToSet
  <2> QED
    BY <2>6, <2>7, <2>8, <2>9 DEF ConfigInv
<1>2. CASE C!End
  <2>1. /\ pc # "off" /\ pc' = "off" /\ todoLists' = <<>>
        /\ mLists' = C!NoLists /\ mTopMost' = FALSE
        /\ entered' = [l \in Lists |-> C!Kept(l)]
        /\ chosen' = IF pc \in {"open", "write"} THEN FALSE
                     ELSE IF pc = "delete" /\ pending = "topmost" THEN ~chosen
                     ELSE chosen
        /\ pending' = "none"
        /\ UNCHANGED <<disk, savedLists, savedTopMost, startsOfConfig, changes>>
    BY <1>0, <1>2 DEF C!End, C!diskVars, C!Running
  <2>2. ASSUME NEW l \in Lists
        PROVE  /\ pc \in {"open", "write"} \/ l = "file.find" => entered'[l] = <<>>
               /\ pc \notin {"open", "write"} /\ l # "file.find" => entered'[l] = Unchanged(l)
               /\ entered'[l] \in Seq(Str)
    <3>1. entered'[l] = C!Kept(l)
      BY <2>1
    <3>2. <<>> \in Seq(Str) /\ entered[l] \in Seq(Str) /\ C!Front(entered[l]) \in Seq(Str)
      BY <1>a, EmptySeq, FrontTyped
    <3> QED
      BY <3>1, <3>2 DEF C!Kept, Unchanged
  <2>3. C!TypeOK'
    <3>1. entered' \in [Lists -> Seq(Str)]
      BY <2>1, <2>2
    <3>2. chosen' \in BOOLEAN /\ todoLists' \in Seq(Lists \cup {"save"})
      BY <1>a, <2>1, EmptySeq
    <3> QED
      BY <1>0, <1>a, <1>b, <2>1, <3>1, <3>2 DEF C!TypeOK
  <2>4. Saving'
    BY <2>1, <2>2 DEF Saving, Lists
  <2>5. InMemory'
    BY <2>1 DEF InMemory
  <2>6. OnDisk'
    <3>1. \A l \in Lists : ListOnDisk(l)' = ListOnDisk(l) /\ Unchanged(l)' = entered'[l]
      BY <2>1 DEF ListOnDisk, Unchanged
    <3>2. ASSUME NEW l \in Lists \ {"file.find"}
          PROVE  Match(ListOnDisk(l)', Unchanged(l)')
      <4>1. CASE pc \in {"open", "write"}
        <5>1. ListOnDisk(l) = <<>>
          BY <1>0, <4>1 DEF ListOnDisk, Saving
        <5> QED
          BY <2>2, <3>1, <4>1, <5>1, MatchEmpty
      <4>2. CASE pc \notin {"open", "write"}
        BY <1>0, <2>2, <3>1, <4>2 DEF OnDisk
      <4> QED
        BY <4>1, <4>2
    <3>3. (disk' = "full" /\ savedTopMost') = chosen'
      <4>1. CASE pc \in {"open", "write"}
        BY <1>0, <2>1, <4>1 DEF Saving
      <4>2. CASE pc \notin {"open", "write"}
        BY <1>0, <2>1, <4>2 DEF OnDisk
      <4> QED
        BY <4>1, <4>2
    <3> QED
      BY <2>1, <3>2, <3>3 DEF OnDisk, Match, C!LastOf, ToSet
  <2> QED
    BY <2>3, <2>4, <2>5, <2>6 DEF ConfigInv
<1>3. CASE C!TopMost
  <2>1. /\ pc = "idle" /\ changes < MaxChanges /\ changes' = changes + 1
        /\ mTopMost' = ~mTopMost /\ pc' = "delete"
        /\ chosen' = ~chosen /\ pending' = "topmost"
        /\ UNCHANGED <<disk, savedLists, savedTopMost, mLists, todoLists,
                       startsOfConfig, entered>>
    BY <1>3 DEF C!TopMost, C!diskVars
  <2>2. pending = "none"
    BY <1>0, <2>1 DEF Saving
  <2>3. C!TypeOK'
    <3>1. changes' \in 0 .. MaxChanges
      BY <1>a, <2>1, ChangesAreCounted
    <3>2. mTopMost' \in BOOLEAN /\ chosen' \in BOOLEAN
      BY <2>1
    <3> QED
      BY <1>0, <1>a, <2>1, <3>1, <3>2 DEF C!TypeOK
  <2>4. Saving'
    BY <2>1 DEF Saving
  <2>5. ASSUME NEW l \in Lists
        PROVE  /\ Match(mLists[l], entered[l])' = Match(mLists[l], entered[l])
               /\ Match(ListOnDisk(l), Unchanged(l))' = Match(ListOnDisk(l), Unchanged(l))
    BY <2>1, <2>2, ListsUntouched DEF Lists
  <2>6. InMemory'
    BY <1>0, <1>a, <2>1, <2>5 DEF InMemory
  <2>7. OnDisk'
    BY <1>0, <1>a, <2>1, <2>2, <2>5 DEF OnDisk
  <2> QED
    BY <2>3, <2>4, <2>6, <2>7 DEF ConfigInv
<1>4. CASE C!UpdateMenu
  <2>1. /\ pc = "idle" /\ changes < MaxChanges /\ changes' = changes + 1
        /\ pc' = "update" /\ todoLists' = Append(C!Again, "save")
        /\ UNCHANGED <<disk, savedLists, savedTopMost, mLists, mTopMost,
                       startsOfConfig, entered, chosen, pending>>
    BY <1>4 DEF C!UpdateMenu, C!diskVars, C!memVars, C!ghostVars
  <2>2. pending = "none"
    BY <1>0, <2>1 DEF Saving
  <2>3. todoLists' \in Seq(Lists \cup {"save"}) /\ todoLists' # <<>>
    <3>1. "save" \in Lists \cup {"save"}
      OBVIOUS
    <3>2. Append(C!Again, "save") \in Seq(Lists \cup {"save"})
          /\ Append(C!Again, "save") # <<>>
      BY <1>c, <3>1, AppendProperties
    <3> QED
      BY <2>1, <3>2
  <2>4. C!TypeOK'
    <3>1. changes' \in 0 .. MaxChanges
      BY <1>a, <2>1, ChangesAreCounted
    <3> QED
      BY <1>0, <1>a, <2>1, <2>3, <3>1 DEF C!TypeOK
  <2>5. Saving'
    BY <2>1, <2>2, <2>3 DEF Saving
  <2>6. ASSUME NEW l \in Lists
        PROVE  /\ Match(mLists[l], entered[l])' = Match(mLists[l], entered[l])
               /\ Match(ListOnDisk(l), Unchanged(l))' = Match(ListOnDisk(l), Unchanged(l))
    BY <2>1, <2>2, ListsUntouched
  <2>7. InMemory'
    BY <1>0, <2>1, <2>6 DEF InMemory
  <2>8. OnDisk'
    BY <1>0, <2>1, <2>6 DEF OnDisk
  <2> QED
    BY <2>4, <2>5, <2>7, <2>8 DEF ConfigInv
<1>5. ASSUME NEW l \in Lists, NEW str \in Str, C!EnterStr(l, str)
      PROVE  ConfigInv'
  <2>1. /\ pc = "idle" /\ changes < MaxChanges /\ changes' = changes + 1
        /\ C!Enter(l, str)
        /\ entered' = [entered EXCEPT ![l] = Append(@, str)] /\ pending' = l
        /\ UNCHANGED todoLists
    BY <1>5 DEF C!EnterStr
  <2>2. changes' \in 0 .. MaxChanges
    BY <1>a, <2>1, ChangesAreCounted
  <2>3. todoLists' \in Seq(C!List \cup {"save"})
    BY <1>0, <1>a, <2>1
  <2> QED
    BY <2>1, <2>2, <2>3, EnterKeeps
<1>6. CASE C!EnterAgain
  <2>1. PICK l : l = Head(todoLists)
    OBVIOUS
  <2>2. /\ pc = "update" /\ l # "save" /\ todoLists' = Tail(todoLists)
        /\ UNCHANGED changes
        /\ \/ /\ mLists[l] = <<>> /\ C!Enter(l, "")
              /\ entered' = [entered EXCEPT ![l] = Append(@, "")] /\ pending' = l
           \/ /\ mLists[l] # <<>> /\ C!Enter(l, Head(mLists[l]))
              /\ UNCHANGED <<entered, pending>>
    BY <1>6, <2>1 DEF C!EnterAgain
  <2>3. l \in Lists /\ todoLists' \in Seq(C!List \cup {"save"})
    <3>1. todoLists # <<>>
      BY <1>0, <2>2 DEF Saving
    <3>2. l \in Lists \cup {"save"} /\ Tail(todoLists) \in Seq(Lists \cup {"save"})
      BY <1>a, <2>1, <3>1, HeadAndTail
    <3> QED
      BY <1>0, <2>2, <3>2
  <2>4. CASE mLists[l] = <<>>
    <3>1. PICK str \in Str : str = ""
      BY LogViewConfigConstants DEF LogViewConfigConstants
    <3>2. /\ C!Enter(l, str)
          /\ entered' = [entered EXCEPT ![l] = Append(@, str)] /\ pending' = l
      BY <2>2, <2>4, <3>1
    <3> QED
      BY <1>a, <2>2, <2>3, <3>2, EnterKeeps
  <2>5. CASE mLists[l] # <<>>
    <3>1. PICK str \in Str : str = Head(mLists[l])
      <4>1. mLists[l] \in Seq(Str)
        BY <1>a, <2>3
      <4> QED
        BY <2>5, <4>1, HeadAndTail
    <3>2. C!Enter(l, str) /\ UNCHANGED <<entered, pending>>
      BY <2>2, <2>5, <3>1
    <3> QED
      BY <1>a, <2>2, <2>3, <2>5, <3>1, <3>2, EnterKeeps
  <2> QED
    BY <2>4, <2>5
<1>7. CASE C!SaveAgain
  <2>1. /\ pc = "update" /\ pc' = "delete" /\ todoLists' = <<>>
        /\ UNCHANGED <<disk, savedLists, savedTopMost, mLists, mTopMost,
                       startsOfConfig, changes, entered, chosen, pending>>
    BY <1>7 DEF C!SaveAgain, C!diskVars, C!memVars, C!ghostVars
  <2>2. pending = "none"
    BY <1>0, <2>1 DEF Saving
  <2>3. C!TypeOK'
    <3>1. todoLists' \in Seq(C!List \cup {"save"})
      BY <2>1, EmptySeq
    <3> QED
      BY <1>0, <1>a, <2>1, <3>1 DEF C!TypeOK
  <2>4. Saving'
    BY <2>1 DEF Saving
  <2>5. ASSUME NEW l \in Lists
        PROVE  /\ Match(mLists[l], entered[l])' = Match(mLists[l], entered[l])
               /\ Match(ListOnDisk(l), Unchanged(l))' = Match(ListOnDisk(l), Unchanged(l))
    BY <2>1, <2>2, ListsUntouched DEF Lists
  <2>6. InMemory'
    BY <1>0, <2>1, <2>5 DEF InMemory
  <2>7. OnDisk'
    BY <1>0, <2>1, <2>2, <2>5 DEF OnDisk
  <2> QED
    BY <2>3, <2>4, <2>6, <2>7 DEF ConfigInv
<1>8. CASE C!DeleteFile \/ C!OpenFile
  <2>1. /\ \/ pc = "delete" /\ pc' = "open" /\ disk' = "none"
           \/ pc = "open" /\ pc' = "write" /\ disk' = "blank"
        /\ UNCHANGED <<savedLists, savedTopMost, mLists, mTopMost, todoLists,
                       startsOfConfig, changes, entered, chosen, pending>>
    BY <1>8 DEF C!DeleteFile, C!OpenFile, C!memVars, C!ghostVars
  <2>2. C!TypeOK'
    BY <1>0, <1>a, <2>1 DEF C!TypeOK
  <2>3. Saving' /\ OnDisk'
    BY <2>1 DEF Saving, OnDisk
  <2>4. InMemory'
    <3>1. \A l \in Lists : Match(mLists'[l], entered'[l]) = Match(mLists[l], entered[l])
      BY <2>1
    <3>2. pc # "off" /\ mTopMost' = chosen'
      BY <1>0, <2>1 DEF InMemory
    <3>3. \A l \in Lists : Match(mLists'[l], entered'[l])
      BY <1>0, <3>1, <3>2 DEF InMemory
    <3> QED
      BY <3>2, <3>3 DEF InMemory
  <2> QED
    BY <2>2, <2>3, <2>4 DEF ConfigInv
<1>9. CASE C!WriteFile
  <2>1. /\ pc = "write" /\ pc' = IF todoLists = <<>> THEN "idle" ELSE "update"
        /\ disk' = "full" /\ savedLists' = mLists /\ savedTopMost' = mTopMost
        /\ pending' = "none"
        /\ UNCHANGED <<mLists, mTopMost, todoLists, startsOfConfig, changes, entered, chosen>>
    BY <1>9 DEF C!WriteFile, C!memVars
  <2>2. C!TypeOK'
    BY <1>0, <1>a, <2>1 DEF C!TypeOK
  <2>3. Saving'
    BY <2>1 DEF Saving
  <2>4. InMemory'
    <3>1. \A l \in Lists : Match(mLists'[l], entered'[l]) = Match(mLists[l], entered[l])
      BY <2>1
    <3>2. pc # "off" /\ mTopMost' = chosen'
      BY <1>0, <2>1 DEF InMemory
    <3>3. \A l \in Lists : Match(mLists'[l], entered'[l])
      BY <1>0, <3>1, <3>2 DEF InMemory
    <3> QED
      BY <3>2, <3>3 DEF InMemory
  <2>5. OnDisk'
    <3>1. \A l \in Lists : ListOnDisk(l)' = mLists[l] /\ Unchanged(l)' = entered[l]
      BY <2>1 DEF ListOnDisk, Unchanged
    <3>2. \A l \in Lists : Match(ListOnDisk(l)', Unchanged(l)')
      BY <1>0, <2>1, <3>1 DEF InMemory
    <3>3. (disk' = "full" /\ savedTopMost') = chosen'
      BY <1>0, <1>a, <2>1 DEF InMemory
    <3>4. pending' # "topmost"
      BY <2>1
    <3> QED
      BY <3>2, <3>3, <3>4 DEF OnDisk, Match, C!LastOf, ToSet
  <2> QED
    BY <2>2, <2>3, <2>4, <2>5 DEF ConfigInv
<1>10. CASE UNCHANGED C!vars
  <2>1. UNCHANGED <<disk, savedLists, savedTopMost, mLists, mTopMost, pc, todoLists,
                    startsOfConfig, changes, entered, chosen, pending>>
    BY <1>10 DEF C!vars, C!diskVars, C!memVars, C!ghostVars
  <2>2. C!TypeOK' /\ Saving'
    BY <1>0, <2>1 DEF C!TypeOK, Saving
  <2>3. ASSUME NEW l \in Lists
        PROVE  /\ Match(mLists'[l], entered'[l]) = Match(mLists[l], entered[l])
               /\ Match(ListOnDisk(l)', Unchanged(l)') = Match(ListOnDisk(l), Unchanged(l))
    <3>1. ListOnDisk(l)' = ListOnDisk(l) /\ Unchanged(l)' = Unchanged(l)
      BY <2>1 DEF ListOnDisk, Unchanged, C!Front
    <3> QED
      BY <2>1, <3>1
  <2>4. InMemory'
    BY <1>0, <2>1, <2>3 DEF InMemory
  <2>5. OnDisk'
    BY <1>0, <2>1, <2>3 DEF OnDisk
  <2> QED
    BY <2>2, <2>4, <2>5 DEF ConfigInv
<1> QED
  BY <1>0, <1>1, <1>2, <1>3, <1>4, <1>5, <1>6, <1>7, <1>8, <1>9, <1>10
  DEF C!Next, C!User, C!SaveConfig

\* The lists of the invariant are the lists of the property.
LEMMA HistoryFollows == ConfigInv => HistoryKept
<1> SUFFICES ASSUME ConfigInv, pc # "off"
             PROVE  /\ mTopMost = chosen
                    /\ \A l \in C!List :
                         /\ C!ToSet(mLists[l]) = C!ToSet(entered[l])
                         /\ \A i, j \in DOMAIN mLists[l] : i < j =>
                              C!LastOf(mLists[l][i], entered[l])
                                > C!LastOf(mLists[l][j], entered[l])
  BY DEF HistoryKept, C!HistoryKept, C!Running
<1>1. mTopMost = chosen /\ \A l \in Lists : Match(mLists[l], entered[l])
  BY DEF ConfigInv, InMemory
<1>2. Lists = C!List
  BY DEF Lists, C!List
<1> QED
  BY <1>1, <1>2, SameToSet DEF Match

-----------------------------------------------------------------------------
(***************************************************************************)
(* What TLC runs is each of the two programs, alone: a behaviour of MCSpec *)
(* is one of LogServMgr and one of LogViewConfig.                          *)
(***************************************************************************)
THEOREM EachAlone == MCSpec => Spec /\ C!Spec
<1>1. MCInit => Init /\ C!Init
  BY DEF MCInit
<1>2. [MCNext]_allVars => [Next]_vars
  BY DEF MCNext, Servers, Config, allVars
<1>3. UNCHANGED configVars => UNCHANGED C!vars
  BY DEF configVars, C!vars, C!diskVars, C!memVars, C!ghostVars
<1>4. [MCNext]_allVars => [C!Next]_(C!vars)
  BY <1>3 DEF MCNext, Servers, Config, allVars
<1> QED
  BY <1>1, <1>2, <1>4, PTL DEF MCSpec, Spec, C!Spec

(***************************************************************************)
(* Each list has what was entered and not lost, the latest first, and the  *)
(* setting is the one the user chose, for any set of strings: an end in    *)
(* the middle of a save takes only what Kept names, and no start, menu or  *)
(* second save takes anything.                                             *)
(***************************************************************************)
THEOREM HistoryIsKept == C!Spec => []HistoryKept
<1> QED
  BY InitConfig, ConfigKept, HistoryFollows, PTL DEF C!Spec

(***************************************************************************)
(* Every variable of both programs has its type: what is read back from    *)
(* the database is a list of paths, from the file a list of strings.       *)
(***************************************************************************)
THEOREM SettingsTypesCorrect == MCSpec => []SettingsTypeOK
<1>1. ServersInv /\ ConfigInv => SettingsTypeOK
  BY DEF ServersInv, ServersTypes, ConfigInv, SettingsTypeOK
<1>2. Spec => []ServersInv
  BY InitServers, ServersKept, PTL DEF Spec
<1>3. C!Spec => []ConfigInv
  BY InitConfig, ConfigKept, PTL DEF C!Spec
<1> QED
  BY <1>1, <1>2, <1>3, EachAlone, PTL
=============================================================================
