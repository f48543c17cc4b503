--------------------------- MODULE LogTailProofs ---------------------------
(***************************************************************************)
(* Proofs about LogTail: what the events promise about the entry in        *)
(* mLogCache, that what is read of a file is that file, from mLastPos on,  *)
(* and that the lines it is split into, with the rest that waits, are that *)
(* file too.                                                               *)
(***************************************************************************)
EXTENDS LogTail, SequenceFacts, TLAPS

-----------------------------------------------------------------------------
(* What is in a sequence.                                                  *)

LEMMA ToSetEmpty == ToSet(<<>>) = {}
BY DEF ToSet

LEMMA ToSetConcat ==
  ASSUME NEW T, NEW s, s \in Seq(T), NEW t, t \in Seq(T)
  PROVE  ToSet(s \o t) = ToSet(s) \cup ToSet(t)
<1>1. Range(s \o t) = Range(s) \cup Range(t)
  BY RangeConcatenation
<1> QED
  BY <1>1 DEF Range, ToSet

LEMMA ToSetAppend ==
  ASSUME NEW T, NEW s, s \in Seq(T), NEW e, e \in T
  PROVE  ToSet(Append(s, e)) = ToSet(s) \cup {e}
<1>1. /\ DOMAIN s = 1 .. Len(s) /\ DOMAIN Append(s, e) = 1 .. Len(s) + 1
      /\ Len(s) \in Nat
  BY AppendProperties, LenProperties
<1>2. /\ \A k \in 1 .. Len(s) : Append(s, e)[k] = s[k]
      /\ Append(s, e)[Len(s) + 1] = e
  BY AppendProperties
<1> QED
  BY <1>1, <1>2 DEF ToSet

-----------------------------------------------------------------------------
(* The split into lines.                                                   *)

Cut(T, ends) == [lines : Seq(Seq(T \ ends)), rest : Seq(T \ ends)]

LEMMA SplitByteType ==
  ASSUME NEW T, NEW ends, NEW acc, acc \in Cut(T, ends), NEW b, b \in T
  PROVE  SplitByte(acc, b, ends) \in Cut(T, ends)
<1>1. acc.lines \in Seq(Seq(T \ ends)) /\ acc.rest \in Seq(T \ ends)
  BY DEF Cut
<1>2. CASE b \in ends
  <2>1. /\ <<>> \in Seq(T \ ends)
        /\ Append(acc.lines, acc.rest) \in Seq(Seq(T \ ends))
    BY <1>1, EmptySeq, AppendProperties
  <2> QED
    BY <1>1, <1>2, <2>1 DEF SplitByte, Cut
<1>3. CASE b \notin ends
  <2>1. Append(acc.rest, b) \in Seq(T \ ends)
    BY <1>1, <1>3, AppendProperties
  <2> QED
    BY <1>1, <1>3, <2>1 DEF SplitByte, Cut
<1> QED
  BY <1>2, <1>3

Splits(g, s, ends) ==
  /\ g[0] = [lines |-> <<>>, rest |-> <<>>] /\ Split(s, ends) = g[Len(s)]
  /\ \A k \in 1 .. Len(s) : g[k] = SplitByte(g[k - 1], s[k], ends)

LEMMA SplitSolves ==
  ASSUME NEW T, NEW s, s \in Seq(T), NEW ends
  PROVE  \E g : g \in [0 .. Len(s) -> Cut(T, ends)] /\ Splits(g, s, ends)
<1> DEFINE n == Len(s)
           V == Cut(T, ends)
           none == [lines |-> <<>>, rest |-> <<>>]
           step == [k \in 1 .. n |-> [v \in V |-> SplitByte(v, s[k], ends)]]
           body(f) == [k \in 0 .. n |->
                        IF k = 0 THEN none ELSE SplitByte(f[k - 1], s[k], ends)]
           cut == CHOOSE f : f = body(f)
<1>1. n \in Nat
  BY LenProperties
<1>2. step \in [1 .. n -> [V -> V]]
  BY <1>1, SplitByteType, ElementOfSeq
<1>3. none \in V
  BY EmptySeq DEF Cut
<1>4. \E g \in [0 .. n -> V] :
        g[0] = none /\ \A k \in 1 .. n : g[k] = step[k][g[k - 1]]
  <2>1. Recursion(V, none, n, step)
    BY <1>1, <1>2, <1>3 DEF Recursion
  <2> HIDE DEF n, V, step, none
  <2> QED
    BY <2>1, RecursionExists DEF Solves
<1>5. PICK g \in [0 .. n -> V] :
        g[0] = none /\ \A k \in 1 .. n : g[k] = step[k][g[k - 1]]
  BY <1>4
<1> HIDE DEF none
<1>6. \A k \in 1 .. n : g[k - 1] \in V /\ g[k] = SplitByte(g[k - 1], s[k], ends)
  <2> SUFFICES ASSUME NEW k \in 1 .. n
               PROVE  g[k - 1] \in V /\ g[k] = SplitByte(g[k - 1], s[k], ends)
    OBVIOUS
  <2> HIDE DEF V
  <2>1. g[k - 1] \in V
    BY <1>1
  <2> QED
    BY <1>5, <2>1
<1>7. g = body(g)
  <2> HIDE DEF V, n
  <2>1. ASSUME NEW k \in 0 .. n
        PROVE  g[k] = IF k = 0 THEN none ELSE SplitByte(g[k - 1], s[k], ends)
    <3>1. CASE k = 0
      BY <1>5, <3>1
    <3>2. CASE k # 0
      <4>1. k \in 1 .. n
        BY <1>1, <3>2
      <4> QED
        BY <1>6, <3>2, <4>1
    <3> QED
      BY <3>1, <3>2
  <2>2. g = [k \in 0 .. n |-> g[k]]
    OBVIOUS
  <2> QED
    BY <2>1, <2>2
<1>8. cut = body(cut)
  <2> HIDE DEF body
  <2> QED
    BY <1>7
<1>9. Split(s, ends) = cut[n]
  BY DEF Split, none
<1>10. PICK f : f = cut
  OBVIOUS
<1>11. f = body(f) /\ Split(s, ends) = f[n]
  <2> HIDE DEF cut, body
  <2> QED
    BY <1>8, <1>9, <1>10
<1> HIDE DEF cut, V
<1>12. /\ f[0] = none
       /\ \A k \in 1 .. n : f[k] = SplitByte(f[k - 1], s[k], ends)
       /\ f = [k \in 0 .. n |-> f[k]]
  <2>1. 0 \in 0 .. n /\ \A k \in 1 .. n : k \in 0 .. n /\ k # 0
    BY <1>1
  <2>2. /\ DOMAIN f = 0 .. n
        /\ \A k \in 0 .. n :
             f[k] = IF k = 0 THEN none ELSE SplitByte(f[k - 1], s[k], ends)
        /\ f = [k \in DOMAIN f |-> f[k]]
    BY <1>11
  <2> HIDE DEF n
  <2> QED
    BY <2>1, <2>2
<1>13. \A k \in 0 .. n : f[k] \in V
  <2> DEFINE A == {k \in Nat : k <= n => f[k] \in V}
  <2>1. 0 \in A
    BY <1>3, <1>12
  <2>2. ASSUME NEW k \in Nat, k \in A PROVE k + 1 \in A
    <3> SUFFICES ASSUME k + 1 <= n PROVE f[k + 1] \in V
      OBVIOUS
    <3>1. k + 1 \in 1 .. n /\ (k + 1) - 1 = k /\ f[k] \in V
      BY <1>1, <2>2
    <3>2. s[k + 1] \in T
      BY <3>1, ElementOfSeq
    <3>3. SplitByte(f[k], s[k + 1], ends) \in V
      BY <3>1, <3>2, SplitByteType DEF V
    <3> QED
      BY <1>12, <3>1, <3>3
  <2> HIDE DEF A
  <2>3. Nat \subseteq A
    BY <2>1, <2>2, NatInduces
  <2> QED
    BY <1>1, <2>3 DEF A
<1>14. f \in [0 .. n -> V]
  <2> HIDE DEF n
  <2> QED
    BY <1>12, <1>13
<1> QED
  BY <1>11, <1>12, <1>14 DEF Splits, none, V

LEMMA SplitType ==
  ASSUME NEW T, NEW s, s \in Seq(T), NEW ends
  PROVE  Split(s, ends) \in Cut(T, ends)
<1>1. PICK g : g \in [0 .. Len(s) -> Cut(T, ends)] /\ Splits(g, s, ends)
  BY SplitSolves
<1>2. Len(s) \in 0 .. Len(s)
  BY LenProperties
<1> QED
  BY <1>1, <1>2 DEF Splits

LEMMA SplitEmpty ==
  ASSUME NEW ends
  PROVE  Split(<<>>, ends) = [lines |-> <<>>, rest |-> <<>>]
<1>1. <<>> \in Seq({}) /\ Len(<<>>) = 0
  BY EmptySeq
<1>2. PICK g : Splits(g, <<>>, ends)
  BY <1>1, SplitSolves
<1> QED
  BY <1>1, <1>2 DEF Splits

LEMMA SplitAppend ==
  ASSUME NEW T, NEW s \in Seq(T), NEW e \in T, NEW ends
  PROVE  Split(Append(s, e), ends) = SplitByte(Split(s, ends), e, ends)
<1>1. /\ Append(s, e) \in Seq(T) /\ Len(Append(s, e)) = Len(s) + 1
      /\ \A k \in 1 .. Len(s) : Append(s, e)[k] = s[k]
      /\ Append(s, e)[Len(s) + 1] = e
  BY AppendProperties
<1>2. PICK g : Splits(g, s, ends)
  BY SplitSolves
<1>3. PICK r : r = Append(s, e)
  OBVIOUS
<1>4. PICK n \in Nat : n = Len(s)
  BY LenProperties
<1>5. r \in Seq(T) /\ Len(r) = n + 1
  BY <1>1, <1>3, <1>4
<1>6. PICK h : Splits(h, r, ends)
  BY <1>5, SplitSolves
<1>7. g[n] = h[n]
  <2> DEFINE A == {k \in Nat : k <= n => g[k] = h[k]}
  <2>1. 0 \in A
    BY <1>2, <1>6 DEF Splits
  <2>2. ASSUME NEW k \in Nat, k \in A PROVE k + 1 \in A
    <3> SUFFICES ASSUME k + 1 <= n PROVE g[k + 1] = h[k + 1]
      OBVIOUS
    <3>1. /\ k + 1 \in 1 .. n /\ k + 1 \in 1 .. n + 1
          /\ (k + 1) - 1 = k /\ g[k] = h[k]
      BY <2>2
    <3>2. r[k + 1] = s[k + 1]
      BY <1>1, <1>3, <1>4, <3>1
    <3> QED
      BY <1>2, <1>4, <1>5, <1>6, <3>1, <3>2 DEF Splits
  <2> HIDE DEF A
  <2>3. Nat \subseteq A
    BY <2>1, <2>2, NatInduces
  <2> QED
    BY <2>3 DEF A
<1>8. n + 1 \in 1 .. n + 1 /\ (n + 1) - 1 = n
  OBVIOUS
<1>9. h[n + 1] = SplitByte(h[n], r[n + 1], ends)
  BY <1>5, <1>6, <1>8 DEF Splits
<1> QED
  BY <1>1, <1>2, <1>3, <1>4, <1>5, <1>6, <1>7, <1>9 DEF Splits

\* How one more byte changes a split.
LEMMA SplitByteFields ==
  ASSUME NEW T, NEW ends, NEW acc, acc \in Cut(T, ends), NEW b
  PROVE  /\ SplitByte(acc, b, ends).lines =
              IF b \notin ends \/ acc.rest = <<>> THEN acc.lines
              ELSE Append(acc.lines, acc.rest)
         /\ SplitByte(acc, b, ends).rest =
              IF b \notin ends THEN Append(acc.rest, b) ELSE <<>>
BY DEF SplitByte, Cut

LEMMA SplitTypes ==
  ASSUME NEW T, NEW s, s \in Seq(T), NEW ends
  PROVE  /\ Split(s, ends).lines \in Seq(Seq(T \ ends))
         /\ Split(s, ends).rest \in Seq(T \ ends)
         /\ Split(s, ends).lines \in Seq(Seq(T)) /\ Split(s, ends).rest \in Seq(T)
<1>1. Split(s, ends) \in Cut(T, ends)
  BY SplitType
<1>2. /\ Split(s, ends).lines \in Seq(Seq(T \ ends))
      /\ Split(s, ends).rest \in Seq(T \ ends)
  BY <1>1 DEF Cut
<1>3. T \ ends \subseteq T
  OBVIOUS
<1>4. Seq(T \ ends) \subseteq Seq(T)
  BY <1>3, SeqMonotonic
<1> QED
  BY <1>2, <1>3, <1>4, SeqMonotonic

\* Two cuts with the same fields are the same.
LEMMA CutEqual ==
  ASSUME NEW T, NEW ends, NEW a \in Cut(T, ends), NEW b \in Cut(T, ends),
         a.lines = b.lines, a.rest = b.rest
  PROVE  a = b
BY DEF Cut

\* Bytes of which none is a newline are a rest.
LEMMA SplitNoNewline ==
  ASSUME NEW T, NEW ends, T \cap ends = {}
  PROVE  \A s \in Seq(T) : Split(s, ends) = [lines |-> <<>>, rest |-> s]
<1> DEFINE A == {s \in Seq(T) : Split(s, ends) = [lines |-> <<>>, rest |-> s]}
<1>1. <<>> \in A
  BY EmptySeq, SplitEmpty
<1>2. ASSUME NEW s \in Seq(T), NEW e \in T, s \in A PROVE Append(s, e) \in A
  <2>1. Split(Append(s, e), ends) = SplitByte(Split(s, ends), e, ends)
    BY SplitAppend
  <2>2. e \notin ends /\ Append(s, e) \in Seq(T)
    BY AppendProperties
  <2> QED
    BY <1>2, <2>1, <2>2 DEF SplitByte
<1> HIDE DEF A
<1>3. Seq(T) \subseteq A
  BY <1>1, <1>2, SeqInduces
<1> QED
  BY <1>3 DEF A

\* Splitting piece by piece: only the rest of the first piece matters to the next.
SplitsPiecewise(p, more, ends) ==
  /\ Split(p \o more, ends).lines =
       Split(p, ends).lines \o Split(Split(p, ends).rest \o more, ends).lines
  /\ Split(p \o more, ends).rest = Split(Split(p, ends).rest \o more, ends).rest

LEMMA SplitConcat ==
  ASSUME NEW T, NEW ends, NEW p, p \in Seq(T), NEW more, more \in Seq(T)
  PROVE  SplitsPiecewise(p, more, ends)
<1> DEFINE q == Split(p, ends).rest
           done == Split(p, ends).lines
           A == {t \in Seq(T) :
                   /\ Split(p \o t, ends).lines = done \o Split(q \o t, ends).lines
                   /\ Split(p \o t, ends).rest = Split(q \o t, ends).rest}
<1>1. q \in Seq(T) /\ q \in Seq(T \ ends) /\ done \in Seq(Seq(T))
  BY SplitTypes
<1> HIDE DEF q, done
<1>2. <<>> \in A
  <2>1. p \o <<>> = p /\ q \o <<>> = q /\ done \o <<>> = done /\ <<>> \in Seq(T)
    BY <1>1, ConcatEmptySeq, EmptySeq
  <2>2. Split(q, ends) = [lines |-> <<>>, rest |-> q]
    <3>1. (T \ ends) \cap ends = {}
      OBVIOUS
    <3> QED
      BY <1>1, <3>1, SplitNoNewline
  <2>3. /\ Split(p \o <<>>, ends).lines = done
        /\ Split(p \o <<>>, ends).rest = q
    BY <2>1 DEF q, done
  <2>4. /\ Split(q \o <<>>, ends).lines = <<>>
        /\ Split(q \o <<>>, ends).rest = q
    BY <2>1, <2>2
  <2> QED
    BY <2>1, <2>3, <2>4
<1>3. ASSUME NEW t \in Seq(T), NEW e \in T, t \in A PROVE Append(t, e) \in A
  <2>1. p \o t \in Seq(T) /\ q \o t \in Seq(T) /\ Append(t, e) \in Seq(T)
    BY <1>1, ConcatProperties, AppendProperties
  <2>2. p \o Append(t, e) = Append(p \o t, e) /\ q \o Append(t, e) = Append(q \o t, e)
    BY SMTT(30), <1>1, AppendAcross
  <2>3. PICK a, b : a = Split(p \o t, ends) /\ b = Split(q \o t, ends)
    OBVIOUS
  <2>4. a \in Cut(T, ends) /\ b \in Cut(T, ends)
    BY <2>1, <2>3, SplitType
  <2>5. a.lines = done \o b.lines /\ a.rest = b.rest
    BY <1>3, <2>3
  <2>6. /\ Split(p \o Append(t, e), ends) = SplitByte(a, e, ends)
        /\ Split(q \o Append(t, e), ends) = SplitByte(b, e, ends)
    BY ZenonT(40), <2>1, <2>2, <2>3, SplitAppend
  <2>7. SplitByte(a, e, ends).rest = SplitByte(b, e, ends).rest
    BY <2>4, <2>5, SplitByteFields
  <2>8. SplitByte(a, e, ends).lines = done \o SplitByte(b, e, ends).lines
    <3>1. b.lines \in Seq(Seq(T)) /\ b.rest \in Seq(T)
      BY <2>1, <2>3, SplitTypes
    <3>2. done \o Append(b.lines, b.rest) = Append(done \o b.lines, b.rest)
      <4>1. PICK W, d, x, y : W = Seq(T) /\ d = done /\ x = b.lines /\ y = b.rest
        OBVIOUS
      <4>2. d \in Seq(W) /\ x \in Seq(W) /\ y \in W
        BY <1>1, <3>1, <4>1
      <4>3. d \o Append(x, y) = Append(d \o x, y)
        BY <4>2, AppendAcross
      <4> QED
        BY <4>1, <4>3
    <3>3. /\ SplitByte(a, e, ends).lines =
               IF e \notin ends \/ a.rest = <<>> THEN a.lines ELSE Append(a.lines, a.rest)
          /\ SplitByte(b, e, ends).lines =
               IF e \notin ends \/ b.rest = <<>> THEN b.lines ELSE Append(b.lines, b.rest)
      BY <2>4, SplitByteFields
    <3> QED
      BY <2>5, <3>2, <3>3
  <2> QED
    BY <2>1, <2>6, <2>7, <2>8
<1> HIDE DEF A
<1>4. Seq(T) \subseteq A
  BY <1>2, <1>3, SeqInduces
<1> QED
  BY <1>4 DEF A, q, done, SplitsPiecewise

\* No byte is lost: one that is not a newline is in a line or in the rest.
LEMMA SplitKeeps ==
  ASSUME NEW T, NEW ends
  PROVE  \A s \in Seq(T) : \A k \in 1 .. Len(s) : s[k] \notin ends =>
           \/ s[k] \in ToSet(Split(s, ends).rest)
           \/ \E line \in ToSet(Split(s, ends).lines) : s[k] \in ToSet(line)
<1> DEFINE Kept(x, cut) == \/ x \in ToSet(cut.rest)
                           \/ \E line \in ToSet(cut.lines) : x \in ToSet(line)
           A == {s \in Seq(T) : \A k \in 1 .. Len(s) :
                   s[k] \notin ends => Kept(s[k], Split(s, ends))}
<1>1. <<>> \in A
  BY EmptySeq
<1>2. ASSUME NEW s \in Seq(T), NEW e \in T, s \in A PROVE Append(s, e) \in A
  <2>1. PICK a : a = Split(s, ends)
    OBVIOUS
  <2>2. a \in Cut(T, ends)
    BY <2>1, SplitType
  <2>3. Split(Append(s, e), ends) = SplitByte(a, e, ends)
    BY <2>1, SplitAppend
  <2>4. a.lines \in Seq(Seq(T \ ends)) /\ a.rest \in Seq(T \ ends)
    BY <2>1, SplitTypes
  <2>5. ASSUME NEW x, Kept(x, a) PROVE Kept(x, SplitByte(a, e, ends))
    <3>1. CASE e \notin ends
      <4>1. /\ SplitByte(a, e, ends).lines = a.lines
            /\ SplitByte(a, e, ends).rest = Append(a.rest, e)
        BY ZenonT(40), <2>2, <3>1, SplitByteFields
      <4>2. ToSet(a.rest) \subseteq ToSet(Append(a.rest, e))
        BY SMTT(30), <2>4, <3>1, ToSetAppend
      <4> QED
        BY <2>5, <4>1, <4>2
    <3>2. CASE e \in ends
      <4>1. CASE a.rest = <<>>
        <5>1. SplitByte(a, e, ends).lines = a.lines
          BY <2>2, <4>1, SplitByteFields
        <5>2. ToSet(a.rest) = {}
          BY <4>1, ToSetEmpty
        <5> QED
          BY <2>5, <5>1, <5>2
      <4>2. CASE a.rest # <<>>
        <5>1. SplitByte(a, e, ends).lines = Append(a.lines, a.rest)
          <6>1. SplitByte(a, e, ends).lines =
                  IF e \notin ends \/ a.rest = <<>> THEN a.lines
                  ELSE Append(a.lines, a.rest)
            BY <2>2, SplitByteFields
          <6> QED
            BY <3>2, <4>2, <6>1
        <5>2. /\ ToSet(a.lines) \subseteq ToSet(Append(a.lines, a.rest))
              /\ a.rest \in ToSet(Append(a.lines, a.rest))
          BY <2>4, ToSetAppend
        <5> QED
          BY <2>5, <5>1, <5>2
      <4> QED
        BY <4>1, <4>2
    <3> QED
      BY <3>1, <3>2
  <2>6. e \notin ends => Kept(e, SplitByte(a, e, ends))
    <3> SUFFICES ASSUME e \notin ends PROVE e \in ToSet(SplitByte(a, e, ends).rest)
      OBVIOUS
    <3>1. SplitByte(a, e, ends).rest = Append(a.rest, e)
      BY <2>2, SplitByteFields
    <3> QED
      BY SMTT(30), <2>4, <3>1, ToSetAppend
  <2>7. /\ Append(s, e) \in Seq(T) /\ Len(Append(s, e)) = Len(s) + 1
        /\ \A k \in 1 .. Len(s) : Append(s, e)[k] = s[k]
        /\ Append(s, e)[Len(s) + 1] = e
    BY AppendProperties
  <2>8. ASSUME NEW k \in 1 .. Len(s) + 1, Append(s, e)[k] \notin ends
        PROVE  Kept(Append(s, e)[k], SplitByte(a, e, ends))
    <3> HIDE DEF Kept
    <3>1. CASE k = Len(s) + 1
      BY <2>6, <2>7, <2>8, <3>1
    <3>2. CASE k # Len(s) + 1
      <4>1. k \in 1 .. Len(s)
        BY <3>2, LenProperties
      <4>2. Kept(s[k], a)
        BY <1>2, <2>1, <2>7, <2>8, <4>1
      <4> QED
        BY <2>5, <2>7, <4>1, <4>2
    <3> QED
      BY <3>1, <3>2
  <2> HIDE DEF Kept
  <2> QED
    BY <2>3, <2>7, <2>8
<1>3. Seq(T) \subseteq A
  <2> HIDE DEF A
  <2> QED
    BY <1>1, <1>2, SeqInduces
<1> SUFFICES ASSUME NEW s \in Seq(T), NEW k \in 1 .. Len(s), s[k] \notin ends
             PROVE  Kept(s[k], Split(s, ends))
  OBVIOUS
<1> HIDE DEF Kept
<1> QED
  BY <1>3

\* From i to j, s has a line: bytes between two newlines, or up to the first.
Run(s, ends, i, j) ==
  /\ i \in 1 .. Len(s) /\ j \in 1 .. Len(s) /\ i <= j /\ j < Len(s)
  /\ s[j + 1] \in ends /\ \A k \in i .. j : s[k] \notin ends
  /\ i = 1 \/ s[i - 1] \in ends

\* After position c, s has no newline.
LastEnd(s, ends, c) ==
  /\ c \in 0 .. Len(s) /\ (c = 0 \/ s[c] \in ends)
  /\ \A k \in c + 1 .. Len(s) : s[k] \notin ends

LEMMA LinesAreRuns ==
  ASSUME NEW s, s \in Seq(Byte)
  PROVE  CompleteLines(s) =
           {SubSeq(s, r[1], r[2]) :
              r \in {q \in (1 .. Len(s)) \X (1 .. Len(s)) : Run(s, newline, q[1], q[2])}}
BY LenProperties DEF CompleteLines, Run

LEMMA LineIsRun ==
  ASSUME NEW s, s \in Seq(Byte), NEW x
  PROVE  x \in CompleteLines(s) <=>
           \E i, j : Run(s, newline, i, j) /\ x = SubSeq(s, i, j)
<1>1. ASSUME x \in CompleteLines(s)
      PROVE  \E i, j : Run(s, newline, i, j) /\ x = SubSeq(s, i, j)
  BY <1>1, LinesAreRuns
<1>2. ASSUME NEW i, NEW j, Run(s, newline, i, j), x = SubSeq(s, i, j)
      PROVE  x \in CompleteLines(s)
  <2>1. <<i, j>> \in (1 .. Len(s)) \X (1 .. Len(s))
    BY <1>2 DEF Run
  <2>2. <<i, j>>[1] = i /\ <<i, j>>[2] = j
    OBVIOUS
  <2>3. PICK r : r = <<i, j>>
    OBVIOUS
  <2>4. /\ r \in {q \in (1 .. Len(s)) \X (1 .. Len(s)) : Run(s, newline, q[1], q[2])}
        /\ x = SubSeq(s, r[1], r[2])
    BY <1>2, <2>1, <2>2, <2>3
  <2> QED
    BY ZenonT(40), <2>4, LinesAreRuns
<1> QED
  BY <1>1, <1>2

LEMMA RunAppendByte ==
  ASSUME NEW T, NEW s, s \in Seq(T), NEW e \in T, NEW ends, e \notin ends, NEW i, NEW j
  PROVE  Run(Append(s, e), ends, i, j) <=> Run(s, ends, i, j)
<1>1. PICK r : r = Append(s, e)
  OBVIOUS
<1>2. PICK n \in Nat : n = Len(s)
  BY LenProperties
<1>3. Len(r) = n + 1 /\ r[n + 1] = e /\ \A k \in 1 .. n : r[k] = s[k]
  BY <1>1, <1>2, AppendProperties
<1>4. ASSUME Run(s, ends, i, j) PROVE Run(r, ends, i, j)
  BY <1>2, <1>3, <1>4 DEF Run
<1>5. ASSUME Run(r, ends, i, j) PROVE Run(s, ends, i, j)
  <2>1. /\ i \in 1 .. n + 1 /\ j \in 1 .. n + 1 /\ i <= j /\ j < n + 1
        /\ r[j + 1] \in ends /\ \A k \in i .. j : r[k] \notin ends
        /\ i = 1 \/ r[i - 1] \in ends
    BY <1>3, <1>5 DEF Run
  <2>2. j # n
    BY <1>3, <2>1
  <2>3. j < n /\ i \in 1 .. n /\ j \in 1 .. n /\ j + 1 \in 1 .. n
    BY <2>1, <2>2
  <2>4. s[j + 1] \in ends /\ \A k \in i .. j : s[k] \notin ends
    BY <1>3, <2>1, <2>3
  <2>5. i = 1 \/ s[i - 1] \in ends
    BY <1>3, <2>1, <2>3
  <2> QED
    BY <1>2, <2>1, <2>3, <2>4, <2>5 DEF Run
<1> QED
  BY <1>1, <1>4, <1>5

LEMMA RunAppendEnd ==
  ASSUME NEW T, NEW s, s \in Seq(T), NEW e \in T, NEW ends, e \in ends, NEW i, NEW j,
         NEW c, LastEnd(s, ends, c)
  PROVE  Run(Append(s, e), ends, i, j) <=>
           Run(s, ends, i, j) \/ (c < Len(s) /\ i = c + 1 /\ j = Len(s))
<1>1. PICK r : r = Append(s, e)
  OBVIOUS
<1>2. PICK n \in Nat : n = Len(s)
  BY LenProperties
<1>3. Len(r) = n + 1 /\ r[n + 1] = e /\ \A k \in 1 .. n : r[k] = s[k]
  BY <1>1, <1>2, AppendProperties
<1>4. /\ c \in 0 .. n /\ (c = 0 \/ s[c] \in ends)
      /\ \A k \in c + 1 .. n : s[k] \notin ends
  BY <1>2 DEF LastEnd
<1>5. ASSUME Run(s, ends, i, j) PROVE Run(r, ends, i, j)
  BY <1>2, <1>3, <1>5 DEF Run
<1>6. ASSUME c < n, i = c + 1, j = n PROVE Run(r, ends, i, j)
  <2>1. \A k \in i .. j : r[k] \notin ends
    BY <1>3, <1>4, <1>6
  <2>2. i = 1 \/ r[i - 1] \in ends
    BY <1>3, <1>4, <1>6
  <2> QED
    BY <1>3, <1>4, <1>6, <2>1, <2>2 DEF Run
<1>7. ASSUME Run(r, ends, i, j), ~Run(s, ends, i, j)
      PROVE  c < n /\ i = c + 1 /\ j = n
  <2>1. /\ i \in 1 .. n + 1 /\ j \in 1 .. n + 1 /\ i <= j /\ j < n + 1
        /\ r[j + 1] \in ends /\ \A k \in i .. j : r[k] \notin ends
        /\ i = 1 \/ r[i - 1] \in ends
    BY <1>3, <1>7 DEF Run
  <2>2. j = n
    <3> SUFFICES ASSUME j # n PROVE FALSE
      OBVIOUS
    <3>1. j < n /\ i \in 1 .. n /\ j \in 1 .. n /\ j + 1 \in 1 .. n
      BY <2>1
    <3>2. s[j + 1] \in ends /\ \A k \in i .. j : s[k] \notin ends
      BY <1>3, <2>1, <3>1
    <3>3. i = 1 \/ s[i - 1] \in ends
      BY <1>3, <2>1, <3>1
    <3> QED
      BY <1>2, <1>7, <2>1, <3>1, <3>2, <3>3 DEF Run
  <2>3. i > c
    <3> SUFFICES ASSUME i <= c PROVE FALSE
      BY <1>4, <2>1
    <3>1. c \in i .. j /\ c \in 1 .. n
      BY <1>4, <2>1, <2>2
    <3>2. r[c] \notin ends /\ r[c] = s[c]
      BY <1>3, <2>1, <3>1
    <3> QED
      BY <1>4, <3>1, <3>2
  <2>4. i = c + 1
    <3> SUFFICES ASSUME i # c + 1 PROVE FALSE
      OBVIOUS
    <3>1. i - 1 \in c + 1 .. n /\ i - 1 \in 1 .. n /\ i # 1
      BY <1>4, <2>1, <2>2, <2>3
    <3>2. s[i - 1] \notin ends /\ r[i - 1] = s[i - 1]
      BY <1>3, <1>4, <3>1
    <3> QED
      BY <2>1, <3>1, <3>2
  <2> QED
    BY <1>4, <2>1, <2>2, <2>4
<1> QED
  BY <1>1, <1>2, <1>5, <1>6, <1>7

\* A piece of s is the same piece of a longer sequence.
LEMMA SubSeqOfAppend ==
  ASSUME NEW T, NEW s, s \in Seq(T), NEW e \in T, NEW i \in 1 .. Len(s), NEW j \in 1 .. Len(s)
  PROVE  SubSeq(Append(s, e), i, j) = SubSeq(s, i, j)
<1>1. <<e>> \in Seq(T)
  OBVIOUS
<1>2. Append(s, e) = s \o <<e>>
  BY AppendIsConcat
<1> QED
  BY <1>1, <1>2, SubSeqOfConcat1

(***************************************************************************)
(* The lines of the split are the runs between the newlines, and its rest  *)
(* is what follows the last of them.                                       *)
(***************************************************************************)
LEMMA SplitFindsRuns ==
  ASSUME NEW T, NEW ends
  PROVE  \A s \in Seq(T) :
           /\ \E c : LastEnd(s, ends, c) /\ Split(s, ends).rest = SubSeq(s, c + 1, Len(s))
           /\ \A x : x \in ToSet(Split(s, ends).lines) <=>
                       \E i, j : Run(s, ends, i, j) /\ x = SubSeq(s, i, j)
<1> DEFINE Rest(s) ==
             \E c : LastEnd(s, ends, c) /\ Split(s, ends).rest = SubSeq(s, c + 1, Len(s))
           Lines(s) == \A x : x \in ToSet(Split(s, ends).lines) <=>
                                \E i, j : Run(s, ends, i, j) /\ x = SubSeq(s, i, j)
           A == {s \in Seq(T) : Rest(s) /\ Lines(s)}
<1>1. <<>> \in A
  <2>1. <<>> \in Seq(T) /\ Len(<<>>) = 0
    BY EmptySeq
  <2>2. Split(<<>>, ends).lines = <<>> /\ Split(<<>>, ends).rest = <<>>
    BY SplitEmpty
  <2>3. LastEnd(<<>>, ends, 0)
    BY <2>1 DEF LastEnd
  <2>4. SubSeq(<<>>, 0 + 1, 0) = <<>>
    BY SubSeqEmpty
  <2>5. Rest(<<>>)
    BY <2>1, <2>2, <2>3, <2>4
  <2>6. Lines(<<>>)
    BY <2>1, <2>2, ToSetEmpty DEF Run
  <2> QED
    BY <2>1, <2>5, <2>6
<1>2. ASSUME NEW s \in Seq(T), NEW e \in T, s \in A PROVE Append(s, e) \in A
  <2>0. Rest(s) /\ Lines(s)
    BY <1>2
  <2>1. PICK a : a = Split(s, ends)
    OBVIOUS
  <2>2. PICK n \in Nat : n = Len(s)
    BY LenProperties
  <2>3. PICK r : r = Append(s, e)
    OBVIOUS
  <2>4. /\ r \in Seq(T) /\ Len(r) = n + 1 /\ r[n + 1] = e
        /\ \A k \in 1 .. n : r[k] = s[k]
    BY <2>2, <2>3, AppendProperties
  <2>5. /\ Split(r, ends).lines = IF e \notin ends \/ a.rest = <<>> THEN a.lines
                                  ELSE Append(a.lines, a.rest)
        /\ Split(r, ends).rest = IF e \notin ends THEN Append(a.rest, e) ELSE <<>>
    BY <2>1, <2>3, SplitAppend, SplitType, SplitByteFields
  <2>6. a.lines \in Seq(Seq(T)) /\ a.rest \in Seq(T)
    BY <2>1, SplitTypes
  <2>7. PICK c : LastEnd(s, ends, c) /\ a.rest = SubSeq(s, c + 1, n)
    BY <2>0, <2>1, <2>2
  <2>8. /\ c \in 0 .. n /\ (c = 0 \/ s[c] \in ends)
        /\ \A k \in c + 1 .. n : s[k] \notin ends
    BY <2>2, <2>7 DEF LastEnd
  <2>9. \A i, j : Run(s, ends, i, j) => SubSeq(r, i, j) = SubSeq(s, i, j)
    BY <2>3, SubSeqOfAppend DEF Run
  <2>10. c < n => SubSeq(r, c + 1, n) = a.rest
    BY <2>2, <2>3, <2>7, <2>8, SubSeqOfAppend
  <2>11. a.rest = <<>> <=> c = n
    <3>1. c = n => a.rest = <<>>
      BY <2>7, SubSeqEmpty
    <3>2. c < n => Len(a.rest) = n - c
      <4>1. \A k \in c + 1 .. n : s[k] \in T
        BY <2>2, <2>8, ElementOfSeq
      <4>2. Len(SubSeq(s, c + 1, n)) = IF c + 1 <= n THEN n - (c + 1) + 1 ELSE 0
        BY <2>8, <4>1, SubSeqProperties
      <4> QED
        BY <2>7, <2>8, <4>2
    <3>3. Len(<<>>) = 0
      BY EmptySeq
    <3> QED
      BY <2>8, <3>1, <3>2, <3>3
  <2>12. \A x : x \in ToSet(a.lines) <=>
                 \E i, j : Run(s, ends, i, j) /\ x = SubSeq(s, i, j)
    BY <2>0, <2>1
  <2>13. CASE e \notin ends
    <3>1. Lines(r)
      <4>1. \A i, j : Run(r, ends, i, j) <=> Run(s, ends, i, j)
        BY <2>3, <2>13, RunAppendByte
      <4>2. Split(r, ends).lines = a.lines
        BY <2>5, <2>13
      <4>3. ASSUME NEW x, x \in ToSet(a.lines)
            PROVE  \E i, j : Run(r, ends, i, j) /\ x = SubSeq(r, i, j)
        <5>1. PICK i, j : Run(s, ends, i, j) /\ x = SubSeq(s, i, j)
          BY <2>12, <4>3
        <5>2. Run(r, ends, i, j) /\ x = SubSeq(r, i, j)
          BY <2>9, <4>1, <5>1
        <5> QED
          BY <5>2
      <4>4. ASSUME NEW i, NEW j, Run(r, ends, i, j)
            PROVE  SubSeq(r, i, j) \in ToSet(a.lines)
        <5>1. Run(s, ends, i, j) /\ SubSeq(r, i, j) = SubSeq(s, i, j)
          BY <2>9, <4>1, <4>4
        <5> QED
          BY <2>12, <5>1
      <4> QED
        BY <4>2, <4>3, <4>4
    <3>2. LastEnd(r, ends, c)
      <4>1. c = 0 \/ r[c] \in ends
        BY <2>4, <2>8
      <4>2. \A k \in c + 1 .. n + 1 : r[k] \notin ends
        BY <2>4, <2>8, <2>13
      <4> QED
        BY <2>4, <2>8, <4>1, <4>2 DEF LastEnd
    <3>3. Append(SubSeq(s, c + 1, n), e) = SubSeq(r, c + 1, n + 1)
      <4>1. \A k \in c + 1 .. n : s[k] \in T
        BY <2>2, <2>8, ElementOfSeq
      <4>2. \A k \in c + 1 .. n + 1 : r[k] \in T
        BY <2>4, <2>8, ElementOfSeq
      <4>3. PICK x, y : x = SubSeq(s, c + 1, n) /\ y = SubSeq(r, c + 1, n + 1)
        OBVIOUS
      <4>4. /\ x \in Seq(T) /\ Len(x) = n - c
            /\ \A k \in 1 .. n - c : x[k] = s[c + k]
        <5>1. /\ SubSeq(s, c + 1, n) \in Seq(T)
              /\ Len(SubSeq(s, c + 1, n)) = IF c + 1 <= n THEN n - (c + 1) + 1 ELSE 0
              /\ \A k \in 1 .. n - (c + 1) + 1 :
                   SubSeq(s, c + 1, n)[k] = s[c + 1 + k - 1]
          BY <2>8, <4>1, SubSeqProperties
        <5> QED
          BY <2>8, <4>3, <5>1
      <4>5. /\ y \in Seq(T) /\ Len(y) = n + 1 - c
            /\ \A k \in 1 .. n + 1 - c : y[k] = r[c + k]
        <5>1. /\ SubSeq(r, c + 1, n + 1) \in Seq(T)
              /\ Len(SubSeq(r, c + 1, n + 1)) =
                   IF c + 1 <= n + 1 THEN n + 1 - (c + 1) + 1 ELSE 0
              /\ \A k \in 1 .. n + 1 - (c + 1) + 1 :
                   SubSeq(r, c + 1, n + 1)[k] = r[c + 1 + k - 1]
          BY <2>8, <4>2, SubSeqProperties
        <5>2. c + 1 <= n + 1 /\ n + 1 - (c + 1) + 1 = n + 1 - c
          BY <2>8
        <5>3. \A k \in 1 .. n + 1 - c : c + 1 + k - 1 = c + k
          BY <2>8
        <5> QED
          BY <4>3, <5>1, <5>2, <5>3
      <4>6. /\ Append(x, e) \in Seq(T) /\ Len(Append(x, e)) = n - c + 1
            /\ \A k \in 1 .. n - c : Append(x, e)[k] = x[k]
            /\ Append(x, e)[n - c + 1] = e
        BY <4>4, AppendProperties
      <4>7. \A k \in 1 .. n - c + 1 : Append(x, e)[k] = y[k]
        <5> SUFFICES ASSUME NEW k \in 1 .. n - c + 1 PROVE Append(x, e)[k] = y[k]
          OBVIOUS
        <5>1. y[k] = r[c + k]
          BY <2>8, <4>5
        <5>2. CASE k = n - c + 1
          BY <2>4, <2>8, <4>6, <5>1, <5>2
        <5>3. CASE k # n - c + 1
          <6>1. k \in 1 .. n - c /\ c + k \in 1 .. n
            BY <2>8, <5>3
          <6> QED
            BY <2>4, <4>4, <4>6, <5>1, <6>1
        <5> QED
          BY <5>2, <5>3
      <4>8. Append(x, e) = y
        <5>1. Len(Append(x, e)) = Len(y)
          BY <2>8, <4>5, <4>6
        <5> QED
          BY <4>5, <4>6, <4>7, <5>1, SeqEqual
      <4> QED
        BY <4>3, <4>8
    <3>4. Rest(r)
      <4>1. Split(r, ends).rest = SubSeq(r, c + 1, Len(r))
        BY <2>4, <2>5, <2>7, <2>13, <3>3
      <4> QED
        BY <3>2, <4>1
    <3> HIDE DEF Rest, Lines
    <3> QED
      BY <2>3, <2>4, <3>1, <3>4
  <2>14. CASE e \in ends
    <3>1. Rest(r)
      <4>1. LastEnd(r, ends, n + 1)
        BY <2>4, <2>14 DEF LastEnd
      <4>2. SubSeq(r, n + 1 + 1, n + 1) = <<>>
        BY SubSeqEmpty
      <4> QED
        BY <2>4, <2>5, <2>14, <4>1, <4>2
    <3>2. \A i, j : Run(r, ends, i, j) <=>
                      Run(s, ends, i, j) \/ (c < n /\ i = c + 1 /\ j = n)
      BY <2>2, <2>3, <2>7, <2>14, RunAppendEnd
    <3>3. \A x : x \in ToSet(Split(r, ends).lines) <=>
                   x \in ToSet(a.lines) \/ (c < n /\ x = a.rest)
      <4>1. CASE c = n
        BY <2>5, <2>11, <4>1
      <4>2. CASE c < n
        <5>1. Split(r, ends).lines = Append(a.lines, a.rest)
          BY <2>5, <2>11, <2>14, <4>2
        <5> QED
          BY <2>6, <4>2, <5>1, ToSetAppend
      <4> QED
        BY <2>8, <4>1, <4>2
    <3>4. Lines(r)
      <4>1. ASSUME NEW x, x \in ToSet(Split(r, ends).lines)
            PROVE  \E i, j : Run(r, ends, i, j) /\ x = SubSeq(r, i, j)
        <5>1. CASE x \in ToSet(a.lines)
          <6>1. PICK i, j : Run(s, ends, i, j) /\ x = SubSeq(s, i, j)
            BY <2>12, <5>1
          <6>2. Run(r, ends, i, j) /\ x = SubSeq(r, i, j)
            BY <2>9, <3>2, <6>1
          <6> QED
            BY <6>2
        <5>2. CASE c < n /\ x = a.rest
          BY <2>10, <3>2, <5>2
        <5> QED
          BY <3>3, <4>1, <5>1, <5>2
      <4>2. ASSUME NEW i, NEW j, Run(r, ends, i, j)
            PROVE  SubSeq(r, i, j) \in ToSet(Split(r, ends).lines)
        <5>1. CASE Run(s, ends, i, j)
          BY <2>9, <2>12, <3>3, <5>1
        <5>2. CASE c < n /\ i = c + 1 /\ j = n
          BY <2>10, <3>3, <5>2
        <5> QED
          BY <3>2, <4>2, <5>1, <5>2
      <4> QED
        BY <4>1, <4>2
    <3> HIDE DEF Rest, Lines
    <3> QED
      BY <2>3, <2>4, <3>1, <3>4
  <2> QED
    BY <2>13, <2>14
<1>3. Seq(T) \subseteq A
  <2> HIDE DEF A
  <2> QED
    BY <1>1, <1>2, SeqInduces
<1> QED
  BY <1>3

Increasing(s) == \A i, j \in 1 .. Len(s) : i < j => s[i] < s[j]

LEMMA AppendIncreases ==
  ASSUME NEW T, T \subseteq Nat, NEW s, s \in Seq(T), NEW e \in T
  PROVE  Increasing(Append(s, e)) <=>
           Increasing(s) /\ \A k \in 1 .. Len(s) : s[k] < e
<1>1. PICK n \in Nat : n = Len(s)
  BY LenProperties
<1>2. PICK r : r = Append(s, e)
  OBVIOUS
<1>3. Len(r) = n + 1 /\ r[n + 1] = e /\ \A k \in 1 .. n : r[k] = s[k]
  BY <1>1, <1>2, AppendProperties
<1>4. ASSUME Increasing(r) PROVE Increasing(s) /\ \A k \in 1 .. n : s[k] < e
  <2>1. ASSUME NEW i \in 1 .. n + 1, NEW j \in 1 .. n + 1, i < j PROVE r[i] < r[j]
    BY <1>3, <1>4, <2>1 DEF Increasing
  <2>2. ASSUME NEW k \in 1 .. n PROVE s[k] < e
    <3>1. k \in 1 .. n + 1 /\ n + 1 \in 1 .. n + 1 /\ k < n + 1
      OBVIOUS
    <3> QED
      BY <1>3, <2>1, <3>1
  <2>3. ASSUME NEW i \in 1 .. n, NEW j \in 1 .. n, i < j PROVE s[i] < s[j]
    <3>1. i \in 1 .. n + 1 /\ j \in 1 .. n + 1
      OBVIOUS
    <3> QED
      BY <1>3, <2>1, <2>3, <3>1
  <2> QED
    BY <1>1, <2>2, <2>3 DEF Increasing
<1>5. ASSUME Increasing(s), \A k \in 1 .. n : s[k] < e PROVE Increasing(r)
  <2> SUFFICES ASSUME NEW i \in 1 .. n + 1, NEW j \in 1 .. n + 1, i < j PROVE r[i] < r[j]
    BY <1>3 DEF Increasing
  <2>1. i \in 1 .. n /\ r[i] = s[i]
    BY <1>3
  <2>2. CASE j = n + 1
    BY <1>3, <1>5, <2>1, <2>2
  <2>3. CASE j # n + 1
    <3>1. j \in 1 .. n /\ r[j] = s[j]
      BY <1>3, <2>3
    <3> QED
      BY <1>1, <1>5, <2>1, <3>1 DEF Increasing
  <2> QED
    BY <2>2, <2>3
<1> QED
  BY <1>1, <1>2, <1>4, <1>5

LEMMA SelectIncreases ==
  ASSUME NEW T, T \subseteq Nat, NEW S
  PROVE  \A s \in Seq(T) : Increasing(s) => Increasing(Select(s, S))
<1> DEFINE Among(s) == \A i \in 1 .. Len(Select(s, S)) :
                         \E j \in 1 .. Len(s) : Select(s, S)[i] = s[j]
           A == {s \in Seq(T) : Increasing(s) => Increasing(Select(s, S)) /\ Among(s)}
<1>1. <<>> \in A
  <2>1. <<>> \in Seq(T) /\ Len(<<>>) = 0 /\ Select(<<>>, S) = <<>>
    BY EmptySeq, SelectEmpty
  <2> QED
    BY <2>1 DEF Increasing
<1>2. ASSUME NEW s \in Seq(T), NEW e \in T, s \in A PROVE Append(s, e) \in A
  <2>1. PICK n \in Nat, r \in {Append(s, e)}, q \in {Select(s, S)} :
          n = Len(s) /\ r = Append(s, e) /\ q = Select(s, S)
    BY LenProperties
  <2>2. /\ r \in Seq(T) /\ Len(r) = n + 1 /\ r[n + 1] = e
        /\ \A k \in 1 .. n : r[k] = s[k]
    BY <2>1, AppendProperties
  <2>3. q \in Seq(T)
    <3>1. q \in Seq(T \cap S) /\ T \cap S \subseteq T
      BY <2>1, SelectType
    <3> QED
      BY <3>1, SeqMonotonic
  <2>4. PICK m \in Nat : m = Len(q)
    BY <2>3, LenProperties
  <2>5. Select(r, S) = IF e \in S THEN Append(q, e) ELSE q
    BY <2>1, SelectAppend
  <2> SUFFICES ASSUME Increasing(r)
               PROVE  Increasing(Select(r, S)) /\ Among(r)
    BY <2>1, <2>2
  <2>6. Increasing(s) /\ \A k \in 1 .. n : s[k] < e
    BY <2>1, AppendIncreases
  <2>7. Increasing(q) /\ \A i \in 1 .. m : \E j \in 1 .. n : q[i] = s[j]
    BY <1>2, <2>1, <2>4, <2>6
  <2>8. \A i \in 1 .. m : (\E j \in 1 .. n + 1 : q[i] = r[j]) /\ q[i] < e
    <3> SUFFICES ASSUME NEW i \in 1 .. m
                 PROVE  (\E j \in 1 .. n + 1 : q[i] = r[j]) /\ q[i] < e
      OBVIOUS
    <3>1. PICK j \in 1 .. n : q[i] = s[j]
      BY <2>7
    <3>2. j \in 1 .. n + 1 /\ r[j] = s[j]
      BY <2>2
    <3> QED
      BY <2>6, <3>1, <3>2
  <2>9. CASE e \in S
    <3>1. Increasing(Append(q, e))
      BY <2>3, <2>4, <2>7, <2>8, AppendIncreases
    <3>2. /\ Len(Append(q, e)) = m + 1 /\ Append(q, e)[m + 1] = e
          /\ \A i \in 1 .. m : Append(q, e)[i] = q[i]
      BY <2>3, <2>4, AppendProperties
    <3>3. ASSUME NEW i \in 1 .. m + 1 PROVE \E j \in 1 .. n + 1 : Append(q, e)[i] = r[j]
      <4>1. CASE i = m + 1
        <5>1. n + 1 \in 1 .. n + 1 /\ Append(q, e)[i] = r[n + 1]
          BY <2>2, <3>2, <4>1
        <5> QED
          BY <5>1
      <4>2. CASE i # m + 1
        <5>1. i \in 1 .. m
          BY <4>2
        <5> QED
          BY <2>8, <3>2, <5>1
      <4> QED
        BY <4>1, <4>2
    <3> QED
      BY <2>2, <2>5, <2>9, <3>1, <3>2, <3>3
  <2>10. CASE e \notin S
    BY <2>2, <2>4, <2>5, <2>7, <2>8, <2>10
  <2> QED
    BY <2>9, <2>10
<1>3. Seq(T) \subseteq A
  <2> HIDE DEF A
  <2> QED
    BY <1>1, <1>2, SeqInduces
<1> QED
  BY <1>3

\* The lines begin with bytes of M, one after the other, and before the rest.
Ordered(cut, M) ==
  /\ \A k \in 1 .. Len(cut.lines) : cut.lines[k][1] \in M
  /\ \A k, l \in 1 .. Len(cut.lines) : k < l => cut.lines[k][1] < cut.lines[l][1]
  /\ \A i \in 1 .. Len(cut.rest) :
       cut.rest[i] \in M /\ \A k \in 1 .. Len(cut.lines) : cut.lines[k][1] < cut.rest[i]

LEMMA SplitByteOrders ==
  ASSUME NEW T, NEW ends, NEW a, a \in Cut(T, ends), NEW e \in T,
         NEW M, Ordered(a, M), \A x \in M : x < e
  PROVE  Ordered(SplitByte(a, e, ends), M \cup {e})
<1>1. a.lines \in Seq(Seq(T \ ends)) /\ a.rest \in Seq(T \ ends)
  BY DEF Cut
<1>2. PICK n \in Nat, m \in Nat : n = Len(a.lines) /\ m = Len(a.rest)
  BY <1>1, LenProperties
<1>3. /\ \A k \in 1 .. n : a.lines[k][1] \in M
      /\ \A k, l \in 1 .. n : k < l => a.lines[k][1] < a.lines[l][1]
      /\ \A i \in 1 .. m :
           a.rest[i] \in M /\ \A k \in 1 .. n : a.lines[k][1] < a.rest[i]
  BY <1>2 DEF Ordered
<1>4. PICK b : b = SplitByte(a, e, ends)
  OBVIOUS
<1>5. /\ b.lines = IF e \notin ends \/ a.rest = <<>> THEN a.lines
                   ELSE Append(a.lines, a.rest)
      /\ b.rest = IF e \notin ends THEN Append(a.rest, e) ELSE <<>>
  BY <1>4, SplitByteFields
<1>6. CASE e \notin ends
  <2>1. b.lines = a.lines /\ b.rest = Append(a.rest, e)
    BY <1>5, <1>6
  <2>2. /\ Len(b.rest) = m + 1 /\ b.rest[m + 1] = e
        /\ \A i \in 1 .. m : b.rest[i] = a.rest[i]
    BY <1>1, <1>2, <1>6, <2>1, AppendProperties
  <2>3. ASSUME NEW i \in 1 .. m + 1
        PROVE  b.rest[i] \in M \cup {e} /\ \A k \in 1 .. n : a.lines[k][1] < b.rest[i]
    <3>1. CASE i = m + 1
      BY <1>3, <2>2, <3>1
    <3>2. CASE i # m + 1
      <4>1. i \in 1 .. m /\ b.rest[i] = a.rest[i]
        BY <2>2, <3>2
      <4> QED
        BY <1>3, <4>1
    <3> QED
      BY <3>1, <3>2
  <2> QED
    BY <1>2, <1>3, <1>4, <2>1, <2>2, <2>3 DEF Ordered
<1>7. CASE e \in ends /\ a.rest = <<>>
  <2>1. b.lines = a.lines /\ b.rest = <<>> /\ Len(<<>>) = 0
    BY <1>5, <1>7, EmptySeq
  <2> QED
    BY <1>2, <1>3, <1>4, <2>1 DEF Ordered
<1>8. CASE e \in ends /\ a.rest # <<>>
  <2>1. b.lines = Append(a.lines, a.rest) /\ b.rest = <<>> /\ Len(<<>>) = 0
    BY <1>5, <1>8, EmptySeq
  <2>2. m >= 1
    BY <1>1, <1>2, <1>8, EmptySeq
  <2>3. /\ Len(b.lines) = n + 1 /\ b.lines[n + 1] = a.rest
        /\ \A k \in 1 .. n : b.lines[k] = a.lines[k]
    BY <1>1, <1>2, <2>1, AppendProperties
  <2>4. a.rest[1] \in M /\ \A k \in 1 .. n : a.lines[k][1] < a.rest[1]
    BY <1>3, <2>2
  <2>5. ASSUME NEW k \in 1 .. n + 1 PROVE b.lines[k][1] \in M \cup {e}
    <3>1. CASE k = n + 1
      BY <2>3, <2>4, <3>1
    <3>2. CASE k # n + 1
      <4>1. k \in 1 .. n
        BY <3>2
      <4> QED
        BY <1>3, <2>3, <4>1
    <3> QED
      BY <3>1, <3>2
  <2>6. ASSUME NEW k \in 1 .. n + 1, NEW l \in 1 .. n + 1, k < l
        PROVE  b.lines[k][1] < b.lines[l][1]
    <3>1. k \in 1 .. n /\ b.lines[k] = a.lines[k]
      BY <2>3, <2>6
    <3>2. CASE l = n + 1
      BY <2>3, <2>4, <3>1, <3>2
    <3>3. CASE l # n + 1
      <4>1. l \in 1 .. n /\ b.lines[l] = a.lines[l]
        BY <2>3, <3>3
      <4> QED
        BY <1>3, <2>6, <3>1, <4>1
    <3> QED
      BY <3>2, <3>3
  <2> QED
    BY <1>4, <2>1, <2>3, <2>5, <2>6 DEF Ordered
<1> QED
  BY <1>6, <1>7, <1>8

\* The lines of bytes in ascending order come in that order.
LEMMA SplitOrders ==
  ASSUME NEW T, T \subseteq Nat, NEW ends
  PROVE  \A s \in Seq(T) : Increasing(s) => Ordered(Split(s, ends), ToSet(s))
<1> DEFINE A == {s \in Seq(T) : Increasing(s) => Ordered(Split(s, ends), ToSet(s))}
<1>1. <<>> \in A
  <2>1. <<>> \in Seq(T) /\ Len(<<>>) = 0
    BY EmptySeq
  <2>2. Split(<<>>, ends).lines = <<>> /\ Split(<<>>, ends).rest = <<>>
    BY SplitEmpty
  <2>3. Ordered(Split(<<>>, ends), ToSet(<<>>))
    BY <2>1, <2>2 DEF Ordered
  <2> QED
    BY <2>1, <2>3
<1>2. ASSUME NEW s \in Seq(T), NEW e \in T, s \in A PROVE Append(s, e) \in A
  <2>1. Append(s, e) \in Seq(T)
    BY AppendProperties
  <2> SUFFICES ASSUME Increasing(Append(s, e))
               PROVE  Ordered(Split(Append(s, e), ends), ToSet(Append(s, e)))
    BY <2>1
  <2>2. Increasing(s) /\ \A k \in 1 .. Len(s) : s[k] < e
    BY AppendIncreases
  <2>3. Ordered(Split(s, ends), ToSet(s)) /\ Split(s, ends) \in Cut(T, ends)
    BY <1>2, <2>2, SplitType
  <2>4. \A x \in ToSet(s) : x < e
    BY <2>2, LenProperties DEF ToSet
  <2>5. Ordered(SplitByte(Split(s, ends), e, ends), ToSet(s) \cup {e})
    BY <2>3, <2>4, SplitByteOrders
  <2> QED
    <3>1. Split(Append(s, e), ends) = SplitByte(Split(s, ends), e, ends)
      BY SplitAppend
    <3>2. ToSet(Append(s, e)) = ToSet(s) \cup {e}
      BY ToSetAppend
    <3> QED
      BY <2>5, <3>1, <3>2
<1>3. Seq(T) \subseteq A
  <2> HIDE DEF A
  <2> QED
    BY <1>1, <1>2, SeqInduces
<1> QED
  BY <1>3

-----------------------------------------------------------------------------
(* The entries and the events.                                             *)

(***************************************************************************)
(* The inductive invariant.  Until the callback is registered the inotify  *)
(* thread handles nothing and an entry of a file that is gone was missed;  *)
(* from then on an event is on its way that will remove the entry.         *)
(***************************************************************************)
BeforeServe ==
  init # "serve" =>
    /\ pc = "wait"
    /\ init = "enum" => ~known
    /\ known /\ ~present => ghost.missed

EventOnItsWay ==
  init = "serve" /\ known /\ ~present /\ ~ghost.missed => events > 0 \/ pc = "stat"

EventTypes ==
  /\ events \in Nat /\ known \in BOOLEAN /\ present \in BOOLEAN
  /\ DOMAIN ghost =
       {"cleared", "overshot", "missed", "skipped", "blind", "thrown", "epoch"}

IInv == EventTypes /\ BeforeServe /\ EventOnItsWay

USE LogTailConstants DEF LogTailConstants

\* A change of the file that the kernel reports leaves an event behind.
LEMMA NotifyLeavesEvent ==
  ASSUME events \in Nat, Notify
  PROVE  events' \in Nat /\ events' >= events /\ (Watched => events' > 0)
BY DEF Notify

LEMMA InitInv == Init => IInv
<1> SUFFICES ASSUME Init PROVE IInv
  OBVIOUS
<1>1. DOMAIN ghost =
        {"cleared", "overshot", "missed", "skipped", "blind", "thrown", "epoch"}
  BY DEF Init
<1>2. events = 0 /\ init = "enum" /\ pc = "wait" /\ known = FALSE
      /\ present \in BOOLEAN
  BY DEF Init
<1> QED
  BY <1>1, <1>2 DEF IInv, EventTypes, BeforeServe, EventOnItsWay

\* What Cleared does to the fields the invariant is about.
LEMMA ClearedMisses ==
  ASSUME EventTypes, NEW missed, Cleared(missed)
  PROVE  DOMAIN ghost' = DOMAIN ghost /\ ghost'.missed = missed
BY DEF EventTypes, Cleared

LEMMA WriterKeepsInv == IInv /\ Writer => IInv'
<1> SUFFICES ASSUME IInv, Writer PROVE IInv'
  OBVIOUS
<1>0. UNCHANGED <<init, pc, known>>
  BY DEF Writer, AppendByte, Truncate, Rename, Delete, Create, WriterOnly, infoVars
<1> USE DEF IInv, EventTypes, BeforeServe, EventOnItsWay
<1>1. CASE AppendByte \/ Create
  <2>1. Notify /\ ghost' = ghost /\ present'
    BY <1>1 DEF AppendByte, Create
  <2> QED
    BY <1>0, <2>1, NotifyLeavesEvent
<1>2. CASE Truncate
  <2>1. Notify /\ present' = present /\ Cleared(ghost.missed)
    BY <1>2 DEF Truncate
  <2>2. DOMAIN ghost' = DOMAIN ghost /\ ghost'.missed = ghost.missed
    BY <2>1, ClearedMisses
  <2> QED
    BY <1>0, <2>1, <2>2, NotifyLeavesEvent
<1>3. CASE Rename
  <2>1. present' = FALSE /\ events' = events /\ Cleared(TRUE)
    BY <1>3 DEF Rename
  <2>2. DOMAIN ghost' = DOMAIN ghost /\ ghost'.missed = TRUE
    BY <2>1, ClearedMisses
  <2> QED
    BY <1>0, <2>1, <2>2
<1>4. CASE Delete
  <2>1. Notify /\ present' = FALSE /\ Cleared(init # "serve")
    BY <1>4 DEF Delete
  <2>2. DOMAIN ghost' = DOMAIN ghost /\ ghost'.missed = (init # "serve")
    BY <2>1, ClearedMisses
  <2>3. events' \in Nat /\ (init = "serve" => events' > 0)
    BY <2>1, NotifyLeavesEvent DEF Watched
  <2> QED
    BY <1>0, <2>1, <2>2, <2>3
<1> QED
  BY <1>1, <1>2, <1>3, <1>4 DEF Writer

LEMMA StartUpKeepsInv ==
  IInv /\ (FileEnumProc \/ MonitorPath \/ RegisterCallback) => IInv'
<1> SUFFICES ASSUME IInv, FileEnumProc \/ MonitorPath \/ RegisterCallback
             PROVE  IInv'
  OBVIOUS
<1> USE DEF IInv, EventTypes, BeforeServe, EventOnItsWay
<1>1. CASE FileEnumProc
  BY <1>1 DEF FileEnumProc, fsVars
<1>2. CASE MonitorPath
  BY <1>2 DEF MonitorPath, fsVars, infoVars
<1>3. CASE RegisterCallback
  BY <1>3 DEF RegisterCallback, fsVars, infoVars
<1> QED
  BY <1>1, <1>2, <1>3

LEMMA HandlerKeepsInv == IInv /\ NotifyThread => IInv'
<1> SUFFICES ASSUME IInv, NotifyThread PROVE IInv'
  OBVIOUS
<1> USE DEF IInv, EventTypes, BeforeServe, EventOnItsWay
<1>1. CASE OnFileEvent
  BY <1>1 DEF OnFileEvent, fsVars, infoVars
<1>2. CASE StatFound
  BY <1>2 DEF StatFound, fsVars
<1>0. CASE RestThrownAway
  BY <1>0 DEF RestThrownAway, fsVars, infoVars
<1>3. CASE StatFailed
  BY <1>3 DEF StatFailed, fsVars
<1>4. CASE Open \/ OpenFailed
  BY <1>4 DEF Open, OpenFailed, fsVars, infoVars
<1>5. CASE ReadChunk
  BY <1>5 DEF ReadChunk, fsVars, infoVars
<1>6. CASE SendLines
  BY <1>6 DEF SendLines, fsVars
<1> QED
  BY <1>0, <1>1, <1>2, <1>3, <1>4, <1>5, <1>6 DEF NotifyThread

LEMMA InvKept == IInv /\ [Next]_vars => IInv'
<1>1. IInv /\ UNCHANGED vars => IInv'
  BY DEF IInv, EventTypes, BeforeServe, EventOnItsWay, vars, fsVars, infoVars
<1> QED
  BY WriterKeepsInv, StartUpKeepsInv, HandlerKeepsInv, <1>1 DEF Next

\* InvariantHolds: no step of the writer, the start-up or the handler breaks IInv.
THEOREM InvariantHolds == Spec => []IInv
  BY InitInv, InvKept, PTL DEF Spec

(***************************************************************************)
(* EntriesAreDropped: when the inotify thread has handled the events of a  *)
(* file that was deleted, mLogCache holds no entry for it, however many    *)
(* events were merged and wherever the deletion fell in a handler.  What   *)
(* ghost.missed leaves out are a rename, of which NOTIFY_MASK tells        *)
(* nothing (FileNotify.cpp:6), a deletion before the callback was          *)
(* registered, and an event thrown away behind one without a name          *)
(* (FileNotify.cpp:158-161).                                               *)
(***************************************************************************)
THEOREM EntriesAreDropped == Spec => []NoStaleEntry
<1>1. IInv => NoStaleEntry
  BY DEF IInv, EventTypes, EventOnItsWay, NoStaleEntry
<1> QED
  BY InvariantHolds, <1>1, PTL

-----------------------------------------------------------------------------
(* What is read.                                                           *)

Types ==
  /\ data \in Seq(Byte) /\ orphan \in Seq(Byte) /\ str \in Seq(Byte)
  /\ written \in 0 .. MaxBytes /\ Len(data) <= written
  /\ mLastPos \in 0 .. MaxBytes /\ st_size \in 0 .. MaxBytes
  /\ ghost.cleared \in BOOLEAN
  /\ pc \in {"wait", "stat", "open", "read", "send"}

\* A handler that opens a file has an entry for it; without one, nothing was read.
Entries ==
  /\ pc \in {"open", "read", "send"} => known
  /\ ~known => mLastPos = 0
  /\ ~present => data = <<>>

\* str continues at mLastPos and is what the file has there.
Reads ==
  /\ pc \in {"open", "read", "send"} => st_size <= Len(data)
  /\ pc \in {"read", "send"} =>
       /\ fd = "named" /\ mLastPos + Len(str) <= Len(data)
       /\ \A k \in 1 .. Len(str) : str[k] = data[mLastPos + k]
  /\ pc = "send" => st_size <= mLastPos + Len(str)

FInv == Types /\ Entries /\ (~ghost.cleared => mLastPos <= Len(data) /\ Reads)

(***************************************************************************)
(* While a file only grows, mLastPos is inside it; and when the lines are  *)
(* sent, str is an unbroken piece of the file from mLastPos on that        *)
(* reaches at least to st_size, where mLastPos goes.                       *)
(***************************************************************************)
ReadsTheFile ==
  ~ghost.cleared =>
    /\ mLastPos <= Len(data)
    /\ pc = "send" =>
         /\ st_size <= mLastPos + Len(str) /\ mLastPos + Len(str) <= Len(data)
         /\ \A k \in 1 .. Len(str) : str[k] = data[mLastPos + k]

LEMMA InitReads == Init => FInv
<1> SUFFICES ASSUME Init PROVE FInv
  OBVIOUS
<1>1. /\ written \in 0 .. 1 /\ data = [k \in 1 .. written |-> k]
      /\ (~present => written = 0)
  BY DEF Init
<1>2. data \in Seq(Byte)
  <2>1. \A k \in 1 .. written : k \in Byte
    BY <1>1 DEF Byte
  <2> QED
    BY <1>1, <2>1
<1>3. Len(data) = written
  BY <1>1
<1>4. ~present => data = <<>>
  BY <1>1, <1>2, <1>3, EmptySeq
<1>5. /\ str = <<>> /\ orphan = <<>> /\ mLastPos = 0 /\ st_size = 0
      /\ pc = "wait" /\ ~known /\ ghost.cleared = FALSE
  BY DEF Init
<1>6. <<>> \in Seq(Byte)
  BY EmptySeq
<1>7. Types
  <2>1. written \in 0 .. MaxBytes /\ 0 \in 0 .. MaxBytes
    BY <1>1
  <2>2. Len(data) <= written
    BY <1>1, <1>3
  <2> QED
    BY <1>2, <1>5, <1>6, <2>1, <2>2 DEF Types
<1>8. Entries
  BY <1>4, <1>5 DEF Entries
<1>9. mLastPos <= Len(data) /\ Reads
  BY <1>1, <1>3, <1>5 DEF Reads
<1> QED
  BY <1>7, <1>8, <1>9 DEF FInv

\* The file grows: what was read of it stays what it was.
LEMMA AppendKeepsReads == IInv /\ FInv /\ AppendByte => FInv'
<1> SUFFICES ASSUME IInv, FInv, AppendByte PROVE FInv'
  OBVIOUS
<1>1. /\ written' = written + 1 /\ data' = Append(data, written + 1) /\ present
      /\ written < MaxBytes
      /\ UNCHANGED <<present, fd, orphan, ghost, pc, st_size, str, known, mLastPos>>
  BY DEF AppendByte, WriterOnly, infoVars
<1>2. data \in Seq(Byte) /\ written + 1 \in Byte /\ str \in Seq(Byte)
  BY <1>1 DEF FInv, Types, Byte
<1>3. PICK n \in Nat : n = Len(data)
  BY <1>2, LenProperties
<1>4. PICK m \in Nat : m = Len(str)
  BY <1>2, LenProperties
<1>5. /\ data' \in Seq(Byte) /\ Len(data') = n + 1
      /\ \A k \in 1 .. n : data'[k] = data[k]
  BY <1>1, <1>2, <1>3, AppendProperties
<1>6. Types' /\ Entries'
  BY <1>1, <1>2, <1>3, <1>5 DEF FInv, Types, Entries, Byte
<1>7. ASSUME ~ghost.cleared PROVE mLastPos' <= Len(data') /\ Reads'
  <2>1. mLastPos <= n /\ Reads /\ mLastPos \in Nat /\ st_size \in Nat
    BY <1>3, <1>7 DEF FInv, Types
  <2>2. ASSUME pc \in {"read", "send"}, NEW k \in 1 .. m
        PROVE  str[k] = data'[mLastPos + k]
    <3>1. mLastPos + m <= n /\ str[k] = data[mLastPos + k]
      BY <1>3, <1>4, <2>1, <2>2 DEF Reads
    <3>2. mLastPos + k \in 1 .. n
      BY <2>1, <3>1
    <3> QED
      BY <1>5, <3>1, <3>2
  <2> QED
    BY <1>1, <1>3, <1>4, <1>5, <2>1, <2>2 DEF Reads
<1> QED
  BY <1>1, <1>6, <1>7 DEF FInv

\* A file with an entry that is truncated, renamed or deleted is cleared; one
\* without an entry is not being read.
LEMMA ClearKeepsReads ==
  IInv /\ FInv /\ (Truncate \/ Rename \/ Delete) => FInv'
<1> SUFFICES ASSUME IInv, FInv, Truncate \/ Rename \/ Delete PROVE FInv'
  OBVIOUS
<1>1. /\ data' = <<>> /\ orphan' \in {orphan, data}
      /\ UNCHANGED <<written, pc, st_size, str, known, mLastPos>>
  BY DEF Truncate, Rename, Delete, Unlinked, WriterOnly, infoVars
<1>2. ghost'.cleared = (ghost.cleared \/ known)
  BY DEF Truncate, Rename, Delete, Cleared, IInv, EventTypes
<1>3. <<>> \in Seq(Byte) /\ Len(<<>>) = 0
  BY EmptySeq
<1>4. known \in BOOLEAN
  BY DEF IInv, EventTypes
<1>5. Types'
  BY <1>1, <1>2, <1>3, <1>4 DEF FInv, Types
<1>6. Entries'
  BY <1>1 DEF FInv, Entries
<1>7. ASSUME ~ghost'.cleared PROVE mLastPos' <= Len(data') /\ Reads'
  <2>1. ~known
    BY <1>2, <1>7
  <2>2. mLastPos = 0 /\ pc \notin {"open", "read", "send"}
    BY <2>1 DEF FInv, Entries
  <2> QED
    BY <1>1, <1>3, <2>2 DEF Reads
<1> QED
  BY <1>5, <1>6, <1>7 DEF FInv

\* One fread continues where the last one ended; the loop ends at st_size.
LEMMA ChunkKeepsReads == IInv /\ FInv /\ ReadChunk => FInv'
<1> SUFFICES ASSUME IInv, FInv, ReadChunk PROVE FInv'
  OBVIOUS
<1>0. Types
  BY DEF FInv
<1>1. /\ UNCHANGED <<data, written, present, st_size, fd, orphan, known, mLastPos, ghost>>
      /\ str' = str \o Chunk /\ pc = "read" /\ pc' \in {"read", "send"}
      /\ pc' = "send" => Chunk = <<>> \/ mLastPos + Len(str') >= st_size
  BY DEF ReadChunk, fsVars, infoVars
<1>2. PICK file \in Seq(Byte) : file = FdData
  BY <1>0 DEF Types, FdData
<1>3. PICK n \in Nat : n = Len(file)
  BY <1>2, LenProperties
<1>4. PICK m \in Nat : m = Len(str)
  BY <1>0, LenProperties DEF Types
<1>5. PICK from \in Nat : from = mLastPos + m
  BY <1>0 DEF Types
<1>6. PICK end \in Nat : end = IF from + ChunkSize < n THEN from + ChunkSize ELSE n
  OBVIOUS
<1>7. Chunk = SubSeq(file, from + 1, end)
  BY <1>2, <1>3, <1>4, <1>5, <1>6 DEF Chunk
<1>8. PICK piece : piece = Chunk
  OBVIOUS
<1>9. /\ piece \in Seq(Byte)
      /\ Len(piece) = IF from + 1 <= end THEN end - from ELSE 0
      /\ \A k \in 1 .. end - from : piece[k] = file[from + k]
  <2>1. from + 1 \in Int /\ end \in Int
        /\ \A i \in from + 1 .. end : i \in 1 .. n
    BY <1>6
  <2>2. \A i \in from + 1 .. end : file[i] \in Byte
    BY <1>2, <1>3, <2>1, ElementOfSeq
  <2>3. /\ SubSeq(file, from + 1, end) \in Seq(Byte)
        /\ Len(SubSeq(file, from + 1, end)) =
             IF from + 1 <= end THEN end - (from + 1) + 1 ELSE 0
        /\ \A k \in 1 .. end - (from + 1) + 1 :
             SubSeq(file, from + 1, end)[k] = file[from + 1 + k - 1]
    BY <2>1, <2>2, SubSeqProperties
  <2>4. end - (from + 1) + 1 = end - from
    OBVIOUS
  <2>5. \A k \in 1 .. end - from : from + 1 + k - 1 = from + k
    OBVIOUS
  <2> QED
    BY <1>7, <1>8, <2>3, <2>4, <2>5
<1>10. PICK l \in Nat : l = Len(piece)
  BY <1>9, LenProperties
<1>11. /\ str' \in Seq(Byte) /\ Len(str') = m + l
       /\ \A k \in 1 .. m + l : str'[k] = IF k <= m THEN str[k] ELSE piece[k - m]
  <2>1. str \in Seq(Byte) /\ str' = str \o piece
    BY <1>0, <1>1, <1>8 DEF Types
  <2>2. /\ str \o piece \in Seq(Byte) /\ Len(str \o piece) = Len(str) + Len(piece)
        /\ \A k \in 1 .. Len(str) + Len(piece) :
             (str \o piece)[k] = IF k <= Len(str) THEN str[k] ELSE piece[k - Len(str)]
    BY <1>9, <2>1, ConcatProperties
  <2> QED
    BY <1>4, <1>10, <2>1, <2>2
<1>12. Types' /\ Entries'
  BY <1>0, <1>1, <1>11 DEF FInv, Types, Entries
<1>13. ASSUME ~ghost.cleared PROVE mLastPos' <= Len(data') /\ Reads'
  <2>1. /\ mLastPos <= Len(data) /\ fd = "named" /\ st_size <= Len(data)
        /\ mLastPos + m <= Len(data)
        /\ \A k \in 1 .. m : str[k] = data[mLastPos + k]
    BY <1>1, <1>4, <1>13 DEF FInv, Reads
  <2>2. file = data /\ n = Len(data)
    BY <1>2, <1>3, <2>1 DEF FdData
  <2>3. from <= n
    BY <1>5, <2>1, <2>2
  <2>4. from <= end /\ end <= n /\ l = end - from
    BY <1>6, <1>9, <1>10, <2>3
  <2>5. mLastPos + (m + l) = end
    BY <1>0, <1>5, <2>4 DEF Types
  <2>6. ASSUME NEW k \in 1 .. m + l PROVE str'[k] = data[mLastPos + k]
    <3>1. CASE k <= m
      <4>1. k \in 1 .. m
        BY <3>1
      <4>2. str'[k] = str[k]
        BY <1>11, <3>1
      <4> QED
        BY <2>1, <4>1, <4>2
    <3>2. CASE ~(k <= m)
      <4>1. k - m \in 1 .. end - from /\ from + (k - m) = mLastPos + k
        <5>1. mLastPos \in Nat
          BY <1>0 DEF Types
        <5>2. k \in Nat /\ k <= m + l /\ ~(k <= m)
          BY <3>2
        <5> QED
          BY <1>5, <2>4, <5>1, <5>2
      <4>2. piece[k - m] = data[from + (k - m)]
        BY <1>9, <2>2, <4>1
      <4> QED
        BY <1>11, <3>2, <4>1, <4>2
    <3> QED
      BY <3>1, <3>2
  <2>7. pc' = "send" => st_size <= end
    <3>1. CASE piece = <<>>
      <4>1. l = 0
        BY <1>10, <3>1
      <4>2. from + ChunkSize > from
        OBVIOUS
      <4>3. end = n
        BY <1>6, <2>4, <4>1, <4>2
      <4> QED
        BY <2>1, <2>2, <4>3
    <3>2. CASE piece # <<>>
      BY <1>1, <1>8, <1>11, <2>5, <3>2
    <3> QED
      BY <3>1, <3>2
  <2>8. mLastPos + Len(str') <= Len(data)
    BY <1>11, <2>2, <2>4, <2>5
  <2>9. pc' = "send" => st_size <= mLastPos + Len(str')
    BY <1>11, <2>5, <2>7
  <2> QED
    BY <1>1, <1>11, <2>1, <2>6, <2>8, <2>9 DEF Reads
<1> QED
  BY <1>1, <1>12, <1>13 DEF FInv

LEMMA HandlerKeepsReads == IInv /\ FInv /\ NotifyThread => FInv'
<1> SUFFICES ASSUME IInv, FInv, NotifyThread PROVE FInv'
  OBVIOUS
<1>1. <<>> \in Seq(Byte) /\ Len(<<>>) = 0 /\ Len(data) \in Nat
  BY EmptySeq, LenProperties DEF FInv, Types
<1>2. CASE OnFileEvent
  BY <1>2 DEF OnFileEvent, fsVars, handlerVars, infoVars, FInv, Types, Entries, Reads
<1>8. CASE RestThrownAway
  <2>1. ghost'.cleared = ghost.cleared /\ pc' = pc /\ pc = "wait"
    BY <1>8 DEF RestThrownAway, IInv, EventTypes
  <2> QED
    BY <1>8, <2>1
    DEF RestThrownAway, fsVars, handlerVars, infoVars, FInv, Types, Entries, Reads
<1>3. CASE StatFound
  BY <1>1, <1>3 DEF StatFound, fsVars, FInv, Types, Entries, Reads
<1>4. CASE StatFailed
  BY <1>1, <1>4 DEF StatFailed, fsVars, handlerVars, FInv, Types, Entries, Reads,
     IInv, EventTypes
<1>5. CASE Open
  BY <1>1, <1>5 DEF Open, fsVars, infoVars, FInv, Types, Entries, Reads
<1>6. CASE OpenFailed
  <2>1. /\ UNCHANGED <<data, written, present, known, orphan, str, st_size>>
        /\ mLastPos' = st_size /\ pc' = "wait" /\ pc = "open"
    BY <1>6 DEF OpenFailed, fsVars, handlerVars
  <2>2. ghost'.cleared = ghost.cleared
    BY <1>6 DEF OpenFailed, IInv, EventTypes
  <2>3. known
    BY <2>1 DEF FInv, Entries
  <2> QED
    BY <1>1, <2>1, <2>2, <2>3 DEF FInv, Types, Entries, Reads
<1>7. CASE SendLines
  <2>1. /\ UNCHANGED <<data, written, present, known, st_size>>
        /\ str' = <<>> /\ orphan' = <<>> /\ mLastPos' = st_size /\ pc' = "wait"
        /\ pc = "send"
    BY <1>7 DEF SendLines, fsVars
  <2>2. ghost'.cleared = ghost.cleared
    BY <1>7 DEF SendLines, IInv, EventTypes
  <2>3. known
    BY <2>1 DEF FInv, Entries
  <2> QED
    BY <1>1, <2>1, <2>2, <2>3 DEF FInv, Types, Entries, Reads
<1> QED
  BY <1>2, <1>3, <1>4, <1>5, <1>6, <1>7, <1>8, ChunkKeepsReads DEF NotifyThread

LEMMA ReadsKept == IInv /\ FInv /\ [Next]_vars => FInv'
<1> SUFFICES ASSUME IInv, FInv, [Next]_vars PROVE FInv'
  OBVIOUS
<1>1. CASE Create
  BY <1>1 DEF Create, WriterOnly, infoVars, FInv, Types, Entries, Reads
<1>2. CASE FileEnumProc
  <2>1. Len(data) \in Nat /\ (data = <<>> => Len(data) = 0)
    BY EmptySeq, LenProperties DEF FInv, Types
  <2>2. /\ pc = "wait" /\ known' = present /\ mLastPos' = Len(data)
        /\ UNCHANGED <<data, written, present, orphan, str, st_size, pc>>
    BY <1>2 DEF FileEnumProc, fsVars, handlerVars, IInv, BeforeServe
  <2>3. ghost'.cleared = ghost.cleared
    BY <1>2 DEF FileEnumProc, IInv, EventTypes
  <2> QED
    BY <2>1, <2>2, <2>3 DEF FInv, Types, Entries, Reads
<1>3. CASE MonitorPath
  BY <1>3 DEF MonitorPath, fsVars, handlerVars, infoVars, FInv, Types, Entries, Reads
<1>4. CASE RegisterCallback
  BY <1>4 DEF RegisterCallback, fsVars, handlerVars, infoVars, FInv, Types, Entries,
     Reads, IInv, EventTypes
<1>5. CASE UNCHANGED vars
  BY <1>5 DEF vars, fsVars, handlerVars, infoVars, FInv, Types, Entries, Reads
<1> QED
  BY <1>1, <1>2, <1>3, <1>4, <1>5, AppendKeepsReads, ClearKeepsReads,
     HandlerKeepsReads
  DEF Next, Writer

(***************************************************************************)
(* ReadsAreTheFile: when DispatchLog got the file open, then whatever is   *)
(* written while it reads, the text it splits is an unbroken piece of the  *)
(* file from mLastPos on (LogMonitor.cpp:155-177) that covers everything   *)
(* mLastPos moves over after it (LogMonitor.cpp:54), for any file, buffer  *)
(* and number of events.  An fopen that failed leaves nothing to split;    *)
(* what mLastPos moves over then is accounted for in FileIsSent.           *)
(***************************************************************************)
THEOREM ReadsAreTheFile == Spec => []ReadsTheFile
<1>1. FInv => ReadsTheFile
  BY DEF FInv, Reads, ReadsTheFile
<1> QED
  BY InitInv, InitReads, InvKept, ReadsKept, <1>1, PTL DEF Spec

-----------------------------------------------------------------------------
(* What is sent.                                                           *)

\* The types that the reading does not need, and what an entry begins with.
RestTypes ==
  /\ newline \subseteq Byte
  /\ clears \in 0 .. MaxClears /\ faults \in 0 .. MaxFaults
  /\ events \in 0 .. MaxEvents
  /\ init \in {"enum", "watch", "register", "serve"}
  /\ fd \in {"closed", "named", "unlinked"}
  /\ mLastCache \in Seq(Byte) /\ dispatched \in Seq(Seq(Byte))
  /\ ~known => mLastCache = <<>>

\* mLastPos is about to move forward, never back.
Forward == pc \in {"open", "read", "send"} => mLastPos < st_size

\* What the file has are the last bytes that were written.
Numbered ==
  /\ \A k \in 1 .. Len(data) : data[k] = (written - Len(data)) + k
  /\ ghost.skipped \subseteq 1 .. written

\* Nothing behind mLastPos was skipped.
BehindIsNew ==
  ~ghost.cleared => \A k \in mLastPos + 1 .. Len(data) : data[k] \notin ghost.skipped

Sent == SubSeq(dispatched, ghost.epoch + 1, Len(dispatched))

\* What was sent, and what is cached, is the split of the file up to mLastPos.
SplitSoFar ==
  /\ ghost.epoch \in 0 .. Len(dispatched)
  /\ ~ghost.cleared /\ ~ghost.overshot =>
       Split(Part, newline).lines = Sent /\ Split(Part, newline).rest = mLastCache

SInv == RestTypes /\ Forward /\ Numbered /\ BehindIsNew /\ SplitSoFar /\ NothingSkipped

\* The steps that change none of this but the types.
Quiet ==
  /\ UNCHANGED <<newline, data, written, mLastPos, mLastCache, dispatched>>
  /\ ghost'.cleared = ghost.cleared /\ ghost'.overshot = ghost.overshot
  /\ ghost'.skipped = ghost.skipped /\ ghost'.epoch = ghost.epoch

LEMMA QuietKeeps ==
  ASSUME SInv, Quiet
  PROVE  Numbered' /\ BehindIsNew' /\ SplitSoFar' /\ NothingSkipped'
<1>1. Numbered' /\ BehindIsNew'
  BY DEF SInv, Quiet, Numbered, BehindIsNew
<1>2. Part' = Part /\ Sent' = Sent /\ Taken' = Taken
  BY DEF Quiet, Part, Sent, Taken
<1>3. SplitSoFar' /\ NothingSkipped'
  BY <1>2 DEF SInv, Quiet, SplitSoFar, NothingSkipped
<1> QED
  BY <1>1, <1>3

\* What Cleared does to the fields these invariants are about.
LEMMA ClearedFields ==
  ASSUME EventTypes, NEW missed, Cleared(missed)
  PROVE  /\ ghost'.cleared = (ghost.cleared \/ known)
         /\ ghost'.overshot = ghost.overshot
         /\ ghost'.skipped = ghost.skipped /\ ghost'.epoch = ghost.epoch
BY DEF EventTypes, Cleared

LEMMA RestTypesKept == IInv /\ FInv /\ SInv /\ [Next]_vars => RestTypes'
<1> SUFFICES ASSUME IInv, FInv, SInv, [Next]_vars PROVE RestTypes'
  OBVIOUS
<1>0. RestTypes /\ <<>> \in Seq(Byte)
  BY EmptySeq DEF SInv
<1>1. CASE Writer
  <2>1. /\ UNCHANGED <<newline, faults, init, known, mLastCache, dispatched>>
        /\ Notify \/ events' = events
    BY <1>1 DEF Writer, AppendByte, Truncate, Rename, Delete, Create, WriterOnly,
       infoVars
  <2>2. clears' \in 0 .. MaxClears
    BY <1>0, <1>1 DEF RestTypes, Writer, AppendByte, Truncate, Rename, Delete, Create,
       Cleared
  <2>3. fd' \in {"closed", "named", "unlinked"}
    BY <1>0, <1>1 DEF RestTypes, Writer, AppendByte, Truncate, Rename, Delete, Create,
       Unlinked
  <2>4. events' \in 0 .. MaxEvents
    BY <1>0, <2>1 DEF RestTypes, Notify
  <2> QED
    BY <1>0, <2>1, <2>2, <2>3, <2>4 DEF RestTypes
<1>2. CASE FileEnumProc
  BY <1>0, <1>2 DEF FileEnumProc, fsVars, handlerVars, RestTypes, IInv, BeforeServe
<1>3. CASE MonitorPath \/ RegisterCallback
  BY <1>0, <1>3
  DEF MonitorPath, RegisterCallback, fsVars, handlerVars, infoVars, RestTypes
<1>4. CASE OnFileEvent \/ RestThrownAway
  BY <1>0, <1>4
  DEF OnFileEvent, RestThrownAway, fsVars, handlerVars, infoVars, RestTypes
<1>5. CASE StatFound \/ StatFailed
  BY <1>0, <1>5 DEF StatFound, StatFailed, fsVars, handlerVars, RestTypes
<1>6. CASE Open \/ OpenFailed \/ ReadChunk
  BY <1>0, <1>6 DEF Open, OpenFailed, ReadChunk, fsVars, handlerVars, infoVars, RestTypes
<1>7. CASE SendLines
  <2>1. PICK cut : cut = Split(mLastCache \o str, newline)
    OBVIOUS
  <2>2. mLastCache \o str \in Seq(Byte)
    BY <1>0, ConcatProperties DEF RestTypes, FInv, Types
  <2>3. cut.lines \in Seq(Seq(Byte)) /\ cut.rest \in Seq(Byte)
    BY <2>1, <2>2, SplitTypes
  <2>4. dispatched' = dispatched \o cut.lines /\ mLastCache' = cut.rest
    BY <1>7, <2>1 DEF SendLines
  <2>5. dispatched' \in Seq(Seq(Byte))
    BY <1>0, <2>3, <2>4, ConcatProperties DEF RestTypes
  <2>6. known /\ known' = known
    BY <1>7 DEF SendLines, FInv, Entries
  <2> QED
    BY <1>0, <1>7, <2>3, <2>4, <2>5, <2>6 DEF SendLines, fsVars, RestTypes
<1>8. CASE UNCHANGED vars
  BY <1>0, <1>8 DEF vars, fsVars, handlerVars, infoVars, RestTypes
<1> QED
  BY <1>1, <1>2, <1>3, <1>4, <1>5, <1>6, <1>7, <1>8 DEF Next, NotifyThread

LEMMA ForwardKept == IInv /\ FInv /\ SInv /\ [Next]_vars => Forward'
<1> SUFFICES ASSUME IInv, FInv, SInv, [Next]_vars PROVE Forward'
  OBVIOUS
<1> USE DEF Forward
<1>0. Forward
  BY DEF SInv
<1>1. CASE Writer
  BY <1>0, <1>1 DEF Writer, AppendByte, Truncate, Rename, Delete, Create, WriterOnly,
     infoVars
<1>2. CASE FileEnumProc
  BY <1>2 DEF FileEnumProc, IInv, BeforeServe
<1>3. CASE MonitorPath \/ RegisterCallback
  BY <1>0, <1>3 DEF MonitorPath, RegisterCallback, handlerVars, infoVars
<1>4. CASE OnFileEvent \/ RestThrownAway \/ StatFailed \/ OpenFailed \/ SendLines
  BY <1>4 DEF OnFileEvent, RestThrownAway, StatFailed, OpenFailed, SendLines
<1>5. CASE StatFound
  BY <1>5 DEF StatFound
<1>6. CASE Open \/ ReadChunk
  BY <1>0, <1>6 DEF Open, ReadChunk, infoVars
<1>7. CASE UNCHANGED vars
  BY <1>0, <1>7 DEF vars, handlerVars, infoVars
<1> QED
  BY <1>1, <1>2, <1>3, <1>4, <1>5, <1>6, <1>7 DEF Next, NotifyThread

\* A byte more: the part that was read is the same.
LEMMA AppendKeepsSplit ==
  ASSUME IInv, FInv, SInv, AppendByte
  PROVE  Numbered' /\ BehindIsNew' /\ SplitSoFar' /\ NothingSkipped'
<1>1. /\ written' = written + 1 /\ data' = Append(data, written + 1)
      /\ UNCHANGED <<newline, ghost, mLastPos, mLastCache, dispatched>>
      /\ written + 1 \in Byte
  BY DEF AppendByte, WriterOnly, infoVars, FInv, Types, Byte
<1>2. data \in Seq(Byte) /\ mLastPos \in Nat /\ written \in Nat /\ Len(data) <= written
  BY DEF FInv, Types
<1>3. PICK n \in Nat : n = Len(data)
  BY <1>2, LenProperties
<1>4. /\ Len(data') = n + 1 /\ data'[n + 1] = written + 1
      /\ \A k \in 1 .. n : data'[k] = data[k]
  BY <1>1, <1>2, <1>3, AppendProperties
<1>5. /\ \A k \in 1 .. n : data[k] = (written - n) + k
      /\ ghost.skipped \subseteq 1 .. written
  BY <1>3 DEF SInv, Numbered
<1>6. Numbered'
  <2>1. ASSUME NEW k \in 1 .. n + 1 PROVE data'[k] = (written' - (n + 1)) + k
    <3>1. CASE k = n + 1
      BY <1>1, <1>2, <1>4, <3>1
    <3>2. CASE k # n + 1
      <4>1. k \in 1 .. n
        BY <3>2
      <4> QED
        BY <1>1, <1>2, <1>4, <1>5, <4>1
    <3> QED
      BY <3>1, <3>2
  <2>2. \A k \in 1 .. Len(data') : data'[k] = (written' - Len(data')) + k
    BY <1>4, <2>1
  <2>3. ghost'.skipped \subseteq 1 .. written'
    BY <1>1, <1>2, <1>5
  <2> QED
    BY <2>2, <2>3 DEF Numbered
<1>7. CASE ghost.cleared
  BY <1>1, <1>6, <1>7 DEF SInv, BehindIsNew, SplitSoFar, NothingSkipped
<1>8. CASE ~ghost.cleared
  <2>1. mLastPos <= n
    BY <1>3, <1>8 DEF FInv
  <2>2. BehindIsNew'
    <3> SUFFICES ASSUME NEW k \in mLastPos + 1 .. n + 1 PROVE data'[k] \notin ghost.skipped
      BY <1>1, <1>4 DEF BehindIsNew
    <3>1. CASE k = n + 1
      BY <1>2, <1>4, <1>5, <3>1
    <3>2. CASE k # n + 1
      <4>1. k \in mLastPos + 1 .. n /\ k \in 1 .. n
        BY <1>2, <3>2
      <4>2. data[k] \notin ghost.skipped
        BY <1>3, <1>8, <4>1 DEF SInv, BehindIsNew
      <4> QED
        BY <1>4, <4>1, <4>2
    <3> QED
      BY <3>1, <3>2
  <2>3. SubSeq(data', 1, mLastPos) = SubSeq(data, 1, mLastPos)
    <3>1. CASE mLastPos = 0
      BY <3>1, SubSeqEmpty
    <3>2. CASE mLastPos # 0
      <4>1. 1 \in 1 .. Len(data) /\ mLastPos \in 1 .. Len(data)
        BY <1>2, <1>3, <2>1, <3>2
      <4> QED
        BY <1>1, <1>2, <4>1, SubSeqOfAppend
    <3> QED
      BY <3>1, <3>2
  <2>4. Part' = Part /\ Sent' = Sent /\ Taken' = Taken
    BY <1>1, <2>3 DEF Part, Sent, Taken
  <2>5. SplitSoFar'
    BY <1>1, <2>4 DEF SInv, SplitSoFar
  <2>6. NothingSkipped'
    <3>1. \A k \in 1 .. mLastPos : data'[k] = data[k]
      BY <1>2, <1>4, <2>1
    <3>2. mLastPos <= n + 1
      BY <1>2, <2>1
    <3> QED
      BY <1>1, <1>4, <1>8, <2>4, <3>1, <3>2 DEF SInv, NothingSkipped
  <2> QED
    BY <1>6, <2>2, <2>5, <2>6
<1> QED
  BY <1>7, <1>8

LEMMA SubSeqToZero == \A s : SubSeq(s, 1, 0) = <<>>
BY SubSeqEmpty

\* A file without an entry: nothing of it was read, nothing of it was sent.
LEMMA NothingRead == mLastPos = 0 => Part = <<>>
BY SubSeqToZero, SelectEmpty DEF Part

LEMMA ClearKeepsSplit ==
  ASSUME IInv, FInv, SInv, Truncate \/ Rename \/ Delete
  PROVE  Numbered' /\ BehindIsNew' /\ SplitSoFar' /\ NothingSkipped'
<1>1. /\ data' = <<>> /\ Len(data') = 0
      /\ UNCHANGED <<newline, written, known, mLastPos, mLastCache, dispatched>>
      /\ \E missed \in {TRUE, ghost.missed, init # "serve"} : Cleared(missed)
  BY EmptySeq DEF Truncate, Rename, Delete, WriterOnly, infoVars
<1>2. /\ ghost'.cleared = (ghost.cleared \/ known)
      /\ ghost'.overshot = ghost.overshot
      /\ ghost'.skipped = ghost.skipped /\ ghost'.epoch = ghost.epoch
  BY <1>1, ClearedFields DEF IInv
<1>3. Numbered'
  BY <1>1, <1>2 DEF SInv, Numbered
<1>4. mLastPos \in Nat
  BY DEF FInv, Types
<1>5. BehindIsNew'
  BY <1>1, <1>4 DEF BehindIsNew
<1>6. ~ghost'.cleared => ~ghost.cleared /\ mLastPos = 0 /\ mLastPos' = 0
  BY <1>1, <1>2 DEF IInv, EventTypes, FInv, Entries
<1>7. SplitSoFar'
  <2>1. ghost'.epoch \in 0 .. Len(dispatched')
    BY <1>1, <1>2 DEF SInv, SplitSoFar
  <2>2. ~ghost'.cleared => Part' = Part
    <3>1. mLastPos' = 0 => Part' = <<>>
      BY SubSeqToZero, SelectEmpty DEF Part
    <3> QED
      BY <1>6, <3>1, NothingRead
  <2>3. Sent' = Sent
    BY <1>1, <1>2 DEF Sent
  <2> QED
    BY <1>1, <1>2, <1>6, <2>1, <2>2, <2>3 DEF SInv, SplitSoFar
<1>8. NothingSkipped'
  BY <1>1, <1>6 DEF NothingSkipped
<1> QED
  BY <1>3, <1>5, <1>7, <1>8

\* What is there at start-up is passed over.
LEMMA EnumKeepsSplit ==
  ASSUME IInv, FInv, SInv, FileEnumProc
  PROVE  Numbered' /\ BehindIsNew' /\ SplitSoFar' /\ NothingSkipped'
<1>1. /\ mLastPos' = Len(data) /\ init = "enum"
      /\ UNCHANGED <<newline, data, written, mLastCache, dispatched>>
  BY DEF FileEnumProc, fsVars
<1>2. /\ ghost'.skipped = ToSet(data) /\ ghost'.epoch = ghost.epoch
      /\ ghost'.cleared = ghost.cleared /\ ghost'.overshot = ghost.overshot
  BY DEF FileEnumProc, IInv, EventTypes
<1>3. mLastPos = 0
  BY <1>1 DEF IInv, BeforeServe, FInv, Entries
<1>4. /\ data \in Seq(Byte) /\ written \in Nat /\ Len(data) <= written
      /\ Len(data) \in Nat
  BY LenProperties DEF FInv, Types
<1>5. \A k \in 1 .. Len(data) : data[k] = (written - Len(data)) + k
  BY DEF SInv, Numbered
<1>6. \A k \in 1 .. Len(data) : data[k] \in 1 .. written
  BY <1>4, <1>5
<1>0. ToSet(data) = {data[k] : k \in 1 .. Len(data)}
  BY <1>4, LenProperties DEF ToSet
<1>7. Numbered'
  BY <1>0, <1>1, <1>2, <1>4, <1>5, <1>6 DEF Numbered
<1>8. BehindIsNew'
  BY <1>1, <1>4 DEF BehindIsNew
<1>9. Part' = <<>>
  <2>1. data \in Seq(ToSet(data))
    BY <1>0, <1>4, SeqNarrows
  <2>2. SubSeq(data, 1, Len(data)) = data
    BY <1>4, SubSeqFull
  <2>3. ToSet(data) \cap (Byte \ ToSet(data)) = {}
    OBVIOUS
  <2>4. Select(data, Byte \ ToSet(data)) = <<>>
    BY <2>1, <2>3, SelectNone
  <2> QED
    BY <1>1, <1>2, <2>2, <2>4 DEF Part
<1>10. SplitSoFar'
  <2>1. ghost'.epoch \in 0 .. Len(dispatched')
    BY <1>1, <1>2 DEF SInv, SplitSoFar
  <2>2. Part' = Part
    BY <1>3, <1>9, NothingRead
  <2>3. Sent' = Sent
    BY <1>1, <1>2 DEF Sent
  <2> QED
    BY <1>1, <1>2, <2>1, <2>2, <2>3 DEF SInv, SplitSoFar
<1>11. NothingSkipped'
  <2>1. mLastPos' <= Len(data')
    BY <1>1, <1>4
  <2>2. \A k \in 1 .. mLastPos' : data'[k] \in ghost'.skipped
    BY <1>0, <1>1, <1>2
  <2> QED
    BY <2>1, <2>2 DEF NothingSkipped
<1> QED
  BY <1>7, <1>8, <1>10, <1>11

\* An entry that is erased starts over: nothing read, nothing cached, nothing sent.
LEMMA ForgetKeepsSplit ==
  ASSUME IInv, FInv, SInv, StatFailed
  PROVE  Numbered' /\ BehindIsNew' /\ SplitSoFar' /\ NothingSkipped'
<1>1. /\ mLastPos' = 0 /\ mLastCache' = <<>> /\ ~present
      /\ UNCHANGED <<newline, data, written, dispatched>>
  BY DEF StatFailed, fsVars
<1>2. ghost'.epoch = Len(dispatched) /\ ghost'.skipped = ghost.skipped
  BY DEF StatFailed, IInv, EventTypes
<1>3. data = <<>> /\ Len(data) = 0
  BY <1>1, EmptySeq DEF FInv, Entries
<1>4. Numbered'
  BY <1>1, <1>2 DEF SInv, Numbered
<1>5. BehindIsNew'
  BY <1>1, <1>3 DEF BehindIsNew
<1>6. SplitSoFar'
  <2>1. Len(dispatched) \in Nat
    BY LenProperties DEF SInv, RestTypes
  <2>2. Part' = <<>>
    BY <1>1, SubSeqToZero, SelectEmpty DEF Part
  <2>3. Split(Part', newline').lines = <<>> /\ Split(Part', newline').rest = <<>>
    BY <2>2, SplitEmpty
  <2>4. Sent' = <<>>
    BY <1>1, <1>2, <2>1, SubSeqEmpty DEF Sent
  <2>5. ghost'.epoch \in 0 .. Len(dispatched')
    BY <1>1, <1>2, <2>1
  <2> QED
    BY <1>1, <2>3, <2>4, <2>5 DEF SplitSoFar
<1>7. NothingSkipped'
  BY <1>1, <1>3 DEF NothingSkipped
<1> QED
  BY <1>4, <1>5, <1>6, <1>7

\* What a failed fopen leaves behind mLastPos is cut out of the part it covers.
LEMMA OpenFailedKeepsSplit ==
  ASSUME IInv, FInv, SInv, OpenFailed
  PROVE  Numbered' /\ BehindIsNew' /\ SplitSoFar' /\ NothingSkipped'
<1> DEFINE hole == {data[k] : k \in (mLastPos + 1 .. st_size) \cap DOMAIN data}
           U == Byte \ ghost.skipped
           V == Byte \ (ghost.skipped \cup hole)
<1>1. /\ UNCHANGED <<newline, data, written, mLastCache, dispatched>>
      /\ pc = "open" /\ mLastPos' = st_size
  BY DEF OpenFailed, fsVars
<1>2. /\ ghost'.skipped = ghost.skipped \cup hole /\ ghost'.epoch = ghost.epoch
      /\ ghost'.cleared = ghost.cleared /\ ghost'.overshot = ghost.overshot
  BY DEF OpenFailed, IInv, EventTypes
<1>3. /\ data \in Seq(Byte) /\ written \in Nat /\ Len(data) <= written
      /\ Len(data) \in Nat /\ DOMAIN data = 1 .. Len(data)
      /\ mLastPos \in Nat /\ st_size \in Nat
  BY LenProperties DEF FInv, Types
<1>4. /\ \A k \in 1 .. Len(data) : data[k] = (written - Len(data)) + k
      /\ ghost.skipped \subseteq 1 .. written
  BY DEF SInv, Numbered
<1>5. hole \subseteq 1 .. written
  BY <1>3, <1>4
<1> HIDE DEF hole
<1>6. Numbered'
  BY <1>1, <1>2, <1>4, <1>5 DEF Numbered
<1>7. ghost'.epoch \in 0 .. Len(dispatched')
  BY <1>1, <1>2 DEF SInv, SplitSoFar
<1>8. CASE ghost.cleared
  BY <1>2, <1>6, <1>7, <1>8 DEF BehindIsNew, SplitSoFar, NothingSkipped
<1>9. CASE ~ghost.cleared
  <2>1. mLastPos < st_size /\ st_size <= Len(data)
    BY <1>1, <1>9 DEF SInv, Forward, FInv, Reads
  <2>2. hole = {data[k] : k \in mLastPos + 1 .. st_size}
    BY <1>3, <2>1 DEF hole
  <2>3. ASSUME NEW k \in 1 .. Len(data), k <= mLastPos \/ k > st_size
        PROVE  data[k] \notin hole
    <3> SUFFICES ASSUME NEW j \in mLastPos + 1 .. st_size, data[j] = data[k] PROVE FALSE
      BY <2>2
    <3>1. j \in 1 .. Len(data)
      BY <1>3, <2>1
    <3>2. data[j] = (written - Len(data)) + j /\ data[k] = (written - Len(data)) + k
      BY <1>4, <3>1
    <3>3. PICK c \in Int : c = written - Len(data)
      BY <1>3
    <3>4. j \in Int /\ k \in Int
      BY <1>3, <3>1
    <3>5. j = k
      <4>1. c + j = c + k
        BY <3>2, <3>3
      <4> QED
        BY <3>4, <4>1
    <3>6. j > mLastPos /\ j <= st_size
      BY <1>3
    <3> QED
      BY <1>3, <2>3, <3>5, <3>6
  <2>4. BehindIsNew'
    <3> SUFFICES ASSUME NEW k \in st_size + 1 .. Len(data)
                 PROVE  data[k] \notin ghost.skipped \cup hole
      BY <1>1, <1>2 DEF BehindIsNew
    <3>1. k \in mLastPos + 1 .. Len(data) /\ k \in 1 .. Len(data) /\ k > st_size
      BY <1>3, <2>1
    <3> QED
      BY <1>9, <2>3, <3>1 DEF SInv, BehindIsNew
  <2>5. Part' = Part
    <3> DEFINE R == {data[k] : k \in 1 .. mLastPos}
    <3>1. PICK read, more : /\ read = SubSeq(data, 1, mLastPos)
                            /\ more = SubSeq(data, mLastPos + 1, st_size)
      OBVIOUS
    <3>2. SubSeq(data, 1, st_size) = read \o more
      <4>1. /\ 1 \in 1 .. Len(data) + 1 /\ mLastPos \in 1 - 1 .. Len(data)
            /\ st_size \in mLastPos .. Len(data)
        BY <1>3, <2>1
      <4> QED
        BY <1>3, <3>1, <4>1, ConcatAdjacentSubSeq
    <3>3. read \in Seq(R) /\ R \subseteq Byte
      <4>1. \A i \in 1 .. mLastPos : data[i] \in R /\ data[i] \in Byte
        BY <1>3, <2>1, ElementOfSeq
      <4>2. 1 \in Int /\ mLastPos \in Int
        BY <1>3
      <4>3. read \in Seq(R)
        BY <3>1, <4>1, <4>2, SubSeqProperties
      <4> QED
        BY <4>1, <4>3
    <3>4. more \in Seq(hole) /\ hole \subseteq Byte
      <4>1. \A i \in mLastPos + 1 .. st_size : data[i] \in hole /\ data[i] \in Byte
        BY <1>3, <2>1, <2>2, ElementOfSeq
      <4>2. mLastPos + 1 \in Int /\ st_size \in Int
        BY <1>3
      <4>3. more \in Seq(hole)
        BY <3>1, <4>1, <4>2, SubSeqProperties
      <4> QED
        BY <2>2, <4>1, <4>3
    <3>5. Select(more, V) = <<>>
      <4>1. hole \cap V = {}
        OBVIOUS
      <4> QED
        BY <3>4, <4>1, SelectNone
    <3>6. Select(read, V) = Select(read, U)
      <4>1. R \cap hole = {}
        BY <1>3, <2>1, <2>3
      <4>2. R \cap V = R \cap U
        BY <4>1
      <4> HIDE DEF R, U, V
      <4> QED
        BY <3>3, <4>2, SelectAgrees
    <3>7. read \in Seq(Byte) /\ more \in Seq(Byte)
      BY <3>3, <3>4, SeqMonotonic
    <3>8. Select(read, V) \in Seq(Byte)
      <4>1. Select(read, V) \in Seq(Byte \cap V) /\ Byte \cap V \subseteq Byte
        BY <3>7, SelectType
      <4> QED
        BY <4>1, SeqMonotonic
    <3>9. Select(read \o more, V) = Select(read, V) \o Select(more, V)
      <4> HIDE DEF V
      <4> QED
        BY ZenonT(40), <3>7, SelectConcat
    <3>10. Select(read \o more, V) = Select(read, U)
      <4>1. Select(read, V) \o <<>> = Select(read, V)
        BY <3>8, ConcatEmptySeq
      <4> QED
        BY <3>5, <3>6, <3>9, <4>1
    <3> QED
      BY <1>1, <1>2, <3>1, <3>2, <3>10 DEF Part
  <2>6. SplitSoFar'
    <3>1. Sent' = Sent
      BY <1>1, <1>2 DEF Sent
    <3> QED
      BY <1>1, <1>2, <1>7, <2>5, <3>1 DEF SInv, SplitSoFar
  <2>7. NothingSkipped'
    <3> SUFFICES ASSUME NEW k \in 1 .. st_size,
                        data[k] \notin (ghost.skipped \cup hole) \cup newline
                 PROVE  data[k] \in Taken'
      BY <1>1, <1>2, <2>1 DEF NothingSkipped
    <3>1. Taken' = Taken
      BY <1>1 DEF Taken
    <3>2. ~(k \in mLastPos + 1 .. st_size)
      BY <2>2
    <3>3. k \in 1 .. mLastPos
      BY <1>3, <2>1, <3>2
    <3> QED
      BY <1>9, <3>1, <3>3 DEF SInv, NothingSkipped
  <2> QED
    BY <1>6, <2>4, <2>6, <2>7
<1> QED
  BY <1>8, <1>9

\* The part that was read grows by the text that is split.
LEMMA PartGrows ==
  ASSUME FInv, SInv, ~ghost.cleared, pc = "send", mLastPos + Len(str) = st_size
  PROVE  Select(SubSeq(data, 1, st_size), Byte \ ghost.skipped) = Part \o str
<1> DEFINE U == Byte \ ghost.skipped
<1>1. /\ data \in Seq(Byte) /\ str \in Seq(Byte) /\ mLastPos \in Nat /\ st_size \in Nat
      /\ Len(data) \in Nat /\ Len(str) \in Nat
  BY LenProperties DEF FInv, Types
<1>2. /\ mLastPos <= st_size /\ st_size <= Len(data)
      /\ \A k \in 1 .. Len(str) : str[k] = data[mLastPos + k]
  BY <1>1 DEF FInv, Reads
<1>4. PICK read, more : /\ read = SubSeq(data, 1, mLastPos)
                        /\ more = SubSeq(data, mLastPos + 1, st_size)
  OBVIOUS
<1>5. read \in Seq(Byte)
  <2>1. \A i \in 1 .. mLastPos : data[i] \in Byte
    BY <1>1, <1>2, ElementOfSeq
  <2>2. 1 \in Int /\ mLastPos \in Int
    BY <1>1
  <2> QED
    BY <1>4, <2>1, <2>2, SubSeqProperties
<1>6. more = str
  <2>1. \A i \in mLastPos + 1 .. st_size : data[i] \in Byte
    BY <1>1, <1>2, ElementOfSeq
  <2>2. mLastPos + 1 \in Int /\ st_size \in Int
    BY <1>1
  <2>3. /\ more \in Seq(Byte)
        /\ Len(more) = IF mLastPos + 1 <= st_size THEN st_size - (mLastPos + 1) + 1 ELSE 0
        /\ \A i \in 1 .. st_size - (mLastPos + 1) + 1 :
             more[i] = data[mLastPos + 1 + i - 1]
    BY <1>4, <2>1, <2>2, SubSeqProperties
  <2>4. Len(more) = Len(str)
    BY <1>1, <2>3
  <2>5. \A i \in 1 .. Len(more) : more[i] = str[i]
    <3> SUFFICES ASSUME NEW i \in 1 .. Len(str) PROVE more[i] = str[i]
      BY <2>4
    <3>1. /\ i \in 1 .. st_size - (mLastPos + 1) + 1
          /\ mLastPos + 1 + i - 1 = mLastPos + i
      BY <1>1
    <3> QED
      BY <1>2, <2>3, <3>1
  <2> QED
    BY <1>1, <2>3, <2>4, <2>5, SeqEqual
<1>7. SubSeq(data, 1, st_size) = read \o str
  <2>1. /\ 1 \in 1 .. Len(data) + 1 /\ mLastPos \in 1 - 1 .. Len(data)
        /\ st_size \in mLastPos .. Len(data)
    BY <1>1, <1>2
  <2>2. SubSeq(data, 1, mLastPos) \o SubSeq(data, mLastPos + 1, st_size) =
          SubSeq(data, 1, st_size)
    BY <1>1, <2>1, ConcatAdjacentSubSeq
  <2> QED
    BY <1>4, <1>6, <2>2
<1>8. Select(str, U) = str
  <2>1. ASSUME NEW k \in 1 .. Len(str) PROVE str[k] \in U
    <3>1. mLastPos + k \in mLastPos + 1 .. Len(data) /\ mLastPos + k \in 1 .. Len(data)
      BY <1>1, <1>2
    <3>2. data[mLastPos + k] \notin ghost.skipped
      BY <3>1 DEF SInv, BehindIsNew
    <3>3. data[mLastPos + k] \in Byte
      BY <1>1, <3>1, ElementOfSeq
    <3> QED
      BY <1>2, <3>2, <3>3
  <2>2. str \in Seq(U)
    BY <1>1, <2>1, SeqNarrows
  <2> HIDE DEF U
  <2> QED
    BY <2>2, SelectAll
<1>9. Select(read \o str, U) = Select(read, U) \o Select(str, U)
  BY ZenonT(40), <1>1, <1>5, SelectConcat
<1>10. Part = Select(read, U)
  BY <1>4 DEF Part
<1> QED
  BY <1>7, <1>8, <1>9, <1>10

LEMMA SendKeepsSplit ==
  ASSUME IInv, FInv, SInv, SendLines
  PROVE  Numbered' /\ BehindIsNew' /\ SplitSoFar' /\ NothingSkipped'
<1>1. PICK cut : cut = Split(mLastCache \o str, newline)
  OBVIOUS
<1>2. /\ UNCHANGED <<newline, data, written>> /\ mLastPos' = st_size /\ pc = "send"
      /\ dispatched' = dispatched \o cut.lines /\ mLastCache' = cut.rest
  BY <1>1 DEF SendLines, fsVars
<1>3. /\ ghost'.overshot = (ghost.overshot \/ mLastPos + Len(str) > st_size)
      /\ ghost'.cleared = ghost.cleared /\ ghost'.skipped = ghost.skipped
      /\ ghost'.epoch = ghost.epoch
  BY DEF SendLines, IInv, EventTypes
<1>4. /\ data \in Seq(Byte) /\ str \in Seq(Byte) /\ mLastPos \in Nat /\ st_size \in Nat
      /\ Len(data) \in Nat /\ Len(str) \in Nat
  BY LenProperties DEF FInv, Types
<1>5. mLastCache \in Seq(Byte) /\ dispatched \in Seq(Seq(Byte))
  BY DEF SInv, RestTypes
<1>6. PICK text \in Seq(Byte) : text = mLastCache \o str
  BY <1>4, <1>5, ConcatProperties
<1>7. cut.lines \in Seq(Seq(Byte)) /\ cut.rest \in Seq(Byte)
  BY <1>1, <1>6, SplitTypes
<1>8. Numbered'
  BY <1>2, <1>3 DEF SInv, Numbered
<1>9. mLastPos < st_size
  BY <1>2 DEF SInv, Forward
<1>10. BehindIsNew'
  <2> SUFFICES ASSUME ~ghost.cleared, NEW k \in st_size + 1 .. Len(data)
               PROVE  data[k] \notin ghost.skipped
    BY <1>2, <1>3 DEF BehindIsNew
  <2>1. k \in mLastPos + 1 .. Len(data)
    BY <1>4, <1>9
  <2> QED
    BY <2>1 DEF SInv, BehindIsNew
<1>11. ghost.epoch \in 0 .. Len(dispatched) /\ Len(dispatched) \in Nat
  BY <1>5, LenProperties DEF SInv, SplitSoFar
<1>12. ghost'.epoch \in 0 .. Len(dispatched')
  <2>1. Len(dispatched') = Len(dispatched) + Len(cut.lines) /\ Len(cut.lines) \in Nat
    BY <1>2, <1>5, <1>7, ConcatProperties, LenProperties
  <2> QED
    BY <1>3, <1>11, <2>1
<1>13. Sent' = Sent \o cut.lines
  <2>1. PICK W, d, l, e : /\ W = Seq(Byte) /\ d = dispatched /\ l = cut.lines
                          /\ e = ghost.epoch
    OBVIOUS
  <2>2. d \in Seq(W) /\ l \in Seq(W) /\ e \in 0 .. Len(d)
    BY <1>5, <1>7, <1>11, <2>1
  <2>3. SubSeq(d \o l, e + 1, Len(d \o l)) = SubSeq(d, e + 1, Len(d)) \o l
    BY ZenonT(40), <2>2, SuffixOfConcat
  <2> QED
    BY <1>2, <1>3, <2>1, <2>3 DEF Sent
<1>14. SplitSoFar'
  <2> SUFFICES ASSUME ~ghost'.cleared, ~ghost'.overshot
               PROVE  /\ Split(Part', newline').lines = Sent'
                      /\ Split(Part', newline').rest = mLastCache'
    BY <1>12 DEF SplitSoFar
  <2>1. ~ghost.cleared /\ ~ghost.overshot
    BY <1>3
  <2>2. mLastPos + Len(str) = st_size
    <3>1. st_size <= mLastPos + Len(str)
      BY <1>2, <2>1 DEF FInv, Reads
    <3>2. ~(mLastPos + Len(str) > st_size)
      BY <1>3
    <3> QED
      BY <1>4, <3>1, <3>2
  <2>3. Part' = Part \o str
    <3>1. Select(SubSeq(data, 1, st_size), Byte \ ghost.skipped) = Part \o str
      BY <1>2, <2>1, <2>2, PartGrows
    <3> QED
      BY <1>2, <1>3, <3>1 DEF Part
  <2>4. Split(Part, newline).lines = Sent /\ Split(Part, newline).rest = mLastCache
    BY <2>1 DEF SInv, SplitSoFar
  <2>5. Part \in Seq(Byte)
    <3>1. \A i \in 1 .. mLastPos : data[i] \in Byte
      BY <1>4, <2>1, ElementOfSeq DEF FInv
    <3>2. SubSeq(data, 1, mLastPos) \in Seq(Byte)
      BY <1>4, <3>1, SubSeqProperties
    <3>3. Part \in Seq(Byte \cap (Byte \ ghost.skipped))
      BY <3>2, SelectType DEF Part
    <3>4. Byte \cap (Byte \ ghost.skipped) \subseteq Byte
      OBVIOUS
    <3> QED
      BY <3>3, <3>4, SeqMonotonic
  <2>6. /\ Split(Part \o str, newline).lines = Split(Part, newline).lines \o cut.lines
        /\ Split(Part \o str, newline).rest = cut.rest
    <3>1. SplitsPiecewise(Part, str, newline)
      BY <1>4, <2>5, SplitConcat
    <3> QED
      BY <1>1, <2>4, <3>1 DEF SplitsPiecewise
  <2> QED
    BY <1>2, <1>13, <2>3, <2>4, <2>6
<1>15. NothingSkipped'
  <2> SUFFICES ASSUME ~ghost.cleared, NEW k \in 1 .. st_size,
                      data[k] \notin ghost.skipped \cup newline
               PROVE  data[k] \in Taken'
    <3>1. ~ghost.cleared => st_size <= Len(data)
      BY <1>2 DEF FInv, Reads
    <3> QED
      BY <1>2, <1>3, <3>1 DEF NothingSkipped
  <2>1. /\ ToSet(cut.lines) \subseteq ToSet(dispatched')
        /\ ToSet(dispatched) \subseteq ToSet(dispatched')
    <3>1. PICK W, d, l : W = Seq(Byte) /\ d = dispatched /\ l = cut.lines
      OBVIOUS
    <3>2. d \in Seq(W) /\ l \in Seq(W)
      BY <1>5, <1>7, <3>1
    <3>3. ToSet(d \o l) = ToSet(d) \cup ToSet(l)
      BY <3>2, ToSetConcat
    <3> QED
      BY <1>2, <3>1, <3>3
  <2>2. ASSUME data[k] \in ToSet(text) PROVE data[k] \in Taken'
    <3>1. PICK i \in 1 .. Len(text) : text[i] = data[k]
      BY <2>2, LenProperties DEF ToSet
    <3>2. \/ text[i] \in ToSet(cut.rest)
          \/ \E line \in ToSet(cut.lines) : text[i] \in ToSet(line)
      BY <1>1, <1>6, <3>1, SplitKeeps
    <3> QED
      BY <1>2, <2>1, <3>1, <3>2 DEF Taken
  <2>3. ToSet(text) = ToSet(mLastCache) \cup ToSet(str)
    BY <1>4, <1>5, <1>6, ToSetConcat
  <2>4. CASE k <= mLastPos
    <3>1. k \in 1 .. mLastPos
      BY <1>4, <2>4
    <3>2. data[k] \in Taken
      BY <3>1 DEF SInv, NothingSkipped
    <3>3. CASE data[k] \in ToSet(mLastCache)
      BY <2>2, <2>3, <3>3
    <3>4. CASE \E line \in ToSet(dispatched) : data[k] \in ToSet(line)
      BY <2>1, <3>4 DEF Taken
    <3> QED
      BY <3>2, <3>3, <3>4 DEF Taken
  <2>5. CASE ~(k <= mLastPos)
    <3>1. /\ st_size <= mLastPos + Len(str)
          /\ \A i \in 1 .. Len(str) : str[i] = data[mLastPos + i]
      BY <1>2 DEF FInv, Reads
    <3>2. k - mLastPos \in 1 .. Len(str) /\ mLastPos + (k - mLastPos) = k
      BY <1>4, <2>5, <3>1
    <3>3. data[k] \in ToSet(str)
      BY <1>4, <3>1, <3>2, LenProperties DEF ToSet
    <3> QED
      BY <2>2, <2>3, <3>3
  <2> QED
    BY <2>4, <2>5
<1> QED
  BY <1>8, <1>10, <1>14, <1>15

LEMMA InitSends == Init => SInv
<1> SUFFICES ASSUME Init PROVE SInv
  OBVIOUS
<1>1. /\ newline \subseteq Byte /\ clears = 0 /\ events = 0 /\ init = "enum"
      /\ fd = "closed" /\ mLastCache = <<>> /\ dispatched = <<>> /\ pc = "wait"
      /\ mLastPos = 0 /\ written \in 0 .. 1 /\ data = [k \in 1 .. written |-> k]
      /\ ghost.skipped = {} /\ ghost.epoch = 0 /\ ~ghost.cleared
      /\ faults = 0
  BY DEF Init
<1>2. <<>> \in Seq(Byte) /\ <<>> \in Seq(Seq(Byte)) /\ Len(<<>>) = 0
  BY EmptySeq
<1>3. RestTypes /\ Forward
  BY <1>1, <1>2 DEF RestTypes, Forward
<1>4. Len(data) = written /\ \A k \in 1 .. written : data[k] = k
  BY <1>1
<1>5. Numbered
  BY <1>1, <1>4 DEF Numbered
<1>6. BehindIsNew
  BY <1>1, <1>4 DEF BehindIsNew
<1>7. SplitSoFar
  <2>1. Split(Part, newline).lines = <<>> /\ Split(Part, newline).rest = <<>>
    BY <1>1, NothingRead, SplitEmpty
  <2>2. Sent = <<>>
    BY <1>1, <1>2, SubSeqEmpty DEF Sent
  <2> QED
    BY <1>1, <1>2, <2>1, <2>2 DEF SplitSoFar
<1>8. NothingSkipped
  BY <1>1, <1>4 DEF NothingSkipped
<1> QED
  BY <1>3, <1>5, <1>6, <1>7, <1>8 DEF SInv

LEMMA SplitKept == IInv /\ FInv /\ SInv /\ [Next]_vars => SInv'
<1> SUFFICES ASSUME IInv, FInv, SInv, [Next]_vars PROVE SInv'
  OBVIOUS
<1>1. CASE \/ Create \/ MonitorPath \/ RegisterCallback \/ OnFileEvent
           \/ RestThrownAway \/ StatFound \/ Open \/ ReadChunk \/ UNCHANGED vars
  <2>1. Quiet
    BY <1>1 DEF Create, MonitorPath, RegisterCallback, OnFileEvent,
       RestThrownAway, StatFound, Open, ReadChunk, vars, fsVars, infoVars, WriterOnly, Quiet, IInv, EventTypes
  <2> QED
    BY <2>1, QuietKeeps, RestTypesKept, ForwardKept DEF SInv
<1>2. CASE AppendByte
  BY <1>2, AppendKeepsSplit, RestTypesKept, ForwardKept DEF SInv
<1>3. CASE Truncate \/ Rename \/ Delete
  BY <1>3, ClearKeepsSplit, RestTypesKept, ForwardKept DEF SInv
<1>4. CASE FileEnumProc
  BY <1>4, EnumKeepsSplit, RestTypesKept, ForwardKept DEF SInv
<1>5. CASE StatFailed
  BY <1>5, ForgetKeepsSplit, RestTypesKept, ForwardKept DEF SInv
<1>6. CASE OpenFailed
  BY <1>6, OpenFailedKeepsSplit, RestTypesKept, ForwardKept DEF SInv
<1>7. CASE SendLines
  BY <1>7, SendKeepsSplit, RestTypesKept, ForwardKept DEF SInv
<1> QED
  BY <1>1, <1>2, <1>3, <1>4, <1>5, <1>6, <1>7 DEF Next, Writer, NotifyThread

LEMMA SplitHolds == Spec => [](IInv /\ FInv /\ SInv)
BY InitInv, InitReads, InitSends, InvKept, ReadsKept, SplitKept, PTL DEF Spec

(***************************************************************************)
(* TypeCorrect: the file, its entry in mLogCache and what was sent keep    *)
(* their types, and an entry that is erased begins from the first byte.    *)
(***************************************************************************)
THEOREM TypeCorrect == Spec => []TypeOK
<1>1. IInv /\ FInv /\ SInv => TypeOK
  BY DEF IInv, EventTypes, FInv, Types, Entries, SInv, RestTypes, TypeOK
<1> QED
  BY SplitHolds, <1>1, PTL

\* The lines of the split of a file are its complete lines, in its order.
LEMMA SentInOrder ==
  ASSUME IInv, FInv, SInv
  PROVE  WholeLinesInOrder
<1> SUFFICES ASSUME ~ghost.cleared, ~ghost.overshot
             PROVE  /\ ToSet(Sent) = CompleteLines(Part)
                    /\ \A k \in 1 .. Len(Sent) - 1 : Sent[k][1] < Sent[k + 1][1]
  BY DEF WholeLinesInOrder, Sent
<1>1. Split(Part, newline).lines = Sent
  BY DEF SInv, SplitSoFar
<1>2. PICK read : read = SubSeq(data, 1, mLastPos)
  OBVIOUS
<1>3. /\ data \in Seq(Byte) /\ mLastPos \in Nat /\ mLastPos <= Len(data)
      /\ Len(data) \in Nat /\ written \in Nat
  BY LenProperties DEF FInv, Types
<1>4. \A i \in 1 .. mLastPos : data[i] \in Byte
  BY <1>3, ElementOfSeq
<1>5. /\ read \in Seq(Byte) /\ Len(read) = mLastPos
      /\ \A i \in 1 .. mLastPos : read[i] = data[i]
  <2>1. /\ read \in Seq(Byte)
        /\ Len(read) = IF 1 <= mLastPos THEN mLastPos - 1 + 1 ELSE 0
        /\ \A i \in 1 .. mLastPos - 1 + 1 : read[i] = data[1 + i - 1]
    BY <1>2, <1>3, <1>4, SubSeqProperties
  <2>2. mLastPos - 1 + 1 = mLastPos /\ \A i \in 1 .. mLastPos : 1 + i - 1 = i
    BY <1>3
  <2> QED
    BY <1>3, <2>1, <2>2
<1>6. Part \in Seq(Byte)
  <2>1. Part \in Seq(Byte \cap (Byte \ ghost.skipped))
    BY <1>2, <1>5, SelectType DEF Part
  <2>2. Byte \cap (Byte \ ghost.skipped) \subseteq Byte
    OBVIOUS
  <2> QED
    BY <2>1, <2>2, SeqMonotonic
<1>7. Byte \subseteq Nat
  BY DEF Byte
<1>8. Increasing(read)
  <2>1. \A i \in 1 .. mLastPos : data[i] = (written - Len(data)) + i
    BY <1>3 DEF SInv, Numbered
  <2>2. ASSUME NEW i \in 1 .. mLastPos, NEW j \in 1 .. mLastPos, i < j
        PROVE  read[i] < read[j]
    <3>1. read[i] = (written - Len(data)) + i /\ read[j] = (written - Len(data)) + j
      BY <1>5, <2>1
    <3> QED
      BY <1>3, <2>2, <3>1
  <2> QED
    BY <1>5, <2>2 DEF Increasing
<1>9. Increasing(Part)
  BY <1>2, <1>5, <1>7, <1>8, SelectIncreases DEF Part
<1>10. Ordered(Split(Part, newline), ToSet(Part))
  BY <1>6, <1>7, <1>9, SplitOrders
<1>11. \A k, l \in 1 .. Len(Sent) : k < l => Sent[k][1] < Sent[l][1]
  BY <1>1, <1>10 DEF Ordered
<1>12. Sent \in Seq(Seq(Byte)) /\ Len(Sent) \in Nat
  <2>1. Split(Part, newline).lines \in Seq(Seq(Byte))
    BY <1>6, SplitTypes
  <2> QED
    BY <1>1, <2>1, LenProperties
<1>13. \A k \in 1 .. Len(Sent) - 1 : Sent[k][1] < Sent[k + 1][1]
  <2> SUFFICES ASSUME NEW k \in 1 .. Len(Sent) - 1 PROVE Sent[k][1] < Sent[k + 1][1]
    OBVIOUS
  <2>1. k \in 1 .. Len(Sent) /\ k + 1 \in 1 .. Len(Sent) /\ k < k + 1
    BY <1>12
  <2> QED
    BY <1>11, <2>1
<1>14. ToSet(Sent) = CompleteLines(Part)
  <2>1. \A x : x \in ToSet(Split(Part, newline).lines) <=>
                 \E i, j : Run(Part, newline, i, j) /\ x = SubSeq(Part, i, j)
    BY <1>6, SplitFindsRuns
  <2>2. \A x : x \in CompleteLines(Part) <=>
                 \E i, j : Run(Part, newline, i, j) /\ x = SubSeq(Part, i, j)
    BY <1>6, LineIsRun
  <2> QED
    BY <1>1, <2>1, <2>2
<1> QED
  BY <1>13, <1>14

(***************************************************************************)
(* FileIsSent: whatever is written while the agent reads, and however the  *)
(* reads cut the file into buffers and the events into handlers, every     *)
(* byte up to mLastPos is sent or cached, but for those that were there at *)
(* start-up and those an fopen did not get at, and as long as no fread     *)
(* goes past st_size the lines sent are the complete lines of what is left *)
(* of the file without those, all of them, once and in order               *)
(* (LogMonitor.cpp:23-62, 148-214).                                        *)
(***************************************************************************)
THEOREM FileIsSent == Spec => []SentIsTheFile
<1>1. IInv /\ FInv /\ SInv => SentIsTheFile
  BY SentInOrder DEF SInv, SentIsTheFile
<1> QED
  BY SplitHolds, <1>1, PTL

=============================================================================
