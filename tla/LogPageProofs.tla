--------------------------- MODULE LogPageProofs ---------------------------
(***************************************************************************)
(* What holds of a log page for any number of lines and operations and any *)
(* filters, with or without a push that meets an operation; and of the     *)
(* rules it filters with, for vectors of any length, rules of any size and *)
(* any script: what the scan knows of the brackets while it replaces them, *)
(* and which scripts it compiles.                                          *)
(***************************************************************************)
EXTENDS MCPages, SequenceFacts, TLAPS

USE LogPageConstants DEF LogPageConstants

-----------------------------------------------------------------------------
(* LogView ends only in the middle of a push and of an operation.          *)

Statements == {"idle", "append", "input", "count", "move", "cut", "cache"}

\* A push and an operation that are both going on have met.
MetIsNoted == pc # "idle" /\ ui # "idle" => ~alone

\* Only a clearing in progress leaves the position behind the end of the text.
PosInside == ui \notin {"clearShown", "clearPos"} => mLastPos <= Len(mContent)

Lengths == mContent \in Seq(Nat) /\ mLastPos \in Nat /\ pushed \in Nat

Booleans == up \in BOOLEAN /\ alone \in BOOLEAN

EndInv == Lengths /\ Booleans /\ MetIsNoted /\ PosInside /\ EndsOnlyWhenMet

LEMMA EndInit == Init => EndInv
  BY DEF Init, EndInv, Lengths, Booleans, MetIsNoted, PosInside, EndsOnlyWhenMet

\* Lengths and positions, where a statement moves them.
LEMMA LengthsKept == ASSUME Lengths, PosInside, [Next]_vars PROVE Lengths' /\ PosInside'
<1>1. CASE Count
  BY <1>1 DEF Count, Lengths, PosInside, text, interface
<1>2. CASE AppendContent
  <2>1. Lengths' BY <1>2 DEF AppendContent, Lengths
  <2>2. Len(mContent') = Len(mContent) + 1 BY <1>2 DEF AppendContent, Lengths
  <2>3. Len(mContent) \in Nat BY DEF Lengths
  <2>. QED BY <1>2, <2>1, <2>2, <2>3 DEF AppendContent, Lengths, PosInside, interface
<1>3. CASE Input \/ CountShown \/ Cut \/ PushToCache
  BY <1>3 DEF Input, CountShown, Cut, PushToCache, Lengths, PosInside, text, interface
<1>4. CASE MoveLastPos
  <2>1. Len(mContent) \in Nat BY DEF Lengths
  <2>. QED BY <1>4, <2>1 DEF MoveLastPos, Lengths, PosInside, interface
<1>5. CASE EnterFilter \/ Compile \/ ClearResult \/ Refilter \/ ClearCache \/ SetText
  BY <1>5 DEF EnterFilter, Begin, Compile, ClearResult, Refilter, ClearCache, SetText,
              Lengths, PosInside, text, capture
<1>6. CASE SetPos
  <2>1. Len(mContent) \in Nat BY DEF Lengths
  <2>. QED BY <1>6, <2>1 DEF SetPos, Lengths, PosInside, capture
<1>7. CASE Recount \/ EnterClear
  BY <1>7 DEF Recount, Ends, EnterClear, Begin, Lengths, PosInside, text, capture
<1>8. CASE ClearContent
  BY <1>8 DEF ClearContent, Lengths, PosInside, capture
<1>9. CASE ClearShown
  BY <1>9 DEF ClearShown, Lengths, PosInside, capture
<1>10. CASE ClearPos
  <2>1. Len(mContent) \in Nat BY DEF Lengths
  <2>. QED BY <1>10, <2>1 DEF ClearPos, Lengths, PosInside, capture
<1>11. CASE ClearView
  BY <1>11 DEF ClearView, Ends, Lengths, PosInside, text, capture
<1>12. CASE TimerCache \/ Crash \/ UNCHANGED vars
  BY <1>12 DEF TimerCache, Crash, vars, Lengths, PosInside, text, capture, interface
<1>. QED
  BY <1>1, <1>2, <1>3, <1>4, <1>5, <1>6, <1>7, <1>8, <1>9, <1>10, <1>11, <1>12
  DEF Next, PushLog, Interface, SetFilter, ClearLogView

\* What both threads use at the same time, they use in the middle of both.
LEMMA CrashIsMet == ASSUME PosInside, Lengths, MetIsNoted, Crash PROVE ~alone
<1>1. CASE Race
  <2>1. pc # "idle"
    BY <1>1 DEF Race, Writes, Uses
  <2>2. ui # "idle"
    BY <1>1 DEF Race, Writes, Uses
  <2>. QED BY <2>1, <2>2 DEF MetIsNoted
<1>2. CASE pc = "input" /\ OutOfRange
  <2>1. ui # "idle" BY <1>2 DEF OutOfRange, PosInside, Lengths
  <2>. QED BY <1>2, <2>1 DEF MetIsNoted
<1>. QED BY <1>1, <1>2 DEF Crash

\* Pushes and operations that begin while the other is going on are noted.
LEMMA MetKept ==
  ASSUME EndInv, [Next]_vars PROVE Booleans' /\ MetIsNoted' /\ EndsOnlyWhenMet'
<1>. USE DEF EndInv, Booleans, MetIsNoted, EndsOnlyWhenMet
<1>1. CASE Count
  <2>1. up' = up /\ ui' = ui /\ up
    BY <1>1 DEF Count, interface
  <2>2. CASE ui = "idle" /\ alone
    BY <1>1, <2>1, <2>2 DEF Count
  <2>3. CASE ~(ui = "idle" /\ alone)
    <3>1. alone' = FALSE BY <1>1, <2>3 DEF Count
    <3>. QED BY <2>1, <3>1
  <2>. QED BY <2>2, <2>3
<1>2. CASE AppendContent \/ Input \/ CountShown \/ MoveLastPos \/ Cut \/ PushToCache
  <2>1. up' = up /\ alone' = alone /\ ui' = ui /\ pc # "idle"
    BY <1>2 DEF AppendContent, Input, CountShown, MoveLastPos, Cut, PushToCache,
                interface, ghosts
  <2>. QED BY <2>1
<1>3. CASE EnterFilter \/ EnterClear
  <2>1. up' = up /\ pc' = pc /\ alone' = (pc = "idle") /\ up
    BY <1>3 DEF EnterFilter, EnterClear, Begin, capture
  <2>. QED BY <2>1
<1>4. CASE Recount \/ ClearView
  <2>1. up' = up /\ ui' = "idle" /\ alone' = TRUE /\ up
    BY <1>4 DEF Recount, ClearView, Ends
  <2>. QED BY <2>1
<1>5. CASE \/ Compile \/ ClearResult \/ Refilter \/ ClearCache \/ SetText \/ SetPos
          \/ ClearContent \/ ClearShown \/ ClearPos
  <2>1. up' = up /\ alone' = alone /\ pc' = pc /\ ui # "idle"
    BY <1>5 DEF Compile, ClearResult, Refilter, ClearCache, SetText, SetPos,
                ClearContent, ClearShown, ClearPos, capture, ghosts
  <2>. QED BY <2>1
<1>6. CASE TimerCache \/ UNCHANGED vars
  <2>1. up' = up /\ alone' = alone /\ pc' = pc /\ ui' = ui
    BY <1>6 DEF TimerCache, vars, capture, interface, ghosts
  <2>. QED BY <2>1
<1>7. CASE Crash
  <2>1. up' = FALSE /\ alone' = alone /\ pc' = pc /\ ui' = ui
    BY <1>7 DEF Crash, capture, interface, ghosts
  <2>2. ~alone BY <1>7, CrashIsMet
  <2>. QED BY <2>1, <2>2
<1>. QED
  BY <1>1, <1>2, <1>3, <1>4, <1>5, <1>6, <1>7
  DEF Next, PushLog, Interface, SetFilter, ClearLogView

(***************************************************************************)
(* LogView ends (an exception of substr, a string altered under its        *)
(* reader) only while a push and an operation of the user interface are    *)
(* both going on: an earlier meeting leaves no position outside the text.  *)
(***************************************************************************)
THEOREM NoEndAlone == Spec => []EndsOnlyWhenMet
<1>1. EndInv /\ [Next]_vars => EndInv'
  BY LengthsKept, MetKept DEF EndInv
<1>. QED BY <1>1, EndInit, PTL DEF Spec, EndInv

-----------------------------------------------------------------------------
(* The text keeps what was pushed.                                         *)

KeptInv == Lengths /\ pc \in Statements /\ NothingThrownAway

LEMMA KeptStep ==
  ASSUME KeptInv, Lengths', [Next]_vars PROVE KeptInv'
<1>. USE DEF KeptInv, Lengths, Statements, NothingThrownAway, Last
<1>1. CASE Count
  BY <1>1 DEF Count, text
<1>2. CASE AppendContent
  <2>1. /\ mContent' = Append(mContent, pushed) /\ pushed' = pushed
        /\ pc = "append" /\ pc' = "input"
    BY <1>2 DEF AppendContent
  <2>2. PICK n \in Nat : n = Len(mContent)
    OBVIOUS
  <2>3. Len(mContent') = n + 1 /\ mContent'[n + 1] = pushed
    BY <2>1, <2>2
  <2>4. \A k \in 1 .. n : mContent'[k] = mContent[k]
    BY <2>1, <2>2
  <2>5. ASSUME NEW k \in 1 .. n PROVE mContent'[k + 1] = mContent'[k] + 1
    <3>1. CASE k = n
      <4>1. mContent # <<>> BY <3>1, <2>2
      <4>2. mContent[n] = pushed - 1 BY <4>1, <2>1, <2>2
      <4>3. mContent'[n] = mContent[n] BY <2>4, <3>1
      <4>. QED BY <3>1, <4>2, <4>3, <2>3
    <3>2. CASE k < n
      <4>1. k \in 1 .. n - 1 /\ k + 1 \in 1 .. n BY <3>2
      <4>2. mContent[k + 1] = mContent[k] + 1 BY <4>1, <2>2
      <4>. QED BY <4>1, <4>2, <2>4
    <3>. QED BY <3>1, <3>2
  <2>6. \A k \in 1 .. Len(mContent') - 1 : mContent'[k + 1] = mContent'[k] + 1
    BY <2>5, <2>3
  <2>. QED BY <2>1, <2>3, <2>6
<1>3. CASE Input \/ CountShown \/ MoveLastPos \/ Cut \/ PushToCache
  BY <1>3 DEF Input, CountShown, MoveLastPos, Cut, PushToCache, text
<1>4. CASE SetFilter
  BY <1>4 DEF SetFilter, EnterFilter, Begin, Compile, ClearResult, Refilter,
              ClearCache, SetText, SetPos, Recount, Ends, text, capture
<1>5. CASE EnterClear \/ ClearShown \/ ClearPos \/ ClearView
  BY <1>5 DEF EnterClear, Begin, ClearShown, ClearPos, ClearView, Ends, text, capture
<1>6. CASE ClearContent
  BY <1>6 DEF ClearContent, capture
<1>7. CASE TimerCache \/ Crash \/ UNCHANGED vars
  BY <1>7 DEF TimerCache, Crash, vars, text, capture
<1>. QED
  BY <1>1, <1>2, <1>3, <1>4, <1>5, <1>6, <1>7 DEF Next, PushLog, Interface, ClearLogView

(***************************************************************************)
(* Whatever is filtered, cleared or pushed at the same time, the text is   *)
(* an unbroken run of the lines that were pushed, up to the last one.      *)
(***************************************************************************)
THEOREM TextIsKept == Spec => []NothingThrownAway
<1>1. Init => KeptInv
  BY DEF Init, KeptInv, Lengths, Statements, NothingThrownAway
<1>2. EndInv /\ KeptInv /\ [Next]_vars => EndInv' /\ KeptInv'
  BY LengthsKept, MetKept, KeptStep DEF EndInv
<1>. QED BY <1>1, <1>2, EndInit, PTL DEF Spec, KeptInv

-----------------------------------------------------------------------------
(* The page agrees with its text.                                          *)

(***************************************************************************)
(* Types, with what bounds them: a line is in the text only after it was   *)
(* counted, and the counts are cleared together.                           *)
(***************************************************************************)
Waiting == IF pc = "append" THEN 1 ELSE 0

PageTypes ==
  /\ mContent \in Lines /\ mFilterResult \in Lines /\ mCacheContent \in Lines
  /\ view \in Lines /\ piece \in Lines
  /\ mRuleSet \in Filter /\ mRuleStr \in Filter /\ newFilter \in Filter
  /\ mLastPos \in 0 .. MaxLine /\ lastShow \in Nat
  /\ mTotalCount \in Nat /\ mShowCount \in Nat
  /\ pushed \in 0 .. MaxLine /\ uiOps \in 0 .. MaxUiOps
  /\ disturbed \subseteq {"lines", "total"}
  /\ Len(mContent) + Waiting <= pushed /\ mTotalCount <= pushed

\* The rules are those that were entered, but for the step between the two.
RulesInForce == mRuleStr = IF ui = "compile" THEN newFilter ELSE mRuleSet

\* Between operations of the interface nothing but pushes goes on.
IdleIsAlone == ui = "idle" => alone

\* Where a push that no operation has met stands.
PushPhase ==
  /\ pc \in {"idle", "append"} =>
       /\ mLastPos = Len(mContent) /\ mFilterResult = Matching(mRuleSet, mContent)
       /\ view \o mCacheContent = mFilterResult
  /\ pc = "input" =>
       /\ mLastPos + 1 = Len(mContent)
       /\ mFilterResult = Matching(mRuleSet, SubSeq(mContent, 1, mLastPos))
       /\ view \o mCacheContent = mFilterResult /\ lastShow = Len(mFilterResult)
  /\ pc \in {"count", "move", "cut"} =>
       /\ mFilterResult = Matching(mRuleSet, mContent)
       /\ lastShow <= Len(mFilterResult)
       /\ view \o mCacheContent = SubSeq(mFilterResult, 1, lastShow)
  /\ pc = "cut" => mLastPos = Len(mContent)
  /\ pc = "cache" =>
       /\ mLastPos = Len(mContent) /\ mFilterResult = Matching(mRuleSet, mContent)
       /\ (view \o mCacheContent) \o piece = mFilterResult
  /\ mShowCount = IF pc = "count" THEN lastShow ELSE Len(mFilterResult)

\* Where an operation that no push has met stands.
OperationPhase ==
  /\ ui = "refilter" => mFilterResult = <<>>
  /\ ui \in {"clearCache", "setText", "setPos", "recount"} =>
       mFilterResult = Matching(mRuleSet, mContent)
  /\ ui \in {"setText", "setPos", "recount", "clearContent", "clearShown", "clearPos",
             "clearView"} => mCacheContent = <<>>
  /\ ui \in {"setPos", "recount"} => view = mFilterResult
  /\ ui = "recount" => mLastPos = Len(mContent)
  /\ ui \in {"clearShown", "clearPos", "clearView"} => mContent = <<>>
  /\ ui \in {"clearPos", "clearView"} => mFilterResult = <<>>
  /\ ui = "clearView" => mLastPos = 0

Clearing == {"clearContent", "clearShown", "clearPos", "clearView"}

TotalIsRight ==
  "total" \notin disturbed /\ ui \notin Clearing => mTotalCount = Len(mContent) + Waiting

Agreement ==
  /\ RulesInForce /\ IdleIsAlone
  /\ ui = "idle" /\ "lines" \notin disturbed => PushPhase
  /\ ui # "idle" /\ alone => OperationPhase
  /\ TotalIsRight

-----------------------------------------------------------------------------
(* What the filter makes of a text.                                        *)

LEMMA MatchingFacts ==
  ASSUME NEW f
  PROVE  /\ Matching(f, <<>>) = <<>>
         /\ \A s \in Lines : Matching(f, s) \in Lines
         /\ \A s \in Lines, t \in Lines :
              Matching(f, s \o t) = Matching(f, s) \o Matching(f, t)
<1> DEFINE P == {line \in 1 .. MaxLine : Passes(f, line)}
<1>1. \A s : Matching(f, s) = Select(s, P)
  BY DEF Matching
<1> HIDE DEF P
<1>2. Matching(f, <<>>) = <<>>
  BY <1>1, SelectEmpty
<1>3. ASSUME NEW s \in Lines PROVE Matching(f, s) \in Lines
  <2>1. Select(s, P) \in Seq((1 .. MaxLine) \cap P)
    BY SelectType DEF Lines
  <2>2. (1 .. MaxLine) \cap P \subseteq 1 .. MaxLine
    OBVIOUS
  <2> QED
    BY <1>1, <2>1, <2>2, SeqMonotonic DEF Lines
<1>4. ASSUME NEW s \in Lines, NEW t \in Lines
      PROVE  Matching(f, s \o t) = Matching(f, s) \o Matching(f, t)
  <2>1. Select(s \o t, P) = Select(s, P) \o Select(t, P)
    BY SelectConcat DEF Lines
  <2>2. /\ Matching(f, s \o t) = Select(s \o t, P)
        /\ Matching(f, s) = Select(s, P) /\ Matching(f, t) = Select(t, P)
    BY <1>1, Zenon
  <2> QED
    BY <2>1, <2>2
<1> QED
  BY <1>2, <1>3, <1>4

LEMMA InputTyped ==
  ASSUME NEW f, NEW s \in Lines, NEW p \in Nat
  PROVE  InputLog(s, p, f) \in Lines
<1>1. SubSeq(s, p + 1, Len(s)) \in Lines
  BY PieceTyped DEF Lines
<1> QED
  BY <1>1, MatchingFacts DEF InputLog

\* What was filtered up to a position, and the rest, is the text filtered.
LEMMA InputCompletes ==
  ASSUME NEW f, NEW s \in Lines, NEW p \in 0 .. Len(s)
  PROVE  Matching(f, SubSeq(s, 1, p)) \o InputLog(s, p, f) = Matching(f, s)
<1>1. SubSeq(s, 1, p) \o SubSeq(s, p + 1, Len(s)) = s
  BY CutAt DEF Lines
<1>2. SubSeq(s, 1, p) \in Lines
  <2>1. PICK n \in Nat : n = Len(s)
    BY LenProperties DEF Lines
  <2>2. \A k \in 1 .. p : s[k] \in 1 .. MaxLine
    BY <2>1, ElementOfSeq DEF Lines
  <2> QED
    BY <2>1, <2>2, SubSeqProperties DEF Lines
<1>3. SubSeq(s, p + 1, Len(s)) \in Lines
  <2>1. p \in Nat
    BY LenProperties DEF Lines
  <2> QED
    BY <2>1, PieceTyped DEF Lines
<1>4. PICK a \in Lines, b \in Lines :
        a = SubSeq(s, 1, p) /\ b = SubSeq(s, p + 1, Len(s))
  BY <1>2, <1>3
<1>5. Matching(f, a \o b) = Matching(f, a) \o Matching(f, b)
  BY MatchingFacts
<1> QED
  BY <1>1, <1>4, <1>5 DEF InputLog

LEMMA InputFromStart ==
  ASSUME NEW f, NEW s \in Lines
  PROVE  <<>> \o InputLog(s, 0, f) = Matching(f, s)
<1>1. SubSeq(s, 0 + 1, Len(s)) = s
  BY SubSeqFull DEF Lines
<1>2. Matching(f, s) \in Lines
  BY MatchingFacts
<1> QED
  BY <1>1, <1>2, ConcatEmptySeq DEF InputLog, Lines

-----------------------------------------------------------------------------
(* Types.                                                                  *)

LEMMA PageTypesInit == Init => PageTypes /\ Agreement
<1> SUFFICES ASSUME Init PROVE PageTypes /\ Agreement
  OBVIOUS
<1>1. <<>> \in Lines /\ Len(<<>>) = 0 /\ <<>> \o <<>> = <<>>
  BY EmptySeq, ConcatEmptySeq DEF Lines
<1>2. PageTypes
  BY <1>1 DEF Init, PageTypes, Waiting
<1>3. PushPhase
  BY <1>1, MatchingFacts DEF Init, PushPhase
<1> QED
  BY <1>1, <1>2, <1>3 DEF Init, Agreement, RulesInForce, IdleIsAlone, TotalIsRight,
     Waiting

LEMMA PageTypesKept == ASSUME PageTypes, [Next]_vars PROVE PageTypes'
<1> DEFINE C == Len(mContent)
<1>0. C \in Nat /\ Len(mFilterResult) \in Nat /\ C <= MaxLine
  BY LenProperties DEF PageTypes, Waiting, Lines
<1>1. CASE Count
  BY <1>0, <1>1 DEF Count, PageTypes, Waiting, text, shown, interface
<1>2. CASE AppendContent
  <2>1. pushed \in 1 .. MaxLine
    BY <1>0, <1>2 DEF AppendContent, PageTypes, Waiting
  <2>2. Append(mContent, pushed) \in Lines /\ Len(Append(mContent, pushed)) = C + 1
    BY <2>1, AppendProperties DEF PageTypes, Lines
  <2> QED
    BY <1>0, <1>2, <2>2 DEF AppendContent, PageTypes, Waiting, counts, shown, interface,
       ghosts
<1>3. CASE Input
  <2>1. mFilterResult \o InputLog(mContent, mLastPos, mRuleSet) \in Lines
    <3>1. InputLog(mContent, mLastPos, mRuleSet) \in Lines
      BY InputTyped DEF PageTypes
    <3> QED
      BY <3>1, ConcatProperties DEF PageTypes, Lines
  <2> QED
    BY <1>3, <2>1 DEF Input, PageTypes, Waiting, counts, shown, interface, ghosts
<1>4. CASE CountShown
  BY <1>0, <1>4 DEF CountShown, PageTypes, Waiting, text, shown, interface, ghosts
<1>5. CASE MoveLastPos
  BY <1>0, <1>5 DEF MoveLastPos, PageTypes, Waiting, counts, shown, interface, ghosts
<1>6. CASE Cut
  <2>1. SubSeq(mFilterResult, lastShow + 1, Len(mFilterResult)) \in Lines
    BY PieceTyped DEF PageTypes, Lines
  <2> QED
    BY <1>6, <2>1 DEF Cut, PageTypes, Waiting, text, counts, shown, interface, ghosts
<1>7. CASE PushToCache
  <2>1. mCacheContent \o piece \in Lines /\ <<>> \in Lines
    BY ConcatProperties, EmptySeq DEF PageTypes, Lines
  <2> QED
    BY <1>7, <2>1 DEF PushToCache, PageTypes, Waiting, text, counts, interface, ghosts
<1>8. CASE EnterFilter \/ EnterClear
  <2>1. <<>> \in Lines
    BY EmptySeq DEF Lines
  <2>2. uiOps' \in 0 .. MaxUiOps
    BY <1>8 DEF EnterFilter, EnterClear, Begin, PageTypes
  <2>3. newFilter' \in Filter /\ mRuleStr' \in Filter /\ mCacheContent' \in Lines
    BY <1>8, <2>1 DEF EnterFilter, EnterClear, PageTypes, shown
  <2> QED
    BY <1>8, <2>2, <2>3 DEF EnterFilter, EnterClear, PageTypes, Waiting, text, counts,
       shown, capture
<1>9. CASE Refilter
  <2>1. mFilterResult \o InputLog(mContent, 0, mRuleSet) \in Lines
    <3>1. InputLog(mContent, 0, mRuleSet) \in Lines
      BY InputTyped DEF PageTypes
    <3> QED
      BY <3>1, ConcatProperties DEF PageTypes, Lines
  <2> QED
    BY <1>9, <2>1 DEF Refilter, PageTypes, Waiting, counts, shown, capture, ghosts
<1>10. CASE ClearResult \/ ClearCache \/ Compile \/ SetText \/ SetPos
  <2>1. <<>> \in Lines
    BY EmptySeq DEF Lines
  <2> USE <1>0 DEF PageTypes, Waiting, text, counts, shown, capture, ghosts
  <2>2. CASE ClearResult
    BY <2>1, <2>2 DEF ClearResult
  <2>3. CASE ClearCache
    BY <2>1, <2>3 DEF ClearCache
  <2>4. CASE Compile
    BY <2>4 DEF Compile
  <2>5. CASE SetText
    BY <2>5 DEF SetText
  <2>6. CASE SetPos
    BY <2>6 DEF SetPos
  <2> QED
    BY <1>10, <2>2, <2>3, <2>4, <2>5, <2>6
<1>11. CASE Recount
  <2>1. disturbed' \subseteq {"lines", "total"}
    BY <1>11 DEF Recount, Ends, PageTypes
  <2> QED
    BY <1>0, <1>11, <2>1 DEF Recount, PageTypes, Waiting, text, shown, capture
<1>12. CASE ClearContent \/ ClearShown \/ ClearPos
  <2>1. <<>> \in Lines /\ Len(<<>>) = 0
    BY EmptySeq DEF Lines
  <2> USE <1>0, <2>1 DEF PageTypes, Waiting, counts, shown, capture, ghosts
  <2>2. CASE ClearContent
    BY <2>2 DEF ClearContent
  <2>3. CASE ClearShown
    BY <2>3 DEF ClearShown
  <2>4. CASE ClearPos
    BY <2>4 DEF ClearPos
  <2> QED
    BY <1>12, <2>2, <2>3, <2>4
<1>13. CASE ClearView
  <2>1. disturbed' \subseteq {"lines", "total"}
    BY <1>13 DEF ClearView, Ends, PageTypes
  <2>2. <<>> \in Lines
    BY EmptySeq DEF Lines
  <2> QED
    BY <1>13, <2>1, <2>2 DEF ClearView, PageTypes, Waiting, text, capture
<1>14. CASE TimerCache
  <2>1. view \o mCacheContent \in Lines /\ <<>> \in Lines
    BY ConcatProperties, EmptySeq DEF PageTypes, Lines
  <2> QED
    BY <1>14, <2>1 DEF TimerCache, PageTypes, Waiting, text, counts, capture, interface,
       ghosts
<1>15. CASE Crash \/ UNCHANGED vars
  BY <1>15 DEF Crash, vars, PageTypes, Waiting, text, counts, shown, capture, interface,
     ghosts
<1> QED
  BY <1>1, <1>2, <1>3, <1>4, <1>5, <1>6, <1>7, <1>8, <1>9, <1>10, <1>11, <1>12, <1>13,
     <1>14, <1>15
  DEF Next, PushLog, Interface, SetFilter, ClearLogView

PcTyped == pc \in Statements

(***************************************************************************)
(* TypeOK: every variable of a page keeps its type, the position and the   *)
(* counts stay within what was pushed, for any number of lines and any     *)
(* filters, whatever meets.                                                *)
(***************************************************************************)
THEOREM TypeCorrect == Spec => []TypeOK
<1>1. PageTypes /\ [Next]_vars => PageTypes'
  BY PageTypesKept
<1>2. Init => PcTyped
  BY DEF Init, PcTyped, Statements
<1>3. PcTyped /\ [Next]_vars => PcTyped'
  BY DEF PcTyped, Statements, Next, PushLog, Interface, SetFilter, ClearLogView, Count,
     AppendContent, Input, CountShown, MoveLastPos, Cut, PushToCache, EnterFilter,
     EnterClear, Compile, ClearResult, Refilter, ClearCache, SetText, SetPos, Recount,
     ClearContent, ClearShown, ClearPos, ClearView, TimerCache, Crash, vars, capture
<1>4. EndInv /\ [Next]_vars => EndInv'
  BY LengthsKept, MetKept DEF EndInv
<1>5. PageTypes /\ EndInv /\ PcTyped => TypeOK
  <2> SUFFICES ASSUME PageTypes, EndInv, PcTyped PROVE TypeOK
    OBVIOUS
  <2>1. mTotalCount \in 0 .. MaxLine
    BY DEF PageTypes
  <2>2. ui = "idle" => mLastPos <= Len(mContent)
    BY DEF EndInv, PosInside
  <2> QED
    BY <2>1, <2>2 DEF PageTypes, TypeOK, EndInv, Booleans, PcTyped,
       Statements
<1> QED
  BY PageTypesInit, EndInit, <1>1, <1>2, <1>3, <1>4, <1>5, PTL DEF Spec

-----------------------------------------------------------------------------
(* The page agrees: pushes that no operation meets.                        *)

LEMMA ListsTyped ==
  ASSUME PageTypes
  PROVE  /\ mContent \in Lines /\ mFilterResult \in Lines /\ mCacheContent \in Lines
         /\ view \in Lines /\ piece \in Lines /\ view \o mCacheContent \in Lines
         /\ Len(mContent) \in Nat /\ Len(mFilterResult) \in Nat
         /\ mLastPos \in Nat /\ lastShow \in Nat /\ mShowCount \in Nat
<1>1. view \o mCacheContent \in Lines
  BY ConcatProperties DEF PageTypes, Lines
<1> QED
  BY <1>1, LenProperties DEF PageTypes, Lines

LEMMA AppendKeepsPhase ==
  ASSUME PageTypes, PushPhase, AppendContent
  PROVE  PushPhase'
<1>1. pushed \in 1 .. MaxLine
  BY ListsTyped DEF AppendContent, PageTypes, Waiting
<1>2. /\ Len(mContent') = Len(mContent) + 1
      /\ SubSeq(mContent', 1, Len(mContent)) = mContent
  BY <1>1, ListsTyped, AppendProperties, PrefixOfAppend DEF AppendContent, Lines
<1>3. /\ mLastPos' = Len(mContent) /\ mFilterResult' = Matching(mRuleSet', mContent)
      /\ view' \o mCacheContent' = mFilterResult' /\ mShowCount' = Len(mFilterResult')
      /\ lastShow' = Len(mFilterResult') /\ pc' = "input"
  BY DEF AppendContent, PushPhase, shown, counts
<1> QED
  BY <1>2, <1>3 DEF PushPhase

LEMMA InputKeepsPhase ==
  ASSUME PageTypes, PushPhase, Input
  PROVE  PushPhase'
<1>1. PICK added \in Lines : added = InputLog(mContent, mLastPos, mRuleSet)
  BY ListsTyped, InputTyped
<1>2. /\ mFilterResult' = mFilterResult \o added
      /\ UNCHANGED <<mContent, mRuleSet, view, mCacheContent, mShowCount, lastShow>>
      /\ pc' = "count"
  BY <1>1 DEF Input, shown, counts
<1>3. /\ mLastPos \in 0 .. Len(mContent)
      /\ mFilterResult = Matching(mRuleSet, SubSeq(mContent, 1, mLastPos))
      /\ view \o mCacheContent = mFilterResult /\ lastShow = Len(mFilterResult)
      /\ mShowCount = Len(mFilterResult)
  BY ListsTyped DEF Input, PushPhase
<1>4. mFilterResult' = Matching(mRuleSet, mContent)
  BY <1>1, <1>2, <1>3, ListsTyped, InputCompletes
<1>5. SubSeq(mFilterResult', 1, lastShow) = mFilterResult
  BY <1>2, <1>3, ListsTyped, PrefixOfConcat DEF Lines
<1>6. lastShow <= Len(mFilterResult')
  BY <1>2, <1>3, ListsTyped, ConcatProperties, LenProperties DEF Lines
<1> QED
  BY <1>2, <1>3, <1>4, <1>5, <1>6 DEF PushPhase

LEMMA CutKeepsPhase ==
  ASSUME PageTypes, PushPhase, Cut
  PROVE  PushPhase'
<1>1. /\ piece' = SubSeq(mFilterResult, lastShow + 1, Len(mFilterResult))
      /\ UNCHANGED <<mContent, mFilterResult, mLastPos, mRuleSet, view, mCacheContent,
                     mShowCount>>
      /\ pc' = "cache" /\ pc = "cut"
  BY DEF Cut, text, counts, shown
<1>2. /\ mFilterResult = Matching(mRuleSet, mContent) /\ mLastPos = Len(mContent)
      /\ lastShow \in 0 .. Len(mFilterResult) /\ mShowCount = Len(mFilterResult)
      /\ view \o mCacheContent = SubSeq(mFilterResult, 1, lastShow)
  BY <1>1, ListsTyped DEF PushPhase
<1>3. SubSeq(mFilterResult, 1, lastShow)
        \o SubSeq(mFilterResult, lastShow + 1, Len(mFilterResult)) = mFilterResult
  BY <1>2, ListsTyped, CutAt DEF Lines
<1> QED
  BY <1>1, <1>2, <1>3 DEF PushPhase

LEMMA CacheKeepsPhase ==
  ASSUME PageTypes, PushPhase, PushToCache
  PROVE  PushPhase'
<1>1. /\ mCacheContent' = mCacheContent \o piece
      /\ UNCHANGED <<mContent, mFilterResult, mLastPos, mRuleSet, view, mShowCount>>
      /\ pc' = "idle" /\ pc = "cache"
  BY DEF PushToCache, text, counts
<1>2. /\ mFilterResult = Matching(mRuleSet, mContent) /\ mLastPos = Len(mContent)
      /\ mShowCount = Len(mFilterResult)
      /\ (view \o mCacheContent) \o piece = mFilterResult
  BY <1>1 DEF PushPhase
<1>3. view \o (mCacheContent \o piece) = (view \o mCacheContent) \o piece
  <2>1. PICK v \in Lines, m \in Lines, p \in Lines :
          v = view /\ m = mCacheContent /\ p = piece
    BY ListsTyped
  <2>2. (v \o m) \o p = v \o (m \o p)
    BY ConcatAssociative, SMTT(60) DEF Lines
  <2> QED
    BY <2>1, <2>2
<1> QED
  BY <1>1, <1>2, <1>3 DEF PushPhase

LEMMA TimerKeepsPhase ==
  ASSUME PageTypes, PushPhase, TimerCache
  PROVE  PushPhase'
<1>1. /\ view' = view \o mCacheContent /\ mCacheContent' = <<>>
      /\ UNCHANGED <<mContent, mFilterResult, mLastPos, mRuleSet, mShowCount, pc,
                     lastShow, piece>>
  BY DEF TimerCache, text, counts, capture
<1>2. view' \o mCacheContent' = view \o mCacheContent
  BY <1>1, ListsTyped, ConcatEmptySeq DEF Lines
<1> QED
  BY <1>1, <1>2 DEF PushPhase

LEMMA PushKeepsPhase ==
  ASSUME PageTypes, PushPhase, PushLog
  PROVE  PushPhase'
<1>1. CASE Count
  BY <1>1 DEF Count, PushPhase, text, shown
<1>2. CASE CountShown
  <2>1. /\ mShowCount' = mShowCount + (IF Len(mFilterResult) > lastShow
                                       THEN Len(mFilterResult) - lastShow ELSE 0)
        /\ UNCHANGED <<mContent, mFilterResult, mLastPos, mRuleSet, view, mCacheContent,
                       lastShow>>
        /\ pc = "count" /\ pc' = "move"
    BY <1>2 DEF CountShown, text, shown
  <2>2. mShowCount' = Len(mFilterResult)
    BY <2>1, ListsTyped DEF PushPhase
  <2> QED
    BY <2>1, <2>2 DEF PushPhase
<1>3. CASE MoveLastPos
  BY <1>3 DEF MoveLastPos, PushPhase, counts, shown
<1> QED
  BY <1>1, <1>2, <1>3, AppendKeepsPhase, InputKeepsPhase, CutKeepsPhase, CacheKeepsPhase
  DEF PushLog

-----------------------------------------------------------------------------
(* The page agrees: operations that no push meets.                         *)

LEMMA OperationGoesOn ==
  ASSUME PageTypes, RulesInForce, OperationPhase,
         Compile \/ ClearResult \/ Refilter \/ ClearCache \/ SetText \/ SetPos
           \/ ClearContent \/ ClearShown \/ ClearPos
  PROVE  OperationPhase'
<1> USE DEF OperationPhase, text, counts, shown, capture
<1>1. CASE Compile \/ ClearResult
  BY <1>1 DEF Compile, ClearResult
<1>2. CASE Refilter
  <2>1. mFilterResult' = Matching(mRuleSet, mContent)
    BY <1>2, ListsTyped, InputFromStart DEF Refilter
  <2> QED
    BY <1>2, <2>1 DEF Refilter
<1>3. CASE ClearCache
  BY <1>3 DEF ClearCache
<1>4. CASE SetText
  BY <1>4 DEF SetText
<1>5. CASE SetPos
  BY <1>5 DEF SetPos
<1>6. CASE ClearContent
  BY <1>6 DEF ClearContent
<1>7. CASE ClearShown
  BY <1>7 DEF ClearShown
<1>8. CASE ClearPos
  BY <1>8 DEF ClearPos
<1> QED
  BY <1>1, <1>2, <1>3, <1>4, <1>5, <1>6, <1>7, <1>8

LEMMA OperationRepairs ==
  ASSUME PageTypes, OperationPhase, pc = "idle", Recount \/ ClearView
  PROVE  PushPhase'
<1>1. CASE Recount
  <2>1. /\ UNCHANGED <<mContent, mFilterResult, mLastPos, mRuleSet, view, mCacheContent,
                       pc>>
        /\ mShowCount' = Len(mFilterResult) /\ ui = "recount"
    BY <1>1 DEF Recount, text, shown, capture
  <2>2. view \o <<>> = view
    BY ListsTyped, ConcatEmptySeq DEF Lines
  <2> QED
    BY <2>1, <2>2 DEF OperationPhase, PushPhase
<1>2. CASE ClearView
  <2>1. /\ UNCHANGED <<mContent, mFilterResult, mLastPos, mRuleSet, mCacheContent, pc>>
        /\ mShowCount' = 0 /\ view' = <<>> /\ ui = "clearView"
    BY <1>2 DEF ClearView, text, capture
  <2>2. <<>> \o <<>> = <<>> /\ Len(<<>>) = 0
    BY EmptySeq, ConcatEmptySeq
  <2> QED
    BY <2>1, <2>2, MatchingFacts DEF OperationPhase, PushPhase
<1> QED
  BY <1>1, <1>2

-----------------------------------------------------------------------------
(* The page agrees: any step.                                              *)

\* What the operation that is going on has still to do after the statement.
Goes ==
  Compile \/ ClearResult \/ Refilter \/ ClearCache \/ SetText \/ SetPos
    \/ ClearContent \/ ClearShown \/ ClearPos

LEMMA RulesKept ==
  ASSUME RulesInForce, IdleIsAlone, [Next]_vars
  PROVE  RulesInForce' /\ IdleIsAlone'
<1>1. CASE Count
  BY <1>1 DEF Count, RulesInForce, IdleIsAlone, text, interface
<1>2. CASE AppendContent \/ Input \/ CountShown \/ MoveLastPos \/ Cut \/ PushToCache
  BY <1>2 DEF AppendContent, Input, CountShown, MoveLastPos, Cut, PushToCache,
     RulesInForce, IdleIsAlone, text, interface, ghosts
<1>3. CASE EnterFilter \/ EnterClear
  BY <1>3 DEF EnterFilter, EnterClear, Begin, RulesInForce, IdleIsAlone, text
<1>4. CASE Goes
  BY <1>4 DEF Goes, Compile, ClearResult, Refilter, ClearCache, SetText, SetPos,
     ClearContent, ClearShown, ClearPos, RulesInForce, IdleIsAlone, text
<1>5. CASE Recount \/ ClearView
  BY <1>5 DEF Recount, ClearView, Ends, RulesInForce, IdleIsAlone, text
<1>6. CASE TimerCache \/ Crash \/ UNCHANGED vars
  BY <1>6 DEF TimerCache, Crash, vars, RulesInForce, IdleIsAlone, text, interface, ghosts
<1> QED
  BY <1>1, <1>2, <1>3, <1>4, <1>5, <1>6
  DEF Next, PushLog, Interface, SetFilter, ClearLogView, Goes

LEMMA TotalKept ==
  ASSUME PageTypes, EndInv, OperationPhase \/ ui = "idle" \/ ~alone, TotalIsRight,
         [Next]_vars
  PROVE  TotalIsRight'
<1>1. CASE Count
  BY <1>1, ListsTyped DEF Count, TotalIsRight, Waiting, text, interface, PageTypes
<1>2. CASE AppendContent
  <2>1. Len(mContent') = Len(mContent) + 1
    BY <1>2, AppendProperties DEF AppendContent, EndInv, Lengths
  <2> QED
    BY <1>2, <2>1, ListsTyped DEF AppendContent, TotalIsRight, Waiting, counts,
       interface, ghosts
<1>3. CASE Input \/ CountShown \/ MoveLastPos \/ Cut \/ PushToCache
  BY <1>3 DEF Input, CountShown, MoveLastPos, Cut, PushToCache, TotalIsRight, Waiting,
     text, counts, interface, ghosts
<1>4. CASE EnterFilter \/ EnterClear
  BY <1>4 DEF EnterFilter, EnterClear, Begin, TotalIsRight, Waiting, Clearing, text,
     counts, capture
<1>5. CASE Compile \/ ClearResult \/ Refilter \/ ClearCache \/ SetText \/ SetPos
  BY <1>5 DEF Compile, ClearResult, Refilter, ClearCache, SetText, SetPos,
     TotalIsRight, Waiting, Clearing, text, counts, capture, ghosts
<1>6. CASE ClearContent \/ ClearShown \/ ClearPos
  BY <1>6 DEF ClearContent, ClearShown, ClearPos, TotalIsRight, Clearing
<1>7. CASE Recount
  BY <1>7 DEF Recount, Ends, TotalIsRight, Waiting, Clearing, text, capture
<1>8. CASE ClearView
  <2>1. CASE ~alone
    BY <1>8, <2>1 DEF ClearView, Ends, TotalIsRight
  <2>2. CASE alone
    <3>1. pc = "idle" /\ mContent = <<>>
      BY <1>8, <2>2 DEF ClearView, EndInv, MetIsNoted, OperationPhase
    <3> QED
      BY <1>8, <3>1 DEF ClearView, TotalIsRight, Waiting, text, capture
  <2> QED
    BY <2>1, <2>2 DEF EndInv, Booleans
<1>9. CASE TimerCache \/ Crash \/ UNCHANGED vars
  BY <1>9 DEF TimerCache, Crash, vars, TotalIsRight, Waiting, text, counts, capture,
     interface, ghosts
<1> QED
  BY <1>1, <1>2, <1>3, <1>4, <1>5, <1>6, <1>7, <1>8, <1>9
  DEF Next, PushLog, Interface, SetFilter, ClearLogView

LEMMA AgreementKept ==
  ASSUME PageTypes, EndInv, Agreement, [Next]_vars
  PROVE  Agreement'
<1>1. RulesInForce' /\ IdleIsAlone'
  BY RulesKept DEF Agreement
<1>2. TotalIsRight'
  BY TotalKept DEF Agreement, EndInv, Booleans
<1>3. ASSUME ui' = "idle", "lines" \notin disturbed' PROVE PushPhase'
  <2>1. CASE PushLog \/ TimerCache \/ Crash \/ UNCHANGED vars
    <3>1. ui' = ui /\ disturbed' = disturbed
      BY <2>1 DEF PushLog, TimerCache, Crash, vars, Count, AppendContent, Input,
         CountShown, MoveLastPos, Cut, PushToCache, interface, ghosts
    <3>2. PushPhase
      BY <1>3, <3>1 DEF Agreement
    <3>3. CASE Crash \/ UNCHANGED vars
      BY <3>2, <3>3 DEF Crash, vars, PushPhase, text, counts, shown, capture
    <3> QED
      BY <2>1, <3>2, <3>3, PushKeepsPhase, TimerKeepsPhase
  <2>2. CASE Recount \/ ClearView
    <3>1. alone /\ ui # "idle"
      BY <1>3, <2>2 DEF Recount, ClearView, Ends
    <3>2. OperationPhase /\ pc = "idle"
      BY <3>1 DEF Agreement, EndInv, MetIsNoted
    <3> QED
      BY <2>2, <3>2, OperationRepairs
  <2>3. CASE Goes \/ EnterFilter \/ EnterClear
    BY <1>3, <2>3 DEF Goes, EnterFilter, EnterClear, Begin, Compile, ClearResult,
       Refilter, ClearCache, SetText, SetPos, ClearContent, ClearShown, ClearPos
  <2> QED
    BY <2>1, <2>2, <2>3 DEF Next, Interface, SetFilter, ClearLogView, Goes
<1>4. ASSUME ui' # "idle", alone' PROVE OperationPhase'
  <2>1. CASE PushLog
    <3>1. ui' = ui /\ (Count => ~alone') /\ (~Count => pc # "idle" /\ alone' = alone)
      BY <1>4, <2>1 DEF PushLog, Count, AppendContent, Input, CountShown, MoveLastPos,
         Cut, PushToCache, interface, ghosts
    <3> QED
      BY <1>4, <3>1 DEF EndInv, MetIsNoted
  <2>2. CASE EnterFilter \/ EnterClear
    BY <2>2 DEF EnterFilter, EnterClear, Begin, OperationPhase
  <2>3. CASE Goes
    <3>1. alone' = alone /\ ui # "idle"
      BY <2>3 DEF Goes, Compile, ClearResult, Refilter, ClearCache, SetText, SetPos,
         ClearContent, ClearShown, ClearPos, ghosts
    <3> QED
      BY <1>4, <2>3, <3>1, OperationGoesOn DEF Agreement, Goes
  <2>4. CASE Recount \/ ClearView \/ TimerCache
    BY <1>4, <2>4 DEF Recount, ClearView, Ends, TimerCache, interface
  <2>5. CASE Crash \/ UNCHANGED vars
    BY <1>4, <2>5 DEF Crash, vars, Agreement, OperationPhase, text, shown, interface,
       ghosts
  <2> QED
    BY <2>1, <2>2, <2>3, <2>4, <2>5 DEF Next, Interface, SetFilter, ClearLogView, Goes
<1> QED
  BY <1>1, <1>2, <1>3, <1>4 DEF Agreement

(***************************************************************************)
(* PageAgrees: for any number of lines and operations and any filters,     *)
(* unless a push met an operation of the interface, the window with what   *)
(* is on its way to it shows the lines the filter keeps, each once and in  *)
(* order, the counts are right, and one operation that no push meets       *)
(* repairs what an earlier one spoiled.                                    *)
(***************************************************************************)
THEOREM PageIsRight == Spec => []PageAgrees
<1>1. PageTypes /\ EndInv /\ Agreement /\ [Next]_vars
        => PageTypes' /\ EndInv' /\ Agreement'
  BY PageTypesKept, LengthsKept, MetKept, AgreementKept DEF EndInv
<1>2. PageTypes /\ Agreement => PageAgrees
  <2> SUFFICES ASSUME PageTypes, Agreement, AtRest PROVE
         /\ "lines" \notin disturbed =>
              /\ view \o mCacheContent = Matching(mRuleStr, mContent)
              /\ mFilterResult = Matching(mRuleStr, mContent)
              /\ mShowCount = Len(mFilterResult)
              /\ mLastPos = Len(mContent)
         /\ "total" \notin disturbed => mTotalCount = Len(mContent)
    BY DEF PageAgrees
  <2>1. mRuleStr = mRuleSet /\ pc = "idle" /\ ui = "idle"
    BY DEF AtRest, Agreement, RulesInForce
  <2>2. ASSUME "lines" \notin disturbed
        PROVE  /\ view \o mCacheContent = Matching(mRuleStr, mContent)
               /\ mFilterResult = Matching(mRuleStr, mContent)
               /\ mShowCount = Len(mFilterResult)
               /\ mLastPos = Len(mContent)
    BY <2>1, <2>2 DEF Agreement, PushPhase
  <2>3. ASSUME "total" \notin disturbed PROVE mTotalCount = Len(mContent)
    BY <2>1, <2>3, ListsTyped DEF Agreement, TotalIsRight, Waiting, Clearing
  <2> QED
    BY <2>2, <2>3
<1> QED
  BY PageTypesInit, EndInit, <1>1, <1>2, PTL DEF Spec

-----------------------------------------------------------------------------
(* The rules the page filters with: ScriptEngine.                          *)

\* A vector of FilterRules, which are pairs of sets of keywords.
FilterRules == [mInclude : SUBSET Seq(E!Tokens), mExclude : SUBSET Seq(E!Tokens)]

-----------------------------------------------------------------------------
(* The places of a product of two vectors, row by row.                     *)

LEMMA RowAndColumn ==
  ASSUME NEW m \in Nat \ {0}, NEW q \in Nat, NEW r \in 0 .. m - 1
  PROVE  (q * m + r) \div m = q /\ (q * m + r) % m = r
  BY SMTT(30)

LEMMA PlaceInside ==
  ASSUME NEW m \in Nat \ {0}, NEW k \in Nat, NEW q \in 0 .. k - 1, NEW r \in 0 .. m - 1
  PROVE  q * m + r + 1 \in 1 .. k * m
  BY SMTT(30)

LEMMA RowInside ==
  ASSUME NEW m \in Nat, NEW k \in Nat, NEW n \in 1 .. k * m
  PROVE  ((n - 1) \div m) + 1 \in 1 .. k /\ ((n - 1) % m) + 1 \in 1 .. m
  BY SMTT(30)

-----------------------------------------------------------------------------
\* A rule with the keywords of two others keeps what both keep.
LEMMA BothKeeps ==
  ASSUME NEW r, NEW s, NEW line
  PROVE  E!Matches(E!Both(r, s), line) <=> E!Matches(r, line) /\ E!Matches(s, line)
  BY DEF E!Matches, E!Both, E!FilterRule

(***************************************************************************)
(* CalAndResult keeps a line exactly if both vectors keep it: a group in   *)
(* brackets behind && is a conjunction, whatever the groups are.           *)
(***************************************************************************)
THEOREM AndKeepsWhatBothKeep ==
  ASSUME NEW a \in Seq(FilterRules), NEW b \in Seq(FilterRules), NEW line
  PROVE  E!OnRuleFilter(E!CalAndResult(a, b), line)
           <=> E!OnRuleFilter(a, line) /\ E!OnRuleFilter(b, line)
<1> DEFINE c == E!CalAndResult(a, b)
<1>1. PICK k \in Nat : k = Len(a)
  OBVIOUS
<1>2. PICK m \in Nat : m = Len(b)
  OBVIOUS
<1>3. k * m \in Nat
  OBVIOUS
<1>4. Len(c) = k * m
  BY <1>1, <1>2, <1>3 DEF E!CalAndResult
<1>5. \A n \in 1 .. k * m :
        c[n] = E!Both(a[((n - 1) \div m) + 1], b[((n - 1) % m) + 1])
  BY <1>1, <1>2 DEF E!CalAndResult
<1> HIDE DEF c
<1>6. ASSUME E!OnRuleFilter(c, line)
      PROVE  E!OnRuleFilter(a, line) /\ E!OnRuleFilter(b, line)
  <2>1. PICK n \in 1 .. k * m : E!Matches(c[n], line)
    BY <1>4, <1>6 DEF E!OnRuleFilter
  <2>2. PICK i1 \in 1 .. k : i1 = ((n - 1) \div m) + 1
    BY RowInside
  <2>3. PICK j1 \in 1 .. m : j1 = ((n - 1) % m) + 1
    BY RowInside
  <2>4. c[n] = E!Both(a[i1], b[j1])
    BY <1>5, <2>2, <2>3
  <2>5. E!Matches(a[i1], line) /\ E!Matches(b[j1], line)
    BY <2>1, <2>4, BothKeeps
  <2> QED BY <1>1, <1>2, <2>5 DEF E!OnRuleFilter
<1>7. ASSUME E!OnRuleFilter(a, line), E!OnRuleFilter(b, line)
      PROVE  E!OnRuleFilter(c, line)
  <2>1. PICK i1 \in 1 .. k : E!Matches(a[i1], line)
    BY <1>1, <1>7 DEF E!OnRuleFilter
  <2>2. PICK j1 \in 1 .. m : E!Matches(b[j1], line)
    BY <1>2, <1>7 DEF E!OnRuleFilter
  <2>3. PICK q \in 0 .. k - 1 : i1 = q + 1
    OBVIOUS
  <2>4. PICK r \in 0 .. m - 1 : j1 = r + 1
    OBVIOUS
  <2>5. m \in Nat \ {0} /\ q \in Nat
    OBVIOUS
  <2>6. PICK p \in Nat : p = q * m + r
    BY <2>5
  <2>7. p \div m = q /\ p % m = r
    BY <2>5, <2>6, RowAndColumn
  <2>8. p + 1 \in 1 .. k * m
    BY <2>5, <2>6, PlaceInside
  <2>9. (p + 1) - 1 = p
    OBVIOUS
  <2>10. c[p + 1] = E!Both(a[i1], b[j1])
    BY <1>5, <2>3, <2>4, <2>7, <2>8, <2>9
  <2>11. E!Matches(c[p + 1], line)
    BY <2>1, <2>2, <2>10, BothKeeps
  <2> QED BY <1>4, <2>8, <2>11 DEF E!OnRuleFilter
<1> QED BY <1>6, <1>7 DEF c

(***************************************************************************)
(* CalOrResult keeps a line exactly if one of the vectors keeps it.        *)
(***************************************************************************)
THEOREM OrKeepsWhatEitherKeeps ==
  ASSUME NEW a \in Seq(FilterRules), NEW b \in Seq(FilterRules), NEW line
  PROVE  E!OnRuleFilter(E!CalOrResult(a, b), line)
           <=> E!OnRuleFilter(a, line) \/ E!OnRuleFilter(b, line)
<1>1. PICK k \in Nat : k = Len(a)
  OBVIOUS
<1>2. PICK m \in Nat : m = Len(b)
  OBVIOUS
<1>3. /\ Len(a \o b) = k + m
      /\ \A n \in 1 .. k : (a \o b)[n] = a[n]
      /\ \A n \in 1 .. m : (a \o b)[k + n] = b[n]
  BY <1>1, <1>2
<1>4. ASSUME NEW n \in 1 .. k + m, E!Matches((a \o b)[n], line)
      PROVE  E!OnRuleFilter(a, line) \/ E!OnRuleFilter(b, line)
  <2>1. CASE n <= k
    BY <1>1, <1>3, <1>4, <2>1 DEF E!OnRuleFilter
  <2>2. CASE n > k
    <3>1. PICK j1 \in 1 .. m : n = k + j1
      BY <2>2
    <3>2. (a \o b)[n] = b[j1]
      BY <1>3, <3>1
    <3> QED BY <1>2, <1>4, <3>2 DEF E!OnRuleFilter
  <2> QED BY <2>1, <2>2
<1>5. ASSUME NEW n \in 1 .. k, E!Matches(a[n], line)
      PROVE  E!OnRuleFilter(a \o b, line)
  BY <1>3, <1>5 DEF E!OnRuleFilter
<1>6. ASSUME NEW n \in 1 .. m, E!Matches(b[n], line)
      PROVE  E!OnRuleFilter(a \o b, line)
  <2>1. k + n \in 1 .. k + m
    OBVIOUS
  <2> QED BY <1>3, <1>6, <2>1 DEF E!OnRuleFilter
<1> QED BY <1>1, <1>2, <1>3, <1>4, <1>5, <1>6 DEF E!OnRuleFilter, E!CalOrResult

(***************************************************************************)
(* A keyword behind && holds for the last rule of the vector only: the     *)
(* others keep what they kept.  For a vector of one rule, which is what a  *)
(* script without brackets or || has, this is the conjunction; for a group *)
(* it is not.                                                              *)
(***************************************************************************)
THEOREM AndLastKeeps ==
  ASSUME NEW a \in Seq(FilterRules), a # <<>>, NEW r \in FilterRules, NEW line
  PROVE  E!OnRuleFilter(E!AndLast(a, r), line)
           <=> \/ \E n \in 1 .. Len(a) - 1 : E!Matches(a[n], line)
               \/ E!Matches(a[Len(a)], line) /\ E!Matches(r, line)
<1> DEFINE c == E!AndLast(a, r)
<1>1. PICK k \in Nat : k = Len(a)
  OBVIOUS
<1>2. k \in 1 .. k /\ k - 1 \in Nat
  BY <1>1
<1>3. /\ Len(c) = k
      /\ \A n \in 1 .. k - 1 : c[n] = a[n]
      /\ c[k] = E!Both(a[k], r)
  <2>1. PICK x : x = E!Both(a[k], r)
    OBVIOUS
  <2>2. a[k] \in FilterRules
    BY <1>1, <1>2
  <2>3. x \in FilterRules
    BY <2>1, <2>2 DEF E!Both, E!FilterRule, FilterRules
  <2>4. c = [a EXCEPT ![k] = x]
    BY <1>1, <2>1 DEF E!AndLast
  <2>5. [a EXCEPT ![k] = x] \in Seq(FilterRules) /\ Len([a EXCEPT ![k] = x]) = k
    BY <1>1, <1>2, <2>3
  <2> QED BY <1>1, <1>2, <2>1, <2>4, <2>5
<1> HIDE DEF c
<1>4. \A n \in 1 .. k : n \in 1 .. k - 1 \/ n = k
  OBVIOUS
<1>5. E!Matches(c[k], line) <=> E!Matches(a[k], line) /\ E!Matches(r, line)
  BY <1>3, BothKeeps
<1>6. E!OnRuleFilter(c, line) <=> \E n \in 1 .. k : E!Matches(c[n], line)
  BY <1>3 DEF E!OnRuleFilter
<1>7. (\E n \in 1 .. k : E!Matches(c[n], line))
        <=> (\E n \in 1 .. k - 1 : E!Matches(a[n], line)) \/ E!Matches(c[k], line)
  BY <1>2, <1>3, <1>4
<1> QED BY <1>1, <1>5, <1>6, <1>7 DEF c

-----------------------------------------------------------------------------
(* Compile.                                                                *)

\* What it compiles does not matter for where it is.
Scanning ==
  /\ script \in Seq(E!Tokens) /\ place \in 1 .. Len(script) + 1 /\ st1 \in Seq(Nat)
  /\ \E S : mVarSet \in Seq(S)

ScriptInv == Scanning /\ E!StackOfBrackets

LEMMA InitScript == ASSUME E!Init PROVE ScriptInv
<1>1. script \in Seq(E!Tokens)
  <2>1. script \in Seq({t \in E!Tokens : t.kind # "var"})
    BY ScriptConstants DEF E!Init, E!RulesAreEntered
  <2> QED BY <2>1
<1>2. place = 1 /\ st1 = <<>> /\ Len(st1) = 0 /\ Len(script) \in Nat
  BY <1>1 DEF E!Init
<1>3. mVarSet \in Seq({})
  BY DEF E!Init
<1> QED BY <1>1, <1>2, <1>3 DEF ScriptInv, Scanning, E!StackOfBrackets

\* The first elements of a sequence.
LEMMA PrefixIs ==
  ASSUME NEW S, NEW s \in Seq(S), NEW n \in Nat, \A k \in 1 .. n : k \in 1 .. Len(s)
  PROVE  /\ SubSeq(s, 1, n) \in Seq(S) /\ Len(SubSeq(s, 1, n)) = n
         /\ \A k \in 1 .. n : SubSeq(s, 1, n)[k] = s[k]
<1>1. \A k \in 1 .. n : s[k] \in S
  OBVIOUS
<1>2. PICK t : t = SubSeq(s, 1, n)
  OBVIOUS
<1>3. /\ t \in Seq(S) /\ Len(t) = IF 1 <= n THEN n - 1 + 1 ELSE 0
      /\ \A k \in 1 .. n - 1 + 1 : t[k] = s[1 + k - 1]
  BY <1>1, <1>2, SubSeqProperties
<1>4. n - 1 + 1 = n /\ (~(1 <= n) => n = 0) /\ \A k \in 1 .. n : 1 + k - 1 = k
  OBVIOUS
<1>5. Len(t) = n /\ \A k \in 1 .. n : t[k] = s[k]
  BY <1>3, <1>4
<1> QED BY <1>2, <1>3, <1>5

LEMMA OpenKept == ASSUME ScriptInv, E!OpenBracket PROVE ScriptInv'
<1>1. /\ state = "scan" /\ state' = "scan" /\ script' = script /\ mVarSet' = mVarSet
      /\ place \in 1 .. Len(script) /\ place' = place + 1 /\ st1' = Append(st1, place)
      /\ script \in Seq(E!Tokens) /\ st1 \in Seq(Nat) /\ script[place].kind = "("
  BY DEF ScriptInv, Scanning, E!OpenBracket, E!At
<1>2. PICK k \in Nat : k = Len(st1)
  BY <1>1
<1>3. Len(st1') = k + 1 /\ st1'[k + 1] = place /\ \A n \in 1 .. k : st1'[n] = st1[n]
  BY <1>1, <1>2
<1>4. Scanning'
  BY <1>1 DEF ScriptInv, Scanning
<1>5. /\ \A n \in 1 .. k :
           /\ st1[n] \in 1 .. place - 1 /\ script[st1[n]].kind = "("
           /\ \A m \in 1 .. n - 1 : st1[m] < st1[n]
      /\ \A p \in 1 .. place - 1 :
           /\ script[p].kind # ")"
           /\ script[p].kind = "(" => \E n \in 1 .. k : st1[n] = p
  BY <1>1, <1>2 DEF ScriptInv, E!StackOfBrackets
<1>6. ASSUME NEW n \in 1 .. k + 1
      PROVE  /\ st1'[n] \in 1 .. place /\ script[st1'[n]].kind = "("
             /\ \A m \in 1 .. n - 1 : st1'[m] < st1'[n]
  <2>1. CASE n \in 1 .. k
    <3>1. \A m \in 1 .. n - 1 : m \in 1 .. k
      BY <2>1
    <3>2. st1'[n] = st1[n] /\ \A m \in 1 .. n - 1 : st1'[m] = st1[m]
      BY <1>3, <2>1, <3>1
    <3>3. 1 .. place - 1 \subseteq 1 .. place
      BY <1>1
    <3> QED BY <1>5, <2>1, <3>1, <3>2, <3>3
  <2>2. CASE n = k + 1
    <3>1. \A m \in 1 .. n - 1 : m \in 1 .. k
      BY <2>2
    <3> QED BY <1>1, <1>3, <1>5, <2>2, <3>1
  <2> QED BY <2>1, <2>2
<1>7. ASSUME NEW p \in 1 .. place
      PROVE  /\ script[p].kind # ")"
             /\ script[p].kind = "(" => \E n \in 1 .. k + 1 : st1'[n] = p
  <2>1. CASE p \in 1 .. place - 1
    <3>1. \A n \in 1 .. k : n \in 1 .. k + 1
      OBVIOUS
    <3> QED BY <1>3, <1>5, <2>1, <3>1
  <2>2. CASE p = place
    <3>1. k + 1 \in 1 .. k + 1
      OBVIOUS
    <3> QED BY <1>1, <1>3, <2>2, <3>1
  <2>3. place \in Nat
    BY <1>1
  <2> QED BY <2>1, <2>2, <2>3
<1>8. 1 .. place' - 1 = 1 .. place /\ 1 .. Len(st1') = 1 .. k + 1
  BY <1>1, <1>3
<1>9. E!StackOfBrackets'
  BY <1>1, <1>6, <1>7, <1>8 DEF E!StackOfBrackets
<1> QED BY <1>4, <1>9 DEF ScriptInv

LEMMA CloseKept == ASSUME ScriptInv, E!CloseBracket PROVE ScriptInv'
<1> DEFINE pos1 == st1[Len(st1)]
            v == E!Variable(Len(mVarSet'))
<1>1. /\ state = "scan" /\ state' = "scan" /\ st1 # <<>>
      /\ place \in 1 .. Len(script) /\ place' = pos1 + 1
      /\ st1' = SubSeq(st1, 1, Len(st1) - 1)
      /\ script' = SubSeq(script, 1, pos1 - 1) \o <<v>>
                     \o SubSeq(script, place + 1, Len(script))
      /\ script \in Seq(E!Tokens) /\ st1 \in Seq(Nat)
  BY DEF ScriptInv, Scanning, E!CloseBracket, E!At
<1>2. PICK k \in Nat : Len(st1) = k + 1
  <2>1. Len(st1) \in Nat /\ Len(st1) # 0
    BY <1>1, EmptySeq
  <2>2. Len(st1) - 1 \in Nat /\ Len(st1) = (Len(st1) - 1) + 1
    BY <2>1
  <2> QED BY <2>2
<1>3. PICK L \in Nat : L = Len(script)
  BY <1>1
<1>27. place \in Nat /\ place \in 1 .. L
  BY <1>1, <1>3
<1>4. PICK x : x = E!SimpleCompile(E!Inner, mVarSet)
  OBVIOUS
<1>5. mVarSet' = Append(mVarSet, x)
  BY <1>4 DEF E!CloseBracket
<1>6. PICK S : mVarSet \in Seq(S)
  BY DEF ScriptInv, Scanning
<1>7. mVarSet \in Seq(S \cup {x})
  BY <1>6
<1>8. mVarSet' \in Seq(S \cup {x})
  BY <1>5, <1>7
<1>9. v \in E!Tokens /\ v.kind = "var"
  BY <1>8 DEF E!Variable, E!Token, E!Tokens, E!Kinds
<1>10. /\ \A n \in 1 .. k + 1 :
            /\ st1[n] \in 1 .. place - 1 /\ script[st1[n]].kind = "("
            /\ \A m \in 1 .. n - 1 : st1[m] < st1[n]
       /\ \A p \in 1 .. place - 1 :
            /\ script[p].kind # ")"
            /\ script[p].kind = "(" => \E n \in 1 .. k + 1 : st1[n] = p
  BY <1>1, <1>2 DEF ScriptInv, E!StackOfBrackets
<1>11. PICK pos \in 1 .. place - 1 : pos = st1[k + 1]
  BY <1>10
<1>12. pos1 = pos
  BY <1>2, <1>11
<1> HIDE DEF pos1, v
\* The new script: the same before pos, the variable at pos, a part of the rest.
<1>13. PICK pre : pre = SubSeq(script, 1, pos - 1)
  OBVIOUS
<1>14. PICK post : post = SubSeq(script, place + 1, L)
  OBVIOUS
<1>15. /\ pre \in Seq(E!Tokens) /\ Len(pre) = pos - 1
       /\ \A p \in 1 .. pos - 1 : pre[p] = script[p]
  <2>1. \A p \in 1 .. pos - 1 : p \in 1 .. L
    BY <1>27, <1>11
  <2>2. \A p \in 1 .. pos - 1 : script[p] \in E!Tokens
    BY <1>1, <1>3, <2>1
  <2>3. pos - 1 \in Nat
    OBVIOUS
  <2>4. Len(pre) = pos - 1 /\ \A p \in 1 .. pos - 1 : pre[p] = script[p]
    BY <1>1, <1>3, <1>13, <2>1, <2>3, PrefixIs
  <2>5. pre \in Seq(E!Tokens)
    BY <1>1, <1>3, <1>13, <2>1, <2>3, PrefixIs
  <2> QED BY <2>4, <2>5
<1>16. post \in Seq(E!Tokens) /\ Len(post) = L - place
  BY <1>1, <1>3, <1>14
<1>17. PICK head : head = pre \o <<v>>
  OBVIOUS
<1>18. /\ head \in Seq(E!Tokens) /\ Len(head) = pos /\ head[pos] = v
       /\ \A p \in 1 .. pos - 1 : head[p] = script[p]
  <2>1. pos \in Nat /\ pos - 1 \in Nat /\ pos = (pos - 1) + 1
    BY <1>11
  <2>2. PICK last : last = <<v>>
    OBVIOUS
  <2>3. last \in Seq(E!Tokens) /\ Len(last) = 1 /\ last[1] = v
    BY <1>9, <2>2
  <2>4. head = pre \o last
    BY <1>17, <2>2
  <2>5. head \in Seq(E!Tokens) /\ Len(head) = pos
    <3>1. pre \in Seq(E!Tokens) /\ last \in Seq(E!Tokens)
      BY <1>15, <2>3
    <3>2. head \in Seq(E!Tokens) /\ Len(head) = Len(pre) + Len(last)
      BY <2>4, <3>1, ConcatProperties
    <3>3. Len(pre) = pos - 1 /\ Len(last) = 1
      BY <1>15, <2>3
    <3> QED BY <2>1, <3>2, <3>3
  <2>6. head[pos] = v
    <3>1. /\ pos \in 1 .. Len(pre) + Len(last) /\ ~(pos <= Len(pre))
          /\ pos - Len(pre) = 1
      BY <1>15, <2>1, <2>3
    <3>2. pre \in Seq(E!Tokens) /\ last \in Seq(E!Tokens)
      BY <1>15, <2>3
    <3>3. \A j \in 1 .. Len(pre) + Len(last) :
            (pre \o last)[j] = IF j <= Len(pre) THEN pre[j] ELSE last[j - Len(pre)]
      BY <3>2, ConcatProperties
    <3>4. head[pos] = last[pos - Len(pre)]
      BY <2>4, <3>1, <3>3
    <3> QED BY <2>3, <3>1, <3>4
  <2>7. \A p \in 1 .. pos - 1 : head[p] = pre[p]
    BY <1>15, <2>1, <2>3, <2>4, ConcatProperties
  <2> QED BY <1>15, <2>5, <2>6, <2>7
<1>19. script' = head \o post
  BY <1>1, <1>3, <1>12, <1>13, <1>14, <1>17
<1>20. /\ script' \in Seq(E!Tokens) /\ Len(script') = pos + (L - place)
       /\ \A p \in 1 .. pos : script'[p] = head[p]
  <2>1. script' \in Seq(E!Tokens)
    BY <1>16, <1>18, <1>19
  <2>2. Len(script') = Len(head) + Len(post)
    BY <1>16, <1>18, <1>19, ConcatProperties
  <2>3. \A p \in 1 .. Len(head) : script'[p] = head[p]
    BY <1>16, <1>18, <1>19
  <2> QED BY <1>16, <1>18, <2>1, <2>2, <2>3
<1>21. /\ st1' \in Seq(Nat) /\ Len(st1') = k
       /\ \A n \in 1 .. k : st1'[n] = st1[n]
  <2>1. (k + 1) - 1 = k /\ \A n \in 1 .. k : n \in 1 .. k + 1
    OBVIOUS
  <2>2. st1' = SubSeq(st1, 1, k)
    BY <1>1, <1>2, <2>1
  <2>3. \A n \in 1 .. k : n \in 1 .. Len(st1)
    BY <1>2, <2>1
  <2>4. st1 \in Seq(Nat)
    BY <1>1
  <2>5. /\ SubSeq(st1, 1, k) \in Seq(Nat) /\ Len(SubSeq(st1, 1, k)) = k
        /\ \A n \in 1 .. k : SubSeq(st1, 1, k)[n] = st1[n]
    BY <2>3, <2>4, PrefixIs
  <2> QED BY <2>2, <2>5
<1>22. place' = pos + 1 /\ pos + 1 \in 1 .. Len(script') + 1
  <2>1. L - place \in Nat
    BY <1>27
  <2>2. pos \in Nat
    BY <1>11, <1>27
  <2>3. pos + 1 \in 1 .. (pos + (L - place)) + 1
    BY <2>1, <2>2
  <2> QED BY <1>1, <1>12, <1>20, <2>3
<1>23. Scanning'
  BY <1>8, <1>20, <1>21, <1>22 DEF Scanning
<1>24. ASSUME NEW n \in 1 .. k
       PROVE  /\ st1'[n] \in 1 .. pos /\ script'[st1'[n]].kind = "("
              /\ \A m \in 1 .. n - 1 : st1'[m] < st1'[n]
  <2>1. n \in 1 .. k + 1 /\ n \in 1 .. (k + 1) - 1 /\ k + 1 \in 1 .. k + 1
    OBVIOUS
  <2>2. st1[n] \in 1 .. place - 1 /\ st1[n] < pos
    BY <1>10, <1>11, <2>1
  <2>3. st1[n] \in 1 .. pos - 1 /\ st1[n] \in 1 .. pos
    BY <1>11, <2>2
  <2>4. script'[st1[n]] = script[st1[n]]
    BY <1>18, <1>20, <2>3
  <2>5. \A m \in 1 .. n - 1 : m \in 1 .. k
    OBVIOUS
  <2>6. script[st1[n]].kind = "("
    BY <1>10, <2>1
  <2>7. \A m \in 1 .. n - 1 : st1[m] < st1[n]
    BY <1>10, <2>1
  <2>8. st1'[n] = st1[n] /\ \A m \in 1 .. n - 1 : st1'[m] = st1[m]
    BY <1>21, <2>5
  <2> QED BY <2>3, <2>4, <2>6, <2>7, <2>8
<1>25. ASSUME NEW p \in 1 .. pos
       PROVE  /\ script'[p].kind # ")"
              /\ script'[p].kind = "(" => \E n \in 1 .. k : st1'[n] = p
  <2>1. CASE p \in 1 .. pos - 1
    <3>1. script'[p] = script[p] /\ p \in 1 .. place - 1
      <4>1. p \in 1 .. pos
        BY <2>1
      <4>2. script'[p] = head[p] /\ head[p] = script[p]
        BY <1>18, <1>20, <2>1, <4>1
      <4>3. p \in 1 .. place - 1
        BY <1>11, <1>27, <2>1
      <4> QED BY <4>2, <4>3
    <3>2. p # st1[k + 1]
      BY <1>11, <2>1
    <3>3. \A n \in 1 .. k + 1 : n \in 1 .. k \/ n = k + 1
      OBVIOUS
    <3>4. /\ script[p].kind # ")"
          /\ script[p].kind = "(" => \E n \in 1 .. k + 1 : st1[n] = p
      BY <1>10, <3>1
    <3>5. script[p].kind = "(" => \E n \in 1 .. k : st1[n] = p
      BY <3>2, <3>3, <3>4
    <3>6. \A n \in 1 .. k : st1'[n] = st1[n]
      BY <1>21
    <3> QED BY <3>1, <3>4, <3>5, <3>6
  <2>2. CASE p = pos
    BY <1>9, <1>18, <1>20, <2>2
  <2> QED BY <2>1, <2>2, <1>11
<1>26. place' - 1 = pos
  BY <1>22
<1> QED BY <1>1, <1>21, <1>23, <1>24, <1>25, <1>26 DEF ScriptInv, E!StackOfBrackets

LEMMA AdvanceKept == ASSUME ScriptInv, E!Advance PROVE ScriptInv'
<1>1. /\ state = "scan" /\ state' = "scan" /\ script' = script /\ mVarSet' = mVarSet
      /\ place \in 1 .. Len(script) /\ place' = place + 1 /\ st1' = st1
      /\ script \in Seq(E!Tokens) /\ script[place].kind \notin {"(", ")"}
  BY DEF ScriptInv, Scanning, E!Advance, E!At
<1>2. Scanning'
  BY <1>1 DEF ScriptInv, Scanning
<1>3. \A p \in 1 .. place' - 1 : p \in 1 .. place - 1 \/ p = place
  BY <1>1
<1>4. \A p \in 1 .. place - 1 : p \in 1 .. place' - 1
  BY <1>1
<1> QED BY <1>1, <1>2, <1>3, <1>4 DEF ScriptInv, E!StackOfBrackets

LEMMA ScriptKept == ScriptInv /\ [E!Next]_(E!vars) => ScriptInv'
<1>1. ASSUME ScriptInv, E!Throw \/ E!Finish PROVE ScriptInv'
  BY <1>1 DEF ScriptInv, Scanning, E!StackOfBrackets, E!Throw, E!Finish
<1>2. ASSUME ScriptInv, UNCHANGED E!vars PROVE ScriptInv'
  BY <1>2 DEF ScriptInv, Scanning, E!StackOfBrackets, E!vars
<1> QED BY <1>1, <1>2, OpenKept, CloseKept, AdvanceKept DEF E!Next

(***************************************************************************)
(* However often the script is rewritten under it, the stack holds the     *)
(* open brackets left of the scan, all and in order: what CloseBracket     *)
(* cuts out, of any script, has no bracket in it.                          *)
(***************************************************************************)
THEOREM BracketsAreFound ==
  E!Spec => []E!StackOfBrackets
<1>1. E!Init => ScriptInv
  BY InitScript
<1>2. ScriptInv => E!StackOfBrackets
  BY DEF ScriptInv
<1> QED
  BY <1>1, <1>2, ScriptKept, PTL DEF E!Spec

-----------------------------------------------------------------------------
(* The variables of the script.                                            *)

\* The tokens a script may have while there are n variables.
KnownTokens(n) == {t \in E!Tokens : t.kind = "var" => t.id \in 1 .. n}

VarsKnown ==
  /\ rule \in Rules /\ state \in {"scan", "compiled", "thrown"}
  /\ script \in Seq(KnownTokens(Len(mVarSet)))

\* An element that takes the place of a part of a sequence.
LEMMA ReplacedIs ==
  ASSUME NEW S, NEW s \in Seq(S), NEW v \in S, NEW p \in Nat, NEW q \in Nat,
         p \in 1 .. Len(s), q \in 1 .. Len(s)
  PROVE  SubSeq(s, 1, p - 1) \o <<v>> \o SubSeq(s, q + 1, Len(s)) \in Seq(S)
<1>1. PICK pre : pre = SubSeq(s, 1, p - 1)
  OBVIOUS
<1>2. PICK post : post = SubSeq(s, q + 1, Len(s))
  OBVIOUS
<1>3. pre \in Seq(S)
  <2>1. p - 1 \in Nat /\ \A k \in 1 .. p - 1 : k \in 1 .. Len(s)
    OBVIOUS
  <2> QED BY <1>1, <2>1, PrefixIs
<1>4. post \in Seq(S)
  <2>1. \A k \in q + 1 .. Len(s) : s[k] \in S
    OBVIOUS
  <2>2. q + 1 \in Int /\ Len(s) \in Int
    OBVIOUS
  <2> QED BY <1>2, <2>1, <2>2, SubSeqProperties
<1>5. <<v>> \in Seq(S)
  OBVIOUS
<1>6. pre \o <<v>> \in Seq(S)
  BY <1>3, <1>5, ConcatProperties
<1>7. (pre \o <<v>>) \o post \in Seq(S)
  BY <1>4, <1>6, ConcatProperties
<1> QED BY <1>1, <1>2, <1>7

LEMMA CloseKeepsVars == ASSUME ScriptInv, VarsKnown, E!CloseBracket PROVE VarsKnown'
<1>1. PICK n \in Nat : n = Len(mVarSet)
  BY DEF ScriptInv, Scanning
<1>2. PICK x : mVarSet' = Append(mVarSet, x)
  BY DEF E!CloseBracket
<1>3. Len(mVarSet') = n + 1
  <2>1. PICK S : mVarSet \in Seq(S)
    BY DEF ScriptInv, Scanning
  <2>2. mVarSet \in Seq(S \cup {x})
    BY <2>1
  <2> QED BY <1>1, <1>2, <2>2
<1>4. PICK pos : pos = st1[Len(st1)]
  OBVIOUS
<1>5. pos \in 1 .. place - 1 /\ place \in 1 .. Len(script)
  <2>1. state = "scan" /\ st1 # <<>> /\ st1 \in Seq(Nat) /\ place \in 1 .. Len(script)
    BY DEF ScriptInv, Scanning, E!CloseBracket, E!At
  <2>2. Len(st1) \in 1 .. Len(st1)
    BY <2>1, EmptySeq
  <2> QED BY <1>4, <2>1, <2>2 DEF ScriptInv, E!StackOfBrackets
<1>6. PICK v : v = E!Variable(n + 1)
  OBVIOUS
<1>7. v \in KnownTokens(n + 1)
  BY <1>1, <1>6 DEF KnownTokens, E!Variable, E!Token, E!Tokens, E!Kinds
<1>8. script \in Seq(KnownTokens(n + 1))
  <2>1. KnownTokens(n) \subseteq KnownTokens(n + 1)
    BY DEF KnownTokens
  <2> QED BY <1>1, <2>1 DEF VarsKnown
<1>9. script' = SubSeq(script, 1, pos - 1) \o <<v>>
                 \o SubSeq(script, place + 1, Len(script))
  BY <1>3, <1>4, <1>6 DEF E!CloseBracket
<1>10. /\ pos \in Nat /\ place \in Nat
       /\ pos \in 1 .. Len(script) /\ place \in 1 .. Len(script)
  <2>1. Len(script) \in Nat
    BY DEF VarsKnown
  <2> QED BY <1>5, <2>1
<1>11. script' \in Seq(KnownTokens(n + 1))
  BY <1>7, <1>8, <1>9, <1>10, ReplacedIs
<1>12. rule' = rule /\ state' = state
  BY DEF E!CloseBracket
<1> QED BY <1>3, <1>11, <1>12 DEF VarsKnown

LEMMA InitVars == ASSUME E!Init PROVE VarsKnown
<1>1. script \in Seq({t \in E!Tokens : t.kind # "var"}) /\ rule \in Rules
  BY ScriptConstants DEF E!Init, E!RulesAreEntered
<1>2. {t \in E!Tokens : t.kind # "var"} \subseteq KnownTokens(Len(mVarSet))
  BY DEF KnownTokens
<1>3. state \in {"scan", "compiled", "thrown"}
  BY DEF E!Init
<1> QED BY <1>1, <1>2, <1>3 DEF VarsKnown

LEMMA VarsKept == ScriptInv /\ VarsKnown /\ [E!Next]_(E!vars) => VarsKnown'
<1>1. ASSUME ScriptInv, VarsKnown, E!OpenBracket \/ E!Advance \/ UNCHANGED E!vars
      PROVE  VarsKnown'
  BY <1>1 DEF VarsKnown, E!OpenBracket, E!Advance, E!vars
<1>2. ASSUME ScriptInv, VarsKnown, E!Throw \/ E!Finish PROVE VarsKnown'
  BY <1>2 DEF VarsKnown, E!Throw, E!Finish
<1> QED BY <1>1, <1>2, CloseKeepsVars DEF E!Next

(***************************************************************************)
(* The scan stays inside the script, and every variable in the script has  *)
(* a vector of rules in mVarSet, so that SimpleCompile finds what it looks *)
(* up (ScriptEngine.cpp:118), for every script however often it is         *)
(* rewritten.                                                              *)
(***************************************************************************)
THEOREM ScriptTypesCorrect == E!Spec => []ScriptTypes
<1>1. E!Init => ScriptInv /\ VarsKnown
  BY InitScript, InitVars
<1>2. (ScriptInv /\ VarsKnown) /\ [E!Next]_(E!vars) => (ScriptInv /\ VarsKnown)'
  BY ScriptKept, VarsKept
<1>3. ScriptInv /\ VarsKnown => ScriptTypes
  <2>1. ASSUME ScriptInv, VarsKnown, NEW n \in 1 .. Len(script), script[n].kind = "var"
        PROVE  script[n].id \in 1 .. Len(mVarSet)
    <3>1. script[n] \in KnownTokens(Len(mVarSet))
      BY <2>1 DEF VarsKnown
    <3> QED BY <2>1, <3>1 DEF KnownTokens
  <2> QED BY <2>1 DEF ScriptInv, Scanning, VarsKnown, ScriptTypes, E!ScriptTypes
<1> QED BY <1>1, <1>2, <1>3, PTL DEF E!Spec

-----------------------------------------------------------------------------
(* Which rules are compiled: brackets.                                     *)

DepthOf(d, s) ==
  /\ d \in [0 .. Len(s) -> Int] /\ d[0] = 0
  /\ \A k \in 1 .. Len(s) : d[k] = d[k - 1] + E!Weight(s[k])

LEMMA WeightType == ASSUME NEW t PROVE E!Weight(t) \in Int
  BY DEF E!Weight

LEMMA DepthSolves ==
  ASSUME NEW T, NEW s, s \in Seq(T)
  PROVE  DepthOf(E!Depth(s), s)
<1> DEFINE n == Len(s)
           step == [k \in 1 .. n |-> [v \in Int |-> v + E!Weight(s[k])]]
           body(f) == [k \in 0 .. n |->
                        IF k = 0 THEN 0 ELSE f[k - 1] + E!Weight(s[k])]
           depth == CHOOSE f : f = body(f)
<1>1. n \in Nat
  BY LenProperties
<1>2. step \in [1 .. n -> [Int -> Int]]
  BY WeightType
<1>4. \E g \in [0 .. n -> Int] :
        g[0] = 0 /\ \A k \in 1 .. n : g[k] = step[k][g[k - 1]]
  <2>1. Recursion(Int, 0, n, step)
    BY <1>1, <1>2 DEF Recursion
  <2> HIDE DEF n, step
  <2> QED
    BY <2>1, RecursionExists DEF Solves
<1>5. PICK g \in [0 .. n -> Int] :
        g[0] = 0 /\ \A k \in 1 .. n : g[k] = step[k][g[k - 1]]
  BY <1>4
<1>6. \A k \in 1 .. n : g[k] = g[k - 1] + E!Weight(s[k])
  <2> SUFFICES ASSUME NEW k \in 1 .. n PROVE  g[k] = g[k - 1] + E!Weight(s[k])
    OBVIOUS
  <2>1. g[k - 1] \in Int
    BY <1>1
  <2> QED
    BY <1>5, <2>1
<1>7. g = body(g)
  <2>1. ASSUME NEW k \in 0 .. n
        PROVE  g[k] = IF k = 0 THEN 0 ELSE g[k - 1] + E!Weight(s[k])
    <3>1. CASE k = 0
      BY <1>5, <3>1
    <3>2. CASE k # 0
      <4>1. k \in 1 .. n
        BY <1>1, <3>2
      <4> QED
        BY <1>6, <3>2, <4>1
    <3> QED
      BY <3>1, <3>2
  <2>2. g = [k \in 0 .. n |-> g[k]]
    OBVIOUS
  <2> QED
    BY <2>1, <2>2
<1>8. depth = body(depth)
  <2> HIDE DEF body
  <2> QED
    BY <1>7
<1>9. E!Depth(s) = depth
  BY DEF E!Depth
<1>10. PICK f : f = depth
  OBVIOUS
<1>11. f = body(f) /\ E!Depth(s) = f
  <2> HIDE DEF depth, body
  <2> QED
    BY <1>8, <1>9, <1>10
<1>12. /\ f[0] = 0
       /\ \A k \in 1 .. n : f[k] = f[k - 1] + E!Weight(s[k])
       /\ f = [k \in 0 .. n |-> f[k]]
  <2> HIDE DEF depth
  <2>1. 0 \in 0 .. n /\ \A k \in 1 .. n : k \in 0 .. n /\ k # 0
    BY <1>1
  <2>2. /\ DOMAIN f = 0 .. n
        /\ \A k \in 0 .. n : f[k] = IF k = 0 THEN 0 ELSE f[k - 1] + E!Weight(s[k])
        /\ f = [k \in DOMAIN f |-> f[k]]
    BY <1>11
  <2> HIDE DEF n
  <2> QED
    BY <2>1, <2>2
<1>13. \A k \in 0 .. n : f[k] \in Int
  <2> DEFINE A == {k \in Nat : k <= n => f[k] \in Int}
  <2> HIDE DEF depth, n
  <2>1. 0 \in A
    BY <1>12
  <2>2. ASSUME NEW k \in Nat, k \in A PROVE k + 1 \in A
    <3> SUFFICES ASSUME k + 1 <= n PROVE f[k + 1] \in Int
      OBVIOUS
    <3>1. k + 1 \in 1 .. n /\ (k + 1) - 1 = k /\ f[k] \in Int
      BY <1>1, <2>2
    <3>2. f[k + 1] = f[k] + E!Weight(s[k + 1])
      BY <1>12, <3>1
    <3> QED
      BY <3>1, <3>2, WeightType
  <2>3. Nat \subseteq A
    BY <2>1, <2>2, NatInduces
  <2> QED
    BY <1>1, <2>3
<1>14. f \in [0 .. n -> Int]
  <2> HIDE DEF n, depth
  <2> QED
    BY <1>12, <1>13
<1> HIDE DEF depth
<1> QED
  BY <1>11, <1>12, <1>14 DEF DepthOf

\* Where no bracket is, the depth stays.
LEMMA DepthStays ==
  ASSUME NEW d, NEW s, NEW T, s \in Seq(T), DepthOf(d, s),
         NEW a \in Nat, NEW b \in Nat, a <= b, b <= Len(s),
         \A k \in a + 1 .. b : s[k].kind \notin {"(", ")"}
  PROVE  d[b] = d[a]
<1>1. PICK n \in Nat : n = Len(s)
  BY LenProperties
<1> DEFINE A == {m \in Nat : a + m <= b => d[a + m] = d[a]}
<1>2. 0 \in A
  OBVIOUS
<1>3. ASSUME NEW m \in Nat, m \in A PROVE m + 1 \in A
  <2> SUFFICES ASSUME a + (m + 1) <= b PROVE d[a + (m + 1)] = d[a]
    OBVIOUS
  <2>1. PICK k \in 1 .. n : k = a + (m + 1)
    BY <1>1
  <2>2. k \in a + 1 .. b /\ k - 1 = a + m /\ a + m <= b /\ k - 1 \in 0 .. n
    BY <2>1
  <2>3. d[k - 1] = d[a]
    BY <1>3, <2>2
  <2>4. E!Weight(s[k]) = 0
    BY <2>2 DEF E!Weight
  <2>5. d[k] = d[k - 1] + 0 /\ d[k - 1] \in Int
    BY <1>1, <2>1, <2>2, <2>4 DEF DepthOf
  <2> QED BY <2>1, <2>3, <2>5
<1>4. Nat \subseteq A
  <2> HIDE DEF A
  <2> QED BY <1>2, <1>3, NatInduces
<1>5. b - a \in Nat /\ a + (b - a) = b
  OBVIOUS
<1>6. b - a \in A
  <2> HIDE DEF A
  <2> QED BY <1>4, <1>5
<1> QED BY <1>5, <1>6

\* Two stretches of the same tokens that begin at the same depth.
Abreast(d, s, e, t, a, b, m) ==
  /\ s \in Seq(E!Tokens) /\ t \in Seq(E!Tokens) /\ DepthOf(d, s) /\ DepthOf(e, t)
  /\ a \in Nat /\ b \in Nat /\ m \in Nat /\ a + m <= Len(s) /\ b + m <= Len(t)
  /\ d[a] = e[b] /\ \A k \in 1 .. m : s[a + k] = t[b + k]

StayAbreast(d, e, a, b, m) == \A k \in 0 .. m : d[a + k] = e[b + k]

LEMMA DepthsAgree ==
  ASSUME NEW d, NEW s, NEW e, NEW t, NEW a, NEW b, NEW m, Abreast(d, s, e, t, a, b, m)
  PROVE  StayAbreast(d, e, a, b, m)
<1>0. /\ s \in Seq(E!Tokens) /\ t \in Seq(E!Tokens) /\ DepthOf(d, s) /\ DepthOf(e, t)
      /\ a \in Nat /\ b \in Nat /\ m \in Nat /\ a + m <= Len(s) /\ b + m <= Len(t)
      /\ d[a] = e[b] /\ \A k \in 1 .. m : s[a + k] = t[b + k]
  BY DEF Abreast
<1>1. PICK l \in Nat : l = Len(s)
  BY <1>0, LenProperties
<1>2. PICK n \in Nat : n = Len(t)
  BY <1>0, LenProperties
<1> DEFINE A == {k \in Nat : k <= m => d[a + k] = e[b + k]}
<1>3. 0 \in A
  BY <1>0
<1>4. ASSUME NEW k \in Nat, k \in A PROVE k + 1 \in A
  <2> SUFFICES ASSUME k + 1 <= m PROVE d[a + (k + 1)] = e[b + (k + 1)]
    OBVIOUS
  <2>1. PICK p \in 1 .. l : p = a + (k + 1)
    BY <1>0, <1>1
  <2>2. PICK q \in 1 .. n : q = b + (k + 1)
    BY <1>0, <1>2
  <2>3. p - 1 = a + k /\ q - 1 = b + k /\ k + 1 \in 1 .. m /\ k <= m
    BY <1>0, <2>1, <2>2
  <2>4. s[p] = t[q] /\ d[p - 1] = e[q - 1]
    <3>1. s[a + (k + 1)] = t[b + (k + 1)]
      BY <1>0, <2>3
    <3>2. d[a + k] = e[b + k]
      BY <1>4, <2>3
    <3> QED BY <2>1, <2>2, <2>3, <3>1, <3>2
  <2>5. d[p] = d[p - 1] + E!Weight(s[p]) /\ e[q] = e[q - 1] + E!Weight(t[q])
    BY <1>0, <1>1, <1>2, <2>1, <2>2 DEF DepthOf
  <2> QED BY <2>1, <2>2, <2>4, <2>5
<1>5. Nat \subseteq A
  <2> HIDE DEF A
  <2> QED BY <1>3, <1>4, NatInduces
<1> QED BY <1>0, <1>5 DEF StayAbreast

-----------------------------------------------------------------------------
(* A pair of brackets with none inside is replaced by a variable.          *)

Replaces(s, t, pos, q) ==
  /\ s \in Seq(E!Tokens) /\ t \in Seq(E!Tokens)
  /\ pos \in 1 .. q - 1 /\ q \in 1 .. Len(s) /\ Len(t) = pos + (Len(s) - q)
  /\ s[pos].kind = "(" /\ s[q].kind = ")" /\ t[pos].kind = "var"
  /\ \A p \in 1 .. pos - 1 : t[p] = s[p]
  /\ \A k \in 1 .. Len(s) - q : t[pos + k] = s[q + k]
  /\ \A p \in pos + 1 .. q - 1 : s[p].kind \notin {"(", ")"}

\* The depths of a script of n tokens, before and after.
DepthsReplaced(d, e, pos, q, n) ==
  /\ \A k \in 0 .. pos - 1 : e[k] = d[k]
  /\ \A k \in pos .. q - 1 : d[k] = d[pos - 1] + 1
  /\ \A k \in 0 .. n - q : e[pos + k] = d[q + k]

LEMMA ReplacedDepths ==
  ASSUME NEW s, NEW t, NEW pos, NEW q, Replaces(s, t, pos, q),
         NEW d, NEW e, DepthOf(d, s), DepthOf(e, t)
  PROVE  DepthsReplaced(d, e, pos, q, Len(s))
<1>1. PICK n \in Nat : n = Len(s)
  BY DEF Replaces
<1>2. /\ s \in Seq(E!Tokens) /\ t \in Seq(E!Tokens)
      /\ pos \in Nat /\ q \in Nat /\ 1 <= pos /\ pos <= q - 1 /\ q <= n
      /\ Len(t) = pos + (n - q) /\ pos - 1 \in Nat /\ n - q \in Nat
      /\ pos \in 1 .. n /\ q \in 1 .. n
  BY <1>1 DEF Replaces
<1>3. d[0] = e[0] /\ d \in [0 .. n -> Int] /\ e \in [0 .. Len(t) -> Int]
  BY <1>1 DEF DepthOf
<1>4. \A k \in 1 .. pos - 1 : s[0 + k] = t[0 + k]
  BY <1>2 DEF Replaces
<1>5. \A k \in 0 .. pos - 1 : d[0 + k] = e[0 + k]
  <2>1. 0 + (pos - 1) <= Len(s) /\ 0 + (pos - 1) <= Len(t)
    BY <1>1, <1>2
  <2>2. Abreast(d, s, e, t, 0, 0, pos - 1)
    BY <1>2, <1>3, <1>4, <2>1 DEF Abreast
  <2>3. StayAbreast(d, e, 0, 0, pos - 1)
    BY <2>2, DepthsAgree
  <2> QED BY <2>3 DEF StayAbreast
<1>6. \A k \in 0 .. pos - 1 : e[k] = d[k]
  BY <1>2, <1>5
<1>7. d[pos] = d[pos - 1] + 1 /\ d[pos - 1] \in Int
  <2>1. E!Weight(s[pos]) = 1
    BY DEF Replaces, E!Weight
  <2>2. d[pos] = d[pos - 1] + E!Weight(s[pos])
    BY <1>1, <1>2 DEF DepthOf
  <2>3. pos - 1 \in 0 .. n
    BY <1>2
  <2> QED BY <1>3, <2>1, <2>2, <2>3
<1>8. ASSUME NEW k \in pos .. q - 1 PROVE d[k] = d[pos - 1] + 1
  <2>1. k \in Nat /\ pos <= k /\ k <= Len(s)
    BY <1>1, <1>2
  <2>2. \A p \in pos + 1 .. k : s[p].kind \notin {"(", ")"}
    BY <1>2 DEF Replaces
  <2> QED BY <1>2, <1>7, <2>1, <2>2, DepthStays
<1>9. d[q] = d[pos - 1]
  <2>1. E!Weight(s[q]) = 0 - 1
    BY DEF Replaces, E!Weight
  <2>2. d[q] = d[q - 1] + (0 - 1)
    BY <1>1, <1>2, <2>1 DEF DepthOf
  <2>3. d[q - 1] = d[pos - 1] + 1
    BY <1>2, <1>8
  <2> QED BY <1>7, <2>2, <2>3
<1>10. e[pos] = e[pos - 1]
  <2>1. E!Weight(t[pos]) = 0
    BY DEF Replaces, E!Weight
  <2>2. pos \in 1 .. Len(t) /\ pos - 1 \in 0 .. Len(t)
    BY <1>2
  <2>3. e[pos] = e[pos - 1] + E!Weight(t[pos])
    BY <1>2, <2>2 DEF DepthOf
  <2>4. e[pos - 1] \in Int
    BY <1>3, <2>2
  <2> QED BY <2>1, <2>3, <2>4
<1>11. d[q] = e[pos]
  BY <1>2, <1>6, <1>9, <1>10
<1>12. \A k \in 1 .. n - q : s[q + k] = t[pos + k]
  BY <1>1 DEF Replaces
<1>13. q + (n - q) <= Len(s) /\ pos + (n - q) <= Len(t)
  BY <1>1, <1>2
<1>14. \A k \in 0 .. n - q : d[q + k] = e[pos + k]
  <2>1. Abreast(d, s, e, t, q, pos, n - q)
    BY <1>2, <1>11, <1>12, <1>13 DEF Abreast
  <2>2. StayAbreast(d, e, q, pos, n - q)
    BY <2>1, DepthsAgree
  <2> QED BY <2>2 DEF StayAbreast
<1> QED BY <1>1, <1>6, <1>8, <1>14 DEF DepthsReplaced

LEMMA MatchSurvives ==
  ASSUME NEW s, NEW t, NEW pos, NEW q, Replaces(s, t, pos, q)
  PROVE  E!BracketsMatch(s) <=> E!BracketsMatch(t)
<1>1. PICK d : d = E!Depth(s)
  OBVIOUS
<1>2. PICK e : e = E!Depth(t)
  OBVIOUS
<1>3. DepthOf(d, s) /\ DepthOf(e, t)
  <2>1. s \in Seq(E!Tokens) /\ t \in Seq(E!Tokens)
    BY DEF Replaces
  <2> QED BY <1>1, <1>2, <2>1, DepthSolves
<1>4. PICK n \in Nat : n = Len(s)
  BY DEF Replaces
<1>5. /\ pos \in Nat /\ q \in Nat /\ 1 <= pos /\ pos <= q - 1 /\ q <= n
      /\ Len(t) = pos + (n - q)
  BY <1>4 DEF Replaces
<1>6. /\ \A k \in 0 .. pos - 1 : e[k] = d[k]
      /\ \A k \in pos .. q - 1 : d[k] = d[pos - 1] + 1
      /\ \A k \in 0 .. n - q : e[pos + k] = d[q + k]
  <2>1. DepthsReplaced(d, e, pos, q, Len(s))
    BY <1>3, ReplacedDepths
  <2> QED BY <1>4, <2>1 DEF DepthsReplaced
<1>7. \A k \in 0 .. n : d[k] \in Int
  BY <1>3, <1>4 DEF DepthOf
<1>8. e[Len(t)] = d[n]
  <2>1. n - q \in 0 .. n - q /\ q + (n - q) = n
    BY <1>5
  <2> QED BY <1>5, <1>6, <2>1
<1>9. ASSUME \A k \in 0 .. n : d[k] >= 0, NEW k \in 0 .. Len(t) PROVE e[k] >= 0
  <2>1. CASE k <= pos - 1
    BY <1>5, <1>6, <1>9, <2>1
  <2>2. CASE ~(k <= pos - 1)
    <3>1. PICK j \in 0 .. n - q : k = pos + j
      <4>1. k - pos \in 0 .. n - q /\ k = pos + (k - pos)
        BY <1>5, <2>2
      <4> QED BY <4>1
    <3>2. q + j \in 0 .. n
      BY <1>5
    <3> QED BY <1>6, <1>9, <3>1, <3>2
  <2> QED BY <2>1, <2>2
<1>10. ASSUME \A k \in 0 .. Len(t) : e[k] >= 0, NEW k \in 0 .. n PROVE d[k] >= 0
  <2>1. CASE k <= pos - 1
    BY <1>5, <1>6, <1>10, <2>1
  <2>2. CASE k \in pos .. q - 1
    <3>1. pos - 1 \in 0 .. pos - 1 /\ pos - 1 \in 0 .. Len(t) /\ pos - 1 \in 0 .. n
      BY <1>5
    <3>2. d[pos - 1] >= 0 /\ d[pos - 1] \in Int
      BY <1>6, <1>7, <1>10, <3>1
    <3> QED BY <1>6, <2>2, <3>2
  <2>3. CASE k >= q
    <3>1. PICK j \in 0 .. n - q : k = q + j
      <4>1. k - q \in 0 .. n - q /\ k = q + (k - q)
        BY <1>5, <2>3
      <4> QED BY <4>1
    <3>2. pos + j \in 0 .. Len(t)
      BY <1>5
    <3> QED BY <1>6, <1>10, <3>1, <3>2
  <2> QED BY <1>5, <2>1, <2>2, <2>3
<1> QED BY <1>1, <1>2, <1>4, <1>8, <1>9, <1>10 DEF E!BracketsMatch

-----------------------------------------------------------------------------
(* Which rules are compiled: operands.                                     *)

\* The operator at p has no operand on either side.
LoneAt(s, p) ==
  /\ s[p].kind \in E!Operators
  /\ p # 1 => s[p - 1].kind \in E!Operators \cup {"("}
  /\ p # Len(s) => s[p + 1].kind \in E!Operators \cup {")"}

LEMMA LoneIsAt ==
  ASSUME NEW s
  PROVE  E!LoneOperator(s) <=> \E p \in 1 .. Len(s) : LoneAt(s, p)
BY DEF E!LoneOperator, LoneAt

LEMMA LoneSurvives ==
  ASSUME NEW s, NEW t, NEW pos, NEW q, Replaces(s, t, pos, q),
         \A p \in pos + 1 .. q - 1 : ~LoneAt(s, p)
  PROVE  E!LoneOperator(s) <=> E!LoneOperator(t)
<1>1. PICK n \in Nat : n = Len(s)
  BY DEF Replaces
<1>2. PICK l \in Nat : l = Len(t)
  <2>1. t \in Seq(E!Tokens)
    BY DEF Replaces
  <2> QED BY <2>1
<1>3. /\ pos \in Nat /\ q \in Nat /\ 1 <= pos /\ pos <= q - 1 /\ q <= n
      /\ l = pos + (n - q)
      /\ s[pos].kind = "(" /\ s[q].kind = ")" /\ t[pos].kind = "var"
      /\ \A p \in 1 .. pos - 1 : t[p] = s[p]
      /\ \A k \in 1 .. n - q : t[pos + k] = s[q + k]
  BY <1>1, <1>2 DEF Replaces
<1>4. ASSUME NEW p \in 1 .. pos - 1 PROVE LoneAt(s, p) <=> LoneAt(t, p)
  <2>1. t[p] = s[p] /\ p # n /\ p # l /\ p \in Nat
    BY <1>3
  <2>2. p # 1 => t[p - 1] = s[p - 1]
    <3>1. p # 1 => p - 1 \in 1 .. pos - 1
      BY <1>3
    <3> QED BY <1>3, <3>1
  <2>3. CASE p + 1 = pos
    <3>1. /\ s[p + 1].kind \notin E!Operators \cup {")"}
          /\ t[p + 1].kind \notin E!Operators \cup {")"}
      BY <1>3, <2>3 DEF E!Operators
    <3> QED BY <1>1, <1>2, <2>1, <3>1 DEF LoneAt
  <2>4. CASE p + 1 # pos
    <3>1. t[p + 1] = s[p + 1]
      <4>1. p + 1 \in 1 .. pos - 1
        BY <1>3, <2>4
      <4> QED BY <1>3, <4>1
    <3> QED BY <1>1, <1>2, <2>1, <2>2, <3>1 DEF LoneAt
  <2> QED BY <2>3, <2>4
<1>5. ASSUME NEW k \in 1 .. n - q PROVE LoneAt(s, q + k) <=> LoneAt(t, pos + k)
  <2>1. t[pos + k] = s[q + k]
    BY <1>3
  <2>2. q + k # 1 /\ pos + k # 1
    BY <1>3
  <2>3. q + k = n <=> pos + k = l
    BY <1>3
  <2>4. s[(q + k) - 1].kind \in E!Operators \cup {"("}
          <=> t[(pos + k) - 1].kind \in E!Operators \cup {"("}
    <3>1. CASE k = 1
      <4>1. (q + k) - 1 = q /\ (pos + k) - 1 = pos
        BY <1>3, <3>1
      <4> QED BY <1>3, <4>1 DEF E!Operators
    <3>2. CASE k # 1
      <4>1. PICK j \in 1 .. n - q : k = j + 1
        <5>1. k - 1 \in 1 .. n - q /\ k = (k - 1) + 1
          BY <1>3, <3>2
        <5> QED BY <5>1
      <4>2. (q + k) - 1 = q + j /\ (pos + k) - 1 = pos + j
        BY <1>3, <4>1
      <4>3. t[pos + j] = s[q + j]
        BY <1>3
      <4> QED BY <4>2, <4>3
    <3> QED BY <3>1, <3>2
  <2>5. q + k # n => t[(pos + k) + 1] = s[(q + k) + 1]
    <3>1. SUFFICES ASSUME q + k # n PROVE t[(pos + k) + 1] = s[(q + k) + 1]
      OBVIOUS
    <3>2. k + 1 \in 1 .. n - q /\ (pos + k) + 1 = pos + (k + 1)
          /\ (q + k) + 1 = q + (k + 1)
      BY <1>3, <3>1
    <3> QED BY <1>3, <3>2
  <2> QED BY <1>1, <1>2, <2>1, <2>2, <2>3, <2>4, <2>5 DEF LoneAt
<1>6. ASSUME NEW p \in 1 .. n, LoneAt(s, p) PROVE \E r \in 1 .. l : LoneAt(t, r)
  <2>1. p # pos /\ p # q
    BY <1>3, <1>6 DEF LoneAt, E!Operators
  <2>2. p \notin pos + 1 .. q - 1
    BY <1>6
  <2>3. p \in 1 .. pos - 1 \/ p \in q + 1 .. n
    BY <1>3, <2>1, <2>2
  <2>4. CASE p \in 1 .. pos - 1
    <3>1. LoneAt(t, p) /\ p \in 1 .. l
      BY <1>3, <1>4, <1>6, <2>4
    <3> QED BY <3>1
  <2>5. CASE p \in q + 1 .. n
    <3>1. PICK k \in 1 .. n - q : p = q + k
      <4>1. p - q \in 1 .. n - q /\ p = q + (p - q)
        BY <1>3, <2>5
      <4> QED BY <4>1
    <3>2. LoneAt(t, pos + k) /\ pos + k \in 1 .. l
      BY <1>3, <1>5, <1>6, <3>1
    <3> QED BY <3>2
  <2> QED BY <2>3, <2>4, <2>5
<1>7. ASSUME NEW p \in 1 .. l, LoneAt(t, p) PROVE \E r \in 1 .. n : LoneAt(s, r)
  <2>1. p # pos
    BY <1>3, <1>7 DEF LoneAt, E!Operators
  <2>2. CASE p \in 1 .. pos - 1
    <3>1. LoneAt(s, p) /\ p \in 1 .. n
      BY <1>3, <1>4, <1>7, <2>2
    <3> QED BY <3>1
  <2>3. CASE p \notin 1 .. pos - 1
    <3>1. PICK k \in 1 .. n - q : p = pos + k
      <4>1. p - pos \in 1 .. n - q /\ p = pos + (p - pos)
        BY <1>3, <2>1, <2>3
      <4> QED BY <4>1
    <3>2. LoneAt(s, q + k) /\ q + k \in 1 .. n
      BY <1>3, <1>5, <1>7, <3>1
    <3> QED BY <3>2
  <2> QED BY <2>2, <2>3
<1>8. /\ E!LoneOperator(s) <=> \E p \in 1 .. n : LoneAt(s, p)
      /\ E!LoneOperator(t) <=> \E p \in 1 .. l : LoneAt(t, p)
  BY <1>1, <1>2, LoneIsAt
<1> QED BY <1>6, <1>7, <1>8

\* What is between two brackets, as a script of its own.
LEMMA LoneInside ==
  ASSUME NEW s \in Seq(E!Tokens), NEW a \in Nat, NEW b \in Nat, 1 <= a, a < b,
         b <= Len(s), s[a].kind = "(", s[b].kind = ")",
         NEW c, c = SubSeq(s, a + 1, b - 1)
  PROVE  E!LoneOperator(c) <=> \E p \in a + 1 .. b - 1 : LoneAt(s, p)
<1>1. PICK n \in Nat : n = Len(s)
  OBVIOUS
<1>2. PICK m \in Nat : m = b - 1 - a
  OBVIOUS
<1>3. Len(c) = m /\ \A k \in 1 .. m : c[k] = s[a + k]
  <2>1. \A k \in a + 1 .. b - 1 : s[k] \in E!Tokens
    BY <1>1
  <2>2. a + 1 \in Int /\ b - 1 \in Int
    OBVIOUS
  <2>3. /\ Len(c) = IF a + 1 <= b - 1 THEN (b - 1) - (a + 1) + 1 ELSE 0
        /\ \A k \in 1 .. (b - 1) - (a + 1) + 1 : c[k] = s[(a + 1) + k - 1]
    BY <2>1, <2>2, SubSeqProperties
  <2>4. (b - 1) - (a + 1) + 1 = m /\ \A k \in 1 .. m : (a + 1) + k - 1 = a + k
    BY <1>2
  <2>5. ~(a + 1 <= b - 1) => m = 0
    BY <1>2
  <2> QED BY <2>3, <2>4, <2>5
<1>4. ASSUME NEW k \in 1 .. m PROVE LoneAt(c, k) <=> LoneAt(s, a + k)
  <2>1. c[k] = s[a + k] /\ a + k # 1 /\ a + k # n
    BY <1>1, <1>2, <1>3
  <2>2. (k # 1 => c[k - 1].kind \in E!Operators \cup {"("})
          <=> s[(a + k) - 1].kind \in E!Operators \cup {"("}
    <3>1. CASE k = 1
      <4>1. (a + k) - 1 = a
        BY <3>1
      <4> QED BY <3>1, <4>1
    <3>2. CASE k # 1
      <4>1. k - 1 \in 1 .. m /\ a + (k - 1) = (a + k) - 1
        BY <3>2
      <4>2. c[k - 1] = s[(a + k) - 1]
        BY <1>3, <4>1
      <4> QED BY <3>2, <4>2
    <3> QED BY <3>1, <3>2
  <2>3. (k # m => c[k + 1].kind \in E!Operators \cup {")"})
          <=> s[(a + k) + 1].kind \in E!Operators \cup {")"}
    <3>1. CASE k = m
      <4>1. (a + k) + 1 = b
        BY <1>2, <3>1
      <4> QED BY <3>1, <4>1
    <3>2. CASE k # m
      <4>1. k + 1 \in 1 .. m /\ a + (k + 1) = (a + k) + 1
        BY <3>2
      <4>2. c[k + 1] = s[(a + k) + 1]
        BY <1>3, <4>1
      <4> QED BY <3>2, <4>2
    <3> QED BY <3>1, <3>2
  <2> QED BY <1>1, <1>3, <2>1, <2>2, <2>3 DEF LoneAt
<1>5. E!LoneOperator(c) <=> \E k \in 1 .. m : LoneAt(c, k)
  BY <1>3, LoneIsAt
<1>6. ASSUME NEW k \in 1 .. m PROVE a + k \in a + 1 .. b - 1
  BY <1>2
<1>7. ASSUME NEW p \in a + 1 .. b - 1 PROVE \E k \in 1 .. m : p = a + k
  <2>1. p - a \in 1 .. m /\ p = a + (p - a)
    BY <1>2
  <2> QED BY <2>1
<1> QED BY <1>4, <1>5, <1>6, <1>7

-----------------------------------------------------------------------------
(* SimpleCompile finds an operator for an operand exactly where one is     *)
(* alone.                                                                  *)

Halves == [strSet : Seq(Seq(E!Tokens)), sub : Seq(E!Tokens)]

PutToken(st, token) ==
  IF token.kind \in E!Operators /\ st.sub # <<>>
  THEN [strSet |-> st.strSet \o <<st.sub, <<token>> >>, sub |-> <<>>]
  ELSE [st EXCEPT !.sub = Append(@, token)]

SplitOf(g, s) ==
  /\ g \in [0 .. Len(s) -> Halves]
  /\ g[0] = [strSet |-> <<>>, sub |-> <<>>]
  /\ \A k \in 1 .. Len(s) : g[k] = PutToken(g[k - 1], s[k])
  /\ E!Split(s) = IF g[Len(s)].sub # <<>> \/ s = <<>>
                  THEN Append(g[Len(s)].strSet, g[Len(s)].sub)
                  ELSE g[Len(s)].strSet

LEMMA PutType ==
  ASSUME NEW st \in Halves, NEW token \in E!Tokens
  PROVE  PutToken(st, token) \in Halves
<1>1. PICK a : a = <<st.sub, <<token>> >>
  OBVIOUS
<1>2. PICK b : b = <<token>>
  OBVIOUS
<1>3. b \in Seq(E!Tokens)
  BY <1>2
<1>4. st.strSet \in Seq(Seq(E!Tokens)) /\ st.sub \in Seq(E!Tokens)
  BY DEF Halves
<1>5. a \in Seq(Seq(E!Tokens))
  <2>1. a = <<st.sub, b>>
    BY <1>1, <1>2
  <2> QED BY <1>3, <1>4, <2>1
<1>6. st.strSet \o a \in Seq(Seq(E!Tokens))
  BY <1>4, <1>5, ConcatProperties
<1>7. Append(st.sub, token) \in Seq(E!Tokens)
  BY <1>4, AppendProperties
<1>8. <<>> \in Seq(E!Tokens)
  BY EmptySeq
<1>9. CASE token.kind \in E!Operators /\ st.sub # <<>>
  <2>1. PutToken(st, token) = [strSet |-> st.strSet \o a, sub |-> <<>>]
    BY <1>1, <1>9 DEF PutToken
  <2> QED BY <1>6, <1>8, <2>1 DEF Halves
<1>10. CASE ~(token.kind \in E!Operators /\ st.sub # <<>>)
  <2>1. PutToken(st, token) = [st EXCEPT !.sub = Append(st.sub, token)]
    BY <1>10 DEF PutToken
  <2> QED BY <1>7, <2>1 DEF Halves
<1> QED BY <1>9, <1>10

LEMMA SplitSolves ==
  ASSUME NEW s \in Seq(E!Tokens)
  PROVE  \E g : SplitOf(g, s)
<1> DEFINE n == Len(s)
           start == [strSet |-> <<>>, sub |-> <<>>]
           step == [k \in 1 .. n |-> [v \in Halves |-> PutToken(v, s[k])]]
           body(f) == [k \in 0 .. n |-> IF k = 0 THEN start ELSE PutToken(f[k - 1], s[k])]
           scan == CHOOSE f : f = body(f)
<1>1. n \in Nat
  BY LenProperties
<1>2. step \in [1 .. n -> [Halves -> Halves]]
  <2>1. ASSUME NEW k \in 1 .. n, NEW v \in Halves PROVE PutToken(v, s[k]) \in Halves
    <3>1. s[k] \in E!Tokens
      BY <1>1
    <3> QED BY <3>1, PutType
  <2> QED BY <2>1
<1>3. start \in Halves
  BY EmptySeq DEF Halves
<1>4. \E g \in [0 .. n -> Halves] :
        g[0] = start /\ \A k \in 1 .. n : g[k] = step[k][g[k - 1]]
  <2>1. Recursion(Halves, start, n, step)
    BY <1>1, <1>2, <1>3 DEF Recursion
  <2> HIDE DEF n, start, step
  <2> QED
    BY <2>1, RecursionExists DEF Solves
<1>5. PICK g \in [0 .. n -> Halves] :
        g[0] = start /\ \A k \in 1 .. n : g[k] = step[k][g[k - 1]]
  BY <1>4
<1>6. \A k \in 1 .. n : g[k] = PutToken(g[k - 1], s[k])
  <2> SUFFICES ASSUME NEW k \in 1 .. n PROVE  g[k] = PutToken(g[k - 1], s[k])
    OBVIOUS
  <2>1. g[k - 1] \in Halves
    BY <1>1
  <2> QED
    BY <1>5, <2>1
<1>7. g = body(g)
  <2> HIDE DEF start
  <2>1. ASSUME NEW k \in 0 .. n
        PROVE  g[k] = IF k = 0 THEN start ELSE PutToken(g[k - 1], s[k])
    <3>1. CASE k = 0
      BY <1>5, <3>1
    <3>2. CASE k # 0
      <4>1. k \in 1 .. n
        BY <1>1, <3>2
      <4> QED
        BY <1>6, <3>2, <4>1
    <3> QED
      BY <3>1, <3>2
  <2>2. g = [k \in 0 .. n |-> g[k]]
    OBVIOUS
  <2> QED
    BY <2>1, <2>2
<1>8. scan = body(scan)
  <2> HIDE DEF body
  <2> QED
    BY <1>7
<1>9. E!Split(s) = IF scan[n].sub # <<>> \/ s = <<>>
                   THEN Append(scan[n].strSet, scan[n].sub) ELSE scan[n].strSet
  BY DEF E!Split, PutToken
<1>10. PICK f : f = scan
  OBVIOUS
<1>11. /\ f = body(f)
       /\ E!Split(s) = IF f[n].sub # <<>> \/ s = <<>>
                       THEN Append(f[n].strSet, f[n].sub) ELSE f[n].strSet
  <2> HIDE DEF scan, body
  <2> QED
    BY <1>8, <1>9, <1>10
<1>12. /\ f[0] = start
       /\ \A k \in 1 .. n : f[k] = PutToken(f[k - 1], s[k])
       /\ f = [k \in 0 .. n |-> f[k]]
  <2> HIDE DEF scan, start
  <2>1. 0 \in 0 .. n /\ \A k \in 1 .. n : k \in 0 .. n /\ k # 0
    BY <1>1
  <2>2. /\ DOMAIN f = 0 .. n
        /\ \A k \in 0 .. n : f[k] = IF k = 0 THEN start ELSE PutToken(f[k - 1], s[k])
        /\ f = [k \in DOMAIN f |-> f[k]]
    BY <1>11
  <2> HIDE DEF n
  <2> QED
    BY <2>1, <2>2
<1>13. \A k \in 0 .. n : f[k] \in Halves
  <2> DEFINE A == {k \in Nat : k <= n => f[k] \in Halves}
  <2> HIDE DEF scan, n, start
  <2>1. 0 \in A
    BY <1>3, <1>12
  <2>2. ASSUME NEW k \in Nat, k \in A PROVE k + 1 \in A
    <3> SUFFICES ASSUME k + 1 <= n PROVE f[k + 1] \in Halves
      OBVIOUS
    <3>1. k + 1 \in 1 .. n /\ (k + 1) - 1 = k /\ f[k] \in Halves
      BY <1>1, <2>2
    <3>2. f[k + 1] = PutToken(f[k], s[k + 1])
      BY <1>12, <3>1
    <3>3. s[k + 1] \in E!Tokens
      BY <3>1 DEF n
    <3> QED
      BY <3>1, <3>2, <3>3, PutType
  <2>3. Nat \subseteq A
    BY <2>1, <2>2, NatInduces
  <2> QED
    BY <1>1, <2>3
<1>14. f \in [0 .. n -> Halves]
  <2> HIDE DEF n, scan
  <2> QED
    BY <1>12, <1>13
<1> HIDE DEF scan
<1> QED
  BY <1>11, <1>12, <1>14 DEF SplitOf

IsOp(t) == t.kind \in E!Operators

LoneOne(sub) == Len(sub) = 1 /\ IsOp(sub[1])

HasLone(strSet) == \E n \in 1 .. Len(strSet) : n % 2 = 1 /\ LoneOne(strSet[n])

LEMMA OddNext == ASSUME NEW m \in Nat PROVE (2 * m + 1) % 2 = 1 /\ (2 * m + 2) % 2 = 0
  BY SMTT(30)

LEMMA LastOfAppend ==
  ASSUME NEW T, NEW s \in Seq(T), NEW e \in T
  PROVE  Len(Append(s, e)) = Len(s) + 1 /\ Append(s, e)[Len(s) + 1] = e
  OBVIOUS

LEMMA LastOperand ==
  ASSUME NEW ss \in Seq(Seq(E!Tokens)), NEW m \in Nat, Len(ss) = 2 * m,
         NEW a \in Seq(E!Tokens)
  PROVE  HasLone(Append(ss, a)) <=> HasLone(ss) \/ LoneOne(a)
<1>1. PICK l \in Nat : l = Len(ss)
  BY LenProperties
<1>2. PICK r : r = Append(ss, a)
  OBVIOUS
<1>3. Len(r) = l + 1 /\ r[l + 1] = a /\ \A n \in 1 .. l : r[n] = ss[n]
  <2>1. Len(r) = l + 1 /\ r[l + 1] = a
    BY <1>1, <1>2, LastOfAppend
  <2>2. \A n \in 1 .. l : r[n] = ss[n]
    BY <1>1, <1>2, AppendProperties
  <2> QED BY <2>1, <2>2
<1>4. (l + 1) % 2 = 1
  BY <1>1, OddNext
<1>5. HasLone(r) <=> \E n \in 1 .. l + 1 : n % 2 = 1 /\ LoneOne(r[n])
  BY <1>3 DEF HasLone
<1>6. HasLone(ss) <=> \E n \in 1 .. l : n % 2 = 1 /\ LoneOne(ss[n])
  BY <1>1 DEF HasLone
<1>7. \A n \in 1 .. l + 1 : n \in 1 .. l \/ n = l + 1
  OBVIOUS
<1>8. l + 1 \in 1 .. l + 1 /\ \A n \in 1 .. l : n \in 1 .. l + 1
  OBVIOUS
<1> QED BY <1>2, <1>3, <1>4, <1>5, <1>6, <1>7, <1>8

LEMMA OperandAndOperator ==
  ASSUME NEW ss \in Seq(Seq(E!Tokens)), NEW m \in Nat, Len(ss) = 2 * m,
         NEW a \in Seq(E!Tokens), NEW b \in Seq(E!Tokens)
  PROVE  /\ HasLone(ss \o <<a, b>>) <=> HasLone(ss) \/ LoneOne(a)
         /\ Len(ss \o <<a, b>>) = 2 * (m + 1)
<1>1. PICK l \in Nat : l = Len(ss)
  BY LenProperties
<1>2. PICK r : r = ss \o <<a, b>>
  OBVIOUS
<1>3. PICK ab : ab = <<a, b>>
  OBVIOUS
<1>4. ab \in Seq(Seq(E!Tokens)) /\ Len(ab) = 2 /\ ab[1] = a /\ ab[2] = b
  BY <1>3
<1>5. Len(r) = l + 2 /\ \A n \in 1 .. l + 2 : r[n] = IF n <= l THEN ss[n] ELSE ab[n - l]
  <2>1. r = ss \o ab
    BY <1>2, <1>3
  <2>2. Len(r) = Len(ss) + Len(ab)
    BY <1>4, <2>1, ConcatProperties
  <2>3. \A n \in 1 .. Len(ss) + Len(ab) :
          r[n] = IF n <= Len(ss) THEN ss[n] ELSE ab[n - Len(ss)]
    <3>1. ss \in Seq(Seq(E!Tokens)) /\ ab \in Seq(Seq(E!Tokens))
      BY <1>4
    <3>2. \A n \in 1 .. Len(ss) + Len(ab) :
            (ss \o ab)[n] = IF n <= Len(ss) THEN ss[n] ELSE ab[n - Len(ss)]
      BY <3>1, ConcatProperties, Zenon
    <3> QED BY <2>1, <3>2
  <2> QED BY <1>1, <1>4, <2>2, <2>3
<1>6. r[l + 1] = a /\ r[l + 2] = b /\ \A n \in 1 .. l : r[n] = ss[n]
  <2>1. l + 1 \in 1 .. l + 2 /\ ~(l + 1 <= l) /\ (l + 1) - l = 1
    OBVIOUS
  <2>2. l + 2 \in 1 .. l + 2 /\ ~(l + 2 <= l) /\ (l + 2) - l = 2
    OBVIOUS
  <2>3. \A n \in 1 .. l : n \in 1 .. l + 2 /\ n <= l
    OBVIOUS
  <2> QED BY <1>4, <1>5, <2>1, <2>2, <2>3
<1>7. (l + 1) % 2 = 1 /\ (l + 2) % 2 = 0
  BY <1>1, OddNext
<1>8. HasLone(r) <=> \E n \in 1 .. l + 2 : n % 2 = 1 /\ LoneOne(r[n])
  BY <1>5 DEF HasLone
<1>9. HasLone(ss) <=> \E n \in 1 .. l : n % 2 = 1 /\ LoneOne(ss[n])
  BY <1>1 DEF HasLone
<1>10. \A n \in 1 .. l + 2 : n \in 1 .. l \/ n = l + 1 \/ n = l + 2
  OBVIOUS
<1>11. l + 1 \in 1 .. l + 2 /\ \A n \in 1 .. l : n \in 1 .. l + 2
  OBVIOUS
<1>12. HasLone(r) <=> HasLone(ss) \/ LoneOne(a)
  BY <1>6, <1>7, <1>8, <1>9, <1>10, <1>11
<1>13. Len(r) = 2 * (m + 1)
  BY <1>1, <1>5
<1> QED BY <1>2, <1>12, <1>13

NoBrackets(s) == \A p \in 1 .. Len(s) : s[p].kind \notin {"(", ")"}

LEMMA LoneAmong ==
  ASSUME NEW s \in Seq(E!Tokens), NoBrackets(s), NEW p \in 1 .. Len(s)
  PROVE  LoneAt(s, p) <=> /\ IsOp(s[p]) /\ (p = 1 \/ IsOp(s[p - 1]))
                          /\ (p = Len(s) \/ IsOp(s[p + 1]))
<1>1. PICK n \in Nat : n = Len(s)
  BY LenProperties
<1>2. p # 1 => s[p - 1].kind \notin {"(", ")"}
  <2>1. p # 1 => p - 1 \in 1 .. n
    BY <1>1
  <2> QED BY <1>1, <2>1 DEF NoBrackets
<1>3. p # n => s[p + 1].kind \notin {"(", ")"}
  <2>1. p # n => p + 1 \in 1 .. n
    BY <1>1
  <2> QED BY <1>1, <2>1 DEF NoBrackets
<1> QED BY <1>1, <1>2, <1>3 DEF LoneAt, IsOp

LoneBefore(s, n) == \E p \in 1 .. n - 1 : LoneAt(s, p)

LEMMA LoneBeforeNext ==
  ASSUME NEW s, NEW n \in Nat
  PROVE  LoneBefore(s, n + 1) <=> LoneBefore(s, n) \/ (n # 0 /\ LoneAt(s, n))
<1>1. (n + 1) - 1 = n
  OBVIOUS
<1>2. \A p \in 1 .. n : p \in 1 .. n - 1 \/ p = n
  OBVIOUS
<1>3. \A p \in 1 .. n - 1 : p \in 1 .. n
  OBVIOUS
<1>4. n # 0 => n \in 1 .. n
  OBVIOUS
<1>5. n = 0 => 1 .. n = {}
  OBVIOUS
<1> QED BY <1>1, <1>2, <1>3, <1>4, <1>5 DEF LoneBefore

\* An operand is due, an operator has come for one, or there is something of one.
Due(st, s, n) ==
  st.sub = <<>> /\ (n = 0 \/ (n >= 2 /\ IsOp(s[n]) /\ ~IsOp(s[n - 1])))
AloneSoFar(st, s, n) ==
  LoneOne(st.sub) /\ n >= 1 /\ IsOp(s[n]) /\ (n = 1 \/ IsOp(s[n - 1]))
Something(st, s, n) ==
  st.sub # <<>> /\ ~LoneOne(st.sub) /\ n >= 1 /\ ~IsOp(s[n])

Stage(st, s, n) ==
  /\ st \in Halves /\ \E m \in Nat : Len(st.strSet) = 2 * m
  /\ HasLone(st.strSet) <=> LoneBefore(s, n)
  /\ HasLone(st.strSet) \/ Due(st, s, n) \/ AloneSoFar(st, s, n) \/ Something(st, s, n)

LEMMA StageGoesOn ==
  ASSUME NEW s \in Seq(E!Tokens), NoBrackets(s), NEW n \in Nat, n + 1 <= Len(s),
         NEW st, Stage(st, s, n)
  PROVE  Stage(PutToken(st, s[n + 1]), s, n + 1)
<1>1. PICK l \in Nat : l = Len(s)
  BY LenProperties
<1>2. PICK t \in E!Tokens : t = s[n + 1]
  <2>1. n + 1 \in 1 .. l
    BY <1>1
  <2> QED BY <1>1, <2>1
<1>3. PICK m \in Nat : Len(st.strSet) = 2 * m
  BY DEF Stage
<1>4. /\ st \in Halves /\ st.strSet \in Seq(Seq(E!Tokens)) /\ st.sub \in Seq(E!Tokens)
      /\ HasLone(st.strSet) <=> LoneBefore(s, n)
      /\ HasLone(st.strSet) \/ Due(st, s, n) \/ AloneSoFar(st, s, n)
          \/ Something(st, s, n)
  BY DEF Stage, Halves
<1>5. PICK nx \in Halves : nx = PutToken(st, t)
  BY <1>4, PutType
<1>6. LoneBefore(s, n + 1) <=> LoneBefore(s, n) \/ (n # 0 /\ LoneAt(s, n))
  BY LoneBeforeNext
<1>7. n # 0 => (LoneAt(s, n) <=> IsOp(s[n]) /\ (n = 1 \/ IsOp(s[n - 1])) /\ IsOp(t))
  <2>1. n # 0 => n \in 1 .. l /\ n # l
    BY <1>1
  <2> QED BY <1>1, <1>2, <2>1, LoneAmong
<1>8. (n + 1) - 1 = n /\ n + 1 >= 1
  OBVIOUS
<1>9. CASE IsOp(t) /\ st.sub # <<>>
  <2>1. PICK b : b = <<t>>
    OBVIOUS
  <2>2. b \in Seq(E!Tokens)
    BY <2>1
  <2>3. nx.strSet = st.strSet \o <<st.sub, b>> /\ nx.sub = <<>>
    BY <1>5, <1>9, <2>1 DEF PutToken, IsOp
  <2>4. /\ HasLone(nx.strSet) <=> HasLone(st.strSet) \/ LoneOne(st.sub)
        /\ Len(nx.strSet) = 2 * (m + 1)
    BY <1>3, <1>4, <2>2, <2>3, OperandAndOperator
  <2>5. m + 1 \in Nat
    OBVIOUS
  <2>6. HasLone(nx.strSet) <=> LoneBefore(s, n + 1)
    <3>1. CASE HasLone(st.strSet)
      BY <1>4, <1>6, <2>4, <3>1
    <3>2. CASE AloneSoFar(st, s, n)
      BY <1>6, <1>7, <1>9, <2>4, <3>2 DEF AloneSoFar
    <3>3. CASE ~HasLone(st.strSet) /\ Something(st, s, n)
      <4>1. n # 0 /\ ~LoneAt(s, n) /\ ~LoneOne(st.sub)
        BY <1>7, <3>3 DEF Something
      <4> QED BY <1>4, <1>6, <2>4, <3>3, <4>1
    <3> QED BY <1>4, <1>9, <3>1, <3>2, <3>3 DEF Due
  <2>7. HasLone(nx.strSet) \/ Due(nx, s, n + 1)
    <3>1. CASE HasLone(st.strSet) \/ AloneSoFar(st, s, n)
      BY <2>4, <3>1 DEF AloneSoFar
    <3>2. CASE Something(st, s, n)
      <4>1. n + 1 >= 2 /\ ~IsOp(s[(n + 1) - 1]) /\ IsOp(s[n + 1])
        BY <1>2, <1>8, <1>9, <3>2 DEF Something
      <4> QED BY <2>3, <4>1 DEF Due
    <3> QED BY <1>4, <1>9, <3>1, <3>2 DEF Due
  <2> QED BY <1>2, <1>5, <2>4, <2>5, <2>6, <2>7 DEF Stage
<1>10. CASE ~(IsOp(t) /\ st.sub # <<>>)
  <2>1. nx.strSet = st.strSet /\ nx.sub = Append(st.sub, t)
    <3>1. nx = [st EXCEPT !.sub = Append(st.sub, t)]
      BY <1>5, <1>10 DEF PutToken, IsOp
    <3> QED BY <1>4, <3>1 DEF Halves
  <2>2. PICK k \in Nat : k = Len(st.sub)
    BY <1>4, LenProperties
  <2>3. /\ Len(nx.sub) = k + 1 /\ nx.sub[k + 1] = t
        /\ nx.sub # <<>>
    <3>1. Len(nx.sub) = k + 1 /\ nx.sub[k + 1] = t
      BY <1>4, <2>1, <2>2, AppendProperties
    <3> QED BY <3>1, EmptySeq
  <2>4. k = 0 <=> st.sub = <<>>
    BY <1>4, <2>2, EmptySeq
  <2>5. LoneOne(nx.sub) <=> st.sub = <<>> /\ IsOp(t)
    <3>1. CASE k = 0
      BY <2>3, <2>4, <3>1 DEF LoneOne
    <3>2. CASE k # 0
      BY <2>3, <2>4, <3>2 DEF LoneOne
    <3> QED BY <3>1, <3>2
  <2>6. HasLone(nx.strSet) <=> LoneBefore(s, n + 1)
    <3>1. CASE HasLone(st.strSet)
      BY <1>4, <1>6, <2>1, <3>1
    <3>2. CASE ~HasLone(st.strSet) /\ ~IsOp(t)
      BY <1>4, <1>6, <1>7, <2>1, <3>2
    <3>3. CASE ~HasLone(st.strSet) /\ IsOp(t)
      <4>1. Due(st, s, n)
        BY <1>4, <1>10, <3>3, EmptySeq DEF AloneSoFar, Something, LoneOne
      <4>2. n # 0 => ~LoneAt(s, n)
        BY <1>7, <4>1 DEF Due
      <4> QED BY <1>4, <1>6, <2>1, <3>3, <4>2
    <3> QED BY <3>1, <3>2, <3>3
  <2>7. HasLone(nx.strSet) \/ AloneSoFar(nx, s, n + 1) \/ Something(nx, s, n + 1)
    <3>1. CASE HasLone(st.strSet)
      BY <2>1, <3>1
    <3>2. CASE ~IsOp(t)
      BY <1>2, <1>8, <2>3, <2>5, <3>2 DEF Something
    <3>3. CASE ~HasLone(st.strSet) /\ IsOp(t)
      <4>1. Due(st, s, n) /\ st.sub = <<>>
        BY <1>4, <1>10, <3>3, EmptySeq DEF AloneSoFar, Something, LoneOne
      <4>2. n + 1 = 1 \/ IsOp(s[(n + 1) - 1])
        BY <1>8, <4>1 DEF Due
      <4> QED BY <1>2, <1>8, <2>5, <3>3, <4>1, <4>2 DEF AloneSoFar
    <3> QED BY <3>1, <3>2, <3>3
  <2> QED BY <1>2, <1>3, <1>5, <2>1, <2>6, <2>7 DEF Stage
<1> QED BY <1>9, <1>10

LEMMA BadIsLone ==
  ASSUME NEW s \in Seq(E!Tokens), NoBrackets(s)
  PROVE  E!BadSyntax(s) <=> E!LoneOperator(s)
<1>1. PICK l \in Nat : l = Len(s)
  BY LenProperties
<1>2. PICK g : SplitOf(g, s)
  BY SplitSolves
<1> DEFINE A == {k \in Nat : k <= l => Stage(g[k], s, k)}
<1>3. 0 \in A
  <2>1. g[0] \in Halves /\ g[0].strSet = <<>> /\ g[0].sub = <<>>
    BY <1>1, <1>2 DEF SplitOf
  <2>2. Len(g[0].strSet) = 2 * 0 /\ ~HasLone(g[0].strSet) /\ ~LoneBefore(s, 0)
    BY <2>1, EmptySeq DEF HasLone, LoneBefore
  <2>3. Due(g[0], s, 0)
    BY <2>1 DEF Due
  <2>4. \E m \in Nat : Len(g[0].strSet) = 2 * m
    BY <2>2
  <2>5. Stage(g[0], s, 0)
    BY <2>1, <2>2, <2>3, <2>4 DEF Stage
  <2> QED BY <2>5
<1>4. ASSUME NEW k \in Nat, k \in A PROVE k + 1 \in A
  <2> SUFFICES ASSUME k + 1 <= l PROVE Stage(g[k + 1], s, k + 1)
    OBVIOUS
  <2>1. k <= l /\ k + 1 \in 1 .. l /\ (k + 1) - 1 = k
    BY <1>1
  <2>2. Stage(g[k], s, k)
    BY <1>4, <2>1
  <2>3. g[k + 1] = PutToken(g[k], s[k + 1])
    BY <1>1, <1>2, <2>1 DEF SplitOf
  <2> QED BY <1>1, <2>2, <2>3, StageGoesOn
<1>5. l \in A
  <2> HIDE DEF A
  <2> QED BY <1>3, <1>4, NatInduces
<1>6. PICK st : st = g[l]
  OBVIOUS
<1>7. Stage(st, s, l)
  BY <1>1, <1>5, <1>6
<1>8. E!Split(s) = IF st.sub # <<>> \/ s = <<>> THEN Append(st.strSet, st.sub)
                   ELSE st.strSet
  BY <1>1, <1>2, <1>6 DEF SplitOf
<1>9. PICK m \in Nat : Len(st.strSet) = 2 * m
  BY <1>7 DEF Stage
<1>10. /\ st.strSet \in Seq(Seq(E!Tokens)) /\ st.sub \in Seq(E!Tokens)
       /\ HasLone(st.strSet) <=> LoneBefore(s, l)
       /\ HasLone(st.strSet) \/ Due(st, s, l) \/ AloneSoFar(st, s, l)
          \/ Something(st, s, l)
  BY <1>7 DEF Stage, Halves
<1>11. E!BadSyntax(s) <=> HasLone(st.strSet) \/ LoneOne(st.sub)
  <2>1. E!BadSyntax(s) <=> HasLone(E!Split(s))
    BY DEF E!BadSyntax, HasLone, LoneOne, IsOp
  <2>2. CASE st.sub # <<>> \/ s = <<>>
    BY <1>8, <1>9, <1>10, <2>1, <2>2, LastOperand
  <2>3. CASE ~(st.sub # <<>> \/ s = <<>>)
    BY <1>8, <2>1, <2>3, EmptySeq DEF LoneOne
  <2> QED BY <2>2, <2>3
<1>12. E!LoneOperator(s) <=> LoneBefore(s, l) \/ (l # 0 /\ LoneAt(s, l))
  <2>1. E!LoneOperator(s) <=> \E p \in 1 .. l : LoneAt(s, p)
    BY <1>1, LoneIsAt
  <2>2. (\E p \in 1 .. l : LoneAt(s, p)) <=> LoneBefore(s, l + 1)
    <3>1. (l + 1) - 1 = l
      OBVIOUS
    <3> QED BY <3>1 DEF LoneBefore
  <2> QED BY <2>1, <2>2, LoneBeforeNext
<1>13. l # 0 => (LoneAt(s, l) <=> IsOp(s[l]) /\ (l = 1 \/ IsOp(s[l - 1])))
  <2>1. l # 0 => l \in 1 .. l
    OBVIOUS
  <2> QED BY <1>1, <2>1, LoneAmong
<1>14. CASE HasLone(st.strSet)
  BY <1>10, <1>11, <1>12, <1>14
<1>15. CASE ~HasLone(st.strSet)
  <2>1. LoneOne(st.sub) <=> l # 0 /\ LoneAt(s, l)
    <3>1. CASE Due(st, s, l)
      BY <1>13, <3>1, EmptySeq DEF Due, LoneOne
    <3>2. CASE AloneSoFar(st, s, l)
      BY <1>13, <3>2 DEF AloneSoFar
    <3>3. CASE Something(st, s, l)
      BY <1>13, <3>3 DEF Something
    <3> QED BY <1>10, <1>15, <3>1, <3>2, <3>3
  <2> QED BY <1>10, <1>11, <1>12, <1>15, <2>1
<1> QED BY <1>14, <1>15

-----------------------------------------------------------------------------
(* The scan.                                                               *)

\* What has been replaced so far has not changed the verdict.
SameVerdict ==
  state = "scan" =>
    /\ E!BracketsMatch(script) <=> E!BracketsMatch(rule)
    /\ E!LoneOperator(script) <=> E!LoneOperator(rule)

VerdictInv == ScriptInv /\ SameVerdict /\ E!FaultyRejected

\* Without an open bracket none is left of the scan.
LEMMA NoneOpenLeft ==
  ASSUME ScriptInv, state = "scan", st1 = <<>>
  PROVE  \A p \in 1 .. place - 1 : script[p].kind \notin {"(", ")"}
<1>1. 1 .. Len(st1) = {}
  BY EmptySeq
<1> QED BY <1>1 DEF ScriptInv, E!StackOfBrackets

\* The innermost open bracket, and what is behind it.
LEMMA InnermostOpen ==
  ASSUME ScriptInv, state = "scan", st1 # <<>>
  PROVE  \E pos \in 1 .. place - 1 :
           /\ pos = st1[Len(st1)] /\ script[pos].kind = "("
           /\ \A p \in pos + 1 .. place - 1 : script[p].kind \notin {"(", ")"}
<1>1. PICK k \in Nat : k = Len(st1)
  BY DEF ScriptInv, Scanning
<1>2. k \in 1 .. k
  BY <1>1, EmptySeq DEF ScriptInv, Scanning
<1>3. place \in Nat
  BY DEF ScriptInv, Scanning
<1>4. /\ \A n \in 1 .. k :
           /\ st1[n] \in 1 .. place - 1 /\ script[st1[n]].kind = "("
           /\ \A m \in 1 .. n - 1 : st1[m] < st1[n]
      /\ \A p \in 1 .. place - 1 :
           /\ script[p].kind # ")"
           /\ script[p].kind = "(" => \E n \in 1 .. k : st1[n] = p
  BY <1>1 DEF ScriptInv, E!StackOfBrackets
<1>5. PICK pos \in 1 .. place - 1 : pos = st1[k]
  BY <1>2, <1>4
<1>6. ASSUME NEW p \in pos + 1 .. place - 1 PROVE script[p].kind \notin {"(", ")"}
  <2>1. p \in 1 .. place - 1 /\ p > pos
    BY <1>3
  <2>2. ASSUME NEW n \in 1 .. k PROVE st1[n] # p
    <3>1. CASE n = k
      BY <1>5, <2>1, <3>1
    <3>2. CASE n # k
      <4>1. n \in 1 .. k - 1
        BY <3>2
      <4>2. st1[n] < pos
        BY <1>2, <1>4, <1>5, <4>1
      <4>3. st1[n] \in 1 .. place - 1
        BY <1>4
      <4> QED BY <1>3, <2>1, <4>2, <4>3
    <3> QED BY <3>1, <3>2
  <2> QED BY <1>4, <2>1, <2>2
<1> QED BY <1>1, <1>2, <1>4, <1>5, <1>6

\* x is what stands between the brackets at pos and q.
IsInner(x, s, pos, q) ==
  /\ x \in Seq(E!Tokens) /\ NoBrackets(x)
  /\ pos \in Nat \ {0} /\ Len(x) = (q - pos) - 1
  /\ q \in 1 .. Len(s) /\ pos < q /\ s[pos].kind = "(" /\ s[q].kind = ")"
  /\ \A k \in 1 .. Len(x) : x[k] = s[pos + k]

LEMMA InnerIs ==
  ASSUME ScriptInv, state = "scan", st1 # <<>>, place <= Len(script),
         script[place].kind = ")", NEW pos \in 1 .. place - 1, pos = st1[Len(st1)],
         script[pos].kind = "(",
         \A p \in pos + 1 .. place - 1 : script[p].kind \notin {"(", ")"}
  PROVE  IsInner(E!Inner, script, pos, place)
<1>1. /\ script \in Seq(E!Tokens) /\ place \in Nat /\ pos \in Nat /\ 1 <= pos
      /\ pos < place
  BY DEF ScriptInv, Scanning
<1>2. PICK n \in Nat : n = Len(script)
  BY <1>1
<1>3. PICK c : c = SubSeq(script, pos + 1, place - 1)
  OBVIOUS
<1>4. E!Inner = c
  BY <1>3 DEF E!Inner
<1>5. \A p \in pos + 1 .. place - 1 : script[p] \in E!Tokens
  BY <1>1, <1>2
<1>6. /\ c \in Seq(E!Tokens)
      /\ Len(c) = IF pos + 1 <= place - 1 THEN (place - 1) - (pos + 1) + 1 ELSE 0
      /\ \A k \in 1 .. (place - 1) - (pos + 1) + 1 : c[k] = script[(pos + 1) + k - 1]
  <2>1. PICK f \in Int, t \in Int : f = pos + 1 /\ t = place - 1
    BY <1>1
  <2>2. \A k \in f .. t : script[k] \in E!Tokens
    BY <1>5, <2>1
  <2>3. c = SubSeq(script, f, t)
    BY <1>3, <2>1
  <2>4. /\ c \in Seq(E!Tokens) /\ Len(c) = IF f <= t THEN t - f + 1 ELSE 0
        /\ \A k \in 1 .. t - f + 1 : c[k] = script[f + k - 1]
    BY <2>2, <2>3, SubSeqProperties
  <2> QED BY <2>1, <2>4
<1>7. Len(c) = (place - pos) - 1
  BY <1>1, <1>6
<1>8. ASSUME NEW k \in 1 .. Len(c)
      PROVE  c[k] = script[pos + k] /\ c[k].kind \notin {"(", ")"}
  <2>1. k \in 1 .. (place - pos) - 1
    BY <1>7
  <2>2. /\ k \in 1 .. (place - 1) - (pos + 1) + 1 /\ (pos + 1) + k - 1 = pos + k
        /\ pos + k \in pos + 1 .. place - 1
    <3>1. PICK a \in Nat, b \in Nat : a = pos /\ b = place
      BY <1>1
    <3>2. k \in 1 .. (b - a) - 1
      BY <2>1, <3>1
    <3>3. k \in 1 .. (b - 1) - (a + 1) + 1 /\ (a + 1) + k - 1 = a + k
      BY <3>2
    <3>4. a + k \in a + 1 .. b - 1
      BY <3>2
    <3> QED BY <3>1, <3>3, <3>4
  <2> QED BY <1>6, <2>2
<1>9. pos \in Nat \ {0} /\ place \in 1 .. Len(script)
  BY <1>1, <1>2
<1> QED BY <1>1, <1>4, <1>6, <1>7, <1>8, <1>9 DEF IsInner, NoBrackets

\* What is thrown for it.
LEMMA InnerHas ==
  ASSUME ScriptInv, state = "scan", st1 # <<>>, place <= Len(script),
         script[place].kind = ")", NEW pos \in 1 .. place - 1, pos = st1[Len(st1)],
         script[pos].kind = "(",
         \A p \in pos + 1 .. place - 1 : script[p].kind \notin {"(", ")"}
  PROVE  E!BadSyntax(E!Inner) <=> \E p \in pos + 1 .. place - 1 : LoneAt(script, p)
<1>1. /\ script \in Seq(E!Tokens) /\ place \in Nat /\ pos \in Nat /\ 1 <= pos
      /\ pos < place
  BY DEF ScriptInv, Scanning
<1>2. PICK c : c = SubSeq(script, pos + 1, place - 1)
  OBVIOUS
<1>3. E!Inner = c
  BY <1>2 DEF E!Inner
<1>4. c \in Seq(E!Tokens) /\ NoBrackets(c)
  BY <1>3, InnerIs DEF IsInner
<1>5. E!BadSyntax(c) <=> E!LoneOperator(c)
  BY <1>4, BadIsLone
<1>6. E!LoneOperator(c) <=> \E p \in pos + 1 .. place - 1 : LoneAt(script, p)
  BY <1>1, <1>2, LoneInside
<1> QED BY <1>3, <1>5, <1>6

LEMMA CloseReplaces ==
  ASSUME ScriptInv, E!CloseBracket, NEW pos \in 1 .. place - 1, pos = st1[Len(st1)],
         script[pos].kind = "(",
         \A p \in pos + 1 .. place - 1 : script[p].kind \notin {"(", ")"}
  PROVE  Replaces(script, script', pos, place) /\ script'[pos] = E!Variable(Len(mVarSet'))
<1>1. /\ script \in Seq(E!Tokens) /\ place \in 1 .. Len(script) /\ script[place].kind = ")"
  BY DEF ScriptInv, Scanning, E!CloseBracket, E!At
<1>2. PICK L \in Nat : L = Len(script)
  BY <1>1
<1>3. place \in Nat /\ pos \in Nat /\ 1 <= pos /\ pos < place /\ place <= L
  BY <1>1, <1>2
<1>4. ScriptInv'
  BY CloseKept
<1>5. script' \in Seq(E!Tokens)
  BY <1>4 DEF ScriptInv, Scanning
<1>6. PICK v : v = E!Variable(Len(mVarSet'))
  OBVIOUS
<1>7. v \in E!Tokens /\ v.kind = "var"
  <2>1. PICK S : mVarSet' \in Seq(S)
    BY <1>4 DEF ScriptInv, Scanning
  <2>2. Len(mVarSet') \in Nat
    BY <2>1
  <2> QED BY <1>6, <2>2 DEF E!Variable, E!Token, E!Tokens, E!Kinds
<1>8. PICK pre : pre = SubSeq(script, 1, pos - 1)
  OBVIOUS
<1>9. PICK post : post = SubSeq(script, place + 1, L)
  OBVIOUS
<1>10. PICK mid : mid = <<v>>
  OBVIOUS
<1>11. script' = (pre \o mid) \o post
  BY <1>2, <1>6, <1>8, <1>9, <1>10 DEF E!CloseBracket
<1>12. /\ pre \in Seq(E!Tokens) /\ Len(pre) = pos - 1
       /\ \A p \in 1 .. pos - 1 : pre[p] = script[p]
  <2>1. pos - 1 \in Nat /\ \A k \in 1 .. pos - 1 : k \in 1 .. Len(script)
    BY <1>2, <1>3
  <2> QED BY <1>1, <1>8, <2>1, PrefixIs
<1>13. mid \in Seq(E!Tokens) /\ Len(mid) = 1 /\ mid[1] = v
  BY <1>7, <1>10
<1>14. /\ post \in Seq(E!Tokens) /\ Len(post) = L - place
       /\ \A k \in 1 .. L - place : post[k] = script[place + k]
  <2>1. \A k \in place + 1 .. L : script[k] \in E!Tokens
    BY <1>1, <1>2, <1>3
  <2>2. /\ post \in Seq(E!Tokens)
        /\ Len(post) = IF place + 1 <= L THEN L - (place + 1) + 1 ELSE 0
        /\ \A k \in 1 .. L - (place + 1) + 1 : post[k] = script[(place + 1) + k - 1]
    <3>1. place + 1 \in Int /\ L \in Int
      BY <1>3
    <3> QED BY <1>9, <2>1, <3>1, SubSeqProperties
  <2>3. /\ L - (place + 1) + 1 = L - place
        /\ \A k \in 1 .. L - place : (place + 1) + k - 1 = place + k
    BY <1>3
  <2>4. ~(place + 1 <= L) => L - place = 0
    BY <1>3
  <2>5. Len(post) = L - place
    BY <2>2, <2>3, <2>4
  <2> QED BY <2>2, <2>3, <2>5
<1>15. PICK head : head = pre \o mid
  OBVIOUS
<1>16. /\ head \in Seq(E!Tokens) /\ Len(head) = pos /\ head[pos] = v
       /\ \A p \in 1 .. pos - 1 : head[p] = script[p]
  <2>7. pre \in Seq(E!Tokens) /\ mid \in Seq(E!Tokens)
    BY <1>12, <1>13
  <2>1. head \in Seq(E!Tokens) /\ Len(head) = Len(pre) + Len(mid)
    BY <1>15, <2>7, ConcatProperties
  <2>2. \A j \in 1 .. Len(pre) + Len(mid) :
          head[j] = IF j <= Len(pre) THEN pre[j] ELSE mid[j - Len(pre)]
    BY <1>15, <2>7, ConcatProperties
  <2>3. Len(head) = pos
    BY <1>3, <1>12, <1>13, <2>1
  <2>4. \A j \in 1 .. pos : head[j] = IF j <= pos - 1 THEN pre[j] ELSE mid[j - (pos - 1)]
    <3>1. Len(pre) = pos - 1 /\ Len(mid) = 1
      BY <1>12, <1>13
    <3>2. (pos - 1) + 1 = pos
      BY <1>3
    <3> QED BY <2>2, <3>1, <3>2
  <2>5. pos \in 1 .. pos /\ ~(pos <= pos - 1) /\ pos - (pos - 1) = 1
    BY <1>3
  <2>6. \A p \in 1 .. pos - 1 : p \in 1 .. pos /\ p <= pos - 1
    BY <1>3
  <2> QED BY <1>12, <1>13, <2>1, <2>3, <2>4, <2>5, <2>6
<1>17. /\ Len(script') = pos + (L - place)
       /\ \A j \in 1 .. pos + (L - place) :
            script'[j] = IF j <= pos THEN head[j] ELSE post[j - pos]
  <2>1. script' = head \o post
    BY <1>11, <1>15
  <2>2. head \in Seq(E!Tokens) /\ post \in Seq(E!Tokens)
    BY <1>14, <1>16
  <2>3. /\ Len(script') = Len(head) + Len(post)
        /\ \A j \in 1 .. Len(head) + Len(post) :
             script'[j] = IF j <= Len(head) THEN head[j] ELSE post[j - Len(head)]
    BY <2>1, <2>2, ConcatProperties
  <2> QED BY <1>14, <1>16, <2>3
<1>18. script'[pos] = v /\ \A p \in 1 .. pos - 1 : script'[p] = script[p]
  <2>1. \A p \in 1 .. pos : p \in 1 .. pos + (L - place) /\ p <= pos
    BY <1>3
  <2>2. \A p \in 1 .. pos : script'[p] = head[p]
    BY <1>17, <2>1
  <2>3. pos \in 1 .. pos /\ \A p \in 1 .. pos - 1 : p \in 1 .. pos
    BY <1>3
  <2> QED BY <1>16, <2>2, <2>3
<1>19. ASSUME NEW k \in 1 .. L - place PROVE script'[pos + k] = script[place + k]
  <2>1. pos + k \in 1 .. pos + (L - place) /\ ~(pos + k <= pos) /\ (pos + k) - pos = k
    BY <1>3
  <2> QED BY <1>14, <1>17, <2>1
<1>20. pos \in 1 .. place - 1 /\ place \in 1 .. L
  BY <1>3
<1> QED BY <1>1, <1>2, <1>5, <1>6, <1>7, <1>17, <1>18, <1>19, <1>20 DEF Replaces

LEMMA CloseKeepsVerdict ==
  ASSUME ScriptInv, SameVerdict, E!CloseBracket PROVE SameVerdict'
<1>1. /\ state = "scan" /\ st1 # <<>> /\ place <= Len(script) /\ script[place].kind = ")"
      /\ ~E!BadSyntax(E!Inner) /\ rule' = rule /\ state' = "scan"
  BY DEF E!CloseBracket, E!At
<1>2. PICK pos \in 1 .. place - 1 :
        /\ pos = st1[Len(st1)] /\ script[pos].kind = "("
        /\ \A p \in pos + 1 .. place - 1 : script[p].kind \notin {"(", ")"}
  BY <1>1, InnermostOpen
<1>3. \A p \in pos + 1 .. place - 1 : ~LoneAt(script, p)
  BY <1>1, <1>2, InnerHas
<1>4. Replaces(script, script', pos, place)
  BY <1>2, CloseReplaces
<1>5. E!BracketsMatch(script) <=> E!BracketsMatch(script')
  BY <1>4, MatchSurvives
<1>6. E!LoneOperator(script) <=> E!LoneOperator(script')
  BY <1>3, <1>4, LoneSurvives
<1>7. /\ E!BracketsMatch(script) <=> E!BracketsMatch(rule)
      /\ E!LoneOperator(script) <=> E!LoneOperator(rule)
  BY <1>1 DEF SameVerdict
<1>8. E!BracketsMatch(script') <=> E!BracketsMatch(rule')
  BY <1>1, <1>5, <1>7
<1>9. E!LoneOperator(script') <=> E!LoneOperator(rule')
  BY <1>1, <1>6, <1>7
<1> QED BY <1>8, <1>9 DEF SameVerdict, E!BracketsMatch, E!LoneOperator

\* Without a bracket the depth is 0 all along.
LEMMA PlainMatches ==
  ASSUME NEW s \in Seq(E!Tokens), NoBrackets(s) PROVE E!BracketsMatch(s)
<1>1. PICK n \in Nat : n = Len(s)
  BY LenProperties
<1>2. PICK d : d = E!Depth(s)
  OBVIOUS
<1>3. DepthOf(d, s)
  BY <1>2, DepthSolves
<1>4. ASSUME NEW k \in 0 .. n PROVE d[k] = 0
  <2>1. k \in Nat /\ 0 <= k /\ k <= Len(s) /\ 0 \in Nat
    BY <1>1
  <2>2. \A p \in 0 + 1 .. k : s[p].kind \notin {"(", ")"}
    BY <1>1 DEF NoBrackets
  <2>3. d[k] = d[0]
    BY <1>3, <2>1, <2>2, DepthStays
  <2> QED BY <1>3, <2>3 DEF DepthOf
<1>5. n \in 0 .. n /\ 0 >= 0
  OBVIOUS
<1> QED BY <1>1, <1>2, <1>4, <1>5 DEF E!BracketsMatch

LEMMA ThrowIsRight ==
  ASSUME ScriptInv, state = "scan", E!Faulty PROVE ~E!WellFormed(script)
<1>1. script \in Seq(E!Tokens) /\ place \in 1 .. Len(script) + 1
  BY DEF ScriptInv, Scanning
<1>2. PICK n \in Nat : n = Len(script)
  BY <1>1
<1>3. PICK d : d = E!Depth(script)
  OBVIOUS
<1>4. DepthOf(d, script)
  BY <1>1, <1>3, DepthSolves
<1>5. E!BracketsMatch(script) => d[n] = 0 /\ \A k \in 0 .. n : d[k] >= 0
  BY <1>2, <1>3 DEF E!BracketsMatch
<1>6. CASE E!At(")") /\ st1 = <<>>
  <2>1. place \in Nat /\ place <= n /\ 1 <= place /\ script[place].kind = ")"
    BY <1>1, <1>2, <1>6 DEF E!At
  <2>2. \A p \in 0 + 1 .. place - 1 : script[p].kind \notin {"(", ")"}
    BY <1>6, NoneOpenLeft
  <2>3. place - 1 \in Nat /\ 0 \in Nat /\ 0 <= place - 1 /\ place - 1 <= Len(script)
    BY <1>2, <2>1
  <2>4. d[place - 1] = d[0]
    BY <1>1, <1>4, <2>2, <2>3, DepthStays
  <2>5. E!Weight(script[place]) = 0 - 1
    BY <2>1 DEF E!Weight
  <2>6. d[place] = d[place - 1] + E!Weight(script[place]) /\ d[0] = 0
    BY <1>2, <1>4, <2>1 DEF DepthOf
  <2>7. ~(d[place] >= 0) /\ place \in 0 .. n
    BY <2>1, <2>4, <2>5, <2>6
  <2> QED BY <1>5, <2>7 DEF E!WellFormed
<1>7. CASE E!At(")") /\ st1 # <<>> /\ E!BadSyntax(E!Inner)
  <2>1. place <= Len(script) /\ script[place].kind = ")"
    BY <1>7 DEF E!At
  <2>2. PICK pos \in 1 .. place - 1 :
          /\ pos = st1[Len(st1)] /\ script[pos].kind = "("
          /\ \A p \in pos + 1 .. place - 1 : script[p].kind \notin {"(", ")"}
    BY <1>7, InnermostOpen
  <2>3. PICK p \in pos + 1 .. place - 1 : LoneAt(script, p)
    BY <1>7, <2>1, <2>2, InnerHas
  <2>4. p \in 1 .. Len(script)
    BY <1>1, <1>2, <2>1, <2>2
  <2> QED BY <2>3, <2>4, LoneIsAt DEF E!WellFormed
<1>8. CASE E!AtEnd /\ st1 # <<>>
  <2>1. place = n + 1
    BY <1>1, <1>2, <1>8 DEF E!AtEnd
  <2>2. PICK pos \in 1 .. place - 1 :
          /\ pos = st1[Len(st1)] /\ script[pos].kind = "("
          /\ \A p \in pos + 1 .. place - 1 : script[p].kind \notin {"(", ")"}
    BY <1>8, InnermostOpen
  <2>3. pos \in 1 .. n /\ \A p \in pos + 1 .. n : script[p].kind \notin {"(", ")"}
    BY <2>1, <2>2
  <2>4. pos \in Nat /\ n \in Nat /\ pos <= n /\ n <= Len(script)
    BY <1>2, <2>3
  <2>5. d[n] = d[pos]
    BY <1>1, <1>4, <2>3, <2>4, DepthStays
  <2>6. E!Weight(script[pos]) = 1
    BY <2>2 DEF E!Weight
  <2>7. d[pos] = d[pos - 1] + E!Weight(script[pos]) /\ d[pos - 1] \in Int
    BY <1>2, <1>4, <2>3 DEF DepthOf
  <2>8. pos - 1 \in 0 .. n
    BY <2>3
  <2>9. SUFFICES ASSUME E!BracketsMatch(script) PROVE FALSE
    BY DEF E!WellFormed
  <2>10. d[n] = 0 /\ d[pos - 1] >= 0
    BY <1>5, <2>8, <2>9
  <2> QED BY <2>5, <2>6, <2>7, <2>10
<1>9. CASE E!AtEnd /\ st1 = <<>> /\ E!BadSyntax(script)
  <2>1. place - 1 = n
    BY <1>1, <1>2, <1>9 DEF E!AtEnd
  <2>2. NoBrackets(script)
    BY <1>2, <1>9, <2>1, NoneOpenLeft DEF NoBrackets
  <2>3. E!LoneOperator(script)
    BY <1>1, <1>9, <2>2, BadIsLone
  <2> QED BY <2>3 DEF E!WellFormed
<1> QED BY <1>6, <1>7, <1>8, <1>9 DEF E!Faulty

LEMMA FinishIsRight ==
  ASSUME ScriptInv, E!Finish PROVE E!WellFormed(script)
<1>1. /\ state = "scan" /\ E!AtEnd /\ st1 = <<>> /\ ~E!BadSyntax(script)
  BY DEF E!Finish, E!Faulty, E!AtEnd
<1>2. script \in Seq(E!Tokens) /\ place \in 1 .. Len(script) + 1
  BY DEF ScriptInv, Scanning
<1>3. PICK n \in Nat : n = Len(script)
  BY <1>2
<1>4. place - 1 = n
  BY <1>1, <1>2, <1>3 DEF E!AtEnd
<1>5. NoBrackets(script)
  BY <1>1, <1>3, <1>4, NoneOpenLeft DEF NoBrackets
<1>6. ~E!LoneOperator(script)
  BY <1>1, <1>2, <1>5, BadIsLone
<1>7. E!BracketsMatch(script)
  BY <1>2, <1>5, PlainMatches
<1> QED BY <1>6, <1>7 DEF E!WellFormed

LEMMA VerdictKept == VerdictInv /\ [E!Next]_(E!vars) => VerdictInv'
<1> SUFFICES ASSUME VerdictInv, [E!Next]_(E!vars) PROVE VerdictInv'
  OBVIOUS
<1>1. ScriptInv /\ SameVerdict /\ E!FaultyRejected /\ ScriptInv'
  BY ScriptKept DEF VerdictInv
<1>2. CASE E!OpenBracket \/ E!Advance
  <2>1. state' = "scan" /\ state = "scan" /\ rule' = rule /\ script' = script
    BY <1>2 DEF E!OpenBracket, E!Advance, E!At
  <2>2. SameVerdict'
    BY <1>1, <2>1 DEF SameVerdict, E!BracketsMatch, E!LoneOperator
  <2>3. E!FaultyRejected'
    BY <2>1 DEF E!FaultyRejected
  <2> QED BY <1>1, <2>2, <2>3 DEF VerdictInv
<1>3. CASE E!CloseBracket
  <2>1. state' = "scan"
    BY <1>3 DEF E!CloseBracket, E!At
  <2>2. E!FaultyRejected'
    BY <2>1 DEF E!FaultyRejected
  <2> QED BY <1>1, <1>3, <2>2, CloseKeepsVerdict DEF VerdictInv
<1>4. CASE E!Throw \/ E!Finish
  <2>1. /\ state = "scan" /\ rule' = rule /\ state' \in {"thrown", "compiled"}
        /\ state' = "thrown" => E!Faulty
        /\ state' = "compiled" => E!Finish
    BY <1>4 DEF E!Throw, E!Finish, E!Faulty, E!At, E!AtEnd
  <2>2. E!WellFormed(script) <=> E!WellFormed(rule)
    BY <1>1, <2>1 DEF SameVerdict, E!WellFormed
  <2>3. state' = "thrown" => ~E!WellFormed(rule)
    BY <1>1, <2>1, <2>2, ThrowIsRight
  <2>4. state' = "compiled" => E!WellFormed(rule)
    BY <1>1, <2>1, <2>2, FinishIsRight
  <2>5. E!WellFormed(rule)' <=> E!WellFormed(rule)
    BY <2>1 DEF E!WellFormed, E!BracketsMatch, E!LoneOperator
  <2>6. E!FaultyRejected'
    BY <2>3, <2>4, <2>5 DEF E!FaultyRejected
  <2>7. SameVerdict'
    BY <2>1 DEF SameVerdict
  <2> QED BY <1>1, <2>6, <2>7 DEF VerdictInv
<1>5. CASE UNCHANGED E!vars
  <2>1. rule' = rule /\ script' = script /\ state' = state
    BY <1>5 DEF E!vars
  <2> QED BY <1>1, <2>1 DEF VerdictInv, SameVerdict, E!FaultyRejected, E!WellFormed,
       E!BracketsMatch, E!LoneOperator
<1> QED BY <1>2, <1>3, <1>4, <1>5 DEF E!Next

(***************************************************************************)
(* BracketsHandled: the stack holds the open brackets left of the scan,    *)
(* and Compile throws a ScriptException exactly for the rules whose        *)
(* brackets do not match or that have an operator with no operand on       *)
(* either side (ScriptEngine.cpp:103, 274, 298), for every script, however *)
(* deep its brackets are and whatever has been replaced on the way.        *)
(***************************************************************************)
THEOREM FaultyAreRejected == E!Spec => []BracketsHandled
<1>1. E!Init => VerdictInv
  <2> SUFFICES ASSUME E!Init PROVE VerdictInv
    OBVIOUS
  <2>1. script = rule /\ state = "scan"
    BY DEF E!Init
  <2>2. SameVerdict /\ E!FaultyRejected
    BY <2>1 DEF SameVerdict, E!FaultyRejected
  <2> QED BY <2>2, InitScript DEF VerdictInv
<1>2. VerdictInv => BracketsHandled
  BY DEF VerdictInv, ScriptInv, BracketsHandled, E!BracketsHandled
<1> QED BY <1>1, <1>2, VerdictKept, PTL DEF E!Spec

-----------------------------------------------------------------------------
(* What rules mean: reading from left to right.                            *)

Levels == [some : BOOLEAN, all : BOOLEAN, ors : BOOLEAN, group : BOOLEAN, last : E!Kinds]

Stacks == Seq(Levels) \ {<<>>}

Readings == [levels : Stacks, fits : BOOLEAN]

Start == [levels |-> <<E!Opened>>, fits |-> TRUE]

LEMMA OpenedType == E!Opened \in Levels /\ E!Opened.last = "("
  BY DEF E!Opened, Levels, E!Kinds

\* A stack has a top, and what is below it.
LEMMA TopAndBelow ==
  ASSUME NEW ls \in Seq(Levels), NEW top \in Levels
  PROVE  /\ Append(ls, top) \in Stacks
         /\ E!Top(Append(ls, top)) = top /\ E!Below(Append(ls, top)) = ls
<1>1. PICK r : r = Append(ls, top)
  OBVIOUS
<1>2. PICK n \in Nat : n = Len(ls)
  BY LenProperties
<1>3. r \in Seq(Levels) /\ Len(r) = n + 1 /\ r[n + 1] = top
  BY <1>1, <1>2, AppendProperties, LastOfAppend
<1>4. r # <<>>
  BY <1>2, <1>3, EmptySeq
<1>5. (n + 1) - 1 = n
  OBVIOUS
<1>6. SubSeq(r, 1, n) = ls
  BY <1>1, <1>2, PrefixOfAppend
<1> QED BY <1>1, <1>3, <1>4, <1>5, <1>6 DEF Stacks, E!Top, E!Below

LEMMA StackSplit ==
  ASSUME NEW levels \in Stacks
  PROVE  /\ E!Top(levels) \in Levels /\ E!Below(levels) \in Seq(Levels)
         /\ levels = Append(E!Below(levels), E!Top(levels))
<1>1. PICK n \in Nat : n = Len(levels)
  BY LenProperties DEF Stacks
<1>2. levels \in Seq(Levels) /\ levels # <<>>
  BY DEF Stacks
<1>3. n # 0
  BY <1>1, <1>2, EmptySeq
<1>4. PICK m \in Nat : m + 1 = n
  BY <1>1, <1>3
<1>5. PICK b : b = SubSeq(levels, 1, m)
  OBVIOUS
<1>6. b \in Seq(Levels) /\ Len(b) = m /\ \A k \in 1 .. m : b[k] = levels[k]
  <2>1. \A k \in 1 .. m : k \in 1 .. Len(levels)
    BY <1>1, <1>4
  <2> QED BY <1>2, <1>5, <2>1, PrefixIs
<1>7. levels[n] \in Levels
  <2>1. n \in 1 .. Len(levels)
    BY <1>1, <1>3
  <2> QED BY <1>2, <2>1, ElementOfSeq
<1>8. PICK a : a = Append(b, levels[n])
  OBVIOUS
<1>9. /\ a \in Seq(Levels) /\ Len(a) = n /\ a[n] = levels[n]
      /\ \A k \in 1 .. m : a[k] = levels[k]
  <2>1. a \in Seq(Levels) /\ Len(a) = m + 1 /\ a[m + 1] = levels[n]
    BY <1>6, <1>7, <1>8, AppendProperties, LastOfAppend
  <2>2. \A k \in 1 .. m : a[k] = b[k]
    BY <1>6, <1>7, <1>8, AppendProperties
  <2> QED BY <1>4, <1>6, <2>1, <2>2
<1>10. \A k \in 1 .. n : a[k] = levels[k]
  <2>1. \A k \in 1 .. n : k \in 1 .. m \/ k = n
    BY <1>4
  <2> QED BY <1>9, <2>1
<1>11. a = levels
  <2>1. Len(a) = Len(levels) /\ \A k \in 1 .. Len(a) : a[k] = levels[k]
    BY <1>1, <1>9, <1>10
  <2> QED BY <1>2, <1>9, <2>1, SeqEqual
<1>12. n - 1 = m
  BY <1>4
<1> QED BY <1>1, <1>5, <1>6, <1>7, <1>8, <1>11, <1>12 DEF E!Top, E!Below

\* What is read is a stack of levels again.
LEMMA GroupType ==
  ASSUME NEW level \in Levels, NEW kept \in BOOLEAN
  PROVE  E!Group(level, kept) \in Levels
  BY DEF E!Group, Levels, E!Kinds

LEMMA KeptType == ASSUME NEW level \in Levels PROVE E!Holds(level) \in BOOLEAN
  BY DEF E!Holds, Levels

LEMMA ReadInType ==
  ASSUME NEW level \in Levels, NEW t \in E!Tokens, NEW line, NEW vs
  PROVE  E!ReadIn(level, t, line, vs) \in Levels
<1>1. t.kind \in E!Kinds
  BY DEF E!Tokens
<1>2. CASE t.kind = "word"
  <2>1. PICK holds \in BOOLEAN : holds = ((t.id \in line) <=> (level.last # "!"))
    OBVIOUS
  <2>2. E!ReadIn(level, t, line, vs) = [level EXCEPT !.all = @ /\ holds, !.last = "word"]
    BY <1>2, <2>1 DEF E!ReadIn
  <2> QED BY <2>2 DEF Levels, E!Kinds
<1>3. CASE t.kind = "var"
  <2>1. E!OnRuleFilter(vs[t.id], line) \in BOOLEAN
    BY DEF E!OnRuleFilter
  <2>2. E!ReadIn(level, t, line, vs) = E!Group(level, E!OnRuleFilter(vs[t.id], line))
    BY <1>3 DEF E!ReadIn
  <2> QED BY <2>1, <2>2, GroupType
<1>4. CASE t.kind = "||"
  <2>1. E!Holds(level) \in BOOLEAN
    BY KeptType
  <2>2. E!ReadIn(level, t, line, vs) =
          [level EXCEPT !.some = E!Holds(level), !.all = TRUE, !.ors = TRUE,
                        !.group = FALSE, !.last = "||"]
    BY <1>4 DEF E!ReadIn
  <2> QED BY <2>1, <2>2 DEF Levels, E!Kinds
<1>5. CASE t.kind \notin {"word", "var", "||"}
  <2>1. E!ReadIn(level, t, line, vs) = [level EXCEPT !.last = t.kind]
    BY <1>5 DEF E!ReadIn
  <2> QED BY <1>1, <2>1 DEF Levels
<1> QED BY <1>2, <1>3, <1>4, <1>5

LEMMA FitsType ==
  ASSUME NEW level \in Levels, NEW t
  PROVE  E!Fits(level, t) \in BOOLEAN
<1>1. CASE t.kind = "word"
  <2>1. E!Fits(level, t) = (level.last \in {"(", "!", "&&", "||"} /\ ~level.group)
    BY <1>1 DEF E!Fits
  <2> QED BY <2>1
<1>2. CASE t.kind \in {"(", "var"}
  <2>1. E!Fits(level, t) = (\/ level.last \in {"(", "||"}
                            \/ level.last = "&&" /\ ~level.ors)
    BY <1>2 DEF E!Fits
  <2> QED BY <2>1
<1>3. CASE t.kind = "!"
  <2>1. E!Fits(level, t) = (level.last \in {"(", "&&", "||"} /\ t = E!Symbol("!"))
    BY <1>3 DEF E!Fits
  <2> QED BY <2>1
<1>4. CASE t.kind \notin {"word", "(", "var", "!"}
  <2>1. E!Fits(level, t) = (level.last \in {"word", ")"})
    BY <1>4 DEF E!Fits
  <2> QED BY <2>1
<1> QED BY <1>1, <1>2, <1>3, <1>4

\* Whether t may come next.
MayCome(r, t) ==
  r.fits /\ E!Fits(E!Top(r.levels), t) /\ (t.kind = ")" => E!Below(r.levels) # <<>>)

LEMMA ReadTokenIs ==
  ASSUME NEW r, NEW t, NEW line, NEW vs
  PROVE  /\ E!ReadToken(r, t, line, vs).fits = MayCome(r, t)
         /\ t.kind = "(" =>
              E!ReadToken(r, t, line, vs).levels = Append(r.levels, E!Opened)
         /\ t.kind = ")" /\ E!Below(r.levels) # <<>> =>
              E!ReadToken(r, t, line, vs).levels =
                Append(E!Below(E!Below(r.levels)),
                       E!Group(E!Top(E!Below(r.levels)), E!Holds(E!Top(r.levels))))
         /\ t.kind # "(" /\ ~(t.kind = ")" /\ E!Below(r.levels) # <<>>) =>
              E!ReadToken(r, t, line, vs).levels =
                Append(E!Below(r.levels), E!ReadIn(E!Top(r.levels), t, line, vs))
         /\ E!ReadToken(r, t, line, vs) =
              [levels |-> E!ReadToken(r, t, line, vs).levels, fits |-> MayCome(r, t)]
<1> DEFINE z == E!ReadToken(r, t, line, vs)
<1>1. CASE t.kind = "("
  <2>1. z = [levels |-> Append(r.levels, E!Opened), fits |-> MayCome(r, t)]
    BY <1>1 DEF E!ReadToken, MayCome
  <2> QED BY <1>1, <2>1
<1>2. CASE t.kind = ")" /\ E!Below(r.levels) # <<>>
  <2>1. z = [levels |-> Append(E!Below(E!Below(r.levels)),
                          E!Group(E!Top(E!Below(r.levels)), E!Holds(E!Top(r.levels)))),
             fits |-> MayCome(r, t)]
    BY <1>2 DEF E!ReadToken, MayCome
  <2> QED BY <1>2, <2>1
<1>3. CASE t.kind # "(" /\ ~(t.kind = ")" /\ E!Below(r.levels) # <<>>)
  <2>1. z = [levels |-> Append(E!Below(r.levels), E!ReadIn(E!Top(r.levels), t, line, vs)),
             fits |-> MayCome(r, t)]
    BY <1>3 DEF E!ReadToken, MayCome
  <2> QED BY <1>3, <2>1
<1> QED BY <1>1, <1>2, <1>3

\* A bracket that is opened, and what is not a bracket.
LEMMA ReadOpening ==
  ASSUME NEW r, NEW t, NEW line, NEW vs, t.kind = "("
  PROVE  E!ReadToken(r, t, line, vs).levels = Append(r.levels, E!Opened)
  BY ReadTokenIs

LEMMA ReadPlain ==
  ASSUME NEW r, NEW t, NEW line, NEW vs, t.kind \notin {"(", ")"}
  PROVE  E!ReadToken(r, t, line, vs).levels =
           Append(E!Below(r.levels), E!ReadIn(E!Top(r.levels), t, line, vs))
  BY ReadTokenIs

LEMMA ReadTokenType ==
  ASSUME NEW r \in Readings, NEW t \in E!Tokens, NEW line, NEW vs
  PROVE  E!ReadToken(r, t, line, vs) \in Readings
<1>1. PICK z : z = E!ReadToken(r, t, line, vs)
  OBVIOUS
<1>2. PICK top : top = E!Top(r.levels)
  OBVIOUS
<1>3. PICK below : below = E!Below(r.levels)
  OBVIOUS
<1>4. r.levels \in Stacks /\ r.levels \in Seq(Levels) /\ r.fits \in BOOLEAN
  BY DEF Readings, Stacks
<1>5. top \in Levels /\ below \in Seq(Levels)
  BY <1>2, <1>3, <1>4, StackSplit
<1>6. z.fits \in BOOLEAN
  <2>1. E!Fits(top, t) \in BOOLEAN
    BY <1>5, FitsType
  <2>2. z.fits = MayCome(r, t)
    BY <1>1, ReadTokenIs
  <2> QED BY <1>2, <1>4, <2>1, <2>2 DEF MayCome
<1>7. z.levels \in Stacks
  <2>1. CASE t.kind = "("
    <3>1. z.levels = Append(r.levels, E!Opened)
      BY <1>1, <2>1, ReadTokenIs
    <3> QED BY <1>4, <3>1, OpenedType, TopAndBelow
  <2>2. CASE t.kind = ")" /\ below # <<>>
    <3>1. below \in Stacks
      BY <1>5, <2>2 DEF Stacks
    <3>2. E!Top(below) \in Levels /\ E!Below(below) \in Seq(Levels)
      BY <3>1, StackSplit
    <3>3. E!Group(E!Top(below), E!Holds(top)) \in Levels
      BY <1>5, <3>2, GroupType, KeptType
    <3>4. z.levels = Append(E!Below(below), E!Group(E!Top(below), E!Holds(top)))
      BY <1>1, <1>2, <1>3, <2>2, ReadTokenIs
    <3> QED BY <3>2, <3>3, <3>4, TopAndBelow
  <2>3. CASE t.kind # "(" /\ ~(t.kind = ")" /\ below # <<>>)
    <3>1. z.levels = Append(below, E!ReadIn(top, t, line, vs))
      BY <1>1, <1>2, <1>3, <2>3, ReadTokenIs
    <3>2. E!ReadIn(top, t, line, vs) \in Levels
      BY <1>5, ReadInType
    <3> QED BY <1>5, <3>1, <3>2, TopAndBelow
  <2> QED BY <2>1, <2>2, <2>3
<1>8. z = [levels |-> z.levels, fits |-> z.fits]
  BY <1>1, ReadTokenIs
<1> QED BY <1>1, <1>6, <1>7, <1>8 DEF Readings

-----------------------------------------------------------------------------
\* g is what is read of s after each of its tokens.
ReadingOf(g, s, line, vs) ==
  /\ g \in [0 .. Len(s) -> Readings] /\ g[0] = Start
  /\ \A k \in 1 .. Len(s) : g[k] = E!ReadToken(g[k - 1], s[k], line, vs)

LEMMA ReadingSolves ==
  ASSUME NEW s \in Seq(E!Tokens), NEW line, NEW vs
  PROVE  \E g : ReadingOf(g, s, line, vs) /\ E!Reading(s, line, vs) = g[Len(s)]
<1> DEFINE n == Len(s)
           step == [k \in 1 .. n |-> [v \in Readings |-> E!ReadToken(v, s[k], line, vs)]]
           body(f) == [k \in 0 .. n |->
                        IF k = 0 THEN [levels |-> <<E!Opened>>, fits |-> TRUE]
                        ELSE E!ReadToken(f[k - 1], s[k], line, vs)]
           read == CHOOSE f : f = body(f)
<1>1. n \in Nat /\ \A k \in 1 .. n : s[k] \in E!Tokens
  BY LenProperties, ElementOfSeq
<1>2. step \in [1 .. n -> [Readings -> Readings]]
  <2>1. \A k \in 1 .. n, v \in Readings : E!ReadToken(v, s[k], line, vs) \in Readings
    BY <1>1, ReadTokenType
  <2> QED BY <2>1
<1>3. Start \in Readings
  <2>1. <<E!Opened>> \in Seq(Levels) /\ <<E!Opened>> # <<>>
    BY OpenedType
  <2> QED BY <2>1 DEF Start, Readings, Stacks
<1>4. \E g \in [0 .. n -> Readings] :
        g[0] = Start /\ \A k \in 1 .. n : g[k] = step[k][g[k - 1]]
  <2>1. Recursion(Readings, Start, n, step)
    BY <1>1, <1>2, <1>3 DEF Recursion
  <2> HIDE DEF n, step
  <2> QED
    BY <2>1, RecursionExists DEF Solves
<1>5. PICK g \in [0 .. n -> Readings] :
        g[0] = Start /\ \A k \in 1 .. n : g[k] = step[k][g[k - 1]]
  BY <1>4
<1>6. \A k \in 1 .. n : g[k] = E!ReadToken(g[k - 1], s[k], line, vs)
  <2> SUFFICES ASSUME NEW k \in 1 .. n
               PROVE  g[k] = E!ReadToken(g[k - 1], s[k], line, vs)
    OBVIOUS
  <2>1. g[k - 1] \in Readings
    BY <1>1
  <2> QED
    BY <1>5, <2>1
<1>7. g = body(g)
  <2>1. ASSUME NEW k \in 0 .. n
        PROVE  g[k] = IF k = 0 THEN [levels |-> <<E!Opened>>, fits |-> TRUE]
                      ELSE E!ReadToken(g[k - 1], s[k], line, vs)
    <3>1. CASE k = 0
      BY <1>5, <3>1 DEF Start
    <3>2. CASE k # 0
      <4>1. k \in 1 .. n
        BY <1>1, <3>2
      <4> QED
        BY <1>6, <3>2, <4>1
    <3> QED
      BY <3>1, <3>2
  <2>2. g = [k \in 0 .. n |-> g[k]]
    OBVIOUS
  <2> QED
    BY <2>1, <2>2
<1>8. read = body(read)
  <2> HIDE DEF body
  <2> QED
    BY <1>7
<1>9. E!Reading(s, line, vs) = read[n]
  BY DEF E!Reading
<1>10. PICK f : f = read
  OBVIOUS
<1>11. f = body(f) /\ E!Reading(s, line, vs) = f[n]
  <2> HIDE DEF read, body
  <2> QED
    BY <1>8, <1>9, <1>10
<1>12. /\ f[0] = Start /\ DOMAIN f = 0 .. n
       /\ \A k \in 1 .. n : f[k] = E!ReadToken(f[k - 1], s[k], line, vs)
       /\ f = [k \in 0 .. n |-> f[k]]
  <2> HIDE DEF read
  <2>1. 0 \in 0 .. n /\ \A k \in 1 .. n : k \in 0 .. n /\ k # 0
    BY <1>1
  <2>2. /\ DOMAIN f = 0 .. n
        /\ \A k \in 0 .. n : f[k] = IF k = 0 THEN [levels |-> <<E!Opened>>, fits |-> TRUE]
                                    ELSE E!ReadToken(f[k - 1], s[k], line, vs)
        /\ f = [k \in DOMAIN f |-> f[k]]
    BY <1>11
  <2> HIDE DEF n
  <2> QED
    BY <2>1, <2>2 DEF Start
<1> DEFINE A == {k \in Nat : k <= n => f[k] \in Readings}
<1> HIDE DEF read, n, body
<1>13. \A k \in 0 .. n : f[k] \in Readings
  <2>1. 0 \in A
    BY <1>3, <1>12
  <2>2. ASSUME NEW k \in Nat, k \in A PROVE k + 1 \in A
    <3> SUFFICES ASSUME k + 1 <= n PROVE f[k + 1] \in Readings
      OBVIOUS
    <3>1. k + 1 \in 1 .. n /\ (k + 1) - 1 = k /\ f[k] \in Readings
      BY <1>1, <2>2
    <3>2. f[k + 1] = E!ReadToken(f[k], s[k + 1], line, vs)
      BY <1>12, <3>1
    <3>3. s[k + 1] \in E!Tokens
      BY <1>1, <3>1
    <3> QED
      BY <3>1, <3>2, <3>3, ReadTokenType
  <2>3. Nat \subseteq A
    <3> HIDE DEF A
    <3> QED BY <2>1, <2>2, NatInduces
  <2> QED
    BY <1>1, <2>3
<1>14. f \in [0 .. n -> Readings]
  BY <1>12, <1>13
<1> QED
  BY <1>11, <1>12, <1>14 DEF ReadingOf, n

\* Once a token did not fit, nothing that follows helps.
LEMMA FitsBefore ==
  ASSUME NEW g, NEW s \in Seq(E!Tokens), NEW line, NEW vs, ReadingOf(g, s, line, vs),
         g[Len(s)].fits
  PROVE  \A k \in 0 .. Len(s) : g[k].fits
<1>1. PICK n \in Nat : n = Len(s)
  BY LenProperties
<1> DEFINE A == {m \in Nat : m <= n => g[n - m].fits}
<1>2. 0 \in A
  <2>1. n - 0 = n
    BY <1>1
  <2> QED BY <1>1, <2>1
<1>3. ASSUME NEW m \in Nat, m \in A PROVE m + 1 \in A
  <2> SUFFICES ASSUME m + 1 <= n PROVE g[n - (m + 1)].fits
    OBVIOUS
  <2>0. n - m \in 1 .. n
    OBVIOUS
  <2>1. PICK k \in 1 .. n : k = n - m
    BY <2>0
  <2>2. k - 1 = n - (m + 1) /\ m <= n
    BY <1>1, <2>1
  <2>3. g[k].fits
    BY <1>3, <2>1, <2>2
  <2>4. g[k] = E!ReadToken(g[k - 1], s[k], line, vs)
    BY <1>1 DEF ReadingOf
  <2>5. MayCome(g[k - 1], s[k])
    BY <2>3, <2>4, ReadTokenIs
  <2> QED BY <2>2, <2>5 DEF MayCome
<1>4. Nat \subseteq A
  <2> HIDE DEF A
  <2> QED BY <1>2, <1>3, NatInduces
<1>5. ASSUME NEW k \in 0 .. n PROVE g[k].fits
  <2>1. n - k \in Nat /\ n - k <= n /\ n - (n - k) = k
    BY <1>1
  <2>2. n - k \in A
    BY <1>4, <2>1
  <2> QED BY <2>1, <2>2
<1> QED BY <1>1, <1>5

\* Two scripts that go on alike from places where the same has been read.
GoAlike(s, vs, t, ws, line, a, b, m) ==
  /\ a + m <= Len(s) /\ b + m <= Len(t)
  /\ \A k \in 1 .. m : /\ s[a + k] = t[b + k]
                        /\ \A r : E!ReadToken(r, s[a + k], line, vs)
                                    = E!ReadToken(r, s[a + k], line, ws)

LEMMA ReadingsAgree ==
  ASSUME NEW g, NEW s \in Seq(E!Tokens), NEW vs, NEW h, NEW t \in Seq(E!Tokens), NEW ws,
         NEW line, ReadingOf(g, s, line, vs), ReadingOf(h, t, line, ws),
         NEW a \in Nat, NEW b \in Nat, NEW m \in Nat, GoAlike(s, vs, t, ws, line, a, b, m),
         g[a] = h[b]
  PROVE  StayAbreast(g, h, a, b, m)
<1>1. PICK l \in Nat, n \in Nat : l = Len(s) /\ n = Len(t)
  BY LenProperties
<1> DEFINE A == {k \in Nat : k <= m => g[a + k] = h[b + k]}
<1>2. 0 \in A
  OBVIOUS
<1>3. ASSUME NEW k \in Nat, k \in A PROVE k + 1 \in A
  <2> SUFFICES ASSUME k + 1 <= m PROVE g[a + (k + 1)] = h[b + (k + 1)]
    OBVIOUS
  <2>1. PICK p \in 1 .. l : p = a + (k + 1)
    BY <1>1 DEF GoAlike
  <2>2. PICK q \in 1 .. n : q = b + (k + 1)
    BY <1>1 DEF GoAlike
  <2>3. p - 1 = a + k /\ q - 1 = b + k /\ k + 1 \in 1 .. m /\ k <= m
    BY <2>1, <2>2
  <2>4. /\ s[p] = t[q] /\ g[p - 1] = h[q - 1]
        /\ \A r : E!ReadToken(r, s[p], line, vs) = E!ReadToken(r, s[p], line, ws)
    BY <1>3, <2>1, <2>2, <2>3 DEF GoAlike
  <2>5. /\ g[p] = E!ReadToken(g[p - 1], s[p], line, vs)
        /\ h[q] = E!ReadToken(h[q - 1], t[q], line, ws)
    BY <1>1, <2>1, <2>2 DEF ReadingOf
  <2>6. g[p] = h[q]
    BY <2>4, <2>5
  <2> QED BY <2>1, <2>2, <2>6
<1>4. Nat \subseteq A
  <2> HIDE DEF A
  <2> QED BY <1>2, <1>3, NatInduces
<1> QED BY <1>4 DEF StayAbreast

\* Vectors that are added do not change what the others say.
LEMMA SameToken ==
  ASSUME NEW T, NEW vs \in Seq(T), NEW x \in T, NEW t \in KnownTokens(Len(vs)), NEW line,
         NEW r
  PROVE  E!ReadToken(r, t, line, vs) = E!ReadToken(r, t, line, Append(vs, x))
<1>1. PICK ws : ws = Append(vs, x)
  OBVIOUS
<1>2. t.kind = "var" => ws[t.id] = vs[t.id]
  <2>1. t.kind = "var" => t.id \in 1 .. Len(vs)
    BY DEF KnownTokens
  <2> QED BY <1>1, <2>1, AppendProperties
<1>3. \A level : E!ReadIn(level, t, line, vs) = E!ReadIn(level, t, line, ws)
  BY <1>2 DEF E!ReadIn
<1> QED BY <1>1, <1>3 DEF E!ReadToken

-----------------------------------------------------------------------------
(* The vector of a script without brackets, operand by operand.            *)

ModeAt(S, n) == IF n = 1 THEN "&&" ELSE S[n - 1][1].kind

\* The operator in front of the operand that follows S.
Mode(S) == ModeAt(S, Len(S) + 1)

ResultOf(f, S, vs) ==
  /\ f[0] = <<>>
  /\ \A n \in 1 .. Len(S) :
       f[n] = IF n % 2 = 0 THEN f[n - 1] ELSE E!AddOperand(f[n - 1], ModeAt(S, n), S[n], vs)

Computes(S, res, vs) == \E f : ResultOf(f, S, vs) /\ res = f[Len(S)]

LEMMA ComputesNone == ASSUME NEW vs PROVE Computes(<<>>, <<>>, vs)
<1>1. PICK S \in Seq({}) : S = <<>>
  BY EmptySeq
<1>2. Len(S) = 0
  BY <1>1, EmptySeq
<1>3. PICK f : f = [n \in {0} |-> <<>>]
  OBVIOUS
<1>4. f[0] = <<>>
  BY <1>3
<1>5. ResultOf(f, S, vs) /\ <<>> = f[Len(S)]
  BY <1>2, <1>4 DEF ResultOf
<1> QED BY <1>1, <1>5 DEF Computes

\* An operand that comes behind, and what is in front of it.
LEMMA ComputesOperand ==
  ASSUME NEW S \in Seq(Seq(E!Tokens)), NEW m \in Nat, Len(S) = 2 * m, NEW res, NEW vs,
         Computes(S, res, vs), NEW sub \in Seq(E!Tokens)
  PROVE  Computes(Append(S, sub), E!AddOperand(res, Mode(S), sub, vs), vs)
<1>1. PICK f : ResultOf(f, S, vs) /\ res = f[Len(S)]
  BY DEF Computes
<1>2. PICK l \in Nat : l = Len(S)
  BY LenProperties
<1>3. PICK R : R = Append(S, sub)
  OBVIOUS
<1>4. Len(R) = l + 1 /\ R[l + 1] = sub /\ \A n \in 1 .. l : R[n] = S[n]
  <2>1. Len(R) = l + 1 /\ R[l + 1] = sub
    BY <1>2, <1>3, LastOfAppend
  <2>2. \A n \in 1 .. l : R[n] = S[n]
    BY <1>2, <1>3, AppendProperties
  <2> QED BY <2>1, <2>2
<1>5. PICK x : x = E!AddOperand(res, Mode(S), sub, vs)
  OBVIOUS
<1>6. PICK g : g = [n \in 0 .. l + 1 |-> IF n <= l THEN f[n] ELSE x]
  OBVIOUS
<1>7. (\A n \in 0 .. l : g[n] = f[n]) /\ g[l + 1] = x
  BY <1>6
<1>8. \A n \in 1 .. l + 1 : ModeAt(R, n) = ModeAt(S, n)
  <2> SUFFICES ASSUME NEW n \in 1 .. l + 1 PROVE ModeAt(R, n) = ModeAt(S, n)
    OBVIOUS
  <2>1. n = 1 \/ n - 1 \in 1 .. l
    OBVIOUS
  <2> QED BY <1>4, <2>1 DEF ModeAt
<1>9. g[0] = <<>>
  BY <1>1, <1>7 DEF ResultOf
<1>10. ASSUME NEW n \in 1 .. l + 1
       PROVE  g[n] = IF n % 2 = 0 THEN g[n - 1]
                     ELSE E!AddOperand(g[n - 1], ModeAt(R, n), R[n], vs)
  <2>1. CASE n \in 1 .. l
    <3>1. n \in 0 .. l /\ n - 1 \in 0 .. l
      BY <2>1
    <3>2. g[n] = f[n] /\ g[n - 1] = f[n - 1] /\ R[n] = S[n] /\ ModeAt(R, n) = ModeAt(S, n)
      BY <1>4, <1>7, <1>8, <2>1, <3>1
    <3>3. f[n] = IF n % 2 = 0 THEN f[n - 1]
                 ELSE E!AddOperand(f[n - 1], ModeAt(S, n), S[n], vs)
      BY <1>1, <1>2, <2>1 DEF ResultOf
    <3> QED BY <3>2, <3>3
  <2>2. CASE n = l + 1
    <3>1. n % 2 = 1 /\ n % 2 # 0
      BY <1>2, <2>2, OddNext
    <3>2. n - 1 = l /\ l \in 0 .. l
      BY <2>2
    <3>3. g[n] = x /\ g[n - 1] = res /\ R[n] = sub /\ ModeAt(R, n) = Mode(S)
      BY <1>1, <1>2, <1>4, <1>7, <1>8, <2>2, <3>2 DEF Mode
    <3> QED BY <1>5, <3>1, <3>3
  <2> QED BY <2>1, <2>2
<1>11. ResultOf(g, R, vs) /\ x = g[Len(R)]
  BY <1>4, <1>7, <1>9, <1>10 DEF ResultOf
<1> QED BY <1>3, <1>5, <1>11 DEF Computes

\* The operator behind it changes nothing yet.
LEMMA ComputesOperator ==
  ASSUME NEW S \in Seq(Seq(E!Tokens)), NEW m \in Nat, Len(S) = 2 * m + 1, NEW res, NEW vs,
         Computes(S, res, vs), NEW op \in Seq(E!Tokens)
  PROVE  Computes(Append(S, op), res, vs) /\ Mode(Append(S, op)) = op[1].kind
<1>1. PICK f : ResultOf(f, S, vs) /\ res = f[Len(S)]
  BY DEF Computes
<1>2. PICK l \in Nat : l = Len(S)
  BY LenProperties
<1>3. PICK R : R = Append(S, op)
  OBVIOUS
<1>4. Len(R) = l + 1 /\ R[l + 1] = op /\ \A n \in 1 .. l : R[n] = S[n]
  <2>1. Len(R) = l + 1 /\ R[l + 1] = op
    BY <1>2, <1>3, LastOfAppend
  <2>2. \A n \in 1 .. l : R[n] = S[n]
    BY <1>2, <1>3, AppendProperties
  <2> QED BY <2>1, <2>2
<1>6. PICK g : g = [n \in 0 .. l + 1 |-> IF n <= l THEN f[n] ELSE res]
  OBVIOUS
<1>7. (\A n \in 0 .. l : g[n] = f[n]) /\ g[l + 1] = res
  BY <1>6
<1>9. g[0] = <<>>
  BY <1>1, <1>7 DEF ResultOf
<1>10. ASSUME NEW n \in 1 .. l + 1
       PROVE  g[n] = IF n % 2 = 0 THEN g[n - 1]
                     ELSE E!AddOperand(g[n - 1], ModeAt(R, n), R[n], vs)
  <2>1. CASE n \in 1 .. l
    <3>1. n \in 0 .. l /\ n - 1 \in 0 .. l /\ (n = 1 \/ n - 1 \in 1 .. l)
      BY <2>1
    <3>2. g[n] = f[n] /\ g[n - 1] = f[n - 1] /\ R[n] = S[n] /\ ModeAt(R, n) = ModeAt(S, n)
      BY <1>4, <1>7, <2>1, <3>1 DEF ModeAt
    <3>3. f[n] = IF n % 2 = 0 THEN f[n - 1]
                 ELSE E!AddOperand(f[n - 1], ModeAt(S, n), S[n], vs)
      BY <1>1, <1>2, <2>1 DEF ResultOf
    <3> QED BY <3>2, <3>3
  <2>2. CASE n = l + 1
    <3>1. n % 2 = 0
      BY <1>2, <2>2, OddNext
    <3>2. n - 1 = l /\ l \in 0 .. l
      BY <2>2
    <3> QED BY <1>1, <1>2, <1>7, <2>2, <3>1, <3>2
  <2> QED BY <2>1, <2>2
<1>11. ResultOf(g, R, vs) /\ res = g[Len(R)]
  BY <1>4, <1>7, <1>9, <1>10 DEF ResultOf
<1>12. Mode(R) = op[1].kind
  <2>1. l + 2 # 1 /\ (l + 2) - 1 = l + 1 /\ (l + 1) + 1 = l + 2
    BY <1>2
  <2> QED BY <1>4, <2>1 DEF Mode, ModeAt
<1> QED BY <1>3, <1>11, <1>12 DEF Computes

\* There is one result.
LEMMA ComputedIsResult ==
  ASSUME NEW s, NEW S \in Seq(Seq(E!Tokens)), S = E!Split(s), NEW res, NEW vs,
         Computes(S, res, vs)
  PROVE  E!SimpleCompile(s, vs) = res
<1>1. PICK f : ResultOf(f, S, vs) /\ res = f[Len(S)]
  BY DEF Computes
<1>2. PICK l \in Nat : l = Len(S)
  BY LenProperties
<1> DEFINE body(h) == [n \in 0 .. Len(E!Split(s)) |->
                        IF n = 0 THEN <<>>
                        ELSE IF n % 2 = 0 THEN h[n - 1]
                        ELSE E!AddOperand(h[n - 1],
                               IF n = 1 THEN "&&" ELSE E!Split(s)[n - 1][1].kind,
                               E!Split(s)[n], vs)]
           result == CHOOSE h : h = body(h)
<1>3. E!SimpleCompile(s, vs) = result[Len(E!Split(s))]
  BY DEF E!SimpleCompile
<1>4. PICK g : g = [n \in 0 .. l |-> f[n]]
  OBVIOUS
<1>5. g = body(g)
  <2>1. ASSUME NEW n \in 0 .. l
        PROVE  g[n] = IF n = 0 THEN <<>>
                      ELSE IF n % 2 = 0 THEN g[n - 1]
                      ELSE E!AddOperand(g[n - 1], IF n = 1 THEN "&&" ELSE S[n - 1][1].kind,
                             S[n], vs)
    <3>1. CASE n = 0
      BY <1>1, <1>4, <3>1 DEF ResultOf
    <3>2. CASE n # 0
      <4>1. n \in 1 .. l /\ n - 1 \in 0 .. l
        BY <1>2, <3>2
      <4>2. g[n] = f[n] /\ g[n - 1] = f[n - 1]
        BY <1>4, <4>1
      <4>3. f[n] = IF n % 2 = 0 THEN f[n - 1]
                   ELSE E!AddOperand(f[n - 1], ModeAt(S, n), S[n], vs)
        BY <1>1, <1>2, <4>1 DEF ResultOf
      <4> QED BY <3>2, <4>2, <4>3 DEF ModeAt
    <3> QED BY <3>1, <3>2
  <2>2. g = [n \in 0 .. l |-> g[n]]
    BY <1>4
  <2> QED BY <1>2, <2>1, <2>2
<1>6. result = body(result)
  <2> HIDE DEF body
  <2> QED BY <1>5
<1>7. PICK h : h = result
  OBVIOUS
<1>8. h = body(h) /\ E!SimpleCompile(s, vs) = h[l]
  <2> HIDE DEF result, body
  <2> QED BY <1>2, <1>3, <1>6, <1>7
<1> HIDE DEF result
<1>9. /\ h[0] = <<>>
      /\ \A n \in 1 .. l : h[n] = IF n % 2 = 0 THEN h[n - 1]
                                  ELSE E!AddOperand(h[n - 1], ModeAt(S, n), S[n], vs)
  <2>1. \A n \in 0 .. l :
          h[n] = IF n = 0 THEN <<>>
                 ELSE IF n % 2 = 0 THEN h[n - 1]
                 ELSE E!AddOperand(h[n - 1], IF n = 1 THEN "&&" ELSE S[n - 1][1].kind,
                             S[n], vs)
    BY <1>2, <1>8
  <2>2. 0 \in 0 .. l /\ \A n \in 1 .. l : n \in 0 .. l /\ n # 0
    BY <1>2
  <2> QED BY <2>1, <2>2 DEF ModeAt
<1> HIDE DEF body
<1> DEFINE A == {n \in Nat : n <= l => h[n] = f[n]}
<1>10. 0 \in A
  BY <1>1, <1>9 DEF ResultOf
<1>11. ASSUME NEW n \in Nat, n \in A PROVE n + 1 \in A
  <2> SUFFICES ASSUME n + 1 <= l PROVE h[n + 1] = f[n + 1]
    OBVIOUS
  <2>1. PICK p \in 1 .. l : p = n + 1
    BY <1>2
  <2>2. p - 1 = n /\ n <= l
    BY <1>2, <2>1
  <2>3. h[p - 1] = f[p - 1]
    BY <1>11, <2>2
  <2>4. f[p] = IF p % 2 = 0 THEN f[p - 1]
               ELSE E!AddOperand(f[p - 1], ModeAt(S, p), S[p], vs)
    BY <1>1, <1>2, <2>1 DEF ResultOf
  <2>5. h[p] = IF p % 2 = 0 THEN h[p - 1]
               ELSE E!AddOperand(h[p - 1], ModeAt(S, p), S[p], vs)
    BY <1>9, <2>1
  <2>6. h[p] = f[p]
    BY <2>3, <2>4, <2>5
  <2> QED BY <2>1, <2>6
<1>12. Nat \subseteq A
  <2> HIDE DEF A
  <2> QED BY <1>10, <1>11, NatInduces
<1>13. h[l] = f[l]
  BY <1>2, <1>12
<1> QED BY <1>1, <1>2, <1>8, <1>13

-----------------------------------------------------------------------------
(* What an operand does to a vector, and to the reading.                   *)

Vectors == Seq(FilterRules) \ {<<>>}

\* The last rule of a vector, and the others.
LastHolds(res, line) == E!Matches(res[Len(res)], line)
SomeHolds(res, line) == \E n \in 1 .. Len(res) - 1 : E!Matches(res[n], line)

\* res keeps what has been read.
Sums(res, top, line) ==
  /\ res \in Vectors /\ top \in Levels
  /\ E!OnRuleFilter(res, line) <=> E!Holds(top)
  /\ ~top.group => (LastHolds(res, line) <=> top.all) /\ (SomeHolds(res, line) <=> top.some)
  /\ ~top.ors => ~top.some

\* An operand is due behind what has been read.
Nothing(res, mode, top) ==
  /\ res = <<>> /\ mode = "&&" /\ top \in Levels
  /\ ~top.some /\ top.all /\ ~top.ors /\ ~top.group

BehindOr(res, mode, top, line) ==
  /\ res \in Vectors /\ mode = "||" /\ top \in Levels
  /\ E!OnRuleFilter(res, line) <=> top.some
  /\ top.all /\ top.ors /\ ~top.group

BehindAnd(res, mode, top, line) == mode = "&&" /\ Sums(res, top, line)

Awaits(res, mode, top, line) ==
  \/ Nothing(res, mode, top)
  \/ BehindOr(res, mode, top, line)
  \/ BehindAnd(res, mode, top, line)

LEMMA VectorKeeps ==
  ASSUME NEW res \in Vectors, NEW line
  PROVE  E!OnRuleFilter(res, line) <=> LastHolds(res, line) \/ SomeHolds(res, line)
<1>1. PICK n \in Nat : n = Len(res)
  BY LenProperties DEF Vectors
<1>2. n # 0
  BY <1>1, EmptySeq DEF Vectors
<1>3. n \in 1 .. n /\ \A k \in 1 .. n : k \in 1 .. n - 1 \/ k = n
  BY <1>2
<1>4. \A k \in 1 .. n - 1 : k \in 1 .. n
  OBVIOUS
<1> QED BY <1>1, <1>3, <1>4 DEF LastHolds, SomeHolds, E!OnRuleFilter

LEMMA SingleRule ==
  ASSUME NEW r \in FilterRules, NEW line
  PROVE  /\ <<r>> \in Vectors /\ (LastHolds(<<r>>, line) <=> E!Matches(r, line))
         /\ ~SomeHolds(<<r>>, line)
<1>1. PICK v : v = <<r>>
  OBVIOUS
<1>2. v \in Seq(FilterRules) /\ Len(v) = 1 /\ v[1] = r
  BY <1>1
<1>3. v # <<>>
  <2>1. Len(v) # 0
    BY <1>2
  <2> QED BY <2>1, EmptySeq
<1>4. v \in Vectors
  BY <1>2, <1>3 DEF Vectors
<1>5. LastHolds(v, line) <=> E!Matches(r, line)
  BY <1>2 DEF LastHolds
<1>6. ~SomeHolds(v, line)
  <2>1. 1 .. Len(v) - 1 = {}
    BY <1>2
  <2> QED BY <2>1 DEF SomeHolds
<1> QED BY <1>1, <1>4, <1>5, <1>6

LEMMA OrAppends ==
  ASSUME NEW a \in Vectors, NEW b \in Vectors, NEW line
  PROVE  /\ a \o b \in Vectors
         /\ E!OnRuleFilter(a \o b, line)
              <=> E!OnRuleFilter(a, line) \/ E!OnRuleFilter(b, line)
<1>1. a \in Seq(FilterRules) /\ b \in Seq(FilterRules) /\ a # <<>>
  BY DEF Vectors
<1>2. a \o b \in Seq(FilterRules) /\ Len(a \o b) = Len(a) + Len(b)
  BY <1>1, ConcatProperties
<1>3. Len(a) # 0 /\ Len(a) \in Nat /\ Len(b) \in Nat
  BY <1>1, EmptySeq, LenProperties
<1>4. a \o b # <<>>
  BY <1>2, <1>3, EmptySeq
<1>5. E!OnRuleFilter(E!CalOrResult(a, b), line)
        <=> E!OnRuleFilter(a, line) \/ E!OnRuleFilter(b, line)
  BY <1>1, OrKeepsWhatEitherKeeps
<1> QED BY <1>2, <1>4, <1>5 DEF Vectors, E!CalOrResult

\* The rule that is appended is the last one.
LEMMA OrOne ==
  ASSUME NEW a \in Vectors, NEW r \in FilterRules, NEW line
  PROVE  /\ LastHolds(a \o <<r>>, line) <=> E!Matches(r, line)
         /\ SomeHolds(a \o <<r>>, line) <=> E!OnRuleFilter(a, line)
<1>1. PICK l \in Nat : l = Len(a)
  BY LenProperties DEF Vectors
<1>2. a \in Seq(FilterRules)
  BY DEF Vectors
<1>3. PICK z : z = a \o <<r>>
  OBVIOUS
<1>4. z = Append(a, r)
  BY <1>2, <1>3
<1>5. Len(z) = l + 1 /\ z[l + 1] = r /\ \A n \in 1 .. l : z[n] = a[n]
  <2>1. Len(z) = l + 1 /\ z[l + 1] = r
    BY <1>1, <1>2, <1>4, LastOfAppend
  <2>2. \A n \in 1 .. l : z[n] = a[n]
    BY <1>1, <1>2, <1>4, AppendProperties
  <2> QED BY <2>1, <2>2
<1>6. (l + 1) - 1 = l
  OBVIOUS
<1> QED BY <1>1, <1>3, <1>5, <1>6 DEF LastHolds, SomeHolds, E!OnRuleFilter

\* The keyword that is added to the last rule.
LEMMA AndOne ==
  ASSUME NEW a \in Vectors, NEW r \in FilterRules, NEW line
  PROVE  /\ E!AndLast(a, r) \in Vectors
         /\ LastHolds(E!AndLast(a, r), line)
              <=> LastHolds(a, line) /\ E!Matches(r, line)
         /\ SomeHolds(E!AndLast(a, r), line) <=> SomeHolds(a, line)
<1>1. PICK k \in Nat : k = Len(a)
  BY LenProperties DEF Vectors
<1>2. a \in Seq(FilterRules) /\ k # 0
  BY <1>1, EmptySeq DEF Vectors
<1>3. k \in 1 .. k
  BY <1>2
<1>4. PICK x : x = E!Both(a[k], r)
  OBVIOUS
<1>5. a[k] \in FilterRules
  BY <1>1, <1>2, <1>3, ElementOfSeq
<1>6. x \in FilterRules
  BY <1>4, <1>5 DEF E!Both, E!FilterRule, FilterRules
<1>7. PICK c : c = E!AndLast(a, r)
  OBVIOUS
<1>8. c = [a EXCEPT ![k] = x]
  BY <1>1, <1>4, <1>7 DEF E!AndLast
<1>9. /\ c \in Seq(FilterRules) /\ Len(c) = k /\ c[k] = x
      /\ \A n \in 1 .. k - 1 : c[n] = a[n]
  <2>1. c \in Seq(FilterRules) /\ Len(c) = k
    BY <1>1, <1>2, <1>3, <1>6, <1>8
  <2>2. c[k] = x /\ \A n \in 1 .. k - 1 : c[n] = a[n]
    BY <1>1, <1>2, <1>3, <1>8
  <2> QED BY <2>1, <2>2
<1>10. c # <<>>
  BY <1>2, <1>9, EmptySeq
<1>11. E!Matches(x, line) <=> E!Matches(a[k], line) /\ E!Matches(r, line)
  BY <1>4, BothKeeps
<1> QED BY <1>1, <1>7, <1>9, <1>10, <1>11 DEF Vectors, LastHolds, SomeHolds

LEMMA AndMultiplies ==
  ASSUME NEW a \in Vectors, NEW b \in Vectors, NEW line
  PROVE  /\ E!CalAndResult(a, b) \in Vectors
         /\ E!OnRuleFilter(E!CalAndResult(a, b), line)
              <=> E!OnRuleFilter(a, line) /\ E!OnRuleFilter(b, line)
<1>1. a \in Seq(FilterRules) /\ b \in Seq(FilterRules)
  BY DEF Vectors
<1>2. PICK k \in Nat : k = Len(a)
  BY <1>1, LenProperties
<1>3. PICK m \in Nat : m = Len(b)
  BY <1>1, LenProperties
<1>4. k # 0 /\ m # 0
  BY <1>1, <1>2, <1>3, EmptySeq DEF Vectors
<1>5. k * m \in Nat /\ k * m # 0
  <2>1. k * m \in Nat
    OBVIOUS
  <2>2. 0 * m + 0 + 1 \in 1 .. k * m
    <3>1. m \in Nat \ {0} /\ 0 \in 0 .. k - 1 /\ 0 \in 0 .. m - 1 /\ 0 \in Nat
      BY <1>4
    <3> QED BY <3>1, PlaceInside
  <2> QED BY <2>1, <2>2
<1>6. PICK c : c = E!CalAndResult(a, b)
  OBVIOUS
<1>7. c = [n \in 1 .. k * m |-> E!Both(a[((n - 1) \div m) + 1], b[((n - 1) % m) + 1])]
  BY <1>2, <1>3, <1>6 DEF E!CalAndResult
<1>8. ASSUME NEW n \in 1 .. k * m
      PROVE  E!Both(a[((n - 1) \div m) + 1], b[((n - 1) % m) + 1]) \in FilterRules
  <2>1. PICK p \in 1 .. k : p = ((n - 1) \div m) + 1
    BY RowInside
  <2>2. PICK q \in 1 .. m : q = ((n - 1) % m) + 1
    BY RowInside
  <2>3. a[p] \in FilterRules /\ b[q] \in FilterRules
    BY <1>1, <1>2, <1>3, ElementOfSeq
  <2>4. E!Both(a[p], b[q]) \in FilterRules
    BY <2>3 DEF E!Both, E!FilterRule, FilterRules
  <2> QED BY <2>1, <2>2, <2>4
<1>9. c \in [1 .. k * m -> FilterRules]
  BY <1>7, <1>8
<1>10. c \in Seq(FilterRules) /\ Len(c) = k * m
  <2>1. PICK l \in Nat : l = k * m
    BY <1>5
  <2>2. c \in [1 .. l -> FilterRules]
    BY <1>9, <2>1
  <2>3. c \in Seq(FilterRules) /\ Len(c) = l
    BY <2>2
  <2> QED BY <2>1, <2>3
<1>11. c # <<>>
  BY <1>5, <1>10, EmptySeq
<1>12. E!OnRuleFilter(c, line) <=> E!OnRuleFilter(a, line) /\ E!OnRuleFilter(b, line)
  BY <1>1, <1>6, AndKeepsWhatBothKeep
<1> QED BY <1>6, <1>10, <1>11, <1>12 DEF Vectors

-----------------------------------------------------------------------------
IsVariable(sub) == Len(sub) = 1 /\ sub[1].kind = "var"

LEMMA AddOperandIs ==
  ASSUME NEW res, NEW mode, NEW sub, NEW vs
  PROVE  /\ (mode = "||" \/ res = <<>>) /\ IsVariable(sub) =>
              E!AddOperand(res, mode, sub, vs) = res \o vs[sub[1].id]
         /\ (mode = "||" \/ res = <<>>) /\ ~IsVariable(sub) =>
              E!AddOperand(res, mode, sub, vs) = res \o <<E!Literal(sub)>>
         /\ mode = "&&" /\ res # <<>> /\ IsVariable(sub) =>
              E!AddOperand(res, mode, sub, vs) = E!CalAndResult(res, vs[sub[1].id])
         /\ mode = "&&" /\ res # <<>> /\ ~IsVariable(sub) =>
              E!AddOperand(res, mode, sub, vs) = E!AndLast(res, E!Literal(sub))
<1> DEFINE content == IF IsVariable(sub) THEN vs[sub[1].id] ELSE <<E!Literal(sub)>>
<1>1. E!AddOperand(res, mode, sub, vs) =
        CASE mode = "||" \/ res = <<>>               -> E!CalOrResult(res, content)
          [] mode = "&&" /\ res # <<>> /\ IsVariable(sub) -> E!CalAndResult(res, content)
          [] OTHER                                   -> E!AndLast(res, content[1])
  BY DEF E!AddOperand, IsVariable
<1>2. IsVariable(sub) => content = vs[sub[1].id]
  OBVIOUS
<1>3. ~IsVariable(sub) => content = <<E!Literal(sub)>> /\ content[1] = E!Literal(sub)
  OBVIOUS
<1> HIDE DEF content
<1>4. mode = "||" \/ res = <<>> =>
        E!AddOperand(res, mode, sub, vs) = E!CalOrResult(res, content)
  BY <1>1
<1>5. mode = "&&" /\ res # <<>> /\ IsVariable(sub) =>
        E!AddOperand(res, mode, sub, vs) = E!CalAndResult(res, content)
  BY <1>1
<1>6. mode = "&&" /\ res # <<>> /\ ~IsVariable(sub) =>
        E!AddOperand(res, mode, sub, vs) = E!AndLast(res, content[1])
  BY <1>1
<1> QED BY <1>2, <1>3, <1>4, <1>5, <1>6 DEF E!CalOrResult

LEMMA AddVector ==
  ASSUME NEW res, NEW mode, NEW sub, NEW vs, mode = "||" \/ res = <<>>, IsVariable(sub)
  PROVE  E!AddOperand(res, mode, sub, vs) = res \o vs[sub[1].id]
<1>1. Len(sub) = 1 /\ sub[1].kind = "var"
  BY DEF IsVariable
<1>2. PICK content : content = vs[sub[1].id]
  OBVIOUS
<1>3. E!AddOperand(res, mode, sub, vs) = E!CalOrResult(res, content)
  BY <1>1, <1>2 DEF E!AddOperand
<1> QED BY <1>2, <1>3 DEF E!CalOrResult

\* A keyword, with or without a ! in front.
LEMMA LiteralIs ==
  ASSUME NEW w \in E!Tokens, w.kind = "word", NEW line
  PROVE  /\ E!Literal(<<w>>) \in FilterRules /\ ~IsVariable(<<w>>)
         /\ E!Matches(E!Literal(<<w>>), line) <=> w.id \in line
         /\ E!Literal(<<E!Symbol("!"), w>>) \in FilterRules
         /\ ~IsVariable(<<E!Symbol("!"), w>>)
         /\ E!Matches(E!Literal(<<E!Symbol("!"), w>>), line) <=> w.id \notin line
<1>1. PICK one : one = <<w>>
  OBVIOUS
<1>2. PICK bang : bang = E!Symbol("!")
  OBVIOUS
<1>3. bang \in E!Tokens /\ bang.kind = "!"
  BY <1>2 DEF E!Symbol, E!Token, E!Tokens, E!Kinds
<1>4. PICK two : two = <<bang, w>>
  OBVIOUS
<1>5. one \in Seq(E!Tokens) /\ Len(one) = 1 /\ one[1] = w
  BY <1>1
<1>6. two \in Seq(E!Tokens) /\ Len(two) = 2 /\ two[1] = bang /\ Tail(two) = one
  BY <1>1, <1>3, <1>4
<1>7. one[1] # bang /\ two # <<>>
  BY <1>3, <1>5, <1>6, EmptySeq
<1>8. E!Literal(one) = E!FilterRule({one}, {})
  BY <1>2, <1>7 DEF E!Literal
<1>9. E!Literal(two) = E!FilterRule({}, {one})
  BY <1>2, <1>6, <1>7 DEF E!Literal
<1>10. E!Literal(one) \in FilterRules /\ E!Literal(two) \in FilterRules
  BY <1>5, <1>8, <1>9 DEF FilterRules, E!FilterRule
<1>11. E!Found(one, line) <=> w.id \in line
  BY <1>5 DEF E!Found
<1>12. E!Matches(E!Literal(one), line) <=> w.id \in line
  BY <1>8, <1>11 DEF E!Matches, E!FilterRule
<1>13. E!Matches(E!Literal(two), line) <=> w.id \notin line
  BY <1>9, <1>11 DEF E!Matches, E!FilterRule
<1>14. ~IsVariable(one) /\ ~IsVariable(two)
  BY <1>5, <1>6 DEF IsVariable
<1> QED BY <1>1, <1>2, <1>4, <1>10, <1>12, <1>13, <1>14

\* What is read of a keyword behind what is awaited.
LEMMA AddWord ==
  ASSUME NEW res, NEW mode, NEW top, NEW line, NEW vs, Awaits(res, mode, top, line),
         ~top.group, NEW sub, E!Literal(sub) \in FilterRules, ~IsVariable(sub),
         NEW holds \in BOOLEAN, E!Matches(E!Literal(sub), line) <=> holds
  PROVE  Sums(E!AddOperand(res, mode, sub, vs),
              [top EXCEPT !.all = @ /\ holds, !.last = "word"], line)
<1>1. PICK r \in FilterRules : r = E!Literal(sub)
  OBVIOUS
<1>2. E!Matches(r, line) <=> holds
  BY <1>1
<1>3. PICK z : z = E!AddOperand(res, mode, sub, vs)
  OBVIOUS
<1>4. top \in Levels
  BY DEF Awaits, Nothing, BehindOr, BehindAnd, Sums
<1>5. PICK new : new = [top EXCEPT !.all = @ /\ holds, !.last = "word"]
  OBVIOUS
<1>6. /\ new \in Levels /\ new.some = top.some /\ new.ors = top.ors
      /\ new.group = top.group /\ new.all = (top.all /\ holds)
  BY <1>4, <1>5 DEF Levels, E!Kinds
<1>7. /\ z \in Vectors
      /\ LastHolds(z, line) <=> top.all /\ holds
      /\ SomeHolds(z, line) <=> top.some
      /\ ~top.ors => ~top.some
  <2>1. CASE Nothing(res, mode, top)
    <3>1. z = <<>> \o <<r>>
      BY <1>1, <1>3, <2>1, AddOperandIs DEF Nothing
    <3>2. z = <<r>>
      <4>1. <<r>> \in Seq(FilterRules)
        OBVIOUS
      <4> QED BY <3>1, <4>1
    <3> QED BY <1>2, <2>1, <3>2, SingleRule DEF Nothing
  <2>2. CASE BehindOr(res, mode, top, line)
    <3>1. z = res \o <<r>> /\ res \in Vectors
      BY <1>1, <1>3, <2>2, AddOperandIs DEF BehindOr
    <3>2. z \in Vectors
      BY <3>1, SingleRule, OrAppends
    <3> QED BY <1>2, <2>2, <3>1, <3>2, OrOne DEF BehindOr
  <2>3. CASE BehindAnd(res, mode, top, line)
    <3>1. res \in Vectors /\ mode = "&&" /\ res # <<>>
      BY <2>3 DEF BehindAnd, Sums, Vectors
    <3>2. z = E!AndLast(res, r)
      BY <1>1, <1>3, <3>1, AddOperandIs
    <3> QED BY <1>2, <2>3, <3>1, <3>2, AndOne DEF BehindAnd, Sums
  <2> QED BY <2>1, <2>2, <2>3 DEF Awaits
<1>8. E!OnRuleFilter(z, line) <=> LastHolds(z, line) \/ SomeHolds(z, line)
  BY <1>7, VectorKeeps
<1>9. E!OnRuleFilter(z, line) <=> E!Holds(new)
  BY <1>6, <1>7, <1>8 DEF E!Holds
<1>10. LastHolds(z, line) <=> new.all
  BY <1>6, <1>7
<1>11. SomeHolds(z, line) <=> new.some
  BY <1>6, <1>7
<1>12. ~new.ors => ~new.some
  BY <1>6, <1>7
<1> QED BY <1>3, <1>5, <1>6, <1>7, <1>9, <1>10, <1>11, <1>12 DEF Sums

\* What is read of a group.
LEMMA AddGroup ==
  ASSUME NEW res, NEW mode, NEW top, NEW line, NEW vs, Awaits(res, mode, top, line),
         NEW sub, IsVariable(sub), NEW c \in Vectors, vs[sub[1].id] = c,
         top.last = "(" => res = <<>>, top.last = "||" => mode = "||",
         top.last \in {"(", "||"} \/ (top.last = "&&" /\ ~top.ors)
  PROVE  Sums(E!AddOperand(res, mode, sub, vs),
              E!Group(top, E!OnRuleFilter(c, line)), line)
<1>1. PICK kept \in BOOLEAN : kept = E!OnRuleFilter(c, line)
  BY DEF E!OnRuleFilter
<1>2. PICK z : z = E!AddOperand(res, mode, sub, vs)
  OBVIOUS
<1>3. top \in Levels
  BY DEF Awaits, Nothing, BehindOr, BehindAnd, Sums
<1>4. PICK new : new = E!Group(top, kept)
  OBVIOUS
<1>5. /\ new \in Levels /\ new.some = top.some /\ new.ors = top.ors
      /\ new.group /\ new.all = (top.all /\ kept)
  BY <1>3, <1>4 DEF Levels, E!Kinds, E!Group
<1>6. /\ z \in Vectors
      /\ E!OnRuleFilter(z, line) <=> top.some \/ (top.all /\ kept)
      /\ ~top.ors => ~top.some
  <2>1. CASE Nothing(res, mode, top)
    <3>1. z = <<>> \o c /\ c \in Seq(FilterRules)
      <4>1. res = <<>>
        BY <2>1 DEF Nothing
      <4>2. z = res \o vs[sub[1].id]
        BY <1>2, <4>1, AddVector
      <4>3. c \in Seq(FilterRules)
        BY DEF Vectors
      <4> QED BY <4>1, <4>2, <4>3
    <3>2. z = c
      BY <3>1
    <3> QED BY <1>1, <2>1, <3>2 DEF Nothing
  <2>2. CASE BehindOr(res, mode, top, line)
    <3>1. z = res \o c /\ res \in Vectors
      <4>1. mode = "||" /\ res \in Vectors
        BY <2>2 DEF BehindOr
      <4>2. z = res \o vs[sub[1].id]
        BY <1>2, <4>1, AddVector
      <4> QED BY <4>1, <4>2
    <3> QED BY <1>1, <2>2, <3>1, OrAppends DEF BehindOr
  <2>3. CASE BehindAnd(res, mode, top, line)
    <3>1. res \in Vectors /\ mode = "&&" /\ res # <<>> /\ (~top.ors => ~top.some)
      BY <2>3 DEF BehindAnd, Sums, Vectors
    <3>2. ~top.ors
      BY <3>1
    <3>3. z = E!CalAndResult(res, c)
      BY <1>2, <3>1, AddOperandIs
    <3>4. z \in Vectors
          /\ (E!OnRuleFilter(z, line)
                <=> E!OnRuleFilter(res, line) /\ E!OnRuleFilter(c, line))
      BY <3>1, <3>3, AndMultiplies
    <3>5. E!OnRuleFilter(res, line) <=> top.some \/ top.all
      BY <2>3 DEF BehindAnd, Sums, E!Holds
    <3> QED BY <1>1, <3>1, <3>2, <3>4, <3>5
  <2> QED BY <2>1, <2>2, <2>3 DEF Awaits
<1>7. E!OnRuleFilter(z, line) <=> E!Holds(new)
  BY <1>5, <1>6 DEF E!Holds
<1>8. ~new.ors => ~new.some
  BY <1>5, <1>6
<1> QED BY <1>1, <1>2, <1>4, <1>5, <1>6, <1>7, <1>8 DEF Sums

\* An operator behind an operand.
LEMMA BehindOperand ==
  ASSUME NEW res, NEW top, NEW line, NEW t \in E!Tokens, NEW vs, Sums(res, top, line),
         t.kind \in E!Operators
  PROVE  Awaits(res, t.kind, E!ReadIn(top, t, line, vs), line)
<1>1. PICK new : new = E!ReadIn(top, t, line, vs)
  OBVIOUS
<1>2. top \in Levels /\ new \in Levels
  BY <1>1, ReadInType DEF Sums
<1>3. CASE t.kind = "||"
  <2>1. new = [top EXCEPT !.some = E!Holds(top), !.all = TRUE, !.ors = TRUE,
                          !.group = FALSE, !.last = "||"]
    BY <1>1, <1>3 DEF E!ReadIn
  <2>2. new.some = E!Holds(top) /\ new.all /\ new.ors /\ ~new.group
    BY <1>2, <2>1 DEF Levels
  <2>3. E!OnRuleFilter(res, line) <=> new.some
    BY <2>2 DEF Sums
  <2> QED BY <1>1, <1>2, <1>3, <2>2, <2>3 DEF Awaits, BehindOr, Sums
<1>4. CASE t.kind = "&&"
  <2>1. new = [top EXCEPT !.last = "&&"]
    BY <1>1, <1>4 DEF E!ReadIn
  <2>2. /\ new.some = top.some /\ new.all = top.all /\ new.ors = top.ors
        /\ new.group = top.group
    BY <1>2, <2>1 DEF Levels
  <2>3. E!Holds(new) = E!Holds(top)
    BY <2>2 DEF E!Holds
  <2> QED BY <1>1, <1>2, <1>4, <2>2, <2>3 DEF Awaits, BehindAnd, Sums
<1> QED BY <1>3, <1>4 DEF E!Operators

-----------------------------------------------------------------------------
(* A script without brackets keeps what it means.                          *)

\* Where SimpleCompile is when top has been read: res is the vector of what has been
\* split off.
DueStage(st, res, top, line) ==
  /\ top.last \in {"(", "&&", "||"} /\ st.sub = <<>>
  /\ Awaits(res, Mode(st.strSet), top, line)
  /\ top.last = "(" => res = <<>>
  /\ top.last = "||" => Mode(st.strSet) = "||"

NegatedStage(st, res, top, line) ==
  /\ top.last = "!" /\ st.sub = <<E!Symbol("!")>>
  /\ Awaits(res, Mode(st.strSet), top, line)

ReadStage(st, res, top, line, vs) ==
  /\ top.last \in {"word", ")"} /\ st.sub # <<>>
  /\ Sums(E!AddOperand(res, Mode(st.strSet), st.sub, vs), top, line)

FlatStage(st, res, top, line, vs) ==
  /\ st \in Halves /\ (\E m \in Nat : Len(st.strSet) = 2 * m)
  /\ Computes(st.strSet, res, vs)
  /\ \/ DueStage(st, res, top, line)
     \/ NegatedStage(st, res, top, line)
     \/ ReadStage(st, res, top, line, vs)

\* Neither operators nor their operands are lost.
LEMMA PutIs ==
  ASSUME NEW st \in Halves, NEW t \in E!Tokens
  PROVE  /\ t.kind \in E!Operators /\ st.sub # <<>> =>
              /\ PutToken(st, t).sub = <<>>
              /\ PutToken(st, t).strSet = Append(Append(st.strSet, st.sub), <<t>>)
         /\ t.kind \notin E!Operators =>
              /\ PutToken(st, t).sub = Append(st.sub, t)
              /\ PutToken(st, t).strSet = st.strSet
<1>1. st = [strSet |-> st.strSet, sub |-> st.sub]
      /\ st.strSet \in Seq(Seq(E!Tokens)) /\ st.sub \in Seq(E!Tokens)
  BY DEF Halves
<1>2. CASE t.kind \in E!Operators /\ st.sub # <<>>
  <2>1. PutToken(st, t) = [strSet |-> st.strSet \o <<st.sub, <<t>> >>, sub |-> <<>>]
    BY <1>2 DEF PutToken
  <2>2. st.strSet \o <<st.sub, <<t>> >> = Append(Append(st.strSet, st.sub), <<t>>)
    <3>1. PICK b : b = <<t>>
      OBVIOUS
    <3>0. b \in Seq(E!Tokens)
      BY <3>1
    <3>2. st.strSet \o <<st.sub, b>> = Append(Append(st.strSet, st.sub), b)
      BY <1>1, <3>0
    <3> QED BY <3>1, <3>2
  <2> QED BY <1>2, <2>1, <2>2
<1>3. CASE t.kind \notin E!Operators
  <2>1. PutToken(st, t) = [st EXCEPT !.sub = Append(@, t)]
    BY <1>3 DEF PutToken
  <2> QED BY <1>1, <1>3, <2>1
<1> QED BY <1>2, <1>3

LEMMA FlatGoesOn ==
  ASSUME NEW st, NEW res, NEW top \in Levels, NEW line, NEW vs,
         FlatStage(st, res, top, line, vs), NEW t \in E!Tokens, t.kind \notin {"(", ")"},
         E!Fits(top, t), t.kind = "var" => vs[t.id] \in Vectors
  PROVE  \E r : FlatStage(PutToken(st, t), r, E!ReadIn(top, t, line, vs), line, vs)
<1>1. PICK new : new = E!ReadIn(top, t, line, vs)
  OBVIOUS
<1>2. PICK put : put = PutToken(st, t)
  OBVIOUS
<1>3. new \in Levels /\ put \in Halves /\ st \in Halves
  BY <1>1, <1>2, ReadInType, PutType DEF FlatStage
<1>4. PICK m \in Nat : Len(st.strSet) = 2 * m
  BY DEF FlatStage
<1>5. st.strSet \in Seq(Seq(E!Tokens)) /\ st.sub \in Seq(E!Tokens)
  BY <1>3 DEF Halves
<1>6. Computes(st.strSet, res, vs)
  BY DEF FlatStage
<1>7. t.kind \in {"word", "var", "!", "&&", "||"}
  BY DEF E!Tokens, E!Kinds
<1>8. CASE t.kind \in E!Operators
  <2>1. top.last \in {"word", ")"}
    BY <1>8 DEF E!Fits, E!Operators
  <2>2. ReadStage(st, res, top, line, vs)
    BY <2>1 DEF FlatStage, DueStage, NegatedStage
  <2>3. PICK z : z = E!AddOperand(res, Mode(st.strSet), st.sub, vs)
    OBVIOUS
  <2>4. Sums(z, top, line) /\ st.sub # <<>>
    BY <2>2, <2>3 DEF ReadStage
  <2>5. PICK A : A = Append(st.strSet, st.sub)
    OBVIOUS
  <2>6. Computes(A, z, vs)
    BY <1>4, <1>5, <1>6, <2>3, <2>5, ComputesOperand
  <2>7. A \in Seq(Seq(E!Tokens)) /\ Len(A) = 2 * m + 1
    <3>1. A \in Seq(Seq(E!Tokens)) /\ Len(A) = Len(st.strSet) + 1
      BY <1>5, <2>5, AppendProperties
    <3> QED BY <1>4, <3>1
  <2>8. PICK op : op = <<t>>
    OBVIOUS
  <2>15. op \in Seq(E!Tokens)
    BY <2>8
  <2>9. put.sub = <<>> /\ put.strSet = Append(A, op)
    BY <1>2, <1>3, <1>8, <2>4, <2>5, <2>8, PutIs
  <2>10. Computes(put.strSet, z, vs) /\ Mode(put.strSet) = t.kind
    <3>1. op[1].kind = t.kind
      BY <2>8
    <3> QED BY <2>6, <2>7, <2>9, <2>15, <3>1, ComputesOperator
  <2>11. \E k \in Nat : Len(put.strSet) = 2 * k
    <3>1. Len(put.strSet) = 2 * m + 1 + 1
      <4>1. Len(put.strSet) = Len(A) + 1
        <5>1. A \in Seq(Seq(E!Tokens)) /\ put.strSet = Append(A, op)
          BY <2>7, <2>9
        <5> QED BY <2>15, <5>1, AppendProperties
      <4> QED BY <2>7, <4>1
    <3>2. Len(put.strSet) = 2 * (m + 1) /\ m + 1 \in Nat
      BY <3>1
    <3> QED BY <3>2
  <2>12. Awaits(z, Mode(put.strSet), new, line)
    BY <1>1, <1>8, <2>4, <2>10, BehindOperand
  <2>13. new.last = t.kind
    <3>1. CASE t.kind = "||"
      <4>1. new = [top EXCEPT !.some = E!Holds(top), !.all = TRUE, !.ors = TRUE,
                              !.group = FALSE, !.last = "||"]
        BY <1>1, <3>1 DEF E!ReadIn
      <4> QED BY <3>1, <4>1 DEF Levels
    <3>2. CASE t.kind = "&&"
      <4>1. new = [top EXCEPT !.last = "&&"]
        BY <1>1, <3>2 DEF E!ReadIn
      <4> QED BY <3>2, <4>1 DEF Levels
    <3> QED BY <1>8, <3>1, <3>2 DEF E!Operators
  <2>14. DueStage(put, z, new, line)
    BY <1>8, <2>9, <2>10, <2>12, <2>13 DEF DueStage, E!Operators
  <2> QED BY <1>1, <1>2, <1>3, <2>10, <2>11, <2>14 DEF FlatStage
<1>9. CASE t.kind \notin E!Operators
  <2>1. put.sub = Append(st.sub, t) /\ put.strSet = st.strSet
    BY <1>2, <1>3, <1>9, PutIs
  <2>2. put.sub # <<>>
    <3>1. Len(put.sub) = Len(st.sub) + 1 /\ Len(st.sub) \in Nat
      BY <1>5, <2>1, LastOfAppend, LenProperties
    <3> QED BY <3>1, EmptySeq
  <2>3. st.sub = <<>> => put.sub = <<t>>
    BY <2>1
  <2>4. CASE t.kind = "word"
    <3>1. top.last \in {"(", "!", "&&", "||"} /\ ~top.group
      BY <2>4 DEF E!Fits
    <3>2. PICK holds \in BOOLEAN : holds = ((t.id \in line) <=> (top.last # "!"))
      OBVIOUS
    <3>3. new = [top EXCEPT !.all = @ /\ holds, !.last = "word"]
      BY <1>1, <2>4, <3>2 DEF E!ReadIn
    <3>4. /\ Awaits(res, Mode(st.strSet), top, line)
          /\ put.sub = IF top.last = "!" THEN <<E!Symbol("!"), t>> ELSE <<t>>
      <4>1. CASE DueStage(st, res, top, line)
        BY <2>3, <4>1 DEF DueStage
      <4>2. CASE NegatedStage(st, res, top, line)
        <5>1. st.sub = <<E!Symbol("!")>>
          BY <4>2 DEF NegatedStage
        <5>2. Append(<<E!Symbol("!")>>, t) = <<E!Symbol("!"), t>>
          <6>1. PICK bang \in E!Tokens : bang = E!Symbol("!")
            BY DEF E!Symbol, E!Token, E!Tokens, E!Kinds
          <6>2. PICK b : b = Append(<<bang>>, t)
            OBVIOUS
          <6>3. b = <<bang, t>>
            <7>1. <<bang>> \in Seq(E!Tokens) /\ Len(<<bang>>) = 1 /\ <<bang>>[1] = bang
              OBVIOUS
            <7>2. b \in Seq(E!Tokens) /\ Len(b) = 2 /\ b[1] = bang /\ b[2] = t
              BY <6>2, <7>1
            <7>3. PICK c \in Seq(E!Tokens) : c = <<bang, t>>
              <8>1. <<bang, t>> \in Seq(E!Tokens)
                OBVIOUS
              <8> QED BY <8>1
            <7>4. Len(c) = 2 /\ c[1] = bang /\ c[2] = t
              BY <7>3
            <7>5. \A k \in 1 .. 2 : b[k] = c[k]
              BY <7>2, <7>4
            <7> QED BY <7>2, <7>3, <7>4, <7>5, SeqEqual
          <6> QED BY <6>1, <6>2, <6>3
        <5> QED BY <2>1, <4>2, <5>1, <5>2 DEF NegatedStage
      <4>3. ~ReadStage(st, res, top, line, vs)
        BY <3>1 DEF ReadStage
      <4> QED BY <4>1, <4>2, <4>3 DEF FlatStage
    <3>5. /\ E!Literal(put.sub) \in FilterRules /\ ~IsVariable(put.sub)
          /\ E!Matches(E!Literal(put.sub), line) <=> holds
      BY <2>4, <3>2, <3>4, LiteralIs
    <3>6. Sums(E!AddOperand(res, Mode(st.strSet), put.sub, vs), new, line)
      BY <3>1, <3>3, <3>4, <3>5, AddWord
    <3>7. new.last = "word"
      BY <3>3 DEF Levels
    <3>8. ReadStage(put, res, new, line, vs)
      BY <2>1, <2>2, <3>6, <3>7 DEF ReadStage
    <3> QED BY <1>1, <1>2, <1>3, <1>4, <1>6, <2>1, <3>8 DEF FlatStage
  <2>5. CASE t.kind = "var"
    <3>1. top.last \in {"(", "||"} \/ (top.last = "&&" /\ ~top.ors)
      BY <2>5 DEF E!Fits
    <3>2. DueStage(st, res, top, line)
      BY <3>1 DEF FlatStage, NegatedStage, ReadStage
    <3>3. PICK c \in Vectors : c = vs[t.id]
      BY <2>5
    <3>4. new = E!Group(top, E!OnRuleFilter(c, line))
      BY <1>1, <2>5, <3>3 DEF E!ReadIn
    <3>5. put.sub = <<t>>
      BY <2>3, <3>2 DEF DueStage
    <3>6. IsVariable(put.sub) /\ vs[put.sub[1].id] = c
      BY <2>5, <3>3, <3>5 DEF IsVariable
    <3>7. /\ Awaits(res, Mode(st.strSet), top, line)
          /\ top.last = "(" => res = <<>>
          /\ top.last = "||" => Mode(st.strSet) = "||"
      BY <3>2 DEF DueStage
    <3>8. Sums(E!AddOperand(res, Mode(st.strSet), put.sub, vs), new, line)
      BY <3>1, <3>4, <3>6, <3>7, AddGroup
    <3>9. new.last = ")"
      BY <3>4 DEF Levels, E!Group
    <3>10. ReadStage(put, res, new, line, vs)
      BY <2>1, <2>2, <3>8, <3>9 DEF ReadStage
    <3> QED BY <1>1, <1>2, <1>3, <1>4, <1>6, <2>1, <3>10 DEF FlatStage
  <2>6. CASE t.kind = "!"
    <3>1. top.last \in {"(", "&&", "||"} /\ t = E!Symbol("!")
      BY <2>6 DEF E!Fits
    <3>2. DueStage(st, res, top, line)
      BY <3>1 DEF FlatStage, NegatedStage, ReadStage
    <3>3. new = [top EXCEPT !.last = "!"]
      BY <1>1, <2>6 DEF E!ReadIn
    <3>4. new.last = "!" /\ new.some = top.some /\ new.all = top.all /\ new.ors = top.ors
          /\ new.group = top.group
      BY <3>3 DEF Levels
    <3>5. put.sub = <<E!Symbol("!")>>
      BY <2>3, <3>1, <3>2 DEF DueStage
    <3>6. Awaits(res, Mode(st.strSet), top, line)
      BY <3>2 DEF DueStage
    <3>7. Awaits(res, Mode(st.strSet), new, line)
      <4>1. E!Holds(new) = E!Holds(top)
        BY <3>4 DEF E!Holds
      <4> QED BY <1>3, <3>4, <3>6, <4>1 DEF Awaits, Nothing, BehindOr, BehindAnd, Sums
    <3>8. NegatedStage(put, res, new, line)
      BY <2>1, <3>4, <3>5, <3>7 DEF NegatedStage
    <3> QED BY <1>1, <1>2, <1>3, <1>4, <1>6, <2>1, <3>8 DEF FlatStage
  <2> QED BY <1>7, <1>9, <2>4, <2>5, <2>6 DEF E!Operators
<1> QED BY <1>8, <1>9

(***************************************************************************)
(* What SimpleCompile makes of a script without brackets.                  *)
(***************************************************************************)
LEMMA FlatMeans ==
  ASSUME NEW s \in Seq(E!Tokens), NoBrackets(s), NEW line, NEW vs,
         \A k \in 1 .. Len(s) : s[k].kind = "var" => vs[s[k].id] \in Vectors,
         E!Complete(E!Reading(s, line, vs))
  PROVE  /\ E!SimpleCompile(s, vs) \in Vectors
         /\ E!OnRuleFilter(E!SimpleCompile(s, vs), line)
              <=> E!Holds(E!Top(E!Reading(s, line, vs).levels))
<1>1. PICK l \in Nat : l = Len(s)
  BY LenProperties
<1>2. PICK g : SplitOf(g, s)
  BY SplitSolves
<1>3. PICK h : ReadingOf(h, s, line, vs) /\ E!Reading(s, line, vs) = h[l]
  BY <1>1, ReadingSolves
<1>4. \A k \in 0 .. l : h[k].fits
  BY <1>1, <1>3, FitsBefore DEF E!Complete
<1> DEFINE Flat(k) == \E top, res :
                        /\ top \in Levels /\ h[k].levels = Append(<<>>, top)
                        /\ FlatStage(g[k], res, top, line, vs)
           A == {k \in Nat : k <= l => Flat(k)}
<1>5. 0 \in A
  <2>1. g[0] \in Halves /\ g[0].strSet = <<>> /\ g[0].sub = <<>>
    BY <1>1, <1>2 DEF SplitOf
  <2>2. Len(g[0].strSet) = 2 * 0 /\ Len(g[0].strSet) = 0
    BY <2>1, EmptySeq
  <2>3. Computes(g[0].strSet, <<>>, vs)
    BY <2>1, ComputesNone
  <2>4. h[0].levels = Append(<<>>, E!Opened)
    BY <1>3 DEF ReadingOf, Start
  <2>5. Mode(g[0].strSet) = "&&"
    <3>1. 0 + 1 = 1
      OBVIOUS
    <3> QED BY <2>2, <3>1 DEF Mode, ModeAt
  <2>6. Nothing(<<>>, "&&", E!Opened) /\ E!Opened.last = "("
    BY OpenedType DEF Nothing, E!Opened
  <2>7. DueStage(g[0], <<>>, E!Opened, line)
    BY <2>1, <2>5, <2>6 DEF DueStage, Awaits
  <2>8. \E m \in Nat : Len(g[0].strSet) = 2 * m
    BY <2>2
  <2>9. FlatStage(g[0], <<>>, E!Opened, line, vs)
    BY <2>1, <2>3, <2>7, <2>8 DEF FlatStage
  <2> QED BY <2>4, <2>9, OpenedType
<1>6. ASSUME NEW k \in Nat, k \in A PROVE k + 1 \in A
  <2> SUFFICES ASSUME k + 1 <= l PROVE Flat(k + 1)
    OBVIOUS
  <2>1. PICK p \in 1 .. l : p = k + 1
    BY <1>1
  <2>2. k <= l /\ p - 1 = k /\ p \in 0 .. l
    BY <1>1, <2>1
  <2>3. PICK top, res : /\ top \in Levels /\ h[k].levels = Append(<<>>, top)
                       /\ FlatStage(g[k], res, top, line, vs)
    BY <1>6, <2>2
  <2>4. PICK t \in E!Tokens : t = s[p]
    BY <1>1, <2>1, ElementOfSeq
  <2>5. t.kind \notin {"(", ")"} /\ (t.kind = "var" => vs[t.id] \in Vectors)
    BY <1>1, <2>1, <2>4 DEF NoBrackets
  <2>6. g[p] = PutToken(g[k], t)
    BY <1>1, <1>2, <2>1, <2>2, <2>4 DEF SplitOf
  <2>7. h[p] = E!ReadToken(h[k], t, line, vs)
    BY <1>1, <1>3, <2>1, <2>2, <2>4 DEF ReadingOf
  <2>8. E!Top(h[k].levels) = top /\ E!Below(h[k].levels) = <<>>
    <3>1. <<>> \in Seq(Levels)
      BY EmptySeq
    <3> QED BY <2>3, <3>1, TopAndBelow
  <2>9. E!Fits(top, t)
    <3>1. h[p].fits
      BY <1>4, <2>2
    <3>2. MayCome(h[k], t)
      BY <2>7, <3>1, ReadTokenIs
    <3> QED BY <2>8, <3>2 DEF MayCome
  <2>10. h[p].levels = Append(<<>>, E!ReadIn(top, t, line, vs))
    BY <2>5, <2>7, <2>8, ReadPlain
  <2>11. PICK new \in Levels : new = E!ReadIn(top, t, line, vs)
    BY <2>3, ReadInType
  <2>12. PICK r : FlatStage(g[p], r, new, line, vs)
    BY <2>3, <2>5, <2>6, <2>9, <2>11, FlatGoesOn
  <2>13. Flat(p)
    BY <2>10, <2>11, <2>12
  <2> QED BY <2>1, <2>13
<1>7. Flat(l)
  <2>1. Nat \subseteq A
    <3> HIDE DEF A
    <3> QED BY <1>5, <1>6, NatInduces
  <2> QED BY <1>1, <2>1
<1>8. PICK top, res : /\ top \in Levels /\ h[l].levels = Append(<<>>, top)
                      /\ FlatStage(g[l], res, top, line, vs)
  BY <1>7
<1>9. E!Top(h[l].levels) = top
  <2>1. <<>> \in Seq(Levels)
    BY EmptySeq
  <2> QED BY <1>8, <2>1, TopAndBelow
<1>10. PICK st : st = g[l]
  OBVIOUS
<1>11. ReadStage(st, res, top, line, vs)
  <2>1. top.last \in {"word", ")"}
    BY <1>3, <1>9 DEF E!Complete
  <2> QED BY <1>8, <1>10, <2>1 DEF FlatStage, DueStage, NegatedStage
<1>12. PICK z : z = E!AddOperand(res, Mode(st.strSet), st.sub, vs)
  OBVIOUS
<1>13. Sums(z, top, line) /\ st.sub # <<>>
  BY <1>11, <1>12 DEF ReadStage
<1>14. E!Split(s) = Append(st.strSet, st.sub)
  BY <1>1, <1>2, <1>10, <1>13 DEF SplitOf
<1>15. st.strSet \in Seq(Seq(E!Tokens)) /\ st.sub \in Seq(E!Tokens)
  BY <1>8, <1>10 DEF FlatStage, Halves
<1>16. Computes(E!Split(s), z, vs)
  BY <1>8, <1>10, <1>12, <1>14, <1>15, ComputesOperand DEF FlatStage
<1>17. E!Split(s) \in Seq(Seq(E!Tokens))
  BY <1>14, <1>15, AppendProperties
<1>18. E!SimpleCompile(s, vs) = z
  BY <1>16, <1>17, ComputedIsResult
<1> QED BY <1>3, <1>9, <1>13, <1>18 DEF Sums

-----------------------------------------------------------------------------
(* A bracket is read as the script that is in it.                          *)

LEMMA OneLevel ==
  ASSUME NEW top \in Levels
  PROVE  Len(Append(<<>>, top)) = 1 /\ E!Top(Append(<<>>, top)) = top
         /\ E!Below(Append(<<>>, top)) = <<>>
<1>1. PICK ls \in Seq(Levels) : ls = <<>>
  BY EmptySeq
<1>2. Len(ls) = 0
  BY <1>1, EmptySeq
<1>3. Len(Append(ls, top)) = 1
  BY <1>2, LastOfAppend
<1> QED BY <1>1, <1>3, TopAndBelow

LEMMA InnerReading ==
  ASSUME NEW s \in Seq(E!Tokens), NEW line, NEW vs, NEW g, ReadingOf(g, s, line, vs),
         NEW pos, NEW q, NEW x, IsInner(x, s, pos, q), g[Len(s)].fits,
         NEW ls \in Stacks, g[pos - 1].levels = ls
  PROVE  /\ E!Complete(E!Reading(x, line, vs))
         /\ g[q].levels = Append(E!Below(ls),
                            E!Group(E!Top(ls), E!Holds(E!Top(E!Reading(x, line, vs).levels))))
<1>1. PICK l \in Nat, n \in Nat : l = Len(s) /\ n = Len(x)
  BY LenProperties DEF IsInner
<1>2. /\ x \in Seq(E!Tokens) /\ NoBrackets(x) /\ pos \in Nat /\ pos # 0
      /\ q \in 1 .. l /\ pos < q /\ n = (q - pos) - 1
      /\ s[pos].kind = "(" /\ s[q].kind = ")"
      /\ \A k \in 1 .. n : x[k] = s[pos + k]
  BY <1>1 DEF IsInner
<1>3. q = pos + n + 1 /\ pos \in 1 .. l /\ pos + n \in 1 .. l /\ pos + n \in 0 .. l
  <2>1. q \in Nat /\ pos \in Nat /\ 1 <= pos /\ q <= l /\ n = (q - pos) - 1
    BY <1>2
  <2>2. q = pos + n + 1
    BY <2>1
  <2> QED BY <2>1, <2>2
<1>4. PICK h : ReadingOf(h, x, line, vs) /\ E!Reading(x, line, vs) = h[n]
  BY <1>1, <1>2, ReadingSolves
<1>5. \A k \in 0 .. l : g[k].fits
  BY <1>1, FitsBefore
<1>6. ls \in Seq(Levels) /\ ls # <<>> /\ <<>> \in Seq(Levels)
  BY EmptySeq DEF Stacks
<1> DEFINE Alike(k) == \E top \in Levels : /\ g[pos + k].levels = Append(ls, top)
                                           /\ h[k].levels = Append(<<>>, top)
                                           /\ h[k].fits
           A == {k \in Nat : k <= n => Alike(k)}
<1>7. 0 \in A
  <2>1. g[pos] = E!ReadToken(g[pos - 1], s[pos], line, vs)
    BY <1>1, <1>3 DEF ReadingOf
  <2>5. PICK r : r = g[pos - 1]
    OBVIOUS
  <2>6. PICK a : a = s[pos]
    OBVIOUS
  <2>7. E!ReadToken(r, a, line, vs).levels = Append(r.levels, E!Opened)
    BY <1>2, <2>6, ReadOpening
  <2>2. g[pos].levels = Append(ls, E!Opened)
    BY <2>1, <2>5, <2>6, <2>7
  <2>3. h[0].levels = Append(<<>>, E!Opened) /\ h[0].fits
    BY <1>4 DEF ReadingOf, Start
  <2>4. pos + 0 = pos
    BY <1>2
  <2> QED BY <2>2, <2>3, <2>4, OpenedType
<1>8. ASSUME NEW k \in Nat, k \in A PROVE k + 1 \in A
  <2> SUFFICES ASSUME k + 1 <= n PROVE Alike(k + 1)
    OBVIOUS
  <2>1. PICK p \in 1 .. n : p = k + 1
    BY <1>1
  <2>2. PICK w \in 1 .. l : w = pos + p
    BY <1>2, <1>3, <2>1
  <2>3. k <= n /\ p - 1 = k /\ w - 1 = pos + k /\ w \in 0 .. l
    BY <1>1, <1>2, <2>1, <2>2
  <2>4. PICK top \in Levels : /\ g[pos + k].levels = Append(ls, top)
                              /\ h[k].levels = Append(<<>>, top)
                              /\ h[k].fits
    BY <1>8, <2>3
  <2>5. PICK t \in E!Tokens : t = x[p]
    BY <1>1, <1>2, <2>1, ElementOfSeq
  <2>6. s[w] = t /\ t.kind \notin {"(", ")"}
    BY <1>1, <1>2, <2>1, <2>2, <2>5 DEF NoBrackets
  <2>7. g[w] = E!ReadToken(g[pos + k], t, line, vs)
    BY <1>1, <2>2, <2>3, <2>6 DEF ReadingOf
  <2>8. h[p] = E!ReadToken(h[k], t, line, vs)
    BY <1>1, <1>4, <2>1, <2>3, <2>5 DEF ReadingOf
  <2>9. E!Top(g[pos + k].levels) = top /\ E!Below(g[pos + k].levels) = ls
    BY <1>6, <2>4, TopAndBelow
  <2>10. E!Top(h[k].levels) = top /\ E!Below(h[k].levels) = <<>>
    BY <2>4, OneLevel
  <2>11. PICK new \in Levels : new = E!ReadIn(top, t, line, vs)
    BY <2>4, ReadInType
  <2>12. g[w].levels = Append(ls, new)
    BY <2>6, <2>7, <2>9, <2>11, ReadPlain
  <2>13. h[p].levels = Append(<<>>, new)
    BY <2>6, <2>8, <2>10, <2>11, ReadPlain
  <2>14. h[p].fits
    <3>1. g[w].fits
      BY <1>5, <2>3
    <3>2. MayCome(g[pos + k], t)
      BY <2>7, <3>1, ReadTokenIs
    <3>3. E!Fits(top, t)
      BY <2>9, <3>2 DEF MayCome
    <3>4. MayCome(h[k], t)
      BY <2>4, <2>6, <2>10, <3>3 DEF MayCome
    <3> QED BY <2>8, <3>4, ReadTokenIs
  <2>15. w = pos + (k + 1)
    BY <2>1, <2>2
  <2> QED BY <2>1, <2>11, <2>12, <2>13, <2>14, <2>15
<1>9. Alike(n)
  <2>1. Nat \subseteq A
    <3> HIDE DEF A
    <3> QED BY <1>7, <1>8, NatInduces
  <2> QED BY <1>1, <2>1
<1>10. PICK top \in Levels : /\ g[pos + n].levels = Append(ls, top)
                             /\ h[n].levels = Append(<<>>, top)
                             /\ h[n].fits
  BY <1>9
<1>11. g[q] = E!ReadToken(g[pos + n], s[q], line, vs)
  <2>1. q - 1 = pos + n
    BY <1>3
  <2> QED BY <1>1, <1>2, <2>1 DEF ReadingOf
<1>12. E!Top(g[pos + n].levels) = top /\ E!Below(g[pos + n].levels) = ls
  BY <1>6, <1>10, TopAndBelow
<1>13. E!Fits(top, s[q])
  <2>1. q \in 0 .. l
    BY <1>2
  <2>2. g[q].fits
    BY <1>5, <2>1
  <2>3. MayCome(g[pos + n], s[q])
    BY <1>11, <2>2, ReadTokenIs
  <2> QED BY <1>12, <2>3 DEF MayCome
<1>14. top.last \in {"word", ")"}
  BY <1>2, <1>13 DEF E!Fits
<1>15. g[q].levels = Append(E!Below(ls), E!Group(E!Top(ls), E!Holds(top)))
  <2>1. PICK r : r = g[pos + n]
    OBVIOUS
  <2>2. PICK a : a = s[q]
    OBVIOUS
  <2>3. a.kind = ")" /\ E!Below(r.levels) # <<>>
    BY <1>2, <1>6, <1>12, <2>1, <2>2
  <2>4. E!ReadToken(r, a, line, vs).levels =
          Append(E!Below(E!Below(r.levels)),
                 E!Group(E!Top(E!Below(r.levels)), E!Holds(E!Top(r.levels))))
    BY <2>3, ReadTokenIs
  <2> QED BY <1>11, <1>12, <2>1, <2>2, <2>4
<1>16. E!Top(h[n].levels) = top /\ Len(h[n].levels) = 1
  BY <1>10, OneLevel
<1>17. E!Complete(h[n])
  BY <1>10, <1>14, <1>16 DEF E!Complete
<1> QED BY <1>4, <1>15, <1>16, <1>17

-----------------------------------------------------------------------------
\* A variable takes the place of the brackets around x, and c is its vector.
StandsFor(s, t, pos, q, x, vs, c) ==
  /\ Replaces(s, t, pos, q) /\ IsInner(x, s, pos, q)
  /\ vs \in Seq(Vectors) /\ s \in Seq(KnownTokens(Len(vs))) /\ c \in Vectors
  /\ t[pos].id = Len(vs) + 1

\* It is read as the brackets were.
LEMMA ReplacedReading ==
  ASSUME NEW s, NEW t, NEW pos, NEW q, NEW x, NEW vs, NEW c, StandsFor(s, t, pos, q, x, vs, c),
         NEW line, E!Reading(s, line, vs).fits,
         E!OnRuleFilter(c, line) <=> E!Holds(E!Top(E!Reading(x, line, vs).levels))
  PROVE  E!Reading(t, line, Append(vs, c)) = E!Reading(s, line, vs)
<1> PICK ws : ws = Append(vs, c)
  OBVIOUS
<1>0. /\ Replaces(s, t, pos, q) /\ IsInner(x, s, pos, q)
      /\ vs \in Seq(Vectors) /\ s \in Seq(KnownTokens(Len(vs))) /\ c \in Vectors
      /\ t[pos].id = Len(vs) + 1
  BY DEF StandsFor
<1>1. /\ s \in Seq(E!Tokens) /\ t \in Seq(E!Tokens)
      /\ pos \in 1 .. q - 1 /\ q \in 1 .. Len(s) /\ Len(t) = pos + (Len(s) - q)
      /\ s[pos].kind = "(" /\ s[q].kind = ")" /\ t[pos].kind = "var"
      /\ \A p \in 1 .. pos - 1 : t[p] = s[p]
      /\ \A k \in 1 .. Len(s) - q : t[pos + k] = s[q + k]
  BY <1>0 DEF Replaces
<1>2. PICK l \in Nat, n \in Nat : l = Len(s) /\ n = Len(t)
  BY <1>1, LenProperties
<1>3. PICK v \in Nat : v = Len(vs)
  BY <1>0, LenProperties
<1>4. /\ pos \in Nat /\ q \in Nat /\ 1 <= pos /\ pos < q /\ q <= l /\ n = pos + (l - q)
      /\ pos - 1 \in Nat /\ l - q \in Nat /\ pos \in 1 .. l /\ pos \in 1 .. n
      /\ pos - 1 \in 0 .. l
  <2>1. pos \in Nat /\ q \in Nat /\ 1 <= pos /\ pos < q /\ q <= l /\ n = pos + (l - q)
    BY <1>1, <1>2
  <2> QED BY <2>1
<1>5. PICK g : ReadingOf(g, s, line, vs) /\ E!Reading(s, line, vs) = g[l]
  BY <1>1, <1>2, ReadingSolves
<1>6. PICK e : ReadingOf(e, t, line, ws) /\ E!Reading(t, line, ws) = e[n]
  <2>1. t \in Seq(E!Tokens) /\ n = Len(t)
    BY <1>1, <1>2
  <2> QED BY <2>1, ReadingSolves
<1>7. \A k \in 0 .. l : g[k].fits
  BY <1>1, <1>2, <1>5, FitsBefore
<1>8. \A p \in 1 .. l : \A r :
        E!ReadToken(r, s[p], line, vs) = E!ReadToken(r, s[p], line, ws)
  <2> SUFFICES ASSUME NEW p \in 1 .. l, NEW r
               PROVE  E!ReadToken(r, s[p], line, vs) = E!ReadToken(r, s[p], line, ws)
    OBVIOUS
  <2>1. PICK a \in KnownTokens(Len(vs)) : a = s[p]
    BY <1>0, <1>2, ElementOfSeq
  <2> QED BY <1>0, <2>1, SameToken
<1>9. g[pos - 1] = e[pos - 1]
  <2>1. g[0] = e[0]
    BY <1>5, <1>6 DEF ReadingOf
  <2>2. PICK m \in Nat : m = pos - 1
    BY <1>4
  <2>3. /\ 0 + m <= Len(s) /\ 0 + m <= Len(t) /\ 0 \in Nat
    BY <1>2, <1>4, <2>2
  <2>4. \A k \in 1 .. m : /\ s[0 + k] = t[0 + k]
                          /\ \A r : E!ReadToken(r, s[0 + k], line, vs)
                                      = E!ReadToken(r, s[0 + k], line, ws)
    <3> SUFFICES ASSUME NEW k \in 1 .. m
                 PROVE  /\ s[0 + k] = t[0 + k]
                        /\ \A r : E!ReadToken(r, s[0 + k], line, vs)
                                    = E!ReadToken(r, s[0 + k], line, ws)
      OBVIOUS
    <3>1. 0 + k = k /\ k \in 1 .. pos - 1 /\ k \in 1 .. l
      BY <1>4, <2>2
    <3> QED BY <1>1, <1>8, <3>1
  <2>7. GoAlike(s, vs, t, ws, line, 0, 0, m)
    BY <2>3, <2>4 DEF GoAlike
  <2>5. StayAbreast(g, e, 0, 0, m)
    <3>1. s \in Seq(E!Tokens) /\ t \in Seq(E!Tokens)
      BY <1>1
    <3> QED BY <3>1, <1>5, <1>6, <2>1, <2>7, ReadingsAgree
  <2>6. m \in 0 .. m /\ 0 + m = m
    BY <2>2
  <2> QED BY <2>2, <2>5, <2>6 DEF StayAbreast
<1>10. PICK ls \in Stacks : ls = g[pos - 1].levels
  <2>1. g[pos - 1] \in Readings
    BY <1>2, <1>4, <1>5 DEF ReadingOf
  <2> QED BY <2>1 DEF Readings
<1>11. g[q].levels = Append(E!Below(ls),
                       E!Group(E!Top(ls), E!Holds(E!Top(E!Reading(x, line, vs).levels))))
  <2>1. g[Len(s)].fits
    BY <1>2, <1>5
  <2>2. s \in Seq(E!Tokens) /\ g[pos - 1].levels = ls
    BY <1>1, <1>10
  <2> QED BY <1>0, <1>5, <2>1, <2>2, InnerReading
<1>12. ws[v + 1] = c /\ t[pos].id = v + 1
  BY <1>0, <1>3, LastOfAppend
<1>13. PICK kept : kept = E!Holds(E!Top(E!Reading(x, line, vs).levels))
  OBVIOUS
<1>14. E!OnRuleFilter(c, line) = kept
  <2>1. E!OnRuleFilter(c, line) \in BOOLEAN
    BY DEF E!OnRuleFilter
  <2>2. kept \in BOOLEAN
    BY <1>13 DEF E!Holds
  <2>3. E!OnRuleFilter(c, line) <=> kept
    BY <1>13
  <2> QED BY <2>1, <2>2, <2>3
<1>15. e[pos] = E!ReadToken(g[pos - 1], t[pos], line, ws)
  BY <1>2, <1>4, <1>6, <1>9 DEF ReadingOf
<1>16. e[pos].levels = Append(E!Below(ls), E!Group(E!Top(ls), kept))
  <2>1. E!ReadIn(E!Top(ls), t[pos], line, ws) = E!Group(E!Top(ls), E!OnRuleFilter(c, line))
    BY <1>1, <1>12 DEF E!ReadIn
  <2>2. PICK r : r = g[pos - 1]
    OBVIOUS
  <2>3. PICK a : a = t[pos]
    OBVIOUS
  <2>4. a.kind = "var" /\ a.kind # "(" /\ a.kind # ")"
    BY <1>1, <2>3
  <2>5. E!ReadToken(r, a, line, ws).levels =
          Append(E!Below(r.levels), E!ReadIn(E!Top(r.levels), a, line, ws))
    BY <2>4, ReadTokenIs
  <2> QED BY <1>10, <1>14, <1>15, <2>1, <2>2, <2>3, <2>5
<1>17. e[pos].fits
  <2>1. g[pos] = E!ReadToken(g[pos - 1], s[pos], line, vs)
    BY <1>2, <1>4, <1>5 DEF ReadingOf
  <2>2. g[pos].fits
    BY <1>4, <1>7
  <2>3. MayCome(g[pos - 1], s[pos])
    BY <2>1, <2>2, ReadTokenIs
  <2>4. E!Fits(E!Top(ls), t[pos])
    BY <1>1, <1>10, <2>3 DEF MayCome, E!Fits
  <2>5. MayCome(g[pos - 1], t[pos])
    BY <1>1, <1>10, <2>3, <2>4 DEF MayCome
  <2> QED BY <1>15, <2>5, ReadTokenIs
<1>18. g[q] = e[pos]
  <2>1. g[q] \in Readings /\ e[pos] \in Readings
    <3>1. g \in [0 .. l -> Readings] /\ e \in [0 .. n -> Readings]
      BY <1>2, <1>5, <1>6 DEF ReadingOf
    <3>2. q \in 0 .. l /\ pos \in 0 .. n
      BY <1>4
    <3> QED BY <3>1, <3>2
  <2>2. g[q].fits
    BY <1>4, <1>7
  <2>3. g[q].levels = e[pos].levels
    BY <1>11, <1>13, <1>16
  <2>4. g[q].fits = e[pos].fits
    BY <1>17, <2>1, <2>2 DEF Readings
  <2> QED BY <2>1, <2>3, <2>4 DEF Readings
<1>19. PICK m \in Nat : m = l - q
  BY <1>4
<1>20. \A k \in 1 .. m : /\ s[q + k] = t[pos + k]
                         /\ \A r : E!ReadToken(r, s[q + k], line, vs)
                                     = E!ReadToken(r, s[q + k], line, ws)
  <2> SUFFICES ASSUME NEW k \in 1 .. m
               PROVE  /\ s[q + k] = t[pos + k]
                      /\ \A r : E!ReadToken(r, s[q + k], line, vs)
                                  = E!ReadToken(r, s[q + k], line, ws)
    OBVIOUS
  <2>1. k \in 1 .. Len(s) - q /\ q + k \in 1 .. l
    BY <1>2, <1>4, <1>19
  <2> QED BY <1>1, <1>8, <2>1
<1>21. \A k \in 0 .. m : g[q + k] = e[pos + k]
  <2>1. q + m <= Len(s) /\ pos + m <= Len(t)
    BY <1>2, <1>4, <1>19
  <2>2. s \in Seq(E!Tokens) /\ t \in Seq(E!Tokens) /\ pos \in Nat /\ q \in Nat
    BY <1>1, <1>4
  <2>3. GoAlike(s, vs, t, ws, line, q, pos, m)
    BY <1>20, <2>1 DEF GoAlike
  <2>4. StayAbreast(g, e, q, pos, m)
    BY <2>2, <1>5, <1>6, <1>18, <2>3, ReadingsAgree
  <2> QED BY <2>4 DEF StayAbreast
<1>22. m \in 0 .. m /\ q + m = l /\ pos + m = n
  BY <1>4, <1>19
<1>23. g[l] = e[n]
  BY <1>21, <1>22
<1> QED BY <1>5, <1>6, <1>23

-----------------------------------------------------------------------------
(* Compile keeps what the rule means.                                      *)

\* What has been replaced so far is read as it was entered.
Unchanged(line) ==
  E!Complete(E!Reading(rule, line, <<>>)) =>
    mVarSet \in Seq(Vectors) /\ E!Reading(script, line, mVarSet) = E!Reading(rule, line, <<>>)

MeaningKept == state = "scan" => \A line \in E!Line : Unchanged(line)

MeaningInv == ScriptInv /\ VarsKnown /\ MeaningKept /\ E!KeepsWhatItMeans

\* The variables of a script have vectors.
LEMMA VectorOf ==
  ASSUME NEW vs \in Seq(Vectors), NEW t \in KnownTokens(Len(vs)), t.kind = "var"
  PROVE  vs[t.id] \in Vectors
<1>1. t.id \in 1 .. Len(vs)
  BY DEF KnownTokens
<1> QED BY <1>1, ElementOfSeq

LEMMA CloseKeepsMeaning ==
  ASSUME ScriptInv, VarsKnown, MeaningKept, E!CloseBracket PROVE MeaningKept'
<1>1. /\ state = "scan" /\ st1 # <<>> /\ place <= Len(script) /\ script[place].kind = ")"
      /\ rule' = rule
      /\ mVarSet' = Append(mVarSet, E!SimpleCompile(E!Inner, mVarSet))
  BY DEF E!CloseBracket, E!At
<1>2. PICK pos \in 1 .. place - 1 :
        /\ pos = st1[Len(st1)] /\ script[pos].kind = "("
        /\ \A p \in pos + 1 .. place - 1 : script[p].kind \notin {"(", ")"}
  BY <1>1, InnermostOpen
<1>3. Replaces(script, script', pos, place) /\ script'[pos] = E!Variable(Len(mVarSet'))
  BY <1>2, CloseReplaces
<1>4. PICK x : x = E!Inner
  OBVIOUS
<1>5. IsInner(x, script, pos, place)
  BY <1>1, <1>2, <1>4, InnerIs
<1>6. PICK s \in Seq(E!Tokens) : s = script
  BY DEF ScriptInv, Scanning
<1>7. PICK l \in Nat : l = Len(s)
  BY LenProperties
<1>8. ASSUME NEW line \in E!Line, E!Complete(E!Reading(rule, line, <<>>))
      PROVE  /\ mVarSet' \in Seq(Vectors)
             /\ E!Reading(script', line, mVarSet') = E!Reading(rule, line, <<>>)
  <2>1. PICK vs \in Seq(Vectors) : vs = mVarSet
    BY <1>1, <1>8 DEF MeaningKept, Unchanged
  <2>2. E!Reading(s, line, vs) = E!Reading(rule, line, <<>>) /\ E!Complete(E!Reading(s, line, vs))
    BY <1>1, <1>6, <1>8, <2>1 DEF MeaningKept, Unchanged
  <2>3. s \in Seq(KnownTokens(Len(vs)))
    BY <1>6, <2>1 DEF VarsKnown
  <2>4. PICK g : ReadingOf(g, s, line, vs) /\ E!Reading(s, line, vs) = g[l]
    BY <1>7, ReadingSolves
  <2>5. g[Len(s)].fits /\ E!Reading(s, line, vs).fits
    BY <1>7, <2>2, <2>4 DEF E!Complete
  <2>6. E!Complete(E!Reading(x, line, vs))
    <3>1. PICK ls \in Stacks : ls = g[pos - 1].levels
      <4>1. pos - 1 \in 0 .. l
        <5>1. pos \in Nat \ {0} /\ place \in 1 .. l /\ pos < place
          BY <1>5, <1>6, <1>7 DEF IsInner
        <5> QED BY <5>1
      <4>2. g[pos - 1] \in Readings
        BY <1>7, <2>4, <4>1 DEF ReadingOf
      <4> QED BY <4>2 DEF Readings
    <3>2. IsInner(x, s, pos, place)
      BY <1>5, <1>6
    <3> QED BY <2>4, <2>5, <3>1, <3>2, InnerReading
  <2>7. PICK c : c = E!SimpleCompile(x, vs)
    OBVIOUS
  <2>8. /\ c \in Vectors
        /\ E!OnRuleFilter(c, line) <=> E!Holds(E!Top(E!Reading(x, line, vs).levels))
    <3>1. x \in Seq(E!Tokens) /\ NoBrackets(x)
      BY <1>5 DEF IsInner
    <3>2. ASSUME NEW k \in 1 .. Len(x), x[k].kind = "var" PROVE vs[x[k].id] \in Vectors
      <4>1. x[k] = s[pos + k] /\ Len(x) = (place - pos) - 1 /\ place \in 1 .. l
        BY <1>5, <1>6, <1>7 DEF IsInner
      <4>2. pos + k \in 1 .. l
        <5>1. pos \in Nat /\ place \in Nat
          BY <1>2, <4>1
        <5> QED BY <4>1, <5>1
      <4>3. PICK a \in KnownTokens(Len(vs)) : a = s[pos + k]
        BY <1>7, <2>3, <4>2, ElementOfSeq
      <4> QED BY <3>2, <4>1, <4>3, VectorOf
    <3> QED BY <2>6, <2>7, <3>1, <3>2, FlatMeans
  <2>9. PICK ws : ws = mVarSet'
    OBVIOUS
  <2>10. ws = Append(vs, c)
    BY <1>1, <1>4, <2>1, <2>7, <2>9
  <2>11. ws \in Seq(Vectors) /\ Len(ws) = Len(vs) + 1
    <3>1. c \in Vectors
      BY <2>8
    <3> QED BY <2>10, <3>1, AppendProperties
  <2>12. PICK t : t = script'
    OBVIOUS
  <2>13. t[pos].id = Len(vs) + 1
    BY <1>3, <2>9, <2>11, <2>12 DEF E!Variable, E!Token
  <2>14. E!Reading(t, line, ws) = E!Reading(s, line, vs)
    <3>1. Replaces(s, t, pos, place) /\ IsInner(x, s, pos, place)
      BY <1>3, <1>5, <1>6, <2>12
    <3>2. c \in Vectors
      BY <2>8
    <3>3. StandsFor(s, t, pos, place, x, vs, c)
      BY <2>3, <2>13, <3>1, <3>2 DEF StandsFor
    <3>4. E!Reading(s, line, vs).fits
      BY <2>5
    <3>5. E!OnRuleFilter(c, line) <=> E!Holds(E!Top(E!Reading(x, line, vs).levels))
      BY <2>8
    <3>6. E!Reading(t, line, Append(vs, c)) = E!Reading(s, line, vs)
      BY <3>3, <3>4, <3>5, ReplacedReading
    <3> QED BY <2>10, <3>6
  <2> QED BY <2>2, <2>9, <2>11, <2>12, <2>14
<1>9. \A line \in E!Line : E!Complete(E!Reading(rule', line, <<>>)) =>
        /\ mVarSet' \in Seq(Vectors)
        /\ E!Reading(script', line, mVarSet') = E!Reading(rule', line, <<>>)
  BY <1>1, <1>8
<1> QED BY <1>9 DEF MeaningKept, Unchanged

\* What is left at the end has no brackets.
LEMMA FinishKeepsMeaning ==
  ASSUME ScriptInv, VarsKnown, MeaningKept, E!Finish PROVE E!KeepsWhatItMeans'
<1>1. /\ state = "scan" /\ E!AtEnd /\ st1 = <<>> /\ rule' = rule
      /\ compiled' = E!SimpleCompile(script, mVarSet)
  BY DEF E!Finish, E!Faulty, E!AtEnd
<1>2. PICK s \in Seq(E!Tokens) : s = script
  BY DEF ScriptInv, Scanning
<1>3. PICK n \in Nat : n = Len(s)
  BY LenProperties
<1>4. NoBrackets(s)
  <2>1. place - 1 = n
    BY <1>1, <1>2, <1>3 DEF E!AtEnd, ScriptInv, Scanning
  <2> QED BY <1>1, <1>2, <1>3, <2>1, NoneOpenLeft DEF NoBrackets
<1>5. ASSUME NEW line \in E!Line, E!Complete(E!Reading(rule, line, <<>>))
      PROVE  E!OnRuleFilter(compiled', line) <=> E!Means(rule, line)
  <2>1. PICK vs \in Seq(Vectors) : vs = mVarSet
    BY <1>1, <1>5 DEF MeaningKept, Unchanged
  <2>2. E!Reading(s, line, vs) = E!Reading(rule, line, <<>>)
    BY <1>1, <1>2, <1>5, <2>1 DEF MeaningKept, Unchanged
  <2>3. ASSUME NEW k \in 1 .. Len(s), s[k].kind = "var" PROVE vs[s[k].id] \in Vectors
    <3>1. PICK a \in KnownTokens(Len(vs)) : a = s[k]
      BY <1>2, <2>1, ElementOfSeq DEF VarsKnown
    <3> QED BY <2>3, <3>1, VectorOf
  <2>4. E!OnRuleFilter(E!SimpleCompile(s, vs), line)
          <=> E!Holds(E!Top(E!Reading(s, line, vs).levels))
    BY <1>4, <1>5, <2>2, <2>3, FlatMeans
  <2> QED BY <1>1, <1>2, <2>1, <2>2, <2>4 DEF E!Means
<1>6. \A line \in E!Line : E!Complete(E!Reading(rule', line, <<>>)) =>
        (E!OnRuleFilter(compiled', line) <=> E!Means(rule', line))
  BY <1>1, <1>5
<1> QED BY <1>6 DEF E!KeepsWhatItMeans

LEMMA MeaningKeptOn == MeaningInv /\ [E!Next]_(E!vars) => MeaningInv'
<1> SUFFICES ASSUME MeaningInv, [E!Next]_(E!vars) PROVE MeaningInv'
  OBVIOUS
<1>1. /\ ScriptInv /\ VarsKnown /\ MeaningKept /\ E!KeepsWhatItMeans
      /\ ScriptInv' /\ VarsKnown'
  BY ScriptKept, VarsKept DEF MeaningInv
<1>2. CASE E!OpenBracket \/ E!Advance
  <2>1. /\ state = "scan" /\ state' = "scan" /\ rule' = rule /\ script' = script
        /\ mVarSet' = mVarSet
    BY <1>2 DEF E!OpenBracket, E!Advance, E!At
  <2>2. MeaningKept'
    BY <1>1, <2>1 DEF MeaningKept, Unchanged
  <2>3. E!KeepsWhatItMeans'
    BY <2>1 DEF E!KeepsWhatItMeans
  <2> QED BY <1>1, <2>2, <2>3 DEF MeaningInv
<1>3. CASE E!CloseBracket
  <2>1. state' = "scan"
    BY <1>3 DEF E!CloseBracket, E!At
  <2>2. E!KeepsWhatItMeans'
    BY <2>1 DEF E!KeepsWhatItMeans
  <2> QED BY <1>1, <1>3, <2>2, CloseKeepsMeaning DEF MeaningInv
<1>4. CASE E!Throw
  <2>1. state' = "thrown"
    BY <1>4 DEF E!Throw
  <2> QED BY <1>1, <2>1 DEF MeaningInv, MeaningKept, E!KeepsWhatItMeans
<1>5. CASE E!Finish
  <2>1. state' = "compiled"
    BY <1>5 DEF E!Finish
  <2>2. MeaningKept'
    BY <2>1 DEF MeaningKept
  <2> QED BY <1>1, <1>5, <2>2, FinishKeepsMeaning DEF MeaningInv
<1>6. CASE UNCHANGED E!vars
  <2>1. /\ state' = state /\ rule' = rule /\ script' = script /\ mVarSet' = mVarSet
        /\ compiled' = compiled
    BY <1>6 DEF E!vars
  <2>2. MeaningKept'
    BY <1>1, <2>1 DEF MeaningKept, Unchanged
  <2>3. E!KeepsWhatItMeans'
    BY <1>1, <2>1 DEF E!KeepsWhatItMeans
  <2> QED BY <1>1, <2>2, <2>3 DEF MeaningInv
<1> QED BY <1>2, <1>3, <1>4, <1>5, <1>6 DEF E!Next

(***************************************************************************)
(* KeepsWhatItMeans: a compiled rule of one of the forms that README.md    *)
(* shows keeps exactly the lines that it means (ScriptEngine.cpp:103-265), *)
(* for every rule however deep its brackets are: a pair of brackets that a *)
(* variable has replaced is read as what was in it, and what SimpleCompile *)
(* makes of a script without brackets is what that script means.           *)
(***************************************************************************)
THEOREM RulesKeepWhatTheyMean == E!Spec => []KeepsWhatItMeans
<1>1. E!Init => MeaningInv
  <2> SUFFICES ASSUME E!Init PROVE MeaningInv
    OBVIOUS
  <2>1. state = "scan" /\ script = rule /\ mVarSet = <<>>
    BY DEF E!Init
  <2>2. <<>> \in Seq(Vectors)
    BY EmptySeq
  <2>3. MeaningKept
    BY <2>1, <2>2 DEF MeaningKept, Unchanged
  <2>4. E!KeepsWhatItMeans
    BY <2>1 DEF E!KeepsWhatItMeans
  <2> QED BY <2>3, <2>4, InitScript, InitVars DEF MeaningInv
<1>2. MeaningInv => KeepsWhatItMeans
  BY DEF MeaningInv, KeepsWhatItMeans
<1> QED BY <1>1, <1>2, MeaningKeptOn, PTL DEF E!Spec

(***************************************************************************)
(* EachPartAlone: a behaviour in which the other part keeps still is one   *)
(* of the part that moves, so the theorems hold of what the runs check.    *)
(***************************************************************************)
THEOREM EachPartAlone == (PageSpec => Spec) /\ (RulesSpec => E!Spec)
<1>1. [Next /\ RulesStill]_allVars => [Next]_vars
  BY DEF RulesStill, allVars, vars
<1>2. [E!Next /\ PageStill]_allVars => [E!Next]_(E!vars)
  BY DEF PageStill, allVars, scriptVars, E!vars
<1> QED
  BY <1>1, <1>2, PTL DEF PageSpec, RulesSpec, InitBoth, Spec, E!Spec

=============================================================================
