------------------------------ MODULE LogPage ------------------------------
(***************************************************************************)
(* A page of LogView: CLogViewBase with the cache of CSyntaxCache.  The    *)
(* capture thread pushes lines; the user interface changes the filter,     *)
(* clears the page, and empties the cache into the window by a timer.      *)
(* Only the cache has a lock.  The text, its filtered copy, the rules and  *)
(* the position between filtered and new text are shared without one, so   *)
(* every statement on them is a step of its own.                           *)
(*                                                                         *)
(* A line is the number under which it was pushed; a push is one line.     *)
(***************************************************************************)
EXTENDS Selecting, SequencesExt

CONSTANTS
  MaxLine,     \* bound: lines that are pushed
  MaxUiOps,    \* bound: changes of the filter and clearings
  Filter,      \* what the user enters; NoFilter is the empty string
  NoFilter,
  Kept         \* the lines a filter keeps (OnRuleFilter)

ASSUME LogPageConstants ==
  /\ MaxLine \in Nat /\ MaxUiOps \in Nat
  /\ NoFilter \in Filter
  /\ Kept \in [Filter \ {NoFilter} -> SUBSET (1 .. MaxLine)]

VARIABLES
  mContent, mFilterResult,  \* the text and what the filter keeps of it
  mLastPos,                 \* mContent is filtered up to here
  mRuleSet, mRuleStr,       \* the rules in force, the filter as entered
  mTotalCount, mShowCount,
  mCacheContent,            \* on its way to the window
  view,                     \* what the window shows
  pushed,                   \* lines the capture thread has taken up
  pc, lastShow, piece,      \* PushLog: the statement, its locals
  ui, uiOps, newFilter,     \* the user interface: the statement, its argument
  up,                       \* FALSE: LogView has ended
  alone,                    \* no push has met the operation of the interface
  disturbed                 \* what may be wrong because one did

text == <<mContent, mFilterResult, mLastPos, mRuleSet>>
counts == <<mTotalCount, mShowCount>>
shown == <<mCacheContent, view>>
capture == <<pushed, pc, lastShow, piece>>
interface == <<ui, uiOps, newFilter, mRuleStr>>
ghosts == <<alone, disturbed>>
vars == <<text, counts, shown, capture, interface, up, ghosts>>

Passes(filter, line) == filter = NoFilter \/ line \in Kept[filter]

Matching(filter, content) ==
  Select(content, {line \in 1 .. MaxLine : Passes(filter, line)})

\* InputLog of the text from a position on.
InputLog(content, initPos, filter) ==
  Matching(filter, SubSeq(content, initPos + 1, Len(content)))

-----------------------------------------------------------------------------
(* PushLog on the capture thread.                                          *)

Count ==
  /\ up /\ pc = "idle" /\ pushed < MaxLine
  /\ pushed' = pushed + 1 /\ mTotalCount' = mTotalCount + 1
  /\ alone' = (alone /\ ui = "idle")
  /\ pc' = "append"
  /\ UNCHANGED <<text, mShowCount, shown, lastShow, piece, interface, up, disturbed>>

\* Mutant: like DbgView, a line that the filter does not keep is thrown away.
AppendMatching ==
  /\ up /\ pc = "append"
  /\ mContent' = mContent \o Matching(mRuleSet, <<pushed>>)
  /\ lastShow' = Len(mFilterResult)
  /\ pc' = "input"
  /\ UNCHANGED <<mFilterResult, mLastPos, mRuleSet, counts, shown, pushed, piece,
                 interface, up, ghosts>>

AppendContent ==
  /\ up /\ pc = "append"
  /\ mContent' = Append(mContent, pushed)
  /\ lastShow' = Len(mFilterResult)
  /\ pc' = "input"
  /\ UNCHANGED <<mFilterResult, mLastPos, mRuleSet, counts, shown, pushed, piece,
                 interface, up, ghosts>>

\* Without rules InputLog is substr, which throws when the position is too far.
OutOfRange == mRuleSet = NoFilter /\ mLastPos > Len(mContent)

Input ==
  /\ up /\ pc = "input" /\ ~OutOfRange
  /\ mFilterResult' = mFilterResult \o InputLog(mContent, mLastPos, mRuleSet)
  /\ pc' = "count"
  /\ UNCHANGED <<mContent, mLastPos, mRuleSet, counts, shown, pushed, lastShow,
                 piece, interface, up, ghosts>>

CountShown ==
  /\ up /\ pc = "count"
  /\ mShowCount' = mShowCount + (IF Len(mFilterResult) > lastShow
                                 THEN Len(mFilterResult) - lastShow ELSE 0)
  /\ pc' = "move"
  /\ UNCHANGED <<text, mTotalCount, shown, pushed, lastShow, piece, interface, up,
                 ghosts>>

MoveLastPos ==
  /\ up /\ pc = "move"
  /\ mLastPos' = Len(mContent)
  /\ pc' = "cut"
  /\ UNCHANGED <<mContent, mFilterResult, mRuleSet, counts, shown, pushed, lastShow,
                 piece, interface, up, ghosts>>

\* The argument of PushToCache; nothing when nothing was added.
Cut ==
  /\ up /\ pc = "cut"
  /\ piece' = SubSeq(mFilterResult, lastShow + 1, Len(mFilterResult))
  /\ pc' = "cache"
  /\ UNCHANGED <<text, counts, shown, pushed, lastShow, interface, up, ghosts>>

PushToCache ==
  /\ up /\ pc = "cache"
  /\ mCacheContent' = mCacheContent \o piece
  /\ piece' = <<>> /\ lastShow' = 0 /\ pc' = "idle"
  /\ UNCHANGED <<text, counts, view, pushed, interface, up, ghosts>>

PushLog ==
  Count \/ AppendContent \/ Input \/ CountShown \/ MoveLastPos \/ Cut \/ PushToCache

-----------------------------------------------------------------------------
(* The user interface.                                                     *)

Begin(statement) ==
  /\ up /\ ui = "idle" /\ uiOps < MaxUiOps
  /\ uiOps' = uiOps + 1 /\ ui' = statement
  /\ alone' = (pc = "idle")

\* SetFilter does nothing for the filter that is in force.
EnterFilter ==
  /\ Begin("compile")
  /\ \E f \in Filter \ {mRuleStr} : newFilter' = f /\ mRuleStr' = f
  /\ UNCHANGED <<text, counts, shown, capture, up, disturbed>>

Compile ==
  /\ up /\ ui = "compile"
  /\ mRuleSet' = newFilter /\ ui' = "clearResult"
  /\ UNCHANGED <<mContent, mFilterResult, mLastPos, counts, shown, capture, uiOps,
                 newFilter, mRuleStr, up, ghosts>>

ClearResult ==
  /\ up /\ ui = "clearResult"
  /\ mFilterResult' = <<>> /\ ui' = "refilter"
  /\ UNCHANGED <<mContent, mLastPos, mRuleSet, counts, shown, capture, uiOps,
                 newFilter, mRuleStr, up, ghosts>>

Refilter ==
  /\ up /\ ui = "refilter"
  /\ mFilterResult' = mFilterResult \o InputLog(mContent, 0, mRuleSet)
  /\ ui' = "clearCache"
  /\ UNCHANGED <<mContent, mLastPos, mRuleSet, counts, shown, capture, uiOps,
                 newFilter, mRuleStr, up, ghosts>>

\* Mutant: what waits in the cache is left there.
KeepCache ==
  /\ up /\ ui = "clearCache"
  /\ ui' = "setText"
  /\ UNCHANGED <<text, counts, shown, capture, uiOps, newFilter, mRuleStr, up, ghosts>>

ClearCache ==
  /\ up /\ ui = "clearCache"
  /\ mCacheContent' = <<>> /\ ui' = "setText"
  /\ UNCHANGED <<text, counts, view, capture, uiOps, newFilter, mRuleStr, up, ghosts>>

SetText ==
  /\ up /\ ui = "setText"
  /\ view' = mFilterResult /\ ui' = "setPos"
  /\ UNCHANGED <<text, counts, mCacheContent, capture, uiOps, newFilter, mRuleStr, up,
                 ghosts>>

SetPos ==
  /\ up /\ ui = "setPos"
  /\ mLastPos' = Len(mContent) /\ ui' = "recount"
  /\ UNCHANGED <<mContent, mFilterResult, mRuleSet, counts, shown, capture, uiOps,
                 newFilter, mRuleStr, up, ghosts>>

\* The operation ends: it repairs its part, or it was met by a push and spoils it.
Ends(part) ==
  /\ ui' = "idle" /\ alone' = TRUE
  /\ disturbed' = IF alone THEN disturbed \ part ELSE disturbed \cup part

Recount ==
  /\ up /\ ui = "recount"
  /\ mShowCount' = Len(mFilterResult)
  /\ Ends({"lines"})
  /\ UNCHANGED <<text, mTotalCount, shown, capture, uiOps, newFilter, mRuleStr, up>>

SetFilter ==
  \/ EnterFilter \/ Compile \/ ClearResult \/ Refilter \/ ClearCache
  \/ SetText \/ SetPos \/ Recount

\* ClearLog of the page.
EnterClear ==
  /\ Begin("clearContent")
  /\ mCacheContent' = <<>>
  /\ UNCHANGED <<text, counts, view, capture, newFilter, mRuleStr, up, disturbed>>

ClearContent ==
  /\ up /\ ui = "clearContent"
  /\ mContent' = <<>> /\ ui' = "clearShown"
  /\ UNCHANGED <<mFilterResult, mLastPos, mRuleSet, counts, shown, capture, uiOps,
                 newFilter, mRuleStr, up, ghosts>>

ClearShown ==
  /\ up /\ ui = "clearShown"
  /\ mFilterResult' = <<>> /\ ui' = "clearPos"
  /\ UNCHANGED <<mContent, mLastPos, mRuleSet, counts, shown, capture, uiOps,
                 newFilter, mRuleStr, up, ghosts>>

\* Mutant: the position stays.
KeepPos ==
  /\ up /\ ui = "clearPos"
  /\ ui' = "clearView"
  /\ UNCHANGED <<text, counts, shown, capture, uiOps, newFilter, mRuleStr, up, ghosts>>

ClearPos ==
  /\ up /\ ui = "clearPos"
  /\ mLastPos' = 0 /\ ui' = "clearView"
  /\ UNCHANGED <<mContent, mFilterResult, mRuleSet, counts, shown, capture, uiOps,
                 newFilter, mRuleStr, up, ghosts>>

ClearView ==
  /\ up /\ ui = "clearView"
  /\ mTotalCount' = 0 /\ mShowCount' = 0 /\ view' = <<>>
  /\ Ends({"lines", "total"})
  /\ UNCHANGED <<text, mCacheContent, capture, uiOps, newFilter, mRuleStr, up>>

ClearLogView == EnterClear \/ ClearContent \/ ClearShown \/ ClearPos \/ ClearView

\* Mutant: of what waits only the first piece is shown.
TimerDrops ==
  /\ up /\ ui = "idle" /\ mCacheContent # <<>>
  /\ view' = view \o <<mCacheContent[1]>> /\ mCacheContent' = <<>>
  /\ UNCHANGED <<text, counts, capture, interface, up, ghosts>>

\* WM_TIMER is handled between the operations of the interface.
TimerCache ==
  /\ up /\ ui = "idle" /\ mCacheContent # <<>>
  /\ view' = view \o mCacheContent /\ mCacheContent' = <<>>
  /\ UNCHANGED <<text, counts, capture, interface, up, ghosts>>

Interface == SetFilter \/ ClearLogView \/ TimerCache

-----------------------------------------------------------------------------
(* How LogView may end.                                                    *)

Writes ==
  [capture   |-> CASE pc = "append" -> {"content"} [] pc = "input" -> {"result"}
                   [] OTHER -> {},
   interface |-> CASE ui = "compile" -> {"rules"} [] ui = "clearContent" -> {"content"}
                   [] ui \in {"clearResult", "refilter", "clearShown"} -> {"result"}
                   [] OTHER -> {}]

Uses ==
  [capture   |-> CASE pc = "append" -> {"content", "result"}
                   [] pc = "input" -> {"content", "result", "rules"}
                   [] pc \in {"count", "cut"} -> {"result"} [] pc = "move" -> {"content"}
                   [] OTHER -> {},
   interface |-> CASE ui = "compile" -> {"rules"}
                   [] ui = "refilter" -> {"content", "result", "rules"}
                   [] ui \in {"clearResult", "setText", "recount", "clearShown"} -> {"result"}
                   [] ui \in {"clearContent", "setPos"} -> {"content"}
                   [] OTHER -> {}]

\* A string that one thread alters while the other uses it.
Race ==
  Writes.capture \cap Uses.interface # {} \/ Writes.interface \cap Uses.capture # {}

Crash ==
  /\ up
  /\ Race \/ (pc = "input" /\ OutOfRange)
  /\ up' = FALSE
  /\ UNCHANGED <<text, counts, shown, capture, interface, ghosts>>

-----------------------------------------------------------------------------
Init ==
  /\ mContent = <<>> /\ mFilterResult = <<>> /\ mLastPos = 0
  /\ mRuleSet = NoFilter /\ mRuleStr = NoFilter
  /\ mTotalCount = 0 /\ mShowCount = 0
  /\ mCacheContent = <<>> /\ view = <<>>
  /\ pushed = 0 /\ pc = "idle" /\ lastShow = 0 /\ piece = <<>>
  /\ ui = "idle" /\ uiOps = 0 /\ newFilter = NoFilter
  /\ up = TRUE /\ alone = TRUE /\ disturbed = {}

Next == PushLog \/ Interface \/ Crash

Spec == Init /\ [][Next]_vars

\* Both threads go on; that a line comes or the user does something is not assumed.
Fairness ==
  /\ WF_vars(PushLog /\ pc # "idle")
  /\ WF_vars(Interface /\ uiOps' = uiOps)

FairSpec == Spec /\ Fairness

-----------------------------------------------------------------------------
(* Properties.                                                             *)

Lines == Seq(1 .. MaxLine)

TypeOK ==
  /\ mContent \in Lines /\ mFilterResult \in Lines /\ mCacheContent \in Lines
  /\ view \in Lines /\ piece \in Lines
  /\ mRuleSet \in Filter /\ mRuleStr \in Filter /\ newFilter \in Filter
  /\ mLastPos \in 0 .. MaxLine /\ lastShow \in Nat
  /\ mTotalCount \in 0 .. MaxLine /\ mShowCount \in Nat
  /\ pushed \in 0 .. MaxLine /\ uiOps \in 0 .. MaxUiOps
  /\ pc \in {"idle", "append", "input", "count", "move", "cut", "cache"}
  /\ up \in BOOLEAN /\ alone \in BOOLEAN /\ disturbed \subseteq {"lines", "total"}
  /\ ui = "idle" => mLastPos <= Len(mContent)

AtRest == up /\ pc = "idle" /\ ui = "idle"

(***************************************************************************)
(* PageAgrees: unless a push met an operation of the user interface, the   *)
(* window with what is on its way to it shows the lines of the text that   *)
(* the filter keeps, each once and in order, and both counts are right.    *)
(* One undisturbed SetFilter or ClearLogView repairs the lines after a     *)
(* disturbed one; the total count is repaired by ClearLogView alone.       *)
(***************************************************************************)
PageAgrees ==
  AtRest =>
    /\ "lines" \notin disturbed =>
         /\ view \o mCacheContent = Matching(mRuleStr, mContent)
         /\ mFilterResult = Matching(mRuleStr, mContent)
         /\ mShowCount = Len(mFilterResult)
         /\ mLastPos = Len(mContent)
    /\ "total" \notin disturbed => mTotalCount = Len(mContent)

(***************************************************************************)
(* EndsOnlyWhenMet: a string out of range, or altered under its reader,    *)
(* needs a push that meets the very operation of the user interface that   *)
(* is going on; what an earlier one left behind does not end LogView.      *)
(***************************************************************************)
EndsOnlyWhenMet == ~up => ~alone

(***************************************************************************)
(* NothingThrownAway: what the filter hides stays in the text (README.md:8 *)
(* says so of all log data): the text is what was pushed, in the order it  *)
(* was pushed, from some clearing on, whatever happened at the same time.  *)
(***************************************************************************)
NothingThrownAway ==
  /\ \A n \in 1 .. Len(mContent) - 1 : mContent[n + 1] = mContent[n] + 1
  /\ mContent # <<>> => Last(mContent) = pushed - (IF pc = "append" THEN 1 ELSE 0)

(***************************************************************************)
(* WindowCatchesUp: in the end the window shows what the filter keeps,     *)
(* unless a push met an operation or LogView has ended.                    *)
(***************************************************************************)
WindowCatchesUp ==
  <>[](\/ ~up \/ "lines" \in disturbed
       \/ view = Matching(mRuleStr, mContent))

=============================================================================
