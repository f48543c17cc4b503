------------------------------ MODULE MCPages ------------------------------
(***************************************************************************)
(* A page of LogView, LogPage, and what compiles its filter, ScriptEngine. *)
(* The page takes a filter for the lines it keeps, and ScriptEngine says   *)
(* which those are; a behaviour is about one of them and the other keeps   *)
(* still.                                                                  *)
(***************************************************************************)
EXTENDS LogPage

CONSTANTS Word, Rules

VARIABLES rule, script, place, st1, mVarSet, compiled, state

E == INSTANCE ScriptEngine WITH i <- place, mRuleSet <- compiled

ASSUME ScriptConstants == E!RulesAreEntered

scriptVars == <<rule, script, place, st1, mVarSet, compiled, state>>

allVars == <<vars, scriptVars>>

RulesStill == UNCHANGED scriptVars
PageStill == UNCHANGED vars

InitBoth == Init /\ E!Init

PageSpec ==
  /\ InitBoth
  /\ [][Next /\ RulesStill]_allVars
  /\ WF_allVars(PushLog /\ pc # "idle" /\ RulesStill)
  /\ WF_allVars(Interface /\ uiOps' = uiOps /\ RulesStill)

RulesSpec == InitBoth /\ [][E!Next /\ PageStill]_allVars

\* The properties of ScriptEngine, under their names.
ScriptTypes == E!ScriptTypes
BracketsHandled == E!BracketsHandled
KeepsWhatItMeans == E!KeepsWhatItMeans
OrderIsFree == E!OrderIsFree

-----------------------------------------------------------------------------
(* A page: three lines, and a filter that keeps the second of them.        *)

MCFilter == {"", "even"}
MCKept == [f \in {"even"} |-> {2}]

-----------------------------------------------------------------------------
(* Rules: literals, conjunctions, disjunctions and brackets, and rules     *)
(* that lack a bracket or an operand.                                      *)

MCWord == 1 .. 3

Symbol(s) == [kind |-> s, id |-> 0]
Plain(w) == <<[kind |-> "word", id |-> w]>>
Not(w) == <<Symbol("!")>> \o Plain(w)

Join(R, s, S) == {r \o <<Symbol(s)>> \o q : r \in R, q \in S}
Ands(R, S) == Join(R, "&&", S)
Ors(R, S) == Join(R, "||", S)
Bracket(r) == <<Symbol("(")>> \o r \o <<Symbol(")")>>
Brackets(R) == {Bracket(r) : r \in R}

Literals == {Plain(w) : w \in MCWord} \cup {Not(1)}
Simple == Literals \cup Ands(Literals, Literals)
OrRules == Simple \cup Ors(Simple, Literals)

\* The forms of README.md:34-38: literals first, brackets behind them, nested.
Groups == Brackets(Ors(Literals, Literals) \cup Ands({Plain(3)}, {Plain(2)}))
Deeper == Brackets(Ands({Not(1)}, Groups))
Documented ==
  OrRules \cup Groups \cup Ands(Simple, Groups)
          \cup Ands(Groups, Groups) \cup Ors(Literals, Groups)
          \cup Ands({Plain(2)}, Deeper) \cup Ands(Deeper, Groups)

\* Without one of its brackets, or with one more at an end.
Unmatched(r) ==
  {SubSeq(r, 1, Len(r) - 1), Tail(r), Append(r, Symbol(")")), <<Symbol("(")>> \o r}

\* With an operator that has no operand, in front or behind, in brackets or not.
Operandless(r) ==
  LET lone == <<Symbol("&&"), Symbol("||")>>
  IN  {lone \o r, r \o lone} \cup Brackets({lone \o r, r \o lone})

DocumentedRules ==
  Documented \cup UNION {Unmatched(r) \cup Operandless(r) : r \in Groups \cup Deeper}

\* A group may also stand first, with a literal behind it.
AnyOrder == Documented \cup Ands(Groups, Literals)

AllRules == DocumentedRules \cup AnyOrder

\* While the page moves, one rule that nobody compiles.
OneRule == {Plain(1)}

=============================================================================
