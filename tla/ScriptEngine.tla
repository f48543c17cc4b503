---------------------------- MODULE ScriptEngine ----------------------------
(***************************************************************************)
(* The filter rules of LogView: CScriptEngine (LogView/LogScript).         *)
(* Compile replaces the innermost bracket by a variable, again and again,  *)
(* and turns what is left into a vector of FilterRules: a line is kept     *)
(* when one of them has all its keywords to include and none of those to   *)
(* exclude.                                                                *)
(*                                                                         *)
(* A script is a sequence of tokens, without the blanks that ScriptCleanUp *)
(* takes away.  A line is the set of the words it contains.  A keyword is  *)
(* the text between two operators, so it may be more than a word: empty,   *)
(* or the name of a variable with something in front.  No rule has the     *)
(* same operator twice in a row: "&&&&" is not two tokens.                 *)
(***************************************************************************)
EXTENDS Integers, Sequences

CONSTANTS
  Word,        \* the words that occur in rules, numbered
  Rules        \* the scripts that users enter

Kinds == {"word", "var", "!", "&&", "||", "(", ")"}
Tokens == [kind : Kinds, id : Nat]

\* Nobody enters the name of a variable: Compile alone makes them.
RulesAreEntered == Rules \subseteq Seq({t \in Tokens : t.kind # "var"})

VARIABLES
  rule,                \* what was entered
  script, i, st1,      \* Compile: the text, the place in it, the open brackets
  mVarSet, mRuleSet,
  state                \* "scan", "compiled", or "thrown" for a ScriptException

vars == <<rule, script, i, st1, mVarSet, mRuleSet, state>>

Line == SUBSET Word

Token(kind, id) == [kind |-> kind, id |-> id]
Symbol(s) == Token(s, 0)
Variable(n) == Token("var", n)

-----------------------------------------------------------------------------
(* Vectors of FilterRules.                                                 *)

FilterRule(include, exclude) == [mInclude |-> include, mExclude |-> exclude]

\* find_in_rangei: an empty keyword is found nowhere, and no line has the name of
\* a variable in it.
Found(keyword, line) ==
  Len(keyword) = 1 /\ keyword[1].kind = "word" /\ keyword[1].id \in line

Matches(r, line) ==
  /\ \A k \in r.mInclude : Found(k, line)
  /\ \A k \in r.mExclude : ~Found(k, line)

OnRuleFilter(rules, line) == \E n \in 1 .. Len(rules) : Matches(rules[n], line)

Both(r, s) ==
  FilterRule(r.mInclude \cup s.mInclude, r.mExclude \cup s.mExclude)

\* Mutant: every rule of one vector with the rule at its place in the other.
CalAndPairwise(a, b) ==
  [n \in 1 .. Len(a) |-> Both(a[n], b[((n - 1) % Len(b)) + 1])]

CalAndResult(a, b) ==
  [n \in 1 .. Len(a) * Len(b) |->
     Both(a[((n - 1) \div Len(b)) + 1], b[((n - 1) % Len(b)) + 1])]

CalOrResult(a, b) == a \o b

-----------------------------------------------------------------------------
(* SimpleCompile: a script without brackets, operand by operand.           *)

Literal(operand) ==
  IF operand # <<>> /\ operand[1] = Symbol("!")
  THEN FilterRule({}, {Tail(operand)})
  ELSE FilterRule({operand}, {})

\* A keyword behind && goes to the last rule of the vector.
AndLast(result, r) ==
  [result EXCEPT ![Len(result)] = Both(result[Len(result)], r)]

AddOperand(result, mode, cur, varSet) ==
  LET isVar   == Len(cur) = 1 /\ cur[1].kind = "var"
      content == IF isVar THEN varSet[cur[1].id] ELSE <<Literal(cur)>>
  IN  CASE mode = "||" \/ result = <<>>          -> CalOrResult(result, content)
        [] mode = "&&" /\ result # <<>> /\ isVar -> CalAndResult(result, content)
        [] OTHER                                -> AndLast(result, content[1])

Operators == {"&&", "||"}

(***************************************************************************)
(* strSet: operand, operator, operand, ...  An operator with nothing in    *)
(* front of it belongs to the keyword that follows, and a script that ends *)
(* in an operator has no operand behind it.                                *)
(***************************************************************************)
Split(simple) ==
  LET Put(st, token) ==
        IF token.kind \in Operators /\ st.sub # <<>>
        THEN [strSet |-> st.strSet \o <<st.sub, <<token>> >>, sub |-> <<>>]
        ELSE [st EXCEPT !.sub = Append(@, token)]
      scan[n \in 0 .. Len(simple)] ==
        IF n = 0 THEN [strSet |-> <<>>, sub |-> <<>>]
        ELSE Put(scan[n - 1], simple[n])
      end == scan[Len(simple)]
  IN  IF end.sub # <<>> \/ simple = <<>> THEN Append(end.strSet, end.sub)
      ELSE end.strSet

\* The syntax check: an operator where an operand is due.
BadSyntax(simple) ==
  LET strSet == Split(simple)
  IN  \E n \in 1 .. Len(strSet) :
        n % 2 = 1 /\ Len(strSet[n]) = 1 /\ strSet[n][1].kind \in Operators

SimpleCompile(simple, varSet) ==
  LET strSet == Split(simple)
      result[n \in 0 .. Len(strSet)] ==
        IF n = 0 THEN <<>>
        ELSE IF n % 2 = 0 THEN result[n - 1]
        ELSE AddOperand(result[n - 1], IF n = 1 THEN "&&" ELSE strSet[n - 1][1].kind,
                        strSet[n], varSet)
  IN  result[Len(strSet)]

-----------------------------------------------------------------------------
(* Compile.                                                                *)

At(kind) == state = "scan" /\ i <= Len(script) /\ script[i].kind = kind
AtEnd == state = "scan" /\ i > Len(script)

\* What is in the innermost brackets when ) is met.
Inner == SubSeq(script, st1[Len(st1)] + 1, i - 1)

OpenBracket ==
  /\ At("(")
  /\ st1' = Append(st1, i) /\ i' = i + 1
  /\ UNCHANGED <<rule, script, mVarSet, mRuleSet, state>>

\* Mutant: the scan goes on behind where the bracket was closed.
CloseAndGoOn ==
  /\ At(")") /\ st1 # <<>> /\ ~BadSyntax(Inner)
  /\ LET pos1 == st1[Len(st1)]
     IN  /\ mVarSet' = Append(mVarSet, SimpleCompile(Inner, mVarSet))
         /\ script' = SubSeq(script, 1, pos1 - 1) \o <<Variable(Len(mVarSet'))>>
                      \o SubSeq(script, i + 1, Len(script))
         /\ i' = i + 1
  /\ st1' = SubSeq(st1, 1, Len(st1) - 1)
  /\ UNCHANGED <<rule, mRuleSet, state>>

\* Mutant: the bracket that was closed stays on the stack.
CloseAndKeep ==
  /\ At(")") /\ st1 # <<>> /\ ~BadSyntax(Inner)
  /\ LET pos1 == st1[Len(st1)]
     IN  /\ mVarSet' = Append(mVarSet, SimpleCompile(Inner, mVarSet))
         /\ script' = SubSeq(script, 1, pos1 - 1) \o <<Variable(Len(mVarSet'))>>
                      \o SubSeq(script, i + 1, Len(script))
         /\ i' = pos1 + 1
  /\ UNCHANGED <<rule, st1, mRuleSet, state>>

\* The text in the innermost brackets becomes a variable.
CloseBracket ==
  /\ At(")") /\ st1 # <<>> /\ ~BadSyntax(Inner)
  /\ LET pos1 == st1[Len(st1)]
     IN  /\ mVarSet' = Append(mVarSet, SimpleCompile(Inner, mVarSet))
         /\ script' = SubSeq(script, 1, pos1 - 1) \o <<Variable(Len(mVarSet'))>>
                      \o SubSeq(script, i + 1, Len(script))
         /\ i' = pos1 + 1
  /\ st1' = SubSeq(st1, 1, Len(st1) - 1)
  /\ UNCHANGED <<rule, mRuleSet, state>>

Advance ==
  /\ \E kind \in Kinds \ {"(", ")"} : At(kind)
  /\ i' = i + 1
  /\ UNCHANGED <<rule, script, st1, mVarSet, mRuleSet, state>>

\* Where Compile or SimpleCompile throws.
Faulty ==
  \/ At(")") /\ IF st1 = <<>> THEN TRUE ELSE BadSyntax(Inner)
  \/ AtEnd /\ (st1 # <<>> \/ BadSyntax(script))

\* Nothing on the way up catches a ScriptException.
Throw ==
  /\ Faulty
  /\ state' = "thrown"
  /\ UNCHANGED <<rule, script, i, st1, mVarSet, mRuleSet>>

Finish ==
  /\ AtEnd /\ ~Faulty
  /\ mRuleSet' = SimpleCompile(script, mVarSet)
  /\ state' = "compiled"
  /\ UNCHANGED <<rule, script, i, st1, mVarSet>>

-----------------------------------------------------------------------------
Init ==
  /\ rule \in Rules /\ script = rule
  /\ i = 1 /\ st1 = <<>> /\ mVarSet = <<>> /\ mRuleSet = <<>>
  /\ state = "scan"

Next == OpenBracket \/ CloseBracket \/ Advance \/ Throw \/ Finish

Spec == Init /\ [][Next]_vars

-----------------------------------------------------------------------------
(* Properties.                                                             *)

\* Every variable in the script has its vector in mVarSet.
ScriptTypes ==
  /\ rule \in Rules /\ state \in {"scan", "compiled", "thrown"}
  /\ script \in Seq(Tokens) /\ st1 \in Seq(Nat)
  /\ i \in 1 .. Len(script) + 1
  /\ \A n \in 1 .. Len(script) :
       script[n].kind = "var" => script[n].id \in 1 .. Len(mVarSet)

(***************************************************************************)
(* StackOfBrackets: although the script is rewritten under it, st1 always  *)
(* points to the open brackets that are left of i, all of them in order,   *)
(* so that what is cut out has no bracket in it.                           *)
(***************************************************************************)
StackOfBrackets ==
  state = "scan" =>
    /\ \A n \in 1 .. Len(st1) :
         /\ st1[n] \in 1 .. i - 1 /\ script[st1[n]].kind = "("
         /\ \A m \in 1 .. n - 1 : st1[m] < st1[n]
    /\ \A p \in 1 .. i - 1 :
         /\ script[p].kind # ")"
         /\ script[p].kind = "(" => \E n \in 1 .. Len(st1) : st1[n] = p

\* How many brackets are open behind each token of a script.
Weight(token) ==
  IF token.kind = "(" THEN 1 ELSE IF token.kind = ")" THEN 0 - 1 ELSE 0

Depth(s) ==
  LET depth[n \in 0 .. Len(s)] == IF n = 0 THEN 0 ELSE depth[n - 1] + Weight(s[n])
  IN  depth

BracketsMatch(s) ==
  LET depth == Depth(s)
  IN  depth[Len(s)] = 0 /\ \A n \in 0 .. Len(s) : depth[n] >= 0

\* An operator with no operand on either side.
LoneOperator(s) ==
  \E p \in 1 .. Len(s) :
    /\ s[p].kind \in Operators
    /\ p # 1 => s[p - 1].kind \in Operators \cup {"("}
    /\ p # Len(s) => s[p + 1].kind \in Operators \cup {")"}

WellFormed(s) == BracketsMatch(s) /\ ~LoneOperator(s)

(***************************************************************************)
(* FaultyRejected: a rule is compiled exactly if, as it was entered, its   *)
(* brackets match and no operator stands alone, and otherwise ends in a    *)
(* ScriptException, wherever the fault is and whatever has been replaced   *)
(* before the scan gets to it.                                             *)
(***************************************************************************)
FaultyRejected ==
  /\ state = "compiled" => WellFormed(rule)
  /\ state = "thrown" => ~WellFormed(rule)

(***************************************************************************)
(* BracketsHandled: both of these: the scan knows the open brackets at     *)
(* every moment (ScriptEngine.cpp:274), and so ends rightly for every rule.*)
(***************************************************************************)
BracketsHandled == StackOfBrackets /\ FaultyRejected

-----------------------------------------------------------------------------
(* What a rule means, by README.md:34-38: ! before && before ||, and what  *)
(* is in brackets first.  A rule is read from left to right, one level for *)
(* every bracket that is open.                                             *)

\* Of a level: whether a disjunct before the last || holds, whether what has been read
\* of the present one does; whether there was a || or, in the present one, a bracket;
\* and what came last.
Opened == [some |-> FALSE, all |-> TRUE, ors |-> FALSE, group |-> FALSE, last |-> "("]

Holds(level) == level.some \/ level.all

Top(levels) == levels[Len(levels)]
Below(levels) == SubSeq(levels, 1, Len(levels) - 1)

Group(level, kept) ==
  [level EXCEPT !.all = @ /\ kept, !.group = TRUE, !.last = ")"]

\* A variable means what its vector keeps; nobody enters one.
ReadIn(level, t, line, varSet) ==
  CASE t.kind = "word" ->
         LET holds == (t.id \in line) <=> (level.last # "!")
         IN  [level EXCEPT !.all = @ /\ holds, !.last = "word"]
    [] t.kind = "var" -> Group(level, OnRuleFilter(varSet[t.id], line))
    [] t.kind = "||"  ->
         [level EXCEPT !.some = Holds(level), !.all = TRUE, !.ors = TRUE,
                       !.group = FALSE, !.last = "||"]
    [] OTHER          -> [level EXCEPT !.last = t.kind]

\* The forms README.md shows: in a conjunction the keywords stand before the brackets,
\* and where a bracket stands behind && there is no || before it.
Fits(level, t) ==
  CASE t.kind = "word"         -> level.last \in {"(", "!", "&&", "||"} /\ ~level.group
    [] t.kind \in {"(", "var"} -> \/ level.last \in {"(", "||"}
                                  \/ level.last = "&&" /\ ~level.ors
    [] t.kind = "!"            -> level.last \in {"(", "&&", "||"} /\ t = Symbol("!")
    [] OTHER                   -> level.last \in {"word", ")"}

ReadToken(r, t, line, varSet) ==
  LET top   == Top(r.levels)
      below == Below(r.levels)
      fits  == r.fits /\ Fits(top, t) /\ (t.kind = ")" => below # <<>>)
  IN  CASE t.kind = "(" ->
             [levels |-> Append(r.levels, Opened), fits |-> fits]
        [] t.kind = ")" /\ below # <<>> ->
             [levels |-> Append(Below(below), Group(Top(below), Holds(top))), fits |-> fits]
        [] OTHER ->
             [levels |-> Append(below, ReadIn(top, t, line, varSet)), fits |-> fits]

Reading(s, line, varSet) ==
  LET read[n \in 0 .. Len(s)] ==
        IF n = 0 THEN [levels |-> <<Opened>>, fits |-> TRUE]
        ELSE ReadToken(read[n - 1], s[n], line, varSet)
  IN  read[Len(s)]

Means(s, line) == Holds(Top(Reading(s, line, <<>>).levels))

\* The whole of it has been read, and it has one of those forms.
Complete(r) == r.fits /\ Len(r.levels) = 1 /\ Top(r.levels).last \in {"word", ")"}

(***************************************************************************)
(* KeepsWhatItMeans: a compiled rule of one of the forms README.md shows   *)
(* keeps exactly the lines that it means, however deep its brackets are,   *)
(* although Compile works on vectors that it multiplies out.               *)
(***************************************************************************)
KeepsWhatItMeans ==
  state = "compiled" =>
    \A line \in Line :
      Complete(Reading(rule, line, <<>>)) => (OnRuleFilter(mRuleSet, line) <=> Means(rule, line))

(***************************************************************************)
(* OrderIsFree: a compiled rule does so in whatever order its operands are *)
(* written.  README.md:35 says && keeps the lines that contain both.       *)
(***************************************************************************)
OrderIsFree ==
  state = "compiled" =>
    \A line \in Line : OnRuleFilter(mRuleSet, line) <=> Means(rule, line)

=============================================================================
