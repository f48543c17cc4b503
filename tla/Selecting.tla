------------------------------ MODULE Selecting ------------------------------
(***************************************************************************)
(* SelectSeq of the module Sequences for a test that is membership in a    *)
(* set, written as a recursive function.  The provers know nothing of      *)
(* SelectSeq; what they need of Select is proved in SequenceFacts.         *)
(***************************************************************************)
EXTENDS Naturals, Sequences

\* The elements of s that are in S, in the order they have in s.
Select(s, S) ==
  LET front[n \in 0 .. Len(s)] ==
        IF n = 0 THEN <<>>
        ELSE IF s[n] \in S THEN Append(front[n - 1], s[n])
        ELSE front[n - 1]
  IN  front[Len(s)]

=============================================================================
