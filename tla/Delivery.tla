------------------------------ MODULE Delivery ------------------------------
(***************************************************************************)
(* What the remote view of a log promises, whatever the network does: the  *)
(* agent dispatches lines, numbered from 1; each viewer is shown some of   *)
(* them, none that was not dispatched and none behind a later one, and no  *)
(* more of them twice than there were faults.  A batch of lines may come   *)
(* at once, and lines may be left out: a viewer that was not connected has *)
(* missed them.                                                            *)
(***************************************************************************)
EXTENDS Naturals, Sequences, FiniteSets

CONSTANT Viewer

VARIABLES dispatched, shown, faults

vars == <<dispatched, shown, faults>>

Init == dispatched = 0 /\ shown = [v \in Viewer |-> <<>>] /\ faults = 0

Dispatch == dispatched' = dispatched + 1 /\ UNCHANGED <<shown, faults>>

\* Something went wrong in the agent; what it may cost is in Extends.
Fault == faults' = faults + 1 /\ UNCHANGED <<dispatched, shown>>

Repeated(s) == {k \in 2 .. Len(s) : s[k] = s[k - 1]}

Extends(new, old) ==
  /\ Len(new) > Len(old) /\ SubSeq(new, 1, Len(old)) = old
  /\ \A k \in Len(old) + 1 .. Len(new) :
       new[k] \in 1 .. dispatched /\ (k > 1 => new[k - 1] <= new[k])
  /\ Cardinality(Repeated(new)) <= faults

Show(v) ==
  /\ Extends(shown'[v], shown[v])
  /\ shown' = [shown EXCEPT ![v] = shown'[v]]
  /\ UNCHANGED <<dispatched, faults>>

Next == Dispatch \/ Fault \/ \E v \in Viewer : Show(v)

Spec == Init /\ [][Next]_vars

=============================================================================
