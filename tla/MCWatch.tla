------------------------------ MODULE MCWatch ------------------------------
(***************************************************************************)
(* The two programs that watch directories, FileNotify of the agent and    *)
(* LocalTail of LogView.  They run on different machines and share         *)
(* nothing: platform says which of them a behaviour is about.              *)
(***************************************************************************)
EXTENDS FileNotify

CONSTANTS MaxBytes, MaxClears, MaxAdds, MaxFails, ChunkSize

ASSUME LocalTailConstants ==
  /\ MaxBytes \in Nat /\ MaxClears \in Nat /\ MaxAdds \in Nat
  /\ MaxFails \in Nat /\ ChunkSize \in Nat \ {0}

VARIABLES
  platform,
  exists, data, written, wtime, clears, ui, adds, posted, created,
  mIoSet, fileSet, mLastSize, mLastWriteTime, mNewFile, cached, mLastPos,
  pc, size, str, orphan, received, start, skipped, unseen, fails

L == INSTANCE LocalTail

MCDir == {<< >>, <<"a">>, <<".a">>, <<"a", "b">>}
MCStrip == [n \in {"a", ".a", "b", "f"} |-> IF n = ".a" THEN "a" ELSE n]

viewVars == <<exists, data, written, wtime, clears, ui, adds, posted, created,
  mIoSet, fileSet, mLastSize, mLastWriteTime, mNewFile, cached, mLastPos,
  pc, size, str, orphan, received, start, skipped, unseen, fails>>

allVars == <<platform, vars, viewVars>>

Linux == platform = "linux" /\ UNCHANGED <<platform, viewVars>>
Windows == platform = "windows" /\ UNCHANGED <<platform, vars>>

\* Of the platform that is not looked at there is one initial state.
MCInit ==
  /\ platform \in {"linux", "windows"}
  /\ Init /\ L!Init
  /\ platform = "linux" => exists
  /\ platform = "windows" => slash

MCNext == (Linux /\ Next) \/ (Windows /\ L!Next)

MCFairness ==
  /\ WF_allVars(Linux /\ Register) /\ WF_allVars(Linux /\ NotifyThread)
  /\ WF_allVars(Windows /\ L!Add) /\ WF_allVars(Windows /\ L!OnCreated)
  /\ \A set \in {"active", "passive"} :
       WF_allVars(Windows /\ L!CheckFileChanged(set))
  /\ WF_allVars(Windows /\ L!Reading)

MCSpec == MCInit /\ [][MCNext]_allVars /\ MCFairness

\* Both modules' type invariants.
BothTypeOK == TypeOK /\ L!TypeOK

\* The properties of LocalTail, under their names.
NoGap == L!NoGap
LocalCatchesUp == L!LocalCatchesUp
=============================================================================
