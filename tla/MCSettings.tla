---- MODULE MCSettings ----
(***************************************************************************)
(* What LogView keeps from one start to the next: LogServMgr in its        *)
(* database, LogViewConfig in its file.  They share nothing but the        *)
(* process: part says which of them a behaviour is about.                  *)
(***************************************************************************)
EXTENDS LogServMgr

CONSTANTS Str, MaxChanges

\* The constants of LogViewConfig.
ASSUME LogViewConfigConstants == "" \in Str /\ MaxChanges \in Nat

VARIABLES part, disk, savedLists, savedTopMost, mLists, mTopMost, pc, todoLists,
  startsOfConfig, changes, entered, chosen, pending

C == INSTANCE LogViewConfig WITH todo <- todoLists, starts <- startsOfConfig

MCPath == {"log", "logs", "log/sub", "log/x.txt", "old;log"}
MCFolder == MCPath \ {"log/x.txt"}
MCInside == [p \in MCPath |-> {p, "log"}]
MCAbove == [p \in MCPath |-> IF p \in {"log/sub", "log/x.txt"} THEN {p, "log"} ELSE {p}]
MCPieces == [p \in MCPath |-> IF p = "old;log" THEN <<"log">> ELSE <<p>>]

configVars == <<disk, savedLists, savedTopMost, mLists, mTopMost, pc, todoLists,
  startsOfConfig, changes, entered, chosen, pending>>
allVars == <<part, vars, configVars>>

Servers == part = "servers" /\ UNCHANGED <<part, configVars>>
Config == part = "config" /\ UNCHANGED <<part, vars>>

MCInit == part \in {"servers", "config"} /\ Init /\ C!Init
MCNext == (Servers /\ Next) \/ (Config /\ C!Next)
MCSpec == MCInit /\ [][MCNext]_allVars

\* Both modules' type invariants.
SettingsTypeOK == TypeOK /\ C!TypeOK

\* The property of LogViewConfig, under its name.
HistoryKept == C!HistoryKept
====
