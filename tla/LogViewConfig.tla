---------------------------- MODULE LogViewConfig ----------------------------
(***************************************************************************)
(* What LogView remembers of its pages: LogViewConfigMgr                   *)
(* (LogView/GlobalDef.cpp) keeps the strings that were entered as filters  *)
(* and searches, the latest first, and writes all of them to CfgCache.json *)
(* at every change.  Writing deletes the file, creates an empty one and    *)
(* fills it; LogView may end between any two of these and be started       *)
(* again.  At a start, and when a menu is used, UpdateConfig enters the    *)
(* first string of each list once more (LocalFrame.cpp, TabLogPage.cpp).   *)
(*                                                                         *)
(* The text fits in the buffer of the stream: it is written at once.  Of   *)
(* the settings mTopMost stands for all; autoScroll and pause are changed  *)
(* only in a copy (MainView.cpp).  The lists of the search page are never  *)
(* entered.                                                                *)
(***************************************************************************)
EXTENDS Naturals, Sequences, SequencesExt, Selecting

CONSTANTS
  Str,         \* strings the user enters; "", which clears a filter, is one
  MaxStarts,   \* starts of LogView
  MaxChanges   \* strings entered and menus used

VARIABLES
  \* CfgCache.json: is there one, is it empty; the lists and the setting in it
  disk, savedLists, savedTopMost,
  \* LogViewConfigMgr
  mLists, mTopMost,
  \* user interface thread: where it is in SaveConfig; what UpdateConfig still
  \* enters again, and the save that may follow
  pc, todo,
  \* bounds
  starts, changes,
  \* what the properties remember: all strings that were entered, the last at
  \* the end, the setting the user chose, and which of them is not yet saved
  entered, chosen, pending

diskVars == <<disk, savedLists, savedTopMost>>
memVars == <<mLists, mTopMost>>
ghostVars == <<entered, chosen, pending>>
vars == <<diskVars, memVars, pc, todo, starts, changes, ghostVars>>

\* mFilterList and mFindList of mDbgViewCfg and of mFileLogViewCfg.
List == {"dbg.flt", "dbg.find", "file.flt", "file.find"}
Again == <<"dbg.flt", "dbg.find", "file.flt", "file.find">>
NoLists == [l \in List |-> <<>>]
Running == pc # "off"

TypeOK ==
  /\ disk \in {"none", "blank", "full"}
  /\ savedLists \in [List -> Seq(Str)] /\ savedTopMost \in BOOLEAN
  /\ mLists \in [List -> Seq(Str)] /\ mTopMost \in BOOLEAN
  /\ pc \in {"off", "update", "delete", "open", "write", "idle"}
  /\ todo \in Seq(List \cup {"save"})
  /\ starts \in 0 .. MaxStarts /\ changes \in 0 .. MaxChanges
  /\ entered \in [List -> Seq(Str)] /\ chosen \in BOOLEAN
  /\ pending \in List \cup {"none", "topmost"}

-----------------------------------------------------------------------------

\* Mutant: a string that is in the list already stays where it is.
InsertNewStr(str, list) == IF Contains(list, str) THEN list ELSE <<str>> \o list

\* A string that is in the list already moves to its front.
InsertStrToList(str, list) == <<str>> \o Select(list, Str \ {str})

\* EnterFilterStr, EnterSearchStr: the list, then SaveConfig.
Enter(l, str) ==
  /\ mLists' = [mLists EXCEPT ![l] = InsertStrToList(str, @)]
  /\ pc' = "delete"
  /\ UNCHANGED <<diskVars, mTopMost, starts, chosen>>

\* LoadConfig: an empty file reads as no lists and no setting; mFindList of the
\* files' page is in the file, but is not read.
Start ==
  /\ pc = "off" /\ starts < MaxStarts
  /\ starts' = starts + 1
  /\ mLists' = IF disk = "full" THEN [savedLists EXCEPT !["file.find"] = <<>>]
               ELSE NoLists
  /\ mTopMost' = (disk = "full" /\ savedTopMost)
  /\ pc' = "update" /\ todo' = Again
  /\ UNCHANGED <<diskVars, changes, ghostVars>>

\* LoadCfg of a page puts the first string of a list in its edit control, or
\* none, and enters what is there.
EnterAgain ==
  /\ pc = "update" /\ Head(todo) # "save"
  /\ todo' = Tail(todo)
  /\ UNCHANGED changes
  /\ LET l == Head(todo)
     IN IF mLists[l] = <<>>
        THEN /\ Enter(l, "")
             /\ entered' = [entered EXCEPT ![l] = Append(@, "")] /\ pending' = l
        ELSE Enter(l, Head(mLists[l])) /\ UNCHANGED <<entered, pending>>

SaveAgain ==
  /\ pc = "update" /\ Head(todo) = "save"
  /\ pc' = "delete" /\ todo' = <<>>
  /\ UNCHANGED <<diskVars, memVars, starts, changes, ghostVars>>

\* OnFilterReturn, OnFindReturn.
EnterStr(l, str) ==
  /\ pc = "idle" /\ changes < MaxChanges
  /\ changes' = changes + 1
  /\ Enter(l, str)
  /\ entered' = [entered EXCEPT ![l] = Append(@, str)] /\ pending' = l
  /\ UNCHANGED todo

\* MENU_ID_TOPMOST, SetGlobalCfg.
TopMost ==
  /\ pc = "idle" /\ changes < MaxChanges
  /\ changes' = changes + 1
  /\ mTopMost' = ~mTopMost
  /\ pc' = "delete"
  /\ chosen' = ~chosen /\ pending' = "topmost"
  /\ UNCHANGED <<diskVars, mLists, todo, starts, entered>>

\* MENU_ID_AUTO_SCROLL, MENU_ID_PAUSE: UpdateConfig and SaveConfig.
UpdateMenu ==
  /\ pc = "idle" /\ changes < MaxChanges
  /\ changes' = changes + 1
  /\ pc' = "update" /\ todo' = Append(Again, "save")
  /\ UNCHANGED <<diskVars, memVars, starts, ghostVars>>

DeleteFile ==
  /\ pc = "delete"
  /\ pc' = "open"
  /\ disk' = "none"
  /\ UNCHANGED <<savedLists, savedTopMost, memVars, todo, starts, changes, ghostVars>>

OpenFile ==
  /\ pc = "open"
  /\ pc' = "write"
  /\ disk' = "blank"
  /\ UNCHANGED <<savedLists, savedTopMost, memVars, todo, starts, changes, ghostVars>>

WriteFile ==
  /\ pc = "write"
  /\ pc' = IF todo = <<>> THEN "idle" ELSE "update"
  /\ disk' = "full" /\ savedLists' = mLists /\ savedTopMost' = mTopMost
  /\ pending' = "none"
  /\ UNCHANGED <<memVars, todo, starts, changes, entered, chosen>>

\* LogView ends.  What the user then has lost: everything when its file is
\* deleted and not yet written again, or the change it was about to save; and
\* in any case the searches in files.
Kept(l) ==
  IF pc \in {"open", "write"} \/ l = "file.find" THEN <<>>
  ELSE IF pc = "delete" /\ pending = l THEN Front(entered[l])
  ELSE entered[l]

End ==
  /\ Running
  /\ pc' = "off" /\ todo' = <<>>
  /\ mLists' = NoLists /\ mTopMost' = FALSE
  /\ entered' = [l \in List |-> Kept(l)]
  /\ chosen' = IF pc \in {"open", "write"} THEN FALSE
               ELSE IF pc = "delete" /\ pending = "topmost" THEN ~chosen
               ELSE chosen
  /\ pending' = "none"
  /\ UNCHANGED <<diskVars, starts, changes>>

-----------------------------------------------------------------------------

Init ==
  /\ disk = "none" /\ savedLists = NoLists /\ savedTopMost = FALSE
  /\ mLists = NoLists /\ mTopMost = FALSE
  /\ pc = "off" /\ todo = <<>>
  /\ starts = 0 /\ changes = 0
  /\ entered = NoLists /\ chosen = FALSE /\ pending = "none"

SaveConfig == DeleteFile \/ OpenFile \/ WriteFile

User == TopMost \/ UpdateMenu \/ \E l \in List, str \in Str : EnterStr(l, str)

Next == Start \/ End \/ User \/ EnterAgain \/ SaveAgain \/ SaveConfig

Spec == Init /\ [][Next]_vars

-----------------------------------------------------------------------------
(* Properties.                                                             *)

LastOf(str, log) == CHOOSE i \in DOMAIN log :
  log[i] = str /\ \A j \in DOMAIN log : log[j] = str => j <= i

\* Each list has every string that was entered and not lost, once, and the one
\* that was entered later before the other (the rule in GlobalDef.cpp:150-151);
\* the setting is the one the user chose.  Lost is only what Kept says: nothing
\* by a start, a menu or an end outside SaveConfig (GlobalDef.cpp:77-82,
\* 106-148, TabLogPage.cpp:61-78).
HistoryKept ==
  Running =>
    /\ mTopMost = chosen
    /\ \A l \in List :
         /\ ToSet(mLists[l]) = ToSet(entered[l])
         /\ \A i, j \in DOMAIN mLists[l] : i < j =>
              LastOf(mLists[l][i], entered[l]) > LastOf(mLists[l][j], entered[l])

=============================================================================
