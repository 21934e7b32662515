------------------------ MODULE WorkspacePageProofs ------------------------
(***************************************************************************)
(* Proofs about WorkspacePage for every number of failing requests.        *)
(*                                                                         *)
(* The invariant adds to TypeOK why the page cannot come to rest with an   *)
(* old list: the flag is raised exactly while a request is under way, and  *)
(* with no start or update of the user under way neither the page nor an   *)
(* answer on its way is older than the last start.                         *)
(***************************************************************************)
EXTENDS WorkspacePage, TLAPS

\* Nothing is cancelled, and the flag is raised only while a request is under way.
FlagOK ==
  cut \/ /\ \A r \in flying : r.live
         /\ running => flying # {}

\* Without an operation of the user under way, what says "stopped" is right, unless
\* it is about to be replaced.
FreshOK ==
  cut \/ op # "no" \/ /\ data = "stopped" /\ flying = {} => world = "stopped"
                      /\ \A r \in flying : r.got = "stopped" => world = "stopped"

IInv == TypeOK /\ FlagOK /\ FreshOK

USE DEF PageAssumption, Status, List, NewRequest, hook, deploys, ops, vars

-----------------------------------------------------------------------------
\* The page is opened with one request under way and the flag raised.
LEMMA InitIInv == Init => IInv
  <1> SUFFICES ASSUME Init PROVE IInv
    OBVIOUS
  <1>1. TypeOK
    <2>1. HookTypes
      <3>1. NewRequest \in [live : BOOLEAN, got : List \cup {NoData}]
        OBVIOUS
      <3> QED
        BY <3>1 DEF Init, HookTypes
    <2>2. DeployTypes /\ OpTypes
      BY DEF Init, DeployTypes, OpTypes
    <2> QED
      BY <2>1, <2>2, PageAssumption DEF Init, TypeOK
  <1>2. FlagOK
    BY DEF Init, FlagOK
  <1>3. FreshOK
    BY PageAssumption DEF Init, FreshOK
  <1> QED
    BY <1>1, <1>2, <1>3 DEF IInv

\* A reload keeps the types of the hook's variables.
LEMMA ReloadTypes ==
  ASSUME HookTypes, Reload
  PROVE  HookTypes'
  <1>1. flying \in SUBSET [live : BOOLEAN, got : List \cup {NoData}]
    BY DEF HookTypes
  <1>2. \A r \in flying : [r EXCEPT !.live = FALSE] \in [live : BOOLEAN, got : List \cup {NoData}]
    BY <1>1
  <1>3. NewRequest \in [live : BOOLEAN, got : List \cup {NoData}]
    OBVIOUS
  <1>4. flying' \in SUBSET [live : BOOLEAN, got : List \cup {NoData}]
    <2>1. \A q \in flying' : q = NewRequest \/ \E r \in flying : q = [r EXCEPT !.live = FALSE]
      BY Zenon DEF Reload
    <2>2. ASSUME NEW q \in flying' PROVE q \in [live : BOOLEAN, got : List \cup {NoData}]
      BY <1>2, <1>3, <2>1
    <2> QED
      BY <2>2
  <1>5. running' = TRUE /\ data' = data
    BY DEF Reload
  <1>6. cut' \in BOOLEAN
    BY DEF Reload, HookTypes
  <1>7. \A q, r \in flying' : q = r
    <2>1. CASE running
      BY <2>1 DEF Reload, HookTypes
    <2>2. CASE ~ running
      BY <2>2 DEF Reload, HookTypes
    <2> QED
      BY <2>1, <2>2
  <1> QED
    BY <1>4, <1>5, <1>6, <1>7 DEF HookTypes

\* A reload that cancels nothing finds the flag lowered and sends a request.
LEMMA ReloadSends ==
  ASSUME TypeOK, FlagOK, Reload, ~ cut'
  PROVE  ~ cut /\ flying = {} /\ flying' = {NewRequest}
  <1>1. ~ cut /\ flying = {}
    BY DEF Reload, TypeOK, HookTypes
  <1>2. ~ running
    BY <1>1 DEF FlagOK
  <1>3. {[r EXCEPT !.live = FALSE] : r \in flying} = {}
    BY <1>1
  <1> QED
    BY <1>1, <1>2, <1>3 DEF Reload

\* Hence it keeps what is said of the hook, whatever else the step does.
LEMMA ReloadKeeps ==
  ASSUME TypeOK, FlagOK, Reload
  PROVE  FlagOK' /\ FreshOK'
  <1>1. CASE cut'
    BY <1>1 DEF FlagOK, FreshOK
  <1>2. CASE ~ cut'
    <2>1. flying' = {NewRequest}
      BY <1>2, ReloadSends
    <2>2. NewRequest.live /\ NewRequest.got # "stopped"
      BY PageAssumption
    <2> QED
      BY <2>1, <2>2 DEF FlagOK, FreshOK
  <1> QED
    BY <1>1, <1>2

-----------------------------------------------------------------------------
\* Steps that leave the hook and the world alone, and end no operation of the user.
LEMMA QuietKeeps ==
  ASSUME FlagOK, FreshOK, UNCHANGED <<hook, world>>, op' = "no" => op = "no"
  PROVE  FlagOK' /\ FreshOK'
  BY DEF FlagOK, FreshOK

\* Steps by which a workspace comes or goes other than by a start: none of them makes
\* "stopped" wrong.
LEMMA WorldKeeps ==
  ASSUME FlagOK, FreshOK, UNCHANGED hook, op' = op, world = "stopped" => world' = "stopped"
  PROVE  FlagOK' /\ FreshOK'
  BY DEF FlagOK, FreshOK

\* Every step keeps the invariant.
LEMMA NextIInv == IInv /\ [Next]_vars => IInv'
  <1> SUFFICES ASSUME TypeOK, FlagOK, FreshOK, [Next]_vars PROVE IInv'
    BY DEF IInv
  <1> USE PageAssumption DEF IInv
  <1>1. CASE ServeList
    <2>1. PICK r \in flying : /\ r.got = NoData
                              /\ flying' = (flying \ {r}) \cup {[r EXCEPT !.got = world]}
      BY <1>1 DEF ServeList
    <2>2. TypeOK'
      BY <1>1, <2>1 DEF ServeList, TypeOK, HookTypes, DeployTypes, OpTypes
    <2>3. FlagOK' /\ FreshOK'
      BY <1>1, <2>1 DEF ServeList, TypeOK, HookTypes, DeployTypes, OpTypes, FlagOK, FreshOK
    <2> QED
      BY <2>2, <2>3
  <1>2. CASE FailList
    <2>1. PICK r \in flying : /\ r.got = NoData
                              /\ flying' = (flying \ {r}) \cup {[r EXCEPT !.got = "empty"]}
      BY <1>2 DEF FailList
    <2>2. TypeOK'
      BY <1>2, <2>1 DEF FailList, TypeOK, HookTypes, DeployTypes, OpTypes
    <2>3. FlagOK' /\ FreshOK'
      BY <1>2, <2>1 DEF FailList, TypeOK, HookTypes, DeployTypes, OpTypes, FlagOK, FreshOK
    <2> QED
      BY <2>2, <2>3
  <1>3. CASE Answer
    <2>1. PICK r \in flying :
            /\ r.got # NoData
            /\ flying' = flying \ {r}
            /\ IF r.live
               THEN /\ data' = r.got
                    /\ running' = FALSE
                    /\ IF r.got = "empty" /\ ~ deploying
                       THEN deploying' = TRUE /\ deployment' = "sent"
                       ELSE UNCHANGED deploys
               ELSE UNCHANGED <<data, running, deploys>>
            /\ UNCHANGED <<world, cut, ops, faults>>
      BY <1>3 DEF Answer
    <2>2. TypeOK'
      <3>1. HookTypes'
        <4>1. CASE r.live
          BY <2>1, <4>1 DEF TypeOK, HookTypes
        <4>2. CASE ~ r.live
          BY <2>1, <4>2 DEF TypeOK, HookTypes
        <4> QED
          BY <4>1, <4>2
      <3>2. DeployTypes'
        BY <2>1 DEF TypeOK, DeployTypes
      <3>3. OpTypes'
        BY <2>1 DEF TypeOK, OpTypes
      <3> QED
        BY <2>1, <3>1, <3>2, <3>3 DEF TypeOK
    <2>3. FlagOK' /\ FreshOK'
      BY <2>1 DEF TypeOK, HookTypes, DeployTypes, OpTypes, FlagOK, FreshOK
    <2> QED
      BY <2>2, <2>3
  <1>4. CASE Tick
    <2>1. Reload
      BY <1>4 DEF Tick
    <2>2. TypeOK'
      <3>1. HookTypes'
        BY <2>1, ReloadTypes DEF TypeOK
      <3>2. DeployTypes'
        BY <1>4 DEF Tick, TypeOK, DeployTypes
      <3>3. OpTypes'
        BY <1>4 DEF Tick, TypeOK, OpTypes
      <3> QED
        BY <1>4, <3>1, <3>2, <3>3 DEF Tick, TypeOK
    <2>3. FlagOK' /\ FreshOK'
      BY <2>1, ReloadKeeps
    <2> QED
      BY <2>2, <2>3
  <1>5. CASE ServeDeploy
    <2>1. TypeOK'
      BY <1>5 DEF ServeDeploy, TypeOK, HookTypes, DeployTypes, OpTypes
    <2> QED
      BY <1>5, <2>1, WorldKeeps DEF ServeDeploy
  <1>6. CASE FailDeploy
    <2>1. TypeOK'
      BY <1>6 DEF FailDeploy, TypeOK, HookTypes, DeployTypes, OpTypes
    <2> QED
      BY <1>6, <2>1, WorldKeeps DEF FailDeploy
  <1>7. CASE Deployed
    <2>1. Reload
      BY <1>7 DEF Deployed
    <2>2. TypeOK'
      <3>1. HookTypes'
        BY <2>1, ReloadTypes DEF TypeOK
      <3>2. DeployTypes'
        BY <1>7 DEF Deployed, TypeOK, DeployTypes
      <3>3. OpTypes'
        BY <1>7 DEF Deployed, TypeOK, OpTypes
      <3> QED
        BY <1>7, <3>1, <3>2, <3>3 DEF Deployed, TypeOK
    <2>3. FlagOK' /\ FreshOK'
      BY <2>1, ReloadKeeps
    <2> QED
      BY <2>2, <2>3
  <1>8. CASE ClickStart \/ OpenDialog \/ CloseDialog
    <2>1. TypeOK'
      <3>1. HookTypes' /\ DeployTypes'
        BY <1>8 DEF ClickStart, OpenDialog, CloseDialog, TypeOK, HookTypes, DeployTypes
      <3>2. OpTypes'
        BY <1>8 DEF ClickStart, OpenDialog, CloseDialog, TypeOK, OpTypes
      <3> QED
        BY <1>8, <3>1, <3>2 DEF ClickStart, OpenDialog, CloseDialog, TypeOK
    <2> QED
      BY <1>8, <2>1, QuietKeeps DEF ClickStart, OpenDialog, CloseDialog
  <1>9. CASE ServeOp
    <2>1. TypeOK'
      BY <1>9 DEF ServeOp, Restarted, TypeOK, HookTypes, DeployTypes, OpTypes
    <2>2. FlagOK' /\ FreshOK'
      BY <1>9 DEF ServeOp, FlagOK, FreshOK
    <2> QED
      BY <2>1, <2>2
  <1>10. CASE ServeEdit
    <2>1. TypeOK'
      BY <1>10 DEF ServeEdit, Restarted, TypeOK, HookTypes, DeployTypes, OpTypes
    <2> QED
      BY <1>10, <2>1, WorldKeeps DEF ServeEdit, Restarted
  <1>11. CASE FailOp \/ OpAnswered
    <2>1. TypeOK'
      BY <1>11 DEF FailOp, OpAnswered, TypeOK, HookTypes, DeployTypes, OpTypes
    <2> QED
      BY <1>11, <2>1, QuietKeeps DEF FailOp, OpAnswered
  <1>12. CASE TimerFires
    <2>1. Reload
      BY <1>12 DEF TimerFires
    <2>2. TypeOK'
      <3>1. HookTypes'
        BY <2>1, ReloadTypes DEF TypeOK
      <3>2. DeployTypes'
        BY <1>12 DEF TimerFires, TypeOK, DeployTypes
      <3>3. OpTypes'
        BY <1>12 DEF TimerFires, TypeOK, OpTypes
      <3> QED
        BY <1>12, <3>1, <3>2, <3>3 DEF TimerFires, TypeOK
    <2>3. FlagOK' /\ FreshOK'
      BY <2>1, ReloadKeeps
    <2> QED
      BY <2>2, <2>3
  <1>13. CASE EditAnswered
    <2>1. Reload
      BY <1>13 DEF EditAnswered
    <2>2. TypeOK'
      <3>1. HookTypes'
        BY <2>1, ReloadTypes DEF TypeOK
      <3>2. DeployTypes'
        BY <1>13 DEF EditAnswered, TypeOK, DeployTypes
      <3>3. OpTypes'
        BY <1>13 DEF EditAnswered, TypeOK, OpTypes
      <3> QED
        BY <1>13, <3>1, <3>2, <3>3 DEF EditAnswered, TypeOK
    <2>3. FlagOK' /\ FreshOK'
      BY <2>1, ReloadKeeps
    <2> QED
      BY <2>2, <2>3
  <1>14. CASE Ready \/ IdleStop \/ OtherTab
    <2>1. TypeOK'
      BY <1>14 DEF Ready, IdleStop, OtherTab, TypeOK, HookTypes, DeployTypes, OpTypes
    <2> QED
      BY <1>14, <2>1, WorldKeeps DEF Ready, IdleStop, OtherTab
  <1>15. CASE UNCHANGED vars
    BY <1>15 DEF TypeOK, HookTypes, DeployTypes, OpTypes, FlagOK, FreshOK
  <1> QED
    BY <1>1, <1>2, <1>3, <1>4, <1>5, <1>6, <1>7, <1>8, <1>9, <1>10, <1>11, <1>12, <1>13, <1>14, <1>15 DEF Next

-----------------------------------------------------------------------------
\* Types; while anything is under way it is marked as such: a list request by the flag,
\* a deployment and the user's operation by what is shown as loading.
THEOREM PageTypes == Spec => []TypeOK
  <1>1. IInv => TypeOK
    BY DEF IInv
  <1> QED
    BY <1>1, InitIInv, NextIInv, PTL DEF Spec

\* useApiHook: as long as no reload cancels a request under way, the flag is raised only
\* while one is.
THEOREM PageFlagIsFreed == Spec => []FlagIsFreed
  <1>1. IInv => FlagIsFreed
    BY DEF IInv, FlagOK, FlagIsFreed
  <1> QED
    BY <1>1, InitIInv, NextIInv, PTL DEF Spec

\* Workspace.jsx: a page at rest does not show a workspace as stopped that it started.
THEOREM PageStartIsSeen == Spec => []StartIsSeen
  <1>1. IInv => StartIsSeen
    BY DEF IInv, FreshOK, StartIsSeen
  <1> QED
    BY <1>1, InitIInv, NextIInv, PTL DEF Spec
=============================================================================
