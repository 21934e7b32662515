--------------------------- MODULE WorkspacePage ---------------------------
(***************************************************************************)
(* The page of a user's workspace: Workspace.jsx and the hook useApiHook   *)
(* of lab-workspace-manager's webapp, with the backend (app.py) behind it. *)
(* MLFlowServer.jsx and its hook are the same, without the config dialog.  *)
(*                                                                         *)
(* The page shows what the last answered list request brought.  Timers,    *)
(* answers and clicks are callbacks of one thread: each runs to its end,   *)
(* effects included, before the next one.                                  *)
(***************************************************************************)
EXTENDS Naturals

CONSTANTS
  NoData,     \* nothing was answered yet
  MaxFaults   \* bound: failed requests

Status == {"stopped", "pending", "running"}
List == Status \cup {"empty"}      \* the user's workspaces: none, or one

ASSUME PageAssumption == NoData \notin List /\ MaxFaults \in Nat

VARIABLES
  world,      \* the list as the backend has it
  data,       \* the list the page shows (useState data)
  flying,     \* list requests under way; live: not cancelled
  running,    \* requestRunning.current
  cut,        \* a reload has cancelled a list request under way (history)
  deployment, \* POST of the default workspace
  deploying,  \* workspaceDeploymentLoading
  dialog,     \* the config dialog: the status of the workspace it was opened for
  op,         \* start request, or update of what was not stopped, up to its timer
  edit,       \* update of what was stopped
  loading,    \* workspaceLoading
  faults      \* failed requests

hook == <<data, flying, running, cut>>
deploys == <<deployment, deploying>>
ops == <<dialog, op, edit, loading>>
vars == <<world, hook, deploys, ops, faults>>

NewRequest == [live |-> TRUE, got |-> NoData]

HookTypes ==
  /\ data \in List \cup {NoData}
  /\ flying \in SUBSET [live : BOOLEAN, got : List \cup {NoData}]
  /\ running \in BOOLEAN /\ cut \in BOOLEAN
  /\ \A q, r \in flying : q = r
  /\ flying # {} => running = TRUE

DeployTypes ==
  /\ deployment \in {"no", "sent", "created", "refused"}
  /\ deploying \in BOOLEAN
  /\ deployment # "no" => deploying = TRUE

OpTypes ==
  /\ dialog \in Status \cup {"closed"}
  /\ op \in {"no", "start", "update", "answered", "timer"}
  /\ edit \in {"no", "sent", "answered"}
  /\ loading \in BOOLEAN
  /\ op # "no" => loading = TRUE

\* One list request at a time.  What is under way is marked as such: the request by the flag, a deployment and the
\* user's operation by what is shown as loading.
TypeOK ==
  /\ world \in List /\ faults \in 0 .. MaxFaults
  /\ HookTypes /\ DeployTypes /\ OpTypes

-----------------------------------------------------------------------------
(* useApiHook *)

\* Mutant of Reload: the flag is not set when the request is sent.
ReloadUnmarked ==
  /\ flying' = {[r EXCEPT !.live = FALSE] : r \in flying}
                 \cup (IF running THEN {} ELSE {NewRequest})
  /\ cut' = (cut \/ flying # {})
  /\ UNCHANGED <<data, running>>

\* requestReload: the effect is cleaned up, which cancels its request, and runs
\* again; it sends a request only if none is marked as running.
Reload ==
  /\ flying' = {[r EXCEPT !.live = FALSE] : r \in flying}
                 \cup (IF running THEN {} ELSE {NewRequest})
  /\ running' = TRUE
  /\ cut' = (cut \/ flying # {})
  /\ UNCHANGED data

\* GET /users/{id}/workspace is answered by list_workspaces.
ServeList ==
  /\ \E r \in flying :
       /\ r.got = NoData
       /\ flying' = (flying \ {r}) \cup {[r EXCEPT !.got = world]}
  /\ UNCHANGED <<world, data, running, cut, deploys, ops, faults>>

\* The request fails: apiCall catches it and returns an empty list.
FailList ==
  /\ faults < MaxFaults /\ faults' = faults + 1
  /\ \E r \in flying :
       /\ r.got = NoData
       /\ flying' = (flying \ {r}) \cup {[r EXCEPT !.got = "empty"]}
  /\ UNCHANGED <<world, data, running, cut, deploys, ops>>

\* Mutant of Answer: the flag is not reset behind setData.
AnswerNoReset ==
  \E r \in flying :
    /\ r.got # NoData
    /\ flying' = flying \ {r}
    /\ IF r.live
       THEN /\ data' = r.got
            /\ IF r.got = "empty" /\ ~ deploying
               THEN deploying' = TRUE /\ deployment' = "sent"
               ELSE UNCHANGED deploys
       ELSE UNCHANGED <<data, deploys>>
    /\ UNCHANGED <<world, running, cut, ops, faults>>

\* The answer arrives.  A cancelled request returns before the flag is reset.  The
\* effect on [workspaces] deploys a default workspace when the list is empty.
Answer ==
  \E r \in flying :
    /\ r.got # NoData
    /\ flying' = flying \ {r}
    /\ IF r.live
       THEN /\ data' = r.got
            /\ running' = FALSE
            /\ IF r.got = "empty" /\ ~ deploying
               THEN deploying' = TRUE /\ deployment' = "sent"
               ELSE UNCHANGED deploys
       ELSE UNCHANGED <<data, running, deploys>>
    /\ UNCHANGED <<world, cut, ops, faults>>

\* Mutant of Tick: the interval exists only while a start or update is loading.
TickWhileLoading ==
  /\ data = "pending" /\ loading
  /\ Reload
  /\ UNCHANGED <<world, deploys, ops, faults>>

\* The interval of 5 s that exists while the shown workspace is pending.
Tick ==
  /\ data = "pending"
  /\ Reload
  /\ UNCHANGED <<world, deploys, ops, faults>>

-----------------------------------------------------------------------------
(* The default workspace *)

\* deploy_workspace: the name is taken when there is a workspace.
ServeDeploy ==
  /\ deployment = "sent"
  /\ deployment' = IF world = "empty" THEN "created" ELSE "refused"
  /\ world' = IF world = "empty" THEN "stopped" ELSE world
  /\ UNCHANGED <<hook, deploying, ops, faults>>

\* It fails, with or without effect.
FailDeploy ==
  /\ faults < MaxFaults /\ faults' = faults + 1
  /\ deployment = "sent" /\ deployment' = "refused"
  /\ world' \in {world, IF world = "empty" THEN "stopped" ELSE world}
  /\ UNCHANGED <<hook, deploying, ops>>

Deployed ==
  /\ deployment = "created" /\ deployment' = "no"
  /\ deploying' = FALSE
  /\ Reload
  /\ UNCHANGED <<world, ops, faults>>

-----------------------------------------------------------------------------
(* The user *)

\* The start button of a stopped workspace.
ClickStart ==
  /\ data = "stopped" /\ ~ loading /\ dialog = "closed"
  /\ op' = "start" /\ loading' = TRUE
  /\ UNCHANGED <<world, hook, deploys, dialog, edit, faults>>

\* The config dialog is modal and keeps the workspace it was opened for.
OpenDialog ==
  /\ data \in Status /\ ~ loading /\ dialog = "closed"
  /\ dialog' = data
  /\ UNCHANGED <<world, hook, deploys, op, edit, loading, faults>>

\* onUpdate, then onClose; or the dialog is cancelled.  Bound: one edit at a time.
CloseDialog ==
  /\ dialog # "closed" /\ dialog' = "closed"
  /\ \/ dialog # "stopped" /\ op' = "update" /\ loading' = TRUE /\ UNCHANGED edit
     \/ dialog = "stopped" /\ edit = "no" /\ edit' = "sent" /\ UNCHANGED <<op, loading>>
     \/ UNCHANGED <<op, edit, loading>>
  /\ UNCHANGED <<world, hook, deploys, faults>>

\* start_workspace; update_workspace, on which the platform restarts what is running.
Restarted == IF world = "running" THEN "pending" ELSE world

ServeOp ==
  /\ \/ op = "start" /\ world' = (IF world = "stopped" THEN "pending" ELSE world)
     \/ op = "update" /\ world' = Restarted
  /\ op' = "answered"
  /\ UNCHANGED <<hook, deploys, dialog, edit, loading, faults>>

ServeEdit ==
  /\ edit = "sent" /\ edit' = "answered"
  /\ world' = Restarted
  /\ UNCHANGED <<hook, deploys, dialog, op, loading, faults>>

\* Mutant of FailOp: .then instead of .finally, nothing follows a failure.
FailOpSilently ==
  /\ faults < MaxFaults /\ faults' = faults + 1
  /\ \/ op \in {"start", "update"} /\ op' = "no" /\ UNCHANGED edit
     \/ edit = "sent" /\ edit' = "no" /\ UNCHANGED op
  /\ UNCHANGED <<world, hook, deploys, dialog, loading>>

\* A start or update fails; the service functions report it and do not throw.
FailOp ==
  /\ faults < MaxFaults /\ faults' = faults + 1
  /\ \/ op \in {"start", "update"} /\ op' = "answered" /\ UNCHANGED edit
     \/ edit = "sent" /\ edit' = "answered" /\ UNCHANGED op
  /\ UNCHANGED <<world, hook, deploys, dialog, loading>>

\* .finally sets a timer of 10 s.
OpAnswered ==
  /\ op = "answered" /\ op' = "timer"
  /\ UNCHANGED <<world, hook, deploys, dialog, edit, loading, faults>>

\* Mutant of TimerFires: the list is not loaded again.
TimerFiresSilently ==
  /\ op = "timer" /\ op' = "no"
  /\ loading' = FALSE
  /\ UNCHANGED <<world, hook, deploys, dialog, edit, faults>>

TimerFires ==
  /\ op = "timer" /\ op' = "no"
  /\ loading' = FALSE
  /\ Reload
  /\ UNCHANGED <<world, deploys, dialog, edit, faults>>

\* .finally reloads at once.
EditAnswered ==
  /\ edit = "answered" /\ edit' = "no"
  /\ Reload
  /\ UNCHANGED <<world, deploys, dialog, op, loading, faults>>

-----------------------------------------------------------------------------
(* The platform *)

\* A workspace has started.
Ready ==
  /\ world = "pending" /\ world' = "running"
  /\ UNCHANGED <<hook, deploys, ops, faults>>

\* A workspace is stopped after its idle timeout.
IdleStop ==
  /\ world = "running" /\ world' = "stopped"
  /\ UNCHANGED <<hook, deploys, ops, faults>>

\* The same page in another tab has deployed the default workspace.
OtherTab ==
  /\ world = "empty" /\ world' = "stopped"
  /\ UNCHANGED <<hook, deploys, ops, faults>>

\* The page is opened: the hook's first effect sends a request.
Init ==
  /\ world \in List
  /\ data = NoData /\ flying = {NewRequest} /\ running = TRUE /\ cut = FALSE
  /\ deployment = "no" /\ deploying = FALSE
  /\ dialog = "closed" /\ op = "no" /\ edit = "no" /\ loading = FALSE
  /\ faults = 0

Next ==
  \/ ServeList \/ FailList \/ Answer \/ Tick
  \/ ServeDeploy \/ FailDeploy \/ Deployed
  \/ ClickStart \/ OpenDialog \/ CloseDialog
  \/ ServeOp \/ ServeEdit \/ FailOp \/ OpAnswered \/ TimerFires \/ EditAnswered
  \/ Ready \/ IdleStop \/ OtherTab

Spec == Init /\ [][Next]_vars

\* Requests are answered, timers fire, workspaces start; nobody has to click.
FairSpec ==
  /\ Spec
  /\ WF_vars(ServeList) /\ WF_vars(Answer) /\ WF_vars(Tick)
  /\ WF_vars(ServeDeploy) /\ WF_vars(Deployed)
  /\ WF_vars(ServeOp) /\ WF_vars(OpAnswered) /\ WF_vars(TimerFires)
  /\ WF_vars(ServeEdit) /\ WF_vars(EditAnswered)
  /\ WF_vars(Ready)

-----------------------------------------------------------------------------
(* Properties *)

\* The flag is raised only while a request is under way that will lower it, as long as
\* no reload has cancelled one.
FlagIsFreed == running /\ flying = {} => cut

\* A workspace this page has started is not shown as stopped: once the page has come
\* to rest it has seen the start, though the list may have been asked for before.
StartIsSeen ==
  flying = {} /\ op = "no" /\ data = "stopped" => world = "stopped" \/ cut

\* The comment above the interval, "Continuously update the workspace list if ...
\* deployment is pending": when a workspace is pending no more, nor becomes so again,
\* the page stops to show it as pending.
PageCatchesUp == <>[](world # "pending") => <>[](data # "pending")

\* It does so if every list request is answered before the next reload.
PageCatchesUpInTime ==
  <>[](world # "pending") /\ [](~ cut) => <>[](data # "pending")

\* The spinner of a start or update request ends, also when the request fails.
LoadingEnds == loading ~> ~ loading
=============================================================================
