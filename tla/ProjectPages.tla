---------------------------- MODULE ProjectPages ----------------------------
(***************************************************************************)
(* The pages that list what a project holds: Services.jsx and Jobs.jsx,    *)
(* with the hook of services/api-hooks.js, and Files.jsx, which loads its  *)
(* list itself.  Clicks, answers and effects are callbacks of one thread.  *)
(*                                                                         *)
(* A place is what a list is asked for: a project and, of files, a folder. *)
(* A list is described by the place it belongs to and by the number of     *)
(* changes of that place the server had seen when it made the list.        *)
(* Dialogs that only show something are left out, and so is whatever the   *)
(* pages of other kinds do: to this page it is somebody else's change.     *)
(* A change a page asks for is followed by a load of the list, except an   *)
(* action of a service: what it did shows when the list is loaded next.    *)
(***************************************************************************)
EXTENDS Integers, Sequences, FiniteSets, SequencesExt

CONSTANTS
  Places,      \* what may be chosen
  NoPlace,     \* before the projects are loaded: activeProject is {}
  Kinds,       \* the pages that may be opened
  MaxClicks,   \* bound: clicks that ask something of the server
  MaxChanges,  \* bound: changes others make
  MaxFaults    \* bound: list requests that fail

ASSUME PagesAssumption ==
  /\ NoPlace \notin Places
  /\ Kinds \subseteq {"services", "jobs", "files"}
  /\ MaxClicks \in Nat /\ MaxChanges \in Nat /\ MaxFaults \in Nat

VARIABLES
  kind,      \* the page that is open
  place,     \* activeProject, and the folder of the route
  shown,     \* the list on the page
  failed,    \* the last list request failed (history)
  requests,  \* list requests under way whose answer counts, oldest first
  dialog,    \* the dialog of AppDialogServiceProvider
  service,   \* whose actions it offers: place, and is their page still open
  uploading, \* the dialog of Files is open
  ops,       \* what the page asked for, other than lists
  changes,   \* changes the server made, by place
  acked,     \* the last own change the list should have (history)
  acted,     \* the last action the page has an answer for (history)
  calm,      \* nothing was under way whenever the user clicked (history)
  clicks, others, faults

list == <<shown, failed, requests>>
dialogs == <<dialog, service, uploading>>
known == <<acked, acted>>
bounds == <<clicks, others, faults>>
vars == <<kind, place, list, dialogs, ops, changes, known, calm, bounds>>

Unread == -1
NoService == [of |-> NoPlace, here |-> FALSE]
Free == dialog = "none" /\ ~uploading
Hook == kind \in {"services", "jobs"}

-----------------------------------------------------------------------------
\* Loading the list of p.  The hook cancels the request before (isCanceled);
\* reloadFiles does not.  Without a project the call throws at once.

\* For comparison: the request before is not cancelled.
LoadWithoutCancel(p) ==
  requests' = IF p = NoPlace THEN requests
              ELSE Append(requests, [of |-> p, upTo |-> Unread])

LoadByHook(p) ==
  requests' = IF p = NoPlace THEN << >> ELSE <<[of |-> p, upTo |-> Unread]>>

ReloadFiles(p) ==
  requests' = IF p = NoPlace THEN requests
              ELSE Append(requests, [of |-> p, upTo |-> Unread])

\* The hook loads for the page as it is by then; reloadFiles is called in the
\* closure it was clicked in.
Load(now, clicked) == IF Hook THEN LoadByHook(now) ELSE ReloadFiles(clicked)

\* What the page learns: change n of p; a list of p that was asked for now has
\* every action answered before.
Later(f, p, n) == IF p \in Places /\ n > f[p] THEN [f EXCEPT ![p] = n] ELSE f
Await(f, p) == Later(f, p, acted[p])

Quiet == requests = << >> /\ ops = {}

Click ==
  /\ clicks < MaxClicks /\ clicks' = clicks + 1
  /\ calm' = (calm /\ Quiet)
  /\ UNCHANGED <<others, faults>>

-----------------------------------------------------------------------------
\* The user.

\* Another project or folder is chosen: the effects of useApiHook and of
\* Files run again.
SwitchTo(p) ==
  /\ Free /\ p # place
  /\ Click
  /\ place' = p /\ Load(p, p) /\ acked' = Await(acked, p)
  /\ UNCHANGED <<kind, shown, failed, dialogs, ops, changes, acted>>

Reload ==
  /\ Free
  /\ Click
  /\ Load(place, place) /\ acked' = Await(acked, place)
  /\ UNCHANGED <<kind, place, shown, failed, dialogs, ops, changes, acted>>

\* Another page is opened: a new component, with an empty list.  Lists for the
\* old one are dropped (isCanceled, componentIsMounted), its changes go on.
Open(k) ==
  /\ Free /\ k # kind
  /\ clicks < MaxClicks /\ clicks' = clicks + 1 /\ calm' = TRUE
  /\ kind' = k
  /\ shown' = [of |-> NoPlace, upTo |-> 0] /\ failed' = FALSE
  /\ requests' = IF place = NoPlace THEN << >>
                 ELSE <<[of |-> place, upTo |-> Unread]>>
  /\ ops' = {[o EXCEPT !.here = FALSE] : o \in ops}
  /\ acked' = [p \in Places |-> 0] /\ acted' = [p \in Places |-> 0]
  /\ UNCHANGED <<place, dialogs, changes, others, faults>>

\* The deploy dialog of services and jobs, Delete Many of jobs and files, the
\* upload dialog of files.
OpenDialog(d) ==
  /\ Free
  /\ \/ d = "deploy" /\ kind # "files"
     \/ d = "confirm" /\ kind # "services"
  /\ dialog' = d
  /\ UNCHANGED <<kind, place, list, service, uploading, ops, changes, known,
                 calm, bounds>>

OpenUpload ==
  /\ Free /\ kind = "files" /\ uploading' = TRUE
  /\ UNCHANGED <<kind, place, list, dialog, service, ops, changes, known, calm,
                 bounds>>

Hide == dialog' = "none" /\ service' = NoService

Cancel ==
  /\ dialog # "none" /\ Hide
  /\ UNCHANGED <<kind, place, list, uploading, ops, changes, known, calm,
                 bounds>>

\* The upload dialog is closed, whether anything was uploaded or not.
CloseUpload ==
  /\ uploading /\ dialog = "none" /\ uploading' = FALSE
  /\ Click /\ ReloadFiles(place)
  /\ UNCHANGED <<kind, place, shown, failed, dialog, service, ops, changes,
                 known>>

SendTo(p, here, what) ==
  ops' = ops \cup {[what |-> what, of |-> p, here |-> here,
                    at |-> Unread, n |-> clicks]}
Send(what) == SendTo(place, TRUE, what)

\* A row is deleted.  The request goes to the project chosen now.
DeleteRow ==
  /\ Free /\ shown.of # NoPlace
  /\ Click /\ Send("delete")
  /\ UNCHANGED <<kind, place, list, dialogs, changes, known>>

\* The actions of a row are asked for; they may arrive on another page.
ListActions ==
  /\ Free /\ kind = "services" /\ shown.of # NoPlace
  /\ Click /\ Send("look")
  /\ UNCHANGED <<kind, place, list, dialogs, changes, known>>

\* The buttons of ResourceActionsDialog stay enabled, and it stays open; they
\* run in the closure of the row that was clicked.  Actions with instructions
\* open a tab and change nothing.
Execute ==
  /\ dialog = "actions"
  /\ Click /\ SendTo(service.of, service.here, "action")
  /\ UNCHANGED <<kind, place, list, dialogs, changes, known>>

\* DEPLOY stays enabled while a deployment is under way.
Deploy ==
  /\ dialog = "deploy" /\ place # NoPlace
  /\ Click /\ Send("deploy")
  /\ UNCHANGED <<kind, place, list, dialogs, changes, known>>

\* DELETE of the dialog is disabled once it was clicked.
DeleteMany ==
  /\ dialog = "confirm" /\ place # NoPlace
  /\ Click /\ Send("deleteMany")
  /\ dialog' = "deleting"
  /\ UNCHANGED <<kind, place, list, service, uploading, changes, known>>

Upload ==
  /\ uploading /\ dialog = "none" /\ place # NoPlace
  /\ Click /\ Send("upload")
  /\ UNCHANGED <<kind, place, list, dialogs, changes, known>>

-----------------------------------------------------------------------------
\* External: the server.

ServeList(i) ==
  /\ requests[i].upTo = Unread
  /\ requests' = [requests EXCEPT ![i].upTo = changes[requests[i].of]]
  /\ UNCHANGED <<kind, place, shown, failed, dialogs, ops, changes, known,
                 calm, bounds>>

ServeChange(o) ==
  /\ o.at = Unread /\ o.what # "look"
  /\ changes' = [changes EXCEPT ![o.of] = @ + 1]
  /\ ops' = (ops \ {o}) \cup {[o EXCEPT !.at = changes'[o.of]]}
  /\ UNCHANGED <<kind, place, list, dialogs, known, calm, bounds>>

OthersChange(p) ==
  /\ others < MaxChanges /\ others' = others + 1
  /\ changes' = [changes EXCEPT ![p] = @ + 1]
  /\ UNCHANGED <<kind, place, list, dialogs, ops, known, calm, clicks, faults>>

-----------------------------------------------------------------------------
\* Answers.

Answer(i) ==
  /\ requests[i].upTo # Unread
  /\ shown' = requests[i] /\ failed' = FALSE
  /\ requests' = RemoveAt(requests, i)
  /\ UNCHANGED <<kind, place, dialogs, ops, changes, known, calm, bounds>>

\* A list request fails: the hooks show no rows, Files what it had.
FailList(i) ==
  /\ faults < MaxFaults /\ faults' = faults + 1
  /\ shown' = IF Hook THEN [of |-> requests[i].of, upTo |-> 0] ELSE shown
  /\ failed' = TRUE
  /\ requests' = RemoveAt(requests, i)
  /\ UNCHANGED <<kind, place, dialogs, ops, changes, known, calm, clicks,
                 others>>

\* The actions of a service are shown, instead of the dialog that is open.
ShowActions(o) ==
  /\ o.what = "look" /\ ops' = ops \ {o}
  /\ dialog' = "actions" /\ service' = [of |-> o.of, here |-> o.here]
  /\ UNCHANGED <<kind, place, list, uploading, changes, known, calm, bounds>>

\* onClose of a dialog closes whichever dialog is open.  The upload dialog is
\* not one of AppDialogServiceProvider.
CloseDialog(o) ==
  IF o.what \in {"deploy", "deleteMany"} THEN Hide
  ELSE UNCHANGED <<dialog, service>>

\* The page loads its list: after every change but an upload and an action.
Told(o) == o.here /\ o.what \notin {"upload", "action"}
Note(o) ==
  /\ acked' = IF Told(o) THEN Await(Later(acked, o.of, o.at), place) ELSE acked
  /\ acted' = IF o.here /\ o.what = "action" THEN Later(acted, o.of, o.at)
              ELSE acted

\* For comparison: the list is not loaded again after a deletion.
AcknowledgeWithoutReload(o) ==
  /\ o.at # Unread
  /\ ops' = ops \ {o} /\ Note(o) /\ CloseDialog(o)
  /\ IF Told(o) /\ o.what # "delete" THEN Load(place, o.of)
     ELSE requests' = requests
  /\ UNCHANGED <<kind, place, shown, failed, uploading, changes, calm, bounds>>

\* The server has done it, and says so.
Acknowledge(o) ==
  /\ o.at # Unread
  /\ ops' = ops \ {o} /\ Note(o) /\ CloseDialog(o)
  /\ IF Told(o) THEN Load(place, o.of) ELSE requests' = requests
  /\ UNCHANGED <<kind, place, shown, failed, uploading, changes, calm, bounds>>

\* The server refuses, or its answer is lost: only Delete Many closes its
\* dialog.
Fail(o) ==
  /\ ops' = ops \ {o}
  /\ IF o.what = "deleteMany" THEN Hide ELSE UNCHANGED <<dialog, service>>
  /\ UNCHANGED <<kind, place, list, uploading, changes, known, calm, bounds>>

-----------------------------------------------------------------------------
Init ==
  /\ kind \in Kinds /\ place = NoPlace
  /\ shown = [of |-> NoPlace, upTo |-> 0] /\ failed = FALSE
  /\ requests = << >> /\ ops = {}
  /\ dialog = "none" /\ service = NoService /\ uploading = FALSE
  /\ changes = [p \in Places |-> 0]
  /\ acked = [p \in Places |-> 0] /\ acted = [p \in Places |-> 0]
  /\ calm = TRUE /\ clicks = 0 /\ others = 0 /\ faults = 0

UserStep ==
  \/ \E p \in Places : SwitchTo(p)
  \/ \E k \in Kinds : Open(k)
  \/ \E d \in {"deploy", "confirm"} : OpenDialog(d)
  \/ Reload \/ Cancel \/ OpenUpload \/ CloseUpload
  \/ DeleteRow \/ ListActions \/ Execute \/ Deploy \/ DeleteMany \/ Upload

ListStep == \E i \in DOMAIN requests : ServeList(i) \/ Answer(i)
ChangeStep == \E o \in ops : ServeChange(o) \/ Acknowledge(o)

Next ==
  \/ UserStep \/ ListStep \/ ChangeStep
  \/ \E i \in DOMAIN requests : FailList(i)
  \/ \E o \in ops : ShowActions(o) \/ Fail(o)
  \/ \E p \in Places : OthersChange(p)

Spec == Init /\ [][Next]_vars

\* A request the server does not answer ends by ApiClient.timeout.
FairSpec == Spec /\ WF_vars(ListStep)

-----------------------------------------------------------------------------
Lists == [of : Places \cup {NoPlace}, upTo : Nat \cup {Unread}]
Asked == {"delete", "deploy", "deleteMany", "upload", "look", "action"}

TypeOK ==
  /\ kind \in Kinds /\ place \in Places \cup {NoPlace}
  /\ shown \in Lists /\ shown.upTo # Unread
  /\ failed \in BOOLEAN /\ calm \in BOOLEAN
  /\ requests \in Seq([of : Places, upTo : Nat \cup {Unread}])
  /\ Hook => Len(requests) <= 1
  /\ dialog \in {"none", "deploy", "confirm", "deleting", "actions"}
  /\ service \in [of : Places, here : BOOLEAN] \cup {NoService}
  /\ dialog = "actions" <=> service # NoService
  /\ uploading \in BOOLEAN /\ (uploading => kind = "files")
  /\ ops \subseteq [what : Asked, of : Places, here : BOOLEAN,
                    at : Nat \cup {Unread}, n : Nat]
  /\ changes \in [Places -> Nat]
  /\ acked \in [Places -> Nat] /\ acted \in [Places -> Nat]

(***************************************************************************)
(* A page at rest is right: services and jobs show the place that is       *)
(* chosen, and no list older than a change of their own they know of; of   *)
(* the actions of a service those the page knew of when it last asked for  *)
(* the list.  Files does too for a user who never clicks while something   *)
(* is under way and as long as its last request did not fail.              *)
(***************************************************************************)
PageIsRight ==
  requests = << >> =>
    /\ Hook => shown.of = place
    /\ (Hook \/ calm) /\ ~failed =>
         shown.of = place /\ (place # NoPlace => shown.upTo >= acked[place])

(***************************************************************************)
(* The list of services or jobs never goes back: a list that replaces one  *)
(* of the same place was made later.                                       *)
(***************************************************************************)
NeverBack ==
  [][Hook /\ kind' = kind /\ ~failed /\ ~failed' /\ shown'.of = shown.of
       => shown'.upTo >= shown.upTo]_vars

(***************************************************************************)
(* A change of its own that a services or jobs page knows of is shown in   *)
(* the end, unless loading fails.                                          *)
(***************************************************************************)
Lacks == Hook /\ place # NoPlace /\ shown.upTo < acked[place]
ChangeShows == [](Lacks => <>(~Lacks \/ failed))
=============================================================================
