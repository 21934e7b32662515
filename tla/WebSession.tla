----------------------------- MODULE WebSession -----------------------------
(***************************************************************************)
(* The session of the web app: the effects of App.jsx, the global state of *)
(* store.jsx, Login.jsx, and what chooses, adds and deletes a project.     *)
(* Clicks, answers and effects are callbacks of one thread; an effect runs *)
(* with the change it depends on.                                          *)
(*                                                                         *)
(* One user, one tab.  Whether the user is an administrator decides only   *)
(* which pages the drawer offers and is left out.                          *)
(***************************************************************************)
EXTENDS Integers, Sequences, FiniteSets, SequencesExt

CONSTANTS
  Projects,   \* all there may be
  Own,        \* the user's own project, with the user's id
  None,
  MaxEvents   \* bound: logins, reloads, changes and faults together

ASSUME SessionAssumption ==
  /\ Own \in Projects /\ None \notin Projects
  /\ MaxEvents \in Nat

VARIABLES
  session,   \* the server takes the session cookie
  hint,      \* the cookie ctxy_authorized_user, from which the store starts
  world,     \* the projects the user may see
  auth,      \* isAuthenticated
  user,      \* the user is known
  checks,    \* requestUserInfo under way, oldest first
  login,     \* requestToken of the login page
  leaving,   \* log out was clicked
  projects, active, stored,   \* listed, chosen, and chosen for next time
  loads,     \* loadProjects under way, oldest first
  dialog,    \* adding or deleting a project
  ops,       \* additions and deletions under way
  broken,    \* an effect has thrown: React shows nothing any more
  entered,   \* a login was answered, and nothing happened to it (history)
  overlap,   \* two checks were under way at once (history)
  early,     \* projects were loaded before the user was known (history)
  tidy,      \* no two loads were under way, and none failed (history)
  due,       \* the last changes of projects, if they were answered (history)
  count      \* of logins, reloads, changes and faults, for the bound

account == <<auth, user, checks>>
choice == <<projects, active, stored, loads>>
server == <<session, hint, world>>
editing == <<dialog, ops>>
history == <<entered, overlap, early, tidy, due>>
vars == <<server, account, login, leaving, choice, editing, broken, history,
          count>>

Unread == "unread"
Event == count < MaxEvents /\ count' = count + 1

-----------------------------------------------------------------------------
\* Effects.

NewCheck == [stage |-> "me", got |-> Unread]

\* For comparison: it is sent whenever one of the two changes.
CheckAlways(nowAuth, nowUser, before) == Append(before, NewCheck)

\* requestUserInfo is sent unless the app is logged in and knows the user.
CheckAgain(nowAuth, nowUser, before) ==
  IF nowAuth /\ nowUser THEN before ELSE Append(before, NewCheck)

Check(now) == checks' = now /\ overlap' = (overlap \/ Len(now) > 1)

\* loadProjects: the projects, the user's own first, by the user's id of the
\* render that loads, which may be none.
NewLoad(named) == [got |-> {Unread}, named |-> named]
Load(named) ==
  /\ loads' = Append(loads, NewLoad(named))
  /\ tidy' = (tidy /\ loads = << >>)

\* For comparison: the choice by default is not remembered.
ChooseUnstored(listed) ==
  /\ projects' = listed
  /\ IF active # None \/ listed = {} THEN UNCHANGED <<active, stored, broken>>
     ELSE IF stored \in listed
       THEN active' = stored /\ UNCHANGED <<stored, broken>>
     ELSE IF ~user
       THEN broken' = TRUE /\ stored' = None /\ UNCHANGED active
     ELSE /\ active' = IF Own \in listed THEN Own ELSE None
          /\ stored' = None /\ UNCHANGED broken

\* A project is chosen when none is: the one of the last visit if it is
\* listed, the user's own otherwise, or none if that is not listed either.
\* Without a user, user.id throws.
Choose(listed) ==
  /\ projects' = listed
  /\ IF active # None \/ listed = {} THEN UNCHANGED <<active, stored, broken>>
     ELSE IF stored \in listed
       THEN active' = stored /\ UNCHANGED <<stored, broken>>
     ELSE IF ~user
       THEN broken' = TRUE /\ stored' = None /\ UNCHANGED active
     ELSE LET own == IF Own \in listed THEN Own ELSE None
          IN  active' = own /\ stored' = own /\ UNCHANGED broken

-----------------------------------------------------------------------------
\* The page is loaded, for the first time or again.
Start(cookie) ==
  /\ auth' = cookie /\ user' = FALSE
  /\ checks' = <<NewCheck>> /\ loads' = << >>
  /\ projects' = {} /\ active' = None
  /\ login' = "no" /\ leaving' = "no" /\ dialog' = None /\ ops' = {}
  /\ broken' = FALSE /\ entered' = FALSE /\ overlap' = FALSE
  /\ early' = FALSE /\ tidy' = TRUE
  /\ due' = [add |-> {}, delete |-> {}]

ReloadPage ==
  /\ Event
  /\ Start(hint)
  /\ UNCHANGED <<server, stored>>

\* Log out: the page is loaded again whether the server agreed or not.
Logout ==
  /\ auth /\ leaving = "no" /\ dialog = None /\ ~broken
  /\ leaving' = "asked"
  /\ UNCHANGED <<server, account, login, choice, editing, broken, history,
                 count>>

Leave ==
  /\ leaving = "asked" /\ Event
  /\ \/ session' = FALSE /\ hint' = FALSE
     \/ UNCHANGED <<session, hint>>
  /\ Start(hint')
  /\ UNCHANGED <<world, stored>>

-----------------------------------------------------------------------------
\* Logging in.  The login page shows only while the app is not logged in.

SubmitLogin ==
  /\ ~auth /\ login = "no" /\ dialog = None /\ ~broken /\ Event
  /\ login' = "sent"
  /\ UNCHANGED <<server, account, leaving, choice, editing, broken, history>>

ServeLogin ==
  /\ login = "sent"
  /\ \/ login' = "granted" /\ session' = TRUE /\ hint' = TRUE
     \/ login' = "refused" /\ UNCHANGED <<session, hint>>
  /\ UNCHANGED <<world, account, leaving, choice, editing, broken, history,
                 count>>

AnswerLogin ==
  /\ login \in {"granted", "refused"} /\ ~broken
  /\ login' = "no"
  /\ IF login = "granted"
     THEN /\ auth' = TRUE
          /\ IF auth THEN UNCHANGED <<checks, overlap>>
             ELSE Check(CheckAgain(TRUE, user, checks))
          /\ entered' = session
     ELSE UNCHANGED <<auth, checks, entered, overlap>>
  /\ UNCHANGED <<server, user, leaving, choice, editing, broken, early, tidy,
                 due, count>>

LoseLogin ==
  /\ login # "no" /\ Event
  /\ login' = "no"
  /\ UNCHANGED <<server, account, leaving, choice, editing, broken, history>>

-----------------------------------------------------------------------------
\* Who is logged in.

ServeCheck(i) ==
  /\ checks[i].got = Unread
  /\ checks' = [checks EXCEPT ![i].got = IF session THEN "user" ELSE "error"]
  /\ UNCHANGED <<server, auth, user, login, leaving, choice, editing, broken,
                 history, count>>

\* getMyUser was answered; verifyAccess is asked next.
AnswerMe(i) ==
  /\ checks[i].stage = "me" /\ checks[i].got = "user" /\ ~broken
  /\ checks' = [checks EXCEPT ![i].stage = "verify"]
  /\ UNCHANGED <<server, auth, user, login, leaving, choice, editing, broken,
                 history, count>>

\* For comparison: whoever has a user is taken to be logged in.
AnswerVerifyUserOnly(i) ==
  /\ checks[i].stage = "verify" /\ ~broken
  /\ user' = TRUE /\ UNCHANGED auth
  /\ Check(CheckAgain(TRUE, TRUE, RemoveAt(checks, i)))
  /\ Load(TRUE)
  /\ UNCHANGED <<server, login, leaving, projects, active, stored, editing,
                 broken, entered, early, due, count>>

\* verifyAccess was answered, or failed: the user is set, as a new object.
AnswerVerify(i) ==
  /\ checks[i].stage = "verify" /\ ~broken
  /\ auth' = TRUE /\ user' = TRUE
  /\ Check(CheckAgain(TRUE, TRUE, RemoveAt(checks, i)))
  /\ Load(TRUE)
  /\ UNCHANGED <<server, login, leaving, projects, active, stored, editing,
                 broken, entered, early, due, count>>

\* The user is forgotten.  If that is news the effect of Choose runs again,
\* which throws when projects are listed and none of them could be chosen.
\* When a user becomes known it changes nothing: what could be was.
Forget ==
  /\ auth' = FALSE /\ user' = FALSE
  /\ broken' = (user /\ active = None /\ projects # {})

\* For comparison: the check is not repeated when it has changed anything.
FailCheckOnce(i) ==
  /\ checks[i].stage = "me" /\ ~broken
  /\ \/ checks[i].got = "error" /\ UNCHANGED <<count, entered>>
     \/ Event /\ entered' = FALSE
  /\ Forget /\ checks' = RemoveAt(checks, i)
  /\ UNCHANGED <<server, login, leaving, choice, editing, overlap, early, tidy,
                 due>>

\* getMyUser failed, because of the session or of the network: nobody is
\* logged in.  The effect runs again if that is news.
FailCheck(i) ==
  /\ checks[i].stage = "me" /\ ~broken
  /\ \/ checks[i].got = "error" /\ UNCHANGED <<count, entered>>
     \/ Event /\ entered' = FALSE
  /\ Forget
  /\ LET rest == RemoveAt(checks, i)
     IN  Check(IF auth \/ user THEN CheckAgain(FALSE, FALSE, rest) ELSE rest)
  /\ UNCHANGED <<server, login, leaving, choice, editing, early, tidy, due>>

-----------------------------------------------------------------------------
\* Projects.

\* listProjects and getProject of the user's id, answered together.  What is
\* answered to getProject('') is not known: the projects alone, or an error.
ServeLoad(i) ==
  /\ loads[i].got = {Unread}
  /\ \E got \in {world, {}} :
       /\ ~session => got = {}
       /\ session /\ loads[i].named => got = (IF Own \in world THEN world ELSE {})
       /\ loads' = [loads EXCEPT ![i].got = got]
  /\ UNCHANGED <<server, account, login, leaving, projects, active, stored,
                 editing, broken, history, count>>

AnswerLoad(i) ==
  /\ loads[i].got # {Unread} /\ ~broken
  /\ Choose(loads[i].got)
  /\ loads' = RemoveAt(loads, i)
  /\ tidy' = (tidy /\ loads[i].got # {})
  /\ UNCHANGED <<server, account, login, leaving, editing, entered, overlap,
                 early, due, count>>

\* listProjects or getProject failed: no projects.
FailLoad(i) ==
  /\ ~broken /\ Event
  /\ Choose({})
  /\ loads' = RemoveAt(loads, i) /\ tidy' = FALSE
  /\ UNCHANGED <<server, account, login, leaving, editing, entered, overlap,
                 early, due>>

\* ProjectSelector, or a card of the projects page.
SelectProject(p) ==
  /\ p \in projects /\ auth /\ dialog = None /\ ~broken
  /\ active' = p /\ stored' = p
  /\ UNCHANGED <<server, account, login, leaving, projects, loads, editing,
                 broken, history, count>>

\* The dialogs of Projects.jsx, which the app shows as soon as it takes the
\* user to be logged in; loadProjects is the one of the render that opened it.
\* The user's own project is a technical one, which the system creates: its
\* card has no DELETE.
OpenDialog(what, p) ==
  /\ auth /\ dialog = None /\ ~broken
  /\ IF what = "delete" THEN p \in projects \ {Own} ELSE p = None
  /\ dialog' = [what |-> what, p |-> p, named |-> user, sent |-> FALSE]
  /\ UNCHANGED <<server, account, login, leaving, choice, ops, broken, history,
                 count>>

Cancel ==
  /\ dialog # None /\ ~broken /\ dialog' = None
  /\ UNCHANGED <<server, account, login, leaving, choice, ops, broken, history,
                 count>>

\* ADD stays enabled, DELETE does not.
ChangeProjects(p) ==
  /\ dialog # None /\ ~broken /\ p # Own /\ Event
  /\ dialog.what = "delete" => p = dialog.p /\ ~dialog.sent
  /\ dialog' = [dialog EXCEPT !.sent = TRUE]
  /\ LET of == {o \in ops : o.p = p}
     IN  ops' = (ops \ of) \cup {[o EXCEPT !.alone = FALSE] : o \in of}
           \cup {[what |-> dialog.what, p |-> p, named |-> dialog.named,
                  done |-> FALSE, alone |-> of = {}, n |-> count]}
  /\ due' = [add |-> due.add \ {p}, delete |-> due.delete \ {p}]
  /\ UNCHANGED <<server, account, login, leaving, choice, broken, entered,
                 overlap, early, tidy>>

ServeChange(o) ==
  /\ session /\ ~o.done
  /\ ops' = (ops \ {o}) \cup {[o EXCEPT !.done = TRUE]}
  /\ world' = IF o.what = "add" THEN world \cup {o.p} ELSE world \ {o.p}
  /\ UNCHANGED <<session, hint, account, login, leaving, choice, dialog, broken,
                 history, count>>

Settle(o) ==
  due' = IF o.alone THEN [due EXCEPT ![o.what] = @ \cup {o.p}] ELSE due

\* For comparison: the list is not loaded again.
AnswerChangeOnly(o) ==
  /\ o.done /\ ~broken
  /\ ops' = ops \ {o} /\ dialog' = None /\ Settle(o)
  /\ UNCHANGED <<server, account, login, leaving, choice, broken, entered,
                 overlap, early, tidy, count>>

\* The change is acknowledged: the projects are loaded again, and whichever
\* dialog is open is closed.
AnswerChange(o) ==
  /\ o.done /\ ~broken
  /\ ops' = ops \ {o} /\ dialog' = None /\ Settle(o)
  /\ Load(o.named) /\ early' = (early \/ ~user)
  /\ UNCHANGED <<server, account, login, leaving, projects, active, stored,
                 broken, entered, overlap, count>>

\* It is refused, which closes the dialogs if it was a deletion, or the answer
\* is lost: then there is no err.body, the handler throws, and they stay.
FailChange(o) ==
  /\ ~broken
  /\ ops' = ops \ {o}
  /\ \/ dialog' = dialog
     \/ o.what = "delete" /\ dialog' = None
  /\ UNCHANGED <<server, account, login, leaving, choice, broken, history,
                 count>>

\* External: the server ends the session.
Expire ==
  /\ session /\ Event
  /\ session' = FALSE /\ hint' \in {hint, FALSE} /\ entered' = FALSE
  /\ UNCHANGED <<world, account, login, leaving, choice, editing, broken,
                 overlap, early, tidy, due>>

-----------------------------------------------------------------------------
Init ==
  /\ session \in BOOLEAN /\ hint \in BOOLEAN /\ (session => hint)
  /\ world \in SUBSET Projects
  /\ auth = hint /\ user = FALSE /\ checks = <<NewCheck>>
  /\ login = "no" /\ leaving = "no"
  /\ projects = {} /\ active = None /\ stored \in Projects \cup {None}
  /\ loads = << >> /\ dialog = None /\ ops = {}
  /\ broken = FALSE /\ entered = FALSE /\ overlap = FALSE
  /\ early = FALSE /\ tidy = TRUE
  /\ due = [add |-> {}, delete |-> {}]
  /\ count = 0

LoginStep == ServeLogin \/ AnswerLogin
CheckStep ==
  \E i \in DOMAIN checks :
    \/ ServeCheck(i) \/ AnswerMe(i) \/ AnswerVerify(i)
    \/ checks[i].got = "error" /\ FailCheck(i)
LoadStep == \E i \in DOMAIN loads : ServeLoad(i) \/ AnswerLoad(i)

Next ==
  \/ ReloadPage \/ Logout \/ Leave \/ SubmitLogin \/ LoginStep \/ LoseLogin
  \/ CheckStep \/ \E i \in DOMAIN checks : FailCheck(i)
  \/ LoadStep \/ \E i \in DOMAIN loads : FailLoad(i)
  \/ \E p \in Projects : SelectProject(p)
  \/ \E what \in {"add", "delete"}, p \in Projects \cup {None} :
       OpenDialog(what, p)
  \/ Cancel \/ \E p \in Projects : ChangeProjects(p)
  \/ \E o \in ops : ServeChange(o) \/ AnswerChange(o) \/ FailChange(o)
  \/ Expire

Spec == Init /\ [][Next]_vars

\* Requests the server does not answer end by ApiClient.timeout.
FairSpec == Spec /\ WF_vars(CheckStep) /\ WF_vars(LoadStep)

-----------------------------------------------------------------------------
TypeOK ==
  /\ {session, hint, auth, user, broken, entered, overlap, early, tidy}
       \subseteq BOOLEAN
  /\ world \subseteq Projects /\ projects \subseteq Projects
  /\ active \in Projects \cup {None} /\ stored \in Projects \cup {None}
  /\ checks \in
       Seq([stage : {"me", "verify"}, got : {Unread, "user", "error"}])
  /\ login \in {"no", "sent", "granted", "refused"}
  /\ leaving \in {"no", "asked"}
  /\ user => auth

In == auth /\ user

(***************************************************************************)
(* A user who has logged in gets in, whatever checks from before the login *)
(* are still to fail, unless a request fails after it, the session ends,   *)
(* or the user leaves.                                                     *)
(***************************************************************************)
LoginGetsIn == entered ~> (In \/ ~entered \/ broken)

(***************************************************************************)
(* The app breaks only if two checks have overlapped, which takes a login  *)
(* while a check is under way: the one that succeeds loads the projects,   *)
(* the one that fails forgets the user; or if projects were loaded before  *)
(* the user was known, because one was added by then.                      *)
(***************************************************************************)
BreaksOnlyUnknown == broken => overlap \/ early

(***************************************************************************)
(* The project that is chosen is the one the next visit will start with,   *)
(* and whenever the user's own project is listed one is chosen.            *)
(***************************************************************************)
ProjectIsChosen ==
  /\ active # None => stored = active
  /\ Own \in projects => active # None \/ broken

(***************************************************************************)
(* Once the projects are loaded, those the user has added are listed and   *)
(* those the user has deleted are not, as long as loads did not overlap or *)
(* fail.  What a further change that is under way, or whose answer was     *)
(* lost, has made of its project is left open, and so is what two changes  *)
(* of one project that were under way at once have.                        *)
(***************************************************************************)
ChangesAreListed ==
  loads = << >> /\ tidy /\ ~broken =>
    due.add \subseteq projects /\ due.delete \cap projects = {}
=============================================================================
