-------------------------- MODULE WebSessionProofs --------------------------
(***************************************************************************)
(* Proofs about WebSession for any projects, and any number of logins,     *)
(* reloads, changes and faults.                                            *)
(*                                                                         *)
(* As long as checks have not overlapped there is one at a time, and none  *)
(* while the user is known; if nothing was loaded before that, whatever    *)
(* needs the user has one.                                                 *)
(* And as long as loads have neither overlapped nor failed, the list       *)
(* follows the changes that were answered.                                 *)
(***************************************************************************)
EXTENDS WebSession, TLAPS

CheckSet == [stage : {"me", "verify"}, got : {Unread, "user", "error"}]
LoadSet == [got : {{Unread}} \cup SUBSET Projects, named : BOOLEAN]
DialogSet == [what : {"add", "delete"}, p : Projects \cup {None},
              named : BOOLEAN, sent : BOOLEAN]
ChangeSet == [what : {"add", "delete"}, p : Projects, named : BOOLEAN,
              done : BOOLEAN, alone : BOOLEAN, n : Nat]

\* What the user is changing.
Editing ==
  dialog \in DialogSet \cup {None} /\ ops \subseteq ChangeSet /\ count \in Nat

Types ==
  /\ TypeOK
  /\ loads \in Seq(LoadSet)
  /\ Editing

Alone ==
  ~overlap =>
    /\ Len(checks) <= 1 /\ (user => checks = << >>)
    /\ ~early => (loads # << >> => user) /\ ~broken

IInv == Types /\ Alone /\ ProjectIsChosen

USE DEF account, choice, server, editing, history

-----------------------------------------------------------------------------
\* SequencesExt.RemoveAt leaves one element less, of the same type.
LEMMA Shortened ==
  ASSUME NEW S, NEW s \in Seq(S), NEW i \in DOMAIN s
  PROVE  /\ RemoveAt(s, i) \in Seq(S) /\ Len(RemoveAt(s, i)) = Len(s) - 1
         /\ Len(s) \in Nat /\ i \in 1 .. Len(s) /\ s[i] \in S
         /\ Len(s) <= 1 => RemoveAt(s, i) = << >>
<1>1. i \in 1 .. Len(s) /\ Len(s) \in Nat
  OBVIOUS
<1> DEFINE front == SubSeq(s, 1, i - 1)
<1> DEFINE back == SubSeq(s, i + 1, Len(s))
<1>2. front \in Seq(S) /\ Len(front) = i - 1
  BY <1>1
<1>3. back \in Seq(S) /\ Len(back) = Len(s) - i
  BY <1>1
<1>4. RemoveAt(s, i) = front \o back
  BY DEF RemoveAt
<1> HIDE DEF front, back
<1>5. front \o back \in Seq(S) /\ Len(front \o back) = Len(front) + Len(back)
  BY <1>2, <1>3, SMTT(30)
<1> QED BY <1>1, <1>2, <1>3, <1>4, <1>5, SMTT(30)

\* A check of the session and a load of the projects as they start.
LEMMA NewOnes ==
  /\ NewCheck \in CheckSet /\ <<NewCheck>> \in Seq(CheckSet)
  /\ Len(<<NewCheck>>) = 1
  /\ \A named \in BOOLEAN : NewLoad(named) \in LoadSet
  /\ << >> \in Seq(LoadSet) /\ Len(<< >>) = 0
BY DEF NewCheck, NewLoad, CheckSet, LoadSet

\* What is overlap, and what is not.
LEMMA Overlaps ==
  ASSUME NEW now, Check(now), overlap \in BOOLEAN
  PROVE  /\ checks' = now /\ overlap' \in BOOLEAN
         /\ ~overlap' => ~overlap /\ ~(Len(now) > 1)
<1>1. overlap' = (overlap \/ Len(now) > 1) /\ checks' = now
  BY DEF Check
<1>2. overlap' \in BOOLEAN
  BY <1>1, Zenon
<1>3. ~overlap' => ~overlap /\ ~(Len(now) > 1)
  BY <1>1, Zenon
<1> QED BY <1>1, <1>2, <1>3

\* The check is asked for again, or it is not.
LEMMA AgainTypes ==
  ASSUME NEW a, NEW u, NEW s \in Seq(CheckSet)
  PROVE  /\ CheckAgain(a, u, s) \in Seq(CheckSet)
         /\ Len(CheckAgain(a, u, s)) \in Nat
         /\ a /\ u => CheckAgain(a, u, s) = s
BY NewOnes DEF CheckAgain

\* Types after a step, from the type of each variable.
LEMMA TypesKept ==
  ASSUME Types,
         session' \in BOOLEAN, hint' \in BOOLEAN, auth' \in BOOLEAN,
         user' \in BOOLEAN, broken' \in BOOLEAN, entered' \in BOOLEAN,
         overlap' \in BOOLEAN, early' \in BOOLEAN, tidy' \in BOOLEAN,
         user' => auth',
         world' \subseteq Projects, projects' \subseteq Projects,
         active' \in Projects \cup {None}, stored' \in Projects \cup {None},
         checks' \in Seq(CheckSet),
         login' \in {"no", "sent", "granted", "refused"},
         leaving' \in {"no", "asked"},
         loads' \in Seq(LoadSet), Editing'
  PROVE  Types'
BY Zenon DEF Types, TypeOK, CheckSet

\* What Types says of each variable, for the proofs of the steps.
LEMMA TypesAre ==
  ASSUME Types
  PROVE  /\ session \in BOOLEAN /\ hint \in BOOLEAN /\ auth \in BOOLEAN
         /\ user \in BOOLEAN /\ broken \in BOOLEAN /\ entered \in BOOLEAN
         /\ overlap \in BOOLEAN /\ early \in BOOLEAN /\ tidy \in BOOLEAN
         /\ (user => auth)
         /\ world \subseteq Projects /\ projects \subseteq Projects
         /\ active \in Projects \cup {None} /\ stored \in Projects \cup {None}
         /\ checks \in Seq(CheckSet)
         /\ login \in {"no", "sent", "granted", "refused"}
         /\ leaving \in {"no", "asked"}
         /\ loads \in Seq(LoadSet) /\ Editing
BY Zenon DEF Types, TypeOK, CheckSet

\* What the user is changing, when somebody else makes a step.
LEMMA EditingStays ==
  ASSUME Types, UNCHANGED <<dialog, ops>>, count' = count \/ Event
  PROVE  Editing'
<1>1. count' \in Nat
  BY TypesAre DEF Event, Editing
<1> QED BY <1>1, TypesAre DEF Editing

\* What a step that only touches the checks or the loads has to show.
LEMMA ListsTypes ==
  ASSUME Types,
         UNCHANGED <<session, hint, world, auth, user, login, leaving>>,
         UNCHANGED <<projects, active, stored, dialog, ops, broken, entered>>,
         UNCHANGED <<overlap, early, tidy, count>>,
         checks' \in Seq(CheckSet), loads' \in Seq(LoadSet)
  PROVE  Types'
<1>1. /\ session' \in BOOLEAN /\ hint' \in BOOLEAN /\ auth' \in BOOLEAN
      /\ user' \in BOOLEAN /\ broken' \in BOOLEAN /\ entered' \in BOOLEAN
      /\ overlap' \in BOOLEAN /\ early' \in BOOLEAN /\ tidy' \in BOOLEAN
      /\ (user' => auth')
  BY TypesAre, Zenon
<1>2. /\ world' \subseteq Projects /\ projects' \subseteq Projects
      /\ active' \in Projects \cup {None} /\ stored' \in Projects \cup {None}
      /\ login' \in {"no", "sent", "granted", "refused"}
      /\ leaving' \in {"no", "asked"} /\ Editing'
  BY TypesAre, EditingStays
<1> QED BY <1>1, <1>2, TypesKept, Zenon

-----------------------------------------------------------------------------
\* The page as it is loaded.
LEMMA Initially == Init => IInv
<1> SUFFICES ASSUME Init PROVE IInv
  OBVIOUS
<1>1. TRUE \in BOOLEAN /\ FALSE \in BOOLEAN
  OBVIOUS
<1>2. /\ session \in BOOLEAN /\ hint \in BOOLEAN /\ auth \in BOOLEAN
      /\ user \in BOOLEAN /\ broken \in BOOLEAN /\ entered \in BOOLEAN
      /\ overlap \in BOOLEAN /\ early \in BOOLEAN /\ tidy \in BOOLEAN /\ ~user
  BY <1>1, Zenon DEF Init
<1>3. /\ world \subseteq Projects /\ projects = {} /\ active = None
      /\ stored \in Projects \cup {None} /\ loads = << >>
      /\ dialog = None /\ ops = {} /\ count = 0
      /\ checks = <<NewCheck>> /\ login = "no" /\ leaving = "no"
  BY DEF Init
<1>4. checks \in Seq(CheckSet) /\ Len(checks) <= 1 /\ loads \in Seq(LoadSet)
  BY <1>3, NewOnes
<1>5. Types
  <2>1. Editing
    BY <1>3 DEF Editing
  <2> QED BY <1>2, <1>3, <1>4, <2>1, Zenon DEF Types, TypeOK, CheckSet
<1>6. Alone
  <2>1. ~broken
    BY DEF Init
  <2> QED BY <1>2, <1>3, <1>4, <2>1, Zenon DEF Alone
<1>7. ProjectIsChosen
  BY <1>3, Zenon DEF ProjectIsChosen
<1> QED BY <1>5, <1>6, <1>7 DEF IInv

-----------------------------------------------------------------------------
\* The page is loaded.
LEMMA StartStep ==
  ASSUME IInv, NEW cookie \in BOOLEAN, Start(cookie), Event,
         session' \in BOOLEAN, hint' \in BOOLEAN, UNCHANGED <<world, stored>>
  PROVE  IInv'
<1>1. TRUE \in BOOLEAN /\ FALSE \in BOOLEAN
  OBVIOUS
<1>2. /\ auth' \in BOOLEAN /\ user' \in BOOLEAN /\ broken' \in BOOLEAN
      /\ entered' \in BOOLEAN /\ overlap' \in BOOLEAN /\ early' \in BOOLEAN
      /\ tidy' \in BOOLEAN /\ ~user' /\ ~broken'
  BY <1>1, Zenon DEF Start
<1>3. /\ projects' = {} /\ active' = None /\ loads' = << >>
      /\ dialog' = None /\ ops' = {}
      /\ checks' = <<NewCheck>> /\ login' = "no" /\ leaving' = "no"
  BY DEF Start
<1>4. checks' \in Seq(CheckSet) /\ Len(checks') <= 1 /\ loads' \in Seq(LoadSet)
  BY <1>3, NewOnes
<1>5. Types'
  <2>1. world' \subseteq Projects /\ stored' \in Projects \cup {None}
    BY TypesAre DEF IInv
  <2>2. projects' \subseteq Projects /\ active' \in Projects \cup {None}
    BY <1>3
  <2>3. Editing'
    BY <1>3, TypesAre DEF IInv, Editing, Event
  <2> QED BY <1>2, <1>3, <1>4, <2>1, <2>2, <2>3, TypesKept, Zenon DEF IInv
<1>6. Alone'
  BY <1>2, <1>3, <1>4, Zenon DEF Alone
<1>7. ProjectIsChosen'
  BY <1>3, Zenon DEF ProjectIsChosen
<1> QED BY <1>5, <1>6, <1>7 DEF IInv

\* Steps that touch neither the user, the checks, the projects nor the loads.
LEMMA QuietStep ==
  ASSUME IInv, UNCHANGED <<auth, user, checks, projects, active, stored, loads>>,
         UNCHANGED <<broken, overlap, early, tidy>>,
         session' \in BOOLEAN, hint' \in BOOLEAN, entered' \in BOOLEAN,
         world' \subseteq Projects,
         login' \in {"no", "sent", "granted", "refused"},
         leaving' \in {"no", "asked"}, Editing'
  PROVE  IInv'
<1>1. Types'
  BY TypesAre, TypesKept, Zenon DEF IInv
<1>2. Alone'
  BY Zenon DEF IInv, Alone
<1>3. ProjectIsChosen'
  BY Zenon DEF IInv, ProjectIsChosen
<1> QED BY <1>1, <1>2, <1>3 DEF IInv

\* A change has met another of its project.
LEMMA ChangeMet ==
  ASSUME NEW o \in ChangeSet, NEW q, q = [o EXCEPT !.alone = FALSE]
  PROVE  q \in ChangeSet /\ q.p = o.p /\ ~q.alone
<1> DEFINE r == [what |-> o.what, p |-> o.p, named |-> o.named,
                 done |-> o.done, alone |-> FALSE, n |-> o.n]
<1>1. q = r
  BY DEF ChangeSet
<1>2. r \in ChangeSet
  <2>1. /\ o.what \in {"add", "delete"} /\ o.p \in Projects
        /\ o.named \in BOOLEAN /\ o.done \in BOOLEAN /\ o.n \in Nat
    BY DEF ChangeSet
  <2>2. FALSE \in BOOLEAN
    OBVIOUS
  <2> QED BY <2>1, <2>2, Zenon DEF ChangeSet
<1>3. r.p = o.p
  OBVIOUS
<1>4. ~r.alone
  BY Zenon
<1> QED BY <1>1, <1>2, <1>3, <1>4

\* A change is sent: those under way of the same project are not alone.
LEMMA ChangeSent ==
  ASSUME Types, NEW p \in Projects, ChangeProjects(p)
  PROVE  /\ Editing' /\ dialog.what \in {"add", "delete"}
         /\ \E new \in ChangeSet :
              /\ new.what = dialog.what /\ new.p = p /\ ~new.done
              /\ new.alone => \A o \in ops' : o.p = p => o = new
              /\ \A o \in ops' :
                   \/ o = new \/ (o \in ops /\ o.p # p)
                   \/ o \in ChangeSet /\ o.p = p /\ ~o.alone
<1> DEFINE of == {o \in ops : o.p = p}
<1> DEFINE new == [what |-> dialog.what, p |-> p, named |-> dialog.named,
                   done |-> FALSE, alone |-> of = {}, n |-> count]
<1>1. /\ dialog \in DialogSet /\ ops \subseteq ChangeSet /\ count \in Nat
  BY TypesAre DEF ChangeProjects, Editing
<1>2. /\ ops' = (ops \ of) \cup {[o EXCEPT !.alone = FALSE] : o \in of} \cup {new}
      /\ dialog' = [dialog EXCEPT !.sent = TRUE] /\ count' = count + 1
  BY DEF ChangeProjects, Event
<1>3. dialog.what \in {"add", "delete"} /\ dialog.named \in BOOLEAN
  BY <1>1 DEF DialogSet
<1>4. new \in ChangeSet
  <2>1. FALSE \in BOOLEAN /\ (of = {}) \in BOOLEAN
    BY Zenon
  <2> QED BY <1>1, <1>3, <2>1, Zenon DEF ChangeSet
<1>5. new.what = dialog.what /\ new.p = p
  OBVIOUS
<1>6. ~new.done /\ (new.alone => of = {})
  BY Zenon
<1> HIDE DEF new
<1>7. ASSUME NEW o \in of
      PROVE  /\ [o EXCEPT !.alone = FALSE] \in ChangeSet
             /\ [o EXCEPT !.alone = FALSE].p = p /\ ~[o EXCEPT !.alone = FALSE].alone
  <2>1. o \in ChangeSet /\ o.p = p
    BY <1>1
  <2> QED BY <2>1, ChangeMet
<1>8. ops' \subseteq ChangeSet
  BY <1>1, <1>2, <1>4, <1>7
<1>9. dialog' \in DialogSet /\ count' \in Nat
  <2>1. dialog' = [what |-> dialog.what, p |-> dialog.p,
                   named |-> dialog.named, sent |-> TRUE]
    BY <1>1, <1>2 DEF DialogSet
  <2>2. /\ dialog.what \in {"add", "delete"} /\ dialog.named \in BOOLEAN
        /\ dialog.p \in Projects \cup {None} /\ TRUE \in BOOLEAN
    BY <1>1 DEF DialogSet
  <2>3. dialog' \in DialogSet
    BY <2>1, <2>2, Zenon DEF DialogSet
  <2>4. count' \in Nat
    BY <1>1, <1>2
  <2> QED BY <2>3, <2>4
<1>10. \A o \in ops' : \/ o = new \/ (o \in ops /\ o.p # p)
                       \/ o \in ChangeSet /\ o.p = p /\ ~o.alone
  BY <1>2, <1>7
<1>11. new.alone => \A o \in ops' : o.p = p => o = new
  BY <1>2, <1>6
<1> QED BY <1>3, <1>4, <1>5, <1>6, <1>8, <1>9, <1>10, <1>11 DEF Editing

\* A change is done.
LEMMA ChangeServed ==
  ASSUME NEW o \in ChangeSet, NEW q, q = [o EXCEPT !.done = TRUE]
  PROVE  /\ q \in ChangeSet /\ q.p = o.p /\ q.what = o.what
         /\ q.alone = o.alone
<1> DEFINE r == [what |-> o.what, p |-> o.p, named |-> o.named,
                 done |-> TRUE, alone |-> o.alone, n |-> o.n]
<1>1. q = r
  BY DEF ChangeSet
<1>2. r \in ChangeSet
  <2>1. /\ o.what \in {"add", "delete"} /\ o.p \in Projects
        /\ o.named \in BOOLEAN /\ o.alone \in BOOLEAN /\ o.n \in Nat
    BY DEF ChangeSet
  <2>2. TRUE \in BOOLEAN
    OBVIOUS
  <2> QED BY <2>1, <2>2, Zenon DEF ChangeSet
<1>3. r.p = o.p /\ r.what = o.what
  OBVIOUS
<1>4. r.alone = o.alone
  BY Zenon
<1> QED BY <1>1, <1>2, <1>3, <1>4

\* Steps that neither start nor end a check or a load.
LEMMA QuietSteps ==
  ASSUME IInv,
         \/ Logout \/ SubmitLogin \/ ServeLogin \/ LoseLogin
         \/ \E what \in {"add", "delete"}, p \in Projects \cup {None} :
              OpenDialog(what, p)
         \/ Cancel \/ \E p \in Projects : ChangeProjects(p)
         \/ \E o \in ops : ServeChange(o) \/ FailChange(o)
         \/ Expire
  PROVE  IInv'
<1>1. /\ session \in BOOLEAN /\ hint \in BOOLEAN /\ entered \in BOOLEAN
      /\ world \subseteq Projects /\ user \in BOOLEAN
      /\ login \in {"no", "sent", "granted", "refused"}
      /\ leaving \in {"no", "asked"} /\ Types /\ Editing
  BY TypesAre DEF IInv
<1>2. TRUE \in BOOLEAN /\ FALSE \in BOOLEAN
  OBVIOUS
<1>3. CASE Logout
  BY <1>1, <1>3, QuietStep, EditingStays DEF Logout
<1>4. CASE SubmitLogin \/ LoseLogin
  BY <1>1, <1>4, QuietStep, EditingStays DEF SubmitLogin, LoseLogin
<1>5. CASE ServeLogin
  <2>1. session' \in BOOLEAN /\ hint' \in BOOLEAN
    BY <1>1, <1>2, <1>5, Zenon DEF ServeLogin
  <2> QED BY <1>1, <1>5, <2>1, QuietStep, EditingStays DEF ServeLogin
<1>6. ASSUME NEW p \in Projects, ChangeProjects(p) PROVE IInv'
  <2>1. Editing'
    BY <1>1, <1>6, ChangeSent
  <2> QED BY <1>1, <1>6, <2>1, QuietStep DEF ChangeProjects
<1>7. ASSUME NEW o \in ops, ServeChange(o) PROVE IInv'
  <2>1. o \in ChangeSet /\ o.p \in Projects
    BY <1>1 DEF Editing, ChangeSet
  <2>2. world' \subseteq Projects
    BY <1>1, <1>7, <2>1 DEF ServeChange
  <2>3. Editing'
    <3>1. PICK q : q = [o EXCEPT !.done = TRUE]
      OBVIOUS
    <3>2. q \in ChangeSet
      BY <2>1, <3>1, ChangeServed
    <3>3. ops' = (ops \ {o}) \cup {q} /\ UNCHANGED <<dialog, count>>
      BY <1>7, <3>1 DEF ServeChange
    <3> QED BY <1>1, <3>2, <3>3 DEF Editing
  <2> QED BY <1>1, <1>7, <2>2, <2>3, QuietStep DEF ServeChange
<1>8. ASSUME NEW o \in ops, FailChange(o) PROVE IInv'
  <2>1. Editing'
    BY <1>1, <1>8 DEF FailChange, Editing
  <2> QED BY <1>1, <1>8, <2>1, QuietStep DEF FailChange
<1>9. CASE Expire
  <2>1. session' \in BOOLEAN /\ hint' \in BOOLEAN /\ entered' \in BOOLEAN
    BY <1>1, <1>2, <1>9, Zenon DEF Expire
  <2> QED BY <1>1, <1>9, <2>1, QuietStep, EditingStays DEF Expire
<1>10. ASSUME NEW what \in {"add", "delete"}, NEW p \in Projects \cup {None},
              OpenDialog(what, p)
       PROVE  IInv'
  <2>1. dialog' = [what |-> what, p |-> p, named |-> user, sent |-> FALSE]
    BY <1>10 DEF OpenDialog
  <2>2. dialog' \in DialogSet
    BY <1>1, <1>2, <2>1, Zenon DEF DialogSet
  <2>3. Editing'
    BY <1>1, <1>10, <2>2 DEF OpenDialog, Editing
  <2> QED BY <1>1, <1>10, <2>3, QuietStep DEF OpenDialog
<1>11. CASE Cancel
  <2>1. Editing'
    BY <1>1, <1>11 DEF Cancel, Editing
  <2> QED BY <1>1, <1>11, <2>1, QuietStep DEF Cancel
<1> QED BY <1>3, <1>4, <1>5, <1>6, <1>7, <1>8, <1>9, <1>10, <1>11

-----------------------------------------------------------------------------
\* Steps of the checks.

\* A granted login starts a check of the session.
LEMMA AnswerLoginStep ==
  ASSUME IInv, AnswerLogin PROVE IInv'
<1>1. Types
  BY DEF IInv
<1>2. TRUE \in BOOLEAN /\ FALSE \in BOOLEAN
  OBVIOUS
<1>3. /\ UNCHANGED <<session, hint, world, user, leaving, projects, active>>
      /\ UNCHANGED <<stored, loads, dialog, ops, broken, early, tidy, count>>
      /\ login' = "no"
  BY DEF AnswerLogin
<1>7. Editing'
  BY <1>1, <1>3, EditingStays
<1>4. CASE login = "granted" /\ ~auth
  <2>1. auth' = TRUE /\ Check(CheckAgain(TRUE, user, checks))
        /\ entered' = session
    BY <1>4 DEF AnswerLogin
  <2> DEFINE now == CheckAgain(TRUE, user, checks)
  <2>2. now \in Seq(CheckSet) /\ Len(now) \in Nat
    BY <1>1, TypesAre, AgainTypes
  <2> HIDE DEF now
  <2>3. /\ checks' = now /\ overlap' \in BOOLEAN
        /\ ~overlap' => ~overlap /\ ~(Len(now) > 1)
    BY <1>1, <2>1, TypesAre, Overlaps DEF now
  <2>4. ~user
    BY <1>1, <1>4, TypesAre, Zenon
  <2>5. auth' \in BOOLEAN /\ entered' \in BOOLEAN
    BY <1>1, <1>2, <2>1, TypesAre, Zenon
  <2>6. Types'
    BY <1>1, <1>3, <1>7, <2>1, <2>2, <2>3, <2>5, TypesAre, TypesKept, Zenon
  <2>7. ~(Len(now) > 1) => Len(now) <= 1
    BY <2>2
  <2>8. Alone'
    BY <1>3, <2>3, <2>4, <2>7, Zenon DEF IInv, Alone
  <2>9. ProjectIsChosen'
    BY <1>3, Zenon DEF IInv, ProjectIsChosen
  <2> QED BY <2>6, <2>8, <2>9 DEF IInv
<1>5. CASE login = "granted" /\ auth
  <2>1. auth' = TRUE /\ UNCHANGED <<checks, overlap>> /\ entered' = session
    BY <1>5 DEF AnswerLogin
  <2>2. auth' \in BOOLEAN /\ entered' \in BOOLEAN
    BY <1>1, <1>2, <2>1, TypesAre, Zenon
  <2>3. Types'
    BY <1>1, <1>3, <1>7, <2>1, <2>2, TypesAre, TypesKept, Zenon
  <2>4. Alone' /\ ProjectIsChosen'
    BY <1>3, <2>1, Zenon DEF IInv, Alone, ProjectIsChosen
  <2> QED BY <2>3, <2>4 DEF IInv
<1>6. CASE login # "granted"
  <2>1. UNCHANGED <<auth, checks, entered, overlap>>
    BY <1>6 DEF AnswerLogin
  <2>2. Types'
    BY <1>1, <1>3, <1>7, <2>1, TypesAre, TypesKept, ZenonT(60)
  <2>3. Alone' /\ ProjectIsChosen'
    BY <1>3, <2>1, Zenon DEF IInv, Alone, ProjectIsChosen
  <2> QED BY <2>2, <2>3 DEF IInv
<1> QED BY <1>4, <1>5, <1>6

\* A check goes on to its next request.
LEMMA CheckProgress ==
  ASSUME IInv, NEW i \in DOMAIN checks, ServeCheck(i) \/ AnswerMe(i)
  PROVE  IInv'
<1>1. Types /\ checks \in Seq(CheckSet)
  BY TypesAre DEF IInv
<1>2. checks[i] \in CheckSet /\ i \in 1 .. Len(checks) /\ Len(checks) \in Nat
  BY <1>1, Shortened
<1>3. /\ UNCHANGED <<session, hint, world, auth, user, login, leaving>>
      /\ UNCHANGED <<projects, active, stored, loads, dialog, ops, broken>>
      /\ UNCHANGED <<entered, overlap, early, tidy, count>>
  BY DEF ServeCheck, AnswerMe
<1>4. checks' \in Seq(CheckSet) /\ Len(checks') = Len(checks)
  <2>1. CASE ServeCheck(i)
    <3>1. PICK g \in {"user", "error"} :
            checks' = [checks EXCEPT ![i] = [checks[i] EXCEPT !.got = g]]
      BY <2>1 DEF ServeCheck
    <3>2. [checks[i] EXCEPT !.got = g] \in CheckSet
      BY <1>2 DEF CheckSet
    <3> QED BY <1>1, <1>2, <3>1, <3>2
  <2>2. CASE AnswerMe(i)
    <3>1. checks' = [checks EXCEPT ![i] = [checks[i] EXCEPT !.stage = "verify"]]
      BY <2>2 DEF AnswerMe
    <3>2. [checks[i] EXCEPT !.stage = "verify"] \in CheckSet
      BY <1>2 DEF CheckSet
    <3> QED BY <1>1, <1>2, <3>1, <3>2
  <2> QED BY <2>1, <2>2
<1>5. Types'
  <2>1. loads' \in Seq(LoadSet)
    BY <1>1, <1>3, TypesAre
  <2> QED BY <1>1, <1>3, <1>4, <2>1, ListsTypes
<1>6. checks # << >>
  BY <1>1, <1>2
<1>7. Alone'
  BY <1>3, <1>4, <1>6, Zenon DEF IInv, Alone
<1>8. ProjectIsChosen'
  BY <1>3, Zenon DEF IInv, ProjectIsChosen
<1> QED BY <1>5, <1>7, <1>8 DEF IInv

\* Another load of the projects.
LEMMA LoadTypes ==
  ASSUME Types, NEW named \in BOOLEAN, Load(named)
  PROVE  loads' \in Seq(LoadSet) /\ tidy' \in BOOLEAN
<1>1. loads' \in Seq(LoadSet)
  BY TypesAre, NewOnes DEF Load
<1>2. tidy' \in BOOLEAN
  BY Zenon DEF Load
<1> QED BY <1>1, <1>2

\* The session is found good or bad: the page enters with its user, and loads, or leaves.
LEMMA AnswerVerifyStep ==
  ASSUME IInv, NEW i \in DOMAIN checks, AnswerVerify(i) PROVE IInv'
<1>1. Types /\ checks \in Seq(CheckSet)
  BY TypesAre DEF IInv
<1> DEFINE rest == RemoveAt(checks, i)
<1>2. /\ rest \in Seq(CheckSet) /\ (Len(checks) <= 1 => rest = << >>)
      /\ CheckAgain(TRUE, TRUE, rest) = rest
  BY <1>1, Shortened, AgainTypes
<1>3. /\ UNCHANGED <<session, hint, world, login, leaving, projects, active>>
      /\ UNCHANGED <<stored, dialog, ops, broken, entered, early, count>>
      /\ auth' = TRUE /\ user' = TRUE /\ Load(TRUE) /\ Check(rest) /\ ~broken
  BY <1>2 DEF AnswerVerify
<1> HIDE DEF rest
<1>4. /\ checks' = rest /\ overlap' \in BOOLEAN
      /\ ~overlap' => ~overlap /\ ~(Len(rest) > 1)
  BY <1>1, <1>3, TypesAre, Overlaps
<1>5. loads' \in Seq(LoadSet) /\ tidy' \in BOOLEAN
  <2>1. TRUE \in BOOLEAN
    OBVIOUS
  <2> QED BY <1>1, <1>3, <2>1, LoadTypes
<1>6. auth' \in BOOLEAN /\ user' \in BOOLEAN
  <2>1. TRUE \in BOOLEAN
    OBVIOUS
  <2> QED BY <1>3, <2>1, Zenon
<1>7. Types'
  <2>1. /\ session' \in BOOLEAN /\ hint' \in BOOLEAN /\ broken' \in BOOLEAN
        /\ entered' \in BOOLEAN /\ early' \in BOOLEAN /\ (user' => auth')
    BY <1>1, <1>3, TypesAre, Zenon
  <2>2. /\ world' \subseteq Projects /\ projects' \subseteq Projects
        /\ active' \in Projects \cup {None} /\ stored' \in Projects \cup {None}
        /\ login' \in {"no", "sent", "granted", "refused"}
        /\ leaving' \in {"no", "asked"} /\ Editing'
    BY <1>1, <1>3, TypesAre, EditingStays
  <2>3. checks' \in Seq(CheckSet)
    BY <1>2, <1>4
  <2> QED BY <1>1, <1>4, <1>5, <1>6, <2>1, <2>2, <2>3, TypesKept, Zenon
<1>8. Len(<< >>) <= 1
  OBVIOUS
<1>9. Alone'
  <2>1. ~overlap' => ~overlap /\ Len(checks) <= 1
    BY <1>4, Zenon DEF IInv, Alone
  <2>2. ~overlap' => checks' = << >>
    BY <1>2, <1>4, <2>1
  <2>3. ~overlap' => Len(checks') <= 1
    BY <1>8, <2>2
  <2>4. user' /\ ~broken'
    BY <1>3, Zenon
  <2> QED BY <2>2, <2>3, <2>4, Zenon DEF Alone
<1>10. ProjectIsChosen'
  BY <1>3, Zenon DEF IInv, ProjectIsChosen
<1> QED BY <1>7, <1>9, <1>10 DEF IInv

\* A request of a check fails.
LEMMA FailCheckStep ==
  ASSUME IInv, NEW i \in DOMAIN checks, FailCheck(i) PROVE IInv'
<1>1. Types /\ checks \in Seq(CheckSet)
  BY TypesAre DEF IInv
<1> DEFINE rest == RemoveAt(checks, i)
<1> DEFINE now == IF auth \/ user THEN CheckAgain(FALSE, FALSE, rest) ELSE rest
<1>2. /\ now \in Seq(CheckSet) /\ Len(now) \in Nat /\ checks # << >>
  <2>1. rest \in Seq(CheckSet) /\ i \in 1 .. Len(checks)
    BY <1>1, Shortened
  <2> HIDE DEF rest
  <2>2. CheckAgain(FALSE, FALSE, rest) \in Seq(CheckSet)
    BY <2>1, AgainTypes
  <2> DEFINE again == CheckAgain(FALSE, FALSE, rest)
  <2> HIDE DEF again
  <2>3. now \in Seq(CheckSet)
    <3>1. now = again \/ now = rest
      BY Zenon DEF again
    <3> QED BY <2>1, <2>2, <3>1, Zenon DEF again
  <2> HIDE DEF now
  <2>4. Len(now) \in Nat
    BY <2>3
  <2>5. checks # << >>
    BY <2>1
  <2> QED BY <2>3, <2>4, <2>5
<1>3. /\ UNCHANGED <<session, hint, world, login, leaving, projects, active>>
      /\ UNCHANGED <<stored, loads, dialog, ops, early, tidy>>
      /\ count' = count \/ Event
      /\ auth' = FALSE /\ user' = FALSE /\ Check(now) /\ ~broken
      /\ broken' = (user /\ active = None /\ projects # {})
      /\ entered' = entered \/ entered' = FALSE
  BY DEF FailCheck, Forget
<1> HIDE DEF now
<1>4. /\ checks' = now /\ overlap' \in BOOLEAN
      /\ ~overlap' => ~overlap /\ ~(Len(now) > 1)
  BY <1>1, <1>3, TypesAre, Overlaps
<1>5. /\ auth' \in BOOLEAN /\ user' \in BOOLEAN /\ entered' \in BOOLEAN
      /\ broken' \in BOOLEAN /\ (broken' => user)
  <2>1. FALSE \in BOOLEAN
    OBVIOUS
  <2>2. broken' \in BOOLEAN /\ (broken' => user)
    BY <1>3, Zenon
  <2> QED BY <1>1, <1>3, <2>1, <2>2, TypesAre, Zenon
<1>6. Types'
  <2>1. Editing'
    BY <1>1, <1>3, EditingStays
  <2> QED BY <1>1, <1>2, <1>3, <1>4, <1>5, <2>1, TypesAre, TypesKept, Zenon
<1>7. ~(Len(now) > 1) => Len(now) <= 1
  BY <1>2
<1>8. Alone'
  BY <1>2, <1>3, <1>4, <1>5, <1>7, Zenon DEF IInv, Alone
<1>9. ProjectIsChosen'
  BY <1>3, Zenon DEF IInv, ProjectIsChosen
<1> QED BY <1>6, <1>8, <1>9 DEF IInv

-----------------------------------------------------------------------------
\* Steps of the projects.

\* The server lists the projects.
LEMMA ServeLoadStep ==
  ASSUME IInv, NEW i \in DOMAIN loads, ServeLoad(i) PROVE IInv'
<1>1. Types /\ loads \in Seq(LoadSet)
  BY TypesAre DEF IInv
<1>2. loads[i] \in LoadSet /\ i \in 1 .. Len(loads) /\ loads # << >>
  BY <1>1, Shortened
<1>3. /\ UNCHANGED <<session, hint, world, auth, user, checks, login, leaving>>
      /\ UNCHANGED <<projects, active, stored, dialog, ops, broken, entered>>
      /\ UNCHANGED <<overlap, early, tidy, count>>
  BY DEF ServeLoad
<1>4. loads' \in Seq(LoadSet)
  <2>1. PICK g \in SUBSET Projects :
          loads' = [loads EXCEPT ![i] = [loads[i] EXCEPT !.got = g]]
    BY <1>1, TypesAre DEF ServeLoad
  <2>2. [loads[i] EXCEPT !.got = g] \in LoadSet
    BY <1>2 DEF LoadSet
  <2> QED BY <1>1, <1>2, <2>1, <2>2
<1>5. Types'
  <2>1. checks' \in Seq(CheckSet)
    BY <1>1, <1>3, TypesAre
  <2> QED BY <1>1, <1>3, <1>4, <2>1, ListsTypes
<1>6. Alone'
  BY <1>2, <1>3, Zenon DEF IInv, Alone
<1>7. ProjectIsChosen'
  BY <1>3, Zenon DEF IInv, ProjectIsChosen
<1> QED BY <1>5, <1>6, <1>7 DEF IInv

\* A list of projects arrives, or the empty one of a load that failed.
LEMMA ChooseStep ==
  ASSUME IInv, NEW i \in DOMAIN loads, NEW listed \in SUBSET Projects,
         Choose(listed), loads' = RemoveAt(loads, i), tidy' \in BOOLEAN,
         ~broken,
         UNCHANGED <<session, hint, world, auth, user, checks, login, leaving>>,
         UNCHANGED <<dialog, ops, entered, overlap, early>>,
         count' = count \/ Event
  PROVE  IInv'
<1>1. Types /\ loads \in Seq(LoadSet)
  BY TypesAre DEF IInv
<1>2. loads' \in Seq(LoadSet) /\ loads # << >>
  BY <1>1, Shortened
<1>3. projects' = listed
  BY DEF Choose
<1>4. \/ UNCHANGED <<active, stored, broken>> /\ (active # None \/ listed = {})
      \/ active' = stored /\ stored \in Projects /\ stored' = stored
         /\ broken' = broken
      \/ broken' = TRUE /\ ~user /\ stored' = None /\ active' = active
         /\ active = None
      \/ /\ active' = IF Own \in listed THEN Own ELSE None
         /\ stored' = active' /\ broken' = broken
  BY DEF Choose
<1>5. Own \in Projects /\ None \notin Projects
  BY SessionAssumption
<1>6. active' \in Projects \cup {None} /\ stored' \in Projects \cup {None}
  BY <1>1, <1>4, <1>5, TypesAre
<1>7. broken' \in BOOLEAN
  <2>1. TRUE \in BOOLEAN
    OBVIOUS
  <2> QED BY <1>1, <1>4, <2>1, TypesAre, Zenon
<1>8. Types'
  <2>1. Editing'
    BY <1>1, EditingStays
  <2> QED BY <1>1, <1>2, <1>3, <1>6, <1>7, <2>1, TypesAre, TypesKept, Zenon
<1>9. Alone'
  <2>1. broken' => ~user
    BY <1>4, Zenon
  <2> QED BY <1>2, <2>1, Zenon DEF IInv, Alone
<1>10. ProjectIsChosen'
  <2>1. active' # None => stored' = active'
    BY <1>4 DEF IInv, ProjectIsChosen
  <2>2. Own \in projects' => active' # None \/ broken'
    BY <1>3, <1>4, <1>5
  <2> QED BY <2>1, <2>2, Zenon DEF ProjectIsChosen
<1> QED BY <1>8, <1>9, <1>10 DEF IInv

\* The list arrives, and a project of it is chosen, or it fails.
LEMMA LoadSteps ==
  ASSUME IInv, NEW i \in DOMAIN loads, AnswerLoad(i) \/ FailLoad(i)
  PROVE  IInv'
<1>1. Types /\ loads \in Seq(LoadSet)
  BY TypesAre DEF IInv
<1>2. loads[i] \in LoadSet
  BY <1>1, Shortened
<1>3. CASE AnswerLoad(i)
  <2>1. loads[i].got \in SUBSET Projects
    BY <1>2, <1>3 DEF AnswerLoad, LoadSet
  <2>2. tidy' \in BOOLEAN
    BY <1>3, Zenon DEF AnswerLoad
  <2> QED BY <1>3, <2>1, <2>2, ChooseStep DEF AnswerLoad
<1>4. CASE FailLoad(i)
  <2>1. tidy' \in BOOLEAN
    BY <1>4 DEF FailLoad
  <2> QED BY <1>4, <2>1, ChooseStep DEF FailLoad
<1> QED BY <1>3, <1>4

\* The user chooses a project, which is stored.
LEMMA SelectStep ==
  ASSUME IInv, NEW p \in Projects, SelectProject(p) PROVE IInv'
<1>1. /\ UNCHANGED <<session, hint, world, auth, user, checks, login, leaving>>
      /\ UNCHANGED <<projects, loads, dialog, ops, broken, entered, overlap>>
      /\ UNCHANGED <<early, tidy, count>>
      /\ active' = p /\ stored' = p /\ p # None
  BY SessionAssumption DEF SelectProject
<1>2. active' \in Projects \cup {None} /\ stored' \in Projects \cup {None}
  BY <1>1
<1>3. Types'
  <2>1. Editing'
    BY <1>1, EditingStays DEF IInv
  <2> QED BY <1>1, <1>2, <2>1, TypesAre, TypesKept, ZenonT(60) DEF IInv
<1>4. Alone' /\ ProjectIsChosen'
  BY <1>1, Zenon DEF IInv, Alone, ProjectIsChosen
<1> QED BY <1>3, <1>4 DEF IInv

\* An answered change loads the projects again, perhaps too early.
LEMMA AnswerChangeStep ==
  ASSUME IInv, NEW o \in ops, AnswerChange(o) PROVE IInv'
<1>1. /\ UNCHANGED <<session, hint, world, auth, user, checks, login, leaving>>
      /\ UNCHANGED <<projects, active, stored, broken, entered, overlap, count>>
      /\ ops' = ops \ {o} /\ dialog' = None /\ Load(o.named)
      /\ early' = (early \/ ~user)
  BY DEF AnswerChange
<1>5. Types /\ Editing /\ o.named \in BOOLEAN
  BY TypesAre DEF IInv, Editing, ChangeSet
<1>2. loads' \in Seq(LoadSet) /\ tidy' \in BOOLEAN
  BY <1>1, <1>5, LoadTypes
<1>6. early' \in BOOLEAN /\ (~early' => ~early /\ user)
  BY <1>1, Zenon
<1>3. Types'
  <2>1. Editing'
    BY <1>1, <1>5 DEF Editing
  <2> QED BY <1>1, <1>2, <1>5, <1>6, <2>1, TypesAre, TypesKept, ZenonT(60)
<1>4. Alone' /\ ProjectIsChosen'
  BY <1>1, <1>6, Zenon DEF IInv, Alone, ProjectIsChosen
<1> QED BY <1>3, <1>4 DEF IInv

-----------------------------------------------------------------------------
\* Every step keeps the invariant.
LEMMA NextIInv == IInv /\ [Next]_vars => IInv'
<1> SUFFICES ASSUME IInv, [Next]_vars PROVE IInv'
  OBVIOUS
<1>1. CASE ReloadPage
  BY <1>1, StartStep, TypesAre DEF ReloadPage, IInv
<1>2. CASE Leave
  <2>1. session' \in BOOLEAN /\ hint' \in BOOLEAN
    <3>1. FALSE \in BOOLEAN
      OBVIOUS
    <3> QED BY <1>2, <3>1, TypesAre, Zenon DEF Leave, IInv
  <2> QED BY <1>2, <2>1, StartStep DEF Leave
<1>3. CASE AnswerLogin
  BY <1>3, AnswerLoginStep
<1>4. CASE CheckStep \/ \E i \in DOMAIN checks : FailCheck(i)
  BY <1>4, CheckProgress, AnswerVerifyStep, FailCheckStep DEF CheckStep
<1>5. CASE LoadStep \/ \E i \in DOMAIN loads : FailLoad(i)
  BY <1>5, ServeLoadStep, LoadSteps DEF LoadStep
<1>6. CASE \E p \in Projects : SelectProject(p)
  BY <1>6, SelectStep
<1>7. CASE \E o \in ops : AnswerChange(o)
  BY <1>7, AnswerChangeStep
<1>8. CASE \/ Logout \/ SubmitLogin \/ ServeLogin \/ LoseLogin
           \/ \E what \in {"add", "delete"}, p \in Projects \cup {None} :
                OpenDialog(what, p)
           \/ Cancel \/ \E p \in Projects : ChangeProjects(p)
           \/ \E o \in ops : ServeChange(o) \/ FailChange(o)
           \/ Expire
  BY <1>8, QuietSteps
<1>9. CASE UNCHANGED vars
  <2>1. /\ UNCHANGED <<session, hint, world, auth, user, checks, login>>
        /\ UNCHANGED <<leaving, projects, active, stored, loads, dialog, ops>>
        /\ UNCHANGED <<broken, entered, overlap, early, tidy, count>>
    BY <1>9 DEF vars
  <2> QED BY <2>1, TypesAre, QuietStep, EditingStays DEF IInv
<1> QED BY <1>1, <1>2, <1>3, <1>4, <1>5, <1>6, <1>7, <1>8, <1>9
        DEF Next, LoginStep

\* The session stays in a state it can be in; a known user is logged in.
THEOREM SessionTypes == Spec => []TypeOK
<1>1. IInv => TypeOK
  BY DEF IInv, Types
<1> QED BY Initially, NextIInv, <1>1, PTL DEF Spec

\* Only overlapping checks, or a load before the user is known, can lead to
\* the exception in App.jsx:95.
THEOREM SessionBreaksOnlyUnknown == Spec => []BreaksOnlyUnknown
<1>1. IInv => BreaksOnlyUnknown
  BY Zenon DEF IInv, Alone, BreaksOnlyUnknown
<1> QED BY Initially, NextIInv, <1>1, PTL DEF Spec

\* Whenever the user's own project is listed one is chosen, and it is the
\* stored one.
THEOREM SessionProjectIsChosen == Spec => []ProjectIsChosen
<1>1. IInv => ProjectIsChosen
  BY DEF IInv
<1> QED BY Initially, NextIInv, <1>1, PTL DEF Spec

-----------------------------------------------------------------------------
(* What the list of projects shows *)

\* A list shows what was added and does not show what was deleted.
Fits(d, listed) == d.add \subseteq listed /\ d.delete \cap listed = {}

\* The server's projects are what the answered changes have made of them; a change
\* under way is about another project than those, and one that was alone with its
\* project still is.
ChangesOK ==
  /\ due \in [add : SUBSET Projects, delete : SUBSET Projects]
  /\ Fits(due, world)
  /\ \A o \in ops :
       /\ o.p \notin due.add \cup due.delete
       /\ o.alone /\ o.done => (o.what = "add" <=> o.p \in world)
       /\ o.alone => \A q \in ops : q.p = o.p => q = o

\* One load at a time: it is going to be served, has failed, or has a list that fits.
ListOK(d, q, listed) ==
  IF q = << >> THEN Fits(d, listed)
  ELSE Len(q) = 1 /\ (q[1].got \in {{Unread}, {}} \/ Fits(d, q[1].got))

ListsOK == tidy => ListOK(due, loads, projects)

ListedInv == ChangesOK /\ ListsOK

\* What holds initially, and after the page was loaded.
LEMMA ListedInitially == Init => ListedInv
<1> SUFFICES ASSUME Init PROVE ListedInv
  OBVIOUS
<1>1. due = [add |-> {}, delete |-> {}] /\ ops = {} /\ loads = << >>
  BY DEF Init
<1> QED BY <1>1 DEF ListedInv, ChangesOK, ListsOK, ListOK, Fits

\* The page is loaded: nothing is due.
LEMMA ListedStart ==
  ASSUME NEW cookie, Start(cookie)
  PROVE  ListedInv'
<1>1. due' = [add |-> {}, delete |-> {}] /\ ops' = {} /\ loads' = << >>
  BY DEF Start
<1> QED BY <1>1 DEF ListedInv, ChangesOK, ListsOK, ListOK, Fits

\* Steps that change neither the projects nor what is known of them.
LEMMA ListedQuiet ==
  ASSUME ListedInv, UNCHANGED <<due, world, loads, projects, tidy>>, ops' \subseteq ops
  PROVE  ListedInv'
BY DEF ListedInv, ChangesOK, ListsOK, ListOK, Fits

\* Another load is sent: it will show what is due when it is served.
LEMMA ListedLoad ==
  ASSUME ListsOK, NEW named, Load(named)
  PROVE  ListsOK'
<1> DEFINE new == NewLoad(named)
<1>1. loads' = Append(loads, new) /\ tidy' = (tidy /\ loads = << >>)
  BY DEF Load
<1>2. tidy' => loads = << >>
  BY <1>1, Zenon
<1>3. tidy' => loads' = <<new>>
  <2>1. PICK h : h = new
    OBVIOUS
  <2>2. Append(<< >>, h) = <<h>>
    OBVIOUS
  <2>3. loads = << >> => loads' = <<h>>
    BY <1>1, <2>1, <2>2, Zenon
  <2> QED BY <1>2, <2>1, <2>3, Zenon
<1>4. <<new>> # << >> /\ Len(<<new>>) = 1 /\ <<new>>[1].got = {Unread}
  BY DEF NewLoad
<1> QED BY <1>3, <1>4 DEF ListsOK, ListOK

\* The server answers a load with its projects, or with none.
LEMMA ListedServe ==
  ASSUME IInv, ListedInv, NEW i \in DOMAIN loads, ServeLoad(i)
  PROVE  ListedInv'
<1>1. loads \in Seq(LoadSet)
  BY TypesAre DEF IInv
<1>2. loads[i] \in LoadSet /\ i \in 1 .. Len(loads) /\ loads # << >>
  BY <1>1, Shortened
<1>3. /\ \E got \in {world, {}} : loads' = [loads EXCEPT ![i] = [loads[i] EXCEPT !.got = got]]
      /\ due' = due /\ world' = world /\ ops' = ops /\ tidy' = tidy
  BY DEF ServeLoad
<1>4. ASSUME tidy PROVE ListOK(due', loads', projects')
  <2>1. Len(loads) = 1 /\ i = 1
    BY <1>2, <1>4 DEF ListedInv, ListsOK, ListOK
  <2>2. loads' # << >> /\ Len(loads') = 1
    BY <1>1, <1>3, <2>1
  <2>3. loads'[1].got = world \/ loads'[1].got = {}
    BY <1>1, <1>2, <1>3, <2>1 DEF LoadSet
  <2>4. Fits(due, world)
    BY DEF ListedInv, ChangesOK
  <2> QED BY <1>3, <2>2, <2>3, <2>4 DEF ListOK
<1> QED BY <1>3, <1>4 DEF ListedInv, ListsOK, ChangesOK

\* A list arrives, or a load fails.
LEMMA ListedArrives ==
  ASSUME IInv, ListedInv, NEW i \in DOMAIN loads, AnswerLoad(i) \/ FailLoad(i)
  PROVE  ListedInv'
<1>1. loads \in Seq(LoadSet)
  BY TypesAre DEF IInv
<1>2. loads[i] \in LoadSet /\ i \in 1 .. Len(loads) /\ loads # << >>
  BY <1>1, Shortened
<1>3. due' = due /\ world' = world /\ ops' = ops
  BY DEF AnswerLoad, FailLoad
<1>4. CASE FailLoad(i)
  <2>1. ~ tidy'
    BY <1>4 DEF FailLoad
  <2> QED BY <1>3, <2>1 DEF ListedInv, ListsOK, ChangesOK
<1>5. CASE AnswerLoad(i)
  <2>1. /\ tidy' = (tidy /\ loads[i].got # {}) /\ loads' = RemoveAt(loads, i)
        /\ projects' = loads[i].got /\ loads[i].got # {Unread}
    BY <1>5 DEF AnswerLoad, Choose
  <2>2. ASSUME tidy' PROVE ListOK(due', loads', projects')
    <3>1. tidy /\ loads[i].got # {}
      BY <2>1, <2>2, Zenon
    <3>2. Len(loads) = 1 /\ i = 1 /\ Fits(due, loads[i].got)
      BY <1>2, <2>1, <3>1 DEF ListedInv, ListsOK, ListOK
    <3>3. loads' = << >>
      BY <1>1, <2>1, <3>2, Shortened
    <3> QED BY <1>3, <2>1, <3>2, <3>3 DEF ListOK
  <2> QED BY <1>3, <2>2 DEF ListedInv, ListsOK, ChangesOK
<1> QED BY <1>4, <1>5

\* A change is sent: what was due of its project is not due any more.
LEMMA ListedChange ==
  ASSUME IInv, ListedInv, NEW p \in Projects, ChangeProjects(p)
  PROVE  ListedInv'
<1>1. /\ due' = [add |-> due.add \ {p}, delete |-> due.delete \ {p}]
      /\ world' = world /\ loads' = loads /\ projects' = projects /\ tidy' = tidy
  BY DEF ChangeProjects
<1>2. PICK new \in ChangeSet :
        /\ new.p = p /\ ~new.done
        /\ new.alone => \A o \in ops' : o.p = p => o = new
        /\ \A o \in ops' :
             \/ o = new \/ (o \in ops /\ o.p # p)
             \/ (o \in ChangeSet /\ o.p = p /\ ~o.alone)
  BY ChangeSent DEF IInv
<1>3. /\ due' \in [add : SUBSET Projects, delete : SUBSET Projects]
      /\ p \notin due'.add \cup due'.delete
      /\ due'.add \cup due'.delete \subseteq due.add \cup due.delete
  BY <1>1 DEF ListedInv, ChangesOK
<1>4. \A listed : Fits(due, listed) => Fits(due', listed)
  BY <1>1 DEF Fits
<1>5. ChangesOK'
  <2>1. ASSUME NEW o \in ops'
        PROVE  /\ o.p \notin due'.add \cup due'.delete
               /\ o.alone /\ o.done => (o.what = "add" <=> o.p \in world')
    BY <1>1, <1>2, <1>3 DEF ListedInv, ChangesOK
  <2>2. ASSUME NEW o \in ops', o.alone, NEW q \in ops', q.p = o.p
        PROVE  q = o
    <3>1. CASE o = new
      BY <1>2, <2>2, <3>1
    <3>2. CASE o \in ops /\ o.p # p
      BY <1>2, <2>2, <3>2 DEF ListedInv, ChangesOK
    <3> QED BY <1>2, <2>2, <3>1, <3>2
  <2> QED BY <1>1, <1>3, <1>4, <2>1, <2>2 DEF ListedInv, ChangesOK
<1>6. ListsOK'
  BY <1>1, <1>4 DEF ListedInv, ListsOK, ListOK
<1> QED BY <1>5, <1>6 DEF ListedInv

\* The server changes its projects: nothing is due of the one that it changes.
LEMMA ListedServeChange ==
  ASSUME IInv, ListedInv, NEW o \in ops, ServeChange(o)
  PROVE  ListedInv'
<1>1. PICK done : done = [o EXCEPT !.done = TRUE]
  OBVIOUS
<1>2. /\ ops' = (ops \ {o}) \cup {done}
      /\ world' = (IF o.what = "add" THEN world \cup {o.p} ELSE world \ {o.p})
      /\ due' = due /\ loads' = loads /\ projects' = projects /\ tidy' = tidy
  BY <1>1 DEF ServeChange
<1>3. o \in ChangeSet /\ ops \subseteq ChangeSet
  BY TypesAre DEF IInv, Editing
<1>4. /\ done.p = o.p /\ done.what = o.what /\ done.alone = o.alone
  BY <1>1, <1>3, ChangeServed
<1>5. /\ o.p \notin due.add \cup due.delete /\ Fits(due, world)
      /\ due \in [add : SUBSET Projects, delete : SUBSET Projects]
  BY DEF ListedInv, ChangesOK
<1>6. Fits(due, world')
  BY <1>2, <1>5 DEF Fits
<1>7. ASSUME NEW x \in ops', x.alone, NEW y \in ops', y.p = x.p
      PROVE  y = x
  <2>1. CASE x = done
    BY <1>2, <1>4, <1>7, <2>1 DEF ListedInv, ChangesOK
  <2>2. CASE x \in ops \ {o}
    BY <1>2, <1>4, <1>7, <2>2 DEF ListedInv, ChangesOK
  <2> QED BY <1>2, <2>1, <2>2
<1>8. ASSUME NEW x \in ops'
      PROVE  /\ x.p \notin due'.add \cup due'.delete
             /\ x.alone /\ x.done => (x.what = "add" <=> x.p \in world')
  <2>1. CASE x = done
    BY <1>2, <1>4, <1>5, <2>1
  <2>2. CASE x \in ops \ {o}
    <3>1. x.alone => x.p # o.p
      BY <2>2 DEF ListedInv, ChangesOK
    <3>2. x.p # o.p => (x.p \in world' <=> x.p \in world)
      BY <1>2
    <3> QED BY <1>2, <2>2, <3>1, <3>2 DEF ListedInv, ChangesOK
  <2> QED BY <1>2, <2>1, <2>2
<1>9. ChangesOK'
  BY <1>2, <1>5, <1>6, <1>7, <1>8 DEF ChangesOK
<1>10. ListsOK'
  BY <1>2 DEF ListedInv, ListsOK
<1> QED BY <1>9, <1>10 DEF ListedInv

\* The change is answered: it is due if it was alone, and the projects are
\* loaded again.
LEMMA ListedAnswerChange ==
  ASSUME IInv, ListedInv, NEW o \in ops, AnswerChange(o)
  PROVE  ListedInv'
<1>1. /\ o.done /\ ops' = ops \ {o} /\ world' = world /\ Load(o.named)
      /\ due' = IF o.alone THEN [due EXCEPT ![o.what] = due[o.what] \cup {o.p}]
                ELSE due
  BY DEF AnswerChange, Settle
<1>2. /\ o.p \notin due.add \cup due.delete /\ Fits(due, world)
      /\ due \in [add : SUBSET Projects, delete : SUBSET Projects]
      /\ o.alone => (o.what = "add" <=> o.p \in world)
      /\ o.alone => \A q \in ops' : q.p # o.p
  BY <1>1 DEF ListedInv, ChangesOK
<1>3. o.what \in {"add", "delete"} /\ o.p \in Projects
  BY TypesAre DEF IInv, Editing, ChangeSet
<1>4. ASSUME o.alone
      PROVE  /\ due'.add = IF o.what = "add" THEN due.add \cup {o.p} ELSE due.add
             /\ due'.delete = IF o.what = "add" THEN due.delete
                              ELSE due.delete \cup {o.p}
             /\ due' \in [add : SUBSET Projects, delete : SUBSET Projects]
  <2>0. due' = [due EXCEPT ![o.what] = due[o.what] \cup {o.p}]
    BY <1>1, <1>4
  <2>1. CASE o.what = "add"
    BY <1>2, <1>3, <2>0, <2>1
  <2>2. CASE o.what = "delete"
    BY <1>2, <1>3, <2>0, <2>2
  <2> QED BY <1>3, <2>1, <2>2
<1>5. /\ Fits(due', world)
      /\ due' \in [add : SUBSET Projects, delete : SUBSET Projects]
      /\ \A q \in ops' : q.p \notin due'.add \cup due'.delete
  <2>1. CASE o.alone
    <3>1. Fits(due', world)
      BY <1>2, <1>3, <1>4, <2>1 DEF Fits
    <3>2. \A q \in ops' : q.p \notin due'.add \cup due'.delete
      BY <1>1, <1>2, <1>4, <2>1 DEF ListedInv, ChangesOK
    <3> QED BY <1>4, <2>1, <3>1, <3>2
  <2>2. CASE ~o.alone
    BY <1>1, <1>2, <2>2 DEF ListedInv, ChangesOK
  <2> QED BY <2>1, <2>2
<1>6. ChangesOK'
  BY <1>1, <1>5 DEF ListedInv, ChangesOK
<1>7. ListsOK'
  BY <1>1, ListedLoad DEF ListedInv
<1> QED BY <1>6, <1>7 DEF ListedInv

\* Each step keeps what the list of projects shows.
LEMMA ListedStep == IInv /\ ListedInv /\ [Next]_vars => ListedInv'
<1> SUFFICES ASSUME IInv, ListedInv, [Next]_vars PROVE ListedInv'
  OBVIOUS
<1>1. CASE ReloadPage \/ Leave
  BY <1>1, ListedStart DEF ReloadPage, Leave
<1>2. CASE \/ Logout \/ SubmitLogin \/ LoginStep \/ LoseLogin \/ Expire
           \/ \E what \in {"add", "delete"}, p \in Projects \cup {None} :
                OpenDialog(what, p)
           \/ Cancel \/ \E o \in ops : FailChange(o)
           \/ UNCHANGED vars
  BY <1>2, ListedQuiet DEF Logout, SubmitLogin, LoginStep, ServeLogin, AnswerLogin,
     LoseLogin, OpenDialog, Cancel, FailChange, Expire, vars
<1>3. CASE \E p \in Projects : SelectProject(p)
  BY <1>3, ListedQuiet DEF SelectProject
<1>4. ASSUME NEW i \in DOMAIN checks, ServeCheck(i) \/ AnswerMe(i) \/ FailCheck(i)
      PROVE  ListedInv'
  BY <1>4, ListedQuiet DEF ServeCheck, AnswerMe, FailCheck
<1>5. ASSUME NEW i \in DOMAIN checks, AnswerVerify(i) PROVE ListedInv'
  <2>1. Load(TRUE) /\ UNCHANGED <<due, world, ops>>
    BY <1>5 DEF AnswerVerify
  <2>2. ListsOK'
    BY <2>1, ListedLoad DEF ListedInv
  <2>3. ChangesOK'
    BY <2>1 DEF ListedInv, ChangesOK
  <2> QED BY <2>2, <2>3 DEF ListedInv
<1>6. CASE CheckStep \/ \E i \in DOMAIN checks : FailCheck(i)
  BY <1>4, <1>5, <1>6 DEF CheckStep
<1>7. CASE LoadStep \/ \E i \in DOMAIN loads : FailLoad(i)
  BY <1>7, ListedServe, ListedArrives DEF LoadStep
<1>8. CASE \E p \in Projects : ChangeProjects(p)
  BY <1>8, ListedChange
<1>9. CASE \E o \in ops : ServeChange(o) \/ AnswerChange(o)
  BY <1>9, ListedServeChange, ListedAnswerChange
<1> QED BY <1>1, <1>2, <1>3, <1>6, <1>7, <1>8, <1>9 DEF Next

\* After any number of additions and deletions of projects, answered or not, the list
\* shows the answered ones once it is loaded, if loads did not overlap or fail.
THEOREM SessionChangesAreListed == Spec => []ChangesAreListed
<1>1. ListedInv => ChangesAreListed
  BY DEF ListedInv, ListsOK, ListOK, Fits, ChangesAreListed
<1> QED BY Initially, NextIInv, ListedInitially, ListedStep, <1>1, PTL DEF Spec
=============================================================================
