------------------------- MODULE ProjectPagesProofs -------------------------
(***************************************************************************)
(* Proofs about ProjectPages for any places, and any number of clicks, of  *)
(* changes by others and of requests that fail.                            *)
(*                                                                         *)
(* The invariant says why a page at rest is right: as long as the hook     *)
(* cancels, or the user waits, there is at most one list request, it is    *)
(* for the place that is chosen, and what it brings is not older than the  *)
(* last change the page has been told of.                                  *)
(* That lists never go back has an invariant of its own, Forward.          *)
(***************************************************************************)
EXTENDS ProjectPages, SequenceTheorems, TLAPS

Request == [of : Places, upTo : Nat \cup {Unread}]
Fresh(p) == [of |-> p, upTo |-> Unread]
Change == [what : Asked, of : Places, here : BOOLEAN,
           at : Nat \cup {Unread}, n : Nat]

\* A service's actions are offered by its page, which may have been left.
DialogsOK ==
  /\ dialog \in {"none", "deploy", "confirm", "deleting", "actions"}
  /\ service \in [of : Places, here : BOOLEAN] \cup {NoService}
  /\ dialog = "actions" <=> service # NoService
  /\ uploading \in BOOLEAN /\ (uploading => kind = "files")
  /\ service.here => Hook
OpsOK == /\ ops \subseteq Change
         /\ \A o \in ops : o.what = "look" /\ o.here => Hook

Types == TypeOK /\ clicks \in Nat /\ DialogsOK /\ OpsOK
Tracked == Hook \/ calm

\* Nobody knows of a change that was not made.
KnownIsDone ==
  /\ \A p \in Places : acked[p] <= changes[p] /\ acted[p] <= changes[p]
  /\ \A o \in ops : o.at # Unread => o.at <= changes[o.of]

\* Without a project there is nothing to show, to load or to change.
Nowhere ==
  place = NoPlace =>
    shown.of = NoPlace /\ requests = << >> /\ ops = {} /\ service = NoService

OneRequest ==
  Tracked =>
    \/ requests = << >>
    \/ /\ requests = <<requests[1]>> /\ requests[1].of = place
       /\ requests[1].upTo # Unread => requests[1].upTo >= acked[place]

\* Files, while the user waits: a change or a list is under way, not both.
OneThing ==
  ~Hook /\ calm =>
    /\ \A o \in ops : o.here => o.of = place /\ requests = << >>
    /\ \A o1, o2 \in ops : o1.here /\ o2.here => o1 = o2

IInv == /\ Types /\ KnownIsDone /\ Nowhere /\ OneRequest /\ OneThing
        /\ PageIsRight

USE DEF list, bounds, dialogs, known

-----------------------------------------------------------------------------
\* Sequences of requests.

\* A sequence of one element.
LEMMA OneElement ==
  ASSUME NEW x, NEW S, x \in S
  PROVE  /\ <<x>> \in Seq(S) /\ Len(<<x>>) = 1 /\ <<x>> # << >>
         /\ <<x>>[1] = x /\ Append(<< >>, x) = <<x>>
OBVIOUS

\* A sequence of one element has length one.
LEMMA Singleton == ASSUME NEW x, NEW s, s = <<x>> PROVE Len(s) = 1
OBVIOUS

\* SequencesExt.RemoveAt leaves one element less, of the same type.
LEMMA Shortened ==
  ASSUME NEW S, NEW s \in Seq(S), NEW i \in DOMAIN s
  PROVE  RemoveAt(s, i) \in Seq(S) /\ Len(RemoveAt(s, i)) = Len(s) - 1
<1>1. i \in 1 .. Len(s) /\ Len(s) \in Nat
  OBVIOUS
<1> DEFINE front == SubSeq(s, 1, i - 1)
<1> DEFINE back == SubSeq(s, i + 1, Len(s))
<1>2. front \in Seq(S) /\ Len(front) = i - 1
  BY <1>1
<1>3. back \in Seq(S) /\ Len(back) = Len(s) - i
  BY <1>1
<1>4. RemoveAt(s, i) = front \o back
  BY DEF RemoveAt
<1> HIDE DEF front, back
<1>5. front \o back \in Seq(S) /\ Len(front \o back) = Len(front) + Len(back)
  BY <1>2, <1>3, SMTT(30)
<1> QED BY <1>1, <1>2, <1>3, <1>4, <1>5

\* It leaves nothing of a sequence of at most one element.
LEMMA Emptied ==
  ASSUME NEW S, NEW s \in Seq(S), NEW i \in DOMAIN s, Len(s) <= 1
  PROVE  i = 1 /\ RemoveAt(s, i) = << >>
<1>1. i \in 1 .. Len(s) /\ Len(s) \in Nat
  OBVIOUS
<1>2. RemoveAt(s, i) \in Seq(S) /\ Len(RemoveAt(s, i)) = Len(s) - 1
  BY Shortened
<1> QED BY <1>1, <1>2

-----------------------------------------------------------------------------
\* A list request as it is sent.
LEMMA FreshIsRequest ==
  ASSUME NEW p \in Places
  PROVE  /\ Fresh(p) \in Request /\ Fresh(p).of = p /\ Fresh(p).upTo = Unread
BY DEF Fresh, Request

\* A list that was just asked for is for the place and will be new enough.
LEMMA JustLoaded ==
  ASSUME place' \in Places \cup {NoPlace},
         requests' = IF place' = NoPlace THEN << >> ELSE <<Fresh(place')>>,
         place' = NoPlace => shown'.of = NoPlace
  PROVE  OneRequest' /\ PageIsRight'
<1>1. CASE place' = NoPlace
  BY <1>1 DEF OneRequest, PageIsRight
<1>2. CASE place' # NoPlace
  <2>1. Fresh(place') \in Request /\ Fresh(place').of = place'
        /\ Fresh(place').upTo = Unread
    BY <1>2, FreshIsRequest
  <2>2. /\ requests' # << >> /\ requests'[1] = Fresh(place')
        /\ requests' = <<requests'[1]>>
    BY <1>2, <2>1, OneElement
  <2> QED BY <2>1, <2>2 DEF OneRequest, PageIsRight
<1> QED BY <1>1, <1>2

\* Loading keeps the types, and cancels what was asked for before it.
LEMMA LoadTypes ==
  ASSUME requests \in Seq(Request), NEW p \in Places \cup {NoPlace},
         NEW q \in Places \cup {NoPlace}, Load(p, q)
  PROVE  /\ requests' \in Seq(Request)
         /\ Hook => requests' = IF p = NoPlace THEN << >> ELSE <<Fresh(p)>>
         /\ Hook => Len(requests') <= 1
         /\ ~Hook /\ requests = << >> =>
              requests' = IF q = NoPlace THEN << >> ELSE <<Fresh(q)>>
<1>1. \A x \in Places : Fresh(x) \in Request
  BY FreshIsRequest
<1>2. << >> \in Seq(Request) /\ Len(<< >>) = 0
  OBVIOUS
<1>3. \A x \in Places : /\ <<Fresh(x)>> \in Seq(Request)
                        /\ Len(<<Fresh(x)>>) = 1
                        /\ Append(requests, Fresh(x)) \in Seq(Request)
                        /\ Append(<< >>, Fresh(x)) = <<Fresh(x)>>
  BY <1>1, <1>2
<1>4. CASE Hook
  <2>1. requests' = IF p = NoPlace THEN << >> ELSE <<Fresh(p)>>
    BY <1>4 DEF Load, LoadByHook, Fresh
  <2>2. requests' \in Seq(Request) /\ Len(requests') <= 1
    BY <1>2, <1>3, <2>1
  <2> QED BY <1>4, <2>1, <2>2
<1>5. CASE ~Hook
  <2>1. requests' = IF q = NoPlace THEN requests
                    ELSE Append(requests, Fresh(q))
    BY <1>5 DEF Load, ReloadFiles, Fresh
  <2>2. requests' \in Seq(Request)
    BY <1>3, <2>1
  <2>3. requests = << >> =>
          requests' = IF q = NoPlace THEN << >> ELSE <<Fresh(q)>>
    BY <1>3, <2>1
  <2> QED BY <1>5, <2>2, <2>3
<1> QED BY <1>4, <1>5

\* The user waits when nothing is under way.
LEMMA ClickWaits ==
  ASSUME clicks \in Nat, calm \in BOOLEAN, Click
  PROVE  /\ clicks' \in Nat /\ calm' \in BOOLEAN
         /\ calm' => calm /\ requests = << >> /\ ops = {}
<1>1. clicks' \in Nat
  BY DEF Click
<1>2. calm' = (calm /\ requests = << >> /\ ops = {})
  BY DEF Click, Quiet
<1> QED BY <1>1, <1>2

\* What a step leaves alone has the type it had.
LEMMA TypesKept ==
  ASSUME Types,
         kind' \in Kinds, place' \in Places \cup {NoPlace},
         shown' \in Lists /\ shown'.upTo # Unread,
         failed' \in BOOLEAN, calm' \in BOOLEAN, clicks' \in Nat,
         requests' \in Seq(Request), Hook' => Len(requests') <= 1,
         DialogsOK', OpsOK',
         changes' \in [Places -> Nat],
         acked' \in [Places -> Nat], acted' \in [Places -> Nat]
  PROVE  Types'
BY DEF Types, TypeOK, Request, Change, DialogsOK, OpsOK

\* What Types says of each variable, for the proofs of the steps.
LEMMA TypesAre ==
  ASSUME Types
  PROVE  /\ kind \in Kinds /\ place \in Places \cup {NoPlace}
         /\ shown \in Lists /\ shown.upTo # Unread
         /\ failed \in BOOLEAN /\ calm \in BOOLEAN /\ clicks \in Nat
         /\ requests \in Seq(Request) /\ (Hook => Len(requests) <= 1)
         /\ DialogsOK /\ OpsOK /\ ops \subseteq Change
         /\ changes \in [Places -> Nat]
         /\ acked \in [Places -> Nat] /\ acted \in [Places -> Nat]
BY DEF Types, TypeOK, Request, OpsOK

\* Dialogs that nobody touches on a page that stays open.
LEMMA DialogsStay ==
  ASSUME Types, UNCHANGED <<dialog, service, uploading, kind>> PROVE DialogsOK'
BY DEF Types, DialogsOK, Hook

\* What was asked for and is not answered yet.
LEMMA OpsStay ==
  ASSUME Types, UNCHANGED kind, ops' \subseteq ops PROVE OpsOK'
BY DEF Types, OpsOK, Hook

\* What is learned has a type, and is no news to the server.
LEMMA LaterIs ==
  ASSUME NEW f \in [Places -> Nat], NEW p, NEW n, p \in Places => n \in Nat,
         NEW c \in [Places -> Nat], \A q \in Places : f[q] <= c[q],
         p \in Places => n <= c[p]
  PROVE  /\ Later(f, p, n) \in [Places -> Nat]
         /\ \A q \in Places : Later(f, p, n)[q] <= c[q]
BY DEF Later

\* A page before a project is chosen.
LEMMA InitIInv == Init => IInv
<1> SUFFICES ASSUME Init PROVE IInv
  OBVIOUS
<1>1. << >> \in Seq(Request) /\ Len(<< >>) = 0
  OBVIOUS
<1>2. shown \in Lists /\ shown.upTo # Unread
  BY DEF Init, Lists, Unread
<1>3. TRUE \in BOOLEAN /\ FALSE \in BOOLEAN
  OBVIOUS
<1>4. /\ changes \in [Places -> Nat] /\ acked \in [Places -> Nat]
      /\ clicks \in Nat /\ dialog = "none" /\ ops = {}
      /\ kind \in Kinds /\ place \in Places \cup {NoPlace}
  BY DEF Init
<1>5. calm \in BOOLEAN /\ failed \in BOOLEAN /\ requests = << >>
  BY <1>3 DEF Init
<1>6. Types
  <2>1. NoService.here = FALSE
    BY DEF NoService
  <2>2. /\ service = NoService /\ uploading = FALSE
        /\ acted \in [Places -> Nat]
    BY DEF Init
  <2>3. DialogsOK
    BY <1>3, <1>4, <2>1, <2>2 DEF DialogsOK
  <2>4. OpsOK
    BY <1>4 DEF OpsOK
  <2>5. requests \in Seq([of : Places, upTo : Nat \cup {Unread}])
        /\ (Hook => Len(requests) <= 1)
    BY <1>1, <1>5 DEF Request
  <2>6. TypeOK
    BY <1>2, <1>4, <1>5, <2>2, <2>3, <2>5 DEF TypeOK, DialogsOK
  <2> QED BY <1>4, <2>3, <2>4, <2>6 DEF Types
<1>7. KnownIsDone /\ Nowhere /\ OneRequest /\ OneThing
  BY <1>4, <1>5 DEF Init, KnownIsDone, Nowhere, OneRequest, OneThing
<1>8. PageIsRight
  BY DEF Init, PageIsRight
<1> QED BY <1>6, <1>7, <1>8 DEF IInv

-----------------------------------------------------------------------------
\* Steps that ask for the list.

\* A click that loads the list of p: the hook drops the older request, and a user who
\* waits has none.
LEMMA AskStep ==
  ASSUME IInv, NEW p \in Places \cup {NoPlace}, p = NoPlace => place = NoPlace,
         Click, Load(p, p), place' = p, DialogsOK',
         acked' = acked \/ acked' = Await(acked, p),
         UNCHANGED <<kind, shown, failed, service, ops, changes, acted>>
  PROVE  IInv'
<1>2. Types /\ (Hook' <=> Hook)
  BY DEF IInv, Hook
<1>3. /\ clicks' \in Nat /\ calm' \in BOOLEAN
      /\ calm' => calm /\ requests = << >> /\ ops = {}
  BY <1>2, ClickWaits, TypesAre
<1>4. /\ requests' \in Seq(Request) /\ (Hook => Len(requests') <= 1)
      /\ Hook \/ requests = << >> =>
           requests' = IF p = NoPlace THEN << >> ELSE <<Fresh(p)>>
  BY <1>2, LoadTypes, TypesAre
<1>9. acked' \in [Places -> Nat] /\ \A q \in Places : acked'[q] <= changes[q]
  <2>1. /\ acked \in [Places -> Nat] /\ acted \in [Places -> Nat]
        /\ changes \in [Places -> Nat]
    BY <1>2, TypesAre
  <2>2. \A q \in Places : acked[q] <= changes[q] /\ acted[q] <= changes[q]
    BY DEF IInv, KnownIsDone
  <2>3. /\ Await(acked, p) \in [Places -> Nat]
        /\ \A q \in Places : Await(acked, p)[q] <= changes[q]
    BY <2>1, <2>2, LaterIs DEF Await
  <2> QED BY <2>1, <2>2, <2>3
<1>5. Types'
  BY <1>2, <1>3, <1>4, <1>9, TypesAre, TypesKept, OpsStay
<1>6. KnownIsDone' /\ Nowhere'
  BY <1>4, <1>9 DEF IInv, KnownIsDone, Nowhere
<1>7. OneRequest' /\ PageIsRight'
  <2>1. CASE Hook \/ calm'
    <3>1. place' = NoPlace => shown'.of = NoPlace
      BY DEF IInv, Nowhere
    <3> QED BY <1>3, <1>4, <2>1, <3>1, JustLoaded
  <2>2. CASE ~Hook /\ ~calm'
    BY <1>2, <2>2 DEF OneRequest, PageIsRight, Tracked
  <2> QED BY <2>1, <2>2
<1>8. OneThing'
  BY <1>2, <1>3 DEF OneThing
<1> QED BY <1>5, <1>6, <1>7, <1>8 DEF IInv

\* The user chooses another project.
LEMMA SwitchStep ==
  ASSUME IInv, NEW p \in Places, SwitchTo(p) PROVE IInv'
<1>1. /\ Click /\ Load(p, p) /\ place' = p /\ p # NoPlace
      /\ acked' = Await(acked, p)
      /\ UNCHANGED <<kind, shown, failed, dialogs, ops, changes, acted>>
  BY PagesAssumption DEF SwitchTo
<1>2. DialogsOK' /\ service' = service
  BY <1>1, DialogsStay DEF IInv
<1> QED BY <1>1, <1>2, AskStep

\* The user reloads the list.
LEMMA ReloadStep == ASSUME IInv, Reload PROVE IInv'
<1>1. /\ Click /\ Load(place, place) /\ place' = place
      /\ acked' = Await(acked, place)
      /\ UNCHANGED <<kind, shown, failed, dialogs, ops, changes, acted>>
  BY DEF Reload
<1>2. place \in Places \cup {NoPlace}
  BY TypesAre DEF IInv
<1>3. DialogsOK' /\ service' = service
  BY <1>1, DialogsStay DEF IInv
<1> QED BY <1>1, <1>2, <1>3, AskStep

\* The upload dialog is closed, which reloads the files.
LEMMA CloseUploadStep == ASSUME IInv, CloseUpload PROVE IInv'
<1>1. /\ Click /\ ReloadFiles(place) /\ place' = place
      /\ uploading /\ uploading' = FALSE
      /\ UNCHANGED <<kind, shown, failed, dialog, service, ops, changes>>
      /\ UNCHANGED <<acked, acted>>
  BY DEF CloseUpload
<1>2. place \in Places \cup {NoPlace} /\ ~Hook
  BY <1>1, TypesAre DEF IInv, DialogsOK, Hook
<1>3. Load(place, place)
  BY <1>1, <1>2 DEF Load
<1>4. DialogsOK'
  <2>1. FALSE \in BOOLEAN
    OBVIOUS
  <2> QED BY <1>1, <2>1, TypesAre DEF IInv, DialogsOK, Hook
<1> QED BY <1>1, <1>2, <1>3, <1>4, AskStep

\* The user goes to a page, which loads its list.
LEMMA OpenStep ==
  ASSUME IInv, NEW k \in Kinds, Open(k) PROVE IInv'
<1>1. /\ kind' = k /\ place' = place /\ clicks' = clicks + 1 /\ calm' = TRUE
      /\ shown' = [of |-> NoPlace, upTo |-> 0] /\ failed' = FALSE
      /\ requests' = IF place = NoPlace THEN << >> ELSE <<Fresh(place)>>
      /\ ops' = {[o EXCEPT !.here = FALSE] : o \in ops}
      /\ acked' = [p \in Places |-> 0] /\ acted' = [p \in Places |-> 0]
      /\ dialog = "none" /\ ~uploading /\ changes' = changes
      /\ UNCHANGED <<dialog, service, uploading>>
  BY DEF Open, Free, Fresh
<1>2. Types
  BY DEF IInv
<1>3. place \in Places => <<Fresh(place)>> \in Seq(Request)
                         /\ Len(<<Fresh(place)>>) = 1
  BY FreshIsRequest, OneElement
<1>4. << >> \in Seq(Request) /\ Len(<< >>) = 0
  OBVIOUS
<1>5. requests' \in Seq(Request) /\ Len(requests') <= 1
  BY <1>1, <1>2, <1>3, <1>4, TypesAre
<1>6. ASSUME NEW o \in ops'
      PROVE  o \in Change /\ ~o.here /\ \E q \in ops : o.of = q.of /\ o.at = q.at
  <2>1. PICK q \in ops : o = [q EXCEPT !.here = FALSE]
    BY <1>1
  <2>2. q \in Change
    BY <1>2, TypesAre
  <2>3. o = [what |-> q.what, of |-> q.of, here |-> FALSE, at |-> q.at,
             n |-> q.n]
    BY <2>1, <2>2 DEF Change
  <2>4. o \in Change
    <3>1. /\ q.what \in Asked /\ q.of \in Places
          /\ q.at \in Nat \cup {Unread} /\ q.n \in Nat
      BY <2>2 DEF Change
    <3>2. FALSE \in BOOLEAN
      OBVIOUS
    <3> QED BY <2>3, <3>1, <3>2 DEF Change
  <2>5. ~o.here
    BY <2>3, Zenon
  <2>6. o.of = q.of /\ o.at = q.at
    BY <2>3
  <2> QED BY <2>4, <2>5, <2>6
<1>7. shown' \in Lists /\ shown'.upTo # Unread
  BY <1>1 DEF Lists, Unread
<1>8. Types'
  <2>0. TRUE \in BOOLEAN /\ FALSE \in BOOLEAN
    OBVIOUS
  <2>3. calm' \in BOOLEAN /\ failed' \in BOOLEAN
    BY <1>1, <2>0, Zenon
  <2>1. /\ clicks' \in Nat /\ acked' \in [Places -> Nat]
        /\ acted' \in [Places -> Nat]
    BY <1>1, <1>2, TypesAre
  <2>2. /\ kind' \in Kinds /\ place' \in Places \cup {NoPlace}
        /\ changes' \in [Places -> Nat]
    BY <1>1, <1>2, TypesAre
  <2>4. DialogsOK'
    <3>1. DialogsOK /\ service = NoService
      BY <1>1, <1>2, TypesAre DEF DialogsOK
    <3>2. ~service'.here
      BY <1>1, <3>1 DEF NoService
    <3> QED BY <1>1, <3>1, <3>2 DEF DialogsOK
  <2>5. OpsOK'
    BY <1>6 DEF OpsOK
  <2> QED BY <1>2, <1>5, <1>7, <2>1, <2>2, <2>3, <2>4, <2>5, TypesKept
<1>9. KnownIsDone'
  <2>1. \A p \in Places : acked'[p] <= changes'[p] /\ acted'[p] <= changes'[p]
    BY <1>1, <1>2, TypesAre
  <2>2. \A o \in ops' : o.at # Unread => o.at <= changes'[o.of]
    BY <1>1, <1>6 DEF IInv, KnownIsDone
  <2> QED BY <2>1, <2>2 DEF KnownIsDone
<1>10. Nowhere'
  BY <1>1 DEF IInv, Nowhere
<1>11. OneRequest' /\ PageIsRight'
  BY <1>1, <1>2, TypesAre, JustLoaded
<1>12. OneThing'
  BY <1>6 DEF OneThing
<1> QED BY <1>8, <1>9, <1>10, <1>11, <1>12 DEF IInv

-----------------------------------------------------------------------------
\* Steps that leave the list alone.

\* Opening and cancelling a dialog touches neither list nor request.
LEMMA DialogStep ==
  ASSUME IInv,
         Cancel \/ OpenUpload \/ \E d \in {"deploy", "confirm"} : OpenDialog(d)
  PROVE  IInv'
<1>1. /\ UNCHANGED <<kind, place, shown, failed, requests, ops, changes>>
      /\ UNCHANGED <<acked, acted, calm, clicks>>
      /\ service' \in {service, NoService}
  BY DEF Cancel, OpenDialog, OpenUpload, Hide
<1>2. DialogsOK'
  <2>1. DialogsOK /\ (Hook' <=> Hook) /\ NoService.here = FALSE
    BY <1>1, TypesAre DEF IInv, Hook, NoService
  <2>2. CASE Cancel
    BY <2>1, <2>2 DEF Cancel, Hide, DialogsOK
  <2>3. CASE OpenUpload
    <3>1. TRUE \in BOOLEAN
      OBVIOUS
    <3> QED BY <2>1, <2>3, <3>1 DEF OpenUpload, DialogsOK
  <2>4. CASE \E d \in {"deploy", "confirm"} : OpenDialog(d)
    BY <2>1, <2>4 DEF OpenDialog, Free, DialogsOK
  <2> QED BY <2>2, <2>3, <2>4
<1>3. Types'
  <2>1. Types /\ (Hook' <=> Hook)
    BY <1>1 DEF IInv, Hook
  <2> QED BY <1>1, <1>2, <2>1, TypesAre, TypesKept, OpsStay
<1> QED BY <1>1, <1>3 DEF IInv, KnownIsDone, Nowhere, OneRequest, OneThing,
                          PageIsRight, Tracked, Hook

\* A change is sent: it is not known of before it is answered.
LEMMA SendStep ==
  ASSUME IInv, NEW what \in Asked, NEW p \in Places, NEW here \in BOOLEAN,
         Click, SendTo(p, here, what), place # NoPlace,
         here => p = place \/ Hook, what = "look" => Hook,
         DialogsOK', service' = service,
         UNCHANGED <<kind, place, list, changes, known>>
  PROVE  IInv'
<1> DEFINE new == [what |-> what, of |-> p, here |-> here,
                   at |-> Unread, n |-> clicks]
<1>1. /\ ops' = ops \cup {new}
      /\ UNCHANGED <<kind, place, shown, failed, requests, changes, acked, acted>>
  BY DEF SendTo
<1>2. Types /\ (Hook' <=> Hook)
  BY <1>1 DEF IInv, Hook
<1>3. /\ clicks' \in Nat /\ calm' \in BOOLEAN
      /\ calm' => calm /\ requests = << >> /\ ops = {}
  BY <1>2, ClickWaits, TypesAre
<1>4. /\ new \in Change /\ new.of = p /\ new.at = Unread
      /\ new.what = what
  BY <1>2, TypesAre DEF Change
<1>9. new.here = here
  BY Zenon
<1> HIDE DEF new
<1>5. Types'
  <2>1. OpsOK'
    BY <1>1, <1>2, <1>4, TypesAre DEF OpsOK
  <2> QED BY <1>1, <1>2, <1>3, <2>1, TypesAre, TypesKept
<1>6. KnownIsDone' /\ Nowhere'
  BY <1>1, <1>4 DEF IInv, KnownIsDone, Nowhere
<1>7. OneRequest' /\ PageIsRight'
  BY <1>1, <1>2, <1>3 DEF IInv, OneRequest, PageIsRight, Tracked
<1>8. OneThing'
  BY <1>1, <1>2, <1>3, <1>4, <1>9 DEF OneThing
<1> QED BY <1>5, <1>6, <1>7, <1>8 DEF IInv

\* What a page can ask for, other than lists.
LEMMA ChangeRequestStep ==
  ASSUME IInv,
         DeleteRow \/ ListActions \/ Execute \/ Deploy \/ DeleteMany \/ Upload
  PROVE  IInv'
<1>1. /\ Types /\ DialogsOK /\ TRUE \in BOOLEAN
      /\ place \in Places \cup {NoPlace} /\ (place # NoPlace => place \in Places)
  BY TypesAre DEF IInv
<1>2. /\ Click /\ service' = service
      /\ UNCHANGED <<kind, place, list, changes, known>>
  BY DEF DeleteRow, ListActions, Execute, Deploy, DeleteMany, Upload
<1>3. place # NoPlace
  <2>1. DeleteRow \/ ListActions \/ Execute => place # NoPlace
    BY <1>1 DEF DeleteRow, ListActions, Execute, IInv, Nowhere, DialogsOK
  <2> QED BY <2>1 DEF Deploy, DeleteMany, Upload
<1>4. DialogsOK'
  <2>1. CASE DeleteMany
    BY <1>1, <2>1 DEF DeleteMany, DialogsOK, Hook
  <2>2. CASE DeleteRow \/ ListActions \/ Execute \/ Deploy \/ Upload
    BY <1>1, <2>2, DialogsStay DEF DeleteRow, ListActions, Execute, Deploy,
       Upload
  <2> QED BY <2>1, <2>2
<1>5. CASE Execute
  <2>1. /\ service \in [of : Places, here : BOOLEAN]
        /\ service.here => Hook
    BY <1>1, <1>5 DEF Execute, DialogsOK
  <2>2. service.of \in Places /\ service.here \in BOOLEAN
    BY <2>1
  <2>3. SendTo(service.of, service.here, "action") /\ "action" \in Asked
    BY <1>5 DEF Execute, Asked
  <2> QED BY <1>2, <1>3, <1>4, <2>1, <2>2, <2>3, SendStep
<1>6. ASSUME NEW what \in Asked, Send(what), what = "look" => Hook
      PROVE  IInv'
  BY <1>1, <1>2, <1>3, <1>4, <1>6, SendStep DEF Send
<1>7. CASE ListActions
  <2>1. Send("look") /\ Hook /\ "look" \in Asked
    BY <1>7 DEF ListActions, Hook, Asked
  <2> QED BY <1>6, <2>1
<1>8. CASE DeleteRow \/ Deploy \/ DeleteMany \/ Upload
  <2>1. PICK what \in Asked : Send(what) /\ what # "look"
    BY <1>8 DEF DeleteRow, Deploy, DeleteMany, Upload, Asked
  <2> QED BY <1>6, <2>1
<1> QED BY <1>5, <1>7, <1>8

-----------------------------------------------------------------------------
\* The server.

\* The server reads the list as it is now, with all changes the page knows of.
LEMMA ServeListStep ==
  ASSUME IInv, NEW i \in DOMAIN requests, ServeList(i) PROVE IInv'
<1>1. /\ requests' = [requests EXCEPT ![i].upTo = changes[requests[i].of]]
      /\ UNCHANGED <<kind, place, shown, failed, dialogs, ops, changes>>
      /\ UNCHANGED <<acked, acted, calm, clicks>>
  BY DEF ServeList
<1>2. Types /\ (Hook' <=> Hook)
  BY <1>1 DEF IInv, Hook
<1>3. requests \in Seq(Request) /\ Len(requests) \in Nat
      /\ DOMAIN requests = 1 .. Len(requests)
  BY <1>2, TypesAre
<1>4. requests[i] \in Request /\ i \in 1 .. Len(requests)
  BY <1>3
<1> DEFINE made == [of |-> requests[i].of, upTo |-> changes[requests[i].of]]
<1>5. requests[i].of \in Places /\ changes[requests[i].of] \in Nat
  BY <1>2, <1>4, TypesAre DEF Request
<1>6. made \in Request /\ made.of = requests[i].of
      /\ made.upTo = changes[requests[i].of]
  BY <1>5 DEF Request
<1>7. [requests[i] EXCEPT !.upTo = changes[requests[i].of]] = made
  BY <1>4 DEF Request
<1>8. requests' = [requests EXCEPT ![i] = made]
  BY <1>1, <1>7
<1> HIDE DEF made
<1>9. requests' \in Seq(Request) /\ Len(requests') = Len(requests)
      /\ requests'[i] = made
  BY <1>3, <1>4, <1>6, <1>8
<1>10. Types'
  BY <1>1, <1>2, <1>9, TypesAre, TypesKept, DialogsStay, OpsStay
<1>11. requests # << >> /\ requests' # << >>
  BY <1>3, <1>4, <1>9
<1>12. KnownIsDone' /\ Nowhere'
  BY <1>1, <1>11 DEF IInv, KnownIsDone, Nowhere
<1>13. ASSUME Tracked
       PROVE  /\ requests' = <<requests'[1]>> /\ requests'[1].of = place
              /\ requests'[1].upTo >= acked[place]
  <2>1. requests = <<requests[1]>> /\ requests[1].of = place
    BY <1>11, <1>13 DEF IInv, OneRequest
  <2>2. Len(requests) = 1
    BY <2>1, Singleton, Zenon
  <2>3. i = 1
    BY <1>4, <2>2
  <2>4. requests' = <<requests'[1]>> /\ requests'[1] = made
    BY <1>3, <1>9, <2>2, <2>3
  <2>5. place \in Places /\ changes[place] >= acked[place]
    BY <1>2, <1>5, <2>1, <2>3, TypesAre DEF IInv, KnownIsDone
  <2> QED BY <1>6, <2>1, <2>3, <2>4, <2>5
<1>14. OneRequest'
  BY <1>1, <1>2, <1>13 DEF OneRequest, Tracked
<1>15. OneThing' /\ PageIsRight'
  BY <1>1, <1>2, <1>11 DEF IInv, OneThing, PageIsRight
<1> QED BY <1>10, <1>12, <1>14, <1>15 DEF IInv

\* Someone else changes what the page may show.
LEMMA OthersChangeStep ==
  ASSUME IInv, NEW p \in Places, OthersChange(p) PROVE IInv'
<1>1. /\ changes' = [changes EXCEPT ![p] = changes[p] + 1]
      /\ UNCHANGED <<kind, place, shown, failed, requests, dialogs, ops>>
      /\ UNCHANGED <<acked, acted, calm, clicks>>
  BY DEF OthersChange
<1>2. Types /\ (Hook' <=> Hook)
  BY <1>1 DEF IInv, Hook
<1>3. /\ changes' \in [Places -> Nat]
      /\ \A q \in Places : changes[q] \in Nat /\ changes'[q] >= changes[q]
  BY <1>1, <1>2, TypesAre
<1>4. Types'
  BY <1>1, <1>2, <1>3, TypesAre, TypesKept, DialogsStay, OpsStay
<1>5. KnownIsDone'
  <2>1. \A q \in Places : acked'[q] <= changes'[q] /\ acted'[q] <= changes'[q]
    BY <1>1, <1>2, <1>3, TypesAre DEF IInv, KnownIsDone
  <2>2. \A o \in ops : o.of \in Places /\ (o.at # Unread => o.at \in Nat)
    BY <1>2, TypesAre DEF Change
  <2>3. \A o \in ops' : o.at # Unread => o.at <= changes'[o.of]
    BY <1>1, <1>3, <2>2 DEF IInv, KnownIsDone
  <2> QED BY <2>1, <2>3 DEF KnownIsDone
<1> QED BY <1>1, <1>2, <1>4, <1>5 DEF IInv, Nowhere, OneRequest, OneThing,
                                      PageIsRight, Tracked

\* The server makes a change; the page knows of it only after the answer.
LEMMA ServeChangeStep ==
  ASSUME IInv, NEW o \in ops, ServeChange(o) PROVE IInv'
<1> DEFINE done == [what |-> o.what, of |-> o.of, here |-> o.here,
                    at |-> changes'[o.of], n |-> o.n]
<1>1. /\ changes' = [changes EXCEPT ![o.of] = changes[o.of] + 1]
      /\ ops' = (ops \ {o}) \cup {[o EXCEPT !.at = changes'[o.of]]}
      /\ o.what # "look"
      /\ UNCHANGED <<kind, place, shown, failed, requests, dialogs>>
      /\ UNCHANGED <<acked, acted, calm, clicks>>
  BY DEF ServeChange
<1>2. Types /\ (Hook' <=> Hook) /\ o \in Change
  BY <1>1, TypesAre DEF IInv, Hook
<1>3. /\ changes' \in [Places -> Nat]
      /\ \A q \in Places : changes[q] \in Nat /\ changes'[q] >= changes[q]
  <2>1. o.of \in Places
    BY <1>2 DEF Change
  <2> QED BY <1>1, <1>2, <2>1, TypesAre
<1>4. [o EXCEPT !.at = changes'[o.of]] = done
  BY <1>2 DEF Change
<1>5. done.of = o.of /\ done.at = changes'[o.of] /\ done.what = o.what
  OBVIOUS
<1>6. done.here = o.here
  BY Zenon
<1>7. done \in Change
  <2>1. o.of \in Places /\ changes'[o.of] \in Nat
    BY <1>2, <1>3 DEF Change
  <2>2. /\ o.what \in Asked
        /\ o.here \in BOOLEAN /\ o.n \in Nat
    BY <1>2 DEF Change
  <2>3. changes'[o.of] \in Nat \cup {Unread}
    BY <2>1
  <2> QED BY <2>1, <2>2, <2>3, Zenon DEF Change
<1>8. ops' = (ops \ {o}) \cup {done}
  BY <1>1, <1>4
<1> HIDE DEF done
<1>9. Types'
  <2>1. OpsOK'
    BY <1>1, <1>2, <1>5, <1>7, <1>8, TypesAre DEF OpsOK
  <2> QED BY <1>1, <1>2, <1>3, <2>1, TypesAre, TypesKept, DialogsStay
<1>10. KnownIsDone'
  <2>1. \A q \in Places : acked'[q] <= changes'[q] /\ acted'[q] <= changes'[q]
    BY <1>1, <1>2, <1>3, TypesAre DEF IInv, KnownIsDone
  <2>2. \A q \in ops : q.of \in Places /\ (q.at # Unread => q.at \in Nat)
    BY <1>2, TypesAre DEF Change
  <2>3. changes'[o.of] \in Nat
    BY <1>3, <2>2
  <2>4. \A q \in ops' : q.at # Unread => q.at <= changes'[q.of]
    BY <1>3, <1>5, <1>8, <2>2, <2>3 DEF IInv, KnownIsDone
  <2> QED BY <2>1, <2>4 DEF KnownIsDone
<1>11. Nowhere'
  BY <1>1 DEF IInv, Nowhere
<1>12. OneRequest' /\ PageIsRight'
  BY <1>1, <1>2 DEF IInv, OneRequest, PageIsRight, Tracked
<1>13. OneThing'
  <2> SUFFICES ASSUME ~Hook, calm
               PROVE  /\ \A q \in ops' : q.here =>
                           q.of = place /\ requests = << >>
                      /\ \A q1, q2 \in ops' : q1.here /\ q2.here => q1 = q2
    BY <1>1, <1>2 DEF OneThing
  <2>1. /\ \A q \in ops : q.here => q.of = place /\ requests = << >>
        /\ \A q1, q2 \in ops : q1.here /\ q2.here => q1 = q2
    BY DEF IInv, OneThing
  <2> QED BY <1>5, <1>6, <1>8, <2>1
<1> QED BY <1>9, <1>10, <1>11, <1>12, <1>13 DEF IInv

-----------------------------------------------------------------------------
\* Answers.

\* A list arrives and is shown: the only one under way, of the place that is chosen.
LEMMA AnswerStep ==
  ASSUME IInv, NEW i \in DOMAIN requests, Answer(i) PROVE IInv'
<1>1. /\ requests[i].upTo # Unread /\ shown' = requests[i]
      /\ failed' = FALSE /\ requests' = RemoveAt(requests, i)
      /\ UNCHANGED <<kind, place, dialogs, ops, changes, acked, acted>>
      /\ UNCHANGED <<calm, clicks>>
  BY DEF Answer
<1>2. Types /\ (Hook' <=> Hook)
  BY <1>1 DEF IInv, Hook
<1>3. requests \in Seq(Request) /\ requests[i] \in Request
  BY <1>2, TypesAre
<1>4. requests' \in Seq(Request) /\ Len(requests') = Len(requests) - 1
      /\ Len(requests) \in Nat
  BY <1>1, <1>3, Shortened
<1>5. shown' \in Lists /\ shown'.upTo # Unread
  BY <1>1, <1>3 DEF Request, Lists
<1>6. failed' \in BOOLEAN
  <2>1. FALSE \in BOOLEAN
    OBVIOUS
  <2> QED BY <1>1, <2>1, Zenon
<1>7. Types'
  <2>1. Hook' => Len(requests') <= 1
    BY <1>2, <1>4, TypesAre
  <2> QED BY <1>1, <1>2, <1>4, <1>5, <1>6, <2>1, TypesAre, TypesKept,
             DialogsStay, OpsStay
<1>8. requests # << >>
  BY <1>3
<1>9. KnownIsDone' /\ Nowhere'
  BY <1>1, <1>8 DEF IInv, KnownIsDone, Nowhere
<1>10. ASSUME Tracked
       PROVE  requests' = << >> /\ shown'.of = place
              /\ shown'.upTo >= acked[place]
  <2>1. /\ requests = <<requests[1]>> /\ requests[1].of = place
        /\ requests[1].upTo # Unread => requests[1].upTo >= acked[place]
    BY <1>8, <1>10 DEF IInv, OneRequest
  <2>2. Len(requests) = 1
    BY <2>1, Singleton, Zenon
  <2>3. Len(requests) <= 1
    BY <2>2
  <2>4. i = 1 /\ requests' = << >>
    BY <1>1, <1>3, <2>3, Emptied
  <2> QED BY <1>1, <2>1, <2>4
<1>11. OneRequest' /\ PageIsRight'
  BY <1>1, <1>2, <1>10 DEF OneRequest, PageIsRight, Tracked
<1>12. OneThing'
  BY <1>1, <1>2, <1>8 DEF IInv, OneThing
<1> QED BY <1>7, <1>9, <1>11, <1>12 DEF IInv

\* A list request fails.
LEMMA FailListStep ==
  ASSUME IInv, NEW i \in DOMAIN requests, FailList(i) PROVE IInv'
<1>1. /\ shown' = IF Hook THEN [of |-> requests[i].of, upTo |-> 0] ELSE shown
      /\ failed' = TRUE /\ requests' = RemoveAt(requests, i)
      /\ UNCHANGED <<kind, place, dialogs, ops, changes, acked, acted>>
      /\ UNCHANGED <<calm, clicks>>
  BY DEF FailList
<1>2. Types /\ (Hook' <=> Hook)
  BY <1>1 DEF IInv, Hook
<1>3. requests \in Seq(Request) /\ requests[i] \in Request
  BY <1>2, TypesAre
<1>4. requests' \in Seq(Request) /\ Len(requests') = Len(requests) - 1
      /\ Len(requests) \in Nat
  BY <1>1, <1>3, Shortened
<1>5. shown' \in Lists /\ shown'.upTo # Unread
  <2>1. CASE Hook
    BY <1>1, <1>3, <2>1 DEF Request, Lists, Unread
  <2>2. CASE ~Hook
    BY <1>1, <1>2, <2>2, TypesAre
  <2> QED BY <2>1, <2>2
<1>6. failed' \in BOOLEAN
  <2>1. TRUE \in BOOLEAN
    OBVIOUS
  <2> QED BY <1>1, <2>1, Zenon
<1>7. Types'
  <2>1. Hook' => Len(requests') <= 1
    BY <1>2, <1>4, TypesAre
  <2> QED BY <1>1, <1>2, <1>4, <1>5, <1>6, <2>1, TypesAre, TypesKept,
             DialogsStay, OpsStay
<1>8. requests # << >>
  BY <1>3
<1>9. KnownIsDone' /\ Nowhere'
  BY <1>1, <1>8 DEF IInv, KnownIsDone, Nowhere
<1>10. ASSUME Tracked
       PROVE  requests' = << >> /\ requests[i].of = place
  <2>1. requests = <<requests[1]>> /\ requests[1].of = place
    BY <1>8, <1>10 DEF IInv, OneRequest
  <2>2. Len(requests) = 1
    BY <2>1, Singleton, Zenon
  <2>3. Len(requests) <= 1
    BY <2>2
  <2>4. i = 1 /\ requests' = << >>
    BY <1>1, <1>3, <2>3, Emptied
  <2> QED BY <2>1, <2>4
<1>11. Hook => shown'.of = place
  BY <1>1, <1>10 DEF Tracked
<1>12. OneRequest' /\ PageIsRight'
  BY <1>1, <1>2, <1>10, <1>11 DEF OneRequest, PageIsRight, Tracked
<1>13. OneThing'
  BY <1>1, <1>2, <1>8 DEF IInv, OneThing
<1> QED BY <1>7, <1>9, <1>12, <1>13 DEF IInv

\* Closing the dialog, or not.
LEMMA HideStep ==
  ASSUME Types, UNCHANGED <<kind, uploading>>,
         Hide \/ UNCHANGED <<dialog, service>>
  PROVE  DialogsOK' /\ service' \in {service, NoService}
<1>1. DialogsOK /\ (Hook' <=> Hook) /\ NoService.here = FALSE
  BY TypesAre DEF Hook, NoService
<1>2. CASE Hide
  BY <1>1, <1>2 DEF Hide, DialogsOK
<1>3. CASE UNCHANGED <<dialog, service>>
  BY <1>1, <1>3 DEF DialogsOK
<1> QED BY <1>2, <1>3

\* A change fails, or the actions of a service are shown.
LEMMA FailStep ==
  ASSUME IInv, NEW o \in ops, ShowActions(o) \/ Fail(o) PROVE IInv'
<1>1. /\ ops' = ops \ {o}
      /\ UNCHANGED <<kind, place, shown, failed, requests, uploading, changes>>
      /\ UNCHANGED <<acked, acted, calm, clicks>>
  BY DEF ShowActions, Fail
<1>2. Types /\ (Hook' <=> Hook) /\ o \in Change
  BY <1>1, TypesAre DEF IInv, Hook
<1>3. place # NoPlace
  BY DEF IInv, Nowhere
<1>4. DialogsOK'
  <2>1. CASE ShowActions(o)
    <3>1. /\ DialogsOK /\ o.of \in Places /\ o.here \in BOOLEAN
          /\ o.here => Hook
      BY <1>2, <2>1, TypesAre DEF Change, OpsOK, ShowActions
    <3>2. /\ service' = [of |-> o.of, here |-> o.here] /\ dialog' = "actions"
      BY <2>1 DEF ShowActions
    <3>3. /\ service' \in [of : Places, here : BOOLEAN]
      BY <3>1, <3>2
    <3>4. service'.of = o.of /\ NoService.of = NoPlace
      BY <3>2 DEF NoService
    <3>5. service' # NoService
      BY <3>1, <3>4, PagesAssumption
    <3>6. service'.here = o.here
      BY <3>2, Zenon
    <3> QED BY <1>1, <1>2, <3>1, <3>2, <3>3, <3>5, <3>6 DEF DialogsOK
  <2>2. CASE Fail(o)
    BY <1>1, <1>2, <2>2, HideStep DEF Fail
  <2> QED BY <2>1, <2>2
<1>5. Types'
  BY <1>1, <1>2, <1>4, TypesAre, TypesKept, OpsStay
<1> QED BY <1>1, <1>2, <1>3, <1>5 DEF IInv, KnownIsDone, Nowhere, OneRequest,
                                OneThing, PageIsRight, Tracked

\* The answer to a change arrives, and the page asks for the list again.
LEMMA AcknowledgeStep ==
  ASSUME IInv, NEW o \in ops, Acknowledge(o) PROVE IInv'
<1>1. /\ o.at # Unread /\ ops' = ops \ {o} /\ Note(o)
      /\ Hide \/ UNCHANGED <<dialog, service>>
      /\ IF Told(o) THEN Load(place, o.of) ELSE requests' = requests
      /\ UNCHANGED <<kind, place, shown, failed, uploading, changes, calm>>
      /\ clicks' = clicks
  BY DEF Acknowledge, CloseDialog
<1>2. Types /\ (Hook' <=> Hook) /\ o \in Change
  BY <1>1, TypesAre DEF IInv, Hook
<1>3. o.of \in Places /\ o.at \in Nat
  BY <1>1, <1>2 DEF Change
<1>4. /\ acked' \in [Places -> Nat] /\ acted' \in [Places -> Nat]
      /\ \A p \in Places : acked'[p] <= changes[p] /\ acted'[p] <= changes[p]
      /\ ~Told(o) => acked' = acked
  <2> DEFINE told == Later(acked, o.of, o.at)
  <2>1. /\ acked \in [Places -> Nat] /\ acted \in [Places -> Nat]
        /\ changes \in [Places -> Nat] /\ o.at <= changes[o.of]
        /\ \A p \in Places : acked[p] <= changes[p] /\ acted[p] <= changes[p]
    BY <1>1, <1>2, TypesAre DEF IInv, KnownIsDone
  <2>2. told \in [Places -> Nat] /\ \A p \in Places : told[p] <= changes[p]
    BY <1>3, <2>1, LaterIs
  <2> HIDE DEF told
  <2>3. /\ Await(told, place) \in [Places -> Nat]
        /\ \A p \in Places : Await(told, place)[p] <= changes[p]
    BY <2>1, <2>2, LaterIs DEF Await
  <2>4. /\ Later(acted, o.of, o.at) \in [Places -> Nat]
        /\ \A p \in Places : Later(acted, o.of, o.at)[p] <= changes[p]
    BY <1>3, <2>1, LaterIs
  <2>5. /\ acked' = IF Told(o) THEN Await(told, place) ELSE acked
        /\ acted' \in {acted, Later(acted, o.of, o.at)}
    BY <1>1 DEF Note, told
  <2> QED BY <2>1, <2>3, <2>4, <2>5
<1>5. /\ requests' \in Seq(Request) /\ (Hook => Len(requests') <= 1)
      /\ Told(o) /\ Hook =>
           requests' = IF place = NoPlace THEN << >> ELSE <<Fresh(place)>>
      /\ Told(o) /\ ~Hook /\ requests = << >> =>
           requests' = IF o.of = NoPlace THEN << >> ELSE <<Fresh(o.of)>>
  <2>1. CASE Told(o)
    BY <1>1, <1>2, <1>3, <2>1, LoadTypes, TypesAre
  <2>2. CASE ~Told(o)
    BY <1>1, <1>2, <2>2, TypesAre
  <2> QED BY <2>1, <2>2
<1>6. Types'
  <2>1. DialogsOK'
    BY <1>1, <1>2, HideStep
  <2> QED BY <1>1, <1>2, <1>4, <1>5, <2>1, TypesAre, TypesKept, OpsStay
<1>7. KnownIsDone'
  <2>1. \A p \in Places : acked'[p] <= changes'[p] /\ acted'[p] <= changes'[p]
    BY <1>1, <1>4
  <2>2. \A q \in ops' : q.at # Unread => q.at <= changes'[q.of]
    BY <1>1 DEF IInv, KnownIsDone
  <2> QED BY <2>1, <2>2 DEF KnownIsDone
<1>8. place # NoPlace
  BY DEF IInv, Nowhere
<1>9. Nowhere'
  BY <1>1, <1>8 DEF Nowhere
<1>10. ASSUME ~Hook, calm, o.here
       PROVE  o.of = place /\ requests = << >> /\ \A q \in ops' : ~q.here
  BY <1>1, <1>10 DEF IInv, OneThing
<1>11. OneRequest' /\ PageIsRight'
  <2>1. CASE Told(o) /\ (Hook \/ calm)
    <3>1. requests' = IF place = NoPlace THEN << >> ELSE <<Fresh(place)>>
      BY <1>5, <1>10, <2>1 DEF Told
    <3> QED BY <1>1, <1>2, <1>8, <3>1, TypesAre, JustLoaded
  <2>2. CASE ~Told(o)
    BY <1>1, <1>2, <1>4, <2>2 DEF IInv, OneRequest, PageIsRight, Tracked
  <2>3. CASE ~Hook /\ ~calm
    BY <1>1, <1>2, <2>3 DEF OneRequest, PageIsRight, Tracked
  <2> QED BY <2>1, <2>2, <2>3
<1>12. OneThing'
  <2>1. CASE Told(o)
    BY <1>1, <1>2, <1>10, <2>1 DEF OneThing, Told
  <2>2. CASE ~Told(o)
    BY <1>1, <1>2, <2>2 DEF IInv, OneThing
  <2> QED BY <2>1, <2>2
<1> QED BY <1>6, <1>7, <1>9, <1>11, <1>12 DEF IInv

-----------------------------------------------------------------------------
\* Every step keeps the invariant.
LEMMA NextIInv == IInv /\ [Next]_vars => IInv'
<1> SUFFICES ASSUME IInv, [Next]_vars PROVE IInv'
  OBVIOUS
<1>1. CASE UserStep
  <2>1. CASE \E p \in Places : SwitchTo(p)
    BY <2>1, SwitchStep
  <2>2. CASE \E k \in Kinds : Open(k)
    BY <2>2, OpenStep
  <2>3. CASE \/ Cancel \/ OpenUpload
             \/ \E d \in {"deploy", "confirm"} : OpenDialog(d)
    BY <2>3, DialogStep
  <2>4. CASE Reload
    BY <2>4, ReloadStep
  <2>5. CASE CloseUpload
    BY <2>5, CloseUploadStep
  <2>6. CASE \/ DeleteRow \/ ListActions \/ Execute
             \/ Deploy \/ DeleteMany \/ Upload
    BY <2>6, ChangeRequestStep
  <2> QED BY <1>1, <2>1, <2>2, <2>3, <2>4, <2>5, <2>6 DEF UserStep
<1>2. CASE ListStep
  BY <1>2, ServeListStep, AnswerStep DEF ListStep
<1>3. CASE ChangeStep
  BY <1>3, ServeChangeStep, AcknowledgeStep DEF ChangeStep
<1>4. CASE \E i \in DOMAIN requests : FailList(i)
  BY <1>4, FailListStep
<1>5. CASE \E o \in ops : ShowActions(o) \/ Fail(o)
  BY <1>5, FailStep
<1>6. CASE \E p \in Places : OthersChange(p)
  BY <1>6, OthersChangeStep
<1>7. CASE UNCHANGED vars
  <2>1. /\ UNCHANGED <<kind, place, shown, failed, requests, dialogs, ops>>
        /\ UNCHANGED <<changes, acked, acted, calm, clicks>>
    BY <1>7 DEF vars
  <2>2. Types' /\ (Hook' <=> Hook)
    BY <2>1, TypesAre, TypesKept, DialogsStay, OpsStay DEF IInv, Hook
  <2> QED BY <2>1, <2>2 DEF IInv, KnownIsDone, Nowhere, OneRequest,
                           OneThing, PageIsRight, Tracked
<1> QED BY <1>1, <1>2, <1>3, <1>4, <1>5, <1>6, <1>7 DEF Next

\* The state stays one the pages can be in.
THEOREM PagesTypes == Spec => []TypeOK
<1>1. IInv => TypeOK
  BY DEF IInv, Types
<1> QED BY InitIInv, NextIInv, <1>1, PTL DEF Spec

\* A page at rest shows what is chosen, and no list older than a change of
\* its own it knows of: services and jobs always, files for a user who waits.
THEOREM PagesAreRight == Spec => []PageIsRight
<1>1. IInv => PageIsRight
  BY DEF IInv
<1> QED BY InitIInv, NextIInv, <1>1, PTL DEF Spec

-----------------------------------------------------------------------------
\* The list never goes back.

\* No list has seen a change that was not made; of the place that is shown a hook
\* gets no older list than it shows.
Forward ==
  /\ shown.of \in Places => shown.upTo <= changes[shown.of]
  /\ \A i \in DOMAIN requests :
       requests[i].upTo # Unread =>
         /\ requests[i].upTo <= changes[requests[i].of]
         /\ Hook /\ shown.of = requests[i].of => requests[i].upTo >= shown.upTo

\* A sequence without one of its elements has no others.
LEMMA RemovedElements ==
  ASSUME NEW S, NEW s \in Seq(S), NEW i \in DOMAIN s, NEW r, r = RemoveAt(s, i)
  PROVE  \A j \in DOMAIN r : \E k \in DOMAIN s : r[j] = s[k]
<1>1. i \in 1 .. Len(s) /\ Len(s) \in Nat /\ DOMAIN s = 1 .. Len(s)
  OBVIOUS
<1>2. PICK front : front = SubSeq(s, 1, i - 1)
  OBVIOUS
<1>3. PICK back : back = SubSeq(s, i + 1, Len(s))
  OBVIOUS
<1>4. /\ front \in Seq(S) /\ Len(front) = i - 1
      /\ \A j \in 1 .. (i - 1) : front[j] = s[j]
  BY <1>1, <1>2
<1>5. /\ back \in Seq(S) /\ Len(back) = Len(s) - i
      /\ \A j \in 1 .. (Len(s) - i) : back[j] = s[j + i]
  BY <1>1, <1>3
<1>6. r = front \o back
  BY <1>2, <1>3 DEF RemoveAt
<1>7. /\ Len(r) = Len(s) - 1 /\ r \in Seq(S)
      /\ \A j \in 1 .. Len(r) : r[j] = IF j <= Len(front) THEN front[j] ELSE back[j - Len(front)]
  <2>1. /\ front \o back \in Seq(S) /\ Len(front \o back) = Len(front) + Len(back)
        /\ \A j \in 1 .. Len(front) + Len(back) :
             (front \o back)[j] = IF j <= Len(front) THEN front[j] ELSE back[j - Len(front)]
    BY <1>4, <1>5, ConcatProperties
  <2>2. Len(front) + Len(back) = Len(s) - 1
    BY <1>1, <1>4, <1>5
  <2> QED BY <1>6, <2>1, <2>2
<1> SUFFICES ASSUME NEW j \in 1 .. Len(r) PROVE \E k \in DOMAIN s : r[j] = s[k]
  BY <1>7
<1>8. CASE j <= i - 1
  <2>1. j \in 1 .. (i - 1) /\ j \in DOMAIN s
    BY <1>1, <1>7, <1>8
  <2>2. r[j] = front[j]
    BY <1>4, <1>7, <1>8
  <2> QED BY <1>4, <2>1, <2>2
<1>9. CASE j > i - 1
  <2>1. j - (i - 1) \in 1 .. (Len(s) - i) /\ j + 1 \in DOMAIN s
    BY <1>1, <1>7, <1>9
  <2>2. r[j] = back[j - (i - 1)]
    BY <1>1, <1>4, <1>7, <1>9
  <2>3. back[j - (i - 1)] = s[(j - (i - 1)) + i]
    BY <1>5, <2>1
  <2>4. (j - (i - 1)) + i = j + 1
    BY <1>1, <1>7
  <2> QED BY <2>1, <2>2, <2>3, <2>4
<1> QED BY <1>1, <1>7, <1>8, <1>9

\* Requests that nobody has answered are nowhere yet; the others were there before.
NothingNew ==
  \A j \in DOMAIN requests' :
    requests'[j].upTo = Unread \/ \E k \in DOMAIN requests : requests'[j] = requests[k]

\* Loading adds a request that is not answered.
LEMMA LoadElements ==
  ASSUME requests \in Seq(Request), NEW p \in Places \cup {NoPlace},
         NEW q \in Places \cup {NoPlace}, Load(p, q)
  PROVE  NothingNew
<1>1. PICK r \in Seq(Request) : r = requests
  OBVIOUS
<1>2. requests' \in {r, << >>} \cup {<<Fresh(x)>> : x \in Places} \cup {Append(r, Fresh(x)) : x \in Places}
  BY <1>1 DEF Load, LoadByHook, ReloadFiles, Fresh
<1>3. ASSUME NEW x \in Places, requests' = <<Fresh(x)>>
      PROVE  NothingNew
  <2>1. PICK h : h = Fresh(x)
    OBVIOUS
  <2>2. h.upTo = Unread
    BY <2>1 DEF Fresh
  <2>3. \A j \in DOMAIN <<h>> : <<h>>[j] = h
    OBVIOUS
  <2>4. requests' = <<h>>
    BY <1>3, <2>1
  <2> QED BY <2>2, <2>3, <2>4 DEF NothingNew
<1>4. ASSUME NEW x \in Places, requests' = Append(r, Fresh(x))
      PROVE  NothingNew
  <2>1. PICK h : h = Fresh(x)
    OBVIOUS
  <2>2. h \in Request /\ h.upTo = Unread
    BY <2>1, FreshIsRequest
  <2>3. PICK a : a = Append(r, h)
    OBVIOUS
  <2>4. \A j \in DOMAIN a : a[j] = h \/ \E k \in DOMAIN r : a[j] = r[k]
    BY <2>2, <2>3
  <2>5. requests' = a
    BY <1>4, <2>1, <2>3
  <2> QED BY <1>1, <2>2, <2>4, <2>5 DEF NothingNew
<1>5. CASE requests' = r \/ requests' = << >>
  BY <1>1, <1>5 DEF NothingNew
<1> QED BY <1>2, <1>3, <1>4, <1>5

\* A step that shows nothing new.
LEMMA ForwardKept ==
  ASSUME IInv, Forward, Hook' <=> Hook, shown' = shown, NothingNew,
         \A q \in Places : changes'[q] \in Nat /\ changes'[q] >= changes[q]
  PROVE  Forward' /\ shown'.upTo >= shown.upTo
<1>1. /\ requests \in Seq(Request) /\ shown \in Lists /\ shown.upTo # Unread
      /\ changes \in [Places -> Nat]
  BY TypesAre DEF IInv
<1>2. shown.upTo \in Nat
  BY <1>1 DEF Lists
<1>3. shown'.of \in Places => shown'.upTo <= changes'[shown'.of]
  BY <1>1, <1>2 DEF Forward
<1>4. ASSUME NEW j \in DOMAIN requests', requests'[j].upTo # Unread
      PROVE  /\ requests'[j].upTo <= changes'[requests'[j].of]
             /\ Hook' /\ shown'.of = requests'[j].of => requests'[j].upTo >= shown'.upTo
  <2>1. PICK k \in DOMAIN requests : requests'[j] = requests[k]
    BY <1>4 DEF NothingNew
  <2>2. requests[k] \in Request
    BY <1>1
  <2>3. requests[k].of \in Places /\ requests[k].upTo \in Nat
    BY <1>4, <2>1, <2>2 DEF Request
  <2>4. /\ requests[k].upTo <= changes[requests[k].of]
        /\ Hook /\ shown.of = requests[k].of => requests[k].upTo >= shown.upTo
    BY <1>4, <2>1 DEF Forward
  <2> QED BY <1>1, <2>1, <2>3, <2>4
<1> QED BY <1>2, <1>3, <1>4 DEF Forward

\* The clicks, the changes and what is said of them show nothing new.
LEMMA ForwardQuiet ==
  ASSUME IInv, Forward,
         \/ UserStep /\ ~ \E k \in Kinds : Open(k)
         \/ ChangeStep \/ \E o \in ops : ShowActions(o) \/ Fail(o)
         \/ \E p \in Places : OthersChange(p)
         \/ UNCHANGED vars
  PROVE  Forward' /\ shown'.upTo >= shown.upTo
<1>1. /\ Types /\ place \in Places \cup {NoPlace} /\ requests \in Seq(Request)
      /\ changes \in [Places -> Nat] /\ ops \subseteq Change
  BY TypesAre DEF IInv
<1>2. kind' = kind /\ shown' = shown
  BY DEF UserStep, SwitchTo, OpenDialog, Reload, Cancel, OpenUpload, CloseUpload,
     DeleteRow, ListActions, Execute, Deploy, DeleteMany, Upload, ChangeStep, ServeChange,
     Acknowledge, ShowActions, Fail, OthersChange, vars
<1>3. Hook' <=> Hook
  BY <1>2 DEF Hook
<1>4. \A q \in Places : changes'[q] \in Nat /\ changes'[q] >= changes[q]
  <2>1. ASSUME NEW p \in Places, changes' = [changes EXCEPT ![p] = changes[p] + 1]
        PROVE  \A q \in Places : changes'[q] \in Nat /\ changes'[q] >= changes[q]
    BY <1>1, <2>1
  <2>2. CASE changes' = changes
    BY <1>1, <2>2
  <2>3. \A o \in ops : o.of \in Places
    BY <1>1 DEF Change
  <2>4. \/ changes' = changes
        \/ \E p \in Places : changes' = [changes EXCEPT ![p] = changes[p] + 1]
    BY <2>3 DEF UserStep, SwitchTo, OpenDialog, Reload, Cancel, OpenUpload, CloseUpload,
       DeleteRow, ListActions, Execute, Deploy, DeleteMany, Upload, ChangeStep,
       ServeChange, Acknowledge, ShowActions, Fail, OthersChange, vars
  <2> QED BY <2>1, <2>2, <2>4
<1>5. NothingNew
  <2>1. CASE requests' = requests
    BY <2>1 DEF NothingNew
  <2>2. ASSUME NEW p \in Places \cup {NoPlace}, NEW q \in Places \cup {NoPlace}, Load(p, q)
        PROVE  NothingNew
    BY <1>1, <2>2, LoadElements
  <2>3. CASE CloseUpload
    <3>1. ~Hook /\ ReloadFiles(place)
      BY <1>1, <2>3, TypesAre DEF CloseUpload, DialogsOK, Hook
    <3>2. Load(place, place)
      BY <3>1 DEF Load
    <3> QED BY <1>1, <2>2, <3>2
  <2>4. CASE \/ Cancel \/ OpenUpload \/ DeleteRow \/ ListActions \/ Execute
             \/ Deploy \/ DeleteMany \/ Upload \/ UNCHANGED vars
    BY <2>1, <2>4 DEF Cancel, OpenUpload, DeleteRow, ListActions, Execute, Deploy,
       DeleteMany, Upload, vars
  <2>5. CASE (\E p \in Places : SwitchTo(p)) \/ Reload
    BY <1>1, <2>2, <2>5 DEF SwitchTo, Reload
  <2>6. CASE ChangeStep
    <3>1. PICK o \in ops : ServeChange(o) \/ Acknowledge(o)
      BY <2>6 DEF ChangeStep
    <3>2. o.of \in Places
      BY <1>1 DEF Change
    <3>3. requests' = requests \/ Load(place, o.of)
      BY <3>1 DEF ServeChange, Acknowledge
    <3> QED BY <1>1, <2>1, <2>2, <3>2, <3>3
  <2>7. CASE \/ \E d \in {"deploy", "confirm"} : OpenDialog(d)
             \/ \E o \in ops : ShowActions(o) \/ Fail(o)
             \/ \E p \in Places : OthersChange(p)
    BY <2>1, <2>7 DEF OpenDialog, ShowActions, Fail, OthersChange
  <2> QED BY <2>3, <2>4, <2>5, <2>6, <2>7 DEF UserStep
<1> QED BY <1>2, <1>3, <1>4, <1>5, ForwardKept

\* A page that was opened shows nothing and has no answers.
LEMMA ForwardOpens ==
  ASSUME IInv, NEW k \in Kinds, Open(k)
  PROVE  Forward' /\ kind' # kind
<1>1. /\ shown' = [of |-> NoPlace, upTo |-> 0] /\ kind' = k /\ k # kind
      /\ requests' = IF place = NoPlace THEN << >> ELSE <<Fresh(place)>>
  BY DEF Open, Fresh
<1>2. shown'.of \notin Places
  BY <1>1, PagesAssumption
<1>3. \A j \in DOMAIN requests' : requests'[j].upTo = Unread
  <2>1. PICK h : h = Fresh(place)
    OBVIOUS
  <2>2. h.upTo = Unread
    BY <2>1 DEF Fresh
  <2>3. requests' = << >> \/ requests' = <<h>>
    BY <1>1, <2>1
  <2>4. \A j \in DOMAIN <<h>> : <<h>>[j] = h
    OBVIOUS
  <2> QED BY <2>2, <2>3, <2>4
<1> QED BY <1>1, <1>2, <1>3 DEF Forward

\* The server answers with a list that is as new as all it has done.
LEMMA ForwardServes ==
  ASSUME IInv, Forward, NEW i \in DOMAIN requests, ServeList(i)
  PROVE  Forward' /\ shown'.upTo >= shown.upTo
<1>1. /\ requests' = [requests EXCEPT ![i] = [requests[i] EXCEPT !.upTo = changes[requests[i].of]]]
      /\ shown' = shown /\ changes' = changes /\ (Hook' <=> Hook)
  BY DEF ServeList, Hook
<1>2. /\ requests \in Seq(Request) /\ shown \in Lists /\ shown.upTo # Unread
      /\ changes \in [Places -> Nat]
  BY TypesAre DEF IInv
<1>3. shown.upTo \in Nat /\ requests[i] \in Request
  BY <1>2 DEF Lists
<1>4. PICK m : m = [requests[i] EXCEPT !.upTo = changes[requests[i].of]]
  OBVIOUS
<1>5. m.of = requests[i].of /\ m.upTo = changes[m.of] /\ m.of \in Places
  BY <1>3, <1>4 DEF Request
<1>6. ASSUME NEW j \in DOMAIN requests', requests'[j].upTo # Unread
      PROVE  /\ requests'[j].upTo <= changes'[requests'[j].of]
             /\ Hook' /\ shown'.of = requests'[j].of => requests'[j].upTo >= shown'.upTo
  <2>1. CASE j = i
    <3>1. requests'[j] = m
      BY <1>1, <1>4, <2>1
    <3>2. changes[m.of] \in Nat
      BY <1>2, <1>5
    <3>3. shown.of = m.of => shown.upTo <= changes[m.of]
      BY <1>5 DEF Forward
    <3> QED BY <1>1, <1>3, <1>5, <3>1, <3>2, <3>3
  <2>2. CASE j # i
    <3>1. j \in DOMAIN requests /\ requests'[j] = requests[j]
      BY <1>1, <2>2
    <3> QED BY <1>1, <1>6, <3>1 DEF Forward
  <2> QED BY <2>1, <2>2
<1> QED BY <1>1, <1>3, <1>6 DEF Forward

\* An answer is shown: a hook has asked for nothing else.
LEMMA ForwardAnswers ==
  ASSUME IInv, Forward, NEW i \in DOMAIN requests, Answer(i)
  PROVE  Forward' /\ (Hook /\ shown'.of = shown.of => shown'.upTo >= shown.upTo)
<1>1. /\ requests[i].upTo # Unread /\ shown' = requests[i] /\ requests' = RemoveAt(requests, i)
      /\ changes' = changes /\ (Hook' <=> Hook)
  BY DEF Answer, Hook
<1>2. requests \in Seq(Request) /\ (Hook => Len(requests) <= 1)
  BY TypesAre DEF IInv
<1>3. PICK r \in Seq(Request) : r = requests
  BY <1>2
<1>4. \A j \in DOMAIN requests' : \E k \in DOMAIN requests : requests'[j] = requests[k]
  <2>1. PICK t : t = RemoveAt(r, i)
    OBVIOUS
  <2>2. i \in DOMAIN r
    BY <1>3
  <2>3. \A j \in DOMAIN t : \E k \in DOMAIN r : t[j] = r[k]
    BY <2>1, <2>2, RemovedElements
  <2>4. requests' = t
    BY <1>1, <1>3, <2>1
  <2> QED BY <1>3, <2>3, <2>4
<1>5. /\ shown'.upTo <= changes[shown'.of]
      /\ Hook /\ shown.of = shown'.of => shown'.upTo >= shown.upTo
  BY <1>1 DEF Forward
<1>6. Hook => requests' = << >>
  <2>1. Hook => Len(r) <= 1 /\ i \in DOMAIN r
    BY <1>2, <1>3
  <2>2. Hook => RemoveAt(r, i) = << >>
    BY <2>1, Emptied
  <2> QED BY <1>1, <1>3, <2>2
<1>7. ASSUME NEW j \in DOMAIN requests', requests'[j].upTo # Unread
      PROVE  requests'[j].upTo <= changes'[requests'[j].of] /\ ~ Hook'
  <2>1. PICK k \in DOMAIN requests : requests'[j] = requests[k]
    BY <1>4
  <2>2. requests'[j].upTo <= changes'[requests'[j].of]
    BY <1>1, <1>7, <2>1 DEF Forward
  <2>3. ~ Hook'
    BY <1>1, <1>6
  <2> QED BY <2>2, <2>3
<1> QED BY <1>1, <1>5, <1>7 DEF Forward

\* A list request fails: no rows, which are not newer than any list.
LEMMA ForwardFails ==
  ASSUME IInv, Forward, NEW i \in DOMAIN requests, FailList(i)
  PROVE  Forward' /\ failed'
<1>1. /\ shown' = IF Hook THEN [of |-> requests[i].of, upTo |-> 0] ELSE shown
      /\ failed' = TRUE /\ requests' = RemoveAt(requests, i)
      /\ changes' = changes /\ (Hook' <=> Hook)
  BY DEF FailList, Hook
<1>2. /\ requests \in Seq(Request) /\ (Hook => Len(requests) <= 1)
      /\ changes \in [Places -> Nat]
  BY TypesAre DEF IInv
<1>3. PICK r \in Seq(Request) : r = requests
  BY <1>2
<1>4. \A j \in DOMAIN requests' : \E k \in DOMAIN requests : requests'[j] = requests[k]
  <2>1. PICK t : t = RemoveAt(r, i)
    OBVIOUS
  <2>2. i \in DOMAIN r
    BY <1>3
  <2>3. \A j \in DOMAIN t : \E k \in DOMAIN r : t[j] = r[k]
    BY <2>1, <2>2, RemovedElements
  <2>4. requests' = t
    BY <1>1, <1>3, <2>1
  <2> QED BY <1>3, <2>3, <2>4
<1>5. shown'.of \in Places => shown'.upTo <= changes'[shown'.of]
  <2>1. CASE Hook
    <3>1. shown'.of = requests[i].of /\ shown'.upTo = 0
      BY <1>1, <2>1
    <3> QED BY <1>1, <1>2, <3>1
  <2>2. CASE ~Hook
    BY <1>1, <2>2 DEF Forward
  <2> QED BY <2>1, <2>2
<1>6. Hook => requests' = << >>
  <2>1. Hook => Len(r) <= 1 /\ i \in DOMAIN r
    BY <1>2, <1>3
  <2>2. Hook => RemoveAt(r, i) = << >>
    BY <2>1, Emptied
  <2> QED BY <1>1, <1>3, <2>2
<1>7. ASSUME NEW j \in DOMAIN requests', requests'[j].upTo # Unread
      PROVE  requests'[j].upTo <= changes'[requests'[j].of] /\ ~ Hook'
  <2>1. PICK k \in DOMAIN requests : requests'[j] = requests[k]
    BY <1>4
  <2>2. requests'[j].upTo <= changes'[requests'[j].of]
    BY <1>1, <1>7, <2>1 DEF Forward
  <2>3. ~ Hook'
    BY <1>1, <1>6
  <2> QED BY <2>2, <2>3
<1> QED BY <1>1, <1>5, <1>7 DEF Forward

\* What NeverBack says of one step.
OneForward ==
  Hook /\ kind' = kind /\ ~failed /\ ~failed' /\ shown'.of = shown.of
    => shown'.upTo >= shown.upTo

\* Each step goes forward, and keeps what that takes.
LEMMA ForwardStep == IInv /\ Forward /\ [Next]_vars => Forward' /\ OneForward
<1> SUFFICES ASSUME IInv, Forward, [Next]_vars PROVE Forward' /\ OneForward
  OBVIOUS
<1>1. CASE \E k \in Kinds : Open(k)
  BY <1>1, ForwardOpens DEF OneForward
<1>2. CASE \/ UserStep /\ ~ \E k \in Kinds : Open(k)
           \/ ChangeStep \/ \E o \in ops : ShowActions(o) \/ Fail(o)
           \/ \E p \in Places : OthersChange(p)
           \/ UNCHANGED vars
  BY <1>2, ForwardQuiet DEF OneForward
<1>3. CASE ListStep
  BY <1>3, ForwardServes, ForwardAnswers DEF ListStep, OneForward
<1>4. CASE \E i \in DOMAIN requests : FailList(i)
  BY <1>4, ForwardFails DEF OneForward
<1> QED BY <1>1, <1>2, <1>3, <1>4 DEF Next

\* However often the place is changed or the list reloaded, whatever changes and fails:
\* services and jobs are never replaced by an older list of the same place.
THEOREM PagesNeverGoBack == Spec => NeverBack
<1>1. Init => Forward
  BY PagesAssumption DEF Init, Forward
<1>2. OneForward
        => [Hook /\ kind' = kind /\ ~failed /\ ~failed' /\ shown'.of = shown.of
              => shown'.upTo >= shown.upTo]_vars
  BY DEF OneForward
<1> QED BY <1>1, <1>2, InitIInv, NextIInv, ForwardStep, PTL DEF Spec, NeverBack
=============================================================================
