-------------------------- MODULE SshKeyCacheProofs --------------------------
(***************************************************************************)
(* The query cache is never ahead of the key file, for every set of        *)
(* targets and sessions, with either client and any number of faults.      *)
(***************************************************************************)
EXTENDS SshKeyCache, TLAPS

\* What the script that holds the lock knows: query_cache is still as it read
\* it, each target it has asked is accounted for, and the keys it found are
\* written or still to be written.
HolderOK(x) ==
  LET r == scripts[x] IN
  /\ r.pc \in {"list", "fetch", "write"} => r.skip = query
  /\ r.full => r.skip = {}
  /\ r.asked \subseteq r.skip \cup r.found \cup blank
  /\ r.pc = "list" => r.found = {} /\ r.asked = {}
  /\ r.pc = "write" => r.found \subseteq cached \cup r.todo /\ r.todo \subseteq r.found
  /\ r.pc = "write" /\ r.full => cached \subseteq r.found
  /\ r.pc = "record" => r.asked \subseteq cached \cup blank /\ r.todo \subseteq r.asked
  /\ r.pc = "record" /\ r.full => cached = r.found

HoldersOK == \A x \in Scripts : scripts[x].pc \notin {"idle", "start"} => HolderOK(x)

\* A script that waits for the lock has done nothing yet.
StartersOK ==
  \A x \in Scripts : scripts[x].pc = "start" =>
    /\ scripts[x].found = {} /\ scripts[x].asked = {} /\ scripts[x].todo = {}

\* The update script of a session runs only while the session waits for it, and
\* nothing runs while the container is down.
SlotsOK ==
  /\ \A s \in Sessions :
       sessions[s].pc \notin {"create", "update"} => scripts[s].pc = "idle"
  /\ sshd # "up" => \A s \in Sessions : sessions[s].pc = "idle"
  /\ sshd = "down" => scripts[Background].pc = "idle"

IInv == TypeOK /\ SlotsOK /\ AskedIsRecorded /\ HoldersOK /\ StartersOK

\* The invariant holds when the container starts.
LEMMA Initially == Init => IInv
<1>. SUFFICES ASSUME Init PROVE IInv
  OBVIOUS
<1>. USE DEF Init, NoScript, NoSession
<1>1. scripts \in [Scripts -> Script] /\ sessions \in [Sessions -> Session]
  BY DEF Script, Session
<1>2. TypeOK
  BY <1>1, KeyCacheAssumption DEF TypeOK
<1>. QED
  BY <1>2, KeyCacheAssumption DEF IInv, AskedIsRecorded, HoldersOK, StartersOK, SlotsOK, Scripts

\* The script that holds the lock is the only one past "start".
LEMMA OneHolder ==
  ASSUME TypeOK, NEW x \in Scripts, NEW y \in Scripts,
         scripts[x].pc \notin {"idle", "start"}, scripts[y].pc \notin {"idle", "start"}
  PROVE  x = y
BY DEF TypeOK

-----------------------------------------------------------------------------
(* Types *)

\* Types: the steps of update_authorized_keys.py.
LEMMA TypesOfScripts ==
  ASSUME TypeOK, NEW x \in Scripts, UpdateCacheFile(x)
  PROVE  TypeOK'
<1>. USE KeyCacheAssumption
<1>1. CASE Acquire(x)
  <2>. USE <1>1 DEF Acquire
  <2>1. query' \in SUBSET Targets
    BY DEF TypeOK
  <2>2. scripts' \in [Scripts -> Script]
    <3>1. scripts[x] \in Script
      BY DEF TypeOK
    <3>2. [scripts[x] EXCEPT !.pc = "list", !.skip = query'] \in Script
      BY <2>1, <3>1 DEF Script
    <3>. QED
      BY <3>2 DEF TypeOK
  <2>3. \A y \in Scripts : lock' = y <=> scripts'[y].pc \notin {"idle", "start"}
    BY DEF TypeOK, Script
  <2>. QED
    BY <2>1, <2>2, <2>3 DEF TypeOK
<1>2. CASE GiveUp(x)
  BY <1>2 DEF TypeOK, GiveUp, Script, NoScript, files
<1>3. CASE ListTargets(x)
  <2>. USE <1>3 DEF ListTargets
  <2>1. scripts' \in [Scripts -> Script]
    <3>1. scripts[x] \in Script /\ Running \subseteq Targets
      BY DEF TypeOK, Running
    <3>2. [scripts[x] EXCEPT !.pc = "fetch", !.todo = Running] \in Script
      BY <3>1 DEF Script
    <3>. QED
      BY <3>2 DEF TypeOK
  <2>2. \A y \in Scripts : lock' = y <=> scripts'[y].pc \notin {"idle", "start"}
    BY DEF TypeOK, Script
  <2>. QED
    BY <2>1, <2>2 DEF TypeOK, files
<1>4. ASSUME NEW c \in Targets, Fetch(x, c) PROVE TypeOK'
  BY <1>4 DEF TypeOK, Fetch, Skip, Ask, Script, files
<1>5. ASSUME NEW c \in Targets, WriteKey(x, c) PROVE TypeOK'
  BY <1>5 DEF TypeOK, WriteKey, Script
<1>6. CASE Raise(x)
  BY <1>6 DEF TypeOK, Raise, Script, NoScript, files
<1>7. CASE Open(x)
  <2>. USE <1>7 DEF Open
  <2>1. scripts' \in [Scripts -> Script]
    <3>1. scripts[x] \in Script
      BY DEF TypeOK
    <3>2. [scripts[x] EXCEPT !.pc = "write", !.todo = scripts[x].found] \in Script
      BY <3>1 DEF Script
    <3>. QED
      BY <3>2 DEF TypeOK
  <2>2. \A y \in Scripts : lock' = y <=> scripts'[y].pc \notin {"idle", "start"}
    BY DEF TypeOK, Script
  <2>. QED
    BY <2>1, <2>2 DEF TypeOK
<1>8. CASE OpenQuery(x)
  <2>. USE <1>8 DEF OpenQuery
  <2>1. scripts' \in [Scripts -> Script]
    <3>1. scripts[x] \in Script
      BY DEF TypeOK
    <3>2. [scripts[x] EXCEPT !.pc = "record", !.todo = scripts[x].asked] \in Script
      BY <3>1 DEF Script
    <3>. QED
      BY <3>2 DEF TypeOK
  <2>2. \A y \in Scripts : lock' = y <=> scripts'[y].pc \notin {"idle", "start"}
    BY DEF TypeOK, Script
  <2>. QED
    BY <2>1, <2>2 DEF TypeOK
<1>9. ASSUME NEW c \in Targets, WriteEntry(x, c) PROVE TypeOK'
  BY <1>9 DEF TypeOK, WriteEntry, Script
<1>10. CASE Finish(x)
  BY <1>10 DEF TypeOK, Finish, Script, NoScript, files
<1>. QED
  BY <1>1, <1>2, <1>3, <1>4, <1>5, <1>6, <1>7, <1>8, <1>9, <1>10 DEF UpdateCacheFile

\* A new script holds nothing.
LEMMA StartedType ==
  ASSUME NEW b \in BOOLEAN
  PROVE  /\ NoScript \in Script /\ NoScript.pc = "idle"
         /\ Started(b) \in Script /\ Started(b).pc = "start"
         /\ Started(b).found = {} /\ Started(b).asked = {} /\ Started(b).todo = {}
BY DEF Started, NoScript, Script

\* Starting the update script in slot x, where none runs.
LEMMA StartTypes ==
  ASSUME TypeOK, NEW x \in Scripts, scripts[x].pc = "idle", NEW b \in BOOLEAN,
         scripts' = [scripts EXCEPT ![x] = Started(b)], lock' = lock
  PROVE  /\ scripts' \in [Scripts -> Script]
         /\ \A y \in Scripts : lock' = y <=> scripts'[y].pc \notin {"idle", "start"}
BY StartedType DEF TypeOK

\* Types: logins, the container and the targets.
LEMMA TypesOfOthers ==
  ASSUME TypeOK, SlotsOK,
         \/ \E s \in Sessions : Authorize(s)
         \/ \E s \in Sessions, c \in Targets : Login(s, c)
         \/ Boot \/ Serve \/ Restart
         \/ \E c \in Targets : StartTarget(c) \/ KeyWritten(c) \/ StopTarget(c)
         \/ Grow
  PROVE  TypeOK'
<1>. USE KeyCacheAssumption
<1>1. ASSUME NEW s \in Sessions, Authorize(s) PROVE TypeOK'
  <2>1. CASE Created(s)
    <3>1. sessions[s] \in Session /\ age \in {"none", "new", "stale", "old"}
      BY DEF TypeOK
    <3>2. [sessions[s] EXCEPT !.pc = "grep", !.age = IF exists THEN age ELSE "none"] \in Session
      BY <3>1 DEF Session
    <3>3. sessions' \in [Sessions -> Session]
      BY <2>1, <3>2 DEF Created, TypeOK
    <3>. QED
      BY <2>1, <3>3 DEF Created, TypeOK, files
  <2>2. CASE Unknown(s)
    <3>1. sessions' \in [Sessions -> Session]
      <4>1. /\ [sessions[s] EXCEPT !.pc = "update"] \in Session
            /\ [sessions[s] EXCEPT !.pc = "cat"] \in Session
        <5>1. sessions[s] \in Session
          BY DEF TypeOK
        <5>. QED
          BY <5>1 DEF Session
      <4>2. sessions' \in {[sessions EXCEPT ![s].pc = "update"], [sessions EXCEPT ![s].pc = "cat"]}
        BY <2>2 DEF Unknown
      <4>3. sessions \in [Sessions -> Session]
        BY DEF TypeOK
      <4>. QED
        BY <4>1, <4>2, <4>3
    <3>2. /\ scripts' \in [Scripts -> Script]
          /\ \A y \in Scripts : lock' = y <=> scripts'[y].pc \notin {"idle", "start"}
      <4>1. s \in Scripts /\ scripts[s].pc = "idle" /\ lock' = lock
        BY <2>2 DEF Unknown, SlotsOK, Scripts
      <4>2. scripts' = scripts \/ scripts' = [scripts EXCEPT ![s] = Started(FALSE)]
        BY <2>2 DEF Unknown
      <4>. QED
        BY <4>1, <4>2, StartTypes DEF TypeOK
    <3>. QED
      BY <2>2, <3>1, <3>2 DEF Unknown, TypeOK, files
  <2>3. CASE Known(s)
    <3>1. sessions' \in [Sessions -> Session]
      BY <2>3 DEF Known, TypeOK, Session
    <3>2. /\ scripts' \in [Scripts -> Script]
          /\ \A y \in Scripts : lock' = y <=> scripts'[y].pc \notin {"idle", "start"}
      BY <2>3, StartTypes DEF Known, TypeOK, Scripts
    <3>. QED
      BY <2>3, <3>1, <3>2 DEF Known, TypeOK, files
  <2>4. CASE Updated(s)
    BY <2>4 DEF TypeOK, Updated, Session, files
  <2>5. CASE Cat(s)
    BY <2>5 DEF TypeOK, Cat, Session, NoSession, files
  <2>. QED
    BY <1>1, <2>1, <2>2, <2>3, <2>4, <2>5 DEF Authorize
<1>2. ASSUME NEW s \in Sessions, NEW c \in Targets, Login(s, c) PROVE TypeOK'
  <2>1. sessions' \in [Sessions -> Session]
    <3>1. /\ [pc |-> "grep", target |-> c, age |-> age, had |-> c \in cached] \in Session
          /\ [pc |-> "create", target |-> c, age |-> "none", had |-> FALSE] \in Session
      BY DEF TypeOK, Session
    <3>. QED
      BY <1>2, <3>1 DEF Login, TypeOK
  <2>2. /\ scripts' \in [Scripts -> Script]
        /\ \A y \in Scripts : lock' = y <=> scripts'[y].pc \notin {"idle", "start"}
    BY <1>2, StartTypes DEF Login, TypeOK, SlotsOK, Scripts
  <2>. QED
    BY <1>2, <2>1, <2>2 DEF Login, TypeOK, files
<1>3. CASE Boot
  <2>1. /\ scripts' \in [Scripts -> Script]
        /\ \A y \in Scripts : lock' = y <=> scripts'[y].pc \notin {"idle", "start"}
    BY <1>3, StartTypes DEF Boot, SlotsOK, Scripts
  <2>. QED
    BY <1>3, <2>1 DEF Boot, TypeOK, files
<1>4. CASE Serve
  BY <1>4 DEF TypeOK, Serve, files
<1>5. CASE Restart
  BY <1>5 DEF TypeOK, Restart, Script, NoScript, Session, NoSession, files, Scripts
<1>6. ASSUME NEW c \in Targets, StartTarget(c) \/ KeyWritten(c) \/ StopTarget(c)
      PROVE  TypeOK'
  BY <1>6 DEF TypeOK, StartTarget, KeyWritten, StopTarget, files
<1>7. CASE Grow
  BY <1>7 DEF TypeOK, Grow
<1>. QED
  BY <1>1, <1>2, <1>3, <1>4, <1>5, <1>6, <1>7

\* Which script runs when: every step.
LEMMA SlotsStep == ASSUME TypeOK, SlotsOK, Next PROVE SlotsOK'
<1>. USE KeyCacheAssumption
<1>1. ASSUME NEW x \in Scripts, UpdateCacheFile(x) PROVE SlotsOK'
  <2>1. scripts[x].pc # "idle" /\ UNCHANGED <<sessions, sshd>>
    BY <1>1 DEF UpdateCacheFile, Acquire, GiveUp, ListTargets, Fetch, WriteKey,
       Raise, Open, OpenQuery, WriteEntry, Finish
  <2>2. \A y \in Scripts : y # x => scripts'[y] = scripts[y]
    BY <1>1 DEF TypeOK, UpdateCacheFile, Acquire, GiveUp, ListTargets, Fetch, Skip, Ask,
       WriteKey, Raise, Open, OpenQuery, WriteEntry, Finish
  <2>. QED
    BY <2>1, <2>2 DEF SlotsOK, Scripts
<1>2. ASSUME NEW s \in Sessions, Authorize(s) PROVE SlotsOK'
  <2>1. CASE Created(s) \/ Updated(s) \/ Cat(s)
    BY <2>1 DEF Created, Updated, Cat, TypeOK, SlotsOK, NoSession
  <2>2. CASE Unknown(s)
    <3>1. /\ sshd' = sshd /\ sshd = "up"
          /\ \A x \in Scripts : x # s => scripts'[x] = scripts[x]
          /\ \A t \in Sessions : t # s => sessions'[t] = sessions[t]
      BY <2>2 DEF Unknown, TypeOK, SlotsOK
    <3>2. sessions'[s].pc = "update" \/ scripts'[s].pc = "idle"
      <4>1. CASE sessions[s].age \in {"stale", "old"}
        BY <2>2, <4>1 DEF Unknown, TypeOK, Session
      <4>2. CASE sessions[s].age \notin {"stale", "old"}
        BY <2>2, <4>2 DEF Unknown, SlotsOK
      <4>. QED
        BY <4>1, <4>2
    <3>. QED
      BY <3>1, <3>2 DEF SlotsOK, Scripts
  <2>3. CASE Known(s)
    BY <2>3 DEF Known, TypeOK, SlotsOK, Scripts
  <2>. QED
    BY <1>2, <2>1, <2>2, <2>3 DEF Authorize
<1>3. ASSUME NEW s \in Sessions, NEW c \in Targets, Login(s, c) PROVE SlotsOK'
  <2>1. /\ sshd' = sshd /\ sshd = "up"
        /\ \A x \in Scripts : x # s => scripts'[x] = scripts[x]
        /\ \A t \in Sessions : t # s => sessions'[t] = sessions[t]
    BY <1>3 DEF Login, TypeOK
  <2>2. sessions'[s].pc = "create" \/ scripts'[s].pc = "idle"
    <3>1. exists => scripts'[s].pc = "idle"
      BY <1>3 DEF Login, SlotsOK
    <3>2. ~exists => sessions'[s].pc = "create"
      BY <1>3 DEF Login, TypeOK
    <3>. QED
      BY <3>1, <3>2
  <2>. QED
    BY <2>1, <2>2 DEF SlotsOK, Scripts
<1>4. CASE Boot \/ Serve \/ Restart
  <2>1. CASE Boot
    <3>1. sshd' = "booting" /\ \A s \in Sessions : scripts'[s] = scripts[s]
      BY <2>1 DEF Boot, TypeOK, Scripts
    <3>. QED
      BY <2>1, <3>1 DEF Boot, SlotsOK
  <2>2. CASE Serve
    BY <2>2 DEF Serve, SlotsOK
  <2>3. CASE Restart
    BY <2>3 DEF Restart, SlotsOK, Scripts, NoScript, NoSession
  <2>. QED
    BY <1>4, <2>1, <2>2, <2>3
<1>5. CASE Grow \/ \E c \in Targets : StartTarget(c) \/ KeyWritten(c) \/ StopTarget(c)
  BY <1>5 DEF Grow, StartTarget, KeyWritten, StopTarget, SlotsOK
<1>. QED
  BY <1>1, <1>2, <1>3, <1>4, <1>5 DEF Next

-----------------------------------------------------------------------------
(* The query cache and the key file *)

\* After a step of the script that has, gets or gives up the lock, no other
\* script holds it.
LEMMA OthersWait ==
  ASSUME TypeOK, TypeOK', NEW x \in Scripts, lock = x \/ lock' = x,
         \A y \in Scripts : y # x => scripts'[y] = scripts[y]
  PROVE  \A y \in Scripts : y # x => scripts'[y].pc \in {"idle", "start"}
BY DEF TypeOK

\* A script writes query_cache behind the keys, so every step of it keeps the invariant.
LEMMA RecordedByScripts ==
  ASSUME IInv, NEW x \in Scripts, UpdateCacheFile(x)
  PROVE  AskedIsRecorded' /\ HoldersOK' /\ StartersOK'
<1>1. TypeOK /\ TypeOK' /\ AskedIsRecorded /\ HoldersOK /\ StartersOK
  BY TypesOfScripts DEF IInv
<1>2. scripts[x] \in Script
  BY <1>1 DEF TypeOK
<1>3. \A y \in Scripts : y # x => scripts'[y] = scripts[y]
  BY <1>1 DEF TypeOK, UpdateCacheFile, Acquire, GiveUp, ListTargets, Fetch, Skip, Ask,
     WriteKey, Raise, Open, OpenQuery, WriteEntry, Finish
<1>4. scripts[x].pc \notin {"idle", "start"} => HolderOK(x)
  BY <1>1 DEF HoldersOK
<1>5. CASE GiveUp(x)
  BY <1>1, <1>3, <1>5 DEF GiveUp, NoScript, files, TypeOK, AskedIsRecorded, HoldersOK,
     HolderOK, StartersOK
<1>6. SUFFICES ASSUME ~ GiveUp(x)
               PROVE  AskedIsRecorded' /\ HoldersOK' /\ StartersOK'
  BY <1>5
<1>6a. lock = x \/ lock' = x
  <2>1. CASE Acquire(x)
    BY <2>1 DEF Acquire
  <2>2. CASE ListTargets(x) \/ Raise(x) \/ Open(x) \/ OpenQuery(x) \/ Finish(x)
    <3>1. scripts[x].pc \notin {"idle", "start"}
      BY <2>2 DEF ListTargets, Raise, Open, OpenQuery, Finish
    <3>. QED
      BY <1>1, <3>1 DEF TypeOK
  <2>3. CASE \E c \in Targets : Fetch(x, c) \/ WriteKey(x, c) \/ WriteEntry(x, c)
    <3>1. scripts[x].pc \in {"fetch", "write", "record"}
      BY <2>3 DEF Fetch, WriteKey, WriteEntry
    <3>. QED
      BY <1>1, <3>1 DEF TypeOK
  <2>. QED
    BY <1>6, <2>1, <2>2, <2>3 DEF UpdateCacheFile
<1>6b. \A y \in Scripts : y # x => scripts'[y].pc \in {"idle", "start"}
  BY <1>1, <1>3, <1>6a, OthersWait
<1>6c. SUFFICES /\ AskedIsRecorded'
                /\ scripts'[x].pc # "start"
                /\ scripts'[x].pc # "idle" => HolderOK(x)'
  BY <1>1, <1>3, <1>6b DEF HoldersOK, StartersOK
<1>7. CASE Acquire(x)
  BY <1>1, <1>2, <1>7 DEF Acquire, TypeOK, AskedIsRecorded, StartersOK, HolderOK
<1>8. CASE ListTargets(x)
  BY <1>1, <1>2, <1>4, <1>8 DEF ListTargets, files, TypeOK, AskedIsRecorded, HolderOK
<1>9. ASSUME NEW c \in Targets, Fetch(x, c)
      PROVE  AskedIsRecorded' /\ scripts'[x].pc = "fetch" /\ HolderOK(x)'
  <2>1. CASE Skip(x, c)
    BY <1>1, <1>2, <1>4, <1>9, <2>1 DEF Fetch, Skip, files, TypeOK, AskedIsRecorded, HolderOK
  <2>2. CASE Ask(x, c)
    <3>1. /\ scripts[x].pc = "fetch" /\ c \notin scripts[x].skip
          /\ UNCHANGED <<query, cached>> /\ HolderOK(x) /\ query \subseteq cached \cup blank
      BY <1>1, <1>4, <1>9, <2>2 DEF Fetch, Ask, files, AskedIsRecorded
    <3>2. c \notin query
      BY <3>1 DEF HolderOK
    <3>3. /\ scripts'[x].pc = "fetch" /\ scripts'[x].skip = scripts[x].skip
          /\ scripts'[x].full = scripts[x].full
          /\ \/ /\ scripts'[x].found = scripts[x].found \cup {c}
                /\ scripts'[x].asked = scripts[x].asked \cup {c}
                /\ blank' = blank \ {c}
             \/ /\ scripts'[x].found = scripts[x].found
                /\ scripts'[x].asked = scripts[x].asked \cup {c}
                /\ blank' = blank \cup {c}
             \/ /\ scripts'[x].found = scripts[x].found
                /\ scripts'[x].asked = scripts[x].asked
                /\ blank' = blank
      BY <1>1, <1>2, <2>2, <3>1 DEF Ask, TypeOK, Script
    <3>4. AskedIsRecorded'
      BY <3>1, <3>2, <3>3 DEF AskedIsRecorded
    <3>. QED
      BY <3>1, <3>2, <3>3, <3>4 DEF HolderOK
  <2>. QED
    BY <1>9, <2>1, <2>2 DEF Fetch
<1>10. ASSUME NEW c \in Targets, WriteKey(x, c)
       PROVE  AskedIsRecorded' /\ scripts'[x].pc = "write" /\ HolderOK(x)'
  BY <1>1, <1>2, <1>4, <1>10 DEF WriteKey, TypeOK, AskedIsRecorded, HolderOK
<1>11. CASE Raise(x)
  BY <1>1, <1>11 DEF Raise, NoScript, files, TypeOK, AskedIsRecorded
<1>12. CASE Open(x)
  BY <1>1, <1>2, <1>4, <1>12 DEF Open, TypeOK, AskedIsRecorded, HolderOK
<1>13. CASE OpenQuery(x)
  <2>1. HolderOK(x) /\ query \subseteq cached \cup blank
    BY <1>1, <1>4, <1>13 DEF OpenQuery, AskedIsRecorded
  <2>2. /\ scripts'[x] = [scripts[x] EXCEPT !.pc = "record", !.todo = scripts[x].asked]
        /\ scripts[x].pc = "write" /\ scripts[x].todo = {}
        /\ query' = {} /\ UNCHANGED <<cached, blank>>
    BY <1>1, <1>13 DEF OpenQuery, TypeOK
  <2>3. scripts[x].asked \subseteq cached \cup blank
    BY <2>1, <2>2 DEF HolderOK
  <2>. QED
    BY <1>2, <2>1, <2>2, <2>3 DEF HolderOK, AskedIsRecorded, Script
<1>14. ASSUME NEW c \in Targets, WriteEntry(x, c)
       PROVE  AskedIsRecorded' /\ scripts'[x].pc = "record" /\ HolderOK(x)'
  BY <1>1, <1>2, <1>4, <1>14 DEF WriteEntry, TypeOK, AskedIsRecorded, HolderOK
<1>15. CASE Finish(x)
  BY <1>1, <1>2, <1>15 DEF Finish, NoScript, files, TypeOK, AskedIsRecorded
<1>. QED
  BY <1>6, <1>7, <1>8, <1>9, <1>10, <1>11, <1>12, <1>13, <1>14, <1>15 DEF UpdateCacheFile

\* Logins start scripts and read the files; a restart ends all scripts and keeps the files.
LEMMA RecordedByOthers ==
  ASSUME IInv,
         \/ \E s \in Sessions : Authorize(s)
         \/ \E s \in Sessions, c \in Targets : Login(s, c)
         \/ Boot \/ Serve \/ Restart
         \/ \E c \in Targets : StartTarget(c) \/ KeyWritten(c) \/ StopTarget(c)
         \/ Grow
  PROVE  AskedIsRecorded' /\ HoldersOK' /\ StartersOK'
<1>1. UNCHANGED <<cached, query, blank>>
  BY DEF Authorize, Created, Unknown, Known, Updated, Cat, Login, Boot, Serve, Restart,
     StartTarget, KeyWritten, StopTarget, Grow, files
<1>2. ASSUME NEW x \in Scripts
      PROVE  \/ scripts'[x] = scripts[x] \/ scripts'[x] = NoScript
             \/ \E b \in BOOLEAN : scripts'[x] = Started(b)
  BY DEF IInv, TypeOK, Authorize, Created, Unknown, Known, Updated, Cat, Login, Boot, Serve,
     Restart, StartTarget, KeyWritten, StopTarget, Grow
<1>3. ASSUME NEW x \in Scripts PROVE HolderOK(x) /\ scripts'[x] = scripts[x] => HolderOK(x)'
  BY <1>1 DEF HolderOK
<1>4. HoldersOK'
  <2>. SUFFICES ASSUME NEW x \in Scripts, scripts'[x].pc \notin {"idle", "start"}
                PROVE  HolderOK(x)'
    BY DEF HoldersOK
  <2>1. scripts'[x] = scripts[x]
    BY <1>2, StartedType
  <2>. QED
    BY <1>3, <2>1 DEF IInv, HoldersOK
<1>5. StartersOK'
  <2>. SUFFICES ASSUME NEW x \in Scripts, scripts'[x].pc = "start"
                PROVE  /\ scripts'[x].found = {} /\ scripts'[x].asked = {}
                       /\ scripts'[x].todo = {}
    BY DEF StartersOK
  <2>1. CASE scripts'[x] = scripts[x]
    BY <2>1 DEF IInv, StartersOK
  <2>2. CASE scripts'[x] # scripts[x]
    BY <1>2, <2>2, StartedType
  <2>. QED
    BY <2>1, <2>2
<1>. QED
  BY <1>1, <1>4, <1>5 DEF IInv, AskedIsRecorded

-----------------------------------------------------------------------------
(* The theorems *)

\* The invariant holds for ever.
LEMMA Invariance == Spec => []IInv
<1>1. IInv /\ UNCHANGED vars => IInv'
  BY DEF vars, files, IInv, TypeOK, SlotsOK, AskedIsRecorded, HoldersOK, HolderOK, StartersOK
<1>2. IInv /\ Next => IInv'
  <2>. SUFFICES ASSUME IInv, Next PROVE IInv'
    OBVIOUS
  <2>1. TypeOK'
    BY TypesOfScripts, TypesOfOthers DEF IInv, Next
  <2>2. SlotsOK'
    BY SlotsStep DEF IInv
  <2>3. AskedIsRecorded' /\ HoldersOK' /\ StartersOK'
    BY RecordedByScripts, RecordedByOthers DEF Next
  <2>. QED
    BY <2>1, <2>2, <2>3 DEF IInv
<1>. QED
  BY Initially, <1>1, <1>2, PTL DEF Spec

\* Types, and the file lock: it is held exactly by the one script at work, also
\* after exceptions and restarts.
THEOREM KeyCacheTypes == Spec => []TypeOK
BY Invariance, PTL DEF IInv

\* No run of the update, interrupted or not, leaves a target in the query cache
\* whose key is missing from the key file: no key is skipped for ever.
THEOREM KeyCacheAskedIsRecorded == Spec => []AskedIsRecorded
BY Invariance, PTL DEF IInv

\* A full run leaves exactly the keys it found.
THEOREM KeyCacheFullRunReplaces == Spec => []FullRunReplaces
<1>1. IInv => FullRunReplaces
  BY DEF IInv, HoldersOK, HolderOK, FullRunReplaces
<1>. QED
  BY Invariance, <1>1, PTL

-----------------------------------------------------------------------------
(* Keys that are known are printed *)

\* A key is only ever got from a target that has one and gives it away.
Keyed(c) == status[c] \in {"ready", "stopped"} /\ ~(Kubernetes /\ c \in NoApi)

KeysOK ==
  /\ \A c \in cached : Keyed(c)
  /\ \A x \in Scripts : \A c \in scripts[x].found : Keyed(c)

\* A full run passes over no key that is on file, but those of stopped targets.
CoverOK ==
  \A x \in Scripts : scripts[x].full /\ scripts[x].pc = "fetch" =>
    \A c \in cached :
      status[c] = "stopped" \/ c \in scripts[x].todo \cup scripts[x].found

\* A key that was cut off is named neither by query_cache nor by what the script
\* at work is about to name there, unless that script writes the key before.
TornOK ==
  /\ \A c \in torn : Keyed(c) /\ c \notin query
  /\ \A x \in Scripts : scripts[x].pc \notin {"idle", "start"} =>
       \A c \in torn \cap scripts[x].asked :
         \/ scripts[x].pc \in {"list", "fetch"} /\ c \in scripts[x].found
         \/ scripts[x].pc = "write" /\ c \in scripts[x].todo

\* What a login has found stays, goes with its target, is about to be written
\* again, or was cut off.
Kept(c) ==
  \/ c \in cached \cup torn
  \/ status[c] = "stopped"
  \/ \E x \in Scripts : scripts[x].full /\ scripts[x].pc = "write" /\ c \in scripts[x].todo

HadOK ==
  \A s \in Sessions : sessions[s].had =>
    sessions[s].target \in Targets /\ Kept(sessions[s].target)

KInv == KeysOK /\ CoverOK /\ TornOK /\ HadOK

\* No key is known before the first run.
LEMMA KnownInitially == Init => KInv
BY DEF Init, NoScript, NoSession, KInv, KeysOK, CoverOK, TornOK, HadOK

\* A key that was cut off is written before query_cache names its target: each
\* step of a script.
LEMMA TornByScripts ==
  ASSUME IInv, KInv, NEW x \in Scripts, UpdateCacheFile(x)
  PROVE  TornOK'
<1>1. /\ TypeOK /\ TypeOK' /\ scripts[x] \in Script /\ UNCHANGED <<status, sessions>>
      /\ TornOK /\ KeysOK
  BY TypesOfScripts DEF IInv, KInv, TypeOK, UpdateCacheFile, Acquire, GiveUp, ListTargets,
     Fetch, WriteKey, Raise, Open, OpenQuery, WriteEntry, Finish
<1>2. \A y \in Scripts : y # x => scripts'[y] = scripts[y]
  BY <1>1 DEF TypeOK, UpdateCacheFile, Acquire, GiveUp, ListTargets, Fetch,
     Skip, Ask, WriteKey, Raise, Open, OpenQuery, WriteEntry, Finish
<1>3. scripts[x].pc \notin {"idle", "start"} => HolderOK(x)
  BY DEF IInv, HoldersOK
<1>4. CASE GiveUp(x)
  BY <1>1, <1>2, <1>4 DEF GiveUp, NoScript, files, TypeOK, TornOK, Keyed
<1>5. SUFFICES ASSUME ~ GiveUp(x) PROVE TornOK'
  BY <1>4
<1>6. \A y \in Scripts : y # x => scripts'[y].pc \in {"idle", "start"}
  <2>1. CASE Acquire(x)
    BY <1>1, <1>2, <2>1, OthersWait DEF Acquire
  <2>2. CASE ~ Acquire(x)
    <3>1. scripts[x].pc \notin {"idle", "start"}
      BY <1>5, <2>2 DEF UpdateCacheFile, ListTargets, Fetch, WriteKey, Raise, Open,
         OpenQuery, WriteEntry, Finish
    <3>. QED
      BY <1>1, <1>2, <3>1, OthersWait DEF TypeOK
  <2>. QED
    BY <2>1, <2>2
<1>7. /\ \A c \in torn' : Keyed(c) /\ c \notin query'
      /\ scripts'[x].pc \notin {"idle", "start"} =>
           \A c \in torn' \cap scripts'[x].asked :
             \/ scripts'[x].pc \in {"list", "fetch"} /\ c \in scripts'[x].found
             \/ scripts'[x].pc = "write" /\ c \in scripts'[x].todo
      => TornOK'
  BY <1>1, <1>6 DEF TornOK, Keyed
<1>8. CASE Acquire(x)
  BY <1>1, <1>7, <1>8 DEF Acquire, IInv, StartersOK, TornOK, TypeOK
<1>9. CASE ListTargets(x)
  BY <1>1, <1>3, <1>7, <1>9 DEF ListTargets, files, HolderOK, TornOK, TypeOK, Script
<1>10. ASSUME NEW c \in Targets, Fetch(x, c) PROVE TornOK'
  <2>1. scripts[x].pc = "fetch" /\ HolderOK(x) /\ UNCHANGED <<torn, query>>
    BY <1>3, <1>10 DEF Fetch, files
  <2>2. /\ scripts'[x].pc = "fetch"
        /\ \/ scripts'[x].asked = scripts[x].asked
              /\ scripts'[x].found = scripts[x].found
           \/ /\ scripts'[x].asked = scripts[x].asked \cup {c}
              /\ \/ scripts'[x].found = scripts[x].found \cup {c}
                 \/ /\ scripts'[x].found = scripts[x].found
                    /\ c \in scripts[x].skip \/ "text" \in Answers(c)
    <3>1. CASE Skip(x, c)
      BY <1>1, <2>1, <3>1 DEF Skip, TypeOK, Script
    <3>2. CASE Ask(x, c)
      BY <1>1, <2>1, <3>2 DEF Ask, TypeOK, Script
    <3> QED BY <1>10, <3>1, <3>2 DEF Fetch
  <2>3. c \in torn => c \notin scripts[x].skip /\ "text" \notin Answers(c)
    BY <1>1, <2>1 DEF TornOK, HolderOK, Keyed, Answers
  <2>4. \A d \in torn \cap scripts[x].asked : d \in scripts[x].found
    BY <1>1, <2>1 DEF TornOK
  <2>. QED
    BY <1>1, <1>7, <2>1, <2>2, <2>3, <2>4 DEF TornOK
<1>11. ASSUME NEW c \in Targets, WriteKey(x, c) PROVE TornOK'
  BY <1>1, <1>7, <1>11 DEF WriteKey, TornOK, TypeOK, Script
<1>12. CASE Raise(x)
  <2>1. /\ scripts'[x].pc = "idle" /\ query' = query
        /\ scripts[x].pc \notin {"idle", "start"} /\ HolderOK(x)
        /\ torn' = IF scripts[x].full /\ scripts[x].pc = "write"
                   THEN torn \cup scripts[x].todo ELSE torn
    BY <1>1, <1>3, <1>7, <1>12 DEF Raise, NoScript, files, TypeOK
  <2>2. scripts[x].full /\ scripts[x].pc = "write" =>
          query = {} /\ \A c \in scripts[x].todo : Keyed(c)
    BY <1>1, <2>1 DEF HolderOK, KeysOK
  <2>. QED
    BY <1>1, <1>7, <2>1, <2>2 DEF TornOK
<1>13. CASE Open(x)
  BY <1>1, <1>7, <1>13 DEF Open, TornOK, TypeOK, Script
<1>14. CASE OpenQuery(x)
  BY <1>1, <1>7, <1>14 DEF OpenQuery, TornOK, TypeOK, Script
<1>15. ASSUME NEW c \in Targets, WriteEntry(x, c) PROVE TornOK'
  BY <1>1, <1>3, <1>7, <1>15 DEF WriteEntry, HolderOK, TornOK, TypeOK, Script
<1>16. CASE Finish(x)
  BY <1>1, <1>7, <1>16 DEF Finish, NoScript, files, TornOK, TypeOK
<1> QED BY <1>5, <1>8, <1>9, <1>10, <1>11, <1>12, <1>13, <1>14, <1>15, <1>16 DEF UpdateCacheFile

\* Steps of a script that change no key on file.
LEMMA KeysUntouched ==
  ASSUME KInv, NEW x \in Scripts,
         UNCHANGED <<cached, status, sessions>>,
         \A y \in Scripts : y # x => scripts'[y] = scripts[y],
         torn \subseteq torn',
         scripts[x].full /\ scripts[x].pc = "write" => scripts[x].todo \subseteq torn',
         scripts'[x].found \subseteq scripts[x].found,
         scripts'[x].pc # "fetch", TornOK'
  PROVE  KInv'
<1>1. KeysOK'
  BY DEF KInv, KeysOK, Keyed
<1>2. CoverOK'
  BY DEF KInv, CoverOK
<1>3. ASSUME NEW c, Kept(c) PROVE Kept(c)'
  BY <1>3 DEF Kept
<1>4. HadOK'
  BY <1>3 DEF KInv, HadOK
<1> QED BY <1>1, <1>2, <1>4 DEF KInv

\* The script adds and removes a key in file and cache alike when it writes the file.
LEMMA KnownByScripts ==
  ASSUME IInv, KInv, NEW x \in Scripts, UpdateCacheFile(x)
  PROVE  KInv'
<1>1. TypeOK /\ scripts[x] \in Script /\ UNCHANGED <<status, sessions>>
  BY DEF IInv, TypeOK, UpdateCacheFile, Acquire, GiveUp, ListTargets, Fetch,
     WriteKey, Raise, Open, OpenQuery, WriteEntry, Finish
<1>2. \A y \in Scripts : y # x => scripts'[y] = scripts[y]
  BY <1>1 DEF TypeOK, UpdateCacheFile, Acquire, GiveUp, ListTargets, Fetch,
     Skip, Ask, WriteKey, Raise, Open, OpenQuery, WriteEntry, Finish
<1>3. scripts[x].pc \notin {"idle", "start"} => HolderOK(x)
  BY DEF IInv, HoldersOK
<1>3a. TornOK'
  BY TornByScripts
<1>4. CASE \/ Acquire(x) \/ GiveUp(x) \/ Raise(x) \/ OpenQuery(x) \/ Finish(x)
           \/ \E c \in Targets : WriteEntry(x, c)
  <2>1. cached' = cached
    BY <1>4 DEF Acquire, GiveUp, Raise, OpenQuery, WriteEntry, Finish, files
  <2>2. torn \subseteq torn' /\ (scripts[x].full /\ scripts[x].pc = "write" => scripts[x].todo \subseteq torn')
    BY <1>4 DEF Acquire, GiveUp, Raise, OpenQuery, WriteEntry, Finish
  <2>3. scripts'[x].found \subseteq scripts[x].found /\ scripts'[x].pc # "fetch"
    <3>1. CASE Acquire(x)
      BY <1>1, <3>1 DEF Acquire, TypeOK, Script
    <3>2. CASE OpenQuery(x)
      BY <1>1, <3>2 DEF OpenQuery, TypeOK, Script
    <3>3. CASE GiveUp(x) \/ Raise(x) \/ Finish(x)
      BY <1>1, <3>3 DEF GiveUp, Raise, Finish, NoScript, TypeOK
    <3>4. CASE \E c \in Targets : WriteEntry(x, c)
      BY <1>1, <3>4 DEF WriteEntry, TypeOK, Script
    <3> QED BY <1>4, <3>1, <3>2, <3>3, <3>4
  <2> QED BY <1>1, <1>2, <1>3a, <2>1, <2>2, <2>3, KeysUntouched
<1>5. CASE ListTargets(x)
  <2>1. /\ scripts[x].pc = "list" /\ cached' = cached /\ torn' = torn
        /\ scripts'[x] = [scripts[x] EXCEPT !.pc = "fetch", !.todo = Running]
    BY <1>1, <1>5 DEF ListTargets, files, TypeOK
  <2>2. scripts'[x].found = scripts[x].found /\ scripts'[x].todo = Running
        /\ scripts'[x].pc = "fetch"
    BY <1>1, <2>1 DEF Script
  <2>3. KeysOK'
    BY <1>1, <1>2, <2>1, <2>2 DEF KInv, KeysOK, Keyed
  <2>4. \A c \in cached : status[c] = "stopped" \/ c \in Running
    BY <1>1 DEF KInv, KeysOK, Keyed, Running, TypeOK
  <2>5. CoverOK'
    BY <1>1, <1>2, <2>1, <2>2, <2>4 DEF KInv, CoverOK
  <2>6. ASSUME NEW c, Kept(c) PROVE Kept(c)'
    BY <1>1, <1>2, <2>1, <2>6 DEF Kept
  <2>7. HadOK'
    BY <1>1, <2>6 DEF KInv, HadOK
  <2> QED BY <1>3a, <2>3, <2>5, <2>7 DEF KInv
<1>6. ASSUME NEW c \in Targets, Fetch(x, c) PROVE KInv'
  <2>1. /\ scripts[x].pc = "fetch" /\ cached' = cached /\ torn' = torn
        /\ c \in scripts[x].todo /\ HolderOK(x)
    BY <1>3, <1>6 DEF Fetch, files
  <2>2. /\ scripts'[x].pc = "fetch" /\ scripts'[x].full = scripts[x].full
        /\ scripts'[x].todo = scripts[x].todo \ {c}
        /\ \/ /\ scripts'[x].found = scripts[x].found
              /\ \/ c \in scripts[x].skip
                 \/ "text" \in Answers(c) \/ "nothing" \in Answers(c)
           \/ scripts'[x].found = scripts[x].found \cup {c} /\ "key" \in Answers(c)
    <3>1. CASE Skip(x, c)
      BY <1>1, <2>1, <3>1 DEF Skip, TypeOK, Script
    <3>2. CASE Ask(x, c)
      BY <1>1, <2>1, <3>2 DEF Ask, TypeOK, Script
    <3> QED BY <1>6, <3>1, <3>2 DEF Fetch
  <2>3. "key" \in Answers(c) => Keyed(c)
    BY DEF Answers, Keyed
  <2>4. Keyed(c) /\ ("text" \in Answers(c) \/ "nothing" \in Answers(c))
          => status[c] = "stopped"
    BY DEF Answers, Keyed
  <2>5. KeysOK'
    BY <1>1, <1>2, <2>1, <2>2, <2>3 DEF KInv, KeysOK, Keyed
  <2>6. CoverOK'
    <3>1. scripts[x].full =>
            \A d \in cached : status[d] = "stopped"
              \/ d \in scripts'[x].todo \cup scripts'[x].found
      <4>1. c \in cached => Keyed(c)
        BY DEF KInv, KeysOK
      <4>2. scripts[x].full => scripts[x].skip = {}
        BY <2>1 DEF HolderOK
      <4>3. scripts[x].full => \A d \in cached : status[d] = "stopped"
              \/ d \in scripts[x].todo \cup scripts[x].found
        BY <2>1 DEF KInv, CoverOK
      <4> QED BY <2>2, <2>4, <4>1, <4>2, <4>3
    <3> QED BY <1>1, <1>2, <2>1, <2>2, <3>1 DEF KInv, CoverOK
  <2>7. ASSUME NEW d, Kept(d) PROVE Kept(d)'
    BY <1>1, <1>2, <2>1, <2>7 DEF Kept
  <2>8. HadOK'
    BY <1>1, <2>7 DEF KInv, HadOK
  <2> QED BY <1>3a, <2>5, <2>6, <2>8 DEF KInv
<1>7. ASSUME NEW c \in Targets, WriteKey(x, c) PROVE KInv'
  <2>1. /\ scripts[x].pc = "write" /\ cached' = cached \cup {c} /\ torn' = torn \ {c}
        /\ c \in scripts[x].todo /\ HolderOK(x)
        /\ scripts'[x] = [scripts[x] EXCEPT !.todo = scripts[x].todo \ {c}]
    BY <1>1, <1>3, <1>7 DEF WriteKey, TypeOK
  <2>2. /\ scripts'[x].pc = "write" /\ scripts'[x].todo = scripts[x].todo \ {c}
        /\ scripts'[x].found = scripts[x].found /\ scripts'[x].full = scripts[x].full
    BY <1>1, <2>1 DEF Script
  <2>3. Keyed(c)
    BY <2>1 DEF HolderOK, KInv, KeysOK
  <2>4. KeysOK'
    BY <1>1, <1>2, <2>1, <2>2, <2>3 DEF KInv, KeysOK, Keyed
  <2>5. \A y \in Scripts : scripts'[y].pc # "fetch"
    BY <1>1, <1>2, <2>1, <2>2, OneHolder
  <2>6. CoverOK'
    BY <2>5 DEF CoverOK
  <2>7. ASSUME NEW d, Kept(d) PROVE Kept(d)'
    BY <1>1, <1>2, <2>1, <2>2, <2>7 DEF Kept
  <2>8. HadOK'
    BY <1>1, <2>7 DEF KInv, HadOK
  <2> QED BY <1>3a, <2>4, <2>6, <2>8 DEF KInv
<1>8. CASE Open(x)
  <2>1. /\ scripts[x].pc = "fetch" /\ scripts[x].todo = {}
        /\ cached' = IF scripts[x].full THEN {} ELSE cached
        /\ torn' = torn
        /\ scripts'[x] = [scripts[x] EXCEPT !.pc = "write", !.todo = scripts[x].found]
    BY <1>1, <1>8 DEF Open, TypeOK
  <2>2. /\ scripts'[x].pc = "write" /\ scripts'[x].todo = scripts[x].found
        /\ scripts'[x].found = scripts[x].found /\ scripts'[x].full = scripts[x].full
    BY <1>1, <2>1 DEF Script
  <2>3. KeysOK'
    BY <1>1, <1>2, <2>1, <2>2 DEF KInv, KeysOK, Keyed
  <2>4. \A y \in Scripts : y # x => scripts[y].pc \in {"idle", "start"}
    BY <1>1, <2>1, OneHolder
  <2>5. CoverOK'
    BY <1>2, <2>2, <2>4 DEF CoverOK
  <2>6. ASSUME NEW d, Kept(d) PROVE Kept(d)'
    <3>1. d \in cached \cup torn \/ status[d] = "stopped"
      BY <2>1, <2>4, <2>6 DEF Kept
    <3>2. scripts[x].full /\ d \in cached =>
            status[d] = "stopped" \/ d \in scripts[x].found
      BY <2>1 DEF KInv, CoverOK
    <3> QED BY <1>1, <2>1, <2>2, <3>1, <3>2 DEF Kept
  <2>7. HadOK'
    BY <1>1, <2>6 DEF KInv, HadOK
  <2> QED BY <1>3a, <2>3, <2>5, <2>7 DEF KInv
<1> QED BY <1>4, <1>5, <1>6, <1>7, <1>8 DEF UpdateCacheFile

\* A login that has found the key on file has found it there.
LEMMA FoundAtLogin ==
  ASSUME NEW r, NEW t, NEW a, NEW f, r.had,
         \/ r = [pc |-> "grep", target |-> t, age |-> a, had |-> f]
         \/ r = [pc |-> "create", target |-> t, age |-> "none", had |-> FALSE]
  PROVE  r.target = t /\ f
<1>1. CASE r = [pc |-> "grep", target |-> t, age |-> a, had |-> f]
  <2>1. r.had = f /\ r.target = t
    BY <1>1
  <2> QED BY <2>1, Zenon
<1>2. CASE r = [pc |-> "create", target |-> t, age |-> "none", had |-> FALSE]
  BY <1>2, Zenon
<1> QED BY <1>1, <1>2

\* Sessions, targets and restarts of the jump host keep what is known.
LEMMA KnownByOthers ==
  ASSUME IInv, KInv,
         \/ \E s \in Sessions : Authorize(s)
         \/ \E s \in Sessions, c \in Targets : Login(s, c)
         \/ Boot \/ Serve \/ Restart
         \/ \E c \in Targets : StartTarget(c) \/ KeyWritten(c) \/ StopTarget(c)
         \/ Grow
  PROVE  KInv'
<1>1. UNCHANGED <<cached, torn, query>>
  BY DEF Authorize, Created, Unknown, Known, Updated, Cat, Login, Boot, Serve,
     Restart, StartTarget, KeyWritten, StopTarget, Grow, files
<1>2. ASSUME NEW x \in Scripts
      PROVE  \/ scripts'[x] = scripts[x]
             \/ /\ scripts'[x].pc \in {"idle", "start"} /\ scripts'[x].found = {}
                /\ scripts[x].pc = "idle" \/ Restart
  <2>1. CASE Restart
    <3>1. scripts'[x] = NoScript
      BY <2>1 DEF Restart
    <3> QED BY <2>1, <3>1, StartedType DEF NoScript
  <2>2. CASE ~Restart
    <3>1. \/ scripts' = scripts
          \/ \E y \in Scripts, b \in BOOLEAN :
               scripts[y].pc = "idle" /\ scripts' = [scripts EXCEPT ![y] = Started(b)]
      <4>1. ASSUME NEW s \in Sessions, Unknown(s) \/ Known(s)
            PROVE  \/ scripts' = scripts
                   \/ \E y \in Scripts, b \in BOOLEAN :
                        /\ scripts[y].pc = "idle"
                        /\ scripts' = [scripts EXCEPT ![y] = Started(b)]
        <5>1. s \in Scripts /\ Background \in Scripts
          BY DEF Scripts
        <5>2. CASE Unknown(s)
          BY <5>1, <5>2 DEF Unknown, IInv, SlotsOK
        <5>3. CASE Known(s)
          BY <5>1, <5>3 DEF Known
        <5> QED BY <4>1, <5>2, <5>3
      <4>2. ASSUME NEW s \in Sessions, NEW c \in Targets, Login(s, c)
            PROVE  \/ scripts' = scripts
                   \/ \E y \in Scripts, b \in BOOLEAN :
                        /\ scripts[y].pc = "idle"
                        /\ scripts' = [scripts EXCEPT ![y] = Started(b)]
        BY <4>2 DEF Login, IInv, SlotsOK, Scripts
      <4>3. CASE Boot
        BY <4>3 DEF Boot, IInv, SlotsOK, Scripts
      <4>4. ASSUME NEW s \in Sessions, Created(s) \/ Updated(s) \/ Cat(s)
            PROVE  scripts' = scripts
        BY <4>4 DEF Created, Updated, Cat
      <4>5. CASE Serve \/ Grow
                 \/ \E c \in Targets : StartTarget(c) \/ KeyWritten(c) \/ StopTarget(c)
        BY <4>5 DEF Serve, Grow, StartTarget, KeyWritten, StopTarget
      <4> QED BY <2>2, <4>1, <4>2, <4>3, <4>4, <4>5 DEF Authorize
    <3> QED BY <3>1, StartedType DEF IInv, TypeOK
  <2> QED BY <2>1, <2>2
<1>3. ASSUME NEW c \in Targets, status[c] \in {"ready", "stopped"}
      PROVE  status'[c] \in {status[c], "stopped"}
  BY <1>3 DEF IInv, TypeOK, Authorize, Created, Unknown, Known, Updated, Cat,
     Login, Boot, Serve, Restart, StartTarget, KeyWritten, StopTarget, Grow
<1>4. KeysOK'
  <2>1. cached \subseteq Targets /\ \A x \in Scripts : scripts[x].found \subseteq Targets
    BY DEF IInv, TypeOK, Script
  <2>2. ASSUME NEW c \in Targets, Keyed(c) PROVE Keyed(c)'
    BY <1>3, <2>2 DEF Keyed
  <2> QED BY <1>1, <1>2, <2>1, <2>2 DEF KInv, KeysOK
<1>5. CoverOK'
  <2>1. cached \subseteq Targets
    BY DEF IInv, TypeOK
  <2> QED BY <1>1, <1>2, <1>3, <2>1 DEF KInv, CoverOK
<1>5a. TornOK'
  <2>1. \A x \in Scripts : scripts'[x].pc \notin {"idle", "start"} => scripts'[x] = scripts[x]
    BY <1>2
  <2>2. torn \subseteq Targets
    BY DEF IInv, TypeOK
  <2>3. ASSUME NEW c \in Targets, Keyed(c) PROVE Keyed(c)'
    BY <1>3, <2>3 DEF Keyed
  <2> QED BY <1>1, <2>1, <2>2, <2>3 DEF KInv, TornOK
<1>6. HadOK'
  <2>1. CASE Restart
    BY <2>1 DEF Restart, NoSession, HadOK
  <2>2. CASE ~Restart
    <3>1. ASSUME NEW s \in Sessions, sessions'[s].had
          PROVE  \/ sessions[s].had /\ sessions'[s].target = sessions[s].target
                 \/ sessions'[s].target \in cached
      <4>1. CASE sessions' = sessions
        BY <3>1, <4>1
      <4>2. ASSUME NEW t \in Sessions, Authorize(t)
            PROVE  \/ sessions[s].had /\ sessions'[s].target = sessions[s].target
                   \/ sessions'[s].target \in cached
        <5>1. sessions \in [Sessions -> Session]
          BY DEF IInv, TypeOK
        <5>2. CASE Created(t)
          BY <3>1, <5>1, <5>2 DEF Created, Session
        <5>4. CASE Known(t) \/ Updated(t)
          <6>1. sessions' = [sessions EXCEPT ![t].pc = "cat"]
            BY <5>4 DEF Known, Updated
          <6> QED BY <3>1, <5>1, <6>1 DEF Session
        <5>5. CASE Unknown(t)
          <6>1. \/ sessions' = [sessions EXCEPT ![t].pc = "update"]
                \/ sessions' = [sessions EXCEPT ![t].pc = "cat"]
            BY <5>5 DEF Unknown
          <6> QED BY <3>1, <5>1, <6>1 DEF Session
        <5>3. CASE Cat(t)
          BY <3>1, <5>1, <5>3 DEF Cat, NoSession
        <5> QED BY <4>2, <5>2, <5>3, <5>4, <5>5 DEF Authorize
      <4>3. ASSUME NEW t \in Sessions, NEW c \in Targets, Login(t, c)
            PROVE  \/ sessions[s].had /\ sessions'[s].target = sessions[s].target
                   \/ sessions'[s].target \in cached
        <5>1. \/ sessions' = [sessions EXCEPT ![t] =
                   [pc |-> "grep", target |-> c, age |-> age, had |-> c \in cached]]
              \/ sessions' = [sessions EXCEPT ![t] =
                   [pc |-> "create", target |-> c, age |-> "none", had |-> FALSE]]
          BY <4>3 DEF Login
        <5>2. s # t => sessions'[s] = sessions[s]
          BY <5>1 DEF IInv, TypeOK
        <5>3. s = t =>
                \/ sessions'[s] = [pc |-> "grep", target |-> c, age |-> age,
                                   had |-> c \in cached]
                \/ sessions'[s] = [pc |-> "create", target |-> c, age |-> "none",
                                   had |-> FALSE]
          BY <5>1 DEF IInv, TypeOK
        <5>4. s = t => sessions'[s].target \in cached
          <6> DEFINE found == c \in cached
          <6>1. s = t =>
                  \/ sessions'[s] = [pc |-> "grep", target |-> c, age |-> age,
                                     had |-> found]
                  \/ sessions'[s] = [pc |-> "create", target |-> c,
                                     age |-> "none", had |-> FALSE]
            BY <5>3
          <6> HIDE DEF found
          <6>2. s = t => sessions'[s].target = c /\ found
            BY <3>1, <6>1, FoundAtLogin
          <6> QED BY <6>2 DEF found
        <5> QED BY <3>1, <5>2, <5>4
      <4> QED BY <2>2, <4>1, <4>2, <4>3 DEF Boot, Serve, Grow, StartTarget,
                 KeyWritten, StopTarget
    <3>2. ASSUME NEW c \in Targets, status[c] = "stopped" PROVE status'[c] = "stopped"
      <4>1. \/ status' = status
            \/ \E d \in Targets : StartTarget(d) \/ KeyWritten(d) \/ StopTarget(d)
        BY <2>2 DEF Authorize, Created, Unknown, Known, Updated, Cat, Login,
           Boot, Serve, Grow
      <4>2. ASSUME NEW d \in Targets, StartTarget(d) \/ KeyWritten(d) \/ StopTarget(d)
            PROVE  status'[c] = "stopped"
        <5>1. d # c
          BY <3>2, <4>2 DEF StartTarget, KeyWritten, StopTarget, Running
        <5>2. PICK v : status' = [status EXCEPT ![d] = v]
          BY <4>2 DEF StartTarget, KeyWritten, StopTarget
        <5> QED BY <3>2, <5>1, <5>2 DEF IInv, TypeOK
      <4> QED BY <3>2, <4>1, <4>2
    <3>3. ASSUME NEW x \in Scripts, scripts[x].pc = "write"
          PROVE  scripts'[x] = scripts[x]
      BY <1>2, <2>2, <3>3
    <3>4. ASSUME NEW c \in Targets, Kept(c) PROVE Kept(c)'
      BY <1>1, <3>2, <3>3, <3>4 DEF Kept
    <3>5. cached \subseteq Targets
      BY DEF IInv, TypeOK
    <3> QED BY <1>1, <3>1, <3>4, <3>5 DEF KInv, HadOK, Kept
  <2> QED BY <2>1, <2>2
<1> QED BY <1>4, <1>5, <1>5a, <1>6 DEF KInv

\* A key that was on file when a login began is printed by it, unless its
\* target has stopped, a full run is just writing the file anew, or one raised
\* while it did and query_cache does not name the target: it is asked again.
THEOREM KeyCacheKnownKeyPrinted == Spec => []KnownKeyPrinted
<1>1. IInv /\ KInv /\ [Next]_vars => KInv'
  <2>1. IInv /\ KInv /\ UNCHANGED vars => KInv'
    BY DEF vars, files, KInv, KeysOK, Keyed, CoverOK, TornOK, HadOK, Kept
  <2> QED BY <2>1, KnownByScripts, KnownByOthers DEF Next
<1>2. KInv => KnownKeyPrinted
  BY DEF KInv, TornOK, HadOK, Kept, KnownKeyPrinted
<1> QED BY Invariance, KnownInitially, <1>1, <1>2, PTL DEF Spec
=============================================================================
