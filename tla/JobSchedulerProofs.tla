------------------------- MODULE JobSchedulerProofs -------------------------
(***************************************************************************)
(* Safety of the job scheduler for every set of jobs, threads, cron strings*)
(* and parameters and every bound.                                         *)
(***************************************************************************)
EXTENDS JobScheduler, TLAPS

-----------------------------------------------------------------------------
(* The inductive invariant *)

\* A request carries a document exactly when it stores one, and then it is
\* about a single job.
RequestOK(r) ==
  /\ r.pc = "idle" <=> r.op = "none"
  /\ r.op \in {"none", "remove"} => r.doc = NoDoc
  /\ r.op \in {"create", "update"} =>
       r.doc \in Doc /\ \E j \in Jobs : r.targets = {j}

RequestsOK == \A h \in Handlers : RequestOK(handlers[h])

\* The jobs the tick works on are in the dictionary.
TickOK ==
  /\ runner.pc = "idle" => runner = NoTick
  /\ runner.todo \subseteq Cached
  /\ runner.pc \in {"deploy", "mark", "persist"} => runner.job \in Cached

\* A process that is down has no memory; a deployment that is still remembered
\* has been stored.
DownOK ==
  ~ up =>
    /\ Cached = {}
    /\ runner = NoTick
    /\ \A h \in Handlers : handlers[h] = NoRequest
    /\ \A j \in Jobs : lastDeploy[j] # NoRun =>
         db[j] # NoDoc /\ db[j].last_run >= lastDeploy[j]

\* The cached object knows of every acknowledged deployment, except between the
\* platform's answer and update_db.
RunsRecorded ==
  /\ \A j \in Jobs : lastDeploy[j] <= now
  /\ \A j \in Cached :
       \/ lastDeploy[j] = NoRun
       \/ cache[j].last_run >= lastDeploy[j]
       \/ runner.pc = "mark" /\ runner.job = j

\* What CacheMirrorsDb leaves out: a half-done request has already stored what
\* it will cache, two of them on one job are both removals, and a run about to
\* be stored finds its document.
WriteOK(j) ==
  /\ Settled(j) => Mirror(cache[j], db[j])
  /\ Open(j) = {} /\ runner.pc = "persist" /\ runner.job = j => db[j] # NoDoc
  /\ \A h \in Open(j) :
       /\ Mirror(handlers[h].doc, db[j])
       /\ \A g \in Open(j) : g # h => handlers[g].op = "remove"

WritesOK == up => \A j \in Jobs \ dirty : WriteOK(j)

IInv ==
  /\ TypeOK
  /\ RequestsOK
  /\ TickOK
  /\ DownOK
  /\ RunsRecorded
  /\ OneDeploymentPerOccurrence
  /\ WritesOK

-----------------------------------------------------------------------------
(* Types *)

\* An occurrence of a cron string is a time.
LEMMA NextOccurrenceType ==
  ASSUME NEW c \in Crons, NEW t \in Time
  PROVE  NextOccurrence(c, t) \in Nat
BY CronAssumption

\* At first the process is down with nothing in memory.
LEMMA TypeInit == Init => TypeOK /\ RequestsOK /\ TickOK /\ DownOK
<1>. SUFFICES ASSUME Init PROVE TypeOK /\ RequestsOK /\ TickOK /\ DownOK
  OBVIOUS
<1>. USE DEF Init, NoRequest, NoTick
<1>1. TypeOK
  <2>1. now \in Time
    BY NullAssumption DEF Time
  <2>2. handlers \in [Handlers -> Request]
    BY DEF Request
  <2>3. runner \in Tick
    BY DEF Tick
  <2>4. budget \in [requests : Nat, faults : Nat, crashes : Nat]
    OBVIOUS
  <2>5. ASSUME NEW cron \in Crons PROVE Earlier(cron) \in Doc
    <3>1. 0 \in Time /\ NextOccurrence(cron, 0) \in Nat
      BY CronAssumption, NullAssumption DEF Time
    <3>. QED
      BY <3>1 DEF Earlier, Doc
  <2>6. db \in [Jobs -> Doc \cup {NoDoc}] /\ known \subseteq Jobs
    BY <2>5 DEF Stored
  <2>. QED
    BY <2>1, <2>2, <2>3, <2>4, <2>6 DEF TypeOK
<1>2. RequestsOK
  BY DEF RequestsOK, RequestOK
<1>3. TickOK /\ DownOK
  BY DEF TickOK, DownOK, Cached
<1>. QED
  BY <1>1, <1>2, <1>3

\* A document stored for a request is a document.
LEMMA CompletedType ==
  ASSUME TypeOK, RequestsOK, NEW h \in Handlers, handlers[h].pc = "db",
         NEW base \in Bases(handlers[h])
  PROVE  /\ handlers[h].op = "remove" => Completed(handlers[h], base) = NoDoc
         /\ handlers[h].op # "remove" => Completed(handlers[h], base) \in Doc
<1>. DEFINE r == handlers[h]
<1>1. r \in Request /\ r.op # "none"
  BY DEF TypeOK, RequestsOK, RequestOK
<1>2. CASE r.op = "remove"
  BY <1>2 DEF Completed
<1>3. CASE r.op # "remove"
  <2>1. r.doc \in Doc
    BY <1>1, <1>3 DEF RequestsOK, RequestOK, Request
  <2>2. base \in Time /\ r.doc.cron \in Crons
    BY <1>3, <2>1, NullAssumption DEF Bases, TypeOK, Time, Doc
  <2>3. NextOccurrence(r.doc.cron, base) \in Nat
    BY <2>2, NextOccurrenceType
  <2>. QED
    BY <1>3, <2>1, <2>3 DEF Completed, Doc
<1>. QED
  BY <1>2, <1>3

\* What a request stores is a document, or nothing for a removal.
LEMMA WrittenType ==
  ASSUME TypeOK, RequestsOK, NEW h \in Handlers, handlers[h].pc = "db",
         handlers[h].op = "update" => ~ Missing(handlers[h]),
         NEW base \in Bases(handlers[h])
  PROVE  Written(handlers[h], Completed(handlers[h], base)) \in [Jobs -> Doc \cup {NoDoc}]
<1>. DEFINE r == handlers[h]
            doc == Completed(r, base)
<1>1. doc \in Doc \cup {NoDoc}
  BY CompletedType
<1>2. ASSUME NEW j \in Jobs, j \in r.targets, r.op = "update"
      PROVE  MergePatch(db[j], doc) \in Doc
  <2>1. db[j] \in Doc
    BY <1>2 DEF RequestsOK, RequestOK, Missing, Stored, TypeOK
  <2>2. doc \in Doc
    BY <1>2, CompletedType
  <2>. QED
    BY <2>1, <2>2 DEF MergePatch, Doc
<1>. QED
  BY <1>1, <1>2 DEF Written, TypeOK

-----------------------------------------------------------------------------
(* The four requests, as one step *)

Accept(h, r) ==
  /\ up /\ handlers[h].pc = "idle"
  /\ r.pc = "db"
  /\ handlers' = [handlers EXCEPT ![h] = r]
  /\ budget' \in [requests : Nat, faults : Nat, crashes : Nat]
  /\ UNCHANGED <<now, up, db, cache, before, lock, runner, known, ghosts>>

Receives(h) ==
  CreateSchedule(h) \/ UpdateSchedule(h) \/ DeleteSchedule(h) \/ DeleteSchedules(h)

\* Whatever request arrives, the handler takes a well-formed one.
LEMMA ReceiveAccepts ==
  ASSUME TypeOK, NEW h \in Handlers, Receives(h)
  PROVE  \E r \in Request : RequestOK(r) /\ Accept(h, r)
<1>1. ASSUME NEW op, NEW targets \in SUBSET Jobs, NEW doc, Receive(h, op, targets, doc),
             RequestOK([pc |-> "db", op |-> op, targets |-> targets, doc |-> doc]),
             [pc |-> "db", op |-> op, targets |-> targets, doc |-> doc] \in Request
      PROVE  \E r \in Request : RequestOK(r) /\ Accept(h, r)
  <2>1. budget' \in [requests : Nat, faults : Nat, crashes : Nat]
    BY <1>1 DEF Receive, TypeOK
  <2>. QED
    BY <1>1, <2>1 DEF Receive, Accept
<1>2. ASSUME NEW j \in Jobs, NEW cron \in Crons, NEW params \in SUBSET Params,
             NEW op \in {"create", "update"}, Receive(h, op, {j}, NewDoc(cron, params))
      PROVE  \E r \in Request : RequestOK(r) /\ Accept(h, r)
  <2>1. NewDoc(cron, params) \in Doc
    BY DEF NewDoc, Doc, TypeOK
  <2>. QED
    BY <1>1, <1>2, <2>1 DEF RequestOK, Request
<1>3. ASSUME NEW targets \in SUBSET Jobs, Receive(h, "remove", targets, NoDoc)
      PROVE  \E r \in Request : RequestOK(r) /\ Accept(h, r)
  BY <1>1, <1>3 DEF RequestOK, Request
<1>4. CASE CreateSchedule(h)
  BY <1>2, <1>4 DEF CreateSchedule
<1>5. CASE UpdateSchedule(h)
  BY <1>2, <1>5 DEF UpdateSchedule, TypeOK
<1>6. CASE DeleteSchedule(h)
  <2>1. PICK j \in known : Receive(h, "remove", {j}, NoDoc)
    BY <1>6 DEF DeleteSchedule
  <2>2. {j} \in SUBSET Jobs
    BY DEF TypeOK
  <2>. QED
    BY <1>3, <2>1, <2>2
<1>7. CASE DeleteSchedules(h)
  BY <1>3, <1>7 DEF DeleteSchedules
<1>. QED
  BY <1>4, <1>5, <1>6, <1>7 DEF Receives

-----------------------------------------------------------------------------
(* Types are preserved *)

\* Types: every step.
LEMMA TypeNext ==
  ASSUME TypeOK, RequestsOK, TickOK, DownOK, [Next]_vars
  PROVE  TypeOK'
<1>. USE DEF TypeOK
<1>1. ASSUME NEW h \in Handlers, Receives(h)
      PROVE  TypeOK'
  <2>1. PICK r \in Request : RequestOK(r) /\ Accept(h, r)
    BY <1>1, ReceiveAccepts
  <2>. QED
    BY <2>1 DEF Accept, ghosts
<1>2. ASSUME NEW h \in Handlers, DbCall(h)
      PROVE  TypeOK'
  <2>1. PICK base \in Bases(handlers[h]) :
          LET doc == Completed(handlers[h], base) IN
          /\ db' = Written(handlers[h], doc)
          /\ handlers' = [handlers EXCEPT ![h] = [handlers[h] EXCEPT !.pc = "cache", !.doc = doc]]
    BY <1>2 DEF DbCall
  <2>2. db' \in [Jobs -> Doc \cup {NoDoc}]
    BY <1>2, <2>1, WrittenType DEF DbCall
  <2>3. Completed(handlers[h], base) \in Doc \cup {NoDoc}
    BY <1>2, CompletedType DEF DbCall
  <2> DEFINE next == [handlers[h] EXCEPT !.pc = "cache", !.doc = Completed(handlers[h], base)]
  <2>4. handlers' \in [Handlers -> Request]
    <3>1. next \in Request
      <4>1. ASSUME NEW r \in Request, NEW d \in Doc \cup {NoDoc}
            PROVE  [r EXCEPT !.pc = "cache", !.doc = d] \in Request
        BY DEF Request
      <4>2. handlers[h] \in Request
        OBVIOUS
      <4>. QED
        BY <4>1, <4>2, <2>3
    <3>2. handlers' = [handlers EXCEPT ![h] = next]
      BY <2>1
    <3>. QED
      BY <3>1, <3>2
  <2>5. dirty' \in SUBSET Jobs
    BY <1>2 DEF DbCall, Overlaps, Request
  <2>. QED
    BY <1>2, <2>2, <2>4, <2>5 DEF DbCall
<1>3. ASSUME NEW h \in Handlers, DbNotFound(h)
      PROVE  TypeOK'
  BY <1>3 DEF DbNotFound, ghosts, NoRequest, Request
<1>4. ASSUME NEW h \in Handlers, DbCallFails(h)
      PROVE  TypeOK'
  <2>1. handlers' \in [Handlers -> Request]
    BY <1>4 DEF DbCallFails, NoRequest, Request
  <2>2. db' \in [Jobs -> Doc \cup {NoDoc}]
    BY <1>4, WrittenType DEF DbCallFails
  <2>3. dirty' \in SUBSET Jobs
    BY <1>4 DEF DbCallFails, Request
  <2>4. budget' \in [requests : Nat, faults : Nat, crashes : Nat]
    BY <1>4 DEF DbCallFails
  <2>. QED
    BY <1>4, <2>1, <2>2, <2>3, <2>4 DEF DbCallFails
<1>5. ASSUME NEW h \in Handlers, CacheWrite(h)
      PROVE  TypeOK'
  <2>1. handlers[h] \in Request
    OBVIOUS
  <2>2. cache' \in [Jobs -> Doc \cup {NoDoc}]
    BY <1>5, <2>1 DEF CacheWrite, AnswerFromCache, Request
  <2>3. before' \in SUBSET (Jobs \X Jobs)
    BY <1>5, <2>1 DEF CacheWrite, AnswerFromCache, Request, Cached
  <2>4. known' \in SUBSET Jobs /\ handlers' \in [Handlers -> Request]
    BY <1>5, <2>1 DEF CacheWrite, AnswerFromCache, Request, NoRequest
  <2>5. lastDeploy' \in [Jobs -> Time \cup {NoRun}]
    BY <1>5 DEF CacheWrite, AnswerFromCache
  <2>. QED
    BY <1>5, <2>2, <2>3, <2>4, <2>5 DEF CacheWrite, AnswerFromCache
<1>6. CASE TickStart
  BY <1>6 DEF TickStart, Tick, Cached, ghosts
<1>7. ASSUME NEW j \in Jobs, Examine(j)
      PROVE  TypeOK'
  BY <1>7 DEF Examine, Tick, ghosts
<1>8. CASE DeployJob
  <2>1. runner.job \in Jobs
    BY <1>8 DEF DeployJob, TickOK, Cached
  <2>. QED
    BY <1>8, <2>1 DEF DeployJob, Tick
<1>9. CASE DeployFails
  BY <1>9 DEF DeployFails, Abort, NoTick, Tick, ghosts
<1>10. CASE MarkRun
  <2>1. runner.job \in Jobs /\ cache[runner.job] \in Doc
    BY <1>10 DEF MarkRun, TickOK, Cached
  <2>2. NextOccurrence(cache[runner.job].cron, now) \in Nat
    BY <2>1, NextOccurrenceType DEF Doc
  <2>3. cache' \in [Jobs -> Doc \cup {NoDoc}]
    BY <1>10, <2>1, <2>2 DEF MarkRun, Doc
  <2>4. runner' \in Tick
    BY <1>10 DEF MarkRun, Tick
  <2>. QED
    BY <1>10, <2>3, <2>4 DEF MarkRun, ghosts, Tick
<1>11. ASSUME StoreRun, runner.pc = "persist"
       PROVE  db' \in [Jobs -> Doc \cup {NoDoc}] /\ dirty' \in SUBSET Jobs
  <2>1. /\ runner.job \in Jobs
        /\ cache[runner.job] \in Doc /\ db[runner.job] \in Doc
    BY <1>11 DEF StoreRun, TickOK, Cached
  <2>2. MergePatch(db[runner.job], cache[runner.job]) \in Doc
    BY <2>1 DEF MergePatch, Doc
  <2>. QED
    BY <1>11, <2>1, <2>2 DEF StoreRun
<1>12. CASE PersistRun
  BY <1>11, <1>12 DEF PersistRun, Tick
<1>13. CASE PersistNotFound
  BY <1>13 DEF PersistNotFound, Abort, NoTick, Tick, ghosts
<1>14. CASE PersistFails
  <2>1. db' \in [Jobs -> Doc \cup {NoDoc}] /\ dirty' \in SUBSET Jobs
    BY <1>11, <1>14 DEF PersistFails, TickOK, Cached
  <2>. QED
    BY <1>14, <2>1 DEF PersistFails, Abort, NoTick, Tick
<1>15. CASE TickEnd
  BY <1>15 DEF TickEnd, Abort, NoTick, Tick, ghosts
<1>16. CASE OnStartup
  <2>1. before' \in SUBSET (Jobs \X Jobs)
    BY <1>16 DEF OnStartup, Orders, Stored
  <2>. QED
    BY <1>16, <2>1 DEF OnStartup, Stored
<1>17. CASE Crash
  <2>1. lastDeploy' \in [Jobs -> Time \cup {NoRun}]
    BY <1>17 DEF Crash
  <2>2. handlers' \in [Handlers -> Request] /\ runner' \in Tick
    BY <1>17 DEF Crash, NoRequest, Request, NoTick, Tick
  <2>3. budget' \in [requests : Nat, faults : Nat, crashes : Nat]
    BY <1>17 DEF Crash
  <2>4. lock' = "free" /\ runner'.pc = "idle"
    BY <1>17 DEF Crash, NoTick
  <2>5. cache' \in [Jobs -> Doc \cup {NoDoc}] /\ UNCHANGED <<now, db, known, dirty>>
    BY <1>17 DEF Crash
  <2>6. up' \in BOOLEAN /\ before' \in SUBSET (Jobs \X Jobs)
    BY <1>17 DEF Crash
  <2>. QED
    BY <2>1, <2>2, <2>3, <2>4, <2>5, <2>6
<1>18. CASE Pass
  BY <1>18, NullAssumption DEF Pass, Time, ghosts
<1>19. CASE UNCHANGED vars
  BY <1>19 DEF vars, ghosts
<1>. QED
  BY <1>1, <1>2, <1>3, <1>4, <1>5, <1>6, <1>7, <1>8, <1>9, <1>10, <1>12, <1>13, <1>14,
     <1>15, <1>16, <1>17, <1>18, <1>19
  DEF Next, Receives, Handle, Run

-----------------------------------------------------------------------------
(* Requests, tick and a stopped process stay well formed *)

\* Requests stay well-formed from their arrival to their answer.
LEMMA RequestsNext ==
  ASSUME TypeOK, RequestsOK, [Next]_vars
  PROVE  RequestsOK'
<1>. USE DEF TypeOK, RequestsOK
<1>1. RequestOK(NoRequest)
  BY DEF RequestOK, NoRequest
<1>2. ASSUME NEW h \in Handlers, Receives(h)
      PROVE  RequestsOK'
  BY <1>2, ReceiveAccepts DEF Accept
<1>3. ASSUME NEW h \in Handlers, DbCall(h)
      PROVE  RequestsOK'
  <2> DEFINE r == handlers[h]
             next(base) == [r EXCEPT !.pc = "cache", !.doc = Completed(r, base)]
  <2>1. PICK base \in Bases(r) : handlers' = [handlers EXCEPT ![h] = next(base)]
    BY <1>3 DEF DbCall
  <2>2. /\ next(base).pc = "cache" /\ next(base).op = r.op
        /\ next(base).targets = r.targets /\ next(base).doc = Completed(r, base)
    BY DEF Request
  <2>3. RequestOK(r) /\ r.pc = "db" /\ r \in Request
    BY <1>3 DEF DbCall
  <2>4. RequestOK(next(base))
    BY <2>2, <2>3, CompletedType DEF RequestOK, Request
  <2>. QED
    BY <2>1, <2>4
<1>4. ASSUME NEW h \in Handlers, DbNotFound(h) \/ DbCallFails(h) \/ CacheWrite(h)
      PROVE  RequestsOK'
  <2>1. handlers' = [handlers EXCEPT ![h] = NoRequest]
    BY <1>4 DEF DbNotFound, DbCallFails, CacheWrite, AnswerFromCache
  <2>. QED
    BY <1>1, <2>1
<1>5. CASE Crash
  BY <1>1, <1>5 DEF Crash
<1>6. CASE Run \/ OnStartup \/ Pass \/ UNCHANGED vars
  <2>1. handlers' = handlers
    BY <1>6 DEF Run, TickStart, Examine, DeployJob, DeployFails, MarkRun, PersistRun,
       PersistNotFound, PersistFails, TickEnd, OnStartup, Pass, vars
  <2>. QED
    BY <2>1
<1>. QED
  BY <1>2, <1>3, <1>4, <1>5, <1>6 DEF Next, Receives, Handle

\* While the tick holds the lock, the jobs in the dictionary stay the same.
LEMMA CachedFrozen ==
  ASSUME TypeOK, TickOK, DownOK, [Next]_vars, lock = "runner", lock' = "runner"
  PROVE  Cached' = Cached
<1>. USE DEF TypeOK, Cached
<1>1. CASE UNCHANGED cache
  BY <1>1
<1>2. CASE MarkRun
  <2>1. runner.job \in Jobs /\ cache[runner.job] \in Doc
    BY <1>2 DEF MarkRun, TickOK
  <2>2. NextOccurrence(cache[runner.job].cron, now) \in Nat
    BY <2>1, NextOccurrenceType DEF Doc
  <2>3. [cache[runner.job] EXCEPT !.last_run = now,
           !.next_run = NextOccurrence(cache[runner.job].cron, now)] \in Doc
    BY <2>1, <2>2 DEF Doc
  <2>. QED
    BY <1>2, <2>1, <2>3, NullAssumption DEF MarkRun
<1>3. CASE \E h \in Handlers : CacheWrite(h)
  BY <1>3 DEF CacheWrite, AnswerFromCache
<1>4. CASE OnStartup
  BY <1>4 DEF OnStartup, DownOK, NoTick
<1>5. CASE Crash
  BY <1>5 DEF Crash
<1>. QED
  BY <1>1, <1>2, <1>3, <1>4, <1>5
  DEF Next, Handle, Run, CreateSchedule, UpdateSchedule, DeleteSchedule, DeleteSchedules,
      Receive, DbCall, DbNotFound, DbCallFails, TickStart, Examine, DeployJob, DeployFails,
      PersistRun, PersistNotFound, PersistFails, TickEnd, Pass, vars

\* No handler removes a job the tick still has to look at: the lock is the tick's.
LEMMA TickNext ==
  ASSUME TypeOK, TypeOK', TickOK, DownOK, [Next]_vars
  PROVE  TickOK'
<1>1. CASE runner' = NoTick
  BY <1>1 DEF TickOK, NoTick
<1>2. CASE TickStart
  BY <1>2 DEF TickStart, TickOK, Cached
<1>3. ASSUME NEW j \in Jobs, Examine(j)
      PROVE  TickOK'
  BY <1>3 DEF Examine, TickOK, IsFirst, Cached, TypeOK, Tick
<1>4. CASE DeployJob \/ MarkRun \/ PersistRun
  <2>1. lock = "runner" /\ lock' = "runner"
    BY <1>4 DEF DeployJob, MarkRun, PersistRun, TypeOK
  <2>2. Cached' = Cached
    BY <2>1, CachedFrozen
  <2>3. /\ runner'.todo = runner.todo
        /\ runner'.pc \in {"mark", "persist", "loop"}
        /\ runner'.pc # "loop" => runner'.job = runner.job
    BY <1>4 DEF DeployJob, MarkRun, PersistRun, TypeOK, Tick
  <2>4. runner.job \in Cached
    BY <1>4 DEF DeployJob, MarkRun, PersistRun, TickOK
  <2>. QED
    BY <2>2, <2>3, <2>4 DEF TickOK
<1>5. CASE UNCHANGED runner
  <2>1. CASE runner.pc = "idle"
    BY <1>1, <1>5, <2>1 DEF TickOK
  <2>2. CASE runner.pc # "idle"
    <3>1. lock = "runner" /\ lock' = "runner"
      BY <1>5, <2>2 DEF TypeOK
    <3>2. Cached' = Cached
      BY <3>1, CachedFrozen
    <3>. QED
      BY <1>5, <3>2 DEF TickOK
  <2>. QED
    BY <2>1, <2>2
<1>6. CASE DeployFails \/ PersistNotFound \/ PersistFails \/ TickEnd \/ Crash
  BY <1>1, <1>6 DEF DeployFails, PersistNotFound, PersistFails, TickEnd, Abort, Crash
<1>7. CASE \/ \E h \in Handlers : Receives(h) \/ Handle(h) \/ CacheWrite(h)
           \/ OnStartup \/ Pass \/ UNCHANGED vars
  BY <1>5, <1>7
  DEF Receives, CreateSchedule, UpdateSchedule, DeleteSchedule, DeleteSchedules, Receive,
      Handle, DbCall, DbNotFound, DbCallFails, CacheWrite, AnswerFromCache, OnStartup, Pass, vars
<1>. QED
  BY <1>2, <1>3, <1>4, <1>6, <1>7 DEF Next, Run, Receives

\* A crash keeps only what the database has.
LEMMA DownNext ==
  ASSUME TypeOK, DownOK, [Next]_vars
  PROVE  DownOK'
<1>. USE DEF DownOK
<1>1. CASE Crash
  BY <1>1 DEF Crash, Cached, TypeOK
<1>2. CASE OnStartup
  BY <1>2 DEF OnStartup
<1>3. CASE up /\ up' = up
  BY <1>3
<1>4. CASE ~ up /\ (Pass \/ UNCHANGED vars)
  BY <1>4 DEF Pass, vars, ghosts, Cached
<1>5. ASSUME ~ up, Next
      PROVE  OnStartup \/ Pass
  <2>1. runner.pc = "idle" /\ \A h \in Handlers : handlers[h].pc = "idle"
    BY <1>5 DEF NoTick, NoRequest
  <2>. QED
    BY <1>5, <2>1
    DEF Next, Handle, Run, CreateSchedule, UpdateSchedule, DeleteSchedule, DeleteSchedules,
        Receive, DbCall, DbNotFound, DbCallFails, CacheWrite, AnswerFromCache, TickStart, Examine, DeployJob,
        DeployFails, MarkRun, PersistRun, PersistNotFound, PersistFails, TickEnd, Crash
<1>6. ASSUME up, ~ Crash
      PROVE  up' = up
  BY <1>6
  DEF Next, Handle, Run, CreateSchedule, UpdateSchedule, DeleteSchedule, DeleteSchedules,
      Receive, DbCall, DbNotFound, DbCallFails, CacheWrite, AnswerFromCache, TickStart, Examine, DeployJob,
      DeployFails, MarkRun, PersistRun, PersistNotFound, PersistFails, TickEnd, OnStartup,
      Pass, vars
<1>. QED
  BY <1>1, <1>2, <1>3, <1>4, <1>5, <1>6

-----------------------------------------------------------------------------
(* One deployment per occurrence *)

\* The actions that touch neither the cache, nor the history of deployments,
\* nor the tick.
LEMMA RunsUntouched ==
  ASSUME [Next]_vars,
         ~ (\E h \in Handlers : CacheWrite(h)), ~ Run, ~ OnStartup, ~ Crash
  PROVE  UNCHANGED <<cache, lastDeploy, runner, lock>> /\ (UNCHANGED now \/ Pass)
BY DEF Next, Handle, CreateSchedule, UpdateSchedule, DeleteSchedule, DeleteSchedules,
       Receive, DbCall, DbNotFound, DbCallFails, Pass, vars, ghosts

\* Only the tick deploys, and it records the run in the cached object at once.
LEMMA RunsRecordedNext ==
  ASSUME TypeOK, TickOK, DownOK, RunsRecorded, [Next]_vars
  PROVE  RunsRecorded'
<1>. USE DEF TypeOK, RunsRecorded, Cached
<1>1. ASSUME NEW h \in Handlers, CacheWrite(h)
      PROVE  RunsRecorded'
  <2>1. runner.pc # "mark" /\ UNCHANGED <<now, runner>>
    BY <1>1 DEF CacheWrite, AnswerFromCache
  <2>2. ASSUME NEW j \in Jobs
        PROVE  \/ lastDeploy'[j] = NoRun
               \/ lastDeploy'[j] = lastDeploy[j] /\ cache'[j] = cache[j]
    BY <1>1 DEF CacheWrite, AnswerFromCache
  <2>3. NoRun <= now
    BY DEF NoRun, Time
  <2>. QED
    BY <2>1, <2>2, <2>3
<1>2. CASE DeployJob
  <2>1. runner.job \in Jobs /\ runner.pc = "deploy" /\ UNCHANGED <<cache, now>>
    BY <1>2 DEF DeployJob, TickOK
  <2>2. runner'.pc = "mark" /\ runner'.job = runner.job
    BY <1>2 DEF DeployJob, Tick
  <2>3. lastDeploy' = [lastDeploy EXCEPT ![runner.job] = now]
    BY <1>2 DEF DeployJob
  <2>4. now <= now
    BY DEF Time
  <2>. QED
    BY <2>1, <2>2, <2>3, <2>4
<1>3. CASE MarkRun
  <2>1. runner.job \in Jobs /\ cache[runner.job] \in Doc
    BY <1>3 DEF MarkRun, TickOK
  <2>2. cache'[runner.job].last_run = now
    BY <1>3, <2>1 DEF MarkRun, Doc
  <2>3. /\ \A j \in Jobs \ {runner.job} : cache'[j] = cache[j]
        /\ UNCHANGED <<lastDeploy, now>>
    BY <1>3 DEF MarkRun, ghosts
  <2>4. now >= lastDeploy[runner.job]
    BY <2>1 DEF Time, NoRun
  <2>. QED
    BY <2>1, <2>2, <2>3, <2>4
<1>4. CASE TickStart \/ (\E j \in Jobs : Examine(j)) \/ DeployFails \/ PersistRun
           \/ PersistNotFound \/ PersistFails \/ TickEnd
  <2>1. runner.pc # "mark" /\ UNCHANGED <<cache, lastDeploy, now>>
    BY <1>4 DEF TickStart, Examine, DeployFails, PersistRun, PersistNotFound, PersistFails,
       TickEnd, ghosts
  <2>. QED
    BY <2>1
<1>5. CASE OnStartup
  BY <1>5 DEF OnStartup, DownOK
<1>6. CASE Crash
  <2>1. cache' = [j \in Jobs |-> NoDoc] /\ UNCHANGED now
    BY <1>6 DEF Crash
  <2>2. \A j \in Jobs : lastDeploy'[j] \in {NoRun, lastDeploy[j]}
    BY <1>6 DEF Crash
  <2>3. NoRun <= now
    BY DEF NoRun, Time
  <2>. QED
    BY <2>1, <2>2, <2>3
<1>7. CASE ~ (\E h \in Handlers : CacheWrite(h)) /\ ~ Run /\ ~ OnStartup /\ ~ Crash
  <2>1. UNCHANGED <<cache, lastDeploy, runner>> /\ now <= now'
    BY <1>7, RunsUntouched DEF Pass, Time
  <2>2. now' \in Int
    BY <1>7, RunsUntouched DEF Pass, Time
  <2>. QED
    BY <2>1, <2>2 DEF Time, NoRun
<1>. QED
  BY <1>1, <1>2, <1>3, <1>4, <1>5, <1>6, <1>7 DEF Run

\* A job is deployed only when an occurrence lies behind its recorded last run.
LEMMA OneDeploymentNext ==
  ASSUME TypeOK, TickOK, DownOK, RunsRecorded, OneDeploymentPerOccurrence, [Next]_vars
  PROVE  OneDeploymentPerOccurrence'
<1>. USE DEF TypeOK, OneDeploymentPerOccurrence
<1>1. ASSUME NEW j \in Jobs, Examine(j)
      PROVE  OneDeploymentPerOccurrence'
  <2>1. SUFFICES ASSUME runner'.pc = "deploy", lastDeploy[j] # NoRun
                 PROVE  NextOccurrence(cache[j].cron, lastDeploy[j]) <= now
    BY <1>1, <2>1 DEF Examine, ghosts
  <2>2. cache[j] \in Doc
    BY <1>1 DEF Examine, IsFirst, TickOK, Cached
  <2>3. cache[j].last_run >= lastDeploy[j]
    BY <1>1, <2>1, <2>2, NullAssumption DEF Examine, RunsRecorded, Cached
  <2>4. cache[j].last_run \in Time /\ lastDeploy[j] \in Time
    BY <2>1, <2>2, <2>3 DEF Doc, Time, NoRun
  <2>5. NextOccurrence(cache[j].cron, cache[j].last_run) <= now
    <3>1. IsDue(cache[j])
      BY <1>1, <2>1 DEF Examine
    <3>. QED
      BY <2>4, <3>1 DEF IsDue, NextRunTime, Time, NoRun
  <2>6. /\ NextOccurrence(cache[j].cron, lastDeploy[j])
               <= NextOccurrence(cache[j].cron, cache[j].last_run)
        /\ NextOccurrence(cache[j].cron, lastDeploy[j]) \in Nat
        /\ NextOccurrence(cache[j].cron, cache[j].last_run) \in Nat
    BY <2>2, <2>3, <2>4, CronAssumption DEF Doc
  <2>. QED
    BY <2>5, <2>6 DEF Time
<1>2. CASE runner'.pc # "deploy"
  BY <1>2
<1>3. CASE UNCHANGED <<runner, cache, lastDeploy>> /\ (UNCHANGED now \/ Pass)
  <2>1. SUFFICES ASSUME runner.pc = "deploy", lastDeploy[runner.job] # NoRun
                 PROVE  NextOccurrence(cache[runner.job].cron, lastDeploy[runner.job]) <= now'
    BY <1>3, <2>1
  <2>2. NextOccurrence(cache[runner.job].cron, lastDeploy[runner.job]) <= now
    BY <2>1
  <2>3. runner.job \in Jobs /\ cache[runner.job] \in Doc
    BY <2>1 DEF TickOK, Cached
  <2>4. NextOccurrence(cache[runner.job].cron, lastDeploy[runner.job]) \in Nat
    BY <2>1, <2>3, NextOccurrenceType DEF Doc
  <2>. QED
    BY <1>3, <2>2, <2>4 DEF Pass, Time
<1>4. CASE \E h \in Handlers : CacheWrite(h)
  BY <1>2, <1>4 DEF CacheWrite, AnswerFromCache
<1>5. CASE OnStartup \/ Crash
  BY <1>2, <1>5 DEF OnStartup, Crash, DownOK, NoTick
<1>6. CASE Run /\ ~ (\E j \in Jobs : Examine(j))
  <2>1. CASE TickStart
    BY <1>2, <2>1 DEF TickStart
  <2>2. CASE DeployJob \/ MarkRun \/ PersistRun
    BY <1>2, <2>2 DEF DeployJob, MarkRun, PersistRun, Tick
  <2>3. CASE DeployFails \/ PersistNotFound \/ PersistFails \/ TickEnd
    BY <1>2, <2>3 DEF DeployFails, PersistNotFound, PersistFails, TickEnd, Abort, NoTick
  <2>. QED
    BY <1>6, <2>1, <2>2, <2>3 DEF Run
<1>7. CASE ~ (\E h \in Handlers : CacheWrite(h)) /\ ~ Run /\ ~ OnStartup /\ ~ Crash
  BY <1>3, <1>7, RunsUntouched
<1>. QED
  BY <1>1, <1>4, <1>5, <1>6, <1>7

-----------------------------------------------------------------------------
(* Database and cache *)

\* A document mirrors itself.
LEMMA MirrorReflexive == ASSUME NEW d \in Doc \cup {NoDoc} PROVE Mirror(d, d)
BY DEF Mirror

\* A merge patch leaves a document that the patch mirrors.
LEMMA MirrorMerged ==
  ASSUME NEW c \in Doc, NEW d \in Doc
  PROVE  Mirror(c, MergePatch(d, c)) /\ MergePatch(d, c) # NoDoc
<1>1. MergePatch(d, c) \in Doc
  BY DEF MergePatch, Doc
<1>2. c # NoDoc /\ MergePatch(d, c) # NoDoc
  BY <1>1, NullAssumption
<1>3. /\ MergePatch(d, c).cron = c.cron /\ c.params \subseteq MergePatch(d, c).params
      /\ MergePatch(d, c).created = c.created
      /\ MergePatch(d, c).last_run = c.last_run /\ MergePatch(d, c).next_run = c.next_run
  BY DEF MergePatch, Doc
<1>. QED
  BY <1>2, <1>3 DEF Mirror

\* A step that changes neither the job's copies nor its half-done requests.
LEMMA WriteKept ==
  ASSUME NEW j \in Jobs, WriteOK(j), up,
         cache'[j] = cache[j], db'[j] = db[j], Open(j)' = Open(j),
         \A h \in Open(j) : handlers'[h] = handlers[h],
         (runner'.pc = "persist" /\ runner'.job = j) = (runner.pc = "persist" /\ runner.job = j)
  PROVE  WriteOK(j)'
BY DEF WriteOK, Settled

\* A request that ends before it wrote the database was not half done.
LEMMA OpenKept ==
  ASSUME TypeOK, NEW h \in Handlers, NEW r, handlers' = [handlers EXCEPT ![h] = r],
         NEW j \in Jobs, h \notin Open(j), r.pc # "cache" \/ j \notin r.targets
  PROVE  Open(j)' = Open(j) /\ \A g \in Open(j) : handlers'[g] = handlers[g]
BY DEF Open, TypeOK

\* The database call of a handler; another one open on the job makes the job dirty.
LEMMA DbCallWrites ==
  ASSUME TypeOK, RequestsOK, NEW h \in Handlers, DbCall(h), up,
         NEW j \in Jobs \ dirty', WriteOK(j)
  PROVE  WriteOK(j)'
<1>. DEFINE r == handlers[h]
            next(base) == [r EXCEPT !.pc = "cache", !.doc = Completed(r, base)]
<1>1. /\ r \in Request /\ r.pc = "db" /\ r.op # "none" /\ RequestOK(r)
      /\ UNCHANGED <<cache, runner, up>>
  BY DEF DbCall, TypeOK, RequestsOK, RequestOK
<1>2. PICK base \in Bases(r) : /\ db' = Written(r, Completed(r, base))
                               /\ handlers' = [handlers EXCEPT ![h] = next(base)]
  BY DEF DbCall
<1>3. /\ next(base).pc = "cache" /\ next(base).op = r.op
      /\ next(base).targets = r.targets /\ next(base).doc = Completed(r, base)
  BY <1>1 DEF Request
<1>4. h \notin Open(j)
  BY <1>1 DEF Open
<1>5. CASE j \notin r.targets
  <2>1. Open(j)' = Open(j) /\ \A g \in Open(j) : handlers'[g] = handlers[g]
    BY <1>2, <1>3, <1>4, <1>5 DEF Open, TypeOK
  <2>2. db'[j] = db[j]
    BY <1>2, <1>5 DEF Written
  <2>. QED
    BY <1>1, <2>1, <2>2, WriteKept
<1>6. CASE j \in r.targets
  <2>1. \A g \in Open(j) : handlers[g].op = "remove" /\ r.op = "remove"
    BY <1>4, <1>6 DEF DbCall, Overlaps
  <2>2. Open(j)' = Open(j) \cup {h}
    BY <1>2, <1>3, <1>6 DEF Open, TypeOK
  <2>3. handlers'[h] = next(base) /\ \A g \in Open(j) : handlers'[g] = handlers[g]
    BY <1>2, <1>4 DEF TypeOK, Open
  <2>4. Mirror(Completed(r, base), db'[j])
    <3>1. CASE r.op = "update"
      <4>1. db[j] \in Doc
        BY <1>1, <1>6, <3>1 DEF RequestOK, DbCall, Missing, Stored, TypeOK
      <4>2. Completed(r, base) \in Doc
        BY <1>1, <3>1, CompletedType
      <4>3. db'[j] = MergePatch(db[j], Completed(r, base))
        BY <1>2, <1>6, <3>1 DEF Written
      <4>. QED
        BY <4>1, <4>2, <4>3, MirrorMerged
    <3>2. CASE r.op # "update"
      <4>1. Completed(r, base) \in Doc \cup {NoDoc}
        BY <1>1, CompletedType
      <4>2. db'[j] = Completed(r, base)
        BY <1>2, <1>6, <3>2 DEF Written
      <4>. QED
        BY <4>1, <4>2, MirrorReflexive
    <3>. QED
      BY <3>1, <3>2
  <2>5. ASSUME NEW g \in Open(j)
        PROVE  Mirror(handlers[g].doc, db'[j])
    <3>1. handlers[g].doc = NoDoc
      BY <2>1 DEF Open, RequestsOK, RequestOK
    <3>2. db'[j] = NoDoc
      BY <1>1, <1>2, <1>6, <2>1, CompletedType DEF Written
    <3>. QED
      BY <3>1, <3>2 DEF Mirror
  <2>6. \A g \in Open(j)' : Mirror(handlers'[g].doc, db'[j])
    BY <1>3, <2>2, <2>3, <2>4, <2>5
  <2>7. \A f, g \in Open(j)' : g # f => handlers'[g].op = "remove"
    BY <1>3, <2>1, <2>2, <2>3
  <2>. QED
    BY <2>2, <2>6, <2>7 DEF WriteOK, Settled
<1>. QED
  BY <1>5, <1>6

\* A handler caches what it has stored.
LEMMA CacheWriteWrites ==
  ASSUME TypeOK, TickOK, NEW h \in Handlers, CacheWrite(h), up,
         NEW j \in Jobs, WriteOK(j)
  PROVE  WriteOK(j)'
<1>1. /\ handlers' = [handlers EXCEPT ![h] = NoRequest] /\ NoRequest.pc # "cache"
      /\ handlers[h].pc = "cache" /\ UNCHANGED <<db, runner, up>>
  BY DEF CacheWrite, AnswerFromCache, NoRequest
<1>2. runner.pc = "idle"
  BY DEF CacheWrite, AnswerFromCache, TypeOK
<1>3. CASE j \notin handlers[h].targets
  <2>1. Open(j)' = Open(j) /\ \A g \in Open(j) : handlers'[g] = handlers[g]
    BY <1>1, <1>3, OpenKept DEF Open
  <2>2. cache'[j] = cache[j]
    BY <1>3 DEF CacheWrite, AnswerFromCache
  <2>. QED
    BY <1>1, <2>1, <2>2, WriteKept
<1>4. CASE j \in handlers[h].targets
  <2>1. h \in Open(j) /\ cache'[j] = handlers[h].doc
    BY <1>1, <1>4 DEF CacheWrite, AnswerFromCache, Open
  <2>2. Open(j)' = Open(j) \ {h} /\ \A g \in Open(j)' : handlers'[g] = handlers[g]
    BY <1>1 DEF Open, TypeOK
  <2>. QED
    BY <1>1, <1>2, <2>1, <2>2 DEF WriteOK, Settled
<1>. QED
  BY <1>3, <1>4

\* The tick stores the object it has cached.
LEMMA StoreRunWrites ==
  ASSUME TypeOK, TickOK, StoreRun, runner.pc = "persist", up,
         runner'.pc # "persist", UNCHANGED <<cache, handlers, up>>,
         NEW j \in Jobs \ dirty', WriteOK(j)
  PROVE  WriteOK(j)'
<1>1. CASE j = runner.job
  <2>1. Open(j) = {} /\ Open(j)' = {}
    BY <1>1 DEF StoreRun, Open
  <2>2. cache[j] \in Doc /\ db[j] \in Doc
    BY <1>1 DEF StoreRun, TickOK, Cached, TypeOK
  <2>3. db'[j] = MergePatch(db[j], cache[j])
    BY <1>1 DEF StoreRun, TypeOK
  <2>4. Mirror(cache'[j], db'[j])
    BY <2>2, <2>3, MirrorMerged
  <2>. QED
    BY <2>1, <2>4 DEF WriteOK
<1>2. CASE j # runner.job
  <2>1. db'[j] = db[j]
    BY <1>2 DEF StoreRun, TypeOK
  <2>2. Open(j)' = Open(j)
    BY DEF Open
  <2>. QED
    BY <1>2, <2>1, <2>2, WriteKept
<1>. QED
  BY <1>1, <1>2

\* Database and cache: every step.
LEMMA WritesNext ==
  ASSUME IInv, TypeOK', TickOK', [Next]_vars
  PROVE  WritesOK'
<1>. USE DEF IInv
<1>1. SUFFICES ASSUME up', NEW j \in Jobs \ dirty'
               PROVE  WriteOK(j)'
  BY DEF WritesOK
<1>2. CASE OnStartup
  <2>1. Open(j)' = {} /\ runner'.pc = "idle"
    BY <1>2 DEF OnStartup, DownOK, Open, NoRequest, NoTick
  <2>2. cache'[j] = db'[j] /\ db'[j] \in Doc \cup {NoDoc}
    BY <1>2 DEF OnStartup, TypeOK
  <2>. QED
    BY <2>1, <2>2, MirrorReflexive DEF WriteOK
<1>3. CASE Crash
  BY <1>1, <1>3 DEF Crash
<1>4. CASE ~ OnStartup /\ ~ Crash
  <2>1. up /\ j \in Jobs \ dirty /\ WriteOK(j)
    <3>1. up /\ dirty \subseteq dirty'
      BY <1>1, <1>4
      DEF Next, Handle, Run, CreateSchedule, UpdateSchedule, DeleteSchedule, DeleteSchedules,
          Receive, DbCall, DbNotFound, DbCallFails, CacheWrite, AnswerFromCache, TickStart, Examine, DeployJob,
          DeployFails, MarkRun, PersistRun, PersistNotFound, PersistFails, StoreRun, TickEnd,
          Pass, vars, ghosts
    <3>. QED
      BY <3>1 DEF WritesOK
  <2>2. ASSUME NEW h \in Handlers, Receives(h)
        PROVE  WriteOK(j)'
    <3>1. PICK r \in Request : Accept(h, r)
      BY <2>2, ReceiveAccepts
    <3>2. Open(j)' = Open(j) /\ \A g \in Open(j) : handlers'[g] = handlers[g]
      BY <3>1 DEF Accept, Open, TypeOK
    <3>3. UNCHANGED <<cache, db, runner>>
      BY <3>1 DEF Accept
    <3>. QED
      BY <2>1, <3>2, <3>3, WriteKept
  <2>3. ASSUME NEW h \in Handlers, DbCall(h)
        PROVE  WriteOK(j)'
    BY <2>1, <2>3, DbCallWrites
  <2>4. ASSUME NEW h \in Handlers, DbNotFound(h) \/ DbCallFails(h)
        PROVE  WriteOK(j)'
    <3>1. Open(j)' = Open(j) /\ \A g \in Open(j) : handlers'[g] = handlers[g]
      BY <2>4 DEF DbNotFound, DbCallFails, Open, TypeOK, NoRequest
    <3>2. db'[j] = db[j]
      BY <2>4, <1>1 DEF DbNotFound, DbCallFails, Written, ghosts
    <3>3. UNCHANGED <<cache, runner>>
      BY <2>4 DEF DbNotFound, DbCallFails
    <3>. QED
      BY <2>1, <3>1, <3>2, <3>3, WriteKept
  <2>5. ASSUME NEW h \in Handlers, CacheWrite(h)
        PROVE  WriteOK(j)'
    BY <2>1, <2>5, CacheWriteWrites
  <2>6. CASE MarkRun
    <3>1. CASE j = runner.job
      <4>1. runner.pc = "mark" /\ cache[j] # NoDoc /\ UNCHANGED <<db, handlers>>
        BY <2>6, <3>1 DEF MarkRun, TickOK, Cached
      <4>2. runner'.pc = "persist" /\ runner'.job = j
        BY <2>6, <3>1 DEF MarkRun, TypeOK, Tick
      <4>3. Open(j)' = Open(j)
        BY <4>1 DEF Open
      <4>4. Open(j) = {} => Mirror(cache[j], db[j])
        BY <2>1, <4>1 DEF WriteOK, Settled
      <4>. QED
        BY <2>1, <4>1, <4>2, <4>3, <4>4 DEF WriteOK, Settled, Mirror
    <3>2. CASE j # runner.job
      <4>1. UNCHANGED <<db, handlers>> /\ cache'[j] = cache[j] /\ runner'.job = runner.job
        BY <2>6, <3>2 DEF MarkRun, TypeOK, Tick
      <4>2. Open(j)' = Open(j)
        BY <4>1 DEF Open
      <4>. QED
        BY <2>1, <3>2, <4>1, <4>2, WriteKept
    <3>. QED
      BY <3>1, <3>2
  <2>7. CASE PersistRun
    <3>1. runner'.pc # "persist" /\ UNCHANGED <<cache, handlers, up>>
      BY <2>7 DEF PersistRun, TypeOK, Tick
    <3>. QED
      BY <2>1, <2>7, <3>1, StoreRunWrites DEF PersistRun
  <2>8. CASE PersistFails
    <3>1. runner'.pc # "persist" /\ UNCHANGED <<cache, handlers, up>>
      BY <2>8 DEF PersistFails, Abort, NoTick
    <3>2. CASE StoreRun
      BY <2>1, <2>8, <3>1, <3>2, StoreRunWrites DEF PersistFails
    <3>3. CASE UNCHANGED db /\ dirty' = dirty \cup {runner.job}
      <4>1. j # runner.job /\ Open(j)' = Open(j)
        BY <3>1, <3>3 DEF Open
      <4>. QED
        BY <2>1, <3>1, <3>3, <4>1, WriteKept
    <3>. QED
      BY <2>8, <3>2, <3>3 DEF PersistFails
  <2>9. CASE PersistNotFound
    <3>1. /\ runner.pc = "persist" /\ runner'.pc # "persist" /\ db[runner.job] = NoDoc
          /\ UNCHANGED <<db, cache, handlers, up>>
      BY <2>9 DEF PersistNotFound, Abort, NoTick
    <3>2. Open(j)' = Open(j)
      BY <3>1 DEF Open
    <3>3. CASE j = runner.job
      BY <2>1, <3>1, <3>2, <3>3 DEF WriteOK, Settled
    <3>4. CASE j # runner.job
      BY <2>1, <3>1, <3>2, <3>4, WriteKept
    <3>. QED
      BY <3>3, <3>4
  <2>10. CASE \/ TickStart \/ (\E k \in Jobs : Examine(k)) \/ DeployJob \/ DeployFails
              \/ TickEnd \/ Pass \/ UNCHANGED vars
    <3>1. /\ UNCHANGED <<db, cache, handlers, up>>
          /\ runner' = runner \/ (runner.pc # "persist" /\ runner'.pc # "persist")
      <4>1. CASE TickStart \/ (\E k \in Jobs : Examine(k)) \/ DeployJob
        BY <4>1 DEF TickStart, Examine, DeployJob, TypeOK, Tick
      <4>2. CASE DeployFails \/ TickEnd
        BY <4>2 DEF DeployFails, TickEnd, Abort, NoTick
      <4>3. CASE Pass \/ UNCHANGED vars
        BY <4>3 DEF Pass, vars
      <4>. QED
        BY <2>10, <4>1, <4>2, <4>3
    <3>2. Open(j)' = Open(j)
      BY <3>1 DEF Open
    <3>. QED
      BY <2>1, <3>1, <3>2, WriteKept
  <2>. QED
    BY <1>4, <2>2, <2>3, <2>4, <2>5, <2>6, <2>7, <2>8, <2>9, <2>10
    DEF Next, Handle, Run, Receives
<1>. QED
  BY <1>2, <1>3, <1>4

-----------------------------------------------------------------------------
(* The theorems *)

\* The invariant holds at first.
LEMMA IInvInit == Init => IInv
<1>. SUFFICES ASSUME Init PROVE IInv
  OBVIOUS
<1>1. TypeOK /\ RequestsOK /\ TickOK /\ DownOK
  BY TypeInit
<1>2. RunsRecorded /\ OneDeploymentPerOccurrence
  BY NullAssumption DEF Init, RunsRecorded, OneDeploymentPerOccurrence, Cached, NoTick, NoRun
<1>3. WritesOK
  BY DEF Init, WritesOK
<1>. QED
  BY <1>1, <1>2, <1>3 DEF IInv

\* Every step keeps the invariant.
LEMMA IInvNext == IInv /\ [Next]_vars => IInv'
<1>. SUFFICES ASSUME IInv, [Next]_vars PROVE IInv'
  OBVIOUS
<1>1. /\ TypeOK /\ RequestsOK /\ TickOK /\ DownOK /\ RunsRecorded
      /\ OneDeploymentPerOccurrence
  BY DEF IInv
<1>2. TypeOK'
  BY <1>1, TypeNext
<1>3. RequestsOK' /\ TickOK' /\ DownOK'
  BY <1>1, <1>2, RequestsNext, TickNext, DownNext
<1>4. RunsRecorded' /\ OneDeploymentPerOccurrence'
  BY <1>1, RunsRecordedNext, OneDeploymentNext
<1>5. WritesOK'
  BY <1>2, <1>3, WritesNext
<1>. QED
  BY <1>2, <1>3, <1>4, <1>5 DEF IInv

\* The invariant holds for ever.
LEMMA IInvAlways == Spec => []IInv
BY IInvInit, IInvNext, PTL DEF Spec

\* Every variable of the scheduler keeps its type, and the lock is held exactly
\* while run_scheduled_jobs is in its loop.
THEOREM SchedulerTypes == Spec => []TypeOK
<1>1. IInv => TypeOK
  BY DEF IInv
<1>. QED
  BY <1>1, IInvAlways, PTL

\* update_db marks the cached object before it writes the document, so neither
\* a failed write nor an aborted tick nor a restart after the write deploys a
\* job twice for one occurrence of its cron string.
THEOREM SchedulerDeploysOnce == Spec => []OneDeploymentPerOccurrence
<1>1. IInv => OneDeploymentPerOccurrence
  BY DEF IInv
<1>. QED
  BY <1>1, IInvAlways, PTL

\* Database and cached_scheduled_jobs agree on every job that is not being
\* written, unless two writes of it overlapped or a call on it failed.
THEOREM SchedulerCacheMirrorsDb == Spec => []CacheMirrorsDb
<1>1. IInv => CacheMirrorsDb
  BY DEF IInv, WritesOK, WriteOK, CacheMirrorsDb, Settled
<1>. QED
  BY <1>1, IInvAlways, PTL

\* run_scheduled_jobs iterates over a dictionary that no handler resizes.
THEOREM SchedulerTickIteratesSafely == Spec => CacheFrozenDuringTick
<1>1. IInv /\ [Next]_vars => [lock = "runner" /\ lock' = "runner" => Cached' = Cached]_vars
  BY CachedFrozen DEF IInv
<1>. QED
  BY <1>1, IInvAlways, PTL DEF Spec, CacheFrozenDuringTick
=============================================================================
