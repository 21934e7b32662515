---------------------------- MODULE JobScheduler ----------------------------
(***************************************************************************)
(* The job scheduler component (components/lab-job-scheduler/backend).     *)
(*                                                                         *)
(* One process keeps every schedule twice: as a JSON document in the       *)
(* platform's database and in the dictionary cached_scheduled_jobs.  The   *)
(* request handlers (threads of the web server) write the database first   *)
(* and, in a second step and under the lock, the dictionary.  A background *)
(* call, the tick, runs under the lock over the whole dictionary: it       *)
(* deploys each job that is due and records the run in the dictionary and  *)
(* in the database.  The process may crash at any step; it then reloads    *)
(* the dictionary from the database.                                       *)
(*                                                                         *)
(* One project is modelled: the dictionaries of different projects share   *)
(* nothing but the lock and the tick.  A schedule is its cron string, the  *)
(* keys of job_input.parameters and its time stamps.                       *)
(***************************************************************************)
EXTENDS Integers

CONSTANTS
  Jobs,                  \* the ids generate_short_uuid can return
  Handlers,              \* threads of the web server that run request handlers
  Crons,                 \* cron strings
  First,                 \* jobs that were created earlier
  Params,                \* keys a job_input's parameters may have
  Broken,                \* jobs whose deployment the platform always rejects
  NextOccurrence(_, _),  \* croniter(cron, base).get_next()
  NoDoc, NoJob,          \* "no document" and "no job"
  MaxTime,               \* bounds: clock value,
  MaxRequests,           \*         requests received,
  MaxFaults,             \*         failed remote calls,
  MaxCrashes             \*         crashes of the process

Time == 0 .. MaxTime

\* What the scheduler relies on of croniter: the next occurrence is strictly
\* later than the base, and a later base has no earlier next occurrence.
ASSUME CronAssumption ==
  \A c \in Crons, t \in Time :
    /\ NextOccurrence(c, t) \in Nat
    /\ NextOccurrence(c, t) > t
    /\ \A s \in Time : s <= t => NextOccurrence(c, s) <= NextOccurrence(c, t)

NoRun == -1              \* last_run = ""

\* ScheduledJob: the document and the cached object have the same fields.
Doc == [cron : Crons, params : SUBSET Params, created : Time,
        last_run : Time \cup {NoRun}, next_run : Nat]

ASSUME NullAssumption ==
  /\ First \subseteq Jobs
  /\ NoDoc \notin Doc
  /\ NoJob \notin Jobs
  /\ MaxTime \in Nat

VARIABLES
  now,         \* the clock
  up,          \* the process runs and has loaded its cache
  db,          \* collection "schedules" of the platform's JSON database
  cache,       \* cached_scheduled_jobs
  before,      \* insertion order of that dictionary: <<k, j>>, k older than j
  lock,        \* who holds the lock across a remote call
  handlers,    \* per thread: the request it is serving
  runner,      \* the tick: its place in run_scheduled_jobs
  known,       \* job ids clients have seen
  budget,      \* requests, faults and crashes so far
  lastDeploy,  \* history: time of the last acknowledged deployment of a job
  dirty        \* history: jobs whose last two writes overlapped or were torn

vars == <<now, up, db, cache, before, lock, handlers, runner, known, budget,
          lastDeploy, dirty>>
ghosts == <<lastDeploy, dirty>>

-----------------------------------------------------------------------------
(* Helpers *)

NoRequest == [pc |-> "idle", op |-> "none", targets |-> {}, doc |-> NoDoc]
Request == [pc : {"idle", "db", "cache"},
            op : {"none", "create", "update", "remove"},
            targets : SUBSET Jobs, doc : Doc \cup {NoDoc}]

NoTick == [pc |-> "idle", todo |-> {}, job |-> NoJob]
Tick == [pc : {"idle", "loop", "deploy", "mark", "persist"},
         todo : SUBSET Jobs, job : Jobs \cup {NoJob}]

Cached == {j \in Jobs : cache[j] # NoDoc}
Stored == {j \in Jobs : db[j] # NoDoc}

\* The base is the last run, or the creation when the job never ran.
NextRunTime(doc) ==
  NextOccurrence(doc.cron, IF doc.last_run = NoRun THEN doc.created
                                                   ELSE doc.last_run)

IsDue(doc) == NextRunTime(doc) <= now

\* update_json_document applies a JSON merge patch: a scalar field of the patch
\* replaces the old value, a nested object is merged key by key, so a parameter
\* the patch does not name stays.
MergePatch(old, patch) == [patch EXCEPT !.params = old.params \cup @]

\* Requests on j that have written the database and not yet the cache.
Open(j) == {h \in Handlers : handlers[h].pc = "cache" /\ j \in handlers[h].targets}

\* j is the next key of the iteration over the dictionary.
IsFirst(j) == j \in runner.todo /\ \A k \in runner.todo : <<k, j>> \notin before

\* The orders a dictionary filled from a listing of S can have.
Orders(S) ==
  {r \in SUBSET (S \X S) :
     /\ \A j \in S : <<j, j>> \notin r
     /\ \A j, k \in S : j # k => (<<j, k>> \in r <=> <<k, j>> \notin r)
     /\ \A i, j, k \in S : <<i, j>> \in r /\ <<j, k>> \in r => <<i, k>> \in r}

-----------------------------------------------------------------------------
(* Initial state: the process not started, some schedules not run yet *)

\* The document create_schedule has stored for a job of an earlier process.
Earlier(cron) ==
  [cron |-> cron, params |-> Params, created |-> 0, last_run |-> NoRun,
   next_run |-> NextOccurrence(cron, 0)]

Init ==
  /\ now = 0
  /\ up = FALSE
  /\ db \in [Jobs -> {NoDoc} \cup {Earlier(cron) : cron \in Crons}]
  /\ Stored = First
  /\ cache = [j \in Jobs |-> NoDoc]
  /\ before = {}
  /\ lock = "free"
  /\ handlers = [h \in Handlers |-> NoRequest]
  /\ runner = NoTick
  /\ known = Stored
  /\ budget = [requests |-> 0, faults |-> 0, crashes |-> 0]
  /\ lastDeploy = [j \in Jobs |-> NoRun]
  /\ dirty = {}

-----------------------------------------------------------------------------
(* Request handlers *)

Receive(h, op, targets, doc) ==
  /\ up
  /\ handlers[h].pc = "idle"
  /\ budget.requests < MaxRequests
  /\ budget' = [budget EXCEPT !.requests = @ + 1]
  /\ handlers' = [handlers EXCEPT
       ![h] = [pc |-> "db", op |-> op, targets |-> targets, doc |-> doc]]
  /\ UNCHANGED <<now, up, db, cache, before, lock, runner, known, ghosts>>

\* get_job_from_job_input: created is the clock; next_run comes from a second
\* reading of the clock, and is filled in by DbCall.
NewDoc(cron, params) ==
  [cron |-> cron, params |-> params, created |-> now, last_run |-> NoRun,
   next_run |-> 0]

\* A fresh uuid: no client, request or document has it.
Unused(j) ==
  /\ j \notin known \cup Stored \cup Cached
  /\ \A h \in Handlers :
       handlers[h].op \in {"create", "update"} => j \notin handlers[h].targets

CreateSchedule(h) ==
  \E j \in Jobs, cron \in Crons, params \in SUBSET Params :
    Unused(j) /\ Receive(h, "create", {j}, NewDoc(cron, params))

UpdateSchedule(h) ==
  \E j \in known, cron \in Crons, params \in SUBSET Params :
    Receive(h, "update", {j}, NewDoc(cron, params))

DeleteSchedule(h) == \E j \in known : Receive(h, "remove", {j}, NoDoc)

DeleteSchedules(h) == Receive(h, "remove", Jobs, NoDoc)

\* The database after request r, its document completed to doc.
Written(r, doc) ==
  [j \in Jobs |->
     IF j \notin r.targets THEN db[j]
     ELSE IF r.op = "update" THEN MergePatch(db[j], doc)
     ELSE doc]

\* The request's document with next_run computed at base; a removal has none.
Completed(r, base) ==
  IF r.op = "remove" THEN NoDoc
  ELSE [r.doc EXCEPT !.next_run = NextOccurrence(r.doc.cron, base)]

\* The second clock reading lies between the first one and the call.
Bases(r) == IF r.op = "remove" THEN {now} ELSE r.doc.created .. now

\* Jobs on which request r of thread h overlaps another half-done request, at
\* least one of the two storing a document.
Overlaps(h) ==
  {j \in handlers[h].targets :
     \E g \in Open(j) \ {h} : "remove" # handlers[g].op \/ "remove" # handlers[h].op}

Missing(r) == r.targets \cap Stored = {}

\* The database call succeeds and answers; the thread goes on to the cache.
DbCall(h) ==
  LET r == handlers[h] IN
  /\ r.pc = "db"
  /\ r.op = "update" => ~Missing(r)
  /\ \E base \in Bases(r) :
       LET doc == Completed(r, base) IN
       /\ db' = Written(r, doc)
       /\ handlers' = [handlers EXCEPT ![h] = [r EXCEPT !.pc = "cache", !.doc = doc]]
  /\ dirty' = dirty \cup Overlaps(h)
  /\ UNCHANGED <<now, up, cache, before, lock, runner, known, budget, lastDeploy>>

\* An update of a document that is not there is refused, a removal of nothing
\* may be: the handler raises and never reaches the cache.
DbNotFound(h) ==
  LET r == handlers[h] IN
  /\ r.pc = "db"
  /\ r.op \in {"update", "remove"} /\ Missing(r)
  /\ handlers' = [handlers EXCEPT ![h] = NoRequest]
  /\ UNCHANGED <<now, up, db, cache, before, lock, runner, known, budget, ghosts>>

\* The call fails, without effect or with its answer lost: the handler raises.
DbCallFails(h) ==
  LET r == handlers[h] IN
  /\ r.pc = "db"
  /\ budget.faults < MaxFaults
  /\ budget' = [budget EXCEPT !.faults = @ + 1]
  /\ handlers' = [handlers EXCEPT ![h] = NoRequest]
  /\ \/ UNCHANGED <<db, dirty>>
     \/ /\ r.op = "update" => ~Missing(r)
        /\ \E base \in Bases(r) : db' = Written(r, Completed(r, base))
        /\ dirty' = dirty \cup r.targets
  /\ UNCHANGED <<now, up, cache, before, lock, runner, known, lastDeploy>>

\* The dictionary is changed as the database was, and the request is answered.
AnswerFromCache(h) ==
  LET r == handlers[h] IN
  /\ r.pc = "cache"
  /\ cache' = [j \in Jobs |-> IF j \in r.targets THEN r.doc ELSE cache[j]]
  /\ before' = IF r.op = "remove"
               THEN {p \in before : p[1] \notin r.targets /\ p[2] \notin r.targets}
               ELSE before \cup (Cached \X (r.targets \ Cached))
  /\ known' = IF r.op = "remove" THEN known ELSE known \cup r.targets
  /\ lastDeploy' = [j \in Jobs |-> IF j \in r.targets THEN NoRun ELSE lastDeploy[j]]
  /\ handlers' = [handlers EXCEPT ![h] = NoRequest]
  /\ UNCHANGED <<now, up, db, lock, runner, budget, dirty>>

\* Mutant of CacheWrite: the handlers do not take the lock.
CacheWriteUnlocked(h) == AnswerFromCache(h)

\* with lock: ...
CacheWrite(h) == lock = "free" /\ AnswerFromCache(h)

-----------------------------------------------------------------------------
(* run_scheduled_jobs *)

TickStart ==
  /\ up
  /\ lock = "free"
  /\ lock' = "runner"
  /\ runner' = [pc |-> "loop", todo |-> Cached, job |-> NoJob]
  /\ UNCHANGED <<now, up, db, cache, before, handlers, known, budget, ghosts>>

\* The next job of the dictionary: skipped, or deployed when it is due.
Examine(j) ==
  /\ runner.pc = "loop"
  /\ IsFirst(j)
  /\ runner' = IF IsDue(cache[j])
               THEN [pc |-> "deploy", todo |-> runner.todo \ {j}, job |-> j]
               ELSE [runner EXCEPT !.todo = @ \ {j}]
  /\ UNCHANGED <<now, up, db, cache, before, lock, handlers, known, budget, ghosts>>

\* Mutant of Abort: acquire and release around the loop instead of "with".
AbortLocked == UNCHANGED lock /\ runner' = NoTick

\* An exception leaves the with block: the lock is released and the rest of
\* the iteration is given up.
Abort ==
  /\ lock' = "free"
  /\ runner' = NoTick

DeployJob ==
  /\ runner.pc = "deploy"
  /\ runner.job \notin Broken
  /\ runner' = [runner EXCEPT !.pc = "mark"]
  /\ lastDeploy' = [lastDeploy EXCEPT ![runner.job] = now]
  /\ UNCHANGED <<now, up, db, cache, before, lock, handlers, known, budget, dirty>>

\* The platform rejects the job, or the call or its answer is lost.
DeployFails ==
  /\ runner.pc = "deploy"
  /\ \/ runner.job \in Broken /\ UNCHANGED budget
     \/ /\ budget.faults < MaxFaults
        /\ budget' = [budget EXCEPT !.faults = @ + 1]
  /\ Abort
  /\ UNCHANGED <<now, up, db, cache, before, handlers, known, ghosts>>

\* Mutant of MarkRun: the run is recorded on a copy of the cached object.
MarkRunOnCopy ==
  /\ runner.pc = "mark"
  /\ runner' = [runner EXCEPT !.pc = "persist"]
  /\ UNCHANGED <<now, up, db, cache, before, lock, handlers, known, budget, ghosts>>

\* update_db, first half: the cached object itself is changed.
MarkRun ==
  LET doc == cache[runner.job] IN
  /\ runner.pc = "mark"
  /\ cache' = [cache EXCEPT ![runner.job] =
       [doc EXCEPT !.last_run = now, !.next_run = NextOccurrence(doc.cron, now)]]
  /\ runner' = [runner EXCEPT !.pc = "persist"]
  /\ UNCHANGED <<now, up, db, before, lock, handlers, known, budget, ghosts>>

\* Mutant of StoreRun: create_json_document, which inserts a missing document.
StoreRunUpsert ==
  LET j == runner.job IN
  /\ db' = [db EXCEPT ![j] = cache[j]]
  /\ dirty' = IF \E h \in Open(j) : handlers[h].op = "update" THEN dirty \cup {j}
                                                              ELSE dirty

\* The document takes the cached object's fields; when a request on the job is
\* half done, this overwrites what it has just stored.
StoreRun ==
  LET j == runner.job IN
  /\ db[j] # NoDoc
  /\ db' = [db EXCEPT ![j] = MergePatch(db[j], cache[j])]
  /\ dirty' = IF Open(j) = {} THEN dirty ELSE dirty \cup {j}

\* update_db, second half: the document is written.
PersistRun ==
  /\ runner.pc = "persist"
  /\ StoreRun
  /\ runner' = [runner EXCEPT !.pc = "loop", !.job = NoJob]
  /\ UNCHANGED <<now, up, cache, before, lock, handlers, known, budget, lastDeploy>>

\* The document was deleted meanwhile: update_json_document raises.
PersistNotFound ==
  /\ runner.pc = "persist"
  /\ db[runner.job] = NoDoc
  /\ Abort
  /\ UNCHANGED <<now, up, db, cache, before, handlers, known, budget, ghosts>>

\* The write fails, without effect or with its answer lost.
PersistFails ==
  /\ runner.pc = "persist"
  /\ budget.faults < MaxFaults
  /\ budget' = [budget EXCEPT !.faults = @ + 1]
  /\ \/ UNCHANGED db /\ dirty' = dirty \cup {runner.job}
     \/ StoreRun
  /\ Abort
  /\ UNCHANGED <<now, up, cache, before, handlers, known, lastDeploy>>

TickEnd ==
  /\ runner.pc = "loop"
  /\ runner.todo = {}
  /\ Abort
  /\ UNCHANGED <<now, up, db, cache, before, handlers, known, budget, ghosts>>

-----------------------------------------------------------------------------
(* The process and its environment *)

\* on_startup: the dictionary is filled from the database; clients can list
\* what it holds.
OnStartup ==
  /\ ~up
  /\ up' = TRUE
  /\ cache' = db
  /\ before' \in Orders(Stored)
  /\ known' = known \cup Stored
  /\ dirty' = {}
  /\ UNCHANGED <<now, db, lock, handlers, runner, budget, lastDeploy>>

\* All memory is lost.  A deployment is forgotten when its run was not stored.
Crash ==
  /\ up
  /\ budget.crashes < MaxCrashes
  /\ budget' = [budget EXCEPT !.crashes = @ + 1]
  /\ up' = FALSE
  /\ cache' = [j \in Jobs |-> NoDoc]
  /\ before' = {}
  /\ lock' = "free"
  /\ handlers' = [h \in Handlers |-> NoRequest]
  /\ runner' = NoTick
  /\ lastDeploy' = [j \in Jobs |->
       IF db[j] # NoDoc /\ db[j].last_run >= lastDeploy[j] THEN lastDeploy[j]
                                                           ELSE NoRun]
  /\ UNCHANGED <<now, db, known, dirty>>

Pass ==
  /\ now < MaxTime
  /\ now' = now + 1
  /\ UNCHANGED <<up, db, cache, before, lock, handlers, runner, known, budget, ghosts>>

Handle(h) == DbCall(h) \/ DbNotFound(h) \/ DbCallFails(h)

Run ==
  \/ TickStart
  \/ \E j \in Jobs : Examine(j)
  \/ DeployJob
  \/ DeployFails
  \/ MarkRun
  \/ PersistRun
  \/ PersistNotFound
  \/ PersistFails
  \/ TickEnd

Next ==
  \/ \E h \in Handlers :
       \/ CreateSchedule(h)
       \/ UpdateSchedule(h)
       \/ DeleteSchedule(h)
       \/ DeleteSchedules(h)
       \/ Handle(h)
       \/ CacheWrite(h)
  \/ Run
  \/ OnStartup
  \/ Crash
  \/ Pass

Spec == Init /\ [][Next]_vars

\* The container is restarted after a crash, remote calls end, the background
\* call comes back every minute, and a thread that waits for the lock finds it
\* free between two ticks again and again.
Fairness ==
  /\ WF_vars(OnStartup)
  /\ WF_vars(Run)
  /\ \A h \in Handlers : WF_vars(Handle(h)) /\ SF_vars(CacheWrite(h))

FairSpec == Spec /\ Fairness

-----------------------------------------------------------------------------
(* Properties *)

\* Every variable has its type, and the lock is held exactly while a tick is on.
TypeOK ==
  /\ now \in Time
  /\ up \in BOOLEAN
  /\ db \in [Jobs -> Doc \cup {NoDoc}]
  /\ cache \in [Jobs -> Doc \cup {NoDoc}]
  /\ before \in SUBSET (Jobs \X Jobs)
  /\ lock = IF runner.pc = "idle" THEN "free" ELSE "runner"
  /\ handlers \in [Handlers -> Request]
  /\ runner \in Tick
  /\ known \in SUBSET Jobs
  /\ budget \in [requests : Nat, faults : Nat, crashes : Nat]
  /\ lastDeploy \in [Jobs -> Time \cup {NoRun}]
  /\ dirty \in SUBSET Jobs

\* The tick iterates over the live dictionary (jobs.items()), so no job may
\* enter or leave it before the iteration is over: Python would raise
\* "dictionary changed size during iteration" and drop the rest of the tick.
\* Handlers run between any two steps of the tick; only the lock prevents it.
CacheFrozenDuringTick ==
  [][lock = "runner" /\ lock' = "runner" => Cached' = Cached]_vars

\* When the tick is about to deploy a job, an occurrence of its cron string has
\* passed since the last deployment the platform acknowledged for this version
\* of the schedule: no failed write of the run, no aborted tick and no restart
\* runs the same occurrence twice.  (A crash before the run is stored can.)
OneDeploymentPerOccurrence ==
  runner.pc = "deploy" =>
    LET j == runner.job IN
    lastDeploy[j] # NoRun => NextOccurrence(cache[j].cron, lastDeploy[j]) <= now

\* The cached object and the document are the same, except that a merge patch
\* never takes a parameter away.
Mirror(c, d) ==
  \/ c = NoDoc /\ d = NoDoc
  \/ /\ c # NoDoc /\ d # NoDoc
     /\ c.cron = d.cron /\ c.params \subseteq d.params
     /\ c.created = d.created /\ c.last_run = d.last_run /\ c.next_run = d.next_run

\* No write on j is under way.
Settled(j) ==
  /\ up
  /\ Open(j) = {}
  /\ ~ (runner.pc = "persist" /\ runner.job = j)

\* Database and dictionary agree on every job that is not being written, unless
\* two writes of it overlapped or a remote call on it failed since the process
\* started: a tick that runs a job while it is deleted, a tick aborted halfway
\* and a crash followed by a restart leave no ghost and lose no schedule.
CacheMirrorsDb == \A j \in Jobs : Settled(j) /\ j \notin dirty => Mirror(cache[j], db[j])

\* Every request a handler has accepted is answered or fails: the tick gives the
\* lock back on every path, exceptions included.
RequestsAnswered ==
  \A h \in Handlers : handlers[h].pc # "idle" ~> handlers[h].pc = "idle"

Due(j) == j \in Cached /\ IsDue(cache[j])

\* A job that is due is run (or changed, deleted or lost with the process).
DueJobRuns == \A j \in Jobs \ Broken : Due(j) ~> ~ Due(j)
=============================================================================
