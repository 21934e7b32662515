# ML Lab: specifications

TLA+ models of the parts of ML Lab that keep state while several requests,
processes or callbacks work on it, with the TLC runs that check them and the
TLAPS proofs about them.

ML Lab is a set of components on top of the contaxy platform. The platform
itself (`src/contaxy`) is a git submodule that is empty in this tree: its JSON
database, service manager, job manager and file store are modelled as external,
from how the code in `src/` calls them.

1. [Inventory](#1-inventory): components, state, interactions, hard behaviours
2. [Plan](#2-plan): modules in order, what is done and what is left
3. [The models](#3-the-models): state and actions against the code, properties, bounds, fairness
4. [Runs](#4-runs)
5. [Proofs](#5-proofs)
6. [What the runs and models show of the code](#6-what-the-runs-and-models-show-of-the-code)
7. [Limits](#7-limits): only model-checked, not modelled
8. [How to run](#8-how-to-run)

## 1. Inventory

Paths are relative to `src/`.

| Component | Code | State | Operations | Status |
|---|---|---|---|---|
| Job scheduler backend | `components/lab-job-scheduler/backend` | documents "schedules" in the database, dictionary `cached_scheduled_jobs`, `job_lock` | create, update, delete one or all schedules, list; a tick every 60 s; load at startup | modelled |
| SSH key cache | `docker/ssh`, `docker/entrypoint.sh` | files `authorized_keys_cache`, `query_cache`, `cache_files.lock` | full and incremental update, login (`authorize.sh`), start of the container | modelled |
| MLflow tracking store | `components/lab-mlflow-manager/lab-mlflow-server/mlflow-mllab-plugin/ml_lab_plugin/tracking_store.py` | documents "experiments" and "runs" in the database | create, log, set status, delete, restore, rename, tag, read | modelled |
| Workspace page, MLflow page | `webapp` of the two manager components | the list shown, `requestRunning`, flags and timers of the page | list, deploy, start, update, poll | modelled |
| Workspace manager, MLflow manager | `backend` of the two manager components | none of their own: services of the platform | list, get, deploy, update, start, delete | partly |
| Platform client of the web app | `webapp/src/services/contaxy-client`, `contaxy-api.js` | a call under way | the ninety-six operations of the platform: path, arguments, body, type of the answer | modelled |
| Project pages of the web app | `webapp/src/pages/Services`, `Jobs`, `Files`, `services/api-hooks.js`, dialogs | the list shown, list requests, the open dialog | load, reload, choose a project or folder, deploy, upload, delete one or many | partly |
| Session of the web app | `webapp/src/pages/App/App.jsx`, `app/store.jsx`, `pages/Login`, `Projects.jsx` | user, `isAuthenticated`, projects, chosen project, cookies | log in and out, check who is logged in, load, choose, add and delete projects | partly |
| Web app: other pages and dialogs | `webapp/src/components`, other `pages` | what is typed into them | forms, tables, frames | not modelled |
| MLflow artifact repository | `ml_lab_plugin/artifacts.py` | files of the platform, a thread pool | log, list, download | not modelled |
| Python client | `client` | downloaded files, a connection | wait for jobs, cached files, MLflow set-up | not modelled |
| Scheduler web page | `webapp` of lab-job-scheduler | the list shown | forms | not modelled |
| Reverse proxies | nginx configurations and their scripts | none | routing, cookies | not modelled |
| Deployment, build, docs | `deployment`, `build.py`, `docs`, generated Python and Java clients | none | none | not modelled |

How they interact:

- The scheduler, the tracking store and the managers call the platform over
  HTTP. A call can fail without effect, or take effect and lose its answer.
  `update_json_document` is a JSON merge patch (RFC 7396),
  `create_json_document` replaces a document that is there already (JsonApi.js:37).
- The handlers and the tick of the scheduler share a dictionary under a lock; the
  database is written outside that lock.
- The workers of the MLflow server share nothing but the database. Each call of
  the store is several database calls.
- Executions of the two SSH scripts share three files. The Python script excludes
  itself with a file lock, the shell script reads without it.
- A page of a web app and its backend share nothing but requests and answers. The
  page's callbacks run one at a time; between them anything may happen.
- Every request of the web app goes through `ApiClient.js`, which times out. The
  project pages show the lists of the project the session has chosen.

What is hard about it, and the property that says what must not go wrong:

- two writes of the same thing, to the database and to a cache, with other
  writers, failures and crashes in between (`CacheMirrorsDb`, `AskedIsRecorded`);
- a long loop over a dictionary that handlers change (`CacheFrozenDuringTick`),
  and that any remote call may end (`RequestsAnswered`, `DueJobRuns`);
- a crash or failed call between the deployment of a job and the record of it
  (`OneDeploymentPerOccurrence`);
- read, compute, write back, over two requests to a database without
  transactions (`KeysStay`, `MetricsAreKept`, `AcknowledgedStay`, `ChangesAreAsked`);
- an answer put together from several reads (`FinishedRunIsComplete`);
- locks that are tried and not waited for, with the hope that a later try
  succeeds (`KeysGetRecorded`);
- answers that arrive late, after a cancellation or after the state they
  describe has changed (`FlagIsFreed`, `StartIsSeen`, `PageCatchesUp`,
  `PageIsRight`, `NeverBack`, `ChangesAreListed`);
- ids of any characters in the path of a request, and answers of any kind and at
  any time (`ServerReadsTheCall`, `DataIsOfItsType`, `OutcomeIsKnown`);
- effects of React that run again because of what they have set
  (`LoginGetsIn`, `BreaksOnlyUnknown`).

`PROJECT.json` lists each hazard at its line, with the properties that cover it or
the reason why none does.

## 2. Plan

In order of importance. The last column has the modules with the theorems; what has none is in [section 7](#7-limits).

| | Module | Content | Checked | Proved |
|---|---|---|---|---|
| A | `JobScheduler` | scheduler backend | safety, liveness | `JobSchedulerProofs` |
| B | `SshKeyCache` | SSH key cache | safety, liveness | `SshKeyCacheProofs` |
| C | `TrackingRuns`, `RunStore` | runs of the tracking store, and what a store promises | safety, refinement | `TrackingRunsProofs`, with the refinement |
| C | `TrackingExperiments` | experiments of the tracking store | safety | `TrackingExperimentsProofs` |
| D | `WorkspacePage` | page, hook and backend | safety, liveness | `WorkspacePageProofs` |
| E | `ContaxyOperations`, `ContaxyCalls` | the platform's operations, and one call of them | safety | `ContaxyCallsProofs` |
| F | `ProjectPages` | lists of a project | safety, liveness | `ProjectPagesProofs` |
| G | `WebSession` | login, checks and projects | safety, liveness | `WebSessionProofs` |

Composition: `TrackingRuns` instantiates `RunStore`; `ContaxyCalls` extends
`ContaxyOperations`. `WorkspacePage` composes the page with its backend.
`ProjectPages` and `WebSession` make requests through the client of `ContaxyCalls`: that
each of theirs is answered or fails at last is the timer of `ApiClient.js` (`TimeOut`).

## 3. The models

### JobScheduler

`app.py` and `job_deployer.py`. The backend runs with one web worker
(`WEB_CONCURRENCY=1` in its Dockerfile), so there is one process and one cache,
with a pool of threads (`Handlers`).

| Variable | Code |
|---|---|
| `db` | collection "schedules" |
| `cache`, `before` | `cached_scheduled_jobs` of one project and its insertion order |
| `lock` | `job_lock`, when held across a remote call |
| `handlers` | each thread: before its database call (`db`) or between that and the dictionary (`cache`) |
| `runner` | `run_scheduled_jobs`: what is left of the loop, the job at hand, the place in `deploy_job` and `update_db` |
| `up`, `now` | process and clock |
| `lastDeploy`, `dirty` | history |

A request is three steps: it is received, it calls the database (`DbCall`, `DbNotFound`,
`DbCallFails`), it takes the lock and changes the dictionary (`CacheWrite`). The last
section makes no remote call, so it is one step, possible when the lock is free. The tick
holds the lock from `TickStart` to `TickEnd`; between them it deploys (`DeployJob`), marks the
cached object (`MarkRun`) and stores it (`PersistRun`), each a step beside which
handlers run. An exception leaves the loop (`Abort`) and releases the lock. The
library that calls the tick every minute is assumed to call it again. `Crash` loses
all but `db`, `OnStartup` loads it, in any dictionary order.

A job is its cron string, the keys of its parameters and three time stamps.
Cron strings are abstract: `NextOccurrence` is a constant operator of which
`CronAssumption` says all the code relies on. `next_run` is computed from a second clock
reading, which may be any time between the first one and the call. Projects other than
one are left out: they share the lock and the tick and nothing else.

`lastDeploy` is the time of the last deployment the platform acknowledged; it is
forgotten when the schedule is created, changed or deleted and when the process
crashes before the run was stored. `dirty` names jobs of which two writes overlapped
(one of them an update) or one failed since the start; there the code lets
database and cache drift apart until the next start (section 6).

- `OneDeploymentPerOccurrence`: at a deployment an occurrence has passed since the last acknowledged one.
- `CacheMirrorsDb`: database and dictionary agree on settled jobs that are not dirty.
- `CacheFrozenDuringTick`: nobody resizes the dictionary during the loop.
- `RequestsAnswered`, `DueJobRuns`: liveness.

Bounds: 2 jobs, one of them created before the start (`First`), 2 threads, one occurrence of each
cron string (time 0 and 1), 2 requests, 1 failed call, 1 crash. The interesting overlaps need two
writers of one stored job and a tick, and those need 2 threads and 2 jobs (for the
order of the loop); deploying the same occurrence again needs one. The safety properties are proved for any
number of all of these.

Fairness: the process is restarted after a crash (`WF OnStartup`, the container's
restart policy), remote calls end (`WF Handle`, `WF Run`), and a thread that waits for the lock
gets it at last (`SF CacheWrite`): the tick frees the lock and sleeps for a minute.

### SshKeyCache

`update_authorized_keys.py`, `authorize.sh`, and the end of `entrypoint.sh`.

| Variable | Code |
|---|---|
| `cached`, `exists`, `age` | `authorized_keys_cache`: keys, existence, modification time as the thresholds of `authorize.sh` see it (2 min, 4 h) |
| `query` | `query_cache` |
| `lock` | `cache_files.lock` |
| `scripts` | executions of the Python script: one in the background, one per session |
| `sessions` | executions of `authorize.sh` |
| `status` | targets: containers or pods, before and after they have their key file |
| `sshd` | container down, entrypoint running, sshd up |
| `blank` | history: targets whose last answer was not a key |
| `torn` | history: keys that a full run which raised has cut off |

The Python script takes the lock or gives up (`timeout=0`), lists the targets, asks each
one that `query_cache` does not name, opens the key file (a full run empties it), writes
one key at a time, opens `query_cache` (which empties it) and writes its entries one by one. Any step with the
lock may raise, also between two writes, which ends the script and releases the lock. What asking a target can bring is
`Answers`, with the differences between the two clients: Docker's catches a refused
connection and execs, and a container without a key file answers with an error text,
which is taken as an answer; the Kubernetes client catches a connection timeout
only. A restart ends all processes and leaves the files. A key is identified with its
target, and container ids are used once.

- `AskedIsRecorded`: a target in `query_cache` is never asked again, so its key is on file.
- `FullRunReplaces`: a full run leaves the keys it found and no other.
- `KnownKeyPrinted`: a login prints a key that was cached when it began, unless the target has stopped, a full run has just emptied
  the file and is about to write the key, or one raised while it wrote. In the last case `query_cache` does not name the target:
  the next update asks it again.
- `KeysGetRecorded`: trying helps, unless the target was asked before it had its key
  (`blank`) and is named in `query_cache`: then only a full run asks it again.

Bounds: 2 targets, one without key server and one late; a login at a time plus the background
script, which compete for the lock; 1 exception or restart. The safety properties are proved
for any number of logins at a time.

Fairness: processes run on (`WF` of scripts, sessions, entrypoint), time passes (`WF Grow`), and a user
who cannot log in tries again (`SF Login` per target).

### TrackingRuns and RunStore

`MlLabTrackingStore`, the methods about runs. One run is one document (`doc`). A request
(`workers`) goes through "check" (a batch looks whether the run is active), "read" and
"write" once per item or once in all, or through the four reads of `get_run`
(`parts`). A patch is computed from the copy that was read; `MergePatch` and `Overlay` are the database:
tables are merged key by key, lists replaced, null fields removed. The value a
request logs is its number, so that a lost value can be named.

- `KeysStay`: no metric, param or tag disappears.
- `FinishedRunIsComplete`: a run that `get_run` shows as finished is shown with all it had when it was finished. It rests on the info being the first of the four reads.
- `IsRunStore`: every step is a step of `RunStore` or a stutter, half-written batches and lost answers included. The mapping hides
  `end_time`, which a deletion loses. Nothing in the code serialises requests, so one may write what it has worked out from a
  document that has changed since (`Overlapping`); then the step may be any that keeps the keys (`Interfere`).
- `MetricsAreKept`: a value of a metric whose request was answered is in the history of the metric, unless a list of that metric
  was written that does not extend the one it replaced (`contested`): failures, batches, deletions, status updates and values of other keys lose none.

Bounds: 2 workers on 2 keys with 4 requests, every kind of request and of batch, 1 failed call. The reader, the one who
finishes and one who logs need one request each, after the creation.

### TrackingExperiments

The methods about experiments. `create_experiment` goes through all experiments twice, each
time listing the active ones and then the deleted ones and reading every document; the
number of the new one is the largest plus one. The other requests read a document and
write it back.

Nothing keeps one request from being overtaken by another between its reads and its write. The history variables `overtaken` (requests
that have missed a write that matters to them) and `raced` (numbers that such a creation has written) say where that has happened, and the
properties what follows.

- `AcknowledgedStay`: no experiment whose creation was answered is replaced, but by a creation that another creation or a
  write that made a deleted experiment active has overtaken. It rests on the order of the two listings: in the other order an experiment
  that is deleted meanwhile is seen by neither. Deletions and failures do no harm.
- `ChangesAreAsked`: what changes in an experiment is what a request asks of it as it is at that time, or the request was overtaken
  between its read and its write. So a deleted experiment is active again only by a restore, or by a request that was overtaken.
- `ActiveAreRenamed` is what the message of `rename_experiment` says, and is refuted: a deletion between its read and its write is undone.

Bounds: 2 workers, each with every kind of request, 5 requests, 1 failed call. Two creations, two changes of what they created and
one more request give every overlap of two.

### WorkspacePage

`Workspace.jsx` and `useApiHook` of the workspace manager, with the backend calls they make.
`MLFlowServer.jsx` is the same page without the config dialog.

| Variable | Code |
|---|---|
| `world` | what `list_workspaces` would answer now |
| `data`, `running` | state and `requestRunning` of the hook |
| `flying` | list requests, cancelled or not, answered or not |
| `deployment`, `deploying` | deployment of the default workspace, `workspaceDeploymentLoading` |
| `dialog`, `op`, `edit`, `loading` | config dialog, start and update requests up to their timers, `workspaceLoading` |
| `cut` | history: a reload has cancelled a request under way |

An action is a callback with the effects it sets off: the page's code runs in one thread.
Time-outs are actions that are possible from the moment their timer is set.

- `FlagIsFreed`: the flag that keeps requests from overlapping is raised only while a request is under way that will lower it, unless a reload cancelled one.
- `StartIsSeen`: a page at rest does not show as stopped a workspace it has started, though it has two timers and a list that may be older than the start.
- `LoadingEnds`: the spinner ends, also after a failure.
- `PageCatchesUpInTime`: if no reload cancels a request, a page does not show a pending workspace for ever. Without that condition (`PageCatchesUp`) it is refuted.

Bounds: 2 failed requests; one edit at a time. Nothing else is unbounded.
Fairness: requests are answered, timers fire, a workspace that starts gets ready. Nobody has to click,
and no workspace has to stop.

### ContaxyOperations and ContaxyCalls

`ContaxyOperations` is the table of what the ten classes under
`contaxy-client/api` do, one definition per method: its path as a sequence of segments, the
arguments it throws without, what goes into the query and into the body, and what the answer is
converted to. `ContaxyCalls` is `ApiClient.js` over that table, for one call at a time.

| Variable | Code |
|---|---|
| `phase`, `result` | the promise of the call, and what it was settled with |
| `call` | the method and the arguments that are set |
| `request`, `flying` | what leaves the browser, and which way it is under way |
| `answer`, `done` | the server's answer, and whether it did what it was asked |

`BuildUrl` encodes the arguments into the template; `Segments`, `Fits` and `ArgumentsRead` are the
external counterpart: a server that cuts the path at its slashes and compares it with the
templates. An answer is one of the kinds `deserialize` and `convertToType` tell apart. A
request that times out may reach the server later.

- `ServerReadsTheCall`: the server finds the operation that was called, no other, and the arguments that were set, for ids that hold slashes, colons and percent signs. The exceptions are in the definition: `/users/me`, and the form of a GET that browsers drop.
- `DataIsOfItsType`: who asks for a list gets a list or a rejected promise. `FilesApi.js` imports no model `File`: the name is the
  browser's, which converts nothing, so the metadata of files and the items of their lists are whatever the server sent (`Unconverted`).
- `OutcomeIsKnown`: resolved means done, refused or thrown means not done and never will be.

Bounds: all operations with all subsets of their arguments; four ids, among them the empty one, `me`, one with
a slash and one that ends like a verb. One call says all, since calls share nothing.

### ProjectPages

`Services.jsx`, `Jobs.jsx` and `Files.jsx` with `useApiHook` and the dialogs that change something.

| Variable | Code |
|---|---|
| `kind`, `place` | the page that is open; the chosen project, and the folder |
| `shown`, `failed` | the list on the page: its place and how many changes it has seen |
| `requests` | list requests whose answer still counts |
| `dialog`, `service` | the dialog of `AppDialogServiceProvider`, and the row whose actions it offers |
| `uploading` | the upload dialog of `Files` |
| `ops` | changes of the page under way |
| `changes` | what the server has done, by place |
| `acked`, `acted`, `calm` | history: the changes the list should have; the actions the page has an answer for; whether the user waits |

An action is a click, an answer or what the server does; effects run with the change they depend on.
The hook cancels the request before (`isCanceled`), `reloadFiles` does not: it remembers
the project of the closure and sets whatever arrives. After a change of its own a page loads its list,
except after an action of a service (`Execute`), which may change the status that is listed.

- `PageIsRight`: a page at rest shows the chosen place and every change it was told of; of the actions of a service those it was told of
  before it last asked for the list. For files only if the user clicks while nothing is under way (section 6).
- `NeverBack`: a list of services or jobs is never replaced by an older one of the same place.
- `ChangeShows`: a change that was acknowledged shows in the end (`WF ListStep`: list requests are answered).

Bounds: two projects, four clicks, one change by others, one failed list request. Two
projects and a reload give all overlaps of three lists.

### WebSession

The effects of `App.jsx`, `store.jsx`, `Login.jsx`, `UserMenu.jsx`, `useProjectSelector` and `Projects.jsx`, for one tab.

| Variable | Code |
|---|---|
| `session`, `hint`, `world` | session and hint cookie, the projects of the user |
| `auth`, `user` | `isAuthenticated`, `user` of the store |
| `checks` | `requestUserInfo` under way: before `getMyUser` or before `verifyAccess` |
| `login`, `leaving` | the login request, log out |
| `dialog`, `ops` | the dialog that adds or deletes a project, and the additions and deletions under way |
| `projects`, `active`, `stored` | the store's projects and choice, and the choice in local storage |
| `loads` | `loadProjects` under way |
| `broken` | an effect has thrown |
| `entered`, `overlap`, `early`, `tidy`, `due` | history |

The projects page is offered as soon as the app takes the user to be logged in, before it knows who that is: a project
can be added while the first check is under way, and the list is then loaded and chosen from without a user (`early`).

- `LoginGetsIn`: who logs in gets in, whatever checks from before the login are still to fail. The check that fails resets the user and the effect sends another one.
- `BreaksOnlyUnknown`: `user.id` (App.jsx:95) is read without a user only after two checks have overlapped, or after a change was
  acknowledged before the user was known.
- `ProjectIsChosen`: whenever the user's own project is listed one is chosen, unless the app has broken, and the chosen one is the stored one.
- `ChangesAreListed`: once the projects are loaded, those the user has added are there and those the user has deleted are not, if loads did not
  overlap or fail. `due` has the changes that were answered; a further change of the same project takes it out again, since the
  server may have made that change already, whether or not its answer arrives; two changes of one project at once leave it open.

Bounds: two projects, any three of logins, reloads, log-outs, changes, failures and the end of the session. Loading the
page starts a check of its own, which a login overlaps with; two changes are what it takes to add a
project and delete it again, with the lists of both under way. Fairness: checks and loads are answered. Nobody has to click or to log in.

## 4. Runs

| Run | Module | Result | Shows |
|---|---|---|---|
| `scheduler` | `MCJobScheduler` | holds, 105 k states | no occurrence deployed twice, no resized dictionary, cache and database agree, requests are answered and due jobs run, over every interleaving of two threads, tick, failure and crash |
| `scheduler_head_of_line` | `MCJobScheduler` | violated | a job that is always rejected starves those behind it |
| `ssh` | `MCSshKeyCache` | holds, 113 k | neither file is ever wrong about the other; a known key is lost only where it will be asked for again; a user who keeps trying gets in |
| `ssh_refused` | `MCSshKeyCache` | violated | with Kubernetes one pod that refuses connections keeps everybody out |
| `runs` | `MCTrackingRuns` | holds, 1.1 M | nothing disappears from a run; finished runs are shown whole; values of metrics are lost only to lists written over them; where requests do not overlap the store is atomic |
| `experiments` | `MCTrackingExperiments` | holds, 1.9 M | numbers are given twice, and changes undone, only by requests that were overtaken |
| `experiments_rename` | `MCTrackingExperiments` | violated | a rename undoes a deletion |
| `workspace_page` | `MCWorkspacePage` | holds, 13 k | the page keeps up with its backend |
| `workspace_page_slow` | `MCWorkspacePage` | violated | a slow list request stops the page for ever |
| `api_client` | `MCContaxyCalls` | holds, 104 k | each operation reaches the server as it was called, and its promise says what happened |
| `project_pages` | `MCProjectPages` | holds, 2.0 M | lists of services, jobs and files belong to what is chosen and show the page's own changes |
| `web_session` | `MCWebSession` | holds, 1.8 M | who logs in gets in; projects are chosen, remembered, and follow additions and deletions |

Each module's `TypeOK` is checked by the first run of the module in this table.
Symmetry is used in `runs` and `experiments`, where all properties are invariants or action
properties. Deadlock is checked for the scheduler, the key cache and the client; the runs of
the tracking store end when no request is left, and a page may come to rest.

Every property of a run that holds has a mutant in `PROJECT.json`: a change of one definition, like a
plausible slip in the code it models, with which the run fails. The mutated definitions
stand next to the originals, marked "Mutant of" or "For comparison".

## 5. Proofs

All theorems are about `Spec` with arbitrary constants: any number of jobs,
threads, targets, sessions, workers, keys, any bound on requests and failures. They
assume what the modules' named `ASSUME`s say, which TLC evaluates in the runs, and nothing else.

**JobSchedulerProofs** (`CronAssumption`, `NullAssumption`): `SchedulerTypes`, `SchedulerDeploysOnce`,
`SchedulerCacheMirrorsDb`, `SchedulerTickIteratesSafely`. The invariant:

- `RequestsOK`: a request has a document exactly when it stores one;
- `TickOK`: the jobs of the loop are in the dictionary, needed to read `cache[j].last_run`;
- `RunsRecorded`: the cached object knows of every acknowledged deployment, except between the platform's
  answer and the mark. This is why no occurrence is deployed twice: `IsDue` asks for an occurrence
  after `last_run`, which is no earlier than `lastDeploy`, and `NextOccurrence` is monotone;
- `DownOK`: while the process is down the document does;
- `WritesOK`: what `CacheMirrorsDb` leaves open. A half-done request has stored what it will
  cache, two half-done requests on one job are both removals, and a run about to be stored finds its document.

**SshKeyCacheProofs** (`KeyCacheAssumption`): `KeyCacheTypes`, `KeyCacheAskedIsRecorded`,
`KeyCacheFullRunReplaces`, `KeyCacheKnownKeyPrinted`, for both clients. `HoldersOK` says what the script with the lock knows at each of its steps: `query_cache`
is as it read it; all it asked is accounted for; what it found is written or about to be. `StartersOK`
and `SlotsOK` say that others have done nothing yet and that a session waits for its script. `TypeOK`
has the lock in it: it is held by exactly the script past its first step. For the last theorem
`KeysOK` says that keys are only got from targets that give them, `CoverOK` that a full run passes over no key on
file but those of stopped targets, and `HadOK` that a key a login has found stays, is about to be written again, or was cut off by a full run; `TornOK` says that
`query_cache` names none of these, and that a script which has asked one of them still has to write its key.

**TrackingRunsProofs** (`RunsAssumption`, `VisibleAssumption`): `RunTypes`, `RunKeysStay`, `RunFinishedIsComplete`.
`KeysStay` follows from types and two lemmas about `Overlay` and `MergePatch`: a patch removes no key.
For the third theorem `FinishedOK` says that a document, or a copy about to be written, that is finished was
finished at a known time, and `ReadersOK` that what a reader of a finished run has not seen yet is in the reads it has before it.

`RunMetricsAreKept` has `HeldInv`: what was acknowledged is in the document or contested, and the items of a batch that was answered are
logged, those of one under way are logged, contested or still to do. It rests on `StoreLogs`: a list that extends the one it replaces keeps its values.
The refinement `RunIsRunStore` needs of it only that what was refused is not written: a worker whose copy is the document (not `Overlapping`) writes what changing
one field of it makes (`StoreAtomic`), which is a step of `RunStore`; any other write keeps the keys (`InterfereStep`, from `KeysStayStep`);
reads, checks, answers and failures without effect are stutters.

**TrackingExperimentsProofs** (`ExperimentsAssumption`): `ExperimentTypes`, `AcknowledgedExperimentsStay`, `ExperimentChangesAreAsked`.
Types alone are not inductive: a creation takes the largest number plus one, and that this stays in
the range needs `NumbersOK`. Experiments are numbered from 0 without a gap, each belongs to the one request that created it, and requests are
bounded; a count of the experiments by their requests gives the bound. `FreshOK` has the rest:
a creator that has both lists and was not overtaken has missed no experiment, since what it did not see as active can only
have been deleted meanwhile (`CreatorOK`), so its number is new; and a copy about to be written is the document, which the request
may still change, unless the request was overtaken (`CopyOK`).

**WorkspacePageProofs** (`PageAssumption`): `PageTypes`, `PageFlagIsFreed`, `PageStartIsSeen`. `FlagOK`: unless a
request was cut off, none is cancelled and a raised flag has its request. `FreshOK`: with no
start or update under way neither the page nor an answer on its way is older than the last start; the timer's reload is what restores it.

**ContaxyCallsProofs** (`CallsAssumption`: the values of arguments are sequences of characters): `CallsOutcomeIsKnown`. `AnswerIsTrue` and
`Settled`: an answer on its way tells what the server did, and nothing is under way after a refusal.
`CallsTypes` and `CallsDataIsOfItsType` rest on a lemma per API class: each of the ninety-six operations is written with a return type
`convertToType` knows; and on `Settled`, by which no answer arrives after the promise is resolved.

`CallsServerReadsTheCall` has an invariant of its own, `Sending`: a request under way is the one `callApi` makes of the call. That this request
is read as the call it was made of goes in four steps:

1. `EncodedValueIsWhole`: decoding gives a value of any characters back, and nothing in its code can be taken for the end of a segment.
2. `CutIsJoined`: a path is cut where its segments were put together. This is an induction over their number, done by a
   least counterexample (`Induced`, from `WFMin` of the library), since the library's induction theorems take an operator.
3. The templates are spelled out, a lemma per API class, and from a template that fits a path follow the method, the words and the verb of the operation it
   was made of (`FittingIsSame`, `FittingIsClose`). So no two operations are mistaken for each other (`OperationsApart`) but those of
   `/users/me` and `/users/{id}`, which `ServerReadsTheCall` excepts.
4. Each argument is found in its segment, the query or the body (`ArgumentsAreRead`).

**ProjectPagesProofs** (`PagesAssumption`): `PagesTypes`, `PagesAreRight`. `OneRequest`: as long as the hook cancels or the user
waits there is at most one list request, for the chosen place, and an answer on its way is no older than the last
change the page knows of. `DialogsOK` and `OpsOK` say whose actions a dialog offers. `OneThing` is what waiting means for files; `KnownIsDone` and `Nowhere` tie the history to the server's changes.
`PagesNeverGoBack` has an invariant of its own, `Forward`: no list has seen a change that was not made, and the answer a hook is still waiting for, if it is
for the place that is shown, is at least as new as the list shown. It needs that a hook waits for one answer at a time, which `TypeOK` says.

**WebSessionProofs** (`SessionAssumption`): `SessionTypes`, `SessionBreaksOnlyUnknown`, `SessionProjectIsChosen`. `Alone`: as long as
checks have not overlapped there is one at a time and none while the user is known; so loads, if none was early, have one, and no check can fail
that would forget a user who is known.
`SessionChangesAreListed`: by `ChangesOK` the server's projects are what the answered changes have made of them and a change under way is of a
project `due` does not name; by `ListsOK`, as long as the loads are tidy there is at most one, which is still to be served, has found no session or has a list that
fits, and with none under way the list of the store fits.

Each proof has a lemma per action. All of them follow the pattern `Init => IInv`, `IInv /\ [Next]_vars => IInv'`, `IInv => P`.

## 6. What the runs and models show of the code

Checked, as violation runs:

- `job_deployer.py:24`: an exception of one job's deployment ends the tick. "Runs all scheduled jobs."
- `update_authorized_keys.py:96`: the Kubernetes client does not catch a refused connection. "If the API call did not work, try to exec into the pod."
- `tracking_store.py:311`: a rename writes back the stage it has read, and undoes a deletion in between. "Cannot rename experiment in non-active lifecycle stage."
- `api-hooks.js:28` (both manager components): a cancelled list request leaves the flag raised, and the page asks no more. "Continuously update the workspace list".

Seen while modelling; the models have these behaviours and no run is about them:

- Scheduler. An update that waits for the lock while a tick runs the job is overwritten in the
  database; two updates may reach database and cache in different orders; a merge patch never removes a parameter; an answer
  lost by `create_schedule` leaves a schedule that starts to run at the next restart. These are what `dirty` and `Mirror` except.
  A crash between a deployment and its record repeats the deployment.
- Key cache. A container listed before it has its key file is recorded in `query_cache` (with Docker's error
  text as an answer) and asked again by a full run only; the docstring speaks of "new containers". A login may read the file
  while a full run has emptied it. A full run that raises while it writes leaves the file cut off: logins get no key of the targets that are missing,
  until an update asks them again.
- Runs. Two requests on two workers that log one metric at the same time lose one of the two values, since `_log_run_metric` reads
  the list and writes it back (`tracking_store.py:609`); the server's Dockerfile gives no number of workers, and nothing locks. `contested` has these metrics.
  `delete_tag` has no effect; `delete_run` of an unfinished run removes `end_time`, without which the run
  cannot be read any more; a status update that overlaps a deletion undoes it; a failed batch stays half written.
- Experiments. Two creations at a time may take the same number, and the second replaces the first; a restore
  between the two listings of a creation hides the experiment from both. These are what `overtaken` and `raced` except. `rename_experiment` does not
  look for the new name; `set_experiment_tag` always raises.
- Pages. A deployment of the default workspace that fails leaves the page blank: only `.then` resets the flag. A list request
  that fails looks like an empty list, so the page deploys a second default workspace, which is refused.
- Files. `reloadFiles` sets whatever list arrives as long as the page is mounted (`Files.jsx:53`): when answers overtake each
  other the files of the project that was left stay under the name of the chosen one. This is what `calm` excepts.
  A deletion in the project that was left loads the list of that project, too (`Files.jsx:110`).
- Services. What an action of a service has changed shows when the list is loaded for another reason (`Services.jsx:120`); the dialog of the actions
  stays open, and its buttons stay enabled.
- Dialogs. An answer closes whichever dialog is open by then (`AppDialogServiceProvider.jsx:15`).
- Session. A second check can fail while the projects are loading: `user` is null when they arrive, and `user.id`
  (`App.jsx:95`) throws in an effect, which unmounts the app. The same may happen with one check when a project is added before its answer.
  When the answer to a deletion is lost, `err.body` is undefined, the handler throws (`Projects.jsx:65`), and the dialog stays. Loads of the projects are not cancelled and may be set in the wrong order.
- Client. The form of `GET /auth/login` (`AuthApi.loginUserSession`) is dropped by browsers; a user called `me` cannot be read.

## 7. Limits

With TLC only:

- all liveness properties: `RequestsAnswered`, `DueJobRuns`, `KeysGetRecorded`, `PageCatchesUpInTime`, `LoadingEnds`,
  `ChangeShows`, `LoginGetsIn` (fairness and `ENABLED` are beyond the proof system);

Everything else the runs check, invariants and action properties, is also a theorem of section 5.

No module has a recursive operator. `Operations` is merged with a `CHOOSE` over the classes instead of `@@`, of which the prover has no definition.

Left out of the modelled components: the text of keys, names and messages; the form of the config dialog; reads that touch one document once; projects other
than one; `list_schedules`, which hands cached objects to the serialiser after it has released the lock; registration, OAuth and the administrators' pages;
files a user reloads twice within one answer. Authorization is the platform's.

Not modelled:

- The Python client. Waiting for jobs is a loop of one thread over the statuses it reads; it ends in an
  `AttributeError` when a job was deleted (`job_handler.py:175`) and reports a pending job as failed. Files are fetched
  when missing and written in place, so a download that breaks off leaves its part under the final name (`file_handler.py:252`).
- The artifact repository: a recursive download over keys cut from strings. What it computes are paths, which a model would copy.
- get, delete and the options of workspaces and MLflow servers: one call of the platform each, with names and resources computed from the request.
- Other pages, the scheduler's page, proxies, deployment: they show what they are given or keep no state.

History variables (`lastDeploy`, `dirty`, `blank`, `had` of a session, `torn`, `acked`, `finished`, `contested`, `overtaken`, `raced`, `cut`,
`calm`, `acted`, `failed`, `entered`, `overlap`, `early`, `tidy`, `due`) are read by properties and by no guard.

## 8. How to run

    tlc -workers 2 -config Scheduler.cfg MCJobScheduler.tla
    tlapm JobSchedulerProofs.tla

A run takes from one second to three or four minutes, a proof module up to two minutes.
