----------------------------- MODULE SshKeyCache -----------------------------
(***************************************************************************)
(* The key cache of the SSH jump host (docker/ssh, docker/entrypoint.sh).  *)
(*                                                                         *)
(* sshd runs authorize.sh for every login and lets in the keys it prints:  *)
(* the content of authorized_keys_cache.  update_authorized_keys.py fills  *)
(* that file.  It lists the running targets (containers or pods), asks     *)
(* each one that query_cache does not name for its public key, appends the *)
(* keys and rewrites query_cache; a "full" run first forgets query_cache   *)
(* and writes the key file anew.  Runs exclude each other with a file lock *)
(* they do not wait for; the shell scripts read the key file without it.   *)
(*                                                                         *)
(* A key is identified with its target, the age of the key file with the   *)
(* thresholds of authorize.sh.  Each key and each entry of query_cache is   *)
(* one write to its file.                                                  *)
(***************************************************************************)
EXTENDS Naturals

CONSTANTS
  Targets,      \* containers or pods whose name and labels are permitted
  Sessions,     \* concurrent executions of authorize.sh
  Background,   \* the script started by entrypoint.sh or with nohup
  None,         \* "nobody", "no target"
  Kubernetes,   \* TRUE: the Kubernetes client is used, FALSE: Docker's
  NoApi,        \* targets that refuse connections to the public-key port
  LateKeys,     \* targets that run for a while before their key file exists
  MaxFaults     \* bound: exceptions and restarts of the container

Scripts == Sessions \cup {Background}

ASSUME KeyCacheAssumption ==
  /\ Background \notin Sessions
  /\ None \notin Scripts \cup Targets
  /\ Kubernetes \in BOOLEAN
  /\ NoApi \subseteq Targets /\ LateKeys \subseteq Targets

VARIABLES
  status,    \* of each target: "absent", "starting", "ready", "stopped"
  cached,    \* keys in authorized_keys_cache
  exists,    \* that file exists
  age,       \* since it was last modified: "new", "stale" (2 min), "old" (4 h)
  query,     \* targets in query_cache
  lock,      \* holder of cache_files.lock
  scripts,   \* executions of update_authorized_keys.py
  sessions,  \* executions of authorize.sh
  sshd,      \* "down", "booting" (entrypoint.sh) or "up"
  faults,    \* exceptions and restarts so far
  blank,     \* history: targets whose last answer was not a key
  torn       \* history: keys cut off by full runs that raised, not yet rewritten

vars == <<status, cached, exists, age, query, lock, scripts, sessions, sshd,
          faults, blank, torn>>
files == <<cached, exists, age, query>>

NoScript == [pc |-> "idle", full |-> FALSE, skip |-> {}, todo |-> {},
             found |-> {}, asked |-> {}]
Script == [pc : {"idle", "start", "list", "fetch", "write", "record"},
           full : BOOLEAN,
           skip : SUBSET Targets,    \* query_cache as read
           todo : SUBSET Targets,    \* targets to ask, keys or entries to write
           found : SUBSET Targets,   \* authorized_keys
           asked : SUBSET Targets]   \* new_query_cache

NoSession == [pc |-> "idle", target |-> None, age |-> "none", had |-> FALSE]
Session == [pc : {"idle", "create", "grep", "update", "cat"},
            target : Targets \cup {None},
            age : {"none", "new", "stale", "old"},   \* time_difference
            had : BOOLEAN]            \* history: the key was cached at login

Started(full) == [NoScript EXCEPT !.pc = "start", !.full = full]

Running == {c \in Targets : status[c] \in {"starting", "ready"}}

\* What asking target c can bring.  The HTTP request gives the key, or fails.
\* With Docker a refused connection is caught and the script execs into the
\* container: the output is the key, or the error message of cat; a stopped
\* container raises.  With Kubernetes only a connection timeout is caught.
Answers(c) ==
  IF status[c] = "stopped"
  THEN IF Kubernetes THEN {"nothing", "error"} ELSE {"error"}
  ELSE IF c \in NoApi /\ Kubernetes THEN {"error"}
  ELSE IF status[c] = "ready" THEN {"key"} ELSE {"text"}

-----------------------------------------------------------------------------
Init ==
  /\ status = [c \in Targets |-> "absent"]
  /\ cached = {} /\ exists = FALSE /\ age = "new" /\ query = {}
  /\ lock = None
  /\ scripts = [x \in Scripts |-> NoScript]
  /\ sessions = [s \in Sessions |-> NoSession]
  /\ sshd = "down"
  /\ faults = 0
  /\ blank = {} /\ torn = {}

-----------------------------------------------------------------------------
(* update_authorized_keys.py *)

\* The lock is taken, or the script gives up at once.  A full run removes
\* query_cache before reading it.
Acquire(x) ==
  /\ scripts[x].pc = "start"
  /\ lock = None
  /\ lock' = x
  /\ query' = IF scripts[x].full THEN {} ELSE query
  /\ scripts' = [scripts EXCEPT ![x].pc = "list", ![x].skip = query']
  /\ UNCHANGED <<status, cached, exists, age, sessions, sshd, faults, blank, torn>>

GiveUp(x) ==
  /\ scripts[x].pc = "start"
  /\ lock # None
  /\ scripts' = [scripts EXCEPT ![x] = NoScript]
  /\ UNCHANGED <<status, files, lock, sessions, sshd, faults, blank, torn>>

ListTargets(x) ==
  /\ scripts[x].pc = "list"
  /\ scripts' = [scripts EXCEPT ![x].pc = "fetch", ![x].todo = Running]
  /\ UNCHANGED <<status, files, lock, sessions, sshd, faults, blank, torn>>

\* A target asked in an earlier run is skipped and stays in the query cache.
Skip(x, c) ==
  /\ c \in scripts[x].skip
  /\ scripts' = [scripts EXCEPT ![x].todo = @ \ {c}, ![x].asked = @ \cup {c}]
  /\ UNCHANGED blank

\* Whatever the target printed goes to both lists; only a text that starts
\* with "ssh" will be written.
Ask(x, c) ==
  /\ c \notin scripts[x].skip
  /\ \/ /\ "key" \in Answers(c)
        /\ scripts' = [scripts EXCEPT ![x].todo = @ \ {c},
                         ![x].found = @ \cup {c}, ![x].asked = @ \cup {c}]
        /\ blank' = blank \ {c}
     \/ /\ "text" \in Answers(c)
        /\ scripts' = [scripts EXCEPT ![x].todo = @ \ {c}, ![x].asked = @ \cup {c}]
        /\ blank' = blank \cup {c}
     \/ /\ "nothing" \in Answers(c)
        /\ scripts' = [scripts EXCEPT ![x].todo = @ \ {c}]
        /\ UNCHANGED blank

Fetch(x, c) ==
  /\ scripts[x].pc = "fetch"
  /\ c \in scripts[x].todo
  /\ Skip(x, c) \/ Ask(x, c)
  /\ UNCHANGED <<status, files, lock, sessions, sshd, faults, torn>>

\* Mutant of Raise: acquire and release around the update instead of "with".
RaiseLocked(x) ==
  /\ scripts[x].pc \notin {"idle", "start"}
  /\ \/ scripts[x].pc = "fetch" /\ \E c \in scripts[x].todo \ scripts[x].skip : "error" \in Answers(c)
        /\ UNCHANGED faults
     \/ faults < MaxFaults /\ faults' = faults + 1
  /\ scripts' = [scripts EXCEPT ![x] = NoScript]
  /\ UNCHANGED <<status, files, lock, sessions, sshd, blank, torn>>

\* Mutant of Raise: an exception is caught and the target passed over.
RaiseCaught(x) ==
  /\ scripts[x].pc = "fetch"
  /\ \E c \in scripts[x].todo \ scripts[x].skip :
       /\ scripts' = [scripts EXCEPT ![x].todo = @ \ {c}]
       /\ \/ "error" \in Answers(c) /\ UNCHANGED faults
          \/ faults < MaxFaults /\ faults' = faults + 1
  /\ UNCHANGED <<status, files, lock, sessions, sshd, blank, torn>>

\* An exception ends the script wherever it is, and "with lock" releases.  A
\* target that raises does so each time; listing, asking, opening and writing
\* fail now and then.  What has been written by then stays as it is: a full
\* run that raises while it writes leaves the key file cut off.
Raise(x) ==
  /\ scripts[x].pc \notin {"idle", "start"}
  /\ \/ /\ scripts[x].pc = "fetch"
        /\ \E c \in scripts[x].todo \ scripts[x].skip : "error" \in Answers(c)
        /\ UNCHANGED faults
     \/ faults < MaxFaults /\ faults' = faults + 1
  /\ scripts' = [scripts EXCEPT ![x] = NoScript]
  /\ lock' = None
  /\ torn' = IF scripts[x].full /\ scripts[x].pc = "write"
             THEN torn \cup scripts[x].todo ELSE torn
  /\ UNCHANGED <<status, files, sessions, sshd, blank>>

\* Mutant of Open: the file is appended to in a full run as well.
OpenAppend(x) ==
  /\ scripts[x].pc = "fetch" /\ scripts[x].todo = {}
  /\ exists' = TRUE
  /\ age' = IF exists THEN age ELSE "new"
  /\ scripts' = [scripts EXCEPT ![x].pc = "write", ![x].todo = scripts[x].found]
  /\ UNCHANGED <<status, cached, query, lock, sessions, sshd, faults, blank, torn>>

\* Every target has been asked.  open(..., write_mode): 'w' empties the file, 'a'
\* creates it when missing and leaves its modification time alone otherwise.
Open(x) ==
  /\ scripts[x].pc = "fetch" /\ scripts[x].todo = {}
  /\ exists' = TRUE
  /\ cached' = IF scripts[x].full THEN {} ELSE cached
  /\ age' = IF scripts[x].full \/ ~exists THEN "new" ELSE age
  /\ scripts' = [scripts EXCEPT ![x].pc = "write", ![x].todo = scripts[x].found]
  /\ UNCHANGED <<status, query, lock, sessions, sshd, faults, blank, torn>>

WriteKey(x, c) ==
  /\ scripts[x].pc = "write"
  /\ c \in scripts[x].todo
  /\ cached' = cached \cup {c}
  /\ age' = "new"
  /\ torn' = torn \ {c}
  /\ scripts' = [scripts EXCEPT ![x].todo = @ \ {c}]
  /\ UNCHANGED <<status, exists, query, lock, sessions, sshd, faults, blank>>

\* Mutant of OpenQuery: the query cache is written before the keys.
OpenQueryEarly(x) ==
  /\ scripts[x].pc = "write"
  /\ query' = scripts[x].asked
  /\ scripts' = [scripts EXCEPT ![x].pc = IF scripts[x].todo = {} THEN "record" ELSE "write"]
  /\ UNCHANGED <<status, cached, exists, age, lock, sessions, sshd, faults, blank, torn>>

\* The key file is closed and query_cache opened for writing, which empties it.
OpenQuery(x) ==
  /\ scripts[x].pc = "write" /\ scripts[x].todo = {}
  /\ query' = {}
  /\ scripts' = [scripts EXCEPT ![x].pc = "record", ![x].todo = scripts[x].asked]
  /\ UNCHANGED <<status, cached, exists, age, lock, sessions, sshd, faults, blank, torn>>

WriteEntry(x, c) ==
  /\ scripts[x].pc = "record"
  /\ c \in scripts[x].todo
  /\ query' = query \cup {c}
  /\ scripts' = [scripts EXCEPT ![x].todo = @ \ {c}]
  /\ UNCHANGED <<status, cached, exists, age, lock, sessions, sshd, faults, blank, torn>>

Finish(x) ==
  /\ scripts[x].pc = "record" /\ scripts[x].todo = {}
  /\ lock' = None
  /\ scripts' = [scripts EXCEPT ![x] = NoScript]
  /\ UNCHANGED <<status, files, sessions, sshd, faults, blank, torn>>

UpdateCacheFile(x) ==
  \/ Acquire(x) \/ GiveUp(x) \/ ListTargets(x)
  \/ \E c \in Targets : Fetch(x, c) \/ WriteKey(x, c) \/ WriteEntry(x, c)
  \/ Raise(x)
  \/ Open(x) \/ OpenQuery(x) \/ Finish(x)

-----------------------------------------------------------------------------
(* authorize.sh *)

\* A user offers the key of target c (which may have stopped).  Without a key file the session first
\* runs a full update; the age is read after that and before the search.
Login(s, c) ==
  /\ sshd = "up"
  /\ sessions[s].pc = "idle"
  /\ status[c] \in {"ready", "stopped"}
  /\ IF exists
     THEN /\ sessions' = [sessions EXCEPT ![s] =
               [pc |-> "grep", target |-> c, age |-> age, had |-> c \in cached]]
          /\ UNCHANGED scripts
     ELSE /\ sessions' = [sessions EXCEPT ![s] =
               [pc |-> "create", target |-> c, age |-> "none", had |-> FALSE]]
          /\ scripts' = [scripts EXCEPT ![s] = Started(TRUE)]
  /\ UNCHANGED <<status, files, lock, sshd, faults, blank, torn>>

\* The full update is over.  If it left no file, the age stays unknown.
Created(s) ==
  /\ sessions[s].pc = "create"
  /\ scripts[s].pc = "idle"
  /\ sessions' = [sessions EXCEPT ![s].pc = "grep",
                                  ![s].age = IF exists THEN age ELSE "none"]
  /\ UNCHANGED <<status, files, lock, scripts, sshd, faults, blank, torn>>

\* An unknown key makes the session wait for an update, unless the file is
\* less than two minutes old.
Unknown(s) ==
  /\ sessions[s].pc = "grep"
  /\ sessions[s].target \notin cached
  /\ IF sessions[s].age \in {"stale", "old"}
     THEN /\ scripts' = [scripts EXCEPT ![s] = Started(FALSE)]
          /\ sessions' = [sessions EXCEPT ![s].pc = "update"]
     ELSE /\ UNCHANGED scripts
          /\ sessions' = [sessions EXCEPT ![s].pc = "cat"]
  /\ UNCHANGED <<status, files, lock, sshd, faults, blank, torn>>

\* A known key in a file older than four hours starts a full update in the
\* background (which gives up at once while another one is at work).
Known(s) ==
  /\ sessions[s].pc = "grep"
  /\ sessions[s].target \in cached
  /\ sessions' = [sessions EXCEPT ![s].pc = "cat"]
  /\ scripts' = IF sessions[s].age = "old" /\ scripts[Background].pc = "idle"
                THEN [scripts EXCEPT ![Background] = Started(TRUE)]
                ELSE scripts
  /\ UNCHANGED <<status, files, lock, sshd, faults, blank, torn>>

Updated(s) ==
  /\ sessions[s].pc = "update"
  /\ scripts[s].pc = "idle"
  /\ sessions' = [sessions EXCEPT ![s].pc = "cat"]
  /\ UNCHANGED <<status, files, lock, scripts, sshd, faults, blank, torn>>

\* cat authorized_keys_cache: the login succeeds iff the key is printed.
Cat(s) ==
  /\ sessions[s].pc = "cat"
  /\ sessions' = [sessions EXCEPT ![s] = NoSession]
  /\ UNCHANGED <<status, files, lock, scripts, sshd, faults, blank, torn>>

Authorize(s) == Created(s) \/ Unknown(s) \/ Known(s) \/ Updated(s) \/ Cat(s)

-----------------------------------------------------------------------------
(* The container and the targets *)

\* entrypoint.sh runs one full update and starts sshd when it has ended.
Boot ==
  /\ sshd = "down"
  /\ sshd' = "booting"
  /\ scripts' = [scripts EXCEPT ![Background] = Started(TRUE)]
  /\ UNCHANGED <<status, files, lock, sessions, faults, blank, torn>>

Serve ==
  /\ sshd = "booting"
  /\ scripts[Background].pc = "idle"
  /\ sshd' = "up"
  /\ UNCHANGED <<status, files, lock, scripts, sessions, faults, blank, torn>>

\* The container is restarted: the processes are gone, the files are still there.
Restart ==
  /\ sshd # "down"
  /\ faults < MaxFaults
  /\ faults' = faults + 1
  /\ sshd' = "down"
  /\ lock' = None
  /\ scripts' = [x \in Scripts |-> NoScript]
  /\ sessions' = [s \in Sessions |-> NoSession]
  /\ UNCHANGED <<status, files, blank, torn>>

StartTarget(c) ==
  /\ status[c] = "absent"
  /\ status' = [status EXCEPT ![c] = IF c \in LateKeys THEN "starting" ELSE "ready"]
  /\ UNCHANGED <<files, lock, scripts, sessions, sshd, faults, blank, torn>>

KeyWritten(c) ==
  /\ status[c] = "starting"
  /\ status' = [status EXCEPT ![c] = "ready"]
  /\ UNCHANGED <<files, lock, scripts, sessions, sshd, faults, blank, torn>>

StopTarget(c) ==
  /\ c \in Running
  /\ status' = [status EXCEPT ![c] = "stopped"]
  /\ UNCHANGED <<files, lock, scripts, sessions, sshd, faults, blank, torn>>

Grow ==
  /\ age # "old"
  /\ age' = IF age = "new" THEN "stale" ELSE "old"
  /\ UNCHANGED <<status, cached, exists, query, lock, scripts, sessions, sshd,
                 faults, blank, torn>>

Next ==
  \/ \E x \in Scripts : UpdateCacheFile(x)
  \/ \E s \in Sessions : Authorize(s)
  \/ \E s \in Sessions, c \in Targets : Login(s, c)
  \/ Boot \/ Serve \/ Restart
  \/ \E c \in Targets : StartTarget(c) \/ KeyWritten(c) \/ StopTarget(c)
  \/ Grow

Spec == Init /\ [][Next]_vars

\* The scripts run on, time passes, and users who cannot get in try again.
Fairness ==
  /\ \A x \in Scripts : WF_vars(UpdateCacheFile(x))
  /\ \A s \in Sessions : WF_vars(Authorize(s))
  /\ WF_vars(Boot) /\ WF_vars(Serve) /\ WF_vars(Grow)
  /\ \A c \in Targets : SF_vars(\E s \in Sessions : Login(s, c))

FairSpec == Spec /\ Fairness

-----------------------------------------------------------------------------
(* Properties *)

\* Every variable has its type; a script past "start" holds the lock, and the
\* lock is held by such a script only (released by exceptions and restarts).
TypeOK ==
  /\ status \in [Targets -> {"absent", "starting", "ready", "stopped"}]
  /\ cached \in SUBSET Targets /\ exists \in BOOLEAN
  /\ age \in {"new", "stale", "old"}
  /\ query \in SUBSET Targets
  /\ scripts \in [Scripts -> Script]
  /\ \A x \in Scripts : lock = x <=> scripts[x].pc \notin {"idle", "start"}
  /\ lock \in Scripts \cup {None}
  /\ sessions \in [Sessions -> Session]
  /\ sshd \in {"down", "booting", "up"}
  /\ faults \in Nat
  /\ blank \in SUBSET Targets /\ torn \in SUBSET Targets

\* A target the query cache names is never asked again by an incremental run,
\* so its key must be in the key file: whatever run is interrupted, and by
\* whom, the query cache is never ahead of the key file.  (Targets that answered
\* with something else than a key are in the query cache too.)
AskedIsRecorded == query \subseteq cached \cup blank

\* When a full run has written its keys, the key file holds the keys of this
\* run and no other: nothing of the old file and of another run is left in it.
FullRunReplaces ==
  \A x \in Scripts :
    scripts[x].full /\ scripts[x].pc = "record" => cached = scripts[x].found

\* A key that was cached when the login began is printed, or its target has
\* stopped, or a full run has just emptied the file and is about to write the
\* key, or a full run raised while it wrote and cut the key off.  In the last
\* case query_cache does not name the target, so that the next update asks it
\* again: incremental runs, completed full runs and those that raise before
\* they write lose no key, and none is lost without a run that will notice.
KnownKeyPrinted ==
  \A s \in Sessions :
    sessions[s].pc = "cat" /\ sessions[s].had =>
      LET c == sessions[s].target IN
      \/ c \in cached
      \/ status[c] = "stopped"
      \/ \E x \in Scripts : /\ scripts[x].full /\ scripts[x].pc = "write"
                           /\ c \in scripts[x].todo
      \/ c \in torn \ query

\* A user whose target runs and has a key gets it into the cache by trying,
\* unless the target was asked before it had its key: query_cache then holds
\* the target, and nobody asks it again.
Recorded(c) ==
  status[c] = "ready" ~>
    (c \in cached \/ status[c] # "ready" \/ c \in query \cap blank)
KeysGetRecorded == \A c \in Targets : Recorded(c)
=============================================================================
