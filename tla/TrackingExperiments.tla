------------------------ MODULE TrackingExperiments ------------------------
(***************************************************************************)
(* The experiment half of MlLabTrackingStore (lab-mlflow-server,           *)
(* tracking_store.py).                                                     *)
(*                                                                         *)
(* An experiment is a JSON document under its number.  create_experiment   *)
(* looks through all experiments twice, once for the name and once for the *)
(* largest number, and then creates the next document; the database        *)
(* replaces a document that is there already.  The other requests read one *)
(* document, change one field and write the document back.  Every call of  *)
(* the database is a step, and the steps of different requests interleave. *)
(* Nothing in the code keeps one request from being overtaken by another:  *)
(* which ones were is recorded, and the properties say what follows.       *)
(***************************************************************************)
EXTENDS Naturals, FiniteSetsExt

CONSTANTS
  Names,       \* names of experiments
  Workers,     \* threads and processes of mlflow server
  NoDoc,       \* "no document", "no copy"
  MaxRequests, \* bound: requests received
  MaxFaults    \* bound: failed database calls

Life == {"active", "deleted"}
Requests == 1 .. MaxRequests
Ids == 0 .. MaxRequests

\* What the creator gave, artifact location and tags, is named by the request.
Experiment == [name : Names, life : Life, data : Requests]

ASSUME ExperimentsAssumption ==
  /\ MaxRequests \in Nat /\ MaxFaults \in Nat
  /\ NoDoc \notin Experiment

VARIABLES
  docs,      \* documents of the collection "experiments"
  workers,   \* the request each worker serves
  count,     \* requests received
  faults,    \* failed database calls
  acked,     \* history: answered create_experiment calls, <<id, request>>
  overtaken, \* history: workers whose request has missed a write of another one
  raced      \* history: numbers written by a creation that was overtaken

vars == <<docs, workers, count, faults, acked, overtaken, raced>>
history == <<overtaken, raced>>

\* round: 1 while create_experiment checks the name, 2 while it looks for a number.
Idle == [op |-> "none", pc |-> "idle", number |-> 0, id |-> 0, name |-> NoDoc,
         round |-> 1, ids |-> {}, taken |-> FALSE, copy |-> NoDoc]

Existing == {i \in Ids : docs[i] # NoDoc}
Listed(life) == {i \in Existing : docs[i].life = life}

Step(w, q) ==
  /\ workers' = [workers EXCEPT ![w] = q]
  /\ UNCHANGED <<docs, count, faults, acked, history>>
-----------------------------------------------------------------------------
Init ==
  /\ docs = [i \in Ids |-> NoDoc]
  /\ workers = [w \in Workers |-> Idle]
  /\ count = 0
  /\ faults = 0
  /\ acked = {} /\ overtaken = {} /\ raced = {}

Receive(w, op, pc, id, name) ==
  /\ workers[w].pc = "idle"
  /\ count < MaxRequests
  /\ count' = count + 1
  /\ workers' = [workers EXCEPT ![w] = [Idle EXCEPT
       !.op = op, !.pc = pc, !.number = count + 1, !.id = id, !.name = name]]
  /\ UNCHANGED <<docs, faults, acked, history>>

Request(w) ==
  \/ \E n \in Names : Receive(w, "create_experiment", "first", 0, n)
  \/ \E i \in Existing, n \in Names : Receive(w, "rename_experiment", "read", i, n)
  \/ \E i \in Existing, op \in {"delete_experiment", "restore_experiment", "set_experiment_tag"} :
       Receive(w, op, "read", i, NoDoc)

\* Mutant of ListOrder: the deleted experiments first.
ListOrderDeletedFirst == <<"deleted", "active">>

\* list_experiments(ViewType.ALL) asks for the active and then for the deleted ones.
ListOrder == <<"active", "deleted">>

ListFirst(w) ==
  LET q == workers[w] IN
  /\ q.pc = "first"
  /\ Step(w, [q EXCEPT !.pc = "second", !.ids = Listed(ListOrder[1])])

\* Mutant of NextId: the largest number, without the one to add.
LastId(ids) == IF ids = {} THEN 0 - 1 ELSE Max(ids)

NextId(ids) == IF ids = {} THEN 0 ELSE Max(ids) + 1

ListSecond(w) ==
  LET q == workers[w]
      ids == q.ids \cup Listed(ListOrder[2])
  IN
  /\ q.pc = "second"
  /\ Step(w, IF q.round = 1
             THEN [q EXCEPT !.pc = "names", !.ids = ids]
             ELSE [q EXCEPT !.pc = "create", !.ids = {}, !.id = NextId(ids)])

\* list_experiments reads every experiment it has listed, in some order.  In the
\* second round nothing depends on what is read.
ReadName(w) ==
  LET q == workers[w] IN
  /\ q.pc = "names"
  /\ \E i \in q.ids :
       Step(w, [q EXCEPT !.ids = @ \ {i}, !.taken = @ \/ docs[i].name = q.name])

\* _validate_experiment_does_not_exist.
NameChecked(w) ==
  LET q == workers[w] IN
  /\ q.pc = "names" /\ q.ids = {}
  /\ Step(w, IF q.taken THEN Idle ELSE [q EXCEPT !.pc = "first", !.round = 2])

\* A request is refused on experiment e.  set_experiment_tag never succeeds: the
\* tags of an Experiment are a dict, and a dict has no append.
Refused(q, e) ==
  \/ q.op = "set_experiment_tag"
  \/ q.op = "delete_experiment" /\ e.life = "deleted"
  \/ q.op = "restore_experiment" /\ e.life = "active"
  \/ q.op = "rename_experiment" /\ e.life = "deleted"

\* Mutant of Read: a deleted experiment can be renamed, and is active then.
ReadUnchecked(w) ==
  LET q == workers[w] IN
  /\ q.pc = "read"
  /\ Step(w, IF q.op = "set_experiment_tag" THEN Idle
             ELSE [q EXCEPT !.pc = "write", !.copy = [docs[q.id] EXCEPT !.life = "active"]])

\* get_json_document.
Read(w) ==
  LET q == workers[w] IN
  /\ q.pc = "read"
  /\ Step(w, IF Refused(q, docs[q.id]) THEN Idle
             ELSE [q EXCEPT !.pc = "write", !.copy = docs[q.id]])

\* What the request writes: a new document, or the whole copy with one field changed.
Written(q) ==
  CASE q.op = "create_experiment"  -> [name |-> q.name, life |-> "active", data |-> q.number]
    [] q.op = "rename_experiment"  -> [q.copy EXCEPT !.name = q.name]
    [] q.op = "delete_experiment"  -> [q.copy EXCEPT !.life = "deleted"]
    [] q.op = "restore_experiment" -> [q.copy EXCEPT !.life = "active"]

\* create_json_document replaces, and update_json_document merges a copy that
\* names all fields: both leave what the request wrote.
Store(q) == docs' = [docs EXCEPT ![q.id] = Written(q)]

\* The write of q is one that the request r of another worker does not know of:
\* r is going to write back a copy of the same document, or to take a number and
\* has missed the experiment, since it has listed the active ones already.
Overtakes(q, r) ==
  \/ r.pc = "write" /\ r.id = q.id
  \/ /\ r.pc \in {"second", "create"} /\ r.round = 2
     /\ q.op = "create_experiment"
  \/ /\ r.pc = "second" /\ r.round = 2
     /\ docs[q.id] # NoDoc /\ docs[q.id].life = "deleted" /\ Written(q).life = "active"

Record(w) ==
  LET q == workers[w] IN
  /\ overtaken' = (overtaken \ {w})
                    \cup {v \in Workers \ {w} : Overtakes(q, workers[v])}
  /\ raced' = IF q.op = "create_experiment" /\ w \in overtaken THEN raced \cup {q.id} ELSE raced

Write(w) ==
  LET q == workers[w] IN
  /\ q.pc \in {"create", "write"}
  /\ Store(q) /\ Record(w)
  /\ workers' = [workers EXCEPT ![w] = [q EXCEPT !.pc = "answer", !.copy = NoDoc]]
  /\ UNCHANGED <<count, faults, acked>>

\* A database call fails, without effect or with its answer lost.
Fail(w) ==
  LET q == workers[w] IN
  /\ q.pc \in {"first", "second", "names", "read", "write", "create"}
  /\ faults < MaxFaults
  /\ faults' = faults + 1
  /\ \/ UNCHANGED <<docs, raced>> /\ overtaken' = overtaken \ {w}
     \/ q.pc \in {"create", "write"} /\ Store(q) /\ Record(w)
  /\ workers' = [workers EXCEPT ![w] = Idle]
  /\ UNCHANGED <<count, acked>>

Respond(w) ==
  LET q == workers[w] IN
  /\ q.pc = "answer"
  /\ workers' = [workers EXCEPT ![w] = Idle]
  /\ acked' = IF q.op = "create_experiment" THEN acked \cup {<<q.id, q.number>>} ELSE acked
  /\ UNCHANGED <<docs, count, faults, history>>

Serve(w) ==
  \/ ListFirst(w) \/ ListSecond(w) \/ ReadName(w) \/ NameChecked(w)
  \/ Read(w) \/ Write(w) \/ Fail(w) \/ Respond(w)

Next == \E w \in Workers : Request(w) \/ Serve(w)

Spec == Init /\ [][Next]_vars

-----------------------------------------------------------------------------
(* Properties *)

\* Every variable has its type; what is to be written was read before.
TypeOK ==
  /\ docs \in [Ids -> Experiment \cup {NoDoc}]
  /\ \A w \in Workers :
       /\ workers[w].pc \in {"idle", "first", "second", "names", "create", "read", "write", "answer"}
       /\ workers[w].number \in 0 .. count
       /\ workers[w].id \in Ids
       /\ workers[w].name \in Names \cup {NoDoc}
       /\ workers[w].ids \subseteq Existing
       /\ workers[w].copy \in IF workers[w].pc = "write" THEN Experiment ELSE {NoDoc}
  /\ count \in 0 .. MaxRequests /\ faults \in 0 .. MaxFaults
  /\ acked \subseteq Ids \X Requests
  /\ overtaken \subseteq Workers /\ raced \subseteq Ids

\* An experiment whose creation was answered stays: no later creation takes its
\* number, and with it the runs logged to it, unless that creation was overtaken
\* by another one, or by a write that made a deleted experiment active between its
\* two listings.  Deletions, failed calls and requests before and after do no harm.
AcknowledgedStay ==
  \A e \in acked :
    /\ docs[e[1]] # NoDoc
    /\ docs[e[1]].data = e[2] \/ e[1] \in raced

\* What request q asks to make of experiment e, if it may be asked of e as it is.
Asked(q, e) ==
  CASE q.op = "rename_experiment"  -> IF e.life = "active" THEN [e EXCEPT !.name = q.name] ELSE e
    [] q.op = "delete_experiment"  -> IF e.life = "active" THEN [e EXCEPT !.life = "deleted"] ELSE e
    [] q.op = "restore_experiment" -> IF e.life = "deleted" THEN [e EXCEPT !.life = "active"] ELSE e
    [] OTHER -> e

\* Read, check and write back come to one step: what changes in an experiment is
\* what a request asks of it as it is at that time, or the request was overtaken.
\* In particular a deleted experiment is active again only by a restore, and no
\* creation changes an experiment that is there, without having been overtaken.
ChangesAreAsked ==
  [][\A i \in Ids :
       docs[i] # NoDoc /\ docs'[i] # docs[i] =>
         \E w \in Workers :
           /\ workers[w].pc \in {"create", "write"} /\ workers[w].id = i
           /\ w \in overtaken \/ docs'[i] = Asked(workers[w], docs[i])]_vars

\* What the message at tracking_store.py:309 says, "Cannot rename experiment in
\* non-active lifecycle stage": when a rename writes, its experiment is active.
ActiveAreRenamed ==
  [][\A w \in Workers :
       workers[w].op = "rename_experiment" /\ workers[w].pc = "write"
         /\ workers'[w].pc = "answer"
         => docs[workers[w].id].life = "active"]_vars
=============================================================================
