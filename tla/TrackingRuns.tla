---------------------------- MODULE TrackingRuns ----------------------------
(***************************************************************************)
(* The run half of MlLabTrackingStore (lab-mlflow-server, tracking_store). *)
(*                                                                         *)
(* A run is one JSON document of the collection "runs".  Every call of the *)
(* store reads the document, computes a patch and sends it with            *)
(* update_json_document, a JSON merge patch: what the patch names is       *)
(* replaced, what it does not name stays.  mlflow server answers requests  *)
(* in several worker processes and threads, so the reads and writes of     *)
(* different requests interleave; the database applies one call at a time. *)
(* Nothing in the code keeps a document from being written between the     *)
(* read and the write of another request: the properties say what follows. *)
(*                                                                         *)
(* One run is modelled: documents of different runs share nothing.  The    *)
(* value logged by a request is the number of the request.                 *)
(***************************************************************************)
EXTENDS Naturals, Sequences

CONSTANTS
  Keys,       \* names of metrics, params and tags
  Workers,    \* threads and processes of mlflow server
  Batches,    \* batches clients log: sequences of items
  NoValue,    \* "no such key"
  NoRun,      \* "no document", "no copy"
  MaxRequests,\* bound: requests received
  MaxFaults   \* bound: failed database calls

Requests == 1 .. MaxRequests

Status == {"RUNNING", "FINISHED"}
Life == {"active", "deleted"}
EndTime == {"null", "set", "missing"}
Table == [Keys -> Requests \cup {NoValue}]
Empty == [k \in Keys |-> NoValue]

\* The document, without the fields that never change.
Run == [status : Status, life : Life, end : EndTime, metrics : [Keys -> Seq(Requests)],
        params : Table, tags : Table]

\* One param, metric or tag of a batch.
Item == [kind : {"params", "metrics", "tags"}, key : Keys]

ASSUME RunsAssumption ==
  /\ NoValue \notin Requests
  /\ NoRun \notin Run
  /\ MaxRequests \in Nat /\ MaxFaults \in Nat
  /\ Batches \subseteq Seq(Item)

VARIABLES
  doc,       \* the document
  workers,   \* the request each worker serves
  count,     \* requests received
  faults,    \* failed database calls
  acked,     \* history: metrics whose request was answered, <<key, request>>
  finished,  \* history: the set of keys the run had when it was first finished, if it was
  contested  \* history: metrics whose list was replaced by one that does not extend it

vars == <<doc, workers, count, faults, acked, finished, contested>>
history == <<finished, contested>>

Idle == [op |-> "none", pc |-> "idle", id |-> 0, items |-> <<>>, todo |-> <<>>,
         parts |-> <<>>, copy |-> NoRun, seen |-> {}]

\* Mutant of PartOrder: the run's info is read last.
PartOrderInfoLast == <<"metrics", "params", "tags", "info">>

\* get_run reads the document once for each part of its answer.
PartOrder == <<"info", "metrics", "params", "tags">>

\* Keys of the document that have a value.
Present(r) ==
  {<<"metrics", k>> : k \in {k \in Keys : r.metrics[k] # <<>>}} \cup
  {<<"params", k>> : k \in {k \in Keys : r.params[k] # NoValue}} \cup
  {<<"tags", k>> : k \in {k \in Keys : r.tags[k] # NoValue}}

-----------------------------------------------------------------------------
(* The JSON database *)

Overlay(old, new, absent) ==
  [k \in Keys |-> IF new[k] = absent THEN old[k] ELSE new[k]]

\* The patch names all of r's fields; a table is merged key by key, a list is
\* replaced as a whole, and a field the patch names with null is removed.
MergePatch(old, patch) ==
  [status |-> patch.status, life |-> patch.life,
   end |-> IF patch.end = "null" THEN "missing"
           ELSE IF patch.end = "missing" THEN old.end ELSE patch.end,
   metrics |-> Overlay(old.metrics, patch.metrics, <<>>),
   params |-> Overlay(old.params, patch.params, NoValue),
   tags |-> Overlay(old.tags, patch.tags, NoValue)]

-----------------------------------------------------------------------------
Init ==
  /\ doc = NoRun
  /\ workers = [w \in Workers |-> Idle]
  /\ count = 0
  /\ faults = 0
  /\ acked = {}
  /\ finished = {} /\ contested = {}

\* A request arrives at an idle worker.
Receive(w, op, pc, items) ==
  /\ workers[w].pc = "idle"
  /\ count < MaxRequests
  /\ count' = count + 1
  /\ workers' = [workers EXCEPT ![w] = [Idle EXCEPT
       !.op = op, !.pc = pc, !.id = count + 1, !.items = items, !.todo = items,
       !.parts = IF pc = "parts" THEN PartOrder ELSE <<>>]]
  /\ UNCHANGED <<faults, acked, history>>

Answer(w) == workers' = [workers EXCEPT ![w] = Idle]

\* create_run: a fresh uuid, so no document is replaced.
CreateRun(w) ==
  /\ doc = NoRun
  /\ Receive(w, "create_run", "parts", <<>>)
  /\ \E K \in SUBSET Keys :
       doc' = [status |-> "RUNNING", life |-> "active", end |-> "null",
               metrics |-> [k \in Keys |-> <<>>], params |-> Empty,
               tags |-> [k \in Keys |-> IF k \in K THEN count + 1 ELSE NoValue]]

Request(w) ==
  /\ doc # NoRun
  /\ \/ \E items \in Batches : Receive(w, "log_batch", "check", items)
     \/ Receive(w, "get_run", "parts", <<>>)
     \/ \E op \in {"finish", "resume", "delete_run", "restore_run"} :
          Receive(w, op, "read", <<>>)
     \/ \E k \in Keys : Receive(w, "delete_tag", "check", <<[kind |-> "tags", key |-> k]>>)
  /\ UNCHANGED doc

\* Mutant of CheckActive: the first patch is sent without a read of its own.
CheckThenWrite(w) ==
  /\ workers[w].pc = "check"
  /\ IF doc.life = "active" /\ doc.end # "missing"
     THEN workers' = [workers EXCEPT
            ![w].pc = IF workers[w].items = <<>> THEN "answer" ELSE "write"]
     ELSE Answer(w)
  /\ UNCHANGED <<doc, count, faults, acked, history>>

\* log_batch and delete_tag look once, before their first write, whether the
\* run is active.  RunInfo.from_dictionary raises without an end_time.
CheckActive(w) ==
  /\ workers[w].pc = "check"
  /\ IF doc.life = "active" /\ doc.end # "missing"
     THEN workers' = [workers EXCEPT
            ![w].pc = IF workers[w].items = <<>> THEN "answer" ELSE "read"]
     ELSE Answer(w)
  /\ UNCHANGED <<doc, count, faults, acked, history>>

\* A request is refused or has nothing to do on document r.
Refused(q, r) ==
  \/ q.op = "delete_run" /\ r.life = "deleted"
  \/ q.op = "restore_run" /\ r.life = "active"
  \/ q.op = "delete_tag" /\ r.tags[q.items[1].key] = NoValue

\* get_json_document.
Read(w) ==
  /\ workers[w].pc = "read"
  /\ IF Refused(workers[w], doc)
     THEN Answer(w)
     ELSE workers' = [workers EXCEPT ![w].pc = "write", ![w].copy = doc]
  /\ UNCHANGED <<doc, count, faults, acked, history>>

\* Mutant of PatchMetric: the list is not read, the patch has the new entry only.
PatchMetricOnly(r, copy, item, id) ==
  [r EXCEPT !.metrics[item.key] = <<id>>]

\* _log_run_metric: the patch has the list of one metric.
PatchMetric(r, copy, item, id) ==
  [r EXCEPT !.metrics[item.key] = Append(copy.metrics[item.key], id)]

\* The document after the current patch of request q, computed from the copy the
\* request has read.  _log_run_param and _set_run_tag send the whole table they
\* have read, update_run_info, delete_run and restore_run the whole document.
Patched(r, q) ==
  CASE q.op = "finish"      -> MergePatch(r, [q.copy EXCEPT !.status = "FINISHED", !.end = "set"])
    [] q.op = "resume"      -> MergePatch(r, [q.copy EXCEPT !.status = "RUNNING", !.end = "set"])
    [] q.op = "delete_run"  -> MergePatch(r, [q.copy EXCEPT !.life = "deleted"])
    [] q.op = "restore_run" -> MergePatch(r, [q.copy EXCEPT !.life = "active"])
    [] q.op = "delete_tag"  ->
         [r EXCEPT !.tags =
            Overlay(@, [q.copy.tags EXCEPT ![q.items[1].key] = NoValue], NoValue)]
    [] q.op = "log_batch"   ->
         LET item == Head(q.todo) IN
         CASE item.kind = "metrics" -> PatchMetric(r, q.copy, item, q.id)
           [] item.kind = "params" ->
                [r EXCEPT !.params = Overlay(@, [q.copy.params EXCEPT ![item.key] = q.id], NoValue)]
           [] item.kind = "tags" ->
                [r EXCEPT !.tags = Overlay(@, [q.copy.tags EXCEPT ![item.key] = q.id], NoValue)]

\* The metrics of which the patch of request q has a list.
Lists(q) ==
  CASE q.op = "log_batch"  -> {k \in {Head(q.todo).key} : Head(q.todo).kind = "metrics"}
    [] q.op = "delete_tag" -> {}
    [] OTHER -> {k \in Keys : q.copy.metrics[k] # <<>>}

Record(q) ==
  /\ finished' = IF q.op = "finish" /\ finished = {} THEN {Present(doc)} ELSE finished
  /\ contested' = contested \cup {k \in Lists(q) : q.copy.metrics[k] # doc.metrics[k]}

\* Mutant of Store: create_json_document, which replaces the document.
StoreReplacing(q) == doc' = Patched(q.copy, q) /\ Record(q)

\* update_json_document in the database.
Store(q) == doc' = Patched(doc, q) /\ Record(q)

Write(w) ==
  LET q == workers[w]
      rest == IF q.op = "log_batch" THEN Tail(q.todo) ELSE <<>>
  IN
  /\ q.pc = "write"
  /\ Store(q)
  /\ workers' = [workers EXCEPT ![w].pc = IF rest = <<>> THEN "answer" ELSE "read",
                                ![w].todo = rest, ![w].copy = NoRun]
  /\ UNCHANGED <<count, faults, acked>>

\* What one part of get_run's answer shows.
Shown(part) ==
  IF part = "info" THEN {<<"info", IF doc.end = "missing" THEN "error" ELSE doc.status>>}
                   ELSE {p \in Present(doc) : p[1] = part}

ReadPart(w) ==
  LET parts == workers[w].parts
      seen == workers[w].seen \cup Shown(Head(parts))
  IN
  /\ workers[w].pc = "parts"
  /\ workers' = [workers EXCEPT
       ![w].pc = IF Len(parts) = 1 \/ <<"info", "error">> \in seen THEN "answer" ELSE "parts",
       ![w].parts = Tail(parts), ![w].seen = seen]
  /\ UNCHANGED <<doc, count, faults, acked, history>>

\* A database call fails, without effect or with its answer lost: the request
\* ends with an error, whatever it has already written.
Fail(w) ==
  /\ workers[w].pc \in {"check", "read", "write", "parts"}
  /\ faults < MaxFaults
  /\ faults' = faults + 1
  /\ \/ UNCHANGED <<doc, history>>
     \/ workers[w].pc = "write" /\ Store(workers[w])
  /\ Answer(w)
  /\ UNCHANGED <<count, acked>>

Respond(w) ==
  LET q == workers[w] IN
  /\ q.pc = "answer"
  /\ Answer(w)
  /\ acked' = acked \cup {<<q.items[i].key, q.id>> :
                i \in {i \in DOMAIN q.items : q.op = "log_batch" /\ q.items[i].kind = "metrics"}}
  /\ UNCHANGED <<doc, count, faults, history>>

Serve(w) ==
  CheckActive(w) \/ Read(w) \/ Write(w) \/ ReadPart(w) \/ Respond(w) \/ Fail(w)

Next == \E w \in Workers : CreateRun(w) \/ Request(w) \/ Serve(w)

Spec == Init /\ [][Next]_vars

-----------------------------------------------------------------------------
(* Properties *)

\* Every variable has its type; a worker that writes has read a copy.
TypeOK ==
  /\ doc \in Run \cup {NoRun}
  /\ \A w \in Workers :
       /\ workers[w].pc \in {"idle", "check", "read", "write", "parts", "answer"}
       /\ workers[w].id \in 0 .. MaxRequests
       /\ workers[w].items \in Seq(Item) /\ workers[w].todo \in Seq(Item)
       /\ workers[w].copy \in IF workers[w].pc = "write" THEN Run ELSE {NoRun}
  /\ count \in 0 .. MaxRequests /\ faults \in 0 .. MaxFaults
  /\ acked \in SUBSET (Keys \X Requests)
  /\ contested \subseteq Keys

\* What is in a run stays in it: however the requests interleave and fail, no
\* metric, param or tag disappears, though most requests write back a whole
\* document they have read some time ago.
KeysStay ==
  [][doc # NoRun => doc' # NoRun /\ Present(doc) \subseteq Present(doc')]_vars

\* get_run reads the document four times.  A run it reports as finished is shown
\* with every metric, param and tag that was there when the run was finished.
FinishedRunIsComplete ==
  \A w \in Workers :
    workers[w].pc = "answer" /\ <<"info", "FINISHED">> \in workers[w].seen
      => finished # {} /\ \A K \in finished : K \subseteq workers[w].seen

\* A request is going to write on top of a run it has not read, or to log to a run
\* that was deleted since the request looked at it.
Overlapping ==
  \E w \in Workers :
    /\ workers[w].pc = "write"
    /\ workers[w].copy # doc \/ (workers[w].op = "log_batch" /\ doc.life = "deleted")

\* What reads, writes, half-written batches and failed calls add up to are the calls
\* of a tracking store, each in one step on top of the others.  Only where requests
\* overlap a step may be another one, and even then no key is lost.
Visible == IF doc = NoRun THEN NoRun
           ELSE [status |-> doc.status, life |-> doc.life, metrics |-> doc.metrics,
                 params |-> doc.params, tags |-> doc.tags]
Atomic == INSTANCE RunStore WITH run <- Visible, overlapping <- Overlapping, Values <- Requests
IsRunStore == Atomic!Spec

\* "no document" is not a document, as the store's users see one.
ASSUME VisibleAssumption == NoRun \notin Atomic!Run

\* A metric value whose request was answered is in the history of the metric, as
\* test_multiple_metric_history_with_same_key says, whatever fails and whatever else
\* is logged, finished, deleted or restored meanwhile.  What can lose it is a request
\* that writes a list of the same metric without having read the one it replaces.
MetricsAreKept ==
  \A e \in acked :
    \/ \E i \in DOMAIN doc.metrics[e[1]] : doc.metrics[e[1]][i] = e[2]
    \/ e[1] \in contested
=============================================================================
