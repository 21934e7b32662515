------------------------- MODULE TrackingRunsProofs -------------------------
(***************************************************************************)
(* Proofs about TrackingRuns: for any number of workers, keys, requests    *)
(* and failed calls nothing that is in a run disappears from it, a run     *)
(* shown as finished is shown whole, a value of a metric is lost only to   *)
(* a list that was written over one it does not extend, and wherever no    *)
(* request has missed another one the store implements RunStore.           *)
(***************************************************************************)
EXTENDS TrackingRuns, SequenceTheorems, TLAPS

Pairs == {"metrics", "params", "tags"} \X Keys
PartLists ==
  {<<>>, <<"tags">>, <<"params", "tags">>, <<"metrics", "params", "tags">>,
   <<"info", "metrics", "params", "tags">>}
ReadOps == {"finish", "resume", "delete_run", "restore_run"}
WriteOps == ReadOps \cup {"log_batch", "delete_tag"}

Worker ==
  [op : WriteOps \cup {"none", "create_run", "get_run"},
   pc : {"idle", "check", "read", "write", "parts", "answer"},
   id : 0 .. MaxRequests, items : Seq(Item), todo : Seq(Item), parts : PartLists,
   copy : Run \cup {NoRun},
   seen : SUBSET (Pairs \cup ({"info"} \X (Status \cup {"error"})))]

\* What a request that is going to write, or is writing, has at hand.
WriterOK(q) ==
  /\ q.op \in WriteOps
  /\ q.id \in Requests
  /\ q.op = "log_batch" => q.todo # <<>>
  /\ q.op = "delete_tag" => q.items # <<>>

WorkerOK(q) ==
  /\ q \in Worker
  /\ q.pc = "check" => q.op \in {"log_batch", "delete_tag"} /\ q.id \in Requests
                       /\ q.todo = q.items /\ (q.op = "delete_tag" => q.items # <<>>)
  /\ q.pc \in {"read", "write"} => WriterOK(q)
  /\ q.pc = "write" => q.copy \in Run
  /\ q.pc # "write" => q.copy = NoRun
  /\ q.pc = "parts" => q.parts # <<>> /\ q.op \in {"create_run", "get_run"}
  /\ q.pc = "answer" /\ q.op = "log_batch" => q.id \in Requests

Types ==
  /\ doc \in Run \cup {NoRun}
  /\ workers \in [Workers -> Worker]
  /\ \A w \in Workers : WorkerOK(workers[w])
  /\ \A w \in Workers : workers[w].pc # "idle" => doc # NoRun
  /\ count \in 0 .. MaxRequests /\ faults \in 0 .. MaxFaults
  /\ acked \in SUBSET (Keys \X Requests)
  /\ finished \in SUBSET SUBSET Pairs /\ contested \in SUBSET Keys

\* Where a run is finished, its keys at that time are known, and they are still there.
FinishedOK ==
  /\ doc # NoRun /\ doc.status = "FINISHED" => finished # {}
  /\ finished # {} => doc # NoRun /\ \A K \in finished : K \subseteq Present(doc)
  /\ \A w \in Workers :
       workers[w].pc = "write" /\ workers[w].copy.status = "FINISHED" => finished # {}

\* What a reader that has seen a finished run has not seen yet, it is going to read.
ReaderOK(q, f) ==
  /\ q.parts = PartOrder \/ q.pc \in {"check", "read", "write"} => q.seen = {}
  /\ <<"info", "FINISHED">> \in q.seen =>
       /\ f # {} /\ <<"info", "error">> \notin q.seen
       /\ \A p \in UNION f : p \in q.seen \/ \E i \in DOMAIN q.parts : q.parts[i] = p[1]
       /\ q.pc = "answer" => q.parts = <<>>

ReadersOK == \A w \in Workers : ReaderOK(workers[w], finished)

IInv == Types /\ FinishedOK /\ ReadersOK

-----------------------------------------------------------------------------
(* What a patch does to the document *)

Keeps(r, s) ==
  \A k \in Keys :
    /\ r.metrics[k] # <<>> => s.metrics[k] # <<>>
    /\ r.params[k] # NoValue => s.params[k] # NoValue
    /\ r.tags[k] # NoValue => s.tags[k] # NoValue

\* Present says which keys have a value.
LEMMA KeptIsPresent ==
  ASSUME NEW r, NEW s, Keeps(r, s)
  PROVE  Present(r) \subseteq Present(s)
BY DEF Keeps, Present

\* The keys of a document are pairs of a table and a key.
LEMMA PresentIsPairs ==
  ASSUME NEW r
  PROVE  Present(r) \in SUBSET Pairs
BY DEF Present, Pairs

\* A table that is merged has the type of its parts.
LEMMA OverlayTypes ==
  ASSUME NEW S, NEW old \in [Keys -> S], NEW new \in [Keys -> S], NEW absent
  PROVE  Overlay(old, new, absent) \in [Keys -> S]
BY DEF Overlay

\* A merged copy leaves a document that has all the keys there were.
LEMMA MergeKeeps ==
  ASSUME NEW r \in Run, NEW p \in Run
  PROVE  MergePatch(r, p) \in Run /\ Keeps(r, MergePatch(r, p))
<1> DEFINE m == MergePatch(r, p)
<1>1. /\ r.metrics \in [Keys -> Seq(Requests)] /\ p.metrics \in [Keys -> Seq(Requests)]
      /\ r.params \in Table /\ p.params \in Table /\ r.tags \in Table /\ p.tags \in Table
  BY DEF Run
<1>2. /\ Overlay(r.metrics, p.metrics, <<>>) \in [Keys -> Seq(Requests)]
      /\ Overlay(r.params, p.params, NoValue) \in Table
      /\ Overlay(r.tags, p.tags, NoValue) \in Table
  BY <1>1, OverlayTypes DEF Table
<1>3. m \in Run
  BY <1>2 DEF MergePatch, Run, EndTime
<1>4. Keeps(r, m)
  BY DEF MergePatch, Keeps, Overlay
<1> QED BY <1>3, <1>4

\* Whatever a request writes, the document keeps its type and its keys.
LEMMA PatchKeeps ==
  ASSUME NEW r \in Run, NEW q \in Worker, WriterOK(q), q.copy \in Run
  PROVE  Patched(r, q) \in Run /\ Keeps(r, Patched(r, q))
<1>1. CASE q.op \in ReadOps
  <2>1. PICK p \in Run : Patched(r, q) = MergePatch(r, p)
    <3>1. /\ [q.copy EXCEPT !.status = "FINISHED", !.end = "set"] \in Run
          /\ [q.copy EXCEPT !.status = "RUNNING", !.end = "set"] \in Run
          /\ [q.copy EXCEPT !.life = "deleted"] \in Run
          /\ [q.copy EXCEPT !.life = "active"] \in Run
      BY DEF Run, Status, Life, EndTime
    <3> QED BY <1>1, <3>1 DEF ReadOps, Patched
  <2> QED BY <2>1, MergeKeeps
<1>2. CASE q.op = "delete_tag"
  <2> DEFINE t == [q.copy.tags EXCEPT ![q.items[1].key] = NoValue]
             o == Overlay(r.tags, t, NoValue)
  <2>1. t \in Table /\ r.tags \in Table
    BY DEF Run, Table
  <2>2. o \in Table
    BY <2>1, OverlayTypes DEF Table
  <2>3. Patched(r, q) = [r EXCEPT !.tags = o]
    BY <1>2 DEF Patched
  <2>4. \A k \in Keys : r.tags[k] # NoValue => o[k] # NoValue
    BY DEF Overlay
  <2> HIDE DEF o
  <2>5. [r EXCEPT !.tags = o] \in Run /\ Keeps(r, [r EXCEPT !.tags = o])
    BY <2>2, <2>4 DEF Run, Keeps
  <2> QED BY <2>3, <2>5
<1>3. CASE q.op = "log_batch"
  <2> DEFINE item == Head(q.todo)
  <2>1. /\ q.todo \in Seq(Item) /\ q.todo # <<>> /\ q.id \in Requests
        /\ q.id # NoValue
    BY <1>3, RunsAssumption DEF Worker, WriterOK
  <2>2. item \in Item
    BY <2>1
  <2> HIDE DEF item
  <2>3. CASE item.kind = "metrics"
    <3> DEFINE l == Append(q.copy.metrics[item.key], q.id)
    <3>1. q.copy.metrics[item.key] \in Seq(Requests) /\ item.key \in Keys
      BY <2>2 DEF Item, Run
    <3>2. l \in Seq(Requests) /\ l # <<>>
      BY <3>1, <2>1, AppendProperties
    <3>3. Patched(r, q) = [r EXCEPT !.metrics[item.key] = l]
      BY <1>3, <2>3 DEF Patched, PatchMetric, item
    <3> HIDE DEF l
    <3>4. [r EXCEPT !.metrics[item.key] = l] \in Run
      BY <3>1, <3>2 DEF Run
    <3>5. Keeps(r, [r EXCEPT !.metrics[item.key] = l])
      BY <3>1, <3>2 DEF Keeps, Run
    <3> QED BY <3>3, <3>4, <3>5
  <2>4. CASE item.kind = "params"
    <3> DEFINE t == [q.copy.params EXCEPT ![item.key] = q.id]
               o == Overlay(r.params, t, NoValue)
    <3>1. t \in Table /\ r.params \in Table
      BY <2>1 DEF Run, Table
    <3>2. o \in Table
      BY <3>1, OverlayTypes DEF Table
    <3>3. Patched(r, q) = [r EXCEPT !.params = o]
      BY <1>3, <2>4 DEF Patched, item
    <3>4. \A k \in Keys : r.params[k] # NoValue => o[k] # NoValue
      BY DEF Overlay
    <3> HIDE DEF o
    <3>5. [r EXCEPT !.params = o] \in Run /\ Keeps(r, [r EXCEPT !.params = o])
      BY <3>2, <3>4 DEF Run, Keeps
    <3> QED BY <3>3, <3>5
  <2>5. CASE item.kind = "tags"
    <3> DEFINE t == [q.copy.tags EXCEPT ![item.key] = q.id]
               o == Overlay(r.tags, t, NoValue)
    <3>1. t \in Table /\ r.tags \in Table
      BY <2>1 DEF Run, Table
    <3>2. o \in Table
      BY <3>1, OverlayTypes DEF Table
    <3>3. Patched(r, q) = [r EXCEPT !.tags = o]
      BY <1>3, <2>5 DEF Patched, item
    <3>4. \A k \in Keys : r.tags[k] # NoValue => o[k] # NoValue
      BY DEF Overlay
    <3> HIDE DEF o
    <3>5. [r EXCEPT !.tags = o] \in Run /\ Keeps(r, [r EXCEPT !.tags = o])
      BY <3>2, <3>4 DEF Run, Keeps
    <3> QED BY <3>3, <3>5
  <2> QED BY <2>2, <2>3, <2>4, <2>5 DEF Item
<1> QED BY <1>1, <1>2, <1>3 DEF WriterOK, WriteOps

-----------------------------------------------------------------------------
(* Types *)

\* A step that gives one worker a new, well-formed request keeps the others.
LEMMA OneWorker ==
  ASSUME NEW old \in [Workers -> Worker], \A v \in Workers : WorkerOK(old[v]),
         NEW w \in Workers, NEW q, WorkerOK(q)
  PROVE  /\ [old EXCEPT ![w] = q] \in [Workers -> Worker]
         /\ \A v \in Workers : WorkerOK([old EXCEPT ![w] = q][v])
BY DEF WorkerOK

\* A worker without a request is well-formed.
LEMMA IdleOK == WorkerOK(Idle) /\ Idle \in Worker
BY RunsAssumption DEF WorkerOK, Worker, Idle, PartLists, Item

\* A received request is well-formed.
LEMMA ReceiveOK ==
  ASSUME Types, NEW w \in Workers, NEW op \in WriteOps \cup {"create_run", "get_run"},
         NEW pc \in {"check", "read", "parts"}, NEW items \in Seq(Item),
         pc = "check" => op \in {"log_batch", "delete_tag"},
         pc = "read" => op \in ReadOps,
         pc = "parts" => op \in {"create_run", "get_run"},
         op = "delete_tag" => items # <<>>,
         Receive(w, op, pc, items), doc' \in Run
  PROVE  Types'
<1> DEFINE q == [Idle EXCEPT
       !.op = op, !.pc = pc, !.id = count + 1, !.items = items, !.todo = items,
       !.parts = IF pc = "parts" THEN PartOrder ELSE <<>>]
<1>1. /\ workers' = [workers EXCEPT ![w] = q] /\ count' = count + 1
      /\ count < MaxRequests /\ count \in 0 .. MaxRequests /\ MaxRequests \in Nat
      /\ UNCHANGED <<faults, acked, finished, contested>>
  BY RunsAssumption DEF Receive, Types, history
<1>2. count + 1 \in Requests /\ count + 1 \in 0 .. MaxRequests
  BY <1>1 DEF Requests
<1>3. q \in Worker
  BY <1>2, IdleOK, ZenonT(60) DEF Worker, Idle, PartLists, PartOrder
<1>4. WorkerOK(q)
  BY <1>2, <1>3 DEF WorkerOK, WriterOK, Idle, PartOrder, ReadOps, WriteOps
<1>5. doc' # NoRun
  BY RunsAssumption
<1> HIDE DEF q
<1> QED BY <1>1, <1>2, <1>4, <1>5, OneWorker DEF Types

\* A worker that goes on with request q, or ends it, while the document stays a run.
LEMMA ServeOK ==
  ASSUME Types, NEW w \in Workers, NEW q, WorkerOK(q), doc # NoRun,
         workers' = [workers EXCEPT ![w] = q], doc' \in Run, UNCHANGED count,
         faults' \in 0 .. MaxFaults, acked' \in SUBSET (Keys \X Requests),
         finished' \in SUBSET SUBSET Pairs, contested' \in SUBSET Keys
  PROVE  Types'
BY OneWorker, RunsAssumption DEF Types

\* What update_json_document does to the document and the history.
LEMMA StoreOK ==
  ASSUME Types, NEW q \in Worker, WriterOK(q), q.copy \in Run, doc \in Run, Store(q)
  PROVE  /\ doc' \in Run /\ Present(doc) \subseteq Present(doc')
         /\ finished' \in SUBSET SUBSET Pairs /\ contested' \in SUBSET Keys
<1>1. doc' = Patched(doc, q)
  BY DEF Store
<1>2. doc' \in Run /\ Keeps(doc, doc')
  BY <1>1, PatchKeeps
<1>3. finished' \in SUBSET SUBSET Pairs
  BY PresentIsPairs DEF Store, Record, Types
<1>4. contested' \in SUBSET Keys
  <2>1. Lists(q) \subseteq Keys
    <3>1. q.op = "log_batch" => Head(q.todo) \in Item
      BY DEF WriterOK, Worker
    <3> QED BY <3>1 DEF Lists, Item, WriterOK, WriteOps, ReadOps
  <2> QED BY <2>1 DEF Store, Record, Types
<1> QED BY <1>2, <1>3, <1>4, KeptIsPresent

\* A part of a run that is shown.
LEMMA ShownOK ==
  ASSUME doc \in Run, NEW part
  PROVE  Shown(part) \subseteq Pairs \cup ({"info"} \X (Status \cup {"error"}))
BY PresentIsPairs DEF Shown, Run

\* get_run has read one part more.
LEMMA TailOfParts ==
  ASSUME NEW p \in PartLists, p # <<>>
  PROVE  Tail(p) \in PartLists /\ (Len(p) # 1 => Tail(p) # <<>>)
<1>1. CASE p = <<"tags">>
  BY <1>1 DEF PartLists
<1>2. CASE p = <<"params", "tags">>
  BY <1>2 DEF PartLists
<1>3. CASE p = <<"metrics", "params", "tags">>
  BY <1>3 DEF PartLists
<1>4. CASE p = <<"info", "metrics", "params", "tags">>
  BY <1>4 DEF PartLists
<1> QED BY <1>1, <1>2, <1>3, <1>4 DEF PartLists

\* Each step keeps the types.
LEMMA TypesStep == Types /\ [Next]_vars => Types'
<1> SUFFICES ASSUME Types, [Next]_vars PROVE Types'
  OBVIOUS
<1>1. CASE UNCHANGED vars
  BY <1>1 DEF vars, Types
<1>2. ASSUME NEW w \in Workers, CreateRun(w) PROVE Types'
  <2>1. doc' \in Run
    <3>1. Receive(w, "create_run", "parts", <<>>) /\ count + 1 \in Requests
      BY <1>2, RunsAssumption DEF CreateRun, Receive, Types, Requests
    <3>2. Empty \in Table /\ [k \in Keys |-> <<>>] \in [Keys -> Seq(Requests)]
      BY DEF Empty, Table
    <3>3. \A K : [k \in Keys |-> IF k \in K THEN count + 1 ELSE NoValue] \in Table
      BY <3>1 DEF Table
    <3>4. PICK K \in SUBSET Keys :
            doc' = [status |-> "RUNNING", life |-> "active", end |-> "null",
                    metrics |-> [k \in Keys |-> <<>>], params |-> Empty,
                    tags |-> [k \in Keys |-> IF k \in K THEN count + 1 ELSE NoValue]]
      BY <1>2 DEF CreateRun
    <3> QED BY <3>2, <3>3, <3>4 DEF Run, Status, Life, EndTime
  <2>2. Receive(w, "create_run", "parts", <<>>) /\ <<>> \in Seq(Item)
    BY <1>2 DEF CreateRun
  <2> QED BY <2>1, <2>2, ReceiveOK
<1>3. ASSUME NEW w \in Workers, Request(w) PROVE Types'
  <2>1. doc' \in Run
    BY <1>3 DEF Request, Types
  <2>2. CASE \E items \in Batches : Receive(w, "log_batch", "check", items)
    BY <2>1, <2>2, ReceiveOK, RunsAssumption DEF WriteOps
  <2>3. CASE Receive(w, "get_run", "parts", <<>>)
    <3>1. <<>> \in Seq(Item)
      OBVIOUS
    <3> QED BY <2>1, <2>3, <3>1, ReceiveOK
  <2>4. CASE \E op \in ReadOps : Receive(w, op, "read", <<>>)
    <3>1. PICK op \in ReadOps : Receive(w, op, "read", <<>>)
      BY <2>4
    <3>2. op \in WriteOps \cup {"create_run", "get_run"} /\ op # "delete_tag"
      BY DEF WriteOps, ReadOps
    <3>3. <<>> \in Seq(Item)
      OBVIOUS
    <3> QED BY <2>1, <3>1, <3>2, <3>3, ReceiveOK
  <2>5. CASE \E k \in Keys : Receive(w, "delete_tag", "check", <<[kind |-> "tags", key |-> k]>>)
    <3>1. PICK k \in Keys : Receive(w, "delete_tag", "check", <<[kind |-> "tags", key |-> k]>>)
      BY <2>5
    <3>2. [kind |-> "tags", key |-> k] \in Item
      BY DEF Item
    <3>3. <<[kind |-> "tags", key |-> k]>> \in Seq(Item) /\ <<[kind |-> "tags", key |-> k]>> # <<>>
      BY <3>2
    <3> QED BY <2>1, <3>1, <3>3, ReceiveOK DEF WriteOps
  <2> QED BY <1>3, <2>2, <2>3, <2>4, <2>5 DEF Request, ReadOps
<1>4. ASSUME NEW w \in Workers, Serve(w) PROVE Types'
  <2> DEFINE q == workers[w]
  <2>1. q \in Worker /\ WorkerOK(q) /\ workers \in [Workers -> Worker]
    BY DEF Types
  <2>2. q.pc # "idle"
    BY <1>4 DEF Serve, CheckActive, Read, Write, ReadPart, Fail, Respond
  <2>3. doc \in Run /\ doc # NoRun
    BY <2>2, RunsAssumption DEF Types
  <2>4. CASE CheckActive(w)
    <3>1. WorkerOK([q EXCEPT !.pc = IF q.items = <<>> THEN "answer" ELSE "read"])
      BY <2>1, <2>4 DEF CheckActive, WorkerOK, WriterOK, WriteOps, Worker
    <3> QED BY <2>3, <2>4, <3>1, IdleOK, ServeOK DEF CheckActive, Answer, Types, history
  <2>5. CASE Read(w)
    <3>1. WorkerOK([q EXCEPT !.pc = "write", !.copy = doc])
      BY <2>1, <2>3, <2>5 DEF Read, WorkerOK, WriterOK, Worker
    <3> QED BY <2>3, <2>5, <3>1, IdleOK, ServeOK DEF Read, Answer, Types, history
  <2>6. CASE Write(w)
    <3> DEFINE rest == IF q.op = "log_batch" THEN Tail(q.todo) ELSE <<>>
               n == [q EXCEPT !.pc = IF rest = <<>> THEN "answer" ELSE "read",
                              !.todo = rest, !.copy = NoRun]
    <3>1. rest \in Seq(Item) /\ (q.op # "log_batch" => rest = <<>>)
      <4>1. q.todo \in Seq(Item) /\ (q.op = "log_batch" => q.todo # <<>>)
        BY <2>1, <2>6 DEF Write, WorkerOK, WriterOK, Worker
      <4>2. q.todo # <<>> => Tail(q.todo) \in Seq(Item)
        BY <4>1
      <4>3. <<>> \in Seq(Item)
        OBVIOUS
      <4> QED BY <4>1, <4>2, <4>3
    <3>2. WorkerOK(n)
      <4> HIDE DEF rest
      <4> QED BY <2>1, <2>6, <3>1 DEF Write, WorkerOK, WriterOK, Worker
    <3>3. doc' \in Run /\ finished' \in SUBSET SUBSET Pairs /\ contested' \in SUBSET Keys
      BY <2>1, <2>3, <2>6, StoreOK DEF Write, WorkerOK
    <3>4. workers' = [workers EXCEPT ![w] = n] /\ UNCHANGED <<count, faults, acked>>
      BY <2>1, <2>6 DEF Write
    <3> HIDE DEF n
    <3> QED BY <2>3, <3>2, <3>3, <3>4, ServeOK DEF Types
  <2>7. CASE ReadPart(w)
    <3> DEFINE seen == q.seen \cup Shown(Head(q.parts))
               n == [q EXCEPT
                 !.pc = IF Len(q.parts) = 1 \/ <<"info", "error">> \in seen THEN "answer" ELSE "parts",
                 !.parts = Tail(q.parts), !.seen = seen]
    <3>1. seen \in SUBSET (Pairs \cup ({"info"} \X (Status \cup {"error"})))
      BY <2>1, <2>3, ShownOK DEF Worker
    <3>2. Tail(q.parts) \in PartLists /\ (Len(q.parts) # 1 => Tail(q.parts) # <<>>)
      BY <2>1, <2>7, TailOfParts DEF ReadPart, WorkerOK, Worker
    <3>3. WorkerOK(n)
      <4> HIDE DEF seen
      <4> QED BY <2>1, <2>7, <3>1, <3>2 DEF ReadPart, WorkerOK, Worker
    <3>4. workers' = [workers EXCEPT ![w] = n]
      BY <2>7 DEF ReadPart
    <3> HIDE DEF n
    <3> QED BY <2>3, <2>7, <3>3, <3>4, ServeOK DEF ReadPart, Types, history
  <2>8. CASE Fail(w)
    <3>1. doc' \in Run /\ finished' \in SUBSET SUBSET Pairs /\ contested' \in SUBSET Keys
      BY <2>1, <2>3, <2>8, StoreOK DEF Fail, WorkerOK, Types, history
    <3>2. faults' \in 0 .. MaxFaults
      BY <2>8, RunsAssumption DEF Fail, Types
    <3> QED BY <2>3, <2>8, <3>1, <3>2, IdleOK, ServeOK DEF Fail, Answer, Types
  <2>9. CASE Respond(w)
    <3>1. acked' \in SUBSET (Keys \X Requests)
      <4>1. acked \in SUBSET (Keys \X Requests) /\ q.items \in Seq(Item)
        BY <2>1 DEF Worker, Types
      <4>2. \A i \in DOMAIN q.items : q.items[i].key \in Keys
        <5>1. \A i \in DOMAIN q.items : q.items[i] \in Item
          BY <4>1
        <5> QED BY <5>1 DEF Item
      <4>3. q.op = "log_batch" => q.id \in Requests
        BY <2>1, <2>9 DEF Respond, WorkerOK
      <4> QED BY <2>9, <4>1, <4>2, <4>3 DEF Respond
    <3> QED BY <2>3, <2>9, <3>1, IdleOK, ServeOK DEF Respond, Answer, Types, history
  <2> QED BY <1>4, <2>4, <2>5, <2>6, <2>7, <2>8, <2>9 DEF Serve
<1> QED BY <1>1, <1>2, <1>3, <1>4 DEF Next

\* The types hold in every state.
LEMMA TypesInvariant == Spec => []Types
<1>1. Init => Types
  <2>1. Idle.pc = "idle" /\ {} \in SUBSET (Keys \X Requests) /\ {} \in SUBSET SUBSET Pairs /\ {} \in SUBSET Keys
    BY DEF Idle
  <2>2. 0 \in 0 .. MaxRequests /\ 0 \in 0 .. MaxFaults
    BY RunsAssumption
  <2> QED BY <2>1, <2>2, IdleOK DEF Init, Types
<1> QED BY <1>1, TypesStep, PTL DEF Spec

\* TypeOK, the type invariant that is model-checked, for all values of the constants.
THEOREM RunTypes == Spec => []TypeOK
<1>1. Types => TypeOK
  BY DEF Types, TypeOK, WorkerOK, Worker
<1> QED BY <1>1, TypesInvariant, PTL

-----------------------------------------------------------------------------
(* Nothing disappears *)

\* The steps that change the document: a write, or a call that fails after it was
\* carried out.
LEMMA DocSteps ==
  ASSUME Types, [Next]_vars, doc # NoRun
  PROVE  \/ UNCHANGED <<doc, finished, contested>>
         \/ \E w \in Workers : /\ workers[w].pc = "write" /\ Store(workers[w])
                               /\ workers[w] \in Worker /\ WriterOK(workers[w])
                               /\ workers[w].copy \in Run /\ doc \in Run
<1>1. CASE UNCHANGED vars
  BY <1>1 DEF vars
<1>2. ASSUME NEW w \in Workers, CreateRun(w) \/ Request(w) \/ Serve(w)
      PROVE  \/ UNCHANGED <<doc, finished, contested>>
             \/ workers[w].pc = "write" /\ Store(workers[w])
  BY <1>2 DEF CreateRun, Request, Receive, Serve, CheckActive, Read, Write, ReadPart,
              Respond, Fail, history
<1>3. ASSUME NEW w \in Workers, workers[w].pc = "write"
      PROVE  /\ workers[w] \in Worker /\ WriterOK(workers[w])
             /\ workers[w].copy \in Run /\ doc \in Run
  BY <1>3 DEF Types, WorkerOK
<1> QED BY <1>1, <1>2, <1>3 DEF Next

\* A step keeps the keys of the document.
LEMMA KeysStayStep ==
  ASSUME Types, [Next]_vars, doc # NoRun
  PROVE  doc' # NoRun /\ Present(doc) \subseteq Present(doc')
<1>1. CASE UNCHANGED <<doc, finished>>
  BY <1>1
<1>2. ASSUME NEW w \in Workers, workers[w] \in Worker, WriterOK(workers[w]),
             workers[w].copy \in Run, doc \in Run, Store(workers[w])
      PROVE  doc' # NoRun /\ Present(doc) \subseteq Present(doc')
  BY <1>2, StoreOK, RunsAssumption
<1> QED BY <1>1, <1>2, DocSteps

\* However many requests write back documents they have read before, and whichever
\* calls fail: no metric, param or tag disappears from a run.
THEOREM RunKeysStay == Spec => KeysStay
<1>1. Types /\ [Next]_vars
        => [doc # NoRun => doc' # NoRun /\ Present(doc) \subseteq Present(doc')]_vars
  BY KeysStayStep
<1> QED BY <1>1, TypesInvariant, PTL DEF Spec, KeysStay

-----------------------------------------------------------------------------
(* A finished run is shown whole *)

\* Only a request that finishes the run, or has read a finished run, makes it finished.
LEMMA PatchedStatus ==
  ASSUME NEW r \in Run, NEW q \in Worker, WriterOK(q), q.copy \in Run,
         Patched(r, q).status = "FINISHED"
  PROVE  q.op = "finish" \/ q.copy.status = "FINISHED" \/ r.status = "FINISHED"
<1>1. CASE q.op \in {"resume", "delete_run", "restore_run"}
  BY <1>1 DEF Patched, MergePatch, Run
<1>2. CASE q.op = "delete_tag"
  BY <1>2 DEF Patched, Run
<1>3. CASE q.op = "log_batch"
  <2>1. Head(q.todo) \in Item
    BY <1>3 DEF WriterOK, Worker
  <2> QED BY <1>3, <2>1 DEF Patched, PatchMetric, Run, Item
<1> QED BY <1>1, <1>2, <1>3 DEF WriterOK, WriteOps, ReadOps

\* What a step does to the request of a worker: whoever is about to write has just
\* read the document, or was about to write before.
LEMMA WriterSteps ==
  ASSUME Types, [Next]_vars, NEW v \in Workers, workers'[v].pc = "write"
  PROVE  workers'[v] = workers[v] \/ (workers'[v].copy = doc /\ doc \in Run)
<1> workers \in [Workers -> Worker]
  BY DEF Types
<1>1. CASE UNCHANGED vars
  BY <1>1 DEF vars
<1>2. ASSUME NEW w \in Workers, CreateRun(w) \/ Request(w)
      PROVE  workers'[v] = workers[v]
  <2>1. \E op, pc, items : pc # "write" /\ Receive(w, op, pc, items)
    BY <1>2 DEF CreateRun, Request
  <2>2. PICK op, pc, items : pc # "write" /\ Receive(w, op, pc, items)
    BY <2>1
  <2>3. PICK q : q = [Idle EXCEPT
          !.op = op, !.pc = pc, !.id = count + 1, !.items = items, !.todo = items,
          !.parts = IF pc = "parts" THEN PartOrder ELSE <<>>]
    OBVIOUS
  <2>4. workers' = [workers EXCEPT ![w] = q]
    BY <2>2, <2>3 DEF Receive
  <2>5. q.pc = pc
    BY <2>3 DEF Idle
  <2> QED BY <2>2, <2>4, <2>5
<1>3. ASSUME NEW w \in Workers, Serve(w)
      PROVE  workers'[v] = workers[v] \/ (workers'[v].copy = doc /\ doc \in Run)
  <2>1. Idle.pc # "write"
    BY DEF Idle
  <2>2. doc \in Run
    BY <1>3, RunsAssumption DEF Types, Serve, CheckActive, Read, Write, ReadPart, Fail, Respond
  <2>3. CASE CheckActive(w)
    BY <2>1, <2>3 DEF CheckActive, Answer, Worker
  <2>4. CASE Read(w)
    BY <2>1, <2>2, <2>4 DEF Read, Answer, Worker
  <2>5. CASE Write(w)
    BY <2>5 DEF Write, Worker
  <2>6. CASE ReadPart(w)
    BY <2>6 DEF ReadPart, Worker
  <2>7. CASE Fail(w)
    BY <2>1, <2>7 DEF Fail, Answer
  <2>8. CASE Respond(w)
    BY <2>1, <2>8 DEF Respond, Answer
  <2> QED BY <1>3, <2>3, <2>4, <2>5, <2>6, <2>7, <2>8 DEF Serve
<1> QED BY <1>1, <1>2, <1>3 DEF Next

\* Where a run is finished, its keys at the first time are known and still there.
LEMMA FinishedStep == Types /\ Types' /\ FinishedOK /\ [Next]_vars => FinishedOK'
<1> SUFFICES ASSUME Types, Types', FinishedOK, [Next]_vars PROVE FinishedOK'
  OBVIOUS
<1>1. CASE doc = NoRun
  <2>1. UNCHANGED finished /\ finished = {}
    <3>1. \A w \in Workers : workers[w].pc = "idle"
      BY <1>1 DEF Types
    <3> QED BY <1>1, <3>1 DEF FinishedOK, vars, history, Next, CreateRun, Request, Receive, Serve,
                CheckActive, Read, Write, ReadPart, Respond, Fail
  <2>2. doc' # NoRun => doc'.status = "RUNNING"
    <3>1. \A w \in Workers : workers[w].pc = "idle"
      BY <1>1 DEF Types
    <3>2. doc' = doc \/ \E w \in Workers : CreateRun(w)
      BY <1>1, <3>1 DEF vars, Next, Request, Serve,
         CheckActive, Read, Write, ReadPart, Respond, Fail
    <3>3. ASSUME NEW w \in Workers, CreateRun(w) PROVE doc'.status = "RUNNING"
      BY <3>3 DEF CreateRun
    <3> QED BY <1>1, <3>2, <3>3
  <2>3. \A v \in Workers : workers'[v].pc # "write"
    BY <1>1, WriterSteps, RunsAssumption DEF Types
  <2> QED BY <2>1, <2>2, <2>3 DEF FinishedOK
<1>2. CASE doc # NoRun
  <2>1. doc \in Run /\ doc' # NoRun /\ Present(doc) \subseteq Present(doc')
    BY <1>2, KeysStayStep DEF Types
  <2>2. /\ finished # {} => finished' = finished
        /\ finished' = finished \/ finished' = {Present(doc)}
        /\ doc'.status = "FINISHED" => finished' # {}
    <3>1. CASE UNCHANGED <<doc, finished>>
      BY <1>2, <3>1 DEF FinishedOK
    <3>2. ASSUME NEW w \in Workers, workers[w].pc = "write", Store(workers[w]),
                 workers[w] \in Worker, WriterOK(workers[w]), workers[w].copy \in Run
          PROVE  /\ finished # {} => finished' = finished
                 /\ finished' = finished \/ finished' = {Present(doc)}
                 /\ doc'.status = "FINISHED" => finished' # {}
      <4>1. doc' = Patched(doc, workers[w])
        BY <3>2 DEF Store
      <4>2. doc'.status = "FINISHED" =>
              workers[w].op = "finish" \/ workers[w].copy.status = "FINISHED" \/ doc.status = "FINISHED"
        BY <2>1, <3>2, <4>1, PatchedStatus
      <4> QED BY <1>2, <3>2, <4>2 DEF Store, Record, FinishedOK
    <3> QED BY <1>2, <3>1, <3>2, DocSteps
  <2>3. \A K \in finished' : K \subseteq Present(doc')
    BY <1>2, <2>1, <2>2 DEF FinishedOK
  <2>4. \A v \in Workers : workers'[v].pc = "write" /\ workers'[v].copy.status = "FINISHED"
          => finished' # {}
    BY <1>2, <2>2, WriterSteps DEF FinishedOK
  <2> QED BY <2>1, <2>2, <2>3, <2>4 DEF FinishedOK
<1> QED BY <1>1, <1>2

\* Nobody reads an idle worker's parts, and an answered request shows all of them.
LEMMA ReaderIdle == ASSUME NEW f PROVE ReaderOK(Idle, f)
BY DEF ReaderOK, Idle

\* A reader keeps what it has seen when the history grows from nothing.
LEMMA ReaderStays ==
  ASSUME NEW q, NEW f, NEW g, ReaderOK(q, f), f # {} => g = f
  PROVE  ReaderOK(q, g)
BY DEF ReaderOK

\* The next part of the answer.
LEMMA ReaderReads ==
  ASSUME Types, FinishedOK, ReadersOK, NEW w \in Workers, ReadPart(w)
  PROVE  ReaderOK(workers'[w], finished)
<1> DEFINE q == workers[w]
           seen == q.seen \cup Shown(Head(q.parts))
<1>1. q \in Worker /\ q.parts # <<>> /\ q.parts \in PartLists /\ doc \in Run /\ doc # NoRun
  BY RunsAssumption DEF ReadPart, Types, WorkerOK, Worker
<1>2. /\ workers'[w].seen = seen /\ workers'[w].parts = Tail(q.parts)
      /\ workers'[w].pc = IF Len(q.parts) = 1 \/ <<"info", "error">> \in seen
                          THEN "answer" ELSE "parts"
  BY <1>1 DEF ReadPart, Types, Worker
<1>3. ReaderOK(q, finished)
  BY DEF ReadersOK
<1>4. CASE q.parts = <<"info", "metrics", "params", "tags">>
  <2>1. q.seen = {}
    BY <1>3, <1>4 DEF ReaderOK, PartOrder
  <2>2. Head(q.parts) = "info" /\ Tail(q.parts) = <<"metrics", "params", "tags">> /\ Len(q.parts) # 1
    BY <1>4
  <2>3. seen = {<<"info", IF doc.end = "missing" THEN "error" ELSE doc.status>>}
    BY <2>1, <2>2 DEF Shown
  <2>4. <<"info", "FINISHED">> \in seen => finished # {} /\ <<"info", "error">> \notin seen
    BY <1>1, <2>3 DEF FinishedOK
  <2>5. \A p \in UNION finished : \E i \in DOMAIN <<"metrics", "params", "tags">> :
          <<"metrics", "params", "tags">>[i] = p[1]
    BY DEF Types, Pairs
  <2>6. Tail(q.parts) # PartOrder
    BY <2>2 DEF PartOrder
  <2> QED BY <1>2, <2>2, <2>4, <2>5, <2>6 DEF ReaderOK
<1>5. ASSUME NEW part \in {"metrics", "params", "tags"}, NEW rest \in PartLists,
             Head(q.parts) = part, Tail(q.parts) = rest, rest # PartOrder,
             Len(q.parts) = 1 => rest = <<>>,
             \A i \in DOMAIN q.parts : q.parts[i] = part \/ \E j \in DOMAIN rest : rest[j] = q.parts[i]
      PROVE  ReaderOK(workers'[w], finished)
  <2>1. Shown(part) = {p \in Present(doc) : p[1] = part}
    BY DEF Shown
  <2>2. <<"info", "error">> \notin Shown(part) /\ <<"info", "FINISHED">> \notin Shown(part)
    BY <2>1
  <2>3. CASE <<"info", "FINISHED">> \notin q.seen
    <3>1. <<"info", "FINISHED">> \notin seen
      BY <1>5, <2>2, <2>3
    <3> QED BY <1>2, <1>5, <3>1 DEF ReaderOK
  <2>4. CASE <<"info", "FINISHED">> \in q.seen
    <3>1. finished # {} /\ <<"info", "error">> \notin seen
      BY <1>3, <1>5, <2>2, <2>4 DEF ReaderOK
    <3>2. ASSUME NEW p \in UNION finished
          PROVE  p \in seen \/ \E j \in DOMAIN rest : rest[j] = p[1]
      <4>1. p \in q.seen \/ \E i \in DOMAIN q.parts : q.parts[i] = p[1]
        BY <1>3, <2>4 DEF ReaderOK
      <4>2. p \in Present(doc)
        BY DEF FinishedOK
      <4> QED BY <1>5, <2>1, <4>1, <4>2
    <3> QED BY <1>2, <1>5, <3>1, <3>2 DEF ReaderOK
  <2> QED BY <2>3, <2>4
<1> HIDE DEF seen
<1>6. CASE q.parts = <<"metrics", "params", "tags">>
  BY <1>5, <1>6 DEF PartLists, PartOrder
<1>7. CASE q.parts = <<"params", "tags">>
  BY <1>5, <1>7 DEF PartLists, PartOrder
<1>8. CASE q.parts = <<"tags">>
  BY <1>5, <1>8 DEF PartLists, PartOrder
<1> QED BY <1>1, <1>4, <1>6, <1>7, <1>8 DEF PartLists

\* A received request has seen nothing.
LEMMA ReaderStarts ==
  ASSUME Types, NEW w \in Workers, NEW op, NEW pc, NEW items, Receive(w, op, pc, items)
  PROVE  workers'[w].seen = {} /\ ReaderOK(workers'[w], finished)
<1>1. workers'[w].seen = {}
  BY DEF Receive, Types, Idle
<1> QED BY <1>1 DEF ReaderOK

\* What the readers have seen stays in order.
LEMMA ReadersStep == Types /\ Types' /\ FinishedOK /\ ReadersOK /\ [Next]_vars => ReadersOK'
<1> SUFFICES ASSUME Types, Types', FinishedOK, ReadersOK, [Next]_vars, NEW v \in Workers
             PROVE  ReaderOK(workers'[v], finished')
  BY DEF ReadersOK
<1>1. finished # {} => finished' = finished
  <2>1. CASE doc = NoRun
    BY <2>1 DEF FinishedOK
  <2>2. ASSUME NEW w \in Workers, Store(workers[w])
        PROVE  finished # {} => finished' = finished
    BY <2>2 DEF Store, Record
  <2> QED BY <2>1, <2>2, DocSteps
<1> SUFFICES ReaderOK(workers'[v], finished)
  BY <1>1, ReaderStays
<1>2. ReaderOK(workers[v], finished) /\ workers \in [Workers -> Worker]
  BY DEF ReadersOK, Types
<1>3. CASE UNCHANGED vars
  BY <1>2, <1>3 DEF vars
<1>4. ASSUME NEW w \in Workers, CreateRun(w) \/ Request(w)
      PROVE  ReaderOK(workers'[v], finished)
  <2>1. PICK op, pc, items : Receive(w, op, pc, items)
    BY <1>4 DEF CreateRun, Request
  <2>2. v # w => workers'[v] = workers[v]
    BY <1>2, <2>1 DEF Receive
  <2> QED BY <1>2, <2>1, <2>2, ReaderStarts
<1>5. ASSUME NEW w \in Workers, Serve(w)
      PROVE  ReaderOK(workers'[v], finished)
  <2>1. CASE ReadPart(w)
    <3>1. v # w => workers'[v] = workers[v]
      BY <1>2, <2>1 DEF ReadPart
    <3> QED BY <1>2, <2>1, <3>1, ReaderReads
  <2>2. CASE Answer(w)
    BY <1>2, <2>2, ReaderIdle DEF Answer
  <2>3. CASE CheckActive(w) \/ Read(w) \/ Write(w)
    <3>1. workers[w].seen = {}
      BY <2>3 DEF ReadersOK, ReaderOK, CheckActive, Read, Write
    <3>2. workers'[w].seen = {} \/ Answer(w)
      <4>1. workers[w] \in Worker
        BY <1>2
      <4>2. CASE CheckActive(w)
        <5>1. Answer(w) \/ \E pc \in {"answer", "read"} : workers' = [workers EXCEPT ![w] =
                [workers[w] EXCEPT !.pc = pc]]
          BY <1>2, <4>2 DEF CheckActive
        <5>2. \A pc : [workers[w] EXCEPT !.pc = pc].seen = {}
          BY <3>1, <4>1 DEF Worker
        <5> QED BY <1>2, <5>1, <5>2
      <4>3. CASE Read(w)
        <5>1. Answer(w) \/ workers' = [workers EXCEPT ![w] =
                [workers[w] EXCEPT !.pc = "write", !.copy = doc]]
          BY <1>2, <4>3 DEF Read
        <5>2. [workers[w] EXCEPT !.pc = "write", !.copy = doc].seen = {}
          BY <3>1, <4>1 DEF Worker
        <5> QED BY <1>2, <5>1, <5>2
      <4>4. CASE Write(w)
        BY <1>2, <3>1, <4>1, <4>4 DEF Write, Worker
      <4> QED BY <2>3, <4>2, <4>3, <4>4
    <3>3. v # w => workers'[v] = workers[v] \/ Answer(w)
      BY <1>2, <2>3 DEF CheckActive, Read, Write
    <3>4. workers'[w].seen = {} => ReaderOK(workers'[w], finished)
      BY DEF ReaderOK
    <3> QED BY <1>2, <2>2, <3>2, <3>3, <3>4
  <2> QED BY <1>5, <2>1, <2>2, <2>3 DEF Serve, Fail, Respond
<1> QED BY <1>3, <1>4, <1>5 DEF Next

\* A run that get_run reports as finished is shown with all it had when it was
\* finished, whatever was written between the four reads.
THEOREM RunFinishedIsComplete == Spec => []FinishedRunIsComplete
<1>1. Init => FinishedOK /\ ReadersOK
  <2>1. Idle.pc = "idle"
    BY DEF Idle
  <2> QED BY <2>1, ReaderIdle DEF Init, FinishedOK, ReadersOK
<1>2. IInv /\ Types' /\ [Next]_vars => FinishedOK' /\ ReadersOK'
  BY FinishedStep, ReadersStep DEF IInv
<1>3. IInv => FinishedRunIsComplete
  <2> SUFFICES ASSUME IInv, NEW w \in Workers, workers[w].pc = "answer",
                      <<"info", "FINISHED">> \in workers[w].seen, NEW K \in finished, NEW p \in K
               PROVE  finished # {} /\ p \in workers[w].seen
    BY DEF FinishedRunIsComplete, IInv, ReadersOK, ReaderOK
  <2>1. ReaderOK(workers[w], finished)
    BY DEF IInv, ReadersOK
  <2> QED BY <2>1 DEF ReaderOK
<1> QED BY <1>1, <1>2, <1>3, TypesInvariant, PTL DEF Spec, IInv

-----------------------------------------------------------------------------
(* What is logged is kept or contested *)

\* The history of metric k has the value v.
Logged(r, k, v) == \E i \in DOMAIN r.metrics[k] : r.metrics[k][i] = v

\* What is to be written was not refused; a metric of a batch is logged, contested
\* or still to do.
HeldOK(q, d, C) ==
  /\ q.pc = "write" => ~ Refused(q, q.copy)
  /\ q.pc \in {"read", "write", "answer"} /\ q.op = "log_batch" =>
       \A i \in DOMAIN q.items : q.items[i].kind = "metrics" =>
         \/ \E j \in DOMAIN q.todo : q.todo[j] = q.items[i]
         \/ Logged(d, q.items[i].key, q.id) \/ q.items[i].key \in C
  /\ q.pc = "answer" => q.todo = <<>> \/ q.op # "log_batch"

HeldInv ==
  /\ \A w \in Workers : HeldOK(workers[w], doc, contested)
  /\ doc = NoRun => acked = {}
  /\ \A e \in acked : Logged(doc, e[1], e[2]) \/ e[1] \in contested

\* A step takes a value only from a metric it notes.
LogKept ==
  /\ contested \subseteq contested'
  /\ \A k \in Keys : \A v : Logged(doc, k, v) => Logged(doc', k, v) \/ k \in contested'

\* A list that is extended has what it had, and what was added.
LEMMA Extended ==
  ASSUME NEW n \in Seq(Requests), NEW id \in Requests, NEW l, l = Append(n, id)
  PROVE  /\ \A v : (\E i \in DOMAIN n : n[i] = v) => \E i \in DOMAIN l : l[i] = v
         /\ \E i \in DOMAIN l : l[i] = id
<1>1. /\ Len(l) = Len(n) + 1 /\ Len(n) \in Nat /\ l[Len(n) + 1] = id
      /\ \A i \in 1 .. Len(n) : l[i] = n[i]
      /\ DOMAIN n = 1 .. Len(n) /\ DOMAIN l = 1 .. Len(l)
  OBVIOUS
<1> QED BY <1>1

\* A patch with a list of metric k that the request has not read replaces it; any
\* other patch keeps what is logged.  The metric of an item is logged when it is written.
LEMMA LoggedStays ==
  ASSUME NEW q \in Worker, NEW r \in Run, WriterOK(q), q.copy \in Run, NEW m, m = Patched(r, q)
  PROVE  /\ \A k \in Keys : \/ k \in Lists(q) /\ q.copy.metrics[k] # r.metrics[k]
                            \/ \A v : Logged(r, k, v) => Logged(m, k, v)
         /\ q.op = "log_batch" /\ Head(q.todo).kind = "metrics" => Logged(m, Head(q.todo).key, q.id)
<1>0. r.metrics \in [Keys -> Seq(Requests)] /\ q.copy.metrics \in [Keys -> Seq(Requests)]
  BY DEF Run
<1>1. CASE q.op \in ReadOps
  <2>1. m.metrics = Overlay(r.metrics, q.copy.metrics, <<>>)
    <3>1. PICK p : m = MergePatch(r, p) /\ p.metrics = q.copy.metrics
      <4>1. /\ [q.copy EXCEPT !.status = "FINISHED", !.end = "set"].metrics = q.copy.metrics
            /\ [q.copy EXCEPT !.status = "RUNNING", !.end = "set"].metrics = q.copy.metrics
            /\ [q.copy EXCEPT !.life = "deleted"].metrics = q.copy.metrics
            /\ [q.copy EXCEPT !.life = "active"].metrics = q.copy.metrics
        BY DEF Run
      <4> QED BY <1>1, <4>1 DEF ReadOps, Patched
    <3> QED BY <3>1 DEF MergePatch
  <2>2. Lists(q) = {k \in Keys : q.copy.metrics[k] # <<>>}
    BY <1>1 DEF Lists, ReadOps
  <2>3. \A k \in Keys : m.metrics[k] = IF q.copy.metrics[k] = <<>> THEN r.metrics[k]
                                       ELSE q.copy.metrics[k]
    BY <2>1 DEF Overlay
  <2> QED BY <1>1, <2>2, <2>3 DEF Logged, ReadOps
<1>2. CASE q.op = "delete_tag"
  <2>1. m.metrics = r.metrics
    BY <1>2 DEF Patched, Run
  <2> QED BY <1>2, <2>1 DEF Logged
<1>3. CASE q.op = "log_batch"
  <2>1. PICK item : item = Head(q.todo)
    OBVIOUS
  <2>2. /\ q.todo \in Seq(Item) /\ q.todo # <<>> /\ q.id \in Requests
        /\ item \in Item /\ item.key \in Keys /\ item.kind \in {"metrics", "params", "tags"}
    <3>1. q.todo \in Seq(Item) /\ q.todo # <<>> /\ q.id \in Requests
      BY <1>3 DEF Worker, WriterOK
    <3>2. item \in Item
      BY <2>1, <3>1
    <3> QED BY <3>1, <3>2 DEF Item
  <2>3. CASE item.kind # "metrics"
    <3>1. m.metrics = r.metrics
      BY <1>3, <2>1, <2>2, <2>3 DEF Patched, Run
    <3> QED BY <1>3, <2>1, <2>3, <3>1 DEF Logged
  <2>4. CASE item.kind = "metrics"
    <3>1. PICK l : l = Append(q.copy.metrics[item.key], q.id)
      OBVIOUS
    <3>2. \A k \in Keys : m.metrics[k] = IF k = item.key THEN l ELSE r.metrics[k]
      <4>1. m = [r EXCEPT !.metrics[item.key] = l]
        BY <1>3, <2>1, <2>4, <3>1 DEF Patched, PatchMetric
      <4> QED BY <1>0, <2>2, <4>1 DEF Run
    <3>3. item.key \in Lists(q)
      BY <1>3, <2>1, <2>4 DEF Lists
    <3>4. PICK n \in Seq(Requests) : n = q.copy.metrics[item.key]
      BY <1>0, <2>2
    <3>5. /\ \A v : (\E i \in DOMAIN n : n[i] = v) => \E i \in DOMAIN l : l[i] = v
          /\ \E i \in DOMAIN l : l[i] = q.id
      <4>1. l = Append(n, q.id) /\ q.id \in Requests
        BY <2>2, <3>1, <3>4
      <4> QED BY <4>1, Extended
    <3>6. ASSUME NEW k \in Keys
          PROVE  \/ k \in Lists(q) /\ q.copy.metrics[k] # r.metrics[k]
                 \/ \A v : Logged(r, k, v) => Logged(m, k, v)
      <4>1. CASE k # item.key
        BY <3>2, <4>1 DEF Logged
      <4>2. CASE k = item.key /\ r.metrics[k] = n
        <5>1. m.metrics[k] = l
          BY <3>2, <4>2
        <5> QED BY <3>5, <4>2, <5>1 DEF Logged
      <4>3. CASE k = item.key /\ r.metrics[k] # n
        BY <3>3, <3>4, <4>3
      <4> QED BY <4>1, <4>2, <4>3
    <3>7. m.metrics[item.key] = l
      BY <2>2, <3>2
    <3>8. Logged(m, item.key, q.id)
      BY <3>5, <3>7 DEF Logged
    <3> QED BY <2>1, <3>6, <3>8
  <2> QED BY <2>3, <2>4
<1> QED BY <1>1, <1>2, <1>3 DEF WriterOK, WriteOps

\* What a store does to the logged values is noted.
LEMMA StoreLogs ==
  ASSUME NEW q \in Worker, WriterOK(q), q.copy \in Run, doc \in Run, Store(q)
  PROVE  /\ LogKept
         /\ q.op = "log_batch" /\ Head(q.todo).kind = "metrics"
              => Logged(doc', Head(q.todo).key, q.id)
<1>1. doc' = Patched(doc, q)
      /\ contested' = contested \cup {k \in Lists(q) : q.copy.metrics[k] # doc.metrics[k]}
  BY DEF Store, Record
<1>2. PICK m : m = doc'
  OBVIOUS
<1>3. PICK d \in Run : d = doc
  OBVIOUS
<1>4. /\ \A k \in Keys : \/ k \in Lists(q) /\ q.copy.metrics[k] # d.metrics[k]
                         \/ \A v : Logged(d, k, v) => Logged(m, k, v)
      /\ q.op = "log_batch" /\ Head(q.todo).kind = "metrics" => Logged(m, Head(q.todo).key, q.id)
  BY <1>1, <1>2, <1>3, LoggedStays
<1> QED BY <1>1, <1>2, <1>3, <1>4 DEF LogKept

\* An idle worker holds nothing.
LEMMA HeldIdle == ASSUME NEW d, NEW C PROVE HeldOK(Idle, d, C)
BY DEF HeldOK, Idle

\* What a request holds is kept by the steps of the others.
LEMMA HeldStays ==
  ASSUME NEW q \in Worker, HeldOK(q, doc, contested), LogKept
  PROVE  HeldOK(q, doc', contested')
<1> SUFFICES ASSUME q.op = "log_batch", NEW i \in DOMAIN q.items, q.items[i].kind = "metrics",
                    Logged(doc, q.items[i].key, q.id) \/ q.items[i].key \in contested
             PROVE  Logged(doc', q.items[i].key, q.id) \/ q.items[i].key \in contested'
  BY DEF HeldOK
<1>1. q.items[i] \in Item
  BY DEF Worker
<1> QED BY <1>1 DEF LogKept, Item

\* A step of one worker, by what it leaves.
LEMMA HeldKept ==
  ASSUME Types, HeldInv, NEW w \in Workers, NEW q,
         workers' = [workers EXCEPT ![w] = q], HeldOK(q, doc', contested'),
         doc # NoRun, doc' # NoRun, LogKept,
         \A e \in acked' \ acked : Logged(doc', e[1], e[2]) \/ e[1] \in contested'
  PROVE  HeldInv'
<1>1. \A v \in Workers : workers'[v] = IF v = w THEN q ELSE workers[v]
  BY DEF Types
<1>2. \A v \in Workers : HeldOK(workers'[v], doc', contested')
  <2> SUFFICES ASSUME NEW v \in Workers, v # w PROVE HeldOK(workers'[v], doc', contested')
    BY <1>1
  <2>1. workers[v] \in Worker /\ HeldOK(workers[v], doc, contested) /\ workers'[v] = workers[v]
    BY <1>1 DEF Types, HeldInv
  <2>2. PICK p \in Worker : p = workers[v]
    BY <2>1
  <2> QED BY <2>1, <2>2, HeldStays
<1>3. \A e \in acked : e[1] \in Keys
  BY DEF Types
<1>4. \A e \in acked' : Logged(doc', e[1], e[2]) \/ e[1] \in contested'
  BY <1>3 DEF HeldInv, LogKept
<1> QED BY <1>2, <1>4 DEF HeldInv

\* The same of a step that leaves the document.
LEMMA HeldSame ==
  ASSUME Types, HeldInv, NEW w \in Workers, NEW q,
         workers' = [workers EXCEPT ![w] = q], HeldOK(q, doc, contested), doc # NoRun,
         doc' = doc, contested' = contested,
         \A e \in acked' \ acked : Logged(doc, e[1], e[2]) \/ e[1] \in contested
  PROVE  HeldInv'
<1>1. LogKept
  BY DEF LogKept
<1> QED BY <1>1, HeldKept

\* A write: what was asked to be logged is logged, contested, or still to do.
LEMMA HeldWrite ==
  ASSUME Types, HeldInv, NEW w \in Workers, Write(w)
  PROVE  HeldInv'
<1>1. PICK p : p = workers[w]
  OBVIOUS
<1>2. PICK rest : rest = IF p.op = "log_batch" THEN Tail(p.todo) ELSE <<>>
  OBVIOUS
<1>3. PICK q : q = [p EXCEPT !.pc = IF rest = <<>> THEN "answer" ELSE "read",
                             !.todo = rest, !.copy = NoRun]
  OBVIOUS
<1>4. /\ p \in Worker /\ WriterOK(p) /\ p.pc = "write" /\ p.copy \in Run
      /\ HeldOK(p, doc, contested) /\ doc \in Run /\ doc # NoRun /\ Store(p)
  BY <1>1, RunsAssumption DEF Write, Types, WorkerOK, HeldInv
<1>5. /\ workers' = [workers EXCEPT ![w] = q] /\ acked' = acked
  BY <1>1, <1>2, <1>3 DEF Write, Types
<1>6. doc' # NoRun
  BY <1>4, StoreOK, RunsAssumption
<1>7. LogKept /\ (p.op = "log_batch" /\ Head(p.todo).kind = "metrics"
                    => Logged(doc', Head(p.todo).key, p.id))
  BY <1>4, StoreLogs
<1>8. HeldOK(p, doc', contested')
  BY <1>4, <1>7, HeldStays
<1>9. /\ q.pc = IF rest = <<>> THEN "answer" ELSE "read"
      /\ q.todo = rest /\ q.op = p.op /\ q.items = p.items /\ q.id = p.id
  BY <1>3, <1>4 DEF Worker
<1>10. HeldOK(q, doc', contested')
  <2>1. CASE p.op # "log_batch"
    BY <1>9, <2>1 DEF HeldOK
  <2>2. CASE p.op = "log_batch"
    <3>1. p.todo \in Seq(Item) /\ p.todo # <<>> /\ p.items \in Seq(Item) /\ rest = Tail(p.todo)
      BY <1>2, <1>4, <2>2 DEF Worker, WriterOK
    <3>2. ASSUME NEW i \in DOMAIN p.items, p.items[i].kind = "metrics"
          PROVE  \/ \E j \in DOMAIN rest : rest[j] = p.items[i]
                 \/ Logged(doc', p.items[i].key, p.id) \/ p.items[i].key \in contested'
      <4>1. CASE \E j \in DOMAIN p.todo : p.todo[j] = p.items[i]
        <5>1. PICK j \in DOMAIN p.todo : p.todo[j] = p.items[i]
          BY <4>1
        <5>2. CASE j = 1
          <6>1. Head(p.todo) = p.items[i]
            BY <3>1, <5>1, <5>2
          <6> QED BY <1>7, <2>2, <3>2, <6>1
        <5>3. CASE j # 1
          <6>1. j - 1 \in DOMAIN rest /\ rest[j - 1] = p.todo[j]
            BY <3>1, <5>1, <5>3
          <6> QED BY <5>1, <6>1
        <5> QED BY <5>2, <5>3
      <4> QED BY <1>4, <1>8, <2>2, <3>2, <4>1 DEF HeldOK
    <3>3. q.pc \in {"answer", "read"} /\ (q.pc = "answer" => q.todo = <<>>)
      BY <1>9
    <3> QED BY <1>9, <3>2, <3>3 DEF HeldOK
  <2> QED BY <2>1, <2>2
<1> QED BY <1>4, <1>5, <1>6, <1>7, <1>10, HeldKept

\* A request that was received has written nothing yet.
LEMMA HeldStarts ==
  ASSUME Types, NEW w \in Workers, NEW op, NEW items,
         NEW pc \in {"check", "read", "parts"}, pc = "read" => op \in ReadOps,
         Receive(w, op, pc, items)
  PROVE  \E q : workers' = [workers EXCEPT ![w] = q] /\ \A d, C : HeldOK(q, d, C)
<1>1. PICK q : q = [Idle EXCEPT
         !.op = op, !.pc = pc, !.id = count + 1, !.items = items, !.todo = items,
         !.parts = IF pc = "parts" THEN PartOrder ELSE <<>>]
  OBVIOUS
<1>2. workers' = [workers EXCEPT ![w] = q]
  BY <1>1 DEF Receive
<1>3. q.pc = pc /\ q.op = op
  BY <1>1 DEF Idle
<1>4. \A d, C : HeldOK(q, d, C)
  BY <1>3 DEF HeldOK, ReadOps
<1> QED BY <1>2, <1>4

\* The first step of a batch: the run is looked at, and the whole batch is to do.
LEMMA HeldCheck ==
  ASSUME Types, HeldInv, NEW w \in Workers, CheckActive(w), ~ Answer(w)
  PROVE  HeldInv'
<1>1. PICK p : p = workers[w]
  OBVIOUS
<1>2. PICK q : q = [p EXCEPT !.pc = IF p.items = <<>> THEN "answer" ELSE "read"]
  OBVIOUS
<1>3. /\ p \in Worker /\ p.pc = "check" /\ p.todo = p.items /\ doc # NoRun
  BY <1>1 DEF CheckActive, Types, WorkerOK
<1>4. /\ workers' = [workers EXCEPT ![w] = q]
      /\ doc' = doc /\ acked' = acked /\ contested' = contested
  BY <1>1, <1>2 DEF CheckActive, history
<1>5. /\ q.pc = IF p.items = <<>> THEN "answer" ELSE "read"
      /\ q.todo = p.items /\ q.op = p.op /\ q.items = p.items
  BY <1>2, <1>3 DEF Worker
<1>6. HeldOK(q, doc, contested)
  BY <1>5 DEF HeldOK
<1> QED BY <1>3, <1>4, <1>6, HeldSame

\* The read of a request: what is asked of the copy is not refused.
LEMMA HeldRead ==
  ASSUME Types, HeldInv, NEW w \in Workers, Read(w), ~ Answer(w)
  PROVE  HeldInv'
<1>1. PICK p : p = workers[w]
  OBVIOUS
<1>2. PICK q : q = [p EXCEPT !.pc = "write", !.copy = doc]
  OBVIOUS
<1>3. p \in Worker /\ p.pc = "read" /\ HeldOK(p, doc, contested) /\ doc # NoRun
  BY <1>1 DEF Read, Types, HeldInv
<1>4. /\ workers' = [workers EXCEPT ![w] = q] /\ ~ Refused(p, doc)
      /\ doc' = doc /\ acked' = acked /\ contested' = contested
  BY <1>1, <1>2 DEF Read, history
<1>5. /\ q.pc = "write" /\ q.copy = doc /\ q.todo = p.todo /\ q.op = p.op
      /\ q.items = p.items /\ q.id = p.id
  BY <1>2, <1>3 DEF Worker
<1>6. ~ Refused(q, q.copy)
  BY <1>4, <1>5 DEF Refused
<1>7. HeldOK(q, doc, contested)
  BY <1>3, <1>5, <1>6 DEF HeldOK
<1> QED BY <1>3, <1>4, <1>7, HeldSame

\* A call that fails ends the request; what it may have written is noted.
LEMMA HeldFail ==
  ASSUME Types, HeldInv, NEW w \in Workers, Fail(w)
  PROVE  HeldInv'
<1>1. PICK p : p = workers[w]
  OBVIOUS
<1>2. /\ doc # NoRun /\ doc \in Run /\ p \in Worker /\ WorkerOK(p)
      /\ workers' = [workers EXCEPT ![w] = Idle] /\ acked' = acked
  BY <1>1, RunsAssumption DEF Fail, Answer, Types
<1>3. CASE UNCHANGED <<doc, history>>
  BY <1>2, <1>3, HeldIdle, HeldSame DEF history
<1>4. CASE p.pc = "write" /\ Store(p)
  <2>1. WriterOK(p) /\ p.copy \in Run
    BY <1>2, <1>4 DEF WorkerOK
  <2>2. doc' # NoRun /\ LogKept
    BY <1>2, <1>4, <2>1, StoreOK, StoreLogs, RunsAssumption
  <2> QED BY <1>2, <2>2, HeldIdle, HeldKept
<1> QED BY <1>1, <1>3, <1>4 DEF Fail

\* The answer to a batch: each of its metrics is logged or contested.
LEMMA HeldRespond ==
  ASSUME Types, HeldInv, NEW w \in Workers, Respond(w)
  PROVE  HeldInv'
<1>1. PICK p : p = workers[w]
  OBVIOUS
<1>2. /\ doc # NoRun /\ p \in Worker /\ HeldOK(p, doc, contested) /\ p.pc = "answer"
      /\ workers' = [workers EXCEPT ![w] = Idle] /\ doc' = doc /\ contested' = contested
      /\ acked' = acked \cup {<<p.items[i].key, p.id>> :
           i \in {i \in DOMAIN p.items : p.op = "log_batch" /\ p.items[i].kind = "metrics"}}
  BY <1>1 DEF Respond, Answer, Types, HeldInv, history
<1>3. ASSUME NEW e \in acked' \ acked
      PROVE  Logged(doc, e[1], e[2]) \/ e[1] \in contested
  <2>1. PICK i \in DOMAIN p.items : /\ p.op = "log_batch" /\ p.items[i].kind = "metrics"
                                    /\ e = <<p.items[i].key, p.id>>
    BY <1>2, <1>3
  <2>2. Logged(doc, p.items[i].key, p.id) \/ p.items[i].key \in contested
    BY <1>2, <2>1 DEF HeldOK
  <2> QED BY <2>1, <2>2
<1> QED BY <1>2, <1>3, HeldIdle, HeldSame

\* A part of an answer is read.
LEMMA HeldReadPart ==
  ASSUME Types, HeldInv, NEW w \in Workers, ReadPart(w)
  PROVE  HeldInv'
<1>1. PICK p : p = workers[w]
  OBVIOUS
<1>2. PICK seen : seen = p.seen \cup Shown(Head(p.parts))
  OBVIOUS
<1>3. PICK q : q = [p EXCEPT
         !.pc = IF Len(p.parts) = 1 \/ <<"info", "error">> \in seen THEN "answer" ELSE "parts",
         !.parts = Tail(p.parts), !.seen = seen]
  OBVIOUS
<1>4. p \in Worker /\ p.op \in {"create_run", "get_run"} /\ doc # NoRun
  BY <1>1 DEF ReadPart, Types, WorkerOK
<1>5. workers' = [workers EXCEPT ![w] = q] /\ doc' = doc /\ acked' = acked
      /\ contested' = contested
  <2>1. /\ doc' = doc /\ acked' = acked /\ contested' = contested
        /\ workers' = [workers EXCEPT ![w] = [workers[w] EXCEPT
             !.pc = IF Len(p.parts) = 1 \/ <<"info", "error">> \in seen THEN "answer" ELSE "parts",
             !.parts = Tail(p.parts), !.seen = seen]]
    BY <1>1, <1>2 DEF ReadPart, Types, history
  <2> QED BY <1>1, <1>3, <2>1
<1>6. q.op = p.op /\ q.pc \in {"answer", "parts"}
  BY <1>3, <1>4 DEF Worker
<1>7. HeldOK(q, doc, contested)
  BY <1>4, <1>6 DEF HeldOK
<1> QED BY <1>4, <1>5, <1>7, HeldSame

\* Each step keeps what is logged, or notes it.
LEMMA HeldStep == Types /\ Types' /\ HeldInv /\ [Next]_vars => HeldInv'
<1> SUFFICES ASSUME Types, Types', HeldInv, [Next]_vars PROVE HeldInv'
  OBVIOUS
<1>1. CASE UNCHANGED vars
  BY <1>1 DEF vars, HeldInv
<1>2. ASSUME NEW w \in Workers, CreateRun(w) PROVE HeldInv'
  <2>1. /\ Receive(w, "create_run", "parts", <<>>) /\ acked = {} /\ acked' = {}
        /\ doc' # NoRun /\ \A v \in Workers : workers[v].pc = "idle"
    <3>1. doc' \in Run \cup {NoRun} /\ doc = NoRun /\ Receive(w, "create_run", "parts", <<>>)
      BY <1>2 DEF CreateRun, Types
    <3>2. acked = {} /\ acked' = {}
      BY <3>1 DEF Receive, HeldInv
    <3>3. workers'[w].pc # "idle"
      BY <3>1 DEF Receive, Types, Idle
    <3> QED BY <3>1, <3>2, <3>3 DEF Types
  <2>2. PICK q : workers' = [workers EXCEPT ![w] = q] /\ \A d, C : HeldOK(q, d, C)
    BY <2>1, HeldStarts
  <2>3. \A v \in Workers : HeldOK(workers'[v], doc', contested')
    <3> SUFFICES ASSUME NEW v \in Workers, v # w PROVE HeldOK(workers'[v], doc', contested')
      BY <2>2 DEF Types
    <3>1. workers'[v].pc = "idle"
      BY <2>1, <2>2 DEF Types
    <3> QED BY <3>1 DEF HeldOK
  <2> QED BY <2>1, <2>3 DEF HeldInv
<1>3. ASSUME NEW w \in Workers, Request(w) PROVE HeldInv'
  <2>1. doc # NoRun /\ doc' = doc
    BY <1>3 DEF Request
  <2>2. ASSUME NEW op, NEW items, NEW pc \in {"check", "read", "parts"},
               pc = "read" => op \in ReadOps, Receive(w, op, pc, items)
        PROVE  HeldInv'
    <3>1. acked' = acked /\ contested' = contested
      BY <2>2 DEF Receive, history
    <3>2. PICK q : workers' = [workers EXCEPT ![w] = q] /\ \A d, C : HeldOK(q, d, C)
      BY <2>2, HeldStarts
    <3> QED BY <2>1, <3>1, <3>2, HeldSame
  <2>3. CASE \E op \in ReadOps : Receive(w, op, "read", <<>>)
    BY <2>2, <2>3
  <2>4. CASE Receive(w, "get_run", "parts", <<>>)
    BY <2>2, <2>4
  <2>5. CASE \E items : \E op : Receive(w, op, "check", items)
    BY <2>2, <2>5
  <2> QED BY <1>3, <2>3, <2>4, <2>5 DEF Request, ReadOps
<1>4. ASSUME NEW w \in Workers, workers[w].pc # "idle", Answer(w), doc' = doc,
             acked' = acked, contested' = contested
      PROVE  HeldInv'
  <2>1. doc # NoRun /\ workers' = [workers EXCEPT ![w] = Idle]
    BY <1>4 DEF Types, Answer
  <2> QED BY <1>4, <2>1, HeldIdle, HeldSame
<1>5. ASSUME NEW w \in Workers, CheckActive(w) PROVE HeldInv'
  BY <1>4, <1>5, HeldCheck DEF CheckActive, history
<1>6. ASSUME NEW w \in Workers, Read(w) PROVE HeldInv'
  BY <1>4, <1>6, HeldRead DEF Read, history
<1> QED BY <1>1, <1>2, <1>3, <1>5, <1>6, HeldWrite, HeldReadPart, HeldRespond, HeldFail
        DEF Next, Serve

\* What holds of the requests and the answered values holds always.
LEMMA HeldInvariant == Spec => [](Types /\ HeldInv)
<1>1. Init => HeldInv
  BY HeldIdle DEF Init, HeldInv
<1> QED BY <1>1, HeldStep, TypesInvariant, PTL DEF Spec

\* However many workers serve however many requests, and whichever calls fail: a value
\* that was answered for is in its history, or a list of the same metric was written
\* over one it does not extend.
THEOREM RunMetricsAreKept == Spec => []MetricsAreKept
<1>1. HeldInv => MetricsAreKept
  BY DEF HeldInv, MetricsAreKept, Logged
<1> QED BY <1>1, HeldInvariant, PTL

-----------------------------------------------------------------------------
(* The calls are atomic where they do not overlap *)

\* A table that is merged with itself stays.
LEMMA OverlayAll ==
  ASSUME NEW S, NEW t \in [Keys -> S], NEW absent
  PROVE  Overlay(t, t, absent) = t
BY DEF Overlay

\* A document that is merged with a copy of its tables keeps them.
LEMMA MergeSelf ==
  ASSUME NEW r \in Run, NEW p,
         p.metrics = r.metrics, p.params = r.params, p.tags = r.tags
  PROVE  /\ MergePatch(r, p).status = p.status /\ MergePatch(r, p).life = p.life
         /\ MergePatch(r, p).metrics = r.metrics /\ MergePatch(r, p).params = r.params
         /\ MergePatch(r, p).tags = r.tags
<1>1. /\ r.metrics \in [Keys -> Seq(Requests)]
      /\ r.params \in [Keys -> Requests \cup {NoValue}]
      /\ r.tags \in [Keys -> Requests \cup {NoValue}]
  BY DEF Run, Table
<1>2. /\ Overlay(r.metrics, r.metrics, <<>>) = r.metrics
      /\ Overlay(r.params, r.params, NoValue) = r.params
      /\ Overlay(r.tags, r.tags, NoValue) = r.tags
  BY <1>1, OverlayAll
<1> QED BY <1>2 DEF MergePatch

\* What one request writes, where its copy is the document.
LEMMA PatchedSelf ==
  ASSUME NEW q \in Worker, NEW r \in Run, WriterOK(q), q.copy = r, NEW m, m = Patched(r, q)
  PROVE  /\ q.op = "finish" => m.status = "FINISHED" /\ m.life = r.life
         /\ q.op = "resume" => m.status = "RUNNING" /\ m.life = r.life
         /\ q.op = "delete_run" => m.status = r.status /\ m.life = "deleted"
         /\ q.op = "restore_run" => m.status = r.status /\ m.life = "active"
         /\ q.op \in ReadOps => m.metrics = r.metrics /\ m.params = r.params /\ m.tags = r.tags
         /\ q.op = "delete_tag" => m = r
<1>1. CASE q.op = "finish"
  <2>1. PICK p : p = [r EXCEPT !.status = "FINISHED", !.end = "set"]
    OBVIOUS
  <2>2. /\ p.metrics = r.metrics /\ p.params = r.params /\ p.tags = r.tags
        /\ p.status = "FINISHED" /\ p.life = r.life
    BY <2>1 DEF Run
  <2>3. m = MergePatch(r, p)
    BY <1>1, <2>1 DEF Patched
  <2> QED BY <1>1, <2>2, <2>3, MergeSelf
<1>2. CASE q.op = "resume"
  <2>1. PICK p : p = [r EXCEPT !.status = "RUNNING", !.end = "set"]
    OBVIOUS
  <2>2. /\ p.metrics = r.metrics /\ p.params = r.params /\ p.tags = r.tags
        /\ p.status = "RUNNING" /\ p.life = r.life
    BY <2>1 DEF Run
  <2>3. m = MergePatch(r, p)
    BY <1>2, <2>1 DEF Patched
  <2> QED BY <1>2, <2>2, <2>3, MergeSelf
<1>3. CASE q.op = "delete_run"
  <2>1. PICK p : p = [r EXCEPT !.life = "deleted"]
    OBVIOUS
  <2>2. /\ p.metrics = r.metrics /\ p.params = r.params /\ p.tags = r.tags
        /\ p.status = r.status /\ p.life = "deleted"
    BY <2>1 DEF Run
  <2>3. m = MergePatch(r, p)
    BY <1>3, <2>1 DEF Patched
  <2> QED BY <1>3, <2>2, <2>3, MergeSelf
<1>4. CASE q.op = "restore_run"
  <2>1. PICK p : p = [r EXCEPT !.life = "active"]
    OBVIOUS
  <2>2. /\ p.metrics = r.metrics /\ p.params = r.params /\ p.tags = r.tags
        /\ p.status = r.status /\ p.life = "active"
    BY <2>1 DEF Run
  <2>3. m = MergePatch(r, p)
    BY <1>4, <2>1 DEF Patched
  <2> QED BY <1>4, <2>2, <2>3, MergeSelf
<1>5. CASE q.op = "delete_tag"
  <2>1. r.tags \in [Keys -> Requests \cup {NoValue}]
    BY DEF Run, Table
  <2>2. Overlay(r.tags, [r.tags EXCEPT ![q.items[1].key] = NoValue], NoValue) = r.tags
    BY <2>1 DEF Overlay
  <2>3. m = [r EXCEPT !.tags = r.tags]
    BY <1>5, <2>2 DEF Patched
  <2> QED BY <1>5, <2>3 DEF Run, ReadOps
<1>6. CASE q.op = "log_batch"
  BY <1>6 DEF ReadOps
<1> QED BY <1>1, <1>2, <1>3, <1>4, <1>5, <1>6 DEF WriterOK, WriteOps, ReadOps

\* What one item of a batch writes, where the request's copy is the document.
LEMMA PatchedItem ==
  ASSUME NEW q \in Worker, NEW r \in Run, WriterOK(q), q.copy = r, q.op = "log_batch",
         NEW item, item = Head(q.todo), NEW m, m = Patched(r, q)
  PROVE  /\ q.todo \in Seq(Item) /\ q.todo # <<>>
         /\ item.kind \in {"metrics", "params", "tags"} /\ item.key \in Keys /\ q.id \in Requests
         /\ m.status = r.status /\ m.life = r.life
         /\ m.metrics = IF item.kind = "metrics"
                        THEN [r.metrics EXCEPT ![item.key] = Append(r.metrics[item.key], q.id)]
                        ELSE r.metrics
         /\ m.params = IF item.kind = "params" THEN [r.params EXCEPT ![item.key] = q.id] ELSE r.params
         /\ m.tags = IF item.kind = "tags" THEN [r.tags EXCEPT ![item.key] = q.id] ELSE r.tags
<1>1. q.todo \in Seq(Item) /\ q.todo # <<>> /\ q.id \in Requests /\ q.id # NoValue
  BY RunsAssumption DEF Worker, WriterOK
<1>2. item \in Item
  BY <1>1
<1>3. item.key \in Keys /\ item.kind \in {"metrics", "params", "tags"}
  BY <1>2 DEF Item
<1>4. /\ r = [status |-> r.status, life |-> r.life, end |-> r.end, metrics |-> r.metrics,
              params |-> r.params, tags |-> r.tags]
      /\ r.params \in [Keys -> Requests \cup {NoValue}] /\ r.tags \in [Keys -> Requests \cup {NoValue}]
  BY DEF Run, Table
<1>5. m = CASE item.kind = "metrics" -> PatchMetric(r, r, item, q.id)
            [] item.kind = "params" ->
                 [r EXCEPT !.params = Overlay(r.params, [r.params EXCEPT ![item.key] = q.id], NoValue)]
            [] item.kind = "tags" ->
                 [r EXCEPT !.tags = Overlay(r.tags, [r.tags EXCEPT ![item.key] = q.id], NoValue)]
  BY DEF Patched
<1>6. CASE item.kind = "metrics"
  <2>1. m = [r EXCEPT !.metrics = [r.metrics EXCEPT ![item.key] = Append(r.metrics[item.key], q.id)]]
    BY <1>5, <1>6 DEF PatchMetric
  <2> QED BY <1>1, <1>3, <1>4, <1>6, <2>1
<1>7. CASE item.kind = "params"
  <2>1. m = [r EXCEPT !.params = Overlay(r.params, [r.params EXCEPT ![item.key] = q.id], NoValue)]
    BY <1>5, <1>7
  <2>2. Overlay(r.params, [r.params EXCEPT ![item.key] = q.id], NoValue)
          = [r.params EXCEPT ![item.key] = q.id]
    BY <1>1, <1>3, <1>4 DEF Overlay
  <2>3. m = [r EXCEPT !.params = [r.params EXCEPT ![item.key] = q.id]]
    BY <2>1, <2>2
  <2> QED BY <1>1, <1>3, <1>4, <1>7, <2>3
<1>8. CASE item.kind = "tags"
  <2>1. m = [r EXCEPT !.tags = Overlay(r.tags, [r.tags EXCEPT ![item.key] = q.id], NoValue)]
    BY <1>5, <1>8
  <2>2. Overlay(r.tags, [r.tags EXCEPT ![item.key] = q.id], NoValue)
          = [r.tags EXCEPT ![item.key] = q.id]
    BY <1>1, <1>3, <1>4 DEF Overlay
  <2>3. m = [r EXCEPT !.tags = [r.tags EXCEPT ![item.key] = q.id]]
    BY <2>1, <2>2
  <2> QED BY <1>1, <1>3, <1>4, <1>8, <2>3
<1> QED BY <1>3, <1>6, <1>7, <1>8

\* A write on top of what the request has read is a call of the tracking store, or changes
\* nothing that the store shows.
LEMMA StoreAtomic ==
  ASSUME doc \in Run, doc' \in Run, NEW q \in Worker, WriterOK(q), q.copy = doc,
         ~ Refused(q, doc), q.op = "log_batch" => doc.life = "active", Store(q)
  PROVE  Atomic!Next \/ Visible' = Visible
<1> DEFINE V(r) == [status |-> r.status, life |-> r.life, metrics |-> r.metrics,
                    params |-> r.params, tags |-> r.tags]
<1>1. doc' = Patched(doc, q)
  BY DEF Store
<1>2. doc # NoRun /\ doc' # NoRun /\ Visible = V(doc) /\ Visible' = V(doc')
  BY RunsAssumption DEF Visible
<1>3. Visible # NoRun
  BY <1>2, VisibleAssumption DEF Atomic!Run, Atomic!Table, Atomic!Status, Atomic!Life,
     Run, Table, Status, Life
<1>4. CASE q.op \in {"finish", "resume"}
  <2>1. PICK s \in Status : V(doc') = [V(doc) EXCEPT !.status = s]
    BY <1>1, <1>4, PatchedSelf DEF ReadOps, Status
  <2> QED BY <1>2, <1>3, <2>1 DEF Atomic!Next, Atomic!SetStatus, Status, Atomic!Status
<1>5. CASE q.op = "delete_run"
  <2>1. doc.life = "active"
    BY <1>5 DEF Refused, Run, Life
  <2>2. V(doc') = [V(doc) EXCEPT !.life = "deleted"]
    BY <1>1, <1>5, PatchedSelf DEF ReadOps
  <2> QED BY <1>2, <1>3, <2>1, <2>2 DEF Atomic!Next, Atomic!Delete
<1>6. CASE q.op = "restore_run"
  <2>1. doc.life = "deleted"
    BY <1>6 DEF Refused, Run, Life
  <2>2. V(doc') = [V(doc) EXCEPT !.life = "active"]
    BY <1>1, <1>6, PatchedSelf DEF ReadOps
  <2> QED BY <1>2, <1>3, <2>1, <2>2 DEF Atomic!Next, Atomic!Restore
<1>7. CASE q.op = "delete_tag"
  BY <1>1, <1>2, <1>7, PatchedSelf
<1>8. CASE q.op = "log_batch"
  <2>1. PICK item : item = Head(q.todo)
    OBVIOUS
  <2>2. /\ item.kind \in {"metrics", "params", "tags"} /\ item.key \in Keys /\ q.id \in Requests
        /\ doc'.status = doc.status /\ doc'.life = doc.life
        /\ doc'.metrics = IF item.kind = "metrics"
                          THEN [doc.metrics EXCEPT ![item.key] = Append(doc.metrics[item.key], q.id)]
                          ELSE doc.metrics
        /\ doc'.params = IF item.kind = "params" THEN [doc.params EXCEPT ![item.key] = q.id] ELSE doc.params
        /\ doc'.tags = IF item.kind = "tags" THEN [doc.tags EXCEPT ![item.key] = q.id] ELSE doc.tags
    <3>1. PICK m : m = doc'
      OBVIOUS
    <3>2. PICK r \in Run : r = doc
      OBVIOUS
    <3>3. q.copy = r /\ m = Patched(r, q)
      BY <1>1, <3>1, <3>2
    <3> HIDE DEF V
    <3>4. /\ item.kind \in {"metrics", "params", "tags"} /\ item.key \in Keys /\ q.id \in Requests
          /\ m.status = r.status /\ m.life = r.life
          /\ m.metrics = IF item.kind = "metrics"
                         THEN [r.metrics EXCEPT ![item.key] = Append(r.metrics[item.key], q.id)]
                         ELSE r.metrics
          /\ m.params = IF item.kind = "params" THEN [r.params EXCEPT ![item.key] = q.id] ELSE r.params
          /\ m.tags = IF item.kind = "tags" THEN [r.tags EXCEPT ![item.key] = q.id] ELSE r.tags
      BY <1>8, <2>1, <3>2, <3>3, PatchedItem, SMTT(60)
    <3> QED BY <3>1, <3>2, <3>4, Zenon
  <2>3. Visible.life = "active"
    BY <1>2, <1>8
  <2>4. CASE item.kind = "metrics"
    <3>1. V(doc') = [V(doc) EXCEPT !.metrics =
                       [V(doc).metrics EXCEPT ![item.key] = Append(V(doc).metrics[item.key], q.id)]]
      <4>1. PICK h : h = [doc.metrics EXCEPT ![item.key] = Append(doc.metrics[item.key], q.id)]
        OBVIOUS
      <4>2. V(doc') = [V(doc) EXCEPT !.metrics = h]
        <5>1. /\ doc'.metrics = h /\ doc'.params = doc.params /\ doc'.tags = doc.tags
              /\ doc'.status = doc.status /\ doc'.life = doc.life
          BY <2>2, <2>4, <4>1, Zenon
        <5> QED BY <5>1
      <4> QED BY <4>1, <4>2
    <3>2. Atomic!LogMetric(item.key, q.id)
      BY <1>2, <3>1 DEF Atomic!LogMetric
    <3> QED BY <1>3, <2>2, <2>3, <3>2 DEF Atomic!Next, Atomic!Log
  <2>5. CASE item.kind = "params"
    <3>1. V(doc') = [V(doc) EXCEPT !.params = [V(doc).params EXCEPT ![item.key] = q.id]]
      BY <2>2, <2>5
    <3>2. Atomic!LogParam(item.key, q.id)
      BY <1>2, <3>1 DEF Atomic!LogParam
    <3> QED BY <1>3, <2>2, <2>3, <3>2 DEF Atomic!Next, Atomic!Log
  <2>6. CASE item.kind = "tags"
    <3>1. V(doc') = [V(doc) EXCEPT !.tags = [V(doc).tags EXCEPT ![item.key] = q.id]]
      BY <2>2, <2>6
    <3>2. Atomic!SetTag(item.key, q.id)
      BY <1>2, <3>1 DEF Atomic!SetTag
    <3> QED BY <1>3, <2>2, <2>3, <3>2 DEF Atomic!Next, Atomic!Log
  <2> QED BY <2>2, <2>4, <2>5, <2>6
<1> QED BY <1>4, <1>5, <1>6, <1>7, <1>8 DEF WriterOK, WriteOps, ReadOps

\* Where requests overlap a step that keeps the keys is one of the store's.
LEMMA InterfereStep ==
  ASSUME Overlapping, doc \in Run, doc' # NoRun, doc' \in Run,
         Present(doc) \subseteq Present(doc')
  PROVE  Atomic!Next
<1>1. \A r \in Run :
        [status |-> r.status, life |-> r.life, metrics |-> r.metrics,
         params |-> r.params, tags |-> r.tags] # NoRun
  BY VisibleAssumption DEF Atomic!Run, Atomic!Table, Atomic!Status, Atomic!Life,
     Run, Table, Status, Life
<1>2. doc # NoRun /\ Visible # NoRun /\ Visible' # NoRun
  BY <1>1, RunsAssumption DEF Visible
<1>3. Atomic!Present = Present(doc)
  BY <1>2 DEF Visible, Present, Atomic!Present
<1>4. Atomic!Present' = Present(doc')
  BY <1>2 DEF Visible, Present, Atomic!Present
<1> QED BY <1>2, <1>3, <1>4 DEF Atomic!Interfere, Atomic!Next

\* Each step is a call of the tracking store, or one that has missed another, or
\* shows nothing.
LEMMA AtomicStep ==
  ASSUME Types, Types', HeldInv, [Next]_vars
  PROVE  Atomic!Next \/ Visible' = Visible
<1>1. CASE doc' = doc
  BY <1>1 DEF Visible
<1>2. CASE doc = NoRun /\ doc' # doc
  <2>1. PICK w \in Workers : CreateRun(w)
    BY <1>2 DEF Next, vars, Request, Serve, CheckActive, Read, Write, ReadPart, Respond, Fail, Types
  <2>2. PICK K \in SUBSET Keys :
          doc' = [status |-> "RUNNING", life |-> "active", end |-> "null",
                  metrics |-> [k \in Keys |-> <<>>], params |-> Empty,
                  tags |-> [k \in Keys |-> IF k \in K THEN count + 1 ELSE NoValue]]
    BY <2>1 DEF CreateRun
  <2>3. count + 1 \in Requests
    BY <2>1, RunsAssumption DEF CreateRun, Receive, Types, Requests
  <2>4. PICK t : t = [k \in Keys |-> IF k \in K THEN count + 1 ELSE NoValue]
    OBVIOUS
  <2>5. t \in Atomic!Table
    BY <2>3, <2>4 DEF Atomic!Table
  <2>6. Visible = NoRun
    BY <1>2 DEF Visible
  <2>7. Visible' = [status |-> "RUNNING", life |-> "active", metrics |-> [k \in Keys |-> <<>>],
                    params |-> Empty, tags |-> t]
    BY <1>2, <2>2, <2>4 DEF Visible
  <2>8. Empty = Atomic!Empty
    BY DEF Empty, Atomic!Empty
  <2> QED BY <2>5, <2>6, <2>7, <2>8 DEF Atomic!Next, Atomic!Create
<1>3. CASE doc # NoRun /\ doc' # doc
  <2>1. PICK w \in Workers : /\ workers[w].pc = "write" /\ Store(workers[w])
                             /\ workers[w] \in Worker /\ WriterOK(workers[w])
                             /\ doc \in Run
    BY <1>3, DocSteps
  <2>2. PICK q \in Worker : q = workers[w]
    BY <2>1
  <2>3. q.pc = "write" /\ Store(q) /\ WriterOK(q) /\ ~ Refused(q, q.copy) /\ q.copy \in Run
    <3>1. HeldOK(q, doc, contested) /\ WorkerOK(q)
      BY <2>2 DEF HeldInv, Types
    <3> QED BY <2>1, <2>2, <3>1 DEF HeldOK, WorkerOK
  <2>4. CASE Overlapping
    BY <1>3, <2>1, <2>4, KeysStayStep, InterfereStep DEF Types
  <2>5. CASE ~ Overlapping
    <3>1. q.copy = doc /\ (q.op = "log_batch" => doc.life # "deleted")
      BY <2>2, <2>3, <2>5 DEF Overlapping
    <3>2. q.op = "log_batch" => doc.life = "active"
      BY <2>1, <3>1 DEF Run, Life
    <3>3. doc' \in Run
      BY <2>1, <2>3, StoreOK
    <3> QED BY <2>1, <2>3, <3>1, <3>2, <3>3, StoreAtomic
  <2> QED BY <2>4, <2>5
<1> QED BY <1>1, <1>2, <1>3

\* Whatever workers serve the requests of mlflow server, they implement the tracking
\* store: what a request reads, writes and repeats, and wherever it fails, the run
\* changes as by calls that each happen at once, or a call has missed another one.
THEOREM RunIsRunStore == Spec => IsRunStore
<1>1. Init => Atomic!Init
  BY DEF Init, Atomic!Init, Visible
<1>2. Types /\ Types' /\ HeldInv /\ [Next]_vars => [Atomic!Next]_Visible
  BY AtomicStep
<1> QED BY <1>1, <1>2, HeldInvariant, PTL DEF Spec, IsRunStore, Atomic!Spec
=============================================================================
