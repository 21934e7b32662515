--------------------- MODULE TrackingExperimentsProofs ---------------------
(***************************************************************************)
(* Proofs about TrackingExperiments, for any number of workers: the        *)
(* numbers of the experiments are counted up from 0 and stay within the    *)
(* requests received; an experiment whose creation was answered is only    *)
(* replaced by a creation that was overtaken; and a request that was not   *)
(* overtaken changes just what it asks for.                                *)
(***************************************************************************)
EXTENDS TrackingExperiments, FiniteSetTheorems, TLAPS

Creating == {"first", "second", "names", "create"}
EditOps == {"rename_experiment", "delete_experiment", "restore_experiment"}
Ops == EditOps \cup {"create_experiment", "set_experiment_tag"}

Worker ==
  [op : Ops \cup {"none"},
   pc : Creating \cup {"idle", "read", "write", "answer"},
   number : 0 .. MaxRequests, id : Ids, name : Names \cup {NoDoc}, round : {1, 2},
   ids : SUBSET Ids, taken : BOOLEAN, copy : Experiment \cup {NoDoc}]

WorkerOK(q) ==
  /\ q \in Worker
  /\ q.pc # "idle" => q.number \in Requests
  /\ q.pc \in Creating => q.op = "create_experiment" /\ q.name \in Names
  /\ q.pc = "read" => q.op \in Ops \ {"create_experiment"}
  /\ q.pc = "write" => q.op \in EditOps /\ q.copy \in Experiment
  /\ q.op = "rename_experiment" => q.name \in Names
  /\ q.pc # "write" => q.copy = NoDoc

Types ==
  /\ docs \in [Ids -> Experiment \cup {NoDoc}]
  /\ workers \in [Workers -> Worker]
  /\ \A w \in Workers : WorkerOK(workers[w])
  /\ count \in 0 .. MaxRequests /\ faults \in 0 .. MaxFaults
  /\ acked \in SUBSET (Ids \X Requests)

\* Who was overtaken, and where: the history has its types.
HistoryOK == overtaken \subseteq Workers /\ raced \subseteq Ids

\* What a worker knows of the numbers: its own is one of the n given to requests,
\* those of experiments are in E, the ones in use, or follow one of them.
Knows(q, E, n) ==
  /\ q.number <= n
  /\ q.ids \subseteq E
  /\ q.pc \in {"read", "write"} => q.id \in E
  /\ q.pc = "create" => q.id = 0 \/ q.id - 1 \in E

\* An experiment is known by the request that created it: <<id, request>> for each
\* document, and for each copy that is going to be written.
Claims ==
  {<<i, docs[i].data>> : i \in Existing}
    \cup {<<workers[w].id, workers[w].copy.data>> : w \in {v \in Workers : workers[v].pc = "write"}}

\* Numbers are given from 0 on without a gap, and one request creates one experiment.
NumbersOK ==
  /\ \A w \in Workers : Knows(workers[w], Existing, count)
  /\ \A i \in Existing : 0 .. i \subseteq Existing
  /\ \A c \in Claims : c[2] <= count
  /\ \A c, d \in Claims : c[2] = d[2] => c[1] = d[1]
  /\ \A w \in Workers : workers[w].pc \in Creating =>
       \A c \in Claims : c[2] # workers[w].number
  /\ \A v, w \in Workers : workers[v].pc # "idle" /\ workers[v].number = workers[w].number => v = w

IInv == Types /\ NumbersOK

-----------------------------------------------------------------------------
\* What is created is new: a creator that was not overtaken has missed no experiment.
CreatorOK(w, q) ==
  /\ q.pc = "second" /\ q.round = 2 /\ w \notin overtaken =>
       \A i \in Existing : i \in q.ids \/ docs[i].life = "deleted"
  /\ q.pc = "create" => q.round = 2
  /\ q.pc = "create" /\ w \notin overtaken => q.id \notin Existing
  /\ q.pc = "answer" /\ q.op = "create_experiment" =>
       q.id \in Existing /\ (docs[q.id].data = q.number \/ q.id \in raced)

\* A copy belongs to the experiment it was read from, and is still the document,
\* which the request may still change, unless it was overtaken.
CopyOK(w, q) ==
  q.pc = "write" =>
    /\ q.copy.data = docs[q.id].data \/ q.id \in raced
    /\ w \notin overtaken => q.copy = docs[q.id] /\ ~ Refused(q, docs[q.id])

FreshOK ==
  /\ HistoryOK
  /\ \A w \in Workers : CreatorOK(w, workers[w]) /\ CopyOK(w, workers[w])
  /\ AcknowledgedStay
-----------------------------------------------------------------------------
(* Largest numbers and counting *)

\* A non-empty set of numbers below a bound has a largest one, and Max is it.
LEMMA MaxIsLargest ==
  ASSUME NEW N \in Nat, NEW S \in SUBSET (0 .. N), S # {}
  PROVE  Max(S) \in S /\ \A i \in S : i <= Max(S)
<1> DEFINE T == {N - i : i \in S}
<1>1. T \subseteq Nat /\ T # {}
  <2>1. \A i \in S : N - i \in Nat
    OBVIOUS
  <2>2. PICK i \in S : TRUE
    OBVIOUS
  <2>3. N - i \in T
    OBVIOUS
  <2> QED BY <2>1, <2>3
<1>2. PICK m \in T : \A y \in T : <<y, m>> \notin OpToRel(<, Nat)
  BY <1>1, WFMin, NatLessThanWellFounded
<1>3. \A y \in T : ~ (y < m)
  BY <1>1, <1>2 DEF OpToRel
<1>4. PICK x \in S : m = N - x
  BY <1>2
<1>5. \A i \in S : x >= i
  BY <1>3, <1>4
<1> QED BY <1>4, <1>5 DEF Max

\* Different numbers for 0 .. m, none of them k: there are at least m + 2.
LEMMA Counted ==
  ASSUME NEW m \in Nat, NEW n \in Nat, NEW k \in 1 .. n,
         NEW f \in [0 .. m -> (1 .. n) \ {k}],
         \A i, j \in 0 .. m : f[i] = f[j] => i = j
  PROVE  m + 2 <= n
<1>1. IsFiniteSet(0 .. m) /\ Cardinality(0 .. m) = m + 1
  BY FS_Interval
<1>2. IsFiniteSet(1 .. n) /\ Cardinality(1 .. n) = n
  BY FS_Interval
<1>3. IsFiniteSet((1 .. n) \ {k}) /\ Cardinality((1 .. n) \ {k}) = n - 1
  BY <1>2, FS_RemoveElement
<1>4. ~ (n - 1 < m + 1)
  BY <1>1, <1>3, FS_PigeonHole, SMTT(30)
<1> QED BY <1>4

\* While the creation with number k is pending, the numbers in use leave room for it.
LEMMA RoomForOne ==
  ASSUME Types, NumbersOK, NEW i \in Existing, NEW k \in 1 .. count,
         \A c \in Claims : c[2] # k
  PROVE  i + 2 <= count
<1> DEFINE f == [j \in 0 .. i |-> docs[j].data]
<1>1. i \in Nat /\ count \in Nat /\ 0 .. i \subseteq Existing
  BY ExperimentsAssumption DEF Types, NumbersOK, Existing, Ids
<1>2. \A j \in 0 .. i : <<j, docs[j].data>> \in Claims
  BY <1>1 DEF Claims
<1>3. \A j \in 0 .. i : docs[j].data \in Requests
  BY <1>1 DEF Types, Existing, Experiment
<1>4. \A j \in 0 .. i : docs[j].data \in (1 .. count) \ {k}
  <2>1. \A j \in 0 .. i : docs[j].data <= count /\ docs[j].data # k
    BY <1>2 DEF NumbersOK
  <2> QED BY <1>1, <1>3, <2>1 DEF Requests
<1>5. \A j, l \in 0 .. i : docs[j].data = docs[l].data => j = l
  BY <1>2 DEF NumbersOK
<1>6. f \in [0 .. i -> (1 .. count) \ {k}]
  BY <1>4
<1>7. \A j, l \in 0 .. i : f[j] = f[l] => j = l
  BY <1>5
<1> HIDE DEF f
<1> QED BY <1>1, <1>6, <1>7, Counted

-----------------------------------------------------------------------------
(* Types *)

\* A step of one worker keeps the types, if what it leaves has them.
LEMMA TypesKept ==
  ASSUME Types, NEW w \in Workers, NEW q, WorkerOK(q),
         workers' = [workers EXCEPT ![w] = q],
         docs' \in [Ids -> Experiment \cup {NoDoc}],
         count' \in 0 .. MaxRequests, faults' \in 0 .. MaxFaults,
         acked' \in SUBSET (Ids \X Requests)
  PROVE  Types'
<1>1. q \in Worker
  BY DEF WorkerOK
<1>2. workers' \in [Workers -> Worker]
  BY <1>1 DEF Types
<1>3. \A v \in Workers : workers'[v] = IF v = w THEN q ELSE workers[v]
  BY DEF Types
<1>4. \A v \in Workers : WorkerOK(workers'[v])
  BY <1>3 DEF Types
<1> QED BY <1>2, <1>4 DEF Types

\* An idle worker has its type.
LEMMA IdleOK == WorkerOK(Idle)
BY ExperimentsAssumption DEF WorkerOK, Worker, Idle, Ops, EditOps, Creating, Ids

\* A worker that goes on keeps its type when its parts have theirs.
LEMMA NextOK ==
  ASSUME NEW q \in Worker,
         NEW pc \in Creating \cup {"idle", "read", "write", "answer"},
         NEW id \in Ids, NEW round \in {1, 2}, NEW ids \in SUBSET Ids,
         NEW taken \in BOOLEAN, NEW copy \in Experiment \cup {NoDoc}
  PROVE  [q EXCEPT !.pc = pc, !.id = id, !.round = round, !.ids = ids,
                   !.taken = taken, !.copy = copy] \in Worker
BY DEF Worker

\* What a request writes is an experiment; its data is the request's number if it
\* creates, and that of the copy otherwise.
LEMMA WrittenTypes ==
  ASSUME NEW q, WorkerOK(q), q.pc \in {"create", "write"}
  PROVE  /\ Written(q) \in Experiment
         /\ Written(q).data = IF q.pc = "create" THEN q.number ELSE q.copy.data
<1>1. CASE q.pc = "create"
  <2>1. q.op = "create_experiment" /\ q.name \in Names /\ q.number \in Requests
    BY <1>1 DEF WorkerOK, Creating
  <2>2. Written(q) = [name |-> q.name, life |-> "active", data |-> q.number]
    BY <2>1 DEF Written
  <2> QED BY <1>1, <2>1, <2>2 DEF Experiment, Life
<1>2. CASE q.pc = "write"
  <2>1. q.op \in EditOps /\ q.copy \in Experiment
    BY <1>2 DEF WorkerOK
  <2>2. CASE q.op = "rename_experiment"
    <3>1. Written(q) = [q.copy EXCEPT !.name = q.name] /\ q.name \in Names
      BY <2>2 DEF Written, WorkerOK
    <3> QED BY <1>2, <2>1, <3>1 DEF Experiment
  <2>3. CASE q.op = "delete_experiment"
    <3>1. Written(q) = [q.copy EXCEPT !.life = "deleted"]
      BY <2>3 DEF Written
    <3> QED BY <1>2, <2>1, <3>1 DEF Experiment, Life
  <2>4. CASE q.op = "restore_experiment"
    <3>1. Written(q) = [q.copy EXCEPT !.life = "active"]
      BY <2>4 DEF Written
    <3> QED BY <1>2, <2>1, <3>1 DEF Experiment, Life
  <2> QED BY <2>1, <2>2, <2>3, <2>4 DEF EditOps
<1> QED BY <1>1, <1>2
-----------------------------------------------------------------------------
(* Numbers *)

\* The second part of a claim is the number of a request.
LEMMA ClaimsTypes ==
  ASSUME Types, NEW c \in Claims
  PROVE  c[2] \in Requests
<1>1. CASE \E i \in Existing : c = <<i, docs[i].data>>
  BY <1>1 DEF Types, Existing, Experiment
<1>2. CASE \E w \in Workers : workers[w].pc = "write" /\ c = <<workers[w].id, workers[w].copy.data>>
  BY <1>2 DEF Types, WorkerOK, Experiment
<1> QED BY <1>1, <1>2 DEF Claims

\* A step that writes no document keeps the numbers right, if the worker knows no
\* other experiments than there are, and is new or keeps its number.
LEMMA NumbersKept ==
  ASSUME Types, NumbersOK, NEW w \in Workers, NEW q \in Worker,
         workers' = [workers EXCEPT ![w] = q], docs' = docs,
         count' \in Nat, count <= count', Knows(q, Existing', count'),
         q.pc = "write" => <<q.id, q.copy.data>> \in Claims,
         q.pc \in Creating => \A c \in Claims : c[2] # q.number,
         q.pc # "idle" => \A v \in Workers \ {w} : workers[v].number # q.number,
         \A v \in Workers \ {w} : workers[v].pc # "idle" => workers[v].number # q.number
  PROVE  NumbersOK'
<1>1. \A v \in Workers : workers'[v] = IF v = w THEN q ELSE workers[v]
  BY DEF Types
<1>2. Existing' = Existing
  BY DEF Existing
<1>3. Claims' \subseteq Claims
  BY <1>1, <1>2 DEF Claims
<1>4. \A v \in Workers : Knows(workers'[v], Existing', count')
  <2> SUFFICES ASSUME NEW v \in Workers PROVE Knows(workers'[v], Existing', count')
    OBVIOUS
  <2>1. CASE v = w
    BY <1>1, <2>1 DEF Knows
  <2>2. CASE v # w
    <3>1. workers'[v] = workers[v] /\ Knows(workers[v], Existing, count)
      BY <1>1, <2>2 DEF NumbersOK
    <3>2. workers[v].number \in Int /\ count \in Int
      BY ExperimentsAssumption DEF Types, Worker
    <3> QED BY <1>2, <3>1, <3>2 DEF Knows
  <2> QED BY <2>1, <2>2
<1>5. \A i \in Existing' : 0 .. i \subseteq Existing'
  BY <1>2 DEF NumbersOK
<1>6. \A c \in Claims' : c[2] <= count'
  <2> SUFFICES ASSUME NEW c \in Claims PROVE c[2] <= count'
    BY <1>3
  <2>1. c[2] \in Int /\ count \in Int
    BY ClaimsTypes, ExperimentsAssumption DEF Types, Requests
  <2> QED BY <2>1 DEF NumbersOK
<1>7. \A c, d \in Claims' : c[2] = d[2] => c[1] = d[1]
  BY <1>3 DEF NumbersOK
<1>8. \A v \in Workers : workers'[v].pc \in Creating =>
        \A c \in Claims' : c[2] # workers'[v].number
  BY <1>1, <1>3 DEF NumbersOK
<1>9. \A u, v \in Workers :
        workers'[u].pc # "idle" /\ workers'[u].number = workers'[v].number => u = v
  <2> SUFFICES ASSUME NEW u \in Workers, NEW v \in Workers, workers'[u].pc # "idle",
                      workers'[u].number = workers'[v].number, u # v
               PROVE  FALSE
    OBVIOUS
  <2>1. CASE u = w
    BY <1>1, <2>1
  <2>2. CASE v = w
    BY <1>1, <2>2
  <2>3. CASE u # w /\ v # w
    BY <1>1, <2>3 DEF NumbersOK
  <2> QED BY <2>1, <2>2, <2>3
<1> QED BY <1>4, <1>5, <1>6, <1>7, <1>8, <1>9 DEF NumbersOK

\* A document that is written has the next number or one in use, and belongs to
\* the creation that writes it or to the copy it was read from.
LEMMA StoreNumbers ==
  ASSUME Types, NumbersOK, NEW w \in Workers, workers[w].pc \in {"create", "write"},
         Store(workers[w]), NEW q \in Worker, q.pc \in {"idle", "answer"},
         workers' = [workers EXCEPT ![w] = q], count' = count, Knows(q, Existing', count'),
         (q.number = 0 /\ q.pc = "idle") \/ q.number = workers[w].number
  PROVE  NumbersOK'
<1> DEFINE p == workers[w]
           e == Written(p)
<1>1. WorkerOK(p) /\ p \in Worker /\ p.id \in Ids /\ p.number \in Requests
  BY DEF Types, WorkerOK, Worker
<1>2. e \in Experiment /\ e.data = IF p.pc = "create" THEN p.number ELSE p.copy.data
  BY <1>1, WrittenTypes
<1>3. \A v \in Workers : workers'[v] = IF v = w THEN q ELSE workers[v]
  BY DEF Types
<1>4. /\ docs' \in [Ids -> Experiment \cup {NoDoc}]
      /\ \A i \in Ids : docs'[i] = IF i = p.id THEN e ELSE docs[i]
  BY <1>1, <1>2 DEF Types, Store
<1> HIDE DEF e
<1>5. Existing' = Existing \cup {p.id}
  BY <1>1, <1>2, <1>4, ExperimentsAssumption DEF Existing
<1>6. Claims' \subseteq Claims \cup {<<p.id, e.data>>}
  <2> SUFFICES ASSUME NEW c \in Claims' PROVE c \in Claims \/ c = <<p.id, e.data>>
    OBVIOUS
  <2>1. CASE \E i \in Existing' : c = <<i, docs'[i].data>>
    <3>1. PICK i \in Existing' : c = <<i, docs'[i].data>>
      BY <2>1
    <3>2. CASE i = p.id
      BY <1>1, <1>4, <3>1, <3>2
    <3>3. CASE i # p.id
      <4>1. i \in Existing /\ docs'[i] = docs[i]
        BY <1>4, <1>5, <3>3 DEF Existing
      <4> QED BY <3>1, <4>1 DEF Claims
    <3> QED BY <3>2, <3>3
  <2>2. CASE \E v \in Workers : workers'[v].pc = "write" /\ c = <<workers'[v].id, workers'[v].copy.data>>
    BY <1>3, <2>2 DEF Claims
  <2> QED BY <2>1, <2>2 DEF Claims
<1>7. e.data = p.number \/ <<p.id, e.data>> \in Claims
  BY <1>2 DEF Claims
<1>8. \/ p.pc = "create" /\ e.data = p.number /\ \A c \in Claims : c[2] # p.number
      \/ <<p.id, e.data>> \in Claims
  BY <1>2 DEF Claims, NumbersOK, Creating
<1>9. \A v \in Workers : Knows(workers'[v], Existing', count')
  BY <1>3, <1>5 DEF Knows, NumbersOK
<1>10. \A i \in Existing' : 0 .. i \subseteq Existing'
  <2>1. 0 .. p.id \subseteq Existing \cup {p.id}
    <3>1. CASE p.id \in Existing
      BY <3>1 DEF NumbersOK
    <3>2. CASE p.id \notin Existing
      <4>1. p.id = 0 \/ p.id - 1 \in Existing
        BY <3>2 DEF NumbersOK, Knows
      <4>2. p.id = 0 \/ 0 .. (p.id - 1) \subseteq Existing
        BY <4>1 DEF NumbersOK
      <4>3. p.id \in Nat
        BY <1>1, ExperimentsAssumption DEF Ids
      <4> QED BY <4>2, <4>3
    <3> QED BY <3>1, <3>2
  <2> QED BY <1>5, <2>1 DEF NumbersOK
<1>11. \A c \in Claims' : c[2] <= count'
  <2>1. p.number <= count
    BY DEF NumbersOK, Knows
  <2> QED BY <1>6, <1>8, <2>1 DEF NumbersOK
<1>12. \A c, d \in Claims' : c[2] = d[2] => c[1] = d[1]
  BY <1>6, <1>8 DEF NumbersOK
<1>13. \A v \in Workers : workers'[v].pc \in Creating =>
        \A c \in Claims' : c[2] # workers'[v].number
  <2> SUFFICES ASSUME NEW v \in Workers, v # w, workers[v].pc \in Creating,
                      NEW c \in Claims'
               PROVE  c[2] # workers[v].number
    BY <1>3 DEF Creating
  <2>1. CASE c \in Claims
    BY <2>1 DEF NumbersOK
  <2>2. CASE c \notin Claims
    <3>1. c = <<p.id, e.data>> /\ p.pc = "create" /\ e.data = p.number
      BY <1>6, <1>8, <2>2
    <3>2. p.number # workers[v].number
      BY <3>1 DEF NumbersOK
    <3> QED BY <3>1, <3>2
  <2> QED BY <2>1, <2>2
<1>14. \A u, v \in Workers :
        workers'[u].pc # "idle" /\ workers'[u].number = workers'[v].number => u = v
  <2> SUFFICES ASSUME NEW u \in Workers, NEW v \in Workers, workers'[u].pc # "idle",
                      workers'[u].number = workers'[v].number, u # v
               PROVE  FALSE
    OBVIOUS
  <2>1. \A x \in Workers : workers[x].pc # "idle" => workers[x].number # 0
    BY DEF Types, WorkerOK, Requests
  <2>2. CASE q.number = p.number
    BY <1>3, <2>2 DEF NumbersOK
  <2>3. CASE q.number = 0 /\ q.pc = "idle"
    BY <1>3, <2>1, <2>3 DEF NumbersOK
  <2> QED BY <2>2, <2>3
<1> QED BY <1>9, <1>10, <1>11, <1>12, <1>13, <1>14 DEF NumbersOK
-----------------------------------------------------------------------------
(* One lemma per action: it keeps the invariant *)

\* A step that writes no document, of a worker that goes on with the same request.
LEMMA StepKeeps ==
  ASSUME IInv, NEW w \in Workers, workers[w].pc # "idle", NEW q, WorkerOK(q),
         workers' = [workers EXCEPT ![w] = q], docs' = docs, count' = count,
         faults' \in 0 .. MaxFaults, acked' \in SUBSET (Ids \X Requests),
         q.number = workers[w].number, q.ids \subseteq Existing,
         q.pc \in {"read", "write"} => q.id \in Existing,
         q.pc = "create" => q.id = 0 \/ q.id - 1 \in Existing,
         q.pc = "write" => <<q.id, q.copy.data>> \in Claims,
         q.pc \in Creating => workers[w].pc \in Creating
  PROVE  IInv'
<1>1. Types /\ NumbersOK /\ WorkerOK(workers[w]) /\ q \in Worker
  BY DEF IInv, Types, WorkerOK
<1>2. count \in Nat /\ count' \in 0 .. MaxRequests /\ count' \in Nat /\ count <= count'
  BY ExperimentsAssumption DEF IInv, Types
<1>3. Types'
  BY <1>1, <1>2, TypesKept DEF Types
<1>4. Existing' = Existing
  BY DEF Existing
<1>5. Knows(q, Existing', count')
  BY <1>1, <1>4 DEF Knows, NumbersOK
<1>6. q.pc \in Creating => \A c \in Claims : c[2] # q.number
  BY <1>1 DEF NumbersOK
<1>7. \A v \in Workers \ {w} : workers[v].number # q.number
  BY <1>1 DEF NumbersOK
<1>8. NumbersOK'
  BY <1>1, <1>2, <1>5, <1>6, <1>7, NumbersKept
<1> QED BY <1>3, <1>8 DEF IInv

\* A request ends: the worker is idle again.
LEMMA IdleKeeps ==
  ASSUME IInv, NEW w \in Workers, workers' = [workers EXCEPT ![w] = Idle],
         docs' = docs, count' = count,
         faults' \in 0 .. MaxFaults, acked' \in SUBSET (Ids \X Requests)
  PROVE  IInv'
<1>1. Types /\ NumbersOK /\ WorkerOK(Idle) /\ Idle \in Worker
  BY IdleOK DEF IInv, WorkerOK
<1>2. count \in Nat /\ count' \in 0 .. MaxRequests /\ count' \in Nat /\ count <= count'
  BY ExperimentsAssumption DEF IInv, Types
<1>3. Types'
  BY <1>1, <1>2, TypesKept DEF Types
<1>4. Idle.pc = "idle" /\ Idle.number = 0 /\ Idle.ids = {}
  BY DEF Idle
<1>5. Knows(Idle, Existing', count')
  BY <1>2, <1>4 DEF Knows
<1>6. \A v \in Workers \ {w} : workers[v].pc # "idle" => workers[v].number # 0
  BY <1>1 DEF Types, WorkerOK, Requests
<1>7. NumbersOK'
  BY <1>1, <1>2, <1>4, <1>5, <1>6, NumbersKept DEF Creating
<1> QED BY <1>3, <1>7 DEF IInv

\* The store before the first request.
LEMMA InitKeeps ==
  ASSUME Init PROVE IInv
<1>1. Types
  BY IdleOK, ExperimentsAssumption DEF Init, Types, WorkerOK
<1>2. Existing = {}
  BY DEF Init, Existing
<1>3. \A w \in Workers : workers[w] = Idle
  BY DEF Init
<1>4. Idle.pc = "idle" /\ Idle.number = 0 /\ Idle.ids = {}
  BY DEF Idle
<1>5. Claims = {}
  BY <1>2, <1>3, <1>4 DEF Claims
<1>6. \A w \in Workers : Knows(workers[w], Existing, count)
  BY <1>3, <1>4 DEF Knows, Init
<1>7. NumbersOK
  BY <1>2, <1>3, <1>4, <1>5, <1>6 DEF NumbersOK, Creating
<1> QED BY <1>1, <1>7 DEF IInv

\* A request takes the next number.
LEMMA ReceiveKeeps ==
  ASSUME IInv, NEW w \in Workers, NEW op, NEW pc, NEW id, NEW name,
         Receive(w, op, pc, id, name),
         \/ op = "create_experiment" /\ pc = "first" /\ id = 0 /\ name \in Names
         \/ op = "rename_experiment" /\ pc = "read" /\ id \in Existing /\ name \in Names
         \/ op \in Ops \ {"create_experiment", "rename_experiment"}
            /\ pc = "read" /\ id \in Existing /\ name = NoDoc
  PROVE  IInv'
<1>0. PICK q : q = [Idle EXCEPT !.op = op, !.pc = pc, !.number = count + 1, !.id = id, !.name = name]
  OBVIOUS
<1>1. Types /\ NumbersOK
  BY DEF IInv
<1>2. /\ workers' = [workers EXCEPT ![w] = q] /\ docs' = docs /\ count' = count + 1
      /\ faults' = faults /\ acked' = acked /\ count < MaxRequests
  BY <1>0 DEF Receive
<1>3. /\ count \in Nat /\ count + 1 \in Requests /\ count' \in 0 .. MaxRequests
      /\ count' \in Nat /\ count <= count'
  BY <1>1, <1>2, ExperimentsAssumption DEF Types, Requests
<1>4. id \in Ids
  BY ExperimentsAssumption DEF Ids, Existing
<1>5. /\ q.op = op /\ q.pc = pc /\ q.number = count + 1 /\ q.id = id /\ q.name = name
      /\ q.round = 1 /\ q.ids = {} /\ q.copy = NoDoc
  BY <1>0 DEF Idle
<1>6. q \in Worker
  <2>1. op \in Ops /\ pc \in Creating \cup {"read"} /\ name \in Names \cup {NoDoc}
    BY DEF Ops, EditOps, Creating
  <2>2. count + 1 \in 0 .. MaxRequests /\ {} \in SUBSET Ids
    BY <1>3 DEF Requests
  <2> QED BY <1>0, <1>4, <2>1, <2>2 DEF Idle, Worker
<1>7. WorkerOK(q)
  BY <1>3, <1>5, <1>6 DEF WorkerOK, Creating, Ops, EditOps
<1>8. Types'
  BY <1>1, <1>2, <1>3, <1>7, TypesKept DEF Types
<1>9. Existing' = Existing
  BY <1>2 DEF Existing
<1>10. Knows(q, Existing', count')
  BY <1>2, <1>3, <1>5, <1>9 DEF Knows
<1>11. \A c \in Claims : c[2] # q.number
  BY <1>1, <1>3, <1>5, ClaimsTypes DEF NumbersOK, Requests
<1>12. \A v \in Workers : workers[v].number # q.number
  <2>1. \A v \in Workers : workers[v].number <= count /\ workers[v].number \in 0 .. MaxRequests
    BY <1>1 DEF NumbersOK, Knows, Types, Worker
  <2> QED BY <1>3, <1>5, <2>1
<1>13. NumbersOK'
  BY <1>1, <1>2, <1>3, <1>5, <1>6, <1>10, <1>11, <1>12, NumbersKept
<1> QED BY <1>8, <1>13 DEF IInv

\* A worker receives a request.
LEMMA RequestKeeps ==
  ASSUME IInv, NEW w \in Workers, Request(w) PROVE IInv'
<1>1. CASE \E n \in Names : Receive(w, "create_experiment", "first", 0, n)
  BY <1>1, ReceiveKeeps
<1>2. CASE \E i \in Existing, n \in Names : Receive(w, "rename_experiment", "read", i, n)
  BY <1>2, ReceiveKeeps
<1>3. CASE \E i \in Existing, op \in {"delete_experiment", "restore_experiment", "set_experiment_tag"} :
             Receive(w, op, "read", i, NoDoc)
  BY <1>3, ReceiveKeeps DEF Ops, EditOps
<1> QED BY <1>1, <1>2, <1>3 DEF Request

\* The experiments listed exist.
LEMMA ListedExist == \A life : Listed(life) \subseteq Existing
BY DEF Listed

\* The first list of the experiments, for the next number.
LEMMA ListFirstKeeps ==
  ASSUME IInv, NEW w \in Workers, ListFirst(w) PROVE IInv'
<1> DEFINE p == workers[w]
           q == [p EXCEPT !.pc = "second", !.ids = Listed(ListOrder[1])]
<1>1. WorkerOK(p) /\ p \in Worker /\ p.pc = "first"
  BY DEF IInv, Types, WorkerOK, ListFirst
<1>2. /\ workers' = [workers EXCEPT ![w] = q] /\ docs' = docs /\ count' = count
      /\ faults' = faults /\ acked' = acked
  BY DEF ListFirst, Step
<1>3. Listed(ListOrder[1]) \subseteq Existing /\ Existing \subseteq Ids
  BY ListedExist DEF Existing
<1>4. q \in Worker /\ q.pc = "second" /\ q.op = p.op /\ q.number = p.number
      /\ q.name = p.name /\ q.copy = p.copy /\ q.ids \subseteq Existing
  BY <1>1, <1>3 DEF Worker, Creating
<1> HIDE DEF q
<1>5. WorkerOK(q)
  BY <1>1, <1>4 DEF WorkerOK, Creating
<1> QED BY <1>1, <1>2, <1>4, <1>5, StepKeeps DEF IInv, Types, Creating

\* The number that a creation takes is in range, and follows one that is in use.
LEMMA NextIdOK ==
  ASSUME IInv, NEW w \in Workers, workers[w].pc \in Creating,
         NEW ids \in SUBSET Existing
  PROVE  /\ NextId(ids) \in Ids
         /\ NextId(ids) = 0 \/ NextId(ids) - 1 \in Existing
         /\ \A i \in ids : i < NextId(ids)
<1>1. count \in 0 .. MaxRequests /\ workers[w].number \in 1 .. count
  <2>1. workers[w].number \in Requests
    BY DEF IInv, Types, WorkerOK, Creating
  <2>2. workers[w].number <= count
    BY DEF IInv, NumbersOK, Knows
  <2> QED BY <2>1, <2>2, ExperimentsAssumption DEF Requests, IInv, Types
<1>2. CASE ids = {}
  BY <1>2, ExperimentsAssumption DEF NextId, Ids
<1>3. CASE ids # {}
  <2>1. ids \in SUBSET (0 .. MaxRequests)
    BY DEF Existing, Ids
  <2>2. Max(ids) \in ids /\ \A i \in ids : i <= Max(ids)
    BY <1>3, <2>1, MaxIsLargest, ExperimentsAssumption
  <2>3. NextId(ids) = Max(ids) + 1
    BY <1>3 DEF NextId
  <2>4. \A c \in Claims : c[2] # workers[w].number
    BY DEF IInv, NumbersOK
  <2>5. Max(ids) + 2 <= count
    BY <1>1, <2>2, <2>4, RoomForOne DEF IInv
  <2>6. Max(ids) \in Nat
    <3>1. \A i \in ids : i \in Nat
      BY <2>1, ExperimentsAssumption
    <3> QED BY <2>2, <3>1
  <2> QED BY <1>1, <2>1, <2>2, <2>3, <2>5, <2>6, ExperimentsAssumption DEF Ids
<1> QED BY <1>2, <1>3

\* The second list, which the number comes from.
LEMMA ListSecondKeeps ==
  ASSUME IInv, NEW w \in Workers, ListSecond(w) PROVE IInv'
<1> DEFINE p == workers[w]
           ids == p.ids \cup Listed(ListOrder[2])
           q1 == [p EXCEPT !.pc = "names", !.ids = ids]
           q2 == [p EXCEPT !.pc = "create", !.ids = {}, !.id = NextId(ids)]
<1>1. WorkerOK(p) /\ p \in Worker /\ p.pc = "second" /\ p.ids \subseteq Existing
  BY DEF IInv, Types, WorkerOK, ListSecond, NumbersOK, Knows
<1>2. ids \in SUBSET Existing /\ Existing \subseteq Ids
  BY <1>1, ListedExist DEF Existing
<1> HIDE DEF ids
<1>3. CASE workers' = [workers EXCEPT ![w] = q1] /\ UNCHANGED <<docs, count, faults, acked>>
  <2>1. q1 \in Worker /\ q1.pc = "names" /\ q1.op = p.op /\ q1.number = p.number
        /\ q1.name = p.name /\ q1.copy = p.copy /\ q1.ids \subseteq Existing
    BY <1>1, <1>2 DEF Worker, Creating
  <2> HIDE DEF q1
  <2>2. WorkerOK(q1)
    BY <1>1, <2>1 DEF WorkerOK, Creating
  <2> QED BY <1>1, <1>3, <2>1, <2>2, StepKeeps DEF IInv, Types, Creating
<1>4. CASE workers' = [workers EXCEPT ![w] = q2] /\ UNCHANGED <<docs, count, faults, acked>>
  <2>1. NextId(ids) \in Ids /\ (NextId(ids) = 0 \/ NextId(ids) - 1 \in Existing)
    BY <1>1, <1>2, NextIdOK DEF Creating
  <2>2. q2 \in Worker /\ q2.pc = "create" /\ q2.op = p.op /\ q2.number = p.number
        /\ q2.name = p.name /\ q2.copy = p.copy /\ q2.ids = {} /\ q2.id = NextId(ids)
    BY <1>1, <2>1 DEF Worker, Creating
  <2> HIDE DEF q2
  <2>3. WorkerOK(q2)
    BY <1>1, <2>2 DEF WorkerOK, Creating
  <2> QED BY <1>1, <1>4, <2>1, <2>2, <2>3, StepKeeps DEF IInv, Types, Creating
<1> QED BY <1>3, <1>4 DEF ListSecond, Step, ids
\* One document of the list is read, for its name.
LEMMA ReadNameKeeps ==
  ASSUME IInv, NEW w \in Workers, ReadName(w) PROVE IInv'
<1> DEFINE p == workers[w]
<1>1. PICK i \in p.ids :
        Step(w, [p EXCEPT !.ids = p.ids \ {i}, !.taken = p.taken \/ docs[i].name = p.name])
  BY DEF ReadName
<1>2. PICK q : q = [p EXCEPT !.ids = p.ids \ {i}, !.taken = p.taken \/ docs[i].name = p.name]
  OBVIOUS
<1>3. WorkerOK(p) /\ p \in Worker /\ p.pc = "names" /\ p.ids \subseteq Existing
  BY DEF IInv, Types, WorkerOK, ReadName, NumbersOK, Knows
<1>4. /\ workers' = [workers EXCEPT ![w] = q] /\ docs' = docs /\ count' = count
      /\ faults' = faults /\ acked' = acked
  BY <1>1, <1>2 DEF Step
<1>5. (p.taken \/ docs[i].name = p.name) \in BOOLEAN
  BY Zenon
<1>6. q \in Worker /\ q.pc = "names" /\ q.op = p.op /\ q.number = p.number
      /\ q.name = p.name /\ q.copy = p.copy /\ q.ids \subseteq Existing
  <2>1. p.ids \ {i} \in SUBSET Ids
    BY <1>3 DEF Worker
  <2>2. PICK b \in BOOLEAN : b = (p.taken \/ docs[i].name = p.name)
    BY <1>5, Zenon
  <2>3. q = [p EXCEPT !.ids = p.ids \ {i}, !.taken = b]
    BY <1>2, <2>2, Zenon
  <2> QED BY <1>3, <2>1, <2>3 DEF Worker
<1>7. WorkerOK(q)
  BY <1>3, <1>6 DEF WorkerOK, Creating
<1> QED BY <1>3, <1>4, <1>6, <1>7, StepKeeps DEF IInv, Types, Creating

\* All names are read: the experiment is refused or created under its number.
LEMMA NameCheckedKeeps ==
  ASSUME IInv, NEW w \in Workers, NameChecked(w) PROVE IInv'
<1> DEFINE p == workers[w]
<1>1. WorkerOK(p) /\ p \in Worker /\ p.pc = "names" /\ p.ids \subseteq Existing
  BY DEF IInv, Types, WorkerOK, NameChecked, NumbersOK, Knows
<1>2. CASE p.taken
  <2>1. /\ workers' = [workers EXCEPT ![w] = Idle] /\ docs' = docs /\ count' = count
        /\ faults' = faults /\ acked' = acked
    BY <1>2 DEF NameChecked, Step
  <2> QED BY <2>1, IdleKeeps DEF IInv, Types
<1>3. CASE ~ p.taken
  <2>1. PICK q : q = [p EXCEPT !.pc = "first", !.round = 2]
    OBVIOUS
  <2>2. /\ workers' = [workers EXCEPT ![w] = q] /\ docs' = docs /\ count' = count
        /\ faults' = faults /\ acked' = acked
    BY <1>3, <2>1 DEF NameChecked, Step
  <2>3. q \in Worker /\ q.pc = "first" /\ q.op = p.op /\ q.number = p.number
        /\ q.name = p.name /\ q.copy = p.copy /\ q.ids \subseteq Existing
    BY <1>1, <2>1 DEF Worker, Creating
  <2>4. WorkerOK(q)
    BY <1>1, <2>3 DEF WorkerOK, Creating
  <2> QED BY <1>1, <2>2, <2>3, <2>4, StepKeeps DEF IInv, Types, Creating
<1> QED BY <1>2, <1>3

\* Read refuses the request, or leaves the worker with the document it has read.
LEMMA ReadStep ==
  ASSUME IInv, NEW w \in Workers, Read(w)
  PROVE  /\ docs' = docs /\ count' = count /\ faults' = faults /\ acked' = acked
         /\ workers[w].pc = "read" /\ workers[w].id \in Existing
         /\ \/ workers' = [workers EXCEPT ![w] = Idle]
            \/ /\ ~ Refused(workers[w], docs[workers[w].id])
               /\ workers[w].op \in EditOps
               /\ workers' = [workers EXCEPT ![w] =
                                [workers[w] EXCEPT !.pc = "write", !.copy = docs[workers[w].id]]]
<1> DEFINE p == workers[w]
<1>1. WorkerOK(p) /\ p.pc = "read" /\ p.id \in Existing
  BY DEF IInv, Types, Read, NumbersOK, Knows
<1>2. /\ docs' = docs /\ count' = count /\ faults' = faults /\ acked' = acked
  BY DEF Read, Step
<1>3. CASE Refused(p, docs[p.id])
  BY <1>1, <1>2, <1>3 DEF Read, Step
<1>4. CASE ~ Refused(p, docs[p.id])
  <2>1. p.op \in EditOps
    BY <1>1, <1>4 DEF Refused, WorkerOK, Ops
  <2> QED BY <1>1, <1>2, <1>4, <2>1 DEF Read, Step
<1> QED BY <1>3, <1>4

\* A request reads the document it changes.
LEMMA ReadKeeps ==
  ASSUME IInv, NEW w \in Workers, Read(w) PROVE IInv'
<1> DEFINE p == workers[w]
<1>1. /\ docs' = docs /\ count' = count /\ faults' = faults /\ acked' = acked
      /\ p.pc = "read" /\ p.id \in Existing
  BY ReadStep
<1>2. CASE workers' = [workers EXCEPT ![w] = Idle]
  BY <1>1, <1>2, IdleKeeps DEF IInv, Types
<1>3. CASE p.op \in EditOps
           /\ workers' = [workers EXCEPT ![w] = [p EXCEPT !.pc = "write", !.copy = docs[p.id]]]
  <2>1. WorkerOK(p) /\ p \in Worker /\ p.ids \subseteq Existing
    BY DEF IInv, Types, WorkerOK, NumbersOK, Knows
  <2>2. docs[p.id] \in Experiment
    BY <1>1 DEF IInv, Types, Existing
  <2>3. PICK q : q = [p EXCEPT !.pc = "write", !.copy = docs[p.id]]
    OBVIOUS
  <2>4. q \in Worker /\ q.pc = "write" /\ q.op = p.op /\ q.number = p.number
        /\ q.name = p.name /\ q.copy = docs[p.id] /\ q.id = p.id /\ q.ids \subseteq Existing
    BY <2>1, <2>2, <2>3 DEF Worker
  <2>5. WorkerOK(q)
    BY <1>1, <1>3, <2>1, <2>2, <2>4 DEF WorkerOK, Creating
  <2>6. <<q.id, q.copy.data>> \in Claims
    BY <1>1, <2>4 DEF Claims
  <2> QED BY <1>1, <1>3, <2>3, <2>4, <2>5, <2>6, StepKeeps DEF IInv, Types, Creating
<1> QED BY <1>2, <1>3, ReadStep

\* A document is written, whether its writer is told so or not.
LEMMA StoreKeeps ==
  ASSUME IInv, NEW w \in Workers, workers[w].pc \in {"create", "write"},
         Store(workers[w]), NEW q, WorkerOK(q),
         q = Idle \/ q = [workers[w] EXCEPT !.pc = "answer", !.copy = NoDoc],
         workers' = [workers EXCEPT ![w] = q], count' = count,
         faults' \in 0 .. MaxFaults, acked' = acked
  PROVE  IInv'
<1> DEFINE p == workers[w]
<1>1. WorkerOK(p) /\ p \in Worker /\ q \in Worker /\ p.number <= count /\ p.ids \subseteq Existing
  BY DEF IInv, Types, WorkerOK, NumbersOK, Knows
<1>2. Written(p) \in Experiment /\ p.id \in Ids
  BY <1>1, WrittenTypes DEF Worker
<1>3. docs' \in [Ids -> Experiment \cup {NoDoc}] /\ Existing \subseteq Existing'
  BY <1>2, ExperimentsAssumption DEF IInv, Types, Store, Existing
<1>4. count' \in 0 .. MaxRequests /\ count' \in Nat /\ acked' \in SUBSET (Ids \X Requests)
  BY ExperimentsAssumption DEF IInv, Types
<1>5. Types'
  BY <1>3, <1>4, TypesKept DEF IInv
<1>6. /\ q.pc \in {"idle", "answer"} /\ ((q.number = 0 /\ q.pc = "idle") \/ q.number = p.number)
      /\ (q.ids = {} \/ q.ids = p.ids)
  <2>1. CASE q = Idle
    BY <2>1 DEF Idle
  <2>2. CASE q = [p EXCEPT !.pc = "answer", !.copy = NoDoc]
    BY <1>1, <2>2 DEF Worker
  <2> QED BY <2>1, <2>2
<1>7. Knows(q, Existing', count')
  BY <1>1, <1>3, <1>4, <1>6 DEF Knows
<1>8. NumbersOK'
  BY <1>1, <1>6, <1>7, StoreNumbers DEF IInv
<1> QED BY <1>5, <1>8 DEF IInv

\* The worker that has written is ready to answer.
LEMMA AnswerOK ==
  ASSUME NEW p, WorkerOK(p), p.pc \in {"create", "write"}
  PROVE  WorkerOK([p EXCEPT !.pc = "answer", !.copy = NoDoc])
<1>1. PICK q : q = [p EXCEPT !.pc = "answer", !.copy = NoDoc]
  OBVIOUS
<1>2. p \in Worker /\ p.number \in Requests
  BY DEF WorkerOK
<1>3. q \in Worker /\ q.pc = "answer" /\ q.copy = NoDoc /\ q.number = p.number
      /\ q.op = p.op /\ q.name = p.name
  BY <1>1, <1>2 DEF Worker
<1>4. WorkerOK(q)
  BY <1>2, <1>3 DEF WorkerOK, Creating
<1> QED BY <1>1, <1>4

\* A document is written: only a created one can be new, with the next number.
LEMMA WriteKeeps ==
  ASSUME IInv, NEW w \in Workers, Write(w) PROVE IInv'
<1>1. PICK q : q = [workers[w] EXCEPT !.pc = "answer", !.copy = NoDoc]
  OBVIOUS
<1>2. /\ workers[w].pc \in {"create", "write"} /\ Store(workers[w])
      /\ workers' = [workers EXCEPT ![w] = q] /\ count' = count
      /\ faults' = faults /\ acked' = acked
  BY <1>1 DEF Write
<1>3. WorkerOK(q) /\ faults' \in 0 .. MaxFaults
  BY <1>1, <1>2, AnswerOK DEF IInv, Types
<1> QED BY <1>1, <1>2, <1>3, StoreKeeps

\* A call fails before or after the store has done it.
LEMMA FailKeeps ==
  ASSUME IInv, NEW w \in Workers, Fail(w) PROVE IInv'
<1>1. /\ workers' = [workers EXCEPT ![w] = Idle] /\ count' = count /\ acked' = acked
      /\ (docs' = docs \/ (workers[w].pc \in {"create", "write"} /\ Store(workers[w])))
  BY DEF Fail
<1>2. faults' \in 0 .. MaxFaults /\ acked' \in SUBSET (Ids \X Requests)
  BY ExperimentsAssumption DEF Fail, IInv, Types
<1>3. CASE docs' = docs
  BY <1>1, <1>2, <1>3, IdleKeeps
<1>4. CASE workers[w].pc \in {"create", "write"} /\ Store(workers[w])
  <2>1. PICK q : q = Idle
    OBVIOUS
  <2> QED BY <1>1, <1>2, <1>4, <2>1, IdleOK, StoreKeeps
<1> QED BY <1>1, <1>3, <1>4

\* The answer is sent.
LEMMA RespondKeeps ==
  ASSUME IInv, NEW w \in Workers, Respond(w) PROVE IInv'
<1>1. /\ workers' = [workers EXCEPT ![w] = Idle] /\ docs' = docs /\ count' = count
      /\ faults' = faults
      /\ (acked' = acked \/ acked' = acked \cup {<<workers[w].id, workers[w].number>>})
  BY DEF Respond
<1>2. workers[w].id \in Ids /\ workers[w].number \in Requests
  BY DEF IInv, Types, WorkerOK, Worker, Respond
<1>3. acked' \in SUBSET (Ids \X Requests) /\ faults' \in 0 .. MaxFaults
  BY <1>1, <1>2 DEF IInv, Types
<1> QED BY <1>1, <1>3, IdleKeeps

\* Every step keeps the invariant.
LEMMA Inductive ==
  ASSUME IInv, [Next]_vars PROVE IInv'
<1>1. CASE Next
  <2>1. PICK w \in Workers : Request(w) \/ Serve(w)
    BY <1>1 DEF Next
  <2>2. CASE Request(w)
    BY <2>2, RequestKeeps
  <2>3. CASE Serve(w)
    BY <2>3, ListFirstKeeps, ListSecondKeeps, ReadNameKeeps, NameCheckedKeeps,
       ReadKeeps, WriteKeeps, FailKeeps, RespondKeeps DEF Serve
  <2> QED BY <2>1, <2>2, <2>3
<1>2. CASE UNCHANGED vars
  BY <1>2 DEF vars, IInv, Types, NumbersOK, Claims, Existing
<1> QED BY <1>1, <1>2

\* Numbers and types hold always.
LEMMA Invariant == Spec => []IInv
<1>1. Init => IInv
  BY InitKeeps
<1>2. IInv /\ [Next]_vars => IInv'
  BY Inductive
<1> QED BY <1>1, <1>2, PTL DEF Spec

\* Who was overtaken is noted by the writes, where a number was raced for by creations.
LEMMA HistoryInvariant == Spec => []HistoryOK
<1>1. Init => HistoryOK
  BY DEF Init, HistoryOK
<1>2. IInv /\ HistoryOK /\ [Next]_vars => HistoryOK'
  <2> SUFFICES ASSUME IInv, HistoryOK, Next PROVE HistoryOK'
    BY DEF vars, HistoryOK
  <2>1. PICK w \in Workers : Request(w) \/ Serve(w)
    BY DEF Next
  <2>2. workers[w].id \in Ids
    BY DEF IInv, Types, Worker
  <2>3. \/ UNCHANGED <<overtaken, raced>>
        \/ raced' = raced /\ overtaken' = overtaken \ {w}
        \/ Record(w)
    BY <2>1 DEF Request, Receive, Serve, ListFirst, ListSecond, ReadName, NameChecked, Read,
       Write, Fail, Respond, Step, history
  <2> QED BY <2>2, <2>3 DEF HistoryOK, Record
<1> QED BY <1>1, <1>2, Invariant, PTL DEF Spec

\* Whatever requests reach whichever workers: every variable has its type, a request
\* touches experiments that exist, and every creation finds a number that is free to
\* be given, however many of them race.
THEOREM ExperimentTypes == Spec => []TypeOK
<1>1. IInv /\ HistoryOK => TypeOK
  <2> SUFFICES ASSUME IInv, HistoryOK PROVE TypeOK
    OBVIOUS
  <2>1. \A w \in Workers : WorkerOK(workers[w]) /\ Knows(workers[w], Existing, count)
    BY DEF IInv, Types, NumbersOK
  <2>2. \A w \in Workers :
          /\ workers[w].pc \in {"idle", "first", "second", "names", "create", "read", "write", "answer"}
          /\ workers[w].number \in 0 .. count
          /\ workers[w].id \in Ids
          /\ workers[w].name \in Names \cup {NoDoc}
          /\ workers[w].ids \subseteq Existing
    BY <2>1, ExperimentsAssumption DEF WorkerOK, Worker, Creating, Knows, IInv, Types
  <2>3. \A w \in Workers :
          workers[w].copy \in IF workers[w].pc = "write" THEN Experiment ELSE {NoDoc}
    BY <2>1 DEF WorkerOK
  <2> QED BY <2>2, <2>3 DEF TypeOK, IInv, Types, HistoryOK
<1> QED BY <1>1, Invariant, HistoryInvariant, PTL
-----------------------------------------------------------------------------
(* Experiments stay *)

\* A step that writes no document keeps what holds of the documents and the copies.
LEMMA FreshKept ==
  ASSUME IInv, FreshOK, NEW w \in Workers, NEW q,
         workers' = [workers EXCEPT ![w] = q], docs' = docs, raced' = raced,
         overtaken' = overtaken \/ (overtaken' = overtaken \ {w} /\ q.pc = "idle"),
         CreatorOK(w, q), CopyOK(w, q),
         \A e \in acked' \ acked :
           docs[e[1]] # NoDoc /\ (docs[e[1]].data = e[2] \/ e[1] \in raced)
  PROVE  FreshOK'
<1>1. \A v \in Workers : workers'[v] = IF v = w THEN q ELSE workers[v]
  BY DEF IInv, Types
<1>2. Existing' = Existing
  BY DEF Existing
<1>3. \A v \in Workers : v # w => (v \in overtaken' <=> v \in overtaken)
  OBVIOUS
<1>4. ASSUME NEW v \in Workers
      PROVE  CreatorOK(v, workers[v])' /\ CopyOK(v, workers[v])'
  <2>1. CASE v = w
    BY <1>1, <1>2, <2>1 DEF CreatorOK, CopyOK, Refused
  <2>2. CASE v # w
    BY <1>1, <1>2, <1>3, <2>2 DEF FreshOK, CreatorOK, CopyOK, Refused
  <2> QED BY <2>1, <2>2
<1>5. AcknowledgedStay'
  BY DEF FreshOK, AcknowledgedStay
<1>6. HistoryOK'
  BY DEF FreshOK, HistoryOK
<1> QED BY <1>4, <1>5, <1>6 DEF FreshOK

\* The same of a step that notes nothing.
LEMMA HeldKept ==
  ASSUME IInv, FreshOK, NEW w \in Workers, NEW q,
         workers' = [workers EXCEPT ![w] = q], docs' = docs, acked' = acked,
         overtaken' = overtaken, raced' = raced, CreatorOK(w, q), CopyOK(w, q)
  PROVE  FreshOK'
<1>1. overtaken' = overtaken \/ (overtaken' = overtaken \ {w} /\ q.pc = "idle")
  OBVIOUS
<1>2. \A e \in acked' \ acked :
        docs[e[1]] # NoDoc /\ (docs[e[1]].data = e[2] \/ e[1] \in raced)
  OBVIOUS
<1> QED BY <1>1, <1>2, FreshKept

\* An idle worker holds nothing.
LEMMA IdleFresh ==
  ASSUME IInv, FreshOK, NEW w \in Workers, workers' = [workers EXCEPT ![w] = Idle],
         docs' = docs, acked' = acked, raced' = raced,
         overtaken' = overtaken \/ overtaken' = overtaken \ {w}
  PROVE  FreshOK'
<1>1. Idle.pc = "idle"
  BY DEF Idle
<1>2. CreatorOK(w, Idle) /\ CopyOK(w, Idle)
  BY <1>1 DEF CreatorOK, CopyOK
<1> QED BY <1>1, <1>2, FreshKept

\* A document is written: it is a new one, or keeps who created it, or its number
\* was raced for.  A writer that was not overtaken has the document as it is.
LEMMA StoreStep ==
  ASSUME IInv, FreshOK, NEW w \in Workers, workers[w].pc \in {"create", "write"},
         Store(workers[w]), Record(w)
  PROVE  /\ workers[w].id \in Ids
         /\ \A i \in Ids : docs'[i] = IF i = workers[w].id THEN Written(workers[w]) ELSE docs[i]
         /\ Existing' = Existing \cup {workers[w].id}
         /\ raced \subseteq raced' /\ raced' \subseteq Ids
         /\ workers[w].id \in Existing =>
              Written(workers[w]).data = docs[workers[w].id].data \/ workers[w].id \in raced'
         /\ workers[w].pc = "write" => workers[w].id \in Existing
         /\ workers[w].pc = "create" => workers[w].op = "create_experiment"
<1> DEFINE p == workers[w]
<1>1. WorkerOK(p) /\ p \in Worker /\ p.id \in Ids /\ Knows(p, Existing, count)
  BY DEF IInv, Types, WorkerOK, Worker, NumbersOK
<1>2. Written(p) \in Experiment /\ Written(p).data = IF p.pc = "create" THEN p.number ELSE p.copy.data
  BY <1>1, WrittenTypes
<1>3. \A i \in Ids : docs'[i] = IF i = p.id THEN Written(p) ELSE docs[i]
  BY <1>1, <1>2 DEF IInv, Types, Store
<1>4. Existing' = Existing \cup {p.id}
  BY <1>1, <1>2, <1>3, ExperimentsAssumption DEF Existing
<1>5. CreatorOK(w, p) /\ CopyOK(w, p) /\ HistoryOK
  BY DEF FreshOK
<1>6. p.pc = "create" => p.op = "create_experiment"
  BY <1>1 DEF WorkerOK, Creating
<1>7. p.pc = "write" => p.id \in Existing
  BY <1>1 DEF Knows
<1>8. raced \subseteq raced' /\ raced' \subseteq Ids
  BY <1>1, <1>5 DEF Record, HistoryOK
<1>9. p.id \in Existing => Written(p).data = docs[p.id].data \/ p.id \in raced'
  <2>1. CASE p.pc = "create"
    BY <1>5, <1>6, <2>1 DEF CreatorOK, Record
  <2>2. CASE p.pc = "write"
    BY <1>2, <1>5, <1>8, <2>2 DEF CopyOK
  <2> QED BY <2>1, <2>2
<1> QED BY <1>1, <1>3, <1>4, <1>6, <1>7, <1>8, <1>9

\* A write that is overtaken by none is what was asked of the experiment as it is.
LEMMA WrittenIsAsked ==
  ASSUME IInv, FreshOK, NEW w \in Workers, workers[w].pc = "write", w \notin overtaken
  PROVE  Written(workers[w]) = Asked(workers[w], docs[workers[w].id])
<1> DEFINE p == workers[w]
<1>1. /\ WorkerOK(p) /\ p.op \in EditOps /\ p.copy = docs[p.id] /\ ~ Refused(p, p.copy)
      /\ p.copy.life \in {"active", "deleted"}
  BY DEF IInv, Types, WorkerOK, FreshOK, CopyOK, Experiment, Life
<1>2. CASE p.op = "rename_experiment"
  BY <1>1, <1>2 DEF Written, Asked, Refused
<1>3. CASE p.op = "delete_experiment"
  BY <1>1, <1>3 DEF Written, Asked, Refused
<1>4. CASE p.op = "restore_experiment"
  BY <1>1, <1>4 DEF Written, Asked, Refused
<1> QED BY <1>1, <1>2, <1>3, <1>4 DEF EditOps

\* The document of one worker leaves the others what they have, or is noted as one
\* that has overtaken them.
LEMMA OthersFresh ==
  ASSUME IInv, FreshOK, NEW w \in Workers, workers[w].pc \in {"create", "write"},
         Store(workers[w]), Record(w), NEW v \in Workers, v # w, workers'[v] = workers[v]
  PROVE  CreatorOK(v, workers[v])' /\ CopyOK(v, workers[v])'
<1> DEFINE p == workers[w]
           r == workers[v]
<1>1. /\ p.id \in Ids
      /\ \A i \in Ids : docs'[i] = IF i = p.id THEN Written(p) ELSE docs[i]
      /\ Existing' = Existing \cup {p.id}
      /\ raced \subseteq raced'
      /\ p.id \in Existing => Written(p).data = docs[p.id].data \/ p.id \in raced'
      /\ p.pc = "write" => p.id \in Existing
      /\ p.pc = "create" => p.op = "create_experiment"
  BY StoreStep
<1>2. WorkerOK(p) /\ WorkerOK(r) /\ CreatorOK(v, r) /\ CopyOK(v, r) /\ Knows(r, Existing, count)
      /\ Existing \subseteq Ids /\ Written(p) \in Experiment
  BY WrittenTypes DEF IInv, Types, FreshOK, NumbersOK, Existing
<1>3. v \notin overtaken' => v \notin overtaken /\ ~ Overtakes(p, r)
  BY DEF Record
<1>4. CreatorOK(v, r)'
  <2>1. r.pc = "second" /\ r.round = 2 /\ v \notin overtaken' =>
          \A i \in Existing' : i \in r.ids \/ docs'[i].life = "deleted"
    <3> SUFFICES ASSUME r.pc = "second", r.round = 2, v \notin overtaken', NEW i \in Existing',
                        i \notin r.ids
                 PROVE  docs'[i].life = "deleted"
      OBVIOUS
    <3>1. p.pc = "write" /\ Existing' = Existing
      BY <1>1, <1>3 DEF Overtakes
    <3>2. docs[i].life = "deleted" /\ i \in Ids
      BY <1>2, <1>3, <3>1 DEF CreatorOK
    <3>3. CASE i = p.id
      <4>1. Written(p).life # "active"
        BY <1>3, <3>1, <3>2, <3>3 DEF Overtakes, Existing
      <4> QED BY <1>1, <1>2, <3>2, <3>3, <4>1 DEF Experiment, Life
    <3> QED BY <1>1, <3>2, <3>3
  <2>2. r.pc = "create" /\ v \notin overtaken' => r.id \notin Existing'
    <3> SUFFICES ASSUME r.pc = "create", v \notin overtaken' PROVE r.id \notin Existing'
      OBVIOUS
    <3>1. p.pc = "write" /\ Existing' = Existing
      BY <1>1, <1>2, <1>3 DEF Overtakes, CreatorOK
    <3> QED BY <1>2, <1>3, <3>1 DEF CreatorOK
  <2>3. r.pc = "answer" /\ r.op = "create_experiment" =>
          r.id \in Existing' /\ (docs'[r.id].data = r.number \/ r.id \in raced')
    BY <1>1, <1>2 DEF CreatorOK
  <2> QED BY <1>2, <2>1, <2>2, <2>3 DEF CreatorOK
<1>5. CopyOK(v, r)'
  <2> SUFFICES ASSUME r.pc = "write"
               PROVE  /\ r.copy.data = docs'[r.id].data \/ r.id \in raced'
                      /\ v \notin overtaken' => r.copy = docs'[r.id] /\ ~ Refused(r, docs'[r.id])
    BY DEF CopyOK, Refused
  <2>1. r.id \in Existing /\ r.id \in Ids
    BY <1>2 DEF Knows
  <2>2. CASE r.id # p.id
    BY <1>1, <1>2, <1>3, <2>1, <2>2 DEF CopyOK
  <2>3. CASE r.id = p.id
    BY <1>1, <1>2, <1>3, <2>1, <2>3 DEF CopyOK, Overtakes
  <2> QED BY <2>2, <2>3
<1> QED BY <1>4, <1>5

\* A document is stored: unless the creation that stores it was overtaken, it
\* replaces no acknowledged experiment.
LEMMA StoreFresh ==
  ASSUME IInv, FreshOK, NEW w \in Workers, workers[w].pc \in {"create", "write"},
         Store(workers[w]), Record(w), NEW q,
         q = Idle \/ q = [workers[w] EXCEPT !.pc = "answer", !.copy = NoDoc],
         workers' = [workers EXCEPT ![w] = q], acked' = acked
  PROVE  FreshOK'
<1> DEFINE p == workers[w]
<1>1. /\ p.id \in Ids
      /\ \A i \in Ids : docs'[i] = IF i = p.id THEN Written(p) ELSE docs[i]
      /\ Existing' = Existing \cup {p.id}
      /\ raced \subseteq raced' /\ raced' \subseteq Ids
      /\ p.id \in Existing => Written(p).data = docs[p.id].data \/ p.id \in raced'
  BY StoreStep
<1>2. WorkerOK(p) /\ p \in Worker
  BY DEF IInv, Types, WorkerOK
<1>3. \A v \in Workers : workers'[v] = IF v = w THEN q ELSE workers[v]
  BY DEF IInv, Types
<1>4. \/ q.pc = "idle"
      \/ q.pc = "answer" /\ q.op = p.op /\ q.id = p.id /\ q.number = p.number
  <2>1. CASE q = Idle
    BY <2>1 DEF Idle
  <2>2. CASE q = [p EXCEPT !.pc = "answer", !.copy = NoDoc]
    BY <1>2, <2>2 DEF Worker
  <2> QED BY <2>1, <2>2
<1>5. CreatorOK(w, workers[w])' /\ CopyOK(w, workers[w])'
  <2>1. p.op = "create_experiment" => Written(p).data = p.number
    BY <1>2, WrittenTypes DEF WorkerOK, EditOps
  <2>2. workers'[w] = q /\ docs'[p.id] = Written(p) /\ p.id \in Existing'
    BY <1>1, <1>3
  <2> QED BY <1>4, <2>1, <2>2 DEF CreatorOK, CopyOK
<1>6. \A v \in Workers : CreatorOK(v, workers[v])' /\ CopyOK(v, workers[v])'
  <2> SUFFICES ASSUME NEW v \in Workers, v # w
               PROVE  CreatorOK(v, workers[v])' /\ CopyOK(v, workers[v])'
    BY <1>5
  <2> QED BY <1>3, OthersFresh
<1>7. AcknowledgedStay'
  <2> SUFFICES ASSUME NEW e \in acked
               PROVE  docs'[e[1]] # NoDoc /\ (docs'[e[1]].data = e[2] \/ e[1] \in raced')
    BY DEF AcknowledgedStay
  <2>1. e[1] \in Ids /\ docs[e[1]] # NoDoc /\ (docs[e[1]].data = e[2] \/ e[1] \in raced)
    BY DEF FreshOK, AcknowledgedStay, IInv, Types
  <2>2. e[1] \in Existing /\ e[1] \in Existing'
    BY <1>1, <2>1 DEF Existing
  <2> QED BY <1>1, <2>1, <2>2 DEF Existing
<1>8. HistoryOK'
  BY <1>1 DEF Record, FreshOK, HistoryOK
<1> QED BY <1>6, <1>7, <1>8 DEF FreshOK

\* A request that has just arrived holds nothing.
LEMMA ReceiveFresh ==
  ASSUME IInv, FreshOK, NEW w \in Workers, NEW op, NEW pc \in {"first", "read"}, NEW id, NEW name,
         Receive(w, op, pc, id, name)
  PROVE  FreshOK'
<1>1. PICK q : q = [Idle EXCEPT !.op = op, !.pc = pc, !.number = count + 1, !.id = id, !.name = name]
  OBVIOUS
<1>2. /\ workers' = [workers EXCEPT ![w] = q] /\ docs' = docs /\ acked' = acked
      /\ overtaken' = overtaken /\ raced' = raced
  BY <1>1 DEF Receive, history
<1>3. q.pc = pc
  BY <1>1 DEF Idle
<1>4. CreatorOK(w, q) /\ CopyOK(w, q)
  BY <1>3 DEF CreatorOK, CopyOK
<1> QED BY <1>2, <1>4, HeldKept

\* A worker that receives a request has no copy yet.
LEMMA RequestFresh ==
  ASSUME IInv, FreshOK, NEW w \in Workers, Request(w) PROVE FreshOK'
BY ReceiveFresh DEF Request

\* The active experiments are listed first: what is not among them is deleted.
LEMMA ListFirstFresh ==
  ASSUME IInv, FreshOK, NEW w \in Workers, ListFirst(w) PROVE FreshOK'
<1> DEFINE p == workers[w]
<1>1. PICK q : q = [p EXCEPT !.pc = "second", !.ids = Listed("active")]
  OBVIOUS
<1>2. /\ workers' = [workers EXCEPT ![w] = q] /\ docs' = docs /\ acked' = acked
      /\ overtaken' = overtaken /\ raced' = raced
  BY <1>1 DEF ListFirst, Step, ListOrder, history
<1>3. p \in Worker
  BY DEF IInv, Types, WorkerOK
<1>4. q.pc = "second" /\ q.ids = Listed("active")
  BY <1>1, <1>3 DEF Worker
<1>5. \A i \in Existing : docs[i].life \in {"active", "deleted"}
  BY DEF IInv, Types, Existing, Experiment, Life
<1>6. CreatorOK(w, q) /\ CopyOK(w, q)
  BY <1>4, <1>5 DEF CreatorOK, CopyOK, Listed
<1> QED BY <1>2, <1>6, HeldKept

\* After the second listing no experiment is missed, and the number taken is free,
\* unless the creation was overtaken.
LEMMA ListSecondFresh ==
  ASSUME IInv, FreshOK, NEW w \in Workers, ListSecond(w) PROVE FreshOK'
<1> DEFINE p == workers[w]
           ids == p.ids \cup Listed("deleted")
<1>1. p \in Worker /\ p.pc = "second" /\ CreatorOK(w, p) /\ p.ids \subseteq Existing
  BY DEF IInv, Types, WorkerOK, ListSecond, FreshOK, NumbersOK, Knows
<1>2. p.round = 2 /\ w \notin overtaken => ids = Existing
  BY <1>1, ListedExist DEF CreatorOK, Listed
<1>3. NextId(ids) \in Ids /\ \A i \in ids : i < NextId(ids)
  BY <1>1, ListedExist, NextIdOK DEF Creating
<1>4. ids = Existing => NextId(ids) \notin Existing
  BY <1>3, ExperimentsAssumption DEF Ids
<1>5. PICK q : q = IF p.round = 1
                   THEN [p EXCEPT !.pc = "names", !.ids = ids]
                   ELSE [p EXCEPT !.pc = "create", !.ids = {}, !.id = NextId(ids)]
  OBVIOUS
<1>6. /\ workers' = [workers EXCEPT ![w] = q] /\ docs' = docs /\ acked' = acked
      /\ overtaken' = overtaken /\ raced' = raced
  BY <1>5 DEF ListSecond, Step, ListOrder, history
<1> HIDE DEF ids
<1>7. \/ q.pc = "names"
      \/ q.pc = "create" /\ q.id = NextId(ids) /\ q.round = 2 /\ p.round = 2
  <2>1. CASE p.round = 1
    BY <1>1, <1>5, <2>1 DEF Worker
  <2>2. CASE p.round # 1
    BY <1>1, <1>5, <2>2 DEF Worker
  <2> QED BY <2>1, <2>2
<1>8. CreatorOK(w, q) /\ CopyOK(w, q)
  BY <1>2, <1>4, <1>7 DEF CreatorOK, CopyOK
<1> QED BY <1>6, <1>8, HeldKept

\* Checking the names changes nothing that is held.
LEMMA NamesFresh ==
  ASSUME IInv, FreshOK, NEW w \in Workers, ReadName(w) \/ NameChecked(w) PROVE FreshOK'
<1> DEFINE p == workers[w]
<1>1. p \in Worker /\ p.pc = "names"
  BY DEF IInv, Types, WorkerOK, ReadName, NameChecked
<1>2. PICK q : Step(w, q) /\ (q = Idle \/ q.pc \in {"names", "first"})
  <2>1. CASE ReadName(w)
    <3>1. PICK i \in p.ids :
            Step(w, [p EXCEPT !.ids = p.ids \ {i}, !.taken = p.taken \/ docs[i].name = p.name])
      BY <2>1 DEF ReadName
    <3>2. PICK q : q = [p EXCEPT !.ids = p.ids \ {i}, !.taken = p.taken \/ docs[i].name = p.name]
      OBVIOUS
    <3>3. q.pc = "names"
      BY <1>1, <3>2 DEF Worker
    <3>4. Step(w, q)
      BY <3>1, <3>2, Zenon
    <3> QED BY <3>3, <3>4
  <2>2. CASE NameChecked(w)
    <3>1. PICK q : q = IF p.taken THEN Idle ELSE [p EXCEPT !.pc = "first", !.round = 2]
      OBVIOUS
    <3>2. Step(w, q)
      BY <2>2, <3>1 DEF NameChecked
    <3>3. q = Idle \/ q.pc = "first"
      BY <1>1, <3>1 DEF Worker
    <3> QED BY <3>2, <3>3
  <2> QED BY <2>1, <2>2
<1>3. /\ workers' = [workers EXCEPT ![w] = q] /\ docs' = docs /\ acked' = acked
      /\ overtaken' = overtaken /\ raced' = raced
  BY <1>2 DEF Step, history
<1>4. q.pc \in {"idle", "names", "first"}
  BY <1>2 DEF Idle
<1>5. CreatorOK(w, q) /\ CopyOK(w, q)
  BY <1>4 DEF CreatorOK, CopyOK
<1> QED BY <1>3, <1>5, HeldKept

\* A copy that has just been read is the document, and what is asked of it is allowed.
LEMMA ReadFresh ==
  ASSUME IInv, FreshOK, NEW w \in Workers, Read(w) PROVE FreshOK'
<1> DEFINE p == workers[w]
<1>1. docs' = docs /\ acked' = acked /\ p.pc = "read" /\ p.id \in Existing
      /\ overtaken' = overtaken /\ raced' = raced
  BY ReadStep DEF Read, Step, history
<1>2. CASE workers' = [workers EXCEPT ![w] = Idle]
  BY <1>1, <1>2, IdleFresh
<1>3. CASE /\ ~ Refused(p, docs[p.id])
           /\ workers' = [workers EXCEPT ![w] = [p EXCEPT !.pc = "write", !.copy = docs[p.id]]]
  <2>1. PICK q : q = [p EXCEPT !.pc = "write", !.copy = docs[p.id]]
    OBVIOUS
  <2>2. p \in Worker
    BY DEF IInv, Types, WorkerOK
  <2>3. q.pc = "write" /\ q.copy = docs[p.id] /\ q.id = p.id /\ q.op = p.op
    BY <2>1, <2>2 DEF Worker
  <2>4. CreatorOK(w, q) /\ CopyOK(w, q)
    BY <1>3, <2>3 DEF CreatorOK, CopyOK, Refused
  <2> QED BY <1>1, <1>3, <2>1, <2>4, HeldKept
<1> QED BY <1>2, <1>3, ReadStep

\* A write that succeeds.
LEMMA WriteFresh ==
  ASSUME IInv, FreshOK, NEW w \in Workers, Write(w) PROVE FreshOK'
<1>1. PICK q : q = [workers[w] EXCEPT !.pc = "answer", !.copy = NoDoc]
  OBVIOUS
<1>2. /\ workers[w].pc \in {"create", "write"} /\ Store(workers[w]) /\ Record(w)
      /\ workers' = [workers EXCEPT ![w] = q] /\ acked' = acked
  BY <1>1 DEF Write
<1> QED BY <1>1, <1>2, StoreFresh

\* A call that fails, perhaps after it has written.
LEMMA FailFresh ==
  ASSUME IInv, FreshOK, NEW w \in Workers, Fail(w) PROVE FreshOK'
<1>1. /\ workers' = [workers EXCEPT ![w] = Idle] /\ acked' = acked
      /\ \/ UNCHANGED <<docs, raced>> /\ overtaken' = overtaken \ {w}
         \/ workers[w].pc \in {"create", "write"} /\ Store(workers[w]) /\ Record(w)
  BY DEF Fail
<1>2. CASE UNCHANGED <<docs, raced>> /\ overtaken' = overtaken \ {w}
  BY <1>1, <1>2, IdleFresh
<1>3. CASE workers[w].pc \in {"create", "write"} /\ Store(workers[w]) /\ Record(w)
  <2>1. PICK q : q = Idle
    OBVIOUS
  <2> QED BY <1>1, <1>3, <2>1, StoreFresh
<1> QED BY <1>1, <1>2, <1>3

\* A creation is answered: its document is there, with the request's data.
LEMMA RespondFresh ==
  ASSUME IInv, FreshOK, NEW w \in Workers, Respond(w) PROVE FreshOK'
<1> DEFINE p == workers[w]
<1>1. workers' = [workers EXCEPT ![w] = Idle] /\ docs' = docs /\ p.pc = "answer"
      /\ overtaken' = overtaken /\ raced' = raced
  BY DEF Respond, history
<1>2. acked' = IF p.op = "create_experiment" THEN acked \cup {<<p.id, p.number>>} ELSE acked
  BY DEF Respond
<1>3. p.op = "create_experiment" =>
        p.id \in Existing /\ (docs[p.id].data = p.number \/ p.id \in raced)
  BY <1>1 DEF FreshOK, CreatorOK
<1>4. \A e \in acked' \ acked :
        docs[e[1]] # NoDoc /\ (docs[e[1]].data = e[2] \/ e[1] \in raced)
  BY <1>2, <1>3 DEF Existing
<1>5. Idle.pc = "idle"
  BY DEF Idle
<1>6. CreatorOK(w, Idle) /\ CopyOK(w, Idle)
  BY <1>5 DEF CreatorOK, CopyOK
<1>7. overtaken' = overtaken \/ (overtaken' = overtaken \ {w} /\ Idle.pc = "idle")
  BY <1>1
<1> QED BY <1>1, <1>4, <1>6, <1>7, FreshKept

\* Every step keeps copies and acknowledged experiments.
LEMMA FreshInductive ==
  ASSUME IInv, FreshOK, [Next]_vars PROVE FreshOK'
<1>1. CASE Next
  <2>1. PICK w \in Workers : Request(w) \/ Serve(w)
    BY <1>1 DEF Next
  <2> QED BY <2>1, RequestFresh, ListFirstFresh, ListSecondFresh, NamesFresh, ReadFresh,
             WriteFresh, FailFresh, RespondFresh DEF Serve
<1>2. CASE UNCHANGED vars
  BY <1>2 DEF vars, FreshOK, HistoryOK, CreatorOK, CopyOK, Refused, AcknowledgedStay, Existing
<1> QED BY <1>1, <1>2

\* Nothing is acknowledged at first.
LEMMA FreshInit ==
  ASSUME Init PROVE FreshOK
<1>1. acked = {} /\ \A w \in Workers : workers[w] = Idle
  BY DEF Init
<1>2. Idle.pc = "idle"
  BY DEF Idle
<1>3. HistoryOK
  BY DEF Init, HistoryOK
<1> QED BY <1>1, <1>2, <1>3 DEF FreshOK, CreatorOK, CopyOK, AcknowledgedStay

\* Copies and acknowledged experiments stay.
LEMMA FreshInvariant == Spec => []FreshOK
<1>1. Init => FreshOK
  BY FreshInit
<1>2. IInv /\ FreshOK /\ [Next]_vars => FreshOK'
  BY FreshInductive
<1> QED BY <1>1, <1>2, Invariant, PTL DEF Spec

\* Whatever requests reach whichever workers, an experiment whose creation was
\* answered is not replaced, unless by a creation that was overtaken: any other
\* creator misses no experiment, because it lists the active ones first, and so
\* it gives no number twice.
THEOREM AcknowledgedExperimentsStay == Spec => []AcknowledgedStay
<1>1. FreshOK => AcknowledgedStay
  BY DEF FreshOK
<1> QED BY <1>1, FreshInvariant, PTL

\* Whatever requests reach whichever workers, what changes in an experiment is what
\* a request asks of it as it is at that time, or the request was overtaken.
THEOREM ExperimentChangesAreAsked == Spec => ChangesAreAsked
<1> DEFINE Justified ==
      \A i \in Ids :
         docs[i] # NoDoc /\ docs'[i] # docs[i] =>
           \E w \in Workers :
             /\ workers[w].pc \in {"create", "write"} /\ workers[w].id = i
             /\ w \in overtaken \/ docs'[i] = Asked(workers[w], docs[i])
<1>1. ASSUME IInv, FreshOK, [Next]_vars PROVE [Justified]_vars
  <2>1. SUFFICES ASSUME NEW i \in Ids, docs[i] # NoDoc, docs'[i] # docs[i]
                 PROVE  \E w \in Workers :
                          /\ workers[w].pc \in {"create", "write"} /\ workers[w].id = i
                          /\ w \in overtaken \/ docs'[i] = Asked(workers[w], docs[i])
    OBVIOUS
  <2>2. docs' # docs
    BY <2>1
  <2>3. PICK w \in Workers :
          workers[w].pc \in {"create", "write"} /\ Store(workers[w]) /\ Record(w)
    <3>1. PICK w \in Workers : Request(w) \/ Serve(w)
      BY <1>1, <2>2 DEF Next, vars
    <3> QED BY <2>2, <3>1 DEF Request, Receive, Serve, ListFirst, ListSecond, ReadName,
               NameChecked, Read, Write, Fail, Respond, Step
  <2>4. i = workers[w].id /\ docs'[i] = Written(workers[w])
    BY <1>1, <2>1, <2>3, StoreStep
  <2>5. ASSUME w \notin overtaken PROVE docs'[i] = Asked(workers[w], docs[i])
    <3>1. workers[w].pc = "write"
      BY <1>1, <2>1, <2>3, <2>4, <2>5 DEF FreshOK, CreatorOK, Existing
    <3> QED BY <1>1, <2>4, <2>5, <3>1, WrittenIsAsked
  <2> QED BY <2>3, <2>4, <2>5
<1>2. IInv /\ FreshOK /\ [Next]_vars => [Justified]_vars
  BY <1>1
<1> QED BY <1>2, Invariant, FreshInvariant, PTL DEF Spec, ChangesAreAsked
=============================================================================
