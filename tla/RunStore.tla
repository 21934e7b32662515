------------------------------ MODULE RunStore ------------------------------
(***************************************************************************)
(* What a tracking store promises for one run: each call of its interface  *)
(* changes the run in one step, on top of what the calls before it did.    *)
(* Calls that overlap may undo each other, but take no key away.           *)
(***************************************************************************)
EXTENDS Sequences

CONSTANTS
  Keys,      \* names of metrics, params and tags
  Values,    \* what can be logged
  NoValue,   \* the key is not there
  NoRun      \* the run is not there

VARIABLES
  run,         \* the run, as its users see it
  overlapping  \* input: a call that is going to write has missed another one

Status == {"RUNNING", "FINISHED"}
Life == {"active", "deleted"}

Table == [Keys -> Values \cup {NoValue}]
Run == [status : Status, life : Life, metrics : [Keys -> Seq(Values)],
        params : Table, tags : Table]

Empty == [k \in Keys |-> NoValue]

Init == run = NoRun

Create ==
  /\ run = NoRun
  /\ \E tags \in Table :
       run' = [status |-> "RUNNING", life |-> "active",
               metrics |-> [k \in Keys |-> <<>>], params |-> Empty, tags |-> tags]

LogParam(k, v) == run' = [run EXCEPT !.params[k] = v]
LogMetric(k, v) == run' = [run EXCEPT !.metrics[k] = Append(@, v)]
SetTag(k, v) == run' = [run EXCEPT !.tags[k] = v]

\* Only an active run can be logged to.
Log ==
  /\ run # NoRun /\ run.life = "active"
  /\ \E k \in Keys, v \in Values : LogParam(k, v) \/ LogMetric(k, v) \/ SetTag(k, v)

SetStatus == run # NoRun /\ \E s \in Status : run' = [run EXCEPT !.status = s]

Delete == run # NoRun /\ run.life = "active" /\ run' = [run EXCEPT !.life = "deleted"]
Restore == run # NoRun /\ run.life = "deleted" /\ run' = [run EXCEPT !.life = "active"]

\* The keys that have a value.
Present ==
  IF run = NoRun THEN {} ELSE
    {<<"metrics", k>> : k \in {k \in Keys : run.metrics[k] # <<>>}} \cup
    {<<"params", k>> : k \in {k \in Keys : run.params[k] # NoValue}} \cup
    {<<"tags", k>> : k \in {k \in Keys : run.tags[k] # NoValue}}

\* A call writes what it has worked out from a run that has changed since.
Interfere == overlapping /\ run # NoRun /\ run' # NoRun /\ Present \subseteq Present'

Next == Create \/ Log \/ SetStatus \/ Delete \/ Restore \/ Interfere

Spec == Init /\ [][Next]_run
=============================================================================
