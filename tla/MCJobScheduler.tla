--------------------------- MODULE MCJobScheduler ---------------------------
(* JobScheduler with small sets: a cron string is its period. *)
EXTENDS JobScheduler

Periodic(c, t) == c * (t \div c + 1)

EveryUnit == {1}
=============================================================================
