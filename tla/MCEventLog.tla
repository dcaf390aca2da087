----------------------------- MODULE MCEventLog -----------------------------
(* EventLog on small instances. *)
EXTENDS EventLog

CONSTANTS t1, t2, p1, p2

Both == {"memory", "postgres"}

\* The stale turn and its successor, in one process or in two.
OneOrTwo == {[t \in {t1, t2} |-> p1], [t \in {t1, t2} |-> IF t = t1 THEN p1 ELSE p2]}
=============================================================================
