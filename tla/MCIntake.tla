------------------------------ MODULE MCIntake ------------------------------
(* Intake on small instances. *)
EXTENDS Intake, TLC

CONSTANTS p1, t1, t2, z1, m1, m2, c1, k1

\* One process with room for a second, overlapping pass and for a replay.
OneHome == [a \in {t1, t2, z1} |-> p1]

\* Messages, chatter and a click.
KindOfEach ==
  [e \in Events |-> CASE e \in {m1, m2} -> "message" [] e = c1 -> "chatter" [] OTHER -> "click"]
=============================================================================
