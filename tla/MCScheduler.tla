---------------------------- MODULE MCScheduler ----------------------------
(* Scheduler on small instances. *)
EXTENDS Scheduler

\* A single shot and an interval, each with a turn and with a message.
AllKinds == [every : {0, 1}, direct : BOOLEAN]
=============================================================================
