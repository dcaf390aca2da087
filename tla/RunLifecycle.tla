---------------------------- MODULE RunLifecycle ----------------------------
(***************************************************************************)
(* What the run queue promises, without rows, tokens, leases or clocks:    *)
(* the lifecycle of a run and who owns it. RunStore implements it.         *)
(*                                                                         *)
(* A run is owned by at most one executor at a time; ownership passes from *)
(* one executor to another only through a state without owner; only the    *)
(* owner completes or suspends a run; a finished run never changes again.  *)
(***************************************************************************)
EXTENDS Integers

CONSTANTS Runs, Executors, Nobody  \* Nobody is no executor

VARIABLES
  state,  \* the lifecycle state of each run
  owner   \* the executor that may finish it

vars == <<state, owner>>

States == {"absent", "queued", "running", "awaiting_approval", "succeeded", "failed"}
Finished == {"succeeded", "failed"}

TypeOK ==
  /\ state \in [Runs -> States]
  /\ owner \in [Runs -> Executors \cup {Nobody}]

Init ==
  /\ state = [r \in Runs |-> "absent"]
  /\ owner = [r \in Runs |-> Nobody]

Move(r, from, to, o) ==
  /\ state[r] \in from
  /\ state' = [state EXCEPT ![r] = to]
  /\ owner' = [owner EXCEPT ![r] = o]

Enqueue(r) == Move(r, {"absent"}, "queued", Nobody)
Withdraw(r) == Move(r, {"queued"}, "absent", Nobody)
Start(r, e) == Move(r, {"queued"}, "running", e)
GiveBack(r) == Move(r, {"running"}, "queued", Nobody)
Abandon(r) == Move(r, {"running"}, "running", Nobody)
Adopt(r, e) == owner[r] = Nobody /\ Move(r, {"running"}, "running", e)
Suspend(r) == owner[r] # Nobody /\ Move(r, {"running"}, "awaiting_approval", Nobody)
Resume(r) == Move(r, {"awaiting_approval"}, "running", Nobody)
Succeed(r) == owner[r] # Nobody /\ Move(r, {"running"}, "succeeded", Nobody)
Fail(r) == Move(r, {"running", "awaiting_approval"}, "failed", Nobody)

Next ==
  \E r \in Runs :
    \/ Enqueue(r) \/ Withdraw(r)
    \/ GiveBack(r) \/ Abandon(r)
    \/ Suspend(r) \/ Resume(r)
    \/ Succeed(r) \/ Fail(r)
    \/ \E e \in Executors : Start(r, e) \/ Adopt(r, e)

Spec == Init /\ [][Next]_vars
=============================================================================
