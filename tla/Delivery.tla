------------------------------ MODULE Delivery ------------------------------
(***************************************************************************)
(* The outbound queue and the loops that empty it (im-core/src/runtime/    *)
(* delivery-loop.ts, postgres-delivery-queue.ts, memory-delivery-queue.ts).*)
(* A loop claims the oldest deliveries of a provider under one lease, then *)
(* applies them one after the other. ack and fail carry no claim token.    *)
(*                                                                         *)
(* One provider. A lease lapses, and a backoff ends, at a step of its own: *)
(* how long they last is left out. One process with the memory queue is    *)
(* among these behaviours.                                                 *)
(***************************************************************************)
EXTENDS Integers, FiniteSets

CONSTANTS
  Processes,    \* server processes with a loop each
  MaxDelivery,  \* bound on deliveries; a delivery is its place in the queue
  MaxPerClaim,
  MaxAttempts,
  MaxFaults     \* bound on failing acks and crashes

ASSUME DeliveryAssumption ==
  /\ {MaxDelivery, MaxPerClaim, MaxAttempts} \subseteq Nat \ {0}
  /\ MaxFaults \in Nat

Deliveries == 1..MaxDelivery

VARIABLES
  queued,   \* how many deliveries were enqueued
  row,      \* attempts, lease and outcome of each
  batch,    \* what each loop claimed and has not settled: delivery, attempt
  step,     \* where it is with the oldest of them
  faults

\* History, read by the properties and by no guard.
VARIABLES
  sends,    \* how often each delivery reached the provider
  excused   \* deliveries that something allows to be sent again

history == <<sends, excused>>
vars == <<queued, row, batch, step, faults, history>>

Row ==
  [attempts : Nat, lease : {"none", "live", "lapsed"}, backoff : BOOLEAN,
   delivered : BOOLEAN, parked : BOOLEAN]
NewRow == [attempts |-> 0, lease |-> "none", backoff |-> FALSE,
           delivered |-> FALSE, parked |-> FALSE]

Init ==
  /\ queued = 0
  /\ row = [d \in Deliveries |-> NewRow]
  /\ batch = [p \in Processes |-> {}]
  /\ step = [p \in Processes |-> "apply"]
  /\ faults = 0
  /\ sends = [d \in Deliveries |-> 0]
  /\ excused = {}

Fault == faults < MaxFaults /\ faults' = faults + 1

-----------------------------------------------------------------------------
(* The queue. *)

\* One delivery per idempotency key; the key of a known delivery changes
\* nothing.
Enqueue ==
  /\ queued < MaxDelivery
  /\ queued' = queued + 1
  /\ UNCHANGED <<row, batch, step, faults, history>>

Claimable_EvenLeased(d) ==
  /\ d <= queued
  /\ ~row[d].delivered /\ ~row[d].parked /\ ~row[d].backoff
Claimable_NeverLapsed(d) ==
  /\ d <= queued
  /\ ~row[d].delivered /\ ~row[d].parked /\ ~row[d].backoff
  /\ row[d].lease = "none"
Claimable(d) ==
  /\ d <= queued
  /\ ~row[d].delivered /\ ~row[d].parked /\ ~row[d].backoff
  /\ row[d].lease # "live"

\* The oldest MaxPerClaim of them.
Claimed ==
  {d \in Deliveries :
    Claimable(d) /\ Cardinality({e \in 1..d : Claimable(e)}) <= MaxPerClaim}

Leased_Uncounted(r) == [r EXCEPT !.lease = "live"]
Leased(r) == [r EXCEPT !.attempts = @ + 1, !.lease = "live"]

Acked(r) == [r EXCEPT !.delivered = TRUE, !.lease = "none"]
Retried(r) == [r EXCEPT !.backoff = TRUE, !.lease = "none"]
Parked(r) == [r EXCEPT !.parked = TRUE, !.lease = "none"]

LeaseLapses(d) ==
  /\ row[d].lease = "live"
  /\ row' = [row EXCEPT ![d].lease = "lapsed"]
  /\ excused' = excused \cup {d}
  /\ UNCHANGED <<queued, batch, step, faults, sends>>

BackoffEnds(d) ==
  /\ row[d].backoff
  /\ row' = [row EXCEPT ![d].backoff = FALSE]
  /\ UNCHANGED <<queued, batch, step, faults, history>>

-----------------------------------------------------------------------------
(* The loop: tick claims, applyDelivery settles what was claimed in order. *)
(* `ticking` keeps a second tick out until the batch is through.           *)

\* The loop is here with b, the oldest of its batch.
At(p, here, b) ==
  /\ step[p] = here
  /\ \A c \in batch[p] : b.id <= c.id

Tick(p) ==
  /\ batch[p] = {}
  /\ Claimed # {}
  /\ row' = [d \in Deliveries |-> IF d \in Claimed THEN Leased(row[d]) ELSE row[d]]
  /\ batch' = [batch EXCEPT ![p] =
       {[id |-> d, attempt |-> row[d].attempts + 1] : d \in Claimed}]
  /\ UNCHANGED <<queued, step, faults, history>>

Surrendered_OffByOne(n) == n > MaxAttempts + 1
Surrendered(n) == n > MaxAttempts

Settle(p, b, newRow) ==
  /\ row' = [row EXCEPT ![b.id] = newRow]
  /\ batch' = [batch EXCEPT ![p] = @ \ {b}]
  /\ step' = [step EXCEPT ![p] = "apply"]

Park(p, b) ==
  /\ At(p, "apply", b)
  /\ Surrendered(b.attempt)
  /\ Settle(p, b, Parked(row[b.id]))
  /\ UNCHANGED <<queued, faults, history>>

\* The call that parks throws, committed or not.
ParkThrows(p, b) ==
  /\ At(p, "apply", b)
  /\ Surrendered(b.attempt)
  /\ Fault
  /\ step' = [step EXCEPT ![p] = "fail"]
  /\ \/ UNCHANGED row
     \/ row' = [row EXCEPT ![b.id] = Parked(@)]
  /\ UNCHANGED <<queued, batch, history>>

\* A call of the provider: the message is out and the call says so; or the
\* call throws, before the message is out or after.
Send(p, b) ==
  /\ At(p, "apply", b)
  /\ ~Surrendered(b.attempt)
  /\ sends' = [sends EXCEPT ![b.id] = @ + 1]
  /\ step' = [step EXCEPT ![p] = "ack"]
  /\ UNCHANGED <<queued, row, batch, faults, excused>>

SendThrows(p, b) ==
  /\ At(p, "apply", b)
  /\ ~Surrendered(b.attempt)
  /\ step' = [step EXCEPT ![p] = "fail"]
  /\ \/ UNCHANGED history
     \/ /\ sends' = [sends EXCEPT ![b.id] = @ + 1]
        /\ excused' = excused \cup {b.id}
  /\ UNCHANGED <<queued, row, batch, faults>>

Ack(p, b) ==
  /\ At(p, "ack", b)
  /\ Settle(p, b, Acked(row[b.id]))
  /\ UNCHANGED <<queued, faults, history>>

\* The ack throws, committed or not: the delivery is put back like one that
\* was never sent.
AckThrows(p, b) ==
  /\ At(p, "ack", b)
  /\ Fault
  /\ step' = [step EXCEPT ![p] = "fail"]
  /\ \/ UNCHANGED row
     \/ row' = [row EXCEPT ![b.id] = Acked(@)]
  /\ excused' = excused \cup {b.id}
  /\ UNCHANGED <<queued, batch, sends>>

Fail(p, b) ==
  /\ At(p, "fail", b)
  /\ Settle(p, b, Retried(row[b.id]))
  /\ UNCHANGED <<queued, faults, history>>

\* The process dies and is started again. A fail or a claim that throws ends
\* it too: nobody handles the rejection of tick.
Crash(p) ==
  /\ batch[p] # {}
  /\ Fault
  /\ batch' = [batch EXCEPT ![p] = {}]
  /\ step' = [step EXCEPT ![p] = "apply"]
  /\ UNCHANGED <<queued, row, history>>

-----------------------------------------------------------------------------

Applied(p) ==
  \E b \in batch[p] :
    \/ Park(p, b) \/ ParkThrows(p, b) \/ Send(p, b) \/ SendThrows(p, b)
    \/ Ack(p, b) \/ AckThrows(p, b) \/ Fail(p, b)

Next ==
  \/ Enqueue
  \/ \E d \in Deliveries : LeaseLapses(d) \/ BackoffEnds(d)
  \/ \E p \in Processes : Tick(p) \/ Applied(p) \/ Crash(p)

Spec == Init /\ [][Next]_vars

\* The timer ticks, a call that was started settles, time passes. Whether a
\* send succeeds is left open, and no crash is forced.
Fairness ==
  /\ \A d \in Deliveries : WF_vars(LeaseLapses(d)) /\ WF_vars(BackoffEnds(d))
  /\ \A p \in Processes : WF_vars(Tick(p)) /\ WF_vars(Applied(p))

FairSpec == Spec /\ Fairness

-----------------------------------------------------------------------------

\* Every variable keeps its type; what was not enqueued has no row, and no
\* loop holds an attempt its delivery has not counted.
TypeOK ==
  /\ queued \in 0..MaxDelivery
  /\ row \in [Deliveries -> Row]
  /\ \A d \in Deliveries : d > queued => row[d] = NewRow
  /\ batch \in [Processes -> SUBSET [id : Deliveries, attempt : Nat \ {0}]]
  /\ \A p \in Processes : \A b \in batch[p] : b.attempt <= row[b.id].attempts
  /\ step \in [Processes -> {"apply", "ack", "fail"}]
  /\ faults \in 0..MaxFaults
  /\ sends \in [Deliveries -> Nat]
  /\ excused \subseteq Deliveries

\* A message reaches its provider at most MaxAttempts times, however many
\* loops claim it, lose it to one another and claim it again, and one that
\* counts as delivered did reach it.
SendsBounded ==
  \A d \in Deliveries :
    sends[d] <= MaxAttempts /\ (row[d].delivered => sends[d] > 0)

\* A message is sent a second time only after its lease lapsed, a call of the
\* provider threw, or its ack did: never by two loops under one live lease.
SecondSendHasCause ==
  [][\A d \in Deliveries : sends'[d] > sends[d] /\ sends[d] > 0 => d \in excused]_vars

\* A delivery that was enqueued ends delivered or parked.
EveryDeliverySettles ==
  \A d \in Deliveries : d <= queued ~> row[d].delivered \/ row[d].parked
=============================================================================
