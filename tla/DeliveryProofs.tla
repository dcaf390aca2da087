--------------------------- MODULE DeliveryProofs ---------------------------
(***************************************************************************)
(* The outbound queue, for any number of deliveries, loops, attempts and   *)
(* faults: how often a message is sent, and why a second time.             *)
(*                                                                         *)
(* Neither property is inductive. The bound on sends needs that an attempt *)
(* is held by one loop, once: each attempt that is counted is then worth   *)
(* at most one send. The cause of a second send needs that a delivery      *)
(* nothing excuses is held by one loop under a live lease.                 *)
(***************************************************************************)
EXTENDS Delivery, FiniteSetTheorems, TLAPS

\* The loop has not yet called the provider for b.
Waits(p, b) == step[p] = "apply" \/ \E c \in batch[p] : c.id < b.id

\* Attempts at d that are held and not yet sent.
Unsent(d) ==
  {n \in 1..MaxAttempts :
    \E p \in Processes : \E b \in batch[p] : b.id = d /\ b.attempt = n /\ Waits(p, b)}

\* Attempts at d that were counted and are through.
Spent(d) == {n \in 1..MaxAttempts : n <= row[d].attempts /\ n \notin Unsent(d)}

OncePerBatch == \A p \in Processes : \A b, c \in batch[p] : b.id = c.id => b = c

AttemptsUnshared ==
  \A p, q \in Processes : \A b \in batch[p], c \in batch[q] :
    b.id = c.id /\ b.attempt = c.attempt => p = q

RestsAtApply == \A p \in Processes : batch[p] = {} => step[p] = "apply"

SentBeforeAck ==
  \A p \in Processes : \A b \in batch[p] : At(p, "ack", b) => sends[b.id] > 0

DeliveredWasSent == \A d \in Deliveries : row[d].delivered => sends[d] > 0

SendsCounted == \A d \in Deliveries : sends[d] <= Cardinality(Spent(d))

BatchesInv == TypeOK /\ OncePerBatch /\ AttemptsUnshared /\ RestsAtApply

SendsInv == SentBeforeAck /\ DeliveredWasSent /\ SendsCounted

\* A delivery nothing excuses is held by one loop, which has not delivered it,
\* and its lease is live unless a call that threw has parked it.
HeldOnce ==
  \A p, q \in Processes : \A b \in batch[p], c \in batch[q] :
    b.id = c.id => p = q \/ b.id \in excused

HeldIsLive ==
  \A p \in Processes : \A b \in batch[p] :
    \/ b.id \in excused
    \/ /\ ~row[b.id].delivered
       /\ row[b.id].lease = "live" \/ (row[b.id].parked /\ At(p, "fail", b))

\* One that was sent is delivered, or it waits under a live lease for its ack.
SentIsKept ==
  \A d \in Deliveries \ excused : sends[d] > 0 =>
    \/ row[d].delivered
    \/ /\ row[d].lease = "live"
       /\ \A p \in Processes : \A b \in batch[p] : b.id = d => At(p, "ack", b)

ExcuseInv == HeldOnce /\ HeldIsLive /\ SentIsKept

Inv == BatchesInv /\ SendsInv /\ ExcuseInv

-----------------------------------------------------------------------------
(* The rows.                                                               *)

\* What the statements on one row write.
LEMMA RowWrites ==
  ASSUME NEW r \in Row
  PROVE  /\ Leased(r) \in Row
         /\ Leased(r).attempts = r.attempts + 1 /\ Leased(r).lease = "live"
         /\ Leased(r).delivered = r.delivered
         /\ Acked(r) \in Row
         /\ Acked(r).attempts = r.attempts /\ Acked(r).delivered
         /\ Retried(r) \in Row
         /\ Retried(r).attempts = r.attempts /\ Retried(r).delivered = r.delivered
         /\ Parked(r) \in Row
         /\ Parked(r).attempts = r.attempts /\ Parked(r).delivered = r.delivered
         /\ Parked(r).parked
<1>1. /\ Leased(r) \in Row
      /\ Leased(r).attempts = r.attempts + 1 /\ Leased(r).lease = "live"
      /\ Leased(r).delivered = r.delivered
  <2>1. PICK n \in Nat : n = r.attempts + 1
    BY DEF Row
  <2>2. Leased(r) = [r EXCEPT !.attempts = n, !.lease = "live"]
    BY <2>1 DEF Leased
  <2>3. Leased(r) \in Row /\ Leased(r).attempts = n
    BY <2>2 DEF Row
  <2>4. Leased(r).lease = "live" /\ Leased(r).delivered = r.delivered
    BY <2>2 DEF Row
  <2> QED
    BY <2>1, <2>3, <2>4
<1>2. Acked(r) \in Row /\ Acked(r).attempts = r.attempts /\ Acked(r).delivered
  BY DEF Row, Acked
<1>3. /\ Retried(r) \in Row
      /\ Retried(r).attempts = r.attempts /\ Retried(r).delivered = r.delivered
  BY DEF Row, Retried
<1>4. /\ Parked(r) \in Row
      /\ Parked(r).attempts = r.attempts /\ Parked(r).delivered = r.delivered
      /\ Parked(r).parked
  BY DEF Row, Parked
<1> QED
  BY <1>1, <1>2, <1>3, <1>4

\* The passing of time writes one field of one row.
LEMMA TimeWrites ==
  ASSUME row \in [Deliveries -> Row], NEW d \in Deliveries,
         \/ LeaseLapses(d)
         \/ BackoffEnds(d)
  PROVE  /\ row' \in [Deliveries -> Row]
         /\ \A e \in Deliveries :
              /\ row'[e].attempts = row[e].attempts
              /\ row'[e].delivered = row[e].delivered
              /\ row'[e].parked = row[e].parked
              /\ ~LeaseLapses(d) => row'[e].lease = row[e].lease
              /\ e # d => row'[e] = row[e]
<1>1. ASSUME NEW r \in Row
      PROVE  /\ [r EXCEPT !.lease = "lapsed"] \in Row
             /\ [r EXCEPT !.lease = "lapsed"].attempts = r.attempts
             /\ [r EXCEPT !.lease = "lapsed"].delivered = r.delivered
             /\ [r EXCEPT !.lease = "lapsed"].parked = r.parked
  BY DEF Row
<1>2. ASSUME NEW r \in Row
      PROVE  /\ [r EXCEPT !.backoff = FALSE] \in Row
             /\ [r EXCEPT !.backoff = FALSE].attempts = r.attempts
             /\ [r EXCEPT !.backoff = FALSE].delivered = r.delivered
             /\ [r EXCEPT !.backoff = FALSE].parked = r.parked
             /\ [r EXCEPT !.backoff = FALSE].lease = r.lease
  BY DEF Row
<1>3. CASE LeaseLapses(d)
  <2>1. row' = [row EXCEPT ![d] = [row[d] EXCEPT !.lease = "lapsed"]]
    BY <1>3 DEF LeaseLapses
  <2> QED
    BY <1>1, <1>3, <2>1
<1>4. CASE BackoffEnds(d)
  <2>1. row' = [row EXCEPT ![d] = [row[d] EXCEPT !.backoff = FALSE]]
    BY <1>4 DEF BackoffEnds
  <2> QED
    BY <1>2, <2>1
<1> QED
  BY <1>3, <1>4

-----------------------------------------------------------------------------
(* The batches.                                                            *)

LEMMA InitIsInv == Init => Inv
<1>1. ASSUME Init PROVE BatchesInv
  BY <1>1, DeliveryAssumption DEF Init, BatchesInv, TypeOK, Row, NewRow, Deliveries,
     OncePerBatch, AttemptsUnshared, RestsAtApply
<1>2. ASSUME Init, NEW d \in Deliveries PROVE sends[d] <= Cardinality(Spent(d))
  <2>1. Spent(d) \subseteq 1..MaxAttempts
    BY DEF Spent
  <2>2. IsFiniteSet(1..MaxAttempts)
    <3>1. 1 \in Int /\ MaxAttempts \in Int
      BY DeliveryAssumption
    <3> QED
      BY <3>1, FS_Interval
  <2>3. IsFiniteSet(Spent(d))
    BY <2>1, <2>2, FS_Subset
  <2>4. Cardinality(Spent(d)) \in Nat
    BY <2>3, FS_CardinalityType
  <2> QED
    BY <1>2, <2>4 DEF Init
<1>3. ASSUME Init PROVE SendsInv
  BY <1>2, <1>3 DEF Init, SendsInv, SentBeforeAck, DeliveredWasSent, SendsCounted, NewRow
<1>4. ASSUME Init PROVE ExcuseInv
  BY <1>4 DEF Init, ExcuseInv, HeldOnce, HeldIsLive, SentIsKept
<1> QED
  BY <1>1, <1>3, <1>4 DEF Inv

\* Every step keeps the types, and shares no attempt between two loops.
LEMMA BatchesStep ==
  ASSUME BatchesInv, [Next]_vars
  PROVE  BatchesInv'
<1> USE DeliveryAssumption DEF BatchesInv, Deliveries, history
<1>1. CASE Enqueue
  BY <1>1 DEF Enqueue, TypeOK, NewRow, OncePerBatch, AttemptsUnshared, RestsAtApply
<1>2. ASSUME NEW d \in Deliveries, LeaseLapses(d) \/ BackoffEnds(d) PROVE BatchesInv'
  <2>1. d <= queued
    BY <1>2 DEF LeaseLapses, BackoffEnds, TypeOK, NewRow
  <2>2. /\ row' \in [Deliveries -> Row]
        /\ \A e \in Deliveries : row'[e].attempts = row[e].attempts
        /\ \A e \in Deliveries : e # d => row'[e] = row[e]
    BY <1>2, TimeWrites DEF TypeOK
  <2>3. /\ UNCHANGED <<queued, batch, step, faults, sends>>
        /\ excused' \in {excused, excused \cup {d}}
    BY <1>2 DEF LeaseLapses, BackoffEnds
  <2>4. \A p \in Processes : \A b \in batch[p] : b.id \in Deliveries
    BY DEF TypeOK
  <2>5. TypeOK'
    BY <2>1, <2>2, <2>3, <2>4 DEF TypeOK
  <2> QED
    BY <2>3, <2>5 DEF OncePerBatch, AttemptsUnshared, RestsAtApply
<1>4. ASSUME NEW p \in Processes, Tick(p) PROVE BatchesInv'
  <2>1. \A d \in Claimed : d \in Deliveries /\ d <= queued
    BY DEF Claimed, Claimable
  <2>2. /\ row' = [d \in Deliveries |-> IF d \in Claimed THEN Leased(row[d]) ELSE row[d]]
        /\ batch' = [batch EXCEPT ![p] =
             {[id |-> d, attempt |-> row[d].attempts + 1] : d \in Claimed}]
        /\ UNCHANGED <<queued, step, faults, sends, excused>>
        /\ batch[p] = {} /\ Claimed # {}
    BY <1>4 DEF Tick
  <2>3. \A d \in Deliveries :
          /\ row[d] \in Row /\ row'[d] \in Row
          /\ row[d].attempts \in Nat
          /\ d \in Claimed => row'[d].attempts = row[d].attempts + 1
          /\ row'[d].attempts \in {row[d].attempts, row[d].attempts + 1}
    <3>1. ASSUME NEW d \in Deliveries PROVE row[d] \in Row /\ row[d].attempts \in Nat
      BY DEF TypeOK, Row
    <3> QED
      BY <2>2, <3>1, RowWrites
  <2>4. \A b \in batch'[p] :
          b.id \in Claimed /\ b.attempt = row[b.id].attempts + 1
    BY <2>2 DEF TypeOK
  <2>5. \A q \in Processes \ {p} : batch'[q] = batch[q]
    BY <2>2 DEF TypeOK
  <2>6. row' \in [Deliveries -> Row]
    BY <2>2, <2>3
  <2>7. \A d \in Deliveries : d > queued' => row'[d] = NewRow
    BY <2>1, <2>2 DEF TypeOK
  <2>8. batch'[p] \in SUBSET [id : Deliveries, attempt : Nat \ {0}]
    BY <2>1, <2>2, <2>3 DEF TypeOK
  <2>9. \A b \in batch'[p] : b.attempt <= row'[b.id].attempts
    BY <2>1, <2>3, <2>4
  <2>10. \A q \in Processes : \A b \in batch'[q] : b.attempt <= row'[b.id].attempts
    <3>1. ASSUME NEW q \in Processes, NEW b \in batch[q]
          PROVE  b.attempt <= row'[b.id].attempts
      <4>1. b.id \in Deliveries /\ b.attempt \in Nat /\ b.attempt <= row[b.id].attempts
        BY DEF TypeOK
      <4> QED
        BY <2>3, <4>1
    <3> QED
      BY <2>5, <2>9, <3>1
  <2>11. batch' \in [Processes -> SUBSET [id : Deliveries, attempt : Nat \ {0}]]
    BY <2>2, <2>8 DEF TypeOK
  <2>12. TypeOK'
    BY <2>2, <2>6, <2>7, <2>10, <2>11 DEF TypeOK
  <2>13. OncePerBatch'
    BY <2>2, <2>5 DEF OncePerBatch, TypeOK
  <2>14. ASSUME NEW q \in Processes \ {p}, NEW b \in batch'[p], NEW c \in batch'[q],
                b.id = c.id
         PROVE  b.attempt # c.attempt
    <3>1. c \in batch[q] /\ c.attempt <= row[c.id].attempts /\ c.id \in Deliveries
      BY <2>5 DEF TypeOK
    <3>2. c.attempt \in Nat /\ row[c.id].attempts \in Nat
      BY <2>3, <3>1 DEF TypeOK
    <3> QED
      BY <2>4, <2>14, <3>1, <3>2
  <2>15. AttemptsUnshared'
    BY <2>5, <2>14 DEF AttemptsUnshared
  <2>16. RestsAtApply'
    BY <2>2 DEF RestsAtApply, TypeOK
  <2> QED
    BY <2>12, <2>13, <2>15, <2>16
<1>5. ASSUME NEW p \in Processes, NEW b \in batch[p],
             \/ Park(p, b) \/ Ack(p, b) \/ Fail(p, b)
      PROVE  BatchesInv'
  <2>1. PICK r :
          /\ Settle(p, b, r)
          /\ r \in {Parked(row[b.id]), Acked(row[b.id]), Retried(row[b.id])}
          /\ UNCHANGED <<queued, faults, sends, excused>>
    BY <1>5 DEF Park, Ack, Fail
  <2>2. b.id \in Deliveries /\ b.id <= queued
    <3>1. b.id \in Deliveries /\ b.attempt \in Nat \ {0} /\ b.attempt <= row[b.id].attempts
      BY DEF TypeOK
    <3> QED
      BY <3>1 DEF TypeOK, NewRow
  <2>3. r \in Row /\ r.attempts = row[b.id].attempts
    <3>1. row[b.id] \in Row
      BY <2>2 DEF TypeOK
    <3> QED
      BY <2>1, <3>1, RowWrites
  <2>4. TypeOK'
    BY <2>1, <2>2, <2>3 DEF TypeOK, Settle
  <2>5. OncePerBatch' /\ AttemptsUnshared' /\ RestsAtApply'
    BY <2>1 DEF TypeOK, Settle, OncePerBatch, AttemptsUnshared, RestsAtApply
  <2> QED
    BY <2>4, <2>5
<1>6. ASSUME NEW p \in Processes, NEW b \in batch[p],
             \/ ParkThrows(p, b) \/ AckThrows(p, b)
      PROVE  BatchesInv'
  <2>1. /\ \/ row' = row
           \/ row' = [row EXCEPT ![b.id] = Parked(@)]
           \/ row' = [row EXCEPT ![b.id] = Acked(@)]
        /\ step' = [step EXCEPT ![p] = "fail"]
        /\ Fault
        /\ UNCHANGED <<queued, batch, sends>>
        /\ excused' \in {excused, excused \cup {b.id}}
    BY <1>6 DEF ParkThrows, AckThrows
  <2>2. b.id \in Deliveries /\ b.id <= queued
    <3>1. b.id \in Deliveries /\ b.attempt \in Nat \ {0} /\ b.attempt <= row[b.id].attempts
      BY DEF TypeOK
    <3> QED
      BY <3>1 DEF TypeOK, NewRow
  <2>3. /\ row' \in [Deliveries -> Row]
        /\ \A d \in Deliveries : row'[d].attempts = row[d].attempts
        /\ \A d \in Deliveries \ {b.id} : row'[d] = row[d]
    <3>1. row[b.id] \in Row
      BY <2>2 DEF TypeOK
    <3>2. PICK r \in Row : row' = [row EXCEPT ![b.id] = r] /\ r.attempts = row[b.id].attempts
      BY <2>1, <2>2, <3>1, RowWrites DEF TypeOK
    <3> QED
      BY <2>2, <3>2 DEF TypeOK
  <2>5. \A q \in Processes : \A c \in batch[q] : c.id \in Deliveries
    BY DEF TypeOK
  <2>6. TypeOK'
    BY <2>1, <2>2, <2>3, <2>5 DEF TypeOK, Fault
  <2>4. OncePerBatch' /\ AttemptsUnshared' /\ RestsAtApply'
    BY <2>1 DEF TypeOK, OncePerBatch, AttemptsUnshared, RestsAtApply
  <2> QED
    BY <2>4, <2>6
<1>7. ASSUME NEW p \in Processes, NEW b \in batch[p],
             \/ Send(p, b) \/ SendThrows(p, b)
      PROVE  BatchesInv'
  <2>1. /\ sends' \in {sends, [sends EXCEPT ![b.id] = @ + 1]}
        /\ step' \in {[step EXCEPT ![p] = "ack"], [step EXCEPT ![p] = "fail"]}
        /\ UNCHANGED <<queued, row, batch, faults>>
        /\ excused' \in {excused, excused \cup {b.id}}
    BY <1>7 DEF Send, SendThrows
  <2>2. b.id \in Deliveries
    BY DEF TypeOK
  <2>3. TypeOK'
    BY <2>1, <2>2 DEF TypeOK
  <2>4. OncePerBatch' /\ AttemptsUnshared' /\ RestsAtApply'
    BY <2>1 DEF TypeOK, OncePerBatch, AttemptsUnshared, RestsAtApply
  <2> QED
    BY <2>3, <2>4
<1>8. ASSUME NEW p \in Processes, Crash(p) PROVE BatchesInv'
  BY <1>8 DEF Crash, Fault, TypeOK, OncePerBatch, AttemptsUnshared, RestsAtApply
<1>9. CASE UNCHANGED vars
  BY <1>9 DEF vars, TypeOK, OncePerBatch, AttemptsUnshared, RestsAtApply
<1> QED
  BY <1>1, <1>2, <1>4, <1>5, <1>6, <1>7, <1>8, <1>9 DEF Next, Applied

-----------------------------------------------------------------------------
(* The number of sends.                                                    *)

\* A step counts no attempt back, and what a loop holds and has not sent after
\* it was held and not sent before, or was claimed by this step.
LEMMA OldOrClaimed ==
  ASSUME BatchesInv, [Next]_vars
  PROVE  /\ \A d \in Deliveries : row[d].attempts <= row'[d].attempts
         /\ \A p \in Processes : \A b \in batch'[p] :
              \/ b \in batch[p] /\ (Waits(p, b)' => Waits(p, b))
              \/ b.attempt = row[b.id].attempts + 1
<1> DEFINE Goal ==
      /\ \A d \in Deliveries : row[d].attempts <= row'[d].attempts
      /\ \A p \in Processes : \A b \in batch'[p] :
           \/ b \in batch[p] /\ (Waits(p, b)' => Waits(p, b))
           \/ b.attempt = row[b.id].attempts + 1
<1>1. \A d \in Deliveries : row[d] \in Row /\ row[d].attempts \in Nat
  BY DEF BatchesInv, TypeOK, Row
<1>2. \A p \in Processes : \A b \in batch[p] : b.id \in Deliveries /\ b.id \in Int
  BY DEF BatchesInv, TypeOK, Deliveries
<1>3. ASSUME NEW d \in Deliveries, LeaseLapses(d) \/ BackoffEnds(d) PROVE Goal
  <2>1. \A e \in Deliveries : row'[e].attempts = row[e].attempts
    BY <1>3, TimeWrites DEF BatchesInv, TypeOK
  <2> QED
    BY <1>1, <1>3, <2>1 DEF LeaseLapses, BackoffEnds, Waits
<1>4. ASSUME NEW p \in Processes, Tick(p) PROVE Goal
  <2>1. /\ row' = [d \in Deliveries |-> IF d \in Claimed THEN Leased(row[d]) ELSE row[d]]
        /\ batch' = [batch EXCEPT ![p] =
             {[id |-> d, attempt |-> row[d].attempts + 1] : d \in Claimed}]
        /\ UNCHANGED step
    BY <1>4 DEF Tick
  <2>2. \A d \in Deliveries : row[d].attempts <= row'[d].attempts
    BY <1>1, <2>1, RowWrites
  <2>3. \A b \in batch'[p] : b.attempt = row[b.id].attempts + 1
    BY <2>1 DEF BatchesInv, TypeOK
  <2>4. \A q \in Processes \ {p} : batch'[q] = batch[q] /\ step'[q] = step[q]
    BY <2>1 DEF BatchesInv, TypeOK
  <2> QED
    BY <2>2, <2>3, <2>4 DEF Waits
<1>5. ASSUME NEW p \in Processes, NEW b \in batch[p],
             \/ Park(p, b) \/ Ack(p, b) \/ Fail(p, b)
      PROVE  Goal
  <2>1. PICK r :
          /\ Settle(p, b, r)
          /\ r \in {Parked(row[b.id]), Acked(row[b.id]), Retried(row[b.id])}
          /\ \A c \in batch[p] : b.id <= c.id
    BY <1>5 DEF Park, Ack, Fail, At
  <2>2. r.attempts = row[b.id].attempts
    BY <1>1, <1>2, <2>1, RowWrites
  <2>3. \A d \in Deliveries : row'[d].attempts = row[d].attempts
    BY <1>2, <2>1, <2>2 DEF Settle, BatchesInv, TypeOK
  <2>4. /\ batch'[p] = batch[p] \ {b}
        /\ \A q \in Processes \ {p} : batch'[q] = batch[q] /\ step'[q] = step[q]
    BY <2>1 DEF Settle, BatchesInv, TypeOK
  <2>5. \A c \in batch'[p] : c \in batch[p] /\ b.id < c.id
    BY <1>2, <2>1, <2>4 DEF BatchesInv, OncePerBatch
  <2> QED
    BY <1>1, <2>3, <2>4, <2>5 DEF Waits
<1>6. ASSUME NEW p \in Processes, NEW b \in batch[p],
             \/ ParkThrows(p, b) \/ AckThrows(p, b) \/ Send(p, b) \/ SendThrows(p, b)
      PROVE  Goal
  <2>1. /\ \/ row' = row
           \/ row' = [row EXCEPT ![b.id] = Parked(@)]
           \/ row' = [row EXCEPT ![b.id] = Acked(@)]
        /\ UNCHANGED batch
        /\ \/ step' = [step EXCEPT ![p] = "fail"]
           \/ step' = [step EXCEPT ![p] = "ack"]
    BY <1>6 DEF ParkThrows, AckThrows, Send, SendThrows
  <2>2. \A d \in Deliveries : row'[d].attempts = row[d].attempts
    BY <1>1, <1>2, <2>1, RowWrites DEF BatchesInv, TypeOK
  <2> QED
    BY <1>1, <2>1, <2>2 DEF Waits, BatchesInv, TypeOK
<1>7. ASSUME NEW p \in Processes, Crash(p) PROVE Goal
  BY <1>1, <1>7 DEF Crash, Waits, BatchesInv, TypeOK
<1>8. CASE Enqueue
  BY <1>1, <1>8 DEF Enqueue, Waits
<1>9. CASE UNCHANGED vars
  BY <1>1, <1>9 DEF vars, Waits
<1> QED
  BY <1>3, <1>4, <1>5, <1>6, <1>7, <1>8, <1>9 DEF Next, Applied

\* An attempt that is through stays through.
LEMMA SpentGrows ==
  ASSUME BatchesInv, [Next]_vars, NEW d \in Deliveries
  PROVE  Spent(d) \subseteq Spent(d)'
<1>1. SUFFICES ASSUME NEW n \in Spent(d) PROVE n \in Spent(d)'
  OBVIOUS
<1>2. /\ n \in 1..MaxAttempts /\ n <= row[d].attempts /\ n \notin Unsent(d)
      /\ row[d].attempts \in Nat
  BY DEF Spent, BatchesInv, TypeOK, Row
<1>3. row'[d].attempts \in Nat
  BY BatchesStep DEF BatchesInv, TypeOK, Row
<1>4. n <= row'[d].attempts
  BY <1>2, <1>3, OldOrClaimed, DeliveryAssumption
<1>5. ASSUME NEW p \in Processes, NEW b \in batch'[p], b.id = d, b.attempt = n, Waits(p, b)'
      PROVE  FALSE
  <2>1. b.attempt # row[b.id].attempts + 1
    BY <1>2, <1>5, DeliveryAssumption
  <2>2. b \in batch[p] /\ Waits(p, b)
    BY <1>5, <2>1, OldOrClaimed
  <2> QED
    BY <1>2, <1>5, <2>2 DEF Unsent
<1> QED
  BY <1>2, <1>4, <1>5 DEF Spent, Unsent

\* The number of attempts that are through is a number, and at most MaxAttempts.
LEMMA SpentIsBounded ==
  ASSUME NEW S \in SUBSET (1..MaxAttempts)
  PROVE  IsFiniteSet(S) /\ Cardinality(S) \in Nat /\ Cardinality(S) <= MaxAttempts
<1>1. 1 \in Int /\ MaxAttempts \in Nat \ {0}
  BY DeliveryAssumption
<1>2. IsFiniteSet(1..MaxAttempts) /\ Cardinality(1..MaxAttempts) = MaxAttempts
  BY <1>1, FS_Interval
<1> QED
  BY <1>2, FS_Subset, FS_CardinalityType

\* A send is one more attempt that is through.
LEMMA SendSpends ==
  ASSUME BatchesInv, NEW p \in Processes, NEW b \in batch[p],
         Send(p, b) \/ SendThrows(p, b)
  PROVE  b.attempt \in Spent(b.id)' \ Spent(b.id)
<1>1. /\ step[p] = "apply" /\ ~Surrendered(b.attempt)
      /\ \A c \in batch[p] : b.id <= c.id
      /\ UNCHANGED <<row, batch>>
      /\ step' = [step EXCEPT ![p] = "ack"] \/ step' = [step EXCEPT ![p] = "fail"]
  BY DEF Send, SendThrows, At
<1>2. /\ b.id \in Deliveries /\ b.attempt \in Nat \ {0}
      /\ b.attempt <= row[b.id].attempts
      /\ step' \in [Processes -> {"apply", "ack", "fail"}] /\ step'[p] # "apply"
      /\ \A c \in batch[p] : c.id \in Int
  BY <1>1 DEF BatchesInv, TypeOK, Deliveries
<1>3. b.attempt \in 1..MaxAttempts
  BY <1>1, <1>2, DeliveryAssumption DEF Surrendered
<1>4. b.attempt \in Unsent(b.id)
  BY <1>1, <1>2, <1>3 DEF Unsent, Waits
<1>5. ASSUME NEW q \in Processes, NEW c \in batch[q], c.id = b.id, c.attempt = b.attempt,
             Waits(q, c)'
      PROVE  FALSE
  <2>1. q = p
    BY <1>5 DEF BatchesInv, AttemptsUnshared
  <2>2. c = b
    BY <1>5, <2>1 DEF BatchesInv, OncePerBatch
  <2> QED
    BY <1>1, <1>2, <1>5, <2>1, <2>2 DEF Waits
<1>6. b.attempt \notin Unsent(b.id)'
  BY <1>1, <1>5 DEF Unsent
<1> QED
  BY <1>1, <1>2, <1>3, <1>4, <1>6 DEF Spent

\* What a step does to the number of sends.
LEMMA SendsMove ==
  ASSUME BatchesInv, [Next]_vars, NEW d \in Deliveries
  PROVE  /\ sends[d] \in Nat
         /\ \/ sends'[d] = sends[d]
            \/ /\ sends'[d] = sends[d] + 1
               /\ \E p \in Processes : \E b \in batch[p] :
                    b.id = d /\ (Send(p, b) \/ SendThrows(p, b))
<1>1. sends \in [Deliveries -> Nat]
  BY DEF BatchesInv, TypeOK
<1>2. \A p \in Processes : \A b \in batch[p] : b.id \in Deliveries
  BY DEF BatchesInv, TypeOK
<1>3. ASSUME NEW p \in Processes, NEW b \in batch[p], Send(p, b) \/ SendThrows(p, b)
      PROVE  \/ sends'[d] = sends[d]
             \/ sends'[d] = sends[d] + 1 /\ b.id = d
  BY <1>1, <1>2, <1>3 DEF Send, SendThrows, history
<1>4. ASSUME NEW p \in Processes, NEW b \in batch[p],
             Park(p, b) \/ ParkThrows(p, b) \/ Ack(p, b) \/ AckThrows(p, b) \/ Fail(p, b)
      PROVE  sends' = sends
  BY <1>4 DEF Park, ParkThrows, Ack, AckThrows, Fail, history
<1>5. ASSUME \/ Enqueue
             \/ \E e \in Deliveries : LeaseLapses(e) \/ BackoffEnds(e)
             \/ \E p \in Processes : Tick(p) \/ Crash(p)
             \/ UNCHANGED vars
      PROVE  sends' = sends
  BY <1>5 DEF Enqueue, LeaseLapses, BackoffEnds, Tick, Crash, vars, history
<1> QED
  BY <1>1, <1>3, <1>4, <1>5 DEF Next, Applied

\* A step sends no more than it spends.
LEMMA SendsStayCounted ==
  ASSUME BatchesInv, SendsCounted, [Next]_vars
  PROVE  SendsCounted'
<1> SUFFICES ASSUME NEW d \in Deliveries PROVE sends'[d] <= Cardinality(Spent(d)')
  BY DEF SendsCounted, Deliveries
<1>1. Spent(d) \subseteq Spent(d)' /\ Spent(d)' \subseteq 1..MaxAttempts
  BY SpentGrows DEF Spent
<1>2. /\ IsFiniteSet(Spent(d)) /\ IsFiniteSet(Spent(d)')
      /\ Cardinality(Spent(d)) \in Nat /\ Cardinality(Spent(d)') \in Nat
  BY <1>1, SpentIsBounded
<1>3. Cardinality(Spent(d)) <= Cardinality(Spent(d)')
  BY <1>1, <1>2, FS_Subset
<1>4. sends[d] <= Cardinality(Spent(d)) /\ sends[d] \in Nat
  BY SendsMove DEF SendsCounted
<1>5. CASE sends'[d] = sends[d]
  BY <1>2, <1>3, <1>4, <1>5
<1>6. CASE sends'[d] # sends[d]
  <2>1. sends'[d] = sends[d] + 1
    BY <1>6, SendsMove
  <2>5. PICK p \in Processes :
          \E b \in batch[p] : b.id = d /\ (Send(p, b) \/ SendThrows(p, b))
    BY <1>6, SendsMove
  <2>2. PICK b \in batch[p] : b.id = d /\ (Send(p, b) \/ SendThrows(p, b))
    BY <2>5
  <2>3. b.attempt \in Spent(d)' \ Spent(d)
    BY <2>2, SendSpends
  <2>4. Cardinality(Spent(d)) # Cardinality(Spent(d)')
    BY <1>1, <1>2, <2>3, FS_Subset
  <2> QED
    BY <1>2, <1>3, <1>4, <2>1, <2>4
<1> QED
  BY <1>5, <1>6

\* A delivery counts as delivered only after it was sent.
LEMMA DeliveredStaysSent ==
  ASSUME BatchesInv, SentBeforeAck, DeliveredWasSent, [Next]_vars
  PROVE  SentBeforeAck' /\ DeliveredWasSent'
<1> DEFINE Goal == SentBeforeAck' /\ DeliveredWasSent'
<1>1. \A d \in Deliveries : sends[d] > 0 => sends'[d] > 0
  BY SendsMove
<1>2. /\ row \in [Deliveries -> Row] /\ step \in [Processes -> {"apply", "ack", "fail"}]
      /\ batch \in [Processes -> SUBSET [id : Deliveries, attempt : Nat \ {0}]]
      /\ sends \in [Deliveries -> Nat]
  BY DEF BatchesInv, TypeOK
<1>3. \A p \in Processes : \A b \in batch[p] : b.id \in Deliveries /\ b.id \in Int
  BY <1>2 DEF Deliveries
<1>4. ASSUME NEW d \in Deliveries, LeaseLapses(d) \/ BackoffEnds(d) PROVE Goal
  <2>1. \A e \in Deliveries : row'[e].delivered = row[e].delivered
    BY <1>2, <1>4, TimeWrites
  <2>2. UNCHANGED <<batch, step, sends>>
    BY <1>4 DEF LeaseLapses, BackoffEnds, history
  <2> QED
    BY <2>1, <2>2 DEF SentBeforeAck, DeliveredWasSent, At
<1>5. ASSUME NEW p \in Processes, Tick(p) PROVE Goal
  <2>1. /\ row' = [d \in Deliveries |-> IF d \in Claimed THEN Leased(row[d]) ELSE row[d]]
        /\ \A q \in Processes \ {p} : batch'[q] = batch[q]
        /\ UNCHANGED <<step, sends>>
        /\ step[p] = "apply"
    BY <1>2, <1>5 DEF Tick, history, BatchesInv, RestsAtApply
  <2>2. \A d \in Deliveries : row'[d].delivered = row[d].delivered
    BY <1>2, <2>1, RowWrites
  <2> QED
    BY <2>1, <2>2 DEF SentBeforeAck, DeliveredWasSent, At
<1>6. ASSUME NEW p \in Processes, NEW b \in batch[p], Park(p, b) \/ Ack(p, b) \/ Fail(p, b)
      PROVE  Goal
  <2>1. PICK r :
          /\ Settle(p, b, r)
          /\ \/ r = Parked(row[b.id]) \/ r = Retried(row[b.id])
             \/ r = Acked(row[b.id]) /\ At(p, "ack", b)
          /\ sends' = sends
    BY <1>6 DEF Park, Ack, Fail, history
  <2>2. r.delivered => sends[b.id] > 0
    BY <1>2, <1>3, <2>1, RowWrites DEF SentBeforeAck, DeliveredWasSent
  <2>3. DeliveredWasSent'
    BY <1>2, <1>3, <2>1, <2>2 DEF Settle, DeliveredWasSent
  <2>4. SentBeforeAck'
    BY <1>2, <2>1 DEF Settle, SentBeforeAck, At
  <2> QED
    BY <2>3, <2>4
<1>7. ASSUME NEW p \in Processes, NEW b \in batch[p], ParkThrows(p, b) \/ AckThrows(p, b)
      PROVE  Goal
  <2>1. /\ \/ row' = row
           \/ row' = [row EXCEPT ![b.id] = Parked(@)]
           \/ row' = [row EXCEPT ![b.id] = Acked(@)] /\ At(p, "ack", b)
        /\ step' = [step EXCEPT ![p] = "fail"]
        /\ UNCHANGED <<batch, sends>>
    BY <1>7 DEF ParkThrows, AckThrows, history
  <2>2. row'[b.id].delivered => sends[b.id] > 0
    BY <1>2, <1>3, <2>1, RowWrites DEF SentBeforeAck, DeliveredWasSent
  <2>3. \A d \in Deliveries \ {b.id} : row'[d] = row[d]
    BY <1>2, <2>1
  <2>4. DeliveredWasSent'
    BY <2>1, <2>2, <2>3 DEF DeliveredWasSent
  <2>5. SentBeforeAck'
    BY <1>2, <2>1 DEF SentBeforeAck, At
  <2> QED
    BY <2>4, <2>5
<1>8. ASSUME NEW p \in Processes, NEW b \in batch[p], Send(p, b) \/ SendThrows(p, b)
      PROVE  Goal
  <2>1. /\ UNCHANGED <<row, batch>>
        /\ \A q \in Processes \ {p} : step'[q] = step[q]
        /\ \A c \in batch[p] : b.id <= c.id
        /\ step'[p] = "ack" => sends' = [sends EXCEPT ![b.id] = @ + 1]
    BY <1>2, <1>8 DEF Send, SendThrows, At
  <2>2. step'[p] = "ack" => sends'[b.id] > 0
    BY <1>2, <1>3, <2>1
  <2>3. ASSUME NEW c \in batch[p], \A e \in batch[p] : c.id <= e.id
        PROVE  c.id = b.id
    BY <1>3, <2>1, <2>3
  <2>4. SentBeforeAck'
    BY <1>1, <1>3, <2>1, <2>2, <2>3 DEF SentBeforeAck, At
  <2> QED
    BY <1>1, <2>1, <2>4 DEF DeliveredWasSent
<1>9. ASSUME Enqueue \/ UNCHANGED vars \/ \E p \in Processes : Crash(p) PROVE Goal
  BY <1>2, <1>9 DEF Enqueue, Crash, vars, history, SentBeforeAck, DeliveredWasSent, At
<1> QED
  BY <1>4, <1>5, <1>6, <1>7, <1>8, <1>9 DEF Next, Applied

-----------------------------------------------------------------------------
(* Why a message is sent again.                                            *)

\* A loop calls the provider for a delivery that was sent before only if
\* something excused it.
LEMMA ResendIsExcused ==
  ASSUME BatchesInv, ExcuseInv, NEW p \in Processes, NEW b \in batch[p],
         step[p] # "ack", sends[b.id] > 0
  PROVE  b.id \in excused
<1>1. b.id \in Deliveries
  BY DEF BatchesInv, TypeOK
<1>2. SUFFICES ASSUME b.id \notin excused PROVE FALSE
  OBVIOUS
<1>3. ~row[b.id].delivered
  BY <1>2 DEF ExcuseInv, HeldIsLive
<1>4. At(p, "ack", b)
  BY <1>1, <1>2, <1>3 DEF ExcuseInv, SentIsKept
<1> QED
  BY <1>4 DEF At

\* Every step keeps what is said of the deliveries nothing excuses.
LEMMA ExcuseStep ==
  ASSUME BatchesInv, ExcuseInv, [Next]_vars
  PROVE  ExcuseInv'
<1>1. /\ row \in [Deliveries -> Row] /\ step \in [Processes -> {"apply", "ack", "fail"}]
      /\ batch \in [Processes -> SUBSET [id : Deliveries, attempt : Nat \ {0}]]
      /\ sends \in [Deliveries -> Nat] /\ excused \subseteq Deliveries
  BY DEF BatchesInv, TypeOK
<1>2. \A p \in Processes : \A b \in batch[p] : b.id \in Deliveries /\ b.id \in Int
  BY <1>1 DEF Deliveries
<1>3. \A p \in Processes : \A b, c \in batch[p] : b.id = c.id => b = c
  BY DEF BatchesInv, OncePerBatch
<1>4. ASSUME NEW d \in Deliveries, LeaseLapses(d) \/ BackoffEnds(d) PROVE ExcuseInv'
  <2>1. /\ \A e \in Deliveries :
             /\ row'[e].delivered = row[e].delivered /\ row'[e].parked = row[e].parked
             /\ e # d \/ ~LeaseLapses(d) => row'[e].lease = row[e].lease
    BY <1>1, <1>4, TimeWrites
  <2>2. UNCHANGED <<batch, step, sends>> /\ excused \subseteq excused'
    BY <1>4 DEF LeaseLapses, BackoffEnds, history
  <2>3. LeaseLapses(d) => d \in excused'
    BY DEF LeaseLapses
  <2>4. HeldOnce'
    BY <2>2 DEF ExcuseInv, HeldOnce
  <2>5. HeldIsLive'
    BY <1>2, <2>1, <2>2, <2>3 DEF ExcuseInv, HeldIsLive, At
  <2>6. SentIsKept'
    BY <2>1, <2>2, <2>3 DEF ExcuseInv, SentIsKept, At
  <2> QED
    BY <2>4, <2>5, <2>6 DEF ExcuseInv
<1>5. ASSUME NEW p \in Processes, Tick(p) PROVE ExcuseInv'
  <2>1. /\ row' = [d \in Deliveries |-> IF d \in Claimed THEN Leased(row[d]) ELSE row[d]]
        /\ batch' = [batch EXCEPT ![p] =
             {[id |-> d, attempt |-> row[d].attempts + 1] : d \in Claimed}]
        /\ UNCHANGED <<step, sends, excused>>
        /\ batch[p] = {}
    BY <1>5 DEF Tick, history
  <2>2. /\ \A b \in batch'[p] : b.id \in Claimed
        /\ \A q \in Processes \ {p} : batch'[q] = batch[q]
    BY <1>1, <2>1
  <2>3. \A d \in Claimed :
          /\ d \in Deliveries /\ ~row[d].delivered /\ ~row[d].parked /\ row[d].lease # "live"
    BY DEF Claimed, Claimable
  <2>4. \A d \in Claimed : row'[d].lease = "live" /\ ~row'[d].delivered
    BY <1>1, <2>1, <2>3, RowWrites
  <2>5. \A d \in Deliveries \ Claimed : row'[d] = row[d]
    BY <2>1
  <2>6. \A q \in Processes : \A b \in batch[q] : b.id \in Claimed => b.id \in excused
    BY <2>3 DEF ExcuseInv, HeldIsLive
  <2>7. HeldOnce'
    BY <2>1, <2>2, <2>6 DEF ExcuseInv, HeldOnce
  <2>8. HeldIsLive'
    BY <1>2, <2>1, <2>2, <2>4, <2>5, <2>6 DEF ExcuseInv, HeldIsLive, At
  <2>9. \A d \in Claimed : sends[d] > 0 => d \in excused
    BY <2>3 DEF ExcuseInv, SentIsKept
  <2>10. SentIsKept'
    BY <2>1, <2>2, <2>5, <2>9 DEF ExcuseInv, SentIsKept, At
  <2> QED
    BY <2>7, <2>8, <2>10 DEF ExcuseInv
<1>6. ASSUME NEW p \in Processes, NEW b \in batch[p], Park(p, b) \/ Ack(p, b) \/ Fail(p, b)
      PROVE  ExcuseInv'
  <2>1. PICK r :
          /\ Settle(p, b, r)
          /\ \/ r \in {Parked(row[b.id]), Retried(row[b.id])} /\ step[p] # "ack"
             \/ r = Acked(row[b.id])
          /\ UNCHANGED <<sends, excused>>
          /\ \A c \in batch[p] : b.id <= c.id
    BY <1>6 DEF Park, Ack, Fail, At, history
  <2>2. /\ \A d \in Deliveries \ {b.id} : row'[d] = row[d]
        /\ row'[b.id] = r
        /\ batch'[p] = batch[p] \ {b} /\ step'[p] = "apply"
        /\ \A q \in Processes \ {p} : batch'[q] = batch[q] /\ step'[q] = step[q]
    BY <1>1, <1>2, <2>1 DEF Settle
  <2>3. HeldOnce'
    BY <2>1, <2>2 DEF ExcuseInv, HeldOnce
  <2>4. \A q \in Processes : \A c \in batch'[q] : c.id = b.id => c.id \in excused
    BY <1>3, <2>2 DEF ExcuseInv, HeldOnce
  <2>5. \A c \in batch'[p] : ~At(p, "fail", c)
    BY <1>2, <1>3, <2>1, <2>2 DEF At
  <2>6. HeldIsLive'
    BY <1>2, <2>1, <2>2, <2>4, <2>5 DEF ExcuseInv, HeldIsLive, At
  <2>7. sends[b.id] > 0 /\ b.id \notin excused => r.delivered
    BY <1>1, <1>2, <2>1, RowWrites, ResendIsExcused
  <2>8. \A c \in batch'[p] : ~At(p, "ack", c)
    BY <1>2, <1>3, <2>1, <2>2 DEF At
  <2>9. SentIsKept'
    BY <1>2, <2>1, <2>2, <2>7, <2>8 DEF ExcuseInv, SentIsKept, At
  <2> QED
    BY <2>3, <2>6, <2>9 DEF ExcuseInv
<1>7. ASSUME NEW p \in Processes, NEW b \in batch[p], ParkThrows(p, b) \/ AckThrows(p, b)
      PROVE  ExcuseInv'
  <2>1. /\ \/ row' = row
           \/ row' = [row EXCEPT ![b.id] = Parked(@)]
           \/ row' = [row EXCEPT ![b.id] = Acked(@)] /\ b.id \in excused'
        /\ step' = [step EXCEPT ![p] = "fail"]
        /\ UNCHANGED <<batch, sends>>
        /\ excused \subseteq excused'
        /\ step[p] # "ack" \/ b.id \in excused'
        /\ \A c \in batch[p] : b.id <= c.id
    BY <1>7 DEF ParkThrows, AckThrows, At, history
  <2>2. /\ \A d \in Deliveries \ {b.id} : row'[d] = row[d]
        /\ step'[p] = "fail" /\ \A q \in Processes \ {p} : step'[q] = step[q]
    BY <1>1, <2>1
  <2>3. b.id \notin excused' =>
          /\ row'[b.id].delivered = row[b.id].delivered
          /\ \/ row'[b.id].lease = row[b.id].lease /\ row'[b.id].parked = row[b.id].parked
             \/ row'[b.id].parked
    BY <1>1, <1>2, <2>1, RowWrites
  <2>4. HeldOnce'
    BY <2>1 DEF ExcuseInv, HeldOnce
  <2>5. \A q \in Processes : \A c \in batch[q] : c.id = b.id => (c = b /\ q = p) \/ c.id \in excused
    BY <1>3 DEF ExcuseInv, HeldOnce
  <2>6. HeldIsLive'
    <3>1. ASSUME b.id \notin excused'
          PROVE  ~row'[b.id].delivered /\
                 (row'[b.id].lease = "live" \/ (row'[b.id].parked /\ At(p, "fail", b)'))
      BY <2>1, <2>2, <2>3, <3>1 DEF ExcuseInv, HeldIsLive, At
    <3>2. ASSUME NEW q \in Processes, NEW c \in batch[q], c.id # b.id, At(q, "fail", c)
          PROVE  At(q, "fail", c)'
      BY <1>2, <2>1, <2>2, <3>2 DEF At
    <3>3. ASSUME NEW q \in Processes, NEW c \in batch[q], c.id \notin excused'
          PROVE  ~row'[c.id].delivered /\
                 (row'[c.id].lease = "live" \/ (row'[c.id].parked /\ At(q, "fail", c)'))
      <4>1. CASE c.id = b.id
        BY <2>1, <2>5, <3>1, <3>3, <4>1
      <4>2. CASE c.id # b.id
        <5>1. c.id \notin excused /\ row'[c.id] = row[c.id]
          BY <1>2, <2>1, <2>2, <3>3, <4>2
        <5>2. /\ ~row[c.id].delivered
              /\ row[c.id].lease = "live" \/ (row[c.id].parked /\ At(q, "fail", c))
          BY <5>1 DEF ExcuseInv, HeldIsLive
        <5> QED
          BY <3>2, <4>2, <5>1, <5>2
      <4> QED
        BY <4>1, <4>2
    <3> QED
      BY <2>1, <3>3 DEF HeldIsLive
  <2>7. sends[b.id] > 0 => b.id \in excused'
    BY <2>1, ResendIsExcused
  <2>8. ASSUME NEW c \in batch[p], c.id # b.id, sends[c.id] > 0, At(p, "ack", c)
        PROVE  FALSE
    BY <1>2, <2>1, <2>8 DEF At
  <2>9. SentIsKept'
    <3>1. SUFFICES ASSUME NEW d \in Deliveries, d \notin excused', sends[d] > 0
                   PROVE  \/ row'[d].delivered
                          \/ /\ row'[d].lease = "live"
                             /\ \A q \in Processes : \A c \in batch[q] :
                                  c.id = d => At(q, "ack", c)'
      BY <2>1 DEF SentIsKept, Deliveries
    <3>2. d # b.id /\ d \notin excused /\ row'[d] = row[d]
      BY <2>1, <2>2, <2>7, <3>1
    <3>3. CASE row[d].delivered
      BY <3>2, <3>3
    <3>4. CASE ~row[d].delivered
      <4>1. /\ row[d].lease = "live"
            /\ \A q \in Processes : \A c \in batch[q] : c.id = d => At(q, "ack", c)
        BY <3>1, <3>2, <3>4 DEF ExcuseInv, SentIsKept
      <4>2. \A c \in batch[p] : c.id # d
        BY <2>8, <3>1, <3>2, <4>1
      <4> QED
        BY <2>1, <2>2, <3>2, <4>1, <4>2 DEF At
    <3> QED
      BY <3>3, <3>4
  <2> QED
    BY <2>4, <2>6, <2>9 DEF ExcuseInv
<1>8. ASSUME NEW p \in Processes, NEW b \in batch[p], Send(p, b) \/ SendThrows(p, b)
      PROVE  ExcuseInv'
  <2>1. /\ UNCHANGED <<row, batch>>
        /\ step[p] = "apply"
        /\ \A q \in Processes \ {p} : step'[q] = step[q]
        /\ \A d \in Deliveries \ {b.id} : sends'[d] = sends[d]
        /\ excused \subseteq excused'
        /\ \A c \in batch[p] : b.id <= c.id
        /\ \/ step'[p] = "ack"
           \/ step'[p] = "fail" /\ (sends' = sends \/ b.id \in excused')
    BY <1>1, <1>8 DEF Send, SendThrows, At, history
  <2>2. HeldOnce'
    BY <2>1 DEF ExcuseInv, HeldOnce
  <2>3. HeldIsLive'
    BY <2>1 DEF ExcuseInv, HeldIsLive, At
  <2>4. sends[b.id] > 0 => b.id \in excused
    BY <2>1, ResendIsExcused
  <2>5. \A c \in batch[p] : sends[c.id] > 0 => c.id \in excused
    BY <2>1, ResendIsExcused
  <2>6. SentIsKept'
    <3>1. SUFFICES ASSUME NEW d \in Deliveries, d \notin excused', sends'[d] > 0
                   PROVE  \/ row[d].delivered
                          \/ /\ row[d].lease = "live"
                             /\ \A q \in Processes : \A c \in batch[q] :
                                  c.id = d => At(q, "ack", c)'
      BY <2>1 DEF SentIsKept, Deliveries
    <3>2. CASE d = b.id
      <4>1. step'[p] = "ack"
        BY <2>1, <2>4, <3>1, <3>2
      <4>2. row[d].lease = "live"
        BY <2>1, <3>1, <3>2 DEF ExcuseInv, HeldIsLive, At
      <4>3. \A q \in Processes : \A c \in batch[q] : c.id = d => q = p /\ c = b
        BY <1>3, <2>1, <3>1, <3>2 DEF ExcuseInv, HeldOnce
      <4> QED
        BY <2>1, <4>1, <4>2, <4>3 DEF At
    <3>3. CASE d # b.id
      <4>1. sends[d] > 0 /\ d \notin excused
        BY <2>1, <3>1, <3>3
      <4>2. \A c \in batch[p] : c.id # d
        BY <2>5, <4>1
      <4> QED
        BY <2>1, <4>1, <4>2 DEF ExcuseInv, SentIsKept, At
    <3> QED
      BY <3>2, <3>3
  <2> QED
    BY <2>2, <2>3, <2>6 DEF ExcuseInv
<1>9. ASSUME NEW p \in Processes, Crash(p) PROVE ExcuseInv'
  <2>1. /\ UNCHANGED <<row, sends, excused>>
        /\ batch'[p] = {}
        /\ \A q \in Processes \ {p} : batch'[q] = batch[q] /\ step'[q] = step[q]
    BY <1>1, <1>9 DEF Crash, history
  <2>2. HeldOnce'
    BY <2>1 DEF ExcuseInv, HeldOnce
  <2>3. HeldIsLive'
    BY <2>1 DEF ExcuseInv, HeldIsLive, At
  <2>4. SentIsKept'
    BY <2>1 DEF ExcuseInv, SentIsKept, At
  <2> QED
    BY <2>2, <2>3, <2>4 DEF ExcuseInv
<1>10. ASSUME Enqueue \/ UNCHANGED vars PROVE ExcuseInv'
  BY <1>10 DEF Enqueue, vars, history, ExcuseInv, HeldOnce, HeldIsLive, SentIsKept, At
<1> QED
  BY <1>4, <1>5, <1>6, <1>7, <1>8, <1>9, <1>10 DEF Next, Applied

-----------------------------------------------------------------------------
(* The theorems.                                                           *)

\* The inductive invariant holds in every reachable state.
THEOREM InvHolds == Spec => []Inv
<1>1. Inv /\ [Next]_vars => Inv'
  BY BatchesStep, SendsStayCounted, DeliveredStaysSent, ExcuseStep DEF Inv, SendsInv
<1> QED
  BY InitIsInv, <1>1, PTL DEF Spec

\* The variables of the queue and of its loops keep their types.
THEOREM TypesHold == Spec => []TypeOK
<1>1. Inv => TypeOK
  BY DEF Inv, BatchesInv
<1> QED
  BY InvHolds, <1>1, PTL

\* A message reaches its provider at most MaxAttempts times, whichever loops
\* claim it and lose it, and one that counts as delivered did reach it.
THEOREM SendsBoundedHolds == Spec => []SendsBounded
<1>1. ASSUME Inv, NEW d \in Deliveries
      PROVE  sends[d] <= MaxAttempts /\ (row[d].delivered => sends[d] > 0)
  <2>1. Spent(d) \subseteq 1..MaxAttempts
    BY DEF Spent
  <2>2. Cardinality(Spent(d)) \in Nat /\ Cardinality(Spent(d)) <= MaxAttempts
    BY <2>1, SpentIsBounded
  <2>3. sends[d] \in Nat /\ sends[d] <= Cardinality(Spent(d))
    BY <1>1 DEF Inv, BatchesInv, TypeOK, SendsInv, SendsCounted
  <2>4. row[d].delivered => sends[d] > 0
    BY <1>1 DEF Inv, SendsInv, DeliveredWasSent
  <2> QED
    BY <2>2, <2>3, <2>4, DeliveryAssumption
<1>2. Inv => SendsBounded
  BY <1>1 DEF SendsBounded
<1> QED
  BY InvHolds, <1>2, PTL

\* A message is sent a second time only after its lease lapsed, a call of the
\* provider threw, or its ack did.
THEOREM SecondSendHasCauseHolds == Spec => SecondSendHasCause
<1>1. ASSUME Inv, [Next]_vars, NEW d \in Deliveries, sends'[d] > sends[d], sends[d] > 0
      PROVE  d \in excused
  <2>1. sends[d] \in Nat /\ sends'[d] # sends[d]
    BY <1>1 DEF Inv, BatchesInv, TypeOK
  <2>2. PICK p \in Processes :
          \E b \in batch[p] : b.id = d /\ (Send(p, b) \/ SendThrows(p, b))
    BY <1>1, <2>1, SendsMove DEF Inv
  <2>3. PICK b \in batch[p] : b.id = d /\ (Send(p, b) \/ SendThrows(p, b))
    BY <2>2
  <2>4. step[p] # "ack"
    BY <2>3 DEF Send, SendThrows, At
  <2> QED
    BY <1>1, <2>3, <2>4, ResendIsExcused DEF Inv
<1>2. Inv /\ [Next]_vars =>
        [\A d \in Deliveries : sends'[d] > sends[d] /\ sends[d] > 0 => d \in excused]_vars
  BY <1>1
<1> QED
  BY InvHolds, <1>2, PTL DEF Spec, SecondSendHasCause
=============================================================================
