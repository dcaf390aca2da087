--------------------------- MODULE RunRowsProofs ---------------------------
(***************************************************************************)
(* What the row operations of RunRows preserve, for every value of the     *)
(* constants: each of them turns a sound row that meets the guard of its   *)
(* caller into a sound row.                                                *)
(***************************************************************************)
EXTENDS RunRows, TLAPS

\* How the legacy status and the target state of a row go together. A finished
\* run keeps the status "running" unless an executor or the reaper failed it.
StatesAgree(row) ==
  /\ row.status = "pending" <=> row.target = "queued"
  /\ row.status = "failed" => row.target = "failed"

\* Only a running run is leased.
LeaseMeansRunning(row) == row.lease # NoLease => row.target = "running"

\* A suspended run says what it waits for.
WaitsForSomething(row) ==
  row.target = "awaiting_approval" => row.pendingApproval # NoApproval

\* The error budget of a run that is not over is not spent.
WithinBudget(row) ==
  /\ row.errorAttempts <= MaxAttempts
  /\ row.errorAttempts = MaxAttempts => row.target = "failed"

SoundRow(row) ==
  /\ row \in Row
  /\ StatesAgree(row)
  /\ LeaseMeansRunning(row)
  /\ WaitsForSomething(row)
  /\ WithinBudget(row)
  /\ TargetRunInvariant(row)

\* A new row is sound.
LEMMA NewRowIsSound ==
  ASSUME NEW s \in Sessions, NEW k \in Keys \cup {NoKey}
  PROVE  SoundRow(NewRow(s, k))
BY CountsAssumption
   DEF NewRow, SoundRow, Row, Statuses, TargetStates, FailureReasons, StatesAgree,
       LeaseMeansRunning, WaitsForSomething, WithinBudget, TargetRunInvariant

\* A fresh lease is a lease.
LEMMA FreshIsLease ==
  ASSUME NEW t \in Tokens
  PROVE  Fresh(t) \in Lease /\ Fresh(t) # NoLease
BY CountsAssumption, AbsenceAssumption DEF Fresh, Lease

\* Counting a claim keeps the count a natural number.
LEMMA CountedIsNat ==
  ASSUME NEW row, row.attempts \in Nat
  PROVE  Counted(row) \in Nat
BY DEF Counted

\* claim and claimById lease a queued run.
LEMMA LeasedIsSound ==
  ASSUME NEW row, SoundRow(row), row.status = "pending", NEW t \in Tokens
  PROVE  SoundRow(Leased(row, t))
<1>1. Counted(row) \in Nat
  BY CountedIsNat DEF SoundRow, Row
<1>2. Leased(row, t) \in Row
  BY <1>1, FreshIsLease DEF SoundRow, Row, Leased, Statuses, TargetStates
<1>3. /\ row.target = "queued"
      /\ row.failureReason = "none"
  BY DEF SoundRow, StatesAgree, TargetRunInvariant
<1>. QED
  BY <1>2, <1>3
     DEF SoundRow, Row, Leased, StatesAgree, LeaseMeansRunning, WaitsForSomething,
         WithinBudget, TargetRunInvariant

\* The continuation lane leases a resumed run.
LEMMA ContinuationLeasedIsSound ==
  ASSUME NEW row, SoundRow(row), ContinuationClaimable(row), NEW t \in Tokens
  PROVE  SoundRow(ContinuationLeased(row, t))
<1>1. ContinuationLeased(row, t) \in Row
  BY FreshIsLease DEF SoundRow, Row, ContinuationLeased
<1>. QED
  BY <1>1
     DEF SoundRow, Row, ContinuationLeased, ContinuationClaimable, StatesAgree,
         LeaseMeansRunning, WaitsForSomething, WithinBudget, TargetRunInvariant

\* heartbeat moves the expiry of a lease.
LEMMA RenewedIsSound ==
  ASSUME NEW row, SoundRow(row), row.lease # NoLease
  PROVE  SoundRow(Renewed(row))
<1>1. row.lease \in Lease
  BY DEF SoundRow, Row
<1>2. [row.lease EXCEPT !.left = LeaseTTL] \in Lease
  BY <1>1, CountsAssumption DEF Lease
<1>3. Renewed(row) \in Row
  BY <1>2 DEF SoundRow, Row, Renewed
<1>. QED
  BY <1>3
     DEF SoundRow, Row, Renewed, StatesAgree, LeaseMeansRunning, WaitsForSomething,
         WithinBudget, TargetRunInvariant

\* releaseLease gives a leased run back to the queue.
LEMMA ReleasedIsSound ==
  ASSUME NEW row, SoundRow(row), row.lease # NoLease
  PROVE  SoundRow(Released(row))
<1>1. Released(row) \in Row
  BY DEF SoundRow, Row, Released, Statuses, TargetStates
<1>. QED
  BY <1>1
     DEF SoundRow, Row, Released, StatesAgree, LeaseMeansRunning, WaitsForSomething,
         WithinBudget, TargetRunInvariant

\* complete finishes a leased run.
LEMMA CompletedIsSound ==
  ASSUME NEW row, SoundRow(row), row.lease # NoLease
  PROVE  SoundRow(Completed(row))
<1>1. Completed(row) \in Row
  BY DEF SoundRow, Row, Completed, TargetStates
<1>2. row.status # "pending" /\ row.status # "failed"
  BY DEF SoundRow, StatesAgree, LeaseMeansRunning
<1>. QED
  BY <1>1, <1>2
     DEF SoundRow, Row, Completed, StatesAgree, LeaseMeansRunning, WaitsForSomething,
         WithinBudget, TargetRunInvariant

\* fail and the reaper retire a leased run, whether it is tried again or not.
LEMMA RetiredIsSound ==
  ASSUME NEW row, SoundRow(row), row.lease # NoLease,
         NEW retry \in BOOLEAN, NEW errors \in {0, 1}, NEW why \in FailureReasons
  PROVE  SoundRow(Retired(row, retry, errors, why))
<1>1. /\ row \in Row
      /\ row.target = "running"
      /\ row.errorAttempts \in Nat
      /\ row.errorAttempts + errors \in Nat
      /\ row.errorAttempts + errors <= MaxAttempts
      /\ why # "none"
  BY CountsAssumption
     DEF SoundRow, Row, LeaseMeansRunning, WithinBudget, FailureReasons
<1>2. CASE MayRetry(row, retry, errors)
  <2>1. Retired(row, retry, errors, why) =
          [row EXCEPT !.status = "pending", !.target = "queued", !.lease = NoLease,
                      !.errorAttempts = row.errorAttempts + errors,
                      !.failureReason = "none"]
    BY <1>1, <1>2 DEF Retired, Released, Row
  <2>2. Retired(row, retry, errors, why) \in Row
    BY <1>1, <2>1 DEF Row, Statuses, TargetStates
  <2>3. row.errorAttempts + errors < MaxAttempts
    BY <1>2 DEF MayRetry
  <2>. QED
    BY <1>1, <2>1, <2>2, <2>3, CountsAssumption
       DEF SoundRow, Row, StatesAgree, LeaseMeansRunning, WaitsForSomething,
           WithinBudget, TargetRunInvariant
<1>3. CASE ~MayRetry(row, retry, errors)
  <2>1. Retired(row, retry, errors, why) =
          [row EXCEPT !.status = "failed", !.target = "failed", !.lease = NoLease,
                      !.errorAttempts = row.errorAttempts + errors,
                      !.failureReason = why]
    BY <1>3 DEF Retired
  <2>2. Retired(row, retry, errors, why) \in Row
    BY <1>1, <2>1 DEF Row, Statuses, TargetStates
  <2>. QED
    BY <1>1, <2>1, <2>2
       DEF SoundRow, Row, StatesAgree, LeaseMeansRunning, WaitsForSomething,
           WithinBudget, TargetRunInvariant
<1>. QED
  BY <1>2, <1>3

\* suspendForApproval parks a leased run with the approval it waits for.
LEMMA SuspendedIsSound ==
  ASSUME NEW row, SoundRow(row), row.lease # NoLease, NEW approval \in Approval
  PROVE  SoundRow(Suspended(row, approval))
<1>1. Suspended(row, approval) \in Row
  BY DEF SoundRow, Row, Suspended, TargetStates
<1>2. row.target = "running" /\ approval # NoApproval
  BY AbsenceAssumption DEF SoundRow, LeaseMeansRunning
<1>. QED
  BY <1>1, <1>2
     DEF SoundRow, Row, Suspended, StatesAgree, LeaseMeansRunning, WaitsForSomething,
         WithinBudget, TargetRunInvariant

\* beginContinuationAttempt makes a suspended run claimable by its lane.
LEMMA ResumedIsSound ==
  ASSUME NEW row, SoundRow(row), NEW command \in Commands, Resumable(row, command)
  PROVE  SoundRow(Resumed(row, command))
<1>1. Counted(row) \in Nat
  BY CountedIsNat DEF SoundRow, Row
<1>2. Resumed(row, command) \in Row
  BY <1>1 DEF SoundRow, Row, Resumed, Statuses, TargetStates
<1>3. row.target = "awaiting_approval"
  BY DEF Resumable
<1>. QED
  BY <1>2, <1>3
     DEF SoundRow, Row, Resumed, StatesAgree, LeaseMeansRunning, WaitsForSomething,
         WithinBudget, TargetRunInvariant

\* failFromApproval ends a suspended run.
LEMMA FailedFromApprovalIsSound ==
  ASSUME NEW row, SoundRow(row), row.target = "awaiting_approval",
         NEW why \in FailureReasons
  PROVE  SoundRow(FailedFromApproval(row, why))
<1>1. FailedFromApproval(row, why) \in Row
  BY DEF SoundRow, Row, FailedFromApproval, TargetStates
<1>2. why # "none"
  BY DEF FailureReasons
<1>3. row.status # "pending"
  BY DEF SoundRow, StatesAgree
<1>. QED
  BY <1>1, <1>2, <1>3
     DEF SoundRow, Row, FailedFromApproval, StatesAgree, LeaseMeansRunning,
         WaitsForSomething, WithinBudget, TargetRunInvariant
=============================================================================
