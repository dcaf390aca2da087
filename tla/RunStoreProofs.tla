--------------------------- MODULE RunStoreProofs ---------------------------
(***************************************************************************)
(* The safety of the run queue, for any number of rows, sessions, workers, *)
(* tokens and attempts.                                                    *)
(*                                                                         *)
(* The inductive invariant says of the rows that each is sound, that the   *)
(* sessions are respected, and of the workers that no two hold the same    *)
(* token. A worker owns a run only through its token, so the last part is  *)
(* all that one owner needs; it holds because a claim draws a token that   *)
(* no worker holds.                                                        *)
(***************************************************************************)
EXTENDS RunStore, RunRowsProofs

RowsTyped ==
  /\ rows \in [RunIds -> Row \cup {NoRow}]
  /\ created \in 0..MaxRuns
  /\ \A r \in RunIds : r > created => rows[r] = NoRow

RowsSound == \A r \in Present(rows) : SoundRow(rows[r])

\* The unique index does its work: a session has one row with status "running".
IndexHolds ==
  OneRunningIndex =>
    \A r, o \in Present(rows) :
      /\ rows[r].session = rows[o].session
      /\ rows[r].status = "running" /\ rows[o].status = "running"
      => r = o

RowsInv ==
  RowsTyped /\ RowsSound /\ OverlapOnlyByResumption /\ IndexHolds

TokensUnshared ==
  \A w1, w2 \in Workers :
    /\ handle[w1] # NoHandle
    /\ handle[w2] # NoHandle
    /\ handle[w1].token = handle[w2].token
    => w1 = w2

HandlesInv == handle \in [Workers -> Handle \cup {NoHandle}] /\ TokensUnshared

SweepInv == sweep \in [Reapers -> [rows: SUBSET RunIds, age: 0..MaxSweep]]

Inv == RowsInv /\ HandlesInv /\ SweepInv

-----------------------------------------------------------------------------
(* Steps that write one row.                                               *)

\* The row may stand in for rows[r]: it keeps the session and the key, it runs
\* only if it ran before, if it is resumed, or if its session is idle, and the
\* index lets it have its status.
Replaces(row, r) ==
  /\ row.session = rows[r].session
  /\ row.key = rows[r].key
  /\ rows[r].resumed => row.resumed
  /\ row.target = "running" =>
       row.resumed \/ rows[r].target = "running" \/ ~SessionBusy(rows, r)
  /\ row.status = "running" => rows[r].status = "running" \/ ~IndexRefuses(rows, r)

\* A present row is a sound row.
LEMMA PresentRow ==
  ASSUME RowsInv, NEW r \in Present(rows)
  PROVE  /\ r \in RunIds
         /\ rows[r] \in Row
         /\ rows[r] # NoRow
         /\ SoundRow(rows[r])
BY DEF RowsInv, RowsTyped, RowsSound, Present, SoundRow

\* A sound row in the place of another keeps the rows' invariant.
LEMMA ReplaceRow ==
  ASSUME RowsInv, NEW r \in Present(rows), NEW row, SoundRow(row), Replaces(row, r),
         rows' = [rows EXCEPT ![r] = row], created' = created
  PROVE  RowsInv'
<1>1. row \in Row /\ row # NoRow
  BY NoRowAssumption DEF SoundRow
<1>2. r \in RunIds /\ rows \in [RunIds -> Row \cup {NoRow}]
  BY DEF Present, RowsInv, RowsTyped
<1>3. Present(rows') = Present(rows)
  BY <1>1, <1>2 DEF Present
<1>4. \A o \in Present(rows) : rows'[o] = IF o = r THEN row ELSE rows[o]
  BY <1>2 DEF Present
<1>5. RowsTyped'
  BY <1>1, <1>2, <1>3 DEF RowsInv, RowsTyped, Present
<1>6. RowsSound'
  BY <1>3, <1>4 DEF RowsInv, RowsSound
<1>7. OverlapOnlyByResumption'
  BY <1>3, <1>4 DEF RowsInv, OverlapOnlyByResumption, Replaces, SessionBusy
<1>8. IndexHolds'
  BY <1>3, <1>4 DEF RowsInv, IndexHolds, Replaces, IndexRefuses
<1>. QED
  BY <1>5, <1>6, <1>7, <1>8 DEF RowsInv

\* A step that leaves the rows alone keeps their invariant.
LEMMA SameRows ==
  ASSUME RowsInv, UNCHANGED <<rows, created>>
  PROVE  RowsInv'
BY DEF RowsInv, RowsTyped, RowsSound, Present, OverlapOnlyByResumption, IndexHolds

\* Rows that differ from the old ones in their leases only keep the invariant.
LEMMA AgeRows ==
  ASSUME RowsInv, rows' = [r \in RunIds |-> Aged(rows[r])], created' = created
  PROVE  RowsInv'
<1>1. Present(rows') = Present(rows)
      /\ \A r \in Present(rows) :
           /\ rows'[r] \in Row
           /\ SoundRow(rows'[r])
           /\ rows'[r].session = rows[r].session
           /\ rows'[r].key = rows[r].key
           /\ rows'[r].target = rows[r].target
           /\ rows'[r].status = rows[r].status
           /\ rows'[r].resumed = rows[r].resumed
  <2>1. ASSUME NEW r \in RunIds, rows[r] = NoRow
        PROVE  rows'[r] = NoRow
    BY <2>1 DEF Aged
  <2>2. ASSUME NEW r \in Present(rows)
        PROVE  /\ rows'[r] \in Row
               /\ SoundRow(rows'[r])
               /\ rows'[r].session = rows[r].session
               /\ rows'[r].key = rows[r].key
               /\ rows'[r].target = rows[r].target
               /\ rows'[r].status = rows[r].status
               /\ rows'[r].resumed = rows[r].resumed
    <3>1. rows'[r] = Aged(rows[r]) /\ SoundRow(rows[r]) /\ rows[r] \in Row
      BY PresentRow DEF Present
    <3>2. CASE rows[r].lease # NoLease /\ rows[r].lease.left > -MaxSweep
      <4>1. rows[r].lease \in Lease
        BY <3>1, <3>2 DEF Row
      <4>2. [rows[r].lease EXCEPT !.left = rows[r].lease.left - 1] \in Lease
        BY <4>1 DEF Lease
      <4>3. rows'[r] = [rows[r] EXCEPT !.lease = [rows[r].lease EXCEPT
                                                    !.left = rows[r].lease.left - 1]]
        BY <3>1, <3>2, PresentRow DEF Aged
      <4>4. rows'[r] \in Row
        BY <3>1, <4>2, <4>3 DEF Row
      <4>. QED
        BY <3>1, <3>2, <4>3, <4>4
           DEF SoundRow, Row, StatesAgree, LeaseMeansRunning, WaitsForSomething,
               WithinBudget, TargetRunInvariant
    <3>3. CASE ~(rows[r].lease # NoLease /\ rows[r].lease.left > -MaxSweep)
      BY <3>1, <3>3 DEF Aged
    <3>. QED
      BY <3>2, <3>3
  <2>. QED
    BY <2>1, <2>2, NoRowAssumption DEF Present
<1>2. RowsTyped'
  BY <1>1 DEF RowsInv, RowsTyped, Present, Aged
<1>3. RowsSound'
  BY <1>1 DEF RowsSound
<1>4. OverlapOnlyByResumption'
  BY <1>1 DEF RowsInv, OverlapOnlyByResumption
<1>5. IndexHolds'
  BY <1>1 DEF RowsInv, IndexHolds
<1>. QED
  BY <1>2, <1>3, <1>4, <1>5 DEF RowsInv

\* enqueue appends a queued row under a key nobody has.
LEMMA EnqueueKeepsRows ==
  ASSUME Inv, NEW s \in Sessions, NEW k \in Keys \cup {NoKey}, Enqueue(s, k)
  PROVE  RowsInv'
<1>. DEFINE r == created + 1
<1>1. r \in RunIds /\ rows[r] = NoRow /\ created \in Nat
  BY CountsAssumption DEF Inv, RowsInv, RowsTyped, Enqueue, RunIds
<1>2. SoundRow(NewRow(s, k))
  BY NewRowIsSound
<1>3. rows' = [rows EXCEPT ![r] = NewRow(s, k)]
  BY DEF Enqueue
<1>4. NewRow(s, k) \in Row /\ NewRow(s, k) # NoRow
  BY <1>2, NoRowAssumption DEF SoundRow
<1>5. rows \in [RunIds -> Row \cup {NoRow}]
  BY DEF Inv, RowsInv, RowsTyped
<1>6. Present(rows') = Present(rows) \cup {r} /\ r \notin Present(rows)
  BY <1>1, <1>3, <1>4, <1>5 DEF Present
<1>7. \A o \in Present(rows) : rows'[o] = rows[o]
  BY <1>3, <1>5, <1>6 DEF Present
<1>8. rows'[r] = NewRow(s, k)
  BY <1>1, <1>3, <1>5
<1>. HIDE DEF r
<1>9. RowsTyped'
  <2>1. created' \in 0..MaxRuns /\ created' = created + 1
    BY <1>1, CountsAssumption DEF Enqueue
  <2>2. ASSUME NEW o \in RunIds, o > created'
        PROVE  rows'[o] = NoRow
    <3>1. o > created /\ o # r
      BY <1>1, <2>1, <2>2 DEF RunIds, r
    <3>. QED
      BY <1>3, <1>5, <3>1 DEF Inv, RowsInv, RowsTyped
  <2>. QED
    BY <1>3, <1>4, <1>5, <2>1, <2>2 DEF RowsTyped
<1>10. RowsSound'
  BY <1>2, <1>6, <1>7, <1>8 DEF Inv, RowsInv, RowsSound
<1>11. OverlapOnlyByResumption'
  <2>1. rows'[r].target # "running"
    BY <1>8 DEF NewRow
  <2>. QED
    BY <1>6, <1>7, <2>1 DEF Inv, RowsInv, OverlapOnlyByResumption
<1>12. IndexHolds'
  <2>1. rows'[r].status # "running"
    BY <1>8 DEF NewRow
  <2>. QED
    BY <1>6, <1>7, <2>1 DEF Inv, RowsInv, IndexHolds
<1>. QED
  BY <1>9, <1>10, <1>11, <1>12 DEF RowsInv

\* withdraw deletes a row.
LEMMA WithdrawKeepsRows ==
  ASSUME Inv, NEW r \in RunIds, Withdraw(r)
  PROVE  RowsInv'
<1>1. rows \in [RunIds -> Row \cup {NoRow}]
  BY DEF Inv, RowsInv, RowsTyped
<1>2. rows' = [rows EXCEPT ![r] = NoRow] /\ created' = created
  BY DEF Withdraw
<1>3. Present(rows') = Present(rows) \ {r}
  BY <1>1, <1>2 DEF Present
<1>4. \A o \in Present(rows') : rows'[o] = rows[o] /\ o \in Present(rows)
  BY <1>1, <1>2, <1>3 DEF Present
<1>5. RowsTyped'
  BY <1>1, <1>2 DEF Inv, RowsInv, RowsTyped
<1>6. RowsSound'
  BY <1>4 DEF Inv, RowsInv, RowsSound
<1>7. OverlapOnlyByResumption'
  BY <1>4 DEF Inv, RowsInv, OverlapOnlyByResumption
<1>8. IndexHolds'
  BY <1>4 DEF Inv, RowsInv, IndexHolds
<1>. QED
  BY <1>5, <1>6, <1>7, <1>8 DEF RowsInv

-----------------------------------------------------------------------------
(* Claims.                                                                 *)

\* Taking a run with a new token keeps the tokens unshared.
LEMMA TakeKeepsHandles ==
  ASSUME Inv, NEW w \in Workers, NEW r \in Present(rows), NEW t \in NewTokens,
         handle' = [handle EXCEPT ![w] = [run |-> r, token |-> t]]
  PROVE  HandlesInv'
<1>1. [run |-> r, token |-> t] \in Handle /\ [run |-> r, token |-> t] # NoHandle
  BY WorkersAssumption DEF Handle, Present, NewTokens
<1>2. \A v \in Workers : handle[v] # NoHandle => handle[v].token # t
  BY DEF NewTokens
<1>3. handle \in [Workers -> Handle \cup {NoHandle}]
  BY DEF Inv, HandlesInv
<1>4. \A v \in Workers :
        handle'[v] = IF v = w THEN [run |-> r, token |-> t] ELSE handle[v]
  BY <1>3
<1>5. TokensUnshared'
  BY <1>2, <1>4 DEF Inv, HandlesInv, TokensUnshared
<1>. QED
  BY <1>1, <1>3, <1>5 DEF HandlesInv

\* Both claims of queued work.
LEMMA ClaimingKeepsInv ==
  ASSUME Inv, NEW w \in Workers, NEW r \in Present(rows), NEW t \in NewTokens,
         Claimable(rows, r), ~IndexRefuses(rows, r), Take(w, r, t, Leased(rows[r], t))
  PROVE  Inv'
<1>1. t \in Tokens /\ rows[r].status = "pending" /\ SoundRow(rows[r])
  BY PresentRow DEF NewTokens, Claimable, Inv
<1>2. SoundRow(Leased(rows[r], t))
  BY <1>1, LeasedIsSound
<1>3. Replaces(Leased(rows[r], t), r)
  BY <1>1 DEF Replaces, Leased, Claimable, SoundRow, Row
<1>4. RowsInv'
  BY <1>2, <1>3, ReplaceRow DEF Inv, Take
<1>5. HandlesInv'
  BY TakeKeepsHandles DEF Take
<1>6. SweepInv'
  BY DEF Inv, SweepInv, Take
<1>. QED
  BY <1>4, <1>5, <1>6 DEF Inv

\* The claim of the continuation lane keeps the invariant.
LEMMA ContinuationKeepsInv ==
  ASSUME Inv, NEW w \in Workers, ClaimNextContinuation(w)
  PROVE  Inv'
<1>1. PICK r \in Present(rows), t \in NewTokens :
        ContinuationClaimable(rows[r]) /\ Take(w, r, t, ContinuationLeased(rows[r], t))
  BY DEF ClaimNextContinuation, Oldest
<1>2. t \in Tokens /\ SoundRow(rows[r])
  BY PresentRow DEF NewTokens, Inv
<1>3. SoundRow(ContinuationLeased(rows[r], t))
  BY <1>1, <1>2, ContinuationLeasedIsSound
<1>4. Replaces(ContinuationLeased(rows[r], t), r)
  BY <1>1, <1>2 DEF Replaces, ContinuationLeased, ContinuationClaimable, SoundRow, Row
<1>5. RowsInv'
  BY <1>1, <1>3, <1>4, ReplaceRow DEF Inv, Take
<1>6. HandlesInv'
  BY <1>1, TakeKeepsHandles DEF Take
<1>7. SweepInv'
  BY <1>1 DEF Inv, SweepInv, Take
<1>. QED
  BY <1>5, <1>6, <1>7 DEF Inv

-----------------------------------------------------------------------------
(* The end of a worker's run.                                              *)

\* An owned run is present, sound and leased.
LEMMA OwnedRow ==
  ASSUME Inv, NEW w \in Workers, Owns(w)
  PROVE  /\ handle[w].run \in Present(rows)
         /\ SoundRow(rows[handle[w].run])
         /\ rows[handle[w].run].lease # NoLease
         /\ rows[handle[w].run].target = "running"
<1>1. handle[w].run \in Present(rows) /\ rows[handle[w].run].lease # NoLease
  BY DEF Owns, Holds
<1>2. SoundRow(rows[handle[w].run])
  BY <1>1, PresentRow DEF Inv
<1>. QED
  BY <1>1, <1>2 DEF SoundRow, LeaseMeansRunning

\* A worker that lets go of its token leaves the other tokens unshared.
LEMMA LetGoKeepsHandles ==
  ASSUME Inv, NEW w \in Workers, handle' = [handle EXCEPT ![w] = NoHandle]
  PROVE  HandlesInv'
<1>1. handle \in [Workers -> Handle \cup {NoHandle}]
  BY DEF Inv, HandlesInv
<1>2. \A v \in Workers : handle'[v] # NoHandle => handle'[v] = handle[v]
  BY <1>1
<1>3. TokensUnshared'
  BY <1>2 DEF Inv, HandlesInv, TokensUnshared
<1>. QED
  BY <1>1, <1>3 DEF HandlesInv

\* What the last call of a worker writes need only be right for an owned run.
LEMMA FinishKeepsInv ==
  ASSUME Inv, NEW w \in Workers, NEW row, Finish(w, row),
         Owns(w) => SoundRow(row) /\ Replaces(row, handle[w].run)
  PROVE  Inv'
<1>1. CASE Owns(w)
  <2>1. rows' = [rows EXCEPT ![handle[w].run] = row] /\ created' = created
    BY <1>1 DEF Finish
  <2>. QED
    BY <1>1, <2>1, OwnedRow, ReplaceRow, LetGoKeepsHandles
       DEF Inv, Finish, SweepInv
<1>2. CASE ~Owns(w)
  BY <1>2, SameRows, LetGoKeepsHandles DEF Inv, Finish, SweepInv
<1>. QED
  BY <1>1, <1>2

\* A retired run is queued or failed, and what it was otherwise.
LEMMA RetiredReplaces ==
  ASSUME NEW r, SoundRow(rows[r]),
         NEW retry \in BOOLEAN, NEW errors \in {0, 1}, NEW why \in FailureReasons
  PROVE  Replaces(Retired(rows[r], retry, errors, why), r)
BY DEF Retired, Released, Replaces, SoundRow, Row

\* releaseLease, complete, fail and suspendForApproval.
LEMMA EndOfRunKeepsInv ==
  ASSUME Inv, NEW w \in Workers,
         \/ ReleaseLease(w)
         \/ Complete(w)
         \/ \E retry \in BOOLEAN, why \in FailureReasons : Fail(w, retry, why)
         \/ \E approval \in Approval : SuspendForApproval(w, approval)
  PROVE  Inv'
<1>. DEFINE row == rows[handle[w].run]
<1>1. CASE ReleaseLease(w)
  <2>1. ASSUME Owns(w)
        PROVE  SoundRow(Released(row)) /\ Replaces(Released(row), handle[w].run)
    <3>1. SoundRow(row) /\ row.lease # NoLease
      BY <2>1, OwnedRow
    <3>2. SoundRow(Released(row))
      BY <3>1, ReleasedIsSound
    <3>3. Replaces(Released(row), handle[w].run)
      BY <3>1 DEF Released, Replaces, SoundRow, Row
    <3>. QED
      BY <3>2, <3>3
  <2>. QED
    BY <1>1, <2>1, FinishKeepsInv DEF ReleaseLease
<1>2. CASE Complete(w)
  <2>1. ASSUME Owns(w)
        PROVE  SoundRow(Completed(row)) /\ Replaces(Completed(row), handle[w].run)
    <3>1. SoundRow(row) /\ row.lease # NoLease
      BY <2>1, OwnedRow
    <3>2. SoundRow(Completed(row))
      BY <3>1, CompletedIsSound
    <3>3. Replaces(Completed(row), handle[w].run)
      BY <3>1 DEF Completed, Replaces, SoundRow, Row
    <3>. QED
      BY <3>2, <3>3
  <2>. QED
    BY <1>2, <2>1, FinishKeepsInv DEF Complete
<1>3. ASSUME NEW retry \in BOOLEAN, NEW why \in FailureReasons, Fail(w, retry, why)
      PROVE  Inv'
  <2>. DEFINE new == Retired(row, retry, 1, why)
  <2>1. ASSUME Owns(w)
        PROVE  SoundRow(new) /\ Replaces(new, handle[w].run)
    <3>1. SoundRow(row) /\ row.lease # NoLease
      BY <2>1, OwnedRow
    <3>2. SoundRow(new)
      BY <3>1, RetiredIsSound
    <3>3. Replaces(new, handle[w].run)
      BY <3>1, RetiredReplaces
    <3>. QED
      BY <3>2, <3>3
  <2>. QED
    BY <1>3, <2>1, FinishKeepsInv DEF Fail
<1>4. ASSUME NEW approval \in Approval, SuspendForApproval(w, approval)
      PROVE  Inv'
  <2>1. SoundRow(Suspended(row, approval)) /\ Replaces(Suspended(row, approval), handle[w].run)
    <3>1. SoundRow(row) /\ row.lease # NoLease
      BY <1>4, OwnedRow DEF SuspendForApproval
    <3>2. SoundRow(Suspended(row, approval))
      BY <3>1, SuspendedIsSound
    <3>3. Replaces(Suspended(row, approval), handle[w].run)
      BY <3>1 DEF Suspended, Replaces, SoundRow, Row
    <3>. QED
      BY <3>2, <3>3
  <2>. QED
    BY <1>4, <2>1, FinishKeepsInv DEF SuspendForApproval
<1>. QED
  BY <1>1, <1>2, <1>3, <1>4

-----------------------------------------------------------------------------
(* Every step keeps the invariant.                                         *)

\* Every call of a worker on the store keeps the invariant.
LEMMA WorkerStepKeepsInv ==
  ASSUME Inv, NEW w \in Workers, WorkerStep(w)
  PROVE  Inv'
<1>1. CASE Claim(w)
  <2>1. PICK r \in Present(rows), t \in NewTokens :
          /\ Claimable(rows, r) /\ ~IndexRefuses(rows, r)
          /\ Take(w, r, t, Leased(rows[r], t))
    BY <1>1 DEF Claim, Oldest
  <2>. QED
    BY <2>1, ClaimingKeepsInv
<1>2. ASSUME NEW r \in RunIds, ClaimById(w, r)
      PROVE  Inv'
  <2>1. PICK t \in NewTokens : Take(w, r, t, Leased(rows[r], t))
    BY <1>2 DEF ClaimById
  <2>. QED
    BY <1>2, <2>1, ClaimingKeepsInv DEF ClaimById
<1>3. CASE ClaimNextContinuation(w)
  BY <1>3, ContinuationKeepsInv
<1>4. CASE Heartbeat(w)
  <2>. DEFINE r == handle[w].run
  <2>1. SoundRow(Renewed(rows[r])) /\ Replaces(Renewed(rows[r]), r)
    <3>1. SoundRow(rows[r]) /\ rows[r].lease # NoLease /\ rows[r].target = "running"
      BY <1>4, OwnedRow DEF Heartbeat
    <3>2. SoundRow(Renewed(rows[r]))
      BY <3>1, RenewedIsSound
    <3>3. Replaces(Renewed(rows[r]), r)
      BY <3>1 DEF Renewed, Replaces, SoundRow, Row
    <3>. QED
      BY <3>2, <3>3
  <2>2. rows' = [rows EXCEPT ![r] = Renewed(rows[r])] /\ created' = created
    BY <1>4 DEF Heartbeat
  <2>3. RowsInv'
    BY <1>4, <2>1, <2>2, OwnedRow, ReplaceRow DEF Heartbeat, Inv
  <2>. QED
    BY <1>4, <2>3 DEF Heartbeat, Inv, HandlesInv, TokensUnshared, SweepInv
<1>5. CASE ReleaseLease(w)
  BY <1>5, EndOfRunKeepsInv
<1>6. CASE Complete(w)
  BY <1>6, EndOfRunKeepsInv
<1>7. ASSUME NEW retry \in BOOLEAN, Fail(w, retry, "execution_failed")
      PROVE  Inv'
  BY <1>7, EndOfRunKeepsInv DEF FailureReasons
<1>8. CASE Fail(w, FALSE, "approval_continuation_unavailable")
  BY <1>8, EndOfRunKeepsInv DEF FailureReasons
<1>9. ASSUME NEW approval \in Approval, SuspendForApproval(w, approval)
      PROVE  Inv'
  BY <1>9, EndOfRunKeepsInv
<1>10. CASE Crash(w)
  BY <1>10, SameRows, LetGoKeepsHandles DEF Crash, Inv, SweepInv
<1>. QED
  BY <1>1, <1>2, <1>3, <1>4, <1>5, <1>6, <1>7, <1>8, <1>9, <1>10 DEF WorkerStep

\* Resuming or failing a suspended run keeps the invariant.
LEMMA DecisionStepKeepsInv ==
  ASSUME Inv, NEW r \in RunIds, DecisionStep(r)
  PROVE  Inv'
<1>1. ASSUME NEW c \in Commands, BeginContinuationAttempt(r, c)
      PROVE  Inv'
  <2>1. SoundRow(Resumed(rows[r], c)) /\ Replaces(Resumed(rows[r], c), r)
    <3>1. SoundRow(rows[r]) /\ Resumable(rows[r], c)
      BY <1>1, PresentRow DEF BeginContinuationAttempt, Inv
    <3>2. SoundRow(Resumed(rows[r], c))
      BY <3>1, ResumedIsSound
    <3>3. Replaces(Resumed(rows[r], c), r)
      BY <3>1 DEF Resumed, Replaces, SoundRow, Row, Statuses, StatesAgree, Resumable
    <3>. QED
      BY <3>2, <3>3
  <2>2. RowsInv'
    BY <1>1, <2>1, ReplaceRow DEF BeginContinuationAttempt, Inv
  <2>. QED
    BY <1>1, <2>2
       DEF BeginContinuationAttempt, Inv, HandlesInv, TokensUnshared, SweepInv
<1>2. ASSUME NEW why \in {"approval_denied", "approval_expired"}, FailFromApproval(r, why)
      PROVE  Inv'
  <2>1. why \in FailureReasons
    BY DEF FailureReasons
  <2>2. /\ SoundRow(FailedFromApproval(rows[r], why))
        /\ Replaces(FailedFromApproval(rows[r], why), r)
    <3>1. SoundRow(rows[r]) /\ rows[r].target = "awaiting_approval"
      BY <1>2, PresentRow DEF FailFromApproval, Inv
    <3>2. SoundRow(FailedFromApproval(rows[r], why))
      BY <2>1, <3>1, FailedFromApprovalIsSound
    <3>3. Replaces(FailedFromApproval(rows[r], why), r)
      BY <3>1 DEF FailedFromApproval, Replaces, SoundRow, Row
    <3>. QED
      BY <3>2, <3>3
  <2>3. RowsInv'
    BY <1>2, <2>2, ReplaceRow DEF FailFromApproval, Inv
  <2>. QED
    BY <1>2, <2>3 DEF FailFromApproval, Inv, HandlesInv, TokensUnshared, SweepInv
<1>. QED
  BY <1>1, <1>2 DEF DecisionStep

\* A step of a reaper's pass keeps the invariant.
LEMMA ReaperStepKeepsInv ==
  ASSUME Inv, NEW z \in Reapers, ReaperStep(z)
  PROVE  Inv'
<1>1. CASE SweepStart(z)
  <2>1. /\ sweep' = [sweep EXCEPT ![z] = [rows |-> Lapsed, age |-> 0]]
        /\ Lapsed \subseteq RunIds
    BY <1>1 DEF SweepStart, Lapsed, Present
  <2>2. SweepInv'
    BY <2>1, CountsAssumption DEF SweepInv, Inv
  <2>. QED
    BY <1>1, <2>2, SameRows DEF SweepStart, Inv, HandlesInv, TokensUnshared
<1>2. ASSUME NEW r \in RunIds, NEW tooOld \in BOOLEAN, SweepNext(z, r, tooOld)
      PROVE  Inv'
  <2>1. SweepInv' /\ HandlesInv'
    BY <1>2 DEF SweepNext, Inv, SweepInv, HandlesInv, TokensUnshared
  <2>2. CASE StillLapsed(z, r) /\ rows[r].session \notin NewerSessions
    <3>. DEFINE new == Retired(rows[r], ~tooOld, 0, "execution_failed")
    <3>1. r \in Present(rows) /\ SoundRow(rows[r]) /\ rows[r].lease # NoLease
      BY <2>2, PresentRow DEF StillLapsed, LeaseLapsed, Inv
    <3>2. SoundRow(new)
      BY <3>1, RetiredIsSound DEF FailureReasons
    <3>3. Replaces(new, r)
      BY <3>1, RetiredReplaces DEF FailureReasons
    <3>4. rows' = [rows EXCEPT ![r] = new] /\ created' = created
      BY <1>2, <2>2 DEF SweepNext
    <3>5. RowsInv'
      BY <3>1, <3>2, <3>3, <3>4, ReplaceRow DEF Inv
    <3>. QED
      BY <2>1, <3>5 DEF Inv
  <2>3. CASE ~(StillLapsed(z, r) /\ rows[r].session \notin NewerSessions)
    <3>1. RowsInv'
      BY <1>2, <2>3, SameRows DEF SweepNext, Inv
    <3>. QED
      BY <2>1, <3>1 DEF Inv
  <2>. QED
    BY <2>2, <2>3
<1>. QED
  BY <1>1, <1>2 DEF ReaperStep

\* The clock keeps the invariant.
LEMMA TickKeepsInv ==
  ASSUME Inv, Tick
  PROVE  Inv'
<1>1. RowsInv'
  BY AgeRows DEF Tick, Inv
<1>2. SweepInv'
  <2>1. sweep \in [Reapers -> [rows: SUBSET RunIds, age: 0..MaxSweep]]
    BY DEF Inv, SweepInv
  <2>2. ASSUME NEW z \in Reapers
        PROVE  sweep'[z] \in [rows: SUBSET RunIds, age: 0..MaxSweep]
    <3>1. CASE Sweeping(z)
      BY <2>1, <3>1, CountsAssumption DEF Tick
    <3>2. CASE ~Sweeping(z)
      BY <2>1, <3>2 DEF Tick
    <3>. QED
      BY <3>1, <3>2
  <2>. QED
    BY <2>2 DEF Tick, SweepInv
<1>. QED
  BY <1>1, <1>2 DEF Tick, Inv, HandlesInv, TokensUnshared

\* The invariant is inductive: every step of the queue keeps it.
LEMMA StepKeepsInv == Inv /\ [Next]_vars => Inv'
<1>. SUFFICES ASSUME Inv, [Next]_vars PROVE Inv'
  OBVIOUS
<1>1. ASSUME NEW s \in Sessions, NEW k \in Keys \cup {NoKey}, Enqueue(s, k)
      PROVE  Inv'
  BY <1>1, EnqueueKeepsRows DEF Enqueue, Inv, HandlesInv, TokensUnshared, SweepInv
<1>2. ASSUME NEW r \in RunIds, Withdraw(r)
      PROVE  Inv'
  BY <1>2, WithdrawKeepsRows DEF Withdraw, Inv, HandlesInv, TokensUnshared, SweepInv
<1>3. ASSUME NEW w \in Workers, WorkerStep(w)
      PROVE  Inv'
  BY <1>3, WorkerStepKeepsInv
<1>4. ASSUME NEW r \in RunIds, DecisionStep(r)
      PROVE  Inv'
  BY <1>4, DecisionStepKeepsInv
<1>5. ASSUME NEW z \in Reapers, ReaperStep(z)
      PROVE  Inv'
  BY <1>5, ReaperStepKeepsInv
<1>6. CASE Tick
  BY <1>6, TickKeepsInv
<1>7. CASE UNCHANGED vars
  BY <1>7, SameRows DEF vars, Inv, HandlesInv, TokensUnshared, SweepInv
<1>. QED
  BY <1>1, <1>2, <1>3, <1>4, <1>5, <1>6, <1>7 DEF Next

\* The empty queue satisfies the invariant.
LEMMA InitIsInv == Init => Inv
<1>. SUFFICES ASSUME Init PROVE Inv
  OBVIOUS
<1>1. Present(rows) = {}
  BY DEF Init, Present
<1>2. RowsInv
  BY <1>1, CountsAssumption
     DEF Init, RowsInv, RowsTyped, RowsSound, OverlapOnlyByResumption, IndexHolds
<1>3. HandlesInv
  BY DEF Init, HandlesInv, TokensUnshared
<1>4. SweepInv
  BY CountsAssumption DEF Init, SweepInv
<1>. QED
  BY <1>2, <1>3, <1>4 DEF Inv

\* The inductive invariant holds of every run of the queue.
THEOREM InvHolds == Spec => []Inv
BY InitIsInv, StepKeepsInv, PTL DEF Spec

-----------------------------------------------------------------------------
(* What the invariant says to a reader of RunStore.                        *)

\* The variables keep their types, in particular the lease and the approval of
\* every row whatever the operations were.
THEOREM TypesHold == Spec => []TypeOK
<1>1. Inv => TypeOK
  BY DEF Inv, RowsInv, RowsTyped, HandlesInv, SweepInv, TypeOK
<1>. QED
  BY InvHolds, <1>1, PTL

\* No run is ever owned by two workers, after any number of reaped leases,
\* requeues and new claims.
THEOREM OneOwnerHolds == Spec => []OneOwner
<1>1. Inv => OneOwner
  BY DEF Inv, HandlesInv, TokensUnshared, OneOwner, Owns, Holds
<1>. QED
  BY InvHolds, <1>1, PTL

\* A finished run is out of reach of both claims and of the reaper.
THEOREM TerminalOutOfReachHolds == Spec => []TerminalOutOfReach
<1>1. ASSUME Inv, NEW r \in Present(rows), IsTerminal(rows[r])
      PROVE  /\ IsTerminalTarget(rows[r])
             /\ rows[r].lease = NoLease
             /\ ~Claimable(rows, r)
             /\ ~ContinuationClaimable(rows[r])
  <2>1. SoundRow(rows[r])
    BY <1>1, PresentRow DEF Inv
  <2>. QED
    BY <1>1, <2>1
       DEF SoundRow, Row, StatesAgree, LeaseMeansRunning, IsTerminal, IsTerminalTarget,
           Claimable, ContinuationClaimable
<1>2. Inv => TerminalOutOfReach
  BY <1>1 DEF TerminalOutOfReach
<1>. QED
  BY InvHolds, <1>2, PTL

\* Only a decision moves a suspended run: no lane and no reaper finds it, and
\* the approval it waits for is on its row.
THEOREM SuspendedIsParkedHolds == Spec => []SuspendedIsParked
<1>1. ASSUME Inv, NEW r \in Present(rows), rows[r].target = "awaiting_approval"
      PROVE  /\ rows[r].pendingApproval # NoApproval
             /\ rows[r].lease = NoLease
             /\ rows[r].status = "running"
             /\ ~ContinuationClaimable(rows[r])
  <2>1. SoundRow(rows[r])
    BY <1>1, PresentRow DEF Inv
  <2>. QED
    BY <1>1, <2>1
       DEF SoundRow, Row, Statuses, StatesAgree, LeaseMeansRunning, WaitsForSomething,
           ContinuationClaimable
<1>2. Inv => SuspendedIsParked
  BY <1>1 DEF SuspendedIsParked
<1>. QED
  BY InvHolds, <1>2, PTL

\* Two runs of a session run at once only if a decision resumed one of them.
THEOREM OverlapOnlyByResumptionHolds == Spec => []OverlapOnlyByResumption
<1>1. Inv => OverlapOnlyByResumption
  BY DEF Inv, RowsInv
<1>. QED
  BY InvHolds, <1>1, PTL

\* A run whose error budget is spent is failed, and the budget is never
\* exceeded.
THEOREM BudgetSpentIsFailedHolds == Spec => []BudgetSpentIsFailed
<1>1. Inv => BudgetSpentIsFailed
  BY DEF Inv, RowsInv, RowsSound, SoundRow, WithinBudget, BudgetSpentIsFailed
<1>. QED
  BY InvHolds, <1>1, PTL

\* The stores' own assertion about failure reasons holds of every row.
THEOREM AssertionAlwaysHolds == Spec => []AssertionHolds
<1>1. Inv => AssertionHolds
  BY DEF Inv, RowsInv, RowsSound, SoundRow, AssertionHolds
<1>. QED
  BY InvHolds, <1>1, PTL

-----------------------------------------------------------------------------
(* Terminal transitions are irrevocable.                                   *)

\* The row of a finished run meets the guard of no operation.
LEMMA FinishedRow ==
  ASSUME Inv, NEW r \in RunIds, rows[r] # NoRow, IsTerminal(rows[r])
  PROVE  /\ r \in Present(rows)
         /\ r <= created
         /\ rows[r].status # "pending"
         /\ rows[r].target # "running"
         /\ rows[r].target # "awaiting_approval"
         /\ rows[r].lease = NoLease
<1>1. r \in Present(rows) /\ r <= created
  BY DEF Present, Inv, RowsInv, RowsTyped, RunIds
<1>2. SoundRow(rows[r])
  BY <1>1, PresentRow DEF Inv
<1>. QED
  BY <1>1, <1>2
     DEF SoundRow, StatesAgree, LeaseMeansRunning, IsTerminal, IsTerminalTarget

\* The last call of a worker writes an owned run's row, or none.
LEMMA FinishSparesFinished ==
  ASSUME Inv, NEW r \in RunIds, rows[r] # NoRow, IsTerminal(rows[r]),
         NEW w \in Workers, NEW row, Finish(w, row)
  PROVE  rows'[r] = rows[r]
<1>1. rows[r].lease = NoLease
  BY FinishedRow
<1>2. Owns(w) => handle[w].run # r
  BY <1>1, OwnedRow
<1>3. rows \in [RunIds -> Row \cup {NoRow}]
  BY DEF Inv, RowsInv, RowsTyped
<1>. QED
  BY <1>2, <1>3 DEF Finish

\* No step writes the row of a finished run.
LEMMA StepSparesFinished ==
  ASSUME Inv, Next, NEW r \in RunIds, rows[r] # NoRow, IsTerminal(rows[r])
  PROVE  rows'[r] = rows[r]
<1>. USE FinishedRow
<1>0. rows \in [RunIds -> Row \cup {NoRow}]
  BY DEF Inv, RowsInv, RowsTyped
<1>1. ASSUME NEW s \in Sessions, NEW k \in Keys \cup {NoKey}, Enqueue(s, k)
      PROVE  rows'[r] = rows[r]
  <2>1. r # created + 1
    BY DEF Inv, RowsInv, RowsTyped, RunIds
  <2>. QED
    BY <1>0, <1>1, <2>1 DEF Enqueue
<1>2. ASSUME NEW o \in RunIds, Withdraw(o)
      PROVE  rows'[r] = rows[r]
  BY <1>0, <1>2 DEF Withdraw
<1>3. ASSUME NEW w \in Workers, WorkerStep(w)
      PROVE  rows'[r] = rows[r]
  <2>1. CASE Claim(w)
    BY <1>0, <2>1 DEF Claim, Oldest, Claimable, Take
  <2>2. ASSUME NEW o \in RunIds, ClaimById(w, o)
        PROVE  rows'[r] = rows[r]
    BY <1>0, <2>2 DEF ClaimById, Claimable, Take
  <2>3. CASE ClaimNextContinuation(w)
    BY <1>0, <2>3 DEF ClaimNextContinuation, Oldest, ContinuationClaimable, Take
  <2>4. CASE Heartbeat(w)
    <3>1. handle[w].run # r
      BY <2>4, OwnedRow DEF Heartbeat
    <3>. QED
      BY <1>0, <2>4, <3>1 DEF Heartbeat
  <2>5. CASE \E row : Finish(w, row)
    BY <2>5, FinishSparesFinished
  <2>6. CASE Crash(w)
    BY <2>6 DEF Crash
  <2>. QED
    BY <1>3, <2>1, <2>2, <2>3, <2>4, <2>5, <2>6
       DEF WorkerStep, ReleaseLease, Complete, Fail, SuspendForApproval
<1>4. ASSUME NEW o \in RunIds, DecisionStep(o)
      PROVE  rows'[r] = rows[r]
  BY <1>0, <1>4
     DEF DecisionStep, BeginContinuationAttempt, Resumable, FailFromApproval
<1>5. ASSUME NEW z \in Reapers, ReaperStep(z)
      PROVE  rows'[r] = rows[r]
  BY <1>0, <1>5 DEF ReaperStep, SweepStart, SweepNext, StillLapsed, LeaseLapsed
<1>6. CASE Tick
  BY <1>0, <1>6 DEF Tick, Aged
<1>. QED
  BY <1>1, <1>2, <1>3, <1>4, <1>5, <1>6 DEF Next

\* No step changes or deletes the row of a finished run.
THEOREM TerminalIsFinalHolds == Spec => TerminalIsFinal
<1>1. Inv /\ [Next]_vars =>
        [\A r \in RunIds :
           rows[r] # NoRow => (IsTerminal(rows[r]) => rows'[r] = rows[r])]_vars
  BY StepSparesFinished
<1>. QED
  BY InvHolds, <1>1, PTL DEF Spec, TerminalIsFinal

\* A run that was withdrawn does not come back.
LEMMA WithdrawnStays ==
  ASSUME Inv, [Next]_vars
  PROVE  /\ created <= created'
         /\ \A r \in RunIds : r <= created /\ rows[r] = NoRow => rows'[r] = NoRow
<1> DEFINE Goal == /\ created <= created'
                   /\ \A r \in RunIds : r <= created /\ rows[r] = NoRow => rows'[r] = NoRow
<1>0. /\ rows \in [RunIds -> Row \cup {NoRow}] /\ created \in 0..MaxRuns
      /\ handle \in [Workers -> Handle \cup {NoHandle}]
  BY DEF Inv, RowsInv, RowsTyped, HandlesInv
<1>1. ASSUME NEW o \in Present(rows), NEW row, rows' = [rows EXCEPT ![o] = row],
             created' = created
      PROVE  Goal
  BY <1>0, <1>1, CountsAssumption DEF Present
<1>2. ASSUME rows' = rows, created' = created
      PROVE  Goal
  BY <1>0, <1>2, CountsAssumption
<1>3. ASSUME NEW s \in Sessions, NEW k \in Keys \cup {NoKey}, Enqueue(s, k)
      PROVE  Goal
  <2>1. /\ created' = created + 1 /\ \A r \in RunIds : r <= created => r # created + 1
        /\ created <= created'
    BY <1>0, <1>3, CountsAssumption DEF Enqueue, RunIds
  <2> QED
    BY <1>0, <1>3, <2>1 DEF Enqueue
<1>4. ASSUME NEW w \in Workers, WorkerStep(w)
      PROVE  Goal
  <2>1. CASE Claim(w)
    BY <1>1, <2>1 DEF Claim, Oldest, Take
  <2>2. ASSUME NEW o \in RunIds, ClaimById(w, o)
        PROVE  Goal
    BY <1>1, <2>2 DEF ClaimById, Take
  <2>3. CASE ClaimNextContinuation(w)
    BY <1>1, <2>3 DEF ClaimNextContinuation, Oldest, Take
  <2>4. CASE Heartbeat(w)
    BY <1>1, <2>4 DEF Heartbeat, Owns
  <2>5. ASSUME NEW row, Finish(w, row)
        PROVE  Goal
    <3>1. CASE Owns(w)
      BY <1>1, <2>5, <3>1 DEF Finish, Owns
    <3>2. CASE ~Owns(w)
      BY <1>2, <2>5, <3>2 DEF Finish
    <3> QED
      BY <3>1, <3>2
  <2>6. CASE Crash(w)
    BY <1>2, <2>6 DEF Crash
  <2> QED
    BY <1>4, <2>1, <2>2, <2>3, <2>4, <2>5, <2>6
       DEF WorkerStep, ReleaseLease, Complete, Fail, SuspendForApproval
<1>5. ASSUME NEW o \in RunIds, Withdraw(o) \/ DecisionStep(o)
      PROVE  Goal
  BY <1>1, <1>5 DEF Withdraw, DecisionStep, BeginContinuationAttempt, FailFromApproval
<1>6. ASSUME NEW z \in Reapers, ReaperStep(z)
      PROVE  Goal
  <2>1. CASE SweepStart(z)
    BY <1>2, <2>1 DEF SweepStart
  <2>2. ASSUME NEW o \in RunIds, NEW tooOld \in BOOLEAN, SweepNext(z, o, tooOld)
        PROVE  Goal
    BY <1>0, <1>1, <1>2, <2>2 DEF SweepNext, StillLapsed, LeaseLapsed
  <2> QED
    BY <1>6, <2>1, <2>2 DEF ReaperStep
<1>7. CASE Tick
  BY <1>0, <1>7, CountsAssumption DEF Tick, Aged
<1> QED
  BY <1>2, <1>3, <1>4, <1>5, <1>6, <1>7 DEF Next, vars

\* A row keeps the command it was resumed with until it is resumed again.
LEMMA CommandsStay ==
  ASSUME Inv, [Next]_vars, NEW r \in RunIds, rows'[r] # NoRow,
         rows'[r].lastCommand # NoCommand
  PROVE  /\ rows[r] # NoRow
         /\ \/ rows'[r].lastCommand = rows[r].lastCommand
            \/ rows[r].target = "awaiting_approval" /\ rows'[r].target = "running"
<1> DEFINE Goal == /\ rows[r] # NoRow
                   /\ \/ rows'[r].lastCommand = rows[r].lastCommand
                      \/ rows[r].target = "awaiting_approval" /\ rows'[r].target = "running"
<1>0. rows \in [RunIds -> Row \cup {NoRow}] /\ created \in 0..MaxRuns
  BY DEF Inv, RowsInv, RowsTyped
<1>1. ASSUME NEW o \in Present(rows), NEW row, row.lastCommand = rows[o].lastCommand,
             rows' = [rows EXCEPT ![o] = row]
      PROVE  Goal
  BY <1>0, <1>1 DEF Present
<1>2. ASSUME rows' = rows
      PROVE  Goal
  BY <1>2
<1>3. ASSUME NEW s \in Sessions, NEW k \in Keys \cup {NoKey}, Enqueue(s, k)
      PROVE  Goal
  <2>1. NewRow(s, k).lastCommand = NoCommand
    BY DEF NewRow
  <2> QED
    BY <1>0, <1>3, <2>1 DEF Enqueue
<1>4. ASSUME NEW o \in Present(rows)
      PROVE  /\ \A t : Leased(rows[o], t).lastCommand = rows[o].lastCommand
             /\ \A t : ContinuationLeased(rows[o], t).lastCommand = rows[o].lastCommand
             /\ Renewed(rows[o]).lastCommand = rows[o].lastCommand
             /\ Released(rows[o]).lastCommand = rows[o].lastCommand
             /\ Completed(rows[o]).lastCommand = rows[o].lastCommand
             /\ \A retry, errors, why :
                  Retired(rows[o], retry, errors, why).lastCommand = rows[o].lastCommand
             /\ \A a : Suspended(rows[o], a).lastCommand = rows[o].lastCommand
             /\ \A why : FailedFromApproval(rows[o], why).lastCommand = rows[o].lastCommand
             /\ Aged(rows[o]).lastCommand = rows[o].lastCommand
  <2>1. rows[o] \in Row
    BY PresentRow DEF Inv
  <2>3. Released(rows[o]).lastCommand = rows[o].lastCommand
    BY <2>1 DEF Released, Row
  <2>4. \A retry, errors, why :
          Retired(rows[o], retry, errors, why).lastCommand = rows[o].lastCommand
    BY <2>1, <2>3 DEF Retired, Row
  <2> QED
    BY <2>1, <2>3, <2>4
       DEF Leased, ContinuationLeased, Renewed, Completed, Suspended, FailedFromApproval, Aged, Row
<1>5. ASSUME NEW w \in Workers, WorkerStep(w)
      PROVE  Goal
  <2>0. ASSUME NEW o \in Present(rows), NEW row, NEW t, Take(w, o, t, row),
               row.lastCommand = rows[o].lastCommand
        PROVE  Goal
    BY <1>1, <2>0 DEF Take
  <2>1. ASSUME Claim(w)
        PROVE  Goal
    <3>1. PICK o \in Present(rows), t \in NewTokens : Take(w, o, t, Leased(rows[o], t))
      BY <2>1 DEF Claim
    <3>2. Leased(rows[o], t).lastCommand = rows[o].lastCommand
      BY <1>4
    <3> QED
      BY <2>0, <3>1, <3>2
  <2>2. ASSUME NEW o \in RunIds, ClaimById(w, o)
        PROVE  Goal
    <3>1. PICK t \in NewTokens : Take(w, o, t, Leased(rows[o], t))
      BY <2>2 DEF ClaimById
    <3>2. o \in Present(rows)
      BY <2>2 DEF ClaimById
    <3>3. Leased(rows[o], t).lastCommand = rows[o].lastCommand
      BY <1>4, <3>2
    <3> QED
      BY <2>0, <3>1, <3>2, <3>3
  <2>3. ASSUME ClaimNextContinuation(w)
        PROVE  Goal
    <3>1. PICK o \in Present(rows), t \in NewTokens :
            Take(w, o, t, ContinuationLeased(rows[o], t))
      BY <2>3 DEF ClaimNextContinuation
    <3>2. ContinuationLeased(rows[o], t).lastCommand = rows[o].lastCommand
      BY <1>4
    <3> QED
      BY <2>0, <3>1, <3>2
  <2>4. CASE Heartbeat(w)
    BY <1>1, <1>4, <2>4 DEF Heartbeat, Owns
  <2>5. ASSUME NEW row, Finish(w, row),
               Owns(w) => row.lastCommand = rows[handle[w].run].lastCommand
        PROVE  Goal
    <3>1. CASE Owns(w)
      BY <1>1, <2>5, <3>1 DEF Finish, Owns
    <3>2. CASE ~Owns(w)
      BY <1>2, <2>5, <3>2 DEF Finish
    <3> QED
      BY <3>1, <3>2
  <2>6. CASE ReleaseLease(w)
    BY <1>4, <2>5, <2>6 DEF ReleaseLease, Owns
  <2>7. CASE Complete(w)
    BY <1>4, <2>5, <2>7 DEF Complete, Owns
  <2>8. ASSUME NEW retry, NEW why, Fail(w, retry, why)
        PROVE  Goal
    BY <1>4, <2>5, <2>8 DEF Fail, Owns
  <2>9. ASSUME NEW a, SuspendForApproval(w, a)
        PROVE  Goal
    BY <1>4, <2>5, <2>9 DEF SuspendForApproval, Owns
  <2>10. CASE Crash(w)
    BY <1>2, <2>10 DEF Crash
  <2> QED
    BY <1>5, <2>1, <2>2, <2>3, <2>4, <2>6, <2>7, <2>8, <2>9, <2>10 DEF WorkerStep
<1>6. ASSUME NEW o \in RunIds, Withdraw(o)
      PROVE  Goal
  BY <1>0, <1>6 DEF Withdraw
<1>7. ASSUME NEW o \in RunIds, DecisionStep(o)
      PROVE  Goal
  <2>1. ASSUME NEW c \in Commands, BeginContinuationAttempt(o, c)
        PROVE  Goal
    <3>1. o \in Present(rows) /\ rows[o] \in Row /\ rows[o].target = "awaiting_approval"
      BY <2>1, PresentRow DEF BeginContinuationAttempt, Resumable, Inv
    <3>2. Resumed(rows[o], c).target = "running"
      BY <3>1 DEF Resumed, Row
    <3> QED
      BY <1>0, <2>1, <3>1, <3>2 DEF BeginContinuationAttempt, Present
  <2>2. ASSUME NEW why, FailFromApproval(o, why)
        PROVE  Goal
    BY <1>1, <1>4, <2>2 DEF FailFromApproval
  <2> QED
    BY <1>7, <2>1, <2>2 DEF DecisionStep
<1>8. ASSUME NEW z \in Reapers, ReaperStep(z)
      PROVE  Goal
  <2>1. CASE SweepStart(z)
    BY <1>2, <2>1 DEF SweepStart
  <2>2. ASSUME NEW o \in RunIds, NEW tooOld \in BOOLEAN, SweepNext(z, o, tooOld)
        PROVE  Goal
    BY <1>1, <1>2, <1>4, <2>2 DEF SweepNext, StillLapsed
  <2> QED
    BY <1>8, <2>1, <2>2 DEF ReaperStep
<1>9. CASE Tick
  <2>1. rows'[r] = Aged(rows[r])
    BY <1>9 DEF Tick
  <2>2. rows[r] # NoRow
    BY <2>1 DEF Aged
  <2> QED
    BY <1>4, <2>1, <2>2 DEF Present
<1> QED
  BY <1>2, <1>3, <1>5, <1>6, <1>7, <1>8, <1>9 DEF Next, vars

-----------------------------------------------------------------------------
(* A live lease is respected.                                              *)

\* Another worker's last call does not reach the run of an owner.
LEMMA FinishSparesOwned ==
  ASSUME Inv, NEW w \in Workers, Owns(w), NEW v \in Workers, NEW row, Finish(v, row),
         handle'[w] = handle[w]
  PROVE  rows'[handle[w].run] = rows[handle[w].run]
<1>1. rows \in [RunIds -> Row \cup {NoRow}] /\ handle \in [Workers -> Handle \cup {NoHandle}]
  BY DEF Inv, RowsInv, RowsTyped, HandlesInv
<1>2. v # w
  BY <1>1 DEF Finish, Owns
<1>3. Owns(v) => handle[v].run # handle[w].run
  BY <1>2 DEF Inv, HandlesInv, TokensUnshared, Owns, Holds
<1>4. handle[w].run \in RunIds
  BY DEF Owns, Present
<1>. QED
  BY <1>1, <1>3, <1>4 DEF Finish

\* A step that is not the holder's leaves a live lease on its row.
LEMMA StepRespectsLease ==
  ASSUME Inv, Next, NEW w \in Workers, Owns(w), handle'[w] = handle[w],
         ~LeaseLapsed(rows[handle[w].run], 0)
  PROVE  /\ rows'[handle[w].run] # NoRow
         /\ Holds(rows'[handle[w].run], handle[w].token)
<1>. DEFINE r == handle[w].run
            Kept == rows'[r] # NoRow /\ Holds(rows'[r], handle[w].token)
<1>0. /\ rows \in [RunIds -> Row \cup {NoRow}]
      /\ r \in RunIds
      /\ rows[r] # NoRow
      /\ rows[r] \in Row
      /\ rows[r].lease # NoLease
      /\ rows[r].lease.token = handle[w].token
      /\ rows[r].target = "running"
      /\ rows[r].status = "running"
      /\ rows[r].lease.left > 0
      /\ rows[r].lease \in Lease
  <2>1. r \in Present(rows) /\ SoundRow(rows[r]) /\ rows[r].lease # NoLease
        /\ rows[r].target = "running"
    BY OwnedRow
  <2>2. rows[r].status = "running"
    BY <2>1 DEF SoundRow, Row, Statuses, StatesAgree
  <2>3. rows[r].lease \in Lease
    BY <2>1 DEF SoundRow, Row
  <2>4. rows[r].lease.left > 0
    BY <2>1, <2>2, <2>3 DEF LeaseLapsed, Lease
  <2>. QED
    BY <2>1, <2>2, <2>3, <2>4
       DEF Inv, RowsInv, RowsTyped, Present, SoundRow, Owns, Holds
<1>00. rows'[r] = rows[r] => Kept
  BY <1>0 DEF Holds
<1>1. ASSUME NEW s \in Sessions, NEW k \in Keys \cup {NoKey}, Enqueue(s, k)
      PROVE  Kept
  <2>1. r # created + 1
    BY <1>0 DEF Inv, RowsInv, RowsTyped, RunIds
  <2>. QED
    BY <1>0, <1>00, <1>1, <2>1 DEF Enqueue
<1>2. ASSUME NEW o \in RunIds, Withdraw(o)
      PROVE  Kept
  BY <1>0, <1>00, <1>2 DEF Withdraw
<1>3. ASSUME NEW v \in Workers, WorkerStep(v)
      PROVE  Kept
  <2>1. CASE Claim(v)
    BY <1>0, <1>00, <2>1 DEF Claim, Oldest, Claimable, Take
  <2>2. ASSUME NEW o \in RunIds, ClaimById(v, o)
        PROVE  Kept
    BY <1>0, <1>00, <2>2 DEF ClaimById, Claimable, Take
  <2>3. CASE ClaimNextContinuation(v)
    BY <1>0, <1>00, <2>3
       DEF ClaimNextContinuation, Oldest, ContinuationClaimable, Take
  <2>4. CASE Heartbeat(v)
    <3>1. CASE handle[v].run = r
      <4>1. rows'[r] = Renewed(rows[r])
        BY <1>0, <2>4, <3>1 DEF Heartbeat
      <4>2. Renewed(rows[r]).lease = [rows[r].lease EXCEPT !.left = LeaseTTL]
        BY <1>0 DEF Renewed, Row
      <4>3. /\ [rows[r].lease EXCEPT !.left = LeaseTTL] \in Lease
            /\ [rows[r].lease EXCEPT !.left = LeaseTTL].token = handle[w].token
        BY <1>0, CountsAssumption DEF Lease
      <4>4. Renewed(rows[r]) # NoRow
        <5>1. SoundRow(rows[r])
          BY OwnedRow
        <5>2. SoundRow(Renewed(rows[r]))
          BY <1>0, <5>1, RenewedIsSound
        <5>. QED
          BY <5>2, NoRowAssumption DEF SoundRow
      <4>. QED
        BY <4>1, <4>2, <4>3, <4>4, AbsenceAssumption DEF Holds
    <3>2. CASE handle[v].run # r
      BY <1>0, <1>00, <2>4, <3>2 DEF Heartbeat
    <3>. QED
      BY <3>1, <3>2
  <2>5. CASE \E row : Finish(v, row)
    BY <1>00, <2>5, FinishSparesOwned
  <2>6. CASE Crash(v)
    BY <1>00, <2>6 DEF Crash
  <2>. QED
    BY <1>3, <2>1, <2>2, <2>3, <2>4, <2>5, <2>6
       DEF WorkerStep, ReleaseLease, Complete, Fail, SuspendForApproval
<1>4. ASSUME NEW o \in RunIds, DecisionStep(o)
      PROVE  Kept
  BY <1>0, <1>00, <1>4
     DEF DecisionStep, BeginContinuationAttempt, Resumable, FailFromApproval
<1>5. ASSUME NEW z \in Reapers, ReaperStep(z)
      PROVE  Kept
  <2>1. \A o \in RunIds : StillLapsed(z, o) => o # r
    <3>1. sweep[z].age \in Nat
      BY CountsAssumption DEF Inv, SweepInv
    <3>. QED
      BY <1>0, <3>1 DEF StillLapsed, LeaseLapsed, Lease
  <2>. QED
    BY <1>0, <1>00, <1>5, <2>1 DEF ReaperStep, SweepStart, SweepNext
<1>6. CASE Tick
  <2>1. rows'[r] = Aged(rows[r])
    BY <1>0, <1>6 DEF Tick
  <2>2. CASE rows[r].lease.left > -MaxSweep
    <3>1. Aged(rows[r]) = [rows[r] EXCEPT !.lease = [rows[r].lease EXCEPT
                                                        !.left = rows[r].lease.left - 1]]
      BY <1>0, <2>2 DEF Aged
    <3>2. /\ [rows[r].lease EXCEPT !.left = rows[r].lease.left - 1] \in Lease
          /\ [rows[r].lease EXCEPT !.left = rows[r].lease.left - 1].token = handle[w].token
      BY <1>0 DEF Lease
    <3>3. rows'[r] \in Row
      BY <1>0, <2>1, <3>1, <3>2 DEF Row
    <3>4. rows'[r].lease = [rows[r].lease EXCEPT !.left = rows[r].lease.left - 1]
      BY <1>0, <2>1, <3>1 DEF Row
    <3>. QED
      BY <3>2, <3>3, <3>4, AbsenceAssumption, NoRowAssumption DEF Holds
  <2>3. CASE ~(rows[r].lease.left > -MaxSweep)
    BY <1>00, <2>1, <2>3 DEF Aged
  <2>. QED
    BY <2>2, <2>3
<1>. QED
  BY <1>1, <1>2, <1>3, <1>4, <1>5, <1>6 DEF Next

\* A lease that has not lapsed ends by a step of its holder only.
THEOREM LiveLeaseIsRespectedHolds == Spec => LiveLeaseIsRespected
<1>1. Inv /\ [Next]_vars =>
        [\A r \in RunIds : \A w \in Workers :
           (Owns(w) /\ handle[w].run = r /\ handle'[w] = handle[w]
              /\ ~LeaseLapsed(rows[r], 0))
           => rows'[r] # NoRow /\ Holds(rows'[r], handle[w].token)]_vars
  BY StepRespectsLease
<1>. QED
  BY InvHolds, <1>1, PTL DEF Spec, LiveLeaseIsRespected

-----------------------------------------------------------------------------
(* The refinement of RunLifecycle.                                         *)

\* What the refinement mapping makes of a run.
StateOf(r) == IF rows[r] = NoRow THEN "absent" ELSE rows[r].target
OwnerOf(r) == IF Owners(r) = {} THEN NoHandle ELSE CHOOSE w \in Owners(r) : TRUE

\* A step that moves one run in the lifecycle and leaves the others alone.
LEMMA MovesOne ==
  ASSUME NEW r \in RunIds, NEW from, NEW to, NEW o,
         StateOf(r) \in from, StateOf(r)' = to, OwnerOf(r)' = o,
         \A q \in RunIds \ {r} : StateOf(q)' = StateOf(q) /\ OwnerOf(q)' = OwnerOf(q)
  PROVE  Lifecycle!Move(r, from, to, o)
<1>. DEFINE state == [q \in RunIds |-> StateOf(q)]
            owner == [q \in RunIds |-> OwnerOf(q)]
<1>1. state[r] = StateOf(r)
  OBVIOUS
<1>2. [q \in RunIds |-> StateOf(q)'] = [state EXCEPT ![r] = to]
  OBVIOUS
<1>3. [q \in RunIds |-> OwnerOf(q)'] = [owner EXCEPT ![r] = o]
  OBVIOUS
<1>. QED
  BY <1>1, <1>2, <1>3 DEF Lifecycle!Move, StateOf, OwnerOf

\* A step that moves no run.
LEMMA MovesNone ==
  ASSUME \A q \in RunIds : StateOf(q)' = StateOf(q) /\ OwnerOf(q)' = OwnerOf(q)
  PROVE  UNCHANGED Lifecycle!vars
BY DEF Lifecycle!vars, StateOf, OwnerOf

\* The owner of a run is the one worker that holds its lease, or nobody.
LEMMA OwnerIs ==
  ASSUME Inv, NEW w \in Workers, Owns(w)
  PROVE  OwnerOf(handle[w].run) = w /\ w # NoHandle
<1>1. \A v \in Owners(handle[w].run) : v = w
  BY DEF Owners, Owns, Holds, Inv, HandlesInv, TokensUnshared
<1>2. Owners(handle[w].run) = {w}
  BY <1>1 DEF Owners
<1>. QED
  BY <1>2, WorkersAssumption DEF OwnerOf

LEMMA Unowned ==
  ASSUME NEW r, \A w \in Workers : ~(Owns(w) /\ handle[w].run = r)
  PROVE  OwnerOf(r) = NoHandle
BY DEF OwnerOf, Owners

\* A run without a lease has no owner.
LEMMA NoLeaseNoOwner ==
  ASSUME NEW r, rows[r] = NoRow \/ rows[r].lease = NoLease
  PROVE  OwnerOf(r) = NoHandle
BY Unowned DEF Owns, Holds, Present

\* A run whose lease and lease holder stay has the same owner.
LEMMA SameOwner ==
  ASSUME NEW q,
         \A w \in Workers :
           (Owns(w) /\ handle[w].run = q) <=> (Owns(w)' /\ handle'[w].run = q)
  PROVE  OwnerOf(q)' = OwnerOf(q)
<1>1. Owners(q)' = Owners(q)
  BY DEF Owners
<1>. QED
  BY <1>1 DEF OwnerOf

\* A step that writes one row and no handle.
LEMMA WritesRow ==
  ASSUME Inv, NEW r \in RunIds, NEW row, rows' = [rows EXCEPT ![r] = row],
         UNCHANGED handle
  PROVE  /\ StateOf(r)' = IF row = NoRow THEN "absent" ELSE row.target
         /\ row = NoRow \/ row.lease = NoLease => OwnerOf(r)' = NoHandle
         /\ \A q \in RunIds \ {r} : StateOf(q)' = StateOf(q) /\ OwnerOf(q)' = OwnerOf(q)
<1>0. rows \in [RunIds -> Row \cup {NoRow}]
  BY DEF Inv, RowsInv, RowsTyped
<1>1. rows'[r] = row /\ \A q \in RunIds \ {r} : rows'[q] = rows[q]
  BY <1>0
<1>2. ASSUME NEW q \in RunIds \ {r} PROVE OwnerOf(q)' = OwnerOf(q)
  <2>1. \A w \in Workers : (Owns(w) /\ handle[w].run = q) <=> (Owns(w)' /\ handle'[w].run = q)
    BY <1>1 DEF Owns, Present
  <2>. QED
    BY <2>1, SameOwner
<1>3. ASSUME row = NoRow \/ row.lease = NoLease PROVE OwnerOf(r)' = NoHandle
  <2>1. \A w \in Workers : ~(Owns(w)' /\ handle'[w].run = r)
    BY <1>1, <1>3 DEF Owns, Holds, Present
  <2>. QED
    BY <2>1 DEF OwnerOf, Owners
<1>. QED
  BY <1>1, <1>2, <1>3 DEF StateOf

\* A step that leaves a run without a lease moves it, and it has no owner then.
LEMMA WriteMoves ==
  ASSUME Inv, NEW r \in RunIds, NEW row, rows' = [rows EXCEPT ![r] = row],
         UNCHANGED handle, row = NoRow \/ row.lease = NoLease,
         NEW from, StateOf(r) \in from,
         NEW to, to = IF row = NoRow THEN "absent" ELSE row.target
  PROVE  Lifecycle!Move(r, from, to, NoHandle)
<1>1. /\ StateOf(r)' = to /\ OwnerOf(r)' = NoHandle
      /\ \A q \in RunIds \ {r} : StateOf(q)' = StateOf(q) /\ OwnerOf(q)' = OwnerOf(q)
  BY WritesRow
<1>. QED
  BY <1>1, MovesOne

\* A claim: the run is running, and the worker that took it is its owner.
LEMMA TakesRun ==
  ASSUME Inv, NEW w \in Workers, handle[w] = NoHandle, NEW r \in Present(rows),
         NEW t \in NewTokens, NEW row, Holds(row, t), row # NoRow,
         Take(w, r, t, row)
  PROVE  /\ StateOf(r)' = row.target
         /\ OwnerOf(r)' = w
         /\ \A q \in RunIds \ {r} : StateOf(q)' = StateOf(q) /\ OwnerOf(q)' = OwnerOf(q)
<1>0. /\ rows \in [RunIds -> Row \cup {NoRow}] /\ handle \in [Workers -> Handle \cup {NoHandle}]
      /\ r \in RunIds
  BY DEF Inv, RowsInv, RowsTyped, HandlesInv, Present
<1>1. rows'[r] = row /\ \A q \in RunIds \ {r} : rows'[q] = rows[q]
  BY <1>0 DEF Take
<1>h. [run |-> r, token |-> t] # NoHandle
  BY <1>0, WorkersAssumption DEF Handle, NewTokens
<1>2. /\ handle'[w] = [run |-> r, token |-> t]
      /\ \A v \in Workers \ {w} : handle'[v] = handle[v]
  BY <1>0 DEF Take
<1>3. ASSUME NEW q \in RunIds \ {r} PROVE OwnerOf(q)' = OwnerOf(q)
  <2>1. \A v \in Workers : (Owns(v) /\ handle[v].run = q) <=> (Owns(v)' /\ handle'[v].run = q)
    BY <1>1, <1>2, <1>h DEF Owns, Present
  <2>. QED
    BY <2>1, SameOwner
<1>4. Owners(r)' = {w}
  <2>1. Owns(w)' /\ handle'[w].run = r
    BY <1>0, <1>1, <1>2, <1>h DEF Owns, Present, Holds
  <2>2. ASSUME NEW v \in Workers \ {w}, Owns(v)', handle'[v].run = r PROVE FALSE
    <3>1. handle[v] # NoHandle /\ handle[v].token # t
      BY <1>2, <2>2 DEF Owns, NewTokens
    <3>. QED
      BY <1>1, <1>2, <2>2, <3>1 DEF Owns, Holds
  <2>. QED
    BY <2>1, <2>2 DEF Owners
<1>5. OwnerOf(r)' = w
  BY <1>4 DEF OwnerOf
<1>. QED
  BY <1>1, <1>3, <1>5 DEF StateOf


\* The worker's run is running while the worker owns it.
LEMMA OwnedRuns ==
  ASSUME Inv, NEW w \in Workers, Owns(w)
  PROVE  rows[handle[w].run].target = "running"
BY OwnedRow DEF SoundRow, LeaseMeansRunning, Owns, Holds

\* A worker without its lease moves nothing when it lets go of its run.
LEMMA LateWorkerMovesNone ==
  ASSUME Inv, NEW w \in Workers, ~Owns(w), rows' = rows,
         handle' = [handle EXCEPT ![w] = NoHandle]
  PROVE  UNCHANGED Lifecycle!vars
<1>1. handle'[w] = NoHandle /\ \A v \in Workers \ {w} : handle'[v] = handle[v]
  BY DEF Inv, HandlesInv
<1>2. ASSUME NEW q \in RunIds PROVE OwnerOf(q)' = OwnerOf(q)
  <2>1. \A v \in Workers : (Owns(v) /\ handle[v].run = q) <=> (Owns(v)' /\ handle'[v].run = q)
    BY <1>1 DEF Owns, Present
  <2>. QED
    BY <2>1, SameOwner
<1>. QED
  BY <1>2, MovesNone DEF StateOf

\* The owner of a run gives it up, with the row as it is or with a new one.
LEMMA OwnerLetsGo ==
  ASSUME Inv, NEW w \in Workers, Owns(w), NEW row, row # NoRow,
         row.lease \in {NoLease, rows[handle[w].run].lease},
         rows' = [rows EXCEPT ![handle[w].run] = row],
         handle' = [handle EXCEPT ![w] = NoHandle]
  PROVE  \E r \in RunIds : /\ OwnerOf(r) # NoHandle
                           /\ Lifecycle!Move(r, {"running"}, row.target, NoHandle)
<1>0. rows \in [RunIds -> Row \cup {NoRow}] /\ handle \in [Workers -> Handle \cup {NoHandle}]
  BY DEF Inv, RowsInv, RowsTyped, HandlesInv
<1>1. handle'[w] = NoHandle /\ \A v \in Workers \ {w} : handle'[v] = handle[v]
  BY <1>0
<1>2. PICK r \in RunIds : r = handle[w].run /\ rows[r] # NoRow
  BY DEF Owns, Present
<1>3. rows'[r] = row /\ \A q \in RunIds \ {r} : rows'[q] = rows[q]
  BY <1>0, <1>2
<1>4. ASSUME NEW q \in RunIds \ {r} PROVE OwnerOf(q)' = OwnerOf(q)
  <2>1. \A v \in Workers : (Owns(v) /\ handle[v].run = q) <=> (Owns(v)' /\ handle'[v].run = q)
    BY <1>1, <1>2, <1>3 DEF Owns, Present
  <2>. QED
    BY <2>1, SameOwner
<1>5. OwnerOf(r)' = NoHandle
  <2>1. ASSUME NEW v \in Workers, Owns(v)', handle'[v].run = r
        PROVE  FALSE
    <3>1. v # w /\ handle[v] # NoHandle /\ handle[v].run = r /\ handle[v].token # handle[w].token
      BY <1>1, <2>1 DEF Owns, Inv, HandlesInv, TokensUnshared
    <3>2. row.lease # NoLease /\ row.lease.token = handle[v].token
      BY <1>1, <1>3, <2>1, <3>1 DEF Owns, Holds
    <3>. QED
      BY <1>2, <3>1, <3>2 DEF Owns, Holds
  <2>. QED
    BY <2>1 DEF OwnerOf, Owners
<1>6. OwnerOf(r) # NoHandle
  BY <1>2, OwnerIs
<1>7. StateOf(r) \in {"running"} /\ StateOf(r)' = row.target
  BY <1>2, <1>3, OwnedRuns DEF StateOf
<1>8. \A q \in RunIds \ {r} : StateOf(q)' = StateOf(q) /\ OwnerOf(q)' = OwnerOf(q)
  BY <1>3, <1>4 DEF StateOf
<1>9. Lifecycle!Move(r, {"running"}, row.target, NoHandle)
  BY <1>5, <1>7, <1>8, MovesOne
<1>. QED
  BY <1>6, <1>9

\* A retired run is back in the queue or has failed.
LEMMA RetiredStates ==
  ASSUME NEW row, row \in Row, NEW retry, NEW errors, NEW why
  PROVE  LET new == Retired(row, retry, errors, why)
         IN  new.lease = NoLease /\ new.target \in {"queued", "failed"}
BY DEF Retired, Released, Row

\* What becomes of a run its owner gives up.
Left == {"queued", "running", "awaiting_approval", "succeeded", "failed"}

\* A move that the lifecycle has for a running run with an owner.
LEMMA OwnerMoves ==
  ASSUME NEW r \in RunIds, OwnerOf(r) # NoHandle,
         NEW to \in Left,
         Lifecycle!Move(r, {"running"}, to, NoHandle)
  PROVE  Lifecycle!Next
<1>1. [q \in RunIds |-> OwnerOf(q)][r] # NoHandle
  OBVIOUS
<1>2. CASE to = "queued"
  BY <1>2 DEF Lifecycle!Next, Lifecycle!GiveBack
<1>3. CASE to = "awaiting_approval"
  BY <1>1, <1>3 DEF Lifecycle!Next, Lifecycle!Suspend, OwnerOf
<1>4. CASE to = "succeeded"
  BY <1>1, <1>4 DEF Lifecycle!Next, Lifecycle!Succeed, OwnerOf
<1>5. CASE to = "failed"
  <2>1. Lifecycle!Move(r, {"running", "awaiting_approval"}, "failed", NoHandle)
    BY <1>5 DEF Lifecycle!Move
  <2>. QED
    BY <2>1 DEF Lifecycle!Next, Lifecycle!Fail
<1>6. CASE to = "running"
  BY <1>6 DEF Lifecycle!Next, Lifecycle!Abandon
<1>. QED
  BY <1>2, <1>3, <1>4, <1>5, <1>6 DEF Left

\* release, complete, fail and suspendForApproval.
LEMMA EndOfRunImplements ==
  ASSUME Inv, NEW w \in Workers,
         \/ ReleaseLease(w)
         \/ Complete(w)
         \/ \E retry \in BOOLEAN, why \in FailureReasons : Fail(w, retry, why)
         \/ \E approval \in Approval : SuspendForApproval(w, approval)
         \/ Crash(w)
  PROVE  [Lifecycle!Next]_(Lifecycle!vars)
<1> DEFINE old == rows[handle[w].run]
           Gives(row) == /\ row \in Row
                         /\ row.lease \in {NoLease, old.lease}
                         /\ row.target \in Left
                         /\ rows' = [rows EXCEPT ![handle[w].run] = row]
<1>1. handle' = [handle EXCEPT ![w] = NoHandle]
  BY DEF ReleaseLease, Complete, Fail, SuspendForApproval, Finish, Crash
<1>2. CASE ~Owns(w)
  <2>1. rows' = rows
    BY <1>2 DEF ReleaseLease, Complete, Fail, SuspendForApproval, Finish, Crash
  <2>. QED
    BY <1>1, <1>2, <2>1, LateWorkerMovesNone
<1>3. CASE Owns(w)
  <2>0. /\ rows \in [RunIds -> Row \cup {NoRow}] /\ handle[w].run \in RunIds
        /\ SoundRow(old) /\ old \in Row /\ old.lease # NoLease /\ old.target = "running"
    BY <1>3, OwnedRuns, OwnedRow
       DEF SoundRow, Inv, RowsInv, RowsTyped, Owns, Holds, Present
  <2>1. ASSUME ReleaseLease(w) PROVE \E row : Gives(row)
    <3>1. SoundRow(Released(old))
      BY <2>0, ReleasedIsSound
    <3>2. Released(old).lease = NoLease /\ Released(old).target = "queued"
      BY <2>0 DEF Released, Row
    <3>3. Gives(Released(old))
      BY <1>3, <2>1, <3>1, <3>2 DEF ReleaseLease, Finish, Left, SoundRow
    <3>. HIDE DEF Gives
    <3>. QED
      BY <3>3
  <2>2. ASSUME Complete(w) PROVE \E row : Gives(row)
    <3>1. SoundRow(Completed(old))
      BY <2>0, CompletedIsSound
    <3>2. Completed(old).lease = NoLease /\ Completed(old).target = "succeeded"
      BY <2>0 DEF Completed, Row
    <3>3. Gives(Completed(old))
      BY <1>3, <2>2, <3>1, <3>2 DEF Complete, Finish, Left, SoundRow
    <3>. HIDE DEF Gives
    <3>. QED
      BY <3>3
  <2>3. ASSUME NEW retry \in BOOLEAN, NEW why \in FailureReasons, Fail(w, retry, why)
        PROVE  \E row : Gives(row)
    <3>1. SoundRow(Retired(old, retry, 1, why))
      BY <2>0, RetiredIsSound
    <3>2. /\ Retired(old, retry, 1, why).lease = NoLease
          /\ Retired(old, retry, 1, why).target \in {"queued", "failed"}
      BY <2>0, RetiredStates
    <3>3. Gives(Retired(old, retry, 1, why))
      BY <1>3, <2>3, <3>1, <3>2 DEF Fail, Finish, Left, SoundRow
    <3>. HIDE DEF Gives
    <3>. QED
      BY <3>3
  <2>4. ASSUME NEW approval \in Approval, SuspendForApproval(w, approval)
        PROVE  \E row : Gives(row)
    <3>1. SoundRow(Suspended(old, approval))
      BY <2>0, SuspendedIsSound
    <3>2. /\ Suspended(old, approval).lease = NoLease
          /\ Suspended(old, approval).target = "awaiting_approval"
      BY <2>0 DEF Suspended, Row
    <3>3. Gives(Suspended(old, approval))
      BY <1>3, <2>4, <3>1, <3>2 DEF SuspendForApproval, Finish, Left, SoundRow
    <3>. HIDE DEF Gives
    <3>. QED
      BY <3>3
  <2>5. ASSUME Crash(w) PROVE \E row : Gives(row)
    <3>1. Gives(old)
      BY <2>0, <2>5 DEF Crash, Left
    <3>. HIDE DEF Gives
    <3>. QED
      BY <3>1
  <2>6. PICK row : Gives(row)
    BY <2>1, <2>2, <2>3, <2>4, <2>5
  <2>7. row # NoRow
    BY <2>6, NoRowAssumption
  <2>8. PICK r \in RunIds : /\ OwnerOf(r) # NoHandle
                            /\ Lifecycle!Move(r, {"running"}, row.target, NoHandle)
    BY <1>1, <1>3, <2>6, <2>7, OwnerLetsGo
  <2>9. row.target \in Left
    BY <2>6
  <2>. QED
    BY <2>8, <2>9, OwnerMoves
<1>. QED
  BY <1>2, <1>3

\* A run that nobody owns is adopted by, or a queued run started for, its claimer.
LEMMA ClaimMoves ==
  ASSUME Inv, NEW w \in Workers, handle[w] = NoHandle, NEW r \in Present(rows),
         NEW t \in NewTokens, NEW row, Holds(row, t), row \in Row, row.target = "running",
         Take(w, r, t, row),
         rows[r].lease = NoLease, rows[r].target \in {"queued", "running"}
  PROVE  Lifecycle!Next
<1>1. /\ StateOf(r)' = "running" /\ OwnerOf(r)' = w
      /\ \A q \in RunIds \ {r} : StateOf(q)' = StateOf(q) /\ OwnerOf(q)' = OwnerOf(q)
  BY TakesRun, NoRowAssumption
<1>2. r \in RunIds /\ StateOf(r) = rows[r].target
  BY DEF Present, StateOf
<1>3. CASE rows[r].target = "queued"
  <2>1. Lifecycle!Move(r, {"queued"}, "running", w)
    BY <1>1, <1>2, <1>3, MovesOne
  <2>. QED
    BY <1>2, <2>1 DEF Lifecycle!Next, Lifecycle!Start
<1>4. CASE rows[r].target = "running"
  <2>1. Lifecycle!Move(r, {"running"}, "running", w)
    BY <1>1, <1>2, <1>4, MovesOne
  <2>2. [q \in RunIds |-> OwnerOf(q)][r] = NoHandle
    BY <1>2, NoLeaseNoOwner
  <2>. QED
    BY <1>2, <2>1, <2>2 DEF Lifecycle!Next, Lifecycle!Adopt, OwnerOf
<1>. QED
  BY <1>3, <1>4

\* claim, claimById and claimNextContinuation.
LEMMA ClaimImplements ==
  ASSUME Inv, NEW w \in Workers,
         \/ Claim(w)
         \/ \E r \in RunIds : ClaimById(w, r)
         \/ ClaimNextContinuation(w)
  PROVE  Lifecycle!Next
<1>1. ASSUME NEW r \in Present(rows), NEW t \in NewTokens, handle[w] = NoHandle,
             Claimable(rows, r), Take(w, r, t, Leased(rows[r], t))
      PROVE  Lifecycle!Next
  <2>1. SoundRow(rows[r]) /\ rows[r].status = "pending" /\ t \in Tokens
    BY <1>1, PresentRow DEF Inv, Claimable, NewTokens
  <2>2. rows[r].target = "queued" /\ rows[r].lease = NoLease
    BY <2>1 DEF SoundRow, StatesAgree, LeaseMeansRunning
  <2>3. SoundRow(Leased(rows[r], t))
    BY <2>1, LeasedIsSound
  <2>4. Holds(Leased(rows[r], t), t) /\ Leased(rows[r], t).target = "running"
    BY <2>1, FreshIsLease DEF Leased, Holds, SoundRow, Row, Fresh
  <2>. QED
    BY <1>1, <2>2, <2>3, <2>4, ClaimMoves DEF SoundRow
<1>2. ASSUME NEW r \in Present(rows), NEW t \in NewTokens, handle[w] = NoHandle,
             ContinuationClaimable(rows[r]), Take(w, r, t, ContinuationLeased(rows[r], t))
      PROVE  Lifecycle!Next
  <2>1. SoundRow(rows[r]) /\ t \in Tokens
    BY <1>2, PresentRow DEF Inv, NewTokens
  <2>2. rows[r].target = "running" /\ rows[r].lease = NoLease
    BY <1>2 DEF ContinuationClaimable
  <2>3. SoundRow(ContinuationLeased(rows[r], t))
    BY <1>2, <2>1, ContinuationLeasedIsSound
  <2>4. Holds(ContinuationLeased(rows[r], t), t) /\ ContinuationLeased(rows[r], t).target = "running"
    BY <2>1, <2>2, FreshIsLease DEF ContinuationLeased, Holds, SoundRow, Row, Fresh
  <2>. QED
    BY <1>2, <2>2, <2>3, <2>4, ClaimMoves DEF SoundRow
<1>3. CASE Claim(w)
  BY <1>1, <1>3 DEF Claim, Oldest
<1>4. CASE \E r \in RunIds : ClaimById(w, r)
  BY <1>1, <1>4 DEF ClaimById
<1>5. CASE ClaimNextContinuation(w)
  BY <1>2, <1>5 DEF ClaimNextContinuation, Oldest
<1>. QED
  BY <1>3, <1>4, <1>5

\* enqueue and withdraw.
LEMMA ClientImplements ==
  ASSUME Inv,
         \/ \E s \in Sessions, k \in Keys \cup {NoKey} : Enqueue(s, k)
         \/ \E r \in RunIds : Withdraw(r)
  PROVE  Lifecycle!Next
<1>1. ASSUME NEW s \in Sessions, NEW k \in Keys \cup {NoKey}, Enqueue(s, k)
      PROVE  Lifecycle!Next
  <2>1. PICK r \in RunIds : r = created + 1
    BY <1>1, CountsAssumption DEF Enqueue, Inv, RowsInv, RowsTyped, RunIds
  <2>2. StateOf(r) = "absent"
    BY <2>1 DEF StateOf, Inv, RowsInv, RowsTyped
  <2>3. rows' = [rows EXCEPT ![r] = NewRow(s, k)] /\ UNCHANGED handle
    BY <1>1, <2>1 DEF Enqueue
  <2>4. /\ NewRow(s, k) # NoRow
        /\ NewRow(s, k).target = "queued" /\ NewRow(s, k).lease = NoLease
    BY NewRowIsSound, NoRowAssumption DEF SoundRow, NewRow
  <2>5. Lifecycle!Move(r, {"absent"}, "queued", NoHandle)
    BY <2>2, <2>3, <2>4, WriteMoves
  <2>. QED
    BY <2>5 DEF Lifecycle!Next, Lifecycle!Enqueue
<1>2. ASSUME NEW r \in RunIds, Withdraw(r)
      PROVE  Lifecycle!Next
  <2>1. rows[r].target = "queued"
    BY <1>2, PresentRow DEF Inv, Withdraw, SoundRow, StatesAgree
  <2>2. StateOf(r) = "queued"
    BY <1>2, <2>1 DEF Withdraw, StateOf, Present
  <2>3. rows' = [rows EXCEPT ![r] = NoRow] /\ UNCHANGED handle
    BY <1>2 DEF Withdraw
  <2>4. Lifecycle!Move(r, {"queued"}, "absent", NoHandle)
    BY <2>2, <2>3, WriteMoves
  <2>. QED
    BY <2>4 DEF Lifecycle!Next, Lifecycle!Withdraw
<1>. QED
  BY <1>1, <1>2

\* beginContinuationAttempt and failFromApproval.
LEMMA DecisionImplements ==
  ASSUME Inv, NEW r \in RunIds, DecisionStep(r)
  PROVE  Lifecycle!Next
<1>1. r \in Present(rows) /\ StateOf(r) = "awaiting_approval" /\ UNCHANGED handle
  BY DEF DecisionStep, BeginContinuationAttempt, FailFromApproval, Resumable, StateOf, Present
<1>2. SoundRow(rows[r]) /\ rows[r].target = "awaiting_approval"
  BY <1>1, PresentRow DEF Inv, StateOf, Present
<1>3. ASSUME NEW c \in Commands, BeginContinuationAttempt(r, c)
      PROVE  Lifecycle!Next
  <2>1. SoundRow(Resumed(rows[r], c))
    BY <1>2, <1>3, ResumedIsSound DEF BeginContinuationAttempt
  <2>2. Resumed(rows[r], c).target = "running" /\ Resumed(rows[r], c).lease = NoLease
    BY <1>2 DEF Resumed, SoundRow, Row
  <2>3. rows' = [rows EXCEPT ![r] = Resumed(rows[r], c)]
    BY <1>3 DEF BeginContinuationAttempt
  <2>4. Lifecycle!Move(r, {"awaiting_approval"}, "running", NoHandle)
    BY <1>1, <2>1, <2>2, <2>3, WriteMoves, NoRowAssumption DEF SoundRow
  <2>. QED
    BY <2>4 DEF Lifecycle!Next, Lifecycle!Resume
<1>4. ASSUME NEW why \in FailureReasons, FailFromApproval(r, why)
      PROVE  Lifecycle!Next
  <2>1. SoundRow(FailedFromApproval(rows[r], why))
    BY <1>2, <1>4, FailedFromApprovalIsSound
  <2>2. /\ FailedFromApproval(rows[r], why).target = "failed"
        /\ FailedFromApproval(rows[r], why).lease = NoLease
    BY <1>2 DEF FailedFromApproval, SoundRow, Row
  <2>3. rows' = [rows EXCEPT ![r] = FailedFromApproval(rows[r], why)]
    BY <1>4 DEF FailFromApproval
  <2>4. Lifecycle!Move(r, {"running", "awaiting_approval"}, "failed", NoHandle)
    BY <1>1, <2>1, <2>2, <2>3, WriteMoves, NoRowAssumption DEF SoundRow
  <2>. QED
    BY <2>4 DEF Lifecycle!Next, Lifecycle!Fail
<1>. QED
  BY <1>3, <1>4 DEF DecisionStep, FailureReasons

\* The reaper takes a run from its owner, dead or alive, or finds nothing to do.
LEMMA ReaperImplements ==
  ASSUME Inv, NEW z \in Reapers, ReaperStep(z)
  PROVE  [Lifecycle!Next]_(Lifecycle!vars)
<1>1. ASSUME UNCHANGED <<rows, handle>>
      PROVE  UNCHANGED Lifecycle!vars
  <2>1. ASSUME NEW q \in RunIds PROVE StateOf(q)' = StateOf(q) /\ OwnerOf(q)' = OwnerOf(q)
    BY <1>1, SameOwner DEF StateOf, Owns, Present
  <2>. QED
    BY <2>1, MovesNone
<1>2. ASSUME NEW r \in RunIds, NEW tooOld \in BOOLEAN, SweepNext(z, r, tooOld),
             ~UNCHANGED rows
      PROVE  Lifecycle!Next
  <2> DEFINE new == Retired(rows[r], ~tooOld, 0, "execution_failed")
  <2>1. /\ r \in Present(rows) /\ rows[r].lease # NoLease
        /\ rows' = [rows EXCEPT ![r] = new] /\ UNCHANGED handle
    BY <1>2 DEF SweepNext, StillLapsed, LeaseLapsed
  <2>2. SoundRow(rows[r]) /\ rows[r].target = "running"
    BY <2>1, PresentRow DEF Inv, SoundRow, LeaseMeansRunning
  <2>3. SoundRow(new)
    BY <2>1, <2>2, RetiredIsSound DEF FailureReasons
  <2>4. new.lease = NoLease /\ new.target \in {"queued", "failed"} /\ new # NoRow
    BY <2>2, <2>3, RetiredStates, NoRowAssumption DEF SoundRow
  <2>5. StateOf(r) = "running"
    BY <2>1, <2>2 DEF StateOf, Present
  <2>6. CASE new.target = "queued"
    <3> HIDE DEF new
    <3>1. Lifecycle!Move(r, {"running"}, "queued", NoHandle)
      BY <2>1, <2>4, <2>5, <2>6, WriteMoves
    <3>. QED
      BY <3>1 DEF Lifecycle!Next, Lifecycle!GiveBack
  <2>7. CASE new.target = "failed"
    <3> HIDE DEF new
    <3>1. Lifecycle!Move(r, {"running", "awaiting_approval"}, "failed", NoHandle)
      BY <2>1, <2>4, <2>5, <2>7, WriteMoves
    <3>. QED
      BY <3>1 DEF Lifecycle!Next, Lifecycle!Fail
  <2>. QED
    BY <2>4, <2>6, <2>7
<1>3. UNCHANGED handle
  BY DEF ReaperStep, SweepStart, SweepNext
<1>4. SweepStart(z) => UNCHANGED rows
  BY DEF SweepStart
<1>. QED
  BY <1>1, <1>2, <1>3, <1>4 DEF ReaperStep

\* A heartbeat and the clock change how long leases last, not whose they are.
LEMMA LeaseTimesImplement ==
  ASSUME Inv, Tick \/ \E w \in Workers : Heartbeat(w)
  PROVE  UNCHANGED Lifecycle!vars
<1>1. UNCHANGED handle
  BY DEF Tick, Heartbeat
<1>2. ASSUME NEW q \in RunIds
      PROVE  /\ rows'[q] = NoRow <=> rows[q] = NoRow
             /\ rows[q] # NoRow =>
                  /\ rows'[q].target = rows[q].target
                  /\ \A t \in Tokens : Holds(rows'[q], t) <=> Holds(rows[q], t)
  <2>1. CASE rows[q] = NoRow
    <3>1. ASSUME NEW w \in Workers, Heartbeat(w) PROVE rows'[q] = NoRow
      BY <2>1, <3>1 DEF Heartbeat, Owns, Present, Inv, RowsInv, RowsTyped
    <3>2. CASE Tick
      BY <2>1, <3>2 DEF Tick, Aged
    <3>. QED
      BY <2>1, <3>1, <3>2
  <2>2. CASE rows[q] # NoRow
    <3>1. SoundRow(rows[q]) /\ rows[q] \in Row
      BY <2>2, PresentRow DEF Inv, Present
    <3>2. \/ rows'[q] = rows[q]
          \/ /\ rows[q].lease # NoLease
             /\ \E n \in Int : rows'[q] = [rows[q] EXCEPT !.lease = [rows[q].lease EXCEPT !.left = n]]
      <4>0. rows \in [RunIds -> Row \cup {NoRow}]
        BY DEF Inv, RowsInv, RowsTyped
      <4>1. ASSUME NEW w \in Workers, Heartbeat(w), rows'[q] # rows[q]
            PROVE  /\ rows[q].lease # NoLease
                   /\ rows'[q] = [rows[q] EXCEPT !.lease = [rows[q].lease EXCEPT !.left = LeaseTTL]]
        <5>1. handle[w].run = q
          BY <4>0, <4>1 DEF Heartbeat
        <5>2. rows[q].lease # NoLease /\ rows'[q] = Renewed(rows[q])
          BY <4>0, <4>1, <5>1 DEF Heartbeat, Owns, Holds, Present
        <5>. QED
          BY <5>2 DEF Renewed
      <4>2. ASSUME Tick, rows'[q] # rows[q]
            PROVE  /\ rows[q].lease # NoLease /\ rows[q].lease.left > -MaxSweep
                   /\ rows'[q] = [rows[q] EXCEPT !.lease =
                                    [rows[q].lease EXCEPT !.left = rows[q].lease.left - 1]]
        BY <4>2 DEF Tick, Aged
      <4>3. rows[q].lease # NoLease => rows[q].lease.left - 1 \in Int
        BY <3>1 DEF Row, Lease
      <4>. QED
        BY <4>1, <4>2, <4>3, CountsAssumption
    <3>3. ASSUME NEW n \in Int, rows[q].lease # NoLease,
                 rows'[q] = [rows[q] EXCEPT !.lease = [rows[q].lease EXCEPT !.left = n]]
          PROVE  /\ rows'[q] # NoRow /\ rows'[q].target = rows[q].target
                 /\ rows'[q].lease # NoLease /\ rows'[q].lease.token = rows[q].lease.token
      <4>1. rows[q].lease \in Lease
        BY <3>1, <3>3 DEF Row
      <4>2. DEFINE l == [rows[q].lease EXCEPT !.left = n]
      <4>3. l \in Lease /\ l.token = rows[q].lease.token
        BY <4>1 DEF Lease
      <4>. HIDE DEF l
      <4>4. rows'[q] \in Row /\ rows'[q].lease = l /\ rows'[q].target = rows[q].target
        BY <3>1, <3>3, <4>3 DEF Row, l
      <4>. QED
        BY <4>3, <4>4, AbsenceAssumption, NoRowAssumption
    <3>. QED
      BY <2>2, <3>2, <3>3 DEF Holds
  <2>. QED
    BY <2>1, <2>2
<1>3. ASSUME NEW q \in RunIds PROVE StateOf(q)' = StateOf(q) /\ OwnerOf(q)' = OwnerOf(q)
  <2>1. \A w \in Workers : (Owns(w) /\ handle[w].run = q) <=> (Owns(w)' /\ handle'[w].run = q)
    BY <1>1, <1>2 DEF Owns, Present, Inv, HandlesInv, Handle
  <2>. QED
    BY <1>2, <2>1, SameOwner DEF StateOf
<1>. QED
  BY <1>3, MovesNone

LEMMA InitImplements ==
  Init => Lifecycle!Init
<1>. SUFFICES ASSUME Init PROVE Lifecycle!Init
  OBVIOUS
<1>1. \A r \in RunIds : StateOf(r) = "absent" /\ OwnerOf(r) = NoHandle
  BY NoLeaseNoOwner DEF Init, StateOf
<1>. QED
  BY <1>1 DEF Lifecycle!Init, StateOf, OwnerOf

\* A step of the store moves one run as the lifecycle allows, or none.
LEMMA StepImplements ==
  ASSUME Inv, [Next]_vars
  PROVE  [Lifecycle!Next]_(Lifecycle!vars)
<1>1. ASSUME NEW w \in Workers, WorkerStep(w)
      PROVE  [Lifecycle!Next]_(Lifecycle!vars)
  <2>1. CASE Heartbeat(w)
    BY <2>1, LeaseTimesImplement
  <2>2. CASE Claim(w) \/ (\E r \in RunIds : ClaimById(w, r)) \/ ClaimNextContinuation(w)
    BY <2>2, ClaimImplements
  <2>3. CASE \/ ReleaseLease(w) \/ Complete(w)
             \/ \E retry \in BOOLEAN, why \in FailureReasons : Fail(w, retry, why)
             \/ \E approval \in Approval : SuspendForApproval(w, approval)
             \/ Crash(w)
    BY <2>3, EndOfRunImplements
  <2>. QED
    BY <1>1, <2>1, <2>2, <2>3 DEF WorkerStep, FailureReasons
<1>2. CASE UNCHANGED vars
  <2>1. ASSUME NEW q \in RunIds PROVE StateOf(q)' = StateOf(q) /\ OwnerOf(q)' = OwnerOf(q)
    BY <1>2, SameOwner DEF vars, StateOf, Owns, Present
  <2>. QED
    BY <2>1, MovesNone
<1>. QED
  BY <1>1, <1>2, ClientImplements, DecisionImplements, ReaperImplements,
     LeaseTimesImplement DEF Next

\* The store implements the lifecycle: a run has one owner at a time, changes its
\* owner only through a state without one, and never moves again once finished.
THEOREM ImplementsLifecycleHolds == Spec => ImplementsLifecycle
BY InitImplements, StepImplements, InvHolds, PTL DEF Spec, ImplementsLifecycle, Lifecycle!Spec
=============================================================================
