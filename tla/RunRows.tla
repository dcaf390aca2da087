------------------------------- MODULE RunRows -------------------------------
(***************************************************************************)
(* One row of the run queue and what each store operation does to a row.   *)
(*                                                                         *)
(* A run is one turn of a session. Its row keeps two state fields, the     *)
(* legacy `status' and the lifecycle `target', a lease that makes one      *)
(* executor its owner, and the approval the run is suspended on. Nothing   *)
(* here has state of its own: RunStore and TurnRunner hold the rows.       *)
(*                                                                         *)
(* Rows are numbered in the order of their createdAt, so that "oldest      *)
(* first" is "smallest number first".                                      *)
(***************************************************************************)
EXTENDS Integers

CONSTANTS
  MaxRuns,        \* rows the model may enqueue
  Sessions,       \* session ids
  Keys, NoKey,    \* dedup keys, and "no dedup key"
  Tokens,         \* lease tokens
  Requests,       \* ids of approval requests
  Commands,       \* commandRequestIds, the identities of paused commands
  NoCommand,      \* no command has been resumed yet
  NoRow,          \* the id is not in the table
  NoLease,        \* leaseToken and leaseExpiresAt are null
  NoApproval,     \* deliveryState.pendingApproval is undefined
  LeaseTTL,       \* ticks a lease lasts
  MaxSweep,       \* ticks the longest reaper pass lasts
  MaxAttempts,    \* run.maxAttempts: how many errors park a run
  MaxClaims,      \* opts.maxClaims: how many claims park a run, 0 for no limit
  OneRunningIndex \* the table has idx_runs_one_running_per_session (Postgres)

RunIds == 1..MaxRuns
Unlimited == 0
Lease == [token: Tokens, left: Int]
Approval == [request: Requests, command: Commands]

ASSUME CountsAssumption ==
  /\ MaxRuns \in Nat \ {0}
  /\ LeaseTTL \in Nat \ {0}
  /\ MaxSweep \in Nat
  /\ MaxAttempts \in Nat \ {0}
  /\ MaxClaims \in Nat
  /\ OneRunningIndex \in BOOLEAN

ASSUME AbsenceAssumption ==
  /\ NoKey \notin Keys
  /\ NoLease \notin Lease
  /\ NoApproval \notin Approval
  /\ NoCommand \notin Commands

Statuses == {"pending", "running", "failed"}
TargetStates == {"queued", "running", "awaiting_approval", "succeeded", "failed"}
FailureReasons ==
  {"execution_failed", "approval_denied", "approval_expired",
   "approval_continuation_unavailable"}

(***************************************************************************)
(* A row. lease.left is leaseExpiresAt minus the clock: the ticks left,    *)
(* negative once the lease has lapsed. `attempts' stops counting at        *)
(* MaxClaims, the only number it is compared with. `resumed' says that     *)
(* deliveryState.currentAttemptId is set. The request, the result, the     *)
(* worker id and the start and finish times are left out.                  *)
(***************************************************************************)
Row ==
  [session: Sessions, key: Keys \cup {NoKey},
   status: Statuses, target: TargetStates,
   failureReason: FailureReasons \cup {"none"},
   lease: Lease \cup {NoLease},
   attempts: Nat, errorAttempts: Nat,
   pendingApproval: Approval \cup {NoApproval},
   lastCommand: Commands \cup {NoCommand}, resumed: BOOLEAN]

ASSUME NoRowAssumption == NoRow \notin Row

Present(rows) == {r \in RunIds : rows[r] # NoRow}

NewRow(s, k) ==
  [session |-> s, key |-> k, status |-> "pending", target |-> "queued",
   failureReason |-> "none", lease |-> NoLease,
   attempts |-> 0, errorAttempts |-> 0,
   pendingApproval |-> NoApproval, lastCommand |-> NoCommand, resumed |-> FALSE]

-----------------------------------------------------------------------------
(* Reading a row.                                                          *)

IsTerminalTarget(row) == row.target \in {"succeeded", "failed"}
IsTerminal(row) == row.status = "failed" \/ IsTerminalTarget(row)

\* What the stores assert of a row before they return from a write.
TargetRunInvariant(row) == (row.target = "failed") <=> (row.failureReason # "none")

\* The caller's lease token is the row's.
Holds(row, t) == row.lease # NoLease /\ row.lease.token = t

\* The lease had lapsed at the clock value of `age' ticks ago.
LeaseLapsed(row, age) ==
  /\ row.status = "running"
  /\ row.lease # NoLease
  /\ row.lease.left <= -age

SessionBusy_Never(rows, r) == FALSE
SessionBusy_ByStatus(rows, r) ==
  \E o \in Present(rows) \ {r} :
    rows[o].session = rows[r].session /\ rows[o].status = "running"
SessionBusy(rows, r) ==
  \E o \in Present(rows) \ {r} :
    rows[o].session = rows[r].session /\ rows[o].target = "running"

Claimable(rows, r) == rows[r].status = "pending" /\ ~SessionBusy(rows, r)

ContinuationClaimable_AnyState(row) ==
  row.status = "running" /\ row.lease = NoLease /\ row.pendingApproval # NoApproval
ContinuationClaimable_EvenLeased(row) ==
  /\ row.status = "running"
  /\ row.target = "running"
  /\ row.pendingApproval # NoApproval
  /\ row.resumed
ContinuationClaimable(row) ==
  /\ row.status = "running"
  /\ row.target = "running"
  /\ row.lease = NoLease
  /\ row.pendingApproval # NoApproval
  /\ row.resumed

\* r is the first of its kind in createdAt order.
Oldest(S, r) == r \in S /\ \A o \in S : r <= o

\* The unique index refuses a second row of the session with status running.
IndexRefuses(rows, r) ==
  /\ OneRunningIndex
  /\ \E o \in Present(rows) \ {r} :
       rows[o].session = rows[r].session /\ rows[o].status = "running"

-----------------------------------------------------------------------------
(* Writing a row.                                                          *)

Counted(row) ==
  IF MaxClaims # Unlimited /\ row.attempts < MaxClaims
  THEN row.attempts + 1 ELSE row.attempts

Fresh(t) == [token |-> t, left |-> LeaseTTL]

Leased(row, t) ==
  [row EXCEPT !.status = "running", !.target = "running",
              !.lease = Fresh(t), !.attempts = Counted(row)]

Renewed(row) == [row EXCEPT !.lease.left = LeaseTTL]

Released(row) ==
  [row EXCEPT !.status = "pending", !.target = "queued", !.lease = NoLease]

Completed_LeaseKept(row) ==
  [row EXCEPT !.target = "succeeded", !.failureReason = "none"]
\* status stays "running": only the target state says that the run is over.
Completed(row) ==
  [row EXCEPT !.target = "succeeded", !.failureReason = "none", !.lease = NoLease]

OverClaimed(row) == MaxClaims # Unlimited /\ row.attempts >= MaxClaims

\* `errors' is 1 when the retirement counts as an error, else 0.
MayRetry_OffByOne(row, retry, errors) ==
  retry /\ row.errorAttempts + errors <= MaxAttempts /\ ~OverClaimed(row)
MayRetry(row, retry, errors) ==
  retry /\ row.errorAttempts + errors < MaxAttempts /\ ~OverClaimed(row)

Retired_ReasonKept(row, retry, errors, why) ==
  IF MayRetry(row, retry, errors)
  THEN [Released(row) EXCEPT !.errorAttempts = @ + errors, !.failureReason = why]
  ELSE [row EXCEPT !.status = "failed", !.target = "failed", !.lease = NoLease,
                   !.errorAttempts = @ + errors, !.failureReason = why]
\* Give the run back to the queue, or park it as failed.
Retired(row, retry, errors, why) ==
  IF MayRetry(row, retry, errors)
  THEN [Released(row) EXCEPT !.errorAttempts = @ + errors, !.failureReason = "none"]
  ELSE [row EXCEPT !.status = "failed", !.target = "failed", !.lease = NoLease,
                   !.errorAttempts = @ + errors, !.failureReason = why]

Suspended_Unstored(row, approval) ==
  [row EXCEPT !.target = "awaiting_approval", !.lease = NoLease]
Suspended(row, approval) ==
  [row EXCEPT !.target = "awaiting_approval", !.lease = NoLease,
              !.pendingApproval = approval]

\* The guard of beginContinuationAttempt.
Resumable_AnyState(row, command) ==
  row.status # "pending" /\ row.lastCommand # command
Resumable(row, command) ==
  row.target = "awaiting_approval" /\ row.lastCommand # command

Resumed_StatusOnly(row, command) ==
  [row EXCEPT !.status = "running", !.lease = NoLease, !.attempts = Counted(row),
              !.lastCommand = command, !.resumed = TRUE]
Resumed_AttemptUnset(row, command) ==
  [row EXCEPT !.status = "running", !.target = "running", !.lease = NoLease,
              !.attempts = Counted(row), !.lastCommand = command]
Resumed(row, command) ==
  [row EXCEPT !.status = "running", !.target = "running", !.lease = NoLease,
              !.attempts = Counted(row), !.lastCommand = command, !.resumed = TRUE]

\* The lease of a continuation: the attempt was counted when it began.
ContinuationLeased(row, t) == [row EXCEPT !.lease = Fresh(t)]

\* Target rows keep status "running" when a decision fails them.
FailedFromApproval(row, why) ==
  [row EXCEPT !.target = "failed", !.failureReason = why, !.lease = NoLease]
=============================================================================
