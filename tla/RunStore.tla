------------------------------ MODULE RunStore ------------------------------
(***************************************************************************)
(* The run queue: the RunStore contract of packages/types/src/run.ts as    *)
(* its in-memory and Postgres implementations carry it out, used by        *)
(* workers that claim runs and may die, by clients that enqueue and        *)
(* withdraw them, by approval decisions and by the lease reapers.           *)
(*                                                                         *)
(* Every operation of the store is one atomic step (a synchronous block in *)
(* memory, one guarded UPDATE in Postgres) but reapExpired, which reads    *)
(* the lapsed rows once and then retires them one by one with awaits in    *)
(* between.                                                                *)
(***************************************************************************)
EXTENDS RunRows

CONSTANTS
  Workers,       \* executors; each processes one run at a time
  NoHandle,      \* the worker processes no run
  Reapers,       \* server processes that sweep for lapsed leases
  NewerSessions  \* sessions whose runs the reaper's isNewerSession skips

Handle == [run: RunIds, token: Tokens]

ASSUME WorkersAssumption ==
  /\ NoHandle \notin Handle
  /\ NoHandle \notin Workers
  /\ NewerSessions \subseteq Sessions

VARIABLES
  rows,     \* the table: a row per run id, or NoRow
  created,  \* how many rows were ever enqueued
  handle,   \* the run and lease token each worker is processing with
  sweep     \* each reaper's pass: rows still to retire, ticks since it read them

vars == <<rows, created, handle, sweep>>

Init ==
  /\ rows = [r \in RunIds |-> NoRow]
  /\ created = 0
  /\ handle = [w \in Workers |-> NoHandle]
  /\ sweep = [z \in Reapers |-> [rows |-> {}, age |-> 0]]

-----------------------------------------------------------------------------
(* Clients.                                                                *)

KeyTaken(k) == k # NoKey /\ \E r \in Present(rows) : rows[r].key = k

Enqueue_Uncounted(s, k) ==
  /\ ~KeyTaken(k)
  /\ created < MaxRuns
  /\ rows' = [rows EXCEPT ![created + 1] = NewRow(s, k)]
  /\ UNCHANGED <<created, handle, sweep>>
\* A request whose dedup key is taken returns the existing run: no step.
Enqueue(s, k) ==
  /\ ~KeyTaken(k)
  /\ created < MaxRuns
  /\ created' = created + 1
  /\ rows' = [rows EXCEPT ![created + 1] = NewRow(s, k)]
  /\ UNCHANGED <<handle, sweep>>

Withdraw(r) ==
  /\ r \in Present(rows)
  /\ rows[r].status = "pending"
  /\ rows' = [rows EXCEPT ![r] = NoRow]
  /\ UNCHANGED <<created, handle, sweep>>

-----------------------------------------------------------------------------
(* Workers. A token is a random UUID: a new one is neither on a row nor in *)
(* a worker's hand. A token nobody remembers may serve again.              *)

NewTokens_RowsOnly ==
  {t \in Tokens : \A r \in Present(rows) : ~Holds(rows[r], t)}
NewTokens ==
  {t \in Tokens :
     /\ \A r \in Present(rows) : ~Holds(rows[r], t)
     /\ \A w \in Workers : handle[w] # NoHandle => handle[w].token # t}

Take(w, r, t, row) ==
  /\ rows' = [rows EXCEPT ![r] = row]
  /\ handle' = [handle EXCEPT ![w] = [run |-> r, token |-> t]]
  /\ UNCHANGED <<created, sweep>>

Claim(w) ==
  /\ handle[w] = NoHandle
  /\ \E r \in Present(rows) :
       /\ Oldest({o \in Present(rows) : Claimable(rows, o)}, r)
       /\ ~IndexRefuses(rows, r)
       /\ \E t \in NewTokens : Take(w, r, t, Leased(rows[r], t))

ClaimById(w, r) ==
  /\ handle[w] = NoHandle
  /\ r \in Present(rows)
  /\ Claimable(rows, r)
  /\ ~IndexRefuses(rows, r)
  /\ \E t \in NewTokens : Take(w, r, t, Leased(rows[r], t))

ClaimNextContinuation(w) ==
  /\ handle[w] = NoHandle
  /\ \E r \in Present(rows) :
       /\ Oldest({o \in Present(rows) : ContinuationClaimable(rows[o])}, r)
       /\ \E t \in NewTokens : Take(w, r, t, ContinuationLeased(rows[r], t))

\* The worker's token is still the lease of its run.
Owns(w) ==
  /\ handle[w] # NoHandle
  /\ handle[w].run \in Present(rows)
  /\ Holds(rows[handle[w].run], handle[w].token)

Heartbeat(w) ==
  /\ Owns(w)
  /\ rows[handle[w].run].status = "running"
  /\ rows' = [rows EXCEPT ![handle[w].run] = Renewed(@)]
  /\ UNCHANGED <<created, handle, sweep>>

\* The worker is done with its run. Its last call on the store writes the row
\* if the worker still owns it; otherwise the call returns false.
Finish(w, row) ==
  /\ handle[w] # NoHandle
  /\ rows' = IF Owns(w) THEN [rows EXCEPT ![handle[w].run] = row] ELSE rows
  /\ handle' = [handle EXCEPT ![w] = NoHandle]
  /\ UNCHANGED <<created, sweep>>

ReleaseLease(w) == Finish(w, Released(rows[handle[w].run]))

Complete(w) == Finish(w, Completed(rows[handle[w].run]))

Fail(w, retry, why) ==
  Finish(w, Retired(rows[handle[w].run], retry, 1, why))

\* A worker that lost its lease gets false and goes on to fail the run.
SuspendForApproval(w, approval) ==
  Owns(w) /\ Finish(w, Suspended(rows[handle[w].run], approval))

\* The process dies: its lease stays on the row until it lapses.
Crash(w) ==
  /\ handle[w] # NoHandle
  /\ handle' = [handle EXCEPT ![w] = NoHandle]
  /\ UNCHANGED <<rows, created, sweep>>

-----------------------------------------------------------------------------
(* Approval decisions.                                                     *)

BeginContinuationAttempt(r, command) ==
  /\ r \in Present(rows)
  /\ Resumable(rows[r], command)
  /\ rows' = [rows EXCEPT ![r] = Resumed(@, command)]
  /\ UNCHANGED <<created, handle, sweep>>

FailFromApproval(r, why) ==
  /\ r \in Present(rows)
  /\ rows[r].target = "awaiting_approval"
  /\ rows' = [rows EXCEPT ![r] = FailedFromApproval(@, why)]
  /\ UNCHANGED <<created, handle, sweep>>

-----------------------------------------------------------------------------
(* The reaper and the clock.                                               *)

Lapsed == {r \in Present(rows) : LeaseLapsed(rows[r], 0)}

SweepStart(z) ==
  /\ sweep[z].rows = {}
  /\ Lapsed # {}
  /\ sweep' = [sweep EXCEPT ![z] = [rows |-> Lapsed, age |-> 0]]
  /\ UNCHANGED <<rows, created, handle>>

StillLapsed_Unchecked(z, r) ==
  r \in Present(rows) /\ rows[r].status = "running" /\ rows[r].lease # NoLease
StillLapsed_Exact(z, r) ==
  r \in Present(rows) /\ rows[r].lease # NoLease /\ rows[r].lease.left = -sweep[z].age
\* ifExpiredAt: the lease of the row had lapsed when the pass read it.
StillLapsed(z, r) == r \in Present(rows) /\ LeaseLapsed(rows[r], sweep[z].age)

\* tooOld: the run was started longer than maxAgeMs ago.
SweepNext(z, r, tooOld) ==
  /\ r \in sweep[z].rows
  /\ sweep' = [sweep EXCEPT ![z].rows = @ \ {r}]
  /\ rows' = IF StillLapsed(z, r) /\ rows[r].session \notin NewerSessions
             THEN [rows EXCEPT ![r] = Retired(@, ~tooOld, 0, "execution_failed")]
             ELSE rows
  /\ UNCHANGED <<created, handle>>

Aged(row) ==
  IF row # NoRow /\ row.lease # NoLease /\ row.lease.left > -MaxSweep
  THEN [row EXCEPT !.lease.left = @ - 1] ELSE row

Sweeping(z) == sweep[z].rows # {}

\* A pass lasts at most MaxSweep ticks.
Tick ==
  /\ \A z \in Reapers : Sweeping(z) => sweep[z].age < MaxSweep
  /\ \E r \in Present(rows) : rows[r].lease # NoLease
  /\ rows' = [r \in RunIds |-> Aged(rows[r])]
  /\ sweep' = [z \in Reapers |->
       IF Sweeping(z) THEN [sweep[z] EXCEPT !.age = @ + 1] ELSE sweep[z]]
  /\ UNCHANGED <<created, handle>>

-----------------------------------------------------------------------------

WorkerStep(w) ==
  \/ Claim(w)
  \/ \E r \in RunIds : ClaimById(w, r)
  \/ ClaimNextContinuation(w)
  \/ Heartbeat(w)
  \/ ReleaseLease(w)
  \/ Complete(w)
  \/ \E retry \in BOOLEAN : Fail(w, retry, "execution_failed")
  \/ Fail(w, FALSE, "approval_continuation_unavailable")
  \/ \E approval \in Approval : SuspendForApproval(w, approval)
  \/ Crash(w)

DecisionStep(r) ==
  \/ \E c \in Commands : BeginContinuationAttempt(r, c)
  \/ \E why \in {"approval_denied", "approval_expired"} : FailFromApproval(r, why)

ReaperStep(z) ==
  \/ SweepStart(z)
  \/ \E r \in RunIds, tooOld \in BOOLEAN : SweepNext(z, r, tooOld)

Next ==
  \/ \E s \in Sessions, k \in Keys \cup {NoKey} : Enqueue(s, k)
  \/ \E r \in RunIds : Withdraw(r)
  \/ \E w \in Workers : WorkerStep(w)
  \/ \E r \in RunIds : DecisionStep(r)
  \/ \E z \in Reapers : ReaperStep(z)
  \/ Tick

Spec == Init /\ [][Next]_vars

\* The clock runs and every reaper's interval timer keeps firing.
ReaperFairness == WF_vars(Tick) /\ \A z \in Reapers : WF_vars(ReaperStep(z))

FairSpec == Spec /\ ReaperFairness

-----------------------------------------------------------------------------
(* Invariants.                                                             *)

\* Every variable keeps its type; a row past the last one created is absent.
TypeOK ==
  /\ rows \in [RunIds -> Row \cup {NoRow}]
  /\ created \in 0..MaxRuns
  /\ handle \in [Workers -> Handle \cup {NoHandle}]
  /\ sweep \in [Reapers -> [rows: SUBSET RunIds, age: 0..MaxSweep]]
  /\ \A r \in RunIds : r > created => rows[r] = NoRow

\* A run is never owned by two executors at once (ADR-0001): of the workers
\* that process a run at most one holds the lease its row carries, whatever
\* was reaped, requeued and claimed again in the meantime.
OneOwner ==
  \A w1, w2 \in Workers :
    Owns(w1) /\ Owns(w2) /\ handle[w1].run = handle[w2].run => w1 = w2

\* A finished run is out of reach of every lane: it carries no lease (so the
\* reaper and a late executor cannot touch it) and neither claim takes it,
\* although `complete' leaves its status at "running".
TerminalOutOfReach ==
  \A r \in Present(rows) : IsTerminal(rows[r]) =>
    /\ IsTerminalTarget(rows[r])
    /\ rows[r].lease = NoLease
    /\ ~Claimable(rows, r)
    /\ ~ContinuationClaimable(rows[r])

\* A suspended run can be resumed and by nothing but a decision: the approval
\* it waits for is stored on the row, it holds no lease for the reaper to find
\* and no lane claims it.
SuspendedIsParked ==
  \A r \in Present(rows) : rows[r].target = "awaiting_approval" =>
    /\ rows[r].pendingApproval # NoApproval
    /\ rows[r].lease = NoLease
    /\ rows[r].status = "running"
    /\ ~ContinuationClaimable(rows[r])

\* claim, claimById and the continuation lane exclude one another within a
\* session, except that a decision resumes a suspended run whatever else the
\* session is running: of two running runs of a session one was resumed.
OverlapOnlyByResumption ==
  \A r, o \in Present(rows) :
    /\ r # o
    /\ rows[r].session = rows[o].session
    /\ rows[r].target = "running" /\ rows[o].target = "running"
    => rows[r].resumed \/ rows[o].resumed

\* A run whose error budget is spent is over: it is never queued, running or
\* waiting for a decision again, whichever path counted the last error.
BudgetSpentIsFailed ==
  \A r \in Present(rows) :
    /\ rows[r].errorAttempts <= MaxAttempts
    /\ rows[r].errorAttempts = MaxAttempts => rows[r].target = "failed"

\* The assertion the stores make of the row at hand holds of every row, after
\* every sequence of writes: a run has a failure reason exactly when it failed
\* (assertTargetRunInvariant).
AssertionHolds == \A r \in Present(rows) : TargetRunInvariant(rows[r])

-----------------------------------------------------------------------------
(* Action properties.                                                      *)

\* Terminal transitions are irrevocable (ADR-0001): no step changes or deletes
\* the row of a finished run.
TerminalIsFinal ==
  [][\A r \in RunIds :
       rows[r] # NoRow => (IsTerminal(rows[r]) => rows'[r] = rows[r])]_vars

\* A lease that has not lapsed ends only by a step of the worker that holds
\* it: the reaper, which decides on rows it read earlier, never takes a lease
\* renewed or granted since.
LiveLeaseIsRespected ==
  [][\A r \in RunIds : \A w \in Workers :
       (Owns(w) /\ handle[w].run = r /\ handle'[w] = handle[w]
          /\ ~LeaseLapsed(rows[r], 0))
       => rows'[r] # NoRow /\ Holds(rows'[r], handle[w].token)]_vars

-----------------------------------------------------------------------------
(* Liveness.                                                               *)

\* The lease of r belongs to no worker: its holder died.
Orphaned(r) ==
  /\ r \in Present(rows)
  /\ rows[r].lease # NoLease
  /\ \A w \in Workers : ~(Owns(w) /\ handle[w].run = r)

\* A run whose executor died is eventually taken back from it, if its session
\* is not one the reaper skips.
OrphanIsReaped ==
  \A r \in RunIds :
    (Orphaned(r) /\ rows[r].session \notin NewerSessions) ~> ~Orphaned(r)

-----------------------------------------------------------------------------
(* The queue implements the run lifecycle.                                 *)

Owners(r) == {w \in Workers : Owns(w) /\ handle[w].run = r}

Lifecycle ==
  INSTANCE RunLifecycle WITH
    Runs <- RunIds, Executors <- Workers, Nobody <- NoHandle,
    state <- [r \in RunIds |-> IF rows[r] = NoRow THEN "absent" ELSE rows[r].target],
    owner <- [r \in RunIds |->
                IF Owners(r) = {} THEN NoHandle ELSE CHOOSE w \in Owners(r) : TRUE]

\* Every step of the store is a step of the lifecycle of one run, or no step.
ImplementsLifecycle == Lifecycle!Spec
=============================================================================
