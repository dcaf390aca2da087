--------------------------- MODULE TurnRunnerProofs ---------------------------
(***************************************************************************)
(* The execution of runs, for any number of runs, processes, requests and  *)
(* clicks, and any lapses, deaths and expiries: an approved command runs   *)
(* once, one process executes a run, an announced outcome is durable, a    *)
(* suspended run can be decided, and its session waits behind it.          *)
(*                                                                         *)
(* Every step is a step of the run store or leaves it alone, so that the   *)
(* invariant of RunStoreProofs is one of this module too. What it adds     *)
(* follows a request from its creation to its decision: it belongs to one  *)
(* run; while its run is suspended on it no other decision moves that run; *)
(* and the click that approved it is the only one that may resume it.      *)
(*                                                                         *)
(* The last three sections each add what one more property needs: what a   *)
(* process or a click knows when it announces an end or gives up the       *)
(* reservation (SettledInv), where the decision on a suspended run can     *)
(* still come from (UndecidedInv), and who holds the reservation of a      *)
(* session while a run of it waits (ReservedInv).                          *)
(***************************************************************************)
EXTENDS TurnRunner, TLAPS

SP == INSTANCE RunStoreProofs

-----------------------------------------------------------------------------
(* Types.                                                                  *)

Holding == {"gate", "turn", "reserve", "suspend"}

Waiting == [at : {"idle", "fresh"}, run : {NoRun}, resumes : {FALSE}]
Executing ==
  [at : {"gate", "turn", "succeeded", "failed", "retrying", "release"},
   run : RunIds, session : Sessions, resumes : BOOLEAN]
Pausing ==
  [at : {"reserve", "suspend", "suspended", "requested", "closed"},
   run : RunIds, session : Sessions, resumes : BOOLEAN, request : Requests]
Job == Waiting \cup Executing \cup Pausing

Approving == [at : {"begin", "decided", "resumed"}, request : Requests]
Denying ==
  [at : {"fail", "denied", "finish", "release"}, request : Requests,
   why : {"approval_denied", "approval_expired"}]
Click == [at : {"idle"}] \cup Approving \cup Denying

Plain ==
  {"attempt.finished", "attempt.suspended", "attempt.resumed",
   "approval.requested", "approval.decided", "approval.expired"}
Outcomes ==
  {"succeeded", "execution_failed", "approval_denied", "approval_expired",
   "approval_continuation_unavailable"}
LogEvent == [kind : Plain \cup {"run.finished"}, of : Outcomes \cup {"none"}]

Typed ==
  /\ job \in [Workers -> Job]
  /\ request \in [Requests -> ApprovalRequest \cup {NoRequest}]
  /\ shown \subseteq Requests
  /\ reservation \in [Sessions -> RunIds \cup {NoRun}]
  /\ log \in [RunIds -> Seq(LogEvent)]
  /\ click \in [Deciders -> Click]
  /\ faults \in [lapses : 0..MaxLapses, crashes : 0..MaxCrashes]
  /\ approved \subseteq Requests
  /\ executed \in [Requests -> {0, 1}]

\* A process holds its run on the store from the claim to the end of the turn.
HandsMatch ==
  \A p \in Workers :
    /\ handle[p] # NoHandle <=> job[p].at \in Holding
    /\ handle[p] # NoHandle => handle[p].run = job[p].run

-----------------------------------------------------------------------------
(* Requests and decisions.                                                 *)

\* The run of q is suspended on q; the run of q is over.
Parked(q) ==
  LET r == request[q].run
  IN  /\ rows[r] # NoRow /\ rows[r].target = "awaiting_approval"
      /\ rows[r].pendingApproval.request = q
Over(q) ==
  LET r == request[q].run
  IN  rows[r] # NoRow /\ IsTerminalTarget(rows[r])

\* A request the user has not seen is in the hands of one process.
Asking(p) == job[p].at \in {"reserve", "suspend"}
UnseenInv ==
  /\ \A q \in shown : request[q] # NoRequest
  /\ \A q \in Requests \ shown : executed[q] = 0
  /\ \A p \in Workers : Asking(p) =>
       LET q == job[p].request
       IN  /\ q \notin shown /\ request[q] # NoRequest /\ request[q].run = job[p].run
           /\ \A v \in Workers : Asking(v) /\ job[v].request = q => v = p

\* A row names the request it was suspended on last, which is one of its own.
RowsAsk ==
  \A r \in Present(rows) : rows[r].pendingApproval # NoApproval =>
    LET q == rows[r].pendingApproval.request
    IN  q \in shown /\ request[q].run = r

\* While the run is suspended, and until its lane takes it, the command has not
\* been resumed; the lane takes it only if it is approved.
NotYetRun ==
  \A r \in Present(rows) :
    LET q == rows[r].pendingApproval.request
    IN  /\ rows[r].target = "awaiting_approval" => executed[q] = 0
        /\ ContinuationClaimable(rows[r]) => executed[q] = 0 /\ q \in approved

\* A request that can be decided holds its run, or comes too late for it.
OpenInv ==
  \A q \in shown :
    request[q].status = "pending" => Parked(q) \/ (request[q].due /\ Over(q))

ClicksInv ==
  /\ \A d \in Deciders : click[d].at = "begin" =>
       LET q == click[d].request
       IN  /\ q \in shown /\ q \in approved /\ request[q].status = "approved" /\ Parked(q)
           /\ \A e \in Deciders : click[e].at = "begin" /\ click[e].request = q => e = d
  /\ \A d \in Deciders : click[d].at = "fail" =>
       LET q == click[d].request
       IN  /\ q \in shown /\ (Parked(q) \/ Over(q))
           /\ \/ request[q].status = "rejected"
              \/ request[q].status = "pending" /\ request[q].due
  /\ \A d \in Deciders : click[d].at # "idle" => click[d].request \in shown

AskInv == UnseenInv /\ RowsAsk /\ NotYetRun /\ OpenInv /\ ClicksInv /\ OnlyApprovedCommandsRun

-----------------------------------------------------------------------------
(* Announcements.                                                          *)

JobsBornOut ==
  \A p \in Workers : job[p].at = "succeeded" =>
    rows[job[p].run] # NoRow /\ rows[job[p].run].target = "succeeded"

Refused(r, why) ==
  rows[r] # NoRow /\ rows[r].target = "failed" /\ rows[r].failureReason = why

ClicksBornOut ==
  \A d \in Deciders : click[d].at \in {"denied", "finish"} =>
    Refused(request[click[d].request].run, click[d].why)

SaidInv == JobsBornOut /\ ClicksBornOut /\ AnnouncedSuccessIsDurable

-----------------------------------------------------------------------------
(* One executor.                                                           *)

\* Until the clock moves a lease is live, and whoever executes has it.
NothingLapsed ==
  faults.lapses = 0 =>
    /\ \A r \in RunIds : rows[r] # NoRow => rows[r].lease = NoLease \/ rows[r].lease.left > 0
    /\ \A z \in Reapers : sweep[z].rows = {}
    /\ \A p \in Workers : handle[p] # NoHandle => SP!Owns(p)

Inv == SP!Inv /\ Typed /\ HandsMatch /\ AskInv /\ SaidInv /\ NothingLapsed

-----------------------------------------------------------------------------
(* The run store.                                                          *)

\* RunStoreProofs speaks of the same store.
LEMMA SameOwns ==
  ASSUME NEW w
  PROVE  Store!Owns(w) <=> SP!Owns(w)
BY DEF Store!Owns, SP!Owns, Store!Present, SP!Present, Store!Holds, SP!Holds,
       Store!RunIds, SP!RunIds

LEMMA SameClaim ==
  ASSUME NEW w, Store!Claim(w)
  PROVE  SP!Claim(w)
BY DEF Store!Claim, SP!Claim, Store!Oldest, SP!Oldest, Store!Present, SP!Present,
       Store!Claimable, SP!Claimable, Store!SessionBusy, SP!SessionBusy,
       Store!IndexRefuses, SP!IndexRefuses, Store!NewTokens, SP!NewTokens,
       Store!Holds, SP!Holds, Store!Take, SP!Take, Store!Leased, SP!Leased,
       Store!Fresh, SP!Fresh, Store!Counted, SP!Counted, Store!RunIds, SP!RunIds,
       Store!Unlimited, SP!Unlimited

LEMMA SameContinuation ==
  ASSUME NEW w, Store!ClaimNextContinuation(w)
  PROVE  SP!ClaimNextContinuation(w)
BY DEF Store!ClaimNextContinuation, SP!ClaimNextContinuation, Store!Oldest, SP!Oldest,
       Store!Present, SP!Present, Store!ContinuationClaimable, SP!ContinuationClaimable,
       Store!NewTokens, SP!NewTokens, Store!Holds, SP!Holds, Store!Take, SP!Take,
       Store!ContinuationLeased, SP!ContinuationLeased, Store!Fresh, SP!Fresh,
       Store!RunIds, SP!RunIds

LEMMA SameEnds ==
  ASSUME NEW w
  PROVE  /\ Store!Complete(w) => SP!Complete(w)
         /\ \A retry, why : Store!Fail(w, retry, why) => SP!Fail(w, retry, why)
         /\ Store!ReleaseLease(w) => SP!ReleaseLease(w)
         /\ \A a : Store!SuspendForApproval(w, a) => SP!SuspendForApproval(w, a)
         /\ Store!Crash(w) => SP!Crash(w)
BY SameOwns
   DEF Store!Complete, Store!Fail, Store!ReleaseLease, Store!SuspendForApproval,
       Store!Crash, Store!Finish, Store!Completed, Store!Retired, Store!MayRetry,
       Store!Released, Store!Suspended, Store!OverClaimed, Store!Unlimited,
       SP!Complete, SP!Fail, SP!ReleaseLease, SP!SuspendForApproval, SP!Crash,
       SP!Finish, SP!Completed, SP!Retired, SP!MayRetry, SP!Released, SP!Suspended,
       SP!OverClaimed, SP!Unlimited

LEMMA SameDecisions ==
  ASSUME NEW r
  PROVE  /\ \A c : Store!BeginContinuationAttempt(r, c) => SP!BeginContinuationAttempt(r, c)
         /\ \A why : Store!FailFromApproval(r, why) => SP!FailFromApproval(r, why)
BY DEF Store!BeginContinuationAttempt, SP!BeginContinuationAttempt, Store!FailFromApproval,
       SP!FailFromApproval, Store!Present, SP!Present, Store!RunIds, SP!RunIds,
       Store!Resumable, SP!Resumable, Store!Resumed, SP!Resumed, Store!Counted,
       SP!Counted, Store!Unlimited, SP!Unlimited, Store!FailedFromApproval,
       SP!FailedFromApproval

LEMMA SameSweep ==
  ASSUME NEW z, NEW r
  PROVE  /\ Store!SweepStart(z) => SP!SweepStart(z)
         /\ Store!SweepNext(z, r, FALSE) => SP!SweepNext(z, r, FALSE)
BY DEF Store!SweepStart, SP!SweepStart, Store!SweepNext, SP!SweepNext,
       Store!Lapsed, SP!Lapsed, Store!StillLapsed, SP!StillLapsed,
       Store!LeaseLapsed, SP!LeaseLapsed, Store!Present, SP!Present,
       Store!RunIds, SP!RunIds, Store!Retired, SP!Retired, Store!MayRetry,
       SP!MayRetry, Store!Released, SP!Released, Store!OverClaimed, SP!OverClaimed,
       Store!Unlimited, SP!Unlimited

LEMMA SameRest ==
  /\ \A s : Store!Enqueue(s, NoKey) => SP!Enqueue(s, NoKey)
  /\ \A r : Store!Withdraw(r) => SP!Withdraw(r)
  /\ Store!Tick => SP!Tick
  /\ Store!Init => SP!Init
BY DEF Store!Enqueue, SP!Enqueue, Store!KeyTaken, SP!KeyTaken, Store!Present,
       SP!Present, Store!RunIds, SP!RunIds, Store!NewRow, SP!NewRow, Store!Tick,
       SP!Tick, Store!Sweeping, SP!Sweeping, Store!Aged, SP!Aged, Store!Init, SP!Init,
       Store!Withdraw, SP!Withdraw

\* Its assumptions are those of this module.
LEMMA StoreAssumptions ==
  /\ NoHandle \notin SP!Handle /\ NoHandle \notin Workers /\ NewerSessions \subseteq Sessions
  /\ NoRow \notin SP!Row
  /\ NoKey \notin Keys /\ NoLease \notin SP!Lease /\ NoApproval \notin SP!Approval
  /\ NoCommand \notin Commands
BY StoreAssumption, NoRowAssumption, AbsenceAssumption
   DEF SP!Handle, Store!Handle, SP!RunIds, Store!RunIds, SP!Row, Row, SP!Lease, Lease,
       SP!Approval, Approval, SP!Statuses, Statuses, SP!TargetStates, TargetStates,
       SP!FailureReasons, FailureReasons

-----------------------------------------------------------------------------
(* Jobs and clicks.                                                        *)

LEMMA JobFields ==
  ASSUME NEW j \in Job
  PROVE  /\ j.at \in JobPlaces
         /\ j.at \notin {"idle", "fresh"} => j.run \in RunIds /\ j.session \in Sessions
         /\ j.resumes \in BOOLEAN
         /\ j.at \in {"reserve", "suspend", "suspended", "requested", "closed"} =>
              j.request \in Requests /\ j \in Pausing
         /\ j.at \in {"gate", "turn", "succeeded", "failed", "retrying", "release"} =>
              j \in Executing
         /\ j.at \in {"idle", "fresh"} => j \in Waiting
BY DEF Job, Waiting, Executing, Pausing, JobPlaces

LEMMA ClickFields ==
  ASSUME NEW c \in Click
  PROVE  /\ c.at \in ClickPlaces
         /\ c.at # "idle" => c.request \in Requests
         /\ c.at \in {"begin", "decided", "resumed"} => c \in Approving
         /\ c.at \in {"fail", "denied", "finish", "release"} =>
              c \in Denying /\ c.why \in {"approval_denied", "approval_expired"}
         /\ c.at = "idle" => c \in [at : {"idle"}]
BY DEF Click, Approving, Denying, ClickPlaces

\* A step of this module is one of the store, or none.
LEMMA StepOfStore ==
  ASSUME Typed, AskInv, [Next]_vars
  PROVE  [SP!Next]_(SP!vars)
<1>1. ASSUME NEW p \in Workers, RunnerStep(p)
      PROVE  [SP!Next]_(SP!vars)
  <2>1. CASE \/ PollPastContinuation(p) \/ PollNothing(p) \/ GateOpens(p) \/ ReserveSession(p)
             \/ AnnounceSucceeded(p) \/ AnnounceFailed(p) \/ AnnounceRetry(p)
             \/ AnnounceSuspended(p) \/ AnnounceRequested(p) \/ AnnounceClosed(p)
             \/ ReleaseReservation(p)
             \/ \E q \in Requests, c \in Commands : TurnPauses(p, q, c)
    BY <2>1 DEF PollPastContinuation, PollNothing, GateOpens, ReserveSession,
       AnnounceSucceeded, AnnounceFailed, AnnounceRetry, AnnounceSuspended,
       AnnounceRequested, AnnounceClosed, Announce, ReleaseReservation, TurnPauses,
       storeVars, SP!vars
  <2>2. CASE PollContinuation(p) \/ PollFresh(p) \/ GateCloses(p) \/ TurnCompletes(p)
    BY <2>2, SameClaim, SameContinuation, SameEnds
       DEF PollContinuation, PollFresh, GateCloses, TurnCompletes, SP!Next, SP!WorkerStep
  <2>3. CASE TurnThrows(p) \/ FailClosed(p)
    BY <2>3, SameEnds DEF TurnThrows, FailClosed, SP!Next, SP!WorkerStep
  <2>4. CASE SuspendRun(p)
    <3>1. job[p].request \in Requests /\ request[job[p].request] # NoRequest
      BY <2>4, JobFields DEF SuspendRun, At, Typed, AskInv, UnseenInv, Asking
    <3>2. request[job[p].request].command \in Commands
      BY <3>1 DEF Typed, ApprovalRequest
    <3>3. [request |-> job[p].request, command |-> request[job[p].request].command]
            \in SP!Approval
      BY <3>1, <3>2 DEF SP!Approval
    <3> QED
      BY <2>4, <3>3, SameEnds DEF SuspendRun, SP!Next, SP!WorkerStep
  <2> QED
    BY <1>1, <2>1, <2>2, <2>3, <2>4 DEF RunnerStep, Poll, EndTurn, Settle
<1>2. ASSUME NEW d \in Deciders, OpenClick(d)
      PROVE  UNCHANGED SP!vars
  BY <1>2 DEF OpenClick, Approve, Reject, FindExpired, storeVars, SP!vars
<1>3. ASSUME NEW d \in Deciders, DecisionStep(d)
      PROVE  [SP!Next]_(SP!vars)
  <2>1. CASE \/ AnnounceDecided(d) \/ AnnounceResumed(d) \/ AnnounceDenied(d)
             \/ AnnounceDeniedFinish(d) \/ ReleaseAfterDenial(d)
    BY <2>1 DEF AnnounceDecided, AnnounceResumed, AnnounceDenied, AnnounceDeniedFinish,
       ClickAnnounce, ReleaseAfterDenial, storeVars, SP!vars
  <2>2. CASE BeginContinuation(d) \/ FailRun(d)
    <3>1. click[d].at \in {"begin", "fail"}
      BY <2>2 DEF BeginContinuation, FailRun, ClickAt
    <3>2. Asked(d) \in ApprovalRequest
      BY <3>1, ClickFields DEF Typed, AskInv, ClicksInv, UnseenInv, Asked
    <3>3. Asked(d).run \in RunIds /\ Asked(d).command \in Commands
      BY <3>2 DEF ApprovalRequest
    <3>4. CASE BeginContinuation(d)
      BY <3>3, <3>4, SameDecisions
         DEF BeginContinuation, storeVars, SP!vars, SP!Next, SP!DecisionStep, SP!RunIds, RunIds
    <3>5. CASE FailRun(d)
      <4>1. click[d].why \in {"approval_denied", "approval_expired"}
        BY <3>5, ClickFields DEF FailRun, ClickAt, Typed
      <4> QED
        BY <3>3, <3>5, <4>1, SameDecisions
           DEF FailRun, storeVars, SP!vars, SP!Next, SP!DecisionStep, SP!RunIds, RunIds
    <3> QED
      BY <2>2, <3>4, <3>5
  <2> QED
    BY <1>3, <2>1, <2>2 DEF DecisionStep
<1>4. ASSUME NEW s \in Sessions, Enqueue(s) \/ ReservationLapses(s)
      PROVE  [SP!Next]_(SP!vars)
  BY <1>4, SameRest DEF Enqueue, ReservationLapses, SP!Next, storeVars, SP!vars
<1>5. ASSUME NEW r \in RunIds, Withdraw(r)
      PROVE  [SP!Next]_(SP!vars)
  BY <1>5, SameRest DEF Withdraw, SP!Next, SP!RunIds, RunIds
<1>6. ASSUME NEW q \in Requests, RequestFallsDue(q)
      PROVE  [SP!Next]_(SP!vars)
  BY <1>6 DEF RequestFallsDue, storeVars, SP!vars
<1>7. ASSUME NEW p \in Workers, Crash(p)
      PROVE  [SP!Next]_(SP!vars)
  BY <1>7, SameEnds DEF Crash, storeVars, SP!vars, SP!Next, SP!WorkerStep
<1>8. CASE LeaseClock
  BY <1>8, SameRest DEF LeaseClock, SP!Next
<1>9. CASE Reap
  BY <1>9, SameSweep DEF Reap, SP!Next, SP!ReaperStep, SP!RunIds, RunIds
<1>10. CASE UNCHANGED vars
  BY <1>10 DEF vars, SP!vars
<1> QED
  BY <1>1, <1>2, <1>3, <1>4, <1>5, <1>6, <1>7, <1>8, <1>9, <1>10 DEF Next, Environment

\* The invariant of the store is kept.
LEMMA StoreInvStep ==
  ASSUME SP!Inv, Typed, AskInv, [Next]_vars
  PROVE  SP!Inv'
BY StepOfStore, SP!StepKeepsInv, StoreAssumptions, CountsAssumption

LEMMA StoreInvInit == Init => SP!Inv
BY SP!InitIsInv, SameRest, StoreAssumptions, CountsAssumption DEF Init

-----------------------------------------------------------------------------
(* What the calls on the store do, in terms of one row.                    *)

LEMMA RowFacts ==
  ASSUME SP!Inv
  PROVE  /\ rows \in [RunIds -> Row \cup {NoRow}]
         /\ handle \in [Workers -> Store!Handle \cup {NoHandle}]
         /\ \A p \in Workers : handle[p] # NoHandle => handle[p].run \in RunIds
         /\ \A r \in RunIds : rows[r] # NoRow =>
              /\ rows[r].status = "pending" <=> rows[r].target = "queued"
              /\ rows[r].status = "failed" => rows[r].target = "failed"
              /\ rows[r].lease # NoLease => rows[r].target = "running"
              /\ rows[r].target = "awaiting_approval" => rows[r].pendingApproval # NoApproval
<1>1. rows \in [RunIds -> Row \cup {NoRow}]
  BY DEF SP!Inv, SP!RowsInv, SP!RowsTyped, SP!RunIds, RunIds, SP!Row, Row, SP!Statuses,
         Statuses, SP!TargetStates, TargetStates, SP!FailureReasons, FailureReasons,
         SP!Lease, Lease, SP!Approval, Approval
<1>2. handle \in [Workers -> Store!Handle \cup {NoHandle}]
  BY DEF SP!Inv, SP!HandlesInv, SP!Handle, Store!Handle, SP!RunIds, Store!RunIds
<1>3. \A p \in Workers : handle[p] # NoHandle => handle[p].run \in RunIds
  BY <1>2 DEF Store!Handle, Store!RunIds, RunIds
<1>4. ASSUME NEW r \in RunIds, rows[r] # NoRow
      PROVE  /\ rows[r].status = "pending" <=> rows[r].target = "queued"
             /\ rows[r].status = "failed" => rows[r].target = "failed"
             /\ rows[r].lease # NoLease => rows[r].target = "running"
             /\ rows[r].target = "awaiting_approval" => rows[r].pendingApproval # NoApproval
  BY <1>4 DEF SP!Inv, SP!RowsInv, SP!RowsSound, SP!SoundRow, SP!Present, SP!RunIds, RunIds,
              SP!StatesAgree, SP!LeaseMeansRunning, SP!WaitsForSomething
<1> QED
  BY <1>1, <1>2, <1>3, <1>4

LEMMA RowFields ==
  ASSUME NEW row \in Row
  PROVE  /\ row.session \in Sessions /\ row.target \in TargetStates
         /\ row.pendingApproval \in Approval \cup {NoApproval}
         /\ row.pendingApproval # NoApproval =>
              row.pendingApproval.request \in Requests /\ row.pendingApproval.command \in Commands
         /\ row.lease # NoLease => row.lease \in Lease
BY DEF Row, Approval

\* Either claim: the oldest of its lane is leased under a new token.
Takes(p, r, t) ==
  /\ r \in RunIds /\ rows[r] # NoRow /\ t \in Tokens /\ rows[r].lease = NoLease
  /\ handle[p] = NoHandle
  /\ handle' = [handle EXCEPT ![p] = [run |-> r, token |-> t]]
  /\ sweep' = sweep

LEMMA ClaimWrites ==
  ASSUME SP!Inv, NEW p \in Workers, Store!Claim(p)
  PROVE  \E r \in RunIds, t \in Tokens :
           /\ Takes(p, r, t) /\ rows[r].target = "queued"
           /\ rows' = [rows EXCEPT ![r] = Leased(rows[r], t)]
<1>1. PICK r \in Present(rows), t \in Tokens :
        /\ rows[r].status = "pending" /\ handle[p] = NoHandle
        /\ rows' = [rows EXCEPT ![r] = Leased(rows[r], t)] /\ sweep' = sweep
        /\ handle' = [handle EXCEPT ![p] = [run |-> r, token |-> t]]
  BY DEF Store!Claim, Store!Oldest, Store!Present, Present, Store!RunIds, RunIds,
         Store!Claimable, Store!NewTokens, Store!Take, Store!Leased, Leased, Store!Fresh,
         Fresh, Store!Counted, Counted, Store!Unlimited, Unlimited
<1>2. rows[r].target = "queued" /\ rows[r].lease = NoLease /\ r \in RunIds /\ rows[r] # NoRow
  BY <1>1, RowFacts DEF Present
<1> QED
  BY <1>1, <1>2 DEF Takes

LEMMA ContinuationWrites ==
  ASSUME SP!Inv, NEW p \in Workers, Store!ClaimNextContinuation(p)
  PROVE  \E r \in RunIds, t \in Tokens :
           /\ Takes(p, r, t) /\ ContinuationClaimable(rows[r])
           /\ rows' = [rows EXCEPT ![r] = ContinuationLeased(rows[r], t)]
<1>1. PICK r \in Present(rows), t \in Tokens :
        /\ ContinuationClaimable(rows[r]) /\ handle[p] = NoHandle
        /\ rows' = [rows EXCEPT ![r] = ContinuationLeased(rows[r], t)] /\ sweep' = sweep
        /\ handle' = [handle EXCEPT ![p] = [run |-> r, token |-> t]]
  BY DEF Store!ClaimNextContinuation, Store!Oldest, Store!Present, Present, Store!RunIds,
         RunIds, Store!ContinuationClaimable, ContinuationClaimable, Store!NewTokens,
         Store!Take, Store!ContinuationLeased, ContinuationLeased, Store!Fresh, Fresh
<1>2. r \in RunIds /\ rows[r] # NoRow /\ rows[r].lease = NoLease
  BY <1>1 DEF Present, ContinuationClaimable
<1> QED
  BY <1>1, <1>2 DEF Takes

\* The last call of a process on its run.
Ends(p, row) ==
  /\ handle[p] # NoHandle /\ handle' = [handle EXCEPT ![p] = NoHandle] /\ sweep' = sweep
  /\ rows' = IF Store!Owns(p) THEN [rows EXCEPT ![handle[p].run] = row] ELSE rows

LEMMA EndWrites ==
  ASSUME NEW p \in Workers
  PROVE  /\ Store!Complete(p) => Ends(p, Completed(rows[handle[p].run]))
         /\ \A retry, why :
              Store!Fail(p, retry, why) => Ends(p, Retired(rows[handle[p].run], retry, 1, why))
         /\ Store!ReleaseLease(p) => Ends(p, Released(rows[handle[p].run]))
         /\ \A a : Store!SuspendForApproval(p, a) =>
              Store!Owns(p) /\ Ends(p, Suspended(rows[handle[p].run], a))
BY DEF Ends, Store!Complete, Store!Fail, Store!ReleaseLease, Store!SuspendForApproval,
       Store!Finish, Store!Completed, Store!Retired, Store!MayRetry, Store!Released,
       Store!Suspended, Store!OverClaimed, Store!Unlimited, Completed, Retired, MayRetry,
       Released, Suspended, OverClaimed, Unlimited

LEMMA OwnedRow ==
  ASSUME SP!Inv, NEW p \in Workers, Store!Owns(p)
  PROVE  LET r == handle[p].run
         IN  /\ handle[p] # NoHandle /\ r \in RunIds /\ rows[r] # NoRow /\ rows[r] \in Row
             /\ rows[r].target = "running" /\ rows[r].lease # NoLease
             /\ rows[r].status = "running"
BY RowFacts, RowFields DEF Store!Owns, Store!Present, Store!Holds, Store!RunIds, RunIds, Row,
                           Statuses

\* What most calls do to a row: nothing; they create or delete a queued one; or
\* they move it on without touching what it was suspended on.
MovesOn(r) ==
  /\ rows[r] # NoRow /\ rows[r].target \in {"queued", "running"}
  /\ \/ rows'[r] = NoRow
     \/ /\ rows'[r] # NoRow
        /\ rows'[r].target \in {"queued", "running", "succeeded", "failed"}
        /\ rows'[r].pendingApproval = rows[r].pendingApproval
        /\ rows'[r].session = rows[r].session
        /\ ContinuationClaimable(rows'[r]) => ContinuationClaimable(rows[r])
Quiet(r) ==
  \/ rows'[r] = rows[r]
  \/ rows[r] = NoRow /\ rows'[r].target = "queued" /\ rows'[r].pendingApproval = NoApproval
  \/ MovesOn(r)

\* A write of one row.
LEMMA QuietWrite ==
  ASSUME SP!Inv, NEW r \in RunIds, NEW row \in Row, rows[r] # NoRow,
         rows[r].target \in {"queued", "running"},
         row.target \in {"queued", "running", "succeeded", "failed"},
         row.pendingApproval = rows[r].pendingApproval,
         row.session = rows[r].session,
         ~ContinuationClaimable(row),
         rows' = [rows EXCEPT ![r] = row]
  PROVE  \A o \in RunIds : Quiet(o)
BY RowFacts, NoRowAssumption DEF Quiet, MovesOn

LEMMA QuietClaim ==
  ASSUME SP!Inv, NEW p \in Workers, Store!Claim(p) \/ Store!ClaimNextContinuation(p)
  PROVE  \A r \in RunIds : Quiet(r)
<1>1. CASE Store!Claim(p)
  <2>1. PICK r \in RunIds, t \in Tokens :
          /\ Takes(p, r, t) /\ rows[r].target = "queued"
          /\ rows' = [rows EXCEPT ![r] = Leased(rows[r], t)]
    BY <1>1, ClaimWrites
  <2>2. rows[r] \in Row /\ Counted(rows[r]) \in Nat /\ Fresh(t) \in Lease /\ Fresh(t) # NoLease
    BY <2>1, RowFacts, CountsAssumption, AbsenceAssumption
       DEF Takes, Row, Counted, Fresh, Lease
  <2>3. /\ Leased(rows[r], t) \in Row /\ Leased(rows[r], t).target = "running"
        /\ Leased(rows[r], t).pendingApproval = rows[r].pendingApproval
        /\ Leased(rows[r], t).session = rows[r].session
        /\ ~ContinuationClaimable(Leased(rows[r], t))
    BY <2>2 DEF Leased, Row, Statuses, TargetStates, ContinuationClaimable
  <2> QED
    BY <2>1, <2>3, QuietWrite DEF Takes
<1>2. CASE Store!ClaimNextContinuation(p)
  <2>1. PICK r \in RunIds, t \in Tokens :
          /\ Takes(p, r, t) /\ ContinuationClaimable(rows[r])
          /\ rows' = [rows EXCEPT ![r] = ContinuationLeased(rows[r], t)]
    BY <1>2, ContinuationWrites
  <2>2. rows[r] \in Row /\ Fresh(t) \in Lease /\ Fresh(t) # NoLease /\ rows[r].target = "running"
    BY <2>1, RowFacts, CountsAssumption, AbsenceAssumption
       DEF Takes, ContinuationClaimable, Fresh, Lease
  <2>3. /\ ContinuationLeased(rows[r], t) \in Row
        /\ ContinuationLeased(rows[r], t).target = "running"
        /\ ContinuationLeased(rows[r], t).pendingApproval = rows[r].pendingApproval
        /\ ContinuationLeased(rows[r], t).session = rows[r].session
        /\ ~ContinuationClaimable(ContinuationLeased(rows[r], t))
    BY <2>2 DEF ContinuationLeased, Row, ContinuationClaimable
  <2> QED
    BY <2>1, <2>2, <2>3, QuietWrite DEF Takes
<1> QED
  BY <1>1, <1>2

\* A leased row that is retired, by its process or by the reaper.
LEMMA RetiredRow ==
  ASSUME NEW row \in Row, NEW retry, NEW errors \in {0, 1},
         NEW why \in FailureReasons
  PROVE  LET new == Retired(row, retry, errors, why)
         IN  /\ new \in Row /\ new.target \in {"queued", "failed"} /\ new.lease = NoLease
             /\ new.pendingApproval = row.pendingApproval
             /\ new.session = row.session
<1> DEFINE new == Retired(row, retry, errors, why)
<1>0. row.errorAttempts \in Nat
  BY DEF Row
<1>1. PICK n \in Nat : n = row.errorAttempts + errors
  BY <1>0
<1>2. CASE MayRetry(row, retry, errors)
  <2>1. Released(row) \in Row /\ Released(row).errorAttempts = row.errorAttempts
    BY DEF Released, Row, Statuses, TargetStates
  <2>2. new = [Released(row) EXCEPT !.errorAttempts = n, !.failureReason = "none"]
    BY <1>1, <1>2, <2>1 DEF Retired
  <2>3. new \in Row /\ new.target = Released(row).target /\ new.lease = Released(row).lease
        /\ new.pendingApproval = Released(row).pendingApproval
        /\ new.session = Released(row).session
    BY <2>1, <2>2 DEF Row
  <2>4. /\ Released(row).target = "queued" /\ Released(row).lease = NoLease
        /\ Released(row).pendingApproval = row.pendingApproval
        /\ Released(row).session = row.session
    BY DEF Released, Row
  <2> QED
    BY <2>3, <2>4
<1>3. CASE ~MayRetry(row, retry, errors)
  <2>1. new = [row EXCEPT !.status = "failed", !.target = "failed", !.lease = NoLease,
                          !.errorAttempts = n, !.failureReason = why]
    BY <1>1, <1>3 DEF Retired
  <2> QED
    BY <2>1 DEF Row, Statuses, TargetStates
<1> QED
  BY <1>2, <1>3

LEMMA QuietEnd ==
  ASSUME SP!Inv, NEW p \in Workers,
         \/ Store!Complete(p) \/ Store!ReleaseLease(p)
         \/ \E retry \in BOOLEAN, why \in FailureReasons : Store!Fail(p, retry, why)
  PROVE  \A r \in RunIds : Quiet(r)
<1> DEFINE h == handle[p].run
<1>1. PICK row : Ends(p, row) /\ (Store!Owns(p) =>
        /\ row \in Row /\ row.target \in {"queued", "succeeded", "failed"}
        /\ row.pendingApproval = rows[h].pendingApproval
        /\ row.session = rows[h].session)
  <2>1. Store!Owns(p) => rows[h] \in Row
    BY OwnedRow
  <2>2. CASE Store!Complete(p)
    <3>1. Ends(p, Completed(rows[h]))
      BY <2>2, EndWrites
    <3>2. Store!Owns(p) =>
            /\ Completed(rows[h]) \in Row /\ Completed(rows[h]).target = "succeeded"
            /\ Completed(rows[h]).pendingApproval = rows[h].pendingApproval
            /\ Completed(rows[h]).session = rows[h].session
      BY <2>1 DEF Completed, Row, TargetStates
    <3> QED
      BY <3>1, <3>2
  <2>3. CASE Store!ReleaseLease(p)
    <3>1. Ends(p, Released(rows[h]))
      BY <2>3, EndWrites
    <3>2. Store!Owns(p) =>
            /\ Released(rows[h]) \in Row /\ Released(rows[h]).target = "queued"
            /\ Released(rows[h]).pendingApproval = rows[h].pendingApproval
            /\ Released(rows[h]).session = rows[h].session
      BY <2>1 DEF Released, Row, TargetStates, Statuses
    <3> QED
      BY <3>1, <3>2
  <2>4. ASSUME NEW retry \in BOOLEAN, NEW why \in FailureReasons, Store!Fail(p, retry, why)
        PROVE  \E row : Ends(p, row) /\ (Store!Owns(p) =>
                 /\ row \in Row /\ row.target \in {"queued", "succeeded", "failed"}
                 /\ row.pendingApproval = rows[h].pendingApproval
                 /\ row.session = rows[h].session)
    <3>1. Ends(p, Retired(rows[h], retry, 1, why))
      BY <2>4, EndWrites
    <3>2. Store!Owns(p) =>
            LET new == Retired(rows[h], retry, 1, why)
            IN  /\ new \in Row /\ new.target \in {"queued", "failed"}
                /\ new.pendingApproval = rows[h].pendingApproval
                /\ new.session = rows[h].session
      BY <2>1, RetiredRow
    <3> QED
      BY <3>1, <3>2
  <2> QED
    BY <2>2, <2>3, <2>4
<1>2. CASE Store!Owns(p)
  <2>1. rows' = [rows EXCEPT ![h] = row] /\ ~ContinuationClaimable(row)
    BY <1>1, <1>2 DEF Ends, ContinuationClaimable
  <2> QED
    BY <1>1, <1>2, <2>1, OwnedRow, QuietWrite
<1>3. CASE ~Store!Owns(p)
  BY <1>1, <1>3 DEF Ends, Quiet
<1> QED
  BY <1>2, <1>3

LEMMA QuietSweep ==
  ASSUME SP!Inv, NEW z \in Reapers,
         Store!SweepStart(z) \/ \E r \in RunIds : Store!SweepNext(z, r, FALSE)
  PROVE  /\ \A r \in RunIds : Quiet(r)
         /\ handle' = handle
<1>1. CASE Store!SweepStart(z)
  BY <1>1 DEF Store!SweepStart, Quiet
<1>2. ASSUME NEW r \in RunIds, Store!SweepNext(z, r, FALSE)
      PROVE  \A o \in RunIds : Quiet(o)
  <2>1. CASE rows' = rows
    BY <2>1 DEF Quiet
  <2>2. CASE rows' # rows
    <3> DEFINE new == Retired(rows[r], TRUE, 0, "execution_failed")
    <3>1. /\ rows[r] # NoRow /\ rows[r].lease # NoLease
          /\ rows' = [rows EXCEPT ![r] = new]
      <4>1. /\ rows[r] # NoRow /\ rows[r].lease # NoLease
            /\ rows' = [rows EXCEPT ![r] = Store!Retired(rows[r], ~FALSE, 0, "execution_failed")]
        BY <1>2, <2>2 DEF Store!SweepNext, Store!StillLapsed, Store!LeaseLapsed, Store!Present
      <4>2. Store!Retired(rows[r], ~FALSE, 0, "execution_failed") = new
        BY DEF Store!Retired, Store!MayRetry, Store!Released, Store!OverClaimed,
               Store!Unlimited, Retired, MayRetry, Released, OverClaimed, Unlimited
      <4> QED
        BY <4>1, <4>2
    <3>2. rows[r] \in Row /\ rows[r].target = "running"
      BY <3>1, RowFacts
    <3>3. "execution_failed" \in FailureReasons
      BY DEF FailureReasons
    <3>4. /\ new \in Row /\ new.target \in {"queued", "failed"}
          /\ new.pendingApproval = rows[r].pendingApproval
          /\ new.session = rows[r].session
      BY <3>2, <3>3, RetiredRow
    <3>5. ~ContinuationClaimable(new)
      BY <3>4 DEF ContinuationClaimable
    <3> HIDE DEF new
    <3> QED
      BY <3>1, <3>2, <3>4, <3>5, QuietWrite
  <2> QED
    BY <2>1, <2>2
<1>3. handle' = handle
  BY DEF Store!SweepStart, Store!SweepNext
<1> QED
  BY <1>1, <1>2, <1>3

LEMMA QuietRest ==
  ASSUME SP!Inv,
         \/ \E s \in Sessions : Store!Enqueue(s, NoKey)
         \/ \E r \in RunIds : Store!Withdraw(r)
         \/ Store!Tick
  PROVE  /\ \A r \in RunIds : Quiet(r)
         /\ handle' = handle
<1>0. rows \in [RunIds -> Row \cup {NoRow}]
  BY RowFacts
<1>1. ASSUME NEW s \in Sessions, Store!Enqueue(s, NoKey)
      PROVE  \A r \in RunIds : Quiet(r)
  <2>1. created \in 0..MaxRuns /\ \A r \in RunIds : r > created => rows[r] = NoRow
    BY DEF SP!Inv, SP!RowsInv, SP!RowsTyped, SP!RunIds, RunIds
  <2>2. /\ created + 1 \in RunIds /\ rows[created + 1] = NoRow
        /\ rows' = [rows EXCEPT ![created + 1] = NewRow(s, NoKey)]
    BY <1>1, <2>1, CountsAssumption DEF Store!Enqueue, RunIds, Store!NewRow, NewRow
  <2>3. NewRow(s, NoKey).target = "queued" /\ NewRow(s, NoKey).pendingApproval = NoApproval
    BY DEF NewRow
  <2> QED
    BY <1>0, <2>2, <2>3 DEF Quiet
<1>2. ASSUME NEW r \in RunIds, Store!Withdraw(r)
      PROVE  \A o \in RunIds : Quiet(o)
  <2>1. rows[r] # NoRow /\ rows[r].target = "queued" /\ rows' = [rows EXCEPT ![r] = NoRow]
    BY <1>2, RowFacts DEF Store!Withdraw, Store!Present
  <2> QED
    BY <1>0, <2>1 DEF Quiet, MovesOn
<1>3. CASE Store!Tick
  <2> SUFFICES ASSUME NEW r \in RunIds PROVE Quiet(r)
    BY <1>3 DEF Store!Tick
  <2>1. rows'[r] = Store!Aged(rows[r])
    BY <1>3 DEF Store!Tick, Store!RunIds, RunIds
  <2>2. CASE rows[r] # NoRow /\ rows[r].lease # NoLease /\ rows'[r] # rows[r]
    <3>1. /\ rows[r] \in Row /\ rows[r].lease \in Lease /\ rows[r].target = "running"
      BY <2>2, <1>0, RowFacts, RowFields
    <3>2. PICK n \in Int : n = rows[r].lease.left - 1
      BY <3>1 DEF Lease
    <3>3. PICK l \in Lease : l = [rows[r].lease EXCEPT !.left = n]
      BY <3>1 DEF Lease
    <3>4. rows'[r] = [rows[r] EXCEPT !.lease = l]
      BY <2>1, <2>2, <3>1, <3>2, <3>3 DEF Store!Aged
    <3>5. /\ rows'[r] \in Row /\ rows'[r].target = rows[r].target
          /\ rows'[r].pendingApproval = rows[r].pendingApproval
          /\ rows'[r].session = rows[r].session
          /\ rows'[r].lease # NoLease
      BY <3>1, <3>4, AbsenceAssumption DEF Row
    <3> QED
      BY <2>2, <3>1, <3>5, NoRowAssumption DEF Quiet, MovesOn, ContinuationClaimable
  <2>3. CASE ~(rows[r] # NoRow /\ rows[r].lease # NoLease /\ rows'[r] # rows[r])
    BY <2>1, <2>3 DEF Store!Aged, Quiet
  <2> QED
    BY <2>2, <2>3
<1>4. handle' = handle
  BY DEF Store!Enqueue, Store!Withdraw, Store!Tick
<1> QED
  BY <1>1, <1>2, <1>3, <1>4

\* The writes that touch what a run is suspended on.
Alone(r, row) == rows' = [rows EXCEPT ![r] = row]

LEMMA SuspendWrites ==
  ASSUME SP!Inv, NEW p \in Workers, NEW a \in Approval, Store!SuspendForApproval(p, a)
  PROVE  LET r == handle[p].run
         IN  /\ Store!Owns(p) /\ handle' = [handle EXCEPT ![p] = NoHandle] /\ sweep' = sweep
             /\ Suspended(rows[r], a) \in Row
             /\ Suspended(rows[r], a).target = "awaiting_approval"
             /\ Suspended(rows[r], a).pendingApproval = a
             /\ Suspended(rows[r], a).session = rows[r].session
             /\ Alone(r, Suspended(rows[r], a))
<1>1. Store!Owns(p) /\ Ends(p, Suspended(rows[handle[p].run], a))
  BY EndWrites
<1>2. rows[handle[p].run] \in Row
  BY <1>1, OwnedRow
<1> QED
  BY <1>1, <1>2 DEF Ends, Alone, Suspended, Row, TargetStates

LEMMA DecisionWrites ==
  ASSUME SP!Inv, NEW r \in RunIds
  PROVE  /\ \A c \in Commands : Store!BeginContinuationAttempt(r, c) =>
              /\ rows[r] # NoRow /\ rows[r].target = "awaiting_approval"
              /\ Resumed(rows[r], c) \in Row /\ Resumed(rows[r], c).target = "running"
              /\ Resumed(rows[r], c).pendingApproval = rows[r].pendingApproval
              /\ Resumed(rows[r], c).session = rows[r].session
              /\ Resumed(rows[r], c).lastCommand = c
              /\ Alone(r, Resumed(rows[r], c)) /\ handle' = handle /\ sweep' = sweep
         /\ \A why \in FailureReasons : Store!FailFromApproval(r, why) =>
              /\ rows[r] # NoRow /\ rows[r].target = "awaiting_approval"
              /\ FailedFromApproval(rows[r], why) \in Row
              /\ FailedFromApproval(rows[r], why).target = "failed"
              /\ FailedFromApproval(rows[r], why).failureReason = why
              /\ FailedFromApproval(rows[r], why).session = rows[r].session
              /\ Alone(r, FailedFromApproval(rows[r], why)) /\ handle' = handle
              /\ sweep' = sweep
<1>1. ASSUME NEW c \in Commands, Store!BeginContinuationAttempt(r, c)
      PROVE  /\ rows[r] # NoRow /\ rows[r].target = "awaiting_approval"
             /\ Resumed(rows[r], c) \in Row /\ Resumed(rows[r], c).target = "running"
             /\ Resumed(rows[r], c).pendingApproval = rows[r].pendingApproval
             /\ Resumed(rows[r], c).session = rows[r].session
             /\ Resumed(rows[r], c).lastCommand = c
             /\ Alone(r, Resumed(rows[r], c)) /\ handle' = handle /\ sweep' = sweep
  <2>1. /\ rows[r] # NoRow /\ rows[r].target = "awaiting_approval"
        /\ Alone(r, Resumed(rows[r], c)) /\ handle' = handle /\ sweep' = sweep
    BY <1>1 DEF Store!BeginContinuationAttempt, Store!Present, Store!Resumable,
       Store!Resumed, Resumed, Store!Counted, Counted, Store!Unlimited, Unlimited, Alone
  <2>2. rows[r] \in Row
    BY <2>1, RowFacts
  <2>3. PICK n \in Nat : n = Counted(rows[r])
    BY <2>2 DEF Row, Counted
  <2>4. Resumed(rows[r], c) =
          [rows[r] EXCEPT !.status = "running", !.target = "running", !.lease = NoLease,
             !.attempts = n, !.lastCommand = c, !.resumed = TRUE]
    BY <2>3 DEF Resumed
  <2>5. /\ Resumed(rows[r], c) \in Row /\ Resumed(rows[r], c).target = "running"
        /\ Resumed(rows[r], c).pendingApproval = rows[r].pendingApproval
        /\ Resumed(rows[r], c).session = rows[r].session
        /\ Resumed(rows[r], c).lastCommand = c
    BY <2>2, <2>4 DEF Row, Statuses, TargetStates
  <2> QED
    BY <2>1, <2>5
<1>2. ASSUME NEW why \in FailureReasons, Store!FailFromApproval(r, why)
      PROVE  /\ rows[r] # NoRow /\ rows[r].target = "awaiting_approval"
             /\ FailedFromApproval(rows[r], why) \in Row
             /\ FailedFromApproval(rows[r], why).target = "failed"
             /\ FailedFromApproval(rows[r], why).failureReason = why
             /\ FailedFromApproval(rows[r], why).session = rows[r].session
             /\ Alone(r, FailedFromApproval(rows[r], why)) /\ handle' = handle
             /\ sweep' = sweep
  <2>1. /\ rows[r] # NoRow /\ rows[r].target = "awaiting_approval"
        /\ Alone(r, FailedFromApproval(rows[r], why)) /\ handle' = handle /\ sweep' = sweep
    BY <1>2 DEF Store!FailFromApproval, Store!Present, Store!FailedFromApproval,
       FailedFromApproval, Alone
  <2>2. rows[r] \in Row
    BY <2>1, RowFacts
  <2>3. /\ FailedFromApproval(rows[r], why) \in Row
        /\ FailedFromApproval(rows[r], why).target = "failed"
        /\ FailedFromApproval(rows[r], why).failureReason = why
        /\ FailedFromApproval(rows[r], why).session = rows[r].session
    BY <2>2 DEF FailedFromApproval, Row, TargetStates
  <2> QED
    BY <2>1, <2>3
<1> QED
  BY <1>1, <1>2

-----------------------------------------------------------------------------
(* Where processes and clicks stand.                                       *)

Phase(x) ==
  IF x \in {"idle", "fresh"} THEN Waiting
  ELSE IF x \in {"gate", "turn", "succeeded", "failed", "retrying", "release"} THEN Executing
  ELSE Pausing

\* A process goes on with the same run.
LEMMA GotoJob ==
  ASSUME Typed, NEW p \in Workers, NEW x \in JobPlaces, Goto(p, x),
         job[p] \in Phase(x)
  PROVE  /\ job' = [job EXCEPT ![p] = job'[p]] /\ job'[p] \in Job /\ job'[p] \in Phase(x)
         /\ job'[p].at = x /\ job'[p].run = job[p].run
         /\ x \notin {"idle", "fresh"} =>
              job'[p].session = job[p].session /\ job'[p].resumes = job[p].resumes
         /\ job[p] \in Pausing => job'[p].request = job[p].request
<1>1. job \in [Workers -> Job]
  BY DEF Typed
<1>2. job'[p] = [job[p] EXCEPT !.at = x] /\ job' = [job EXCEPT ![p] = job'[p]]
  BY <1>1 DEF Goto
<1>3. CASE x \in {"idle", "fresh"}
  <2>1. job[p] \in Waiting
    BY <1>3 DEF Phase
  <2> QED
    BY <1>2, <1>3, <2>1 DEF Phase, Waiting, Job, Pausing
<1>4. CASE x \in {"gate", "turn", "succeeded", "failed", "retrying", "release"}
  <2>1. job[p] \in Executing
    BY <1>4 DEF Phase
  <2> QED
    BY <1>2, <1>4, <2>1 DEF Phase, Executing, Job, Pausing
<1>5. CASE x \in {"reserve", "suspend", "suspended", "requested", "closed"}
  <2>1. job[p] \in Pausing
    BY <1>5 DEF Phase
  <2> QED
    BY <1>2, <1>5, <2>1 DEF Phase, Pausing, Job
<1> QED
  BY <1>3, <1>4, <1>5 DEF JobPlaces

LEMMA RestJob ==
  ASSUME Typed, NEW p \in Workers, Rest(p)
  PROVE  /\ job' = [job EXCEPT ![p] = job'[p]] /\ job'[p] \in Job /\ job'[p].at = "idle"
BY DEF Typed, Rest, IdleJob, Job, Waiting

\* What a step of a process makes of its job and of its hand.
Steps(p) ==
  /\ job' = [job EXCEPT ![p] = job'[p]] /\ job'[p] \in Job
  /\ \A v \in Workers \ {p} : handle'[v] = handle[v]
  /\ handle'[p] # NoHandle <=> job'[p].at \in Holding
  /\ handle'[p] # NoHandle => handle'[p].run = job'[p].run

LEMMA TakeSteps ==
  ASSUME SP!Inv, Typed, NEW p \in Workers, NEW r \in RunIds, NEW t \in Tokens,
         Takes(p, r, t), NEW x \in {"turn", "gate"}, NEW b \in BOOLEAN, ClaimedJob(p, x, b)
  PROVE  Steps(p) /\ job'[p].at = x /\ handle'[p].run = r /\ job'[p].resumes = b
<1>1. rows[r].session \in Sessions /\ job \in [Workers -> Job]
  BY RowFacts, RowFields DEF Takes, Typed
<1>2. [run |-> r, token |-> t] # NoHandle
  BY StoreAssumption DEF Store!Handle, Store!RunIds, RunIds
<1>3. handle' = [handle EXCEPT ![p] = [run |-> r, token |-> t]]
  BY DEF Takes
<1>4. handle'[p] = [run |-> r, token |-> t] /\ \A v \in Workers \ {p} : handle'[v] = handle[v]
  BY <1>3, RowFacts
<1>5. job'[p] = [at |-> x, run |-> r, session |-> rows[r].session, resumes |-> b]
      /\ job' = [job EXCEPT ![p] = job'[p]]
  BY <1>1, <1>4 DEF ClaimedJob
<1>6. job'[p] \in Executing /\ job'[p].at = x /\ job'[p].run = r /\ job'[p].resumes = b
  BY <1>1, <1>5 DEF Executing
<1> QED
  BY <1>2, <1>4, <1>5, <1>6 DEF Steps, Job, Holding

\* The end of a run, or of its process, leaves it with no run in hand.
LEMMA EndSteps ==
  ASSUME SP!Inv, Typed, NEW p \in Workers, job' = [job EXCEPT ![p] = job'[p]],
         job'[p] \in Job, job'[p].at \notin Holding, handle' = [handle EXCEPT ![p] = NoHandle]
  PROVE  Steps(p)
BY RowFacts DEF Steps

LEMMA RunnerMoves ==
  ASSUME SP!Inv, Typed, HandsMatch, NEW p \in Workers, RunnerStep(p)
  PROVE  Steps(p)
<1> DEFINE j == job[p]
<1>0. j \in Job /\ (handle[p] # NoHandle <=> j.at \in Holding)
      /\ (handle[p] # NoHandle => handle[p].run = j.run)
  BY DEF Typed, HandsMatch
<1>1. ASSUME handle' = handle, job' = [job EXCEPT ![p] = job'[p]], job'[p] \in Job,
             \/ j.at \in Holding /\ job'[p].at \in Holding /\ job'[p].run = j.run
             \/ j.at \notin Holding /\ job'[p].at \notin Holding
      PROVE  Steps(p)
  BY <1>0, <1>1 DEF Steps
<1>2. CASE PollContinuation(p)
  <2>1. PICK r \in RunIds, t \in Tokens : Takes(p, r, t)
    BY <1>2, ContinuationWrites DEF PollContinuation
  <2> QED
    BY <1>2, <2>1, TakeSteps DEF PollContinuation
<1>3. CASE PollFresh(p)
  <2>1. PICK r \in RunIds, t \in Tokens : Takes(p, r, t)
    BY <1>3, ClaimWrites DEF PollFresh
  <2> QED
    BY <1>3, <2>1, TakeSteps DEF PollFresh
<1>4. CASE PollPastContinuation(p)
  <2>1. j \in Phase("fresh") /\ "fresh" \in JobPlaces
    BY <1>0, <1>4, JobFields DEF PollPastContinuation, At, Phase, JobPlaces
  <2> QED
    BY <1>1, <1>4, <2>1, GotoJob DEF PollPastContinuation, At, storeVars, Holding
<1>5. CASE GateOpens(p)
  <2>1. j \in Phase("turn") /\ "turn" \in JobPlaces
    BY <1>0, <1>5, JobFields DEF GateOpens, At, Phase, JobPlaces
  <2> QED
    BY <1>1, <1>5, <2>1, GotoJob DEF GateOpens, At, storeVars, Holding
<1>6. CASE ReserveSession(p)
  <2>1. j \in Phase("suspend") /\ "suspend" \in JobPlaces
    BY <1>0, <1>6, JobFields DEF ReserveSession, At, Phase, JobPlaces
  <2> QED
    BY <1>1, <1>6, <2>1, GotoJob DEF ReserveSession, At, storeVars, Holding
<1>7. CASE AnnounceSuspended(p)
  <2>1. j \in Phase("requested") /\ "requested" \in JobPlaces
    BY <1>0, <1>7, JobFields DEF AnnounceSuspended, Announce, At, Phase, JobPlaces
  <2> QED
    BY <1>1, <1>7, <2>1, GotoJob DEF AnnounceSuspended, Announce, At, storeVars, Holding
<1>8. CASE PollNothing(p) \/ AnnounceRetry(p) \/ AnnounceRequested(p) \/ AnnounceClosed(p)
           \/ ReleaseReservation(p)
  <2>1. Rest(p) /\ handle' = handle /\ j.at \notin Holding
    BY <1>8 DEF PollNothing, AnnounceRetry, AnnounceRequested, AnnounceClosed, Announce,
                ReleaseReservation, At, storeVars, Holding
  <2> QED
    BY <1>1, <2>1, RestJob DEF Holding
<1>9. ASSUME AfterFinish(p), j.at \in {"turn", "succeeded", "failed"}
      PROVE  /\ job' = [job EXCEPT ![p] = job'[p]] /\ job'[p] \in Job
             /\ job'[p].at \notin Holding
  <2>1. j \in Phase("release") /\ "release" \in JobPlaces
    BY <1>0, <1>9, JobFields DEF Phase, JobPlaces
  <2> QED
    BY <1>9, <2>1, RestJob, GotoJob DEF AfterFinish, Holding
<1>10. CASE AnnounceSucceeded(p) \/ AnnounceFailed(p)
  <2>1. AfterFinish(p) /\ handle' = handle /\ j.at \in {"succeeded", "failed"}
    BY <1>10 DEF AnnounceSucceeded, AnnounceFailed, Announce, At, storeVars
  <2> QED
    BY <1>1, <1>9, <2>1 DEF Holding
<1>11. CASE GateCloses(p)
  <2>1. handle' = [handle EXCEPT ![p] = NoHandle] /\ Rest(p)
    BY <1>11, EndWrites DEF GateCloses, Ends
  <2> QED
    BY <2>1, RestJob, EndSteps DEF Holding
<1>12. CASE TurnCompletes(p)
  <2>1. handle' = [handle EXCEPT ![p] = NoHandle] /\ j.at = "turn"
    BY <1>12, EndWrites DEF TurnCompletes, Ends, At
  <2>2. CASE Goto(p, "succeeded")
    <3>1. j \in Phase("succeeded") /\ "succeeded" \in JobPlaces
      BY <1>0, <2>1, JobFields DEF Phase, JobPlaces
    <3> QED
      BY <2>1, <2>2, <3>1, GotoJob, EndSteps DEF Holding
  <2>3. CASE AfterFinish(p)
    BY <1>9, <2>1, <2>3, EndSteps
  <2> QED
    BY <1>12, <2>2, <2>3 DEF TurnCompletes
<1>13. CASE TurnThrows(p)
  <2>1. handle' = [handle EXCEPT ![p] = NoHandle] /\ j.at = "turn"
    BY <1>13, EndWrites DEF TurnThrows, Ends, At
  <2>2. PICK x \in {"retrying", "failed"} : Goto(p, x)
    BY <1>13 DEF TurnThrows
  <2>3. j \in Phase(x) /\ x \in JobPlaces
    BY <1>0, <2>1, JobFields DEF Phase, JobPlaces
  <2> QED
    BY <2>1, <2>2, <2>3, GotoJob, EndSteps DEF Holding
<1>14. ASSUME NEW q \in Requests, NEW c \in Commands, TurnPauses(p, q, c)
       PROVE  Steps(p)
  <2>1. j.at = "turn" /\ j \in Executing /\ handle' = handle
    BY <1>0, <1>14, JobFields DEF TurnPauses, At, storeVars
  <2>2. /\ job' = [job EXCEPT ![p] = job'[p]]
        /\ job'[p] = [at |-> "reserve", run |-> j.run, session |-> j.session,
                      resumes |-> j.resumes, request |-> q]
    BY <1>14 DEF TurnPauses, Typed
  <2>3. job'[p] \in Pausing /\ job'[p].run = j.run /\ job'[p].at = "reserve"
    BY <2>1, <2>2 DEF Pausing, Executing
  <2> QED
    BY <1>1, <2>1, <2>2, <2>3 DEF Job, Holding
<1>15. CASE SuspendRun(p)
  <2>1. handle' = [handle EXCEPT ![p] = NoHandle] /\ j.at = "suspend" /\ Goto(p, "suspended")
    BY <1>15, EndWrites DEF SuspendRun, Ends, At
  <2>2. j \in Phase("suspended") /\ "suspended" \in JobPlaces
    BY <1>0, <2>1, JobFields DEF Phase, JobPlaces
  <2> QED
    BY <2>1, <2>2, GotoJob, EndSteps DEF Holding
<1>16. CASE FailClosed(p)
  <2>1. handle' = [handle EXCEPT ![p] = NoHandle] /\ j.at = "suspend" /\ Goto(p, "closed")
    BY <1>16, EndWrites DEF FailClosed, Ends, At
  <2>2. j \in Phase("closed") /\ "closed" \in JobPlaces
    BY <1>0, <2>1, JobFields DEF Phase, JobPlaces
  <2> QED
    BY <2>1, <2>2, GotoJob, EndSteps DEF Holding
<1> QED
  BY <1>2, <1>3, <1>4, <1>5, <1>6, <1>7, <1>8, <1>10, <1>11, <1>12, <1>13, <1>14, <1>15, <1>16
     DEF RunnerStep, Poll, EndTurn, Settle

\* A process that dies stands at the beginning, with nothing in hand.
LEMMA CrashMoves ==
  ASSUME SP!Inv, Typed, HandsMatch, NEW p \in Workers, Crash(p)
  PROVE  Steps(p) /\ job'[p].at = "idle" /\ rows' = rows
<1>1. job' = [job EXCEPT ![p] = job'[p]] /\ job'[p] \in Job /\ job'[p].at = "idle"
  BY RestJob DEF Crash
<1>2. /\ handle'[p] = NoHandle /\ \A v \in Workers \ {p} : handle'[v] = handle[v]
      /\ rows' = rows
  BY RowFacts DEF Crash, Store!Crash, storeVars
<1> QED
  BY <1>1, <1>2 DEF Steps, Holding

\* The steps of nobody's process.
LEMMA OthersMove ==
  ASSUME SP!Inv, Typed, AskInv, [Next]_vars,
         ~\E p \in Workers : RunnerStep(p) \/ Crash(p)
  PROVE  job' = job /\ handle' = handle /\ executed' = executed /\ shown' = shown
<1>1. ASSUME NEW d \in Deciders, OpenClick(d) \/ DecisionStep(d)
      PROVE  job' = job /\ handle' = handle /\ executed' = executed /\ shown' = shown
  <2>1. job' = job /\ executed' = executed /\ shown' = shown
    BY <1>1 DEF OpenClick, Approve, Reject, FindExpired, DecisionStep, BeginContinuation,
                FailRun, AnnounceDecided, AnnounceResumed, AnnounceDenied,
                AnnounceDeniedFinish, ClickAnnounce, ReleaseAfterDenial
  <2>2. CASE OpenClick(d)
    BY <2>2 DEF OpenClick, Approve, Reject, FindExpired, storeVars
  <2>3. CASE DecisionStep(d)
    BY <2>3 DEF DecisionStep, BeginContinuation, FailRun, AnnounceDecided, AnnounceResumed,
                AnnounceDenied, AnnounceDeniedFinish, ClickAnnounce, ReleaseAfterDenial,
                Store!BeginContinuationAttempt, Store!FailFromApproval, storeVars
  <2> QED
    BY <1>1, <2>1, <2>2, <2>3
<1>2. ASSUME \/ \E s \in Sessions : Enqueue(s) \/ ReservationLapses(s)
             \/ \E r \in RunIds : Withdraw(r)
             \/ \E q \in Requests : RequestFallsDue(q)
             \/ LeaseClock \/ Reap
      PROVE  job' = job /\ handle' = handle /\ executed' = executed /\ shown' = shown
  BY <1>2, QuietRest, QuietSweep
     DEF Enqueue, ReservationLapses, Withdraw, RequestFallsDue, LeaseClock, Reap, storeVars
<1>3. CASE UNCHANGED vars
  BY <1>3 DEF vars
<1> QED
  BY <1>1, <1>2, <1>3 DEF Next, Environment

LEMMA HandsStep ==
  ASSUME SP!Inv, Typed, HandsMatch, AskInv, [Next]_vars
  PROVE  HandsMatch' /\ job' \in [Workers -> Job]
<1>1. ASSUME NEW p \in Workers, Steps(p)
      PROVE  HandsMatch' /\ job' \in [Workers -> Job]
  BY <1>1 DEF Steps, HandsMatch, Typed
<1>2. CASE ~\E p \in Workers : RunnerStep(p) \/ Crash(p)
  BY <1>2, OthersMove DEF HandsMatch, Typed
<1> QED
  BY <1>1, <1>2, RunnerMoves, CrashMoves

-----------------------------------------------------------------------------
(* The other types.                                                        *)

LEMMA RequestFields ==
  ASSUME Typed, NEW q \in Requests, request[q] # NoRequest
  PROVE  /\ request[q] \in ApprovalRequest
         /\ request[q].run \in RunIds /\ request[q].session \in Sessions
         /\ request[q].command \in Commands /\ request[q].home \in Workers
BY DEF Typed, ApprovalRequest

\* A click is on a request that was shown.
LEMMA AskedFields ==
  ASSUME Typed, AskInv, NEW d \in Deciders, click[d].at # "idle"
  PROVE  /\ click[d].request \in Requests /\ click[d].request \in shown
         /\ Asked(d) \in ApprovalRequest /\ request[click[d].request] # NoRequest
         /\ Asked(d).run \in RunIds /\ Asked(d).session \in Sessions
         /\ Asked(d).command \in Commands
<1>1. click[d].request \in shown /\ click[d].request \in Requests
  BY ClickFields DEF Typed, AskInv, ClicksInv
<1>2. request[click[d].request] # NoRequest
  BY <1>1 DEF AskInv, UnseenInv
<1> QED
  BY <1>1, <1>2, RequestFields DEF Asked

\* What a step does to a request: it is created, decided, falls due or is lost.
RequestMoves(q) ==
  \/ request'[q] = request[q]
  \/ /\ request[q] = NoRequest /\ request'[q] \in ApprovalRequest
     /\ q \notin shown
  \/ /\ request[q] # NoRequest /\ request'[q] \in ApprovalRequest
     /\ request'[q].run = request[q].run
     /\ request[q].due => request'[q].due
     /\ request'[q].home = request[q].home /\ request'[q].command = request[q].command

LEMMA RequestStep ==
  ASSUME Typed, AskInv, [Next]_vars
  PROVE  /\ request' \in [Requests -> ApprovalRequest \cup {NoRequest}]
         /\ \A q \in Requests : RequestMoves(q)
<1> DEFINE Goal == /\ request' \in [Requests -> ApprovalRequest \cup {NoRequest}]
                   /\ \A q \in Requests : RequestMoves(q)
<1>0. request \in [Requests -> ApprovalRequest \cup {NoRequest}]
  BY DEF Typed
<1>1. ASSUME request' = request PROVE Goal
  BY <1>0, <1>1 DEF RequestMoves
<1>2. ASSUME NEW q \in Requests, request[q] # NoRequest, NEW new \in ApprovalRequest,
             new.run = request[q].run, request[q].due => new.due,
             new.home = request[q].home, new.command = request[q].command,
             request' = [request EXCEPT ![q] = new]
      PROVE  Goal
  BY <1>0, <1>2 DEF RequestMoves
<1>3. ASSUME NEW p \in Workers, NEW q \in Requests, NEW c \in Commands, TurnPauses(p, q, c)
      PROVE  Goal
  <2>1. job[p].run \in RunIds /\ job[p].session \in Sessions
    BY <1>3, JobFields DEF TurnPauses, At, Typed
  <2> DEFINE new == [status |-> "pending", due |-> FALSE, home |-> p, command |-> c,
                     run |-> job[p].run, session |-> job[p].session]
  <2>2. new \in ApprovalRequest
    BY <2>1 DEF ApprovalRequest
  <2>3. request[q] = NoRequest /\ request' = [request EXCEPT ![q] = new]
    BY <1>3 DEF TurnPauses
  <2>4. q \notin shown
    BY <2>3 DEF AskInv, UnseenInv
  <2> HIDE DEF new
  <2> QED
    BY <1>0, <2>2, <2>3, <2>4 DEF RequestMoves
<1>4. ASSUME NEW d \in Deciders, NEW q \in Requests, Approve(d, q) \/ Reject(d, q)
      PROVE  Goal
  <2>1. PICK s \in {"approved", "rejected"} : request' = [request EXCEPT ![q].status = s]
    BY <1>4 DEF Approve, Reject
  <2>2. request[q] # NoRequest /\ request[q] \in ApprovalRequest
    BY <1>4, RequestFields DEF Approve, Reject, Opens
  <2> DEFINE new == [request[q] EXCEPT !.status = s]
  <2>3. new \in ApprovalRequest /\ new.run = request[q].run /\ new.due = request[q].due
        /\ new.home = request[q].home /\ new.command = request[q].command
    BY <2>2 DEF ApprovalRequest
  <2>4. request' = [request EXCEPT ![q] = new]
    BY <2>1
  <2> HIDE DEF new
  <2> QED
    BY <1>2, <2>2, <2>3, <2>4
<1>5. ASSUME NEW q \in Requests, RequestFallsDue(q)
      PROVE  Goal
  <2>1. request[q] \in ApprovalRequest /\ request[q] # NoRequest
        /\ request' = [request EXCEPT ![q].due = TRUE]
    BY <1>5, RequestFields DEF RequestFallsDue
  <2> DEFINE new == [request[q] EXCEPT !.due = TRUE]
  <2>2. new \in ApprovalRequest /\ new.run = request[q].run /\ new.due
        /\ new.home = request[q].home /\ new.command = request[q].command
    BY <2>1 DEF ApprovalRequest
  <2>3. request' = [request EXCEPT ![q] = new]
    BY <2>1
  <2> HIDE DEF new
  <2> QED
    BY <1>2, <2>1, <2>2, <2>3
<1>6. ASSUME NEW p \in Workers, Crash(p)
      PROVE  Goal
  <2>1. /\ request' = [q \in Requests |->
             IF q \in Homeless(p) THEN [request[q] EXCEPT !.status = "lost"] ELSE request[q]]
        /\ \A q \in Homeless(p) : request[q] # NoRequest /\ q \in Requests
    BY <1>6 DEF Crash, Homeless
  <2>2. \A q \in Homeless(p) :
          /\ [request[q] EXCEPT !.status = "lost"] \in ApprovalRequest
          /\ [request[q] EXCEPT !.status = "lost"].run = request[q].run
          /\ [request[q] EXCEPT !.status = "lost"].due = request[q].due
          /\ [request[q] EXCEPT !.status = "lost"].home = request[q].home
          /\ [request[q] EXCEPT !.status = "lost"].command = request[q].command
    BY <2>1, RequestFields DEF ApprovalRequest
  <2> QED
    BY <1>0, <2>1, <2>2 DEF RequestMoves
<1>7. ASSUME NEW p \in Workers, RunnerStep(p),
             ~\E q \in Requests, c \in Commands : TurnPauses(p, q, c)
      PROVE  request' = request
  BY <1>7 DEF RunnerStep, Poll, EndTurn, Settle, PollContinuation, PollPastContinuation,
     PollFresh, PollNothing, GateCloses, GateOpens, TurnCompletes, TurnThrows,
     ReserveSession, SuspendRun, FailClosed, AnnounceSucceeded, AnnounceFailed,
     AnnounceRetry, AnnounceSuspended, AnnounceRequested, AnnounceClosed, Announce,
     ReleaseReservation
<1>8. ASSUME NEW d \in Deciders, DecisionStep(d) \/ (\E q \in Requests : FindExpired(d, q))
      PROVE  request' = request
  BY <1>8 DEF DecisionStep, FindExpired, BeginContinuation, FailRun, AnnounceDecided,
     AnnounceResumed, AnnounceDenied, AnnounceDeniedFinish, ClickAnnounce, ReleaseAfterDenial
<1>9. ASSUME \/ \E s \in Sessions : Enqueue(s) \/ ReservationLapses(s)
             \/ \E r \in RunIds : Withdraw(r)
             \/ LeaseClock \/ Reap \/ UNCHANGED vars
      PROVE  request' = request
  BY <1>9 DEF Enqueue, ReservationLapses, Withdraw, LeaseClock, Reap, vars
<1> QED
  BY <1>1, <1>3, <1>4, <1>5, <1>6, <1>7, <1>8, <1>9 DEF Next, Environment, OpenClick

\* What a process says of the run it is through with.
Said ==
  [succeeded |-> "succeeded", failed |-> "execution_failed",
   closed |-> "approval_continuation_unavailable"]

\* Which event a step publishes.
LEMMA LogStep ==
  ASSUME Typed, AskInv, [Next]_vars
  PROVE  \/ log' = log
         \/ \E r \in RunIds, e \in LogEvent :
              /\ Publish(r, e) /\ rows' = rows /\ request' = request
              /\ \/ ~IsFinished(e) /\ e.of = "none"
                 \/ IsFinished(e) /\ \E p \in Workers, x \in DOMAIN Said :
                      At(p, x) /\ job[p].run = r /\ e.of = Said[x]
                 \/ IsFinished(e) /\ \E d \in Deciders :
                      ClickAt(d, "finish") /\ Asked(d).run = r /\ e.of = click[d].why
<1> DEFINE Goal ==
      \E r \in RunIds, e \in LogEvent :
              /\ Publish(r, e) /\ rows' = rows /\ request' = request
              /\ \/ ~IsFinished(e) /\ e.of = "none"
                 \/ IsFinished(e) /\ \E p \in Workers, x \in DOMAIN Said :
                      At(p, x) /\ job[p].run = r /\ e.of = Said[x]
                 \/ IsFinished(e) /\ \E d \in Deciders :
                      ClickAt(d, "finish") /\ Asked(d).run = r /\ e.of = click[d].why
<1>0. /\ \A k \in Plain :
           Event(k) \in LogEvent /\ Event(k).of = "none" /\ ~IsFinished(Event(k))
      /\ \A o \in Outcomes :
           FinishedEvent(o) \in LogEvent /\ FinishedEvent(o).of = o /\ IsFinished(FinishedEvent(o))
  BY DEF Event, FinishedEvent, LogEvent, IsFinished, Plain
<1>1. ASSUME NEW p \in Workers, NEW e \in LogEvent,
             NEW x \in {"succeeded", "failed", "retrying", "suspended", "requested", "closed"},
             Announce(p, x, e),
             \/ ~IsFinished(e) /\ e.of = "none"
             \/ IsFinished(e) /\ x \in DOMAIN Said /\ e.of = Said[x]
      PROVE  Goal
  <2>1. job[p].run \in RunIds /\ Publish(job[p].run, e) /\ rows' = rows /\ request' = request
    BY <1>1, JobFields DEF Announce, At, Typed, storeVars
  <2> QED
    BY <1>1, <2>1 DEF Announce
<1>2. ASSUME NEW d \in Deciders, NEW e \in LogEvent,
             NEW x \in {"decided", "resumed", "denied", "finish"}, ClickAnnounce(d, x, e),
             \/ ~IsFinished(e) /\ e.of = "none"
             \/ IsFinished(e) /\ e.of = click[d].why /\ x = "finish"
      PROVE  Goal
  <2>1. Asked(d).run \in RunIds /\ Publish(Asked(d).run, e) /\ rows' = rows
        /\ request' = request
    BY <1>2, AskedFields DEF ClickAnnounce, ClickAt, storeVars
  <2> QED
    BY <1>2, <2>1 DEF ClickAnnounce
<1>3. ASSUME NEW p \in Workers, RunnerStep(p)
      PROVE  log' = log \/ Goal
  <2>1. CASE AnnounceSucceeded(p)
    BY <1>0, <1>1, <2>1 DEF AnnounceSucceeded, Outcomes, Said
  <2>2. CASE AnnounceFailed(p)
    BY <1>0, <1>1, <2>2 DEF AnnounceFailed, Outcomes, Said
  <2>3. CASE AnnounceRetry(p)
    BY <1>0, <1>1, <2>3 DEF AnnounceRetry, Plain, Outcomes
  <2>4. CASE AnnounceSuspended(p)
    BY <1>0, <1>1, <2>4 DEF AnnounceSuspended, Plain, Outcomes
  <2>5. CASE AnnounceRequested(p)
    BY <1>0, <1>1, <2>5 DEF AnnounceRequested, Plain, Outcomes
  <2>6. CASE AnnounceClosed(p)
    BY <1>0, <1>1, <2>6 DEF AnnounceClosed, Outcomes, Said
  <2>7. CASE Poll(p) \/ EndTurn(p) \/ ReserveSession(p) \/ SuspendRun(p) \/ FailClosed(p)
             \/ ReleaseReservation(p)
    BY <2>7 DEF Poll, EndTurn, PollContinuation, PollPastContinuation, PollFresh,
       PollNothing, GateCloses, GateOpens, TurnCompletes, TurnThrows, TurnPauses,
       ReserveSession, SuspendRun, FailClosed, ReleaseReservation
  <2> QED
    BY <1>3, <2>1, <2>2, <2>3, <2>4, <2>5, <2>6, <2>7 DEF RunnerStep, Settle
<1>4. ASSUME NEW d \in Deciders, OpenClick(d) \/ DecisionStep(d)
      PROVE  log' = log \/ Goal
  <2>1. CASE AnnounceDecided(d)
    BY <1>0, <1>2, <2>1 DEF AnnounceDecided, Plain, Outcomes
  <2>2. CASE AnnounceResumed(d)
    BY <1>0, <1>2, <2>2 DEF AnnounceResumed, Plain, Outcomes
  <2>3. CASE AnnounceDenied(d)
    BY <1>0, <1>2, <2>3 DEF AnnounceDenied, Plain, Outcomes
  <2>4. CASE AnnounceDeniedFinish(d)
    <3>1. click[d].why \in Outcomes
      BY <2>4, ClickFields DEF AnnounceDeniedFinish, ClickAnnounce, ClickAt, Typed, Outcomes
    <3> QED
      BY <1>0, <1>2, <2>4, <3>1 DEF AnnounceDeniedFinish
  <2>5. CASE OpenClick(d) \/ BeginContinuation(d) \/ FailRun(d) \/ ReleaseAfterDenial(d)
    BY <2>5 DEF OpenClick, Approve, Reject, FindExpired, BeginContinuation, FailRun,
                ReleaseAfterDenial
  <2> QED
    BY <1>4, <2>1, <2>2, <2>3, <2>4, <2>5 DEF DecisionStep
<1>5. ASSUME Environment \/ UNCHANGED vars
      PROVE  log' = log
  BY <1>5 DEF Environment, Enqueue, ReservationLapses, Withdraw, RequestFallsDue, Crash,
              LeaseClock, Reap, vars
<1> QED
  BY <1>3, <1>4, <1>5 DEF Next

-----------------------------------------------------------------------------
(* The course of a request.                                                *)

\* What was suspended stays so, and what was over, when every write is quiet.
LEMMA StaysPut ==
  ASSUME Typed, NEW q \in Requests, request[q] # NoRequest, request'[q].run = request[q].run,
         Quiet(request[q].run)
  PROVE  (Parked(q) => Parked(q)') /\ (Over(q) => Over(q)')
BY DEF Parked, Over, Quiet, MovesOn, IsTerminalTarget

\* Requests grow old or are lost; clicks go on or end.
Ages(q) ==
  \/ request'[q] = request[q]
  \/ /\ request[q] # NoRequest /\ request'[q] # NoRequest
     /\ request'[q].run = request[q].run
     /\ request[q].due => request'[q].due
     /\ request'[q].status \in {request[q].status, "lost"}
GoesOn(d) ==
  \/ click'[d].at = "idle"
  \/ /\ click'[d] = click[d]
     /\ request'[click[d].request].status = request[click[d].request].status
  \/ /\ click[d].at # "idle" /\ click'[d].at \notin {"begin", "fail"}
     /\ click'[d].request = click[d].request
AsksOn(p) ==
  Asking(p)' => Asking(p) /\ job'[p].request = job[p].request /\ job'[p].run = job[p].run

LEMMA NothingDecidedYet ==
  ASSUME Typed, AskInv, \A r \in RunIds : Quiet(r),
         \A q \in Requests : Ages(q), \A d \in Deciders : GoesOn(d),
         UNCHANGED <<shown, approved>>
  PROVE  RowsAsk' /\ OpenInv' /\ ClicksInv'
<1>0. shown' = shown /\ approved' = approved /\ shown \subseteq Requests
  BY DEF Typed
<1>1. \A q \in Requests : request[q] # NoRequest =>
        request'[q] # NoRequest /\ request'[q].run = request[q].run
  BY DEF Ages
<1>2. \A q \in Requests : request[q] # NoRequest =>
        (Parked(q) => Parked(q)') /\ (Over(q) => Over(q)')
  BY <1>1, StaysPut, RequestFields
<1>3. RowsAsk'
  <2> SUFFICES ASSUME NEW r \in RunIds, rows'[r] # NoRow,
                      rows'[r].pendingApproval # NoApproval
               PROVE  /\ rows'[r].pendingApproval.request \in shown
                      /\ request'[rows'[r].pendingApproval.request].run = r
    BY <1>0 DEF RowsAsk, Present
  <2>1. rows[r] # NoRow /\ rows'[r].pendingApproval = rows[r].pendingApproval
    BY DEF Quiet, MovesOn
  <2>2. rows[r].pendingApproval.request \in shown
        /\ request[rows[r].pendingApproval.request].run = r
    BY <2>1 DEF AskInv, RowsAsk, Present
  <2> QED
    BY <1>0, <1>1, <2>1, <2>2 DEF AskInv, UnseenInv
<1>4. OpenInv'
  BY <1>0, <1>2 DEF OpenInv, AskInv, UnseenInv, Ages
<1>5. ClicksInv'
  <2>1. ASSUME NEW d \in Deciders, click'[d].at \in {"begin", "fail"}
        PROVE  /\ click'[d] = click[d] /\ click[d].request \in shown
               /\ request'[click[d].request].status = request[click[d].request].status
               /\ request[click[d].request] # NoRequest
               /\ request[click[d].request].due => request'[click[d].request].due
    <3>1. click'[d] = click[d]
          /\ request'[click[d].request].status = request[click[d].request].status
      BY <2>1 DEF GoesOn
    <3>2. click[d].request \in shown
      BY <2>1, <3>1 DEF AskInv, ClicksInv
    <3>3. request[click[d].request] # NoRequest
      BY <3>2 DEF AskInv, UnseenInv
    <3> QED
      BY <1>0, <3>1, <3>2, <3>3 DEF Ages
  <2>2. ASSUME NEW d \in Deciders, NEW q, click'[d].at = "begin", q = click'[d].request
        PROVE  /\ q \in shown' /\ q \in approved' /\ request'[q].status = "approved"
               /\ Parked(q)'
               /\ \A e \in Deciders :
                    click'[e].at = "begin" /\ click'[e].request = q => e = d
    <3>1. /\ q \in shown /\ q \in approved /\ request[q].status = "approved" /\ Parked(q)
          /\ click'[d] = click[d]
      BY <2>1, <2>2 DEF AskInv, ClicksInv
    <3>2. \A e \in Deciders : click'[e].at = "begin" => click'[e] = click[e]
      BY <2>1
    <3>3. \A e \in Deciders : click[e].at = "begin" /\ click[e].request = q => e = d
      BY <2>2, <3>1 DEF AskInv, ClicksInv
    <3>4. Parked(q)' /\ request'[q].status = "approved"
      BY <1>0, <1>2, <2>1, <2>2, <3>1
    <3> QED
      BY <1>0, <2>2, <3>1, <3>2, <3>3, <3>4
  <2>3. ASSUME NEW d \in Deciders, NEW q, click'[d].at = "fail", q = click'[d].request
        PROVE  /\ q \in shown' /\ (Parked(q)' \/ Over(q)')
               /\ \/ request'[q].status = "rejected"
                  \/ request'[q].status = "pending" /\ request'[q].due
    <3>1. /\ q \in shown /\ (Parked(q) \/ Over(q))
          /\ \/ request[q].status = "rejected"
             \/ request[q].status = "pending" /\ request[q].due
          /\ click'[d] = click[d]
      BY <2>1, <2>3 DEF AskInv, ClicksInv
    <3> QED
      BY <1>0, <1>2, <2>1, <2>3, <3>1
  <2>4. \A d \in Deciders : click'[d].at # "idle" => click'[d].request \in shown'
    BY <1>0 DEF AskInv, ClicksInv, GoesOn
  <2> QED
    BY <2>2, <2>3, <2>4 DEF ClicksInv
<1> QED
  BY <1>3, <1>4, <1>5

LEMMA NothingDecided ==
  ASSUME Typed, AskInv, \A r \in RunIds : Quiet(r),
         \A q \in Requests : Ages(q), \A d \in Deciders : GoesOn(d),
         \A p \in Workers : AsksOn(p),
         UNCHANGED <<shown, approved, executed>>
  PROVE  AskInv'
<1>0. shown' = shown /\ approved' = approved /\ executed' = executed
  OBVIOUS
<1>1. \A q \in Requests : request[q] # NoRequest =>
        request'[q] # NoRequest /\ request'[q].run = request[q].run
  BY DEF Ages
<1>2. shown \subseteq Requests
  BY DEF Typed
<1>3. UnseenInv'
  <2>1. \A p \in Workers : Asking(p) => job[p].request \in Requests
    BY JobFields DEF Asking, Typed
  <2> QED
    BY <1>0, <1>1, <1>2, <2>1 DEF UnseenInv, AskInv, AsksOn
<1>4. NotYetRun'
  <2> SUFFICES ASSUME NEW r \in RunIds, rows'[r] # NoRow
               PROVE  LET q == rows'[r].pendingApproval.request
                      IN  /\ rows'[r].target = "awaiting_approval" => executed[q] = 0
                          /\ ContinuationClaimable(rows'[r]) => executed[q] = 0 /\ q \in approved
    BY <1>0 DEF NotYetRun, Present
  <2>1. rows'[r].target = "awaiting_approval" => rows'[r] = rows[r]
    BY DEF Quiet, MovesOn
  <2>2. ContinuationClaimable(rows'[r]) =>
          /\ rows[r] # NoRow /\ ContinuationClaimable(rows[r])
          /\ rows'[r].pendingApproval = rows[r].pendingApproval
    BY DEF Quiet, MovesOn, ContinuationClaimable
  <2> QED
    BY <2>1, <2>2 DEF AskInv, NotYetRun, Present
<1>5. OnlyApprovedCommandsRun'
  BY <1>0 DEF AskInv, OnlyApprovedCommandsRun
<1> QED
  BY <1>3, <1>4, <1>5, NothingDecidedYet DEF AskInv

\* Only a turn that pauses asks; the process keeps its request while it suspends.
LEMMA RunnerAsksOn ==
  ASSUME SP!Inv, Typed, HandsMatch, NEW p \in Workers, RunnerStep(p),
         ~\E q \in Requests, c \in Commands : TurnPauses(p, q, c)
  PROVE  \A v \in Workers : AsksOn(v)
<1> DEFINE j == job[p]
<1>0. Steps(p) /\ j \in Job
  BY RunnerMoves DEF Typed
<1>1. \A v \in Workers \ {p} : AsksOn(v)
  BY <1>0 DEF Steps, AsksOn, Asking, Typed
<1>2. ASSUME NEW x \in JobPlaces \ {"reserve", "suspend"}, Goto(p, x)
      PROVE  AsksOn(p)
  <2>1. job'[p] = [j EXCEPT !.at = x]
    BY <1>2 DEF Goto, Typed
  <2>2. job'[p].at = x
    BY <1>0, <2>1 DEF Job, Waiting, Executing, Pausing
  <2> QED
    BY <1>2, <2>2 DEF AsksOn, Asking
<1>3. ASSUME Rest(p)
      PROVE  AsksOn(p)
  BY <1>3, RestJob DEF AsksOn, Asking
<1>4. ASSUME AfterFinish(p)
      PROVE  AsksOn(p)
  BY <1>2, <1>3, <1>4 DEF AfterFinish, JobPlaces
<1>5. CASE PollContinuation(p)
  <2>1. PICK r \in RunIds, t \in Tokens : Takes(p, r, t)
    BY <1>5, ContinuationWrites DEF PollContinuation
  <2> QED
    BY <1>1, <1>5, <2>1, TakeSteps DEF PollContinuation, AsksOn, Asking
<1>6. CASE PollFresh(p)
  <2>1. PICK r \in RunIds, t \in Tokens : Takes(p, r, t)
    BY <1>6, ClaimWrites DEF PollFresh
  <2> QED
    BY <1>1, <1>6, <2>1, TakeSteps DEF PollFresh, AsksOn, Asking
<1>7. CASE ReserveSession(p)
  <2>1. j.at = "reserve" /\ Goto(p, "suspend")
    BY <1>7 DEF ReserveSession, At
  <2>2. j \in Pausing /\ j \in Phase("suspend") /\ "suspend" \in JobPlaces
    BY <1>0, <2>1, JobFields DEF Phase, JobPlaces
  <2> QED
    BY <1>1, <2>1, <2>2, GotoJob DEF AsksOn, Asking
<1>8. CASE PollPastContinuation(p) \/ GateOpens(p) \/ AnnounceSuspended(p) \/ SuspendRun(p)
           \/ FailClosed(p) \/ TurnThrows(p)
  <2>1. PICK x \in {"fresh", "turn", "requested", "suspended", "closed", "retrying", "failed"} :
          Goto(p, x)
    BY <1>8 DEF PollPastContinuation, GateOpens, AnnounceSuspended, SuspendRun, FailClosed,
                TurnThrows
  <2> QED
    BY <1>1, <1>2, <2>1 DEF JobPlaces
<1>9. CASE PollNothing(p) \/ GateCloses(p) \/ AnnounceRetry(p) \/ AnnounceRequested(p)
           \/ AnnounceClosed(p) \/ ReleaseReservation(p)
  BY <1>1, <1>3, <1>9 DEF PollNothing, GateCloses, AnnounceRetry, AnnounceRequested, AnnounceClosed,
                    ReleaseReservation
<1>10. CASE TurnCompletes(p) \/ AnnounceSucceeded(p) \/ AnnounceFailed(p)
  <2>1. Goto(p, "succeeded") \/ AfterFinish(p)
    BY <1>10 DEF TurnCompletes, AnnounceSucceeded, AnnounceFailed
  <2> QED
    BY <1>1, <1>2, <1>4, <2>1 DEF JobPlaces
<1> QED
  BY <1>5, <1>6, <1>7, <1>8, <1>9, <1>10 DEF RunnerStep, Poll, EndTurn, Settle

\* The steps of a process that leave every request as it was.
Plods(p) ==
  /\ RunnerStep(p)
  /\ ~PollContinuation(p) /\ ~SuspendRun(p)
  /\ ~\E q \in Requests, c \in Commands : TurnPauses(p, q, c)

LEMMA PlodsQuietly ==
  ASSUME SP!Inv, Typed, NEW p \in Workers, Plods(p)
  PROVE  /\ \A r \in RunIds : Quiet(r)
         /\ UNCHANGED <<request, shown, click, approved, executed>>
<1>1. CASE PollFresh(p)
  BY <1>1, QuietClaim DEF PollFresh
<1>2. CASE GateCloses(p) \/ TurnCompletes(p)
  BY <1>2, QuietEnd DEF GateCloses, TurnCompletes
<1>3. CASE TurnThrows(p)
  <2>1. "execution_failed" \in FailureReasons
    BY DEF FailureReasons
  <2> QED
    BY <1>3, <2>1, QuietEnd DEF TurnThrows
<1>4. CASE FailClosed(p)
  <2>1. "approval_continuation_unavailable" \in FailureReasons
    BY DEF FailureReasons
  <2> QED
    BY <1>4, <2>1, QuietEnd DEF FailClosed
<1>5. CASE \/ PollPastContinuation(p) \/ PollNothing(p) \/ GateOpens(p) \/ ReserveSession(p)
           \/ AnnounceSucceeded(p) \/ AnnounceFailed(p) \/ AnnounceRetry(p)
           \/ AnnounceSuspended(p) \/ AnnounceRequested(p) \/ AnnounceClosed(p)
           \/ ReleaseReservation(p)
  <2>1. rows' = rows
    BY <1>5 DEF PollPastContinuation, PollNothing, GateOpens, ReserveSession,
       AnnounceSucceeded, AnnounceFailed, AnnounceRetry, AnnounceSuspended,
       AnnounceRequested, AnnounceClosed, Announce, ReleaseReservation, storeVars
  <2>2. UNCHANGED <<request, shown, click, approved, executed>>
    BY <1>5 DEF PollPastContinuation, PollNothing, GateOpens, ReserveSession,
       AnnounceSucceeded, AnnounceFailed, AnnounceRetry, AnnounceSuspended,
       AnnounceRequested, AnnounceClosed, Announce, ReleaseReservation
  <2> QED
    BY <2>1, <2>2 DEF Quiet
<1> QED
  BY <1>1, <1>2, <1>3, <1>4, <1>5 DEF Plods, RunnerStep, Poll, EndTurn, Settle

LEMMA PlodAsk ==
  ASSUME SP!Inv, Typed, HandsMatch, AskInv, NEW p \in Workers, Plods(p)
  PROVE  AskInv'
<1>1. \A v \in Workers : AsksOn(v)
  BY RunnerAsksOn DEF Plods
<1>2. \A q \in Requests : Ages(q)
  BY PlodsQuietly DEF Ages
<1>3. \A d \in Deciders : GoesOn(d)
  BY PlodsQuietly DEF GoesOn
<1> QED
  BY <1>1, <1>2, <1>3, PlodsQuietly, NothingDecided

\* The lane takes the command of its own run: nobody has resumed it.
LEMMA ContinueAsk ==
  ASSUME SP!Inv, Typed, HandsMatch, AskInv, NEW p \in Workers, PollContinuation(p)
  PROVE  AskInv' /\ executed' \in [Requests -> {0, 1}]
<1>1. PICK r \in RunIds, t \in Tokens :
        /\ Takes(p, r, t) /\ ContinuationClaimable(rows[r])
        /\ rows' = [rows EXCEPT ![r] = ContinuationLeased(rows[r], t)]
  BY ContinuationWrites DEF PollContinuation
<1> DEFINE q == rows[r].pendingApproval.request
<1>2. /\ rows[r] # NoRow /\ rows[r] \in Row /\ rows[r].pendingApproval # NoApproval
      /\ r \in Present(rows) /\ q \in Requests
  BY <1>1, RowFacts, RowFields DEF Takes, ContinuationClaimable, Present
<1>3. q \in shown /\ request[q].run = r /\ executed[q] = 0 /\ q \in approved
  BY <1>1, <1>2 DEF AskInv, RowsAsk, NotYetRun
<1>4. handle'[p].run = r
  BY <1>1, TakeSteps DEF PollContinuation
<1>5. executed' = [executed EXCEPT ![q] = 1]
  <2>1. rows'[r].pendingApproval = rows[r].pendingApproval
    BY <1>1, <1>2, RowFacts DEF ContinuationLeased, Row
  <2>2. executed' = [executed EXCEPT ![q] = executed[q] + 1]
    BY <1>4, QuietClaim, <2>1 DEF PollContinuation
  <2> QED
    BY <1>3, <2>2
<1> HIDE DEF q
<1>6. /\ request' = request /\ shown' = shown /\ approved' = approved /\ click' = click
      /\ executed \in [Requests -> {0, 1}]
  BY DEF PollContinuation, Typed
<1>7. \A o \in RunIds : Quiet(o)
  BY QuietClaim DEF PollContinuation
<1>8. RowsAsk' /\ OpenInv' /\ ClicksInv'
  <2>1. \A i \in Requests : Ages(i)
    BY <1>6 DEF Ages
  <2>2. \A d \in Deciders : GoesOn(d)
    BY <1>6 DEF GoesOn
  <2> QED
    BY <1>6, <1>7, <2>1, <2>2, NothingDecidedYet
<1>9. UnseenInv'
  <2>1. \A v \in Workers : AsksOn(v)
    BY RunnerAsksOn DEF PollContinuation, RunnerStep, Poll, TurnPauses, At
  <2> QED
    BY <1>3, <1>5, <1>6, <2>1 DEF AskInv, UnseenInv, AsksOn
<1>10. NotYetRun'
  <2> SUFFICES ASSUME NEW o \in RunIds, rows'[o] # NoRow
               PROVE  LET i == rows'[o].pendingApproval.request
                      IN  /\ rows'[o].target = "awaiting_approval" => executed'[i] = 0
                          /\ ContinuationClaimable(rows'[o]) =>
                               executed'[i] = 0 /\ i \in approved
    BY <1>6 DEF NotYetRun, Present
  <2>1. CASE o = r
    <3>1. Fresh(t) # NoLease
      BY CountsAssumption, AbsenceAssumption DEF Fresh, Lease
    <3>2. rows'[o].target = "running" /\ rows'[o].lease # NoLease
      BY <1>1, <1>2, <2>1, <3>1, RowFacts
         DEF ContinuationLeased, ContinuationClaimable, Row
    <3> QED
      BY <3>2 DEF ContinuationClaimable
  <2>2. CASE o # r
    <3>1. rows'[o] = rows[o] /\ o \in Present(rows)
      BY <1>1, <2>2 DEF Present
    <3> DEFINE i == rows[o].pendingApproval.request
    <3>2. ASSUME rows[o].target = "awaiting_approval" \/ ContinuationClaimable(rows[o])
          PROVE  executed'[i] = executed[i]
      <4>1. rows[o].pendingApproval # NoApproval
        BY <3>1, <3>2, RowFacts DEF ContinuationClaimable, Present
      <4>2. i \in shown /\ request[i].run = o
        BY <3>1, <4>1 DEF AskInv, RowsAsk
      <4>3. i # q
        BY <1>3, <2>2, <4>2
      <4> QED
        BY <1>5, <1>6, <4>2, <4>3 DEF Typed
    <3> QED
      BY <3>1, <3>2 DEF AskInv, NotYetRun
  <2> QED
    BY <2>1, <2>2
<1>11. OnlyApprovedCommandsRun'
  BY <1>3, <1>5, <1>6 DEF AskInv, OnlyApprovedCommandsRun
<1>12. executed' \in [Requests -> {0, 1}]
  BY <1>5, <1>6
<1> QED
  BY <1>8, <1>9, <1>10, <1>11, <1>12 DEF AskInv

\* A new request is in the hands of the process that asks.
LEMMA PauseAsk ==
  ASSUME SP!Inv, Typed, HandsMatch, AskInv,
         NEW p \in Workers, NEW q \in Requests, NEW c \in Commands, TurnPauses(p, q, c)
  PROVE  AskInv'
<1>1. /\ request[q] = NoRequest /\ q \notin shown
      /\ \A i \in Requests \ {q} : request'[i] = request[i]
      /\ request'[q] # NoRequest /\ request'[q].run = job[p].run
  <2>1. request[q] = NoRequest /\ q \notin shown
    BY DEF TurnPauses, AskInv, UnseenInv
  <2>2. job[p].run \in RunIds /\ job[p].session \in Sessions
    BY JobFields DEF TurnPauses, At, Typed
  <2> DEFINE new == [status |-> "pending", due |-> FALSE, home |-> p, command |-> c,
                     run |-> job[p].run, session |-> job[p].session]
  <2>3. new \in ApprovalRequest /\ new.run = job[p].run
    BY <2>2 DEF ApprovalRequest
  <2>4. request' = [request EXCEPT ![q] = new]
    BY DEF TurnPauses
  <2> HIDE DEF new
  <2>5. request'[q] = new /\ \A i \in Requests \ {q} : request'[i] = request[i]
    BY <2>4 DEF Typed
  <2> QED
    BY <2>1, <2>3, <2>5, RequestAssumption
<1>2. /\ rows' = rows /\ shown' = shown /\ approved' = approved /\ executed' = executed
      /\ click' = click
  BY DEF TurnPauses, storeVars
<1>3. /\ job'[p].at = "reserve" /\ job'[p].run = job[p].run /\ job'[p].request = q
      /\ \A v \in Workers \ {p} : job'[v] = job[v]
  BY DEF TurnPauses, Typed
<1>4. shown \subseteq Requests
  BY DEF Typed
<1>5. UnseenInv'
  <2>1. \A v \in Workers \ {p} : Asking(v) => job[v].request # q
    BY <1>1 DEF AskInv, UnseenInv
  <2>2. \A v \in Workers : Asking(v) => job[v].request \in Requests
    BY JobFields DEF Asking, Typed
  <2>3. \A i \in shown' : request'[i] # NoRequest
    BY <1>1, <1>2, <1>4 DEF AskInv, UnseenInv
  <2>4. \A i \in Requests \ shown' : executed'[i] = 0
    BY <1>2 DEF AskInv, UnseenInv
  <2>5. Asking(p)' /\ \A v \in Workers \ {p} : Asking(v)' <=> Asking(v)
    BY <1>3 DEF Asking
  <2>6. ASSUME NEW v \in Workers, Asking(v)'
        PROVE  /\ job'[v].request \notin shown' /\ request'[job'[v].request] # NoRequest
               /\ request'[job'[v].request].run = job'[v].run
               /\ \A u \in Workers : Asking(u)' /\ job'[u].request = job'[v].request => u = v
    <3>1. CASE v = p
      BY <1>1, <1>2, <1>3, <2>1, <2>5, <3>1
    <3>2. CASE v # p
      <4>1. Asking(v) /\ job'[v] = job[v]
        BY <1>3, <2>5, <2>6, <3>2
      <4>2. /\ job[v].request \notin shown /\ request[job[v].request] # NoRequest
            /\ request[job[v].request].run = job[v].run
            /\ \A u \in Workers : Asking(u) /\ job[u].request = job[v].request => u = v
        BY <4>1 DEF AskInv, UnseenInv
      <4>3. request'[job[v].request] = request[job[v].request] /\ job[v].request # q
        BY <1>1, <2>1, <2>2, <3>2, <4>1
      <4> QED
        BY <1>2, <1>3, <2>5, <4>1, <4>2, <4>3
    <3> QED
      BY <3>1, <3>2
  <2> QED
    BY <2>3, <2>4, <2>6 DEF UnseenInv
<1>6. \A i \in shown : request'[i] = request[i]
  BY <1>1, <1>4
<1>7. RowsAsk'
  BY <1>2, <1>6 DEF AskInv, RowsAsk, Present
<1>8. NotYetRun'
  BY <1>2 DEF AskInv, NotYetRun, Present
<1>9. \A i \in shown : (Parked(i)' <=> Parked(i)) /\ (Over(i)' <=> Over(i))
  BY <1>2, <1>6 DEF Parked, Over
<1>10. OpenInv'
  BY <1>2, <1>6, <1>9 DEF AskInv, OpenInv
<1>11. ClicksInv'
  <2>1. \A d \in Deciders : click[d].at # "idle" => click[d].request \in shown
    BY DEF AskInv, ClicksInv
  <2>2. \A d \in Deciders, i \in shown : click[d].request = i =>
          (Parked(i)' <=> Parked(click[d].request)) /\ (Over(i)' <=> Over(click[d].request))
    BY <1>9
  <2> QED
    BY <1>2, <1>6, <1>9, <2>1, <2>2 DEF AskInv, ClicksInv, Parked, Over
<1>12. OnlyApprovedCommandsRun'
  BY <1>2 DEF AskInv, OnlyApprovedCommandsRun
<1> QED
  BY <1>5, <1>7, <1>8, <1>10, <1>11, <1>12 DEF AskInv

\* A run is suspended on the request its process asks, the only one it waits for.
LEMMA SuspendAsk ==
  ASSUME SP!Inv, Typed, HandsMatch, AskInv, NEW p \in Workers, SuspendRun(p)
  PROVE  AskInv'
<1>0. job[p].at = "suspend"
  BY DEF SuspendRun, At
<1>1. PICK q \in Requests, r \in RunIds : q = job[p].request /\ r = job[p].run
  BY <1>0, JobFields DEF Typed
<1> DEFINE a == [request |-> q, command |-> request[q].command]
<1>2. /\ q \notin shown /\ request[q] # NoRequest /\ request[q].run = r
      /\ Store!SuspendForApproval(p, a) /\ Goto(p, "suspended")
      /\ \A v \in Workers : Asking(v) /\ job[v].request = q => v = p
  BY <1>0, <1>1 DEF AskInv, UnseenInv, Asking, SuspendRun
<1>3. a \in Approval /\ a # NoApproval /\ a.request = q
  BY <1>2, RequestFields, AbsenceAssumption DEF Approval
<1> HIDE DEF a
<1>4. handle[p].run = r
  BY <1>1, <1>2, <1>3, SuspendWrites DEF HandsMatch, Store!Owns
<1>5. rows[r] # NoRow /\ rows[r].target = "running"
  BY <1>2, <1>3, <1>4, SuspendWrites, OwnedRow
<1>6. PICK new \in Row : /\ rows' = [rows EXCEPT ![r] = new]
                         /\ new.target = "awaiting_approval" /\ new.pendingApproval = a
  BY <1>2, <1>3, <1>4, SuspendWrites DEF Alone
<1>7. /\ rows'[r] = new /\ new # NoRow
      /\ \A o \in RunIds \ {r} : rows'[o] = rows[o]
  BY <1>6, RowFacts, NoRowAssumption
<1>8. /\ request' = request /\ shown' = shown \cup {q} /\ approved' = approved
      /\ executed' = executed /\ click' = click
  BY <1>1 DEF SuspendRun
<1>9. \A v \in Workers : AsksOn(v) /\ ~Asking(p)'
  <2>1. RunnerStep(p) /\ ~\E i \in Requests, c \in Commands : TurnPauses(p, i, c)
    BY <1>0 DEF SuspendRun, RunnerStep, Settle, TurnPauses, At
  <2>2. "suspended" \in JobPlaces /\ job[p] \in Phase("suspended")
    BY <1>0, JobFields DEF JobPlaces, Phase, Typed
  <2>3. job'[p].at = "suspended"
    BY <1>2, <2>2, GotoJob
  <2> QED
    BY <2>1, <2>3, RunnerAsksOn DEF Asking
<1>10. UnseenInv'
  <2>1. \A v \in Workers : Asking(v)' => v # p /\ Asking(v) /\ job[v].request # q
    BY <1>1, <1>2, <1>9 DEF AsksOn
  <2> QED
    BY <1>2, <1>8, <1>9, <2>1 DEF AskInv, UnseenInv, AsksOn
<1>11. RowsAsk'
  <2> SUFFICES ASSUME NEW o \in RunIds, rows'[o] # NoRow, rows'[o].pendingApproval # NoApproval
               PROVE  /\ rows'[o].pendingApproval.request \in shown'
                      /\ request[rows'[o].pendingApproval.request].run = o
    BY <1>8 DEF RowsAsk, Present
  <2>1. CASE o = r
    BY <1>2, <1>3, <1>6, <1>7, <1>8, <2>1
  <2>2. CASE o # r
    BY <1>7, <1>8, <2>2 DEF AskInv, RowsAsk, Present
  <2> QED
    BY <2>1, <2>2
<1>12. NotYetRun'
  <2> SUFFICES ASSUME NEW o \in RunIds, rows'[o] # NoRow
               PROVE  LET i == rows'[o].pendingApproval.request
                      IN  /\ rows'[o].target = "awaiting_approval" => executed[i] = 0
                          /\ ContinuationClaimable(rows'[o]) =>
                               executed[i] = 0 /\ i \in approved
    BY <1>8 DEF NotYetRun, Present
  <2>1. CASE o = r
    <3>1. executed[q] = 0
      BY <1>2 DEF AskInv, UnseenInv
    <3> QED
      BY <1>3, <1>6, <1>7, <2>1, <3>1 DEF ContinuationClaimable
  <2>2. CASE o # r
    BY <1>7, <2>2 DEF AskInv, NotYetRun, Present
  <2> QED
    BY <2>1, <2>2
<1>13. ASSUME NEW i \in shown
       PROVE  /\ i # q /\ i \in Requests
              /\ Parked(i) => Parked(i)'
              /\ Over(i) => Over(i)'
  <2>1. i # q /\ i \in Requests /\ request[i] # NoRequest /\ request[i].run \in RunIds
    BY <1>2, <1>13, RequestFields DEF AskInv, UnseenInv, Typed
  <2>2. Parked(i) \/ Over(i) => request[i].run # r
    BY <1>5 DEF Parked, Over, IsTerminalTarget
  <2> QED
    BY <1>7, <1>8, <2>1, <2>2 DEF Parked, Over
<1>14. OpenInv'
  <2>1. Parked(q)'
    BY <1>2, <1>3, <1>6, <1>7, <1>8 DEF Parked
  <2> SUFFICES ASSUME NEW i \in shown', request[i].status = "pending"
               PROVE  Parked(i)' \/ (request[i].due /\ Over(i)')
    BY <1>8 DEF OpenInv
  <2> QED
    BY <1>8, <1>13, <2>1 DEF AskInv, OpenInv
<1>15. ClicksInv'
  <2>1. ASSUME NEW d \in Deciders, NEW i, i = click[d].request, click[d].at = "begin"
        PROVE  /\ i \in shown /\ i \in approved /\ request[i].status = "approved" /\ Parked(i)'
               /\ \A e \in Deciders : click[e].at = "begin" /\ click[e].request = i => e = d
    BY <1>13, <2>1 DEF AskInv, ClicksInv
  <2>2. ASSUME NEW d \in Deciders, NEW i, i = click[d].request, click[d].at = "fail"
        PROVE  /\ i \in shown /\ (Parked(i)' \/ Over(i)')
               /\ \/ request[i].status = "rejected"
                  \/ request[i].status = "pending" /\ request[i].due
    BY <1>13, <2>2 DEF AskInv, ClicksInv
  <2>3. \A d \in Deciders : click[d].at # "idle" => click[d].request \in shown
    BY DEF AskInv, ClicksInv
  <2> QED
    BY <1>8, <2>1, <2>2, <2>3 DEF ClicksInv
<1>16. OnlyApprovedCommandsRun'
  BY <1>8 DEF AskInv, OnlyApprovedCommandsRun
<1> QED
  BY <1>10, <1>11, <1>12, <1>14, <1>15, <1>16 DEF AskInv

\* A click opens on a request that was shown; it decides it, or finds it due.
LEMMA OpenAsk ==
  ASSUME SP!Inv, Typed, AskInv, NEW d \in Deciders, OpenClick(d)
  PROVE  AskInv'
<1>1. PICK q \in Requests : Approve(d, q) \/ Reject(d, q) \/ FindExpired(d, q)
  BY DEF OpenClick
<1>2. /\ q \in shown /\ request[q] # NoRequest /\ request[q] \in ApprovalRequest
      /\ request[q].status = "pending" /\ click[d].at = "idle" /\ click \in [Deciders -> Click]
      /\ request \in [Requests -> ApprovalRequest \cup {NoRequest}]
  BY <1>1, RequestFields DEF Approve, Reject, FindExpired, Opens, Undecided, ClickAt, Typed
<1>3. /\ rows' = rows /\ shown' = shown /\ executed' = executed /\ job' = job
      /\ approved \subseteq approved'
  BY <1>1 DEF Approve, Reject, FindExpired, storeVars
<1>4. \A e \in Deciders \ {d} : click'[e] = click[e]
  BY <1>1, <1>2 DEF Approve, Reject, FindExpired
<1>5. /\ \A i \in Requests \ {q} : request'[i] = request[i]
      /\ request'[q] # NoRequest /\ request'[q].run = request[q].run
      /\ Approve(d, q) => request'[q].status = "approved"
      /\ Reject(d, q) => request'[q].status = "rejected"
      /\ FindExpired(d, q) => request'[q] = request[q]
  <2>1. ASSUME NEW x \in {"approved", "rejected"},
               request' = [request EXCEPT ![q] = [request[q] EXCEPT !.status = x]]
        PROVE  /\ \A i \in Requests \ {q} : request'[i] = request[i]
               /\ request'[q] # NoRequest /\ request'[q].run = request[q].run
               /\ request'[q].status = x
    <3> DEFINE new == [request[q] EXCEPT !.status = x]
    <3>1. new \in ApprovalRequest /\ new.run = request[q].run /\ new.status = x
      BY <1>2 DEF ApprovalRequest
    <3>2. request' = [request EXCEPT ![q] = new]
      BY <2>1
    <3> HIDE DEF new
    <3> QED
      BY <1>2, <3>1, <3>2, RequestAssumption
  <2>2. CASE Approve(d, q)
    <3>1. request' = [request EXCEPT ![q] = [request[q] EXCEPT !.status = "approved"]]
          /\ click'[d].at = "begin"
      BY <1>2, <2>2 DEF Approve
    <3>2. ~Reject(d, q) /\ ~FindExpired(d, q)
      BY <1>2, <3>1 DEF Reject, FindExpired
    <3> QED
      BY <2>1, <3>1, <3>2
  <2>3. CASE Reject(d, q)
    <3>1. request' = [request EXCEPT ![q] = [request[q] EXCEPT !.status = "rejected"]]
          /\ click'[d].at = "fail" /\ click'[d].why = "approval_denied"
      BY <1>2, <2>3 DEF Reject
    <3>2. ~Approve(d, q) /\ ~FindExpired(d, q)
      BY <1>2, <3>1 DEF Approve, FindExpired
    <3> QED
      BY <2>1, <3>1, <3>2
  <2>4. CASE FindExpired(d, q)
    <3>1. request' = request /\ click'[d].at = "fail" /\ click'[d].why = "approval_expired"
      BY <1>2, <2>4 DEF FindExpired
    <3>2. ~Approve(d, q) /\ ~Reject(d, q)
      BY <1>2, <3>1 DEF Approve, Reject
    <3> QED
      BY <1>2, <3>1, <3>2
  <2> QED
    BY <1>1, <2>2, <2>3, <2>4
<1>6. \A i \in Requests : request[i] # NoRequest =>
        /\ request'[i] # NoRequest /\ request'[i].run = request[i].run
        /\ Parked(i) => Parked(i)'
        /\ Over(i) => Over(i)'
  BY <1>3, <1>5 DEF Parked, Over
<1>7. \A i \in shown : i \in Requests /\ request[i] # NoRequest
  BY DEF AskInv, UnseenInv, Typed
<1>8. UnseenInv'
  <2>1. \A v \in Workers : Asking(v)' <=> Asking(v)
    BY <1>3 DEF Asking
  <2>2. \A v \in Workers : Asking(v) => job[v].request \in Requests
    BY JobFields DEF Asking, Typed
  <2> QED
    BY <1>3, <1>6, <1>7, <2>1, <2>2 DEF AskInv, UnseenInv
<1>9. RowsAsk'
  BY <1>3, <1>6, <1>7 DEF AskInv, RowsAsk, Present
<1>10. NotYetRun'
  BY <1>3 DEF AskInv, NotYetRun, Present
<1>11. OpenInv'
  BY <1>1, <1>2, <1>3, <1>5, <1>6, <1>7 DEF AskInv, OpenInv
<1>12. OnlyApprovedCommandsRun'
  BY <1>3 DEF AskInv, OnlyApprovedCommandsRun
<1>13. ASSUME NEW e \in Deciders \ {d}, NEW i, i = click[e].request
       PROVE  /\ click[e].at = "begin" =>
                   /\ i \in shown /\ i \in approved' /\ request'[i].status = "approved"
                   /\ Parked(i)' /\ i # q
                   /\ \A f \in Deciders \ {d} :
                        click[f].at = "begin" /\ click[f].request = i => f = e
              /\ click[e].at = "fail" =>
                   /\ i \in shown /\ (Parked(i)' \/ Over(i)')
                   /\ \/ request'[i].status = "rejected"
                      \/ request'[i].status = "pending" /\ request'[i].due
  <2>1. CASE click[e].at = "begin"
    BY <1>2, <1>3, <1>5, <1>6, <1>7, <1>13, <2>1 DEF AskInv, ClicksInv
  <2>2. CASE click[e].at = "fail"
    <3>1. /\ i \in shown /\ (Parked(i) \/ Over(i))
          /\ \/ request[i].status = "rejected"
             \/ request[i].status = "pending" /\ request[i].due
      BY <1>13, <2>2 DEF AskInv, ClicksInv
    <3>2. i # q \/ FindExpired(d, q)
      BY <1>1, <1>2, <3>1 DEF Approve, Reject, Undecided
    <3> QED
      BY <1>5, <1>6, <1>7, <2>2, <3>1, <3>2
  <2> QED
    BY <2>1, <2>2
<1>14. /\ click'[d].request = q /\ click'[d].at \in {"begin", "fail"}
       /\ click'[d].at = "begin" =>
            q \in approved' /\ request'[q].status = "approved" /\ Parked(q)'
       /\ click'[d].at = "fail" =>
            /\ Parked(q)' \/ Over(q)'
            /\ \/ request'[q].status = "rejected"
               \/ request'[q].status = "pending" /\ request'[q].due
  <2>1. Parked(q) \/ (request[q].due /\ Over(q))
    BY <1>2 DEF AskInv, OpenInv
  <2>2. CASE Approve(d, q)
    BY <1>2, <1>5, <1>6, <2>1, <2>2 DEF Approve, Undecided
  <2>3. CASE Reject(d, q)
    BY <1>2, <1>5, <1>6, <2>1, <2>3 DEF Reject, Undecided
  <2>4. CASE FindExpired(d, q)
    BY <1>2, <1>5, <1>6, <2>1, <2>4 DEF FindExpired
  <2> QED
    BY <1>1, <2>2, <2>3, <2>4
<1>15. ClicksInv'
  <2>1. \A e \in Deciders \ {d} : click'[e].at = "begin" => click'[e].request # q
    BY <1>4, <1>13
  <2>2. ASSUME NEW e \in Deciders, NEW i, i = click'[e].request, click'[e].at = "begin"
        PROVE  /\ i \in shown' /\ i \in approved' /\ request'[i].status = "approved"
               /\ Parked(i)'
               /\ \A f \in Deciders : click'[f].at = "begin" /\ click'[f].request = i => f = e
    <3>1. CASE e = d
      BY <1>2, <1>3, <1>14, <2>1, <2>2, <3>1
    <3>2. CASE e # d
      <4>1. click'[e] = click[e] /\ i # q
        BY <1>4, <2>1, <2>2, <3>2
      <4>2. /\ i \in shown /\ i \in approved' /\ request'[i].status = "approved" /\ Parked(i)'
            /\ \A f \in Deciders \ {d} :
                 click[f].at = "begin" /\ click[f].request = i => f = e
        BY <1>13, <2>2, <3>2, <4>1
      <4> QED
        BY <1>3, <1>4, <1>14, <4>1, <4>2
    <3> QED
      BY <3>1, <3>2
  <2>3. ASSUME NEW e \in Deciders, NEW i, i = click'[e].request, click'[e].at = "fail"
        PROVE  /\ i \in shown' /\ (Parked(i)' \/ Over(i)')
               /\ \/ request'[i].status = "rejected"
                  \/ request'[i].status = "pending" /\ request'[i].due
    <3>1. CASE e = d
      BY <1>2, <1>3, <1>14, <2>3, <3>1
    <3>2. CASE e # d
      BY <1>3, <1>4, <1>13, <2>3, <3>2
    <3> QED
      BY <3>1, <3>2
  <2>4. \A e \in Deciders : click'[e].at # "idle" => click'[e].request \in shown'
    BY <1>2, <1>3, <1>4, <1>14 DEF AskInv, ClicksInv
  <2> QED
    BY <2>2, <2>3, <2>4 DEF ClicksInv
<1> QED
  BY <1>8, <1>9, <1>10, <1>11, <1>12, <1>15 DEF AskInv

\* A click goes on with its request.
LEMMA GotoClick ==
  ASSUME Typed, NEW d \in Deciders, NEW x \in ClickPlaces, ClickGoto(d, x),
         \/ click[d] \in Approving /\ x \in {"decided", "resumed"}
         \/ click[d] \in Denying /\ x \in {"denied", "finish", "release"}
  PROVE  /\ click' = [click EXCEPT ![d] = click'[d]] /\ click'[d] \in Click
         /\ click'[d].at = x /\ click'[d].request = click[d].request
         /\ click[d] \in Denying => click'[d].why = click[d].why
<1>1. click'[d] = [click[d] EXCEPT !.at = x] /\ click' = [click EXCEPT ![d] = click'[d]]
  BY DEF Typed, ClickGoto
<1>2. CASE click[d] \in Approving /\ x \in {"decided", "resumed"}
  BY <1>1, <1>2 DEF Approving, Click, Denying
<1>3. CASE click[d] \in Denying /\ x \in {"denied", "finish", "release"}
  BY <1>1, <1>3 DEF Denying, Click
<1> QED
  BY <1>2, <1>3

LEMMA RestClick ==
  ASSUME Typed, NEW d \in Deciders, ClickRest(d)
  PROVE  /\ click' = [click EXCEPT ![d] = click'[d]] /\ click'[d] \in Click
         /\ click'[d].at = "idle"
BY DEF Typed, ClickRest, IdleClick, Click

\* The events and the release that follow a decision.
ClickTells(d) ==
  \/ AnnounceDecided(d) \/ AnnounceResumed(d) \/ AnnounceDenied(d)
  \/ AnnounceDeniedFinish(d) \/ ReleaseAfterDenial(d)

LEMMA TellsOn ==
  ASSUME Typed, NEW d \in Deciders, ClickTells(d)
  PROVE  /\ click' = [click EXCEPT ![d] = click'[d]] /\ click'[d] \in Click
         /\ \/ click'[d].at = "idle"
            \/ /\ click[d].at # "idle" /\ click'[d].at \in {"resumed", "finish", "release"}
               /\ click'[d].request = click[d].request
         /\ click'[d].at = "finish" =>
              click[d].at = "denied" /\ click'[d].why = click[d].why
         /\ UNCHANGED <<rows, handle, sweep, job, request, shown, approved, executed, faults>>
<1>1. CASE AnnounceDecided(d)
  <2>1. click[d] \in Approving /\ ClickGoto(d, "resumed") /\ "resumed" \in ClickPlaces
        /\ click[d].at # "idle"
    BY <1>1, ClickFields
       DEF AnnounceDecided, ClickAnnounce, ClickAt, Typed, ClickPlaces
  <2>2. UNCHANGED <<rows, handle, sweep, job, request, shown, approved, executed, faults>>
    BY <1>1 DEF AnnounceDecided, ClickAnnounce, storeVars
  <2> QED
    BY <2>1, <2>2, GotoClick
<1>2. CASE AnnounceResumed(d) \/ ReleaseAfterDenial(d)
  <2>1. UNCHANGED <<rows, handle, sweep, job, request, shown, approved, executed, faults>>
    BY <1>2 DEF AnnounceResumed, ClickAnnounce, ReleaseAfterDenial, storeVars
  <2> QED
    BY <1>2, <2>1, RestClick DEF AnnounceResumed, ReleaseAfterDenial
<1>3. CASE AnnounceDenied(d)
  <2>1. click[d] \in Denying /\ ClickGoto(d, "finish") /\ "finish" \in ClickPlaces
        /\ click[d].at = "denied"
    BY <1>3, ClickFields
       DEF AnnounceDenied, ClickAnnounce, ClickAt, Typed, ClickPlaces
  <2>2. UNCHANGED <<rows, handle, sweep, job, request, shown, approved, executed, faults>>
    BY <1>3 DEF AnnounceDenied, ClickAnnounce, storeVars
  <2> QED
    BY <2>1, <2>2, GotoClick
<1>4. CASE AnnounceDeniedFinish(d)
  <2>1. click[d] \in Denying /\ ClickGoto(d, "release") /\ "release" \in ClickPlaces
        /\ click[d].at # "idle"
    BY <1>4, ClickFields
       DEF AnnounceDeniedFinish, ClickAnnounce, ClickAt, Typed, ClickPlaces
  <2>2. UNCHANGED <<rows, handle, sweep, job, request, shown, approved, executed, faults>>
    BY <1>4 DEF AnnounceDeniedFinish, ClickAnnounce, storeVars
  <2> QED
    BY <2>1, <2>2, GotoClick
<1> QED
  BY <1>1, <1>2, <1>3, <1>4 DEF ClickTells

LEMMA TellAsk ==
  ASSUME SP!Inv, Typed, AskInv, NEW d \in Deciders, ClickTells(d)
  PROVE  AskInv'
<1>1. \A r \in RunIds : Quiet(r)
  BY TellsOn DEF Quiet
<1>2. \A q \in Requests : Ages(q)
  BY TellsOn DEF Ages
<1>3. \A e \in Deciders : GoesOn(e)
  <2>1. \A e \in Deciders \ {d} : click'[e] = click[e]
    BY TellsOn DEF Typed
  <2> QED
    BY <2>1, TellsOn DEF GoesOn
<1>4. \A p \in Workers : AsksOn(p)
  BY TellsOn DEF AsksOn, Asking
<1> QED
  BY <1>1, <1>2, <1>3, <1>4, TellsOn, NothingDecided

\* The clients, the clocks and the reaper.
LEMMA OthersAsk ==
  ASSUME SP!Inv, Typed, AskInv,
         \/ \E s \in Sessions : Enqueue(s) \/ ReservationLapses(s)
         \/ \E r \in RunIds : Withdraw(r)
         \/ \E q \in Requests : RequestFallsDue(q)
         \/ LeaseClock \/ Reap \/ UNCHANGED vars
  PROVE  AskInv'
<1>1. /\ job' = job /\ click' = click /\ shown' = shown /\ approved' = approved
      /\ executed' = executed
  BY DEF Enqueue, ReservationLapses, Withdraw, RequestFallsDue, LeaseClock, Reap, vars
<1>2. \A q \in Requests : Ages(q) /\ request'[q].status = request[q].status
  <2>1. ASSUME NEW q \in Requests, RequestFallsDue(q)
        PROVE  \A i \in Requests : Ages(i) /\ request'[i].status = request[i].status
    <3>1. request[q] \in ApprovalRequest /\ request[q] # NoRequest
      BY <2>1, RequestFields DEF RequestFallsDue
    <3> DEFINE new == [request[q] EXCEPT !.due = TRUE]
    <3>2. /\ new \in ApprovalRequest /\ new.run = request[q].run /\ new.due
          /\ new.status = request[q].status
      BY <3>1 DEF ApprovalRequest
    <3>3. request' = [request EXCEPT ![q] = new]
      BY <2>1 DEF RequestFallsDue
    <3> HIDE DEF new
    <3> QED
      BY <3>1, <3>2, <3>3, RequestAssumption DEF Ages, Typed
  <2>2. CASE request' = request
    BY <2>2 DEF Ages
  <2> QED
    BY <2>1, <2>2 DEF Enqueue, ReservationLapses, Withdraw, LeaseClock, Reap, vars
<1>3. \A r \in RunIds : Quiet(r)
  <2>1. CASE \/ \E s \in Sessions : Enqueue(s)
             \/ \E r \in RunIds : Withdraw(r)
             \/ LeaseClock
    BY <2>1, QuietRest DEF Enqueue, Withdraw, LeaseClock
  <2>2. CASE Reap
    BY <2>2, QuietSweep DEF Reap
  <2>3. CASE \/ \E s \in Sessions : ReservationLapses(s)
             \/ \E q \in Requests : RequestFallsDue(q)
             \/ UNCHANGED vars
    BY <2>3 DEF ReservationLapses, RequestFallsDue, vars, storeVars, Quiet
  <2> QED
    BY <2>1, <2>2, <2>3
<1>4. \A d \in Deciders : GoesOn(d)
  <2>1. \A d \in Deciders : click[d].at # "idle" => click[d].request \in Requests
    BY ClickFields DEF Typed
  <2> QED
    BY <1>1, <1>2, <2>1 DEF GoesOn
<1>5. \A p \in Workers : AsksOn(p)
  BY <1>1 DEF AsksOn, Asking
<1> QED
  BY <1>1, <1>2, <1>3, <1>4, <1>5, NothingDecided

\* A process that dies loses its requests and the clicks on them.
LEMMA CrashAsk ==
  ASSUME SP!Inv, Typed, HandsMatch, AskInv, NEW p \in Workers, Crash(p)
  PROVE  AskInv'
<1>1. /\ rows' = rows /\ shown' = shown /\ approved' = approved /\ executed' = executed
      /\ job' = [job EXCEPT ![p] = job'[p]] /\ job'[p].at = "idle"
  BY CrashMoves DEF Crash, Steps
<1>2. \A q \in Requests :
        /\ Ages(q)
        /\ q \notin Homeless(p) => request'[q] = request[q]
  <2> SUFFICES ASSUME NEW q \in Requests
               PROVE  Ages(q) /\ (q \notin Homeless(p) => request'[q] = request[q])
    OBVIOUS
  <2>1. CASE q \in Homeless(p)
    <3>1. request[q] \in ApprovalRequest /\ request[q] # NoRequest
      BY <2>1, RequestFields DEF Homeless
    <3> DEFINE new == [request[q] EXCEPT !.status = "lost"]
    <3>2. /\ new \in ApprovalRequest /\ new.run = request[q].run /\ new.due = request[q].due
          /\ new.status = "lost"
      BY <3>1 DEF ApprovalRequest
    <3>3. request'[q] = new
      BY <2>1 DEF Crash
    <3> HIDE DEF new
    <3> QED
      BY <2>1, <3>1, <3>2, <3>3, RequestAssumption DEF Ages
  <2>2. CASE q \notin Homeless(p)
    <3>1. request'[q] = request[q]
      BY <2>2 DEF Crash
    <3> QED
      BY <3>1 DEF Ages
  <2> QED
    BY <2>1, <2>2
<1>3. \A d \in Deciders : GoesOn(d)
  <2> SUFFICES ASSUME NEW d \in Deciders PROVE GoesOn(d)
    OBVIOUS
  <2>1. CASE d \in LostClicks(p)
    <3>1. click'[d].at = "idle"
      BY <2>1 DEF Crash, IdleClick
    <3> QED
      BY <3>1 DEF GoesOn
  <2>2. CASE d \notin LostClicks(p)
    <3>1. click'[d] = click[d]
      BY <2>2 DEF Crash
    <3>2. CASE click[d].at = "idle"
      BY <3>1, <3>2 DEF GoesOn
    <3>3. CASE click[d].at # "idle"
      <4>1. click[d].request \in Requests
        BY <3>3, ClickFields DEF Typed
      <4>2. click[d].request \notin Homeless(p)
        BY <2>2, <3>3 DEF LostClicks, IdleClick
      <4> QED
        BY <1>2, <3>1, <4>1, <4>2 DEF GoesOn
    <3> QED
      BY <3>2, <3>3
  <2> QED
    BY <2>1, <2>2
<1>4. \A v \in Workers : AsksOn(v)
  BY <1>1 DEF AsksOn, Asking, Typed
<1>5. \A r \in RunIds : Quiet(r)
  BY <1>1 DEF Quiet
<1> QED
  BY <1>1, <1>2, <1>3, <1>4, <1>5, NothingDecided

\* A decision that comes too late for its run changes nothing.
LEMMA LateAsk ==
  ASSUME SP!Inv, Typed, AskInv, NEW d \in Deciders, ClickRest(d),
         UNCHANGED <<rows, job, request, shown, approved, executed>>
  PROVE  AskInv'
<1>1. \A r \in RunIds : Quiet(r)
  BY DEF Quiet
<1>2. \A q \in Requests : Ages(q)
  BY DEF Ages
<1>3. \A e \in Deciders : GoesOn(e)
  BY RestClick DEF GoesOn, Typed
<1>4. \A p \in Workers : AsksOn(p)
  BY DEF AsksOn, Asking
<1> QED
  BY <1>1, <1>2, <1>3, <1>4, NothingDecided

\* A decision moves the run that is suspended on its request: what it leaves of
\* the invariant to show is what becomes of that run and of clicks on the request.
LEMMA MovedAsk ==
  ASSUME SP!Inv, Typed, AskInv, NEW d \in Deciders, NEW q \in shown, NEW new \in Row,
         Parked(q), rows' = [rows EXCEPT ![request[q].run] = new],
         new.target # "awaiting_approval",
         new.pendingApproval = rows[request[q].run].pendingApproval,
         ContinuationClaimable(new) => q \in approved,
         request[q].status = "pending"
           \/ (\E e \in Deciders : click[e].at = "fail" /\ click[e].request = q)
           => Over(q)' /\ (request[q].status = "pending" => request[q].due),
         click[d].at \in {"begin", "fail"}, click[d].request = q,
         click' = [click EXCEPT ![d] = click'[d]], click'[d].at \notin {"idle", "begin", "fail"},
         click'[d].request = q,
         \A e \in Deciders \ {d} : ~(click[e].at = "begin" /\ click[e].request = q),
         UNCHANGED <<job, request, shown, approved, executed>>
  PROVE  AskInv'
<1>0. /\ job' = job /\ request' = request /\ shown' = shown /\ approved' = approved
      /\ executed' = executed
  OBVIOUS
<1> DEFINE r == request[q].run
<1>1. /\ q \in Requests /\ request[q] # NoRequest /\ r \in RunIds /\ rows[r] # NoRow
      /\ rows[r].target = "awaiting_approval" /\ rows[r].pendingApproval.request = q
  BY RequestFields DEF AskInv, UnseenInv, Typed, Parked
<1>2. /\ rows'[r] = new /\ new # NoRow
      /\ \A o \in RunIds \ {r} : rows'[o] = rows[o]
  BY <1>1, RowFacts, NoRowAssumption
<1>3. executed[q] = 0
  BY <1>1 DEF AskInv, NotYetRun, Present
<1>4. ASSUME NEW i \in shown, i # q
      PROVE  (Parked(i) => Parked(i)') /\ (Over(i) => Over(i)')
  <2>1. request[i].run \in RunIds
    BY <1>4, RequestFields DEF AskInv, UnseenInv, Typed
  <2>2. Parked(i) \/ Over(i) => request[i].run # r
    BY <1>1, <1>4 DEF Parked, Over, IsTerminalTarget
  <2> QED
    BY <1>0, <1>2, <2>1, <2>2 DEF Parked, Over
<1>5. UnseenInv'
  BY <1>0 DEF AskInv, UnseenInv, Asking
<1>6. RowsAsk'
  <2> SUFFICES ASSUME NEW o \in RunIds, rows'[o] # NoRow, rows'[o].pendingApproval # NoApproval
               PROVE  /\ rows'[o].pendingApproval.request \in shown
                      /\ request[rows'[o].pendingApproval.request].run = o
    BY <1>0 DEF RowsAsk, Present
  <2>1. rows[o] # NoRow /\ rows'[o].pendingApproval = rows[o].pendingApproval
    BY <1>1, <1>2
  <2> QED
    BY <2>1 DEF AskInv, RowsAsk, Present
<1>7. NotYetRun'
  <2> SUFFICES ASSUME NEW o \in RunIds, rows'[o] # NoRow
               PROVE  LET i == rows'[o].pendingApproval.request
                      IN  /\ rows'[o].target = "awaiting_approval" => executed[i] = 0
                          /\ ContinuationClaimable(rows'[o]) =>
                               executed[i] = 0 /\ i \in approved
    BY <1>0 DEF NotYetRun, Present
  <2>1. CASE o = r
    BY <1>1, <1>2, <1>3, <2>1
  <2>2. CASE o # r
    BY <1>2, <2>2 DEF AskInv, NotYetRun, Present
  <2> QED
    BY <2>1, <2>2
<1>8. OpenInv'
  <2> SUFFICES ASSUME NEW i \in shown, request[i].status = "pending"
               PROVE  Parked(i)' \/ (request[i].due /\ Over(i)')
    BY <1>0 DEF OpenInv
  <2>1. CASE i = q
    BY <2>1
  <2>2. CASE i # q
    BY <1>4, <2>2 DEF AskInv, OpenInv
  <2> QED
    BY <2>1, <2>2
<1>9. ClicksInv'
  <2>1. ASSUME NEW e \in Deciders, NEW i, i = click'[e].request, click'[e].at = "begin"
        PROVE  /\ i \in shown /\ i \in approved /\ request[i].status = "approved" /\ Parked(i)'
               /\ \A f \in Deciders : click'[f].at = "begin" /\ click'[f].request = i => f = e
    <3>1. e # d /\ click'[e] = click[e] /\ i # q
      BY <2>1 DEF Typed
    <3>2. \A f \in Deciders : click'[f].at = "begin" => click'[f] = click[f]
      BY DEF Typed
    <3>3. /\ i \in shown /\ i \in approved /\ request[i].status = "approved" /\ Parked(i)
          /\ \A f \in Deciders : click[f].at = "begin" /\ click[f].request = i => f = e
      BY <2>1, <3>1 DEF AskInv, ClicksInv
    <3> QED
      BY <1>4, <3>1, <3>2, <3>3
  <2>2. ASSUME NEW e \in Deciders, NEW i, i = click'[e].request, click'[e].at = "fail"
        PROVE  /\ i \in shown /\ (Parked(i)' \/ Over(i)')
               /\ \/ request[i].status = "rejected"
                  \/ request[i].status = "pending" /\ request[i].due
    <3>1. e # d /\ click'[e] = click[e]
      BY <2>2 DEF Typed
    <3>2. /\ i \in shown /\ (Parked(i) \/ Over(i))
          /\ \/ request[i].status = "rejected"
             \/ request[i].status = "pending" /\ request[i].due
      BY <2>2, <3>1 DEF AskInv, ClicksInv
    <3>3. CASE i = q
      BY <2>2, <3>1, <3>2, <3>3
    <3>4. CASE i # q
      BY <1>4, <3>2, <3>4
    <3> QED
      BY <3>3, <3>4
  <2>3. \A e \in Deciders : click'[e].at # "idle" => click'[e].request \in shown
    BY DEF AskInv, ClicksInv, Typed
  <2> QED
    BY <1>0, <2>1, <2>2, <2>3 DEF ClicksInv
<1>10. OnlyApprovedCommandsRun'
  BY <1>0 DEF AskInv, OnlyApprovedCommandsRun
<1> QED
  BY <1>5, <1>6, <1>7, <1>8, <1>9, <1>10 DEF AskInv

LEMMA BeginAsk ==
  ASSUME SP!Inv, Typed, AskInv, NEW d \in Deciders, BeginContinuation(d)
  PROVE  AskInv'
<1> DEFINE q == click[d].request
<1>1. /\ click[d].at = "begin" /\ q \in shown /\ q \in approved
      /\ request[q].status = "approved" /\ Parked(q)
      /\ \A e \in Deciders : click[e].at = "begin" /\ click[e].request = q => e = d
      /\ Asked(d) = request[q] /\ Asked(d).run \in RunIds /\ Asked(d).command \in Commands
  BY AskedFields DEF BeginContinuation, ClickAt, AskInv, ClicksInv, Asked
<1>2. CASE MayBegin(d)
  <2>1. /\ Store!BeginContinuationAttempt(Asked(d).run, Asked(d).command)
        /\ ClickGoto(d, "decided") /\ UNCHANGED <<job, request, shown, approved, executed>>
    BY <1>2 DEF BeginContinuation
  <2> DEFINE new == Resumed(rows[request[q].run], Asked(d).command)
  <2>2. /\ new \in Row /\ new.target = "running"
        /\ new.pendingApproval = rows[request[q].run].pendingApproval
        /\ rows' = [rows EXCEPT ![request[q].run] = new]
    BY <1>1, <2>1, DecisionWrites DEF Alone
  <2>3. ~\E e \in Deciders : click[e].at = "fail" /\ click[e].request = q
    BY <1>1 DEF AskInv, ClicksInv
  <2>4. /\ click' = [click EXCEPT ![d] = click'[d]] /\ click'[d].at = "decided"
        /\ click'[d].request = q
    <3>1. click[d] \in Approving /\ "decided" \in ClickPlaces
      BY <1>1, ClickFields DEF Typed, ClickPlaces
    <3> QED
      BY <2>1, <3>1, GotoClick
  <2> HIDE DEF new
  <2> QED
    BY <1>1, <2>1, <2>2, <2>3, <2>4, MovedAsk
<1>3. CASE ~MayBegin(d)
  BY <1>3, LateAsk DEF BeginContinuation, storeVars
<1> QED
  BY <1>2, <1>3

LEMMA FailAsk ==
  ASSUME SP!Inv, Typed, AskInv, NEW d \in Deciders, FailRun(d)
  PROVE  AskInv'
<1> DEFINE q == click[d].request
<1>1. /\ click[d].at = "fail" /\ q \in shown /\ (Parked(q) \/ Over(q))
      /\ \/ request[q].status = "rejected"
         \/ request[q].status = "pending" /\ request[q].due
      /\ Asked(d) = request[q] /\ Asked(d).run \in RunIds
      /\ click[d] \in Denying /\ click[d].why \in {"approval_denied", "approval_expired"}
  BY AskedFields, ClickFields DEF FailRun, ClickAt, AskInv, ClicksInv, Asked, Typed
<1>2. CASE MayFail(d)
  <2>1. /\ Store!FailFromApproval(Asked(d).run, click[d].why)
        /\ ClickGoto(d, "denied") /\ UNCHANGED <<job, request, shown, approved, executed>>
    BY <1>2 DEF FailRun
  <2>2. Parked(q)
    BY <1>1, <1>2 DEF MayFail, Over, IsTerminalTarget
  <2> DEFINE new == FailedFromApproval(rows[request[q].run], click[d].why)
  <2>3. click[d].why \in FailureReasons
    BY <1>1 DEF FailureReasons
  <2>4. /\ new \in Row /\ new.target = "failed" /\ rows[request[q].run] # NoRow
        /\ rows' = [rows EXCEPT ![request[q].run] = new]
    BY <1>1, <2>1, <2>3, DecisionWrites DEF Alone
  <2>5. new.pendingApproval = rows[request[q].run].pendingApproval
    BY <1>1, <2>4, RowFacts DEF FailedFromApproval, Row
  <2>6. \A e \in Deciders : ~(click[e].at = "begin" /\ click[e].request = q)
    BY <1>1 DEF AskInv, ClicksInv
  <2>7. /\ click' = [click EXCEPT ![d] = click'[d]] /\ click'[d].at = "denied"
        /\ click'[d].request = q
    <3>1. "denied" \in ClickPlaces
      BY DEF ClickPlaces
    <3> QED
      BY <1>1, <2>1, <3>1, GotoClick
  <2>8. ~ContinuationClaimable(new)
    BY <2>4 DEF ContinuationClaimable
  <2> HIDE DEF new
  <2>9. \A i : i = q => Over(i)'
    BY <1>1, <2>1, <2>4, RowFacts, NoRowAssumption DEF Over, IsTerminalTarget
  <2>10. PICK i \in shown : i = q
    BY <1>1
  <2> QED
    BY <1>1, <2>1, <2>2, <2>4, <2>5, <2>6, <2>7, <2>8, <2>9, <2>10, MovedAsk
<1>3. CASE ~MayFail(d)
  BY <1>3, LateAsk DEF FailRun, storeVars
<1> QED
  BY <1>2, <1>3

LEMMA AskStep ==
  ASSUME SP!Inv, Typed, HandsMatch, AskInv, [Next]_vars
  PROVE  AskInv'
<1>1. ASSUME NEW p \in Workers, RunnerStep(p)
      PROVE  AskInv'
  BY <1>1, ContinueAsk, PauseAsk, SuspendAsk, PlodAsk DEF Plods
<1>2. ASSUME NEW d \in Deciders, DecisionStep(d)
      PROVE  AskInv'
  BY <1>2, BeginAsk, FailAsk, TellAsk DEF DecisionStep, ClickTells
<1> QED
  BY <1>1, <1>2, OpenAsk, OthersAsk, CrashAsk DEF Next, Environment

-----------------------------------------------------------------------------
(* The types of the rest.                                                  *)

Shelf == [Sessions -> RunIds \cup {NoRun}]

LEMMA ReservationWrites ==
  ASSUME Typed, NEW s \in Sessions, NEW r \in RunIds, Reserve(s, r) \/ Release(s, r)
  PROVE  reservation' \in Shelf
BY DEF Typed, Reserve, Release, Shelf

LEMMA RunnerTypes ==
  ASSUME SP!Inv, Typed, HandsMatch, AskInv, NEW p \in Workers, RunnerStep(p)
  PROVE  /\ shown' \subseteq Requests /\ reservation' \in Shelf
         /\ click' = click /\ faults' = faults /\ approved' = approved
         /\ executed' \in [Requests -> {0, 1}]
<1>0. /\ reservation \in Shelf /\ shown \subseteq Requests /\ executed \in [Requests -> {0, 1}]
      /\ job[p] \in Job
  BY DEF Typed, Shelf
<1>1. CASE PollContinuation(p)
  BY <1>0, <1>1, ContinueAsk DEF PollContinuation
<1>2. CASE SuspendRun(p)
  BY <1>0, <1>2, JobFields DEF SuspendRun, At
<1>3. CASE ReserveSession(p) \/ ReleaseReservation(p)
  <2>1. job[p].run \in RunIds /\ job[p].session \in Sessions
    BY <1>0, <1>3, JobFields DEF ReserveSession, ReleaseReservation, At
  <2>2. reservation' \in Shelf
    BY <1>3, <2>1, ReservationWrites DEF ReserveSession, ReleaseReservation
  <2> QED
    BY <1>0, <1>3, <2>2 DEF ReserveSession, ReleaseReservation
<1>4. CASE \E q \in Requests, c \in Commands : TurnPauses(p, q, c)
  BY <1>0, <1>4 DEF TurnPauses
<1>5. CASE \/ PollPastContinuation(p) \/ PollNothing(p) \/ GateOpens(p) \/ PollFresh(p)
           \/ GateCloses(p) \/ TurnCompletes(p) \/ TurnThrows(p) \/ FailClosed(p)
  BY <1>0, <1>5 DEF PollPastContinuation, PollNothing, GateOpens, PollFresh, GateCloses,
     TurnCompletes, TurnThrows, FailClosed
<1>6. CASE \/ AnnounceSucceeded(p) \/ AnnounceFailed(p) \/ AnnounceRetry(p)
           \/ AnnounceSuspended(p) \/ AnnounceRequested(p) \/ AnnounceClosed(p)
  BY <1>0, <1>6 DEF AnnounceSucceeded, AnnounceFailed, AnnounceRetry,
     AnnounceSuspended, AnnounceRequested, AnnounceClosed, Announce
<1> QED
  BY <1>1, <1>2, <1>3, <1>4, <1>5, <1>6 DEF RunnerStep, Poll, EndTurn, Settle

\* What a decision makes of its click.
LEMMA DecisionTypes ==
  ASSUME SP!Inv, Typed, AskInv, NEW d \in Deciders, OpenClick(d) \/ DecisionStep(d)
  PROVE  /\ shown' = shown /\ reservation' \in Shelf /\ faults' = faults
         /\ executed' = executed /\ approved' \subseteq Requests
         /\ click' = [click EXCEPT ![d] = click'[d]] /\ click'[d] \in Click
<1>0. reservation \in Shelf /\ approved \subseteq Requests /\ click \in [Deciders -> Click]
  BY DEF Typed, Shelf
<1>1. ASSUME NEW q \in Requests, Approve(d, q)
      PROVE  /\ shown' = shown /\ reservation' \in Shelf /\ faults' = faults
             /\ executed' = executed /\ approved' \subseteq Requests
             /\ click' = [click EXCEPT ![d] = click'[d]] /\ click'[d] \in Click
  BY <1>0, <1>1 DEF Approve, Click, Approving
<1>2. ASSUME NEW q \in Requests, Reject(d, q)
      PROVE  /\ shown' = shown /\ reservation' \in Shelf /\ faults' = faults
             /\ executed' = executed /\ approved' \subseteq Requests
             /\ click' = [click EXCEPT ![d] = click'[d]] /\ click'[d] \in Click
  BY <1>0, <1>2 DEF Reject, Click, Denying
<1>3. ASSUME NEW q \in Requests, FindExpired(d, q)
      PROVE  /\ shown' = shown /\ reservation' \in Shelf /\ faults' = faults
             /\ executed' = executed /\ approved' \subseteq Requests
             /\ click' = [click EXCEPT ![d] = click'[d]] /\ click'[d] \in Click
  BY <1>0, <1>3 DEF FindExpired, Click, Denying
<1>4. CASE BeginContinuation(d)
  <2>1. ClickGoto(d, "decided") \/ ClickRest(d)
    BY <1>4 DEF BeginContinuation
  <2>2. click[d] \in Approving /\ "decided" \in ClickPlaces
    BY <1>4, ClickFields DEF BeginContinuation, ClickAt, Typed, ClickPlaces
  <2>3. click' = [click EXCEPT ![d] = click'[d]] /\ click'[d] \in Click
    BY <2>1, <2>2, GotoClick, RestClick
  <2> QED
    BY <1>0, <1>4, <2>3 DEF BeginContinuation
<1>5. CASE FailRun(d)
  <2>1. ClickGoto(d, "denied") \/ ClickRest(d)
    BY <1>5 DEF FailRun
  <2>2. click[d] \in Denying /\ "denied" \in ClickPlaces
    BY <1>5, ClickFields DEF FailRun, ClickAt, Typed, ClickPlaces
  <2>3. click' = [click EXCEPT ![d] = click'[d]] /\ click'[d] \in Click
    BY <2>1, <2>2, GotoClick, RestClick
  <2> QED
    BY <1>0, <1>5, <2>3 DEF FailRun
<1>6. CASE ClickTells(d)
  <2>1. reservation' \in Shelf
    <3>1. CASE ReleaseAfterDenial(d)
      <4>1. Asked(d).run \in RunIds /\ Asked(d).session \in Sessions
        BY <3>1, AskedFields DEF ReleaseAfterDenial, ClickAt
      <4> QED
        BY <3>1, <4>1, ReservationWrites DEF ReleaseAfterDenial
    <3>2. CASE ~ReleaseAfterDenial(d)
      BY <1>0, <1>6, <3>2 DEF ClickTells, AnnounceDecided, AnnounceResumed, AnnounceDenied,
         AnnounceDeniedFinish, ClickAnnounce
    <3> QED
      BY <3>1, <3>2
  <2> QED
    BY <1>0, <1>6, <2>1, TellsOn
<1> QED
  BY <1>1, <1>2, <1>3, <1>4, <1>5, <1>6 DEF OpenClick, DecisionStep, ClickTells

LEMMA OthersTypes ==
  ASSUME Typed, Environment \/ UNCHANGED vars
  PROVE  /\ shown' = shown /\ approved' = approved /\ executed' = executed
         /\ reservation' \in Shelf /\ click' \in [Deciders -> Click]
         /\ faults' \in [lapses : 0..MaxLapses, crashes : 0..MaxCrashes]
<1>0. /\ reservation \in Shelf /\ click \in [Deciders -> Click]
      /\ faults \in [lapses : 0..MaxLapses, crashes : 0..MaxCrashes]
  BY DEF Typed, Shelf
<1>1. ASSUME NEW p \in Workers, Crash(p)
      PROVE  /\ shown' = shown /\ approved' = approved /\ executed' = executed
             /\ reservation' \in Shelf /\ click' \in [Deciders -> Click]
             /\ faults' \in [lapses : 0..MaxLapses, crashes : 0..MaxCrashes]
  <2>1. click' \in [Deciders -> Click]
    BY <1>0, <1>1 DEF Crash, IdleClick, Click
  <2>2. PICK n \in 0..MaxCrashes : n = faults.crashes + 1
    BY <1>0, <1>1, FaultsAssumption DEF Crash
  <2>3. faults' = [faults EXCEPT !.crashes = n]
    BY <1>1, <2>2 DEF Crash
  <2>4. faults' \in [lapses : 0..MaxLapses, crashes : 0..MaxCrashes]
    BY <1>0, <2>3
  <2> QED
    BY <1>0, <1>1, <2>1, <2>4 DEF Crash
<1>2. CASE LeaseClock
  <2>1. PICK n \in 0..MaxLapses : n = faults.lapses + 1
    BY <1>0, <1>2, FaultsAssumption DEF LeaseClock
  <2>2. faults' = [faults EXCEPT !.lapses = n]
    BY <1>2, <2>1 DEF LeaseClock
  <2>3. faults' \in [lapses : 0..MaxLapses, crashes : 0..MaxCrashes]
    BY <1>0, <2>2
  <2> QED
    BY <1>0, <1>2, <2>3 DEF LeaseClock
<1>3. ASSUME NEW s \in Sessions, ReservationLapses(s)
      PROVE  /\ shown' = shown /\ approved' = approved /\ executed' = executed
             /\ reservation' \in Shelf /\ click' \in [Deciders -> Click]
             /\ faults' \in [lapses : 0..MaxLapses, crashes : 0..MaxCrashes]
  BY <1>0, <1>3 DEF ReservationLapses, Shelf
<1>4. CASE \/ \E s \in Sessions : Enqueue(s)
           \/ \E r \in RunIds : Withdraw(r)
           \/ \E q \in Requests : RequestFallsDue(q)
           \/ Reap \/ UNCHANGED vars
  BY <1>0, <1>4 DEF Enqueue, Withdraw, RequestFallsDue, Reap, vars
<1> QED
  BY <1>1, <1>2, <1>3, <1>4 DEF Environment

LEMMA TypedStep ==
  ASSUME SP!Inv, Typed, HandsMatch, AskInv, [Next]_vars
  PROVE  Typed'
<1>1. job' \in [Workers -> Job]
  BY HandsStep
<1>2. request' \in [Requests -> ApprovalRequest \cup {NoRequest}]
  BY RequestStep
<1>3. log' \in [RunIds -> Seq(LogEvent)]
  <2>1. ASSUME NEW r \in RunIds, NEW e \in LogEvent, Publish(r, e)
        PROVE  log' \in [RunIds -> Seq(LogEvent)]
    <3>1. log \in [RunIds -> Seq(LogEvent)]
      BY DEF Typed
    <3>2. Append(log[r], e) \in Seq(LogEvent)
      BY <3>1
    <3> QED
      BY <2>1, <3>1, <3>2 DEF Publish
  <2>2. CASE log' = log
    BY <2>2 DEF Typed
  <2> QED
    BY <2>1, <2>2, LogStep
<1>4. /\ shown' \subseteq Requests /\ reservation' \in Shelf
      /\ click' \in [Deciders -> Click]
      /\ faults' \in [lapses : 0..MaxLapses, crashes : 0..MaxCrashes]
      /\ approved' \subseteq Requests /\ executed' \in [Requests -> {0, 1}]
  <2> DEFINE Goal == /\ shown' \subseteq Requests /\ reservation' \in Shelf
                     /\ click' \in [Deciders -> Click]
                     /\ faults' \in [lapses : 0..MaxLapses, crashes : 0..MaxCrashes]
                     /\ approved' \subseteq Requests /\ executed' \in [Requests -> {0, 1}]
  <2>1. ASSUME NEW p \in Workers, RunnerStep(p)
        PROVE  Goal
    BY <2>1, RunnerTypes DEF Typed
  <2>2. ASSUME NEW d \in Deciders, OpenClick(d) \/ DecisionStep(d)
        PROVE  Goal
    <3>1. click' \in [Deciders -> Click]
      BY <2>2, DecisionTypes DEF Typed
    <3> QED
      BY <2>2, <3>1, DecisionTypes DEF Typed
  <2>3. ASSUME Environment \/ UNCHANGED vars
        PROVE  Goal
    BY <2>3, OthersTypes DEF Typed
  <2> QED
    BY <2>1, <2>2, <2>3 DEF Next
<1> QED
  BY <1>1, <1>2, <1>3, <1>4 DEF Typed, Shelf

-----------------------------------------------------------------------------
(* Announcements.                                                          *)

LEMMA FinishedStays ==
  ASSUME SP!Inv, Typed, AskInv, [Next]_vars, NEW r \in RunIds, rows[r] # NoRow,
         IsTerminalTarget(rows[r])
  PROVE  rows'[r] = rows[r]
<1>1. r \in SP!RunIds /\ SP!IsTerminal(rows[r])
  BY DEF SP!RunIds, RunIds, SP!IsTerminal, SP!IsTerminalTarget, IsTerminalTarget
<1>2. SP!Next \/ rows' = rows
  BY StepOfStore DEF SP!vars
<1> QED
  BY <1>1, <1>2, SP!StepSparesFinished, StoreAssumptions, CountsAssumption

\* A process announces success only after it wrote it.
LEMMA SucceededJob ==
  ASSUME SP!Inv, Typed, HandsMatch, AskInv, [Next]_vars, NEW p \in Workers,
         job'[p].at = "succeeded"
  PROVE  \/ job'[p] = job[p]
         \/ /\ job'[p].run \in RunIds /\ rows'[job'[p].run] # NoRow
            /\ rows'[job'[p].run].target = "succeeded"
<1>1. ASSUME NEW v \in Workers, RunnerStep(v) \/ Crash(v), v # p
      PROVE  job'[p] = job[p]
  BY <1>1, RunnerMoves, CrashMoves DEF Steps, Typed
<1>2. CASE ~\E v \in Workers : RunnerStep(v) \/ Crash(v)
  BY <1>2, OthersMove
<1>3. CASE Crash(p)
  BY <1>3, CrashMoves
<1>4. CASE RunnerStep(p)
  <2>0. job[p] \in Job
    BY DEF Typed
  <2>1. ASSUME NEW x \in JobPlaces, x # "succeeded", Goto(p, x)
        PROVE  FALSE
    <3>1. job'[p] = [job[p] EXCEPT !.at = x]
      BY <2>1 DEF Goto, Typed
    <3> QED
      BY <2>0, <2>1, <3>1 DEF Job, Waiting, Executing, Pausing
  <2>2. ~Rest(p)
    BY RestJob
  <2>3. ~AfterFinish(p)
    BY <2>1, <2>2 DEF AfterFinish, JobPlaces
  <2>4. ~PollContinuation(p)
    <3> SUFFICES ASSUME PollContinuation(p) PROVE FALSE
      OBVIOUS
    <3>1. PICK r \in RunIds, t \in Tokens : Takes(p, r, t)
      BY ContinuationWrites DEF PollContinuation
    <3> QED
      BY <3>1, TakeSteps DEF PollContinuation
  <2>5. ~PollFresh(p)
    <3> SUFFICES ASSUME PollFresh(p) PROVE FALSE
      OBVIOUS
    <3>1. PICK r \in RunIds, t \in Tokens : Takes(p, r, t)
      BY ClaimWrites DEF PollFresh
    <3> QED
      BY <3>1, TakeSteps DEF PollFresh
  <2>6. ASSUME NEW q \in Requests, NEW c \in Commands, TurnPauses(p, q, c)
        PROVE  FALSE
    BY <2>6 DEF TurnPauses, Typed
  <2>7. ~\/ PollPastContinuation(p) \/ GateOpens(p) \/ ReserveSession(p) \/ TurnThrows(p)
         \/ AnnounceSuspended(p) \/ SuspendRun(p) \/ FailClosed(p)
    <3>1. \A x \in {"fresh", "turn", "suspend", "requested", "suspended", "closed", "retrying",
                    "failed"} : ~Goto(p, x)
      BY <2>1 DEF JobPlaces
    <3> QED
      BY <3>1 DEF PollPastContinuation, GateOpens, ReserveSession, AnnounceSuspended,
                  SuspendRun, FailClosed, TurnThrows
  <2>8. CASE TurnCompletes(p)
    <3>1. Store!Owns(p) /\ Ends(p, Completed(rows[handle[p].run])) /\ Goto(p, "succeeded")
          /\ job[p].at = "turn"
      BY <2>3, <2>8, EndWrites DEF TurnCompletes, At
    <3>2. /\ handle[p].run \in RunIds /\ rows[handle[p].run] # NoRow
          /\ rows[handle[p].run] \in Row /\ handle[p].run = job[p].run
      BY <3>1, OwnedRow DEF HandsMatch
    <3>3. job'[p].run = job[p].run
      <4>1. "succeeded" \in JobPlaces /\ job[p] \in Phase("succeeded")
        BY <2>0, <3>1, JobFields DEF Phase, JobPlaces
      <4> QED
        BY <3>1, <4>1, GotoJob
    <3> DEFINE new == Completed(rows[job[p].run])
    <3>4. new \in Row /\ new.target = "succeeded"
      BY <3>2 DEF Completed, Row, TargetStates
    <3>5. rows' = [rows EXCEPT ![job[p].run] = new]
      BY <3>1, <3>2 DEF Ends
    <3> HIDE DEF new
    <3> QED
      BY <3>2, <3>3, <3>4, <3>5, RowFacts, NoRowAssumption
  <2> QED
    BY <1>4, <2>2, <2>3, <2>4, <2>5, <2>6, <2>7, <2>8
       DEF RunnerStep, Poll, EndTurn, Settle, PollNothing, GateCloses, AnnounceSucceeded,
           AnnounceFailed, AnnounceRetry, AnnounceRequested, AnnounceClosed,
           ReleaseReservation
<1> QED
  BY <1>1, <1>2, <1>3, <1>4

\* A click announces a failure only after it wrote it.
LEMMA FailedClick ==
  ASSUME SP!Inv, Typed, HandsMatch, AskInv, [Next]_vars, NEW d \in Deciders,
         click'[d].at \in {"denied", "finish"}
  PROVE  /\ click'[d].request = click[d].request /\ click'[d].why = click[d].why
         /\ click[d].at # "idle"
         /\ click[d].at \in {"denied", "finish"} \/ (FailRun(d) /\ MayFail(d))
<1> DEFINE Goal == /\ click'[d].request = click[d].request /\ click'[d].why = click[d].why
                   /\ click[d].at # "idle"
                   /\ click[d].at \in {"denied", "finish"} \/ (FailRun(d) /\ MayFail(d))
<1>1. CASE click'[d] = click[d]
  BY <1>1
<1>2. ASSUME NEW e \in Deciders, OpenClick(e) \/ DecisionStep(e)
      PROVE  Goal
  <2>1. CASE e # d
    <3>1. click'[d] = click[d]
      BY <1>2, <2>1, DecisionTypes DEF Typed
    <3> QED
      BY <1>1, <3>1
  <2>2. CASE e = d /\ OpenClick(e)
    BY <2>2 DEF OpenClick, Approve, Reject, FindExpired, Typed
  <2>3. CASE e = d /\ BeginContinuation(e)
    <3>1. click[d] \in Approving /\ "decided" \in ClickPlaces
      BY <2>3, ClickFields DEF BeginContinuation, ClickAt, Typed, ClickPlaces
    <3> QED
      BY <2>3, <3>1, GotoClick, RestClick DEF BeginContinuation
  <2>4. CASE e = d /\ FailRun(e)
    <3>1. click[d] \in Denying /\ "denied" \in ClickPlaces /\ click[d].at = "fail"
      BY <2>4, ClickFields DEF FailRun, ClickAt, Typed, ClickPlaces
    <3> QED
      BY <2>4, <3>1, GotoClick, RestClick DEF FailRun
  <2>5. CASE e = d /\ ClickTells(e)
    <3>1. CASE AnnounceDenied(d)
      <4>1. click[d] \in Denying /\ "finish" \in ClickPlaces /\ click[d].at = "denied"
        BY <3>1, ClickFields
           DEF AnnounceDenied, ClickAnnounce, ClickAt, Typed, ClickPlaces
      <4> QED
        BY <3>1, <4>1, GotoClick DEF AnnounceDenied
    <3>2. CASE AnnounceDeniedFinish(d)
      <4>1. click[d] \in Denying /\ "release" \in ClickPlaces
        BY <3>2, ClickFields
           DEF AnnounceDeniedFinish, ClickAnnounce, ClickAt, Typed, ClickPlaces
      <4> QED
        BY <3>2, <4>1, GotoClick DEF AnnounceDeniedFinish
    <3>3. CASE AnnounceDecided(d)
      <4>1. click[d] \in Approving /\ "resumed" \in ClickPlaces
        BY <3>3, ClickFields
           DEF AnnounceDecided, ClickAnnounce, ClickAt, Typed, ClickPlaces
      <4> QED
        BY <3>3, <4>1, GotoClick DEF AnnounceDecided
    <3>4. CASE AnnounceResumed(d) \/ ReleaseAfterDenial(d)
      BY <3>4, RestClick DEF AnnounceResumed, ReleaseAfterDenial
    <3> QED
      BY <2>5, <3>1, <3>2, <3>3, <3>4 DEF ClickTells
  <2> QED
    BY <1>2, <2>1, <2>2, <2>3, <2>4, <2>5 DEF DecisionStep, ClickTells
<1>3. ASSUME NEW p \in Workers, RunnerStep(p) \/ Crash(p)
      PROVE  click'[d] = click[d]
  BY <1>3, RunnerTypes DEF Crash, IdleClick
<1>4. ASSUME \/ \E s \in Sessions : Enqueue(s) \/ ReservationLapses(s)
             \/ \E r \in RunIds : Withdraw(r)
             \/ \E q \in Requests : RequestFallsDue(q)
             \/ LeaseClock \/ Reap \/ UNCHANGED vars
      PROVE  click'[d] = click[d]
  BY <1>4 DEF Enqueue, ReservationLapses, Withdraw, RequestFallsDue, LeaseClock, Reap, vars
<1> QED
  BY <1>1, <1>2, <1>3, <1>4 DEF Next, Environment

LEMMA JobsStep ==
  ASSUME SP!Inv, Typed, HandsMatch, AskInv, JobsBornOut, [Next]_vars
  PROVE  JobsBornOut'
<1> SUFFICES ASSUME NEW p \in Workers, job'[p].at = "succeeded"
             PROVE  rows'[job'[p].run] # NoRow /\ rows'[job'[p].run].target = "succeeded"
  BY DEF JobsBornOut
<1>1. CASE job'[p] = job[p]
  <2>1. job[p].run \in RunIds
    BY <1>1, JobFields DEF Typed
  <2>2. rows[job[p].run] # NoRow /\ rows[job[p].run].target = "succeeded"
    BY <1>1 DEF JobsBornOut
  <2> QED
    BY <1>1, <2>1, <2>2, FinishedStays DEF IsTerminalTarget
<1>2. CASE job'[p] # job[p]
  BY <1>2, SucceededJob
<1> QED
  BY <1>1, <1>2

LEMMA ClicksStep ==
  ASSUME SP!Inv, Typed, HandsMatch, AskInv, ClicksBornOut, [Next]_vars
  PROVE  ClicksBornOut'
<1> SUFFICES ASSUME NEW d \in Deciders, click'[d].at \in {"denied", "finish"}
             PROVE  LET r == request'[click'[d].request].run
                    IN  /\ rows'[r] # NoRow /\ rows'[r].target = "failed"
                        /\ rows'[r].failureReason = click'[d].why
  BY DEF ClicksBornOut, Refused
<1>1. PICK q \in Requests, r \in RunIds :
        /\ q = click[d].request /\ q = click'[d].request /\ request[q] # NoRequest
        /\ request[q].run = r
  BY FailedClick, AskedFields DEF Asked
<1>2. request'[q].run = r
  BY <1>1, RequestStep DEF RequestMoves
<1>3. CASE click[d].at \in {"denied", "finish"}
  <2>1. rows[r] # NoRow /\ rows[r].target = "failed" /\ rows[r].failureReason = click[d].why
    BY <1>1, <1>3 DEF ClicksBornOut, Refused
  <2>2. rows'[r] = rows[r]
    BY <2>1, FinishedStays DEF IsTerminalTarget
  <2> QED
    BY <1>1, <1>2, <2>1, <2>2, FailedClick
<1>4. CASE FailRun(d) /\ MayFail(d)
  <2>1. Store!FailFromApproval(r, click[d].why)
    BY <1>1, <1>4 DEF FailRun, Asked
  <2>2. click[d].why \in FailureReasons
    BY <1>4, ClickFields DEF FailRun, ClickAt, Typed, FailureReasons
  <2> DEFINE new == FailedFromApproval(rows[r], click[d].why)
  <2>3. /\ new \in Row /\ new.target = "failed" /\ new.failureReason = click[d].why
        /\ rows' = [rows EXCEPT ![r] = new]
    BY <2>1, <2>2, DecisionWrites DEF Alone
  <2> HIDE DEF new
  <2> QED
    BY <1>1, <1>2, <2>3, FailedClick, RowFacts, NoRowAssumption
<1> QED
  BY <1>3, <1>4, FailedClick

LEMMA SaidStep ==
  ASSUME SP!Inv, Typed, HandsMatch, AskInv, SaidInv, [Next]_vars
  PROVE  SaidInv'
<1> DEFINE Outs == {"succeeded", "approval_denied", "approval_expired"}
<1>1. JobsBornOut' /\ ClicksBornOut'
  BY JobsStep, ClicksStep DEF SaidInv
<1>2. ASSUME NEW r \in RunIds, NEW e \in LogEvent, BornOut(r, e)
      PROVE  BornOut(r, e)'
  BY <1>2, FinishedStays DEF BornOut, IsTerminalTarget
<1>3. log \in [RunIds -> Seq(LogEvent)]
  BY DEF Typed
<1>4. ASSUME NEW r \in RunIds, NEW i \in DOMAIN log[r], IsFinished(log[r][i]),
             log[r][i].of \in Outs
      PROVE  BornOut(r, log[r][i])
  BY <1>4 DEF SaidInv, AnnouncedSuccessIsDurable
<1>5. SUFFICES ASSUME NEW r \in RunIds, NEW i \in DOMAIN log'[r], NEW e, e = log'[r][i],
                      IsFinished(e), e.of \in Outs
               PROVE  BornOut(r, e)'
  BY <1>1 DEF SaidInv, AnnouncedSuccessIsDurable, BornOut, IsFinished
<1>6. CASE i \in DOMAIN log[r] /\ e = log[r][i]
  <2>1. e \in LogEvent
    BY <1>3, <1>6
  <2> QED
    BY <1>2, <1>4, <1>5, <1>6, <2>1
<1>7. CASE ~(i \in DOMAIN log[r] /\ e = log[r][i])
  <2>1. PICK o \in RunIds, f \in LogEvent :
          /\ Publish(o, f) /\ rows' = rows /\ request' = request
          /\ \/ ~IsFinished(f) /\ f.of = "none"
             \/ IsFinished(f) /\ \E p \in Workers, x \in DOMAIN Said :
                  At(p, x) /\ job[p].run = o /\ f.of = Said[x]
             \/ IsFinished(f) /\ \E d \in Deciders :
                  ClickAt(d, "finish") /\ Asked(d).run = o /\ f.of = click[d].why
    BY <1>5, <1>7, LogStep
  <2>2. o = r /\ e = f
    BY <1>3, <1>5, <1>7, <2>1 DEF Publish
  <2>3. ASSUME NEW p \in Workers, NEW x \in DOMAIN Said, At(p, x), job[p].run = o, f.of = Said[x]
        PROVE  BornOut(r, e)'
    <3>1. x = "succeeded" /\ f.of = "succeeded"
      BY <1>5, <2>2, <2>3 DEF Said
    <3> QED
      BY <2>1, <2>2, <2>3, <3>1 DEF SaidInv, JobsBornOut, At, BornOut
  <2>4. ASSUME NEW d \in Deciders, ClickAt(d, "finish"), Asked(d).run = o, f.of = click[d].why
        PROVE  BornOut(r, e)'
    <3>1. click[d].why # "succeeded"
      BY <2>4, ClickFields DEF ClickAt, Typed
    <3>2. Refused(o, f.of)
      BY <2>4 DEF SaidInv, ClicksBornOut, ClickAt, Asked
    <3> QED
      BY <2>1, <2>2, <2>4, <3>1, <3>2 DEF Refused, BornOut
  <2> QED
    BY <1>5, <2>1, <2>2, <2>3, <2>4
<1> QED
  BY <1>6, <1>7

-----------------------------------------------------------------------------
(* One executor.                                                           *)

LiveRow(row) == row.lease = NoLease \/ row.lease.left > 0
LiveRows == \A r \in RunIds : rows[r] # NoRow => LiveRow(rows[r])

LEMMA LiveWrite ==
  ASSUME SP!Inv, LiveRows, NEW r \in RunIds, NEW row, LiveRow(row) \/ row = NoRow,
         rows' = [rows EXCEPT ![r] = row]
  PROVE  LiveRows'
BY RowFacts DEF LiveRows

LEMMA LiveTake ==
  ASSUME SP!Inv, LiveRows, NEW p \in Workers, Store!Claim(p) \/ Store!ClaimNextContinuation(p)
  PROVE  /\ LiveRows' /\ sweep' = sweep
         /\ \A v \in Workers \ {p} : handle'[v] = handle[v]
         /\ SP!Owns(p)'
<1>1. PICK r \in RunIds, t \in Tokens :
        /\ Takes(p, r, t)
        /\ \/ rows' = [rows EXCEPT ![r] = Leased(rows[r], t)]
           \/ rows' = [rows EXCEPT ![r] = ContinuationLeased(rows[r], t)]
  BY ClaimWrites, ContinuationWrites
<1>2. rows[r] \in Row /\ Fresh(t) \in Lease /\ Fresh(t) # NoLease
      /\ Fresh(t).left > 0 /\ Fresh(t).token = t
  BY <1>1, RowFacts, CountsAssumption, AbsenceAssumption DEF Takes, Fresh, Lease
<1>3. PICK row \in Row : rows' = [rows EXCEPT ![r] = row] /\ row.lease = Fresh(t)
  <2>1. CASE rows' = [rows EXCEPT ![r] = Leased(rows[r], t)]
    <3>1. PICK n \in Nat : n = Counted(rows[r])
      BY <1>2 DEF Row, Counted
    <3>2. Leased(rows[r], t) \in Row /\ Leased(rows[r], t).lease = Fresh(t)
      BY <1>2, <3>1 DEF Leased, Row, Statuses, TargetStates
    <3> QED
      BY <2>1, <3>2
  <2>2. CASE rows' = [rows EXCEPT ![r] = ContinuationLeased(rows[r], t)]
    <3>1. ContinuationLeased(rows[r], t) \in Row
          /\ ContinuationLeased(rows[r], t).lease = Fresh(t)
      BY <1>2 DEF ContinuationLeased, Row
    <3> QED
      BY <2>2, <3>1
  <2> QED
    BY <1>1, <2>1, <2>2
<1>4. LiveRows' /\ sweep' = sweep
  BY <1>1, <1>2, <1>3, LiveWrite DEF LiveRow, Takes
<1>5. /\ handle'[p] = [run |-> r, token |-> t] /\ [run |-> r, token |-> t] # NoHandle
      /\ \A v \in Workers \ {p} : handle'[v] = handle[v]
  BY <1>1, RowFacts, StoreAssumption DEF Takes, Store!Handle, Store!RunIds, RunIds
<1>6. rows'[r] # NoRow /\ rows'[r].lease = Fresh(t)
  BY <1>3, RowFacts, NoRowAssumption
<1>7. SP!Owns(p)'
  BY <1>2, <1>5, <1>6 DEF SP!Owns, SP!Present, SP!Holds, SP!RunIds, RunIds
<1> QED
  BY <1>4, <1>5, <1>7

LEMMA LiveEnd ==
  ASSUME SP!Inv, LiveRows, NEW p \in Workers,
         \/ Store!Complete(p) \/ Store!ReleaseLease(p)
         \/ \E retry \in BOOLEAN, why \in FailureReasons : Store!Fail(p, retry, why)
         \/ \E a \in Approval : Store!SuspendForApproval(p, a)
  PROVE  /\ LiveRows' /\ sweep' = sweep /\ handle'[p] = NoHandle
         /\ \A v \in Workers \ {p} : handle'[v] = handle[v]
<1> DEFINE h == handle[p].run
<1>1. PICK row : Ends(p, row) /\ (Store!Owns(p) => row.lease = NoLease)
  <2>1. Store!Owns(p) => rows[h] \in Row
    BY OwnedRow
  <2>2. CASE Store!Complete(p)
    <3>1. Store!Owns(p) => Completed(rows[h]).lease = NoLease
      BY <2>1 DEF Completed, Row
    <3> QED
      BY <2>2, <3>1, EndWrites
  <2>3. CASE Store!ReleaseLease(p)
    <3>1. Store!Owns(p) => Released(rows[h]).lease = NoLease
      BY <2>1 DEF Released, Row
    <3> QED
      BY <2>3, <3>1, EndWrites
  <2>4. ASSUME NEW retry \in BOOLEAN, NEW why \in FailureReasons, Store!Fail(p, retry, why)
        PROVE  \E row : Ends(p, row) /\ (Store!Owns(p) => row.lease = NoLease)
    <3>1. Store!Owns(p) => Retired(rows[h], retry, 1, why).lease = NoLease
      BY <2>1, RetiredRow
    <3>2. Ends(p, Retired(rows[h], retry, 1, why))
      BY <2>4, EndWrites
    <3> QED
      BY <3>1, <3>2
  <2>5. ASSUME NEW a \in Approval, Store!SuspendForApproval(p, a)
        PROVE  \E row : Ends(p, row) /\ (Store!Owns(p) => row.lease = NoLease)
    <3>1. Store!Owns(p) => Suspended(rows[h], a).lease = NoLease
      BY <2>1 DEF Suspended, Row
    <3> QED
      BY <2>5, <3>1, EndWrites
  <2> QED
    BY <2>2, <2>3, <2>4, <2>5
<1>2. /\ sweep' = sweep /\ handle'[p] = NoHandle
      /\ \A v \in Workers \ {p} : handle'[v] = handle[v]
  BY <1>1, RowFacts DEF Ends
<1>3. CASE Store!Owns(p)
  <2>1. rows' = [rows EXCEPT ![h] = row] /\ h \in RunIds
    BY <1>1, <1>3, OwnedRow DEF Ends
  <2> QED
    BY <1>1, <1>2, <1>3, <2>1, LiveWrite DEF LiveRow
<1>4. CASE ~Store!Owns(p)
  BY <1>1, <1>2, <1>4 DEF Ends, LiveRows
<1> QED
  BY <1>3, <1>4

\* What a step does to leases and hands while the clock stands still.
Serves ==
  /\ LiveRows' /\ sweep' = sweep
  /\ \A v \in Workers :
       handle'[v] = handle[v] \/ handle'[v] = NoHandle \/ SP!Owns(v)'

LEMMA RunnerServes ==
  ASSUME SP!Inv, Typed, HandsMatch, AskInv, LiveRows, NEW p \in Workers, RunnerStep(p)
  PROVE  Serves
<1>1. CASE PollContinuation(p) \/ PollFresh(p)
  BY <1>1, LiveTake DEF PollContinuation, PollFresh, Serves
<1>2. CASE GateCloses(p) \/ TurnCompletes(p)
  BY <1>2, LiveEnd DEF GateCloses, TurnCompletes, Serves
<1>3. CASE TurnThrows(p) \/ FailClosed(p)
  <2>1. /\ "execution_failed" \in FailureReasons
        /\ "approval_continuation_unavailable" \in FailureReasons
    BY DEF FailureReasons
  <2> QED
    BY <1>3, <2>1, LiveEnd DEF TurnThrows, FailClosed, Serves
<1>4. CASE SuspendRun(p)
  <2>1. job[p].request \in Requests /\ request[job[p].request] # NoRequest
    BY <1>4, JobFields DEF SuspendRun, At, Typed, AskInv, UnseenInv, Asking
  <2>2. [request |-> job[p].request, command |-> request[job[p].request].command] \in Approval
    BY <2>1, RequestFields DEF Approval
  <2> QED
    BY <1>4, <2>2, LiveEnd DEF SuspendRun, Serves
<1>5. CASE \/ PollPastContinuation(p) \/ PollNothing(p) \/ GateOpens(p) \/ ReserveSession(p)
           \/ AnnounceSucceeded(p) \/ AnnounceFailed(p) \/ AnnounceRetry(p)
           \/ AnnounceSuspended(p) \/ AnnounceRequested(p) \/ AnnounceClosed(p)
           \/ ReleaseReservation(p) \/ \E q \in Requests, c \in Commands : TurnPauses(p, q, c)
  <2>1. rows' = rows /\ handle' = handle /\ sweep' = sweep
    BY <1>5 DEF PollPastContinuation, PollNothing, GateOpens, ReserveSession,
       AnnounceSucceeded, AnnounceFailed, AnnounceRetry, AnnounceSuspended,
       AnnounceRequested, AnnounceClosed, Announce, ReleaseReservation, TurnPauses, storeVars
  <2> QED
    BY <2>1 DEF Serves, LiveRows
<1> QED
  BY <1>1, <1>2, <1>3, <1>4, <1>5 DEF RunnerStep, Poll, EndTurn, Settle

LEMMA DecisionServes ==
  ASSUME SP!Inv, Typed, AskInv, LiveRows, NEW d \in Deciders, OpenClick(d) \/ DecisionStep(d)
  PROVE  Serves
<1>1. CASE UNCHANGED <<rows, handle, sweep>>
  BY <1>1 DEF Serves, LiveRows
<1>2. CASE OpenClick(d)
  BY <1>1, <1>2 DEF OpenClick, Approve, Reject, FindExpired, storeVars
<1>3. CASE ClickTells(d)
  BY <1>1, <1>3, TellsOn
<1>4. CASE BeginContinuation(d)
  <2>1. Asked(d).run \in RunIds /\ Asked(d).command \in Commands
    BY <1>4, AskedFields DEF BeginContinuation, ClickAt
  <2>2. CASE MayBegin(d)
    <3> DEFINE r == Asked(d).run
               new == Resumed(rows[r], Asked(d).command)
    <3>1. rows' = [rows EXCEPT ![r] = new] /\ handle' = handle /\ sweep' = sweep
          /\ rows[r] # NoRow
      BY <1>4, <2>1, <2>2, DecisionWrites DEF BeginContinuation, Alone
    <3>2. rows[r] \in Row
      BY <2>1, <3>1, RowFacts
    <3>3. PICK n \in Nat : n = Counted(rows[r])
      BY <3>2 DEF Row, Counted
    <3>4. new.lease = NoLease
      BY <3>2, <3>3 DEF Resumed, Row
    <3> HIDE DEF new, r
    <3> QED
      BY <2>1, <3>1, <3>4, LiveWrite DEF Serves, LiveRow, r
  <2>3. CASE ~MayBegin(d)
    BY <1>1, <1>4, <2>3 DEF BeginContinuation, storeVars
  <2> QED
    BY <2>2, <2>3
<1>5. CASE FailRun(d)
  <2>1. Asked(d).run \in RunIds
    BY <1>5, AskedFields DEF FailRun, ClickAt
  <2>2. CASE MayFail(d)
    <3> DEFINE r == Asked(d).run
               new == FailedFromApproval(rows[r], click[d].why)
    <3>1. click[d].why \in FailureReasons
      BY <1>5, ClickFields DEF FailRun, ClickAt, Typed, FailureReasons
    <3>2. rows' = [rows EXCEPT ![r] = new] /\ handle' = handle /\ sweep' = sweep
          /\ rows[r] # NoRow
      BY <1>5, <2>1, <2>2, <3>1, DecisionWrites DEF FailRun, Alone
    <3>3. rows[r] \in Row
      BY <2>1, <3>2, RowFacts
    <3>4. new.lease = NoLease
      BY <3>3 DEF FailedFromApproval, Row
    <3> HIDE DEF new, r
    <3> QED
      BY <2>1, <3>2, <3>4, LiveWrite DEF Serves, LiveRow, r
  <2>3. CASE ~MayFail(d)
    BY <1>1, <1>5, <2>3 DEF FailRun, storeVars
  <2> QED
    BY <2>2, <2>3
<1> QED
  BY <1>2, <1>3, <1>4, <1>5 DEF DecisionStep, ClickTells

LEMMA OthersServe ==
  ASSUME SP!Inv, Typed, HandsMatch, LiveRows, \A z \in Reapers : sweep[z].rows = {},
         \/ \E s \in Sessions : Enqueue(s) \/ ReservationLapses(s)
         \/ \E r \in RunIds : Withdraw(r)
         \/ \E q \in Requests : RequestFallsDue(q)
         \/ \E p \in Workers : Crash(p)
         \/ Reap \/ UNCHANGED vars
  PROVE  Serves
<1>1. CASE UNCHANGED <<rows, handle, sweep>>
  BY <1>1 DEF Serves, LiveRows
<1>2. ASSUME NEW s \in Sessions, Enqueue(s)
      PROVE  Serves
  <2>1. /\ rows' = [rows EXCEPT ![created + 1] = NewRow(s, NoKey)]
        /\ handle' = handle /\ sweep' = sweep /\ created + 1 \in RunIds
    <3>1. created \in 0..MaxRuns
      BY DEF SP!Inv, SP!RowsInv, SP!RowsTyped
    <3> QED
      BY <1>2, <3>1, CountsAssumption
         DEF Enqueue, Store!Enqueue, Store!NewRow, NewRow, RunIds
  <2>2. NewRow(s, NoKey).lease = NoLease
    BY DEF NewRow
  <2> QED
    BY <2>1, <2>2, LiveWrite DEF Serves, LiveRow
<1>3. ASSUME NEW r \in RunIds, Withdraw(r)
      PROVE  Serves
  <2>1. rows' = [rows EXCEPT ![r] = NoRow] /\ handle' = handle /\ sweep' = sweep
    BY <1>3 DEF Withdraw, Store!Withdraw
  <2> QED
    BY <2>1, LiveWrite DEF Serves
<1>4. ASSUME NEW p \in Workers, Crash(p)
      PROVE  Serves
  <2>1. rows' = rows /\ sweep' = sweep
        /\ \A v \in Workers : handle'[v] = handle[v] \/ handle'[v] = NoHandle
    BY <1>4, RowFacts DEF Crash, Store!Crash, storeVars
  <2> QED
    BY <2>1 DEF Serves, LiveRows
<1>5. ~Reap
  <2>1. ASSUME NEW z \in Reapers PROVE ~Store!SweepStart(z)
    <3>1. \A r \in RunIds : rows[r] # NoRow /\ rows[r].lease # NoLease =>
            rows[r].lease \in Lease /\ rows[r].lease.left > 0
      BY RowFacts, RowFields DEF LiveRows, LiveRow
    <3>2. \A r \in RunIds : rows[r] # NoRow => ~Store!LeaseLapsed(rows[r], 0)
      BY <3>1 DEF Store!LeaseLapsed, Lease
    <3> QED
      BY <3>2 DEF Store!SweepStart, Store!Lapsed, Store!Present, Store!RunIds, RunIds
  <2>2. ASSUME NEW z \in Reapers, NEW r \in RunIds PROVE ~Store!SweepNext(z, r, FALSE)
    BY DEF Store!SweepNext
  <2> QED
    BY <2>1, <2>2 DEF Reap
<1>6. ASSUME \/ \E s \in Sessions : ReservationLapses(s)
             \/ \E q \in Requests : RequestFallsDue(q)
             \/ UNCHANGED vars
      PROVE  UNCHANGED <<rows, handle, sweep>>
  BY <1>6 DEF ReservationLapses, RequestFallsDue, storeVars, vars
<1> QED
  BY <1>1, <1>2, <1>3, <1>4, <1>5, <1>6

\* The clock does not go back.
LEMMA LapsesStay ==
  ASSUME SP!Inv, Typed, HandsMatch, AskInv, [Next]_vars, faults'.lapses = 0
  PROVE  faults.lapses = 0 /\ ~LeaseClock
<1>1. faults.lapses \in Nat /\ faults \in [lapses : 0..MaxLapses, crashes : 0..MaxCrashes]
  BY FaultsAssumption DEF Typed
<1>2. ~LeaseClock
  <2> SUFFICES ASSUME LeaseClock PROVE FALSE
    OBVIOUS
  <2>1. faults'.lapses = faults.lapses + 1
    BY <1>1 DEF LeaseClock
  <2> QED
    BY <1>1, <2>1
<1>3. faults'.lapses = faults.lapses
  <2>1. ASSUME NEW p \in Workers, Crash(p)
        PROVE  faults'.lapses = faults.lapses
    BY <1>1, <2>1 DEF Crash
  <2>2. ASSUME \/ \E s \in Sessions : Enqueue(s) \/ ReservationLapses(s)
               \/ \E r \in RunIds : Withdraw(r)
               \/ \E q \in Requests : RequestFallsDue(q)
               \/ Reap \/ UNCHANGED vars
        PROVE  faults' = faults
    BY <2>2 DEF Enqueue, ReservationLapses, Withdraw, RequestFallsDue, Reap, vars
  <2> QED
    BY <1>2, <2>1, <2>2, RunnerTypes, DecisionTypes DEF Next, Environment
<1> QED
  BY <1>2, <1>3

LEMMA NothingLapsedStep ==
  ASSUME SP!Inv, Typed, HandsMatch, AskInv, NothingLapsed, [Next]_vars
  PROVE  NothingLapsed'
<1> SUFFICES ASSUME faults'.lapses = 0
             PROVE  /\ LiveRows' /\ \A z \in Reapers : sweep'[z].rows = {}
                    /\ \A p \in Workers : handle'[p] # NoHandle => SP!Owns(p)'
  BY DEF NothingLapsed, LiveRows, LiveRow
<1>1. faults.lapses = 0 /\ ~LeaseClock
  BY LapsesStay
<1>2. /\ LiveRows /\ \A z \in Reapers : sweep[z].rows = {}
      /\ \A p \in Workers : handle[p] # NoHandle => SP!Owns(p)
  BY <1>1 DEF NothingLapsed, LiveRows, LiveRow
<1>3. Serves
  BY <1>1, <1>2, RunnerServes, DecisionServes, OthersServe DEF Next, Environment
<1>4. ASSUME NEW p \in Workers, handle'[p] = handle[p], handle[p] # NoHandle
      PROVE  SP!Owns(p)'
  <2>1. SP!Owns(p) /\ handle[p].run \in RunIds /\ rows[handle[p].run] # NoRow
        /\ rows[handle[p].run].lease # NoLease
    BY <1>2, <1>4 DEF SP!Owns, SP!Present, SP!Holds, SP!RunIds, RunIds
  <2>2. CASE UNCHANGED SP!vars
    BY <2>1, <2>2 DEF SP!vars, SP!Owns, SP!Present, SP!Holds
  <2>3. CASE SP!Next
    <3>1. rows[handle[p].run].lease \in Lease /\ rows[handle[p].run].lease.left > 0
      BY <1>2, <2>1, RowFacts, RowFields DEF LiveRows, LiveRow
    <3>2. ~SP!LeaseLapsed(rows[handle[p].run], 0)
      BY <3>1 DEF SP!LeaseLapsed, Lease
    <3>3. /\ rows'[handle[p].run] # NoRow
          /\ SP!Holds(rows'[handle[p].run], handle[p].token)
      BY <1>4, <2>1, <2>3, <3>2, SP!StepRespectsLease, StoreAssumptions, CountsAssumption
    <3> QED
      BY <1>4, <2>1, <3>3 DEF SP!Owns, SP!Present, SP!Holds, SP!RunIds, RunIds
  <2> QED
    BY <2>2, <2>3, StepOfStore
<1> QED
  BY <1>2, <1>3, <1>4 DEF Serves

-----------------------------------------------------------------------------
(* The theorems.                                                           *)

LEMMA InitInv == Init => Inv
<1> SUFFICES ASSUME Init PROVE Inv
  OBVIOUS
<1>0. /\ rows = [r \in RunIds |-> NoRow] /\ handle = [w \in Workers |-> NoHandle]
      /\ sweep = [z \in Reapers |-> [rows |-> {}, age |-> 0]]
  BY DEF Init, Store!Init, Store!RunIds, RunIds
<1>1. SP!Inv
  BY StoreInvInit
<1>2. Typed
  BY FaultsAssumption DEF Init, Typed, IdleJob, IdleClick, Job, Waiting, Click
<1>3. HandsMatch
  BY <1>0 DEF Init, HandsMatch, IdleJob, Holding
<1>4. AskInv
  BY <1>0 DEF Init, AskInv, UnseenInv, RowsAsk, NotYetRun, OpenInv, ClicksInv,
     OnlyApprovedCommandsRun, Asking, IdleJob, IdleClick, Present
<1>5. SaidInv
  BY <1>0 DEF Init, SaidInv, JobsBornOut, ClicksBornOut, AnnouncedSuccessIsDurable, IdleJob,
     IdleClick
<1>6. NothingLapsed
  BY <1>0 DEF NothingLapsed
<1> QED
  BY <1>1, <1>2, <1>3, <1>4, <1>5, <1>6 DEF Inv

LEMMA StepInv == Inv /\ [Next]_vars => Inv'
BY StoreInvStep, TypedStep, HandsStep, AskStep, SaidStep, NothingLapsedStep DEF Inv

\* Everything above holds of every state the program reaches.
THEOREM InvHolds == Spec => []Inv
BY InitInv, StepInv, PTL DEF Spec

\* Every variable keeps its type, and a process holds a handle on the store
\* exactly while it is between a claim and the end of its turn.
THEOREM TypesHold == Spec => []TypeOK
<1>1. ASSUME Inv PROVE TypeOK
  <2>1. SP!TypeOK
    BY <1>1 DEF Inv, SP!Inv, SP!RowsInv, SP!RowsTyped, SP!HandlesInv, SP!SweepInv, SP!TypeOK
  <2>2. Store!TypeOK
    BY <2>1 DEF SP!TypeOK, Store!TypeOK, SP!RunIds, Store!RunIds, SP!Row, Store!Row,
       SP!Handle, Store!Handle, SP!Statuses, Store!Statuses, SP!TargetStates,
       Store!TargetStates, SP!FailureReasons, Store!FailureReasons, SP!Lease, Store!Lease,
       SP!Approval, Store!Approval
  <2>3. \A p \in Workers :
          /\ job[p].at \in JobPlaces
          /\ (handle[p] # NoHandle) <=> (job[p].at \in {"gate", "turn", "reserve", "suspend"})
          /\ handle[p] # NoHandle => handle[p].run = job[p].run
    BY <1>1, JobFields DEF Inv, Typed, HandsMatch, Holding
  <2>4. \A d \in Deciders : click[d].at \in ClickPlaces
    BY <1>1, ClickFields DEF Inv, Typed
  <2>5. shown \subseteq {q \in Requests : request[q] # NoRequest}
    BY <1>1 DEF Inv, Typed, AskInv, UnseenInv
  <2> QED
    BY <1>1, <2>2, <2>3, <2>4, <2>5 DEF Inv, Typed, TypeOK
<1> QED
  BY InvHolds, <1>1, PTL

\* The command of an approval request is resumed only after its requester
\* approved that very request, and once.
THEOREM OnlyApprovedCommandsRunHolds == Spec => []OnlyApprovedCommandsRun
<1>1. Inv => OnlyApprovedCommandsRun
  BY DEF Inv, AskInv
<1> QED
  BY InvHolds, <1>1, PTL

\* Two processes execute a run at once only after a lease lapsed.
THEOREM OneExecutorHolds == Spec => []OneExecutor
<1>1. ASSUME Inv PROVE OneExecutor
  <2> SUFFICES ASSUME faults.lapses = 0, NEW p1 \in Workers, NEW p2 \in Workers,
                      At(p1, "turn"), At(p2, "turn"), job[p1].run = job[p2].run
               PROVE  p1 = p2
    BY DEF OneExecutor
  <2>1. /\ handle[p1] # NoHandle /\ handle[p2] # NoHandle
        /\ handle[p1].run = handle[p2].run
    BY <1>1 DEF Inv, HandsMatch, Holding, At
  <2>2. SP!Owns(p1) /\ SP!Owns(p2)
    BY <1>1, <2>1 DEF Inv, NothingLapsed
  <2>3. handle[p1].token = handle[p2].token
    BY <2>1, <2>2 DEF SP!Owns, SP!Holds
  <2> QED
    BY <1>1, <2>1, <2>3 DEF Inv, SP!Inv, SP!HandlesInv, SP!TokensUnshared
<1> QED
  BY InvHolds, <1>1, PTL

\* A success, and a failure a decision caused, is announced only when the row
\* bears it out.
THEOREM AnnouncedSuccessIsDurableHolds == Spec => []AnnouncedSuccessIsDurable
<1>1. Inv => AnnouncedSuccessIsDurable
  BY DEF Inv, SaidInv
<1> QED
  BY InvHolds, <1>1, PTL

\* With runners, pauses and decisions around it the run queue still implements the
\* lifecycle of a run: no interleaving of theirs moves a run outside it.
THEOREM ImplementsLifecycleHolds == Spec => SP!ImplementsLifecycle
<1>1. Init => SP!Lifecycle!Init
  BY SP!InitImplements, SameRest, StoreAssumptions, CountsAssumption DEF Init
<1>2. Inv /\ [Next]_vars => [SP!Lifecycle!Next]_(SP!Lifecycle!vars)
  BY StepOfStore, SP!StepImplements, StoreAssumptions, CountsAssumption DEF Inv
<1> QED
  BY InvHolds, <1>1, <1>2, PTL DEF Spec, SP!ImplementsLifecycle, SP!Lifecycle!Spec

-----------------------------------------------------------------------------
(* Announcements and releases.                                             *)

\* A run that is over, and known to be.
IsDone(r) == rows[r] # NoRow /\ IsTerminalTarget(rows[r])
IsSettled(r) == IsDone(r) /\ Closed(r)

\* Until a lease lapses a process that announces a failure has written it, and
\* one that gives its reservation up has announced the end.
ThroughInv ==
  faults.lapses = 0 =>
    \A p \in Workers :
      /\ At(p, "failed") => Refused(job[p].run, "execution_failed")
      /\ ~At(p, "closed")
      /\ At(p, "release") => IsSettled(job[p].run)

\* A click gives a reservation up after it announced the end, lapse or no lapse.
DeniedInv ==
  \A d \in Deciders : click[d].at = "release" => IsSettled(request[click[d].request].run)

SettledInv == ThroughInv /\ DeniedInv /\ AnnouncedIsDurable

\* A published run.finished event closes the log of its run, or it was closed.
LEMMA ClosedByFinish ==
  ASSUME Typed, NEW r \in RunIds, NEW e \in LogEvent, IsFinished(e), Publish(r, e)
  PROVE  Closed(r)'
<1>1. CASE log' = log /\ Closed(r)
  BY <1>1 DEF Closed
<1>2. CASE log' = [log EXCEPT ![r] = Append(log[r], e)]
  <2>1. log[r] \in Seq(LogEvent) /\ log'[r] = Append(log[r], e)
    BY <1>2 DEF Typed
  <2>2. Len(log[r]) + 1 \in DOMAIN log'[r] /\ log'[r][Len(log[r]) + 1] = e
    BY <2>1
  <2> QED
    BY <2>2 DEF Closed
<1> QED
  BY <1>1, <1>2 DEF Publish

\* A run that is over and announced stays so.
LEMMA SettledStays ==
  ASSUME SP!Inv, Typed, AskInv, [Next]_vars, NEW r \in RunIds
  PROVE  /\ IsDone(r) => IsDone(r)'
         /\ Closed(r) => Closed(r)'
         /\ IsSettled(r) => IsSettled(r)'
         /\ \A why \in FailureReasons : Refused(r, why) => Refused(r, why)'
<1>1. Closed(r) => Closed(r)'
  <2>1. ASSUME NEW o \in RunIds, NEW e \in LogEvent, Publish(o, e), Closed(r)
        PROVE  Closed(r)'
    <3>1. log[r] \in Seq(LogEvent)
      BY DEF Typed
    <3>2. CASE log'[r] = log[r]
      BY <2>1, <3>2 DEF Closed
    <3>3. CASE log'[r] = Append(log[r], e)
      <4>1. \A i \in DOMAIN log[r] : i \in DOMAIN log'[r] /\ log'[r][i] = log[r][i]
        BY <3>1, <3>3
      <4> QED
        BY <2>1, <4>1 DEF Closed
    <3> QED
      BY <2>1, <3>2, <3>3 DEF Publish, Typed
  <2>2. CASE log' = log
    BY <2>2 DEF Closed
  <2> QED
    BY <2>1, <2>2, LogStep
<1>2. IsDone(r) => IsDone(r)'
  BY FinishedStays DEF IsDone
<1>3. \A why \in FailureReasons : Refused(r, why) => Refused(r, why)'
  BY FinishedStays DEF Refused, IsTerminalTarget
<1> QED
  BY <1>1, <1>2, <1>3 DEF IsSettled

\* How a process comes to announce a failure or to give a reservation up.
LEMMA LateJob ==
  ASSUME SP!Inv, Typed, HandsMatch, AskInv, [Next]_vars, NEW p \in Workers,
         job'[p].at \in {"failed", "closed", "release"}, job'[p] # job[p]
  PROVE  /\ job'[p].run = job[p].run
         /\ \/ job'[p].at = "failed" /\ TurnThrows(p) /\ ~Requeued(p)
            \/ FailClosed(p)
            \/ job'[p].at = "release" /\ TurnCompletes(p) /\ ~Store!Owns(p)
            \/ job'[p].at = "release" /\ (AnnounceSucceeded(p) \/ AnnounceFailed(p))
<1> DEFINE Late == {"failed", "closed", "release"}
           Goal == /\ job'[p].run = job[p].run
                   /\ \/ job'[p].at = "failed" /\ TurnThrows(p) /\ ~Requeued(p)
                      \/ FailClosed(p)
                      \/ job'[p].at = "release" /\ TurnCompletes(p) /\ ~Store!Owns(p)
                      \/ job'[p].at = "release" /\ (AnnounceSucceeded(p) \/ AnnounceFailed(p))
<1>0. job[p] \in Job
  BY DEF Typed
<1>1. ASSUME NEW v \in Workers, RunnerStep(v) \/ Crash(v), v # p
      PROVE  job'[p] = job[p]
  BY <1>1, RunnerMoves, CrashMoves DEF Steps, Typed
<1>2. CASE ~\E v \in Workers : RunnerStep(v) \/ Crash(v)
  BY <1>2, OthersMove
<1>3. CASE Crash(p)
  BY <1>3, CrashMoves
<1>4. CASE RunnerStep(p)
  <2>1. ASSUME NEW x \in JobPlaces, Goto(p, x)
        PROVE  x \in Late /\ job'[p].at = x
    <3>1. job'[p] = [job[p] EXCEPT !.at = x]
      BY <2>1 DEF Goto, Typed
    <3> QED
      BY <1>0, <3>1 DEF Job, Waiting, Executing, Pausing
  <2>2. ~Rest(p)
    BY RestJob
  <2>3. ~PollContinuation(p)
    <3> SUFFICES ASSUME PollContinuation(p) PROVE FALSE
      OBVIOUS
    <3>1. PICK r \in RunIds, t \in Tokens : Takes(p, r, t)
      BY ContinuationWrites DEF PollContinuation
    <3> QED
      BY <3>1, TakeSteps DEF PollContinuation
  <2>4. ~PollFresh(p)
    <3> SUFFICES ASSUME PollFresh(p) PROVE FALSE
      OBVIOUS
    <3>1. PICK r \in RunIds, t \in Tokens : Takes(p, r, t)
      BY ClaimWrites DEF PollFresh
    <3> QED
      BY <3>1, TakeSteps DEF PollFresh
  <2>5. ASSUME NEW q \in Requests, NEW c \in Commands, TurnPauses(p, q, c)
        PROVE  FALSE
    BY <2>5 DEF TurnPauses, Typed
  <2>6. ~\/ PollPastContinuation(p) \/ GateOpens(p) \/ ReserveSession(p)
         \/ AnnounceSuspended(p) \/ SuspendRun(p)
    <3>1. \A x \in {"fresh", "turn", "suspend", "requested", "suspended"} : ~Goto(p, x)
      BY <2>1 DEF JobPlaces
    <3> QED
      BY <3>1 DEF PollPastContinuation, GateOpens, ReserveSession, AnnounceSuspended, SuspendRun
  <2>7. ASSUME NEW x \in Late, Goto(p, x), job[p].at \in {"turn", "suspend", "succeeded", "failed"},
               x \in {"failed", "release"} => job[p].at # "suspend",
               x = "closed" => job[p].at = "suspend"
        PROVE  job'[p].run = job[p].run /\ job'[p].at = x
    <3>1. x \in JobPlaces /\ job[p] \in Phase(x)
      BY <1>0, <2>7, JobFields DEF Phase, JobPlaces
    <3> QED
      BY <2>7, <3>1, GotoJob
  <2>8. ASSUME AfterFinish(p), job[p].at \in {"turn", "succeeded", "failed"}
        PROVE  job'[p].run = job[p].run /\ job'[p].at = "release"
    BY <2>2, <2>7, <2>8 DEF AfterFinish
  <2>9. CASE TurnThrows(p)
    <3>1. Goto(p, IF Requeued(p) THEN "retrying" ELSE "failed") /\ job[p].at = "turn"
      BY <2>9 DEF TurnThrows, At
    <3>2. ~Requeued(p) /\ Goto(p, "failed")
      BY <2>1, <3>1 DEF JobPlaces
    <3> QED
      BY <2>7, <2>9, <3>1, <3>2
  <2>10. CASE FailClosed(p)
    BY <2>7, <2>10 DEF FailClosed, At
  <2>11. CASE TurnCompletes(p)
    <3>1. ~Goto(p, "succeeded")
      BY <2>1 DEF JobPlaces
    <3> QED
      BY <2>8, <2>11, <3>1 DEF TurnCompletes, At
  <2>12. CASE AnnounceSucceeded(p) \/ AnnounceFailed(p)
    BY <2>8, <2>12 DEF AnnounceSucceeded, AnnounceFailed, Announce, At
  <2> QED
    BY <1>4, <2>2, <2>3, <2>4, <2>5, <2>6, <2>9, <2>10, <2>11, <2>12
       DEF RunnerStep, Poll, EndTurn, Settle, PollNothing, GateCloses,
           AnnounceRetry, AnnounceRequested, AnnounceClosed, ReleaseReservation
<1> QED
  BY <1>1, <1>2, <1>3, <1>4

\* Without a lapse no process announces what it did not write.
LEMMA ThroughStep ==
  ASSUME Inv, Inv', ThroughInv, [Next]_vars
  PROVE  ThroughInv'
<1>0. SP!Inv /\ Typed /\ HandsMatch /\ AskInv /\ SaidInv /\ NothingLapsed
  BY DEF Inv
<1>1. ASSUME faults'.lapses = 0, NEW p \in Workers,
             job'[p].at \in {"failed", "closed", "release"},
             NEW r \in RunIds, r = job'[p].run
      PROVE  /\ job'[p].at = "failed" => Refused(r, "execution_failed")'
             /\ job'[p].at # "closed"
             /\ job'[p].at = "release" => IsSettled(r)'
  <2>1. faults.lapses = 0
    BY <1>0, <1>1, LapsesStay
  <2>2. "execution_failed" \in FailureReasons
    BY DEF FailureReasons
  <2>3. CASE job'[p] = job[p]
    BY <1>0, <1>1, <2>1, <2>2, <2>3, SettledStays DEF ThroughInv, At
  <2>4. CASE job'[p] # job[p]
    <3>1. /\ r = job[p].run
          /\ \/ job'[p].at = "failed" /\ TurnThrows(p) /\ ~Requeued(p)
             \/ FailClosed(p)
             \/ job'[p].at = "release" /\ TurnCompletes(p) /\ ~Store!Owns(p)
             \/ job'[p].at = "release" /\ (AnnounceSucceeded(p) \/ AnnounceFailed(p))
      BY <1>0, <1>1, <2>4, LateJob
    <3>2. job[p].at \in Holding => Store!Owns(p) /\ handle[p].run = job[p].run
      BY <1>0, <2>1, SameOwns DEF NothingLapsed, HandsMatch
    <3>3. ~FailClosed(p) /\ ~(TurnCompletes(p) /\ ~Store!Owns(p))
      BY <3>2 DEF FailClosed, TurnCompletes, At, Holding
    <3>4. ASSUME job'[p].at = "failed", TurnThrows(p), ~Requeued(p)
          PROVE  Refused(r, "execution_failed")'
      <4> DEFINE new == Retired(rows[r], TRUE, 1, "execution_failed")
      <4>1. Store!Owns(p) /\ handle[p].run = r
        BY <3>1, <3>2, <3>4 DEF TurnThrows, At, Holding
      <4>2. rows[r] \in Row /\ rows[r] # NoRow
        BY <1>0, <4>1, OwnedRow
      <4>3. rows' = [rows EXCEPT ![r] = new]
        <5>1. Ends(p, Retired(rows[handle[p].run], TRUE, 1, "execution_failed"))
          BY <3>4, EndWrites DEF TurnThrows
        <5> QED
          BY <4>1, <5>1 DEF Ends
      <4>4. ~MayRetry(rows[r], TRUE, 1)
        BY <3>1, <3>4, <4>1 DEF Requeued
      <4>5. new \in Row /\ new.target = "failed" /\ new.failureReason = "execution_failed"
        <5>1. new \in Row
          BY <2>2, <4>2, RetiredRow
        <5>2. PICK n : n = rows[r].errorAttempts + 1
          OBVIOUS
        <5>3. new = [rows[r] EXCEPT !.status = "failed", !.target = "failed", !.lease = NoLease,
                                    !.errorAttempts = n, !.failureReason = "execution_failed"]
          BY <4>4, <5>2 DEF Retired
        <5> QED
          BY <4>2, <5>1, <5>3 DEF Row
      <4> HIDE DEF new
      <4>6. rows'[r] = new /\ new # NoRow
        BY <1>0, <4>3, <4>5, RowFacts, NoRowAssumption
      <4> QED
        BY <4>5, <4>6 DEF Refused
    <3>5. ASSUME AnnounceSucceeded(p) \/ AnnounceFailed(p)
          PROVE  IsSettled(r)'
      <4>1. PICK o \in {"succeeded", "execution_failed"} : Publish(r, FinishedEvent(o))
        BY <3>1, <3>5 DEF AnnounceSucceeded, AnnounceFailed, Announce
      <4>2. FinishedEvent(o) \in LogEvent /\ IsFinished(FinishedEvent(o))
        BY DEF FinishedEvent, LogEvent, IsFinished, Outcomes
      <4>3. Closed(r)'
        BY <1>0, <4>1, <4>2, ClosedByFinish
      <4>4. IsDone(r)
        BY <1>0, <2>1, <3>1, <3>5 DEF AnnounceSucceeded, AnnounceFailed, Announce, At, SaidInv,
           JobsBornOut, ThroughInv, Refused, IsDone, IsTerminalTarget
      <4> QED
        BY <1>0, <4>3, <4>4, SettledStays DEF IsSettled
    <3> QED
      BY <1>1, <3>1, <3>3, <3>4, <3>5
  <2> QED
    BY <2>3, <2>4
<1>2. \A p \in Workers : job'[p].at \in {"failed", "closed", "release"} => job'[p].run \in RunIds
  BY JobFields DEF Inv, Typed
<1>3. ASSUME faults'.lapses = 0, NEW p \in Workers
      PROVE  /\ At(p, "failed")' => Refused(job[p].run, "execution_failed")'
             /\ ~At(p, "closed")'
             /\ At(p, "release")' => IsSettled(job[p].run)'
  <2> SUFFICES ASSUME job'[p].at \in {"failed", "closed", "release"}
               PROVE  /\ job'[p].at = "failed" => Refused(job[p].run, "execution_failed")'
                      /\ job'[p].at # "closed"
                      /\ job'[p].at = "release" => IsSettled(job[p].run)'
    BY DEF At
  <2>1. PICK r \in RunIds : r = job'[p].run
    BY <1>2
  <2>2. /\ job'[p].at = "failed" => Refused(r, "execution_failed")'
        /\ job'[p].at # "closed"
        /\ job'[p].at = "release" => IsSettled(r)'
    BY <1>1, <1>3, <2>1
  <2> QED
    BY <2>1, <2>2 DEF Refused, IsSettled, IsDone, Closed
<1> QED
  BY <1>3 DEF ThroughInv

\* A click gives a reservation up only after it announced the end.
LEMMA ReleasingClick ==
  ASSUME SP!Inv, Typed, HandsMatch, AskInv, [Next]_vars, NEW d \in Deciders,
         click'[d].at = "release"
  PROVE  /\ click'[d].request = click[d].request /\ click[d].at # "idle"
         /\ click[d].at = "release" \/ AnnounceDeniedFinish(d)
<1> DEFINE Goal == /\ click'[d].request = click[d].request /\ click[d].at # "idle"
                   /\ click[d].at = "release" \/ AnnounceDeniedFinish(d)
<1>1. ASSUME click'[d] = click[d]
      PROVE  Goal
  BY <1>1
<1>2. ASSUME NEW e \in Deciders, OpenClick(e) \/ DecisionStep(e)
      PROVE  Goal
  <2>1. ASSUME e # d
        PROVE  Goal
    <3>1. click'[d] = click[d]
      BY <1>2, <2>1, DecisionTypes DEF Typed
    <3> QED
      BY <1>1, <3>1
  <2>2. ~OpenClick(d)
    BY DEF OpenClick, Approve, Reject, FindExpired, Typed
  <2>3. ~BeginContinuation(d)
    <3> SUFFICES ASSUME BeginContinuation(d) PROVE FALSE
      OBVIOUS
    <3>1. click[d] \in Approving /\ "decided" \in ClickPlaces
      BY ClickFields DEF BeginContinuation, ClickAt, Typed, ClickPlaces
    <3> QED
      BY <3>1, GotoClick, RestClick DEF BeginContinuation
  <2>4. ~FailRun(d)
    <3> SUFFICES ASSUME FailRun(d) PROVE FALSE
      OBVIOUS
    <3>1. click[d] \in Denying /\ "denied" \in ClickPlaces
      BY ClickFields DEF FailRun, ClickAt, Typed, ClickPlaces
    <3> QED
      BY <3>1, GotoClick, RestClick DEF FailRun
  <2>5. ~AnnounceDenied(d)
    <3> SUFFICES ASSUME AnnounceDenied(d) PROVE FALSE
      OBVIOUS
    <3>1. click[d] \in Denying /\ "finish" \in ClickPlaces
      BY ClickFields DEF AnnounceDenied, ClickAnnounce, ClickAt, Typed, ClickPlaces
    <3> QED
      BY <3>1, GotoClick DEF AnnounceDenied
  <2>6. ~AnnounceDecided(d)
    <3> SUFFICES ASSUME AnnounceDecided(d) PROVE FALSE
      OBVIOUS
    <3>1. click[d] \in Approving /\ "resumed" \in ClickPlaces
      BY ClickFields DEF AnnounceDecided, ClickAnnounce, ClickAt, Typed, ClickPlaces
    <3> QED
      BY <3>1, GotoClick DEF AnnounceDecided
  <2>7. ~(AnnounceResumed(d) \/ ReleaseAfterDenial(d))
    BY RestClick DEF AnnounceResumed, ReleaseAfterDenial
  <2>8. ASSUME AnnounceDeniedFinish(d)
        PROVE  Goal
    <3>1. click[d] \in Denying /\ "release" \in ClickPlaces /\ click[d].at = "finish"
      BY <2>8, ClickFields
         DEF AnnounceDeniedFinish, ClickAnnounce, ClickAt, Typed, ClickPlaces
    <3> QED
      BY <2>8, <3>1, GotoClick DEF AnnounceDeniedFinish
  <2> QED
    BY <1>2, <2>1, <2>2, <2>3, <2>4, <2>5, <2>6, <2>7, <2>8 DEF DecisionStep
<1>3. ASSUME NEW p \in Workers, RunnerStep(p) \/ Crash(p)
      PROVE  click'[d] = click[d]
  BY <1>3, RunnerTypes DEF Crash, IdleClick
<1>4. ASSUME \/ \E s \in Sessions : Enqueue(s) \/ ReservationLapses(s)
             \/ \E r \in RunIds : Withdraw(r)
             \/ \E q \in Requests : RequestFallsDue(q)
             \/ LeaseClock \/ Reap \/ UNCHANGED vars
      PROVE  click'[d] = click[d]
  BY <1>4 DEF Enqueue, ReservationLapses, Withdraw, RequestFallsDue, LeaseClock, Reap, vars
<1> QED
  BY <1>1, <1>2, <1>3, <1>4 DEF Next, Environment

\* A click comes to its release by way of run.finished.
LEMMA DeniedStep ==
  ASSUME Inv, DeniedInv, [Next]_vars
  PROVE  DeniedInv'
<1>0. SP!Inv /\ Typed /\ HandsMatch /\ AskInv /\ SaidInv
  BY DEF Inv
<1>1. ASSUME NEW d \in Deciders, click'[d].at = "release"
      PROVE  IsSettled(request[click[d].request].run)'
  <2>1. PICK q \in Requests, r \in RunIds :
          /\ q = click[d].request /\ q = click'[d].request /\ request[q] # NoRequest
          /\ request[q].run = r
    BY <1>0, <1>1, ReleasingClick, AskedFields DEF Asked
  <2>2. request'[q].run = r
    BY <1>0, <2>1, RequestStep DEF RequestMoves
  <2>3. IsSettled(r)'
    <3>1. CASE click[d].at = "release"
      BY <1>0, <2>1, <3>1, SettledStays DEF DeniedInv
    <3>2. CASE AnnounceDeniedFinish(d)
      <4>1. click[d].at = "finish" /\ Publish(r, FinishedEvent(click[d].why))
        BY <2>1, <3>2 DEF AnnounceDeniedFinish, ClickAnnounce, ClickAt, Asked
      <4>2. click[d].why \in {"approval_denied", "approval_expired"}
        BY <1>0, <4>1, ClickFields DEF Typed
      <4>3. FinishedEvent(click[d].why) \in LogEvent /\ IsFinished(FinishedEvent(click[d].why))
        BY <4>2 DEF FinishedEvent, LogEvent, IsFinished, Outcomes
      <4>4. Closed(r)'
        BY <1>0, <4>1, <4>3, ClosedByFinish
      <4>5. IsDone(r)
        BY <1>0, <2>1, <4>1 DEF SaidInv, ClicksBornOut, Refused, IsDone, IsTerminalTarget
      <4> QED
        BY <1>0, <4>4, <4>5, SettledStays DEF IsSettled
    <3> QED
      BY <1>0, <1>1, <3>1, <3>2, ReleasingClick
  <2> QED
    BY <2>1, <2>2, <2>3 DEF IsSettled, IsDone, Closed
<1> QED
  BY <1>1 DEF DeniedInv

\* Every event a step adds agrees with its row, and the rows of the others stay.
LEMMA DurableStep ==
  ASSUME Inv, SettledInv, [Next]_vars
  PROVE  AnnouncedIsDurable'
<1>0. SP!Inv /\ Typed /\ HandsMatch /\ AskInv /\ SaidInv
  BY DEF Inv
<1>1. ASSUME NEW r \in RunIds, NEW e \in LogEvent, BornOut(r, e)
      PROVE  BornOut(r, e)'
  BY <1>0, <1>1, FinishedStays DEF BornOut, IsTerminalTarget
<1>2. log \in [RunIds -> Seq(LogEvent)]
  BY <1>0 DEF Typed
<1>3. SUFFICES ASSUME faults'.lapses = 0, NEW r \in RunIds, NEW i \in DOMAIN log'[r],
                      NEW e, e = log'[r][i], IsFinished(e)
               PROVE  BornOut(r, e)'
  BY DEF AnnouncedIsDurable, BornOut, IsFinished
<1>4. faults.lapses = 0
  BY <1>0, <1>3, LapsesStay
<1>5. CASE i \in DOMAIN log[r] /\ e = log[r][i]
  <2>1. e \in LogEvent
    BY <1>2, <1>5
  <2>2. BornOut(r, e)
    BY <1>3, <1>4, <1>5 DEF SettledInv, AnnouncedIsDurable
  <2> QED
    BY <1>1, <2>1, <2>2
<1>6. CASE ~(i \in DOMAIN log[r] /\ e = log[r][i])
  <2>1. PICK o \in RunIds, f \in LogEvent :
          /\ Publish(o, f) /\ rows' = rows /\ request' = request
          /\ \/ ~IsFinished(f) /\ f.of = "none"
             \/ IsFinished(f) /\ \E p \in Workers, x \in DOMAIN Said :
                  At(p, x) /\ job[p].run = o /\ f.of = Said[x]
             \/ IsFinished(f) /\ \E d \in Deciders :
                  ClickAt(d, "finish") /\ Asked(d).run = o /\ f.of = click[d].why
    BY <1>0, <1>3, <1>6, LogStep
  <2>2. o = r /\ e = f
    BY <1>2, <1>3, <1>6, <2>1 DEF Publish
  <2>3. ASSUME NEW p \in Workers, NEW x \in DOMAIN Said, At(p, x), job[p].run = o, f.of = Said[x]
        PROVE  BornOut(r, e)'
    <3>1. CASE x = "succeeded" /\ f.of = "succeeded"
      BY <1>0, <2>1, <2>2, <2>3, <3>1 DEF SaidInv, JobsBornOut, At, BornOut
    <3>2. CASE x = "failed" /\ f.of = "execution_failed"
      BY <1>4, <2>1, <2>2, <2>3, <3>2 DEF SettledInv, ThroughInv, Refused, BornOut
    <3>3. x # "closed"
      BY <1>4, <2>3 DEF SettledInv, ThroughInv
    <3> QED
      BY <2>3, <3>1, <3>2, <3>3 DEF Said
  <2>4. ASSUME NEW d \in Deciders, ClickAt(d, "finish"), Asked(d).run = o, f.of = click[d].why
        PROVE  BornOut(r, e)'
    <3>1. click[d].why # "succeeded"
      BY <1>0, <2>4, ClickFields DEF ClickAt, Typed
    <3>2. Refused(o, f.of)
      BY <1>0, <2>4 DEF SaidInv, ClicksBornOut, ClickAt, Asked
    <3> QED
      BY <2>1, <2>2, <2>4, <3>1, <3>2 DEF Refused, BornOut
  <2> QED
    BY <1>3, <2>1, <2>2, <2>3, <2>4
<1> QED
  BY <1>5, <1>6

\* The three together are inductive beside Inv.
LEMMA SettledStep ==
  ASSUME Inv, Inv', SettledInv, [Next]_vars
  PROVE  SettledInv'
BY ThroughStep, DeniedStep, DurableStep DEF SettledInv

\* How the reservation of a session changes hands.
LEMMA ReservationStep ==
  ASSUME SP!Inv, Typed, HandsMatch, AskInv, [Next]_vars, NEW s \in Sessions,
         reservation'[s] # reservation[s]
  PROVE  \/ \E p \in Workers :
              /\ ReserveSession(p) /\ job[p].session = s
              /\ reservation[s] = NoRun /\ reservation'[s] = job[p].run
         \/ /\ reservation'[s] = NoRun
            /\ \/ \E p \in Workers : ReleaseReservation(p) /\ job[p].run = reservation[s]
               \/ \E d \in Deciders : ReleaseAfterDenial(d) /\ Asked(d).run = reservation[s]
               \/ ReservationLapses(s)
<1> DEFINE Goal ==
      \/ \E p \in Workers :
           /\ ReserveSession(p) /\ job[p].session = s
           /\ reservation[s] = NoRun /\ reservation'[s] = job[p].run
      \/ /\ reservation'[s] = NoRun
         /\ \/ \E p \in Workers : ReleaseReservation(p) /\ job[p].run = reservation[s]
            \/ \E d \in Deciders : ReleaseAfterDenial(d) /\ Asked(d).run = reservation[s]
            \/ ReservationLapses(s)
<1>0. reservation \in Shelf
  BY DEF Typed, Shelf
<1>1. ASSUME NEW p \in Workers, ReserveSession(p)
      PROVE  Goal
  <2>1. job[p].session = s /\ reservation[s] \in {NoRun, job[p].run} /\ reservation'[s] = job[p].run
    BY <1>0, <1>1 DEF ReserveSession, Reserve, Shelf
  <2> QED
    BY <1>1, <2>1
<1>2. ASSUME NEW p \in Workers, ReleaseReservation(p)
      PROVE  Goal
  <2>1. reservation[s] = job[p].run /\ reservation'[s] = NoRun
    BY <1>0, <1>2 DEF ReleaseReservation, Release, Shelf
  <2> QED
    BY <1>2, <2>1
<1>3. ASSUME NEW d \in Deciders, ReleaseAfterDenial(d)
      PROVE  Goal
  <2>1. reservation[s] = Asked(d).run /\ reservation'[s] = NoRun
    BY <1>0, <1>3 DEF ReleaseAfterDenial, Release, Shelf
  <2> QED
    BY <1>3, <2>1
<1>4. ASSUME NEW o \in Sessions, ReservationLapses(o)
      PROVE  Goal
  BY <1>0, <1>4 DEF ReservationLapses, Shelf
<1>5. ASSUME NEW p \in Workers, RunnerStep(p), ~ReserveSession(p), ~ReleaseReservation(p)
      PROVE  reservation' = reservation
  BY <1>5 DEF RunnerStep, Poll, EndTurn, Settle, PollContinuation, PollPastContinuation,
     PollFresh, PollNothing, GateCloses, GateOpens, TurnCompletes, TurnThrows, TurnPauses,
     SuspendRun, FailClosed, AnnounceSucceeded, AnnounceFailed, AnnounceRetry,
     AnnounceSuspended, AnnounceRequested, AnnounceClosed, Announce
<1>6. ASSUME NEW d \in Deciders, OpenClick(d) \/ DecisionStep(d), ~ReleaseAfterDenial(d)
      PROVE  reservation' = reservation
  BY <1>6 DEF OpenClick, DecisionStep, Approve, Reject, FindExpired, BeginContinuation,
     FailRun, AnnounceDecided, AnnounceResumed, AnnounceDenied, AnnounceDeniedFinish,
     ClickAnnounce
<1>7. ASSUME \/ \E o \in Sessions : Enqueue(o)
             \/ \E r \in RunIds : Withdraw(r)
             \/ \E q \in Requests : RequestFallsDue(q)
             \/ \E p \in Workers : Crash(p)
             \/ LeaseClock \/ Reap \/ UNCHANGED vars
      PROVE  reservation' = reservation
  BY <1>7 DEF Enqueue, Withdraw, RequestFallsDue, Crash, LeaseClock, Reap, vars
<1> QED
  BY <1>1, <1>2, <1>3, <1>4, <1>5, <1>6, <1>7 DEF Next, Environment

\* What the property says of one session.
LEMMA ReleaseIsDue ==
  ASSUME Inv, SettledInv, [Next]_vars, faults.lapses = 0, NEW s \in Sessions,
         reservation[s] # NoRun, reservation'[s] # reservation[s]
  PROVE  \/ IsSettled(reservation[s])
         \/ \A q \in Requests :
              request[q] # NoRequest /\ request[q].run = reservation[s] => request[q].due
<1>0. SP!Inv /\ Typed /\ HandsMatch /\ AskInv
  BY DEF Inv
<1>1. CASE \E p \in Workers : ReleaseReservation(p) /\ job[p].run = reservation[s]
  BY <1>1 DEF ReleaseReservation, SettledInv, ThroughInv
<1>2. CASE \E d \in Deciders : ReleaseAfterDenial(d) /\ Asked(d).run = reservation[s]
  BY <1>2 DEF ReleaseAfterDenial, ClickAt, Asked, SettledInv, DeniedInv
<1>3. CASE ReservationLapses(s)
  BY <1>3 DEF ReservationLapses
<1> QED
  BY <1>0, <1>1, <1>2, <1>3, ReservationStep

\* Nothing is announced at first.
LEMMA InitSettled == Init => SettledInv
BY DEF Init, SettledInv, ThroughInv, DeniedInv, AnnouncedIsDurable, IdleJob, IdleClick, At

\* They hold of every state the program reaches.
LEMMA SettledHolds == Spec => []SettledInv
<1>1. Inv /\ Inv' /\ SettledInv /\ [Next]_vars => SettledInv'
  BY SettledStep
<1> QED
  BY InvHolds, InitSettled, <1>1, PTL DEF Spec

\* Until a lease lapses, every run.finished event agrees with its row.
THEOREM AnnouncedIsDurableHolds == Spec => []AnnouncedIsDurable
<1>1. SettledInv => AnnouncedIsDurable
  BY DEF SettledInv
<1> QED
  BY SettledHolds, <1>1, PTL

\* Until a lease lapses, a reservation is given up only when its TTL has passed
\* or once its run is over and its end is in the log.
THEOREM ReleasedAfterFinishHolds == Spec => ReleasedAfterFinish
<1> DEFINE Due(r) == \A q \in Requests :
                       request[q] # NoRequest /\ request[q].run = r => request[q].due
           A == faults.lapses = 0 =>
                  \A s \in Sessions :
                    LET r == reservation[s]
                    IN  (r # NoRun /\ reservation'[s] # r)
                        => \/ Closed(r) /\ rows[r] # NoRow /\ IsTerminalTarget(rows[r])
                           \/ Due(r)
<1>1. Inv /\ SettledInv /\ [Next]_vars => A
  BY ReleaseIsDue DEF IsSettled, IsDone
<1>2. Inv /\ SettledInv /\ [Next]_vars => [A]_vars
  BY <1>1
<1> QED
  BY InvHolds, SettledHolds, <1>2, PTL DEF Spec, ReleasedAfterFinish

-----------------------------------------------------------------------------
(* What becomes of a suspended run.                                        *)

\* A run is suspended by the process that executes it, on its own request.
SuspendedBy(r, p) ==
  LET q == job[p].request
  IN  /\ SuspendRun(p) /\ job[p].run = r /\ q \in Requests /\ request[q] # NoRequest
      /\ rows[r] # NoRow /\ rows[r].target = "running" /\ rows'[r] # NoRow
      /\ rows'[r].target = "awaiting_approval" /\ rows'[r].session = rows[r].session
      /\ rows'[r].pendingApproval = [request |-> q, command |-> request[q].command]

\* A decision resumes or fails it.
DecidedBy(r, d) ==
  /\ BeginContinuation(d) \/ FailRun(d)
  /\ Asked(d).run = r
  /\ rows[r] # NoRow /\ rows[r].target = "awaiting_approval"
  /\ rows'[r] # NoRow /\ rows'[r].target \in {"running", "failed"}
  /\ rows'[r].session = rows[r].session
  /\ rows'[r].pendingApproval = rows[r].pendingApproval
  /\ rows'[r].target = "running" =>
       BeginContinuation(d) /\ rows'[r].lastCommand = Asked(d).command

\* It comes in time.
Decides(d) ==
  \/ BeginContinuation(d) /\ MayBegin(d)
  \/ FailRun(d) /\ MayFail(d)

\* What a suspension writes.
LEMMA SuspendRows ==
  ASSUME SP!Inv, Typed, HandsMatch, AskInv, NEW p \in Workers, SuspendRun(p)
  PROVE  /\ SuspendedBy(job[p].run, p)
         /\ \A o \in RunIds \ {job[p].run} : rows'[o] = rows[o]
<1> DEFINE q == job[p].request
<1>1. /\ q \in Requests /\ request[q] # NoRequest
      /\ handle[p] # NoHandle /\ handle[p].run = job[p].run
  BY JobFields DEF SuspendRun, At, Typed, AskInv, UnseenInv, Asking, HandsMatch, Holding
<1>2. PICK r \in RunIds : r = handle[p].run
  BY <1>1, RowFacts
<1>3. PICK a \in Approval : a = [request |-> q, command |-> request[q].command]
  BY <1>1, RequestFields DEF Approval
<1>4. Store!SuspendForApproval(p, a)
  BY <1>3 DEF SuspendRun
<1> DEFINE new == Suspended(rows[r], a)
<1>5. /\ Store!Owns(p) /\ new \in Row /\ new.target = "awaiting_approval"
      /\ new.pendingApproval = a /\ new.session = rows[r].session
      /\ rows' = [rows EXCEPT ![r] = new]
  BY <1>2, <1>4, SuspendWrites DEF Alone
<1>6. rows[r] # NoRow /\ rows[r].target = "running" /\ new # NoRow
  BY <1>2, <1>5, OwnedRow, NoRowAssumption
<1> HIDE DEF new
<1> QED
  BY <1>1, <1>2, <1>3, <1>5, <1>6, RowFacts DEF SuspendedBy

\* What a decision writes: the run it asked for, if that run awaits it.
LEMMA DecisionRows ==
  ASSUME SP!Inv, Typed, AskInv, NEW d \in Deciders, BeginContinuation(d) \/ FailRun(d)
  PROVE  \/ ~Decides(d) /\ rows' = rows
         \/ /\ Decides(d) /\ DecidedBy(Asked(d).run, d)
            /\ \A o \in RunIds \ {Asked(d).run} : rows'[o] = rows[o]
<1>1. PICK r \in RunIds : r = Asked(d).run
  BY AskedFields DEF BeginContinuation, FailRun, ClickAt
<1>2. rows \in [RunIds -> Row \cup {NoRow}]
  BY RowFacts
<1>3. CASE BeginContinuation(d) /\ MayBegin(d)
  <2>1. PICK c \in Commands : c = Asked(d).command
    BY <1>3, AskedFields DEF BeginContinuation, ClickAt
  <2> DEFINE new == Resumed(rows[r], c)
  <2>2. /\ rows[r] # NoRow /\ rows[r].target = "awaiting_approval"
        /\ new \in Row /\ new.target = "running" /\ new.session = rows[r].session
        /\ new.pendingApproval = rows[r].pendingApproval /\ new.lastCommand = c
        /\ rows' = [rows EXCEPT ![r] = new]
    BY <1>1, <1>3, <2>1, DecisionWrites DEF BeginContinuation, Alone
  <2> HIDE DEF new
  <2> QED
    BY <1>1, <1>2, <1>3, <2>1, <2>2, NoRowAssumption DEF DecidedBy, Decides
<1>4. CASE FailRun(d) /\ MayFail(d)
  <2>1. PICK why \in FailureReasons : why = click[d].why
    BY <1>4, ClickFields DEF FailRun, ClickAt, Typed, FailureReasons
  <2> DEFINE new == FailedFromApproval(rows[r], why)
  <2>2. /\ rows[r] # NoRow /\ rows[r].target = "awaiting_approval"
        /\ new \in Row /\ new.target = "failed" /\ new.session = rows[r].session
        /\ rows' = [rows EXCEPT ![r] = new]
    BY <1>1, <1>4, <2>1, DecisionWrites DEF FailRun, Alone
  <2>3. new.pendingApproval = rows[r].pendingApproval
    BY <1>2, <2>2 DEF FailedFromApproval, Row
  <2> HIDE DEF new
  <2> QED
    BY <1>1, <1>2, <1>4, <2>2, <2>3, NoRowAssumption DEF DecidedBy, Decides
<1> QED
  BY <1>3, <1>4 DEF Decides, BeginContinuation, FailRun, storeVars

\* Every step, as one row sees it.
LEMMA RowStep ==
  ASSUME SP!Inv, Typed, HandsMatch, AskInv, [Next]_vars, NEW r \in RunIds
  PROVE  \/ Quiet(r)
         \/ \E p \in Workers : SuspendedBy(r, p)
         \/ \E d \in Deciders : DecidedBy(r, d)
<1>1. CASE rows' = rows
  BY <1>1 DEF Quiet
<1>2. ASSUME NEW p \in Workers, RunnerStep(p)
      PROVE  Quiet(r) \/ SuspendedBy(r, p)
  <2>1. CASE SuspendRun(p)
    BY <2>1, SuspendRows DEF Quiet
  <2>2. CASE PollContinuation(p)
    BY <2>2, QuietClaim DEF PollContinuation
  <2>3. ASSUME NEW q \in Requests, NEW c \in Commands, TurnPauses(p, q, c)
        PROVE  Quiet(r)
    BY <2>3 DEF TurnPauses, storeVars, Quiet
  <2> QED
    BY <1>2, <2>1, <2>2, <2>3, PlodsQuietly DEF Plods
<1>3. ASSUME NEW d \in Deciders, OpenClick(d) \/ DecisionStep(d)
      PROVE  Quiet(r) \/ DecidedBy(r, d)
  <2>1. CASE OpenClick(d)
    BY <2>1 DEF OpenClick, Approve, Reject, FindExpired, storeVars, Quiet
  <2>2. CASE ClickTells(d)
    BY <2>2, TellsOn DEF Quiet
  <2>3. CASE BeginContinuation(d) \/ FailRun(d)
    BY <2>3, DecisionRows DEF Quiet
  <2> QED
    BY <1>3, <2>1, <2>2, <2>3 DEF DecisionStep, ClickTells
<1>4. CASE \/ \E s \in Sessions : Enqueue(s)
           \/ \E o \in RunIds : Withdraw(o)
           \/ LeaseClock
  BY <1>4, QuietRest DEF Enqueue, Withdraw, LeaseClock
<1>5. CASE Reap
  BY <1>5, QuietSweep DEF Reap
<1>6. CASE \/ \E s \in Sessions : ReservationLapses(s)
           \/ \E q \in Requests : RequestFallsDue(q)
           \/ UNCHANGED vars
  BY <1>6 DEF ReservationLapses, RequestFallsDue, vars, storeVars, Quiet
<1>7. ASSUME NEW p \in Workers, Crash(p)
      PROVE  Quiet(r)
  BY <1>7, CrashMoves DEF Quiet
<1> QED
  BY <1>2, <1>3, <1>4, <1>5, <1>6, <1>7 DEF Next, Environment

\* A request is decided by a click that found it undecided, or lost with its
\* process.
LEMMA StatusStep ==
  ASSUME SP!Inv, Typed, HandsMatch, AskInv, [Next]_vars, NEW q \in Requests, request[q] # NoRequest
  PROVE  /\ request'[q] # NoRequest /\ request'[q].home = request[q].home
         /\ request'[q].command = request[q].command /\ request'[q].run = request[q].run
         /\ \/ request'[q].status = request[q].status
            \/ /\ request'[q].status = "lost"
               /\ \E p \in Workers : Crash(p) /\ request[q].home = p
            \/ /\ request[q].status = "pending" /\ q \in shown
               /\ \E d \in Deciders :
                    click'[d].at \in {"begin", "fail"} /\ click'[d].request = q
<1> DEFINE Goal == \/ request'[q].status = request[q].status
                   \/ /\ request'[q].status = "lost"
                      /\ \E p \in Workers : Crash(p) /\ request[q].home = p
                   \/ /\ request[q].status = "pending" /\ q \in shown
                      /\ \E d \in Deciders :
                           click'[d].at \in {"begin", "fail"} /\ click'[d].request = q
<1>1. /\ request'[q] # NoRequest /\ request'[q].home = request[q].home
      /\ request'[q].command = request[q].command /\ request'[q].run = request[q].run
  BY RequestStep, RequestAssumption DEF RequestMoves
<1>2. CASE request'[q] = request[q]
  BY <1>2
<1>3. ASSUME NEW d \in Deciders, NEW o \in Requests, Approve(d, o) \/ Reject(d, o)
      PROVE  Goal
  <2>1. CASE o = q
    <3>1. request[q].status = "pending" /\ q \in shown
      BY <1>3, <2>1 DEF Approve, Reject, Undecided, Opens
    <3>2. click'[d].at \in {"begin", "fail"} /\ click'[d].request = q
      BY <1>3, <2>1 DEF Approve, Reject, Typed
    <3> QED
      BY <3>1, <3>2
  <2>2. CASE o # q
    BY <1>2, <1>3, <2>2 DEF Approve, Reject, Typed
  <2> QED
    BY <2>1, <2>2
<1>4. ASSUME NEW p \in Workers, Crash(p)
      PROVE  Goal
  <2>1. CASE q \in Homeless(p)
    <3>1. request[q] \in ApprovalRequest /\ request'[q] = [request[q] EXCEPT !.status = "lost"]
          /\ request[q].home = p
      BY <1>4, <2>1, RequestFields DEF Crash, Homeless
    <3>2. request'[q].status = "lost"
      BY <3>1 DEF ApprovalRequest
    <3> QED
      BY <1>4, <3>1, <3>2
  <2>2. CASE q \notin Homeless(p)
    BY <1>2, <1>4, <2>2 DEF Crash
  <2> QED
    BY <2>1, <2>2
<1>5. ASSUME NEW o \in Requests, RequestFallsDue(o)
      PROVE  Goal
  <2>1. request[q] \in ApprovalRequest
    BY RequestFields
  <2>2. request'[q] = IF q = o THEN [request[q] EXCEPT !.due = TRUE] ELSE request[q]
    BY <1>5 DEF RequestFallsDue, Typed
  <2> QED
    BY <2>1, <2>2 DEF ApprovalRequest
<1>6. ASSUME NEW p \in Workers, NEW o \in Requests, NEW c \in Commands, TurnPauses(p, o, c)
      PROVE  Goal
  BY <1>2, <1>6 DEF TurnPauses, Typed
<1>7. ASSUME NEW p \in Workers, RunnerStep(p),
             ~\E o \in Requests, c \in Commands : TurnPauses(p, o, c)
      PROVE  request' = request
  BY <1>7 DEF RunnerStep, Poll, EndTurn, Settle, PollContinuation, PollPastContinuation,
     PollFresh, PollNothing, GateCloses, GateOpens, TurnCompletes, TurnThrows,
     ReserveSession, SuspendRun, FailClosed, AnnounceSucceeded, AnnounceFailed,
     AnnounceRetry, AnnounceSuspended, AnnounceRequested, AnnounceClosed, Announce,
     ReleaseReservation
<1>8. ASSUME NEW d \in Deciders, DecisionStep(d) \/ (\E o \in Requests : FindExpired(d, o))
      PROVE  request' = request
  BY <1>8 DEF DecisionStep, FindExpired, BeginContinuation, FailRun, AnnounceDecided,
     AnnounceResumed, AnnounceDenied, AnnounceDeniedFinish, ClickAnnounce, ReleaseAfterDenial
<1>9. ASSUME \/ \E s \in Sessions : Enqueue(s) \/ ReservationLapses(s)
             \/ \E r \in RunIds : Withdraw(r)
             \/ LeaseClock \/ Reap \/ UNCHANGED vars
      PROVE  request' = request
  BY <1>9 DEF Enqueue, ReservationLapses, Withdraw, LeaseClock, Reap, vars
<1>10. Goal
  BY <1>2, <1>3, <1>4, <1>5, <1>6, <1>7, <1>8, <1>9 DEF Next, Environment, OpenClick
<1> QED
  BY <1>1, <1>10

\* A process asks what it asked, or what its turn has just paused on.
LEMMA AskingStep ==
  ASSUME SP!Inv, Typed, HandsMatch, AskInv, [Next]_vars, NEW p \in Workers
  PROVE  \/ AsksOn(p)
         \/ \E q \in Requests, c \in Commands : TurnPauses(p, q, c)
<1>1. ASSUME NEW v \in Workers, RunnerStep(v)
      PROVE  AsksOn(p) \/ \E q \in Requests, c \in Commands : TurnPauses(p, q, c)
  <2>1. CASE v # p
    <3>1. job'[p] = job[p]
      BY <1>1, <2>1, RunnerMoves DEF Steps, Typed
    <3> QED
      BY <3>1 DEF AsksOn, Asking
  <2>2. CASE v = p
    BY <1>1, <2>2, RunnerAsksOn
  <2> QED
    BY <2>1, <2>2
<1>2. ASSUME NEW v \in Workers, Crash(v)
      PROVE  AsksOn(p)
  BY <1>2, CrashMoves DEF Steps, AsksOn, Asking, Typed
<1>3. CASE ~\E v \in Workers : RunnerStep(v) \/ Crash(v)
  BY <1>3, OthersMove DEF AsksOn, Asking
<1> QED
  BY <1>1, <1>2, <1>3

\* A click that has decided goes on to its run, or dies with the request.
LEMMA DecidingStep ==
  ASSUME SP!Inv, Typed, HandsMatch, AskInv, [Next]_vars, NEW d \in Deciders,
         click[d].at \in {"begin", "fail"}
  PROVE  \/ click'[d] = click[d]
         \/ BeginContinuation(d) \/ FailRun(d)
         \/ request'[click[d].request].status = "lost"
<1> DEFINE Goal == \/ click'[d] = click[d]
                   \/ BeginContinuation(d) \/ FailRun(d)
                   \/ request'[click[d].request].status = "lost"
<1>1. ASSUME NEW e \in Deciders, OpenClick(e) \/ DecisionStep(e)
      PROVE  Goal
  <2>1. CASE e # d
    BY <1>1, <2>1, DecisionTypes DEF Typed
  <2>2. CASE e = d
    <3>1. ~OpenClick(d)
      BY DEF OpenClick, Approve, Reject, FindExpired, Opens, ClickAt
    <3>2. ~ClickTells(d)
      BY DEF ClickTells, AnnounceDecided, AnnounceResumed, AnnounceDenied, AnnounceDeniedFinish,
         ClickAnnounce, ReleaseAfterDenial, ClickAt
    <3> QED
      BY <1>1, <2>2, <3>1, <3>2 DEF DecisionStep, ClickTells
  <2> QED
    BY <2>1, <2>2
<1>2. ASSUME NEW p \in Workers, RunnerStep(p)
      PROVE  Goal
  BY <1>2, RunnerTypes
<1>3. ASSUME NEW p \in Workers, Crash(p)
      PROVE  Goal
  <2> DEFINE q == click[d].request
  <2>1. CASE d \in LostClicks(p)
    <3>1. q \in Homeless(p) /\ q \in Requests /\ request[q] \in ApprovalRequest
      BY <2>1, RequestFields DEF LostClicks, Homeless
    <3>2. request'[q] = [request[q] EXCEPT !.status = "lost"]
      BY <1>3, <3>1 DEF Crash
    <3> QED
      BY <3>1, <3>2 DEF ApprovalRequest
  <2>2. CASE d \notin LostClicks(p)
    BY <1>3, <2>2 DEF Crash
  <2> QED
    BY <2>1, <2>2
<1>4. ASSUME \/ \E s \in Sessions : Enqueue(s) \/ ReservationLapses(s)
             \/ \E r \in RunIds : Withdraw(r)
             \/ \E q \in Requests : RequestFallsDue(q)
             \/ LeaseClock \/ Reap \/ UNCHANGED vars
      PROVE  click' = click
  BY <1>4 DEF Enqueue, ReservationLapses, Withdraw, RequestFallsDue, LeaseClock, Reap, vars
<1> QED
  BY <1>1, <1>2, <1>3, <1>4 DEF Next, Environment

\* A request nobody has seen is undecided, in the memory of the process that asks.
AskedAtHome ==
  \A p \in Workers : Asking(p) =>
    request[job[p].request].home = p /\ request[job[p].request].status = "pending"

\* A row names the command of its request.
CommandsMatch ==
  \A r \in Present(rows) : rows[r].pendingApproval # NoApproval =>
    rows[r].pendingApproval.command = request[rows[r].pendingApproval.request].command

\* The user approves requests shown; the command a run was resumed with last is
\* that of a request of it that was approved, and that it awaits no longer.
ApprovedShown == approved \subseteq shown
ResumedWith(r, q) ==
  q \in approved /\ request[q].run = r /\ request[q].command = rows[r].lastCommand
LastApproved ==
  \A r \in Present(rows) : rows[r].lastCommand # NoCommand =>
    \E q \in approved : ResumedWith(r, q) /\ ~Parked(q)

UndecidedInv ==
  AskedAtHome /\ CommandsMatch /\ ApprovedShown /\ LastApproved /\ AwaitingCanBeDecided

\* A request stays in the registry of the process that executes its run.
LEMMA AskedAtHomeStep ==
  ASSUME Inv, AskedAtHome, [Next]_vars
  PROVE  AskedAtHome'
<1>0. SP!Inv /\ Typed /\ HandsMatch /\ AskInv
  BY DEF Inv
<1> SUFFICES ASSUME NEW p \in Workers, Asking(p)'
             PROVE  /\ request'[job'[p].request].home = p
                    /\ request'[job'[p].request].status = "pending"
  BY DEF AskedAtHome
<1>1. CASE AsksOn(p)
  <2>1. Asking(p) /\ job'[p].request = job[p].request
    BY <1>1 DEF AsksOn
  <2>2. PICK q \in Requests : q = job[p].request
    BY <1>0, <2>1, JobFields DEF Asking, Typed
  <2>3. /\ q \notin shown /\ request[q] # NoRequest
        /\ request[q].home = p /\ request[q].status = "pending"
    BY <1>0, <2>1, <2>2 DEF AskInv, UnseenInv, AskedAtHome
  <2>4. ~Crash(p)
    <3>1. Crash(p) => job'[p].at = "idle"
      BY <1>0, CrashMoves
    <3> QED
      BY <3>1 DEF Asking
  <2> QED
    BY <1>0, <2>1, <2>2, <2>3, <2>4, StatusStep
<1>2. ASSUME NEW q \in Requests, NEW c \in Commands, TurnPauses(p, q, c)
      PROVE  /\ request'[job'[p].request].home = p
             /\ request'[job'[p].request].status = "pending"
  <2>1. job'[p].request = q
    BY <1>0, <1>2 DEF TurnPauses, Typed
  <2> QED
    BY <1>0, <1>2, <2>1 DEF TurnPauses, Typed
<1> QED
  BY <1>0, <1>1, <1>2, AskingStep

\* The row keeps the command of the request it awaits.
LEMMA CommandsMatchStep ==
  ASSUME Inv, CommandsMatch, [Next]_vars
  PROVE  CommandsMatch'
<1>0. SP!Inv /\ Typed /\ HandsMatch /\ AskInv
  BY DEF Inv
<1> SUFFICES ASSUME NEW r \in RunIds, rows'[r] # NoRow, rows'[r].pendingApproval # NoApproval
             PROVE  rows'[r].pendingApproval.command =
                      request'[rows'[r].pendingApproval.request].command
  BY DEF CommandsMatch, Present
<1>1. CASE rows[r] # NoRow /\ rows'[r].pendingApproval = rows[r].pendingApproval
  <2>1. PICK q \in shown : q = rows[r].pendingApproval.request
    BY <1>0, <1>1 DEF AskInv, RowsAsk, Present
  <2>2. q \in Requests /\ request[q] # NoRequest
    BY <1>0, <2>1 DEF AskInv, UnseenInv, Typed
  <2>3. rows[r].pendingApproval.command = request[q].command
    BY <1>1, <2>1 DEF CommandsMatch, Present
  <2> QED
    BY <1>0, <1>1, <2>1, <2>2, <2>3, StatusStep
<1>2. ASSUME NEW p \in Workers, SuspendedBy(r, p)
      PROVE  rows'[r].pendingApproval.command =
               request'[rows'[r].pendingApproval.request].command
  BY <1>2 DEF SuspendedBy, SuspendRun
<1>3. ASSUME Quiet(r) \/ \E d \in Deciders : DecidedBy(r, d)
      PROVE  rows[r] # NoRow /\ rows'[r].pendingApproval = rows[r].pendingApproval
  BY <1>3 DEF Quiet, MovesOn, DecidedBy
<1> QED
  BY <1>0, <1>1, <1>2, <1>3, RowStep

\* What has been shown stays shown, what has been approved stays approved.
LEMMA ApprovedShownStep ==
  ASSUME SP!Inv, Typed, HandsMatch, AskInv, ApprovedShown, [Next]_vars
  PROVE  approved \subseteq approved' /\ shown \subseteq shown' /\ ApprovedShown'
<1> DEFINE Goal == approved \subseteq approved' /\ shown \subseteq shown' /\ ApprovedShown'
<1>1. ASSUME approved' = approved, shown \subseteq shown'
      PROVE  Goal
  BY <1>1 DEF ApprovedShown
<1>2. ASSUME NEW p \in Workers, RunnerStep(p)
      PROVE  Goal
  <2>1. approved' = approved
    BY <1>2, RunnerTypes
  <2>2. shown \subseteq shown'
    BY <1>2 DEF RunnerStep, Poll, EndTurn, Settle, PollContinuation, PollPastContinuation,
       PollFresh, PollNothing, GateCloses, GateOpens, TurnCompletes, TurnThrows, TurnPauses,
       ReserveSession, SuspendRun, FailClosed, AnnounceSucceeded, AnnounceFailed,
       AnnounceRetry, AnnounceSuspended, AnnounceRequested, AnnounceClosed, Announce,
       ReleaseReservation
  <2> QED
    BY <1>1, <2>1, <2>2
<1>3. ASSUME NEW d \in Deciders, DecisionStep(d)
      PROVE  Goal
  BY <1>1, <1>3 DEF DecisionStep, BeginContinuation, FailRun, AnnounceDecided,
     AnnounceResumed, AnnounceDenied, AnnounceDeniedFinish, ClickAnnounce, ReleaseAfterDenial
<1>4. ASSUME NEW d \in Deciders, OpenClick(d)
      PROVE  Goal
  BY <1>4 DEF OpenClick, Approve, Reject, FindExpired, Opens, ApprovedShown
<1>5. ASSUME Environment \/ UNCHANGED vars
      PROVE  Goal
  BY <1>1, <1>5, OthersTypes DEF vars
<1> QED
  BY <1>2, <1>3, <1>4, <1>5 DEF Next

\* An approved request stays the one its run was resumed with.
LEMMA ResumedWithStays ==
  ASSUME SP!Inv, Typed, HandsMatch, AskInv, ApprovedShown, [Next]_vars,
         NEW r \in RunIds, NEW q \in approved, ResumedWith(r, q),
         rows'[r].lastCommand = rows[r].lastCommand
  PROVE  ResumedWith(r, q)' /\ request'[q].run = request[q].run
<1>1. q \in Requests /\ request[q] # NoRequest
  BY DEF AskInv, UnseenInv, Typed, ApprovedShown
<1>2. request'[q].command = request[q].command /\ request'[q].run = request[q].run
  BY <1>1, StatusStep
<1>3. q \in approved'
  BY ApprovedShownStep
<1> QED
  BY <1>2, <1>3 DEF ResumedWith

\* A run is resumed with the command of the request it awaits.
LEMMA LastApprovedStep ==
  ASSUME Inv, UndecidedInv, [Next]_vars
  PROVE  LastApproved'
<1>0. SP!Inv /\ Typed /\ HandsMatch /\ AskInv /\ ApprovedShown /\ LastApproved
  BY DEF Inv, UndecidedInv
<1> SUFFICES ASSUME NEW r \in RunIds, rows'[r] # NoRow, rows'[r].lastCommand # NoCommand
             PROVE  \E q \in approved' : ResumedWith(r, q)' /\ ~Parked(q)'
  BY DEF LastApproved, Present
<1>1. /\ rows[r] # NoRow
      /\ \/ rows'[r].lastCommand = rows[r].lastCommand
         \/ rows[r].target = "awaiting_approval" /\ rows'[r].target = "running"
  BY <1>0, StepOfStore, SP!CommandsStay, StoreAssumptions, CountsAssumption
     DEF SP!RunIds, RunIds
<1>2. CASE rows'[r].lastCommand = rows[r].lastCommand
  <2>1. PICK q \in approved : ResumedWith(r, q) /\ ~Parked(q)
    BY <1>0, <1>1, <1>2 DEF LastApproved, Present
  <2>2. ResumedWith(r, q)' /\ request'[q].run = r /\ q \in approved'
    BY <1>0, <1>2, <2>1, ResumedWithStays DEF ResumedWith
  <2>3. ASSUME rows'[r].target = "awaiting_approval"
        PROVE  rows'[r].pendingApproval.request # q
    <3>1. CASE Quiet(r)
      BY <1>1, <2>1, <2>3, <3>1 DEF Quiet, MovesOn, Parked, ResumedWith
    <3>2. ASSUME NEW p \in Workers, SuspendedBy(r, p)
          PROVE  rows'[r].pendingApproval.request # q
      <4>1. job[p].request \notin shown /\ rows'[r].pendingApproval.request = job[p].request
        BY <1>0, <3>2 DEF SuspendedBy, SuspendRun, At, Asking, AskInv, UnseenInv
      <4> QED
        BY <1>0, <4>1 DEF ApprovedShown
    <3>3. ~\E d \in Deciders : DecidedBy(r, d)
      BY <2>3 DEF DecidedBy
    <3> QED
      BY <1>0, <3>1, <3>2, <3>3, RowStep
  <2>4. ~Parked(q)'
    BY <2>2, <2>3 DEF Parked
  <2> QED
    BY <2>2, <2>4
<1>3. CASE rows[r].target = "awaiting_approval" /\ rows'[r].target = "running"
  <2>1. PICK d \in Deciders : DecidedBy(r, d)
    BY <1>0, <1>3, RowStep DEF Quiet, MovesOn, SuspendedBy
  <2>2. /\ click[d].at = "begin" /\ Asked(d).run = r
        /\ rows'[r].lastCommand = Asked(d).command
    BY <1>3, <2>1 DEF DecidedBy, BeginContinuation, ClickAt
  <2>3. PICK q \in approved : q = click[d].request
    BY <1>0, <2>2 DEF AskInv, ClicksInv
  <2>4. q \in Requests /\ request[q] # NoRequest
    BY <1>0, <2>3 DEF AskInv, UnseenInv, Typed, ApprovedShown
  <2>5. request'[q].command = Asked(d).command /\ request'[q].run = r
    BY <1>0, <2>2, <2>3, <2>4, StatusStep DEF Asked
  <2>6. q \in approved'
    BY <1>0, ApprovedShownStep
  <2>7. ResumedWith(r, q)' /\ ~Parked(q)'
    BY <1>3, <2>2, <2>5, <2>6 DEF ResumedWith, Parked
  <2> QED
    BY <2>6, <2>7
<1> QED
  BY <1>1, <1>2, <1>3

\* A run that awaits the command it was resumed with last asks for it again.
LEMMA RepeatsAsksAgain ==
  ASSUME LastApproved, NEW r \in RunIds, rows[r] # NoRow,
         rows[r].target = "awaiting_approval", rows[r].pendingApproval.command # NoCommand,
         rows[r].pendingApproval.command = rows[r].lastCommand
  PROVE  AsksAgain(r)
<1>1. PICK q \in approved : ResumedWith(r, q) /\ ~Parked(q)
  BY DEF LastApproved, Present
<1>2. q # rows[r].pendingApproval.request
  BY <1>1 DEF Parked, ResumedWith
<1> QED
  BY <1>1, <1>2 DEF ResumedWith, AsksAgain

\* A suspended run that asks again does so until it is decided.
LEMMA AsksAgainStays ==
  ASSUME SP!Inv, Typed, HandsMatch, AskInv, ApprovedShown, [Next]_vars,
         NEW r \in RunIds, rows'[r] = rows[r], AsksAgain(r)
  PROVE  AsksAgain(r)'
<1> DEFINE asked == rows[r].pendingApproval
<1>1. PICK q \in approved : /\ q # asked.request /\ request[q].run = r
                            /\ request[q].command = asked.command
  BY DEF AsksAgain
<1>2. q \in Requests /\ request[q] # NoRequest
  BY <1>1 DEF AskInv, UnseenInv, Typed, ApprovedShown
<1>3. request'[q].command = asked.command /\ request'[q].run = r
  BY <1>1, <1>2, StatusStep
<1>4. q \in approved'
  BY ApprovedShownStep
<1> QED
  BY <1>1, <1>3, <1>4 DEF AsksAgain

\* Whoever decides a request last moves its run, and suspends none undecidable.
LEMMA AwaitingStep ==
  ASSUME Inv, UndecidedInv, [Next]_vars
  PROVE  AwaitingCanBeDecided'
<1>0. SP!Inv /\ Typed /\ HandsMatch /\ AskInv /\ ApprovedShown /\ LastApproved
  BY DEF Inv, UndecidedInv
<1> DEFINE CanBe(q) == \/ request'[q].status \in {"pending", "lost"}
                       \/ \E d \in Deciders :
                            click'[d].at \in {"begin", "fail"} /\ click'[d].request = q
<1>1. SUFFICES ASSUME NEW r \in RunIds, rows'[r] # NoRow, rows'[r].target = "awaiting_approval",
                      ~AsksAgain(r)'
               PROVE  CanBe(rows'[r].pendingApproval.request)
  BY DEF AwaitingCanBeDecided, Present
<1>2. ASSUME Quiet(r)
      PROVE  CanBe(rows'[r].pendingApproval.request)
  <2>1. rows'[r] = rows[r]
    BY <1>1, <1>2 DEF Quiet, MovesOn
  <2>2. rows[r].pendingApproval # NoApproval
    BY <1>0, <1>1, <2>1, RowFacts
  <2>3. PICK q \in shown : q = rows[r].pendingApproval.request /\ request[q].run = r
    BY <1>0, <1>1, <2>1, <2>2 DEF AskInv, RowsAsk, Present
  <2>9. ~AsksAgain(r)
    BY <1>0, <1>1, <2>1, AsksAgainStays
  <2>10. rows[r].pendingApproval.command # rows[r].lastCommand
    <3>1. rows[r] \in Row
      BY <1>0, <1>1, <2>1, RowFacts
    <3>2. rows[r].pendingApproval.command # NoCommand
      BY <2>2, <3>1, RowFields, AbsenceAssumption
    <3> QED
      BY <1>0, <1>1, <2>1, <2>9, <3>2, RepeatsAsksAgain
  <2>4. q \in Requests /\ request[q] # NoRequest
    BY <1>0, <2>3 DEF AskInv, UnseenInv, Typed
  <2>5. rows[r].pendingApproval.command = request[q].command
    BY <1>1, <2>1, <2>2, <2>3 DEF UndecidedInv, CommandsMatch, Present
  <2>6. CASE request[q].status \in {"pending", "lost"}
    BY <1>0, <2>1, <2>3, <2>4, <2>6, StatusStep
  <2>7. ASSUME NEW d \in Deciders, click[d].at \in {"begin", "fail"}, click[d].request = q
        PROVE  CanBe(q)
    <3>1. Asked(d).run = r /\ Asked(d).command = request[q].command
      BY <2>3, <2>7 DEF Asked
    <3>2. ASSUME BeginContinuation(d) \/ FailRun(d)
          PROVE  FALSE
      <4>1. MayBegin(d) /\ MayFail(d)
        BY <1>1, <2>1, <2>5, <2>10, <3>1 DEF MayBegin, MayFail, Present, Resumable
      <4>2. DecidedBy(r, d)
        BY <1>0, <3>1, <3>2, <4>1, DecisionRows DEF Decides
      <4> QED
        BY <1>1, <4>2 DEF DecidedBy
    <3> QED
      BY <1>0, <2>7, <3>2, DecidingStep
  <2>8. \/ request[q].status \in {"pending", "lost"}
        \/ \E d \in Deciders : click[d].at \in {"begin", "fail"} /\ click[d].request = q
    BY <1>1, <2>1, <2>3, <2>9 DEF UndecidedInv, AwaitingCanBeDecided, Present
  <2> QED
    BY <2>1, <2>3, <2>6, <2>7, <2>8
<1>3. ASSUME NEW p \in Workers, SuspendedBy(r, p)
      PROVE  CanBe(rows'[r].pendingApproval.request)
  <2>1. /\ rows'[r].pendingApproval.request = job[p].request
        /\ request' = request /\ Asking(p)
    BY <1>3 DEF SuspendedBy, SuspendRun, At, Asking
  <2> QED
    BY <2>1 DEF UndecidedInv, AskedAtHome
<1>4. ~\E d \in Deciders : DecidedBy(r, d)
  BY <1>1 DEF DecidedBy
<1> QED
  BY <1>0, <1>2, <1>3, <1>4, RowStep

\* A suspended run can be decided in every state the program reaches.
LEMMA UndecidedHolds == Spec => []UndecidedInv
<1>1. Init => UndecidedInv
  BY DEF Init, UndecidedInv, AskedAtHome, CommandsMatch, AwaitingCanBeDecided, Asking, IdleJob,
     ApprovedShown, LastApproved,
     Store!Init, Store!RunIds, RunIds, Present
<1>2. Inv /\ UndecidedInv /\ [Next]_vars => UndecidedInv'
  BY AskedAtHomeStep, CommandsMatchStep, ApprovedShownStep, LastApprovedStep, AwaitingStep
     DEF UndecidedInv, Inv
<1> QED
  BY InvHolds, <1>1, <1>2, PTL DEF Spec

\* A suspended run can still be decided, unless the process that held its request
\* died, or it asks again for a command it was approved for.
THEOREM AwaitingCanBeDecidedHolds == Spec => []AwaitingCanBeDecided
<1>1. UndecidedInv => AwaitingCanBeDecided
  BY DEF UndecidedInv
<1> QED
  BY UndecidedHolds, <1>1, PTL

-----------------------------------------------------------------------------
(* The session behind the reservation.                                     *)

\* A run that has an approval ahead of it, or just behind.
Engaged(row) == row.target = "awaiting_approval" \/ ContinuationClaimable(row)

\* A process that has a run on its mind and has not suspended it.
Busy(p) == job[p].at \notin {"idle", "fresh", "suspended", "requested"}

\* Until one of its requests falls due an engaged run holds its session.
EngagedHold ==
  \A r \in Present(rows) : Engaged(rows[r]) /\ NoneDue(r) => reservation[rows[r].session] = r

\* What a process holds is known to the store, with its session.
HandsKnown ==
  \A p \in Workers : job[p].at \in Holding =>
    /\ job[p].run <= created
    /\ rows[job[p].run] # NoRow => job[p].session = rows[job[p].run].session

\* What is reserved of the session of the run in hand.
GatePassed ==
  \A p \in Workers :
    LET r == job[p].run
        held == reservation[job[p].session]
    IN  /\ At(p, "turn") /\ (~job[p].resumes \/ NoneDue(r)) => held \in {NoRun, r}
        /\ At(p, "reserve") /\ NoneDue(r) => held \in {NoRun, r}
        /\ /\ At(p, "suspend") /\ NoneDue(r)
           /\ rows[r] # NoRow /\ ~IsTerminalTarget(rows[r])
           => held = r

\* Nobody decides on a run a process still has on its mind.
BusyAlone ==
  \A p \in Workers : Busy(p) /\ rows[job[p].run] # NoRow => ~Engaged(rows[job[p].run])

ReservedInv == EngagedHold /\ HandsKnown /\ GatePassed /\ BusyAlone

\* Requests only grow old.
LEMMA DueStays ==
  ASSUME Typed, AskInv, [Next]_vars, NEW r \in RunIds, NoneDue(r)'
  PROVE  NoneDue(r)
<1>1. ASSUME NEW q \in Requests, request[q] # NoRequest, request[q].run = r
      PROVE  ~request[q].due
  <2>1. request'[q] # NoRequest /\ request'[q].run = r /\ (request[q].due => request'[q].due)
    BY <1>1, RequestStep, RequestAssumption DEF RequestMoves
  <2> QED
    BY <2>1 DEF NoneDue
<1> QED
  BY <1>1 DEF NoneDue

\* A claim: the process goes on with the session of the row, which nobody awaits.
Claims(p, r, x, b) ==
  /\ rows[r] # NoRow /\ r <= created /\ rows'[r] # NoRow
  /\ rows'[r].session = rows[r].session /\ ~Engaged(rows'[r])
  /\ job'[p] = [at |-> x, run |-> r, session |-> rows[r].session, resumes |-> b]
  /\ UNCHANGED <<request, reservation>>

\* Both claims are claims in this sense.
LEMMA ClaimsRun ==
  ASSUME SP!Inv, Typed, NEW p \in Workers
  PROVE  /\ PollFresh(p) => \E r \in RunIds : Claims(p, r, "gate", FALSE)
         /\ PollContinuation(p) => \E r \in RunIds :
              Claims(p, r, "turn", TRUE) /\ ContinuationClaimable(rows[r])
<1>1. ASSUME NEW r \in RunIds, NEW t \in Tokens, Takes(p, r, t), NEW row \in Row,
             row.target = "running", row.lease # NoLease, row.session = rows[r].session,
             rows' = [rows EXCEPT ![r] = row], NEW x, NEW b, ClaimedJob(p, x, b),
             UNCHANGED <<request, reservation>>
      PROVE  Claims(p, r, x, b)
  <2>1. handle'[p] = [run |-> r, token |-> t]
    BY <1>1, RowFacts DEF Takes
  <2>2. job'[p] = [at |-> x, run |-> r, session |-> rows[r].session, resumes |-> b]
    BY <1>1, <2>1 DEF ClaimedJob, Typed
  <2>3. rows'[r] = row /\ row # NoRow
    BY <1>1, RowFacts, NoRowAssumption
  <2>4. ~Engaged(row)
    BY <1>1 DEF Engaged, ContinuationClaimable
  <2>5. rows[r] # NoRow /\ r <= created
    BY <1>1 DEF Takes, SP!Inv, SP!RowsInv, SP!RowsTyped, SP!RunIds, RunIds
  <2> QED
    BY <1>1, <2>2, <2>3, <2>4, <2>5 DEF Claims
<1>2. ASSUME PollFresh(p)
      PROVE  \E r \in RunIds : Claims(p, r, "gate", FALSE)
  <2>1. PICK r \in RunIds, t \in Tokens :
          /\ Takes(p, r, t) /\ rows[r].target = "queued"
          /\ rows' = [rows EXCEPT ![r] = Leased(rows[r], t)]
    BY <1>2, ClaimWrites DEF PollFresh
  <2>2. rows[r] \in Row /\ Counted(rows[r]) \in Nat /\ Fresh(t) \in Lease /\ Fresh(t) # NoLease
    BY <2>1, RowFacts, CountsAssumption, AbsenceAssumption
       DEF Takes, Row, Counted, Fresh, Lease
  <2>3. /\ Leased(rows[r], t) \in Row /\ Leased(rows[r], t).target = "running"
        /\ Leased(rows[r], t).lease # NoLease
        /\ Leased(rows[r], t).session = rows[r].session
    BY <2>2 DEF Leased, Row, Statuses, TargetStates
  <2> QED
    BY <1>1, <1>2, <2>1, <2>3 DEF PollFresh
<1>3. ASSUME PollContinuation(p)
      PROVE  \E r \in RunIds : Claims(p, r, "turn", TRUE) /\ ContinuationClaimable(rows[r])
  <2>1. PICK r \in RunIds, t \in Tokens :
          /\ Takes(p, r, t) /\ ContinuationClaimable(rows[r])
          /\ rows' = [rows EXCEPT ![r] = ContinuationLeased(rows[r], t)]
    BY <1>3, ContinuationWrites DEF PollContinuation
  <2>2. rows[r] \in Row /\ Fresh(t) \in Lease /\ Fresh(t) # NoLease /\ rows[r].target = "running"
    BY <2>1, RowFacts, CountsAssumption, AbsenceAssumption
       DEF Takes, ContinuationClaimable, Fresh, Lease
  <2>3. /\ ContinuationLeased(rows[r], t) \in Row
        /\ ContinuationLeased(rows[r], t).target = "running"
        /\ ContinuationLeased(rows[r], t).lease # NoLease
        /\ ContinuationLeased(rows[r], t).session = rows[r].session
    BY <2>2 DEF ContinuationLeased, Row
  <2> QED
    BY <1>1, <1>3, <2>1, <2>3 DEF PollContinuation
<1> QED
  BY <1>2, <1>3

\* The steps a process takes with a run it keeps.
KeepsRun(p) ==
  /\ job'[p].run = job[p].run /\ job'[p].session = job[p].session
  /\ job'[p].resumes = job[p].resumes
  /\ job[p].at \notin {"idle", "fresh", "suspended", "requested"}
  /\ \/ GateOpens(p) /\ job[p].at = "gate" /\ job'[p].at = "turn"
     \/ /\ \E q \in Requests, c \in Commands : TurnPauses(p, q, c)
        /\ job[p].at = "turn" /\ job'[p].at = "reserve"
     \/ ReserveSession(p) /\ job[p].at = "reserve" /\ job'[p].at = "suspend"
     \/ job'[p].at \in {"succeeded", "failed", "retrying", "closed", "release"}

\* What a step does to the job of a process.
LEMMA JobCourse ==
  ASSUME SP!Inv, Typed, HandsMatch, AskInv, [Next]_vars, NEW p \in Workers
  PROVE  \/ job'[p] = job[p]
         \/ job'[p].at \in {"idle", "fresh", "suspended", "requested"}
         \/ PollContinuation(p) \/ PollFresh(p)
         \/ KeepsRun(p)
<1> DEFINE Goal == \/ job'[p] = job[p]
                   \/ job'[p].at \in {"idle", "fresh", "suspended", "requested"}
                   \/ PollContinuation(p) \/ PollFresh(p)
                   \/ KeepsRun(p)
<1>0. job[p] \in Job
  BY DEF Typed
<1>1. ASSUME NEW v \in Workers, RunnerStep(v) \/ Crash(v), v # p
      PROVE  job'[p] = job[p]
  BY <1>1, RunnerMoves, CrashMoves DEF Steps, Typed
<1>2. CASE ~\E v \in Workers : RunnerStep(v) \/ Crash(v)
  BY <1>2, OthersMove
<1>3. CASE Crash(p)
  BY <1>3, CrashMoves
<1>4. ASSUME RunnerStep(p)
      PROVE  Goal
  <2>1. ASSUME Rest(p)
        PROVE  Goal
    BY <2>1, RestJob
  <2>2. ASSUME NEW x \in {"fresh", "suspended", "requested"}, Goto(p, x)
        PROVE  Goal
    <3>1. job'[p] = [job[p] EXCEPT !.at = x]
      BY <2>2 DEF Goto, Typed
    <3>2. job'[p].at = x
      BY <1>0, <3>1 DEF Job, Waiting, Executing, Pausing
    <3> QED
      BY <3>2
  <2>3. ASSUME NEW x \in JobPlaces, Goto(p, x), x \notin {"idle", "fresh"},
               job[p].at \notin {"idle", "fresh"}, job[p] \in Phase(x)
        PROVE  /\ job'[p].at = x /\ job'[p].run = job[p].run
               /\ job'[p].session = job[p].session /\ job'[p].resumes = job[p].resumes
    BY <2>3, GotoJob
  <2>4. ASSUME NEW x \in {"succeeded", "failed", "retrying", "closed", "release"}, Goto(p, x),
               job[p].at \in {"turn", "suspend", "succeeded", "failed"},
               x = "closed" <=> job[p].at = "suspend"
        PROVE  Goal
    <3>1. x \in JobPlaces /\ job[p] \in Phase(x)
      BY <1>0, <2>4, JobFields DEF Phase, JobPlaces
    <3> QED
      BY <2>3, <2>4, <3>1 DEF KeepsRun
  <2>5. ASSUME AfterFinish(p), job[p].at \in {"turn", "succeeded", "failed"}
        PROVE  Goal
    BY <2>1, <2>4, <2>5 DEF AfterFinish
  <2>6. CASE TurnThrows(p)
    <3>1. job[p].at = "turn" /\ (Goto(p, "retrying") \/ Goto(p, "failed"))
      BY <2>6 DEF TurnThrows, At
    <3> QED
      BY <2>4, <3>1
  <2>7. CASE FailClosed(p)
    BY <2>4, <2>7 DEF FailClosed, At
  <2>8. CASE TurnCompletes(p)
    <3>1. job[p].at = "turn" /\ (Goto(p, "succeeded") \/ AfterFinish(p))
      BY <2>8 DEF TurnCompletes, At
    <3> QED
      BY <2>4, <2>5, <3>1
  <2>9. CASE AnnounceSucceeded(p) \/ AnnounceFailed(p)
    BY <2>5, <2>9 DEF AnnounceSucceeded, AnnounceFailed, Announce, At
  <2>10. CASE GateOpens(p)
    <3>1. job[p].at = "gate" /\ Goto(p, "turn") /\ "turn" \in JobPlaces /\ job[p] \in Phase("turn")
      BY <1>0, <2>10, JobFields DEF GateOpens, At, Phase, JobPlaces
    <3> QED
      BY <2>3, <2>10, <3>1 DEF KeepsRun
  <2>11. CASE ReserveSession(p)
    <3>1. job[p].at = "reserve" /\ Goto(p, "suspend") /\ "suspend" \in JobPlaces
          /\ job[p] \in Phase("suspend")
      BY <1>0, <2>11, JobFields DEF ReserveSession, At, Phase, JobPlaces
    <3> QED
      BY <2>3, <2>11, <3>1 DEF KeepsRun
  <2>12. ASSUME NEW q \in Requests, NEW c \in Commands, TurnPauses(p, q, c)
         PROVE  KeepsRun(p)
    <3>1. job'[p] = [at |-> "reserve", run |-> job[p].run, session |-> job[p].session,
                     resumes |-> job[p].resumes, request |-> q]
      BY <2>12 DEF TurnPauses, Typed
    <3>2. job[p].at = "turn"
      BY <2>12 DEF TurnPauses, At
    <3> QED
      BY <2>12, <3>1, <3>2 DEF KeepsRun
  <2>13. CASE PollPastContinuation(p) \/ SuspendRun(p) \/ AnnounceSuspended(p)
    BY <2>2, <2>13 DEF PollPastContinuation, SuspendRun, AnnounceSuspended
  <2>14. CASE PollNothing(p) \/ GateCloses(p) \/ AnnounceRetry(p) \/ AnnounceRequested(p)
              \/ AnnounceClosed(p) \/ ReleaseReservation(p)
    BY <2>1, <2>14 DEF PollNothing, GateCloses, AnnounceRetry, AnnounceRequested, AnnounceClosed,
       ReleaseReservation
  <2> QED
    BY <1>4, <2>6, <2>7, <2>8, <2>9, <2>10, <2>11, <2>12, <2>13, <2>14
       DEF RunnerStep, Poll, EndTurn, Settle
<1> QED
  BY <1>1, <1>2, <1>3, <1>4

\* A row keeps its session.
LEMMA SessionStays ==
  ASSUME SP!Inv, Typed, HandsMatch, AskInv, [Next]_vars, NEW r \in RunIds,
         rows[r] # NoRow, rows'[r] # NoRow
  PROVE  rows'[r].session = rows[r].session
BY RowStep DEF Quiet, MovesOn, SuspendedBy, DecidedBy

\* Rows are numbered on, and the number of a withdrawn row is not used again.
LEMMA CreatedGrows ==
  ASSUME SP!Inv, Typed, AskInv, [Next]_vars
  PROVE  /\ created <= created' /\ created \in Nat /\ created' \in Nat
         /\ \A r \in RunIds : r <= created /\ rows[r] = NoRow => rows'[r] = NoRow
<1>1. /\ created <= created'
      /\ \A r \in RunIds : r <= created /\ rows[r] = NoRow => rows'[r] = NoRow
  BY StepOfStore, SP!WithdrawnStays, StoreAssumptions, CountsAssumption DEF SP!RunIds, RunIds
<1>2. SP!Inv'
  BY StoreInvStep
<1> QED
  BY <1>1, <1>2, CountsAssumption DEF SP!Inv, SP!RowsInv, SP!RowsTyped

\* A process goes on with the session of its row.
LEMMA HandsKnownStep ==
  ASSUME Inv, HandsKnown, [Next]_vars
  PROVE  HandsKnown'
<1>0. SP!Inv /\ Typed /\ HandsMatch /\ AskInv
  BY DEF Inv
<1>1. ASSUME NEW p \in Workers, job'[p].at \in Holding
      PROVE  /\ job'[p].run <= created'
             /\ rows'[job'[p].run] # NoRow => job'[p].session = rows'[job'[p].run].session
  <2>1. /\ created <= created' /\ created \in Nat /\ created' \in Nat
        /\ \A r \in RunIds : r <= created /\ rows[r] = NoRow => rows'[r] = NoRow
    BY <1>0, CreatedGrows
  <2>2. ASSUME job[p].at \in Holding, job'[p].run = job[p].run, job'[p].session = job[p].session
        PROVE  /\ job'[p].run <= created'
               /\ rows'[job'[p].run] # NoRow => job'[p].session = rows'[job'[p].run].session
    <3>1. PICK r \in RunIds : r = job[p].run
      BY <1>0, <2>2, JobFields DEF Typed, Holding
    <3>2. r <= created /\ (rows[r] # NoRow => job[p].session = rows[r].session)
      BY <2>2, <3>1 DEF HandsKnown
    <3>3. r <= created'
      BY <2>1, <3>2, CountsAssumption DEF RunIds
    <3> QED
      BY <1>0, <2>1, <2>2, <3>1, <3>2, <3>3, SessionStays
  <2>3. ASSUME NEW r \in RunIds, NEW x, NEW b, Claims(p, r, x, b)
        PROVE  /\ job'[p].run <= created'
               /\ rows'[job'[p].run] # NoRow => job'[p].session = rows'[job'[p].run].session
    BY <2>1, <2>3, CountsAssumption DEF Claims, RunIds
  <2>4. CASE job'[p] = job[p]
    BY <1>1, <2>2, <2>4
  <2>5. CASE PollContinuation(p) \/ PollFresh(p)
    BY <1>0, <2>3, <2>5, ClaimsRun
  <2>6. CASE KeepsRun(p)
    <3>1. job[p].at \in Holding
      BY <1>1, <2>6 DEF KeepsRun, Holding
    <3> QED
      BY <2>2, <2>6, <3>1 DEF KeepsRun
  <2> QED
    BY <1>0, <1>1, <2>4, <2>5, <2>6, JobCourse DEF Holding
<1> QED
  BY <1>1 DEF HandsKnown

OneWorker == \A v, w \in Workers : v = w

\* A run that is not over keeps the reservation while none of its requests is due.
LEMMA Retained ==
  ASSUME Inv, DeniedInv, [Next]_vars, NEW s \in Sessions, NEW r \in RunIds,
         reservation[s] = r, rows[r] # NoRow, ~IsTerminalTarget(rows[r]), NoneDue(r),
         \E q \in Requests : request[q] # NoRequest /\ request[q].run = r,
         ~\E p \in Workers : At(p, "release") /\ job[p].run = r
  PROVE  reservation'[s] = r
<1>0. SP!Inv /\ Typed /\ HandsMatch /\ AskInv /\ r # NoRun
  BY FaultsAssumption DEF Inv
<1>1. ~\E p \in Workers : ReleaseReservation(p) /\ job[p].run = r
  BY DEF ReleaseReservation
<1>2. ~\E d \in Deciders : ReleaseAfterDenial(d) /\ Asked(d).run = r
  BY DEF ReleaseAfterDenial, ClickAt, Asked, DeniedInv, IsSettled, IsDone
<1>3. ~ReservationLapses(s)
  BY DEF ReservationLapses, NoneDue
<1> QED
  BY <1>0, <1>1, <1>2, <1>3, ReservationStep

\* A run is suspended behind its reservation, which outlives the wait.
LEMMA EngagedHoldStep ==
  ASSUME Inv, SettledInv, ReservedInv, [Next]_vars
  PROVE  EngagedHold'
<1>0. SP!Inv /\ Typed /\ HandsMatch /\ AskInv /\ DeniedInv
  BY DEF Inv, SettledInv
<1>1. ASSUME NEW r \in RunIds, rows'[r] # NoRow, Engaged(rows'[r]), NoneDue(r)'
      PROVE  reservation'[rows'[r].session] = r
  <2>1. NoneDue(r)
    BY <1>0, <1>1, DueStays
  <2>2. ASSUME rows[r] # NoRow, Engaged(rows[r]), rows'[r].session = rows[r].session
        PROVE  reservation'[rows'[r].session] = r
    <3>1. PICK s \in Sessions : s = rows[r].session
      BY <1>0, <2>2, RowFacts, RowFields
    <3>2. reservation[s] = r
      BY <2>1, <2>2, <3>1 DEF ReservedInv, EngagedHold, Present
    <3>3. rows[r].pendingApproval # NoApproval /\ ~IsTerminalTarget(rows[r])
      BY <1>0, <2>2, RowFacts DEF Engaged, ContinuationClaimable, IsTerminalTarget
    <3>4. \E q \in Requests : request[q] # NoRequest /\ request[q].run = r
      BY <1>0, <2>2, <3>3 DEF AskInv, RowsAsk, UnseenInv, Typed, Present
    <3>5. ~\E p \in Workers : At(p, "release") /\ job[p].run = r
      BY <2>2 DEF ReservedInv, BusyAlone, Busy, At
    <3> QED
      BY <1>0, <2>1, <2>2, <3>1, <3>2, <3>3, <3>4, <3>5, Retained
  <2>3. ASSUME Quiet(r) \/ \E d \in Deciders : DecidedBy(r, d)
        PROVE  rows[r] # NoRow /\ Engaged(rows[r]) /\ rows'[r].session = rows[r].session
    BY <1>1, <2>3 DEF Quiet, MovesOn, DecidedBy, Engaged, ContinuationClaimable
  <2>4. ASSUME NEW p \in Workers, SuspendedBy(r, p)
        PROVE  reservation'[rows'[r].session] = r
    <3>1. /\ job[p].at = "suspend" /\ job[p].run = r /\ reservation' = reservation
          /\ rows[r] # NoRow /\ ~IsTerminalTarget(rows[r])
          /\ rows'[r].session = rows[r].session
      BY <2>4 DEF SuspendedBy, SuspendRun, At, IsTerminalTarget
    <3>2. job[p].session = rows[r].session
      BY <3>1 DEF ReservedInv, HandsKnown, Holding
    <3> QED
      BY <2>1, <3>1, <3>2 DEF ReservedInv, GatePassed, At
  <2> QED
    BY <1>0, <2>2, <2>3, <2>4, RowStep
<1> QED
  BY <1>1 DEF EngagedHold, Present, Engaged, ContinuationClaimable, NoneDue

\* One worker has one run on its mind and suspends no other.
LEMMA BusyAloneStep ==
  ASSUME Inv, BusyAlone, OneWorker, [Next]_vars
  PROVE  BusyAlone'
<1>0. SP!Inv /\ Typed /\ HandsMatch /\ AskInv
  BY DEF Inv
<1>1. ASSUME NEW p \in Workers, Busy(p)', rows'[job'[p].run] # NoRow
      PROVE  ~Engaged(rows'[job'[p].run])
  <2>1. ASSUME job'[p].run = job[p].run, Busy(p)
        PROVE  ~Engaged(rows'[job'[p].run])
    <3>1. PICK r \in RunIds : r = job[p].run
      BY <1>0, <2>1, JobFields DEF Typed, Busy
    <3>2. rows[r] # NoRow => ~Engaged(rows[r])
      BY <2>1, <3>1 DEF BusyAlone
    <3>3. ASSUME NEW v \in Workers, SuspendedBy(r, v)
          PROVE  FALSE
      <4>1. v = p /\ Goto(p, "suspended") /\ job[p].at = "suspend"
        BY <3>3 DEF OneWorker, SuspendedBy, SuspendRun, At
      <4>2. job[p] \in Phase("suspended") /\ "suspended" \in JobPlaces
        BY <1>0, <4>1, JobFields DEF Typed, Phase, JobPlaces
      <4>3. job'[p].at = "suspended"
        BY <1>0, <4>1, <4>2, GotoJob
      <4> QED
        BY <1>1, <4>3 DEF Busy
    <3>4. ~\E d \in Deciders : DecidedBy(r, d)
      BY <3>2 DEF DecidedBy, Engaged
    <3>5. Quiet(r)
      BY <1>0, <3>3, <3>4, RowStep
    <3> QED
      BY <1>1, <2>1, <3>1, <3>2, <3>5 DEF Quiet, MovesOn, Engaged, ContinuationClaimable
  <2>2. ASSUME NEW r \in RunIds, NEW x, NEW b, Claims(p, r, x, b)
        PROVE  ~Engaged(rows'[job'[p].run])
    BY <2>2 DEF Claims
  <2>3. CASE job'[p] = job[p]
    BY <1>1, <2>1, <2>3 DEF Busy
  <2>4. CASE PollContinuation(p) \/ PollFresh(p)
    BY <1>0, <2>2, <2>4, ClaimsRun
  <2>5. CASE KeepsRun(p)
    BY <2>1, <2>5 DEF KeepsRun, Busy
  <2> QED
    BY <1>0, <1>1, <2>3, <2>4, <2>5, JobCourse DEF Busy
<1> QED
  BY <1>1 DEF BusyAlone, Engaged, ContinuationClaimable

\* The gate lets a run pass that may reserve its session.
LEMMA GatePassedStep ==
  ASSUME Inv, Inv', SettledInv, ReservedInv, OneWorker, [Next]_vars
  PROVE  GatePassed'
<1>0. SP!Inv /\ Typed /\ HandsMatch /\ AskInv /\ DeniedInv
  BY DEF Inv, SettledInv
<1>1. ASSUME NEW p \in Workers, NEW r \in RunIds, NEW s \in Sessions,
             r = job'[p].run, s = job'[p].session,
             job'[p].at \in {"turn", "reserve", "suspend"}
      PROVE  /\ job'[p].at = "turn" /\ (~job'[p].resumes \/ NoneDue(r)')
                => reservation'[s] \in {NoRun, r}
             /\ job'[p].at = "reserve" /\ NoneDue(r)' => reservation'[s] \in {NoRun, r}
             /\ /\ job'[p].at = "suspend" /\ NoneDue(r)'
                /\ rows'[r] # NoRow /\ ~IsTerminalTarget(rows'[r])
                => reservation'[s] = r
  <2>1. NoneDue(r)' => NoneDue(r)
    BY <1>0, DueStays
  <2>2. CASE job'[p] = job[p]
    <3>1. /\ At(p, "turn") /\ (~job[p].resumes \/ NoneDue(r)) => reservation[s] \in {NoRun, r}
          /\ At(p, "reserve") /\ NoneDue(r) => reservation[s] \in {NoRun, r}
          /\ /\ At(p, "suspend") /\ NoneDue(r)
             /\ rows[r] # NoRow /\ ~IsTerminalTarget(rows[r])
             => reservation[s] = r
      BY <1>1, <2>2 DEF ReservedInv, GatePassed
    <3>2. ~ReserveSession(p)
      <4> SUFFICES ASSUME ReserveSession(p) PROVE FALSE
        OBVIOUS
      <4>1. job[p].at = "reserve" /\ Goto(p, "suspend") /\ "suspend" \in JobPlaces
            /\ job[p] \in Phase("suspend")
        BY <1>0, JobFields DEF ReserveSession, At, Typed, Phase, JobPlaces
      <4> QED
        BY <1>0, <2>2, <4>1, GotoJob
    <3>3. reservation'[s] \in {NoRun, reservation[s]}
      BY <1>0, <3>2, ReservationStep DEF OneWorker
    <3>4. CASE job[p].at \in {"turn", "reserve"}
      BY <2>1, <2>2, <3>1, <3>3, <3>4 DEF At
    <3>5. ASSUME job[p].at = "suspend", NoneDue(r), rows'[r] # NoRow, ~IsTerminalTarget(rows'[r])
          PROVE  reservation'[s] = r
      <4>1. rows[r] # NoRow
        BY <1>0, <1>1, <2>2, <3>5, CreatedGrows DEF ReservedInv, HandsKnown, Holding
      <4>2. ~IsTerminalTarget(rows[r])
        BY <1>0, <3>5, <4>1, FinishedStays
      <4>3. \E q \in Requests : request[q] # NoRequest /\ request[q].run = r
        BY <1>0, <1>1, <2>2, <3>5, JobFields DEF AskInv, UnseenInv, Asking, Typed
      <4>4. ~\E v \in Workers : At(v, "release") /\ job[v].run = r
        BY <3>5 DEF OneWorker, At
      <4> QED
        BY <1>0, <3>1, <3>5, <4>1, <4>2, <4>3, <4>4, Retained DEF At
    <3> QED
      BY <1>1, <2>1, <2>2, <3>4, <3>5
  <2>3. CASE PollContinuation(p)
    <3>1. PICK o \in RunIds : Claims(p, o, "turn", TRUE) /\ ContinuationClaimable(rows[o])
      BY <1>0, <2>3, ClaimsRun
    <3>2. /\ o = r /\ s = rows[r].session /\ rows[r] # NoRow /\ Engaged(rows[r])
          /\ job'[p].at = "turn" /\ job'[p].resumes /\ reservation' = reservation
      BY <1>1, <3>1 DEF Claims, Engaged
    <3>3. NoneDue(r) => reservation[s] = r
      BY <3>2 DEF ReservedInv, EngagedHold, Present
    <3> QED
      BY <2>1, <3>2, <3>3
  <2>4. ~PollFresh(p)
    <3>1. ASSUME NEW o \in RunIds, Claims(p, o, "gate", FALSE)
          PROVE  FALSE
      <4>1. job'[p].at = "gate"
        BY <3>1 DEF Claims
      <4> QED
        BY <1>1, <4>1
    <3> QED
      BY <1>0, <3>1, ClaimsRun
  <2>5. CASE KeepsRun(p)
    <3>1. /\ job[p].run = r /\ job[p].session = s
          /\ \/ GateOpens(p) /\ job'[p].at = "turn"
             \/ /\ \E q \in Requests, c \in Commands : TurnPauses(p, q, c)
                /\ job[p].at = "turn" /\ job'[p].at = "reserve"
             \/ ReserveSession(p) /\ job[p].at = "reserve" /\ job'[p].at = "suspend"
      BY <1>1, <2>5 DEF KeepsRun
    <3>2. CASE GateOpens(p) /\ job'[p].at = "turn"
      BY <3>1, <3>2 DEF GateOpens, HeldByOther
    <3>3. CASE /\ \E q \in Requests, c \in Commands : TurnPauses(p, q, c)
               /\ job[p].at = "turn" /\ job'[p].at = "reserve"
      <4>1. reservation' = reservation
        BY <3>3 DEF TurnPauses
      <4> QED
        BY <2>1, <3>1, <3>3, <4>1 DEF ReservedInv, GatePassed, At
    <3>4. CASE ReserveSession(p) /\ job[p].at = "reserve" /\ job'[p].at = "suspend"
      <4>1. NoneDue(r)' => reservation[s] \in {NoRun, r}
        BY <2>1, <3>1, <3>4 DEF ReservedInv, GatePassed, At
      <4>2. reservation[s] \in {NoRun, r} => reservation'[s] = r
        BY <1>0, <3>1, <3>4 DEF ReserveSession, Reserve, Typed
      <4> QED
        BY <3>4, <4>1, <4>2
    <3> QED
      BY <3>1, <3>2, <3>3, <3>4
  <2> QED
    BY <1>0, <1>1, <2>2, <2>3, <2>4, <2>5, JobCourse
<1>2. ASSUME NEW p \in Workers, job'[p].at \in {"turn", "reserve", "suspend"}
      PROVE  job'[p].run \in RunIds /\ job'[p].session \in Sessions
  BY <1>2, JobFields DEF Inv, Typed
<1> QED
  BY <1>1, <1>2 DEF GatePassed, At, NoneDue

\* The four together are inductive beside Inv and SettledInv.
LEMMA ReservedStep ==
  ASSUME Inv, Inv', SettledInv, ReservedInv, OneWorker, [Next]_vars
  PROVE  ReservedInv'
BY EngagedHoldStep, HandsKnownStep, GatePassedStep, BusyAloneStep DEF ReservedInv

\* Nothing is reserved at first.
LEMMA InitReserved == Init => ReservedInv
BY DEF Init, Store!Init, Store!RunIds, RunIds, Present, ReservedInv, EngagedHold, HandsKnown,
   GatePassed, BusyAlone, Busy, Holding, At, IdleJob

\* Behind a reservation no fresh turn is executed.
LEMMA ReservedQueues ==
  ASSUME Inv, ReservedInv
  PROVE  SessionQueuesBehindReservation
<1> SUFFICES ASSUME NEW p \in Workers, At(p, "turn"), ~job[p].resumes, Store!Owns(p),
                    NEW r \in RunIds, rows[r] # NoRow, r # job[p].run,
                    rows[r].session = job[p].session, rows[r].target = "awaiting_approval",
                    NoneDue(r)
             PROVE  FALSE
  BY DEF SessionQueuesBehindReservation, Present
<1>1. reservation[job[p].session] = r
  BY DEF ReservedInv, EngagedHold, Engaged, Present
<1>2. reservation[job[p].session] \in {NoRun, job[p].run}
  BY DEF ReservedInv, GatePassed
<1> QED
  BY <1>1, <1>2, FaultsAssumption

\* The unique index allows no fresh claim beside a suspended run of the session.
LEMMA IndexQueues ==
  ASSUME Inv, HandsKnown, OneRunningIndex
  PROVE  SessionQueuesBehindReservation
<1> SUFFICES ASSUME NEW p \in Workers, At(p, "turn"), Store!Owns(p),
                    NEW r \in RunIds, rows[r] # NoRow, r # job[p].run,
                    rows[r].session = job[p].session, rows[r].target = "awaiting_approval"
             PROVE  FALSE
  BY DEF SessionQueuesBehindReservation, Present
<1>1. PICK o \in RunIds :
        o = job[p].run /\ rows[o] # NoRow /\ rows[o].lease # NoLease /\ o = handle[p].run
  BY DEF Store!Owns, Store!Holds, Inv, HandsMatch, Store!Present, Store!RunIds, RunIds
<1>2. SP!SoundRow(rows[o]) /\ SP!SoundRow(rows[r])
  BY <1>1 DEF Inv, SP!Inv, SP!RowsInv, SP!RowsSound, SP!Present, SP!RunIds, RunIds
<1>3. rows[o].status = "running" /\ rows[r].status = "running"
  BY <1>1, <1>2 DEF SP!SoundRow, SP!StatesAgree, SP!LeaseMeansRunning, SP!Row, SP!Statuses
<1>4. rows[o].session = rows[r].session
  BY <1>1 DEF HandsKnown, Holding, At
<1> QED
  BY <1>1, <1>3, <1>4
     DEF Inv, SP!Inv, SP!RowsInv, SP!IndexHolds, SP!Present, SP!RunIds, RunIds

\* No fresh turn is executed while another run of its session awaits an approval
\* and none of that run's requests has passed its TTL: with Postgres because the
\* unique index refuses the claim, with one process because the gate closes.
THEOREM SessionQueuesBehindReservationHolds ==
  ASSUME OneRunningIndex \/ \A v, w \in Workers : v = w
  PROVE  Spec => []SessionQueuesBehindReservation
<1>1. CASE OneRunningIndex
  <2>1. Inv /\ HandsKnown /\ [Next]_vars => HandsKnown'
    BY HandsKnownStep
  <2>2. Init => HandsKnown
    BY InitReserved DEF ReservedInv
  <2>3. Inv /\ HandsKnown => SessionQueuesBehindReservation
    BY <1>1, IndexQueues
  <2> QED
    BY InvHolds, <2>1, <2>2, <2>3, PTL DEF Spec
<1>2. ASSUME OneWorker
      PROVE  Spec => []SessionQueuesBehindReservation
  <2>1. Inv /\ Inv' /\ SettledInv /\ ReservedInv /\ [Next]_vars => ReservedInv'
    BY <1>2, ReservedStep
  <2>2. Inv /\ ReservedInv => SessionQueuesBehindReservation
    BY ReservedQueues
  <2> QED
    BY InvHolds, SettledHolds, InitReserved, <2>1, <2>2, PTL DEF Spec
<1> QED
  BY <1>1, <1>2 DEF OneWorker
=============================================================================
