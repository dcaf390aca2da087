----------------------------- MODULE TurnRunner -----------------------------
(***************************************************************************)
(* The execution of runs: the turn runner of every server process, with    *)
(* the run store, the approval registry, the session reservations, the run *)
(* event log, the decisions users submit, and the lease reaper.            *)
(*                                                                         *)
(* A step is what runs between two awaits that reach another actor. Each   *)
(* call on the run store is the action of RunStore it stands for, so every *)
(* step here is a step of RunStore or leaves its variables alone.          *)
(*                                                                         *)
(* With MaxLapses = MaxCrashes = 0 this is the memory deployment, which    *)
(* has one process, no reaper and nothing that outlives a crash; otherwise *)
(* it is the Postgres one, where rows, reservations and the event log are  *)
(* durable and the approval registry is not.                               *)
(***************************************************************************)
EXTENDS RunRows, Sequences

CONSTANTS
  Workers, NoHandle, Reapers, NewerSessions,  \* of RunStore
  Deciders,         \* users' clicks that may be handled at the same time
  NoRequest,        \* no approval request with this id
  NoRun,            \* no run holds the reservation
  MaxLapses,        \* clock ticks, each of which may let a lease lapse
  MaxCrashes,       \* processes that die
  MayExpire,        \* approval requests and reservations reach their TTL
  LogRefusesClosed  \* the event log refuses to publish after run.finished

ASSUME FaultsAssumption ==
  /\ MaxLapses \in Nat /\ MaxCrashes \in Nat
  /\ MayExpire \in BOOLEAN /\ LogRefusesClosed \in BOOLEAN
  /\ NoRun \notin RunIds

\* A record of the approval registry; `due' is past its TTL, `home' the process
\* that keeps it, "lost" what became of it when that process died.
ApprovalRequest ==
  [status : {"pending", "approved", "rejected", "lost"}, due : BOOLEAN, home : Workers,
   command : Commands, run : RunIds, session : Sessions]

ASSUME RequestAssumption == NoRequest \notin ApprovalRequest

VARIABLES
  rows, created, handle, sweep,  \* of RunStore
  job,          \* where each process is in pollOnce, with the run it polled
  request,      \* the approval registry, each record in its process' memory
  shown,        \* requests whose id reached a user
  reservation,  \* the run that holds each session's live reservation
  log,          \* the events of each run, in sequence order
  click,        \* where each decision is in applyApprovalDecision
  faults,       \* how many leases lapsed and processes died
  approved,     \* history: requests a user approved
  executed      \* history: how often the command of a request was resumed

Store == INSTANCE RunStore

ASSUME StoreAssumption ==
  /\ NoHandle \notin Store!Handle /\ NoHandle \notin Workers
  /\ NewerSessions \subseteq Sessions

storeVars == <<rows, created, handle, sweep>>
vars == <<rows, created, handle, sweep, job, request, shown, reservation, log,
          click, faults, approved, executed>>

IdleJob == [at |-> "idle", run |-> NoRun, resumes |-> FALSE]
IdleClick == [at |-> "idle"]

Init ==
  /\ Store!Init
  /\ job = [p \in Workers |-> IdleJob]
  /\ request = [q \in Requests |-> NoRequest]
  /\ shown = {}
  /\ reservation = [s \in Sessions |-> NoRun]
  /\ log = [r \in RunIds |-> <<>>]
  /\ click = [d \in Deciders |-> IdleClick]
  /\ faults = [lapses |-> 0, crashes |-> 0]
  /\ approved = {}
  /\ executed = [q \in Requests |-> 0]

-----------------------------------------------------------------------------
(* The event log. An event carries its kind and, for run.finished, either  *)
(* the outcome "succeeded" or the reason of the failure.                   *)

Event(kind) == [kind |-> kind, of |-> "none"]
FinishedEvent(of) == [kind |-> "run.finished", of |-> of]

IsFinished(e) == e.kind = "run.finished"
Closed(r) == \E i \in DOMAIN log[r] : IsFinished(log[r][i])

\* An error of publish is swallowed by every caller.
Publish(r, e) ==
  log' = IF LogRefusesClosed /\ Closed(r) THEN log
         ELSE [log EXCEPT ![r] = Append(@, e)]

-----------------------------------------------------------------------------
(* Session reservations.                                                   *)

\* Another run's live reservation stays; the caller ignores the answer.
Reserve(s, r) ==
  reservation' = IF reservation[s] \in {NoRun, r}
                 THEN [reservation EXCEPT ![s] = r] ELSE reservation

Release(s, r) ==
  reservation' = IF reservation[s] = r
                 THEN [reservation EXCEPT ![s] = NoRun] ELSE reservation

HeldByOther_Ignored(s, r) == FALSE
HeldByOther(s, r) == reservation[s] \notin {NoRun, r}

-----------------------------------------------------------------------------
(* pollOnce: the continuation lane first, then a fresh claim.              *)

At(p, at) == job[p].at = at
Goto(p, at) == job' = [job EXCEPT ![p].at = at]
Rest(p) == job' = [job EXCEPT ![p] = IdleJob]

\* The copy of the row a claim returns, as the process goes on with it.
ClaimedJob(p, at, resumes) ==
  LET r == handle'[p].run
  IN  job' = [job EXCEPT ![p] =
                [at |-> at, run |-> r, session |-> rows[r].session, resumes |-> resumes]]

PollContinuation(p) ==
  /\ At(p, "idle")
  /\ Store!ClaimNextContinuation(p)
  /\ ClaimedJob(p, "turn", TRUE)
  /\ LET q == rows[handle'[p].run].pendingApproval.request
     IN  executed' = [executed EXCEPT ![q] = @ + 1]
  /\ UNCHANGED <<request, shown, reservation, log, click, faults, approved>>

NoContinuation == \A r \in Present(rows) : ~ContinuationClaimable(rows[r])

PollPastContinuation(p) ==
  /\ At(p, "idle")
  /\ NoContinuation
  /\ Goto(p, "fresh")
  /\ UNCHANGED <<storeVars, request, shown, reservation, log, click, faults,
                 approved, executed>>

PollFresh(p) ==
  /\ At(p, "fresh")
  /\ Store!Claim(p)
  /\ ClaimedJob(p, "gate", FALSE)
  /\ UNCHANGED <<request, shown, reservation, log, click, faults, approved, executed>>

\* claim answers null: no run is claimable, or the index refuses the oldest.
NothingToClaim ==
  \A r \in Present(rows) :
    Oldest({o \in Present(rows) : Claimable(rows, o)}, r) => IndexRefuses(rows, r)

PollNothing(p) ==
  /\ At(p, "fresh")
  /\ NothingToClaim
  /\ Rest(p)
  /\ UNCHANGED <<storeVars, request, shown, reservation, log, click, faults,
                 approved, executed>>

GateCloses_LeaseKept(p) ==
  /\ At(p, "gate")
  /\ HeldByOther(job[p].session, job[p].run)
  /\ Rest(p)
  /\ UNCHANGED <<storeVars, request, shown, reservation, log, click, faults,
                 approved, executed>>
\* The reservation gate: a run of a session reserved by another run goes back
\* to the queue; the others start their turn.
GateCloses(p) ==
  /\ At(p, "gate")
  /\ HeldByOther(job[p].session, job[p].run)
  /\ Store!ReleaseLease(p)
  /\ Rest(p)
  /\ UNCHANGED <<request, shown, reservation, log, click, faults, approved, executed>>

GateOpens(p) ==
  /\ At(p, "gate")
  /\ ~HeldByOther(job[p].session, job[p].run)
  /\ Goto(p, "turn")
  /\ UNCHANGED <<storeVars, request, shown, reservation, log, click, faults,
                 approved, executed>>

-----------------------------------------------------------------------------
(* The turn ends: handleTurn returns a result, throws, or returns          *)
(* pending_approval.                                                       *)

\* Where the process goes on with a run that is over, in either lane.
AfterFinish(p) ==
  IF job[p].resumes THEN Goto(p, "release") ELSE Rest(p)

TurnCompletes_Unfenced(p) ==
  /\ At(p, "turn")
  /\ Store!Complete(p)
  /\ Goto(p, "succeeded")
  /\ UNCHANGED <<request, shown, reservation, log, click, faults, approved, executed>>
TurnCompletes(p) ==
  /\ At(p, "turn")
  /\ Store!Complete(p)
  /\ IF Store!Owns(p) THEN Goto(p, "succeeded") ELSE AfterFinish(p)
  /\ UNCHANGED <<request, shown, reservation, log, click, faults, approved, executed>>

Requeued_Ignored(p) == FALSE
Requeued_IfOwned(p) == Store!Owns(p)
Requeued(p) ==
  Store!Owns(p) /\ MayRetry(rows[job[p].run], TRUE, 1)

TurnThrows(p) ==
  /\ At(p, "turn")
  /\ Store!Fail(p, TRUE, "execution_failed")
  /\ Goto(p, IF Requeued(p) THEN "retrying" ELSE "failed")
  /\ UNCHANGED <<request, shown, reservation, log, click, faults, approved, executed>>

\* The approval request is created in this process' memory in the same step.
TurnPauses(p, q, c) ==
  /\ At(p, "turn")
  /\ request[q] = NoRequest
  /\ request' = [request EXCEPT ![q] =
       [status |-> "pending", due |-> FALSE, home |-> p, command |-> c,
        run |-> job[p].run, session |-> job[p].session]]
  /\ job' = [job EXCEPT ![p] =
       [at |-> "reserve", run |-> job[p].run, session |-> job[p].session,
        resumes |-> job[p].resumes, request |-> q]]
  /\ UNCHANGED <<storeVars, shown, reservation, log, click, faults, approved, executed>>

ReserveSession(p) ==
  /\ At(p, "reserve")
  /\ Reserve(job[p].session, job[p].run)
  /\ Goto(p, "suspend")
  /\ UNCHANGED <<storeVars, request, shown, log, click, faults, approved, executed>>

\* The row's result snapshot and the suspension listener show the request id.
SuspendRun(p) ==
  /\ At(p, "suspend")
  /\ Store!SuspendForApproval(p,
       [request |-> job[p].request, command |-> request[job[p].request].command])
  /\ shown' = shown \cup {job[p].request}
  /\ Goto(p, "suspended")
  /\ UNCHANGED <<request, reservation, log, click, faults, approved, executed>>

\* The lease was lost before the suspension: fail the run without retry.
FailClosed(p) ==
  /\ At(p, "suspend")
  /\ ~Store!Owns(p)
  /\ Store!Fail(p, FALSE, "approval_continuation_unavailable")
  /\ Goto(p, "closed")
  /\ UNCHANGED <<request, shown, reservation, log, click, faults, approved, executed>>

-----------------------------------------------------------------------------
(* What follows the store transition: events, then the reservation.        *)

Announce(p, at, e) ==
  /\ At(p, at)
  /\ Publish(job[p].run, e)
  /\ UNCHANGED <<storeVars, request, shown, reservation, click, faults, approved, executed>>

AnnounceSucceeded(p) ==
  Announce(p, "succeeded", FinishedEvent("succeeded")) /\ AfterFinish(p)
AnnounceFailed(p) ==
  Announce(p, "failed", FinishedEvent("execution_failed")) /\ AfterFinish(p)
AnnounceRetry(p) ==
  Announce(p, "retrying", Event("attempt.finished")) /\ Rest(p)
AnnounceSuspended(p) ==
  Announce(p, "suspended", Event("attempt.suspended")) /\ Goto(p, "requested")
AnnounceRequested(p) ==
  Announce(p, "requested", Event("approval.requested")) /\ Rest(p)
AnnounceClosed(p) ==
  Announce(p, "closed", FinishedEvent("approval_continuation_unavailable")) /\ Rest(p)

ReleaseReservation(p) ==
  /\ At(p, "release")
  /\ Release(job[p].session, job[p].run)
  /\ Rest(p)
  /\ UNCHANGED <<storeVars, request, shown, log, click, faults, approved, executed>>

-----------------------------------------------------------------------------
(* applyApprovalDecision. A click reaches the process that holds the       *)
(* record; elsewhere, and after its loss, it is not_found and does nothing.*)

ClickAt(d, at) == click[d].at = at
ClickGoto(d, at) == click' = [click EXCEPT ![d].at = at]
ClickRest(d) == click' = [click EXCEPT ![d] = IdleClick]
Asked(d) == request[click[d].request]

Opens(d, q) == ClickAt(d, "idle") /\ q \in shown /\ request[q] # NoRequest

\* A request already decided answers already_decided and changes nothing.
Undecided(q) == request[q].status = "pending" /\ ~request[q].due

\* Only the requester's click decides; another user's is forbidden.
Approve(d, q) ==
  /\ Opens(d, q)
  /\ Undecided(q)
  /\ request' = [request EXCEPT ![q].status = "approved"]
  /\ approved' = approved \cup {q}
  /\ click' = [click EXCEPT ![d] = [at |-> "begin", request |-> q]]
  /\ UNCHANGED <<storeVars, job, shown, reservation, log, faults, executed>>

Reject(d, q) ==
  /\ Opens(d, q)
  /\ Undecided(q)
  /\ request' = [request EXCEPT ![q].status = "rejected"]
  /\ click' = [click EXCEPT ![d] =
                 [at |-> "fail", request |-> q, why |-> "approval_denied"]]
  /\ UNCHANGED <<storeVars, job, shown, reservation, log, faults, approved, executed>>

\* Past its TTL any click answers `expired', and the record stays pending.
FindExpired(d, q) ==
  /\ Opens(d, q)
  /\ request[q].status = "pending" /\ request[q].due
  /\ click' = [click EXCEPT ![d] =
                 [at |-> "fail", request |-> q, why |-> "approval_expired"]]
  /\ UNCHANGED <<storeVars, job, request, shown, reservation, log, faults,
                 approved, executed>>

MayBegin(d) ==
  LET r == Asked(d).run
  IN  r \in Present(rows) /\ Resumable(rows[r], Asked(d).command)

BeginContinuation(d) ==
  /\ ClickAt(d, "begin")
  /\ IF MayBegin(d)
     THEN Store!BeginContinuationAttempt(Asked(d).run, Asked(d).command)
          /\ ClickGoto(d, "decided")
     ELSE UNCHANGED storeVars /\ ClickRest(d)
  /\ UNCHANGED <<job, request, shown, reservation, log, faults, approved, executed>>

MayFail(d) ==
  LET r == Asked(d).run
  IN  r \in Present(rows) /\ rows[r].target = "awaiting_approval"

FailRun(d) ==
  /\ ClickAt(d, "fail")
  /\ IF MayFail(d)
     THEN Store!FailFromApproval(Asked(d).run, click[d].why) /\ ClickGoto(d, "denied")
     ELSE UNCHANGED storeVars /\ ClickRest(d)
  /\ UNCHANGED <<job, request, shown, reservation, log, faults, approved, executed>>

ClickAnnounce(d, at, e) ==
  /\ ClickAt(d, at)
  /\ Publish(Asked(d).run, e)
  /\ UNCHANGED <<storeVars, job, request, shown, reservation, faults, approved, executed>>

AnnounceDecided(d) ==
  ClickAnnounce(d, "decided", Event("approval.decided")) /\ ClickGoto(d, "resumed")
AnnounceResumed(d) ==
  ClickAnnounce(d, "resumed", Event("attempt.resumed")) /\ ClickRest(d)
AnnounceDenied_ThenRelease(d) ==
  /\ ClickAnnounce(d, "denied",
       Event(IF click[d].why = "approval_expired"
             THEN "approval.expired" ELSE "approval.decided"))
  /\ ClickGoto(d, "release")
AnnounceDenied(d) ==
  /\ ClickAnnounce(d, "denied",
       Event(IF click[d].why = "approval_expired"
             THEN "approval.expired" ELSE "approval.decided"))
  /\ ClickGoto(d, "finish")
AnnounceDeniedFinish(d) ==
  ClickAnnounce(d, "finish", FinishedEvent(click[d].why)) /\ ClickGoto(d, "release")

ReleaseAfterDenial(d) ==
  /\ ClickAt(d, "release")
  /\ Release(Asked(d).session, Asked(d).run)
  /\ ClickRest(d)
  /\ UNCHANGED <<storeVars, job, request, shown, log, faults, approved, executed>>

-----------------------------------------------------------------------------
(* Clients, time and faults.                                               *)

Enqueue(s) ==
  /\ Store!Enqueue(s, NoKey)
  /\ UNCHANGED <<job, request, shown, reservation, log, click, faults, approved, executed>>

Withdraw(r) ==
  /\ Store!Withdraw(r)
  /\ UNCHANGED <<job, request, shown, reservation, log, click, faults, approved, executed>>

LeaseClock ==
  /\ faults.lapses < MaxLapses
  /\ Store!Tick
  /\ faults' = [faults EXCEPT !.lapses = @ + 1]
  /\ UNCHANGED <<job, request, shown, reservation, log, click, approved, executed>>

\* service.ts gives the reaper neither maxAgeMs nor the reservations.
Reap ==
  /\ \E z \in Reapers :
       Store!SweepStart(z) \/ \E r \in RunIds : Store!SweepNext(z, r, FALSE)
  /\ UNCHANGED <<job, request, shown, reservation, log, click, faults, approved, executed>>

RequestFallsDue(q) ==
  /\ MayExpire
  /\ request[q] # NoRequest /\ ~request[q].due
  /\ request' = [request EXCEPT ![q].due = TRUE]
  /\ UNCHANGED <<storeVars, job, shown, reservation, log, click, faults, approved, executed>>

\* A reservation is made after its request and with the same TTL.
ReservationLapses(s) ==
  /\ reservation[s] # NoRun
  /\ MayExpire
  /\ \A q \in Requests :
       request[q] # NoRequest /\ request[q].run = reservation[s] => request[q].due
  /\ reservation' = [reservation EXCEPT ![s] = NoRun]
  /\ UNCHANGED <<storeVars, job, request, shown, log, click, faults, approved, executed>>

\* A process dies with its approval records and the clicks it was handling.
Homeless(p) == {q \in Requests : request[q] # NoRequest /\ request[q].home = p}
LostClicks(p) == {d \in Deciders : click[d] # IdleClick /\ click[d].request \in Homeless(p)}

Crash(p) ==
  /\ faults.crashes < MaxCrashes
  /\ IF handle[p] = NoHandle THEN UNCHANGED storeVars ELSE Store!Crash(p)
  /\ Rest(p)
  /\ request' = [q \in Requests |->
       IF q \in Homeless(p) THEN [request[q] EXCEPT !.status = "lost"] ELSE request[q]]
  /\ click' = [d \in Deciders |-> IF d \in LostClicks(p) THEN IdleClick ELSE click[d]]
  /\ faults' = [faults EXCEPT !.crashes = @ + 1]
  /\ UNCHANGED <<shown, reservation, log, approved, executed>>

-----------------------------------------------------------------------------

Poll(p) ==
  \/ PollContinuation(p) \/ PollPastContinuation(p)
  \/ PollFresh(p) \/ PollNothing(p)
  \/ GateCloses(p) \/ GateOpens(p)

EndTurn(p) ==
  \/ TurnCompletes(p) \/ TurnThrows(p)
  \/ \E q \in Requests, c \in Commands : TurnPauses(p, q, c)

Settle(p) ==
  \/ ReserveSession(p) \/ SuspendRun(p) \/ FailClosed(p)
  \/ AnnounceSucceeded(p) \/ AnnounceFailed(p) \/ AnnounceRetry(p)
  \/ AnnounceSuspended(p) \/ AnnounceRequested(p) \/ AnnounceClosed(p)
  \/ ReleaseReservation(p)

RunnerStep(p) == Poll(p) \/ EndTurn(p) \/ Settle(p)

OpenClick(d) ==
  \E q \in Requests : Approve(d, q) \/ Reject(d, q) \/ FindExpired(d, q)

DecisionStep(d) ==
  \/ BeginContinuation(d) \/ FailRun(d)
  \/ AnnounceDecided(d) \/ AnnounceResumed(d)
  \/ AnnounceDenied(d) \/ AnnounceDeniedFinish(d)
  \/ ReleaseAfterDenial(d)

Environment ==
  \/ \E s \in Sessions : Enqueue(s) \/ ReservationLapses(s)
  \/ \E r \in RunIds : Withdraw(r)
  \/ \E q \in Requests : RequestFallsDue(q)
  \/ \E p \in Workers : Crash(p)
  \/ LeaseClock
  \/ Reap

Next ==
  \/ \E p \in Workers : RunnerStep(p)
  \/ \E d \in Deciders : OpenClick(d) \/ DecisionStep(d)
  \/ Environment

Spec == Init /\ [][Next]_vars

\* The interval timer polls, every promise settles (a turn ends too) and the
\* reaper's timer fires. No user is obliged to click, no process to die.
Fairness ==
  /\ \A p \in Workers : WF_vars(RunnerStep(p))
  /\ \A d \in Deciders : WF_vars(DecisionStep(d))
  /\ WF_vars(Reap)

FairSpec == Spec /\ Fairness
-----------------------------------------------------------------------------
(* Invariants.                                                             *)

JobPlaces ==
  {"idle", "fresh", "gate", "turn", "reserve", "suspend", "suspended", "requested",
   "succeeded", "failed", "retrying", "closed", "release"}
ClickPlaces ==
  {"idle", "begin", "decided", "resumed", "fail", "denied", "finish", "release"}

\* Every variable keeps its type, and a process holds a handle on the store
\* exactly while it is between a claim and the end of its turn.
TypeOK ==
  /\ Store!TypeOK
  /\ \A p \in Workers :
       /\ job[p].at \in JobPlaces
       /\ (handle[p] # NoHandle) <=> (job[p].at \in {"gate", "turn", "reserve", "suspend"})
       /\ handle[p] # NoHandle => handle[p].run = job[p].run
  /\ \A d \in Deciders : click[d].at \in ClickPlaces
  /\ reservation \in [Sessions -> RunIds \cup {NoRun}]
  /\ request \in [Requests -> ApprovalRequest \cup {NoRequest}]
  /\ shown \subseteq {q \in Requests : request[q] # NoRequest}

\* The command of an approval request is resumed only after its requester
\* approved that very request, and once: not for a decision on an earlier
\* request of the run, a duplicate click, or a restart in between (ADR-0010).
OnlyApprovedCommandsRun ==
  \A q \in Requests : executed[q] > 0 => q \in approved /\ executed[q] = 1

\* No request of the run has passed its TTL.
NoneDue(r) ==
  \A q \in Requests : request[q] # NoRequest /\ request[q].run = r => ~request[q].due

\* A new run of a session stays behind the reservation (ADR-0010), exactly so
\* with one runner: no fresh turn is executed while another run of the session
\* awaits an approval and none of that run's requests has passed its TTL.
SessionQueuesBehindReservation ==
  \A p \in Workers : At(p, "turn") /\ ~job[p].resumes /\ Store!Owns(p) =>
    ~\E r \in Present(rows) \ {job[p].run} :
       /\ rows[r].session = job[p].session
       /\ rows[r].target = "awaiting_approval"
       /\ NoneDue(r)

\* The row bears out a run.finished event.
BornOut(r, e) ==
  /\ rows[r] # NoRow
  /\ IF e.of = "succeeded" THEN rows[r].target = "succeeded"
     ELSE rows[r].target = "failed" /\ rows[r].failureReason = e.of

\* An outcome is announced only when it is durable (ADR-0013): until a lease
\* lapses, every run.finished event agrees with its row.
AnnouncedIsDurable ==
  faults.lapses = 0 =>
    \A r \in RunIds : \A i \in DOMAIN log[r] :
      IsFinished(log[r][i]) => BornOut(r, log[r][i])

\* The same for the outcomes that stay right when leases lapse: success and
\* the failures a decision causes.
AnnouncedSuccessIsDurable ==
  \A r \in RunIds : \A i \in DOMAIN log[r] :
    /\ IsFinished(log[r][i])
    /\ log[r][i].of \in {"succeeded", "approval_denied", "approval_expired"}
    => BornOut(r, log[r][i])

\* A suspended run asks for a command that was approved for an earlier request
\* of it. Its row ignores the approval of a command it was resumed with last.
AsksAgain(r) ==
  LET asked == rows[r].pendingApproval
  IN  \E q \in approved \ {asked.request} :
        request[q].run = r /\ request[q].command = asked.command

\* A suspended run can still be decided, unless the process that held its
\* request died: the request is undecided in that process' registry, or a
\* decision on it is on its way to the run. Left out is a run that asks again
\* for a command it was approved for.
AwaitingCanBeDecided ==
  \A r \in Present(rows) :
    LET asked == rows[r].pendingApproval
    IN  rows[r].target = "awaiting_approval" /\ ~AsksAgain(r) =>
          \/ request[asked.request].status \in {"pending", "lost"}
          \/ \E d \in Deciders :
               click[d].at \in {"begin", "fail"} /\ click[d].request = asked.request

\* Two processes execute a run at once only after a lease lapsed, whatever
\* dies, is requeued or resumed in the meantime (ADR-0001).
OneExecutor ==
  faults.lapses = 0 =>
    \A p1, p2 \in Workers :
      At(p1, "turn") /\ At(p2, "turn") /\ job[p1].run = job[p2].run => p1 = p2

-----------------------------------------------------------------------------
(* Action properties.                                                      *)

\* Until a lease lapses, a reservation is given up only when its TTL has passed
\* or once its run is terminal and its run.finished event is in the log (the
\* release order of the implementation plan, 2.6).
ReleasedAfterFinish ==
  [][faults.lapses = 0 =>
       \A s \in Sessions :
         LET r == reservation[s]
         IN  (r # NoRun /\ reservation'[s] # r)
             => \/ Closed(r) /\ rows[r] # NoRow /\ IsTerminalTarget(rows[r])
                \/ \A q \in Requests :
                     request[q] # NoRequest /\ request[q].run = r => request[q].due]_vars

-----------------------------------------------------------------------------
(* Liveness.                                                               *)

IsQueued(r) == r \in Present(rows) /\ rows[r].target = "queued"
IsOver(r) == r \in Present(rows) /\ IsTerminalTarget(rows[r])

\* A queued run is eventually started (or withdrawn), unless a suspended run's
\* reservation holds the head of the queue: the gate gives the oldest run back
\* with its place, so one reserved session holds back the others too.
Reserved == \E s \in Sessions : reservation[s] # NoRun
QueuedIsServed == \A r \in RunIds : IsQueued(r) ~> (~IsQueued(r) \/ Reserved)

\* A run that is over is eventually announced by a run.finished event.
OverIsAnnounced == \A r \in RunIds : IsOver(r) ~> Closed(r)

\* An approved command is eventually resumed.
ApprovedIsResumed == \A q \in Requests : (q \in approved) ~> (executed[q] > 0)
=============================================================================
