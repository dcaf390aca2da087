# qm-next: a verification development

qm-next is a TypeScript platform that runs AI agents for an organisation. A
message, a cron slot or a monitor becomes a **run**; a process claims the run
under a lease, executes one turn of an agent, and commits the outcome. A turn
may pause on a command that needs an approval: the run is then suspended,
durably, until its requester decides. This directory holds TLA+ models of that
core and of what feeds and watches it (intake, scheduler, session, event
streams, outbound deliveries), the TLC runs that check them, and proofs checked
by TLAPS.

All paths below are relative to `src/repos/qm-next/packages/` unless they
start with `docs/` (then to `src/repos/qm-next/`). `PROJECT.json` maps every
definition to the lines it was translated from.

## 1. The system

| part | state | operations | depends on |
|---|---|---|---|
| run store `store/src/{memory,postgres}-run-store.ts` | one row per run: `status`, `targetState`, lease, counters, stored approval | enqueue, claim, claimById, claimNextContinuation, heartbeat, releaseLease, complete, fail, suspendForApproval, beginContinuationAttempt, failFromApproval, withdraw, reapExpired | Postgres (unique index on running sessions) |
| turn runner `api/src/runner.ts` | the run in hand, one per process | pollOnce (continuation lane, fresh lane, reservation gate), suspend, fail closed | run store, registry, reservations, event log, orchestrator |
| approval continuation `runs/src/approval-continuation.ts` | none | applyApprovalDecision: approve, reject, expired | registry, run store, event log, reservations |
| approval registry `approvals/src/target-memory-approval-store.ts` | requests, in process memory | create, decide, expire, renew, sweep | - |
| session reservations `concurrency/src/memory-session-reservation-store.ts`, Postgres twin | the run that reserves a session, with a TTL | reserve, release, listActiveForSession | - |
| run event log `concurrency/src/in-memory-event-log.ts`, `store/src/postgres-run-event-log.ts` | the events of a run by sequence number, live listeners | publish, snapshot, replay, subscribe, closeTerminal | Postgres |
| lease reaper `runs/src/reaper.ts`, `sweeper.ts` | a pass in progress | sweep | run store, session store |
| run worker `runs/src/worker.ts` | lost-lease counter | processRun with heartbeats (not wired into the service) | run store |
| drain `runs/src/drain.ts`, `instance-registry.ts` | superseded, protection flag | beat, sweep, noteBusy, stop | Postgres |
| orchestrator `orchestrator/src/orchestrator.ts`, admission `admission/src/waterfall.ts` | none that outlives a turn | handleTurn: admit, resolve the harness, read the history, append, release | session store, harness, event log |
| session store `store/src/*session-store.ts` | sessions, their lease, their entries | acquireLease, append, releaseLease, forceReleaseLease, getByThread | Postgres |
| cron scheduler, fire engine `triggers/src/scheduler.ts`, `fire.ts`, `postgres-cron-store.ts` | crons with their slot, fire log, reply routes | tick, claimSlot, submit, unclaimSlot, update | run store, leader lease |
| leader lease `triggers/src/lease.ts` | one shared connection | hold | Postgres advisory locks |
| IM intake `im-core/src/runtime/intake-fanout.ts`, stores, `im-bridge/src/intake-subscriber.ts` | records, cursor per subscriber, attempts, dead letters, the tracker's slot | accept, tick, advance, replayDeadLetter | run store |
| IM delivery `im-core/src/runtime/delivery-loop.ts` and queues | deliveries with lease and attempts | enqueue, claim, ack, fail, tick | provider |
| observation streams `web-ui/src/server.ts` | open responses | subscribe, close | event log |
| monitors, background processes, lease store | | not wired, or without a caller | |
| tasks, tape projection, acl, egress, sandboxes, harnesses, portal, web UI, admin, skills, memory, connectors, credentials, directory | their own records | request/response | - |

How they meet. `service.ts` builds the process: the stores in memory or, with
`databaseUrl`, on Postgres; a turn runner on a 25 ms interval; the decision
routes; and, on Postgres, a reaper in every process. The runner and the
decision handlers interleave at every `await`; processes share only the
database. The event log and the reservations are written after the run row, in
separate calls. A message enters through intake, a cron through the scheduler, a
request through `POST /v1/turns`; the first two enqueue runs, the last calls the
orchestrator directly. Both callers of the orchestrator meet at the session's lease.

What is hard here: executors whose lease lapses while they still work; the
crash between a row and its event; decisions that race the runner's own
announcements, the TTLs and each other; a reaper that decides on rows it read
before an `await`; two state fields and a unique index on the older one; a
retry that crosses from one lane to the other; two leases over one turn; cursors
and counters that a crash forgets; claims, slots and listeners that are read in
one call and used in the next. `PROJECT.json` lists these
hazards at their lines, with the properties that watch them.

What makes each part correct:

* **run store**: one owner per run, a terminal run never changes, a live lease is
  never taken, suspended runs can be resumed and by a decision only, budgets hold,
  orphans are reaped;
* **runner and decisions**: only approved commands run, once; a session waits
  behind its suspended run; what is announced is durable and what is durable is
  announced; reservations outlive their run's last event and no longer; queued runs are
  served;
* **session**: turns serialize, a lease is ended by its own turn, a run whose
  executor died is executed again;
* **intake**: no message skipped, no second turn of one without a reason, none of a click, and
  progress past a record that always fails; **scheduler**: a slot is claimed once, is
  not lost in silence, and is fired;
* **event log**: a stream misses nothing, and ends; **delivery**: bounded sends, a
  second one only for a reason, and every delivery settles.

## 2. Modules

```
RunRows  ──────────  RunStore ── Lifecycle == INSTANCE RunLifecycle
   │                    │ │
   │                    │ └ MCRunStore, RunStoreProofs
   └ RunRowsProofs      ├ Store == INSTANCE in TurnRunner ── MCTurnRunner, TurnRunnerProofs
                        └ Store == INSTANCE in SessionTurn ── MCSessionTurn, SessionTurnProofs

Intake ── MCIntake, IntakeProofs         Scheduler ── MCScheduler, SchedulerProofs
EventLog ── MCEventLog, EventLogProofs   Delivery ── MCDelivery, DeliveryProofs
```

**RunRows** is a row of the table and what each operation does to it: one
operator per write (`Leased`, `Released`, `Completed`, `Retired`, `Suspended`,
`Resumed`, ...) and one per read (`Claimable`, `ContinuationClaimable`,
`LeaseLapsed`, ...). Rows are numbered in createdAt order. A lease keeps
the ticks it has left, not a date. `attempts` stops at `MaxClaims`, the only
number it is compared with. Left out: the request, the result, worker ids,
timestamps, rows migrated from the legacy store (`runSource = 'legacy'`).

**RunStore** is the `RunStore` contract in the common behaviour of its two
implementations. Each operation is one atomic step (a synchronous block in memory, one
guarded `UPDATE` in Postgres), except `reapExpired`, which is `SweepStart` (the
read) and one `SweepNext` per row (`retire` with `ifExpiredAt`), with anything
in between, for each process' reaper. A worker remembers the run and token of
its claim (`handle`); an operation with a stale token changes nothing and
answers false (`Finish`). `Crash` is a process that dies, and equally an
executor that never calls the store again. A token is a UUID: `NewTokens` are
those that neither a row nor a worker knows. `OneRunningIndex` switches the
Postgres index on: a claim it refuses is caught in `claim` and answers null.

**RunLifecycle** is what the queue promises without rows, tokens, leases or
clocks: states, owners, and which moves exist. `RunStore` implements it under
the mapping `state = targetState`, `owner =` the worker whose token is on
the row.

**TurnRunner** composes the store (by `INSTANCE`: each store call is the
store's own action) with the runner of every process, the registry, the
reservations, the event log, the decision handlers and the reaper. A step is
what happens between two awaits that reach another actor; `job[p].at` and
`click[d].at` are the places between them:

| place | the next call |
|---|---|
| `idle`, `fresh` | claimNextContinuation, claim |
| `gate` | listActiveForSession, then releaseLease or the turn |
| `turn` | handleTurn settles: complete, fail, or create a request |
| `reserve`, `suspend` | reserve, suspendForApproval (or fail closed) |
| `suspended`, `requested` | publish attempt.suspended, approval.requested |
| `succeeded`, `failed`, `retrying`, `closed` | publish run.finished or attempt.finished |
| `release` | releaseApprovalReservation |
| click `begin`, `fail` | beginContinuationAttempt, failFromApproval |
| click `decided`, `resumed`, `denied`, `finish` | publish |
| click `release` | release the reservation |

Two deployments, as `service.ts` builds them:

* *memory*: one process, `OneRunningIndex = FALSE`, the log refuses events of a
  closed run, no reaper, nothing survives a crash (`MaxLapses = MaxCrashes = 0`);
* *Postgres*: several processes, `OneRunningIndex = TRUE`, the log takes what it
  is given, rows, reservations and log are durable, the approval registry is in
  each process' memory; leases may lapse and processes die within the bounds.

A turn is any outcome at any time. The history variables `approved` and
`executed` are read by properties only. Left out: failing database calls, the drain
gate `canClaim` (a process that stops claiming), and a turn whose approval
request cannot be created.

**SessionTurn** composes the store (by `INSTANCE`, like TurnRunner) with the
other side of a turn: `handleTurn`, called by the runner of every process and by
`POST /v1/turns`, the lease and the entries of the session, and the reaper. An
actor's `turn` has the place of its next call: `admit` (the waterfall),
`leased` (resolve the harness, read the history), `user` and `run` (append),
`release`, then `settle` or `throws` (complete or fail the run; a client is
answered). A turn's number stands for the UUID of its lease. `lease[s]` is the
row of `session_leases`; `live` is "not expired", and every append makes it so.
The session's lease is taken after the run's and lasts five minutes against
thirty seconds, so it does not lapse while the run's lease holds
(`SessionLeaseLapses`). Postgres deployment only: the memory one has no reaper
and nothing that outlives a crash. Left out: approvals (TurnRunner has them), the
events of the turn (EventLog has them), participants and titles.

**Intake** is the inbox and the bridge subscriber's pass in every process. On
Postgres `accept` takes a number (`TakeNumber`) and inserts the row (`InsertRow`)
in two statements. `at[a].pc` follows `tickSubscriber` and `replayDeadLetter`
call by call; `Handle` is the subscriber's check of `turnId` and the binding of
the tracker. The bridge's `sink` goes one of three ways, by what the delivery is
(`KindOf`): a message addressed to the bridge makes a Turn (`Enqueue`, `Mark`:
`enqueueTurn` and `onTurnCreated`); chatter is dropped or handed to the ambient
judge, and the handler resolves without a Turn either way (`Classify`); a click
makes a Turn if it decides a request that asks for one (`Decide`), at most once
per request, and other events resolve like a click that decides nothing. A call
that throws may have taken effect: `EnqueueThrows` commits its run or does not,
`Decide` has decided or has not. The model ends where the judge is called: its
Turn comes later, if at all, and no record knows of it. A pass ends when nothing is
left, on a failure, or after any record (`maxPerTick`). `OtherPassThrows` is another subscriber's pass that fails:
`Promise.all` rejects, the flag `draining` falls, and the bridge's pass goes
on beside the next one. `turned`, `late` and `excused` are history variables.

**Scheduler** is one cron, the schedulers of several processes and its editor.
The fires of a tick run one after the other, each with its own claim, so crons
meet nowhere else. `Tick` takes the advisory lock over the one connection the
process ever opens for it; `ConnectionDrops` frees the lock under a tick that
goes on. `claimSlot` and `update` read and write in two steps. A fire key is the
cron's id and the slot, so `fired` is a set: the run store refuses the second run
of a key. Times are ticks of a clock, and a slot is a time.

**EventLog** is the log of one run in both implementations, the turn that
publishes and a stale one beside it, and the streams of the web UI. An event is
its number. `pub[e].pc` follows a publish: numbered, stored, told. `Notified`
calls every listener of one process; a listener that sees the run's last event
closes its stream. A client whose stream was cut comes back with the number of the
last event it got, or with none.

**Delivery** is the queue of one provider and the loop of every process:
`Tick` claims a batch under one lease, `Park`, `Send` and `Ack` or `Fail` settle it
in order; any of these calls may throw. `attempts` counts claims, as the code
does. `excused` are the deliveries a lapsed lease, a call that threw or a failed
ack allows to be sent again.

## 3. Runs

Every passing run and its properties (the definitions state each in words):

| run | instance | what it shows |
|---|---|---|
| RunStoreSafety | 2 runs of 1 session, 2 workers, 2 reapers, 3 tokens, 1 command, 2 attempts | one owner, finished runs out of reach, overlap in a session only by resumption, error budget; a live lease is respected; the refinement of RunLifecycle |
| RunStoreClaims | 2 runs, 2 sessions, 1 dedup key, Postgres index, claims limited to 2, a session the reaper skips, a fair clock and reaper | an orphan is reaped |
| RunnerMemory | memory: 2 runs of 1 session, 2 requests, 2 commands, 2 clicks at a time, TTLs may pass | only approved commands run, once; the session queues behind the suspended run; announced outcomes are durable; the reservation is released after the last event |
| RunnerPostgres | Postgres: 2 processes, 2 runs, 2 sessions, 1 request, a lapse and a crash | one executor per run until a lease lapses; a suspended run can be decided unless its process died; announced successes and denials are durable |
| RunnerFair | memory: 3 runs, 2 sessions, 1 request, fair | queued runs are served unless a session is reserved; finished runs are announced; an approved command is resumed |
| SessionTurn | 1 run and 1 synchronous request of 1 session, 2 processes, 1 reaper, 2 lapses (clock or session lease), 1 crash or failed call | turns of a session are serial; a live session lease ends by its own turn |
| Intake | 1 process, 2 passes that may overlap, 1 replay, 3 events (a message, chatter, a click), 2 numbers, 2 attempts, 1 fault, fair | the cursor skips no message; a second turn has a cause, a click makes none; every record is passed |
| Scheduler | 2 processes, single shots and intervals with turns and with messages, 3 instants, 1 edit, 2 faults, fair | no silent loss; a second claim has a cause; a due slot is fired |
| EventLog | both logs, 2 turns in 1 process or 2, 2 events and the last one, 1 client with 2 subscriptions, 1 fault, fair | no gap; repeats have a cause; the memory log ends with run.finished; streams end |
| Delivery | 2 loops, 2 deliveries, batches of 2, 2 attempts, 1 fault, fair | bounded sends; a second send has a cause; every delivery settles |

Bounds, and why they are enough. Two workers and two runs make every pair
of interactions the properties speak of (two owners of a run, two runs of a
session); a third would repeat a pair, except for service, where a third run
stands behind or before another session's. `LeaseTTL = 1` and `MaxSweep = 1` let
a lease lapse before a pass, be renewed during a pass, and lapse during a pass;
`MaxSweep` is the longest pass, and `Aged` stops a lease's count there because
no guard looks further back. Three tokens serve two workers, and two serve RunnerMemory's single process: a token is used
again once neither a row nor a worker knows it, and a claim that finds none free
waits for that. `MaxAttempts = 2` separates the error that retries
from the one that parks; RunnerPostgres has 1, where every error parks. It has one
request too, so that no command comes back and the exception `AwaitingCanBeDecided`
makes for that case is not reached there; its theorem covers every number of requests.
Two clicks at a time are a duplicate click and a race of approval and rejection.
`MaxLapses`, `MaxCrashes` and `MaxFaults` bound the faults of a behaviour; one of
each makes an old and a new executor of one run. `MaxRuns` bounds the rows ever
enqueued, `MaxClaims` is the code's own option.

*SessionTurn*: a run and a client are three turns of one session when the run is
claimed twice; `MaxLapses = 2` is the clock tick that ends the run's lease and the
lapse of the session's behind it. `MaxEmits = 1` is an entry behind the user's.
*Intake*: two numbers are a duplicate, or a record below one that is visible
(`MaxSeq`); two passes and a replay are three handlers of one record, in a process
that shares the tracker. Of the three events, one of each kind, any two meet in the
two numbers; with a second message (2.3 million states) the safety properties held
during development, and the proofs cover any number of each. *Scheduler*: slot 2 of three instants leaves a tick
before the slot, at it, and late; two faults are a dropped connection and what
happens under the tick that lost its lock. *EventLog*: two events and the
last one are enough for an event that overtakes another and one behind the end;
two subscriptions are one that is cut and the one that resumes. *Delivery*: a batch
of two has a delivery whose lease lapses while the other is sent; leases lapse
without bound.

Symmetry is used in safety runs only. Every cfg turns deadlock checking off: the
system rests when nothing is queued and nobody clicks, subscribes, edits or posts.

Fairness. `ReaperFairness`: the clock advances, each process' `setInterval`
keeps firing and its awaits settle. TurnRunner's `Fairness`: weak fairness of each
process' runner as a whole (its interval polls, its promises settle, a turn ends),
of each decision handler once it was entered, and of the reapers. Intake,
Scheduler and Delivery: the interval timer ticks as long as the process lives,
an awaited call settles (well or badly), a back-off or a lease ends. EventLog: a
publish or a subscription that was started goes on. Nobody is obliged to click, to
enqueue, to publish, to edit, or to die, and no outcome of a call is
obliged. No action has strong fairness.

## 4. Disagreements found

Two runs check one sentence of the repository each, and TLC finds it violated by
what the code does. `PROJECT.json` quotes the lines.

| run | sentence | what the code does |
|---|---|---|
| RunnerIndexStarves | both stores behave identically (`types/src/run.ts:6`) | on Postgres a finished row keeps status running and the unique index refuses the session's next run |
| SessionTakeover | the reaper's takeover of a run whose process died (`api/src/service.ts:1267`) | the reaper looks the session up by the wrong name, its lease stays, and the run is claimed again, refused as busy and completed as succeeded |

Further sentences, each refuted by a counterexample during development. They
are kept as text, and as the exceptions of the properties that do hold:

* after a lapsed lease `fail` writes nothing, and run.finished(failed) is published
  all the same (`runner.ts:284`; ADR-0013 announces nothing before it is durable);
* a second pause on the same command counts as a duplicate of the first approval
  (`memory-run-store.ts:293`; ADR-0010: an approved decision creates an attempt);
* a failed continuation attempt is retried in the fresh lane, which replays the
  original input (`runner.ts:226`; `approval-continuation.ts:137` rules that out)
  and does not release the reservation at the end (`runner.ts:276`;
  `approval-continuation.ts:151`);
* a continuation that lost its lease releases the reservation of a run that is
  not terminal (`runner.ts:224`; implementation plan, 2.6);
* the Postgres log takes an event behind run.finished
  (`postgres-run-event-log.ts:185`; the title of a test in
  `store/tests/run-event-log.test.ts:124` says no log does).

Until a lease lapses every announced outcome is durable and no reservation is
released early (checked in RunnerMemory, proved for both deployments); with lapses and
crashes, the announced successes are durable (RunnerPostgres); the memory log does
refuse (EventLog).

The runner and the approvals:

* the runner does not renew its lease during a turn, so after a lapse two
  processes execute one run (`OneExecutor` asks for no lapse; ADR-0001 for none
  at all);
* the answer of `reserve` is ignored (`runner.ts:171`). A run that asks again after
  its first request has passed its TTL may find its session reserved by another run,
  and is suspended without a reservation, with its session going on
  (`SessionQueuesBehindReservation` speaks of runs none of whose requests is due; in
  the code's words the gate is "exact for the single-runner deployment",
  `runner.ts:259`);
* a resumed turn that pauses on a command that was already approved for its run asks
  under the same request id (`orchestrator.ts:253`), and the store takes the second
  approval for a duplicate of the first (`postgres-run-store.ts:328`): the run stays
  suspended (`AwaitingCanBeDecided` excepts a run that `AsksAgain`);
* the approval registry is in memory, so a crash leaves a suspended run nobody
  can decide (`AwaitingCanBeDecided` excepts requests that are `lost`; ADR-0010
  asks for durable decisions, and service.ts names the Postgres registry as a
  follow-up);
* the reservation gate gives the oldest run back with its place in the queue, so a
  reserved session holds back every session until the decision or the TTL
  (`QueuedIsServed` excepts a queue with a reservation; ADR-0010 queues runs of
  the same session);
* transition and event are two writes, so a crash in between loses the event
  (RunnerFair has no crash; ADR-0013 asks for one transaction);
* the sweep that should expire requests has no production caller, so a request
  nobody clicks on stays suspended past its TTL (ADR-0012).

The session and its turns:

* `harness.resolve` throws after the session lease was taken and before the
  `try` whose `finally` gives it back (`orchestrator.ts:125-128`): the session is
  busy until the lease lapses;
* a `releaseLease` that fails in `finally` replaces the turn's result by a
  rejection and leaves the lease; a refused or failed turn completes its run as
  succeeded;
* a turn of more than thirty seconds is requeued by the reaper and executed again.
  A reap counts no error and the service sets no limit on claims, so this has no end.
  Only the session's lease keeps the two turns apart (`TurnsAreSerial`).

Intake (`NothingSkipped` and `SecondTurnHasCause` name the first three as exceptions
and say nothing of the next two):

* a record whose row comes in below a number that is already visible can be
  passed by the cursor (`postgres-intake-store.ts:92-105`; ADR-0008 hands every
  accepted record over);
* with two handlers at once a Turn is noted on the wrong record: the tracker's one
  slot relies on a fan-out that is sequential (`intake-subscriber.ts:15-17`), which
  `Promise.all` and the replay route do not keep;
* `runs.enqueue` carries no dedup key (`bridge.ts:294`): when it commits and its
  answer is lost, the record is handled again and makes a second Turn;
* a click decides its request before it enqueues its Turn (`bridge.ts:520` and `556`,
  `573` and `622`). When the enqueue fails, or the process dies in between, every
  later handler of the record, a replay included, is told `already_decided` and
  resolves: the Turn is lost and the record counts as handled
  (`docs/implementation-plan.md:668`: "Bridge failure does not mark intake
  permanently consumed."). `NothingSkipped` speaks of messages only;
* the ambient judge outlives its handler (`bridge.ts:676`): its errors are logged
  and retried by nobody, and its Turn is noted on no record, so a record that is
  handled again after a failed `advance` or in a second pass is judged again and
  may make a second Turn;
* attempts are counted per process and subscriber: the failures of one record
  count against the next, and a failed `advance` counts against a record that was
  handled.

The scheduler (`SecondClaimHasCause` and `DueIsFired` name these exceptions):

* `unclaimSlot` writes the old slot over one that an edit has set since the claim
  (`postgres-cron-store.ts:223-229`), and an unclaim, an edit or a tick that was
  delayed lets a slot be claimed twice (`contract.ts:122-125` says once; the fire
  key still makes one run of it);
* after its connection has dropped, the process never ticks again
  (`lease.ts:28-40`);
* a refusal or `disableAfterFire` that acts on an old copy switches off a cron
  that an edit has re-armed (`scheduler.ts:70`, `149`);
* a message cron does not unclaim its slot when the delivery fails
  (`scheduler.ts:141-145`).

Event streams (`RepeatHasCause`; `StreamEnds` speaks of the events a stream is owed):

* a live event may be written before the replay, or twice (the comment at
  `in-memory-event-log.ts:125` says replay first, then live);
* a stream of a run that another process executes is told nothing, and never
  closes; the same holds of an end whose insert failed or whose process died
  before it told its listeners (`web-ui/src/server.ts:447-448` promises a natural end);
* a replay whose query fails is an unhandled rejection, which ends the process.

Deliveries: a stale `fail` clears the live lease of another claimer, an `ack`
behind a park leaves a row parked and delivered, `attempts` counts claims whether
or not they led to a send, and a `fail` or `claim` that throws is a rejection
nobody handles. `SendsBounded` and `EveryDeliverySettles` hold in spite of them.

## 5. Proofs

`RunRowsProofs` proves that each row operation, applied where its caller
applies it, turns a sound row into a sound row. `RunStoreProofs` proves, for
any number of rows, sessions, keys, tokens, workers and reapers and any limits,
from the assumptions `CountsAssumption`, `AbsenceAssumption`, `NoRowAssumption`
and `WorkersAssumption` (limits are numbers, sentinels are not values):

* the type invariant and the safety invariants of the store
  (`OneOwner`, `TerminalOutOfReach`, `OverlapOnlyByResumption`,
  `BudgetSpentIsFailed`), the action property `LiveLeaseIsRespected`, and the
  refinement `ImplementsLifecycle`;
* three facts no run checks, because the proof covers every instance:
  `SuspendedIsParked`, `AssertionHolds`, and `TerminalIsFinal`.

The argument. None of the safety invariants is inductive. `Inv` adds:

* `RowsSound`: the two state fields agree (`StatesAgree`), only a running run
  has a lease, a suspended run has its approval, the error budget of an
  unfinished run is not spent. Without `StatesAgree` a step could claim, by its
  `status`, a run whose target state is terminal;
* `TokensUnshared`: no two workers hold the same token, whether or not it is
  still on a row. `OneOwner` alone is not inductive: two workers with the same
  stale token would both own the run once that token is issued again;
* `IndexHolds`: with the unique index a session has one row of status running, which
  a decision keeps so because a suspended row has that status already;
* rows past `created` are absent, so that an enqueue overwrites nothing, and the
  reapers' passes hold run ids.

Steps that write one row go through one lemma (`ReplaceRow`): a sound row that
keeps the session and the key, and runs only if it ran before, was resumed, or
its session is idle, keeps the invariant of all rows. Each action then only
shows that it writes such a row. The action properties use `Inv`
to show that an owned or suspended or pending row is not a finished one.

`DeliveryProofs` proves, for any number of loops, deliveries, attempts and faults and
from `DeliveryAssumption` (the bounds are numbers), the type invariant of `Delivery`,
`SendsBounded` and `SecondSendHasCause`. The inductive invariant has three layers:

* `BatchesInv`: a loop holds a delivery once, and no two loops hold the same
  attempt at it, for an attempt is counted in the statement that claims it;
* `SendsInv`: each attempt that was counted is worth at most one send. `Unsent(d)`
  are the attempts held and not yet sent, `Spent(d)` the counted ones that are
  through; a send moves one from the first to the second, so `sends[d]` never
  exceeds the number of spent ones, which are at most `MaxAttempts`;
* `ExcuseInv`: a delivery that nothing excuses is held by one loop under a live
  lease, and once sent it is delivered or waits for its ack. A second send would
  need a loop that holds it before its send, which the last clause rules out.

`SessionTurnProofs` proves the type invariant of `SessionTurn`, `TurnsAreSerial` and
`LiveSessionLeaseIsKept`, for any number of sessions, workers, clients, reapers,
lapses and crashes, from the assumptions of the store and from `ThreadAssumption`,
`TurnAssumption`, `LeaseAssumption` and `StoreAssumption` (again: limits are numbers,
sentinels are not values). Every step of `SessionTurn` is a step of `RunStore` or
leaves its variables alone, so the invariant of `RunStoreProofs`, and with it
`OneOwner`, holds of the composed system. On top of it stand:

* `IdsUnshared`: no two turns carry the same number, so at most one of them holds a
  session, however many took it before;
* `HistoryIsRead` and `LastIsOwn`: while a turn holds its session, the entries are
  those it has read until it appends, and then end in its own. `TurnsAreSerial` alone
  says nothing about the step that appends;
* the reaper's release of stranded sessions looks up session ids as thread
  references and finds none (`ThreadAssumption`), so it ends no lease at all.

`SchedulerProofs` proves the type invariant of `Scheduler`, `NoSilentLoss` and
`SecondClaimHasCause`, for any number of processes, slots, edits and faults, from
`SchedulerAssumption`. The guard of the claim compares columns another process may
have changed and changed back, so it does not by itself keep a slot from being
claimed twice. `CauseInv` says why it suffices:

* `DueIsNew`: the slot the row makes due was never claimed, or was made due again;
* `IntervalIsStored`: an interval has its next slot in the row, hence the guard
  compares a slot with itself;
* `ShotIsFirst` and `GuardIsFirst`: a single shot has no next slot to compare, but
  its slot is the first and has not been attempted until it is claimed.

`TurnRunnerProofs` proves every safety property of `TurnRunner`: its type invariant,
`OnlyApprovedCommandsRun`, `OneExecutor`, `AnnouncedSuccessIsDurable`,
`AnnouncedIsDurable`, `ReleasedAfterFinish`, `AwaitingCanBeDecided` and
`SessionQueuesBehindReservation`, for any number of processes, runs, requests and
clicks, from the assumptions of the store and from `FaultsAssumption`,
`RequestAssumption` and `StoreAssumption`. Here too every step is a step of the
store. The rest of the invariant follows a request from its creation to its end:

* `UnseenInv`: before it is shown, one process has it in hand and nobody decides it;
* `RowsAsk` and `OpenInv`: a row names the request it was suspended on, and a request
  that can be decided either holds its run or comes too late for it;
* `ClicksInv`: one click at most resumes it, and it does so while the run is still
  suspended on it;
* `NotYetRun`: until its lane takes the run, the command has not been resumed, and the
  lane takes only an approved one;
* `JobsBornOut` and `ClicksBornOut`: an announcement not yet published is borne out by
  its row already, and a terminal row does not change before it is;
* `NothingLapsed`: until the clock moves, whoever executes a run owns it, so that
  `OneExecutor` follows from the tokens being unshared.

Three sections add what the other four properties need, each as a further invariant
beside this one:

* `SettledInv`: until a lease lapses a process that announces a failure has
  written it, and one that gives the reservation up has announced the end; a click
  does so lapse or no lapse. `AnnouncedIsDurable` alone says nothing of an event that
  is still to be published;
* `UndecidedInv`: a request that is being asked is undecided in the registry of the
  process that asks, a row keeps the command of the request it awaits, and so a decision
  that comes in time moves its run. A click can find a suspended run immovable only
  because of `lastCommand`, and then the run asks for a command that a user approved
  for an earlier request of it (`LastApproved`), the case the property excepts;
* `ReservedInv`: a run that awaits a decision, or was resumed and waits for its
  lane, holds the reservation of its session until one of its requests falls due
  (`EngagedHold`); the gate lets a run pass whose session nobody else holds, which
  stays so until it reserves it itself (`GatePassed`); the row of a run that a
  process still has in hand is not decided upon (`BusyAlone`).

`GatePassed` is an invariant of one process only: between the gate and `reserve`
another process could pass the same gate. The theorem about
`SessionQueuesBehindReservation` therefore assumes `OneRunningIndex`, or that there
is one worker, which are the two deployments the service has. With the index the
argument is another: a suspended row keeps its status running, so that the index
(`IndexHolds`, part of the store's invariant) refuses the claim before any gate.

`RunStoreProofs` also proves `ImplementsLifecycle`, the refinement of `RunLifecycle`,
and `SessionTurnProofs` and `TurnRunnerProofs` prove it of the composed systems. The
state of a run is the target of its row; its owner is the worker that holds the
token of its lease, the only one because tokens are unshared, so that the
`CHOOSE` of the mapping has one candidate. Each action is then shown to move one run
from one state and owner to another, as one action of the lifecycle does, or to
move none: a heartbeat, a reaper's read, the clock, a late worker's call. The late
worker is the case that needs `Inv`: the row is then someone else's, and neither the
row nor the owner of any run changes when it lets go.

`EventLogProofs` proves the type invariant of `EventLog`, `NoGap`, `RepeatHasCause`
and `MemoryEndsWithFinish`, for both implementations, any number of events, turns,
processes, clients and subscriptions, from `EventLogAssumption`. `LogInv` says what
the log is: numbers are given out in order, an event is told after it is stored, and
in memory in the same step. `StreamInv` says of each stream what it has been written:

* `Heard`: what its own process has told since it subscribed;
* `Replayed`: what was stored when it subscribed is in the replay that was read,
  and on the stream once that is written. With `Heard` this gives `NoGap`, whichever of the
  two comes first;
* `LiveOnly`: before the replay there is nothing on the stream but live events, each
  once; and `NotReading`: in memory the replay is read in the step that registers the
  listener. With these two a repeat is live first and replayed afterwards, which only
  the Postgres log does.

To a stream every step is one of six: nothing for it, a subscription, the read
of the replay, its writing, a live event, or the end.

`IntakeProofs` proves the type invariant of `Intake`, `NothingSkipped` and
`SecondTurnHasCause`, for any number of deliveries, processes, passes, replays and
faults, from `IntakeAssumption`. The cursor is shared by passes that overlap, and a
pass moves it to a record it read earlier. `SkipInv` therefore keeps, of each pass,
that all below its record was settled when it was read, save rows that came in late
(`Below`), and that it advances over a record that is itself settled. `CauseInv`
follows a Turn whose note is not written yet to the handler that is about to write
it (`NoteIsComing`), and excuses a message in two handlers at once (`RaceExcused`):
a handler that makes a Turn of a message that has one is then excused (`TurnsTwice`).
A click needs another argument: it reaches the enqueue by deciding its request, which
it does once, so one handler at most carries it out and no Turn of it is there yet
(`ClickOnce`).

Only model-checked: all liveness (`OrphanIsReaped`, `QueuedIsServed`, `OverIsAnnounced`,
`ApprovedIsResumed`, `EveryRecordPassed`, `DueIsFired`, `StreamEnds`,
`EveryDeliverySettles`), since the prover has no rule for fairness, and the two
counterexamples of section 4. Every type invariant, safety invariant and action
property that a passing run checks is also a theorem.

## 6. Plan

In this order:

1. Abstract specifications of what the delivery queue and the scheduler promise (a
   delivery is pending, in hand or settled; a slot is due, claimed or through), with the
   refinements proved as that of `RunLifecycle` is.
2. Of the facts no run checks, the order of the events of one run: `attempt.suspended`
   before `approval.requested` before the decision.
3. Reply routes of the fire engine; calendar schedules as a constant function.
4. The drain controller with the instance registry, once the service wires task
   protection; monitors and the process reaper, once they have a caller.

## 7. Not modelled

* Code the service does not run: the worker's heartbeat loop (`runs/src/worker.ts`),
  `createMonitorBroker`, `createProcessReaper` and the reconciliation, the lease
  store, `expire`, `renew` and the sweep of the approval registry. The drain
  controller runs without task protection; its one effect, `canClaim`, stops a
  process from polling.
* Of modelled parts: the ambient judge (`approvals/src/ambient.ts`) behind the call
  that hands a message to it; `discardSession`, which deletes a session with its
  lease (a web session whose first turn was refused, `surface-routes.ts:432`, and an
  admin's reset, `admin-routes.ts:1445`); edits
  that change the kind of a schedule, and a clock that moves between the lock of a
  scheduler's tick and its `now()`; calendar schedules, `maxFiresPerTick` and `markAttempted`,
  `runNow`, and the reply routes (`triggers/src/fire.ts:171-247`); mirror and
  audit subscribers (the same loop with a handler that has no effect on the
  bridge's); `start` and `stop` of the loops; a second provider; the API's own
  event stream (`api/src/routes/runs-observation-routes.ts`); admission records;
  the legacy rows of the run store; its listeners.
* What has no protocol of its own: most of the repository's hundred thousand lines
  are user interface, request routing, wire formats of harnesses and IM platforms,
  sandboxes, and record stores whose operations are single statements. The lines the
  modules stand for are a small share of the whole, and nearly all of those where
  steps of several actors meet.
