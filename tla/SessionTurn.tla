---------------------------- MODULE SessionTurn ----------------------------
(***************************************************************************)
(* A turn inside its session: the orchestrator's handleTurn, called by the *)
(* turn runner of every process and by the synchronous POST /v1/turns,     *)
(* with the session's lease and its entries, the run queue and the reaper. *)
(*                                                                         *)
(* Two leases guard one turn. The run's lease lasts thirty seconds and     *)
(* nothing renews it; the session's lasts five minutes from the last       *)
(* append. Each call on the run store is the action of RunStore it stands  *)
(* for. This is the Postgres deployment: the memory one has no reaper and  *)
(* nothing that outlives a crash.                                          *)
(***************************************************************************)
EXTENDS RunRows, Sequences

CONSTANTS
  Workers, NoHandle, Reapers, NewerSessions,  \* of RunStore
  Clients,      \* synchronous requests
  NoRun,        \* the turn belongs to no run
  ThreadOf,     \* the thread reference of each session
  MaxEmits,     \* entries a turn appends after the user's
  MaxLapses,    \* clock ticks and session leases that lapse
  MaxFaults     \* processes that die and calls on the session store rejected

Actors == Workers \cup Clients

\* The id of a session is a random UUID, never the thread reference of one.
ASSUME ThreadAssumption ==
  \A s, t \in Sessions : ThreadOf[s] # t /\ (ThreadOf[s] = ThreadOf[t] => s = t)

ASSUME TurnAssumption ==
  /\ Workers \cap Clients = {}
  /\ NoRun \notin RunIds
  /\ MaxEmits \in Nat /\ MaxLapses \in Nat /\ MaxFaults \in Nat

\* A row of session_leases: the turn stands for its token.
SessionLease == [turn : Nat, run : RunIds \cup {NoRun}, live : BOOLEAN]

ASSUME LeaseAssumption == NoLease \notin SessionLease

VARIABLES
  rows, created, handle, sweep,  \* of RunStore
  misrouted,  \* the requests (runs or clients) that name an unknown harness
  turn,       \* where each actor is in handleTurn
  turns,      \* how many turns were begun: a turn's number stands for its token
  lease,      \* the row of each session in session_leases
  entries,    \* the entries of each session, in sequence order
  stranded,   \* the session ids each reaper's pass has collected
  outcome,    \* the result stored with each completed run
  lapses,     \* how many clock ticks and lapsed session leases there were
  faults      \* how many processes died and calls failed

Store == INSTANCE RunStore

\* What RunStore assumes of the constants it shares.
ASSUME StoreAssumption ==
  /\ NoHandle \notin Store!Handle
  /\ NoHandle \notin Workers
  /\ NewerSessions \subseteq Sessions

storeVars == <<rows, created, handle, sweep>>
vars == <<rows, created, handle, sweep, misrouted, turn, turns, lease, entries,
          stranded, outcome, lapses, faults>>

Idle == [at |-> "idle"]
Answered == [at |-> "done"]
None == [of |-> "none"]
Ended == [of |-> "ended"]

Init ==
  /\ Store!Init
  /\ misrouted \in {{}} \cup {{q} : q \in RunIds \cup Clients}
  /\ turn = [a \in Actors |-> Idle]
  /\ turns = 0
  /\ lease = [s \in Sessions |-> NoLease]
  /\ entries = [s \in Sessions |-> <<>>]
  /\ stranded = [z \in Reapers |-> {}]
  /\ outcome = [r \in RunIds |-> None]
  /\ lapses = 0
  /\ faults = 0

At(a, at) == turn[a].at = at
Goto(a, at) == turn' = [turn EXCEPT ![a].at = at]

\* handleTurn is over: a runner goes on with its run at `at', a client has its
\* answer.
Over(a, at, result) ==
  turn' = [turn EXCEPT ![a] =
    IF a \in Workers THEN [@ EXCEPT !.at = at, !.result = result] ELSE Answered]

Fault == faults < MaxFaults /\ faults' = faults + 1
Lapse == lapses < MaxLapses /\ lapses' = lapses + 1

\* The actor's own request.
Request(a) == IF turn[a].run = NoRun THEN a ELSE turn[a].run

-----------------------------------------------------------------------------
(* Requests arrive: a run is queued and claimed, or a client waits.        *)

Begin(a, s, r) ==
  /\ turns' = turns + 1
  /\ turn' = [turn EXCEPT ![a] =
       [at |-> "admit", session |-> s, run |-> r, id |-> turns + 1,
        read |-> 0, emits |-> 0, result |-> None]]

Enqueue(s) ==
  /\ Store!Enqueue(s, NoKey)
  /\ UNCHANGED <<misrouted, turn, turns, lease, entries, stranded, outcome, lapses, faults>>

Poll(w) ==
  /\ At(w, "idle")
  /\ Store!Claim(w)
  /\ LET r == handle'[w].run IN Begin(w, rows[r].session, r)
  /\ UNCHANGED <<misrouted, lease, entries, stranded, outcome, lapses, faults>>

Post(c, s) ==
  /\ At(c, "idle")
  /\ Begin(c, s, NoRun)
  /\ UNCHANGED <<storeVars, misrouted, lease, entries, stranded, outcome, lapses, faults>>

-----------------------------------------------------------------------------
(* Admission. The stages before the session one are in order and have no   *)
(* effect on the session; the session stage takes the lease.               *)

InTurn == UNCHANGED <<storeVars, misrouted, turns, stranded, outcome, lapses>>

\* Identity, rate limit, budget or screen says no.
Deny(a) ==
  /\ At(a, "admit")
  /\ Over(a, "settle", Ended)
  /\ InTurn /\ UNCHANGED <<lease, entries, faults>>

Granted(s) == lease[s] # NoLease /\ lease[s].live

\* INSERT, or UPDATE of a lapsed lease.
AcquireLease(a) ==
  LET s == turn[a].session
  IN  /\ At(a, "admit")
      /\ ~Granted(s)
      /\ lease' = [lease EXCEPT ![s] =
                     [turn |-> turn[a].id, run |-> turn[a].run, live |-> TRUE]]
      /\ Goto(a, "leased")
      /\ InTurn /\ UNCHANGED <<entries, faults>>

\* `another turn is active for this session'
FindBusy(a) ==
  LET s == turn[a].session
  IN  /\ At(a, "admit")
      /\ Granted(s)
      /\ Over(a, "settle", [of |-> "busy", by |-> lease[s].run])
      /\ InTurn /\ UNCHANGED <<lease, entries, faults>>

\* A rejected call before the try block rejects handleTurn.
AcquireFails(a) ==
  /\ At(a, "admit")
  /\ Fault
  /\ Over(a, "throws", None)
  /\ InTurn /\ UNCHANGED <<lease, entries>>

-----------------------------------------------------------------------------
(* The turn.                                                               *)

\* harness.resolve throws: the turn is refused before the block whose
\* `finally' gives the lease back.
Misroute(a) ==
  /\ At(a, "leased")
  /\ Request(a) \in misrouted
  /\ Over(a, "settle", Ended)
  /\ InTurn /\ UNCHANGED <<lease, entries, faults>>

ReadHistory(a) ==
  /\ At(a, "leased")
  /\ Request(a) \notin misrouted
  /\ turn' = [turn EXCEPT ![a].at = "user", ![a].read = Len(entries[turn[a].session])]
  /\ InTurn /\ UNCHANGED <<lease, entries, faults>>

HoldsSession_AnyToken(a) == lease[turn[a].session] # NoLease
\* The session's lease carries the turn's token, lapsed or not.
HoldsSession(a) ==
  lease[turn[a].session] # NoLease /\ lease[turn[a].session].turn = turn[a].id

\* append: the lease lasts five minutes from now.
AppendEntry(a, kind) ==
  LET s == turn[a].session
  IN  /\ HoldsSession(a)
      /\ lease' = [lease EXCEPT ![s].live = TRUE]
      /\ entries' = [entries EXCEPT ![s] =
           Append(@, [turn |-> turn[a].id, kind |-> kind, read |-> turn[a].read])]

AppendUser(a) ==
  /\ At(a, "user")
  /\ AppendEntry(a, "user")
  /\ turn' = [turn EXCEPT ![a].at = "run", ![a].read = 0]
  /\ InTurn /\ UNCHANGED faults

Emit(a) ==
  /\ At(a, "run")
  /\ turn[a].emits < MaxEmits
  /\ AppendEntry(a, "emit")
  /\ turn' = [turn EXCEPT ![a].emits = @ + 1]
  /\ InTurn /\ UNCHANGED faults

\* `append without a valid session lease'
AppendRefused(a) ==
  /\ At(a, "user") \/ At(a, "run")
  /\ ~HoldsSession(a)
  /\ Goto(a, "release")
  /\ InTurn /\ UNCHANGED <<lease, entries, faults>>

\* The harness returns or throws, or a call before it throws: all give a result.
EndTurn(a) ==
  /\ At(a, "user") \/ At(a, "run")
  /\ Goto(a, "release")
  /\ InTurn /\ UNCHANGED <<lease, entries, faults>>

\* DELETE of the turn's own lease.
Return_AnyToken(a) == lease' = [lease EXCEPT ![turn[a].session] = NoLease]
Return(a) ==
  lease' = IF HoldsSession(a) THEN [lease EXCEPT ![turn[a].session] = NoLease] ELSE lease

ReleaseLease(a) ==
  /\ At(a, "release")
  /\ Return(a)
  /\ Over(a, "settle", Ended)
  /\ InTurn /\ UNCHANGED <<entries, faults>>

\* A rejected release in `finally' replaces the result by a rejection.
ReleaseFails(a) ==
  /\ At(a, "release")
  /\ Fault
  /\ Over(a, "throws", None)
  /\ InTurn /\ UNCHANGED <<lease, entries>>

-----------------------------------------------------------------------------
(* What the caller does with the result.                                   *)

\* The runner completes the run whatever the result says.
CompleteRun(w) ==
  /\ At(w, "settle")
  /\ Store!Complete(w)
  /\ outcome' = IF Store!Owns(w)
                THEN [outcome EXCEPT ![turn[w].run] = turn[w].result] ELSE outcome
  /\ turn' = [turn EXCEPT ![w] = Idle]
  /\ UNCHANGED <<misrouted, turns, lease, entries, stranded, lapses, faults>>

FailRun_Forgotten(w) ==
  /\ At(w, "throws")
  /\ turn' = [turn EXCEPT ![w] = Idle]
  /\ UNCHANGED <<storeVars, misrouted, turns, lease, entries, stranded, outcome,
                 lapses, faults>>
FailRun(w) ==
  /\ At(w, "throws")
  /\ Store!Fail(w, TRUE, "execution_failed")
  /\ turn' = [turn EXCEPT ![w] = Idle]
  /\ UNCHANGED <<misrouted, turns, lease, entries, stranded, outcome, lapses, faults>>

-----------------------------------------------------------------------------
(* Time, faults and the reaper.                                            *)

\* A process dies in a turn; whoever waited for the answer does so in vain.
Crash(a) ==
  /\ ~At(a, "idle") /\ ~At(a, "done")
  /\ Fault
  /\ IF a \in Workers THEN Store!Crash(a) ELSE UNCHANGED storeVars
  /\ turn' = [turn EXCEPT ![a] = IF a \in Workers THEN Idle ELSE Answered]
  /\ UNCHANGED <<misrouted, turns, lease, entries, stranded, outcome, lapses>>

LeaseClock ==
  /\ Lapse
  /\ Store!Tick
  /\ UNCHANGED <<misrouted, turn, turns, lease, entries, stranded, outcome, faults>>

\* The session lease of a run's turn is taken after the run's and lasts longer.
SessionLeaseLapses(s) ==
  /\ Granted(s)
  /\ ~\E w \in Workers :
        /\ turn[w] # Idle /\ turn[w].id = lease[s].turn
        /\ Store!Owns(w) /\ ~LeaseLapsed(rows[turn[w].run], 0)
  /\ Lapse
  /\ lease' = [lease EXCEPT ![s].live = FALSE]
  /\ UNCHANGED <<storeVars, misrouted, turn, turns, entries, stranded, outcome, faults>>

SweepStart(z) ==
  /\ stranded[z] = {}
  /\ Store!SweepStart(z)
  /\ UNCHANGED <<misrouted, turn, turns, lease, entries, stranded, outcome, lapses, faults>>

SweepNext(z, r) ==
  /\ Store!SweepNext(z, r, FALSE)
  /\ stranded' = IF rows' # rows
                 THEN [stranded EXCEPT ![z] = @ \cup {rows[r].session}] ELSE stranded
  /\ UNCHANGED <<misrouted, turn, turns, lease, entries, outcome, lapses, faults>>

\* getByThread
ByThread(ref) == {s \in Sessions : ThreadOf[s] = ref}

\* releaseStrandedSessionLeases looks the run's session ids up as thread
\* references.
ReleaseStranded(z) ==
  /\ stranded[z] # {} /\ sweep[z].rows = {}
  /\ lease' = [s \in Sessions |->
       IF \E ref \in stranded[z] : s \in ByThread(ref) THEN NoLease ELSE lease[s]]
  /\ stranded' = [stranded EXCEPT ![z] = {}]
  /\ UNCHANGED <<storeVars, misrouted, turn, turns, entries, outcome, lapses, faults>>

-----------------------------------------------------------------------------

TurnStep(a) ==
  \/ Deny(a) \/ AcquireLease(a) \/ FindBusy(a) \/ AcquireFails(a)
  \/ Misroute(a) \/ ReadHistory(a) \/ AppendUser(a) \/ Emit(a) \/ AppendRefused(a)
  \/ EndTurn(a) \/ ReleaseLease(a) \/ ReleaseFails(a)
  \/ Crash(a)

ReaperStep(z) ==
  SweepStart(z) \/ ReleaseStranded(z) \/ \E r \in RunIds : SweepNext(z, r)

Next ==
  \/ \E s \in Sessions : Enqueue(s) \/ SessionLeaseLapses(s)
  \/ \E c \in Clients, s \in Sessions : Post(c, s)
  \/ \E w \in Workers : Poll(w) \/ CompleteRun(w) \/ FailRun(w)
  \/ \E a \in Actors : TurnStep(a)
  \/ \E z \in Reapers : ReaperStep(z)
  \/ LeaseClock

Spec == Init /\ [][Next]_vars

-----------------------------------------------------------------------------
(* Invariants.                                                             *)

Places == {"idle", "admit", "leased", "user", "run", "release", "settle", "throws", "done"}
Busy == {a \in Actors : turn[a].at \notin {"idle", "done"}}

\* Every variable keeps its type: a runner is in a turn exactly while it has a
\* run in hand, and no two turns have the same token.
TypeOK ==
  /\ Store!TypeOK
  /\ \A a \in Actors : turn[a].at \in Places
  /\ \A w \in Workers : (handle[w] # NoHandle) <=> w \in Busy
  /\ \A w \in Workers \cap Busy : turn[w].run = handle[w].run
  /\ \A a, b \in Busy : turn[a].id = turn[b].id => a = b
  /\ \A s \in Sessions : lease[s] # NoLease => lease[s].turn \in 1..turns
  /\ \A z \in Reapers : stranded[z] \subseteq Sessions

\* Concurrent turns of a session serialize (types/session-store.ts): the
\* entries of a turn are one block, and its user entry stands right behind
\* the history the turn was given, whatever lapsed between that read and the
\* appends.
TurnsAreSerial ==
  \A s \in Sessions : \A i \in DOMAIN entries[s] :
    LET e == entries[s][i]
    IN  IF e.kind = "user" THEN e.read = i - 1
        ELSE i > 1 /\ entries[s][i - 1].turn = e.turn

\* A run whose executor died or was too slow is executed again, by whoever
\* claims it after the reaper (service.ts: the takeover the runbook promises):
\* it does not end refused because of the lease of its own earlier turn.
RetryIsExecuted ==
  \A r \in RunIds : outcome[r].of = "busy" => outcome[r].by # r

-----------------------------------------------------------------------------
(* Action properties.                                                      *)

\* A session lease that has not lapsed ends by the release of its own turn and
\* by nothing else: not by the late release of a turn that lost it, nor by
\* the reaper.
LiveSessionLeaseIsKept ==
  [][\A s \in Sessions :
       Granted(s) /\ (lease'[s] = NoLease \/ lease'[s].turn # lease[s].turn)
       => \E a \in Busy : At(a, "release") /\ turn[a].id = lease[s].turn]_vars
=============================================================================
