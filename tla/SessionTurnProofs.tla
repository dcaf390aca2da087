------------------------- MODULE SessionTurnProofs -------------------------
(***************************************************************************)
(* A turn in its session, for any number of sessions, processes, clients,  *)
(* entries, lapses and faults: the entries of a turn are one block, and a  *)
(* live session lease is nobody's to end but its turn's.                   *)
(*                                                                         *)
(* Every step is a step of the run store or leaves it alone, so that the   *)
(* invariant of RunStoreProofs is one of this module too. What it adds:    *)
(* tokens of turns are never shared, and while a turn that may append      *)
(* still holds its session, the entries are those it has seen.             *)
(***************************************************************************)
EXTENDS SessionTurn, TLAPS

SP == INSTANCE RunStoreProofs

-----------------------------------------------------------------------------
(* The run store.                                                          *)

\* RunStoreProofs speaks of the same store.
LEMMA SameClaim ==
  ASSUME NEW w, Store!Claim(w)
  PROVE  SP!Claim(w)
BY DEF Store!Claim, SP!Claim, Store!Oldest, SP!Oldest, Store!Present, SP!Present,
       Store!Claimable, SP!Claimable, Store!SessionBusy, SP!SessionBusy,
       Store!IndexRefuses, SP!IndexRefuses, Store!NewTokens, SP!NewTokens,
       Store!Holds, SP!Holds, Store!Take, SP!Take, Store!Leased, SP!Leased,
       Store!Fresh, SP!Fresh, Store!Counted, SP!Counted, Store!RunIds, SP!RunIds,
       Store!Unlimited, SP!Unlimited

LEMMA SameEnds ==
  ASSUME NEW w
  PROVE  /\ Store!Complete(w) => SP!Complete(w)
         /\ Store!Fail(w, TRUE, "execution_failed") => SP!Fail(w, TRUE, "execution_failed")
         /\ Store!Crash(w) => SP!Crash(w)
BY DEF Store!Complete, SP!Complete, Store!Fail, SP!Fail, Store!Crash, SP!Crash,
       Store!Finish, SP!Finish, Store!Owns, SP!Owns, Store!Present, SP!Present,
       Store!Holds, SP!Holds, Store!RunIds, SP!RunIds, Store!Completed, SP!Completed,
       Store!Retired, SP!Retired, Store!MayRetry, SP!MayRetry, Store!Released,
       SP!Released, Store!OverClaimed, SP!OverClaimed, Store!Unlimited, SP!Unlimited

LEMMA SameSweep ==
  ASSUME NEW z, NEW r
  PROVE  /\ Store!SweepStart(z) => SP!SweepStart(z)
         /\ Store!SweepNext(z, r, FALSE) => SP!SweepNext(z, r, FALSE)
BY DEF Store!SweepStart, SP!SweepStart, Store!SweepNext, SP!SweepNext,
       Store!Lapsed, SP!Lapsed, Store!StillLapsed, SP!StillLapsed,
       Store!LeaseLapsed, SP!LeaseLapsed, Store!Present, SP!Present,
       Store!RunIds, SP!RunIds, Store!Retired, SP!Retired, Store!MayRetry,
       SP!MayRetry, Store!Released, SP!Released, Store!OverClaimed, SP!OverClaimed,
       Store!Unlimited, SP!Unlimited

LEMMA SameRest ==
  /\ \A s : Store!Enqueue(s, NoKey) => SP!Enqueue(s, NoKey)
  /\ Store!Tick => SP!Tick
  /\ Store!Init => SP!Init
BY DEF Store!Enqueue, SP!Enqueue, Store!KeyTaken, SP!KeyTaken, Store!Present,
       SP!Present, Store!RunIds, SP!RunIds, Store!NewRow, SP!NewRow, Store!Tick,
       SP!Tick, Store!Sweeping, SP!Sweeping, Store!Aged, SP!Aged, Store!Init, SP!Init

\* Its assumptions are those of this module.
LEMMA StoreAssumptions ==
  /\ NoHandle \notin SP!Handle /\ NoHandle \notin Workers /\ NewerSessions \subseteq Sessions
  /\ NoRow \notin SP!Row
  /\ NoKey \notin Keys /\ NoLease \notin SP!Lease /\ NoApproval \notin SP!Approval
  /\ NoCommand \notin Commands
BY StoreAssumption, NoRowAssumption, AbsenceAssumption
   DEF SP!Handle, Store!Handle, SP!RunIds, Store!RunIds, SP!Row, Row, SP!Lease, Lease,
       SP!Approval, Approval, SP!Statuses, Statuses, SP!TargetStates, TargetStates,
       SP!FailureReasons, FailureReasons

\* A step of this module is one of the store, or none.
LEMMA StepOfStore == [Next]_vars => [SP!Next]_(SP!vars)
<1>1. ASSUME NEW a \in Actors, TurnStep(a)
      PROVE  [SP!Next]_(SP!vars)
  <2>1. CASE Crash(a) /\ a \in Workers
    BY <2>1, SameEnds DEF Crash, SP!Next, SP!WorkerStep
  <2>2. CASE ~(Crash(a) /\ a \in Workers)
    BY <1>1, <2>2
       DEF TurnStep, Deny, AcquireLease, FindBusy, AcquireFails, Misroute, ReadHistory,
           AppendUser, Emit, AppendRefused, EndTurn, ReleaseLease, ReleaseFails, Crash,
           InTurn, storeVars, SP!vars
  <2> QED
    BY <2>1, <2>2
<1>2. ASSUME NEW z \in Reapers, ReaperStep(z)
      PROVE  [SP!Next]_(SP!vars)
  <2>1. ASSUME NEW r \in RunIds, SweepNext(z, r)
        PROVE  SP!Next
    BY <2>1, SameSweep DEF SweepNext, SP!Next, SP!ReaperStep, SP!RunIds, RunIds
  <2>2. CASE SweepStart(z)
    BY <2>2, SameSweep DEF SweepStart, SP!Next, SP!ReaperStep
  <2>3. CASE ReleaseStranded(z)
    BY <2>3 DEF ReleaseStranded, storeVars, SP!vars
  <2> QED
    BY <1>2, <2>1, <2>2, <2>3 DEF ReaperStep
<1>3. ASSUME NEW w \in Workers, Poll(w) \/ CompleteRun(w) \/ FailRun(w)
      PROVE  SP!Next
  BY <1>3, SameClaim, SameEnds DEF Poll, CompleteRun, FailRun, SP!Next, SP!WorkerStep
<1>4. ASSUME NEW s \in Sessions, Enqueue(s)
      PROVE  SP!Next
  BY <1>4, SameRest DEF Enqueue, SP!Next
<1>5. CASE LeaseClock
  BY <1>5, SameRest DEF LeaseClock, SP!Next
<1>6. ASSUME NEW s \in Sessions, \/ SessionLeaseLapses(s)
                                 \/ \E c \in Clients : Post(c, s)
      PROVE  UNCHANGED SP!vars
  BY <1>6 DEF SessionLeaseLapses, Post, storeVars, SP!vars
<1>7. CASE UNCHANGED vars
  BY <1>7 DEF vars, SP!vars
<1> QED
  BY <1>1, <1>2, <1>3, <1>4, <1>5, <1>6, <1>7 DEF Next

\* The invariant of the store is kept.
LEMMA StoreInvStep == SP!Inv /\ [Next]_vars => SP!Inv'
BY StepOfStore, SP!StepKeepsInv, StoreAssumptions, CountsAssumption

LEMMA StoreInvInit == Init => SP!Inv
BY SP!InitIsInv, SameRest, StoreAssumptions, CountsAssumption DEF Init

\* What the rest of this module reads of the store.
LEMMA StoreFacts ==
  ASSUME SP!Inv
  PROVE  /\ Store!TypeOK
         /\ handle \in [Workers -> Store!Handle \cup {NoHandle}]
         /\ \A w \in Workers : handle[w] # NoHandle => handle[w].run \in RunIds
         /\ \A r \in RunIds : rows[r] # NoRow => rows[r].session \in Sessions
<1>1. Store!TypeOK
  BY DEF SP!Inv, SP!RowsInv, SP!RowsTyped, SP!HandlesInv, SP!SweepInv, Store!TypeOK,
         SP!RunIds, Store!RunIds, SP!Row, Store!Row, SP!Handle, Store!Handle,
         SP!Statuses, Store!Statuses, SP!TargetStates, Store!TargetStates,
         SP!FailureReasons, Store!FailureReasons, SP!Lease, Store!Lease,
         SP!Approval, Store!Approval
<1>2. \A r \in RunIds : rows[r] # NoRow => rows[r].session \in Sessions
  BY <1>1 DEF Store!TypeOK, Store!Row, Store!RunIds, RunIds
<1> QED
  BY <1>1, <1>2 DEF Store!TypeOK, Store!Handle, Store!RunIds, RunIds

\* A claim takes a run that exists into the worker's hand.
LEMMA ClaimMoves ==
  ASSUME SP!Inv, NEW w \in Workers, Store!Claim(w)
  PROVE  /\ handle[w] = NoHandle /\ handle'[w] # NoHandle
         /\ handle'[w].run \in RunIds
         /\ rows[handle'[w].run].session \in Sessions
         /\ \A v \in Workers \ {w} : handle'[v] = handle[v]
<1>1. PICK r \in Store!Present(rows), t \in Store!NewTokens :
        handle' = [handle EXCEPT ![w] = [run |-> r, token |-> t]]
  BY DEF Store!Claim, Store!Take
<1>2. r \in RunIds /\ rows[r] # NoRow /\ t \in Tokens
  BY DEF Store!Present, Store!RunIds, RunIds, Store!NewTokens
<1>3. [run |-> r, token |-> t] \in Store!Handle
  BY <1>2 DEF Store!Handle, Store!RunIds, RunIds
<1> QED
  BY <1>1, <1>2, <1>3, StoreFacts, StoreAssumption DEF Store!Claim

\* The end of a run, or of its process, takes it out of the worker's hand.
LEMMA EndMoves ==
  ASSUME SP!Inv, NEW w \in Workers,
         \/ Store!Complete(w)
         \/ Store!Fail(w, TRUE, "execution_failed")
         \/ Store!Crash(w)
  PROVE  /\ handle[w] # NoHandle /\ handle'[w] = NoHandle
         /\ \A v \in Workers \ {w} : handle'[v] = handle[v]
BY StoreFacts DEF Store!Complete, Store!Fail, Store!Crash, Store!Finish

\* The reaper changes the row of a run that exists, and nobody's hand.
LEMMA SweepMoves ==
  ASSUME SP!Inv, NEW z, NEW r \in RunIds, Store!SweepNext(z, r, FALSE)
  PROVE  /\ handle' = handle
         /\ rows' # rows => rows[r].session \in Sessions
<1>1. rows' # rows => rows[r] # NoRow
  BY DEF Store!SweepNext, Store!StillLapsed, Store!Present
<1> QED
  BY <1>1, StoreFacts DEF Store!SweepNext

-----------------------------------------------------------------------------
(* Turns.                                                                  *)

Results ==
  {None, Ended} \cup [of : {"busy"}, by : RunIds \cup {NoRun}]

Turn ==
  [at : Places \ {"idle", "done"}, session : Sessions, run : RunIds \cup {NoRun},
   id : Nat, read : Nat, emits : Nat, result : Results]

Entry == [turn : Nat, kind : {"user", "emit"}, read : Nat]

TurnsTyped == turn \in [Actors -> Turn \cup {Idle, Answered}] /\ turns \in Nat

\* A process whose runner is in a turn has the run of that turn in hand.
HandsMatch ==
  \A w \in Workers :
    /\ handle[w] # NoHandle <=> w \in Busy
    /\ w \in Busy => turn[w].run = handle[w].run

IdsUnshared ==
  /\ \A a \in Busy : turn[a].id \in 1..turns
  /\ \A a, b \in Busy : turn[a].id = turn[b].id => a = b

\* Who is in a turn.
LEMMA InATurn ==
  ASSUME TurnsTyped, NEW a \in Actors
  PROVE  /\ a \in Busy <=> turn[a] \in Turn
         /\ a \in Busy <=> ~At(a, "idle") /\ ~At(a, "done")
         /\ a \notin Busy => turn[a] \in {Idle, Answered}
         /\ turn[a].at \in Places
<1>1. turn[a] \in Turn \cup {Idle, Answered}
  BY DEF TurnsTyped
<1>2. CASE turn[a] \in Turn
  BY <1>2 DEF Turn, Busy, Places, At
<1>3. CASE turn[a] = Idle
  BY <1>3 DEF Turn, Busy, Places, At, Idle
<1>4. CASE turn[a] = Answered
  BY <1>4 DEF Turn, Busy, Places, At, Answered
<1> QED
  BY <1>1, <1>2, <1>3, <1>4

\* A turn that goes on is the same turn.
SameTurn(t, u) ==
  t \in Turn /\ t.session = u.session /\ t.run = u.run /\ t.id = u.id

LeasesTyped ==
  /\ lease \in [Sessions -> SessionLease \cup {NoLease}]
  /\ \A s \in Sessions : lease[s] # NoLease => lease[s].turn \in 1..turns

EntriesTyped == entries \in [Sessions -> Seq(Entry)]

Typed == TurnsTyped /\ LeasesTyped /\ EntriesTyped

\* What a step of handleTurn makes of the turn.
Goes(a) ==
  /\ \A b \in Actors \ {a} : turn'[b] = turn[b]
  /\ turn' \in [Actors -> Turn \cup {Idle, Answered}]
  /\ turn'[a].at = "user" => ReadHistory(a)
  /\ turn'[a].at = "run" => AppendUser(a) \/ Emit(a)
  /\ \/ SameTurn(turn'[a], turn[a])
     \/ a \in Clients /\ turn'[a] = Answered
     \/ a \in Workers /\ turn'[a] = Idle /\ Crash(a)

LEMMA OverGoes ==
  ASSUME Typed, NEW a \in Actors, a \in Busy, NEW at \in {"settle", "throws"},
         NEW result \in Results,
         turn' = [turn EXCEPT ![a] =
           IF a \in Workers THEN [@ EXCEPT !.at = at, !.result = result] ELSE Answered]
  PROVE  Goes(a)
<1>1. turn[a] \in Turn /\ turn \in [Actors -> Turn \cup {Idle, Answered}]
  BY InATurn DEF Typed, TurnsTyped
<1>2. CASE a \in Workers
  <2>1. turn'[a] = [turn[a] EXCEPT !.at = at, !.result = result]
    BY <1>1, <1>2
  <2>2. SameTurn(turn'[a], turn[a]) /\ turn'[a].at = at
    BY <1>1, <2>1 DEF SameTurn, Turn, Places
  <2> QED
    BY <1>1, <2>2 DEF Goes, SameTurn
<1>3. CASE a \notin Workers
  <2>1. turn'[a] = Answered /\ a \in Clients
    BY <1>1, <1>3 DEF Actors
  <2> QED
    BY <1>1, <2>1 DEF Goes, Answered
<1> QED
  BY <1>2, <1>3

LEMMA GotoGoes ==
  ASSUME Typed, NEW a \in Actors, a \in Busy, NEW at \in {"leased", "release"},
         turn' = [turn EXCEPT ![a].at = at]
  PROVE  Goes(a)
<1>1. /\ turn[a] \in Turn /\ at \in Places \ {"idle", "done"}
      /\ turn \in [Actors -> Turn \cup {Idle, Answered}]
  BY InATurn DEF Typed, TurnsTyped, Places
<1>2. turn'[a] = [turn[a] EXCEPT !.at = at]
  BY <1>1
<1>3. SameTurn(turn'[a], turn[a]) /\ turn'[a].at = at
  BY <1>1, <1>2 DEF SameTurn, Turn, Places
<1> QED
  BY <1>1, <1>3 DEF Goes, SameTurn

\* Every step of handleTurn moves its own actor's turn, which was begun.
LEMMA TurnMoves ==
  ASSUME Typed, NEW a \in Actors, TurnStep(a)
  PROVE  /\ a \in Busy /\ turn[a] \in Turn /\ turns' = turns
         /\ ~Crash(a) => UNCHANGED storeVars
         /\ Goes(a)
<1>1. a \in Busy
  BY InATurn
     DEF Typed, TurnStep, Deny, AcquireLease, FindBusy, AcquireFails, Misroute,
         ReadHistory, AppendUser, Emit, AppendRefused, EndTurn, ReleaseLease,
         ReleaseFails, Crash, At
<1>2. turn[a] \in Turn /\ turn \in [Actors -> Turn \cup {Idle, Answered}]
  BY <1>1, InATurn DEF Typed, TurnsTyped
<1>3. turns' = turns /\ (~Crash(a) => UNCHANGED storeVars)
  BY DEF TurnStep, Deny, AcquireLease, FindBusy, AcquireFails, Misroute, ReadHistory,
         AppendUser, Emit, AppendRefused, EndTurn, ReleaseLease, ReleaseFails, Crash,
         InTurn
<1>4. turn[a].session \in Sessions
  BY <1>2 DEF Turn
<1> SUFFICES Goes(a)
  BY <1>1, <1>2, <1>3
<1>5. CASE Deny(a) \/ AcquireFails(a) \/ Misroute(a) \/ ReleaseLease(a) \/ ReleaseFails(a)
  <2>1. Ended \in Results /\ None \in Results
    BY DEF Results
  <2> QED
    BY <1>1, <1>5, <2>1, OverGoes
       DEF Deny, AcquireFails, Misroute, ReleaseLease, ReleaseFails, Over
<1>6. CASE FindBusy(a)
  <2>1. lease[turn[a].session] \in SessionLease
    BY <1>4, <1>6 DEF FindBusy, Granted, Typed, LeasesTyped
  <2>2. [of |-> "busy", by |-> lease[turn[a].session].run] \in Results
    BY <2>1 DEF Results, SessionLease
  <2> QED
    BY <1>1, <1>6, <2>2, OverGoes DEF FindBusy, Over
<1>7. CASE AcquireLease(a) \/ AppendRefused(a) \/ EndTurn(a)
  BY <1>1, <1>7, GotoGoes DEF AcquireLease, AppendRefused, EndTurn, Goto
<1>8. CASE ReadHistory(a)
  <2>1. PICK n \in Nat : n = Len(entries[turn[a].session])
    <3>1. entries[turn[a].session] \in Seq(Entry)
      BY <1>4 DEF Typed, EntriesTyped
    <3> QED
      BY <3>1
  <2>2. turn'[a] = [turn[a] EXCEPT !.at = "user", !.read = n]
    BY <1>2, <1>8, <2>1 DEF ReadHistory
  <2>3. SameTurn(turn'[a], turn[a]) /\ turn'[a].at = "user"
    BY <1>2, <2>2 DEF SameTurn, Turn, Places
  <2>4. \A b \in Actors \ {a} : turn'[b] = turn[b]
    BY <1>2, <1>8 DEF ReadHistory
  <2>5. turn' \in [Actors -> Turn \cup {Idle, Answered}]
    BY <1>2, <1>8, <2>3 DEF ReadHistory, SameTurn
  <2> QED
    BY <1>8, <2>3, <2>4, <2>5 DEF Goes, SameTurn
<1>9. CASE AppendUser(a)
  <2>1. turn'[a] = [turn[a] EXCEPT !.at = "run", !.read = 0]
    BY <1>2, <1>9 DEF AppendUser
  <2>2. SameTurn(turn'[a], turn[a]) /\ turn'[a].at = "run"
    <3>0. PICK n \in Nat : n = 0
      OBVIOUS
    <3>1. turn'[a] \in Turn /\ turn'[a].at = "run"
      <4>1. turn'[a] = [turn[a] EXCEPT !.at = "run", !.read = n]
        BY <2>1, <3>0
      <4> QED
        BY <1>2, <4>1 DEF Turn, Places
    <3>2. /\ turn'[a].session = turn[a].session
          /\ turn'[a].run = turn[a].run /\ turn'[a].id = turn[a].id
      BY <1>2, <2>1 DEF Turn
    <3> QED
      BY <3>1, <3>2 DEF SameTurn
  <2>3. \A b \in Actors \ {a} : turn'[b] = turn[b]
    BY <1>2, <1>9 DEF AppendUser
  <2>4. turn' \in [Actors -> Turn \cup {Idle, Answered}]
    BY <1>2, <1>9, <2>2 DEF AppendUser, SameTurn
  <2> QED
    BY <1>9, <2>2, <2>3, <2>4 DEF Goes, SameTurn
<1>10. CASE Emit(a)
  <2>0. PICK n \in Nat : n = turn[a].emits + 1
    BY <1>2 DEF Turn
  <2>1. turn'[a] = [turn[a] EXCEPT !.emits = n] /\ turn[a].at = "run"
    BY <1>2, <1>10, <2>0 DEF Emit, At
  <2>2. SameTurn(turn'[a], turn[a]) /\ turn'[a].at = "run"
    BY <1>2, <2>1 DEF SameTurn, Turn, Places
  <2>3. \A b \in Actors \ {a} : turn'[b] = turn[b]
    BY <1>2, <1>10 DEF Emit
  <2>4. turn' \in [Actors -> Turn \cup {Idle, Answered}]
    BY <1>2, <1>10, <2>2 DEF Emit, SameTurn
  <2> QED
    BY <1>10, <2>2, <2>3, <2>4 DEF Goes, SameTurn
<1>11. CASE Crash(a)
  BY <1>2, <1>11 DEF Crash, Goes, SameTurn, Actors, Idle, Answered
<1> QED
  BY <1>5, <1>6, <1>7, <1>8, <1>9, <1>10, <1>11 DEF TurnStep

\* A turn that is begun is at its admission, under a number no turn had.
LEMMA BeginMoves ==
  ASSUME TurnsTyped, NEW a \in Actors, NEW s \in Sessions,
         NEW r \in RunIds \cup {NoRun}, Begin(a, s, r)
  PROVE  /\ \A b \in Actors \ {a} : turn'[b] = turn[b]
         /\ turn' \in [Actors -> Turn \cup {Idle, Answered}]
         /\ turn'[a] \in Turn /\ turn'[a].at = "admit" /\ turn'[a].id = turns + 1
         /\ turn'[a].run = r /\ turns' = turns + 1
<1>1. [at |-> "admit", session |-> s, run |-> r, id |-> turns + 1,
       read |-> 0, emits |-> 0, result |-> None] \in Turn
  BY DEF TurnsTyped, Turn, Places, Results
<1> QED
  BY <1>1 DEF Begin, TurnsTyped

TurnsInv == TurnsTyped /\ HandsMatch /\ IdsUnshared

\* One turn changes at a time, and its number is its own or a new one.
LEMMA IdsStay ==
  ASSUME TurnsTyped, IdsUnshared, NEW a \in Actors,
         \A b \in Actors \ {a} : turn'[b] = turn[b],
         \/ a \notin Busy'
         \/ a \in Busy /\ turn'[a].id = turn[a].id /\ turns' = turns
         \/ turn'[a].id = turns + 1 /\ turns' = turns + 1,
         turns' \in {turns, turns + 1}
  PROVE  IdsUnshared'
<1>1. /\ turns \in Nat
      /\ \A b \in Busy : turn[b].id \in 1..turns
      /\ \A b, c \in Busy : turn[b].id = turn[c].id => b = c
  BY DEF TurnsTyped, IdsUnshared
<1>2. \A b \in Actors \ {a} : b \in Busy' <=> b \in Busy
  BY DEF Busy
<1>3. Busy' \subseteq Actors
  BY DEF Busy
<1> QED
  BY <1>1, <1>2, <1>3 DEF IdsUnshared

\* Runners begin and end turns as they take and drop runs.
LEMMA TurnsStep ==
  ASSUME SP!Inv, Typed, TurnsInv, [Next]_vars
  PROVE  TurnsInv' /\ turns' \in Nat /\ turns <= turns'
<1> DEFINE Goal == TurnsInv' /\ turns' \in Nat /\ turns <= turns'
<1>1. ASSUME NEW a \in Actors, TurnStep(a)
      PROVE  Goal
  <2>1. a \in Busy /\ turn[a] \in Turn /\ turns' = turns /\ Goes(a)
    BY <1>1, TurnMoves
  <2>2. IdsUnshared'
    BY <2>1, IdsStay DEF TurnsInv, Goes, SameTurn, Busy, Answered, Idle
  <2>3. TurnsTyped' /\ turns' \in Nat /\ turns <= turns'
    BY <2>1 DEF Goes, TurnsInv, TurnsTyped
  <2>4. CASE Crash(a) /\ a \in Workers
    <3>1. handle'[a] = NoHandle /\ \A v \in Workers \ {a} : handle'[v] = handle[v]
      BY <2>4, EndMoves DEF Crash
    <3>2. turn'[a] = Idle
      BY <2>4 DEF Crash, Typed, TurnsTyped
    <3>3. HandsMatch'
      BY <2>1, <3>1, <3>2 DEF Goes, TurnsInv, HandsMatch, Busy, Idle, Actors
    <3> QED
      BY <2>2, <2>3, <3>3 DEF TurnsInv
  <2>5. CASE ~(Crash(a) /\ a \in Workers)
    <3>1. handle' = handle
      BY <1>1, <2>5, TurnMoves DEF Crash, storeVars
    <3>2. a \in Workers => SameTurn(turn'[a], turn[a])
      BY <2>1, <2>5, TurnAssumption DEF Goes
    <3>3. a \in Workers => a \in Busy' /\ turn'[a].run = turn[a].run
      BY <3>2 DEF SameTurn, Turn, Busy
    <3>4. \A w \in Workers \ {a} : turn'[w] = turn[w]
      BY <2>1 DEF Goes, Actors
    <3>5. HandsMatch'
      BY <2>1, <3>1, <3>3, <3>4 DEF TurnsInv, HandsMatch, Busy, Actors
    <3> QED
      BY <2>2, <2>3, <3>5 DEF TurnsInv
  <2> QED
    BY <2>4, <2>5
<1>2. ASSUME NEW w \in Workers, Poll(w)
      PROVE  Goal
  <2>1. Store!Claim(w) /\ Begin(w, rows[handle'[w].run].session, handle'[w].run)
    BY <1>2 DEF Poll
  <2>2. /\ handle'[w] # NoHandle /\ handle'[w].run \in RunIds
        /\ rows[handle'[w].run].session \in Sessions
        /\ \A v \in Workers \ {w} : handle'[v] = handle[v]
    BY <2>1, ClaimMoves
  <2>3. w \in Actors
    BY DEF Actors
  <2>4. PICK s \in Sessions, r \in RunIds : r = handle'[w].run /\ Begin(w, s, r)
    BY <2>1, <2>2
  <2>5. /\ \A b \in Actors \ {w} : turn'[b] = turn[b]
        /\ turn' \in [Actors -> Turn \cup {Idle, Answered}]
        /\ turn'[w] \in Turn /\ turn'[w].id = turns + 1
        /\ turn'[w].run = r /\ turns' = turns + 1
    BY <2>3, <2>4, BeginMoves DEF TurnsInv
  <2>6. IdsUnshared'
    BY <2>3, <2>5, IdsStay DEF TurnsInv
  <2>7. w \in Busy'
    BY <2>3, <2>5 DEF Busy, Turn
  <2>8. HandsMatch'
    BY <2>2, <2>4, <2>5, <2>7 DEF TurnsInv, HandsMatch, Busy, Actors
  <2> QED
    BY <2>5, <2>6, <2>8 DEF TurnsInv, TurnsTyped
<1>3. ASSUME NEW c \in Clients, NEW s \in Sessions, Post(c, s)
      PROVE  Goal
  <2>1. c \in Actors /\ c \notin Workers /\ handle' = handle
    BY <1>3, TurnAssumption DEF Actors, Post, storeVars
  <2>2. /\ \A b \in Actors \ {c} : turn'[b] = turn[b]
        /\ turn' \in [Actors -> Turn \cup {Idle, Answered}]
        /\ turn'[c].id = turns + 1 /\ turns' = turns + 1
    BY <1>3, <2>1, BeginMoves DEF Post, TurnsInv
  <2>3. IdsUnshared'
    BY <2>1, <2>2, IdsStay DEF TurnsInv
  <2>4. HandsMatch'
    BY <2>1, <2>2 DEF TurnsInv, HandsMatch, Busy, Actors
  <2> QED
    BY <2>2, <2>3, <2>4 DEF TurnsInv, TurnsTyped
<1>4. ASSUME NEW w \in Workers, CompleteRun(w) \/ FailRun(w)
      PROVE  Goal
  <2>1. handle'[w] = NoHandle /\ \A v \in Workers \ {w} : handle'[v] = handle[v]
    BY <1>4, EndMoves DEF CompleteRun, FailRun
  <2>2. w \in Actors /\ turns' = turns /\ turn' = [turn EXCEPT ![w] = Idle]
    BY <1>4 DEF CompleteRun, FailRun, Actors
  <2>3. /\ turn'[w] = Idle /\ TurnsTyped'
        /\ \A b \in Actors \ {w} : turn'[b] = turn[b]
    BY <2>2 DEF TurnsInv, TurnsTyped
  <2>4. w \notin Busy'
    BY <2>3 DEF Busy, Idle
  <2>5. IdsUnshared'
    BY <2>2, <2>3, <2>4, IdsStay DEF TurnsInv
  <2>6. HandsMatch'
    BY <2>1, <2>3, <2>4 DEF TurnsInv, HandsMatch, Busy, Actors
  <2> QED
    BY <2>2, <2>3, <2>5, <2>6 DEF TurnsInv, TurnsTyped
<1>5. ASSUME UNCHANGED <<turn, turns, handle>>
      PROVE  Goal
  BY <1>5 DEF TurnsInv, TurnsTyped, HandsMatch, IdsUnshared, Busy
<1>6. ASSUME NEW z \in Reapers, ReaperStep(z)
      PROVE  UNCHANGED <<turn, turns, handle>>
  BY <1>6 DEF ReaperStep, SweepStart, SweepNext, ReleaseStranded, Store!SweepStart,
              Store!SweepNext, storeVars
<1>7. ASSUME NEW s \in Sessions, Enqueue(s) \/ SessionLeaseLapses(s)
      PROVE  UNCHANGED <<turn, turns, handle>>
  BY <1>7 DEF Enqueue, SessionLeaseLapses, Store!Enqueue, storeVars
<1>8. LeaseClock \/ UNCHANGED vars => UNCHANGED <<turn, turns, handle>>
  BY DEF LeaseClock, Store!Tick, vars
<1> QED
  BY <1>1, <1>2, <1>3, <1>4, <1>5, <1>6, <1>7, <1>8 DEF Next

-----------------------------------------------------------------------------
(* Session leases.                                                         *)

\* What a step makes of the lease of a session: it leaves it alone, ends it,
\* changes how long it lasts, or grants a new one.
LeaseGoes(s) ==
  \/ lease'[s] = lease[s]
  \/ lease'[s] = NoLease
  \/ /\ lease[s] # NoLease /\ lease'[s] \in SessionLease
     /\ lease'[s].turn = lease[s].turn
  \/ /\ lease'[s] \in SessionLease
     /\ \E a \in Busy : AcquireLease(a) /\ turn[a].session = s
                        /\ lease'[s].turn = turn[a].id

\* append and the passing of time keep the token of the lease.
LEMMA LiveWrites ==
  ASSUME Typed, NEW s \in Sessions, lease[s] # NoLease, NEW live \in BOOLEAN,
         lease' = [lease EXCEPT ![s].live = live]
  PROVE  /\ lease' \in [Sessions -> SessionLease \cup {NoLease}]
         /\ \A o \in Sessions : LeaseGoes(o)
<1>1. lease \in [Sessions -> SessionLease \cup {NoLease}] /\ lease[s] \in SessionLease
  BY DEF Typed, LeasesTyped
<1>2. lease'[s] = [lease[s] EXCEPT !.live = live]
  BY <1>1
<1>3. lease'[s] \in SessionLease /\ lease'[s].turn = lease[s].turn
  BY <1>1, <1>2 DEF SessionLease
<1>4. \A o \in Sessions \ {s} : lease'[o] = lease[o]
  BY <1>1
<1>5. lease' \in [Sessions -> SessionLease \cup {NoLease}]
  BY <1>1, <1>3
<1> QED
  BY <1>3, <1>4, <1>5 DEF LeaseGoes

LEMMA LeaseMoves ==
  ASSUME Typed, [Next]_vars
  PROVE  /\ lease' \in [Sessions -> SessionLease \cup {NoLease}]
         /\ \A s \in Sessions : LeaseGoes(s)
<1> DEFINE Goal == /\ lease' \in [Sessions -> SessionLease \cup {NoLease}]
                   /\ \A s \in Sessions : LeaseGoes(s)
<1>1. lease \in [Sessions -> SessionLease \cup {NoLease}]
  BY DEF Typed, LeasesTyped
<1>2. CASE lease' = lease
  BY <1>1, <1>2 DEF LeaseGoes
<1>3. ASSUME NEW a \in Actors, TurnStep(a)
      PROVE  Goal
  <2>1. a \in Busy /\ turn[a] \in Turn
    BY <1>3, TurnMoves
  <2>2. turn[a].session \in Sessions /\ turn[a].id \in Nat
        /\ turn[a].run \in RunIds \cup {NoRun}
    BY <2>1 DEF Turn
  <2>3. CASE AcquireLease(a)
    <3>1. PICK l \in SessionLease :
            /\ l.turn = turn[a].id
            /\ lease' = [lease EXCEPT ![turn[a].session] = l]
      <4>1. [turn |-> turn[a].id, run |-> turn[a].run, live |-> TRUE] \in SessionLease
        BY <2>2 DEF SessionLease
      <4> QED
        BY <2>3, <4>1 DEF AcquireLease
    <3> QED
      BY <1>1, <2>1, <2>2, <2>3, <3>1 DEF LeaseGoes
  <2>4. CASE AppendUser(a) \/ Emit(a)
    <3>1. /\ lease[turn[a].session] # NoLease
          /\ lease' = [lease EXCEPT ![turn[a].session].live = TRUE]
      BY <2>4 DEF AppendUser, Emit, AppendEntry, HoldsSession
    <3> QED
      BY <2>2, <3>1, LiveWrites
  <2>5. CASE ReleaseLease(a)
    <3>1. lease' = lease \/ lease' = [lease EXCEPT ![turn[a].session] = NoLease]
      BY <2>5 DEF ReleaseLease, Return
    <3> QED
      BY <1>1, <2>2, <3>1 DEF LeaseGoes
  <2>6. CASE ~(AcquireLease(a) \/ AppendUser(a) \/ Emit(a) \/ ReleaseLease(a))
    <3>1. lease' = lease
      BY <1>3, <2>6
         DEF TurnStep, Deny, FindBusy, AcquireFails, Misroute, ReadHistory,
             AppendRefused, EndTurn, ReleaseFails, Crash
    <3> QED
      BY <1>2, <3>1
  <2> QED
    BY <2>3, <2>4, <2>5, <2>6
<1>4. ASSUME NEW s \in Sessions, SessionLeaseLapses(s)
      PROVE  Goal
  BY <1>4, LiveWrites DEF SessionLeaseLapses, Granted
<1>5. ASSUME NEW z \in Reapers, ReleaseStranded(z)
      PROVE  Goal
  BY <1>1, <1>5 DEF ReleaseStranded, LeaseGoes
<1>6. ASSUME NEW z \in Reapers, ReaperStep(z), ~ReleaseStranded(z)
      PROVE  lease' = lease
  BY <1>6 DEF ReaperStep, SweepStart, SweepNext
<1>7. ASSUME NEW w \in Workers, Poll(w) \/ CompleteRun(w) \/ FailRun(w)
      PROVE  lease' = lease
  BY <1>7 DEF Poll, CompleteRun, FailRun
<1>8. ASSUME NEW s \in Sessions, Enqueue(s) \/ \E c \in Clients : Post(c, s)
      PROVE  lease' = lease
  BY <1>8 DEF Enqueue, Post
<1>9. LeaseClock \/ UNCHANGED vars => lease' = lease
  BY DEF LeaseClock, vars
<1> QED
  BY <1>2, <1>3, <1>4, <1>5, <1>6, <1>7, <1>8, <1>9 DEF Next

LEMMA LeasesStep ==
  ASSUME Typed, TurnsInv, turns' \in Nat, turns <= turns', [Next]_vars
  PROVE  LeasesTyped'
<1> SUFFICES ASSUME NEW s \in Sessions, lease'[s] # NoLease
             PROVE  lease'[s].turn \in 1..turns'
  BY LeaseMoves DEF LeasesTyped
<1>1. turns \in Nat /\ (lease[s] # NoLease => lease[s].turn \in 1..turns)
  BY DEF Typed, LeasesTyped, TurnsInv, TurnsTyped
<1>2. \A a \in Busy : turn[a].id \in 1..turns
  BY DEF TurnsInv, IdsUnshared
<1>3. lease'[s].turn \in 1..turns
  BY <1>1, <1>2, LeaseMoves DEF LeaseGoes
<1> QED
  BY <1>1, <1>3

\* A step ends a live lease by the release of the lease's own turn, or by the
\* release of stranded leases.
LEMMA LiveLeaseEnds ==
  ASSUME Typed, [Next]_vars, NEW s \in Sessions, Granted(s),
         lease'[s] = NoLease \/ lease'[s].turn # lease[s].turn
  PROVE  \/ \E a \in Busy : At(a, "release") /\ turn[a].id = lease[s].turn
         \/ \E z \in Reapers : ReleaseStranded(z)
<1>1. lease \in [Sessions -> SessionLease \cup {NoLease}] /\ lease[s] # NoLease
  BY DEF Typed, LeasesTyped, Granted
<1>2. lease' # lease
  BY <1>1
<1>3. ASSUME NEW a \in Actors, TurnStep(a)
      PROVE  a \in Busy /\ At(a, "release") /\ turn[a].id = lease[s].turn
  <2>1. a \in Busy /\ turn[a] \in Turn
    BY <1>3, TurnMoves
  <2>2. turn[a].session \in Sessions
    BY <2>1 DEF Turn
  <2>3. ~AcquireLease(a)
    <3>1. AcquireLease(a) => \A o \in Sessions \ {turn[a].session} : lease'[o] = lease[o]
      BY <1>1 DEF AcquireLease
    <3>2. AcquireLease(a) => ~Granted(turn[a].session)
      BY DEF AcquireLease
    <3> QED
      BY <1>1, <3>1, <3>2
  <2>4. ~(AppendUser(a) \/ Emit(a))
    <3>1. ASSUME AppendUser(a) \/ Emit(a)
          PROVE  /\ lease[turn[a].session] # NoLease
                 /\ lease' = [lease EXCEPT ![turn[a].session].live = TRUE]
      BY <3>1 DEF AppendUser, Emit, AppendEntry, HoldsSession
    <3>2. ASSUME AppendUser(a) \/ Emit(a)
          PROVE  lease'[s] # NoLease /\ lease'[s].turn = lease[s].turn
      <4>1. CASE s # turn[a].session
        BY <1>1, <3>1, <3>2, <4>1
      <4>2. CASE s = turn[a].session
        <5>1. lease'[s] = [lease[s] EXCEPT !.live = TRUE] /\ lease[s] \in SessionLease
          BY <1>1, <3>1, <3>2, <4>2
        <5>2. lease'[s] \in SessionLease /\ lease'[s].turn = lease[s].turn
          BY <5>1 DEF SessionLease
        <5> QED
          BY <5>2, LeaseAssumption
      <4> QED
        BY <4>1, <4>2
    <3> QED
      BY <3>2
  <2>5. ReleaseLease(a)
    BY <1>2, <1>3, <2>3, <2>4
       DEF TurnStep, Deny, FindBusy, AcquireFails, Misroute, ReadHistory,
           AppendRefused, EndTurn, ReleaseFails, Crash
  <2> QED
    BY <1>1, <1>2, <2>1, <2>2, <2>5 DEF ReleaseLease, Return, HoldsSession, At
<1>4. ASSUME NEW o \in Sessions, SessionLeaseLapses(o)
      PROVE  FALSE
  <2>1. CASE o # s
    BY <1>1, <1>4, <2>1 DEF SessionLeaseLapses
  <2>2. CASE o = s
    <3>1. lease'[s] = [lease[s] EXCEPT !.live = FALSE] /\ lease[s] \in SessionLease
      BY <1>1, <1>4, <2>2 DEF SessionLeaseLapses
    <3>2. lease'[s] \in SessionLease /\ lease'[s].turn = lease[s].turn
      BY <3>1 DEF SessionLease
    <3> QED
      BY <3>2, LeaseAssumption
  <2> QED
    BY <2>1, <2>2
<1>5. ASSUME NEW z \in Reapers, ReaperStep(z)
      PROVE  ReleaseStranded(z)
  BY <1>2, <1>5 DEF ReaperStep, SweepStart, SweepNext
<1>6. ASSUME NEW w \in Workers, Poll(w) \/ CompleteRun(w) \/ FailRun(w)
      PROVE  FALSE
  BY <1>2, <1>6 DEF Poll, CompleteRun, FailRun
<1>7. ASSUME NEW o \in Sessions, Enqueue(o) \/ \E c \in Clients : Post(c, o)
      PROVE  FALSE
  BY <1>2, <1>7 DEF Enqueue, Post
<1>8. ~(LeaseClock \/ UNCHANGED vars)
  BY <1>2 DEF LeaseClock, vars
<1> QED
  BY <1>3, <1>4, <1>5, <1>6, <1>7, <1>8 DEF Next

\* What the reapers collect are session ids.
StrandedTyped == stranded \in [Reapers -> SUBSET Sessions]

LEMMA StrandedStep ==
  ASSUME SP!Inv, StrandedTyped, [Next]_vars
  PROVE  StrandedTyped'
<1>1. ASSUME NEW z \in Reapers, NEW r \in RunIds, SweepNext(z, r)
      PROVE  StrandedTyped'
  <2>1. rows' # rows => rows[r].session \in Sessions
    BY <1>1, SweepMoves DEF SweepNext
  <2> QED
    BY <1>1, <2>1 DEF SweepNext, StrandedTyped
<1>2. ASSUME NEW z \in Reapers, SweepStart(z) \/ ReleaseStranded(z)
      PROVE  StrandedTyped'
  BY <1>2 DEF SweepStart, ReleaseStranded, StrandedTyped
<1>3. ASSUME NEW a \in Actors, TurnStep(a)
      PROVE  stranded' = stranded
  BY <1>3 DEF TurnStep, Deny, AcquireLease, FindBusy, AcquireFails, Misroute,
              ReadHistory, AppendUser, Emit, AppendRefused, EndTurn, ReleaseLease,
              ReleaseFails, Crash, InTurn
<1>4. ASSUME NEW w \in Workers, Poll(w) \/ CompleteRun(w) \/ FailRun(w)
      PROVE  stranded' = stranded
  BY <1>4 DEF Poll, CompleteRun, FailRun
<1>5. ASSUME NEW s \in Sessions,
             \/ Enqueue(s) \/ SessionLeaseLapses(s)
             \/ \E c \in Clients : Post(c, s)
      PROVE  stranded' = stranded
  BY <1>5 DEF Enqueue, SessionLeaseLapses, Post
<1>6. LeaseClock \/ UNCHANGED vars => stranded' = stranded
  BY DEF LeaseClock, vars
<1> QED
  BY <1>1, <1>2, <1>3, <1>4, <1>5, <1>6 DEF Next, ReaperStep, StrandedTyped

\* No session id is the thread reference of a session: the reaper's lookup finds
\* nothing.
LEMMA StrandedFreesNothing ==
  ASSUME Typed, StrandedTyped, NEW z \in Reapers, ReleaseStranded(z)
  PROVE  lease' = lease
<1>1. stranded[z] \subseteq Sessions
  BY DEF StrandedTyped
<1>2. \A ref \in stranded[z] : ByThread(ref) = {}
  BY <1>1, ThreadAssumption DEF ByThread
<1>3. lease' = [s \in Sessions |-> lease[s]]
  BY <1>2 DEF ReleaseStranded
<1> QED
  BY <1>3 DEF Typed, LeasesTyped

-----------------------------------------------------------------------------
(* Entries.                                                                *)

HistoryIsRead ==
  \A a \in Actors :
    At(a, "user") /\ HoldsSession(a) => turn[a].read = Len(entries[turn[a].session])

LastIsOwn ==
  \A a \in Actors :
    At(a, "run") /\ HoldsSession(a) =>
      /\ Len(entries[turn[a].session]) > 0
      /\ entries[turn[a].session][Len(entries[turn[a].session])].turn = turn[a].id

\* Entries are appended by a turn that holds the session.
Appends(a, e) ==
  /\ HoldsSession(a)
  /\ e.turn = turn[a].id
  /\ \/ AppendUser(a) /\ At(a, "user") /\ e.kind = "user" /\ e.read = turn[a].read
     \/ Emit(a) /\ At(a, "run") /\ e.kind = "emit"
  /\ entries' = [entries EXCEPT ![turn[a].session] = Append(@, e)]

LEMMA EntriesMove ==
  ASSUME Typed, [Next]_vars, entries' # entries
  PROVE  \E a \in Busy, e \in Entry : Appends(a, e)
<1>1. ASSUME NEW a \in Actors, TurnStep(a)
      PROVE  \E b \in Busy, e \in Entry : Appends(b, e)
  <2>1. a \in Busy /\ turn[a] \in Turn
    BY <1>1, TurnMoves
  <2>2. AppendUser(a) \/ Emit(a)
    BY <1>1 DEF TurnStep, Deny, AcquireLease, FindBusy, AcquireFails, Misroute,
                ReadHistory, AppendRefused, EndTurn, ReleaseLease, ReleaseFails, Crash
  <2>3. turn[a].id \in Nat /\ turn[a].read \in Nat
    BY <2>1 DEF Turn
  <2>4. CASE AppendUser(a)
    <3>1. PICK e \in Entry :
            /\ e.turn = turn[a].id /\ e.kind = "user" /\ e.read = turn[a].read
            /\ entries' = [entries EXCEPT ![turn[a].session] = Append(@, e)]
      <4>1. [turn |-> turn[a].id, kind |-> "user", read |-> turn[a].read] \in Entry
        BY <2>3 DEF Entry
      <4> QED
        BY <2>4, <4>1 DEF AppendUser, AppendEntry
    <3>2. Appends(a, e)
      BY <2>4, <3>1 DEF Appends, AppendUser, AppendEntry
    <3> QED
      BY <2>1, <3>2
  <2>5. CASE Emit(a)
    <3>1. PICK e \in Entry :
            /\ e.turn = turn[a].id /\ e.kind = "emit"
            /\ entries' = [entries EXCEPT ![turn[a].session] = Append(@, e)]
      <4>1. [turn |-> turn[a].id, kind |-> "emit", read |-> turn[a].read] \in Entry
        BY <2>3 DEF Entry
      <4> QED
        BY <2>5, <4>1 DEF Emit, AppendEntry
    <3>2. Appends(a, e)
      BY <2>5, <3>1 DEF Appends, Emit, AppendEntry
    <3> QED
      BY <2>1, <3>2
  <2> QED
    BY <2>2, <2>4, <2>5
<1>2. ASSUME NEW z \in Reapers, ReaperStep(z)
      PROVE  FALSE
  BY <1>2 DEF ReaperStep, SweepStart, SweepNext, ReleaseStranded
<1>3. ASSUME NEW w \in Workers, Poll(w) \/ CompleteRun(w) \/ FailRun(w)
      PROVE  FALSE
  BY <1>3 DEF Poll, CompleteRun, FailRun
<1>4. ASSUME NEW s \in Sessions,
             \/ Enqueue(s) \/ SessionLeaseLapses(s)
             \/ \E c \in Clients : Post(c, s)
      PROVE  FALSE
  BY <1>4 DEF Enqueue, SessionLeaseLapses, Post
<1>5. ~(LeaseClock \/ UNCHANGED vars)
  BY DEF LeaseClock, vars
<1> QED
  BY <1>1, <1>2, <1>3, <1>4, <1>5 DEF Next

\* An append makes a sequence of the session's entries one longer.
LEMMA AppendMoves ==
  ASSUME Typed, NEW a \in Busy, NEW e \in Entry, Appends(a, e), turn[a].session \in Sessions
  PROVE  LET s == turn[a].session
             n == Len(entries[s])
         IN  /\ n \in Nat /\ DOMAIN entries[s] = 1..n
             /\ Len(entries'[s]) = n + 1 /\ DOMAIN entries'[s] = 1..(n + 1)
             /\ \A i \in 1..n : entries'[s][i] = entries[s][i]
             /\ entries'[s][n + 1] = e
             /\ \A o \in Sessions \ {s} : entries'[o] = entries[o]
             /\ EntriesTyped'
<1> DEFINE s == turn[a].session
<1>1. entries \in [Sessions -> Seq(Entry)] /\ entries[s] \in Seq(Entry)
  BY DEF Typed, EntriesTyped
<1>2. entries'[s] = Append(entries[s], e)
  BY <1>1 DEF Appends
<1>3. entries' \in [Sessions -> Seq(Entry)]
  BY <1>1 DEF Appends
<1>4. \A o \in Sessions \ {s} : entries'[o] = entries[o]
  BY <1>1 DEF Appends
<1> QED
  BY <1>1, <1>2, <1>3, <1>4 DEF EntriesTyped

\* A turn that holds its session after a step held it before, unless the step
\* gave it the session.
LEMMA HeldBefore ==
  ASSUME Typed, TurnsInv, [Next]_vars, NEW b \in Busy, b \in Actors,
         turn[b].session \in Sessions, ~AcquireLease(b),
         turn'[b].session = turn[b].session, turn'[b].id = turn[b].id,
         HoldsSession(b)'
  PROVE  HoldsSession(b)
<1>1. LeaseGoes(turn[b].session)
  BY LeaseMoves
<1>2. \A a \in Busy : turn[a].id = turn[b].id => a = b
  BY DEF TurnsInv, IdsUnshared
<1> QED
  BY <1>1, <1>2 DEF LeaseGoes, HoldsSession

\* Two turns do not hold one session.
LEMMA HoldsAlone ==
  ASSUME TurnsInv, NEW a \in Busy, NEW b \in Busy, HoldsSession(a), HoldsSession(b),
         turn[a].session = turn[b].session
  PROVE  a = b
BY DEF TurnsInv, IdsUnshared, HoldsSession

\* How a turn comes to where it may append, or stays there.
LEMMA Arrives ==
  ASSUME SP!Inv, Typed, TurnsInv, [Next]_vars, NEW b \in Actors,
         turn'[b].at \in {"user", "run"}
  PROVE  /\ b \in Busy /\ turn[b].session \in Sessions /\ ~AcquireLease(b)
         /\ turn'[b].session = turn[b].session /\ turn'[b].id = turn[b].id
         /\ \/ turn'[b] = turn[b]
            \/ turn'[b].at = "user" /\ ReadHistory(b)
            \/ turn'[b].at = "run" /\ (AppendUser(b) \/ Emit(b))
<1> DEFINE Stays == turn'[b] = turn[b]
<1>1. turn \in [Actors -> Turn \cup {Idle, Answered}]
  BY DEF Typed, TurnsTyped
<1>2. \/ Stays
      \/ /\ b \in Busy /\ turn[b] \in Turn /\ SameTurn(turn'[b], turn[b])
         /\ \/ turn'[b].at = "user" /\ ReadHistory(b)
            \/ turn'[b].at = "run" /\ (AppendUser(b) \/ Emit(b))
  <2>1. ASSUME NEW a \in Actors, TurnStep(a), a # b
        PROVE  Stays
    BY <2>1, TurnMoves DEF Goes
  <2>2. ASSUME TurnStep(b)
        PROVE  /\ b \in Busy /\ turn[b] \in Turn /\ SameTurn(turn'[b], turn[b])
               /\ \/ turn'[b].at = "user" /\ ReadHistory(b)
                  \/ turn'[b].at = "run" /\ (AppendUser(b) \/ Emit(b))
    BY <2>2, TurnMoves DEF Goes, Idle, Answered
  <2>3. ASSUME NEW w \in Workers, Poll(w)
        PROVE  Stays
    <3>1. /\ w \in Actors /\ handle'[w].run \in RunIds \cup {NoRun}
          /\ rows[handle'[w].run].session \in Sessions
          /\ Begin(w, rows[handle'[w].run].session, handle'[w].run)
      BY <2>3, ClaimMoves DEF Poll, Actors
    <3>2. turn'[w].at = "admit" /\ \A a \in Actors \ {w} : turn'[a] = turn[a]
      BY <1>1, <3>1 DEF Begin
    <3> QED
      BY <3>2
  <2>4. ASSUME NEW c \in Clients, NEW s \in Sessions, Post(c, s)
        PROVE  Stays
    <3>1. turn'[c].at = "admit" /\ \A a \in Actors \ {c} : turn'[a] = turn[a]
      BY <1>1, <2>4 DEF Begin, Post, Actors
    <3> QED
      BY <3>1
  <2>5. ASSUME NEW w \in Workers, CompleteRun(w) \/ FailRun(w)
        PROVE  Stays
    <3>1. w \in Actors /\ turn' = [turn EXCEPT ![w] = Idle]
      BY <2>5 DEF CompleteRun, FailRun, Actors
    <3>2. turn'[w] = Idle /\ \A a \in Actors \ {w} : turn'[a] = turn[a]
      BY <1>1, <3>1
    <3> QED
      BY <3>2 DEF Idle
  <2>6. ASSUME NEW z \in Reapers, ReaperStep(z)
        PROVE  Stays
    BY <2>6 DEF ReaperStep, SweepStart, SweepNext, ReleaseStranded
  <2>7. ASSUME NEW s \in Sessions, Enqueue(s) \/ SessionLeaseLapses(s)
        PROVE  Stays
    BY <2>7 DEF Enqueue, SessionLeaseLapses
  <2>8. LeaseClock \/ UNCHANGED vars => Stays
    BY DEF LeaseClock, vars
  <2> QED
    BY <2>1, <2>2, <2>3, <2>4, <2>5, <2>6, <2>7, <2>8 DEF Next
<1>3. CASE Stays
  <2>1. b \in Busy /\ turn[b] \in Turn
    <3>1. b \in Busy
      BY <1>3 DEF Busy
    <3> QED
      BY <3>1, InATurn DEF TurnsInv
  <2>2. ~AcquireLease(b)
    BY <1>3 DEF AcquireLease, At
  <2> QED
    BY <1>3, <2>1, <2>2 DEF Turn
<1>4. CASE ~Stays
  <2>1. b \in Busy /\ turn[b] \in Turn /\ SameTurn(turn'[b], turn[b])
    BY <1>2, <1>4
  <2>2. ~AcquireLease(b)
    BY <1>2, <1>4 DEF AcquireLease, ReadHistory, AppendUser, Emit, At
  <2> QED
    BY <1>2, <1>4, <2>1, <2>2 DEF SameTurn, Turn
<1> QED
  BY <1>3, <1>4

\* Between the read of the history and the appends nobody else appends: a turn
\* that took the session over took the lease, and the append finds that out.
LEMMA HistoryStep ==
  ASSUME SP!Inv, Typed, TurnsInv, HistoryIsRead, [Next]_vars
  PROVE  HistoryIsRead'
<1> SUFFICES ASSUME NEW b \in Actors, turn'[b].at = "user", HoldsSession(b)'
             PROVE  turn'[b].read = Len(entries'[turn'[b].session])
  BY DEF HistoryIsRead, At
<1>1. /\ b \in Busy /\ turn[b].session \in Sessions
      /\ turn'[b].session = turn[b].session
      /\ turn'[b] = turn[b] \/ ReadHistory(b)
  BY Arrives
<1>2. HoldsSession(b)
  BY Arrives, HeldBefore
<1>3. CASE ReadHistory(b)
  BY <1>1, <1>3 DEF ReadHistory, Typed, TurnsTyped
<1>4. CASE turn'[b] = turn[b]
  <2>1. turn'[b].read = Len(entries[turn[b].session])
    BY <1>2, <1>4 DEF HistoryIsRead, At
  <2>2. entries'[turn[b].session] = entries[turn[b].session]
    <3>1. SUFFICES ASSUME entries' # entries
                   PROVE  entries'[turn[b].session] = entries[turn[b].session]
      OBVIOUS
    <3>2. PICK a \in Busy, e \in Entry : Appends(a, e)
      BY <3>1, EntriesMove
    <3>3. a # b
      <4>1. AppendUser(b) \/ Emit(b) => ReadHistory(b)
        BY TurnMoves DEF TurnStep, Goes
      <4> QED
        BY <3>2, <4>1 DEF Appends, ReadHistory, At
    <3>4. turn[a].session # turn[b].session
      BY <1>1, <1>2, <3>2, <3>3, HoldsAlone DEF Appends
    <3> QED
      BY <1>1, <3>2, <3>4 DEF Appends, Typed, EntriesTyped
  <2> QED
    BY <1>4, <2>1, <2>2
<1> QED
  BY <1>1, <1>3, <1>4

LEMMA LastStep ==
  ASSUME SP!Inv, Typed, TurnsInv, LastIsOwn, [Next]_vars
  PROVE  LastIsOwn'
<1> SUFFICES ASSUME NEW b \in Actors, turn'[b].at = "run", HoldsSession(b)'
             PROVE  LET q == entries'[turn'[b].session]
                    IN  Len(q) > 0 /\ q[Len(q)].turn = turn'[b].id
  BY DEF LastIsOwn, At
<1>1. /\ b \in Busy /\ turn[b].session \in Sessions
      /\ turn'[b].session = turn[b].session /\ turn'[b].id = turn[b].id
      /\ turn'[b] = turn[b] \/ AppendUser(b) \/ Emit(b)
  BY Arrives
<1>2. HoldsSession(b)
  BY Arrives, HeldBefore
<1>3. \A a \in Busy, e \in Entry : Appends(a, e) => turn[a].session \in Sessions
  BY InATurn DEF TurnsInv, Busy, Turn
<1>4. ASSUME NEW e \in Entry, Appends(b, e)
      PROVE  LET q == entries'[turn'[b].session]
             IN  Len(q) > 0 /\ q[Len(q)].turn = turn'[b].id
  <2> DEFINE s == turn[b].session
             n == Len(entries[s])
  <2>1. /\ n \in Nat /\ Len(entries'[s]) = n + 1 /\ entries'[s][n + 1] = e
        /\ turn[b].session \in Sessions
    BY <1>1, <1>4, AppendMoves
  <2>2. e.turn = turn[b].id
    BY <1>4 DEF Appends
  <2> QED
    BY <1>1, <2>1, <2>2
<1>5. CASE AppendUser(b) \/ Emit(b)
  <2>1. entries'[turn[b].session] # entries[turn[b].session]
    <3>1. PICK e : entries' = [entries EXCEPT ![turn[b].session] = Append(@, e)]
      BY <1>5 DEF AppendUser, Emit, AppendEntry
    <3>2. entries \in [Sessions -> Seq(Entry)] /\ entries[turn[b].session] \in Seq(Entry)
      BY <1>1 DEF Typed, EntriesTyped
    <3>3. entries'[turn[b].session] = Append(entries[turn[b].session], e)
      BY <1>1, <3>1, <3>2
    <3>4. Len(entries[turn[b].session]) \in Nat
      BY <3>2
    <3>5. Len(entries'[turn[b].session]) = Len(entries[turn[b].session]) + 1
      BY <3>2, <3>3
    <3> QED
      BY <3>4, <3>5
  <2>2. PICK a \in Busy, e \in Entry : Appends(a, e)
    BY <2>1, EntriesMove
  <2>3. a = b
    <3>1. turn[a].session = turn[b].session
      BY <1>1, <1>3, <2>1, <2>2, AppendMoves
    <3> QED
      BY <1>1, <1>2, <2>2, <3>1, HoldsAlone DEF Appends
  <2> QED
    BY <1>4, <2>2, <2>3
<1>6. CASE turn'[b] = turn[b]
  <2>1. LET q == entries[turn[b].session]
        IN  Len(q) > 0 /\ q[Len(q)].turn = turn[b].id
    BY <1>2, <1>6 DEF LastIsOwn, At
  <2>2. CASE entries' = entries
    BY <1>6, <2>1, <2>2
  <2>3. CASE entries' # entries
    <3>1. PICK a \in Busy, e \in Entry : Appends(a, e)
      BY <2>3, EntriesMove
    <3>2. CASE a = b
      BY <1>4, <3>1, <3>2
    <3>3. CASE a # b
      <4>1. turn[a].session # turn[b].session
        BY <1>1, <1>2, <3>1, <3>3, HoldsAlone DEF Appends
      <4>2. entries'[turn[b].session] = entries[turn[b].session]
        BY <1>1, <3>1, <4>1 DEF Appends, Typed, EntriesTyped
      <4> QED
        BY <1>6, <2>1, <4>2
    <3> QED
      BY <3>2, <3>3
  <2> QED
    BY <2>2, <2>3
<1> QED
  BY <1>1, <1>5, <1>6

\* Every append lands where the entry's kind belongs.
LEMMA SerialStep ==
  ASSUME Typed, TurnsInv, HistoryIsRead, LastIsOwn, TurnsAreSerial, [Next]_vars
  PROVE  EntriesTyped' /\ TurnsAreSerial'
<1>1. CASE entries' = entries
  BY <1>1 DEF Typed, EntriesTyped, TurnsAreSerial
<1>2. CASE entries' # entries
  <2>1. PICK a \in Busy, e \in Entry : Appends(a, e)
    BY <1>2, EntriesMove
  <2>2. a \in Actors /\ turn[a].session \in Sessions
    BY InATurn DEF TurnsInv, Busy, Turn
  <2> DEFINE s == turn[a].session
             n == Len(entries[s])
  <2>3. /\ n \in Nat /\ DOMAIN entries[s] = 1..n /\ DOMAIN entries'[s] = 1..(n + 1)
        /\ \A i \in 1..n : entries'[s][i] = entries[s][i]
        /\ entries'[s][n + 1] = e
        /\ \A o \in Sessions \ {s} : entries'[o] = entries[o]
        /\ EntriesTyped'
    BY <2>1, <2>2, AppendMoves
  <2>4. IF e.kind = "user" THEN e.read = n
        ELSE n > 0 /\ entries[s][n].turn = e.turn
    BY <2>1, <2>2 DEF Appends, HistoryIsRead, LastIsOwn
  <2> HIDE DEF s, n
  <2>5. ASSUME NEW o \in Sessions \ {s}, NEW i \in DOMAIN entries'[o]
        PROVE  IF entries'[o][i].kind = "user" THEN entries'[o][i].read = i - 1
               ELSE i > 1 /\ entries'[o][i - 1].turn = entries'[o][i].turn
    BY <2>3, <2>5 DEF TurnsAreSerial
  <2>6. ASSUME NEW i \in DOMAIN entries'[s]
        PROVE  IF entries'[s][i].kind = "user" THEN entries'[s][i].read = i - 1
               ELSE i > 1 /\ entries'[s][i - 1].turn = entries'[s][i].turn
    <3>1. CASE i = n + 1
      BY <2>3, <2>4, <3>1
    <3>2. CASE i # n + 1
      <4>1. i \in 1..n /\ i \in DOMAIN entries[s] /\ (i > 1 => i - 1 \in 1..n)
        BY <2>3, <2>6, <3>2
      <4>2. IF entries[s][i].kind = "user" THEN entries[s][i].read = i - 1
            ELSE i > 1 /\ entries[s][i - 1].turn = entries[s][i].turn
        BY <2>2, <4>1 DEF TurnsAreSerial, s
      <4> QED
        BY <2>3, <4>1, <4>2
    <3> QED
      BY <3>1, <3>2
  <2> QED
    BY <2>3, <2>5, <2>6 DEF TurnsAreSerial
<1> QED
  BY <1>1, <1>2

-----------------------------------------------------------------------------
(* The invariant and what it says.                                         *)

Inv ==
  /\ SP!Inv
  /\ Typed /\ TurnsInv /\ StrandedTyped
  /\ HistoryIsRead /\ LastIsOwn /\ TurnsAreSerial

LEMMA InitIsInv == Init => Inv
<1> SUFFICES ASSUME Init PROVE Inv
  OBVIOUS
<1>1. SP!Inv
  BY StoreInvInit
<1>2. turn = [a \in Actors |-> Idle] /\ turns = 0
  BY DEF Init
<1>3. Busy = {}
  BY <1>2 DEF Busy, Idle
<1>4. TurnsTyped /\ IdsUnshared
  BY <1>2, <1>3 DEF TurnsTyped, IdsUnshared
<1>5. HandsMatch
  BY <1>3 DEF HandsMatch, Init, Store!Init
<1>6. LeasesTyped /\ StrandedTyped
  BY DEF Init, LeasesTyped, StrandedTyped
<1>7. EntriesTyped /\ TurnsAreSerial
  BY DEF Init, EntriesTyped, TurnsAreSerial
<1>8. HistoryIsRead /\ LastIsOwn
  BY <1>2 DEF HistoryIsRead, LastIsOwn, At, Idle
<1> QED
  BY <1>1, <1>4, <1>5, <1>6, <1>7, <1>8 DEF Inv, Typed, TurnsInv

LEMMA StepKeepsInv == Inv /\ [Next]_vars => Inv'
<1> SUFFICES ASSUME Inv, [Next]_vars PROVE Inv'
  OBVIOUS
<1>1. SP!Inv'
  BY StoreInvStep DEF Inv
<1>2. TurnsInv' /\ turns' \in Nat /\ turns <= turns'
  BY TurnsStep DEF Inv
<1>3. LeasesTyped'
  BY <1>2, LeasesStep DEF Inv
<1>4. StrandedTyped'
  BY StrandedStep DEF Inv
<1>5. HistoryIsRead' /\ LastIsOwn'
  BY HistoryStep, LastStep DEF Inv
<1>6. EntriesTyped' /\ TurnsAreSerial'
  BY SerialStep DEF Inv
<1> QED
  BY <1>1, <1>2, <1>3, <1>4, <1>5, <1>6 DEF Inv, Typed, TurnsInv

\* The invariant holds of every behaviour of the session with its turns.
THEOREM InvHolds == Spec => []Inv
BY InitIsInv, StepKeepsInv, PTL DEF Spec

\* Every variable keeps its type, no two turns share a token, and a runner is
\* in a turn exactly while it has a run in hand.
THEOREM TypesHold == Spec => []TypeOK
<1>1. ASSUME Inv PROVE TypeOK
  <2>1. Store!TypeOK
    BY <1>1, StoreFacts DEF Inv
  <2>2. \A a \in Actors : turn[a].at \in Places
    BY <1>1, InATurn DEF Inv, TurnsInv
  <2> QED
    BY <1>1, <2>1, <2>2
       DEF Inv, Typed, TypeOK, TurnsInv, HandsMatch, IdsUnshared, LeasesTyped, StrandedTyped
<1> QED
  BY InvHolds, <1>1, PTL

\* The entries of a turn are one block behind the history it was given,
\* whatever leases lapsed, whoever took over and whoever died.
THEOREM TurnsAreSerialHolds == Spec => []TurnsAreSerial
<1>1. Inv => TurnsAreSerial
  BY DEF Inv
<1> QED
  BY InvHolds, <1>1, PTL

\* A live session lease ends by the release of its own turn only: no late
\* release, no reaper and no other turn takes it.
THEOREM LiveSessionLeaseIsKeptHolds == Spec => LiveSessionLeaseIsKept
<1>1. ASSUME Inv, [Next]_vars, NEW s \in Sessions, Granted(s),
             lease'[s] = NoLease \/ lease'[s].turn # lease[s].turn
      PROVE  \E a \in Busy : At(a, "release") /\ turn[a].id = lease[s].turn
  <2>1. Typed /\ StrandedTyped
    BY <1>1 DEF Inv
  <2>2. ASSUME NEW z \in Reapers, ReleaseStranded(z)
        PROVE  FALSE
    BY <1>1, <2>1, <2>2, StrandedFreesNothing DEF Granted
  <2> QED
    BY <1>1, <2>1, <2>2, LiveLeaseEnds
<1>2. Inv /\ [Next]_vars =>
        [\A s \in Sessions :
           Granted(s) /\ (lease'[s] = NoLease \/ lease'[s].turn # lease[s].turn)
           => \E a \in Busy : At(a, "release") /\ turn[a].id = lease[s].turn]_vars
  BY <1>1
<1> QED
  BY InvHolds, <1>2, PTL DEF Spec, LiveSessionLeaseIsKept

\* In the composed system, too, a run is owned by one executor at a time.
THEOREM OneOwnerHolds == Spec => []Store!OneOwner
<1>1. Inv => Store!OneOwner
  BY DEF Inv, SP!Inv, SP!HandlesInv, SP!TokensUnshared, Store!OneOwner, Store!Owns,
         Store!Holds
<1> QED
  BY InvHolds, <1>1, PTL

\* In the composed system, too, the run queue implements the lifecycle of a run,
\* whatever turns, clients and the reaper do around it.
THEOREM ImplementsLifecycleHolds == Spec => SP!ImplementsLifecycle
<1>1. Init => SP!Lifecycle!Init
  BY SP!InitImplements, SameRest, StoreAssumptions, CountsAssumption DEF Init
<1>2. Inv /\ [Next]_vars => [SP!Lifecycle!Next]_(SP!Lifecycle!vars)
  BY StepOfStore, SP!StepImplements, StoreAssumptions, CountsAssumption DEF Inv
<1> QED
  BY InvHolds, <1>1, <1>2, PTL DEF Spec, SP!ImplementsLifecycle, SP!Lifecycle!Spec
=============================================================================
