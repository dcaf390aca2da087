------------------------------- MODULE Intake -------------------------------
(***************************************************************************)
(* IM intake as its bridge subscriber sees it: the durable inbox, the      *)
(* subscriber's cursor, the fan-out passes of every server process, dead   *)
(* letters and their replay (im-core/src/runtime/intake-fanout.ts and its  *)
(* stores), and the handler of the bridge                                  *)
(* (im-bridge/src/intake-subscriber.ts, bridge.ts).                        *)
(*                                                                         *)
(* The bridge makes a Turn of a message addressed to it and notes the Turn *)
(* on the record bound to its process' tracker. Other chatter is dropped,  *)
(* or left to the ambient judge, which runs on after the handler has       *)
(* returned: what it makes of a message is noted on no record, and the     *)
(* model ends where the judge is called. A click makes a Turn if it        *)
(* decides a request that asks for one.                                    *)
(*                                                                         *)
(* The other subscribers run the same loop with a simpler handler. They    *)
(* share nothing with the bridge but the tick, and appear as the failure   *)
(* that settles a tick while the bridge's pass goes on.                    *)
(***************************************************************************)
EXTENDS Integers, FiniteSets

CONSTANTS
  Events,       \* external deliveries, named by their Intake Key
  KindOf,       \* what each of them asks of the bridge
  NoEvent,      \* no record at this sequence number
  Processes,    \* server processes on the same stores
  Ticks,        \* the bridge's passes that may be open
  NoTick,       \* the process drains nothing
  Admins,       \* replays of dead letters that may be open
  Home,         \* the process of each tick and of each admin's request
  MaxAttempts,  \* failures after which a record is dead-lettered
  MaxSeq,       \* bound on sequence numbers
  MaxFaults     \* bound on store calls that fail and on crashes, together

\* What a delivery asks of the bridge. Chatter is a message in a channel that does
\* not mention the bot. A click stands for every event that is no
\* message: one without a request to decide makes no Turn.
Kinds == {"message", "chatter", "click"}

Seqs == 1..MaxSeq
\* Whoever calls the subscriber's handle: a pass or a replay.
Actors == Ticks \cup Admins

ASSUME IntakeAssumption ==
  /\ NoEvent \notin Events /\ KindOf \in [Events -> Kinds]
  /\ NoTick \notin Ticks
  /\ Ticks \cap Admins = {}
  /\ Home \in [Actors -> Processes]
  /\ {MaxAttempts, MaxSeq, MaxFaults} \subseteq Nat

VARIABLES
  counter,     \* the last sequence number given out
  pending,     \* deliveries with a number whose row is not inserted yet
  inbox,       \* the event accepted under each number
  turnId,      \* the record whose message made the Turn noted here, or 0
  cursor,      \* the bridge's durable cursor
  letters,     \* records dead-lettered
  redelivered, \* letters a replay has marked
  attempts,    \* per process: failures since it last settled a record
  waiting,     \* per process: nextAttemptAt lies ahead
  draining,    \* the tick that holds each process' draining flag
  slot,        \* the record bound to each process' BridgeTurnTracker, or 0
  at,          \* where each actor stands, and with which record
  decided,     \* records whose click has decided its request
  faults

\* History, read by the properties and by no guard.
VARIABLES
  turned,      \* records of which their handler has enqueued a Turn
  late,        \* messages inserted below a number that was visible before
  excused      \* messages whose Turn may go unseen by the next handler

accepted == <<counter, pending, inbox, late>>
retries == <<attempts, waiting>>
dead == <<letters, redelivered>>
vars == <<accepted, turnId, cursor, dead, retries, draining, slot, at, decided,
          faults, turned, excused>>

Idle == [pc |-> "idle", n |-> 0, target |-> 0]
Visible == {n \in Seqs : inbox[n] # NoEvent}
Kind(n) == KindOf[inbox[n]]

Init ==
  /\ counter = 0 /\ pending = {} /\ inbox = [n \in Seqs |-> NoEvent]
  /\ turnId = [n \in Seqs |-> 0]
  /\ cursor = 0
  /\ letters = {} /\ redelivered = {}
  /\ attempts = [p \in Processes |-> 0]
  /\ waiting = [p \in Processes |-> FALSE]
  /\ draining = [p \in Processes |-> NoTick]
  /\ slot = [p \in Processes |-> 0]
  /\ at = [a \in Actors |-> Idle]
  /\ decided = {}
  /\ faults = 0
  /\ turned = {} /\ late = {} /\ excused = {}

-----------------------------------------------------------------------------
(* accept. On Postgres the number is taken before anyone knows of a        *)
(* duplicate. In memory the two steps are one, and a duplicate takes no    *)
(* number: those behaviours are among these.                               *)

TakeNumber(e) ==
  /\ counter < MaxSeq
  /\ counter' = counter + 1
  /\ pending' = pending \cup {<<e, counter + 1>>}
  /\ UNCHANGED <<inbox, late, turnId, cursor, dead, retries, draining, slot,
                 at, decided, faults, turned, excused>>

Known(e) == \E n \in Visible : inbox[n] = e

InsertRow(e, n) ==
  /\ <<e, n>> \in pending
  /\ pending' = pending \ {<<e, n>>}
  /\ IF Known(e)
     THEN UNCHANGED <<inbox, late>>
     ELSE /\ inbox' = [inbox EXCEPT ![n] = e]
          /\ late' = late \cup {m \in {n} : KindOf[e] = "message" /\ \E v \in Visible : v > m}
  /\ UNCHANGED <<counter, turnId, cursor, dead, retries, draining, slot, at, decided,
                 faults, turned, excused>>

-----------------------------------------------------------------------------
(* A pass. draining keeps a second tick out until the first one settles.   *)

\* A tick that finds nextAttemptAt ahead returned: no step.
Tick(t) ==
  LET p == Home[t]
  IN  /\ draining[p] = NoTick /\ ~waiting[p]
      /\ at[t].pc = "idle"
      /\ draining' = [draining EXCEPT ![p] = t]
      /\ at' = [at EXCEPT ![t].pc = "list", ![t].n = cursor]
      /\ UNCHANGED <<accepted, turnId, cursor, dead, retries, slot, decided,
                     faults, turned, excused>>

Ends(a) ==
  /\ at' = [at EXCEPT ![a] = Idle]
  /\ draining' = [draining EXCEPT ![Home[a]] = IF @ = a THEN NoTick ELSE @]

Fault == faults < MaxFaults /\ faults' = faults + 1

\* A store call outside the try fails.
PassThrows(t) ==
  /\ at[t].pc \in {"list", "letter", "skip"}
  /\ Fault
  /\ Ends(t)
  /\ UNCHANGED <<accepted, turnId, cursor, dead, retries, slot, decided,
                 turned, excused>>

\* Promise.all rejects with another subscriber's pass; this one goes on.
OtherPassThrows(t) ==
  /\ draining[Home[t]] = t
  /\ Fault
  /\ draining' = [draining EXCEPT ![Home[t]] = NoTick]
  /\ UNCHANGED <<accepted, turnId, cursor, dead, retries, slot, at, decided,
                 turned, excused>>

Unread(t) == {n \in Visible : n > at[t].n}
Oldest(S) == CHOOSE n \in S : \A m \in S : n <= m

ResetRetries(a) ==
  /\ attempts' = [attempts EXCEPT ![Home[a]] = 0]
  /\ waiting' = [waiting EXCEPT ![Home[a]] = FALSE]

\* handle resolves: a pass moves its cursor, a replay marks its letter.
Handled(a, n) ==
  /\ at' = [at EXCEPT ![a] = [pc |-> IF a \in Admins THEN "redeliver" ELSE "advance",
                              n |-> n, target |-> 0]]
  /\ IF a \in Admins THEN UNCHANGED retries ELSE ResetRetries(a)

\* handle rejects: a replay reports it; a pass counts the attempt and gives the
\* record up or backs off. The count is the process', not the record's.
Failed_Uncounted(a) ==
  IF a \in Admins
  THEN at' = [at EXCEPT ![a] = Idle] /\ UNCHANGED <<retries, draining>>
  ELSE /\ waiting' = [waiting EXCEPT ![Home[a]] = TRUE]
       /\ UNCHANGED attempts
       /\ Ends(a)
Failed(a) ==
  IF a \in Admins
  THEN at' = [at EXCEPT ![a] = Idle] /\ UNCHANGED <<retries, draining>>
  ELSE /\ attempts' = [attempts EXCEPT ![Home[a]] = @ + 1]
       /\ IF attempts[Home[a]] + 1 >= MaxAttempts
          THEN /\ at' = [at EXCEPT ![a].pc = "letter", ![a].target = 0]
               /\ UNCHANGED <<waiting, draining>>
          ELSE /\ waiting' = [waiting EXCEPT ![Home[a]] = TRUE]
               /\ Ends(a)

\* The handler reads the copy of the record it was given: with a Turn it is
\* skipped, without one it is bound to the tracker.
SkipsMarked_Never(n) == FALSE
SkipsMarked(n) == turnId[n] # 0

Excuse(S) == excused' = excused \cup {n \in S : Kind(n) = "message"}

\* This record is in another handler's hands and shows no Turn yet.
Raced(a, n) ==
  {m \in {n} : \E b \in Actors \ {a} : at[b].n = m /\ at[b].pc \in {"enqueue", "mark"}}

\* sink: the first thing it awaits.
Enters(n) ==
  CASE Kind(n) = "message" -> "enqueue"
    [] Kind(n) = "chatter" -> "classify"
    [] Kind(n) = "click"   -> "decide"

Handle(a, n) ==
  IF SkipsMarked(n)
  THEN Handled(a, n) /\ UNCHANGED <<slot, excused>>
  ELSE /\ at' = [at EXCEPT ![a] = [pc |-> Enters(n), n |-> n, target |-> 0]]
       /\ slot' = [slot EXCEPT ![Home[a]] = n]
       /\ Excuse(Raced(a, n))
       /\ UNCHANGED retries

\* listAfterSeq(cursor, 1).
List(t) ==
  /\ at[t].pc = "list"
  /\ IF Unread(t) = {}
     THEN Ends(t) /\ UNCHANGED <<retries, slot, excused>>
     ELSE Handle(t, Oldest(Unread(t))) /\ UNCHANGED draining
  /\ UNCHANGED <<accepted, turnId, cursor, dead, decided, faults, turned>>

Unbind(a) == slot' = [slot EXCEPT ![Home[a]] = 0]

\* The sink's promise settles, and the tracker lets go of what it is bound to.
SinkResolves(a) == Unbind(a) /\ Handled(a, at[a].n) /\ UNCHANGED draining
SinkRejects(a) == Unbind(a) /\ Failed(a)

\* classifyMessage. The container's policy sends the message to the judge, whose
\* answer nobody awaits, or nowhere; or it cannot be read.
Classify(a) ==
  /\ at[a].pc = "classify"
  /\ SinkResolves(a) \/ SinkRejects(a)
  /\ UNCHANGED <<accepted, turnId, cursor, dead, decided, faults, turned, excused>>

\* A click finds a request to decide at most once: whatever the click then does,
\* a later handler of it is told already_decided. A click that finds none, or
\* declines, resolves without a Turn. A call that throws may have decided.
Decide(a) ==
  /\ at[a].pc = "decide"
  /\ \/ SinkResolves(a) /\ UNCHANGED decided
     \/ SinkRejects(a) /\ decided' \in {decided, decided \cup {at[a].n}}
     \/ /\ at[a].n \notin decided
        /\ decided' = decided \cup {at[a].n}
        /\ at' = [at EXCEPT ![a].pc = "enqueue"]
        /\ UNCHANGED <<retries, draining, slot>>
  /\ UNCHANGED <<accepted, turnId, cursor, dead, faults, turned, excused>>

\* enqueueTurn. runs.enqueue carries no dedup key: every call makes a run, which
\* turned, a set, records once. onTurnCreated then looks at what the tracker is bound to.
Enqueue(a) ==
  /\ at[a].pc = "enqueue"
  /\ turned' = turned \cup {at[a].n}
  /\ at' = [at EXCEPT ![a].pc = "mark", ![a].target = slot[Home[a]]]
  /\ UNCHANGED <<accepted, turnId, cursor, dead, retries, draining, slot, decided,
                 faults, excused>>

\* It throws, before or after the run was committed.
EnqueueThrows(a) ==
  /\ at[a].pc = "enqueue"
  /\ SinkRejects(a)
  /\ \/ UNCHANGED <<turned, excused>>
     \/ turned' = turned \cup {at[a].n} /\ Excuse({at[a].n})
  /\ UNCHANGED <<accepted, turnId, cursor, dead, decided, faults>>

\* markTurn: the first writer wins, its failure is swallowed.
Mark(a) ==
  /\ at[a].pc = "mark"
  /\ LET k == at[a].target
     IN  \/ /\ turnId' = IF k # 0 /\ turnId[k] = 0
                         THEN [turnId EXCEPT ![k] = at[a].n] ELSE turnId
            /\ Excuse({at[a].n} \ {k})
            /\ UNCHANGED faults
         \/ /\ Fault
            /\ Excuse({at[a].n})
            /\ UNCHANGED turnId
  /\ SinkResolves(a)
  /\ UNCHANGED <<accepted, cursor, dead, decided, turned>>

-----------------------------------------------------------------------------
(* What a pass does with the outcome.                                      *)

\* GREATEST: a cursor never moves back. The pass goes on from its own record, or
\* it has processed maxPerTick of them.
PassRecord(t) ==
  /\ cursor' = IF cursor < at[t].n THEN at[t].n ELSE cursor
  /\ \/ at' = [at EXCEPT ![t].pc = "list"] /\ UNCHANGED draining
     \/ Ends(t)

\* advance stands inside the try: when it throws, the handled record counts as
\* a failed attempt and is handled again.
Advance(t) ==
  /\ at[t].pc = "advance"
  /\ \/ PassRecord(t) /\ UNCHANGED <<retries, faults>>
     \/ Fault /\ Failed(t) /\ UNCHANGED cursor
  /\ UNCHANGED <<accepted, turnId, dead, slot, decided, turned, excused>>

RecordLetter_Lost(t) ==
  /\ at[t].pc = "letter"
  /\ at' = [at EXCEPT ![t].pc = "skip"]
  /\ UNCHANGED <<accepted, turnId, cursor, dead, retries, draining, slot, decided,
                 faults, turned, excused>>
RecordLetter(t) ==
  /\ at[t].pc = "letter"
  /\ letters' = letters \cup {at[t].n}
  /\ at' = [at EXCEPT ![t].pc = "skip"]
  /\ UNCHANGED <<accepted, turnId, cursor, redelivered, retries, draining, slot,
                 decided, faults, turned, excused>>

SkipRecord(t) ==
  /\ at[t].pc = "skip"
  /\ PassRecord(t)
  /\ ResetRetries(t)
  /\ UNCHANGED <<accepted, turnId, dead, slot, decided, faults, turned,
                 excused>>

\* now() reaches nextAttemptAt.
BackoffEnds(p) ==
  /\ waiting[p]
  /\ waiting' = [waiting EXCEPT ![p] = FALSE]
  /\ UNCHANGED <<accepted, turnId, cursor, dead, attempts, draining, slot, at,
                 decided, faults, turned, excused>>

-----------------------------------------------------------------------------
(* replayDeadLetter: the letter is checked first and marked last.          *)

Replay_Unchecked(z, n) ==
  /\ at[z].pc = "idle"
  /\ n \in Visible \ redelivered
  /\ Handle(z, n)
  /\ UNCHANGED <<accepted, turnId, cursor, dead, draining, decided, faults,
                 turned>>
Replay(z, n) ==
  /\ at[z].pc = "idle"
  /\ n \in letters \ redelivered
  /\ Handle(z, n)
  /\ UNCHANGED <<accepted, turnId, cursor, dead, draining, decided, faults,
                 turned>>

MarkRedelivered(z) ==
  /\ at[z].pc = "redeliver"
  /\ \/ redelivered' = redelivered \cup {at[z].n} /\ UNCHANGED faults
     \/ Fault /\ UNCHANGED redelivered
  /\ at' = [at EXCEPT ![z] = Idle]
  /\ UNCHANGED <<accepted, turnId, cursor, letters, retries, draining, slot, decided,
                 turned, excused>>

\* A crash takes the maps, the tracker, the passes and the open replays; the process
\* starts again on the same stores.
Crash(p) ==
  LET gone == {a \in Actors : Home[a] = p}
  IN  /\ Fault
      /\ at' = [a \in Actors |-> IF a \in gone THEN Idle ELSE at[a]]
      /\ Excuse({at[a].n : a \in {b \in gone : at[b].pc = "mark"}})
      /\ attempts' = [attempts EXCEPT ![p] = 0]
      /\ waiting' = [waiting EXCEPT ![p] = FALSE]
      /\ draining' = [draining EXCEPT ![p] = NoTick]
      /\ slot' = [slot EXCEPT ![p] = 0]
      /\ UNCHANGED <<accepted, turnId, cursor, dead, decided, turned>>
-----------------------------------------------------------------------------
\* What a handler that was called does next.
Handles(a) == Classify(a) \/ Decide(a) \/ Enqueue(a) \/ EnqueueThrows(a) \/ Mark(a)

\* What an open pass does next.
Goes(t) == List(t) \/ Handles(t) \/ Advance(t) \/ RecordLetter(t) \/ SkipRecord(t)

Next ==
  \/ \E e \in Events : TakeNumber(e)
  \/ \E e \in Events, n \in Seqs : InsertRow(e, n)
  \/ \E t \in Ticks : Tick(t) \/ Goes(t) \/ PassThrows(t) \/ OtherPassThrows(t)
  \/ \E z \in Admins : Handles(z) \/ MarkRedelivered(z)
  \/ \E z \in Admins, n \in Seqs : Replay(z, n)
  \/ \E p \in Processes : BackoffEnds(p) \/ Crash(p)

\* The interval timer ticks for as long as the process lives, an awaited call
\* settles, back-offs end. Deliveries, replays and faults owe nothing.
Fairness ==
  /\ \A t \in Ticks : WF_vars(Tick(t) \/ Goes(t))
  /\ \A p \in Processes : WF_vars(BackoffEnds(p))

Spec == Init /\ [][Next]_vars
FairSpec == Spec /\ Fairness
-----------------------------------------------------------------------------
(* Properties.                                                             *)

Pcs == {"idle", "list", "classify", "decide", "enqueue", "mark", "advance", "letter",
        "skip", "redeliver"}

\* Every variable has its type.
TypeOK ==
  /\ counter \in 0..MaxSeq /\ pending \subseteq Events \X Seqs
  /\ inbox \in [Seqs -> Events \cup {NoEvent}]
  /\ turnId \in [Seqs -> 0..MaxSeq]
  /\ cursor \in 0..MaxSeq
  /\ letters \subseteq Seqs /\ redelivered \subseteq letters
  /\ attempts \in [Processes -> Nat]
  /\ waiting \in [Processes -> BOOLEAN]
  /\ draining \in [Processes -> Ticks \cup {NoTick}]
  /\ slot \in [Processes -> 0..MaxSeq]
  /\ at \in [Actors -> [pc : Pcs, n : 0..MaxSeq, target : 0..MaxSeq]]
  /\ decided \subseteq Seqs
  /\ faults \in 0..MaxFaults
  /\ turned \subseteq Seqs
  /\ late \subseteq Seqs /\ excused \subseteq Seqs

Settled(n) == n \in turned \cup letters

\* Whatever fails, crashes or overlaps, the cursor passes no message addressed to
\* the bridge that neither became a Turn nor was dead-lettered (ADR-0008). Two
\* kinds are excepted: a record whose row came in below one already visible, and
\* a record that carries the Turn of another one. Chatter and clicks are not owed
\* a Turn: the judge may not engage, a click may have nothing to decide.
NothingSkipped ==
  \A n \in Visible :
    n <= cursor /\ Kind(n) = "message" /\ n \notin late /\ turnId[n] \in {0, n}
    => Settled(n)

\* A handler is about to make a second Turn of a message only if two handlers had
\* its record at once, if its first enqueue committed and threw, or if the note of
\* its first Turn was lost to a crash, to a failed markTurn or to a tracker bound
\* to another record. A failed advance, a retry or a replay by itself makes none,
\* and a click becomes no second Turn whatever happens. Of chatter nothing is said:
\* a record that is handled again is judged again.
SecondTurnHasCause ==
  \A a \in Actors :
    at[a].pc = "enqueue" /\ at[a].n \in turned
    => Kind(at[a].n) = "message" /\ at[a].n \in excused

\* The cursor gets past every accepted record, even when every handler fails
\* (ADR-0015).
EveryRecordPassed == \A n \in Seqs : (n \in Visible) ~> (n <= cursor)
=============================================================================
