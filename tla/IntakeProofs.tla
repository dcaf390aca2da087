---------------------------- MODULE IntakeProofs ----------------------------
(***************************************************************************)
(* IM intake, for any number of deliveries, processes, open passes,        *)
(* replays and faults: no message addressed to the bridge is skipped       *)
(* unseen, and a second Turn has a cause.                                  *)
(*                                                                         *)
(* Neither property is inductive. A pass moves the shared cursor over its  *)
(* own record only, but to a number that others may have left behind: what *)
(* lies below that record was settled when the pass read it, and a row     *)
(* that came in below it since is late. For the second Turn a record that  *)
(* was turned and not noted is followed to the handler that still has the  *)
(* note to write; a click is kept from a second Turn by its decision.      *)
(***************************************************************************)
EXTENDS Intake, WellFoundedInduction, TLAPS

Passed(n) == Kind(n) = "message" /\ turnId[n] \in {0, n} => Settled(n)

\* Each number is given to one delivery, whose row is not there yet.
NumbersUnshared ==
  \A d \in pending :
    /\ d[2] <= counter /\ d[2] \notin Visible
    /\ \A c \in pending : c[2] = d[2] => c = d
CountedRows == \A n \in Visible : n <= counter

\* The cursor stands on a record, and so does every letter and every note.
OnRecords ==
  /\ cursor \in {0} \cup Visible
  /\ letters \subseteq Visible
  /\ \A k \in Seqs : turnId[k] # 0 => turnId[k] \in turned

\* What an actor holds: a record that is there, read when all below was settled.
Below(t) == \A m \in Visible : m < at[t].n /\ m \notin late => Passed(m)

Holds(a) ==
  /\ at[a].pc \notin {"idle", "list"} => at[a].n \in Visible
  /\ at[a].pc = "list" => at[a].n \in {0} \cup Visible /\ at[a].n <= cursor
  /\ at[a].pc = "classify" => Kind(at[a].n) = "chatter"
  /\ at[a].pc = "decide" => Kind(at[a].n) = "click"
  /\ at[a].pc = "enqueue" => Kind(at[a].n) \in {"message", "click"}
  /\ at[a].pc = "mark" => at[a].n \in turned
  /\ at[a].pc = "skip" => at[a].n \in letters
  /\ at[a].pc = "advance" => Passed(at[a].n)

Role(a) ==
  /\ a \in Admins =>
       /\ at[a].pc \in {"idle", "classify", "decide", "enqueue", "mark", "redeliver"}
       /\ at[a].pc # "idle" => at[a].n \in letters
  /\ a \in Ticks => at[a].pc # "redeliver" /\ (at[a].pc # "idle" => Below(a))

SkipInv ==
  /\ TypeOK /\ NumbersUnshared /\ CountedRows /\ OnRecords /\ NothingSkipped
  /\ \A a \in Actors : Holds(a) /\ Role(a)

\* Of two handlers that have one message, the later one finds it excused.
Racing(a, b) ==
  at[a].n = at[b].n /\ at[a].pc = "enqueue" /\ at[b].pc \in {"enqueue", "mark"}
RaceExcused ==
  \A a, b \in Actors :
    a # b /\ Racing(a, b) /\ Kind(at[a].n) = "message" => at[a].n \in excused

\* A message's Turn without a note is excused, or its handler is about to note it.
NoteIsComing ==
  \A n \in turned : Kind(n) = "message" /\ turnId[n] = 0 =>
    n \in excused \/ \E a \in Actors : at[a].pc = "mark" /\ at[a].n = n

TurnsTwice ==
  \A a \in Actors :
    at[a].pc = "enqueue" /\ at[a].n \in turned /\ Kind(at[a].n) = "message"
    => at[a].n \in excused

\* One handler at most carries out a click that was decided, and once.
ClickOnce ==
  /\ \A a \in Actors :
       at[a].pc = "enqueue" /\ Kind(at[a].n) = "click" =>
         /\ at[a].n \in decided /\ at[a].n \notin turned
         /\ \A b \in Actors \ {a} : at[b].n = at[a].n => at[b].pc # "enqueue"
  /\ \A n \in turned : Kind(n) = "click" => n \in decided

TurnsAreRecords == turned \subseteq Visible

CauseInv == RaceExcused /\ NoteIsComing /\ TurnsTwice /\ ClickOnce /\ TurnsAreRecords

Inv == SkipInv /\ CauseInv

-----------------------------------------------------------------------------
(* What every step leaves standing.                                        *)

\* Records, notes and marks are not taken back; a message that appears below a
\* record that was visible is late.
Grows ==
  /\ Visible \subseteq Visible' /\ late \subseteq late' /\ excused \subseteq excused'
  /\ turned \subseteq turned' /\ letters \subseteq letters' /\ cursor <= cursor'
  /\ decided \subseteq decided'
  /\ \A n \in Seqs : turnId[n] # 0 => turnId'[n] = turnId[n]
  /\ \A n \in Visible : inbox'[n] = inbox[n]
  /\ \A m \in Visible' \ Visible :
       Kind(m)' = "message" /\ (\E k \in Visible : k > m) => m \in late'

Record == [pc : Pcs, n : 0..MaxSeq, target : 0..MaxSeq]

LEMMA ConstantFacts ==
  /\ {MaxAttempts, MaxSeq, MaxFaults} \subseteq Nat
  /\ Seqs \subseteq Nat /\ 0 \notin Seqs /\ 0..MaxSeq = {0} \cup Seqs
  /\ Idle \in Record /\ Idle.pc = "idle"
  /\ Actors = Ticks \cup Admins /\ Ticks \cap Admins = {}
  /\ \A a \in Actors : Home[a] \in Processes
<1>1. MaxSeq \in Nat /\ {MaxAttempts, MaxSeq, MaxFaults} \subseteq Nat
  BY IntakeAssumption
<1>2. Seqs \subseteq Nat /\ 0 \notin Seqs /\ 0..MaxSeq = {0} \cup Seqs
  BY <1>1 DEF Seqs
<1>3. Idle \in Record /\ Idle.pc = "idle"
  BY <1>1 DEF Idle, Record, Pcs
<1>4. QED
  BY <1>1, <1>2, <1>3, IntakeAssumption DEF Actors

\* listAfterSeq(cursor, 1): the record a pass reads, and that none lies between.
LEMMA OldestIs ==
  ASSUME NEW S \in SUBSET Seqs, S # {}
  PROVE  Oldest(S) \in S /\ \A m \in S : Oldest(S) <= m
<1>1. \E n \in S : \A m \in S : n <= m
  <2>1. S \subseteq Nat
    BY ConstantFacts
  <2> DEFINE R == OpToRel(<, Nat)
  <2>2. IsWellFoundedOn(R, Nat)
    BY NatLessThanWellFounded
  <2>3. \A x, y \in Nat : <<x, y>> \in R <=> x < y
    BY DEF OpToRel
  <2> HIDE DEF R
  <2>4. PICK n \in S : \A m \in S : ~(<<m, n>> \in R)
    BY <2>1, <2>2, WFMin
  <2>5. ASSUME NEW m \in S PROVE n <= m
    <3>1. m \in Nat /\ n \in Nat /\ ~(m < n)
      BY <2>1, <2>3, <2>4
    <3>2. QED
      BY <3>1
  <2>6. QED
    BY <2>5
<1>2. QED
  BY <1>1 DEF Oldest

\* TypeOK, by the variables that change together.
AcceptedTyped ==
  /\ counter \in 0..MaxSeq /\ pending \subseteq Events \X Seqs
  /\ inbox \in [Seqs -> Events \cup {NoEvent}]
  /\ late \subseteq Seqs
RetriesTyped ==
  /\ attempts \in [Processes -> Nat]
  /\ waiting \in [Processes -> BOOLEAN]
  /\ draining \in [Processes -> Ticks \cup {NoTick}]
PassesTyped ==
  /\ slot \in [Processes -> 0..MaxSeq]
  /\ at \in [Actors -> Record]
  /\ faults \in 0..MaxFaults
OutcomesTyped ==
  /\ turnId \in [Seqs -> 0..MaxSeq]
  /\ cursor \in 0..MaxSeq
  /\ letters \subseteq Seqs /\ redelivered \subseteq letters
  /\ decided \subseteq Seqs /\ turned \subseteq Seqs /\ excused \subseteq Seqs

LEMMA TypeParts == TypeOK <=> AcceptedTyped /\ RetriesTyped /\ PassesTyped /\ OutcomesTyped
BY DEF TypeOK, AcceptedTyped, RetriesTyped, PassesTyped, OutcomesTyped, Record

LEMMA TypesTogether ==
  ASSUME AcceptedTyped', RetriesTyped', PassesTyped', OutcomesTyped'
  PROVE  TypeOK'
BY DEF TypeOK, AcceptedTyped, RetriesTyped, PassesTyped, OutcomesTyped, Record

LEMMA InitInv == Init => Inv
<1> SUFFICES ASSUME Init PROVE Inv
  OBVIOUS
<1>1. TypeOK
  <2>1. AcceptedTyped
    BY ConstantFacts DEF Init, AcceptedTyped
  <2>2. RetriesTyped
    BY DEF Init, RetriesTyped
  <2>3. PassesTyped
    BY ConstantFacts DEF Init, PassesTyped
  <2>4. OutcomesTyped
    BY ConstantFacts DEF Init, OutcomesTyped
  <2>5. QED
    BY <2>1, <2>2, <2>3, <2>4, TypeParts
<1>2. Visible = {}
  BY DEF Init, Visible
<1>3. \A a \in Actors : at[a].pc = "idle"
  BY ConstantFacts DEF Init
<1>4. NumbersUnshared /\ CountedRows /\ OnRecords /\ NothingSkipped
  BY <1>2 DEF Init, NumbersUnshared, CountedRows, OnRecords, NothingSkipped
<1>5. \A a \in Actors : Holds(a) /\ Role(a)
  BY <1>3 DEF Holds, Role
<1>6. CauseInv
  BY <1>3 DEF Init, CauseInv, RaceExcused, Racing, NoteIsComing, TurnsTwice, ClickOnce,
              TurnsAreRecords
<1>7. QED
  BY <1>1, <1>4, <1>5, <1>6 DEF Inv, SkipInv

-----------------------------------------------------------------------------
(* Actors that a step does not move, and passed records.                   *)

LEMMA PassedStays ==
  ASSUME Grows, NEW n \in Visible, Passed(n)
  PROVE  Passed(n)' /\ Kind(n)' = Kind(n)
<1>1. n \in Seqs /\ Kind(n)' = Kind(n)
  BY DEF Grows, Visible, Kind
<1>2. QED
  BY <1>1 DEF Grows, Passed, Settled

LEMMA SeqsAre ==
  ASSUME TypeOK
  PROVE  Visible \subseteq Seqs /\ cursor \in Nat /\ \A a \in Actors : at[a] \in Record
BY TypeParts, ConstantFacts DEF Visible, OutcomesTyped, PassesTyped

LEMMA BelowStays ==
  ASSUME TypeOK, TypeOK', Grows, NEW a \in Actors, at'[a].n = at[a].n,
         at[a].n \in {0} \cup Visible, Below(a)
  PROVE  Below(a)'
<1> SUFFICES ASSUME NEW m \in Visible', m < at[a].n, m \notin late'
             PROVE  Passed(m)'
  BY DEF Below
<1>1. m \in Seqs /\ m \in Nat
  BY ConstantFacts DEF Visible
<1>2. at[a].n \in Visible
  BY <1>1
<1>3. CASE m \in Visible
  <2>1. m \notin late
    BY DEF Grows
  <2>2. Passed(m)
    BY <1>3, <2>1 DEF Below
  <2>3. QED
    BY <1>3, <2>2, PassedStays
<1>4. CASE m \notin Visible
  <2>1. Kind(m)' # "message"
    BY <1>1, <1>2, <1>4 DEF Grows
  <2>2. QED
    BY <2>1 DEF Passed
<1>5. QED
  BY <1>3, <1>4

LEMMA ActorStays ==
  ASSUME TypeOK, TypeOK', Grows, NEW a \in Actors, at'[a] = at[a], Holds(a), Role(a)
  PROVE  Holds(a)' /\ Role(a)'
<1>1. /\ Visible \subseteq Visible' /\ turned \subseteq turned' /\ letters \subseteq letters'
      /\ cursor <= cursor' /\ cursor \in Nat /\ cursor' \in Nat
  BY TypeParts, ConstantFacts DEF Grows, TypeOK
<1>2. at[a] \in Record /\ Visible \subseteq Seqs
  BY SeqsAre
<1>3. Holds(a)'
  <2>1. at[a].pc = "advance" => Passed(at[a].n)'
    <3> SUFFICES ASSUME at[a].pc = "advance" PROVE Passed(at[a].n)'
      OBVIOUS
    <3>1. PICK n \in Visible : n = at[a].n /\ Passed(n)
      BY DEF Holds
    <3>2. Passed(n)'
      BY <3>1, PassedStays
    <3>3. QED
      BY <3>1, <3>2 DEF Passed, Kind
  <2>2. at[a].n \in Nat
    BY <1>2, ConstantFacts DEF Record
  <2>3. at[a].n \in Visible => Kind(at[a].n)' = Kind(at[a].n)
    BY DEF Grows, Kind
  <2>4. QED
    BY <1>1, <2>1, <2>2, <2>3 DEF Holds
<1>4. Role(a)'
  <2>1. at[a].pc # "idle" => at[a].n \in {0} \cup Visible
    BY DEF Holds
  <2>2. a \in Ticks /\ at[a].pc # "idle" => Below(a)'
    BY <2>1, BelowStays DEF Role
  <2>3. QED
    BY <1>1, <2>2 DEF Role
<1>5. QED
  BY <1>3, <1>4

LEMMA ActorRests ==
  ASSUME NEW a \in Actors, at'[a] = Idle
  PROVE  Holds(a)' /\ Role(a)'
BY ConstantFacts DEF Holds, Role

-----------------------------------------------------------------------------
(* A step of one actor.                                                    *)

\* What it may change of what the others rely on.
Outcome(a) ==
  /\ UNCHANGED accepted
  /\ turned \subseteq turned' /\ letters \subseteq letters' /\ excused \subseteq excused'
  /\ letters' \subseteq Visible /\ decided \subseteq decided'
  /\ \A n \in Seqs :
       turnId'[n] = turnId[n] \/ (turnId[n] = 0 /\ turnId'[n] \in turned)
  /\ \/ cursor' = cursor
     \/ /\ cursor' = at[a].n /\ cursor < at[a].n
        /\ a \in Ticks /\ at[a].n \in Visible /\ Passed(at[a].n)
        /\ at[a].pc # "idle"

LEMMA OutcomeGrows ==
  ASSUME SkipInv, TypeOK', NEW a \in Actors, Outcome(a)
  PROVE  /\ Grows /\ Visible' = Visible /\ late' = late /\ counter' = counter
         /\ pending' = pending /\ inbox' = inbox
<1>1. /\ Visible' = Visible /\ late' = late /\ counter' = counter /\ pending' = pending
      /\ inbox' = inbox
  BY DEF Outcome, accepted, Visible
<1>2. cursor <= cursor'
  <2>1. cursor \in Nat /\ at[a].n \in Nat
    BY SeqsAre, ConstantFacts DEF SkipInv, Record
  <2>2. QED
    BY <2>1 DEF Outcome
<1>3. QED
  BY <1>1, <1>2 DEF Grows, Outcome

LEMMA OutcomeKeeps ==
  ASSUME SkipInv, TypeOK', NEW a \in Actors, Outcome(a),
         \A b \in Actors \ {a} : at'[b] = at[b],
         Holds(a)', Role(a)'
  PROVE  SkipInv'
<1>1. /\ Grows /\ Visible' = Visible /\ late' = late /\ counter' = counter
      /\ pending' = pending /\ inbox' = inbox
  BY OutcomeGrows
<1>2. /\ TypeOK /\ NumbersUnshared /\ CountedRows /\ OnRecords /\ NothingSkipped
      /\ \A b \in Actors : Holds(b) /\ Role(b)
  BY DEF SkipInv
<1>3. NumbersUnshared' /\ CountedRows'
  BY <1>1, <1>2 DEF NumbersUnshared, CountedRows
<1>4. OnRecords'
  BY <1>1, <1>2 DEF OnRecords, Outcome
<1>5. NothingSkipped'
  <2> SUFFICES ASSUME NEW n \in Visible, n <= cursor', n \notin late PROVE Passed(n)'
    BY <1>1 DEF NothingSkipped, Passed, Settled, Kind
  <2>1. n \in Seqs /\ n \in Nat /\ cursor \in Nat
    BY <1>2, SeqsAre, ConstantFacts
  <2>2. Passed(n)
    <3>1. CASE cursor' = cursor
      BY <3>1, <1>2 DEF NothingSkipped, Passed
    <3>2. CASE cursor' = at[a].n /\ at[a].n \in Visible /\ a \in Ticks /\ Passed(at[a].n)
               /\ at[a].pc # "idle"
      <4> DEFINE k == at[a].n
      <4>0. k \in Nat /\ n <= k
        BY <1>2, <3>2, SeqsAre, ConstantFacts
      <4> HIDE DEF k
      <4>9. n = k \/ n < k
        BY <2>1, <4>0
      <4>1. n = at[a].n \/ n < at[a].n
        BY <4>9 DEF k
      <4>2. Below(a)
        BY <1>2, <3>2 DEF Role
      <4>3. QED
        BY <4>1, <4>2, <3>2 DEF Below
    <3>3. QED
      BY <3>1, <3>2 DEF Outcome
  <2>3. QED
    BY <1>1, <2>1, <2>2, PassedStays
<1>6. \A b \in Actors \ {a} : Holds(b)' /\ Role(b)'
  BY <1>1, <1>2, ActorStays
<1>7. QED
  BY <1>2, <1>3, <1>4, <1>5, <1>6 DEF SkipInv

LEMMA FailedIs ==
  ASSUME TypeOK, NEW a \in Actors, Failed(a), at[a].pc # "letter"
  PROVE  /\ RetriesTyped' /\ at' \in [Actors -> Record]
         /\ \A b \in Actors \ {a} : at'[b] = at[b]
         /\ \/ at'[a] = Idle
            \/ a \in Ticks /\ at'[a] = [at[a] EXCEPT !.pc = "letter", !.target = 0]
<1>1. RetriesTyped /\ at \in [Actors -> Record] /\ Home[a] \in Processes /\ Idle \in Record
  BY TypeParts, ConstantFacts DEF PassesTyped
<1>2. CASE a \in Admins
  <2>1. at' = [at EXCEPT ![a] = Idle] /\ UNCHANGED <<attempts, waiting, draining>>
    BY <1>2 DEF Failed, retries
  <2>2. QED
    BY <1>1, <2>1 DEF RetriesTyped
<1>3. CASE a \notin Admins
  <2>1. a \in Ticks
    BY <1>3, ConstantFacts
  <2>2. attempts' = [attempts EXCEPT ![Home[a]] = @ + 1] /\ attempts' \in [Processes -> Nat]
    BY <1>1, <1>3 DEF Failed, RetriesTyped
  <2>3. CASE attempts[Home[a]] + 1 >= MaxAttempts
    <3>1. /\ at' = [at EXCEPT ![a].pc = "letter", ![a].target = 0]
          /\ UNCHANGED <<waiting, draining>>
      BY <1>3, <2>3 DEF Failed
    <3>2. [at[a] EXCEPT !.pc = "letter", !.target = 0] \in Record
      BY <1>1, ConstantFacts DEF Record, Pcs
    <3>3. QED
      BY <1>1, <2>1, <2>2, <3>1, <3>2 DEF RetriesTyped
  <2>4. CASE ~(attempts[Home[a]] + 1 >= MaxAttempts)
    <3>1. waiting' = [waiting EXCEPT ![Home[a]] = TRUE] /\ Ends(a)
      BY <1>3, <2>4 DEF Failed
    <3>2. draining' \in [Processes -> Ticks \cup {NoTick}]
      BY <1>1, <3>1 DEF Ends, RetriesTyped
    <3>3. waiting' \in [Processes -> BOOLEAN]
      BY <1>1, <3>1 DEF RetriesTyped
    <3>4. QED
      BY <1>1, <2>2, <3>1, <3>2, <3>3 DEF Ends, RetriesTyped
  <2>5. QED
    BY <2>3, <2>4
<1>4. QED
  BY <1>2, <1>3

LEMMA HandledIs ==
  ASSUME TypeOK, NEW a \in Actors, NEW n \in Seqs, Handled(a, n), draining' = draining
  PROVE  /\ RetriesTyped' /\ at' \in [Actors -> Record]
         /\ \A b \in Actors \ {a} : at'[b] = at[b]
         /\ at'[a].n = n
         /\ at'[a].pc = IF a \in Admins THEN "redeliver" ELSE "advance"
<1>1. RetriesTyped /\ at \in [Actors -> Record] /\ Home[a] \in Processes
  BY TypeParts, ConstantFacts DEF PassesTyped
<1> DEFINE r == [pc |-> IF a \in Admins THEN "redeliver" ELSE "advance", n |-> n, target |-> 0]
<1>2. r \in Record
  BY ConstantFacts DEF Record, Pcs
<1>3. at' = [at EXCEPT ![a] = r]
  BY DEF Handled
<1>4. RetriesTyped'
  <2>1. CASE a \in Admins
    BY <2>1, <1>1 DEF Handled, retries, RetriesTyped
  <2>2. CASE a \notin Admins
    <3>1. /\ attempts' = [attempts EXCEPT ![Home[a]] = 0]
          /\ waiting' = [waiting EXCEPT ![Home[a]] = FALSE]
      BY <2>2 DEF Handled, ResetRetries
    <3>2. attempts' \in [Processes -> Nat]
      BY <1>1, <3>1 DEF RetriesTyped
    <3>3. waiting' \in [Processes -> BOOLEAN]
      BY <1>1, <3>1 DEF RetriesTyped
    <3>4. QED
      BY <1>1, <3>2, <3>3 DEF RetriesTyped
  <2>3. QED
    BY <2>1, <2>2
<1>5. at'[a] = r
  BY <1>1, <1>3
<1>6. at' \in [Actors -> Record] /\ \A b \in Actors \ {a} : at'[b] = at[b]
  BY <1>1, <1>2, <1>3
<1>7. QED
  BY <1>4, <1>5, <1>6

LEMMA EntersIs ==
  ASSUME TypeOK, NEW n \in Visible
  PROVE  \/ Kind(n) = "message" /\ Enters(n) = "enqueue"
         \/ Kind(n) = "chatter" /\ Enters(n) = "classify"
         \/ Kind(n) = "click" /\ Enters(n) = "decide"
<1>1. Kind(n) \in Kinds
  BY TypeParts, IntakeAssumption DEF AcceptedTyped, Visible, Kind
<1>2. QED
  BY <1>1 DEF Kinds, Enters

\* Handle binds a record without a Turn, and passes one that has its Turn.
LEMMA HandleIs ==
  ASSUME TypeOK, NEW a \in Actors, NEW n \in Visible, Handle(a, n), draining' = draining
  PROVE  /\ RetriesTyped' /\ slot' \in [Processes -> 0..MaxSeq]
         /\ excused \subseteq excused' /\ excused' \subseteq Seqs
         /\ at' \in [Actors -> Record] /\ \A b \in Actors \ {a} : at'[b] = at[b]
         /\ at'[a].n = n
         /\ \/ /\ turnId[n] # 0 /\ excused' = excused
               /\ at'[a].pc = IF a \in Admins THEN "redeliver" ELSE "advance"
            \/ /\ turnId[n] = 0 /\ at'[a].pc = Enters(n) /\ Excuse(Raced(a, n))
<1>1. /\ RetriesTyped /\ at \in [Actors -> Record] /\ Home[a] \in Processes
      /\ slot \in [Processes -> 0..MaxSeq] /\ excused \subseteq Seqs
  BY TypeParts, ConstantFacts DEF PassesTyped, OutcomesTyped
<1> n \in Seqs
  BY DEF Visible
<1>2. CASE SkipsMarked(n)
  <2>1. Handled(a, n) /\ UNCHANGED <<slot, excused>>
    BY <1>2 DEF Handle
  <2>2. QED
    BY <1>1, <1>2, <2>1, HandledIs DEF SkipsMarked
<1>3. CASE ~SkipsMarked(n)
  <2> DEFINE r == [pc |-> Enters(n), n |-> n, target |-> 0]
  <2>1. /\ at' = [at EXCEPT ![a] = r]
        /\ slot' = [slot EXCEPT ![Home[a]] = n]
        /\ Excuse(Raced(a, n))
        /\ UNCHANGED <<attempts, waiting>>
    BY <1>3 DEF Handle, retries
  <2>2. r \in Record /\ r.pc = Enters(n) /\ r.n = n
    BY EntersIs, ConstantFacts DEF Record, Pcs
  <2>3. excused \subseteq excused' /\ excused' \subseteq Seqs
    BY <1>1, <2>1 DEF Raced, Excuse
  <2> HIDE DEF r
  <2>4. /\ at' \in [Actors -> Record] /\ at'[a] = r
        /\ \A b \in Actors \ {a} : at'[b] = at[b]
    BY <1>1, <2>1, <2>2
  <2>5. RetriesTyped' /\ slot' \in [Processes -> 0..MaxSeq]
    BY <1>1, <2>1, ConstantFacts DEF RetriesTyped
  <2>6. QED
    BY <1>1, <1>3, <2>1, <2>2, <2>3, <2>4, <2>5 DEF SkipsMarked
<1>4. QED
  BY <1>2, <1>3

\* One actor moves, and still holds what it should.
Moved(a) ==
  /\ TypeOK' /\ Outcome(a)
  /\ \A b \in Actors \ {a} : at'[b] = at[b]
  /\ Holds(a)' /\ Role(a)'

LEMMA MovedKeeps ==
  ASSUME SkipInv, NEW a \in Actors, Moved(a)
  PROVE  SkipInv' /\ Grows
BY OutcomeKeeps, OutcomeGrows DEF Moved

LEMMA BelowMoves ==
  ASSUME SkipInv, TypeOK', NEW a \in Actors, Outcome(a), NEW n, at'[a].n = n,
         \A m \in Visible : m < n /\ m \notin late => Passed(m)
  PROVE  Below(a)'
<1>1. Grows /\ Visible' = Visible /\ late' = late
  BY OutcomeGrows
<1>2. \A m \in Visible : m < n /\ m \notin late => Passed(m)'
  BY <1>1, PassedStays, SeqsAre DEF SkipInv
<1>3. QED
  BY <1>1, <1>2 DEF Below

\* The parts of TypeOK that most steps share.
LEMMA ParkedTypes ==
  ASSUME TypeOK, UNCHANGED accepted
  PROVE  AcceptedTyped'
BY TypeParts DEF AcceptedTyped, accepted

LEMMA TickMoves ==
  ASSUME SkipInv, NEW t \in Ticks, Tick(t)
  PROVE  Moved(t)
<1>1. /\ TypeOK /\ RetriesTyped /\ PassesTyped /\ OutcomesTyped /\ t \in Actors
      /\ Home[t] \in Processes /\ OnRecords /\ NothingSkipped
  BY TypeParts, ConstantFacts DEF SkipInv
<1>2. /\ UNCHANGED <<turnId, cursor, letters, redelivered, attempts, waiting, slot, faults,
                     decided, turned, excused>>
      /\ UNCHANGED accepted
      /\ draining' = [draining EXCEPT ![Home[t]] = t]
      /\ at' = [at EXCEPT ![t].pc = "list", ![t].n = cursor]
  BY DEF Tick, dead, retries
<1>3. /\ at'[t].pc = "list" /\ at'[t].n = cursor /\ at'[t] \in Record
      /\ \A b \in Actors \ {t} : at'[b] = at[b]
      /\ at' \in [Actors -> Record]
  BY <1>1, <1>2, ConstantFacts DEF PassesTyped, OutcomesTyped, Record, Pcs
<1>4. TypeOK'
  <2>1. AcceptedTyped'
    BY <1>1, <1>2, ParkedTypes
  <2>2. RetriesTyped'
    BY <1>1, <1>2 DEF RetriesTyped
  <2>3. PassesTyped' /\ OutcomesTyped'
    BY <1>1, <1>2, <1>3 DEF PassesTyped, OutcomesTyped
  <2>4. QED
    BY <2>1, <2>2, <2>3, TypesTogether
<1>5. Outcome(t)
  BY <1>1, <1>2 DEF Outcome, OnRecords
<1>6. Visible' = Visible
  BY <1>1, <1>4, <1>5, OutcomeGrows
<1>7. Below(t)'
  <2>1. cursor \in Nat
    BY <1>1, SeqsAre
  <2>2. ASSUME NEW m \in Visible, m < cursor, m \notin late PROVE Passed(m)
    <3>1. m \in Nat
      BY <1>1, SeqsAre, ConstantFacts
    <3>2. m <= cursor
      BY <2>1, <2>2, <3>1
    <3>3. QED
      BY <2>2, <3>2, <1>1 DEF NothingSkipped, Passed
  <2>3. QED
    BY <1>1, <1>3, <1>4, <1>5, <2>2, BelowMoves
<1>8. Holds(t)'
  <2>1. cursor <= cursor
    BY <1>1, SeqsAre
  <2>2. QED
    BY <1>1, <1>2, <1>3, <1>6, <2>1 DEF Holds, OnRecords
<1>9. Role(t)'
  BY <1>3, <1>7, ConstantFacts DEF Role
<1>10. QED
  BY <1>3, <1>4, <1>5, <1>8, <1>9 DEF Moved

LEMMA PassThrowsMoves ==
  ASSUME SkipInv, NEW t \in Ticks, PassThrows(t) \/ OtherPassThrows(t)
  PROVE  Moved(t)
<1>1. /\ TypeOK /\ RetriesTyped /\ PassesTyped /\ OutcomesTyped /\ t \in Actors
      /\ OnRecords /\ NothingSkipped /\ MaxFaults \in Nat /\ Home[t] \in Processes
  BY TypeParts, ConstantFacts DEF SkipInv
<1>2. /\ UNCHANGED <<turnId, cursor, letters, redelivered, attempts, waiting, slot,
                     decided, turned, excused>>
      /\ UNCHANGED accepted /\ faults < MaxFaults /\ faults' = faults + 1
      /\ at' = [at EXCEPT ![t] = Idle] \/ at' = at
  BY DEF PassThrows, OtherPassThrows, Ends, Fault, dead, retries
<1>3. draining' \in [Processes -> Ticks \cup {NoTick}]
  <2>1. PICK d \in Ticks \cup {NoTick} : draining' = [draining EXCEPT ![Home[t]] = d]
    BY <1>1 DEF PassThrows, OtherPassThrows, Ends, RetriesTyped
  <2>2. QED
    BY <1>1, <2>1 DEF RetriesTyped
<1>4. TypeOK'
  <2>1. AcceptedTyped'
    BY <1>1, <1>2, ParkedTypes
  <2>2. RetriesTyped'
    BY <1>1, <1>2, <1>3 DEF RetriesTyped
  <2>3. PassesTyped' /\ OutcomesTyped'
    BY <1>1, <1>2, ConstantFacts DEF PassesTyped, OutcomesTyped
  <2>4. QED
    BY <2>1, <2>2, <2>3, TypesTogether
<1>5. Outcome(t)
  BY <1>1, <1>2 DEF Outcome, OnRecords
<1>6. at'[t] = Idle \/ at'[t] = at[t]
  BY <1>1, <1>2 DEF PassesTyped
<1>7. Holds(t)' /\ Role(t)'
  BY <1>1, <1>4, <1>5, <1>6, OutcomeGrows, ActorStays, ActorRests DEF SkipInv
<1>8. \A b \in Actors \ {t} : at'[b] = at[b]
  BY <1>1, <1>2 DEF PassesTyped
<1>9. QED
  BY <1>4, <1>5, <1>7, <1>8 DEF Moved

LEMMA ListMoves ==
  ASSUME SkipInv, NEW t \in Ticks, List(t)
  PROVE  Moved(t)
<1>1. /\ TypeOK /\ RetriesTyped /\ PassesTyped /\ OutcomesTyped /\ t \in Actors
      /\ OnRecords /\ NothingSkipped /\ Holds(t) /\ Home[t] \in Processes /\ t \notin Admins
  BY TypeParts, ConstantFacts DEF SkipInv
<1>2. /\ UNCHANGED <<turnId, cursor, letters, redelivered, faults, decided, turned>>
      /\ UNCHANGED accepted /\ at[t].pc = "list"
  BY DEF List, dead
<1>3. CASE Unread(t) = {}
  <2>1. /\ at' = [at EXCEPT ![t] = Idle] /\ UNCHANGED <<attempts, waiting, slot, excused>>
        /\ draining' = [draining EXCEPT ![Home[t]] = IF @ = t THEN NoTick ELSE @]
    BY <1>3 DEF List, Ends, retries
  <2>2. TypeOK'
    <3>1. AcceptedTyped'
      BY <1>1, <1>2, ParkedTypes
    <3>2. RetriesTyped'
      BY <1>1, <2>1 DEF RetriesTyped
    <3>3. PassesTyped' /\ OutcomesTyped'
      BY <1>1, <1>2, <2>1, ConstantFacts DEF PassesTyped, OutcomesTyped
    <3>4. QED
      BY <3>1, <3>2, <3>3, TypesTogether
  <2>3. Outcome(t)
    BY <1>1, <1>2, <2>1 DEF Outcome, OnRecords
  <2>4. at'[t] = Idle /\ \A b \in Actors \ {t} : at'[b] = at[b]
    BY <1>1, <2>1 DEF PassesTyped
  <2>5. QED
    BY <1>1, <2>2, <2>3, <2>4, ActorRests DEF Moved
<1>4. CASE Unread(t) # {}
  <2>1. PICK n \in Seqs : n = Oldest(Unread(t)) /\ n \in Visible /\ \A m \in Unread(t) : n <= m
    <3>1. Unread(t) \in SUBSET Seqs /\ Unread(t) \subseteq Visible
      BY <1>1, SeqsAre DEF Unread
    <3>2. QED
      BY <1>4, <3>1, OldestIs
  <2>2. Handle(t, n) /\ draining' = draining
    BY <1>4, <2>1 DEF List
  <2>3. /\ RetriesTyped' /\ slot' \in [Processes -> 0..MaxSeq]
        /\ excused \subseteq excused' /\ excused' \subseteq Seqs
        /\ at' \in [Actors -> Record] /\ \A b \in Actors \ {t} : at'[b] = at[b]
        /\ at'[t].n = n
        /\ \/ turnId[n] # 0 /\ at'[t].pc = "advance"
           \/ at'[t].pc = Enters(n)
    BY <1>1, <2>1, <2>2, HandleIs
  <2>4. TypeOK'
    <3>1. AcceptedTyped'
      BY <1>1, <1>2, ParkedTypes
    <3>2. PassesTyped' /\ OutcomesTyped'
      BY <1>1, <1>2, <2>3 DEF PassesTyped, OutcomesTyped
    <3>3. QED
      BY <2>3, <3>1, <3>2, TypesTogether
  <2>5. Outcome(t)
    BY <1>1, <1>2, <2>3 DEF Outcome, OnRecords
  <2>6. Visible' = Visible
    BY <1>1, <2>4, <2>5, OutcomeGrows
  <2>7. Below(t)'
    <3>1. ASSUME NEW m \in Visible, m < n, m \notin late PROVE Passed(m)
      <4>1. m \in Nat /\ n \in Nat /\ at[t].n \in Nat /\ cursor \in Nat
        BY <1>1, <2>1, SeqsAre, ConstantFacts DEF Record
      <4>2. ~(m > at[t].n)
        BY <2>1, <3>1, <4>1 DEF Unread
      <4>3. m <= cursor
        BY <1>1, <1>2, <4>1, <4>2 DEF Holds
      <4>4. QED
        BY <3>1, <4>3, <1>1 DEF NothingSkipped, Passed
    <3>2. QED
      BY <1>1, <2>3, <2>4, <2>5, <3>1, BelowMoves
  <2>8. Holds(t)'
    <3>0. Kind(n)' = Kind(n)
      BY <1>1, <2>4, <2>5, OutcomeGrows DEF Kind
    <3>1. turnId[n] # 0 => Passed(n)
      BY <1>1, <2>1 DEF OnRecords, Passed, Settled
    <3>2. turnId[n] # 0 => Passed(n)'
      BY <1>1, <2>1, <2>4, <2>5, <3>1, PassedStays, OutcomeGrows
    <3>3. QED
      BY <1>1, <2>1, <2>3, <2>6, <3>0, <3>2, EntersIs DEF Holds, Passed
  <2>9. Role(t)'
    BY <1>1, <2>1, <2>3, <2>7, EntersIs DEF Role
  <2>10. QED
    BY <2>3, <2>4, <2>5, <2>8, <2>9 DEF Moved
<1>5. QED
  BY <1>3, <1>4

\* An actor that moves on with its record holds it as before.
LEMMA RecordStays ==
  ASSUME SkipInv, TypeOK', NEW a \in Actors, Outcome(a), at[a].pc # "idle",
         at'[a].n = at[a].n
  PROVE  /\ a \in Ticks => Below(a)'
         /\ a \in Admins => at'[a].n \in letters'
         /\ at[a].pc # "list" => at'[a].n \in Visible'
<1>1. Grows /\ Visible' = Visible /\ TypeOK /\ Holds(a) /\ Role(a)
  BY OutcomeGrows DEF SkipInv
<1>2. a \in Ticks => Below(a)'
  BY <1>1, BelowStays DEF Holds, Role
<1>3. QED
  BY <1>1, <1>2 DEF Holds, Role, Grows

LEMMA FailedMoves ==
  ASSUME SkipInv, NEW a \in Actors, Failed(a),
         at[a].pc \in {"classify", "decide", "enqueue", "advance"},
         UNCHANGED accepted, UNCHANGED <<turnId, cursor, letters, redelivered>>,
         decided \subseteq decided', turned \subseteq turned', excused \subseteq excused',
         decided' \cup turned' \cup excused' \subseteq Seqs,
         slot' \in [Processes -> 0..MaxSeq], faults' \in 0..MaxFaults
  PROVE  Moved(a)
<1>1. TypeOK /\ OutcomesTyped /\ OnRecords
  BY TypeParts DEF SkipInv
<1>2. /\ RetriesTyped' /\ at' \in [Actors -> Record]
      /\ \A b \in Actors \ {a} : at'[b] = at[b]
      /\ \/ at'[a] = Idle
         \/ a \in Ticks /\ at'[a] = [at[a] EXCEPT !.pc = "letter", !.target = 0]
  BY <1>1, FailedIs
<1>3. TypeOK'
  <2>1. AcceptedTyped'
    BY <1>1, ParkedTypes
  <2>2. PassesTyped' /\ OutcomesTyped'
    BY <1>1, <1>2 DEF PassesTyped, OutcomesTyped
  <2>3. QED
    BY <1>2, <2>1, <2>2, TypesTogether
<1>4. Outcome(a)
  BY <1>1 DEF Outcome, OnRecords
<1>5. Holds(a)' /\ Role(a)'
  <2>1. CASE at'[a] = Idle
    BY <2>1, ActorRests
  <2>2. CASE a \in Ticks /\ at'[a] = [at[a] EXCEPT !.pc = "letter", !.target = 0]
    <3>1. at'[a].n = at[a].n /\ at'[a].pc = "letter" /\ a \notin Admins
      BY <1>1, <2>2, SeqsAre, ConstantFacts DEF Record
    <3>2. Below(a)' /\ at'[a].n \in Visible'
      BY <1>3, <1>4, <2>2, <3>1, RecordStays
    <3>3. QED
      BY <3>1, <3>2 DEF Holds, Role
  <2>3. QED
    BY <1>2, <2>1, <2>2
<1>6. QED
  BY <1>2, <1>3, <1>4, <1>5 DEF Moved

LEMMA EnqueueMoves ==
  ASSUME SkipInv, NEW a \in Actors, Enqueue(a)
  PROVE  Moved(a)
<1>1. /\ TypeOK /\ RetriesTyped /\ PassesTyped /\ OutcomesTyped /\ OnRecords
      /\ Holds(a) /\ Role(a) /\ Home[a] \in Processes
  BY TypeParts, ConstantFacts DEF SkipInv
<1>2. /\ UNCHANGED <<turnId, cursor, letters, redelivered, attempts, waiting, draining,
                     slot, faults, decided, excused>>
      /\ UNCHANGED accepted /\ at[a].pc = "enqueue" /\ turned' = turned \cup {at[a].n}
      /\ at' = [at EXCEPT ![a].pc = "mark", ![a].target = slot[Home[a]]]
  BY DEF Enqueue, dead, retries
<1>3. /\ at'[a].pc = "mark" /\ at'[a].n = at[a].n /\ at' \in [Actors -> Record]
      /\ \A b \in Actors \ {a} : at'[b] = at[b]
  <2> DEFINE k == slot[Home[a]]
  <2>1. k \in 0..MaxSeq
    BY <1>1 DEF PassesTyped
  <2>2. at' = [at EXCEPT ![a].pc = "mark", ![a].target = k]
    BY <1>2
  <2> HIDE DEF k
  <2>3. QED
    BY <1>1, <2>1, <2>2 DEF PassesTyped, Record, Pcs
<1>4. at[a].n \in Seqs /\ at[a].n \in turned'
  BY <1>1, <1>2, SeqsAre DEF Holds
<1>5. TypeOK'
  <2>1. AcceptedTyped'
    BY <1>1, <1>2, ParkedTypes
  <2>2. PassesTyped' /\ OutcomesTyped' /\ RetriesTyped'
    BY <1>1, <1>2, <1>3, <1>4 DEF PassesTyped, OutcomesTyped, RetriesTyped
  <2>3. QED
    BY <2>1, <2>2, TypesTogether
<1>6. Outcome(a)
  BY <1>1, <1>2 DEF Outcome, OnRecords
<1>7. /\ a \in Ticks => Below(a)'
      /\ a \in Admins => at'[a].n \in letters'
      /\ at'[a].n \in Visible'
  BY <1>2, <1>3, <1>5, <1>6, RecordStays
<1>8. Holds(a)' /\ Role(a)'
  BY <1>3, <1>4, <1>7 DEF Holds, Role
<1>9. QED
  BY <1>3, <1>5, <1>6, <1>8 DEF Moved

LEMMA EnqueueThrowsMoves ==
  ASSUME SkipInv, NEW a \in Actors, EnqueueThrows(a)
  PROVE  Moved(a)
<1>1. TypeOK /\ PassesTyped /\ OutcomesTyped /\ Home[a] \in Processes /\ Holds(a)
  BY TypeParts, ConstantFacts DEF SkipInv
<1>2. /\ at[a].pc = "enqueue" /\ Failed(a) /\ UNCHANGED accepted
      /\ UNCHANGED <<turnId, cursor, letters, redelivered, decided>>
      /\ faults' = faults /\ slot' = [slot EXCEPT ![Home[a]] = 0]
      /\ \/ UNCHANGED <<turned, excused>>
         \/ turned' = turned \cup {at[a].n} /\ Excuse({at[a].n})
  BY DEF EnqueueThrows, SinkRejects, Unbind, dead
<1>3. slot' \in [Processes -> 0..MaxSeq] /\ faults' \in 0..MaxFaults
  BY <1>1, <1>2, ConstantFacts DEF PassesTyped
<1>4. at[a].n \in Seqs
  BY <1>1, <1>2, SeqsAre DEF Holds
<1>5. /\ turned \subseteq turned' /\ excused \subseteq excused'
      /\ decided' \cup turned' \cup excused' \subseteq Seqs
  BY <1>1, <1>2, <1>4 DEF OutcomesTyped, Excuse
<1>6. QED
  BY <1>2, <1>3, <1>5, FailedMoves

\* The handler resolves without a Turn.
LEMMA ResolvesMoves ==
  ASSUME SkipInv, NEW a \in Actors, at[a].pc \in {"classify", "decide"}, SinkResolves(a),
         UNCHANGED accepted,
         UNCHANGED <<turnId, cursor, letters, redelivered, faults, decided, turned, excused>>
  PROVE  Moved(a)
<1>1. /\ TypeOK /\ RetriesTyped /\ PassesTyped /\ OutcomesTyped /\ OnRecords
      /\ Holds(a) /\ Role(a) /\ Home[a] \in Processes
  BY TypeParts, ConstantFacts DEF SkipInv
<1>2. PICK n \in Visible : n = at[a].n /\ Kind(n) # "message"
  BY <1>1 DEF Holds
<1>3. n \in Seqs
  BY DEF Visible
<1>4. /\ Handled(a, n) /\ draining' = draining
      /\ slot' = [slot EXCEPT ![Home[a]] = 0]
  BY <1>2 DEF SinkResolves, Unbind
<1>5. /\ RetriesTyped' /\ at' \in [Actors -> Record]
      /\ \A b \in Actors \ {a} : at'[b] = at[b]
      /\ at'[a].n = n
      /\ at'[a].pc = IF a \in Admins THEN "redeliver" ELSE "advance"
  BY <1>1, <1>3, <1>4, HandledIs
<1>6. TypeOK'
  <2>1. AcceptedTyped'
    BY <1>1, ParkedTypes
  <2>2. PassesTyped' /\ OutcomesTyped'
    BY <1>1, <1>4, <1>5, ConstantFacts DEF PassesTyped, OutcomesTyped
  <2>3. QED
    BY <1>5, <2>1, <2>2, TypesTogether
<1>7. Outcome(a)
  BY <1>1 DEF Outcome, OnRecords
<1>8. /\ a \in Ticks => Below(a)'
      /\ a \in Admins => at'[a].n \in letters'
      /\ at'[a].n \in Visible' /\ Kind(n)' = Kind(n)
  BY <1>1, <1>2, <1>5, <1>6, <1>7, RecordStays, OutcomeGrows DEF Kind
<1>9. Holds(a)' /\ Role(a)'
  BY <1>2, <1>5, <1>8, ConstantFacts DEF Holds, Role, Passed
<1>10. QED
  BY <1>5, <1>6, <1>7, <1>9 DEF Moved

\* The handler rejects, and has written no more than a decision.
LEMMA RejectsMoves ==
  ASSUME SkipInv, NEW a \in Actors, at[a].pc \in {"classify", "decide"}, SinkRejects(a),
         UNCHANGED accepted,
         UNCHANGED <<turnId, cursor, letters, redelivered, faults, turned, excused>>,
         decided' \in {decided, decided \cup {at[a].n}}
  PROVE  Moved(a)
<1>1. TypeOK /\ PassesTyped /\ OutcomesTyped /\ Home[a] \in Processes /\ Holds(a)
  BY TypeParts, ConstantFacts DEF SkipInv
<1>2. Failed(a) /\ slot' = [slot EXCEPT ![Home[a]] = 0]
  BY DEF SinkRejects, Unbind
<1>3. slot' \in [Processes -> 0..MaxSeq] /\ faults' \in 0..MaxFaults
  BY <1>1, <1>2, ConstantFacts DEF PassesTyped
<1>4. at[a].n \in Seqs
  BY <1>1, SeqsAre DEF Holds
<1>5. decided \subseteq decided' /\ decided' \cup turned' \cup excused' \subseteq Seqs
  BY <1>1, <1>4 DEF OutcomesTyped
<1>6. QED
  BY <1>2, <1>3, <1>5, FailedMoves

LEMMA ClassifyMoves ==
  ASSUME SkipInv, NEW a \in Actors, Classify(a)
  PROVE  Moved(a)
<1>1. /\ at[a].pc = "classify" /\ (SinkResolves(a) \/ SinkRejects(a))
      /\ UNCHANGED accepted
      /\ UNCHANGED <<turnId, cursor, letters, redelivered, faults, decided, turned, excused>>
  BY DEF Classify, dead
<1>2. QED
  BY <1>1, ResolvesMoves, RejectsMoves

\* A click that decides its request goes on to its Turn.
Decides(a) ==
  /\ at[a].pc = "decide" /\ at[a].n \notin decided
  /\ decided' = decided \cup {at[a].n}
  /\ at' = [at EXCEPT ![a].pc = "enqueue"]
  /\ UNCHANGED accepted
  /\ UNCHANGED <<turnId, cursor, letters, redelivered, attempts, waiting, draining, slot,
                 faults, turned, excused>>

LEMMA DecideIs ==
  ASSUME NEW a \in Actors, Decide(a)
  PROVE  /\ at[a].pc = "decide" /\ UNCHANGED accepted
         /\ UNCHANGED <<turnId, cursor, letters, redelivered, faults, turned, excused>>
         /\ \/ SinkResolves(a) /\ decided' = decided
            \/ SinkRejects(a) /\ decided' \in {decided, decided \cup {at[a].n}}
            \/ Decides(a)
BY DEF Decide, Decides, dead, retries

LEMMA DecideMoves ==
  ASSUME SkipInv, NEW a \in Actors, Decide(a)
  PROVE  Moved(a)
<1>1. CASE SinkResolves(a) /\ decided' = decided
  BY <1>1, DecideIs, ResolvesMoves
<1>2. CASE SinkRejects(a) /\ decided' \in {decided, decided \cup {at[a].n}}
  BY <1>2, DecideIs, RejectsMoves
<1>3. CASE Decides(a)
  <2>1. /\ TypeOK /\ RetriesTyped /\ PassesTyped /\ OutcomesTyped /\ OnRecords
        /\ Holds(a) /\ Role(a)
    BY TypeParts DEF SkipInv
  <2>2. PICK n \in Visible : n = at[a].n /\ Kind(n) = "click"
    BY <2>1, <1>3 DEF Holds, Decides
  <2>3. n \in Seqs
    BY DEF Visible
  <2>4. /\ at'[a].pc = "enqueue" /\ at'[a].n = n /\ at' \in [Actors -> Record]
        /\ \A b \in Actors \ {a} : at'[b] = at[b]
    BY <2>1, <2>2, <1>3 DEF Decides, PassesTyped, Record, Pcs
  <2>5. TypeOK'
    <3>1. AcceptedTyped'
      BY <1>3, <2>1, ParkedTypes DEF Decides
    <3>2. PassesTyped' /\ OutcomesTyped' /\ RetriesTyped'
      BY <1>3, <2>1, <2>2, <2>3, <2>4 DEF Decides, PassesTyped, OutcomesTyped, RetriesTyped
    <3>3. QED
      BY <3>1, <3>2, TypesTogether
  <2>6. Outcome(a)
    BY <1>3, <2>1 DEF Decides, Outcome, OnRecords
  <2>7. /\ a \in Ticks => Below(a)'
        /\ a \in Admins => at'[a].n \in letters'
        /\ at'[a].n \in Visible' /\ Kind(n)' = Kind(n)
    BY <1>3, <2>1, <2>2, <2>4, <2>5, <2>6, RecordStays, OutcomeGrows DEF Kind, Decides
  <2>8. Holds(a)' /\ Role(a)'
    BY <2>2, <2>4, <2>7 DEF Holds, Role
  <2>9. QED
    BY <2>4, <2>5, <2>6, <2>8 DEF Moved
<1>4. QED
  BY <1>1, <1>2, <1>3, DecideIs

LEMMA MarkMoves ==
  ASSUME SkipInv, NEW a \in Actors, Mark(a)
  PROVE  Moved(a)
<1>1. /\ TypeOK /\ RetriesTyped /\ PassesTyped /\ OutcomesTyped /\ OnRecords
      /\ Holds(a) /\ Role(a) /\ Home[a] \in Processes /\ MaxFaults \in Nat
  BY TypeParts, ConstantFacts DEF SkipInv
<1>2. PICK n \in Seqs : n = at[a].n /\ n \in Visible /\ n \in turned
  BY <1>1, SeqsAre DEF Mark, Holds
<1>3. PICK k \in 0..MaxSeq : k = at[a].target
  BY <1>1, SeqsAre DEF Record
<1>4. /\ UNCHANGED <<cursor, letters, redelivered, draining, decided, turned>>
      /\ UNCHANGED accepted /\ at[a].pc = "mark" /\ Handled(a, n)
      /\ slot' = [slot EXCEPT ![Home[a]] = 0]
      /\ faults' = faults \/ (faults < MaxFaults /\ faults' = faults + 1)
      /\ Excuse({n} \ {k}) \/ Excuse({n})
      /\ \/ turnId' = turnId
         \/ k # 0 /\ turnId[k] = 0 /\ turnId' = [turnId EXCEPT ![k] = n]
  BY <1>2, <1>3 DEF Mark, SinkResolves, Unbind, Fault, dead
<1>5. /\ RetriesTyped' /\ at' \in [Actors -> Record]
      /\ \A b \in Actors \ {a} : at'[b] = at[b]
      /\ at'[a].n = n
      /\ at'[a].pc = IF a \in Admins THEN "redeliver" ELSE "advance"
  BY <1>1, <1>4, HandledIs
<1>6. /\ turnId' \in [Seqs -> 0..MaxSeq]
      /\ \A m \in Seqs : turnId'[m] = turnId[m] \/ (turnId[m] = 0 /\ turnId'[m] = n)
  BY <1>1, <1>4, ConstantFacts DEF OutcomesTyped
<1>7. TypeOK'
  <2>1. AcceptedTyped'
    BY <1>1, <1>4, ParkedTypes
  <2>2. PassesTyped'
    BY <1>1, <1>4, <1>5, ConstantFacts DEF PassesTyped
  <2>3. OutcomesTyped'
    BY <1>1, <1>4, <1>6 DEF OutcomesTyped, Excuse
  <2>4. QED
    BY <1>5, <2>1, <2>2, <2>3, TypesTogether
<1>8. Outcome(a)
  BY <1>1, <1>2, <1>4, <1>6 DEF Outcome, OnRecords, Excuse
<1>9. /\ a \in Ticks => Below(a)'
      /\ a \in Admins => at'[a].n \in letters'
      /\ at'[a].n \in Visible'
  BY <1>2, <1>4, <1>5, <1>7, <1>8, RecordStays
<1>10. Passed(n)'
  BY <1>2, <1>4 DEF Passed, Settled
<1>11. Holds(a)' /\ Role(a)'
  BY <1>5, <1>9, <1>10, ConstantFacts DEF Holds, Role, Passed
<1>12. QED
  BY <1>5, <1>7, <1>8, <1>11 DEF Moved

LEMMA HandlesMoves ==
  ASSUME SkipInv, NEW a \in Actors, Handles(a)
  PROVE  Moved(a)
BY ClassifyMoves, DecideMoves, EnqueueMoves, EnqueueThrowsMoves, MarkMoves DEF Handles

LEMMA PassRecordMoves ==
  ASSUME SkipInv, NEW t \in Ticks, at[t].pc \in {"advance", "skip"}, PassRecord(t),
         UNCHANGED accepted, RetriesTyped',
         UNCHANGED <<turnId, letters, redelivered, slot, faults, decided, turned, excused>>
  PROVE  Moved(t)
<1>1. /\ TypeOK /\ PassesTyped /\ OutcomesTyped /\ OnRecords
      /\ Holds(t) /\ t \in Actors /\ t \notin Admins
  BY TypeParts, ConstantFacts DEF SkipInv
<1>2. PICK n \in Seqs : n = at[t].n /\ n \in Visible
  BY <1>1, SeqsAre DEF Holds
<1>3. n \in Nat /\ cursor \in Nat
  BY <1>1, <1>2, SeqsAre, ConstantFacts
<1>4. /\ cursor' \in {cursor, n} /\ n <= cursor'
      /\ cursor' = cursor \/ (cursor' = n /\ cursor < n)
  BY <1>2, <1>3 DEF PassRecord
<1>5. at' = [at EXCEPT ![t].pc = "list"] \/ at' = [at EXCEPT ![t] = Idle]
  BY DEF PassRecord, Ends
<1>6. /\ (at'[t].pc = "list" /\ at'[t].n = n) \/ at'[t] = Idle
      /\ at' \in [Actors -> Record]
      /\ \A b \in Actors \ {t} : at'[b] = at[b]
  BY <1>1, <1>2, <1>5, ConstantFacts DEF PassesTyped, Record, Pcs
<1>7. TypeOK'
  <2>1. AcceptedTyped'
    BY <1>1, ParkedTypes
  <2>2. cursor' \in 0..MaxSeq
    BY <1>1, <1>4, ConstantFacts DEF OutcomesTyped
  <2>3. PassesTyped' /\ OutcomesTyped'
    BY <1>1, <1>6, <2>2 DEF PassesTyped, OutcomesTyped
  <2>4. QED
    BY <2>1, <2>3, TypesTogether
<1>8. Passed(n)
  BY <1>1, <1>2 DEF Holds, Passed, Settled
<1>9. Outcome(t)
  BY <1>1, <1>2, <1>4, <1>8 DEF Outcome, OnRecords
<1>10. Holds(t)' /\ Role(t)'
  <2>1. CASE at'[t] = Idle
    BY <1>1, <2>1, ActorRests
  <2>2. CASE at'[t].pc = "list" /\ at'[t].n = n
    <3>1. Below(t)' /\ at'[t].n \in Visible'
      BY <1>1, <1>2, <1>7, <1>9, <2>2, RecordStays
    <3>2. QED
      BY <1>1, <1>4, <2>2, <3>1 DEF Holds, Role
  <2>3. QED
    BY <1>6, <2>1, <2>2
<1>11. QED
  BY <1>6, <1>7, <1>9, <1>10 DEF Moved

LEMMA DrainingTyped ==
  ASSUME TypeOK, NEW t \in Ticks, PassRecord(t)
  PROVE  draining' \in [Processes -> Ticks \cup {NoTick}]
<1>1. draining \in [Processes -> Ticks \cup {NoTick}]
  BY TypeParts DEF RetriesTyped
<1>2. QED
  BY <1>1 DEF PassRecord, Ends

LEMMA AdvanceMoves ==
  ASSUME SkipInv, NEW t \in Ticks, Advance(t)
  PROVE  Moved(t)
<1>1. TypeOK /\ PassesTyped /\ RetriesTyped /\ MaxFaults \in Nat /\ t \in Actors
  BY TypeParts, ConstantFacts DEF SkipInv
<1>2. /\ at[t].pc = "advance" /\ UNCHANGED accepted
      /\ UNCHANGED <<turnId, letters, redelivered, slot, decided, turned, excused>>
  BY DEF Advance, dead
<1>3. CASE PassRecord(t) /\ UNCHANGED <<retries, faults>>
  <2>1. RetriesTyped' /\ faults' = faults
    BY <1>1, <1>3, DrainingTyped DEF RetriesTyped, retries
  <2>2. QED
    BY <1>2, <1>3, <2>1, PassRecordMoves
<1>4. CASE Fault /\ Failed(t) /\ UNCHANGED cursor
  <2>1. slot' \in [Processes -> 0..MaxSeq] /\ faults' \in 0..MaxFaults
    BY <1>1, <1>2, <1>4 DEF Fault, PassesTyped
  <2>2. QED
    BY <1>1, <1>2, <1>4, <2>1, TypeParts, FailedMoves DEF OutcomesTyped
<1>5. QED
  BY <1>3, <1>4 DEF Advance

LEMMA SkipRecordMoves ==
  ASSUME SkipInv, NEW t \in Ticks, SkipRecord(t)
  PROVE  Moved(t)
<1>1. RetriesTyped /\ TypeOK /\ Home[t] \in Processes
  BY TypeParts, ConstantFacts DEF SkipInv
<1>2. /\ at[t].pc = "skip" /\ UNCHANGED accepted /\ PassRecord(t)
      /\ UNCHANGED <<turnId, letters, redelivered, slot, faults, decided, turned, excused>>
      /\ ResetRetries(t)
  BY DEF SkipRecord, dead
<1>3. RetriesTyped'
  <2>1. attempts' \in [Processes -> Nat]
    BY <1>1, <1>2 DEF ResetRetries, RetriesTyped
  <2>2. waiting' \in [Processes -> BOOLEAN]
    BY <1>1, <1>2 DEF ResetRetries, RetriesTyped
  <2>3. QED
    BY <1>1, <1>2, <2>1, <2>2, DrainingTyped DEF RetriesTyped
<1>4. QED
  BY <1>2, <1>3, PassRecordMoves

LEMMA RecordLetterMoves ==
  ASSUME SkipInv, NEW t \in Ticks, RecordLetter(t)
  PROVE  Moved(t)
<1>1. /\ TypeOK /\ RetriesTyped /\ PassesTyped /\ OutcomesTyped /\ OnRecords
      /\ Holds(t) /\ t \in Actors /\ t \notin Admins
  BY TypeParts, ConstantFacts DEF SkipInv
<1>2. /\ at[t].pc = "letter" /\ UNCHANGED accepted /\ letters' = letters \cup {at[t].n}
      /\ at' = [at EXCEPT ![t].pc = "skip"]
      /\ UNCHANGED <<turnId, cursor, redelivered, attempts, waiting, draining, slot, faults,
                     decided, turned, excused>>
  BY DEF RecordLetter, retries
<1>3. at[t].n \in Visible /\ at[t].n \in Seqs
  BY <1>1, <1>2, SeqsAre DEF Holds
<1>4. /\ at'[t].pc = "skip" /\ at'[t].n = at[t].n /\ at' \in [Actors -> Record]
      /\ \A b \in Actors \ {t} : at'[b] = at[b]
  BY <1>1, <1>2 DEF PassesTyped, Record, Pcs
<1>5. TypeOK'
  <2>1. AcceptedTyped'
    BY <1>1, <1>2, ParkedTypes
  <2>2. PassesTyped' /\ OutcomesTyped' /\ RetriesTyped'
    BY <1>1, <1>2, <1>3, <1>4 DEF PassesTyped, OutcomesTyped, RetriesTyped
  <2>3. QED
    BY <2>1, <2>2, TypesTogether
<1>6. Outcome(t)
  BY <1>1, <1>2, <1>3 DEF Outcome, OnRecords
<1>7. Below(t)' /\ at'[t].n \in Visible'
  BY <1>1, <1>2, <1>4, <1>5, <1>6, RecordStays
<1>8. Holds(t)' /\ Role(t)'
  BY <1>1, <1>2, <1>4, <1>7 DEF Holds, Role
<1>9. QED
  BY <1>4, <1>5, <1>6, <1>8 DEF Moved

LEMMA ReplayMoves ==
  ASSUME SkipInv, NEW z \in Admins, NEW n \in Seqs, Replay(z, n)
  PROVE  Moved(z)
<1>1. /\ TypeOK /\ RetriesTyped /\ PassesTyped /\ OutcomesTyped /\ OnRecords
      /\ z \in Actors /\ z \notin Ticks
  BY TypeParts, ConstantFacts DEF SkipInv
<1>2. /\ UNCHANGED accepted /\ n \in letters /\ Handle(z, n)
      /\ UNCHANGED <<turnId, cursor, letters, redelivered, draining, faults, decided, turned>>
  BY DEF Replay, dead
<1>3. /\ RetriesTyped' /\ slot' \in [Processes -> 0..MaxSeq]
      /\ excused \subseteq excused' /\ excused' \subseteq Seqs
      /\ at' \in [Actors -> Record] /\ \A b \in Actors \ {z} : at'[b] = at[b]
      /\ at'[z].n = n /\ at'[z].pc \in {"redeliver", Enters(n)}
  <2>1. n \in Visible
    BY <1>1, <1>2 DEF OnRecords
  <2>2. QED
    BY <1>1, <1>2, <2>1, HandleIs
<1>4. TypeOK'
  <2>1. AcceptedTyped'
    BY <1>1, <1>2, ParkedTypes
  <2>2. PassesTyped' /\ OutcomesTyped'
    BY <1>1, <1>2, <1>3 DEF PassesTyped, OutcomesTyped
  <2>3. QED
    BY <1>3, <2>1, <2>2, TypesTogether
<1>5. Outcome(z)
  BY <1>1, <1>2, <1>3 DEF Outcome, OnRecords
<1>6. n \in Visible /\ Visible' = Visible
  BY <1>1, <1>2, <1>4, <1>5, OutcomeGrows DEF OnRecords
<1>7. Holds(z)' /\ Role(z)'
  <2>1. Kind(n)' = Kind(n)
    BY <1>2 DEF accepted, Kind
  <2>2. QED
    BY <1>1, <1>2, <1>3, <1>6, <2>1, EntersIs DEF Holds, Role
<1>8. QED
  BY <1>3, <1>4, <1>5, <1>7 DEF Moved

LEMMA MarkRedeliveredMoves ==
  ASSUME SkipInv, NEW z \in Admins, MarkRedelivered(z)
  PROVE  Moved(z)
<1>1. /\ TypeOK /\ RetriesTyped /\ PassesTyped /\ OutcomesTyped /\ OnRecords
      /\ Role(z) /\ z \in Actors /\ MaxFaults \in Nat
  BY TypeParts, ConstantFacts DEF SkipInv
<1>2. /\ UNCHANGED accepted /\ at[z].pc = "redeliver" /\ at' = [at EXCEPT ![z] = Idle]
      /\ UNCHANGED <<turnId, cursor, letters, attempts, waiting, draining, slot, decided,
                     turned, excused>>
      /\ redelivered' \in {redelivered, redelivered \cup {at[z].n}}
      /\ faults' = faults \/ (faults < MaxFaults /\ faults' = faults + 1)
  BY DEF MarkRedelivered, Fault, retries
<1>3. at[z].n \in letters
  BY <1>1, <1>2 DEF Role
<1>4. /\ at'[z] = Idle /\ at' \in [Actors -> Record] /\ \A b \in Actors \ {z} : at'[b] = at[b]
  BY <1>1, <1>2, ConstantFacts DEF PassesTyped
<1>5. TypeOK'
  <2>1. AcceptedTyped'
    BY <1>1, <1>2, ParkedTypes
  <2>2. PassesTyped' /\ OutcomesTyped' /\ RetriesTyped'
    BY <1>1, <1>2, <1>3, <1>4 DEF PassesTyped, OutcomesTyped, RetriesTyped
  <2>3. QED
    BY <2>1, <2>2, TypesTogether
<1>6. Outcome(z)
  BY <1>1, <1>2 DEF Outcome, OnRecords
<1>7. QED
  BY <1>1, <1>4, <1>5, <1>6, ActorRests DEF Moved

-----------------------------------------------------------------------------
(* Deliveries, back-off and crashes.                                       *)

LEMMA TakeNumberKeeps ==
  ASSUME SkipInv, NEW e \in Events, TakeNumber(e)
  PROVE  SkipInv' /\ Grows
<1>1. /\ TypeOK /\ AcceptedTyped /\ RetriesTyped /\ PassesTyped /\ OutcomesTyped
      /\ NumbersUnshared /\ CountedRows /\ OnRecords /\ NothingSkipped
      /\ \A b \in Actors : Holds(b) /\ Role(b)
  BY TypeParts DEF SkipInv
<1>2. /\ counter < MaxSeq /\ counter' = counter + 1 /\ pending' = pending \cup {<<e, counter + 1>>}
      /\ UNCHANGED <<inbox, late, turnId, cursor, letters, redelivered, attempts, waiting,
                     draining, slot, at, faults, decided, turned, excused>>
  BY DEF TakeNumber, dead, retries
<1>3. Visible' = Visible
  BY <1>2 DEF Visible
<1>4. counter \in Nat /\ MaxSeq \in Nat /\ counter + 1 \in Seqs /\ cursor <= cursor
  BY <1>1, <1>2, IntakeAssumption, SeqsAre DEF AcceptedTyped, Seqs
<1>5. TypeOK'
  <2>1. AcceptedTyped'
    BY <1>1, <1>2, <1>4 DEF AcceptedTyped, Seqs
  <2>2. PassesTyped' /\ OutcomesTyped' /\ RetriesTyped'
    BY <1>1, <1>2 DEF PassesTyped, OutcomesTyped, RetriesTyped
  <2>3. QED
    BY <2>1, <2>2, TypesTogether
<1>6. Grows
  BY <1>2, <1>3, <1>4 DEF Grows
<1>7. ASSUME NEW n \in Visible PROVE n \in Nat /\ n <= counter
  BY <1>1, SeqsAre, ConstantFacts DEF CountedRows
<1>8. CountedRows'
  BY <1>2, <1>3, <1>4, <1>7 DEF CountedRows
<1>9. NumbersUnshared'
  <2>1. \A d \in pending : d[2] \in Nat /\ d[2] <= counter
    BY <1>1, ConstantFacts DEF AcceptedTyped, NumbersUnshared
  <2>2. counter + 1 \notin Visible
    BY <1>4, <1>7
  <2> DEFINE new == <<e, counter + 1>>
  <2>3. new[2] = counter + 1
    OBVIOUS
  <2> HIDE DEF new
  <2>4. \A d \in pending : d[2] # new[2] /\ d[2] <= counter'
    BY <1>2, <1>4, <2>1, <2>3
  <2>5. new[2] <= counter' /\ new[2] \notin Visible'
    BY <1>2, <1>3, <1>4, <2>2, <2>3
  <2>6. pending' = pending \cup {new}
    BY <1>2 DEF new
  <2>7. QED
    BY <1>1, <1>3, <2>4, <2>5, <2>6 DEF NumbersUnshared
<1>10. OnRecords' /\ NothingSkipped'
  BY <1>1, <1>2, <1>3 DEF OnRecords, NothingSkipped, Settled, Kind
<1>11. \A b \in Actors : Holds(b)' /\ Role(b)'
  BY <1>1, <1>2, <1>5, <1>6, ActorStays
<1>12. QED
  BY <1>5, <1>6, <1>8, <1>9, <1>10, <1>11 DEF SkipInv

LEMMA InsertRowKeeps ==
  ASSUME SkipInv, NEW e \in Events, NEW n \in Seqs, InsertRow(e, n)
  PROVE  SkipInv' /\ Grows
<1>1. /\ TypeOK /\ AcceptedTyped /\ RetriesTyped /\ PassesTyped /\ OutcomesTyped
      /\ NumbersUnshared /\ CountedRows /\ OnRecords /\ NothingSkipped
      /\ \A b \in Actors : Holds(b) /\ Role(b)
  BY TypeParts DEF SkipInv
<1>2. /\ <<e, n>> \in pending /\ pending' = pending \ {<<e, n>>}
      /\ UNCHANGED <<counter, turnId, cursor, letters, redelivered, attempts, waiting,
                     draining, slot, at, faults, decided, turned, excused>>
      /\ \/ UNCHANGED <<inbox, late>>
         \/ /\ inbox' = [inbox EXCEPT ![n] = e]
            /\ late' = late \cup {m \in {n} : KindOf[e] = "message" /\ \E k \in Visible : k > m}
  BY DEF InsertRow, dead, retries
<1>3. n \notin Visible /\ n <= counter /\ n \in Nat /\ cursor \in Nat
  <2> DEFINE d == <<e, n>>
  <2>1. d[2] = n /\ d \in pending
    BY <1>2
  <2> HIDE DEF d
  <2>2. QED
    BY <1>1, <2>1, SeqsAre, ConstantFacts DEF NumbersUnshared
<1>4. /\ \/ Visible' = Visible /\ late' = late
         \/ /\ Visible' = Visible \cup {n} /\ Kind(n)' = KindOf[e]
            /\ late' = late \cup {m \in {n} : KindOf[e] = "message" /\ \E k \in Visible : k > m}
      /\ \A m \in Visible : inbox'[m] = inbox[m]
  <2>1. CASE UNCHANGED <<inbox, late>>
    BY <2>1 DEF Visible
  <2>2. CASE /\ inbox' = [inbox EXCEPT ![n] = e]
             /\ late' = late \cup {m \in {n} : KindOf[e] = "message" /\ \E k \in Visible : k > m}
    <3>1. e # NoEvent /\ inbox'[n] = e /\ \A m \in Seqs \ {n} : inbox'[m] = inbox[m]
      BY <1>1, <2>2, IntakeAssumption DEF AcceptedTyped
    <3>2. Visible' = Visible \cup {n}
      BY <3>1 DEF Visible
    <3>3. Kind(n)' = KindOf[e]
      BY <3>1 DEF Kind
    <3>4. QED
      BY <1>3, <2>2, <3>1, <3>2, <3>3 DEF Visible
  <2>3. QED
    BY <1>2, <2>1, <2>2
<1>5. TypeOK'
  <2>1. AcceptedTyped'
    BY <1>1, <1>2 DEF AcceptedTyped
  <2>2. PassesTyped' /\ OutcomesTyped' /\ RetriesTyped'
    BY <1>1, <1>2 DEF PassesTyped, OutcomesTyped, RetriesTyped
  <2>3. QED
    BY <2>1, <2>2, TypesTogether
<1>6. Grows
  BY <1>2, <1>3, <1>4 DEF Grows
<1>7. CountedRows' /\ OnRecords'
  BY <1>1, <1>2, <1>3, <1>4 DEF CountedRows, OnRecords
<1>8. NumbersUnshared'
  <2> DEFINE new == <<e, n>>
  <2>1. new[2] = n /\ new \in pending /\ pending' = pending \ {new}
    BY <1>2
  <2> HIDE DEF new
  <2>2. \A d \in pending' : d \in pending /\ d[2] # n
    BY <1>1, <2>1 DEF NumbersUnshared
  <2>3. QED
    BY <1>1, <1>2, <1>4, <2>2 DEF NumbersUnshared
<1>9. NothingSkipped'
  <2> SUFFICES ASSUME NEW m \in Visible', m <= cursor, m \notin late' PROVE Passed(m)'
    BY <1>2 DEF NothingSkipped, Passed, Settled
  <2>1. CASE m \in Visible
    BY <2>1, <1>1, <1>4, <1>6, PassedStays DEF NothingSkipped, Passed
  <2>2. CASE m \notin Visible
    <3>1. m = n
      BY <2>2, <1>4
    <3>2. cursor \in Visible /\ cursor > n
      BY <2>2, <3>1, <1>1, <1>3, <1>4, ConstantFacts DEF OnRecords
    <3>3. Kind(n)' # "message"
      BY <2>2, <3>1, <3>2, <1>6 DEF Grows
    <3>4. QED
      BY <3>1, <3>3 DEF Passed
  <2>3. QED
    BY <2>1, <2>2
<1>10. \A b \in Actors : Holds(b)' /\ Role(b)'
  BY <1>1, <1>2, <1>5, <1>6, ActorStays
<1>11. QED
  BY <1>5, <1>6, <1>7, <1>8, <1>9, <1>10 DEF SkipInv

\* A step of no actor, or a crash of some.
LEMMA OthersKeep ==
  ASSUME SkipInv, TypeOK', UNCHANGED accepted,
         UNCHANGED <<turnId, cursor, letters, decided, turned>>, excused \subseteq excused',
         \A a \in Actors : at'[a] = at[a] \/ at'[a] = Idle
  PROVE  SkipInv' /\ Grows
<1>1. /\ TypeOK /\ NumbersUnshared /\ CountedRows /\ OnRecords /\ NothingSkipped
      /\ \A b \in Actors : Holds(b) /\ Role(b)
  BY DEF SkipInv
<1>2. Visible' = Visible /\ UNCHANGED <<counter, pending, inbox, late>>
  BY DEF accepted, Visible
<1>3. cursor <= cursor
  BY <1>1, SeqsAre
<1>4. Grows
  BY <1>2, <1>3 DEF Grows
<1>5. NumbersUnshared' /\ CountedRows' /\ OnRecords' /\ NothingSkipped'
  BY <1>1, <1>2 DEF NumbersUnshared, CountedRows, OnRecords, NothingSkipped, Settled, Kind
<1>6. \A b \in Actors : Holds(b)' /\ Role(b)'
  BY <1>1, <1>4, ActorStays, ActorRests
<1>7. QED
  BY <1>4, <1>5, <1>6 DEF SkipInv

LEMMA BackoffEndsKeeps ==
  ASSUME SkipInv, NEW p \in Processes, BackoffEnds(p)
  PROVE  SkipInv' /\ Grows
<1>1. TypeOK /\ AcceptedTyped /\ RetriesTyped /\ PassesTyped /\ OutcomesTyped
  BY TypeParts DEF SkipInv
<1>2. /\ waiting' = [waiting EXCEPT ![p] = FALSE] /\ UNCHANGED accepted
      /\ UNCHANGED <<turnId, cursor, letters, redelivered, attempts, draining, slot, at,
                     faults, decided, turned, excused>>
  BY DEF BackoffEnds, dead
<1>3. TypeOK'
  <2>1. AcceptedTyped'
    BY <1>1, <1>2, ParkedTypes
  <2>2. waiting' \in [Processes -> BOOLEAN]
    BY <1>1, <1>2 DEF RetriesTyped
  <2>3. PassesTyped' /\ OutcomesTyped' /\ RetriesTyped'
    BY <1>1, <1>2, <2>2 DEF PassesTyped, OutcomesTyped, RetriesTyped
  <2>4. QED
    BY <2>1, <2>3, TypesTogether
<1>4. QED
  BY <1>2, <1>3, OthersKeep

LEMMA CrashKeeps ==
  ASSUME SkipInv, NEW p \in Processes, Crash(p)
  PROVE  SkipInv' /\ Grows
<1> DEFINE lost == {at[a].n : a \in {b \in Actors : Home[b] = p /\ at[b].pc = "mark"}}
<1>1. /\ TypeOK /\ AcceptedTyped /\ RetriesTyped /\ PassesTyped /\ OutcomesTyped
      /\ MaxFaults \in Nat /\ \A a \in Actors : Holds(a)
  BY TypeParts, ConstantFacts DEF SkipInv
<1>2. /\ at' = [a \in Actors |-> IF Home[a] = p THEN Idle ELSE at[a]]
      /\ Excuse(lost)
      /\ attempts' = [attempts EXCEPT ![p] = 0]
      /\ waiting' = [waiting EXCEPT ![p] = FALSE]
      /\ draining' = [draining EXCEPT ![p] = NoTick]
      /\ slot' = [slot EXCEPT ![p] = 0]
      /\ faults < MaxFaults /\ faults' = faults + 1 /\ UNCHANGED accepted
      /\ UNCHANGED <<turnId, cursor, letters, redelivered, decided, turned>>
  BY DEF Crash, Fault, dead
<1>3. lost \subseteq Seqs
  BY <1>1, SeqsAre DEF Holds
<1> HIDE DEF lost
<1>4. at' \in [Actors -> Record] /\ \A a \in Actors : at'[a] = at[a] \/ at'[a] = Idle
  BY <1>1, <1>2, ConstantFacts DEF PassesTyped
<1>5. TypeOK'
  <2>1. AcceptedTyped'
    BY <1>1, <1>2, ParkedTypes
  <2>2. /\ attempts' \in [Processes -> Nat] /\ waiting' \in [Processes -> BOOLEAN]
        /\ draining' \in [Processes -> Ticks \cup {NoTick}]
    BY <1>1, <1>2 DEF RetriesTyped
  <2>3. PassesTyped'
    BY <1>1, <1>2, <1>4, ConstantFacts DEF PassesTyped
  <2>4. OutcomesTyped'
    BY <1>1, <1>2, <1>3 DEF OutcomesTyped, Excuse
  <2>5. QED
    BY <2>1, <2>2, <2>3, <2>4, TypesTogether DEF RetriesTyped
<1>6. excused \subseteq excused'
  BY <1>2 DEF Excuse
<1>7. QED
  BY <1>2, <1>4, <1>5, <1>6, OthersKeep

LEMMA StutterKeeps ==
  ASSUME SkipInv, UNCHANGED vars
  PROVE  SkipInv' /\ Grows
<1>1. /\ UNCHANGED accepted
      /\ UNCHANGED <<counter, pending, inbox, late, turnId, cursor, letters, redelivered,
                     attempts, waiting, draining, slot, at, faults, decided, turned, excused>>
  BY DEF vars, accepted, dead, retries
<1>2. TypeOK'
  <2>1. AcceptedTyped /\ RetriesTyped /\ PassesTyped /\ OutcomesTyped
    BY TypeParts DEF SkipInv
  <2>2. AcceptedTyped' /\ PassesTyped' /\ OutcomesTyped' /\ RetriesTyped'
    BY <1>1, <2>1 DEF AcceptedTyped, PassesTyped, OutcomesTyped, RetriesTyped
  <2>3. QED
    BY <2>2, TypesTogether
<1>3. QED
  BY <1>1, <1>2, OthersKeep

LEMMA SkipStep ==
  ASSUME SkipInv, [Next]_vars
  PROVE  SkipInv' /\ Grows
<1>1. CASE \E t \in Ticks : Tick(t) \/ Goes(t) \/ PassThrows(t) \/ OtherPassThrows(t)
  <2>1. PICK t \in Ticks : Tick(t) \/ Goes(t) \/ PassThrows(t) \/ OtherPassThrows(t)
    BY <1>1
  <2>2. t \in Actors
    BY ConstantFacts
  <2>3. Moved(t)
    BY <2>1, <2>2, TickMoves, ListMoves, HandlesMoves, AdvanceMoves, RecordLetterMoves,
       SkipRecordMoves, PassThrowsMoves DEF Goes
  <2>4. QED
    BY <2>2, <2>3, MovedKeeps
<1>2. CASE \E z \in Admins : \/ Handles(z) \/ MarkRedelivered(z)
                             \/ \E n \in Seqs : Replay(z, n)
  <2>1. PICK z \in Admins : \/ Handles(z) \/ MarkRedelivered(z)
                            \/ \E n \in Seqs : Replay(z, n)
    BY <1>2
  <2>2. z \in Actors
    BY ConstantFacts
  <2>3. Moved(z)
    BY <2>1, <2>2, HandlesMoves, MarkRedeliveredMoves, ReplayMoves
  <2>4. QED
    BY <2>2, <2>3, MovedKeeps
<1>3. CASE \/ \E e \in Events : TakeNumber(e)
           \/ \E e \in Events, n \in Seqs : InsertRow(e, n)
  BY <1>3, TakeNumberKeeps, InsertRowKeeps
<1>4. CASE \E p \in Processes : BackoffEnds(p) \/ Crash(p)
  BY <1>4, BackoffEndsKeeps, CrashKeeps
<1>5. CASE UNCHANGED vars
  BY <1>5, StutterKeeps
<1>6. QED
  BY <1>1, <1>2, <1>3, <1>4, <1>5 DEF Next

-----------------------------------------------------------------------------
(* Why a message becomes a second Turn.                                    *)

\* What the steps below all rest on.
LEMMA CauseFacts ==
  ASSUME SkipInv, CauseInv, Grows
  PROVE  /\ TypeOK /\ RaceExcused /\ NoteIsComing /\ TurnsTwice /\ ClickOnce
         /\ turned \subseteq Visible /\ Visible \subseteq Visible' /\ Visible \subseteq Seqs
         /\ excused \subseteq excused' /\ decided \subseteq decided'
         /\ \A n \in Visible : inbox'[n] = inbox[n] /\ (turnId'[n] = 0 => turnId[n] = 0)
         /\ \A a \in Actors : at[a].pc \in {"decide", "enqueue", "mark"} => at[a].n \in Visible
BY DEF SkipInv, CauseInv, TurnsAreRecords, Grows, Holds, Visible

\* An actor is out of the two steps from the bound record to its note, and has not
\* forgotten the note of a message.
Leaves(a) ==
  /\ at'[a].pc \notin {"enqueue", "mark"}
  /\ at[a].pc = "mark" /\ Kind(at[a].n) = "message"
     => at[a].n \in excused' \/ turnId'[at[a].n] # 0

LEMMA CauseStays ==
  ASSUME SkipInv, CauseInv, Grows, turned' = turned,
         \A a \in Actors : at'[a] = at[a] \/ Leaves(a)
  PROVE  CauseInv'
<1>1. /\ RaceExcused /\ NoteIsComing /\ TurnsTwice /\ ClickOnce
      /\ turned \subseteq Visible /\ Visible \subseteq Visible'
      /\ excused \subseteq excused' /\ decided \subseteq decided'
      /\ \A n \in Visible : inbox'[n] = inbox[n] /\ (turnId'[n] = 0 => turnId[n] = 0)
      /\ \A a \in Actors : at[a].pc \in {"enqueue", "mark"} => at[a].n \in Visible
  BY CauseFacts
<1>2. \A a \in Actors : at'[a].pc \in {"enqueue", "mark"} => at'[a] = at[a]
  BY DEF Leaves
<1>3. RaceExcused'
  BY <1>1, <1>2 DEF RaceExcused, Racing, Kind
<1>4. NoteIsComing'
  <2> SUFFICES ASSUME NEW n \in turned, Kind(n)' = "message", turnId'[n] = 0, n \notin excused'
               PROVE  \E a \in Actors : at'[a].pc = "mark" /\ at'[a].n = n
    BY DEF NoteIsComing
  <2>1. Kind(n) = "message" /\ turnId[n] = 0 /\ n \notin excused
    BY <1>1 DEF Kind
  <2>2. PICK a \in Actors : at[a].pc = "mark" /\ at[a].n = n
    BY <1>1, <2>1 DEF NoteIsComing
  <2>3. at'[a] = at[a]
    BY <2>1, <2>2 DEF Leaves
  <2>4. QED
    BY <2>2, <2>3
<1>5. TurnsTwice'
  BY <1>1, <1>2 DEF TurnsTwice, Kind
<1>6. ClickOnce'
  BY <1>1, <1>2 DEF ClickOnce, Kind
<1>7. QED
  BY <1>1, <1>3, <1>4, <1>5, <1>6 DEF CauseInv, TurnsAreRecords

\* A message without a Turn is bound.
LEMMA BindCause ==
  ASSUME SkipInv, CauseInv, Grows, turned' = turned, NEW a \in Actors, NEW n \in Visible,
         \A b \in Actors \ {a} : at'[b] = at[b],
         at[a].pc \in {"idle", "list"}, at'[a].pc = "enqueue", at'[a].n = n,
         Kind(n) = "message", turnId[n] = 0, excused' = excused \cup Raced(a, n)
  PROVE  CauseInv'
<1>1. /\ RaceExcused /\ NoteIsComing /\ TurnsTwice /\ ClickOnce
      /\ turned \subseteq Visible /\ Visible \subseteq Visible'
      /\ excused \subseteq excused' /\ decided \subseteq decided'
      /\ \A m \in Visible : inbox'[m] = inbox[m] /\ (turnId'[m] = 0 => turnId[m] = 0)
      /\ \A b \in Actors : at[b].pc \in {"enqueue", "mark"} => at[b].n \in Visible
  BY CauseFacts
<1>2. Kind(n)' = "message"
  BY <1>1 DEF Kind
<1>3. ASSUME NEW b \in Actors \ {a}, at[b].n = n, at[b].pc \in {"enqueue", "mark"}
      PROVE  n \in excused'
  BY <1>3 DEF Raced
<1>4. RaceExcused'
  <2> SUFFICES ASSUME NEW b \in Actors, NEW c \in Actors, b # c, Racing(b, c)',
                      Kind(at[b].n)' = "message"
               PROVE  at'[b].n \in excused'
    BY DEF RaceExcused
  <2>1. CASE b = a
    BY <2>1, <1>3 DEF Racing
  <2>2. CASE c = a
    BY <2>2, <1>3 DEF Racing
  <2>3. CASE b # a /\ c # a
    BY <2>3, <1>1 DEF RaceExcused, Racing, Kind
  <2>4. QED
    BY <2>1, <2>2, <2>3
<1>5. NoteIsComing'
  <2> SUFFICES ASSUME NEW m \in turned, Kind(m)' = "message", turnId'[m] = 0, m \notin excused'
               PROVE  \E b \in Actors : at'[b].pc = "mark" /\ at'[b].n = m
    BY DEF NoteIsComing
  <2>1. PICK b \in Actors : at[b].pc = "mark" /\ at[b].n = m
    BY <1>1 DEF NoteIsComing, Kind
  <2>2. at'[b] = at[b]
    BY <2>1
  <2>3. QED
    BY <2>1, <2>2
<1>6. TurnsTwice'
  <2> SUFFICES ASSUME NEW b \in Actors, at'[b].pc = "enqueue", at'[b].n \in turned,
                      Kind(at[b].n)' = "message"
               PROVE  at'[b].n \in excused'
    BY DEF TurnsTwice
  <2>1. CASE b # a
    BY <2>1, <1>1 DEF TurnsTwice, Kind
  <2>2. CASE b = a
    <3>1. n \in excused \/ \E c \in Actors : at[c].pc = "mark" /\ at[c].n = n
      BY <2>2, <1>1 DEF NoteIsComing
    <3>2. QED
      BY <2>2, <3>1, <1>1, <1>3
  <2>3. QED
    BY <2>1, <2>2
<1>7. ClickOnce'
  BY <1>1, <1>2 DEF ClickOnce, Kind
<1>8. QED
  BY <1>1, <1>4, <1>5, <1>6, <1>7 DEF CauseInv, TurnsAreRecords

LEMMA HandleCause ==
  ASSUME SkipInv, CauseInv, Grows, turned' = turned, NEW a \in Actors, NEW n \in Visible,
         at[a].pc \in {"idle", "list"}, Handle(a, n), draining' = draining
  PROVE  CauseInv'
<1>1. /\ \A b \in Actors \ {a} : at'[b] = at[b]
      /\ at'[a].n = n
      /\ \/ at'[a].pc \notin {"enqueue", "mark"}
         \/ turnId[n] = 0 /\ at'[a].pc = Enters(n) /\ Excuse(Raced(a, n))
  BY CauseFacts, HandleIs
<1>2. CASE at'[a].pc \notin {"enqueue", "mark"}
  BY <1>1, <1>2, CauseStays DEF Leaves
<1>3. CASE turnId[n] = 0 /\ at'[a].pc = Enters(n) /\ Excuse(Raced(a, n)) /\ Kind(n) = "message"
  <2>1. Enters(n) = "enqueue" /\ excused' = excused \cup Raced(a, n)
    BY <1>3 DEF Enters, Excuse, Raced
  <2>2. QED
    BY <1>1, <1>3, <2>1, BindCause
<1>4. CASE at'[a].pc = Enters(n) /\ Kind(n) # "message"
  BY <1>2, <1>4, CauseFacts, EntersIs
<1>5. QED
  BY <1>1, <1>2, <1>3, <1>4

\* A click that was decided by nobody has no Turn, and nobody carries it out.
LEMMA DecideCause ==
  ASSUME SkipInv, CauseInv, Grows, NEW a \in Actors, Decides(a)
  PROVE  CauseInv'
<1>1. /\ RaceExcused /\ NoteIsComing /\ TurnsTwice /\ ClickOnce
      /\ turned \subseteq Visible /\ Visible \subseteq Visible'
      /\ \A m \in Visible : inbox'[m] = inbox[m]
      /\ \A b \in Actors : at[b].pc \in {"decide", "enqueue", "mark"} => at[b].n \in Visible
  BY CauseFacts
<1>2. PICK n \in Visible : n = at[a].n /\ Kind(n) = "click"
  BY DEF SkipInv, Holds, Decides
<1>3. /\ at[a].pc = "decide" /\ n \notin decided /\ decided' = decided \cup {n}
      /\ turned' = turned /\ turnId' = turnId /\ excused' = excused
      /\ at'[a].pc = "enqueue" /\ at'[a].n = n
      /\ \A b \in Actors \ {a} : at'[b] = at[b]
  <2>1. at \in [Actors -> Record]
    BY TypeParts DEF SkipInv, PassesTyped
  <2>2. QED
    BY <1>2, <2>1 DEF Decides, Record
<1>4. Kind(n)' = "click" /\ n \notin turned
      /\ \A b \in Actors : at[b].n = n => at[b].pc # "enqueue"
  BY <1>1, <1>2, <1>3 DEF ClickOnce, Kind
<1>5. RaceExcused'
  <2> SUFFICES ASSUME NEW b \in Actors, NEW c \in Actors, b # c, Racing(b, c)',
                      Kind(at[b].n)' = "message"
               PROVE  at'[b].n \in excused'
    BY DEF RaceExcused
  <2>1. b # a /\ c # a
    BY <1>3, <1>4 DEF Racing, Kind
  <2>2. QED
    BY <1>1, <1>3, <2>1 DEF RaceExcused, Racing, Kind
<1>6. NoteIsComing'
  <2> SUFFICES ASSUME NEW m \in turned, Kind(m)' = "message", turnId[m] = 0, m \notin excused
               PROVE  \E b \in Actors : at'[b].pc = "mark" /\ at'[b].n = m
    BY <1>3 DEF NoteIsComing
  <2>1. PICK b \in Actors : at[b].pc = "mark" /\ at[b].n = m
    BY <1>1 DEF NoteIsComing, Kind
  <2>2. QED
    BY <1>3, <2>1
<1>7. TurnsTwice'
  <2> SUFFICES ASSUME NEW b \in Actors, at'[b].pc = "enqueue", at'[b].n \in turned,
                      Kind(at[b].n)' = "message"
               PROVE  at'[b].n \in excused
    BY <1>3 DEF TurnsTwice
  <2>1. b # a
    BY <1>3, <1>4 DEF Kind
  <2>2. QED
    BY <1>1, <1>3, <2>1 DEF TurnsTwice, Kind
<1>8. ClickOnce'
  <2>1. \A m \in turned : Kind(m)' = "click" => m \in decided'
    BY <1>1, <1>3 DEF ClickOnce, Kind
  <2> SUFFICES ASSUME NEW b \in Actors, at'[b].pc = "enqueue", Kind(at[b].n)' = "click"
               PROVE  /\ at'[b].n \in decided' /\ at'[b].n \notin turned
                      /\ \A c \in Actors \ {b} : at'[c].n = at'[b].n => at'[c].pc # "enqueue"
    BY <1>3, <2>1 DEF ClickOnce
  <2>2. CASE b = a
    BY <1>3, <1>4, <2>2
  <2>3. CASE b # a
    <3>1. /\ at[b].n \in decided /\ at[b].n \notin turned
          /\ \A c \in Actors \ {b} : at[c].n = at[b].n => at[c].pc # "enqueue"
      BY <1>1, <1>3, <2>3 DEF ClickOnce, Kind
    <3>2. QED
      BY <1>3, <2>3, <3>1
  <2>4. QED
    BY <2>2, <2>3
<1>9. QED
  BY <1>1, <1>3, <1>5, <1>6, <1>7, <1>8 DEF CauseInv, TurnsAreRecords

\* A run is committed: its handler goes on to the note, or throws and is excused.
LEMMA TurnCause ==
  ASSUME SkipInv, CauseInv, Grows, NEW a \in Actors, at[a].pc = "enqueue",
         turned' = turned \cup {at[a].n}, turnId' = turnId, decided' = decided,
         \A b \in Actors \ {a} : at'[b] = at[b],
         \/ at'[a].pc = "mark" /\ at'[a].n = at[a].n
         \/ at'[a].pc \notin {"enqueue", "mark"} /\ Excuse({at[a].n})
  PROVE  CauseInv'
<1>1. /\ RaceExcused /\ NoteIsComing /\ TurnsTwice /\ ClickOnce
      /\ turned \subseteq Visible /\ Visible \subseteq Visible' /\ excused \subseteq excused'
      /\ \A m \in Visible : inbox'[m] = inbox[m]
      /\ \A b \in Actors : at[b].pc \in {"enqueue", "mark"} => at[b].n \in Visible
  BY CauseFacts
<1>2. PICK n \in Visible : n = at[a].n
  BY <1>1
<1>3. ASSUME NEW b \in Actors, at'[b].pc = "enqueue" PROVE b # a /\ at'[b] = at[b]
  BY <1>3
<1>4. RaceExcused'
  <2> SUFFICES ASSUME NEW b \in Actors, NEW c \in Actors, b # c, Racing(b, c)',
                      Kind(at[b].n)' = "message"
               PROVE  at'[b].n \in excused'
    BY DEF RaceExcused
  <2>1. b # a /\ at'[b] = at[b]
    BY <1>3 DEF Racing
  <2>2. Racing(b, c)
    BY <2>1 DEF Racing
  <2>3. QED
    BY <1>1, <2>1, <2>2 DEF RaceExcused, Racing, Kind
<1>5. NoteIsComing'
  <2> SUFFICES ASSUME NEW m \in turned', Kind(m)' = "message", turnId[m] = 0, m \notin excused'
               PROVE  \E b \in Actors : at'[b].pc = "mark" /\ at'[b].n = m
    BY DEF NoteIsComing
  <2>1. CASE m = n
    BY <1>1, <1>2, <2>1 DEF Excuse, Kind
  <2>2. CASE m # n
    <3>1. PICK b \in Actors : at[b].pc = "mark" /\ at[b].n = m
      BY <1>1, <1>2, <2>2 DEF NoteIsComing, Kind
    <3>2. b # a
      BY <3>1
    <3>3. QED
      BY <3>1, <3>2
  <2>3. QED
    BY <2>1, <2>2
<1>6. TurnsTwice'
  <2> SUFFICES ASSUME NEW b \in Actors, at'[b].pc = "enqueue", at'[b].n \in turned',
                      Kind(at[b].n)' = "message"
               PROVE  at'[b].n \in excused'
    BY DEF TurnsTwice
  <2>1. b # a /\ at'[b] = at[b] /\ Kind(at[b].n) = "message"
    BY <1>1, <1>3 DEF Kind
  <2>2. CASE at[b].n \in turned
    BY <2>1, <2>2, <1>1 DEF TurnsTwice
  <2>3. CASE at[b].n = at[a].n
    BY <2>1, <2>3, <1>1 DEF RaceExcused, Racing
  <2>4. QED
    BY <2>1, <2>2, <2>3
<1>7. ClickOnce'
  <2>1. ASSUME NEW m \in turned', Kind(m)' = "click" PROVE m \in decided
    BY <1>1, <1>2, <2>1 DEF ClickOnce, Kind
  <2> SUFFICES ASSUME NEW b \in Actors, at'[b].pc = "enqueue", Kind(at[b].n)' = "click"
               PROVE  /\ at'[b].n \in decided /\ at'[b].n \notin turned'
                      /\ \A c \in Actors \ {b} : at'[c].n = at'[b].n => at'[c].pc # "enqueue"
    BY <2>1 DEF ClickOnce
  <2>2. b # a /\ at'[b] = at[b] /\ Kind(at[b].n) = "click" /\ at[b].pc = "enqueue"
    BY <1>1, <1>3 DEF Kind
  <2>3. /\ at[b].n \in decided /\ at[b].n \notin turned
        /\ \A c \in Actors \ {b} : at[c].n = at[b].n => at[c].pc # "enqueue"
    BY <1>1, <2>2 DEF ClickOnce
  <2>4. at[b].n # at[a].n
    BY <2>2, <2>3
  <2>5. QED
    BY <2>2, <2>3, <2>4, <1>3
<1>8. TurnsAreRecords'
  BY <1>1, <1>2 DEF TurnsAreRecords
<1>9. QED
  BY <1>4, <1>5, <1>6, <1>7, <1>8 DEF CauseInv

LEMMA EnqueueCause ==
  ASSUME SkipInv, CauseInv, Grows, NEW a \in Actors, Enqueue(a)
  PROVE  CauseInv'
<1>1. at \in [Actors -> Record]
  BY TypeParts DEF SkipInv, PassesTyped
<1>2. /\ at[a].pc = "enqueue" /\ turned' = turned \cup {at[a].n}
      /\ turnId' = turnId /\ decided' = decided
      /\ at' = [at EXCEPT ![a].pc = "mark", ![a].target = slot[Home[a]]]
  BY DEF Enqueue
<1>3. /\ at'[a].pc = "mark" /\ at'[a].n = at[a].n
      /\ \A b \in Actors \ {a} : at'[b] = at[b]
  BY <1>1, <1>2 DEF Record
<1>4. QED
  BY <1>2, <1>3, TurnCause

LEMMA FailsAside ==
  ASSUME TypeOK, NEW a \in Actors, Failed(a),
         at[a].pc \in {"classify", "decide", "enqueue", "advance"}
  PROVE  Leaves(a) /\ \A b \in Actors \ {a} : at'[b] = at[b]
<1>1. /\ \A b \in Actors \ {a} : at'[b] = at[b]
      /\ \/ at'[a] = Idle
         \/ at'[a] = [at[a] EXCEPT !.pc = "letter", !.target = 0]
  BY FailedIs
<1>2. at'[a].pc \in {"idle", "letter"}
  BY <1>1, SeqsAre, ConstantFacts DEF Record
<1>3. QED
  BY <1>1, <1>2 DEF Leaves

LEMMA EnqueueThrowsCause ==
  ASSUME SkipInv, CauseInv, Grows, NEW a \in Actors, EnqueueThrows(a)
  PROVE  CauseInv'
<1>1. /\ at[a].pc = "enqueue" /\ turnId' = turnId /\ decided' = decided
      /\ \/ turned' = turned
         \/ turned' = turned \cup {at[a].n} /\ Excuse({at[a].n})
      /\ Leaves(a) /\ \A b \in Actors \ {a} : at'[b] = at[b]
  <2>1. at[a].pc = "enqueue" /\ Failed(a) /\ TypeOK
    BY DEF EnqueueThrows, SinkRejects, SkipInv
  <2>2. QED
    BY <2>1, FailsAside DEF EnqueueThrows
<1>2. CASE turned' = turned
  BY <1>1, <1>2, CauseStays
<1>3. CASE turned' = turned \cup {at[a].n} /\ Excuse({at[a].n})
  BY <1>1, <1>3, TurnCause DEF Leaves
<1>4. QED
  BY <1>1, <1>2, <1>3

\* The note is written, or the record is excused.
LEMMA MarkCause ==
  ASSUME SkipInv, CauseInv, Grows, NEW a \in Actors, Mark(a)
  PROVE  CauseInv'
<1>1. TypeOK /\ Holds(a) /\ turnId \in [Seqs -> 0..MaxSeq]
  BY TypeParts DEF SkipInv, OutcomesTyped
<1>2. PICK n \in Seqs : n = at[a].n /\ n # 0
  BY <1>1, SeqsAre, ConstantFacts DEF Mark, Holds
<1>3. /\ turned' = turned /\ at[a].pc = "mark" /\ Handled(a, n) /\ draining' = draining
      /\ \/ Kind(n) = "message" => n \in excused'
         \/ n = at[a].target /\ (turnId[n] = 0 => turnId' = [turnId EXCEPT ![n] = n])
      /\ turnId[n] # 0 => turnId'[n] = turnId[n]
  BY <1>2 DEF Mark, SinkResolves, Excuse, Grows
<1>4. /\ \A b \in Actors \ {a} : at'[b] = at[b]
      /\ at'[a].pc \notin {"enqueue", "mark"}
  BY <1>1, <1>3, HandledIs
<1>5. Kind(n) = "message" => n \in excused' \/ turnId'[n] # 0
  BY <1>1, <1>2, <1>3
<1>6. QED
  BY <1>2, <1>3, <1>4, <1>5, CauseStays DEF Leaves

LEMMA CrashCause ==
  ASSUME SkipInv, CauseInv, Grows, NEW p \in Processes, Crash(p)
  PROVE  CauseInv'
<1>1. turned' = turned
  BY DEF Crash
<1>2. ASSUME NEW a \in Actors PROVE at'[a] = at[a] \/ Leaves(a)
  <2>1. CASE Home[a] = p
    <3>1. at'[a].pc = "idle"
      BY <2>1, ConstantFacts DEF Crash
    <3>2. at[a].pc = "mark" /\ Kind(at[a].n) = "message" => at[a].n \in excused'
      BY <2>1 DEF Crash, Excuse
    <3>3. QED
      BY <3>1, <3>2 DEF Leaves
  <2>2. CASE Home[a] # p
    BY <2>2 DEF Crash
  <2>3. QED
    BY <2>1, <2>2
<1>3. QED
  BY <1>1, <1>2, CauseStays

\* A handler that resolves without a Turn, or rejects without one, stays aside.
LEMMA UnturnedCause ==
  ASSUME SkipInv, CauseInv, Grows, NEW a \in Actors, turned' = turned,
         at[a].pc \in {"classify", "decide"}, SinkResolves(a) \/ SinkRejects(a)
  PROVE  CauseInv'
<1>1. TypeOK /\ at[a].n \in Seqs
  BY SeqsAre DEF SkipInv, Holds
<1>2. CASE SinkResolves(a)
  <2>1. /\ \A b \in Actors \ {a} : at'[b] = at[b]
        /\ at'[a].pc \notin {"enqueue", "mark"}
    BY <1>1, <1>2, HandledIs DEF SinkResolves
  <2>2. QED
    BY <2>1, CauseStays DEF Leaves
<1>3. CASE SinkRejects(a)
  BY <1>1, <1>3, FailsAside, CauseStays DEF SinkRejects
<1>4. QED
  BY <1>2, <1>3

LEMMA HandlesCause ==
  ASSUME SkipInv, CauseInv, Grows, NEW a \in Actors, Handles(a)
  PROVE  CauseInv'
<1>1. CASE Classify(a)
  BY <1>1, UnturnedCause DEF Classify
<1>2. CASE Decide(a)
  BY <1>2, DecideIs, UnturnedCause, DecideCause
<1>3. QED
  BY <1>1, <1>2, EnqueueCause, EnqueueThrowsCause, MarkCause DEF Handles

\* The other steps of an actor stay out of those two.
LEMMA AsideCause ==
  ASSUME SkipInv, CauseInv, Grows, NEW a \in Actors,
         \/ a \in Ticks /\ (\/ Tick(a) \/ PassThrows(a) \/ OtherPassThrows(a)
                            \/ Advance(a) \/ RecordLetter(a) \/ SkipRecord(a))
         \/ MarkRedelivered(a)
  PROVE  CauseInv'
<1>1. TypeOK /\ at \in [Actors -> Record]
  BY TypeParts DEF SkipInv, PassesTyped
<1>2. turned' = turned
  BY DEF Tick, PassThrows, OtherPassThrows, Advance, RecordLetter, SkipRecord, MarkRedelivered
<1> SUFFICES /\ \A b \in Actors \ {a} : at'[b] = at[b]
             /\ at'[a] = at[a] \/ Leaves(a)
  BY <1>2, CauseStays
<1>3. CASE a \in Ticks /\ Tick(a)
  BY <1>1, <1>3 DEF Tick, Record, Leaves
<1>4. CASE a \in Ticks /\ (PassThrows(a) \/ OtherPassThrows(a))
  BY <1>1, <1>4, ConstantFacts DEF PassThrows, OtherPassThrows, Ends, Leaves
<1>5. CASE a \in Ticks /\ Advance(a) /\ Failed(a)
  BY <1>1, <1>5, FailsAside DEF Advance
<1>6. CASE a \in Ticks /\ ((Advance(a) /\ PassRecord(a)) \/ SkipRecord(a))
  <2>1. /\ at[a].pc \in {"advance", "skip"}
        /\ at' = [at EXCEPT ![a].pc = "list"] \/ at' = [at EXCEPT ![a] = Idle]
    BY <1>6 DEF Advance, SkipRecord, PassRecord, Ends
  <2>2. QED
    BY <1>1, <2>1, ConstantFacts DEF Record, Leaves
<1>7. CASE a \in Ticks /\ RecordLetter(a)
  BY <1>1, <1>7 DEF RecordLetter, Record, Leaves
<1>8. CASE MarkRedelivered(a)
  BY <1>1, <1>8, ConstantFacts DEF MarkRedelivered, Leaves
<1>9. QED
  BY <1>3, <1>4, <1>5, <1>6, <1>7, <1>8 DEF Advance

LEMMA ListCause ==
  ASSUME SkipInv, CauseInv, Grows, NEW t \in Ticks, List(t)
  PROVE  CauseInv'
<1>1. /\ TypeOK /\ t \in Actors /\ at \in [Actors -> Record]
      /\ at[t].pc = "list" /\ turned' = turned
  BY TypeParts, ConstantFacts DEF SkipInv, PassesTyped, List
<1>2. CASE Unread(t) = {}
  <2>1. at' = [at EXCEPT ![t] = Idle]
    BY <1>2 DEF List, Ends
  <2>2. \A b \in Actors : at'[b] = at[b] \/ (b = t /\ at'[b].pc = "idle")
    BY <1>1, <2>1, ConstantFacts
  <2>3. QED
    BY <1>1, <2>2, CauseStays DEF Leaves
<1>3. CASE Unread(t) # {}
  <2>1. Unread(t) \in SUBSET Seqs /\ Unread(t) \subseteq Visible
    BY <1>1, SeqsAre DEF Unread
  <2>2. Oldest(Unread(t)) \in Visible
    BY <1>3, <2>1, OldestIs
  <2>3. PICK n \in Visible : Handle(t, n) /\ draining' = draining
    BY <1>3, <2>2 DEF List
  <2>4. QED
    BY <1>1, <2>3, HandleCause
<1>4. QED
  BY <1>2, <1>3

LEMMA CauseStep ==
  ASSUME SkipInv, CauseInv, Grows, [Next]_vars
  PROVE  CauseInv'
<1>1. TypeOK /\ Ticks \subseteq Actors /\ Admins \subseteq Actors
  BY ConstantFacts DEF SkipInv
<1>2. CASE \E t \in Ticks : Tick(t) \/ Goes(t) \/ PassThrows(t) \/ OtherPassThrows(t)
  BY <1>1, <1>2, ListCause, HandlesCause, AsideCause DEF Goes
<1>3. CASE \E z \in Admins : Handles(z) \/ MarkRedelivered(z)
  BY <1>1, <1>3, HandlesCause, AsideCause
<1>4. CASE \E z \in Admins, n \in Seqs : Replay(z, n)
  <2>1. PICK z \in Admins, n \in Seqs : Replay(z, n)
    BY <1>4
  <2>2. /\ turned' = turned /\ at[z].pc = "idle" /\ Handle(z, n) /\ draining' = draining
        /\ z \in Actors /\ n \in Visible
    BY <1>1, <2>1 DEF Replay, SkipInv, OnRecords
  <2>3. QED
    BY <2>2, HandleCause
<1>5. CASE \/ \E e \in Events : TakeNumber(e)
           \/ \E e \in Events, n \in Seqs : InsertRow(e, n)
           \/ \E p \in Processes : BackoffEnds(p)
           \/ UNCHANGED vars
  <2>1. at' = at /\ turned' = turned
    BY <1>5 DEF TakeNumber, InsertRow, BackoffEnds, vars
  <2>2. QED
    BY <2>1, CauseStays
<1>6. CASE \E p \in Processes : Crash(p)
  BY <1>6, CrashCause
<1>7. QED
  BY <1>2, <1>3, <1>4, <1>5, <1>6 DEF Next

\* The inductive invariant: what each actor holds, what lies below the cursor, and
\* what excuses a record.
THEOREM InvHolds == Spec => []Inv
<1>1. Inv /\ [Next]_vars => Inv'
  BY SkipStep, CauseStep DEF Inv
<1>2. QED
  BY InitInv, <1>1, PTL DEF Spec

\* Every variable has its type, and only a dead letter is marked redelivered.
THEOREM TypesHold == Spec => []TypeOK
<1>1. Inv => TypeOK
  BY DEF Inv, SkipInv
<1>2. QED
  BY <1>1, InvHolds, PTL

\* drainSubscriber and its cursor: whatever fails, crashes or overlaps, the cursor
\* passes no message addressed to the bridge that neither became a Turn nor was
\* dead-lettered, save those that came in late or carry the Turn of another.
THEOREM NothingSkippedHolds == Spec => []NothingSkipped
<1>1. Inv => NothingSkipped
  BY DEF Inv, SkipInv
<1>2. QED
  BY <1>1, InvHolds, PTL

\* The handler's check for a Turn that was noted, and the decision of a click: a
\* message is about to become a second Turn only after a race of two handlers, an
\* enqueue that committed and threw, or a note that was lost; a click never is.
THEOREM SecondTurnHasCauseHolds == Spec => []SecondTurnHasCause
<1>1. Inv => SecondTurnHasCause
  <2> SUFFICES ASSUME Inv, NEW a \in Actors, at[a].pc = "enqueue", at[a].n \in turned
               PROVE  Kind(at[a].n) = "message" /\ at[a].n \in excused
    BY DEF SecondTurnHasCause
  <2>1. Kind(at[a].n) \in {"message", "click"}
    BY DEF Inv, SkipInv, Holds
  <2>2. Kind(at[a].n) # "click"
    BY DEF Inv, CauseInv, ClickOnce
  <2>3. QED
    BY <2>1, <2>2 DEF Inv, CauseInv, TurnsTwice
<1>2. QED
  BY <1>1, InvHolds, PTL
=============================================================================
