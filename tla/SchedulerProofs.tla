-------------------------- MODULE SchedulerProofs --------------------------
(***************************************************************************)
(* The cron scheduler, for any number of processes and any bounds: a slot  *)
(* is claimed again only when something made it due again, and a claimed   *)
(* slot is not lost in silence.                                            *)
(*                                                                         *)
(* The guard of a claim compares columns, not the slot that is due. That   *)
(* this is enough needs a reason of its own for each kind of schedule: an  *)
(* interval always has its next slot in the row; a single shot has one     *)
(* slot, its first, that is due without anybody having made it due again.  *)
(***************************************************************************)
EXTENDS Scheduler, TLAPS

Attempt == [pc : Pcs, time : {None} \cup Times, slot : {None} \cup Slots,
            prior : {None} \cup Times, read : {None} \cup Times]

Edit == [enabled : BOOLEAN, next : {None} \cup Slots, last : {None} \cup Times,
         open : BOOLEAN]

\* A scheduler that has read a due slot is in a tick that is not before it.
SlotIsPast(t) ==
  /\ t.pc # "rest" => t.time \in Times
  /\ t.pc \notin {"rest", "due"} => t.slot \in Slots /\ t.slot <= t.time

Typed ==
  /\ now \in Times /\ kind \in Kinds /\ cron \in Row /\ edit \in Edit
  /\ fired \subseteq Slots /\ log \subseteq Slots /\ lost \subseteq Slots
  /\ claimed \subseteq Slots
  /\ lock \in Processes \cup {Nobody}
  /\ link \in [Processes -> {"none", "up", "dead"}]
  /\ at \in [Processes -> Attempt]
  /\ \A p \in Processes : SlotIsPast(at[p])
  /\ edits \in 0..MaxEdits /\ faults \in 0..MaxFaults
  /\ edit.open => edits < MaxEdits
  /\ \A p \in Processes : lock = p => link[p] = "up"

\* What is due was not claimed, or it was made due again.
DueIsNew == Recovered(cron) \in {None} \cup reopened \/ Recovered(cron) \notin claimed

\* An interval has its next slot in the row.
IntervalIsStored ==
  kind.every # 0 => cron.next # None /\ (edit.open => edit.next # None)

\* The slot of a single shot is its first until it is claimed.
ShotIsFirst ==
  kind.every = 0 =>
    \/ Recovered(cron) \in {None} \cup reopened
    \/ cron.last = None /\ Recovered(cron) = First

GuardIsFirst ==
  kind.every = 0 =>
    \A p \in Processes : at[p].pc = "guard" =>
      at[p].slot \in reopened \/ (at[p].slot = First /\ at[p].read = None)

CauseInv == DueIsNew /\ IntervalIsStored /\ ShotIsFirst /\ GuardIsFirst

Inv == Typed /\ NoSilentLoss /\ CauseInv

-----------------------------------------------------------------------------
(* Types.                                                                  *)

LEMMA Numbers ==
  /\ MaxTime \in Nat /\ MaxEdits \in Nat /\ MaxFaults \in Nat
  /\ First \in Times /\ Times \subseteq Slots /\ Slots \subseteq Nat \ {0}
  /\ \A k \in Kinds : k.every \in 0..MaxTime /\ k.direct \in BOOLEAN
  /\ \A t \in Times : \A k \in Kinds : t + k.every \in Slots
BY SchedulerAssumption DEF Times, Slots

\* Where the schedule stands is a slot, or nowhere.
LEMMA RecoveredTyped ==
  ASSUME NEW c \in Row, kind \in Kinds
  PROVE  Recovered(c) \in {None} \cup Slots
BY Numbers DEF Recovered, Row

\* Turning the schedule off does not move it.
LEMMA RecoveredReads ==
  ASSUME NEW c \in Row, NEW d \in Row, c.next = d.next, c.last = d.last
  PROVE  Recovered(c) = Recovered(d)
BY DEF Recovered

LEMMA Fields ==
  ASSUME NEW t \in Attempt
  PROVE  /\ t.pc \in Pcs /\ t.time \in {None} \cup Times /\ t.slot \in {None} \cup Slots
         /\ t.prior \in {None} \cup Times /\ t.read \in {None} \cup Times
BY DEF Attempt

LEMMA RestTyped == Rest \in Attempt /\ Rest.pc = "rest" /\ Rest.slot = None /\ SlotIsPast(Rest)
BY DEF Rest, Attempt, Pcs, SlotIsPast

LEMMA AtTyped ==
  ASSUME Typed, NEW p \in Processes, NEW t \in Attempt, SlotIsPast(t),
         at' = [at EXCEPT ![p] = t]
  PROVE  /\ at' \in [Processes -> Attempt]
         /\ \A q \in Processes : SlotIsPast(at'[q])
BY DEF Typed

\* What a scheduler does leaves it at a point of its tick, or at rest.
LEMMA StepOfAt ==
  ASSUME Typed, NEW p \in Processes, Tick(p) \/ Goes(p) \/ Crash(p)
  PROVE  \E t \in Attempt : SlotIsPast(t) /\ at' = [at EXCEPT ![p] = t]
<1> DEFINE a == at[p]
<1>1. /\ a \in Attempt /\ SlotIsPast(a) /\ now \in Times /\ cron \in Row
      /\ at \in [Processes -> Attempt]
  BY DEF Typed
<1>2. Recovered(cron) \in {None} \cup Slots /\ cron.last \in {None} \cup Times
  BY <1>1, RecoveredTyped DEF Typed, Row
<1>3. CASE at' = [at EXCEPT ![p] = Rest]
  BY <1>3, RestTyped
<1>4. CASE Tick(p)
  <2> DEFINE t == [Rest EXCEPT !.pc = "due", !.time = now]
  <2>1. at' = [at EXCEPT ![p] = t]
    BY <1>4 DEF Tick
  <2>2. t \in Attempt /\ SlotIsPast(t)
    BY <1>1 DEF Rest, Attempt, Pcs, SlotIsPast
  <2>3. QED
    BY <2>1, <2>2
<1>5. CASE ReadDue(p) /\ at' # [at EXCEPT ![p] = Rest]
  <2> DEFINE t == [a EXCEPT !.pc = "claim", !.slot = Recovered(cron), !.prior = cron.last]
  <2>1. /\ at' = [at EXCEPT ![p] = t] /\ a.pc = "due"
        /\ Recovered(cron) # None /\ Recovered(cron) <= a.time
    BY <1>1, <1>5 DEF ReadDue, TickEnds
  <2>2. t \in Attempt /\ SlotIsPast(t)
    BY <1>1, <1>2, <2>1 DEF Attempt, Pcs, SlotIsPast
  <2>3. QED
    BY <2>1, <2>2
<1>6. CASE ReadSlot(p) /\ at' # [at EXCEPT ![p] = Rest]
  <2> DEFINE t == [a EXCEPT !.pc = "guard", !.read = cron.last]
  <2>1. at' = [at EXCEPT ![p] = t] /\ a.pc = "claim"
    BY <1>1, <1>6 DEF ReadSlot, TickEnds
  <2>2. t \in Attempt /\ SlotIsPast(t)
    BY <1>1, <1>2, <2>1 DEF Attempt, Pcs, SlotIsPast
  <2>3. QED
    BY <2>1, <2>2
<1>7. ASSUME NEW x \in {"submit", "disable", "unclaim"}, at' = [at EXCEPT ![p].pc = x],
             a.pc \in {"guard", "submit"}
      PROVE  \E t \in Attempt : SlotIsPast(t) /\ at' = [at EXCEPT ![p] = t]
  <2> DEFINE t == [a EXCEPT !.pc = x]
  <2>1. at' = [at EXCEPT ![p] = t]
    BY <1>1, <1>7
  <2>2. t \in Attempt /\ SlotIsPast(t)
    BY <1>1, <1>7 DEF Attempt, Pcs, SlotIsPast
  <2>3. QED
    BY <2>1, <2>2
<1>8. CASE Claim(p) /\ at' # [at EXCEPT ![p] = Rest]
  BY <1>7, <1>8 DEF Claim, TickEnds
<1>9. CASE Submit(p) \/ Decline(p)
  BY <1>7, <1>9 DEF Submit, Decline
<1>10. CASE SubmitFails(p) /\ at' # [at EXCEPT ![p] = Rest]
  BY <1>7, <1>10 DEF SubmitFails, TickEnds
<1>11. CASE Refuse(p) \/ Unclaim(p) \/ UnclaimFails(p) \/ Disable(p) \/ DisableFails(p)
             \/ Crash(p)
  BY <1>3, <1>11 DEF Refuse, Unclaim, UnclaimFails, Disable, DisableFails, Crash, TickEnds
<1>12. QED
  BY <1>3, <1>4, <1>5, <1>6, <1>8, <1>9, <1>10, <1>11 DEF Goes

\* The lock's session lives.
LEMMA LockStep ==
  ASSUME Typed, [Next]_vars
  PROVE  /\ lock' \in Processes \cup {Nobody}
         /\ link' \in [Processes -> {"none", "up", "dead"}]
         /\ \A p \in Processes : lock' = p => link'[p] = "up"
<1> USE SchedulerAssumption DEF Typed
<1>1. ASSUME NEW p \in Processes, Tick(p)
      PROVE  /\ lock' \in Processes \cup {Nobody}
             /\ link' \in [Processes -> {"none", "up", "dead"}]
             /\ \A q \in Processes : lock' = q => link'[q] = "up"
  BY <1>1 DEF Tick
<1>2. ASSUME NEW p \in Processes, Goes(p)
      PROVE  link' = link /\ lock' \in {lock, Nobody}
  BY <1>2 DEF Goes, ReadDue, Refuse, ReadSlot, Claim, Submit, Decline, SubmitFails, Unclaim,
              UnclaimFails, Disable, DisableFails, TickEnds
<1>3. ASSUME NEW p \in Processes, ConnectionDrops(p) \/ Crash(p)
      PROVE  /\ lock' \in Processes \cup {Nobody}
             /\ link' \in [Processes -> {"none", "up", "dead"}]
             /\ \A q \in Processes : lock' = q => link'[q] = "up"
  BY <1>3 DEF ConnectionDrops, Crash
<1>4. ASSUME ClockTicks \/ EditReads \/ UNCHANGED vars
             \/ (\E e \in BOOLEAN, n \in {None} \cup Slots : EditWrites(e, n))
      PROVE  lock' = lock /\ link' = link
  BY <1>4 DEF ClockTicks, EditReads, EditWrites, vars
<1>5. QED
  BY <1>1, <1>2, <1>3, <1>4 DEF Next

\* A slot is one interval after a tick.
LEMMA AdvancedTyped ==
  ASSUME Typed, NEW p \in Processes, at[p].time \in Times
  PROVE  /\ Advanced(p) \in {None} \cup Slots
         /\ kind.every = 0 => Advanced(p) = None
         /\ kind.every # 0 => Advanced(p) \in Slots /\ Advanced(p) > at[p].time
BY Numbers DEF Typed, Advanced, Slots, Times, None

\* What the row becomes.
LEMMA RowStep ==
  ASSUME Typed, [Next]_vars
  PROVE  cron' \in Row /\ edit' \in Edit
<1> USE Numbers
<1>1. /\ cron \in Row /\ edit \in Edit /\ now \in Times /\ at \in [Processes -> Attempt]
      /\ kind \in Kinds
  BY DEF Typed
<1>2. /\ cron.enabled \in BOOLEAN /\ cron.next \in {None} \cup Slots
      /\ cron.last \in {None} \cup Times
  BY <1>1 DEF Row
<1>3. ASSUME NEW p \in Processes, Claim(p), cron' # cron
      PROVE  cron' \in Row
  <2>1. at[p].time \in Times
    BY <1>3 DEF Typed, SlotIsPast, Claim
  <2>2. Advanced(p) \in {None} \cup Slots
    BY <2>1, AdvancedTyped
  <2>3. cron' = [cron EXCEPT !.last = at[p].time, !.next = Advanced(p)]
    BY <1>3 DEF Claim
  <2>4. QED
    BY <1>1, <2>1, <2>2, <2>3 DEF Row
<1>4. ASSUME NEW p \in Processes, Unclaim(p), cron' # cron
      PROVE  cron' \in Row
  <2>1. at[p].prior \in {None} \cup Times /\ at[p].slot \in {None} \cup Slots
    BY <1>1, Fields
  <2>2. cron' = [cron EXCEPT !.last = at[p].prior, !.next = at[p].slot]
    BY <1>4 DEF Unclaim, GivesBack
  <2>3. QED
    BY <1>1, <2>1, <2>2 DEF Row
<1>5. ASSUME NEW p \in Processes, Refuse(p) \/ Disable(p)
      PROVE  cron' \in Row
  <2>1. PICK e \in BOOLEAN : cron' = [cron EXCEPT !.enabled = e]
    <3>1. CASE Refuse(p)
      BY <3>1 DEF Refuse
    <3>2. CASE Disable(p)
      <4>1. (cron.enabled /\ kind.every # 0) \in BOOLEAN
        OBVIOUS
      <4>2. cron' = [cron EXCEPT !.enabled = cron.enabled /\ kind.every # 0]
        BY <3>2, <1>1 DEF Disable, Row
      <4>3. QED
        BY <4>1, <4>2
    <3>3. QED
      BY <1>5, <3>1, <3>2
  <2>2. QED
    BY <1>1, <2>1 DEF Row
<1>6. ASSUME NEW e \in BOOLEAN, NEW n \in {None} \cup Slots, EditWrites(e, n)
      PROVE  cron' \in Row /\ edit' \in Edit
  <2>1. cron' = [cron EXCEPT !.enabled = e, !.next = n] /\ edit' = NoEdit
    BY <1>6 DEF EditWrites
  <2>2. QED
    BY <1>1, <2>1 DEF Row, Edit, NoEdit
<1>7. ASSUME EditReads
      PROVE  cron' = cron /\ edit' \in Edit
  BY <1>1, <1>2, <1>7 DEF EditReads, Edit, row
<1>8. ASSUME NEW p \in Processes, Tick(p) \/ Goes(p) \/ ConnectionDrops(p) \/ Crash(p)
      PROVE  edit' = edit
  BY <1>8 DEF Tick, Goes, ReadDue, Refuse, ReadSlot, Claim, Submit, Decline, SubmitFails,
              Unclaim, UnclaimFails, Disable, DisableFails, ConnectionDrops, Crash
<1>9. ASSUME NEW p \in Processes, Tick(p) \/ Goes(p) \/ ConnectionDrops(p) \/ Crash(p),
             ~Refuse(p), ~Claim(p), ~Unclaim(p), ~Disable(p)
      PROVE  cron' = cron
  BY <1>9 DEF Tick, Goes, ReadDue, ReadSlot, Submit, Decline, SubmitFails, UnclaimFails,
              DisableFails, ConnectionDrops, Crash, row
<1>10. ASSUME ClockTicks \/ UNCHANGED vars
       PROVE  cron' = cron /\ edit' = edit
  BY <1>10 DEF ClockTicks, vars, row
<1>11. QED
  BY <1>1, <1>3, <1>4, <1>5, <1>6, <1>7, <1>8, <1>9, <1>10 DEF Next

\* The other counters and sets.
LEMMA SetsStep ==
  ASSUME Typed, [Next]_vars
  PROVE  /\ now' \in Times /\ kind' = kind
         /\ fired' \subseteq Slots /\ log' \subseteq Slots /\ lost' \subseteq Slots
         /\ claimed' \subseteq Slots
         /\ edits' \in 0..MaxEdits /\ faults' \in 0..MaxFaults
         /\ edit'.open => edits' < MaxEdits
<1> USE Numbers
<1>1. ASSUME NEW p \in Processes, Goes(p) \/ Crash(p)
      PROVE  /\ fired' \subseteq Slots /\ log' \subseteq Slots /\ claimed' \subseteq Slots
             /\ lost' \subseteq Slots
  <2> DEFINE a == at[p]
  <2>1. SlotIsPast(a)
    BY DEF Typed
  <2>2. a.pc \in {"claim", "guard", "submit", "unclaim", "disable"} => a.slot \in Slots
    BY <2>1 DEF SlotIsPast
  <2>3. Recovered(cron) \in {None} \cup Slots
    BY RecoveredTyped DEF Typed
  <2>4. CASE Goes(p)
    <3>1. fired' \subseteq Slots /\ log' \subseteq Slots /\ claimed' \subseteq Slots
      BY <2>2, <2>4 DEF Typed, Goes, ReadDue, Refuse, ReadSlot, Claim, Submit, Decline,
         SubmitFails, Unclaim, UnclaimFails, Disable, DisableFails, outcome, history
    <3>2. lost' \subseteq Slots
      BY <2>2, <2>3, <2>4 DEF Typed, Goes, ReadDue, Refuse, ReadSlot, Claim, Submit, Decline,
         SubmitFails, Unclaim, UnclaimFails, Disable, DisableFails, history, GivesBack
    <3>3. QED
      BY <3>1, <3>2
  <2>5. CASE Crash(p)
    BY <2>2, <2>5 DEF Typed, Crash, outcome
  <2>6. QED
    BY <1>1, <2>4, <2>5
<1>2. ASSUME NEW p \in Processes, Tick(p) \/ Goes(p) \/ ConnectionDrops(p) \/ Crash(p)
      PROVE  /\ now' = now /\ kind' = kind /\ edits' = edits /\ edit' = edit
             /\ faults' = faults \/ Fault
  BY <1>2 DEF Tick, Goes, ReadDue, Refuse, ReadSlot, Claim, Submit, Decline, SubmitFails,
              Unclaim, UnclaimFails, Disable, DisableFails, ConnectionDrops, Crash, row
<1>3. ASSUME NEW p \in Processes, Tick(p) \/ ConnectionDrops(p)
      PROVE  fired' = fired /\ log' = log /\ claimed' = claimed /\ lost' = lost
  BY <1>3 DEF Tick, ConnectionDrops, outcome, history
<1>4. ASSUME ClockTicks \/ EditReads \/ UNCHANGED vars
             \/ (\E e \in BOOLEAN, n \in {None} \cup Slots : EditWrites(e, n))
      PROVE  /\ fired' = fired /\ log' = log /\ claimed' = claimed /\ lost' = lost
             /\ kind' = kind /\ faults' = faults
             /\ now' = now \/ (now < MaxTime /\ now' = now + 1)
  BY <1>4 DEF ClockTicks, EditReads, EditWrites, vars, outcome, history, row
<1>5. ASSUME ClockTicks \/ UNCHANGED vars
      PROVE  edits' = edits /\ edit' = edit
  BY <1>5 DEF ClockTicks, vars
<1>6. ASSUME EditReads
      PROVE  edits' = edits /\ edits < MaxEdits
  BY <1>6 DEF EditReads
<1>7. ASSUME NEW e \in BOOLEAN, NEW n \in {None} \cup Slots, EditWrites(e, n)
      PROVE  edit.open /\ edits' = edits + 1 /\ ~edit'.open
  BY <1>7 DEF EditWrites, NoEdit
<1>8. /\ now' \in Times /\ kind' = kind
      /\ fired' \subseteq Slots /\ log' \subseteq Slots /\ lost' \subseteq Slots
      /\ claimed' \subseteq Slots
  <2>1. now' \in Times /\ kind' = kind
    <3>1. now' = now \/ (now < MaxTime /\ now' = now + 1)
      BY <1>2, <1>4 DEF Next
    <3>2. now' \in Times
      BY <3>1 DEF Typed, Times
    <3>3. kind' = kind
      BY <1>2, <1>4 DEF Next
    <3>4. QED
      BY <3>2, <3>3
  <2>2. /\ fired' \subseteq Slots /\ log' \subseteq Slots /\ lost' \subseteq Slots
        /\ claimed' \subseteq Slots
    <3>1. CASE \E p \in Processes : Tick(p) \/ Goes(p) \/ ConnectionDrops(p) \/ Crash(p)
      BY <1>1, <1>3, <3>1 DEF Typed
    <3>2. CASE ~\E p \in Processes : Tick(p) \/ Goes(p) \/ ConnectionDrops(p) \/ Crash(p)
      BY <1>4, <3>2 DEF Typed, Next
    <3>3. QED
      BY <3>1, <3>2
  <2>3. QED
    BY <2>1, <2>2
<1>9. edits' \in 0..MaxEdits /\ (edit'.open => edits' < MaxEdits)
  BY <1>2, <1>5, <1>6, <1>7 DEF Typed, Next
<1>10. Fault => faults' \in 0..MaxFaults
  BY DEF Typed, Fault
<1>11. faults' \in 0..MaxFaults
  BY <1>2, <1>4, <1>10 DEF Typed, Next
<1>12. QED
  BY <1>8, <1>9, <1>11

LEMMA TypedStep == Typed /\ [Next]_vars => Typed'
<1> SUFFICES ASSUME Typed, [Next]_vars PROVE Typed'
  OBVIOUS
<1>1. at' \in [Processes -> Attempt] /\ \A p \in Processes : SlotIsPast(at'[p])
  <2>1. ASSUME NEW p \in Processes, Tick(p) \/ Goes(p) \/ Crash(p)
        PROVE  at' \in [Processes -> Attempt] /\ \A q \in Processes : SlotIsPast(at'[q])
    BY <2>1, StepOfAt, AtTyped
  <2>2. ASSUME ClockTicks \/ EditReads \/ UNCHANGED vars
               \/ (\E p \in Processes : ConnectionDrops(p))
               \/ (\E e \in BOOLEAN, n \in {None} \cup Slots : EditWrites(e, n))
        PROVE  at' = at
    BY <2>2 DEF ClockTicks, EditReads, EditWrites, vars, ConnectionDrops
  <2>3. QED
    BY <2>1, <2>2 DEF Typed, Next
<1>2. cron' \in Row /\ edit' \in Edit
  BY RowStep
<1>3. /\ now' \in Times /\ kind' \in Kinds
      /\ fired' \subseteq Slots /\ log' \subseteq Slots /\ lost' \subseteq Slots
      /\ claimed' \subseteq Slots
      /\ edits' \in 0..MaxEdits /\ faults' \in 0..MaxFaults
      /\ edit'.open => edits' < MaxEdits
  BY SetsStep DEF Typed
<1>4. /\ lock' \in Processes \cup {Nobody}
      /\ link' \in [Processes -> {"none", "up", "dead"}]
      /\ \A p \in Processes : lock' = p => link'[p] = "up"
  BY LockStep
<1>5. QED
  BY <1>1, <1>2, <1>3, <1>4 DEF Typed

-----------------------------------------------------------------------------
(* Claimed slots.                                                          *)

\* A slot leaves the hands of a scheduler with an outcome, and enters them when
\* it is claimed.
LEMMA Handover ==
  ASSUME Typed, NEW p \in Processes, Tick(p) \/ Goes(p) \/ Crash(p)
  PROVE  /\ at[p].pc \in {"submit", "unclaim"} =>
              \/ at[p].slot \in fired' \cup log' \cup lost'
              \/ at'[p].slot = at[p].slot /\ at'[p].pc \in {"submit", "unclaim"}
         /\ \/ claimed' = claimed
            \/ /\ claimed' = claimed \cup {at[p].slot}
               /\ at'[p].slot = at[p].slot /\ at'[p].pc = "submit"
         /\ \A q \in Processes \ {p} : at'[q] = at[q]
<1>1. at \in [Processes -> Attempt] /\ at[p] \in Attempt
  BY DEF Typed
<1>2. ASSUME NEW x, at' = [at EXCEPT ![p].pc = x]
      PROVE  at'[p].slot = at[p].slot /\ at'[p].pc = x
  <2>1. at'[p] = [at[p] EXCEPT !.pc = x]
    BY <1>1, <1>2
  <2>2. QED
    BY <1>1, <2>1 DEF Attempt
<1>3. \A q \in Processes \ {p} : at'[q] = at[q]
  BY StepOfAt, <1>1
<1>4. CASE Tick(p)
  BY <1>3, <1>4 DEF Tick, history
<1>5. CASE Crash(p)
  BY <1>3, <1>5 DEF Crash
<1>6. CASE ReadDue(p) \/ Refuse(p) \/ ReadSlot(p) \/ Disable(p) \/ DisableFails(p)
  BY <1>3, <1>6 DEF ReadDue, Refuse, ReadSlot, Disable, DisableFails, history
<1>7. CASE Claim(p)
  BY <1>2, <1>3, <1>7 DEF Claim
<1>8. CASE Submit(p) \/ Decline(p) \/ UnclaimFails(p) \/ Unclaim(p)
  <2>1. CASE Submit(p)
    BY <1>3, <2>1 DEF Submit, history
  <2>2. CASE Decline(p)
    BY <1>3, <2>2 DEF Decline, history
  <2>3. CASE UnclaimFails(p)
    BY <1>3, <2>3 DEF UnclaimFails
  <2>4. CASE Unclaim(p)
    BY <1>3, <2>4 DEF Unclaim
  <2>5. QED
    BY <1>8, <2>1, <2>2, <2>3, <2>4
<1>9. CASE SubmitFails(p)
  BY <1>2, <1>3, <1>9 DEF SubmitFails
<1>10. QED
  BY <1>4, <1>5, <1>6, <1>7, <1>8, <1>9 DEF Goes

\* Outcomes are never taken back.
LEMMA OutcomesGrow ==
  ASSUME [Next]_vars
  PROVE  fired \subseteq fired' /\ log \subseteq log' /\ lost \subseteq lost'
         /\ reopened \subseteq reopened'
<1>1. ASSUME NEW p \in Processes, Tick(p) \/ Goes(p) \/ ConnectionDrops(p) \/ Crash(p)
      PROVE  fired \subseteq fired' /\ log \subseteq log'
  BY <1>1 DEF Tick, Goes, ReadDue, Refuse, ReadSlot, Claim, Submit, Decline, SubmitFails,
              Unclaim, UnclaimFails, Disable, DisableFails, ConnectionDrops, Crash, outcome
<1>2. ASSUME NEW p \in Processes, Tick(p) \/ Goes(p) \/ ConnectionDrops(p) \/ Crash(p)
      PROVE  lost \subseteq lost' /\ reopened \subseteq reopened'
  BY <1>2 DEF Tick, Goes, ReadDue, Refuse, ReadSlot, Claim, Submit, Decline, SubmitFails,
              Unclaim, UnclaimFails, Disable, DisableFails, ConnectionDrops, Crash, history,
              GivesBack
<1>3. ASSUME ClockTicks \/ EditReads \/ UNCHANGED vars
             \/ (\E e \in BOOLEAN, n \in {None} \cup Slots : EditWrites(e, n))
      PROVE  fired' = fired /\ log' = log /\ lost' = lost /\ reopened \subseteq reopened'
  BY <1>3 DEF ClockTicks, EditReads, EditWrites, vars, outcome, history
<1>4. QED
  BY <1>1, <1>2, <1>3 DEF Next

LEMMA NoSilentLossStep == Typed /\ NoSilentLoss /\ [Next]_vars => NoSilentLoss'
<1> SUFFICES ASSUME Typed, NoSilentLoss, [Next]_vars, NEW s \in claimed'
             PROVE  s \in fired' \cup log' \cup lost' \/ InProgress(s)'
  BY DEF NoSilentLoss
<1>1. ASSUME NEW p \in Processes, Tick(p) \/ Goes(p) \/ Crash(p)
      PROVE  s \in fired' \cup log' \cup lost' \/ InProgress(s)'
  <2>1. CASE s \in claimed
    BY <1>1, <2>1, Handover, OutcomesGrow DEF NoSilentLoss, InProgress
  <2>2. CASE s \notin claimed
    BY <1>1, <2>2, Handover DEF InProgress
  <2>3. QED
    BY <2>1, <2>2
<1>2. ASSUME ClockTicks \/ EditReads \/ UNCHANGED vars
             \/ (\E p \in Processes : ConnectionDrops(p))
             \/ (\E e \in BOOLEAN, n \in {None} \cup Slots : EditWrites(e, n))
      PROVE  at' = at /\ claimed' = claimed
  BY <1>2 DEF ClockTicks, EditReads, EditWrites, vars, history, ConnectionDrops
<1>3. QED
  BY <1>1, <1>2, OutcomesGrow DEF Next, NoSilentLoss, InProgress

-----------------------------------------------------------------------------
(* What is due was not claimed, unless it was made due again.              *)

\* The cases in which a step leaves the row, the claims and the guards alone.
LEMMA CauseKept ==
  ASSUME Typed, CauseInv, [Next]_vars,
         cron'.next = cron.next, cron'.last = cron.last, claimed' = claimed,
         edit'.open => edit'.next = cron.next \/ edit' = edit,
         \A p \in Processes : at'[p].pc = "guard" => at'[p] = at[p]
  PROVE  CauseInv'
<1>1. kind' = kind /\ cron \in Row /\ cron' \in Row /\ reopened \subseteq reopened'
  BY SetsStep, RowStep, OutcomesGrow DEF Typed
<1>2. Recovered(cron)' = Recovered(cron)
  BY <1>1 DEF Recovered
<1>3. DueIsNew' /\ ShotIsFirst'
  BY <1>1, <1>2 DEF CauseInv, DueIsNew, ShotIsFirst
<1>4. IntervalIsStored'
  BY <1>1 DEF CauseInv, IntervalIsStored
<1>5. GuardIsFirst'
  BY <1>1 DEF CauseInv, GuardIsFirst
<1>6. QED
  BY <1>3, <1>4, <1>5 DEF CauseInv

\* A claim finds the slot it was given due.
LEMMA ClaimIsNew ==
  ASSUME Typed, CauseInv, NEW p \in Processes, at[p].pc = "guard", ClaimGuard(p),
         at[p].slot \in claimed
  PROVE  at[p].slot \in reopened
<1>1. at[p].slot \in Slots /\ cron \in Row /\ None \notin Slots
  BY Numbers DEF Typed, SlotIsPast, None
<1>2. CASE kind.every # 0
  BY <1>1, <1>2 DEF CauseInv, IntervalIsStored, ClaimGuard, DueIsNew, Recovered
<1>3. CASE kind.every = 0
  BY <1>1, <1>3 DEF CauseInv, GuardIsFirst, ClaimGuard, DueIsNew, Recovered
<1>4. QED
  BY <1>2, <1>3

LEMMA CauseClaim ==
  ASSUME Typed, CauseInv, [Next]_vars, NEW p \in Processes, Claim(p)
  PROVE  CauseInv'
<1>1. /\ kind' = kind /\ cron \in Row /\ reopened \subseteq reopened'
      /\ at \in [Processes -> Attempt] /\ edit' = edit
      /\ None \notin Slots
  BY SetsStep, OutcomesGrow, Numbers DEF Typed, Claim, None
<1>2. \A q \in Processes : at'[q].pc = "guard" => at'[q] = at[q]
  <2>1. \A q \in Processes \ {p} : at'[q] = at[q]
    BY Handover DEF Goes
  <2>2. at'[p].pc # "guard"
    <3>1. CASE at' = [at EXCEPT ![p] = Rest]
      BY <1>1, <3>1 DEF Rest
    <3>2. CASE at' = [at EXCEPT ![p].pc = "submit"]
      <4>1. at'[p] = [at[p] EXCEPT !.pc = "submit"]
        BY <1>1, <3>2
      <4>2. QED
        BY <1>1, <4>1 DEF Attempt
    <3>3. QED
      BY <3>1, <3>2 DEF Claim, TickEnds
  <2>3. QED
    BY <2>1, <2>2
<1>3. CASE ~ClaimGuard(p)
  BY <1>1, <1>2, <1>3, CauseKept DEF Claim
<1>4. CASE ClaimGuard(p)
  <2> DEFINE A == Advanced(p)
             s == at[p].slot
  <2>1. at[p].time \in Times /\ s \in Slots /\ s <= at[p].time
    BY <1>4 DEF Typed, SlotIsPast, Claim
  <2>2. /\ A \in {None} \cup Slots
        /\ kind.every = 0 => A = None
        /\ kind.every # 0 => A \in Slots /\ A > at[p].time
    BY <2>1, AdvancedTyped
  <2>3. /\ cron' = [cron EXCEPT !.last = at[p].time, !.next = A]
        /\ claimed' = claimed \cup {s} /\ reopened' = reopened \cup (claimed \cap {A})
    BY <1>4 DEF Claim
  <2>4. cron'.next = A /\ cron'.last = at[p].time
    BY <1>1, <2>3 DEF Row
  <2> HIDE DEF A
  <2>5. Recovered(cron)' = A
    <3>1. kind.every \in Nat /\ None \notin Times
      BY Numbers DEF Typed, Slots, Times, None
    <3>2. QED
      BY <1>1, <2>1, <2>2, <2>4, <3>1 DEF Recovered
  <2>6. DueIsNew'
    <3>1. CASE A = None
      BY <2>5, <3>1 DEF DueIsNew
    <3>2. CASE A # None
      <4>1. A # s
        <5>1. A > at[p].time
          BY <2>2, <3>2
        <5>2. A \in Nat /\ s \in Nat /\ at[p].time \in Nat /\ s <= at[p].time
          BY <2>1, <2>2, <3>2, Numbers
        <5>3. QED
          BY <5>1, <5>2
      <4>2. QED
        BY <2>3, <2>5, <4>1 DEF DueIsNew
    <3>3. QED
      BY <3>1, <3>2
  <2>7. IntervalIsStored'
    BY <1>1, <2>2, <2>4 DEF CauseInv, IntervalIsStored
  <2>8. ShotIsFirst'
    BY <1>1, <2>2, <2>5 DEF ShotIsFirst
  <2>9. GuardIsFirst'
    BY <1>1, <1>2 DEF CauseInv, GuardIsFirst
  <2>10. QED
    BY <2>6, <2>7, <2>8, <2>9 DEF CauseInv
<1>5. QED
  BY <1>3, <1>4

LEMMA CauseGivesBack ==
  ASSUME Typed, CauseInv, [Next]_vars, NEW p \in Processes, Unclaim(p)
  PROVE  CauseInv'
<1>1. /\ kind' = kind /\ cron \in Row /\ reopened \subseteq reopened'
      /\ at \in [Processes -> Attempt] /\ edit' = edit /\ claimed' = claimed
      /\ None \notin Slots /\ at[p].slot \in Slots
  BY SetsStep, OutcomesGrow, Numbers DEF Typed, Unclaim, None, SlotIsPast
<1>2. \A q \in Processes : at'[q].pc = "guard" => at'[q] = at[q]
  BY <1>1 DEF Unclaim, TickEnds, Rest
<1>3. CASE cron' = cron
  BY <1>1, <1>2, <1>3, CauseKept
<1>4. CASE cron' # cron
  <2>1. /\ cron' = [cron EXCEPT !.last = at[p].prior, !.next = at[p].slot]
        /\ at[p].slot \in reopened'
    BY <1>4 DEF Unclaim, GivesBack
  <2>2. cron'.next = at[p].slot
    BY <1>1, <2>1 DEF Row
  <2>3. Recovered(cron)' = at[p].slot
    BY <1>1, <2>2 DEF Recovered
  <2>4. DueIsNew' /\ ShotIsFirst'
    BY <2>1, <2>3 DEF DueIsNew, ShotIsFirst
  <2>5. IntervalIsStored'
    BY <1>1, <2>2 DEF CauseInv, IntervalIsStored
  <2>6. GuardIsFirst'
    BY <1>1, <1>2 DEF CauseInv, GuardIsFirst
  <2>7. QED
    BY <2>4, <2>5, <2>6 DEF CauseInv
<1>5. QED
  BY <1>3, <1>4

LEMMA CauseEdit ==
  ASSUME Typed, CauseInv, [Next]_vars,
         NEW e \in BOOLEAN, NEW n \in {None} \cup Slots, EditWrites(e, n)
  PROVE  CauseInv'
<1> DEFINE new == [cron EXCEPT !.enabled = e, !.next = n]
<1>1. /\ kind' = kind /\ cron \in Row /\ reopened \subseteq reopened'
      /\ at' = at /\ claimed' = claimed /\ now \in Times /\ None \notin Times
  BY SetsStep, OutcomesGrow, Numbers DEF Typed, EditWrites, None, Times
<1>2. /\ cron' = new /\ edit.open /\ ~edit'.open
      /\ n = edit.next \/ n \in now..MaxTime
      /\ reopened' = reopened \cup ({Recovered(new)} \ {Recovered(cron)})
  BY DEF EditWrites, NoEdit
<1>3. cron'.next = n /\ cron'.last = cron.last
  BY <1>1, <1>2 DEF Row
<1>4. Recovered(cron)' = Recovered(new)
  BY <1>1, <1>2 DEF Recovered
<1> HIDE DEF new
<1>5. Recovered(cron)' \in reopened' \/ Recovered(cron)' = Recovered(cron)
  BY <1>2, <1>4
<1>6. DueIsNew'
  BY <1>1, <1>5 DEF CauseInv, DueIsNew
<1>7. ShotIsFirst'
  BY <1>1, <1>3, <1>5 DEF CauseInv, ShotIsFirst
<1>8. IntervalIsStored'
  <2>1. SUFFICES ASSUME kind.every # 0 PROVE n # None
    BY <1>1, <1>2, <1>3 DEF IntervalIsStored
  <2>2. edit.next # None
    BY <1>2, <2>1 DEF CauseInv, IntervalIsStored
  <2>3. n \in now..MaxTime => n # None
    BY <1>1, Numbers DEF Times, None
  <2>4. QED
    BY <1>2, <2>2, <2>3
<1>9. GuardIsFirst'
  BY <1>1 DEF CauseInv, GuardIsFirst
<1>10. QED
  BY <1>6, <1>7, <1>8, <1>9 DEF CauseInv

\* The slot that a scheduler is about to claim is the one that is due.
LEMMA CauseReadSlot ==
  ASSUME Typed, CauseInv, [Next]_vars, NEW p \in Processes, ReadSlot(p)
  PROVE  CauseInv'
<1>1. /\ kind' = kind /\ cron' = cron /\ reopened' = reopened
      /\ at \in [Processes -> Attempt] /\ edit' = edit /\ claimed' = claimed
      /\ None \notin Slots /\ at[p].slot \in Slots
  BY SetsStep, Numbers DEF Typed, ReadSlot, None, SlotIsPast, row, history
<1>2. DueIsNew' /\ ShotIsFirst' /\ IntervalIsStored'
  BY <1>1 DEF CauseInv, DueIsNew, ShotIsFirst, IntervalIsStored, Recovered
<1>3. \A q \in Processes \ {p} : at'[q] = at[q]
  BY Handover DEF Goes
<1>4. CASE at' = [at EXCEPT ![p] = Rest]
  BY <1>1, <1>2, <1>4 DEF CauseInv, GuardIsFirst, Rest
<1>5. CASE at' # [at EXCEPT ![p] = Rest]
  <2>1. /\ at' = [at EXCEPT ![p].pc = "guard", ![p].read = cron.last]
        /\ Recovered(cron) = at[p].slot
    BY <1>5 DEF ReadSlot, TickEnds
  <2>2. at'[p] = [at[p] EXCEPT !.pc = "guard", !.read = cron.last]
    BY <1>1, <2>1
  <2>3. at'[p].slot = at[p].slot /\ at'[p].read = cron.last
    BY <1>1, <2>2 DEF Attempt
  <2>4. kind.every = 0 => at[p].slot \in reopened
                          \/ (at[p].slot = First /\ cron.last = None)
    BY <1>1, <2>1 DEF CauseInv, ShotIsFirst
  <2>5. GuardIsFirst'
    BY <1>1, <1>3, <2>3, <2>4 DEF CauseInv, GuardIsFirst
  <2>6. QED
    BY <1>2, <2>5 DEF CauseInv
<1>6. QED
  BY <1>4, <1>5

LEMMA CauseStep == Typed /\ CauseInv /\ [Next]_vars => CauseInv'
<1> SUFFICES ASSUME Typed, CauseInv, [Next]_vars PROVE CauseInv'
  OBVIOUS
<1>1. cron \in Row /\ at \in [Processes -> Attempt]
  BY DEF Typed
<1>2. ASSUME NEW p \in Processes, Refuse(p) \/ Disable(p)
      PROVE  CauseInv'
  <2>1. cron'.next = cron.next /\ cron'.last = cron.last
    BY <1>1, <1>2 DEF Refuse, Disable, Row
  <2>2. claimed' = claimed /\ edit' = edit
    BY <1>2 DEF Refuse, Disable, history
  <2>3. \A q \in Processes : at'[q].pc = "guard" => at'[q] = at[q]
    BY <1>1, <1>2 DEF Refuse, Disable, TickEnds, Rest
  <2>4. QED
    BY <2>1, <2>2, <2>3, CauseKept
<1>3. ASSUME NEW p \in Processes, Tick(p)
      PROVE  CauseInv'
  <2>1. at'[p] = [Rest EXCEPT !.pc = "due", !.time = now]
    BY <1>1, <1>3 DEF Tick
  <2>2. at'[p].pc # "guard"
    BY <2>1 DEF Rest
  <2>3. \A q \in Processes : at'[q].pc = "guard" => at'[q] = at[q]
    BY <1>1, <1>3, <2>2 DEF Tick
  <2>4. QED
    BY <1>3, <2>3, CauseKept DEF Tick, row, history
<1>4. ASSUME NEW p \in Processes, ReadDue(p)
      PROVE  CauseInv'
  <2>1. at'[p].pc # "guard"
    <3>1. CASE at' = [at EXCEPT ![p] = Rest]
      BY <1>1, <3>1 DEF Rest
    <3>2. CASE at' # [at EXCEPT ![p] = Rest]
      <4>1. at'[p] = [at[p] EXCEPT !.pc = "claim", !.slot = Recovered(cron), !.prior = cron.last]
        BY <1>1, <1>4, <3>2 DEF ReadDue, TickEnds
      <4>2. QED
        BY <1>1, <4>1 DEF Attempt
    <3>3. QED
      BY <3>1, <3>2
  <2>2. \A q \in Processes : at'[q].pc = "guard" => at'[q] = at[q]
    BY <1>4, <2>1, Handover DEF Goes
  <2>3. QED
    BY <1>4, <2>2, CauseKept DEF ReadDue, row, history
<1>5. ASSUME NEW p \in Processes,
             Submit(p) \/ Decline(p) \/ SubmitFails(p) \/ UnclaimFails(p) \/ DisableFails(p)
             \/ ConnectionDrops(p) \/ Crash(p)
      PROVE  CauseInv'
  <2>1. cron' = cron /\ claimed' = claimed /\ edit' = edit
    BY <1>5 DEF Submit, Decline, SubmitFails, UnclaimFails, DisableFails, ConnectionDrops,
                Crash, row, history
  <2>2. ASSUME NEW x \in {"disable", "unclaim"}, at' = [at EXCEPT ![p].pc = x]
        PROVE  \A q \in Processes : at'[q].pc = "guard" => at'[q] = at[q]
    <3>1. at'[p] = [at[p] EXCEPT !.pc = x]
      BY <1>1, <2>2
    <3>2. at'[p].pc # "guard"
      BY <1>1, <3>1 DEF Attempt
    <3>3. QED
      BY <1>1, <2>2, <3>2
  <2>3. CASE at' = [at EXCEPT ![p] = Rest] \/ at' = at
    <3>1. \A q \in Processes : at'[q].pc = "guard" => at'[q] = at[q]
      BY <1>1, <2>3 DEF Rest
    <3>2. QED
      BY <2>1, <3>1, CauseKept
  <2>4. CASE ~(at' = [at EXCEPT ![p] = Rest] \/ at' = at)
    <3>1. \E x \in {"disable", "unclaim"} : at' = [at EXCEPT ![p].pc = x]
      BY <1>5, <2>4 DEF Submit, Decline, SubmitFails, UnclaimFails, DisableFails,
                        ConnectionDrops, Crash, TickEnds
    <3>2. QED
      BY <2>1, <2>2, <3>1, CauseKept
  <2>5. QED
    BY <2>3, <2>4
<1>6. ASSUME ClockTicks \/ EditReads \/ UNCHANGED vars
      PROVE  CauseInv'
  <2>1. cron' = cron /\ claimed' = claimed /\ at' = at
    BY <1>6 DEF ClockTicks, EditReads, vars, row, history
  <2>2. edit'.open => edit'.next = cron.next \/ edit' = edit
    BY <1>6 DEF ClockTicks, EditReads, vars
  <2>3. QED
    BY <2>1, <2>2, CauseKept
<1>7. QED
  BY <1>2, <1>3, <1>4, <1>5, <1>6, CauseClaim, CauseGivesBack, CauseReadSlot, CauseEdit
     DEF Next, Goes

-----------------------------------------------------------------------------
(* The theorems.                                                           *)

LEMMA InitInv == Init => Inv
<1> SUFFICES ASSUME Init PROVE Inv
  OBVIOUS
<1> USE Numbers DEF Init
<1>1. kind.every \in Nat /\ First \in Slots /\ None \notin Slots
  BY DEF Slots, None
<1>2. Typed
  <2>1. now \in Times /\ kind \in Kinds
    BY DEF Times
  <2>2. cron \in Row /\ edit \in Edit
    BY <1>1 DEF Row, Edit, NoEdit
  <2>3. at \in [Processes -> Attempt] /\ \A p \in Processes : SlotIsPast(at[p])
    BY RestTyped
  <2>4. edit.open => edits < MaxEdits
    BY DEF NoEdit
  <2>5. \A p \in Processes : lock = p => link[p] = "up"
    BY SchedulerAssumption
  <2>6. QED
    BY <2>1, <2>2, <2>3, <2>4, <2>5 DEF Typed
<1>3. NoSilentLoss
  BY DEF NoSilentLoss
<1>4. Recovered(cron) = First
  BY <1>1 DEF Recovered
<1>5. CauseInv
  BY <1>1, <1>4 DEF CauseInv, DueIsNew, IntervalIsStored, ShotIsFirst, GuardIsFirst,
                     NoEdit, Rest
<1>6. QED
  BY <1>2, <1>3, <1>5 DEF Inv

\* The inductive invariant: types, the bookkeeping of claimed slots, and what the
\* row says about the slot that is due.
THEOREM InvHolds == Spec => []Inv
<1>1. Inv /\ [Next]_vars => Inv'
  BY TypedStep, NoSilentLossStep, CauseStep DEF Inv
<1>2. QED
  BY InitInv, <1>1, PTL DEF Spec

\* Every variable has its type, and the lock is held over a connection that is up.
THEOREM TypesHold == Spec => []TypeOK
<1>1. Inv => TypeOK
  BY DEF Inv, Typed, TypeOK, Attempt
<1>2. QED
  BY <1>1, InvHolds, PTL

\* claimSlot and what follows: a claimed slot is fired, its failure is logged, or
\* a fault the scheduler does not catch took it.
THEOREM NoSilentLossHolds == Spec => []NoSilentLoss
<1>1. Inv => NoSilentLoss
  BY DEF Inv
<1>2. QED
  BY <1>1, InvHolds, PTL

\* claimSlot's guard, which compares columns read earlier, admits a slot a second
\* time only when an unclaim, an edit or a delayed tick made it due again.
THEOREM SecondClaimHasCauseHolds == Spec => SecondClaimHasCause
<1> DEFINE Once ==
      \A p \in Processes :
        at[p].pc = "guard" /\ at'[p].pc = "submit" /\ at[p].slot \in claimed
        => at[p].slot \in reopened
<1>1. Inv /\ [Next]_vars => [Once]_vars
  <2> SUFFICES ASSUME Inv, Next, NEW p \in Processes,
                      at[p].pc = "guard", at'[p].pc = "submit", at[p].slot \in claimed
               PROVE  at[p].slot \in reopened
    OBVIOUS
  <2>1. Typed /\ CauseInv /\ at \in [Processes -> Attempt] /\ [Next]_vars
    BY DEF Inv, Typed
  <2>2. CASE \E q \in Processes \ {p} : Tick(q) \/ Goes(q) \/ Crash(q)
    BY <2>1, <2>2, Handover
  <2>3. CASE Claim(p)
    BY <2>1, <2>3, ClaimIsNew DEF Claim, TickEnds, Rest
  <2>4. CASE Tick(p) \/ (Goes(p) /\ ~Claim(p))
    BY <2>4 DEF Tick, Goes, ReadDue, Refuse, ReadSlot, Submit, Decline, SubmitFails,
                Unclaim, UnclaimFails, Disable, DisableFails
  <2>5. CASE Crash(p)
    BY <2>1, <2>5 DEF Crash, Rest
  <2>6. CASE \/ ClockTicks \/ EditReads
             \/ \E q \in Processes : ConnectionDrops(q)
             \/ \E e \in BOOLEAN, n \in {None} \cup Slots : EditWrites(e, n)
    BY <2>6 DEF ClockTicks, EditReads, ConnectionDrops, EditWrites
  <2>7. QED
    BY <2>2, <2>3, <2>4, <2>5, <2>6 DEF Next
<1>2. QED
  BY <1>1, InvHolds, PTL DEF Spec, SecondClaimHasCause
=============================================================================
