----------------------------- MODULE Scheduler -----------------------------
(***************************************************************************)
(* The cron scheduler: processes that take turns to tick under a leader    *)
(* lease (an advisory lock of one database connection), claim the slot of  *)
(* a due cron and submit its fire, while users edit the cron               *)
(* (triggers/src/scheduler.ts, lease.ts, postgres-cron-store.ts,           *)
(* fire.ts).                                                               *)
(*                                                                         *)
(* One cron: the fires of a tick run one after the other, each with its    *)
(* own claim. The schedule is a single shot or an interval. Operations of  *)
(* the Postgres store that read and then write are two steps; in memory    *)
(* they are one, which is among these behaviours.                          *)
(***************************************************************************)
EXTENDS Integers, FiniteSets

CONSTANTS
  Processes,   \* server processes with a scheduler each
  Nobody,      \* holds no lock
  Kinds,       \* [every: 0 for a single shot, direct: a message, no turn]
  First,       \* the slot the cron is created with
  MaxTime,     \* bound on the clock
  MaxEdits,    \* bound on edits
  MaxFaults    \* bound on failing calls, dropped connections and crashes

None == 0      \* no time
Times == 1..MaxTime
Slots == 1..(2 * MaxTime)

ASSUME SchedulerAssumption ==
  /\ Nobody \notin Processes
  /\ Kinds \subseteq [every : 0..MaxTime, direct : BOOLEAN]
  /\ First \in Times
  /\ {MaxTime, MaxEdits, MaxFaults} \subseteq Nat

VARIABLES
  now,      \* the clock
  kind,     \* the cron's schedule and what it fires
  cron,     \* its row: enabled, nextFireAt, lastFiredAt
  fired,    \* slots with a run or a delivery under their fire key
  log,      \* slots whose failure or refusal is in the fire log
  lock,     \* the process whose session holds the advisory lock
  link,     \* each process' connection for the lock: none yet, up, or dead
  at,       \* where each scheduler stands
  edit,     \* the row an edit has read and not written back yet
  edits, faults

\* History, read by the properties and by no guard.
VARIABLES
  claimed,  \* slots that were claimed
  reopened, \* slots that something made due again
  lost      \* slots that a crash, a failing call or an unclaim took

row == <<kind, cron>>
outcome == <<fired, log>>
history == <<claimed, reopened, lost>>
vars == <<now, row, outcome, lock, link, at, edit, edits, faults, history>>

Row == [enabled : BOOLEAN, next : {None} \cup Slots, last : {None} \cup Times]
NoEdit == [enabled |-> FALSE, next |-> None, last |-> None, open |-> FALSE]
Rest == [pc |-> "rest", time |-> None, slot |-> None, prior |-> None, read |-> None]

Init ==
  /\ now = 1
  /\ kind \in Kinds
  /\ cron = [enabled |-> TRUE, next |-> First, last |-> None]
  /\ fired = {} /\ log = {}
  /\ lock = Nobody
  /\ link = [p \in Processes |-> "none"]
  /\ at = [p \in Processes |-> Rest]
  /\ edit = NoEdit /\ edits = 0 /\ faults = 0
  /\ claimed = {} /\ reopened = {} /\ lost = {}

\* recoverNextFireAt: the stored slot, the first one, or one interval after the
\* last fire.
Recovered(c) ==
  IF c.next # None THEN c.next
  ELSE IF c.last = None THEN First
  ELSE IF kind.every = 0 THEN None ELSE c.last + kind.every

Due(s) == cron.enabled /\ s # None /\ Recovered(cron) = s /\ s <= now

Fault == faults < MaxFaults /\ faults' = faults + 1

ClockTicks ==
  /\ now < MaxTime
  /\ now' = now + 1
  /\ UNCHANGED <<row, outcome, lock, link, at, edit, edits, faults, history>>

-----------------------------------------------------------------------------
(* The lease. The lock is the session's: it goes when the connection does. *)
(* `connecting` keeps the first connection for good, so a scheduler whose  *)
(* connection dropped never gets another one.                              *)

Tick(p) ==
  /\ at[p].pc = "rest"
  /\ link[p] # "dead"
  /\ lock = Nobody
  /\ lock' = p
  /\ link' = [link EXCEPT ![p] = "up"]
  /\ at' = [at EXCEPT ![p] = [Rest EXCEPT !.pc = "due", !.time = now]]
  /\ UNCHANGED <<now, row, outcome, edit, edits, faults, history>>

ConnectionDrops_LockKept(p) ==
  /\ link[p] = "up"
  /\ Fault
  /\ link' = [link EXCEPT ![p] = "dead"]
  /\ UNCHANGED <<now, row, outcome, lock, at, edit, edits, history>>
ConnectionDrops(p) ==
  /\ link[p] = "up"
  /\ Fault
  /\ link' = [link EXCEPT ![p] = "dead"]
  /\ lock' = IF lock = p THEN Nobody ELSE lock
  /\ UNCHANGED <<now, row, outcome, at, edit, edits, history>>

\* The end of hold: unlock, which a dead connection refuses.
TickEnds_LockKept(p) ==
  /\ at' = [at EXCEPT ![p] = Rest]
  /\ UNCHANGED lock
TickEnds(p) ==
  /\ at' = [at EXCEPT ![p] = Rest]
  /\ lock' = IF lock = p THEN Nobody ELSE lock

\* fireDue: the due cron as it was read. An owner who is no longer internal
\* has an action cron switched off without a claim.
ReadDue(p) ==
  /\ at[p].pc = "due"
  /\ LET s == Recovered(cron)
     IN  \/ /\ cron.enabled /\ s # None /\ s <= at[p].time
            /\ at' = [at EXCEPT ![p].pc = "claim", ![p].slot = s, ![p].prior = cron.last]
            /\ UNCHANGED lock
         \/ /\ ~(cron.enabled /\ s # None /\ s <= at[p].time)
            /\ TickEnds(p)
  /\ UNCHANGED <<now, row, outcome, link, edit, edits, faults, history>>

Refuse(p) ==
  /\ at[p].pc = "claim" /\ ~kind.direct
  /\ cron' = [cron EXCEPT !.enabled = FALSE]
  /\ log' = log \cup {at[p].slot}
  /\ TickEnds(p)
  /\ UNCHANGED <<now, kind, fired, link, edit, edits, faults, history>>

-----------------------------------------------------------------------------
(* claimSlot: a read, then an UPDATE guarded by what was read.             *)

ReadSlot(p) ==
  /\ at[p].pc = "claim"
  /\ IF cron.enabled /\ Recovered(cron) = at[p].slot
     THEN /\ at' = [at EXCEPT ![p].pc = "guard", ![p].read = cron.last]
          /\ UNCHANGED lock
     ELSE TickEnds(p)
  /\ UNCHANGED <<now, row, outcome, link, edit, edits, faults, history>>

ClaimGuard_SlotOnly(p) == cron.enabled /\ cron.next \in {None, at[p].slot}
ClaimGuard(p) ==
  /\ cron.enabled
  /\ cron.next \in {None, at[p].slot}
  /\ cron.last = at[p].read

\* advanceNextFireAt: an interval counts from the time of the tick, which may lie
\* before a fire that another process has claimed since.
Advanced(p) == IF kind.every = 0 THEN None ELSE at[p].time + kind.every

Claim(p) ==
  /\ at[p].pc = "guard"
  /\ IF ClaimGuard(p)
     THEN /\ cron' = [cron EXCEPT !.last = at[p].time, !.next = Advanced(p)]
          /\ claimed' = claimed \cup {at[p].slot}
          /\ reopened' = reopened \cup (claimed \cap {Advanced(p)})
          /\ at' = [at EXCEPT ![p].pc = "submit"]
          /\ UNCHANGED lock
     ELSE TickEnds(p) /\ UNCHANGED <<cron, claimed, reopened>>
  /\ UNCHANGED <<now, kind, outcome, link, edit, edits, faults, lost>>

\* engine.submit or the delivery: enqueued under the fire key, once for all.
Submit(p) ==
  /\ at[p].pc = "submit"
  /\ fired' = fired \cup {at[p].slot}
  /\ at' = [at EXCEPT ![p].pc = "disable"]
  /\ UNCHANGED <<now, row, log, lock, link, edit, edits, faults, history>>

\* A message without a destination its owner sees is refused.
Decline(p) ==
  /\ at[p].pc = "submit" /\ kind.direct
  /\ log' = log \cup {at[p].slot}
  /\ at' = [at EXCEPT ![p].pc = "disable"]
  /\ UNCHANGED <<now, row, fired, lock, link, edit, edits, faults, history>>

\* A call of the submission throws, what was enqueued stays. A turn gives its
\* slot back; for a message the error leaves fire and the slot stays consumed.
SubmitFails(p) ==
  /\ at[p].pc = "submit"
  /\ Fault
  /\ \E done \in BOOLEAN : fired' = IF done THEN fired \cup {at[p].slot} ELSE fired
  /\ IF kind.direct
     THEN TickEnds(p) /\ lost' = lost \cup {at[p].slot}
     ELSE at' = [at EXCEPT ![p].pc = "unclaim"] /\ UNCHANGED <<lock, lost>>
  /\ UNCHANGED <<now, row, log, link, edit, edits, claimed, reopened>>

\* unclaimSlot, then the failure in the fire log. Only the claimer's own
\* lastFiredAt is undone, but the slot comes back over one that an edit has set
\* since the claim.
GivesBack(p) ==
  IF cron.last = at[p].time
  THEN /\ cron' = [cron EXCEPT !.last = at[p].prior, !.next = at[p].slot]
       /\ reopened' = reopened \cup {at[p].slot}
       /\ lost' = lost \cup ({Recovered(cron)} \ {None, at[p].slot, Advanced(p)})
  ELSE UNCHANGED <<cron, reopened, lost>>

Unclaim_Unlogged(p) ==
  /\ at[p].pc = "unclaim"
  /\ GivesBack(p)
  /\ TickEnds(p)
  /\ UNCHANGED <<now, kind, outcome, link, edit, edits, faults, claimed>>
Unclaim(p) ==
  /\ at[p].pc = "unclaim"
  /\ GivesBack(p)
  /\ log' = log \cup {at[p].slot}
  /\ TickEnds(p)
  /\ UNCHANGED <<now, kind, fired, link, edit, edits, faults, claimed>>

UnclaimFails(p) ==
  /\ at[p].pc = "unclaim"
  /\ Fault
  /\ lost' = lost \cup {at[p].slot}
  /\ TickEnds(p)
  /\ UNCHANGED <<now, row, outcome, link, edit, edits, claimed, reopened>>

\* disableAfterFire looks at the schedule of the row read in ReadDue.
Disable(p) ==
  /\ at[p].pc = "disable"
  /\ cron' = [cron EXCEPT !.enabled = @ /\ kind.every # 0]
  /\ TickEnds(p)
  /\ UNCHANGED <<now, kind, outcome, link, edit, edits, faults, history>>

DisableFails(p) ==
  /\ at[p].pc = "disable" /\ kind.every = 0
  /\ Fault
  /\ TickEnds(p)
  /\ UNCHANGED <<now, row, outcome, link, edit, edits, history>>

\* A process dies and starts again; its session ends, the rows stay.
Crash(p) ==
  /\ Fault
  /\ at' = [at EXCEPT ![p] = Rest]
  /\ link' = [link EXCEPT ![p] = "none"]
  /\ lock' = IF lock = p THEN Nobody ELSE lock
  /\ lost' = lost \cup {s \in {at[p].slot} : at[p].pc \in {"submit", "unclaim"}}
  /\ UNCHANGED <<now, row, outcome, edit, edits, claimed, reopened>>

-----------------------------------------------------------------------------
(* update: the whole row is read, patched and written back; lastFiredAt    *)
(* is the one column that is not.                                          *)

EditReads ==
  /\ ~edit.open /\ edits < MaxEdits
  /\ edit' = [enabled |-> cron.enabled, next |-> cron.next, last |-> cron.last, open |-> TRUE]
  /\ UNCHANGED <<now, row, outcome, lock, link, at, edits, faults, history>>

\* The patch names an enabled flag, a slot, or neither.
EditWrites(enabled, next) ==
  LET new == [cron EXCEPT !.enabled = enabled, !.next = next]
  IN  /\ edit.open
      /\ enabled = edit.enabled \/ next = edit.next
      /\ next = edit.next \/ next \in now..MaxTime
      /\ cron' = new
      /\ reopened' = reopened \cup ({Recovered(new)} \ {Recovered(cron)})
      /\ edit' = NoEdit /\ edits' = edits + 1
      /\ UNCHANGED <<now, kind, outcome, lock, link, at, faults, claimed, lost>>
-----------------------------------------------------------------------------
\* What a scheduler inside a tick does next.
Goes(p) ==
  \/ ReadDue(p) \/ Refuse(p) \/ ReadSlot(p) \/ Claim(p)
  \/ Submit(p) \/ Decline(p) \/ SubmitFails(p) \/ Unclaim(p) \/ UnclaimFails(p)
  \/ Disable(p) \/ DisableFails(p)

Next ==
  \/ ClockTicks
  \/ \E p \in Processes : Tick(p) \/ Goes(p) \/ ConnectionDrops(p) \/ Crash(p)
  \/ EditReads
  \/ \E enabled \in BOOLEAN, next \in {None} \cup Slots : EditWrites(enabled, next)

\* The interval ticks for as long as the process lives, and an awaited call
\* settles. Time, users and faults owe nothing.
Fairness == \A p \in Processes : WF_vars(Tick(p)) /\ WF_vars(Goes(p))

Spec == Init /\ [][Next]_vars
FairSpec == Spec /\ Fairness
-----------------------------------------------------------------------------
(* Properties.                                                             *)

Pcs == {"rest", "due", "claim", "guard", "submit", "unclaim", "disable"}

\* Every variable has its type; the lock is held over a connection that is up.
TypeOK ==
  /\ now \in Times /\ kind \in Kinds /\ cron \in Row
  /\ fired \subseteq Slots /\ log \subseteq Slots
  /\ lock \in Processes \cup {Nobody}
  /\ link \in [Processes -> {"none", "up", "dead"}]
  /\ at \in [Processes -> [pc : Pcs, time : {None} \cup Times, slot : {None} \cup Slots,
                           prior : {None} \cup Times, read : {None} \cup Times]]
  /\ edits \in 0..MaxEdits /\ faults \in 0..MaxFaults
  /\ claimed \subseteq Slots /\ lost \subseteq Slots
  /\ \A p \in Processes : lock = p => link[p] = "up"

\* However ticks of two processes overlap after a dropped connection, a slot is
\* claimed a second time only after something made it due again: an unclaim, an
\* edit, or a delayed tick that counted the interval from its own, earlier time.
SecondClaimHasCause ==
  [][\A p \in Processes :
       at[p].pc = "guard" /\ at'[p].pc = "submit" /\ at[p].slot \in claimed
       => at[p].slot \in reopened]_vars

InProgress(s) == \E p \in Processes : at[p].slot = s /\ at[p].pc \in {"submit", "unclaim"}

\* A claimed slot is fired or its failure is in the fire log; only a crash, or a
\* failing call the scheduler does not catch, may consume it in silence.
NoSilentLoss == \A s \in claimed : s \in fired \cup log \cup lost \/ InProgress(s)

\* A due slot is fired, or its failure logged, unless a fault takes it, the cron
\* is edited or switched off, all schedulers have lost their connection, or an
\* interval that catches up from an earlier slot passes it over unclaimed.
DueIsFired ==
  \A s \in Times, k \in 0..MaxEdits :
    Due(s) /\ edits = k ~>
      \/ s \in fired \cup log \cup lost
      \/ edits > k \/ ~cron.enabled
      \/ s \notin claimed /\ Recovered(cron) > s
      \/ \A p \in Processes : link[p] = "dead"
=============================================================================
