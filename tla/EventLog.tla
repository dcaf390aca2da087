------------------------------ MODULE EventLog ------------------------------
(***************************************************************************)
(* The event log of one run and the streams that watch it                  *)
(* (concurrency/src/in-memory-event-log.ts, store/src/                     *)
(* postgres-run-event-log.ts, and their callers: the orchestrator and the  *)
(* runner, which publish, and web-ui/src/server.ts, which subscribes).      *)
(*                                                                         *)
(* The memory log belongs to one process; the Postgres log is shared by    *)
(* many, each with listeners of its own. A turn publishes its events       *)
(* without waiting for one before the next, and its end when all of them   *)
(* are settled. A turn that lost its lease may still be publishing while   *)
(* its successor, in the same process or another, does.                    *)
(***************************************************************************)
EXTENDS Integers, SequencesExt

CONSTANTS
  Logs,        \* the kinds of log: "memory", "postgres"
  Processes,   \* server processes
  Turns,       \* executions of the run that publish: its turn, and a stale one
  Homes,       \* functions that give each turn its process
  MaxEvents,   \* bound on the events that are published besides run.finished
  Streams,     \* clients that watch the run
  MaxOpens,    \* bound on subscriptions
  MaxFaults    \* bound on failing inserts and crashes

ASSUME EventLogAssumption ==
  /\ Logs \subseteq {"memory", "postgres"}
  /\ Processes # {} /\ Turns # {}
  /\ Homes \subseteq [Turns -> Processes]
  /\ {MaxEvents, MaxOpens, MaxFaults} \subseteq Nat

Start == -1             \* the cursor before every event
Seqs == 0..MaxEvents    \* an event is its number

VARIABLES
  log,      \* the kind of this run's log
  home,     \* the process of each turn
  maxSeq,   \* the last number that was allocated
  pub,      \* the publish call of each event: where it stands, its turn
  finish,   \* the number of run.finished, or Start
  stored,   \* the events of the log, in the order in which they got there
  stream,   \* each client's subscription
  got,      \* what its listener wrote to it since it subscribed
  opens, faults

\* History: the events that were stored, and told, when a stream subscribed.
VARIABLE before

vars == <<log, home, maxSeq, pub, finish, stored, stream, got, opens, faults, before>>

NoPublish == [pc |-> "idle", by |-> CHOOSE t \in Turns : TRUE]
NoStream ==
  [pc |-> "closed", by |-> CHOOSE p \in Processes : TRUE, cursor |-> Start,
   replay |-> <<>>]

Memory == log = "memory"
Postgres == log = "postgres"
Nothing == [stored |-> {}, told |-> {}]

Init ==
  /\ log \in Logs
  /\ home \in Homes
  /\ Memory => \E p \in Processes : \A t \in Turns : home[t] = p
  /\ maxSeq = Start
  /\ pub = [e \in Seqs |-> NoPublish]
  /\ finish = Start
  /\ stored = <<>>
  /\ stream = [s \in Streams |-> NoStream]
  /\ got = [s \in Streams |-> <<>>]
  /\ opens = 0 /\ faults = 0
  /\ before = [s \in Streams |-> Nothing]

\* The processes that have this log: one, or all of them.
Sharing == IF Memory THEN {home[t] : t \in Turns} ELSE Processes
Teller(e) == home[pub[e].by]
Pending(e) == pub[e].pc \in {"numbered", "stored"}
Fault == faults < MaxFaults /\ faults' = faults + 1

\* readEvents, and the filter of the replay: ORDER BY seq, after the cursor.
After(cursor) ==
  CHOOSE es \in SetToSeqs({e \in ToSet(stored) : e > cursor}) :
    \A i, j \in DOMAIN es : i < j => es[i] < es[j]

-----------------------------------------------------------------------------
(* Listeners. The server closes a stream behind the run's last event and   *)
(* writes nothing after it.                                                *)

Registered_Late(s) == stream[s].pc = "live"
Registered(s) == stream[s].pc \in {"reading", "replaying", "live"}

Written(es) ==
  SubSeq(es, 1, Cardinality({i \in DOMAIN es : finish \notin ToSet(SubSeq(es, 1, i - 1))}))
Ended(es) == finish \in ToSet(es)

\* notify: every listener of the process, one after the other.
Notified(p, e) ==
  LET hears(s) == Registered(s) /\ stream[s].by = p
  IN  /\ got' = [s \in Streams |-> IF hears(s) THEN Append(got[s], e) ELSE got[s]]
      /\ stream' = [s \in Streams |->
           IF hears(s) /\ Ended(<<e>>) THEN [stream[s] EXCEPT !.pc = "ended"]
           ELSE stream[s]]

-----------------------------------------------------------------------------
(* publish: a number, the row, then the listeners of this process.         *)

\* The turn's last event waits for its others (Promise.all(publishes)), and
\* nothing of the turn comes after it.
Number_NotSaved(t) ==
  LET e == maxSeq + 1
  IN  /\ e \in Seqs
      /\ pub' = [pub EXCEPT ![e] = [pc |-> "numbered", by |-> t]]
      /\ UNCHANGED maxSeq
Number(t) ==
  LET e == maxSeq + 1
  IN  /\ e \in Seqs
      /\ maxSeq' = e
      /\ pub' = [pub EXCEPT ![e] = [pc |-> "numbered", by |-> t]]

PublishProgress(t) ==
  /\ finish # Start => pub[finish].by # t
  /\ finish = Start => maxSeq + 1 # MaxEvents
  /\ Number(t)
  /\ UNCHANGED <<log, home, finish, stored, stream, got, opens, faults, before>>

PublishFinish(t) ==
  /\ finish = Start
  /\ \A d \in Seqs : Pending(d) => pub[d].by # t
  /\ Number(t)
  /\ finish' = maxSeq + 1
  /\ UNCHANGED <<log, home, stored, stream, got, opens, faults, before>>

\* In memory the number is awaited, in the order of the calls; the rest of
\* publish is one step, and refuses an event behind the run's last one.
NextInMemory(e) ==
  /\ pub[e].pc = "numbered"
  /\ \A d \in Seqs : pub[d].pc = "numbered" => e <= d

StoreInMemory_Unrefused(e) ==
  /\ Memory /\ NextInMemory(e)
  /\ pub' = [pub EXCEPT ![e].pc = "told"]
  /\ stored' = Append(stored, e)
  /\ Notified(Teller(e), e)
  /\ UNCHANGED <<log, home, maxSeq, finish, opens, faults, before>>
StoreInMemory(e) ==
  /\ Memory /\ NextInMemory(e)
  /\ \/ /\ finish \notin ToSet(stored)
        /\ pub' = [pub EXCEPT ![e].pc = "told"]
        /\ stored' = Append(stored, e)
        /\ Notified(Teller(e), e)
     \/ /\ finish \in ToSet(stored)
        /\ pub' = [pub EXCEPT ![e].pc = "failed"]
        /\ UNCHANGED <<stored, stream, got>>
  /\ UNCHANGED <<log, home, maxSeq, finish, opens, faults, before>>

Insert(e) ==
  /\ Postgres /\ pub[e].pc = "numbered"
  /\ pub' = [pub EXCEPT ![e].pc = "stored"]
  /\ stored' = Append(stored, e)
  /\ UNCHANGED <<log, home, maxSeq, finish, stream, got, opens, faults, before>>

\* The INSERT fails, before or after the database has committed it: the
\* caller swallows the error and nobody is told.
InsertFails(e) ==
  /\ Postgres /\ pub[e].pc = "numbered"
  /\ Fault
  /\ pub' = [pub EXCEPT ![e].pc = "failed"]
  /\ \/ UNCHANGED stored
     \/ stored' = Append(stored, e)
  /\ UNCHANGED <<log, home, maxSeq, finish, stream, got, opens, before>>

Notify_Silent(e) ==
  /\ pub[e].pc = "stored"
  /\ pub' = [pub EXCEPT ![e].pc = "told"]
  /\ UNCHANGED <<log, home, maxSeq, finish, stored, stream, got, opens, faults, before>>
Notify(e) ==
  /\ pub[e].pc = "stored"
  /\ pub' = [pub EXCEPT ![e].pc = "told"]
  /\ Notified(Teller(e), e)
  /\ UNCHANGED <<log, home, maxSeq, finish, stored, opens, faults, before>>

-----------------------------------------------------------------------------
(* subscribe: the listener is registered at once; the replay is read now   *)
(* (memory) or by a query (Postgres), and written in a later microtask.    *)

\* A closed stream leaves the client the number of the last event it got: it
\* comes back with that cursor, or with none.
Left(s) ==
  [NoStream EXCEPT !.cursor =
     IF got[s] = <<>> THEN stream[s].cursor ELSE Last(got[s])]

Subscribe(s, p, cursor) ==
  /\ stream[s].pc = "closed"
  /\ opens < MaxOpens
  /\ p \in Sharing /\ cursor \in {Start, stream[s].cursor}
  /\ stream' = [stream EXCEPT ![s] =
       [pc |-> IF Memory THEN "replaying" ELSE "reading", by |-> p,
        cursor |-> cursor,
        replay |-> IF Memory THEN After(cursor) ELSE <<>>]]
  /\ opens' = opens + 1
  /\ before' = [before EXCEPT ![s] =
       [stored |-> ToSet(stored), told |-> {e \in Seqs : pub[e].pc = "told"}]]
  /\ UNCHANGED <<log, home, maxSeq, pub, finish, stored, got, faults>>

ReadEvents(s) ==
  /\ stream[s].pc = "reading"
  /\ stream' = [stream EXCEPT ![s].pc = "replaying", ![s].replay = After(stream[s].cursor)]
  /\ UNCHANGED <<log, home, maxSeq, pub, finish, stored, got, opens, faults, before>>

WriteReplay(s, es) ==
  /\ stream[s].pc = "replaying"
  /\ got' = [got EXCEPT ![s] = @ \o Written(es)]
  /\ stream' = [stream EXCEPT ![s].replay = <<>>,
                              ![s].pc = IF Ended(es) THEN "ended" ELSE "live"]
  /\ UNCHANGED <<log, home, maxSeq, pub, finish, stored, opens, faults, before>>

Replay_ReadAgain(s) == WriteReplay(s, After(stream[s].cursor))
Replay(s) == WriteReplay(s, stream[s].replay)

\* The connections of these streams close: unsubscribe, and a replay that is
\* pending finds the stream closed.
Close(ss) ==
  /\ stream' = [s \in Streams |-> IF s \in ss THEN Left(s) ELSE stream[s]]
  /\ got' = [s \in Streams |-> IF s \in ss THEN <<>> ELSE got[s]]
  /\ before' = [s \in Streams |-> IF s \in ss THEN Nothing ELSE before[s]]

Disconnect(s) ==
  /\ Registered(s)
  /\ Close({s})
  /\ UNCHANGED <<log, home, maxSeq, pub, finish, stored, opens, faults>>

\* A process of the shared log dies, and is started again: what it was
\* publishing is not told, and may be stored or not. A failing query of
\* subscribe, whose rejection nobody handles, ends its process the same way.
Crash(p) ==
  /\ Postgres
  /\ Fault
  /\ pub' = [e \in Seqs |->
       IF Teller(e) = p /\ Pending(e) THEN [pub[e] EXCEPT !.pc = "failed"] ELSE pub[e]]
  /\ Close({s \in Streams : stream[s].by = p /\ Registered(s)})
  /\ UNCHANGED <<log, home, maxSeq, finish, stored, opens>>

-----------------------------------------------------------------------------

PublishStep(e) ==
  \/ StoreInMemory(e) \/ Insert(e) \/ InsertFails(e) \/ Notify(e)

StreamStep(s) ==
  \/ \E p \in Processes, cursor \in {Start} \cup Seqs : Subscribe(s, p, cursor)
  \/ ReadEvents(s) \/ Replay(s) \/ Disconnect(s)

Next ==
  \/ \E t \in Turns : PublishProgress(t) \/ PublishFinish(t)
  \/ \E e \in Seqs : PublishStep(e)
  \/ \E s \in Streams : StreamStep(s)
  \/ \E p \in Processes : Crash(p)

Spec == Init /\ [][Next]_vars

\* What a call or a microtask that was started goes on to do: no fairness on
\* publishing, subscribing, disconnecting or failing.
Fairness ==
  /\ \A e \in Seqs : WF_vars(StoreInMemory(e)) /\ WF_vars(Insert(e)) /\ WF_vars(Notify(e))
  /\ \A s \in Streams : WF_vars(ReadEvents(s)) /\ WF_vars(Replay(s))

FairSpec == Spec /\ Fairness

-----------------------------------------------------------------------------

\* Every variable keeps its type, and the log stores no event twice.
TypeOK ==
  /\ log \in Logs /\ home \in Homes
  /\ maxSeq \in {Start} \cup Seqs
  /\ pub \in [Seqs -> [pc : {"idle", "numbered", "stored", "told", "failed"}, by : Turns]]
  /\ finish \in {Start} \cup Seqs
  /\ stored \in Seq(Seqs) /\ IsInjective(stored)
  /\ stream \in [Streams ->
       [pc : {"closed", "reading", "replaying", "live", "ended"}, by : Processes,
        cursor : {Start} \cup Seqs, replay : Seq(Seqs)]]
  /\ got \in [Streams -> Seq(Seqs)]
  /\ before \in [Streams -> [stored : SUBSET Seqs, told : SUBSET Seqs]]
  /\ opens \in 0..MaxOpens /\ faults \in 0..MaxFaults

\* What a stream must have got: the events after its cursor that were stored
\* when it subscribed, or that its own process has told its listeners.
Owed(s) ==
  {e \in ToSet(stored) :
    /\ e > stream[s].cursor
    /\ e \in before[s].stored \/ (pub[e].pc = "told" /\ Teller(e) = stream[s].by)}

\* A stream whose replay is written has no gap: it got every event it is owed,
\* whichever of the replay and the live events came first.
NoGap == \A s \in Streams : stream[s].pc = "live" => Owed(s) \subseteq ToSet(got[s])

\* An event is written twice to one stream only by the Postgres log, and only
\* when the stream's own process told it after the stream had subscribed.
RepeatHasCause ==
  \A s \in Streams : \A i, j \in DOMAIN got[s] : i < j /\ got[s][i] = got[s][j] =>
    Postgres /\ got[s][i] \notin before[s].told /\ Teller(got[s][i]) = stream[s].by

\* The memory log ends with run.finished: an event of a turn that lost its
\* lease, still waiting for its number when the run ended, is refused.
MemoryEndsWithFinish == Memory /\ finish \in ToSet(stored) => Last(stored) = finish

\* A stream of the web UI ends: once the run's last event is owed to it, the
\* stream is closed, by that event or by the client.
StreamEnds ==
  \A s \in Streams :
    Registered(s) /\ finish \in Owed(s) ~> ~Registered(s)
=============================================================================
