--------------------------- MODULE EventLogProofs ---------------------------
(***************************************************************************)
(* The event log, for any number of turns, processes, clients and events:  *)
(* what a stream has written, against what it is owed.                     *)
(*                                                                         *)
(* None of the properties is inductive. NoGap needs to know where an event *)
(* that is owed stands while the replay is under way: what was stored when *)
(* the stream subscribed is in the replay that was read, and what its own  *)
(* process has told since went to the listener that was already there.     *)
(* RepeatHasCause needs that nothing is told twice, and that the memory    *)
(* log reads its replay in the step that registers the listener.           *)
(***************************************************************************)
EXTENDS EventLog, FiniteSetTheorems, SequenceTheorems, TLAPS

Told == {e \in Seqs : pub[e].pc = "told"}

\* Numbers are given out in order, and run.finished has one of them.
Numbered ==
  /\ \A e \in Seqs : pub[e].pc = "idle" <=> e > maxSeq
  /\ finish = Start \/ finish <= maxSeq

\* An event is told after it is stored; in memory the two are one step.
RowsKept ==
  \A e \in Seqs :
    /\ pub[e].pc \in {"stored", "told"} => e \in ToSet(stored)
    /\ e \in ToSet(stored) => pub[e].pc \in {"stored", "told", "failed"}
    /\ Memory => (pub[e].pc # "stored" /\ (e \in ToSet(stored) => pub[e].pc = "told"))

LogInv == TypeOK /\ Numbered /\ RowsKept /\ MemoryEndsWithFinish

\* What a stream has seen is in the log, and a closed one has seen nothing.
Seen(s) ==
  /\ before[s].told \subseteq before[s].stored
  /\ before[s].stored \subseteq ToSet(stored)
  /\ before[s].told \subseteq Told
  /\ ToSet(got[s]) \subseteq ToSet(stored)
  /\ stream[s].pc = "closed" => got[s] = <<>>

\* Everything its process has told since the stream subscribed went to it.
Heard(s) ==
  Registered(s) =>
    \A e \in Told : Teller(e) = stream[s].by => e \in before[s].told \cup ToSet(got[s])

\* What was stored when it subscribed is in the replay, and then on the stream.
Missed(s) == {e \in before[s].stored : e > stream[s].cursor}
Replayed(s) ==
  /\ stream[s].pc = "replaying" => Missed(s) \subseteq ToSet(stream[s].replay)
  /\ stream[s].pc = "live" => Missed(s) \subseteq ToSet(got[s])

ReplayRead(s) ==
  stream[s].pc = "replaying" =>
    /\ IsInjective(stream[s].replay)
    /\ ToSet(stream[s].replay) \subseteq ToSet(stored)

\* Before its replay a stream has been written only what was told since it
\* subscribed, and nothing twice.
Fresh(s, e) == e \in Told \ before[s].told /\ Teller(e) = stream[s].by
LiveOnly(s) ==
  stream[s].pc \in {"reading", "replaying"} =>
    /\ IsInjective(got[s])
    /\ \A e \in ToSet(got[s]) : Fresh(s, e)
    /\ Memory => ToSet(got[s]) \cap ToSet(stream[s].replay) = {}

\* In memory a listener is registered and its replay read in one step.
NotReading(s) == Memory => stream[s].pc # "reading"

Repeats(s) ==
  \A i, j \in DOMAIN got[s] : i < j /\ got[s][i] = got[s][j] =>
    Postgres /\ got[s][i] \notin before[s].told /\ Teller(got[s][i]) = stream[s].by

StreamInv(s) ==
  /\ Seen(s) /\ Heard(s) /\ Replayed(s) /\ ReplayRead(s) /\ LiveOnly(s)
  /\ NotReading(s) /\ Repeats(s)

Inv == LogInv /\ \A s \in Streams : StreamInv(s)

-----------------------------------------------------------------------------
(* Sequences of events: the ascending one, and what writing one does.      *)

LEMMA SeqsFinite == Seqs \subseteq Nat /\ IsFiniteSet(Seqs)
BY FS_Interval, EventLogAssumption DEF Seqs

\* The set of the elements of a sequence, by position.
LEMMA ToSetOf ==
  ASSUME NEW S, NEW s \in Seq(S)
  PROVE  /\ DOMAIN s = 1..Len(s) /\ Len(s) \in Nat
         /\ ToSet(s) \subseteq S
         /\ \A x : x \in ToSet(s) <=> \E i \in 1..Len(s) : s[i] = x
BY DEF ToSet

LEMMA AppendIs ==
  ASSUME NEW S, NEW s \in Seq(S), NEW e \in S
  PROVE  /\ Append(s, e) \in Seq(S)
         /\ ToSet(Append(s, e)) = ToSet(s) \cup {e}
         /\ e \notin ToSet(s) /\ IsInjective(s) => IsInjective(Append(s, e))
         /\ Last(Append(s, e)) = e
<1> DEFINE t == Append(s, e)
<1>1. /\ t \in Seq(S) /\ Len(t) = Len(s) + 1 /\ Len(s) \in Nat
      /\ t[Len(s) + 1] = e
      /\ \A i \in 1..Len(s) : t[i] = s[i]
  BY AppendProperties
<1> HIDE DEF t
<1>2. /\ DOMAIN t = 1..Len(t) /\ DOMAIN s = 1..Len(s)
  BY <1>1
<1>3. ToSet(t) = ToSet(s) \cup {e}
  <2>1. ASSUME NEW x \in ToSet(t) PROVE x \in ToSet(s) \cup {e}
    <3>1. PICK i \in 1..Len(t) : t[i] = x
      BY <2>1, <1>2 DEF ToSet
    <3>2. i \in 1..Len(s) \/ i = Len(s) + 1
      BY <1>1
    <3>3. QED
      BY <3>1, <3>2, <1>1, <1>2 DEF ToSet
  <2>2. ASSUME NEW x \in ToSet(s) \cup {e} PROVE x \in ToSet(t)
    <3>1. CASE x = e
      BY <3>1, <1>1, <1>2 DEF ToSet
    <3>2. CASE x \in ToSet(s)
      <4>1. PICK i \in 1..Len(s) : s[i] = x
        BY <3>2, <1>2 DEF ToSet
      <4>2. i \in DOMAIN t /\ t[i] = x
        BY <4>1, <1>1, <1>2
      <4>3. QED
        BY <4>2 DEF ToSet
    <3>3. QED
      BY <2>2, <3>1, <3>2
  <2>3. QED
    BY <2>1, <2>2
<1>4. e \notin ToSet(s) /\ IsInjective(s) => IsInjective(t)
  <2> SUFFICES ASSUME e \notin ToSet(s), IsInjective(s),
                      NEW i \in 1..Len(t), NEW j \in 1..Len(t), t[i] = t[j]
               PROVE  i = j
    BY <1>2 DEF IsInjective
  <2>1. \A k \in 1..Len(s) : s[k] # e
    BY <1>2 DEF ToSet
  <2>2. (i \in 1..Len(s) \/ i = Len(s) + 1) /\ (j \in 1..Len(s) \/ j = Len(s) + 1)
    BY <1>1
  <2>3. CASE i \in 1..Len(s) /\ j \in 1..Len(s)
    BY <2>3, <1>1, <1>2 DEF IsInjective
  <2>4. QED
    BY <2>1, <2>2, <2>3, <1>1
<1>5. QED
  BY <1>1, <1>3, <1>4 DEF t, Last

LEMMA ConcatIs ==
  ASSUME NEW S, NEW s \in Seq(S), NEW t \in Seq(S)
  PROVE  /\ s \o t \in Seq(S)
         /\ ToSet(s \o t) = ToSet(s) \cup ToSet(t)
<1> DEFINE u == s \o t
<1>1. /\ u \in Seq(S) /\ Len(u) = Len(s) + Len(t) /\ Len(s) \in Nat /\ Len(t) \in Nat
      /\ \A i \in 1..Len(u) : u[i] = IF i <= Len(s) THEN s[i] ELSE t[i - Len(s)]
  BY ConcatProperties
<1> HIDE DEF u
<1>2. DOMAIN u = 1..Len(u) /\ DOMAIN s = 1..Len(s) /\ DOMAIN t = 1..Len(t)
  BY <1>1
<1>3. ASSUME NEW x \in ToSet(u) PROVE x \in ToSet(s) \cup ToSet(t)
  <2>1. PICK i \in 1..Len(u) : u[i] = x
    BY <1>3, <1>2 DEF ToSet
  <2>2. CASE i <= Len(s)
    BY <2>1, <2>2, <1>1, <1>2 DEF ToSet
  <2>3. CASE ~(i <= Len(s))
    <3>1. i - Len(s) \in 1..Len(t) /\ t[i - Len(s)] = x
      BY <2>1, <2>3, <1>1
    <3>2. QED
      BY <3>1, <1>2 DEF ToSet
  <2>4. QED
    BY <2>2, <2>3
<1>4. ASSUME NEW x \in ToSet(s) PROVE x \in ToSet(u)
  <2>1. PICK i \in 1..Len(s) : s[i] = x
    BY <1>4, <1>2 DEF ToSet
  <2>2. i \in 1..Len(u) /\ u[i] = x
    BY <2>1, <1>1
  <2>3. QED
    BY <2>2, <1>2 DEF ToSet
<1>5. ASSUME NEW x \in ToSet(t) PROVE x \in ToSet(u)
  <2>1. PICK i \in 1..Len(t) : t[i] = x
    BY <1>5, <1>2 DEF ToSet
  <2>2. PICK k \in 1..Len(u) : k = i + Len(s)
    BY <1>1
  <2>3. ~(k <= Len(s)) /\ k - Len(s) = i
    BY <2>2, <1>1
  <2>4. u[k] = x
    BY <2>1, <2>3, <1>1
  <2>5. QED
    BY <2>4, <1>2 DEF ToSet
<1>6. QED
  BY <1>1, <1>3, <1>4, <1>5 DEF u

LEMMA AscendingExists ==
  ASSUME NEW S, S \subseteq Seqs
  PROVE  \E es \in SetToSeqs(S) : \A i, j \in DOMAIN es : i < j => es[i] < es[j]
<1> DEFINE n == Cardinality(S)
           Below(e) == {d \in S : d <= e}
           rank == [e \in S |-> Cardinality(Below(e))]
           es == [i \in 1..n |-> CHOOSE e \in S : rank[e] = i]
<1>1. IsFiniteSet(S) /\ n \in Nat /\ S \subseteq Nat
  BY SeqsFinite, FS_Subset, FS_CardinalityType
<1>2. ASSUME NEW e \in S
      PROVE  IsFiniteSet(Below(e)) /\ Cardinality(Below(e)) \in 1..n
  <2>1. Below(e) \in SUBSET S /\ e \in Below(e)
    BY <1>1
  <2>2. IsFiniteSet(Below(e)) /\ Cardinality(Below(e)) <= n
    BY <2>1, <1>1, FS_Subset
  <2>3. Cardinality(Below(e)) \in Nat /\ Cardinality(Below(e)) # 0
    BY <2>1, <2>2, FS_CardinalityType, FS_EmptySet
  <2>4. QED
    BY <2>2, <2>3, <1>1
<1>3. ASSUME NEW d \in S, NEW e \in S, d < e
      PROVE  rank[d] < rank[e]
  <2>1. d \in Nat /\ e \in Nat /\ \A x \in S : x \in Nat
    BY <1>1
  <2>2. ASSUME NEW x \in Below(d) PROVE x \in Below(e)
    BY <2>1, <1>3
  <2>3. e \in Below(e) /\ e \notin Below(d)
    BY <2>1, <1>3
  <2>4. Cardinality(Below(d)) <= Cardinality(Below(e)) /\ Cardinality(Below(d)) # Cardinality(Below(e))
    BY <2>2, <2>3, <1>2, FS_Subset
  <2>5. QED
    BY <2>4, <1>2
<1>4. rank \in Injection(S, 1..n)
  <2>1. rank \in [S -> 1..n]
    BY <1>2
  <2>2. ASSUME NEW d \in S, NEW e \in S, rank[d] = rank[e] PROVE d = e
    <3>1. d \in Nat /\ e \in Nat /\ rank[d] \in Nat
      BY <1>1, <2>1
    <3> HIDE DEF rank
    <3>2. ~(d < e) /\ ~(e < d)
      BY <1>3, <2>2, <3>1
    <3>3. QED
      BY <3>1, <3>2
  <2> HIDE DEF rank
  <2>3. QED
    BY <2>1, <2>2 DEF Injection, IsInjective
<1>5. rank \in Surjection(S, 1..n)
  <2>1. IsFiniteSet(1..n) /\ Cardinality(1..n) = n
    BY <1>1, FS_Interval
  <2>2. QED
    BY <2>1, <1>4, FS_Injection
<1>6. \A e \in S : rank[e] \in 1..n
  BY <1>2
<1> HIDE DEF rank
<1>7. ASSUME NEW i \in 1..n PROVE es[i] \in S /\ rank[es[i]] = i
  <2>1. \E e \in S : rank[e] = i
    BY <1>5 DEF Surjection
  <2>2. QED
    BY <2>1
<1> HIDE DEF n
<1>8. DOMAIN es = 1..n
  OBVIOUS
<1> HIDE DEF es
<1>9. ASSUME NEW i \in 1..n, NEW j \in 1..n, i < j PROVE es[i] < es[j]
  <2>1. es[i] \in Nat /\ es[j] \in Nat
    BY <1>1, <1>7
  <2>2. es[i] # es[j] /\ ~(es[j] < es[i])
    BY <1>3, <1>7, <1>9
  <2>3. QED
    BY <2>1, <2>2
<1>10. \A i, j \in 1..n : i # j => es[i] # es[j]
  BY <1>7
<1>11. es \in SetToSeqs(S)
  BY <1>7, <1>8, <1>10 DEF SetToSeqs, n, es
<1>12. QED
  BY <1>8, <1>9, <1>11

LEMMA SetToSeqsAre ==
  ASSUME NEW S, IsFiniteSet(S), NEW es \in SetToSeqs(S)
  PROVE  es \in Seq(S) /\ IsInjective(es) /\ ToSet(es) = S
<1> DEFINE n == Cardinality(S)
<1>1. n \in Nat /\ es \in [1..n -> S] /\ IsInjective(es)
  BY FS_CardinalityType DEF SetToSeqs, IsInjective
<1>2. es \in Surjection(1..n, S)
  <2>1. es \in Injection(1..n, S) /\ Cardinality(1..n) = n
    BY <1>1, FS_Interval DEF Injection
  <2>2. QED
    BY <2>1, FS_Injection
<1> HIDE DEF n
<1>3. es \in Seq(S)
  BY <1>1
<1>4. ToSet(es) = S
  BY <1>1, <1>2 DEF ToSet, Surjection
<1>5. QED
  BY <1>1, <1>3, <1>4

\* The query and the filter of the replay: the stored events behind the cursor.
LEMMA AfterIs ==
  ASSUME stored \in Seq(Seqs), NEW c
  PROVE  /\ After(c) \in Seq(Seqs) /\ IsInjective(After(c))
         /\ ToSet(After(c)) = {e \in ToSet(stored) : e > c}
<1> DEFINE S == {e \in ToSet(stored) : e > c}
<1>1. S \subseteq Seqs
  BY ToSetOf
<1>2. IsFiniteSet(S)
  BY <1>1, SeqsFinite, FS_Subset
<1>3. After(c) \in SetToSeqs(S)
  <2>1. \E es \in SetToSeqs(S) : \A i, j \in DOMAIN es : i < j => es[i] < es[j]
    BY <1>1, AscendingExists
  <2> HIDE DEF S
  <2>2. After(c) = CHOOSE es \in SetToSeqs(S) : \A i, j \in DOMAIN es : i < j => es[i] < es[j]
    BY DEF After, S
  <2>3. QED
    BY <2>1, <2>2
<1>4. After(c) \in Seq(S) /\ IsInjective(After(c)) /\ ToSet(After(c)) = S
  BY <1>2, <1>3, SetToSeqsAre
<1>5. QED
  BY <1>1, <1>4

\* The server writes a replay up to the run's last event.
LEMMA WrittenIs ==
  ASSUME NEW es \in Seq(Seqs)
  PROVE  /\ Written(es) \in Seq(Seqs)
         /\ ToSet(Written(es)) \subseteq ToSet(es)
         /\ IsInjective(es) => IsInjective(Written(es))
         /\ ~Ended(es) => Written(es) = es
<1> DEFINE n == Len(es)
           I == {i \in DOMAIN es : finish \notin ToSet(SubSeq(es, 1, i - 1))}
           k == Cardinality(I)
           w == SubSeq(es, 1, k)
<1>1. n \in Nat /\ DOMAIN es = 1..n /\ \A i \in 1..n : es[i] \in Seqs
  OBVIOUS
<1>2. I \in SUBSET (1..n) /\ IsFiniteSet(1..n) /\ Cardinality(1..n) = n
  <2>1. I \in SUBSET (1..n)
    BY <1>1
  <2> HIDE DEF n
  <2>2. IsFiniteSet(1..n) /\ Cardinality(1..n) = n
    BY <1>1, FS_Interval
  <2>3. QED
    BY <2>1, <2>2
<1>3. k \in 0..n
  BY <1>1, <1>2, FS_Subset, FS_CardinalityType
<1>4. /\ w \in Seq(Seqs) /\ Len(w) = k
      /\ \A i \in 1..k : w[i] = es[i]
  <2> HIDE DEF k, n
  <2>1. 1 \in Int /\ k \in Int /\ k <= n /\ k >= 0 /\ \A i \in 1..k : es[i] \in Seqs
    BY <1>1, <1>3
  <2>2. /\ w \in Seq(Seqs) /\ Len(w) = (IF 1 <= k THEN k - 1 + 1 ELSE 0)
        /\ \A i \in 1..(k - 1 + 1) : w[i] = es[1 + i - 1]
    BY <2>1, SubSeqProperties
  <2>3. Len(w) = k
    BY <2>1, <2>2
  <2>4. ASSUME NEW i \in 1..k PROVE w[i] = es[i]
    BY <2>1, <2>2
  <2>5. QED
    BY <2>2, <2>3, <2>4
<1>5. Written(es) = w
  BY DEF Written
<1>6. ToSet(w) \subseteq ToSet(es) /\ (IsInjective(es) => IsInjective(w))
  <2> HIDE DEF w, k, n
  <2>1. DOMAIN w = 1..k /\ 1..k \subseteq 1..n
    BY <1>3, <1>4, <1>1
  <2>2. QED
    BY <2>1, <1>1, <1>4 DEF ToSet, IsInjective
<1>7. ASSUME ~Ended(es) PROVE w = es
  <2>1. ASSUME NEW i \in 1..n PROVE i \in I
    <3>1. \A j \in 1..(i - 1) : es[j] \in Seqs
      BY <1>1
    <3>2. /\ SubSeq(es, 1, i - 1) \in Seq(Seqs)
          /\ Len(SubSeq(es, 1, i - 1)) = i - 1
          /\ \A j \in 1..(i - 1) : SubSeq(es, 1, i - 1)[j] = es[j]
      <4> HIDE DEF n
      <4>1. 1 \in Int /\ i - 1 \in Int /\ i - 1 >= 0
        BY <1>1
      <4>2. /\ SubSeq(es, 1, i - 1) \in Seq(Seqs)
            /\ Len(SubSeq(es, 1, i - 1)) = (IF 1 <= i - 1 THEN (i - 1) - 1 + 1 ELSE 0)
            /\ \A j \in 1..((i - 1) - 1 + 1) : SubSeq(es, 1, i - 1)[j] = es[1 + j - 1]
        BY <4>1, <3>1, SubSeqProperties
      <4>3. Len(SubSeq(es, 1, i - 1)) = i - 1
        BY <4>1, <4>2
      <4>4. ASSUME NEW j \in 1..(i - 1) PROVE SubSeq(es, 1, i - 1)[j] = es[j]
        BY <4>1, <4>2
      <4>5. QED
        BY <4>2, <4>3, <4>4
    <3>3. finish \notin ToSet(es)
      BY <1>7 DEF Ended
    <3>4. 1..(i - 1) \subseteq 1..n
      BY <1>1
    <3>5. ToSet(SubSeq(es, 1, i - 1)) \subseteq ToSet(es)
      BY <3>2, <3>4, <1>1 DEF ToSet
    <3>6. QED
      BY <3>3, <3>5, <1>1
  <2>2. I = 1..n
    BY <2>1, <1>2
  <2>3. k = n
    BY <2>2, <1>2
  <2>4. QED
    BY <2>3, SubSeqFull
<1>8. QED
  BY <1>4, <1>5, <1>6, <1>7

-----------------------------------------------------------------------------
(* What a step does to the log, and what one stream sees of it.            *)

\* The log only grows, what was told stays told, and a stored event keeps its
\* turn.
LogGrows ==
  /\ log' = log /\ home' = home
  /\ ToSet(stored) \subseteq ToSet(stored')
  /\ Told \subseteq Told'
  /\ \A e \in ToSet(stored) : Teller(e)' = Teller(e)

Keeps(s) == stream'[s] = stream[s] /\ got'[s] = got[s] /\ before'[s] = before[s]

\* Nothing that happens is for this stream.
Idles(s) ==
  /\ Keeps(s)
  /\ Registered(s) => \A e \in Told' \ Told : Teller(e)' # stream[s].by

\* Its process tells an event, once, and in memory in the step that stores it.
Hears(s, e) ==
  /\ Registered(s) /\ e \in Seqs \ Told /\ e \in ToSet(stored')
  /\ Told' = Told \cup {e} /\ Teller(e)' = stream[s].by
  /\ Memory => e \notin ToSet(stored)
  /\ got'[s] = Append(got[s], e)
  /\ stream'[s] \in {stream[s], [stream[s] EXCEPT !.pc = "ended"]}
  /\ before'[s] = before[s]

LogKeeps == Told' = Told /\ stored' = stored /\ pub' = pub

Subscribes(s) ==
  /\ stream[s].pc = "closed" /\ LogKeeps
  /\ \E p \in Processes, c \in {Start} \cup Seqs :
       stream'[s] = [pc |-> IF Memory THEN "replaying" ELSE "reading", by |-> p,
                     cursor |-> c, replay |-> IF Memory THEN After(c) ELSE <<>>]
  /\ before'[s] = [stored |-> ToSet(stored), told |-> Told]
  /\ got'[s] = got[s]

Reads(s) ==
  /\ stream[s].pc = "reading" /\ LogKeeps
  /\ stream'[s] = [stream[s] EXCEPT !.pc = "replaying", !.replay = After(stream[s].cursor)]
  /\ before'[s] = before[s] /\ got'[s] = got[s]

Writes(s) ==
  /\ stream[s].pc = "replaying" /\ LogKeeps
  /\ got'[s] = got[s] \o Written(stream[s].replay)
  /\ stream'[s] = [stream[s] EXCEPT !.replay = <<>>,
                     !.pc = IF Ended(stream[s].replay) THEN "ended" ELSE "live"]
  /\ before'[s] = before[s]

Closes(s) ==
  /\ Registered(s)
  /\ stream'[s] = Left(s) /\ got'[s] = <<>> /\ before'[s] = Nothing

Sees(s) ==
  \/ Idles(s) \/ Subscribes(s) \/ Reads(s) \/ Writes(s) \/ Closes(s)
  \/ \E e \in Seqs : Hears(s, e)

\* TypeOK, by the variables that change together.
LogTyped ==
  /\ log \in Logs /\ home \in Homes
  /\ maxSeq \in {Start} \cup Seqs
  /\ pub \in [Seqs -> [pc : {"idle", "numbered", "stored", "told", "failed"}, by : Turns]]
  /\ finish \in {Start} \cup Seqs
  /\ stored \in Seq(Seqs) /\ IsInjective(stored)
  /\ opens \in 0..MaxOpens /\ faults \in 0..MaxFaults

Pcs == {"closed", "reading", "replaying", "live", "ended"}
StreamsTyped ==
  /\ stream \in [Streams ->
       [pc : Pcs, by : Processes, cursor : {Start} \cup Seqs, replay : Seq(Seqs)]]
  /\ got \in [Streams -> Seq(Seqs)]
  /\ before \in [Streams -> [stored : SUBSET Seqs, told : SUBSET Seqs]]

LEMMA TypeParts == TypeOK <=> LogTyped /\ StreamsTyped
BY DEF TypeOK, LogTyped, StreamsTyped, Pcs

LEMMA ConstantFacts ==
  /\ MaxEvents \in Nat /\ MaxOpens \in Nat /\ MaxFaults \in Nat
  /\ \E t \in Turns : NoPublish = [pc |-> "idle", by |-> t]
  /\ \E p \in Processes :
       NoStream = [pc |-> "closed", by |-> p, cursor |-> Start, replay |-> <<>>]
BY EventLogAssumption DEF NoPublish, NoStream

LEMMA InitInv == Init => Inv
<1> SUFFICES ASSUME Init PROVE Inv
  OBVIOUS
<1>1. LogTyped
  BY ConstantFacts DEF Init, LogTyped, Seqs, Start, IsInjective
<1>2. StreamsTyped
  <2>1. NoStream \in [pc : Pcs, by : Processes, cursor : {Start} \cup Seqs, replay : Seq(Seqs)]
      <3>1. PICK p \in Processes :
            NoStream = [pc |-> "closed", by |-> p, cursor |-> Start, replay |-> <<>>]
      BY ConstantFacts
    <3>2. "closed" \in Pcs /\ Start \in {Start} \cup Seqs /\ <<>> \in Seq(Seqs)
      BY DEF Pcs
    <3>3. QED
      BY <3>1, <3>2
  <2>2. <<>> \in Seq(Seqs) /\ Nothing \in [stored : SUBSET Seqs, told : SUBSET Seqs]
    BY DEF Nothing
  <2>3. QED
    BY <2>1, <2>2 DEF Init, StreamsTyped
<1>3. ToSet(stored) = {} /\ \A s \in Streams : ToSet(got[s]) = {}
  BY DEF Init, ToSet
<1>4. Numbered
  BY ConstantFacts, EventLogAssumption DEF Init, Numbered, Seqs, Start
<1>5. RowsKept /\ MemoryEndsWithFinish
  BY <1>3, ConstantFacts DEF Init, RowsKept, MemoryEndsWithFinish
<1>6. ASSUME NEW s \in Streams PROVE StreamInv(s)
  <2>1. stream[s] = NoStream /\ before[s] = Nothing /\ got[s] = <<>>
    BY DEF Init
  <2>2. stream[s].pc = "closed"
    BY <2>1, ConstantFacts
  <2>3. Seen(s)
    BY <1>3, <2>1 DEF Seen, Nothing
  <2>4. QED
    BY <2>1, <2>2, <2>3 DEF StreamInv, Heard, Registered, Replayed, ReplayRead, LiveOnly,
                            NotReading, Repeats
<1>7. QED
  BY <1>1, <1>2, <1>4, <1>5, <1>6, TypeParts DEF Inv, LogInv

-----------------------------------------------------------------------------
(* The steps of the publishers.                                            *)

LEMMA NumberKeeps ==
  ASSUME LogInv, NEW t \in Turns, Number(t), stored' = stored, log' = log, home' = home,
         opens' = opens, faults' = faults,
         finish' = finish \/ (finish' = maxSeq + 1 /\ finish = Start)
  PROVE  LogTyped' /\ Numbered' /\ RowsKept' /\ MemoryEndsWithFinish' /\ LogGrows /\ Told' = Told
<1> DEFINE e == maxSeq + 1
<1>1. LogTyped /\ Numbered /\ RowsKept /\ MemoryEndsWithFinish
  BY TypeParts DEF LogInv
<1>2. e \in Seqs /\ maxSeq' = e /\ pub' = [pub EXCEPT ![e] = [pc |-> "numbered", by |-> t]]
  BY DEF Number
<1>3. e \in Nat /\ maxSeq < e /\ Seqs \subseteq Nat /\ maxSeq \in Int
  BY <1>1, <1>2, SeqsFinite DEF LogTyped, Start
<1>4. pub[e].pc = "idle" /\ e \notin ToSet(stored)
  BY <1>1, <1>2, <1>3 DEF Numbered, RowsKept
<1>5. LogTyped'
  BY <1>1, <1>2 DEF LogTyped
<1>6. pub \in [Seqs -> [pc : {"idle", "numbered", "stored", "told", "failed"}, by : Turns]]
  BY <1>1 DEF LogTyped
<1> HIDE DEF e
<1>7. /\ pub'[e].pc = "numbered"
      /\ \A d \in Seqs \ {e} : pub'[d] = pub[d]
  BY <1>2, <1>6
<1>8. Numbered'
  <2>1. ASSUME NEW d \in Seqs PROVE pub'[d].pc = "idle" <=> d > maxSeq'
    <3>1. CASE d = e
      BY <3>1, <1>2, <1>3, <1>7
    <3>2. CASE d # e
      <4>1. d > maxSeq <=> d > e
        BY <3>2, <1>2, <1>3, <2>1 DEF e
      <4>2. QED
        BY <3>2, <4>1, <1>1, <1>2, <1>7, <2>1 DEF Numbered
    <3>3. QED
      BY <3>1, <3>2
  <2>2. finish' = Start \/ finish' <= maxSeq'
    <3>1. CASE finish' = finish
      <4>1. finish = Start \/ (finish \in Nat /\ finish <= maxSeq)
        BY <1>1, <1>3 DEF Numbered, LogTyped
      <4>2. QED
        BY <3>1, <4>1, <1>2, <1>3
    <3>2. CASE finish' = maxSeq + 1
      BY <3>2, <1>2, <1>3 DEF e
    <3>3. QED
      BY <3>1, <3>2
  <2>3. QED
    BY <2>1, <2>2 DEF Numbered
<1>9. RowsKept'
  BY <1>1, <1>4, <1>7 DEF RowsKept, Memory
<1>10. MemoryEndsWithFinish'
  BY <1>1, <1>4 DEF MemoryEndsWithFinish, Memory, e
<1>11. Told' = Told
  BY <1>4, <1>7, <1>2 DEF Told
<1>12. LogGrows
  <2>1. ToSet(stored) \subseteq Seqs
    BY <1>1, ToSetOf DEF LogTyped
  <2>2. QED
    BY <2>1, <1>4, <1>7, <1>11 DEF LogGrows, Teller
<1>13. QED
  BY <1>5, <1>8, <1>9, <1>10, <1>11, <1>12

\* A publish call moves on, and its event may be stored or told with it.
LEMMA PublishKeeps ==
  ASSUME LogInv, NEW e \in Seqs,
         NEW pc \in {"stored", "told", "failed"},
         pub' = [pub EXCEPT ![e].pc = pc],
         UNCHANGED <<log, home, maxSeq, finish, opens>>, faults' \in 0..MaxFaults,
         \/ stored' = stored /\ pub[e].pc = "stored" /\ pc = "told"
         \/ stored' = stored /\ pub[e].pc = "numbered" /\ pc = "failed"
         \/ /\ stored' = Append(stored, e) /\ pub[e].pc = "numbered"
            /\ Memory => finish \notin ToSet(stored) /\ pc = "told"
            /\ pc = "told" => Memory
  PROVE  /\ LogTyped' /\ Numbered' /\ RowsKept' /\ MemoryEndsWithFinish' /\ LogGrows
         /\ Told' = IF pc = "told" THEN Told \cup {e} ELSE Told
         /\ e \notin Told
         /\ pc = "told" => e \in ToSet(stored')
         /\ stored' # stored => e \notin ToSet(stored)
         /\ Teller(e)' = Teller(e)
<1>1. LogTyped /\ Numbered /\ RowsKept /\ MemoryEndsWithFinish
  BY TypeParts DEF LogInv
<1>2. pub \in [Seqs -> [pc : {"idle", "numbered", "stored", "told", "failed"}, by : Turns]]
  BY <1>1 DEF LogTyped
<1>3. /\ pub'[e].pc = pc /\ \A d \in Seqs : pub'[d].by = pub[d].by
      /\ \A d \in Seqs \ {e} : pub'[d] = pub[d]
      /\ pub' \in [Seqs -> [pc : {"idle", "numbered", "stored", "told", "failed"}, by : Turns]]
  BY <1>2
<1>4. stored' = stored \/ (e \notin ToSet(stored) /\ stored' = Append(stored, e) /\ pub[e].pc = "numbered")
  BY <1>1 DEF RowsKept
<1>5. stored \in Seq(Seqs) /\ IsInjective(stored)
  BY <1>1 DEF LogTyped
<1> DEFINE more == Append(stored, e)
<1>a. /\ more \in Seq(Seqs) /\ ToSet(more) = ToSet(stored) \cup {e} /\ Last(more) = e
      /\ e \notin ToSet(stored) => IsInjective(more)
  BY <1>5, AppendIs
<1> HIDE DEF more
<1>b. stored' = stored \/ (e \notin ToSet(stored) /\ stored' = more /\ pub[e].pc = "numbered")
  BY <1>4 DEF more
<1>6. stored' \in Seq(Seqs) /\ IsInjective(stored')
  BY <1>a, <1>b, <1>5
<1>7. ToSet(stored) \subseteq Seqs
  BY <1>5, ToSetOf
<1>8. \/ stored' = stored
      \/ /\ ToSet(stored') = ToSet(stored) \cup {e} /\ Last(stored') = e
         /\ e \notin ToSet(stored) /\ pub[e].pc = "numbered"
         /\ stored' = Append(stored, e)
  BY <1>a, <1>b DEF more
<1>9. LogTyped'
  BY <1>1, <1>3, <1>6 DEF LogTyped
<1>10. Numbered'
  BY <1>1, <1>3 DEF Numbered
<1>11. RowsKept'
  <2>1. ASSUME NEW d \in Seqs \ {e}
        PROVE  pub'[d] = pub[d] /\ (d \in ToSet(stored') <=> d \in ToSet(stored))
    BY <1>3, <1>8
  <2>2. /\ pc \in {"stored", "told"} => e \in ToSet(stored')
        /\ Memory => pc # "stored" /\ (e \in ToSet(stored') => pc = "told")
    BY <1>1, <1>8 DEF RowsKept
  <2>3. QED
    BY <1>1, <1>3, <2>1, <2>2 DEF RowsKept, Memory
<1>12. MemoryEndsWithFinish'
  BY <1>1, <1>8, <1>4 DEF MemoryEndsWithFinish, Memory, RowsKept
<1>13. e \notin Told /\ Told' = IF pc = "told" THEN Told \cup {e} ELSE Told
  BY <1>3 DEF Told
<1>14. LogGrows
  BY <1>3, <1>7, <1>8, <1>13 DEF LogGrows, Teller
<1>15. pc = "told" => e \in ToSet(stored')
  BY <1>11, <1>3 DEF RowsKept
<1>16. QED
  BY <1>3, <1>8, <1>9, <1>10, <1>11, <1>12, <1>13, <1>14, <1>15 DEF Teller

-----------------------------------------------------------------------------
(* The steps of the streams.                                               *)

LEMMA NotifiedSees ==
  ASSUME LogInv, NEW e \in Seqs, e \notin Told, e \in ToSet(stored'),
         Told' = Told \cup {e}, Teller(e)' = Teller(e),
         Memory => e \notin ToSet(stored),
         Notified(Teller(e), e), before' = before
  PROVE  StreamsTyped' /\ \A s \in Streams : Idles(s) \/ Hears(s, e)
<1> DEFINE p == Teller(e)
           hears(s) == Registered(s) /\ stream[s].by = p
<1>1. StreamsTyped
  BY TypeParts DEF LogInv
<1>2. /\ got' = [s \in Streams |-> IF hears(s) THEN Append(got[s], e) ELSE got[s]]
      /\ stream' = [s \in Streams |->
           IF hears(s) /\ Ended(<<e>>) THEN [stream[s] EXCEPT !.pc = "ended"]
           ELSE stream[s]]
  BY DEF Notified
<1>3. p = Teller(e)
  OBVIOUS
<1> HIDE DEF p
<1>4. ASSUME NEW s \in Streams PROVE Idles(s) \/ Hears(s, e)
  <2>1. CASE hears(s)
    <3>1. /\ got'[s] = Append(got[s], e) /\ before'[s] = before[s]
          /\ stream'[s] \in {stream[s], [stream[s] EXCEPT !.pc = "ended"]}
      BY <1>2, <2>1
    <3>2. Hears(s, e)
      BY <3>1, <2>1, <1>3 DEF Hears
    <3>3. QED
      BY <3>2
  <2>2. CASE ~hears(s)
    <3>1. Keeps(s)
      BY <1>2, <2>2 DEF Keeps
    <3>2. Registered(s) => \A d \in Told' \ Told : Teller(d)' # stream[s].by
      BY <2>2, <1>3
    <3>3. QED
      BY <3>1, <3>2 DEF Idles
  <2>3. QED
    BY <2>1, <2>2
<1>5. ASSUME NEW s \in Streams PROVE Append(got[s], e) \in Seq(Seqs)
  BY <1>1, AppendIs DEF StreamsTyped
<1>6. got' \in [Streams -> Seq(Seqs)]
  BY <1>1, <1>2, <1>5 DEF StreamsTyped
<1>7. stream' \in [Streams ->
       [pc : Pcs, by : Processes, cursor : {Start} \cup Seqs, replay : Seq(Seqs)]]
  BY <1>1, <1>2 DEF StreamsTyped, Pcs
<1>8. QED
  BY <1>1, <1>4, <1>6, <1>7 DEF StreamsTyped

LEMMA LeftIs ==
  ASSUME StreamsTyped, NEW s \in Streams
  PROVE  /\ Left(s) \in [pc : Pcs, by : Processes, cursor : {Start} \cup Seqs, replay : Seq(Seqs)]
         /\ Left(s).pc = "closed"
<1>1. PICK p \in Processes :
        NoStream = [pc |-> "closed", by |-> p, cursor |-> Start, replay |-> <<>>]
  BY ConstantFacts
<1> DEFINE c == IF got[s] = <<>> THEN stream[s].cursor ELSE Last(got[s])
<1>2. c \in {Start} \cup Seqs
  <2>1. got[s] \in Seq(Seqs) /\ stream[s].cursor \in {Start} \cup Seqs
    BY DEF StreamsTyped
  <2>2. got[s] # <<>> => Last(got[s]) \in Seqs
    BY <2>1 DEF Last
  <2>3. QED
    BY <2>1, <2>2
<1>3. Left(s) = [NoStream EXCEPT !.cursor = c]
  BY DEF Left
<1> HIDE DEF c
<1>4. Left(s) = [pc |-> "closed", by |-> p, cursor |-> c, replay |-> <<>>]
  BY <1>1, <1>3
<1>5. "closed" \in Pcs /\ <<>> \in Seq(Seqs)
  BY DEF Pcs
<1>6. QED
  BY <1>2, <1>4, <1>5

LEMMA CloseSees ==
  ASSUME StreamsTyped, NEW ss, \A s \in Streams : s \in ss => Registered(s), Close(ss),
         Told' = Told
  PROVE  StreamsTyped' /\ \A s \in Streams : Idles(s) \/ Closes(s)
<1>1. \A s \in Streams : Idles(s) \/ Closes(s)
  BY DEF Close, Closes, Idles, Keeps
<1>2. stream' \in [Streams ->
       [pc : Pcs, by : Processes, cursor : {Start} \cup Seqs, replay : Seq(Seqs)]]
  <2>1. \A s \in Streams :
          /\ stream[s] \in [pc : Pcs, by : Processes, cursor : {Start} \cup Seqs, replay : Seq(Seqs)]
          /\ Left(s) \in [pc : Pcs, by : Processes, cursor : {Start} \cup Seqs, replay : Seq(Seqs)]
    BY LeftIs DEF StreamsTyped
  <2>2. QED
    BY <2>1 DEF Close
<1>3. got' \in [Streams -> Seq(Seqs)]
  BY DEF Close, StreamsTyped
<1>4. before' \in [Streams -> [stored : SUBSET Seqs, told : SUBSET Seqs]]
  <2>1. Nothing \in [stored : SUBSET Seqs, told : SUBSET Seqs]
    BY DEF Nothing
  <2>2. QED
    BY <2>1 DEF Close, StreamsTyped
<1>5. QED
  BY <1>1, <1>2, <1>3, <1>4 DEF StreamsTyped

\* What a step of one stream leaves alone.
Alone(s) == LogKeeps /\ \A q \in Streams \ {s} : Keeps(q)

LEMMA AloneSees ==
  ASSUME StreamsTyped, NEW s \in Streams, Alone(s), Subscribes(s) \/ Reads(s) \/ Writes(s),
         stored \in Seq(Seqs),
         \/ stream' = [stream EXCEPT ![s] = stream'[s]] /\ got' = got
            /\ before' = [before EXCEPT ![s] = before'[s]]
         \/ stream' = [stream EXCEPT ![s] = stream'[s]]
            /\ got' = [got EXCEPT ![s] = got'[s]] /\ before' = before
  PROVE  StreamsTyped' /\ \A q \in Streams : Sees(q)
<1> DEFINE St == [pc : Pcs, by : Processes, cursor : {Start} \cup Seqs, replay : Seq(Seqs)]
<1>1. /\ stream[s] \in St /\ got[s] \in Seq(Seqs)
      /\ before[s] \in [stored : SUBSET Seqs, told : SUBSET Seqs]
  BY DEF StreamsTyped
<1>2. \A c : After(c) \in Seq(Seqs)
  BY AfterIs
<1>3. stream'[s] \in St
  <2>1. CASE Subscribes(s)
    <3>1. PICK p \in Processes, c \in {Start} \cup Seqs :
       stream'[s] = [pc |-> IF Memory THEN "replaying" ELSE "reading", by |-> p,
                     cursor |-> c, replay |-> IF Memory THEN After(c) ELSE <<>>]
      BY <2>1 DEF Subscribes
    <3>2. /\ (IF Memory THEN "replaying" ELSE "reading") \in Pcs
          /\ (IF Memory THEN After(c) ELSE <<>>) \in Seq(Seqs)
      BY <1>2 DEF Pcs
    <3>3. QED
      BY <3>1, <3>2
  <2>2. CASE Reads(s)
    <3>1. /\ stream'[s] = [stream[s] EXCEPT !.pc = "replaying", !.replay = After(stream[s].cursor)]
          /\ "replaying" \in Pcs /\ After(stream[s].cursor) \in Seq(Seqs)
      BY <2>2, <1>2 DEF Reads, Pcs
    <3>2. QED
      BY <3>1, <1>1
  <2>3. CASE Writes(s)
    <3>1. PICK pc \in Pcs : stream'[s] = [stream[s] EXCEPT !.replay = <<>>, !.pc = pc]
      BY <2>3 DEF Writes, Pcs
    <3>2. <<>> \in Seq(Seqs)
      OBVIOUS
    <3>3. QED
      BY <3>1, <3>2, <1>1
  <2>4. QED
    BY <2>1, <2>2, <2>3
<1>4. got'[s] \in Seq(Seqs)
  <2>1. CASE Writes(s)
    <3>1. stream[s].replay \in Seq(Seqs)
      BY <1>1
    <3>2. Written(stream[s].replay) \in Seq(Seqs)
      BY <3>1, WrittenIs
    <3>3. got[s] \o Written(stream[s].replay) \in Seq(Seqs)
      BY <1>1, <3>2, ConcatIs
    <3>4. QED
      BY <2>1, <3>3 DEF Writes
  <2>2. CASE ~Writes(s)
    BY <2>2, <1>1 DEF Subscribes, Reads
  <2>3. QED
    BY <2>1, <2>2
<1>5. before'[s] \in [stored : SUBSET Seqs, told : SUBSET Seqs]
  <2>1. CASE Subscribes(s)
    <3>1. ToSet(stored) \in SUBSET Seqs /\ Told \in SUBSET Seqs
      BY ToSetOf DEF Told
    <3>2. QED
      BY <2>1, <3>1 DEF Subscribes
  <2>2. CASE ~Subscribes(s)
    BY <2>2, <1>1 DEF Reads, Writes
  <2>3. QED
    BY <2>1, <2>2
<1>6. /\ stream' \in [Streams -> St] /\ got' \in [Streams -> Seq(Seqs)]
      /\ before' \in [Streams -> [stored : SUBSET Seqs, told : SUBSET Seqs]]
  BY <1>3, <1>4, <1>5 DEF StreamsTyped
<1>7. \A q \in Streams \ {s} : Idles(q)
  BY DEF Alone, LogKeeps, Idles
<1>8. QED
  BY <1>6, <1>7 DEF StreamsTyped, Sees

\* What a step that publishes nothing leaves of the log.
LEMMA LogStays ==
  ASSUME LogInv, UNCHANGED <<log, home, maxSeq, pub, finish, stored>>,
         opens' \in 0..MaxOpens, faults' \in 0..MaxFaults
  PROVE  LogTyped' /\ Numbered' /\ RowsKept' /\ MemoryEndsWithFinish' /\ LogGrows /\ LogKeeps
<1>1. LogTyped /\ Numbered /\ RowsKept /\ MemoryEndsWithFinish
  BY TypeParts DEF LogInv
<1>2. LogTyped'
  BY <1>1 DEF LogTyped
<1>3. Numbered' /\ RowsKept' /\ MemoryEndsWithFinish'
  BY <1>1 DEF Numbered, RowsKept, MemoryEndsWithFinish, Memory
<1>4. LogKeeps /\ LogGrows
  BY DEF LogKeeps, LogGrows, Told, Teller
<1>5. QED
  BY <1>2, <1>3, <1>4

LEMMA PartsTogether ==
  ASSUME LogTyped', StreamsTyped', Numbered', RowsKept', MemoryEndsWithFinish'
  PROVE  LogInv'
BY DEF LogInv, TypeOK, LogTyped, StreamsTyped, Pcs

LEMMA CrashMoves ==
  ASSUME LogInv, NEW p \in Processes, Crash(p)
  PROVE  LogInv' /\ LogGrows /\ \A s \in Streams : Sees(s)
<1>1. LogTyped /\ StreamsTyped /\ Numbered /\ RowsKept /\ MemoryEndsWithFinish
  BY TypeParts DEF LogInv
<1>2. /\ pub \in [Seqs -> [pc : {"idle", "numbered", "stored", "told", "failed"}, by : Turns]]
      /\ faults \in 0..MaxFaults /\ MaxFaults \in Nat
  BY <1>1, ConstantFacts DEF LogTyped
<1>3. /\ UNCHANGED <<log, home, maxSeq, finish, stored, opens>>
      /\ faults' \in 0..MaxFaults /\ Postgres
      /\ pub' = [e \in Seqs |->
           IF Teller(e) = p /\ Pending(e) THEN [pub[e] EXCEPT !.pc = "failed"] ELSE pub[e]]
  BY <1>2 DEF Crash, Fault
<1>4. ASSUME NEW e \in Seqs
      PROVE  /\ pub'[e] \in [pc : {"idle", "numbered", "stored", "told", "failed"}, by : Turns]
             /\ pub'[e].by = pub[e].by
             /\ \/ pub'[e].pc = pub[e].pc
                \/ pub[e].pc \in {"numbered", "stored"} /\ pub'[e].pc = "failed"
  BY <1>2, <1>3 DEF Pending
<1>5. pub' \in [Seqs -> [pc : {"idle", "numbered", "stored", "told", "failed"}, by : Turns]]
  BY <1>3, <1>4
<1>6. LogTyped'
  BY <1>1, <1>3, <1>5 DEF LogTyped
<1>7. Numbered'
  BY <1>1, <1>3, <1>4 DEF Numbered
<1>8. ~Memory /\ ~Memory'
  BY <1>3 DEF Memory, Postgres
<1>9. RowsKept'
  <2>1. ASSUME NEW e \in Seqs
        PROVE  /\ pub'[e].pc \in {"stored", "told"} => e \in ToSet(stored')
               /\ e \in ToSet(stored') => pub'[e].pc \in {"stored", "told", "failed"}
    <3>1. /\ pub[e].pc \in {"stored", "told"} => e \in ToSet(stored)
          /\ e \in ToSet(stored) => pub[e].pc \in {"stored", "told", "failed"}
      BY <1>1 DEF RowsKept
    <3>2. stored' = stored
      BY <1>3
    <3>3. QED
      BY <1>4, <3>1, <3>2
  <2>2. QED
    BY <2>1, <1>8 DEF RowsKept
<1>10. MemoryEndsWithFinish'
  BY <1>8 DEF MemoryEndsWithFinish
<1>11. Told' = Told
  BY <1>4 DEF Told
<1>12. LogGrows
  <2>1. ToSet(stored) \subseteq Seqs
    BY <1>1, ToSetOf DEF LogTyped
  <2>2. QED
    BY <2>1, <1>3, <1>4, <1>11 DEF LogGrows, Teller
<1>13. StreamsTyped' /\ \A s \in Streams : Idles(s) \/ Closes(s)
  <2>1. Close({s \in Streams : stream[s].by = p /\ Registered(s)})
    BY DEF Crash
  <2>2. QED
    BY <2>1, <1>1, <1>11, CloseSees
<1>14. QED
  BY <1>6, <1>7, <1>9, <1>10, <1>12, <1>13, PartsTogether DEF Sees

LEMMA PublishMoves ==
  ASSUME LogInv, NEW e \in Seqs, PublishStep(e)
  PROVE  LogInv' /\ LogGrows /\ \A s \in Streams : Sees(s)
<1>1. LogTyped /\ StreamsTyped /\ faults \in 0..MaxFaults /\ MaxFaults \in Nat
  BY TypeParts, ConstantFacts DEF LogInv, LogTyped
<1> DEFINE LogNext == LogTyped' /\ Numbered' /\ RowsKept' /\ MemoryEndsWithFinish' /\ LogGrows
<1>2. ASSUME Told' = Told, UNCHANGED <<stream, got, before>>
      PROVE  StreamsTyped' /\ \A s \in Streams : Sees(s)
  BY <1>1, <1>2 DEF StreamsTyped, Sees, Idles, Keeps
<1>3. CASE StoreInMemory(e)
  <2>1. Memory /\ pub[e].pc = "numbered" /\ UNCHANGED <<log, home, maxSeq, finish, opens, faults, before>>
    BY <1>3 DEF StoreInMemory, NextInMemory
  <2>2. CASE /\ finish \notin ToSet(stored)
             /\ pub' = [pub EXCEPT ![e].pc = "told"]
             /\ stored' = Append(stored, e)
             /\ Notified(Teller(e), e)
    <3>1. /\ LogNext /\ Told' = Told \cup {e} /\ e \notin Told /\ e \in ToSet(stored')
          /\ Teller(e)' = Teller(e)
      BY <1>1, <2>1, <2>2, PublishKeeps
    <3>2. e \notin ToSet(stored)
      BY <2>1 DEF LogInv, RowsKept
    <3> HIDE DEF LogNext
    <3>3. StreamsTyped' /\ \A s \in Streams : Idles(s) \/ Hears(s, e)
      BY <2>1, <2>2, <3>1, <3>2, NotifiedSees
    <3> USE DEF LogNext
    <3>4. QED
      BY <3>1, <3>3, PartsTogether DEF Sees
  <2>3. CASE /\ pub' = [pub EXCEPT ![e].pc = "failed"]
             /\ UNCHANGED <<stored, stream, got>>
    <3>1. LogNext /\ Told' = Told
      BY <1>1, <2>1, <2>3, PublishKeeps
    <3>2. StreamsTyped' /\ \A s \in Streams : Sees(s)
      BY <1>2, <2>1, <2>3, <3>1
    <3>3. QED
      BY <3>1, <3>2, PartsTogether
  <2>4. QED
    BY <1>3, <2>2, <2>3 DEF StoreInMemory
<1>4. CASE Insert(e)
  <2>1. /\ Postgres /\ pub[e].pc = "numbered" /\ pub' = [pub EXCEPT ![e].pc = "stored"]
        /\ stored' = Append(stored, e)
        /\ UNCHANGED <<log, home, maxSeq, finish, opens, faults>>
        /\ UNCHANGED <<stream, got, before>>
    BY <1>4 DEF Insert
  <2>2. ~Memory
    BY <2>1 DEF Memory, Postgres
  <2>3. LogNext /\ Told' = Told
    BY <1>1, <2>1, <2>2, PublishKeeps
  <2>4. StreamsTyped' /\ \A s \in Streams : Sees(s)
    BY <1>2, <2>1, <2>3
  <2>5. QED
    BY <2>3, <2>4, PartsTogether
<1>5. CASE InsertFails(e)
  <2>1. /\ Postgres /\ pub[e].pc = "numbered" /\ pub' = [pub EXCEPT ![e].pc = "failed"]
        /\ stored' = stored \/ stored' = Append(stored, e)
        /\ UNCHANGED <<log, home, maxSeq, finish, opens>> /\ faults' \in 0..MaxFaults
        /\ UNCHANGED <<stream, got, before>>
    BY <1>1, <1>5 DEF InsertFails, Fault
  <2>2. ~Memory
    BY <2>1 DEF Memory, Postgres
  <2>3. LogNext /\ Told' = Told
    BY <2>1, <2>2, PublishKeeps
  <2>4. StreamsTyped' /\ \A s \in Streams : Sees(s)
    BY <1>2, <2>1, <2>3
  <2>5. QED
    BY <2>3, <2>4, PartsTogether
<1>6. CASE Notify(e)
  <2>1. /\ pub[e].pc = "stored" /\ pub' = [pub EXCEPT ![e].pc = "told"]
        /\ stored' = stored /\ Notified(Teller(e), e)
        /\ UNCHANGED <<log, home, maxSeq, finish, opens, faults, before>>
    BY <1>6 DEF Notify
  <2>2. ~Memory
    BY <2>1 DEF LogInv, RowsKept
  <2>3. /\ LogNext /\ Told' = Told \cup {e} /\ e \notin Told /\ e \in ToSet(stored')
        /\ Teller(e)' = Teller(e)
    BY <1>1, <2>1, PublishKeeps
  <2> HIDE DEF LogNext
  <2>4. StreamsTyped' /\ \A s \in Streams : Idles(s) \/ Hears(s, e)
    BY <2>1, <2>2, <2>3, NotifiedSees
  <2> USE DEF LogNext
  <2>5. QED
    BY <2>3, <2>4, PartsTogether DEF Sees
<1>7. QED
  BY <1>3, <1>4, <1>5, <1>6 DEF PublishStep

LEMMA StreamMoves ==
  ASSUME LogInv, NEW s \in Streams, StreamStep(s)
  PROVE  LogInv' /\ LogGrows /\ \A q \in Streams : Sees(q)
<1>1. /\ LogTyped /\ StreamsTyped /\ faults \in 0..MaxFaults /\ opens \in 0..MaxOpens
      /\ stored \in Seq(Seqs) /\ MaxOpens \in Nat
  BY TypeParts, ConstantFacts DEF LogInv, LogTyped
<1>2. UNCHANGED <<log, home, maxSeq, pub, finish, stored, faults>> /\ opens' \in 0..MaxOpens
  <2>1. CASE \E p \in Processes, c \in {Start} \cup Seqs : Subscribe(s, p, c)
    <3>1. /\ UNCHANGED <<log, home, maxSeq, pub, finish, stored, faults>>
          /\ opens' = opens + 1 /\ opens < MaxOpens
      BY <2>1 DEF Subscribe
    <3>2. QED
      BY <3>1, <1>1
  <2>2. CASE ReadEvents(s) \/ Replay(s) \/ Disconnect(s)
    BY <2>2, <1>1 DEF ReadEvents, Replay, WriteReplay, Disconnect
  <2>3. QED
    BY <2>1, <2>2 DEF StreamStep
<1>3. LogTyped' /\ Numbered' /\ RowsKept' /\ MemoryEndsWithFinish' /\ LogGrows /\ LogKeeps
  BY <1>1, <1>2, LogStays
<1>4. SUFFICES StreamsTyped' /\ \A q \in Streams : Sees(q)
  BY <1>3, PartsTogether
<1>5. CASE \E p \in Processes, c \in {Start} \cup Seqs : Subscribe(s, p, c)
  <2>1. /\ Subscribes(s) /\ got' = got
        /\ stream' = [stream EXCEPT ![s] = stream'[s]]
        /\ before' = [before EXCEPT ![s] = before'[s]]
    <3>1. PICK p \in Processes, c \in {Start} \cup Seqs : Subscribe(s, p, c)
      BY <1>5
    <3>2. /\ stream' = [stream EXCEPT ![s] =
               [pc |-> IF Memory THEN "replaying" ELSE "reading", by |-> p,
                cursor |-> c, replay |-> IF Memory THEN After(c) ELSE <<>>]]
          /\ before' = [before EXCEPT ![s] = [stored |-> ToSet(stored), told |-> Told]]
          /\ got' = got /\ stream[s].pc = "closed"
      BY <3>1 DEF Subscribe, Told
    <3>3. /\ stream'[s] = [pc |-> IF Memory THEN "replaying" ELSE "reading", by |-> p,
                cursor |-> c, replay |-> IF Memory THEN After(c) ELSE <<>>]
          /\ before'[s] = [stored |-> ToSet(stored), told |-> Told]
      BY <3>2, <1>1 DEF StreamsTyped
    <3>4. Subscribes(s)
      BY <3>2, <3>3, <1>3 DEF Subscribes
    <3>5. QED
      BY <3>2, <3>3, <3>4
  <2>2. Alone(s)
    BY <2>1, <1>1, <1>3 DEF Alone, Keeps, StreamsTyped
  <2>3. QED
    BY <1>1, <2>1, <2>2, AloneSees
<1>6. CASE ReadEvents(s)
  <2>1. /\ Reads(s) /\ got' = got
        /\ stream' = [stream EXCEPT ![s] = stream'[s]]
        /\ before' = [before EXCEPT ![s] = before'[s]]
    <3>1. /\ stream[s].pc = "reading" /\ got' = got /\ before' = before
          /\ stream' = [stream EXCEPT ![s] =
               [stream[s] EXCEPT !.pc = "replaying", !.replay = After(stream[s].cursor)]]
      BY <1>6 DEF ReadEvents
    <3>2. stream'[s] = [stream[s] EXCEPT !.pc = "replaying", !.replay = After(stream[s].cursor)]
      BY <3>1, <1>1 DEF StreamsTyped
    <3>3. before' = [before EXCEPT ![s] = before'[s]]
      BY <3>1, <1>1 DEF StreamsTyped
    <3>4. QED
      BY <3>1, <3>2, <3>3, <1>3 DEF Reads
  <2>2. Alone(s)
    BY <2>1, <1>1, <1>3 DEF Alone, Keeps, StreamsTyped
  <2>3. QED
    BY <1>1, <2>1, <2>2, AloneSees
<1>7. CASE Replay(s)
  <2>1. /\ Writes(s) /\ before' = before
        /\ stream' = [stream EXCEPT ![s] = stream'[s]]
        /\ got' = [got EXCEPT ![s] = got'[s]]
    <3> DEFINE w == Written(stream[s].replay)
               pc == IF Ended(stream[s].replay) THEN "ended" ELSE "live"
    <3>1. /\ stream[s].pc = "replaying" /\ before' = before
          /\ got' = [got EXCEPT ![s] = got[s] \o w]
          /\ stream' = [stream EXCEPT ![s] = [stream[s] EXCEPT !.replay = <<>>, !.pc = pc]]
      BY <1>7 DEF Replay, WriteReplay
    <3>2. got'[s] = got[s] \o w /\ stream'[s] = [stream[s] EXCEPT !.replay = <<>>, !.pc = pc]
      BY <3>1, <1>1 DEF StreamsTyped
    <3>3. Writes(s)
      BY <3>1, <3>2, <1>3 DEF Writes
    <3>4. QED
      BY <3>1, <3>2, <3>3
  <2>2. Alone(s)
    BY <2>1, <1>1, <1>3 DEF Alone, Keeps, StreamsTyped
  <2>3. QED
    BY <1>1, <2>1, <2>2, AloneSees
<1>8. CASE Disconnect(s)
  <2>1. Close({s}) /\ Registered(s)
    BY <1>8 DEF Disconnect
  <2>2. Told' = Told
    BY <1>3 DEF LogKeeps
  <2>3. StreamsTyped' /\ \A q \in Streams : Idles(q) \/ Closes(q)
    BY <1>1, <2>1, <2>2, CloseSees
  <2>4. QED
    BY <2>3 DEF Sees
<1>9. QED
  BY <1>5, <1>6, <1>7, <1>8 DEF StreamStep

\* Every step keeps what is known of the log, and is one of six things to a stream.
LEMMA Moves ==
  ASSUME LogInv, [Next]_vars
  PROVE  LogInv' /\ LogGrows /\ \A s \in Streams : Sees(s)
<1>1. LogTyped /\ StreamsTyped
  BY TypeParts DEF LogInv
<1>2. CASE \E t \in Turns : PublishProgress(t) \/ PublishFinish(t)
  <2>1. PICK t \in Turns : PublishProgress(t) \/ PublishFinish(t)
    BY <1>2
  <2>2. /\ Number(t) /\ UNCHANGED <<log, home, stored, stream, got, opens, faults, before>>
        /\ finish' = finish \/ (finish' = maxSeq + 1 /\ finish = Start)
    BY <2>1 DEF PublishProgress, PublishFinish
  <2>3. LogTyped' /\ Numbered' /\ RowsKept' /\ MemoryEndsWithFinish' /\ LogGrows /\ Told' = Told
    BY <2>2, NumberKeeps
  <2>4. StreamsTyped' /\ \A s \in Streams : Sees(s)
    BY <1>1, <2>2, <2>3 DEF StreamsTyped, Sees, Idles, Keeps
  <2>5. QED
    BY <2>3, <2>4, PartsTogether
<1>3. CASE \E e \in Seqs : PublishStep(e)
  BY <1>3, PublishMoves
<1>4. CASE \E s \in Streams : StreamStep(s)
  BY <1>4, StreamMoves
<1>5. CASE \E p \in Processes : Crash(p)
  BY <1>5, CrashMoves
<1>6. CASE UNCHANGED vars
  <2>1. /\ UNCHANGED <<log, home, maxSeq, pub, finish, stored>>
        /\ UNCHANGED <<stream, got, before, opens, faults>>
    BY <1>6 DEF vars
  <2>2. LogTyped' /\ Numbered' /\ RowsKept' /\ MemoryEndsWithFinish' /\ LogGrows /\ LogKeeps
    BY <1>1, <2>1, LogStays DEF LogTyped
  <2>3. StreamsTyped' /\ \A s \in Streams : Sees(s)
    BY <1>1, <2>1, <2>2 DEF StreamsTyped, Sees, Idles, Keeps, LogKeeps
  <2>4. QED
    BY <2>2, <2>3, PartsTogether
<1>7. QED
  BY <1>2, <1>3, <1>4, <1>5, <1>6 DEF Next

-----------------------------------------------------------------------------
(* What a stream has written, over one step.                               *)

LEMMA LogFacts ==
  ASSUME LogInv
  PROVE  /\ stored \in Seq(Seqs) /\ ToSet(stored) \subseteq Seqs
         /\ Told \subseteq ToSet(stored)
         /\ Memory => Told = ToSet(stored)
         /\ Memory \/ Postgres
<1>1. LogTyped /\ RowsKept
  BY TypeParts DEF LogInv
<1>2. stored \in Seq(Seqs) /\ ToSet(stored) \subseteq Seqs
  BY <1>1, ToSetOf DEF LogTyped
<1>3. log \in {"memory", "postgres"}
  BY <1>1, EventLogAssumption DEF LogTyped
<1>4. QED
  BY <1>1, <1>2, <1>3 DEF RowsKept, Told, Memory, Postgres

LEMMA StreamFacts ==
  ASSUME LogInv, NEW s \in Streams
  PROVE  /\ stream[s] \in [pc : Pcs, by : Processes, cursor : {Start} \cup Seqs, replay : Seq(Seqs)]
         /\ got[s] \in Seq(Seqs)
         /\ before[s] \in [stored : SUBSET Seqs, told : SUBSET Seqs]
BY TypeParts DEF LogInv, StreamsTyped

LEMMA IdlesKeeps ==
  ASSUME LogInv, LogInv', LogGrows, NEW s \in Streams, StreamInv(s), Idles(s)
  PROVE  StreamInv(s)'
<1>1. /\ Seen(s) /\ Heard(s) /\ Replayed(s) /\ ReplayRead(s) /\ LiveOnly(s)
      /\ NotReading(s) /\ Repeats(s)
  BY DEF StreamInv
<1>2. stream'[s] = stream[s] /\ got'[s] = got[s] /\ before'[s] = before[s]
  BY DEF Idles, Keeps
<1>3. /\ log' = log /\ ToSet(stored) \subseteq ToSet(stored') /\ Told \subseteq Told'
      /\ \A e \in ToSet(stored) : Teller(e)' = Teller(e)
  BY DEF LogGrows
<1>4. Told \subseteq ToSet(stored) /\ got[s] \in Seq(Seqs)
  BY LogFacts, StreamFacts
<1>5. \A i \in DOMAIN got[s] : got[s][i] \in ToSet(stored)
  BY <1>1 DEF Seen, ToSet
<1>6. Seen(s)'
  BY <1>1, <1>2, <1>3 DEF Seen
<1>7. Heard(s)'
  <2> SUFFICES ASSUME Registered(s), NEW e \in Told', Teller(e)' = stream[s].by
               PROVE  e \in before[s].told \cup ToSet(got[s])
    BY <1>2 DEF Heard, Registered
  <2>1. e \in Told
    BY DEF Idles
  <2>2. QED
    BY <2>1, <1>1, <1>3, <1>4 DEF Heard
<1>8. Replayed(s)' /\ ReplayRead(s)' /\ NotReading(s)'
  BY <1>1, <1>2, <1>3 DEF Replayed, Missed, ReplayRead, NotReading, Memory
<1>9. LiveOnly(s)'
  <2>1. \A e \in ToSet(got[s]) : Fresh(s, e) => Fresh(s, e)'
    BY <1>2, <1>3, <1>4 DEF Fresh
  <2>2. QED
    BY <1>1, <1>2, <1>3, <2>1 DEF LiveOnly, Memory
<1>10. Repeats(s)'
  <2> SUFFICES ASSUME NEW i \in DOMAIN got[s], NEW j \in DOMAIN got[s],
                      i < j, got[s][i] = got[s][j]
               PROVE  /\ Postgres' /\ got[s][i] \notin before[s].told
                      /\ home'[pub'[got[s][i]].by] = stream[s].by
    BY <1>2 DEF Repeats, Teller
  <2>1. /\ Postgres /\ got[s][i] \notin before[s].told
        /\ Teller(got[s][i]) = stream[s].by
    BY <1>1 DEF Repeats
  <2>2. QED
    BY <2>1, <1>3, <1>5 DEF Postgres, Teller
<1>11. QED
  BY <1>6, <1>7, <1>8, <1>9, <1>10 DEF StreamInv

LEMMA HearsKeeps ==
  ASSUME LogInv, LogInv', LogGrows, NEW s \in Streams, StreamInv(s), NEW e \in Seqs, Hears(s, e)
  PROVE  StreamInv(s)'
<1>1. /\ Seen(s) /\ Heard(s) /\ Replayed(s) /\ ReplayRead(s) /\ LiveOnly(s)
      /\ NotReading(s) /\ Repeats(s)
  BY DEF StreamInv
<1>2. /\ Registered(s) /\ e \in ToSet(stored') /\ e \notin Told /\ Told' = Told \cup {e}
      /\ Teller(e)' = stream[s].by /\ (Memory => e \notin ToSet(stored))
      /\ got'[s] = Append(got[s], e) /\ before'[s] = before[s]
      /\ stream'[s] \in {stream[s], [stream[s] EXCEPT !.pc = "ended"]}
  BY DEF Hears
<1>3. /\ log' = log /\ ToSet(stored) \subseteq ToSet(stored')
      /\ \A d \in ToSet(stored) : Teller(d)' = Teller(d)
  BY DEF LogGrows
<1>4. /\ Told \subseteq ToSet(stored) /\ got[s] \in Seq(Seqs) /\ (Memory \/ Postgres)
      /\ Memory => Told = ToSet(stored)
  BY LogFacts, StreamFacts
<1>5. /\ got'[s] \in Seq(Seqs) /\ ToSet(got'[s]) = ToSet(got[s]) \cup {e}
      /\ e \notin ToSet(got[s]) /\ IsInjective(got[s]) => IsInjective(got'[s])
  <2> DEFINE more == Append(got[s], e)
  <2>1. /\ more \in Seq(Seqs) /\ ToSet(more) = ToSet(got[s]) \cup {e}
        /\ e \notin ToSet(got[s]) /\ IsInjective(got[s]) => IsInjective(more)
    BY <1>4, AppendIs
  <2>2. got'[s] = more
    BY <1>2
  <2> HIDE DEF more
  <2>3. QED
    BY <2>1, <2>2
<1>6. /\ stream'[s].by = stream[s].by /\ stream'[s].cursor = stream[s].cursor
      /\ stream'[s].replay = stream[s].replay
      /\ stream'[s].pc = stream[s].pc \/ stream'[s].pc = "ended"
  BY <1>2, StreamFacts
<1>7. Seen(s)'
  <2>1. stream'[s].pc # "closed"
    BY <1>2, <1>6 DEF Registered
  <2>2. QED
    BY <1>1, <1>2, <1>3, <1>5, <2>1 DEF Seen
<1>8. Heard(s)'
  <2> SUFFICES ASSUME NEW d \in Told', Teller(d)' = stream[s].by
               PROVE  d \in before[s].told \cup ToSet(got'[s])
    BY <1>2, <1>6 DEF Heard
  <2>1. CASE d = e
    BY <2>1, <1>5
  <2>2. CASE d \in Told
    BY <2>2, <1>1, <1>2, <1>3, <1>4, <1>5 DEF Heard
  <2>3. QED
    BY <2>1, <2>2, <1>2
<1>9. Replayed(s)'
  BY <1>1, <1>2, <1>5, <1>6 DEF Replayed, Missed
<1>10. ReplayRead(s)' /\ NotReading(s)'
  BY <1>1, <1>3, <1>6 DEF ReplayRead, NotReading, Memory
<1>11. e \notin before[s].told
  BY <1>1, <1>2 DEF Seen
<1>12. LiveOnly(s)'
  <2> SUFFICES ASSUME stream'[s].pc \in {"reading", "replaying"}
               PROVE  /\ IsInjective(got'[s])
                      /\ \A d \in ToSet(got'[s]) : Fresh(s, d)'
                      /\ Memory' => ToSet(got'[s]) \cap ToSet(stream'[s].replay) = {}
    BY DEF LiveOnly
  <2>1. /\ IsInjective(got[s]) /\ \A d \in ToSet(got[s]) : Fresh(s, d)
        /\ Memory => ToSet(got[s]) \cap ToSet(stream[s].replay) = {}
        /\ stream[s].pc \in {"reading", "replaying"}
    BY <1>1, <1>6 DEF LiveOnly
  <2>2. e \notin ToSet(got[s])
    BY <2>1, <1>2 DEF Fresh
  <2>3. \A d \in ToSet(got[s]) : Fresh(s, d)'
    BY <2>1, <1>2, <1>3, <1>4, <1>6 DEF Fresh
  <2>4. Fresh(s, e)'
    BY <1>2, <1>6, <1>11 DEF Fresh
  <2>5. Memory => e \notin ToSet(stream[s].replay)
    BY <2>1, <1>1, <1>2 DEF ReplayRead, NotReading
  <2>6. QED
    BY <2>1, <2>2, <2>3, <2>4, <2>5, <1>3, <1>5, <1>6 DEF Memory
<1>13. Repeats(s)'
  <2>1. /\ Len(got'[s]) = Len(got[s]) + 1 /\ Len(got[s]) \in Nat
        /\ DOMAIN got'[s] = 1..Len(got'[s]) /\ DOMAIN got[s] = 1..Len(got[s])
        /\ \A i \in 1..Len(got[s]) : got'[s][i] = got[s][i]
        /\ got'[s][Len(got[s]) + 1] = e
    <3> DEFINE more == Append(got[s], e)
    <3>1. /\ more \in Seq(Seqs) /\ Len(more) = Len(got[s]) + 1
          /\ \A i \in 1..Len(got[s]) : more[i] = got[s][i]
          /\ more[Len(got[s]) + 1] = e
      BY <1>4, AppendProperties
    <3>2. got'[s] = more
      BY <1>2
    <3> HIDE DEF more
    <3>3. QED
      BY <1>4, <3>1, <3>2
  <2> SUFFICES ASSUME NEW i \in DOMAIN got'[s], NEW j \in DOMAIN got'[s],
                      i < j, got'[s][i] = got'[s][j]
               PROVE  /\ Postgres' /\ got'[s][i] \notin before[s].told
                      /\ home'[pub'[got'[s][i]].by] = stream[s].by
    BY <1>2, <1>6 DEF Repeats, Teller
  <2>2. i \in 1..Len(got[s]) /\ (j \in 1..Len(got[s]) \/ j = Len(got[s]) + 1)
    BY <2>1
  <2>3. got[s][i] \in ToSet(stored)
    BY <2>1, <2>2, <1>1 DEF Seen, ToSet
  <2>4. CASE j \in 1..Len(got[s])
    <3>1. got[s][i] = got[s][j]
      BY <2>1, <2>2, <2>4
    <3>2. Postgres /\ got[s][i] \notin before[s].told /\ Teller(got[s][i]) = stream[s].by
      BY <3>1, <2>1, <2>2, <2>4, <1>1 DEF Repeats
    <3>3. QED
      BY <3>2, <2>1, <2>2, <2>3, <1>3 DEF Postgres, Teller
  <2>5. CASE j = Len(got[s]) + 1
    <3>1. got'[s][i] = e /\ got[s][i] = e
      BY <2>1, <2>2, <2>5
    <3>2. Postgres
      BY <3>1, <2>3, <1>2, <1>4
    <3>3. QED
      BY <3>1, <3>2, <1>2, <1>3, <1>11 DEF Postgres, Teller
  <2>6. QED
    BY <2>2, <2>4, <2>5
<1>14. QED
  BY <1>7, <1>8, <1>9, <1>10, <1>12, <1>13 DEF StreamInv

LEMMA SubscribesKeeps ==
  ASSUME LogInv, LogInv', LogGrows, NEW s \in Streams, StreamInv(s), Subscribes(s)
  PROVE  StreamInv(s)'
<1>1. /\ got'[s] = <<>> /\ Told' = Told /\ stored' = stored
      /\ before'[s].stored = ToSet(stored) /\ before'[s].told = Told
  BY DEF Subscribes, LogKeeps, StreamInv, Seen
<1>2. PICK p \in Processes, c \in {Start} \cup Seqs :
       stream'[s] = [pc |-> IF Memory THEN "replaying" ELSE "reading", by |-> p,
                     cursor |-> c, replay |-> IF Memory THEN After(c) ELSE <<>>]
  BY DEF Subscribes
<1>3. /\ stored \in Seq(Seqs) /\ Told \subseteq ToSet(stored) /\ Memory' = Memory
  BY LogFacts DEF LogGrows, Memory
<1>4. IsInjective(After(c)) /\ ToSet(After(c)) = {e \in ToSet(stored) : e > c}
  BY <1>3, AfterIs
<1>5. ToSet(got'[s]) = {} /\ DOMAIN got'[s] = {} /\ IsInjective(got'[s])
  BY <1>1 DEF ToSet, IsInjective
<1>6. Seen(s)'
  BY <1>1, <1>3, <1>5 DEF Seen
<1>7. Heard(s)'
  BY <1>1 DEF Heard
<1>8. Replayed(s)' /\ ReplayRead(s)' /\ NotReading(s)'
  BY <1>1, <1>2, <1>3, <1>4 DEF Replayed, Missed, ReplayRead, NotReading
<1>9. LiveOnly(s)' /\ Repeats(s)'
  BY <1>5 DEF LiveOnly, Repeats
<1>10. QED
  BY <1>6, <1>7, <1>8, <1>9 DEF StreamInv

LEMMA ReadsKeeps ==
  ASSUME LogInv, LogInv', LogGrows, NEW s \in Streams, StreamInv(s), Reads(s)
  PROVE  StreamInv(s)'
<1> DEFINE c == stream[s].cursor
<1>1. /\ Seen(s) /\ Heard(s) /\ LiveOnly(s) /\ NotReading(s) /\ Repeats(s)
  BY DEF StreamInv
<1>2. /\ got'[s] = got[s] /\ before'[s] = before[s] /\ Told' = Told /\ stored' = stored
      /\ pub' = pub /\ log' = log /\ home' = home /\ stream[s].pc = "reading"
  BY DEF Reads, LogKeeps, LogGrows
<1>3. /\ stream'[s].pc = "replaying" /\ stream'[s].by = stream[s].by
      /\ stream'[s].cursor = c /\ stream'[s].replay = After(c)
  BY StreamFacts DEF Reads
<1>4. IsInjective(After(c)) /\ ToSet(After(c)) = {e \in ToSet(stored) : e > c}
  BY LogFacts, AfterIs
<1>5. ~Memory
  BY <1>1, <1>2 DEF NotReading
<1>6. Seen(s)' /\ NotReading(s)'
  BY <1>1, <1>2, <1>3 DEF Seen, NotReading
<1>7. Heard(s)'
  BY <1>1, <1>2, <1>3 DEF Heard, Registered, Teller
<1>8. Replayed(s)'
  BY <1>1, <1>2, <1>3, <1>4 DEF Replayed, Missed, Seen
<1>9. ReplayRead(s)'
  BY <1>2, <1>3, <1>4 DEF ReplayRead
<1>10. LiveOnly(s)'
  BY <1>1, <1>2, <1>3, <1>5 DEF LiveOnly, Fresh, Memory, Teller
<1>11. Repeats(s)'
  BY <1>1, <1>2, <1>3 DEF Repeats, Postgres, Teller
<1>12. QED
  BY <1>6, <1>7, <1>8, <1>9, <1>10, <1>11 DEF StreamInv

LEMMA ClosesKeeps ==
  ASSUME LogInv, NEW s \in Streams, Closes(s)
  PROVE  StreamInv(s)'
<1>1. /\ stream'[s].pc = "closed" /\ got'[s] = <<>>
      /\ before'[s].stored = {} /\ before'[s].told = {}
  BY LeftIs, TypeParts DEF LogInv, Closes, Nothing
<1>2. ToSet(got'[s]) = {} /\ DOMAIN got'[s] = {}
  BY <1>1 DEF ToSet
<1>3. Seen(s)'
  BY <1>1, <1>2 DEF Seen
<1>4. QED
  BY <1>1, <1>2, <1>3 DEF StreamInv, Heard, Registered, Replayed, ReplayRead, LiveOnly,
                          NotReading, Repeats

LEMMA WritesKeeps ==
  ASSUME LogInv, LogInv', LogGrows, NEW s \in Streams, StreamInv(s), Writes(s)
  PROVE  StreamInv(s)'
<1>1. /\ Seen(s) /\ Heard(s) /\ Replayed(s) /\ ReplayRead(s) /\ LiveOnly(s) /\ NotReading(s)
  BY DEF StreamInv
<1>2. /\ before'[s] = before[s] /\ Told' = Told /\ stored' = stored
      /\ pub' = pub /\ log' = log /\ home' = home /\ stream[s].pc = "replaying"
  BY DEF Writes, LogKeeps, LogGrows
<1>3. /\ stream'[s].pc = IF Ended(stream[s].replay) THEN "ended" ELSE "live"
      /\ stream'[s].by = stream[s].by /\ stream'[s].cursor = stream[s].cursor
  BY StreamFacts DEF Writes
<1>4. PICK w \in Seq(Seqs) :
        /\ got'[s] = got[s] \o w /\ ToSet(w) \subseteq ToSet(stream[s].replay)
        /\ IsInjective(w)
        /\ ~Ended(stream[s].replay) => w = stream[s].replay
  <2> DEFINE v == Written(stream[s].replay)
  <2>1. stream[s].replay \in Seq(Seqs) /\ IsInjective(stream[s].replay)
    BY StreamFacts, <1>1, <1>2 DEF ReplayRead
  <2>2. /\ v \in Seq(Seqs) /\ ToSet(v) \subseteq ToSet(stream[s].replay) /\ IsInjective(v)
        /\ ~Ended(stream[s].replay) => v = stream[s].replay
    BY <2>1, WrittenIs
  <2>3. got'[s] = got[s] \o v
    BY DEF Writes
  <2> HIDE DEF v
  <2>4. QED
    BY <2>2, <2>3
<1>5. got[s] \in Seq(Seqs)
  BY StreamFacts
<1>6. ToSet(got'[s]) = ToSet(got[s]) \cup ToSet(w)
  BY <1>4, <1>5, ConcatIs
<1>7. Seen(s)' /\ NotReading(s)'
  BY <1>1, <1>2, <1>3, <1>4, <1>6 DEF Seen, ReplayRead, NotReading
<1>8. Heard(s)'
  BY <1>1, <1>2, <1>3, <1>6 DEF Heard, Registered, Teller
<1>9. Replayed(s)'
  BY <1>1, <1>2, <1>3, <1>4, <1>6 DEF Replayed, Missed
<1>10. ReplayRead(s)' /\ LiveOnly(s)'
  BY <1>3 DEF ReplayRead, LiveOnly
<1>11. Repeats(s)'
  <2> DEFINE n == Len(got[s])
             u == got'[s]
  <2>1. /\ n \in Nat /\ Len(w) \in Nat /\ DOMAIN got[s] = 1..n /\ DOMAIN w = 1..Len(w)
        /\ DOMAIN u = 1..(n + Len(w))
        /\ \A i \in 1..(n + Len(w)) : u[i] = IF i <= n THEN got[s][i] ELSE w[i - n]
    <3> DEFINE v == got[s] \o w
    <3>1. /\ v \in Seq(Seqs) /\ Len(v) = n + Len(w)
          /\ \A i \in 1..(n + Len(w)) : v[i] = IF i <= n THEN got[s][i] ELSE w[i - n]
      BY <1>4, <1>5, ConcatProperties
    <3>2. u = v
      BY <1>4
    <3>3. n \in Nat /\ Len(w) \in Nat /\ DOMAIN got[s] = 1..n /\ DOMAIN w = 1..Len(w)
      BY <1>5
    <3> HIDE DEF v, u, n
    <3>4. DOMAIN v = 1..(n + Len(w))
      BY <3>1
    <3>5. QED
      BY <3>1, <3>2, <3>3, <3>4
  <2>2. /\ IsInjective(got[s]) /\ \A d \in ToSet(got[s]) : Fresh(s, d)
        /\ Memory => ToSet(got[s]) \cap ToSet(stream[s].replay) = {}
    BY <1>1, <1>2 DEF LiveOnly
  <2> SUFFICES ASSUME NEW i \in DOMAIN u, NEW j \in DOMAIN u, i < j, u[i] = u[j]
               PROVE  /\ Postgres /\ u[i] \notin before[s].told
                      /\ home[pub[u[i]].by] = stream[s].by
    BY <1>2, <1>3 DEF Repeats, Teller, Postgres
  <2> HIDE DEF n, u
  <2>3. i \in 1..(n + Len(w)) /\ j \in 1..(n + Len(w))
    BY <2>1
  <2>4. i <= n /\ n < j
    <3>1. ~(j <= n)
      <4> SUFFICES ASSUME j <= n PROVE FALSE
        OBVIOUS
      <4>1. i \in 1..n /\ j \in 1..n /\ got[s][i] = got[s][j]
        BY <2>1, <2>3
      <4>2. i = j
        BY <4>1, <2>1, <2>2 DEF IsInjective
      <4>3. QED
        BY <4>2, <2>3
    <3>2. i <= n
      <4> SUFFICES ASSUME ~(i <= n) PROVE FALSE
        OBVIOUS
      <4>1. /\ i - n \in 1..Len(w) /\ j - n \in 1..Len(w)
            /\ w[i - n] = w[j - n]
        BY <2>1, <2>3, <3>1
      <4>2. i - n = j - n
        BY <4>1, <2>1, <1>4 DEF IsInjective
      <4>3. QED
        BY <4>2, <2>1, <2>3
    <3>3. QED
      BY <3>1, <3>2, <2>1, <2>3
  <2>5. i \in 1..n /\ u[i] = got[s][i]
    BY <2>1, <2>3, <2>4
  <2>6. j - n \in 1..Len(w) /\ u[j] = w[j - n]
    BY <2>1, <2>3, <2>4
  <2>7. u[i] \in ToSet(got[s])
    BY <2>1, <2>5 DEF ToSet
  <2>8. u[i] \in ToSet(w)
    BY <2>1, <2>6 DEF ToSet
  <2>9. QED
    BY <2>2, <2>7, <2>8, <1>4, LogFacts DEF Fresh, Teller
<1>12. QED
  BY <1>7, <1>8, <1>9, <1>10, <1>11 DEF StreamInv

\* The inductive invariant: the log, and of each stream what it has been written.
THEOREM InvHolds == Spec => []Inv
<1>1. Inv /\ [Next]_vars => Inv'
  <2> SUFFICES ASSUME Inv, [Next]_vars PROVE Inv'
    OBVIOUS
  <2>1. LogInv /\ LogInv' /\ LogGrows /\ \A s \in Streams : StreamInv(s) /\ Sees(s)
    BY Moves DEF Inv
  <2>2. ASSUME NEW s \in Streams PROVE StreamInv(s)'
    <3>1. CASE Idles(s)
      BY <2>1, <3>1, IdlesKeeps
    <3>2. CASE \E e \in Seqs : Hears(s, e)
      BY <2>1, <3>2, HearsKeeps
    <3>3. CASE Subscribes(s)
      BY <2>1, <3>3, SubscribesKeeps
    <3>4. CASE Reads(s)
      BY <2>1, <3>4, ReadsKeeps
    <3>5. CASE Writes(s)
      BY <2>1, <3>5, WritesKeeps
    <3>6. CASE Closes(s)
      BY <2>1, <3>6, ClosesKeeps
    <3>7. QED
      BY <2>1, <3>1, <3>2, <3>3, <3>4, <3>5, <3>6 DEF Sees
  <2>3. QED
    BY <2>1, <2>2 DEF Inv
<1>2. QED
  BY InitInv, <1>1, PTL DEF Spec

\* Every variable has its type, and the log stores no event twice.
THEOREM TypesHold == Spec => []TypeOK
<1>1. Inv => TypeOK
  BY DEF Inv, LogInv
<1>2. QED
  BY <1>1, InvHolds, PTL

\* subscribe registers its listener before it reads the log: whichever of the
\* replay and the live events comes first, a live stream misses none it is owed.
THEOREM NoGapHolds == Spec => []NoGap
<1>1. Inv => NoGap
  <2> SUFFICES ASSUME Inv, NEW s \in Streams, stream[s].pc = "live", NEW e \in Owed(s)
               PROVE  e \in ToSet(got[s])
    BY DEF NoGap
  <2>1. LogInv /\ Seen(s) /\ Heard(s) /\ Replayed(s)
    BY DEF Inv, StreamInv
  <2>2. /\ e \in ToSet(stored) /\ e > stream[s].cursor
        /\ e \in before[s].stored \/ (pub[e].pc = "told" /\ Teller(e) = stream[s].by)
    BY DEF Owed
  <2>3. e \in before[s].stored \/ e \in ToSet(got[s])
    <3>1. CASE pub[e].pc = "told" /\ Teller(e) = stream[s].by
      <4>1. e \in Told /\ Registered(s)
        BY <2>1, <2>2, <3>1, LogFacts DEF Told, Registered
      <4>2. QED
        BY <2>1, <3>1, <4>1 DEF Heard, Seen
    <3>2. QED
      BY <2>2, <3>1
  <2>4. QED
    BY <2>1, <2>2, <2>3 DEF Replayed, Missed
<1>2. QED
  BY <1>1, InvHolds, PTL

\* A client is written an event twice only by the Postgres log, and only one that
\* its own process told after the client had subscribed.
THEOREM RepeatHasCauseHolds == Spec => []RepeatHasCause
<1>1. Inv => RepeatHasCause
  BY DEF Inv, StreamInv, Repeats, RepeatHasCause
<1>2. QED
  BY <1>1, InvHolds, PTL

\* The memory log refuses what is published behind run.finished.
THEOREM MemoryEndsWithFinishHolds == Spec => []MemoryEndsWithFinish
<1>1. Inv => MemoryEndsWithFinish
  BY DEF Inv, LogInv
<1>2. QED
  BY <1>1, InvHolds, PTL
=============================================================================
