------------------------- MODULE EventQueue_proofs -------------------------
(***************************************************************************)
(* What the methods of the event queue return, for every set of scopes,    *)
(* every set of events and every value of the caps: each one maps a queue  *)
(* to a queue, and a drained batch is a permutation of what was drained.   *)
(***************************************************************************)
EXTENDS EventQueue, SequenceTheorems, FiniteSetTheorems, TLAPS

-----------------------------------------------------------------------------
(* Sequences of events.                                                    *)

\* The empty queue.
LEMMA NoEvents == <<>> \in Seq(Event)
  BY EmptySeq

\* The elements of a sequence of events are events.
LEMMA ElementsType ==
  ASSUME NEW S, NEW seq \in Seq(S)
  PROVE  Elements(seq) \subseteq S
  BY DEF Elements

\* A table of sequences of events holds events.
LEMMA EventsInType ==
  ASSUME NEW table \in [Scope -> Seq(Event)]
  PROVE  EventsIn(table) \subseteq Event
  BY ElementsType DEF EventsIn

\* Taking an event out of a sequence of events leaves one (Vec::remove).
LEMMA WithoutType ==
  ASSUME NEW S, NEW seq \in Seq(S), NEW e
  PROVE  Without(seq, e) \in Seq(S)
<1> DEFINE pos == CHOOSE i \in DOMAIN seq : seq[i] = e
<1>1. CASE e \notin Elements(seq)
  BY <1>1 DEF Without
<1>2. CASE e \in Elements(seq)
  <2>1. pos \in 1..Len(seq)
    BY <1>2 DEF Elements
  <2> HIDE DEF pos
  <2>2. /\ SubSeq(seq, 1, pos - 1) \in Seq(S)
        /\ SubSeq(seq, pos + 1, Len(seq)) \in Seq(S)
    <3>1. \A i \in 1..Len(seq) : seq[i] \in S
      BY ElementOfSeq
    <3>2. pos \in Int /\ Len(seq) \in Int
      BY <2>1, LenProperties
    <3>3. QED
      BY <2>1, <3>1, <3>2, SubSeqProperties
  <2>3. SubSeq(seq, 1, pos - 1) \o SubSeq(seq, pos + 1, Len(seq)) \in Seq(S)
    BY <2>2, ConcatProperties
  <2>4. QED
    BY <1>2, <2>3 DEF Without, pos
<1>3. QED
  BY <1>1, <1>2

\* Cutting a queue at its cap, at either end, leaves a sequence of events.
LEMMA PopType ==
  ASSUME NEW seq \in Seq(Event)
  PROVE  /\ PopFront(seq) \in Seq(Event)
         /\ PopBack(seq) \in Seq(Event)
<1>1. PopFront(seq) \in Seq(Event)
  BY QueueAssumption, HeadTailProperties, EmptySeq DEF PopFront
<1>2. PopBack(seq) \in Seq(Event)
  BY QueueAssumption, SubSeqProperties, ElementOfSeq, LenProperties DEF PopBack
<1>3. QED
  BY <1>1, <1>2

-----------------------------------------------------------------------------
(* The sort of a drained batch.                                            *)

\* The positions of a sequence of length n.
LEMMA IntervalSize ==
  ASSUME NEW n \in Nat
  PROVE  IsFiniteSet(1..n) /\ Cardinality(1..n) = n
  BY FS_Interval

\* The sort gives an event a place within the batch, after those it follows.
LEMMA RankOrder ==
  ASSUME NEW seq \in Seq(Event), NEW i \in DOMAIN seq, NEW k \in DOMAIN seq
  PROVE  /\ Rank(seq, i) \in DOMAIN seq
         /\ CreatedBefore(seq, i, k) => Rank(seq, i) < Rank(seq, k)
         /\ Rank(seq, i) = Rank(seq, k) => i = k
<1> DEFINE n == Len(seq)
           below(m) == {j \in DOMAIN seq : CreatedBefore(seq, j, m)}
<1>1. n \in Nat /\ DOMAIN seq = 1..n
  BY LenProperties
<1>2. IsFiniteSet(1..n) /\ Cardinality(1..n) = n
  BY <1>1, IntervalSize
<1>3. \A m \in 1..n : CreatedAt[seq[m]] \in Nat
  BY <1>1, QueueAssumption, ElementOfSeq
<1>4. ASSUME NEW m \in 1..n
      PROVE  /\ m \notin below(m) /\ IsFiniteSet(below(m))
             /\ Cardinality(below(m)) \in Nat /\ Cardinality(below(m)) < n
             /\ Rank(seq, m) = 1 + Cardinality(below(m))
  <2>1. below(m) \in SUBSET (1..n) /\ m \notin below(m)
    BY <1>1, <1>3 DEF CreatedBefore
  <2>2. Rank(seq, m) = 1 + Cardinality(below(m))
    BY DEF Rank
  <2> HIDE DEF below
  <2>3. /\ IsFiniteSet(below(m)) /\ Cardinality(below(m)) <= n
        /\ Cardinality(below(m)) = n => below(m) = 1..n
    BY <1>2, <2>1, FS_Subset
  <2>4. Cardinality(below(m)) \in Nat
    BY <2>3, FS_CardinalityType
  <2>5. QED
    BY <1>1, <2>1, <2>2, <2>3, <2>4
<1>5. ASSUME NEW j \in 1..n, NEW m \in 1..n, CreatedBefore(seq, j, m)
      PROVE  Cardinality(below(j)) < Cardinality(below(m))
  <2>1. below(j) \subseteq below(m) /\ j \in below(m)
    BY <1>1, <1>3, <1>5 DEF CreatedBefore
  <2>2. /\ j \notin below(j) /\ IsFiniteSet(below(m))
        /\ Cardinality(below(j)) \in Nat /\ Cardinality(below(m)) \in Nat
    BY <1>4
  <2> HIDE DEF below
  <2>3. /\ Cardinality(below(j)) <= Cardinality(below(m))
        /\ Cardinality(below(j)) # Cardinality(below(m))
    BY <2>1, <2>2, FS_Subset
  <2>4. QED
    BY <2>2, <2>3
<1>6. i = k \/ CreatedBefore(seq, i, k) \/ CreatedBefore(seq, k, i)
  <2>1. i \in Nat /\ k \in Nat
    BY <1>1
  <2>2. CreatedAt[seq[i]] \in Nat /\ CreatedAt[seq[k]] \in Nat
    BY <1>1, <1>3
  <2>3. QED
    BY <2>1, <2>2 DEF CreatedBefore
<1> HIDE DEF below
<1>7. Rank(seq, i) \in DOMAIN seq
  BY <1>1, <1>4
<1>8. CreatedBefore(seq, i, k) => Rank(seq, i) < Rank(seq, k)
  BY <1>1, <1>4, <1>5
<1>9. CreatedBefore(seq, k, i) => Rank(seq, k) < Rank(seq, i)
  BY <1>1, <1>4, <1>5
<1>10. Rank(seq, i) = Rank(seq, k) => i = k
  BY <1>1, <1>4, <1>6, <1>8, <1>9
<1>11. QED
  BY <1>7, <1>8, <1>10

\* The places the sort assigns are the positions of the batch, one event each.
LEMMA RankOnto ==
  ASSUME NEW seq \in Seq(Event)
  PROVE  \A p \in DOMAIN seq : \E i \in DOMAIN seq : Rank(seq, i) = p
<1> DEFINE n == Len(seq)
           f == [i \in 1..n |-> Rank(seq, i)]
<1>1. n \in Nat /\ DOMAIN seq = 1..n
  BY LenProperties
<1>2. IsFiniteSet(1..n)
  BY <1>1, IntervalSize
<1>3. f \in [1..n -> 1..n]
  BY <1>1, RankOrder
<1>4. \A i, j \in 1..n : f[i] = f[j] => i = j
  BY <1>1, RankOrder
<1>5. f \in Injection(1..n, 1..n)
  BY <1>3, <1>4 DEF Injection, IsInjective
<1>6. f \in Surjection(1..n, 1..n)
  BY <1>2, <1>5, FS_Injection
<1>7. QED
  BY <1>1, <1>6 DEF Surjection

\* flush_next prompts with a permutation of the events it drained, in the order
\* of created_at: the sort loses no event, adds none, and puts the newest last.
THEOREM SortIsPermutation ==
  ASSUME NEW seq \in Seq(Event)
  PROVE  LET sorted == SortByCreated(seq) IN
         /\ sorted \in Seq(Event)
         /\ Len(sorted) = Len(seq)
         /\ Elements(sorted) = Elements(seq)
         /\ \A p, r \in DOMAIN seq : p < r => CreatedAt[sorted[p]] <= CreatedAt[sorted[r]]
<1> DEFINE n == Len(seq)
           at(p) == CHOOSE i \in DOMAIN seq : Rank(seq, i) = p
           sorted == SortByCreated(seq)
<1>1. n \in Nat /\ DOMAIN seq = 1..n
  BY LenProperties
<1>2. \A p \in 1..n : at(p) \in 1..n /\ Rank(seq, at(p)) = p
  BY <1>1, RankOnto
<1>3. sorted = [p \in 1..n |-> seq[at(p)]]
  BY <1>1 DEF SortByCreated
<1>4. \A p \in 1..n : seq[p] \in Event
  BY ElementOfSeq
<1> HIDE DEF at, sorted
<1>5. sorted \in [1..n -> Event]
  BY <1>2, <1>3, <1>4
<1>6. sorted \in Seq(Event)
  BY <1>1, <1>5, SeqDef
<1>7. Len(sorted) = n /\ DOMAIN sorted = 1..n
  BY <1>1, <1>5, <1>6, LenProperties
<1>8. Elements(sorted) = Elements(seq)
  <2>1. Elements(sorted) \subseteq Elements(seq)
    BY <1>1, <1>2, <1>3, <1>7 DEF Elements
  <2>2. ASSUME NEW i \in 1..n
        PROVE  sorted[Rank(seq, i)] = seq[i] /\ Rank(seq, i) \in 1..n
    <3>1. Rank(seq, i) \in 1..n
      BY <1>1, RankOrder
    <3>2. at(Rank(seq, i)) \in DOMAIN seq /\ Rank(seq, at(Rank(seq, i))) = Rank(seq, i)
      BY <1>1, <1>2, <3>1
    <3>3. at(Rank(seq, i)) = i
      BY <1>1, <3>2, RankOrder
    <3>4. QED
      BY <1>3, <3>1, <3>3
  <2>3. Elements(seq) \subseteq Elements(sorted)
    BY <1>1, <1>7, <2>2 DEF Elements
  <2>4. QED
    BY <2>1, <2>3
<1>9. ASSUME NEW p \in 1..n, NEW r \in 1..n, p < r
      PROVE  CreatedAt[sorted[p]] <= CreatedAt[sorted[r]]
  <2>1. ~CreatedBefore(seq, at(r), at(p))
    <3>1. /\ at(r) \in DOMAIN seq /\ Rank(seq, at(r)) = r
          /\ at(p) \in DOMAIN seq /\ Rank(seq, at(p)) = p
      BY <1>1, <1>2
    <3>2. CreatedBefore(seq, at(r), at(p)) => Rank(seq, at(r)) < Rank(seq, at(p))
      BY <3>1, RankOrder
    <3>3. QED
      BY <1>9, <3>1, <3>2
  <2>2. CreatedAt[seq[at(p)]] \in Nat /\ CreatedAt[seq[at(r)]] \in Nat
    BY <1>2, <1>4, QueueAssumption
  <2>3. QED
    BY <1>3, <2>1, <2>2 DEF CreatedBefore
<1>10. QED
  BY <1>1, <1>6, <1>7, <1>8, <1>9 DEF sorted

-----------------------------------------------------------------------------
(* The depth caps.                                                         *)

\* The aggregate cap takes its victims from within the queue of a scope.
LEMMA EvictionCountType ==
  ASSUME NEW table \in [Scope -> Seq(Event)], NEW s \in Scope
  PROVE  EvictionCount(table, s) \in 0..Len(table[s])
<1> DEFINE cells == Cells(table, ChannelOf[s])
           excess == Cardinality(cells) - MAX_PENDING_PER_CHANNEL
           victims == {i \in DOMAIN table[s] :
             Cardinality({c \in cells : PoppedBefore(table, c, <<s, i>>)}) < excess}
<1>1. Len(table[s]) \in Nat /\ DOMAIN table[s] = 1..Len(table[s])
  BY LenProperties
<1>2. victims \in SUBSET (1..Len(table[s]))
  BY <1>1
<1>3. EvictionCount(table, s) = IF excess <= 0 THEN 0 ELSE Cardinality(victims)
  BY DEF EvictionCount
<1> HIDE DEF victims, excess
<1>4. Cardinality(victims) \in Nat /\ Cardinality(victims) <= Len(table[s])
  <2>1. IsFiniteSet(1..Len(table[s])) /\ Cardinality(1..Len(table[s])) = Len(table[s])
    BY <1>1, IntervalSize
  <2>2. IsFiniteSet(victims) /\ Cardinality(victims) <= Len(table[s])
    BY <1>2, <2>1, FS_Subset
  <2>3. QED
    BY <2>2, FS_CardinalityType
<1>5. QED
  BY <1>1, <1>3, <1>4

\* enforce_channel_cap keeps a suffix of every queue.
LEMMA ChannelCapType ==
  ASSUME NEW table \in [Scope -> Seq(Event)]
  PROVE  enforce_channel_cap(table) \in [Scope -> Seq(Event)]
<1> SUFFICES ASSUME NEW s \in Scope
             PROVE  SubSeq(table[s], EvictionCount(table, s) + 1, Len(table[s])) \in Seq(Event)
  BY DEF enforce_channel_cap
<1>1. EvictionCount(table, s) \in 0..Len(table[s])
  BY EvictionCountType
<1>2. Len(table[s]) \in Nat
  BY LenProperties
<1>3. \A i \in 1..Len(table[s]) : table[s][i] \in Event
  BY ElementOfSeq
<1>4. QED
  BY <1>1, <1>2, <1>3, SubSeqProperties

\* Two queues that differ only in their pending events.
SameTurns(Q, R) ==
  /\ R.in_flight = Q.in_flight
  /\ R.deadlines = Q.deadlines

\* Storing a queue under the caps.
LEMMA StoreType ==
  ASSUME NEW Q \in QueueType, NEW s \in Scope,
         NEW full \in Seq(Event), NEW cut \in Seq(Event)
  PROVE  Store(Q, s, full, cut) \in QueueType /\ SameTurns(Q, Store(Q, s, full, cut))
<1> DEFINE table == [Q.queues EXCEPT ![s] = cut]
           kept == enforce_channel_cap(table)
           before == EventsIn([Q.queues EXCEPT ![s] = full])
<1>1. table \in [Scope -> Seq(Event)] /\ [Q.queues EXCEPT ![s] = full] \in [Scope -> Seq(Event)]
  BY DEF QueueType
<1>2. kept \in [Scope -> Seq(Event)]
  BY <1>1, ChannelCapType
<1>3. before \subseteq Event
  BY <1>1, EventsInType
<1>4. Store(Q, s, full, cut) =
        [Q EXCEPT !.queues = kept, !.evicted = @ \cup (before \ EventsIn(kept))]
  BY DEF Store
<1> HIDE DEF table, kept, before
<1>5. QED
  BY <1>2, <1>3, <1>4 DEF QueueType, SameTurns

\* Returning events to the front of a queue.
LEMMA PushFrontType ==
  ASSUME NEW Q \in QueueType, NEW s \in Scope, NEW events \in Seq(Event)
  PROVE  PushFront(Q, s, events) \in QueueType /\ SameTurns(Q, PushFront(Q, s, events))
<1>1. events \o Q.queues[s] \in Seq(Event)
  BY ConcatProperties DEF QueueType
<1>2. PopBack(events \o Q.queues[s]) \in Seq(Event)
  BY <1>1, PopType
<1>3. QED
  BY <1>1, <1>2, StoreType DEF PushFront

-----------------------------------------------------------------------------
(* The methods that move pending events and leave the turns alone.         *)

\* push
LEMMA PushType ==
  ASSUME NEW Q \in QueueType, NEW s \in Scope, NEW e \in Event
  PROVE  push(Q, s, e) \in QueueType /\ SameTurns(Q, push(Q, s, e))
<1>1. Append(Q.queues[s], e) \in Seq(Event)
  BY AppendProperties DEF QueueType
<1>2. PopFront(Append(Q.queues[s], e)) \in Seq(Event)
  BY <1>1, PopType
<1>3. QED
  BY <1>1, <1>2, StoreType DEF push

\* The retry counter and the throttle of one scope.
LEMMA RetryUpdateType ==
  ASSUME NEW Q \in QueueType, NEW s \in Scope, NEW n \in Nat,
         NEW r \in {"none", "active", "elapsed"}
  PROVE  LET R == [Q EXCEPT !.retry_counts[s] = n, !.retry_after[s] = r] IN
         R \in QueueType /\ SameTurns(Q, R)
  BY DEF QueueType, SameTurns

\* requeue
LEMMA RequeueType ==
  ASSUME NEW Q \in QueueType, NEW b \in FlushBatch
  PROVE  requeue(Q, b) \in QueueType /\ SameTurns(Q, requeue(Q, b))
<1> DEFINE s == b.scope
           P == PushFront(Q, s, b.events)
           n == P.retry_counts[s] + 1
           dead == [Q EXCEPT !.retry_counts[s] = 0, !.retry_after[s] = "none"]
           back == [P EXCEPT !.retry_counts[s] = n, !.retry_after[s] = "active"]
<1>1. s \in Scope /\ b.events \in Seq(Event)
  BY DEF FlushBatch
<1>2. P \in QueueType /\ SameTurns(Q, P)
  BY <1>1, PushFrontType
<1>3. requeue(Q, b) = dead \/ requeue(Q, b) = back
  BY DEF requeue
<1> HIDE DEF P, s
<1>4. n \in Nat
  BY <1>1, <1>2 DEF QueueType
<1> HIDE DEF n
<1>5. dead \in QueueType /\ SameTurns(Q, dead)
  BY <1>1, RetryUpdateType
<1>6. back \in QueueType /\ SameTurns(P, back)
  BY <1>1, <1>2, <1>4, RetryUpdateType
<1> HIDE DEF dead, back
<1>7. QED
  BY <1>2, <1>3, <1>5, <1>6 DEF SameTurns

\* requeue_preserve_timestamps
LEMMA RequeuePreserveType ==
  ASSUME NEW Q \in QueueType, NEW b \in FlushBatch
  PROVE  requeue_preserve_timestamps(Q, b) \in QueueType
         /\ SameTurns(Q, requeue_preserve_timestamps(Q, b))
<1> DEFINE carried == [Q EXCEPT
      !.cancelled[b.scope] = b.cancelled \o @,
      !.reasons[b.scope]   = IF b.cancelled # <<>> /\ @ = "none" THEN b.reason ELSE @]
<1>1. /\ b.scope \in Scope /\ b.events \in Seq(Event)
      /\ b.cancelled \in Seq(Event) /\ b.reason \in CancelReason
  BY DEF FlushBatch
<1>2. b.cancelled \o Q.cancelled[b.scope] \in Seq(Event)
  BY <1>1, ConcatProperties DEF QueueType
<1>3. carried \in QueueType /\ SameTurns(Q, carried)
  BY <1>1, <1>2 DEF QueueType, SameTurns
<1>4. requeue_preserve_timestamps(Q, b) = PushFront(carried, b.scope, b.events)
  BY DEF requeue_preserve_timestamps
<1> HIDE DEF carried
<1>5. QED
  BY <1>1, <1>3, <1>4, PushFrontType DEF SameTurns

\* requeue_as_cancelled
LEMMA RequeueCancelledType ==
  ASSUME NEW Q \in QueueType, NEW b \in FlushBatch, NEW reason \in CancelReason
  PROVE  requeue_as_cancelled(Q, b, reason) \in QueueType
         /\ SameTurns(Q, requeue_as_cancelled(Q, b, reason))
<1>1. b.scope \in Scope /\ b.events \in Seq(Event) /\ b.cancelled \in Seq(Event)
  BY DEF FlushBatch
<1>2. Q.cancelled[b.scope] \o b.cancelled \o b.events \in Seq(Event)
  BY <1>1, ConcatProperties DEF QueueType
<1>3. QED
  BY <1>1, <1>2 DEF requeue_as_cancelled, QueueType, SameTurns

\* drain_channel
LEMMA DrainChannelType ==
  ASSUME NEW Q \in QueueType, NEW ch
  PROVE  drain_channel(Q, ch) \in QueueType /\ SameTurns(Q, drain_channel(Q, ch))
  BY NoEvents DEF drain_channel, QueueType, SameTurns, CancelReason

\* mark_native_steer_pending
LEMMA MarkSteerType ==
  ASSUME NEW Q \in QueueType, NEW s \in Scope, NEW e \in Event
  PROVE  mark_native_steer_pending(Q, s, e) \in QueueType
         /\ SameTurns(Q, mark_native_steer_pending(Q, s, e))
<1>1. Without(Q.queues[s], e) \in Seq(Event)
  BY WithoutType DEF QueueType
<1>2. Append(Q.withheld[s], e) \in Seq(Event)
  BY AppendProperties DEF QueueType
<1>3. QED
  BY <1>1, <1>2 DEF mark_native_steer_pending, QueueType, SameTurns

\* release_native_steer
LEMMA ReleaseSteerType ==
  ASSUME NEW Q \in QueueType, NEW s \in Scope, NEW e \in Event
  PROVE  release_native_steer(Q, s, e) \in QueueType
         /\ SameTurns(Q, release_native_steer(Q, s, e))
<1> DEFINE R == [Q EXCEPT !.withheld[s] = Without(@, e)]
<1>1. Without(Q.withheld[s], e) \in Seq(Event)
  BY WithoutType DEF QueueType
<1>2. R \in QueueType /\ SameTurns(Q, R)
  BY <1>1 DEF QueueType, SameTurns
<1>3. <<e>> \in Seq(Event)
  OBVIOUS
<1>4. release_native_steer(Q, s, e) = Q \/ release_native_steer(Q, s, e) = PushFront(R, s, <<e>>)
  BY DEF release_native_steer
<1> HIDE DEF R
<1>5. PushFront(R, s, <<e>>) \in QueueType /\ SameTurns(R, PushFront(R, s, <<e>>))
  BY <1>2, <1>3, PushFrontType
<1>6. QED
  BY <1>2, <1>4, <1>5 DEF SameTurns

\* remove_event
LEMMA RemoveEventType ==
  ASSUME NEW Q \in QueueType, NEW s \in Scope, NEW e \in Event
  PROVE  remove_event(Q, s, e) \in QueueType /\ SameTurns(Q, remove_event(Q, s, e))
<1>1. Without(Q.queues[s], e) \in Seq(Event) /\ Without(Q.withheld[s], e) \in Seq(Event)
  BY WithoutType DEF QueueType
<1>2. QED
  BY <1>1 DEF remove_event, QueueType, SameTurns

\* compact_expired_state
LEMMA CompactType ==
  ASSUME NEW Q \in QueueType
  PROVE  compact_expired_state(Q) \in QueueType /\ SameTurns(Q, compact_expired_state(Q))
  BY DEF compact_expired_state, QueueType, SameTurns

-----------------------------------------------------------------------------
(* The methods that start, extend and end turns.                           *)

\* extend_in_flight_deadline
LEMMA ExtendType ==
  ASSUME NEW Q \in QueueType, NEW s \in Scope
  PROVE  LET R == extend_in_flight_deadline(Q, s) IN
         /\ R \in QueueType
         /\ R.in_flight = Q.in_flight
         /\ \A t \in Scope : R.deadlines[t] = "none" <=> Q.deadlines[t] = "none"
         /\ \A t \in Scope : R.deadlines[t] = "due" => Q.deadlines[t] = "due"
  BY DEF extend_in_flight_deadline, QueueType

\* mark_complete ends the turn of one scope.
LEMMA MarkCompleteType ==
  ASSUME NEW Q \in QueueType, NEW s \in Scope
  PROVE  LET R == mark_complete(Q, s) IN
         /\ R \in QueueType
         /\ R.in_flight = Q.in_flight \ {s}
         /\ R.deadlines = [Q.deadlines EXCEPT ![s] = "none"]
  BY DEF mark_complete, QueueType

\* The backstop ends the turns past their deadline, and does nothing otherwise.
LEMMA ExpireType ==
  ASSUME NEW Q \in QueueType
  PROVE  LET R == expire(Q)
             due == {s \in Scope : Q.deadlines[s] = "due"}
         IN
         /\ R \in QueueType
         /\ R.in_flight = Q.in_flight \ due
         /\ R.deadlines = [s \in Scope |-> IF s \in due THEN "none" ELSE Q.deadlines[s]]
         /\ due = {} => R = Q
<1> DEFINE due == {s \in Scope : Q.deadlines[s] = "due"}
           full == [s \in Scope |-> IF s \in due THEN Q.withheld[s] \o Q.queues[s]
                                     ELSE Q.queues[s]]
           cut == [s \in Scope |-> PopBack(full[s])]
           kept == enforce_channel_cap(cut)
<1>1. full \in [Scope -> Seq(Event)]
  BY ConcatProperties DEF QueueType
<1>2. cut \in [Scope -> Seq(Event)]
  BY <1>1, PopType
<1>3. kept \in [Scope -> Seq(Event)]
  BY <1>2, ChannelCapType
<1>4. EventsIn(full) \subseteq Event
  BY <1>1, EventsInType
<1> DEFINE marks == Q.in_flight \ due
           dead == [s \in Scope |-> IF s \in due THEN "none" ELSE Q.deadlines[s]]
           held == [s \in Scope |-> IF s \in due THEN <<>> ELSE Q.withheld[s]]
           gone == Q.evicted \cup (EventsIn(full) \ EventsIn(kept))
           R == [Q EXCEPT !.in_flight = marks, !.deadlines = dead, !.withheld = held,
                          !.queues = kept, !.evicted = gone]
<1>5. expire(Q) = IF due = {} THEN Q ELSE R
  BY DEF expire
<1>6. /\ marks \in SUBSET Scope /\ dead \in [Scope -> {"none", "armed", "due"}]
      /\ held \in [Scope -> Seq(Event)] /\ gone \in SUBSET Event
  BY <1>4, NoEvents DEF QueueType
<1>7. CASE due = {}
  <2>1. marks = Q.in_flight /\ dead = Q.deadlines
    BY <1>7 DEF QueueType
  <2>2. QED
    BY <1>5, <1>7, <2>1
<1>8. CASE due # {}
  <2>1. expire(Q) = R
    BY <1>5, <1>8
  <2> HIDE DEF full, cut, kept, marks, dead, held, gone
  <2>2. R \in QueueType /\ R.in_flight = marks /\ R.deadlines = dead
    BY <1>3, <1>6 DEF QueueType
  <2>3. QED
    BY <1>8, <2>1, <2>2 DEF marks, dead
<1>9. QED
  BY <1>7, <1>8

\* flush_next starts a turn of the chosen scope with a well-formed batch.
LEMMA FlushNextType ==
  ASSUME NEW Q \in QueueType, NEW s \in Scope
  PROVE  /\ flush_next(Q, s) \in QueueType
         /\ flush_next(Q, s).in_flight = Q.in_flight \cup {s}
         /\ flush_next(Q, s).deadlines = [Q.deadlines EXCEPT ![s] = "armed"]
         /\ flushed_batch(Q, s) \in FlushBatch
         /\ flushed_batch(Q, s).scope = s
<1> DEFINE n == DrainCount(Q, s)
           drained == SubSeq(Q.queues[s], 1, n)
           rest == SubSeq(Q.queues[s], n + 1, Len(Q.queues[s]))
<1>1. Q.queues[s] \in Seq(Event) /\ Len(Q.queues[s]) \in Nat
  BY LenProperties DEF QueueType
<1>2. n \in 0..Len(Q.queues[s])
  BY <1>1, QueueAssumption DEF DrainCount
<1>3. \A i \in 1..Len(Q.queues[s]) : Q.queues[s][i] \in Event
  BY <1>1, ElementOfSeq
<1> HIDE DEF n
<1>4. drained \in Seq(Event) /\ rest \in Seq(Event)
  BY <1>1, <1>2, <1>3, SubSeqProperties
<1>5. SortByCreated(drained) \in Seq(Event)
  BY <1>4, SortIsPermutation
<1> DEFINE left == IF s \in Ready(Q) THEN rest ELSE Q.queues[s]
           R == [Q EXCEPT !.queues[s] = left, !.cancelled[s] = <<>>, !.reasons[s] = "none",
                          !.in_flight = @ \cup {s}, !.deadlines[s] = "armed"]
<1>6. flush_next(Q, s) = R /\ left \in Seq(Event)
  BY <1>1, <1>4 DEF flush_next, n, QueueType
<1>7. flushed_batch(Q, s) =
        IF s \in Ready(Q)
        THEN [scope |-> s, events |-> SortByCreated(drained), cancelled |-> Q.cancelled[s],
              reason |-> IF Q.cancelled[s] = <<>> THEN "none" ELSE Q.reasons[s]]
        ELSE [scope |-> s, events |-> Q.cancelled[s], cancelled |-> <<>>,
              reason |-> Q.reasons[s]]
  BY DEF flushed_batch, n
<1> HIDE DEF drained, rest, left
<1>8. R \in QueueType
  BY <1>6, NoEvents DEF QueueType, CancelReason
<1>9. /\ R.in_flight = Q.in_flight \cup {s}
      /\ R.deadlines = [Q.deadlines EXCEPT ![s] = "armed"]
  BY DEF QueueType
<1>10. flushed_batch(Q, s) \in FlushBatch /\ flushed_batch(Q, s).scope = s
  BY <1>5, <1>7, NoEvents DEF QueueType, FlushBatch, CancelReason
<1>11. QED
  BY <1>6, <1>8, <1>9, <1>10

\* flush_next picks a scope that is not in flight.
LEMMA FlushChoiceFree ==
  ASSUME NEW Q, NEW s \in flush_choice(Q)
  PROVE  s \in Scope /\ s \notin Q.in_flight
  BY DEF flush_choice, Ready, CancelledReady
============================================================================
