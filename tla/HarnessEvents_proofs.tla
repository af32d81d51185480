----------------------- MODULE HarnessEvents_proofs ------------------------
(***************************************************************************)
(* What the harness does with the pending events: a throttled scope is not *)
(* prompted, a withheld event has a watcher, and the queue stays within    *)
(* its caps.                                                               *)
(***************************************************************************)
EXTENDS HarnessTurns_proofs

-----------------------------------------------------------------------------
(* What the methods of the queue leave alone.                              *)

\* Two queues that differ in their queued events and retry counters only.
SameTables(Q, R) ==
  /\ R.in_flight = Q.in_flight
  /\ R.cancelled = Q.cancelled
  /\ R.withheld = Q.withheld
  /\ R.retry_after = Q.retry_after

\* Storing a queue under the caps touches the queued events only.
LEMMA StoreTables ==
  ASSUME NEW Q \in QueueType, NEW s, NEW full, NEW cut
  PROVE  SameTables(Q, Store(Q, s, full, cut))
<1> DEFINE kept == enforce_channel_cap([Q.queues EXCEPT ![s] = cut])
           gone == Q.evicted \cup (EventsIn([Q.queues EXCEPT ![s] = full]) \ EventsIn(kept))
<1>1. Store(Q, s, full, cut) = [Q EXCEPT !.queues = kept, !.evicted = gone]
  BY DEF Store
<1> HIDE DEF kept, gone
<1>2. SameTables(Q, [Q EXCEPT !.queues = kept, !.evicted = gone])
  BY DEF SameTables, QueueType
<1>3. QED
  BY <1>1, <1>2

\* push
LEMMA PushTables ==
  ASSUME NEW Q \in QueueType, NEW s \in Scope, NEW e \in Event
  PROVE  SameTables(Q, push(Q, s, e))
  BY StoreTables DEF push

\* Events returned to the front of a queue.
LEMMA PushFrontTables ==
  ASSUME NEW Q \in QueueType, NEW s \in Scope, NEW events \in Seq(Event)
  PROVE  SameTables(Q, PushFront(Q, s, events))
  BY StoreTables DEF PushFront

\* A steered event moves from its queue to the withheld ones.
LEMMA MarkSteerTables ==
  ASSUME NEW Q \in QueueType, NEW s \in Scope, NEW e \in Event
  PROVE  LET R == mark_native_steer_pending(Q, s, e) IN
         /\ R.in_flight = Q.in_flight /\ R.cancelled = Q.cancelled
         /\ R.retry_after = Q.retry_after
         /\ \/ R.withheld = Q.withheld
            \/ R.withheld = [Q.withheld EXCEPT ![s] = Append(Q.withheld[s], e)]
         /\ \/ R.queues = Q.queues
            \/ R.queues = [Q.queues EXCEPT ![s] = Without(Q.queues[s], e)]
  BY DEF mark_native_steer_pending, QueueType

\* A released event leaves the withheld ones for the front of its queue.
LEMMA ReleaseTables ==
  ASSUME NEW Q \in QueueType, NEW s \in Scope, NEW e \in Event
  PROVE  LET R == release_native_steer(Q, s, e) IN
         /\ R.in_flight = Q.in_flight /\ R.cancelled = Q.cancelled
         /\ R.retry_after = Q.retry_after
         /\ R.withheld = [Q.withheld EXCEPT ![s] = Without(Q.withheld[s], e)]
<1> DEFINE P == [Q EXCEPT !.withheld[s] = Without(Q.withheld[s], e)]
           R == release_native_steer(Q, s, e)
<1>1. Without(Q.withheld[s], e) \in Seq(Event)
  BY WithoutType DEF QueueType
<1>2. /\ P \in QueueType /\ P.in_flight = Q.in_flight /\ P.cancelled = Q.cancelled
      /\ P.retry_after = Q.retry_after
      /\ P.withheld = [Q.withheld EXCEPT ![s] = Without(Q.withheld[s], e)]
  BY <1>1 DEF QueueType
<1>3. CASE e \in Elements(Q.withheld[s])
  <2>1. R = PushFront(P, s, <<e>>)
    BY <1>3 DEF release_native_steer
  <2> HIDE DEF P, R
  <2>2. SameTables(P, R)
    <3>1. <<e>> \in Seq(Event)
      OBVIOUS
    <3>2. QED
      BY <1>2, <2>1, <3>1, PushFrontTables
  <2>3. QED
    BY <1>2, <2>2 DEF SameTables, R
<1>4. CASE e \notin Elements(Q.withheld[s])
  <2>1. R = Q /\ Without(Q.withheld[s], e) = Q.withheld[s]
    BY <1>4 DEF release_native_steer, Without
  <2>2. [Q.withheld EXCEPT ![s] = Q.withheld[s]] = Q.withheld
    BY DEF QueueType
  <2>3. QED
    BY <2>1, <2>2
<1>5. QED
  BY <1>3, <1>4

\* A delivered event leaves both tables.
LEMMA RemoveTables ==
  ASSUME NEW Q \in QueueType, NEW s \in Scope, NEW e \in Event
  PROVE  LET R == remove_event(extend_in_flight_deadline(Q, s), s, e) IN
         /\ R.in_flight = Q.in_flight /\ R.cancelled = Q.cancelled
         /\ R.retry_after = Q.retry_after
         /\ R.withheld = [Q.withheld EXCEPT ![s] = Without(Q.withheld[s], e)]
         /\ R.queues = [Q.queues EXCEPT ![s] = Without(Q.queues[s], e)]
  BY DEF remove_event, extend_in_flight_deadline, QueueType

\* mark_complete leaves the pending events, and an active throttle.
LEMMA CompleteTables ==
  ASSUME NEW Q \in QueueType, NEW s \in Scope
  PROVE  LET R == mark_complete(Q, s) IN
         /\ R.in_flight = Q.in_flight \ {s} /\ R.cancelled = Q.cancelled
         /\ R.withheld = Q.withheld /\ R.queues = Q.queues
         /\ \A t \in Scope : R.retry_after[t] = "active" <=> Q.retry_after[t] = "active"
  BY DEF mark_complete, QueueType

\* flush_next drains the front of one queue and the carryover with it.
LEMMA FlushTables ==
  ASSUME NEW Q \in QueueType, NEW s \in Scope
  PROVE  LET R == flush_next(Q, s) IN
         /\ R.in_flight = Q.in_flight \cup {s} /\ R.retry_after = Q.retry_after
         /\ R.cancelled = [Q.cancelled EXCEPT ![s] = <<>>]
         /\ R.withheld = Q.withheld
         /\ \/ R.queues = Q.queues
            \/ R.queues = [Q.queues EXCEPT ![s] =
                            SubSeq(Q.queues[s], DrainCount(Q, s) + 1, Len(Q.queues[s]))]
<1> DEFINE left == SubSeq(Q.queues[s], DrainCount(Q, s) + 1, Len(Q.queues[s]))
           rest == IF s \in Ready(Q) THEN left ELSE Q.queues[s]
           F == [Q EXCEPT !.queues[s] = rest, !.cancelled[s] = <<>>, !.reasons[s] = "none",
                          !.in_flight = @ \cup {s}, !.deadlines[s] = "armed"]
<1>1. flush_next(Q, s) = F
  BY DEF flush_next, QueueType
<1>2. rest = left \/ rest = Q.queues[s]
  OBVIOUS
<1>3. [Q.queues EXCEPT ![s] = Q.queues[s]] = Q.queues
  BY DEF QueueType
<1> HIDE DEF rest, left
<1>4. /\ F.in_flight = Q.in_flight \cup {s} /\ F.retry_after = Q.retry_after
      /\ F.cancelled = [Q.cancelled EXCEPT ![s] = <<>>]
      /\ F.withheld = Q.withheld /\ F.queues = [Q.queues EXCEPT ![s] = rest]
  BY DEF QueueType
<1>5. QED
  BY <1>1, <1>2, <1>3, <1>4 DEF left

\* The backstop puts the withheld events of the turns it ends back in their queues.
LEMMA ExpireTables ==
  ASSUME NEW Q \in QueueType
  PROVE  LET R == expire(Q)
             due == {s \in Scope : Q.deadlines[s] = "due"}
             full == [s \in Scope |-> IF s \in due THEN Q.withheld[s] \o Q.queues[s]
                                      ELSE Q.queues[s]]
         IN
         /\ R.cancelled = Q.cancelled
         /\ \A s \in Scope : R.withheld[s] = Q.withheld[s] \/ R.withheld[s] = <<>>
         /\ \/ R.queues = Q.queues
            \/ R.queues = enforce_channel_cap([s \in Scope |-> PopBack(full[s])])
<1> DEFINE due == {s \in Scope : Q.deadlines[s] = "due"}
           full == [s \in Scope |-> IF s \in due THEN Q.withheld[s] \o Q.queues[s]
                                    ELSE Q.queues[s]]
           kept == enforce_channel_cap([s \in Scope |-> PopBack(full[s])])
           marks == Q.in_flight \ due
           dead == [s \in Scope |-> IF s \in due THEN "none" ELSE Q.deadlines[s]]
           still == [s \in Scope |-> IF s \in due THEN <<>> ELSE Q.withheld[s]]
           gone == Q.evicted \cup (EventsIn(full) \ EventsIn(kept))
           R == [Q EXCEPT !.in_flight = marks, !.deadlines = dead, !.withheld = still,
                          !.queues = kept, !.evicted = gone]
<1>1. expire(Q) = IF due = {} THEN Q ELSE R
  BY DEF expire
<1>2. \A s \in Scope : still[s] = Q.withheld[s] \/ still[s] = <<>>
  OBVIOUS
<1> HIDE DEF due, full, kept, marks, dead, still, gone
<1>3. R.withheld = still /\ R.queues = kept /\ R.cancelled = Q.cancelled
  BY DEF QueueType
<1>4. QED
  BY <1>1, <1>2, <1>3 DEF kept, full, due

\* What a returned batch changes: the carryover of its scope or its throttle,
\* never both.
BatchBack(Q, R, s) ==
  /\ R.in_flight = Q.in_flight
  /\ R.withheld = Q.withheld
  /\ \A t \in Scope :
       /\ R.cancelled[t] = Q.cancelled[t] \/ R.retry_after[t] = Q.retry_after[t]
       /\ t # s => R.cancelled[t] = Q.cancelled[t] /\ R.retry_after[t] = Q.retry_after[t]

\* requeue sets the throttle and leaves the carryover.
LEMMA RequeueTables ==
  ASSUME NEW Q \in QueueType, NEW b \in FlushBatch
  PROVE  BatchBack(Q, requeue(Q, b), b.scope) /\ requeue(Q, b).cancelled = Q.cancelled
<1> DEFINE s == b.scope
           P == PushFront(Q, s, b.events)
           n == P.retry_counts[s] + 1
           dead == [Q EXCEPT !.retry_counts[s] = 0, !.retry_after[s] = "none"]
           back == [P EXCEPT !.retry_counts[s] = n, !.retry_after[s] = "active"]
<1>1. s \in Scope /\ b.events \in Seq(Event)
  BY DEF FlushBatch
<1>2. P \in QueueType /\ SameTables(Q, P)
  BY <1>1, PushFrontType, PushFrontTables
<1>3. requeue(Q, b) = dead \/ requeue(Q, b) = back
  BY DEF requeue
<1> HIDE DEF P, s, n
<1>4. BatchBack(Q, dead, s) /\ dead.cancelled = Q.cancelled
  BY <1>1 DEF BatchBack, QueueType
<1>5. BatchBack(P, back, s) /\ back.cancelled = P.cancelled
  BY <1>1, <1>2 DEF BatchBack, QueueType
<1> HIDE DEF dead, back
<1>6. BatchBack(Q, back, s) /\ back.cancelled = Q.cancelled
  BY <1>2, <1>5 DEF BatchBack, SameTables
<1>7. QED
  BY <1>3, <1>4, <1>6 DEF s

\* requeue_preserve_timestamps and requeue_as_cancelled leave the throttle.
LEMMA CarryTables ==
  ASSUME NEW Q \in QueueType, NEW b \in FlushBatch, NEW reason
  PROVE  /\ BatchBack(Q, requeue_preserve_timestamps(Q, b), b.scope)
         /\ requeue_preserve_timestamps(Q, b).retry_after = Q.retry_after
         /\ b.cancelled = <<>> => requeue_preserve_timestamps(Q, b).cancelled = Q.cancelled
         /\ BatchBack(Q, requeue_as_cancelled(Q, b, reason), b.scope)
         /\ requeue_as_cancelled(Q, b, reason).queues = Q.queues
<1> DEFINE s == b.scope
           P == [Q EXCEPT
             !.cancelled[s] = b.cancelled \o @,
             !.reasons[s]   = IF b.cancelled # <<>> /\ @ = "none" THEN b.reason ELSE @]
           R == PushFront(P, s, b.events)
<1>1. /\ s \in Scope /\ b.events \in Seq(Event)
      /\ b.cancelled \in Seq(Event) /\ b.reason \in CancelReason
  BY DEF FlushBatch
<1>2. b.cancelled \o Q.cancelled[s] \in Seq(Event)
  BY <1>1, ConcatProperties DEF QueueType
<1>3. requeue_preserve_timestamps(Q, b) = R
  BY DEF requeue_preserve_timestamps
<1> HIDE DEF s
<1>4. P \in QueueType
  BY <1>1, <1>2 DEF QueueType
<1>5. BatchBack(Q, P, s) /\ P.retry_after = Q.retry_after
  BY <1>1 DEF BatchBack, QueueType
<1>6. ASSUME b.cancelled = <<>> PROVE P.cancelled = Q.cancelled
  <2>1. Q.cancelled \in [Scope -> Seq(Event)]
    BY DEF QueueType
  <2>2. b.cancelled \o Q.cancelled[s] = Q.cancelled[s]
    BY <1>1, <1>6, <2>1, ConcatEmptySeq
  <2> DEFINE c == b.cancelled \o Q.cancelled[s]
  <2>3. P.cancelled = [Q.cancelled EXCEPT ![s] = c]
    BY <1>1 DEF QueueType
  <2> HIDE DEF c, P
  <2>4. QED
    BY <1>1, <2>1, <2>2, <2>3 DEF c
<1> HIDE DEF P
<1>7. SameTables(P, R)
  BY <1>1, <1>4, PushFrontTables DEF s
<1>8. /\ BatchBack(Q, R, s) /\ R.retry_after = Q.retry_after
      /\ b.cancelled = <<>> => R.cancelled = Q.cancelled
  BY <1>5, <1>6, <1>7 DEF BatchBack, SameTables
<1>9. /\ BatchBack(Q, requeue_as_cancelled(Q, b, reason), s)
      /\ requeue_as_cancelled(Q, b, reason).queues = Q.queues
  <2> DEFINE c == Q.cancelled[s] \o b.cancelled \o b.events
             C == [Q EXCEPT !.cancelled[s] = c, !.reasons[s] = reason]
  <2>1. requeue_as_cancelled(Q, b, reason) = C
    BY DEF requeue_as_cancelled, s
  <2> HIDE DEF c
  <2>2. BatchBack(Q, C, s) /\ C.queues = Q.queues
    BY <1>1 DEF BatchBack, QueueType
  <2>3. QED
    BY <2>1, <2>2
<1>10. QED
  BY <1>3, <1>8, <1>9 DEF s

\* The batch a turn gives back, if it gives one back.
LEMMA RestoredTables ==
  ASSUME NEW Q \in QueueType, NEW out, NEW b \in Batch,
         HasBatch(b) => b.scope \in Scope
  PROVE  /\ BatchBack(Q, Restored(Q, out, b), b.scope)
         /\ Restored(Q, out, b) = Q \/ b.scope \in Scope
         /\ out \notin {"cancelled", "drain_timeout"} \/ ~HasBatch(b) =>
              Restored(Q, out, b).cancelled = Q.cancelled
<1> DEFINE reason == IF b.reason = "none" THEN "steer" ELSE b.reason
<1>1. \/ Restored(Q, out, b) = Q
      \/ /\ HasBatch(b) /\ Restored(Q, out, b) = requeue_as_cancelled(Q, b, reason)
         /\ out \in {"cancelled", "drain_timeout"}
      \/ HasBatch(b) /\ Restored(Q, out, b) = requeue(Q, b)
  BY DEF Restored
<1>2. HasBatch(b) => b \in FlushBatch
  BY DEF Batch, FlushBatch
<1>3. BatchBack(Q, Q, b.scope)
  BY DEF BatchBack
<1> HIDE DEF reason
<1>4. QED
  BY <1>1, <1>2, <1>3, RequeueTables, CarryTables

-----------------------------------------------------------------------------
(* Backoff.                                                                *)

\* A scope in flight or throttled has no carryover, and a scope in flight is not
\* throttled: the path of flush_next that does not look at the throttle finds
\* nothing to prompt a throttled scope with.
Calm(Q) ==
  \A s \in Scope :
    /\ s \in Q.in_flight => Q.retry_after[s] # "active" /\ Q.cancelled[s] = <<>>
    /\ Q.retry_after[s] = "active" => Q.cancelled[s] = <<>>

\* Calm looks at the marks, the throttles and the carryover.
LEMMA CalmSame ==
  ASSUME NEW Q, NEW R, Calm(Q), R.in_flight = Q.in_flight, R.cancelled = Q.cancelled,
         \A t \in Scope : R.retry_after[t] = "active" => Q.retry_after[t] = "active"
  PROVE  Calm(R)
  BY DEF Calm

\* flush_next picks a scope whose throttle is not running.
LEMMA FlushCalm ==
  ASSUME NEW Q \in QueueType, Calm(Q), NEW s \in flush_choice(Q)
  PROVE  /\ s \in Scope /\ Q.retry_after[s] # "active"
         /\ Calm(flush_next(Q, s))
<1>1. s \in Scope /\ Q.retry_after[s] # "active"
  BY DEF flush_choice, Ready, CancelledReady, Calm
<1> DEFINE R == flush_next(Q, s)
<1>2. /\ R.in_flight = Q.in_flight \cup {s} /\ R.retry_after = Q.retry_after
      /\ R.cancelled = [Q.cancelled EXCEPT ![s] = <<>>]
  BY <1>1, FlushTables
<1> HIDE DEF R
<1>3. Calm(R)
  BY <1>1, <1>2 DEF Calm, QueueType
<1>4. QED
  BY <1>1, <1>3 DEF R

\* The batch of a scope in flight comes back and the mark is cleared.
LEMMA BackCalm ==
  ASSUME NEW Q \in QueueType, NEW P \in QueueType, NEW s \in Scope, Calm(Q),
         BatchBack(Q, P, s), s \in Q.in_flight
  PROVE  Calm(mark_complete(P, s))
<1> DEFINE R == mark_complete(P, s)
<1>1. /\ R.in_flight = P.in_flight \ {s} /\ R.cancelled = P.cancelled
      /\ \A t \in Scope : R.retry_after[t] = "active" <=> P.retry_after[t] = "active"
  BY CompleteTables
<1> HIDE DEF R
<1>2. Calm(R)
  BY <1>1 DEF Calm, BatchBack
<1>3. QED
  BY <1>2 DEF R

\* dispatch_pending returns a batch of a scope in flight.
LEMMA ReturnCalm ==
  ASSUME NEW Q \in QueueType, NEW b \in FlushBatch, Calm(Q), b.scope \in Q.in_flight
  PROVE  Calm(ReturnBatch(Q, b))
<1>1. b.scope \in Scope
  BY DEF FlushBatch
<1>2. QED
  BY <1>1, RequeuePreserveType, CarryTables, BackCalm DEF ReturnBatch

\* A turn that ends was in flight, so its batch finds no throttle and no carryover.
LEMMA CompletedCalm ==
  ASSUME Inv, TurnInv, Calm(q), NEW a \in Agent, task[a].phase # "none", NEW out
  PROVE  Calm(Completed(Restored(q, out, task[a].batch), task[a].scope))
<1> DEFINE b == task[a].batch
           s == task[a].scope
<1>1. b \in Batch /\ s \in Scope \cup {Heartbeat} /\ b.scope = s /\ q \in QueueType
  BY DEF Inv, TypeOK, BatchOfTask, Task
<1>2. HasBatch(b) => b.scope \in Scope
  BY <1>1 DEF HasBatch, Inv, BatchOfTask
<1>3. /\ Restored(q, out, b) \in QueueType /\ BatchBack(q, Restored(q, out, b), s)
      /\ Restored(q, out, b) = q \/ b.scope \in Scope
  BY <1>1, <1>2, RestoredType, RestoredTables
<1>4. CASE s = Heartbeat
  BY <1>1, <1>3, <1>4, HarnessAssumption DEF Completed
<1>5. CASE s \in Scope
  <2>1. s # Heartbeat
    BY <1>5, HarnessAssumption
  <2>2. s \in q.in_flight
    BY <2>1 DEF TurnInv, OneTurnPerScope, LiveTasks
  <2>3. QED
    BY <1>1, <1>3, <1>5, <2>1, <2>2, BackCalm DEF Completed
<1>6. QED
  BY <1>1, <1>4, <1>5

\* Every step keeps the queue calm, and sets a mark only where no throttle runs.
LEMMA NextCalm ==
  ASSUME Inv, TurnInv, Calm(q), ~TurnOverrun, [Next]_vars
  PROVE  /\ Calm(q')
         /\ \A s \in q'.in_flight \ q.in_flight : q.retry_after[s] # "active"
<1> DEFINE Fine == /\ Calm(q')
                   /\ \A s \in q'.in_flight \ q.in_flight : q.retry_after[s] # "active"
<1> SUFFICES Fine
  OBVIOUS
<1>1. q \in QueueType /\ expire(q) = q
  BY NothingExpires DEF TurnInv
<1>2. CASE DispatchHold \/ DispatchClaim
  <2>1. PICK s \in flush_choice(q) : q' = flush_next(q, s)
    BY <1>1, <1>2 DEF DispatchHold, DispatchClaim
  <2>2. s \in Scope /\ q.retry_after[s] # "active" /\ Calm(q')
    BY <1>1, <2>1, FlushCalm
  <2>3. q'.in_flight = q.in_flight \cup {s}
    BY <1>1, <2>1, <2>2, FlushNextType
  <2>4. QED
    BY <2>2, <2>3
<1>3. CASE DispatchExhausted
  <2>1. PICK s \in flush_choice(q) : q' = ReturnBatch(flush_next(q, s), flushed_batch(q, s))
    BY <1>1, <1>3 DEF DispatchExhausted
  <2> DEFINE R == flush_next(q, s)
             b == flushed_batch(q, s)
  <2>2. s \in Scope /\ Calm(R)
    BY <1>1, FlushCalm
  <2>3. R \in QueueType /\ b \in FlushBatch /\ b.scope = s /\ R.in_flight = q.in_flight \cup {s}
    BY <1>1, <2>2, FlushNextType
  <2>4. q' = ReturnBatch(R, b)
    BY <2>1
  <2> HIDE DEF R, b
  <2>5. Calm(q') /\ q'.in_flight = R.in_flight \ {s}
    BY <2>2, <2>3, <2>4, ReturnCalm, ReturnBatchType
  <2>6. QED
    BY <2>3, <2>5
<1>4. CASE ReleaseHeld
  <2> DEFINE b == Head(held)
  <2>1. held \in Seq(FlushBatch) /\ held # <<>>
    BY <1>4 DEF ReleaseHeld, Inv, TypeOK, ReleaseHasHeld
  <2>2. b \in FlushBatch /\ 1 \in DOMAIN held /\ b = held[1]
    BY <2>1, HeadTailProperties, LenProperties, EmptySeq
  <2>3. b.scope \in q.in_flight
    BY <2>2 DEF TurnInv, OneTurnPerScope
  <2>4. q' = ReturnBatch(q, b)
    BY <1>4 DEF ReleaseHeld
  <2> HIDE DEF b
  <2>5. Calm(q') /\ q'.in_flight = q.in_flight \ {b.scope}
    BY <1>1, <2>2, <2>3, <2>4, ReturnCalm, ReturnBatchType
  <2>6. QED
    BY <2>5
<1>5. ASSUME NEW a \in Agent, PromptResult(a) \/ RecoverPanicked(a)
      PROVE  Fine
  <2>1. PICK out : q' = Completed(Restored(q, out, task[a].batch), task[a].scope)
    BY <1>5 DEF PromptResult, RecoverPanicked
  <2>2. task[a].phase # "none"
    BY <1>5 DEF PromptResult, RecoverPanicked
  <2>3. Calm(q') /\ q'.in_flight = q.in_flight \ {task[a].scope}
    BY <2>1, <2>2, CompletedCalm, RestoredCompleted
  <2>4. QED
    BY <2>3
<1>6. CASE /\ q'.in_flight = q.in_flight /\ q'.cancelled = q.cancelled
           /\ \A t \in Scope : q'.retry_after[t] = "active" => q.retry_after[t] = "active"
  BY <1>6, CalmSame
<1>7. ASSUME NEW s \in Scope, NEW from_owner \in BOOLEAN, RelayEvent(s, from_owner)
      PROVE  Fine
  <2> DEFINE e == arrived + 1
             P == push(q, s, e)
  <2>1. e \in Event
    BY <1>7 DEF RelayEvent
  <2>2. P \in QueueType /\ SameTables(q, P)
    BY <1>1, <2>1, PushType, PushTables
  <2>3. q' = q \/ q' = P \/ q' = mark_native_steer_pending(P, s, e)
    BY <1>7 DEF RelayEvent, steer_or_interrupt
  <2> HIDE DEF P
  <2>4. LET M == mark_native_steer_pending(P, s, e) IN
        /\ M.in_flight = P.in_flight /\ M.cancelled = P.cancelled
        /\ M.retry_after = P.retry_after
    BY <2>1, <2>2, MarkSteerTables
  <2>5. q'.in_flight = q.in_flight /\ q'.cancelled = q.cancelled /\ q'.retry_after = q.retry_after
    BY <2>2, <2>3, <2>4 DEF SameTables
  <2>6. QED
    BY <1>6, <2>5
<1>8. ASSUME NEW ch \in Channel, MemberRemoved(ch)
      PROVE  Fine
  <2>1. /\ q'.in_flight = q.in_flight
        /\ \A t \in Scope : \/ q'.cancelled[t] = <<>> /\ q'.retry_after[t] = "none"
                            \/ /\ q'.cancelled[t] = q.cancelled[t]
                               /\ q'.retry_after[t] = q.retry_after[t]
    BY <1>1, <1>8 DEF MemberRemoved, drain_channel, QueueType
  <2>2. QED
    BY <2>1 DEF Calm
<1>9. ASSUME NEW st \in steers, SteerAcked(st)
      PROVE  Fine
  <2>1. st.scope \in Scope /\ st.event \in Event
    BY DEF Inv, TypeOK, Steer
  <2>2. \/ q' = remove_event(extend_in_flight_deadline(q, st.scope), st.scope, st.event)
        \/ q' = release_native_steer(q, st.scope, st.event)
    BY <1>9 DEF SteerAcked
  <2>3. q'.in_flight = q.in_flight /\ q'.cancelled = q.cancelled /\ q'.retry_after = q.retry_after
    <3>1. CASE q' = release_native_steer(q, st.scope, st.event)
      <4> DEFINE R == release_native_steer(q, st.scope, st.event)
      <4>1. /\ R.in_flight = q.in_flight /\ R.cancelled = q.cancelled
            /\ R.retry_after = q.retry_after
        BY <1>1, <2>1, ReleaseTables
      <4>2. QED
        BY <3>1, <4>1
    <3>2. CASE q' = remove_event(extend_in_flight_deadline(q, st.scope), st.scope, st.event)
      <4> DEFINE R == remove_event(extend_in_flight_deadline(q, st.scope), st.scope, st.event)
      <4>1. /\ R.in_flight = q.in_flight /\ R.cancelled = q.cancelled
            /\ R.retry_after = q.retry_after
        BY <1>1, <2>1, RemoveTables
      <4>2. QED
        BY <3>2, <4>1
    <3>3. QED
      BY <2>2, <3>1, <3>2
  <2>4. QED
    BY <1>6, <2>3
<1>10. CASE Maintenance
  <2> DEFINE R == compact_expired_state(q)
  <2>1. R \in QueueType /\ R.deadlines = q.deadlines
    BY <1>1, CompactType DEF SameTurns
  <2>2. /\ R.in_flight = q.in_flight /\ R.cancelled = q.cancelled
        /\ \A t \in Scope : R.retry_after[t] = "active" => q.retry_after[t] = "active"
    BY <1>1 DEF compact_expired_state, QueueType
  <2>3. q' = expire(R)
    BY <1>10 DEF Maintenance
  <2> HIDE DEF R
  <2>4. {t \in Scope : R.deadlines[t] = "due"} = {}
    BY <2>1 DEF TurnInv, NoDue
  <2>5. q' = R
    BY <2>1, <2>3, <2>4, ExpireType
  <2>6. QED
    BY <1>6, <2>2, <2>5
<1>11. ASSUME NEW s \in Scope, ThrottleElapses(s) \/ DeadlineElapses(s)
       PROVE  Fine
  <2>1. /\ q'.in_flight = q.in_flight /\ q'.cancelled = q.cancelled
        /\ q'.retry_after = [q.retry_after EXCEPT ![s] = "elapsed"]
    BY <1>1, <1>11 DEF ThrottleElapses, DeadlineElapses, QueueType
  <2>2. QED
    BY <1>1, <1>6, <2>1 DEF QueueType
<1>12. CASE UNCHANGED q
  BY <1>12
<1>13. CASE DispatchDone \/ HeartbeatTick
  BY <1>1, <1>12, <1>13 DEF DispatchDone, HeartbeatTick
<1> HIDE DEF Fine
<1>14. CASE MainLoop
  BY <1>2, <1>3, <1>4, <1>5, <1>9, <1>10, <1>12, <1>13, <1>14
     DEF MainLoop, DrainDone, CollectRespawns, queueVars
<1>15. CASE Environment
  BY <1>7, <1>8, <1>12, <1>13, <1>15
     DEF Environment, OwnerCommand, MemberAdded, TimerTick, queueVars
<1>16. CASE Time
  BY <1>11, <1>12, <1>16 DEF Time, HoldElapses, CircuitCools
<1>17. CASE \/ \E a \in Agent : Turn(a) \/ RespawnEnds(a)
            \/ \E st \in steers : SteerTaken(st) \/ SteerAnswered(st)
  BY <1>12, <1>17 DEF Turn, TurnSucceeds, TurnFails, TurnCancelled, TurnPanics, TurnEnds,
     RespawnEnds, queueVars, SteerTaken, SteerAnswered, steerFrame
<1>18. QED
  BY <1>12, <1>14, <1>15, <1>16, <1>17 DEF Next, vars

\* As long as no turn outlives its in-flight deadline, no scope is prompted while
\* its retry backoff runs, though flush_next looks at the throttle only for queued
\* events and not for carryover: whatever was cancelled, steered, retried or
\* returned before, a throttled scope has no carryover.
THEOREM BackoffIsRespected ==
  ASSUME ~TurnOverrun
  PROVE  Spec => BackoffRespected
<1>1. Init => Calm(q)
  BY DEF Init, new, Calm
<1>2. Inv /\ TurnInv /\ Calm(q) /\ [Next]_vars
        => /\ Calm(q)'
           /\ [\A s \in q'.in_flight \ q.in_flight : q.retry_after[s] # "active"]_vars
  BY NextCalm DEF Calm
<1>3. Inv /\ SlotInv /\ TurnInv /\ [Next]_vars => TurnInv'
  BY NextTurns
<1>4. QED
  BY <1>1, <1>2, <1>3, InitTurns, InvHolds, SlotInvHolds, PTL DEF Spec, BackoffRespected

-----------------------------------------------------------------------------
(* Withheld events.                                                        *)

\* No event is in the sequence twice.
Distinct(seq) == \A i, j \in DOMAIN seq : seq[i] = seq[j] => i = j

\* An event taken out of a sequence is gone if it was there once; nothing else
\* leaves and nothing comes in.
LEMMA WithoutElements ==
  ASSUME NEW seq \in Seq(Event), NEW e
  PROVE  LET r == Without(seq, e) IN
         /\ Len(r) <= Len(seq)
         /\ Elements(r) \subseteq Elements(seq)
         /\ Distinct(seq) => Distinct(r) /\ e \notin Elements(r)
<1> DEFINE pos == CHOOSE i \in DOMAIN seq : seq[i] = e
           n == Len(seq)
           r == Without(seq, e)
<1>1. n \in Nat /\ DOMAIN seq = 1..n
  BY LenProperties
<1>2. CASE e \notin Elements(seq)
  BY <1>1, <1>2 DEF Without
<1>3. CASE e \in Elements(seq)
  <2>1. pos \in 1..n /\ seq[pos] = e
    BY <1>1, <1>3 DEF Elements
  <2> DEFINE front == SubSeq(seq, 1, pos - 1)
             back == SubSeq(seq, pos + 1, n)
  <2>2. r = front \o back
    BY <1>3 DEF Without
  <2> HIDE DEF pos, n
  <2>3. \A i \in 1..n : seq[i] \in Event
    BY <1>1, ElementOfSeq DEF n
  <2>4. /\ front \in Seq(Event) /\ Len(front) = pos - 1
        /\ \A i \in 1..(pos - 1) : front[i] = seq[i]
    <3>1. 1 \in Int /\ pos - 1 \in Int /\ \A i \in 1..(pos - 1) : seq[i] \in Event
      BY <1>1, <2>1, <2>3
    <3>2. /\ front \in Seq(Event) /\ Len(front) = (IF 1 <= pos - 1 THEN pos - 1 - 1 + 1 ELSE 0)
          /\ \A i \in 1..(pos - 1 - 1 + 1) : front[i] = seq[1 + i - 1]
      BY <3>1, SubSeqProperties
    <3> HIDE DEF front
    <3>3. QED
      BY <1>1, <2>1, <3>2
  <2>5. /\ back \in Seq(Event) /\ Len(back) = n - pos
        /\ \A i \in 1..(n - pos) : back[i] = seq[pos + i]
    <3>1. pos + 1 \in Int /\ n \in Int /\ \A i \in (pos + 1)..n : seq[i] \in Event
      BY <1>1, <2>1, <2>3
    <3>2. /\ back \in Seq(Event)
          /\ Len(back) = (IF pos + 1 <= n THEN n - (pos + 1) + 1 ELSE 0)
          /\ \A i \in 1..(n - (pos + 1) + 1) : back[i] = seq[(pos + 1) + i - 1]
      BY <3>1, SubSeqProperties
    <3> HIDE DEF back
    <3>3. QED
      BY <1>1, <2>1, <3>2
  <2> HIDE DEF front, back
  <2>6. /\ r \in Seq(Event) /\ Len(r) = n - 1
        /\ \A i \in 1..(n - 1) : r[i] = IF i < pos THEN seq[i] ELSE seq[i + 1]
    <3>1. /\ r \in Seq(Event) /\ Len(r) = Len(front) + Len(back)
          /\ \A i \in 1..(Len(front) + Len(back)) :
               r[i] = IF i <= Len(front) THEN front[i] ELSE back[i - Len(front)]
      BY <2>2, <2>4, <2>5, ConcatProperties
    <3>2. Len(front) + Len(back) = n - 1
      BY <1>1, <2>1, <2>4, <2>5
    <3>3. ASSUME NEW i \in 1..(n - 1)
          PROVE  r[i] = IF i < pos THEN seq[i] ELSE seq[i + 1]
      <4>1. CASE i < pos
        <5>1. i <= Len(front) /\ i \in 1..(pos - 1)
          BY <1>1, <2>1, <2>4, <4>1
        <5>2. QED
          BY <2>4, <3>1, <3>2, <4>1, <5>1
      <4>2. CASE ~(i < pos)
        <5>1. ~(i <= Len(front)) /\ i - Len(front) = i - pos + 1 /\ i - pos + 1 \in 1..(n - pos)
              /\ pos + (i - pos + 1) = i + 1
          BY <1>1, <2>1, <2>4, <4>2
        <5>2. r[i] = back[i - pos + 1]
          BY <3>1, <3>2, <5>1
        <5>3. QED
          BY <2>5, <4>2, <5>1, <5>2
      <4>3. QED
        BY <4>1, <4>2
    <3>4. QED
      BY <3>1, <3>2, <3>3
  <2> HIDE DEF r
  <2>7. DOMAIN r = 1..(n - 1)
    BY <2>6, LenProperties
  <2> DEFINE src(i) == IF i < pos THEN i ELSE i + 1
  <2>8. \A i \in 1..(n - 1) : src(i) \in 1..n /\ src(i) # pos /\ r[i] = seq[src(i)]
    BY <1>1, <2>1, <2>6
  <2>9. \A i, j \in 1..(n - 1) : src(i) = src(j) => i = j
    BY <1>1, <2>1
  <2> HIDE DEF src
  <2>10. Elements(r) \subseteq Elements(seq)
    BY <1>1, <2>7, <2>8 DEF Elements
  <2>11. Distinct(seq) => Distinct(r) /\ e \notin Elements(r)
    BY <1>1, <2>1, <2>7, <2>8, <2>9 DEF Distinct, Elements
  <2>12. Len(r) <= Len(seq)
    BY <1>1, <2>6 DEF n
  <2>13. QED
    BY <2>10, <2>11, <2>12 DEF r
<1>4. QED
  BY <1>2, <1>3

\* A withheld event arrived before, is withheld once and has its watcher.
Watched(e, s, watchers) == \E st \in watchers : st.scope = s /\ st.event = e

WatchInv ==
  \A s \in Scope :
    /\ Distinct(q.withheld[s])
    /\ \A e \in Elements(q.withheld[s]) : e <= arrived /\ Watched(e, s, steers)

\* Steps that withhold nothing new and keep every watcher.
LEMMA WatchKept ==
  ASSUME WatchInv, arrived' = arrived \/ arrived' = arrived + 1, arrived \in Nat,
         \A s \in Scope : Elements(q.withheld[s]) \subseteq Event,
         \A s \in Scope : q'.withheld[s] = q.withheld[s] \/ q'.withheld[s] = <<>>,
         \A st \in steers : Watched(st.event, st.scope, steers')
  PROVE  WatchInv'
<1> SUFFICES ASSUME NEW s \in Scope
             PROVE  /\ Distinct(q'.withheld[s])
                    /\ \A e \in Elements(q'.withheld[s]) :
                         e <= arrived' /\ Watched(e, s, steers')
  BY DEF WatchInv, Distinct, Elements, Watched
<1>1. CASE q'.withheld[s] = <<>>
  BY <1>1 DEF Distinct, Elements
<1>2. CASE q'.withheld[s] = q.withheld[s]
  <2>1. Distinct(q'.withheld[s])
    BY <1>2 DEF WatchInv
  <2>2. ASSUME NEW e \in Elements(q.withheld[s])
        PROVE  e <= arrived' /\ Watched(e, s, steers')
    <3>1. e \in Event /\ e <= arrived /\ Watched(e, s, steers)
      BY DEF WatchInv
    <3>2. e \in Nat
      BY <3>1, QueueAssumption
    <3>3. Watched(e, s, steers')
      BY <3>1 DEF Watched
    <3>4. QED
      BY <3>1, <3>2, <3>3
  <2>3. QED
    BY <1>2, <2>1, <2>2
<1>3. QED
  BY <1>1, <1>2

\* The tables hold events.
LEMMA WithheldType ==
  ASSUME Inv
  PROVE  /\ q \in QueueType /\ arrived \in Nat
         /\ \A s \in Scope : q.withheld[s] \in Seq(Event) /\ Elements(q.withheld[s]) \subseteq Event
  BY ElementsType DEF Inv, TypeOK, QueueType

\* A relay event is withheld after its arrival, and with it comes its watcher.
LEMMA RelayWatched ==
  ASSUME Inv, WatchInv, NEW s \in Scope, NEW from_owner \in BOOLEAN, RelayEvent(s, from_owner)
  PROVE  WatchInv'
<1> DEFINE e == arrived + 1
           P == push(q, s, e)
           M == mark_native_steer_pending(P, s, e)
<1>1. e \in Event /\ arrived' = e
  BY DEF RelayEvent
<1>2. /\ q \in QueueType /\ arrived \in Nat
      /\ \A t \in Scope : q.withheld[t] \in Seq(Event) /\ Elements(q.withheld[t]) \subseteq Event
  BY WithheldType
<1>3. P \in QueueType /\ P.withheld = q.withheld
  BY <1>1, <1>2, PushType, PushTables DEF SameTables
<1>4. \/ (q' = P \/ q' = q) /\ steers' = steers
      \/ /\ q' = M
         /\ \E a : steers' = steers \cup
              {[scope |-> s, event |-> e, agent |-> a, state |-> "slot", ack |-> "neutral"]}
  BY DEF RelayEvent, steer_or_interrupt
<1> HIDE DEF P
<1>5. \/ M.withheld = P.withheld
      \/ M.withheld = [P.withheld EXCEPT ![s] = Append(P.withheld[s], e)]
  BY <1>1, <1>3, MarkSteerTables
<1> HIDE DEF M
<1>6. \A st \in steers : Watched(st.event, st.scope, steers')
  BY <1>4 DEF Watched
<1>7. CASE q'.withheld = q.withheld
  BY <1>1, <1>2, <1>6, <1>7, WatchKept
<1>8. CASE q' = M /\ q'.withheld = [q.withheld EXCEPT ![s] = Append(q.withheld[s], e)]
  <2> DEFINE w == q.withheld[s]
             n == Len(w)
             x == Append(w, e)
  <2>1. w \in Seq(Event) /\ n \in Nat /\ DOMAIN w = 1..n
    BY <1>2, LenProperties
  <2>2. /\ x \in Seq(Event) /\ Len(x) = n + 1
        /\ \A i \in 1..n : x[i] = w[i]
        /\ x[n + 1] = e
    BY <1>1, <2>1, AppendProperties
  <2> HIDE DEF x
  <2>3. DOMAIN x = 1..(n + 1)
    BY <2>2, LenProperties
  <2>4. Distinct(w) /\ \A f \in Elements(w) : f \in Nat /\ f <= arrived /\ Watched(f, s, steers)
    BY <1>2, QueueAssumption DEF WatchInv
  <2>5. Watched(e, s, steers')
    <3>1. PICK a : steers' = steers \cup
              {[scope |-> s, event |-> e, agent |-> a, state |-> "slot", ack |-> "neutral"]}
      <4>1. q.withheld # [q.withheld EXCEPT ![s] = x]
        <5>1. q.withheld \in [Scope -> Seq(Event)]
          BY <1>2 DEF QueueType
        <5>2. Len(x) # Len(w)
          BY <2>1, <2>2
        <5>3. QED
          BY <5>1, <5>2
      <4>2. q' # P /\ q' # q
        BY <1>3, <1>8, <4>1 DEF x
      <4>3. QED
        BY <1>4, <4>2
    <3> DEFINE st == [scope |-> s, event |-> e, agent |-> a, state |-> "slot",
                      ack |-> "neutral"]
    <3>2. st \in steers' /\ st.scope = s /\ st.event = e
      BY <3>1
    <3>3. QED
      BY <3>2 DEF Watched
  <2>6. \A i \in 1..n : w[i] \in Elements(w)
    BY <2>1 DEF Elements
  <2>7. Distinct(x)
    <3>1. \A i \in 1..n : x[i] \in Nat /\ x[i] <= arrived /\ x[i] # e
      BY <1>2, <2>2, <2>4, <2>6
    <3>2. \A i \in 1..(n + 1) : i \in 1..n \/ i = n + 1
      BY <2>1
    <3>3. QED
      BY <2>1, <2>2, <2>3, <2>4, <3>1, <3>2 DEF Distinct
  <2>8. \A f \in Elements(x) : f <= arrived' /\ Watched(f, s, steers')
    <3>1. \A i \in 1..(n + 1) : i \in 1..n \/ i = n + 1
      BY <2>1
    <3>2. \A f \in Elements(x) : f \in Elements(w) \/ f = e
      BY <2>1, <2>2, <2>3, <2>6, <3>1 DEF Elements
    <3>3. \A f \in Elements(w) : f <= arrived' /\ Watched(f, s, steers')
      <4>1. \A f \in Elements(w) : f <= arrived'
        BY <1>1, <1>2, <2>4
      <4>2. \A f \in Elements(w) : Watched(f, s, steers')
        BY <1>6, <2>4 DEF Watched
      <4>3. QED
        BY <4>1, <4>2
    <3>4. QED
      BY <1>1, <1>2, <2>5, <3>2, <3>3
  <2>9. q'.withheld[s] = x /\ \A t \in Scope : t # s => q'.withheld[t] = q.withheld[t]
    BY <1>2, <1>8 DEF QueueType, x
  <2>10. ASSUME NEW t \in Scope, t # s
         PROVE  /\ Distinct(q.withheld[t])
                /\ \A f \in Elements(q.withheld[t]) : f <= arrived' /\ Watched(f, t, steers')
    <3>1. \A f \in Elements(q.withheld[t]) : f \in Nat /\ f <= arrived /\ Watched(f, t, steers)
      BY <1>2, QueueAssumption DEF WatchInv
    <3>2. \A f \in Elements(q.withheld[t]) : f <= arrived'
      BY <1>1, <1>2, <3>1
    <3>3. \A f \in Elements(q.withheld[t]) : Watched(f, t, steers')
      BY <1>6, <3>1 DEF Watched
    <3>4. QED
      BY <3>2, <3>3 DEF WatchInv
  <2> HIDE DEF w, n, e
  <2>11. \A t \in Scope :
           /\ Distinct(q'.withheld[t])
           /\ \A f \in Elements(q'.withheld[t]) : f <= arrived' /\ Watched(f, t, steers')
    <3> TAKE t \in Scope
    <3>1. CASE t = s
      BY <2>7, <2>8, <2>9, <3>1
    <3>2. CASE t # s
      BY <2>9, <2>10, <3>2
    <3>3. QED
      BY <3>1, <3>2
  <2>12. QED
    BY <2>11 DEF WatchInv, Distinct, Elements, Watched
<1>9. QED
  BY <1>3, <1>4, <1>5, <1>7, <1>8

\* An answered steer takes its event out of the withheld ones.
LEMMA AckWithheld ==
  ASSUME Inv, NEW st \in steers, SteerAcked(st)
  PROVE  q'.withheld = [q.withheld EXCEPT ![st.scope] = Without(q.withheld[st.scope], st.event)]
<1> DEFINE s == st.scope
           e == st.event
           w == Without(q.withheld[s], e)
<1>1. s \in Scope /\ e \in Event /\ q \in QueueType
  BY WithheldType DEF Inv, TypeOK, Steer
<1>2. CASE q' = release_native_steer(q, s, e)
  BY <1>1, <1>2, ReleaseTables
<1>3. CASE q' = remove_event(extend_in_flight_deadline(q, s), s, e)
  <2> DEFINE R == remove_event(extend_in_flight_deadline(q, s), s, e)
  <2>1. R.withheld = [q.withheld EXCEPT ![s] = w]
    BY <1>1 DEF remove_event, extend_in_flight_deadline, QueueType
  <2>2. QED
    BY <1>3, <2>1
<1>4. QED
  BY <1>2, <1>3 DEF SteerAcked

\* It does so before its watcher goes: the watchers of the other events stay.
LEMMA AckWatched ==
  ASSUME Inv, WatchInv, NEW st \in steers, SteerAcked(st)
  PROVE  WatchInv'
<1> DEFINE s == st.scope
           e == st.event
           w == Without(q.withheld[s], e)
<1>1. s \in Scope /\ e \in Event
  BY DEF Inv, TypeOK, Steer
<1>2. /\ q \in QueueType /\ arrived \in Nat
      /\ \A t \in Scope : q.withheld[t] \in Seq(Event) /\ Elements(q.withheld[t]) \subseteq Event
  BY WithheldType
<1>3. steers' = steers \ {st} /\ arrived' = arrived
  BY DEF SteerAcked
<1>4. q'.withheld = [q.withheld EXCEPT ![s] = w]
  BY AckWithheld
<1>5. /\ Elements(w) \subseteq Elements(q.withheld[s])
      /\ Distinct(w) /\ e \notin Elements(w)
  BY <1>1, <1>2, WithoutElements DEF WatchInv
<1> HIDE DEF w
<1>6. q'.withheld[s] = w /\ \A t \in Scope : t # s => q'.withheld[t] = q.withheld[t]
  BY <1>1, <1>2, <1>4 DEF QueueType
<1>7. ASSUME NEW t \in Scope, NEW f, Watched(f, t, steers), t # s \/ f # e
      PROVE  Watched(f, t, steers')
  BY <1>3, <1>7 DEF Watched
<1>8. \A t \in Scope :
        /\ Distinct(q'.withheld[t])
        /\ \A f \in Elements(q'.withheld[t]) : f <= arrived' /\ Watched(f, t, steers')
  <2> TAKE t \in Scope
  <2>1. CASE t = s
    <3>1. \A f \in Elements(w) : f <= arrived /\ Watched(f, s, steers) /\ f # e
      BY <1>1, <1>5 DEF WatchInv
    <3>2. \A f \in Elements(w) : Watched(f, s, steers')
      BY <1>1, <1>7, <3>1
    <3>3. QED
      BY <1>3, <1>5, <1>6, <2>1, <3>1, <3>2
  <2>2. CASE t # s
    <3>1. /\ Distinct(q.withheld[t])
          /\ \A f \in Elements(q.withheld[t]) : f <= arrived /\ Watched(f, t, steers)
      BY DEF WatchInv
    <3>2. \A f \in Elements(q.withheld[t]) : Watched(f, t, steers')
      BY <1>7, <2>2, <3>1
    <3>3. QED
      BY <1>3, <1>6, <2>2, <3>1, <3>2
  <2>3. QED
    BY <2>1, <2>2
<1>9. QED
  BY <1>8 DEF WatchInv, Distinct, Elements, Watched

\* The read loop and the end of a turn answer a steer and keep its record.
LEMMA SteersKept ==
  ASSUME Inv, \/ steers' = steers
              \/ \E a : steers' = SteersEndedBy(a)
              \/ \E st \in steers : SteerTaken(st) \/ SteerAnswered(st)
  PROVE  \A st \in steers : Watched(st.event, st.scope, steers')
<1> SUFFICES ASSUME NEW st \in steers
             PROVE  Watched(st.event, st.scope, steers')
  OBVIOUS
<1>1. steers \subseteq Steer
  BY DEF Inv, TypeOK
<1>2. CASE steers' = steers
  BY <1>2 DEF Watched
<1>3. ASSUME NEW a, steers' = SteersEndedBy(a)
      PROVE  Watched(st.event, st.scope, steers')
  <2> DEFINE ended == IF st.agent = a /\ st.state \in {"slot", "written"}
                      THEN [st EXCEPT !.state = "acked", !.ack = "neutral"] ELSE st
  <2>1. ended \in steers'
    BY <1>3 DEF SteersEndedBy
  <2>2. ended.event = st.event /\ ended.scope = st.scope
    BY <1>1 DEF Steer
  <2>3. QED
    BY <2>1, <2>2 DEF Watched
<1>4. ASSUME NEW other \in steers, SteerTaken(other) \/ SteerAnswered(other)
      PROVE  Watched(st.event, st.scope, steers')
  <2>1. PICK next : /\ steers' = (steers \ {other}) \cup {next}
                    /\ next.event = other.event /\ next.scope = other.scope
    <3>1. CASE SteerTaken(other)
      <4>1. PICK next \in {[other EXCEPT !.state = "written"],
                           [other EXCEPT !.state = "acked", !.ack = "unlanded"]} :
              steers' = (steers \ {other}) \cup {next}
        BY <3>1 DEF SteerTaken
      <4>2. next.event = other.event /\ next.scope = other.scope
        BY <1>1, <4>1 DEF Steer
      <4>3. QED
        BY <4>1, <4>2
    <3>2. CASE SteerAnswered(other)
      <4>1. PICK ack : steers' = (steers \ {other}) \cup
                                   {[other EXCEPT !.state = "acked", !.ack = ack]}
        BY <3>2 DEF SteerAnswered
      <4> DEFINE next == [other EXCEPT !.state = "acked", !.ack = ack]
      <4>2. next.event = other.event /\ next.scope = other.scope
        BY <1>1 DEF Steer
      <4>3. QED
        BY <4>1, <4>2
    <3>3. QED
      BY <1>4, <3>1, <3>2
  <2>2. CASE st = other
    BY <2>1, <2>2 DEF Watched
  <2>3. CASE st # other
    BY <2>1, <2>3 DEF Watched
  <2>4. QED
    BY <2>2, <2>3
<1>5. QED
  BY <1>2, <1>3, <1>4

\* The queue of a step of the main loop other than a relay event or a steer ack
\* withholds what it withheld, or gives it back: if a deadline is due, or the
\* agent was removed.
LEMMA WithheldKept ==
  ASSUME Inv, [Next]_vars,
         ~\E st \in steers : SteerAcked(st),
         ~\E s \in Scope, from_owner \in BOOLEAN : RelayEvent(s, from_owner)
  PROVE  /\ \A s \in Scope : q'.withheld[s] = q.withheld[s] \/ q'.withheld[s] = <<>>
         /\ NoDue /\ (\A ch \in Channel : ~MemberRemoved(ch)) => q'.withheld = q.withheld
         /\ arrived' = arrived
<1> DEFINE Calls == \A ch \in Channel : ~MemberRemoved(ch)
           Kept == \A s \in Scope : q'.withheld[s] = q.withheld[s] \/ q'.withheld[s] = <<>>
           Q == expire(q)
           Fine == /\ Kept /\ arrived' = arrived
                   /\ NoDue /\ Calls => q'.withheld = q.withheld
<1> SUFFICES Fine
  OBVIOUS
<1>1. /\ q \in QueueType /\ Q \in QueueType
      /\ \A s \in Scope : Q.withheld[s] = q.withheld[s] \/ Q.withheld[s] = <<>>
      /\ NoDue => Q.withheld = q.withheld
  BY ExpireType, ExpireTables, NothingExpires DEF Inv, TypeOK
<1> HIDE DEF Q
<1>2. ASSUME NEW s \in flush_choice(Q)
      PROVE  /\ s \in Scope /\ flush_next(Q, s).withheld = Q.withheld
             /\ flush_next(Q, s) \in QueueType /\ flushed_batch(Q, s) \in FlushBatch
  BY <1>1, FlushChoiceFree, FlushTables, FlushNextType
<1>3. ASSUME NEW R \in QueueType, NEW b \in FlushBatch
      PROVE  ReturnBatch(R, b).withheld = R.withheld
  <2> DEFINE P == requeue_preserve_timestamps(R, b)
  <2>1. P \in QueueType /\ b.scope \in Scope /\ P.withheld = R.withheld
    BY RequeuePreserveType, CarryTables DEF FlushBatch, BatchBack
  <2>2. ReturnBatch(R, b) = mark_complete(P, b.scope)
    BY DEF ReturnBatch
  <2> HIDE DEF P
  <2>3. QED
    BY <2>1, <2>2, CompleteTables
<1>4. CASE DispatchHold \/ DispatchClaim
  <2>1. PICK s \in flush_choice(Q) : q' = flush_next(Q, s)
    BY <1>4 DEF DispatchHold, DispatchClaim, Q
  <2>2. QED
    BY <1>1, <1>2, <1>4, <2>1 DEF DispatchHold, DispatchClaim
<1>5. CASE DispatchExhausted
  <2>1. PICK s \in flush_choice(Q) : q' = ReturnBatch(flush_next(Q, s), flushed_batch(Q, s))
    BY <1>5 DEF DispatchExhausted, Q
  <2>2. QED
    BY <1>1, <1>2, <1>3, <1>5, <2>1 DEF DispatchExhausted
<1>6. CASE DispatchDone \/ HeartbeatTick
  BY <1>1, <1>6 DEF DispatchDone, HeartbeatTick, Q
<1>7. CASE ReleaseHeld
  <2>1. Head(held) \in FlushBatch
    BY <1>7, HeadTailProperties DEF ReleaseHeld, Inv, TypeOK, ReleaseHasHeld
  <2>2. QED
    BY <1>1, <1>3, <1>7, <2>1 DEF ReleaseHeld
<1>8. ASSUME NEW a \in Agent, PromptResult(a) \/ RecoverPanicked(a)
      PROVE  Fine
  <2> DEFINE b == task[a].batch
             s == task[a].scope
  <2>1. PICK out : q' = Completed(Restored(q, out, b), s)
    BY <1>8 DEF PromptResult, RecoverPanicked
  <2>2. b \in Batch /\ s \in Scope \cup {Heartbeat} /\ b.scope = s
    BY DEF Inv, TypeOK, BatchOfTask, Task
  <2>3. HasBatch(b) => b.scope \in Scope
    BY <2>2 DEF HasBatch, Inv, BatchOfTask
  <2> DEFINE R == Restored(q, out, b)
  <2>4. R \in QueueType /\ R.withheld = q.withheld
    BY <1>1, <2>2, <2>3, RestoredType, RestoredTables DEF BatchBack
  <2>5. \/ q' = R
        \/ s \in Scope /\ q' = mark_complete(R, s)
    <3>1. q' = Completed(R, s)
      BY <2>1
    <3> HIDE DEF R, s
    <3>2. QED
      BY <2>2, <3>1 DEF Completed
  <2> HIDE DEF R
  <2>6. q'.withheld = q.withheld
    BY <2>4, <2>5, CompleteTables
  <2>7. QED
    BY <1>8, <2>6 DEF PromptResult, RecoverPanicked
<1>9. ASSUME NEW ch \in Channel, MemberRemoved(ch)
      PROVE  Fine
  BY <1>1, <1>9 DEF MemberRemoved, drain_channel, QueueType
<1>10. CASE Maintenance
  <2> DEFINE R == compact_expired_state(q)
  <2>1. R \in QueueType /\ R.withheld = q.withheld /\ R.deadlines = q.deadlines
    BY <1>1, CompactType DEF compact_expired_state, QueueType
  <2>2. q' = expire(R) /\ arrived' = arrived
    BY <1>10 DEF Maintenance
  <2> HIDE DEF R
  <2>3. NoDue => expire(R) = R
    <3>1. NoDue => {s \in Scope : R.deadlines[s] = "due"} = {}
      BY <2>1 DEF NoDue
    <3>2. QED
      BY <2>1, <3>1, ExpireType
  <2>4. QED
    BY <2>1, <2>2, <2>3, ExpireTables
<1>11. ASSUME NEW s \in Scope, ThrottleElapses(s) \/ DeadlineElapses(s)
       PROVE  Fine
  BY <1>1, <1>11 DEF ThrottleElapses, DeadlineElapses, QueueType, timeFrame
<1>12. CASE UNCHANGED <<q, arrived>>
  BY <1>12
<1> HIDE DEF Fine
<1>13. CASE MainLoop
  BY <1>4, <1>5, <1>6, <1>7, <1>8, <1>10, <1>12, <1>13
     DEF MainLoop, DrainDone, CollectRespawns, queueVars
<1>14. CASE Environment
  BY <1>6, <1>9, <1>12, <1>14
     DEF Environment, OwnerCommand, MemberAdded, TimerTick, queueVars
<1>15. CASE Time
  BY <1>11, <1>12, <1>15 DEF Time, HoldElapses, CircuitCools, timeFrame
<1>16. CASE \/ \E a \in Agent : Turn(a) \/ RespawnEnds(a)
            \/ \E st \in steers : SteerTaken(st) \/ SteerAnswered(st)
  <2>1. ASSUME NEW a \in Agent, Turn(a)
        PROVE  UNCHANGED <<q, arrived>>
    BY <2>1 DEF Turn, TurnSucceeds, TurnFails, TurnCancelled, TurnPanics, TurnEnds
  <2>2. ASSUME NEW a \in Agent, RespawnEnds(a)
        PROVE  UNCHANGED <<q, arrived>>
    BY <2>2 DEF RespawnEnds, queueVars
  <2>3. ASSUME NEW st \in steers, SteerTaken(st) \/ SteerAnswered(st)
        PROVE  UNCHANGED <<q, arrived>>
    BY <2>3 DEF SteerTaken, SteerAnswered, steerFrame
  <2>4. QED
    BY <1>12, <1>16, <2>1, <2>2, <2>3
<1>17. QED
  BY <1>12, <1>13, <1>14, <1>15, <1>16 DEF Next, vars

\* Steers come with a relay event and go with their ack.
LEMMA OtherSteers ==
  ASSUME [Next]_vars,
         ~\E st \in steers : SteerAcked(st),
         ~\E s \in Scope, from_owner \in BOOLEAN : RelayEvent(s, from_owner)
  PROVE  \/ steers' = steers
         \/ \E a : steers' = SteersEndedBy(a)
         \/ \E st \in steers : SteerTaken(st) \/ SteerAnswered(st)
<1>1. CASE MainLoop
  BY <1>1 DEF MainLoop, DispatchHold, DispatchClaim, DispatchExhausted, DispatchDone,
     ReleaseHeld, PromptResult, RecoverPanicked, DrainDone, Maintenance, CollectRespawns
<1>2. CASE Environment
  BY <1>2 DEF Environment, OwnerCommand, MemberRemoved, MemberAdded, TimerTick, HeartbeatTick
<1>3. CASE Time
  BY <1>3 DEF Time, ThrottleElapses, DeadlineElapses, HoldElapses, CircuitCools, timeFrame
<1>4. CASE \E a \in Agent : Turn(a) \/ RespawnEnds(a)
  BY <1>4 DEF Turn, TurnSucceeds, TurnFails, TurnCancelled, TurnPanics, TurnEnds, RespawnEnds
<1>5. QED
  BY <1>1, <1>2, <1>3, <1>4 DEF Next, vars

\* Every step of the harness keeps a watcher for every withheld event.
LEMMA NextWatched == Inv /\ WatchInv /\ [Next]_vars => WatchInv'
<1> SUFFICES ASSUME Inv, WatchInv, [Next]_vars PROVE WatchInv'
  OBVIOUS
<1>1. CASE \E st \in steers : SteerAcked(st)
  BY <1>1, AckWatched
<1>2. CASE \E s \in Scope, from_owner \in BOOLEAN : RelayEvent(s, from_owner)
  BY <1>2, RelayWatched
<1>3. CASE /\ ~\E st \in steers : SteerAcked(st)
           /\ ~\E s \in Scope, from_owner \in BOOLEAN : RelayEvent(s, from_owner)
  <2>1. /\ \A s \in Scope : q'.withheld[s] = q.withheld[s] \/ q'.withheld[s] = <<>>
        /\ arrived' = arrived
    BY <1>3, WithheldKept
  <2>2. \/ steers' = steers
        \/ \E a : steers' = SteersEndedBy(a)
        \/ \E st \in steers : SteerTaken(st) \/ SteerAnswered(st)
    BY <1>3, OtherSteers
  <2>3. QED
    BY <2>1, <2>2, SteersKept, WatchKept, WithheldType
<1>4. QED
  BY <1>1, <1>2, <1>3

\* No event is orphaned among the withheld ones: as long as it is there, a steer
\* that will be answered knows it, however the turn ends, whether the steer was
\* written or not, and even if the backstop, a removal or a second steer of the
\* scope comes in between.
THEOREM WithheldIsWatched == Spec => []WithheldHasWatcher
<1>1. Init => WatchInv
  BY DEF Init, new, WatchInv, Distinct, Elements
<1>2. WatchInv => WithheldHasWatcher
  BY DEF WatchInv, WithheldHasWatcher, Watched
<1>3. QED
  BY <1>1, <1>2, NextWatched, InvHolds, PTL DEF Spec

-----------------------------------------------------------------------------
(* The depth caps.                                                         *)

\* Among the elements of a set, one has the least rank.
LEMMA LeastRank ==
  ASSUME NEW S, S # {}, NEW f \in [S -> Nat]
  PROVE  \E m \in S : \A x \in S : f[m] <= f[x]
<1> DEFINE less == {ss \in Nat \X Nat : ss[1] < ss[2]}
           T == {f[x] : x \in S}
<1>1. IsWellFoundedOn(less, Nat)
  BY NatLessThanWellFounded DEF OpToRel
<1>2. T \subseteq Nat /\ T # {}
  OBVIOUS
<1>3. \A k, m \in Nat : k < m => <<k, m>> \in less
  OBVIOUS
<1>4. \E m \in T : \A k \in T : ~(<<k, m>> \in less)
  <2> HIDE DEF less, T
  <2> QED
    BY <1>1, <1>2, WFMin
<1> HIDE DEF less
<1>5. PICK v \in T : \A k \in T : ~(<<k, v>> \in less)
  BY <1>4
<1>6. \A k \in T : ~(k < v)
  BY <1>2, <1>3, <1>5
<1>7. PICK m \in S : v = f[m]
  OBVIOUS
<1>8. \A x \in S : f[x] \in T /\ f[x] \in Nat /\ ~(f[x] < f[m])
  BY <1>6, <1>7
<1>9. QED
  BY <1>7, <1>8

\* A finite set of numbers has a greatest one: the number with the fewest above.
LEMMA FiniteMax ==
  ASSUME NEW S \in SUBSET Nat, IsFiniteSet(S), S # {}
  PROVE  \E m \in S : \A x \in S : x <= m
<1> DEFINE up(x) == {y \in S : y > x}
           f == [x \in S |-> Cardinality(up(x))]
<1>1. \A x \in S : IsFiniteSet(up(x)) /\ Cardinality(up(x)) \in Nat
  <2> TAKE x \in S
  <2>1. up(x) \in SUBSET S
    OBVIOUS
  <2> HIDE DEF up
  <2>2. QED
    BY <2>1, FS_Subset, FS_CardinalityType
<1>2. PICK m \in S : \A x \in S : f[m] <= f[x]
  <2>1. f \in [S -> Nat]
    BY <1>1
  <2> HIDE DEF f
  <2>2. QED
    BY <2>1, LeastRank
<1>3. ASSUME NEW y \in S, y > m
      PROVE  FALSE
  <2>1. up(y) \in SUBSET up(m) /\ y \in up(m) /\ y \notin up(y)
    <3>1. \A z \in S : z \in Nat
      OBVIOUS
    <3>2. \A z \in S : z > y => z > m
      BY <1>3, <3>1
    <3>3. ~(y > y)
      BY <3>1
    <3>4. QED
      BY <1>3, <3>2, <3>3
  <2>2. Cardinality(up(m)) <= Cardinality(up(y))
    <3>1. f[m] <= f[y] /\ f[m] = Cardinality(up(m)) /\ f[y] = Cardinality(up(y))
      BY <1>2, Zenon
    <3>2. QED
      BY <3>1
  <2>3. /\ Cardinality(up(m)) \in Nat /\ Cardinality(up(y)) \in Nat
        /\ IsFiniteSet(up(m))
    BY <1>1
  <2> HIDE DEF up
  <2>4. /\ Cardinality(up(y)) <= Cardinality(up(m))
        /\ Cardinality(up(m)) = Cardinality(up(y)) => up(m) = up(y)
    BY <2>1, <2>3, FS_Subset
  <2>5. QED
    BY <2>1, <2>2, <2>3, <2>4
<1>4. \A x \in S : x \in Nat /\ m \in Nat /\ ~(x > m)
  BY <1>3
<1>5. QED
  BY <1>4

\* The positions of the queues of a channel.
LEMMA CellsAre ==
  ASSUME NEW table \in [Scope -> Seq(Event)], NEW ch
  PROVE  /\ \A c \in Cells(table, ch) :
              /\ c = <<c[1], c[2]>> /\ c[1] \in Scope /\ ChannelOf[c[1]] = ch
              /\ c[2] \in 1..Len(table[c[1]])
         /\ \A s \in Scope : ChannelOf[s] = ch =>
              \A i \in 1..Len(table[s]) : <<s, i>> \in Cells(table, ch)
<1>1. \A s \in Scope : DOMAIN table[s] = 1..Len(table[s])
  BY LenProperties
<1>2. QED
  BY <1>1 DEF Cells

\* A channel of finitely many scopes has finitely many queued events.
LEMMA CellsFinite ==
  ASSUME NEW table \in [Scope -> Seq(Event)], NEW ch, IsFiniteSet(Scope),
         \A s \in Scope : Len(table[s]) <= MAX_PENDING_PER_SCOPE
  PROVE  IsFiniteSet(Cells(table, ch)) /\ Cardinality(Cells(table, ch)) \in Nat
<1> DEFINE n == MAX_PENDING_PER_SCOPE
<1>1. n \in Nat /\ IsFiniteSet(1..n)
  BY QueueAssumption, IntervalSize
<1>2. IsFiniteSet(Scope \X (1..n))
  BY <1>1, FS_Product
<1>3. Cells(table, ch) \in SUBSET (Scope \X (1..n))
  <2> SUFFICES ASSUME NEW c \in Cells(table, ch)
               PROVE  c \in Scope \X (1..n)
    OBVIOUS
  <2>1. c = <<c[1], c[2]>> /\ c[1] \in Scope /\ c[2] \in 1..Len(table[c[1]])
    BY CellsAre
  <2>2. Len(table[c[1]]) \in Nat /\ Len(table[c[1]]) <= n
    BY <2>1, LenProperties
  <2>3. c[2] \in 1..n
    BY <1>1, <2>1, <2>2
  <2>4. QED
    BY <2>1, <2>3
<1> HIDE DEF n
<1>4. IsFiniteSet(Cells(table, ch))
  BY <1>2, <1>3, FS_Subset
<1>5. QED
  BY <1>4, FS_CardinalityType

\* Position i of a queue goes with the greatest stamp up to i, so never before a
\* position in front of it.
LEMMA PoppedAtOrder ==
  ASSUME NEW table \in [Scope -> Seq(Event)], NEW s \in Scope,
         NEW i \in 1..Len(table[s])
  PROVE  /\ PoppedAt(table, <<s, i>>) \in Nat
         /\ \A j \in 1..i : PoppedAt(table, <<s, j>>) <= PoppedAt(table, <<s, i>>)
<1> DEFINE prefix(k) == {table[s][j] : j \in 1..k}
           at(k) == PoppedAt(table, <<s, k>>)
<1>1. Len(table[s]) \in Nat /\ \A j \in 1..Len(table[s]) : table[s][j] \in Nat
  <2>1. table[s] \in Seq(Event)
    OBVIOUS
  <2>2. QED
    BY <2>1, QueueAssumption, ElementOfSeq, LenProperties
<1>2. ASSUME NEW k \in 1..Len(table[s])
      PROVE  /\ at(k) \in prefix(k) /\ at(k) \in Nat
             /\ \A x \in prefix(k) : x <= at(k)
  <2>1. prefix(k) \in SUBSET Nat /\ prefix(k) # {}
    <3>1. \A j \in 1..k : j \in 1..Len(table[s])
      BY <1>1
    <3>2. table[s][k] \in prefix(k)
      BY <1>1
    <3>3. QED
      BY <1>1, <3>1, <3>2
  <2>2. IsFiniteSet(prefix(k))
    <3> DEFINE f == [j \in 1..k |-> table[s][j]]
    <3>1. f \in Surjection(1..k, prefix(k))
      BY DEF Surjection
    <3>2. IsFiniteSet(1..k)
      BY IntervalSize
    <3> HIDE DEF f, prefix
    <3>3. QED
      BY <3>1, <3>2, FS_Surjection
  <2>3. at(k) = CHOOSE m \in prefix(k) : \A x \in prefix(k) : x <= m
    BY DEF PoppedAt
  <2> HIDE DEF prefix, at
  <2>4. \E m \in prefix(k) : \A x \in prefix(k) : x <= m
    BY <2>1, <2>2, FiniteMax
  <2>5. QED
    BY <2>1, <2>3, <2>4
<1>3. ASSUME NEW j \in 1..i
      PROVE  at(j) <= at(i)
  <2>1. j \in 1..Len(table[s]) /\ prefix(j) \subseteq prefix(i)
    BY <1>1
  <2> HIDE DEF prefix, at
  <2>2. QED
    BY <1>2, <2>1
<1>4. QED
  BY <1>2, <1>3

\* The order in which the aggregate cap takes the queued events of a channel: it
\* follows each queue from its front, and what goes before a victim goes before
\* all that follow it.
LEMMA PoppedBeforeOrder ==
  ASSUME NEW table \in [Scope -> Seq(Event)], NEW ch,
         NEW c \in Cells(table, ch), NEW d \in Cells(table, ch), NEW e \in Cells(table, ch)
  PROVE  /\ ~PoppedBefore(table, c, c)
         /\ PoppedBefore(table, c, d) /\ PoppedBefore(table, d, e) => PoppedBefore(table, c, e)
<1>1. \A x \in Cells(table, ch) :
        /\ x = <<x[1], x[2]>> /\ x[1] \in Scope /\ x[2] \in 1..Len(table[x[1]])
        /\ Len(table[x[1]]) \in Nat
  <2> TAKE x \in Cells(table, ch)
  <2>1. x = <<x[1], x[2]>> /\ x[1] \in Scope /\ x[2] \in 1..Len(table[x[1]])
    BY CellsAre
  <2>2. table[x[1]] \in Seq(Event)
    BY <2>1
  <2>3. QED
    BY <2>1, <2>2, LenProperties
<1>2. \A x \in Cells(table, ch) : PoppedAt(table, x) \in Nat /\ x[2] \in Nat
  <2> TAKE x \in Cells(table, ch)
  <2>1. PoppedAt(table, <<x[1], x[2]>>) \in Nat
    BY <1>1, PoppedAtOrder
  <2>2. x = <<x[1], x[2]>> /\ x[2] \in Nat
    BY <1>1
  <2>3. QED
    BY <2>1, <2>2
<1>3. ASSUME NEW x \in Cells(table, ch), NEW y \in Cells(table, ch),
             x[1] = y[1], x[2] < y[2]
      PROVE  PoppedAt(table, x) <= PoppedAt(table, y)
  <2>1. x[2] \in 1..y[2]
    BY <1>1, <1>3
  <2>2. PoppedAt(table, <<y[1], x[2]>>) <= PoppedAt(table, <<y[1], y[2]>>)
    BY <1>1, <2>1, PoppedAtOrder
  <2>3. <<y[1], x[2]>> = x /\ <<y[1], y[2]>> = y
    BY <1>1, <1>3
  <2>4. QED
    BY <2>2, <2>3
<1>4. ~PoppedBefore(table, c, c)
  BY <1>2 DEF PoppedBefore
<1>5. ASSUME PoppedBefore(table, c, d), PoppedBefore(table, d, e)
      PROVE  PoppedBefore(table, c, e)
  <2> DEFINE C == PoppedAt(table, c)
             D == PoppedAt(table, d)
             E == PoppedAt(table, e)
  <2>1. C \in Nat /\ D \in Nat /\ E \in Nat /\ c[2] \in Nat /\ d[2] \in Nat /\ e[2] \in Nat
    BY <1>2
  <2>2. C < D \/ (c[1] = d[1] /\ c[2] < d[2] /\ C <= D)
    BY <1>3, <1>5 DEF PoppedBefore
  <2>3. D < E \/ (d[1] = e[1] /\ d[2] < e[2] /\ D <= E)
    BY <1>3, <1>5 DEF PoppedBefore
  <2>4. C < E \/ (c[1] = e[1] /\ c[2] < e[2])
    <3> HIDE DEF C, D, E
    <3>1. QED
      BY <2>1, <2>2, <2>3
  <2>5. QED
    BY <2>4 DEF PoppedBefore
<1>6. QED
  BY <1>4, <1>5

\* What goes before a queued event, and the events the aggregate cap takes when
\* there are k too many.
Before(table, ch, c) == {d \in Cells(table, ch) : PoppedBefore(table, d, c)}
Victims(table, ch, k) == {c \in Cells(table, ch) : Cardinality(Before(table, ch, c)) < k}

\* The aggregate cap takes at least the events that are too many: if it took fewer,
\* the first event it leaves would have fewer than k before it.
LEMMA EnoughVictims ==
  ASSUME NEW table \in [Scope -> Seq(Event)], NEW ch, NEW k \in Nat,
         IsFiniteSet(Cells(table, ch)), k <= Cardinality(Cells(table, ch))
  PROVE  Cardinality(Victims(table, ch, k)) >= k
<1> DEFINE cells == Cells(table, ch)
           before(c) == Before(table, ch, c)
           victims == Victims(table, ch, k)
           left == cells \ victims
           f == [c \in left |-> Cardinality(before(c))]
<1>1. \A c \in cells : /\ before(c) \in SUBSET cells /\ IsFiniteSet(before(c))
                       /\ Cardinality(before(c)) \in Nat
  <2> TAKE c \in cells
  <2>1. before(c) \in SUBSET cells
    BY DEF Before
  <2> HIDE DEF before, cells
  <2>2. QED
    BY <2>1, FS_Subset, FS_CardinalityType DEF cells
<1>2. victims \in SUBSET cells /\ \A c \in cells : c \in victims <=> Cardinality(before(c)) < k
  BY DEF Victims
<1>3. /\ \A c \in cells : c \notin before(c)
      /\ \A c, d \in cells : d \in before(c) => before(d) \subseteq before(c)
  BY PoppedBeforeOrder DEF Before
<1> HIDE DEF before, victims
<1>4. IsFiniteSet(victims) /\ Cardinality(victims) \in Nat /\ Cardinality(cells) \in Nat
  BY <1>2, FS_Subset, FS_CardinalityType
<1> HIDE DEF cells
<1>5. ASSUME Cardinality(victims) < k
      PROVE  FALSE
  <2>1. left # {}
    <3>1. victims # cells
      BY <1>4, <1>5 DEF cells
    <3>2. QED
      BY <1>2, <3>1
  <2>2. PICK c \in left : \A d \in left : f[c] <= f[d]
    <3>1. f \in [left -> Nat]
      BY <1>1
    <3> HIDE DEF f
    <3>2. QED
      BY <2>1, <3>1, LeastRank
  <2>3. \A d \in left : Cardinality(before(c)) <= Cardinality(before(d))
    <3>1. \A d \in left : f[d] = Cardinality(before(d))
      BY Zenon
    <3> HIDE DEF f
    <3>2. QED
      BY <2>2, <3>1
  <2>4. c \in cells /\ c \notin victims
    BY <2>2
  <2>5. ASSUME NEW d \in before(c)
        PROVE  d \in victims
    <3>1. d \in cells /\ before(d) \in SUBSET before(c) /\ d \notin before(d)
      BY <1>1, <1>3, <2>4
    <3>2. before(d) # before(c)
      BY <3>1
    <3>3. /\ Cardinality(before(d)) \in Nat /\ Cardinality(before(c)) \in Nat
          /\ IsFiniteSet(before(c))
      BY <1>1, <2>4, <3>1
    <3>4. Cardinality(before(d)) < Cardinality(before(c))
      <4>1. /\ Cardinality(before(d)) <= Cardinality(before(c))
            /\ Cardinality(before(c)) = Cardinality(before(d)) => before(c) = before(d)
        BY <3>1, <3>3, FS_Subset
      <4>2. QED
        BY <3>2, <3>3, <4>1
    <3>5. d \notin left
      BY <2>3, <3>3, <3>4
    <3>6. QED
      BY <3>1, <3>5
  <2>6. before(c) \in SUBSET victims
    BY <2>5
  <2>7. Cardinality(before(c)) <= Cardinality(victims)
    BY <1>4, <2>6, FS_Subset
  <2>8. QED
    BY <1>1, <1>2, <1>4, <1>5, <2>4, <2>7
<1>6. QED
  BY <1>4, <1>5 DEF victims

\* The victims of a queue are its front: beyond as many as there are, none is one.
LEMMA VictimsInFront ==
  ASSUME NEW table \in [Scope -> Seq(Event)], NEW s \in Scope, NEW k \in Nat,
         IsFiniteSet(Cells(table, ChannelOf[s])),
         NEW i \in 1..Len(table[s]), <<s, i>> \in Victims(table, ChannelOf[s], k)
  PROVE  i <= Cardinality({j \in DOMAIN table[s] : <<s, j>> \in Victims(table, ChannelOf[s], k)})
<1> DEFINE ch == ChannelOf[s]
           n == Len(table[s])
           V == {j \in DOMAIN table[s] : <<s, j>> \in Victims(table, ch, k)}
           before(c) == Before(table, ch, c)
<1>1. n \in Nat /\ DOMAIN table[s] = 1..n
  BY LenProperties
<1>2. ASSUME NEW j \in 1..i
      PROVE  j \in V
  <2>1. j \in 1..n /\ <<s, j>> \in Cells(table, ch) /\ <<s, i>> \in Cells(table, ch)
    BY <1>1, CellsAre
  <2>2. CASE j = i
    BY <1>1, <2>1, <2>2
  <2>3. CASE j # i
    <3>1. PoppedBefore(table, <<s, j>>, <<s, i>>)
      BY <1>1, <2>3 DEF PoppedBefore
    <3>2. before(<<s, j>>) \in SUBSET before(<<s, i>>)
      BY <2>1, <3>1, PoppedBeforeOrder DEF Before
    <3>3. before(<<s, i>>) \in SUBSET Cells(table, ch)
      BY DEF Before
    <3>4. Cardinality(before(<<s, i>>)) < k
      BY DEF Victims
    <3> HIDE DEF before
    <3>5. IsFiniteSet(before(<<s, i>>))
      BY <3>3, FS_Subset
    <3>6. /\ Cardinality(before(<<s, j>>)) <= Cardinality(before(<<s, i>>))
          /\ Cardinality(before(<<s, j>>)) \in Nat /\ Cardinality(before(<<s, i>>)) \in Nat
      BY <3>2, <3>5, FS_Subset, FS_CardinalityType
    <3>7. Cardinality(before(<<s, j>>)) < k
      BY <3>4, <3>6
    <3>8. <<s, j>> \in Victims(table, ch, k)
      BY <2>1, <3>7 DEF Victims, before
    <3>9. QED
      BY <1>1, <2>1, <3>8
  <2>4. QED
    BY <2>2, <2>3
<1>3. V \in SUBSET (1..n)
  BY <1>1
<1>4. 1..i \in SUBSET V
  BY <1>2
<1> HIDE DEF V
<1>5. IsFiniteSet(V) /\ Cardinality(1..i) = i
  <2>1. IsFiniteSet(1..n) /\ i \in Nat
    BY <1>1, IntervalSize
  <2>2. IsFiniteSet(V)
    BY <1>3, <2>1, FS_Subset
  <2>3. QED
    BY <2>1, <2>2, IntervalSize
<1>6. i <= Cardinality(V)
  BY <1>4, <1>5, FS_Subset
<1>7. QED
  BY <1>6 DEF V

\* CapsHold, of any table of queues.
CapsOf(table) ==
  /\ \A s \in Scope : Len(table[s]) <= MAX_PENDING_PER_SCOPE
  /\ \A ch \in Channel : Cardinality(Cells(table, ch)) <= MAX_PENDING_PER_CHANNEL

\* Shorter queues have fewer positions.
LEMMA CellsShorter ==
  ASSUME NEW table \in [Scope -> Seq(Event)], NEW rest \in [Scope -> Seq(Event)], NEW ch,
         \A s \in Scope : Len(rest[s]) <= Len(table[s]),
         IsFiniteSet(Cells(table, ch))
  PROVE  /\ IsFiniteSet(Cells(rest, ch))
         /\ Cardinality(Cells(rest, ch)) <= Cardinality(Cells(table, ch))
         /\ Cardinality(Cells(rest, ch)) \in Nat
<1>1. Cells(rest, ch) \in SUBSET Cells(table, ch)
  <2> SUFFICES ASSUME NEW c \in Cells(rest, ch)
               PROVE  c \in Cells(table, ch)
    OBVIOUS
  <2>1. /\ c = <<c[1], c[2]>> /\ c[1] \in Scope /\ ChannelOf[c[1]] = ch
        /\ c[2] \in 1..Len(rest[c[1]])
    BY CellsAre
  <2>2. Len(rest[c[1]]) \in Nat /\ Len(table[c[1]]) \in Nat
    BY <2>1, LenProperties
  <2>3. c[2] \in 1..Len(table[c[1]])
    BY <2>1, <2>2
  <2>4. <<c[1], c[2]>> \in Cells(table, ch)
    BY <2>1, <2>3, CellsAre
  <2>5. QED
    BY <2>1, <2>4
<1>2. QED
  BY <1>1, FS_Subset, FS_CardinalityType

\* Queues that only shrink stay within the caps.
LEMMA CapsShrink ==
  ASSUME IsFiniteSet(Scope), NEW table \in [Scope -> Seq(Event)],
         NEW rest \in [Scope -> Seq(Event)], CapsOf(table),
         \A s \in Scope : Len(rest[s]) <= Len(table[s])
  PROVE  CapsOf(rest)
<1>1. ASSUME NEW s \in Scope
      PROVE  Len(rest[s]) <= MAX_PENDING_PER_SCOPE
  <2>1. /\ Len(rest[s]) \in Nat /\ Len(table[s]) \in Nat
        /\ Len(table[s]) <= MAX_PENDING_PER_SCOPE
    BY LenProperties DEF CapsOf
  <2>2. QED
    BY <2>1, QueueAssumption
<1>2. ASSUME NEW ch \in Channel
      PROVE  Cardinality(Cells(rest, ch)) <= MAX_PENDING_PER_CHANNEL
  <2>1. IsFiniteSet(Cells(table, ch)) /\ Cardinality(Cells(table, ch)) \in Nat
    BY CellsFinite DEF CapsOf
  <2>2. /\ Cardinality(Cells(rest, ch)) <= Cardinality(Cells(table, ch))
        /\ Cardinality(Cells(rest, ch)) \in Nat
    BY <2>1, CellsShorter
  <2>3. Cardinality(Cells(table, ch)) <= MAX_PENDING_PER_CHANNEL
    BY DEF CapsOf
  <2>4. QED
    BY <2>1, <2>2, <2>3, QueueAssumption
<1>3. QED
  BY <1>1, <1>2 DEF CapsOf

\* enforce_channel_cap leaves no channel above its cap, for queues within theirs.
LEMMA CapEnforced ==
  ASSUME IsFiniteSet(Scope), NEW table \in [Scope -> Seq(Event)],
         \A s \in Scope : Len(table[s]) <= MAX_PENDING_PER_SCOPE
  PROVE  CapsOf(enforce_channel_cap(table))
<1> DEFINE U == enforce_channel_cap(table)
           n(s) == EvictionCount(table, s)
           K == MAX_PENDING_PER_CHANNEL
<1>1. U \in [Scope -> Seq(Event)]
  BY ChannelCapType
<1>2. ASSUME NEW s \in Scope
      PROVE  /\ Len(table[s]) \in Nat /\ n(s) \in 0..Len(table[s])
             /\ Len(U[s]) = Len(table[s]) - n(s)
  <2>1. n(s) \in 0..Len(table[s])
    BY EvictionCountType
  <2>2. Len(table[s]) \in Nat /\ \A j \in 1..Len(table[s]) : table[s][j] \in Event
    <3>1. table[s] \in Seq(Event)
      OBVIOUS
    <3>2. QED
      BY <3>1, LenProperties, ElementOfSeq
  <2>3. U[s] = SubSeq(table[s], n(s) + 1, Len(table[s]))
    BY DEF enforce_channel_cap
  <2> HIDE DEF n, U
  <2>4. \A j \in (n(s) + 1)..Len(table[s]) : table[s][j] \in Event
    BY <2>1, <2>2
  <2>5. Len(U[s]) = IF n(s) + 1 <= Len(table[s]) THEN Len(table[s]) - (n(s) + 1) + 1 ELSE 0
    BY <2>1, <2>2, <2>3, <2>4, SubSeqProperties
  <2>6. QED
    BY <2>1, <2>2, <2>5
<1>3. \A s \in Scope : Len(U[s]) <= Len(table[s]) /\ Len(U[s]) <= MAX_PENDING_PER_SCOPE
  <2> TAKE s \in Scope
  <2> HIDE DEF U, n
  <2>1. QED
    BY <1>2, QueueAssumption
<1>4. ASSUME NEW ch \in Channel
      PROVE  Cardinality(Cells(U, ch)) <= K
  <2> DEFINE cells == Cells(table, ch)
             left == Cells(U, ch)
             k == Cardinality(cells) - K
  <2>1. IsFiniteSet(cells) /\ Cardinality(cells) \in Nat /\ K \in Nat
    BY CellsFinite, QueueAssumption
  <2>2. CASE k <= 0
    <3>1. Cardinality(left) <= Cardinality(cells) /\ Cardinality(left) \in Nat
      <4> HIDE DEF U, n
      <4>1. QED
        BY <1>1, <1>3, <2>1, CellsShorter
    <3> HIDE DEF left, cells
    <3>2. QED
      BY <2>1, <2>2, <3>1 DEF left
  <2>3. CASE ~(k <= 0)
    <3> DEFINE victims == Victims(table, ch, k)
               f == [c \in left |-> <<c[1], c[2] + n(c[1])>>]
    <3>1. k \in Nat /\ k <= Cardinality(cells)
      BY <2>1, <2>3
    <3>2. Cardinality(victims) >= k
      <4> HIDE DEF k
      <4>1. QED
        BY <2>1, <3>1, EnoughVictims
    <3>3. ASSUME NEW s \in Scope, ChannelOf[s] = ch, NEW i \in 1..Len(table[s]), i > n(s)
          PROVE  <<s, i>> \in cells \ victims
      <4> DEFINE V == {j \in DOMAIN table[s] : <<s, j>> \in victims}
      <4>1. Len(table[s]) \in Nat /\ DOMAIN table[s] = 1..Len(table[s])
        BY LenProperties
      <4>2. n(s) = Cardinality(V)
        <5> DEFINE W == {j \in DOMAIN table[s] :
                     Cardinality({c \in cells : PoppedBefore(table, c, <<s, j>>)}) < k}
        <5>1. n(s) = Cardinality(W)
          BY <2>3, <3>3 DEF EvictionCount
        <5>2. \A j \in DOMAIN table[s] : <<s, j>> \in cells
          BY <3>3, <4>1, CellsAre
        <5>3. V = W
          BY <5>2 DEF Victims, Before
        <5>4. QED
          BY <5>1, <5>3
      <4>3. <<s, i>> \in cells
        BY <3>3, CellsAre
      <4>4. ASSUME <<s, i>> \in victims
            PROVE  FALSE
        <5>1. i <= Cardinality(V)
          <6> HIDE DEF k
          <6>1. QED
            BY <2>1, <3>1, <3>3, <4>4, VictimsInFront
        <5> HIDE DEF V, n
        <5>2. i \in Nat /\ n(s) \in Nat
          BY <1>2, <4>1
        <5>3. QED
          BY <3>3, <4>2, <5>1, <5>2
      <4>5. QED
        BY <4>3, <4>4
    <3> HIDE DEF victims
    <3>4. \A c \in left : /\ c = <<c[1], c[2]>> /\ c[1] \in Scope /\ ChannelOf[c[1]] = ch
                          /\ c[2] \in 1..Len(U[c[1]])
      <4> HIDE DEF U
      <4>1. QED
        BY <1>1, CellsAre
    <3> HIDE DEF left, cells, U, n
    <3>5. \A c \in left : <<c[1], c[2] + n(c[1])>> \in cells \ victims
      <4> TAKE c \in left
      <4>1. /\ c[1] \in Scope /\ ChannelOf[c[1]] = ch /\ c[2] \in 1..Len(U[c[1]])
        BY <3>4
      <4>2. /\ Len(table[c[1]]) \in Nat /\ n(c[1]) \in 0..Len(table[c[1]])
            /\ Len(U[c[1]]) = Len(table[c[1]]) - n(c[1])
        BY <1>2, <4>1
      <4>3. c[2] + n(c[1]) \in 1..Len(table[c[1]]) /\ c[2] + n(c[1]) > n(c[1])
        BY <4>1, <4>2
      <4>4. QED
        BY <3>3, <4>1, <4>3
    <3>6. f \in Injection(left, cells \ victims)
      <4>1. f \in [left -> cells \ victims]
        BY <3>5
      <4>2. ASSUME NEW c \in left, NEW d \in left, f[c] = f[d]
            PROVE  c = d
        <5>1. c[1] = d[1] /\ c[2] + n(c[1]) = d[2] + n(d[1])
          BY <4>2
        <5>2. c[2] \in Nat /\ d[2] \in Nat /\ n(c[1]) \in Nat
          <6>1. c[1] \in Scope /\ c[2] \in 1..Len(U[c[1]]) /\ d[2] \in 1..Len(U[d[1]])
            BY <3>4
          <6>2. n(c[1]) \in 0..Len(table[c[1]]) /\ Len(table[c[1]]) \in Nat
            BY <1>2, <6>1
          <6>3. QED
            BY <6>1, <6>2
        <5>3. c[2] = d[2]
          BY <5>1, <5>2
        <5>4. c = <<c[1], c[2]>> /\ d = <<d[1], d[2]>>
          BY <3>4
        <5>5. QED
          BY <5>1, <5>3, <5>4
      <4>3. QED
        BY <4>1, <4>2 DEF Injection, IsInjective
    <3>7. IsFiniteSet(cells \ victims) /\ Cardinality(cells \ victims) \in Nat
          /\ Cardinality(cells \ victims) = Cardinality(cells) - Cardinality(cells \cap victims)
      BY <2>1, FS_Difference, FS_CardinalityType
    <3>8. IsFiniteSet(left) /\ Cardinality(left) <= Cardinality(cells \ victims)
      <4> HIDE DEF f
      <4>1. QED
        BY <3>6, <3>7, FS_Injection
    <3>9. cells \cap victims = victims /\ Cardinality(victims) \in Nat
      <4>1. victims \in SUBSET cells
        BY DEF victims, Victims, cells
      <4>2. QED
        BY <2>1, <4>1, FS_Subset, FS_CardinalityType
    <3>10. Cardinality(left) \in Nat
      BY <3>8, FS_CardinalityType
    <3>11. Cardinality(left) <= K
      <4>1. Cardinality(cells \ victims) = Cardinality(cells) - Cardinality(victims)
        BY <3>7, <3>9
      <4> HIDE DEF K
      <4>2. QED
        BY <2>1, <3>2, <3>7, <3>8, <3>9, <3>10, <4>1
    <3>12. QED
      BY <3>11 DEF left
  <2>4. QED
    BY <2>2, <2>3
<1>5. QED
  BY <1>3, <1>4 DEF CapsOf

\* A queue cut at either end is within its cap.
LEMMA PopCaps ==
  ASSUME NEW seq \in Seq(Event)
  PROVE  /\ Len(PopBack(seq)) <= MAX_PENDING_PER_SCOPE
         /\ Len(seq) <= MAX_PENDING_PER_SCOPE + 1 => Len(PopFront(seq)) <= MAX_PENDING_PER_SCOPE
<1> DEFINE m == MAX_PENDING_PER_SCOPE
<1>1. m \in Nat /\ m >= 1 /\ Len(seq) \in Nat
  BY QueueAssumption, LenProperties
<1>2. CASE Len(seq) > m
  <2>1. \A i \in 1..m : seq[i] \in Event
    BY <1>1, <1>2, ElementOfSeq
  <2>2. Len(SubSeq(seq, 1, m)) = m
    BY <1>1, <2>1, SubSeqProperties
  <2>3. seq # <<>>
    BY <1>1, <1>2, EmptySeq
  <2>4. Len(Tail(seq)) = Len(seq) - 1
    BY <2>3, HeadTailProperties
  <2>5. PopBack(seq) = SubSeq(seq, 1, m) /\ PopFront(seq) = Tail(seq)
    BY <1>2 DEF PopBack, PopFront
  <2>6. QED
    BY <1>1, <2>2, <2>4, <2>5
<1>3. CASE ~(Len(seq) > m)
  <2>1. PopBack(seq) = seq /\ PopFront(seq) = seq
    BY <1>3 DEF PopBack, PopFront
  <2>2. QED
    BY <1>1, <1>3, <2>1
<1>4. QED
  BY <1>2, <1>3

\* A queue stored within its cap.
LEMMA StoreCaps ==
  ASSUME IsFiniteSet(Scope), NEW Q \in QueueType, CapsOf(Q.queues), NEW s \in Scope,
         NEW full, NEW cut \in Seq(Event), Len(cut) <= MAX_PENDING_PER_SCOPE
  PROVE  CapsOf(Store(Q, s, full, cut).queues)
<1> DEFINE table == [Q.queues EXCEPT ![s] = cut]
<1>1. table \in [Scope -> Seq(Event)]
  BY DEF QueueType
<1>2. \A t \in Scope : Len(table[t]) <= MAX_PENDING_PER_SCOPE
  BY DEF QueueType, CapsOf
<1>3. Store(Q, s, full, cut).queues = enforce_channel_cap(table)
  <2> DEFINE kept == enforce_channel_cap(table)
             gone == Q.evicted \cup (EventsIn([Q.queues EXCEPT ![s] = full]) \ EventsIn(kept))
  <2>1. Store(Q, s, full, cut) = [Q EXCEPT !.queues = kept, !.evicted = gone]
    BY DEF Store
  <2> HIDE DEF kept, gone
  <2>2. QED
    BY <2>1 DEF QueueType, kept
<1> HIDE DEF table
<1>4. QED
  BY <1>1, <1>2, <1>3, CapEnforced

\* push drops the oldest event of a full queue, then the oldest of the channel.
LEMMA PushCaps ==
  ASSUME IsFiniteSet(Scope), NEW Q \in QueueType, CapsOf(Q.queues), NEW s \in Scope,
         NEW e \in Event
  PROVE  CapsOf(push(Q, s, e).queues)
<1> DEFINE full == Append(Q.queues[s], e)
<1>1. Q.queues[s] \in Seq(Event) /\ Len(Q.queues[s]) <= MAX_PENDING_PER_SCOPE
  BY DEF QueueType, CapsOf
<1>2. full \in Seq(Event) /\ Len(full) = Len(Q.queues[s]) + 1
  BY <1>1, AppendProperties
<1>3. push(Q, s, e) = Store(Q, s, full, PopFront(full))
  BY DEF push
<1> HIDE DEF full
<1>4. PopFront(full) \in Seq(Event) /\ Len(PopFront(full)) <= MAX_PENDING_PER_SCOPE
  <2>1. Len(full) <= MAX_PENDING_PER_SCOPE + 1
    BY <1>1, <1>2, LenProperties, QueueAssumption
  <2>2. QED
    BY <1>2, <2>1, PopCaps, PopType
<1>5. QED
  BY <1>3, <1>4, StoreCaps

\* Events that come back drop the newest event of a full queue.
LEMMA PushFrontCaps ==
  ASSUME IsFiniteSet(Scope), NEW Q \in QueueType, CapsOf(Q.queues), NEW s \in Scope,
         NEW events \in Seq(Event)
  PROVE  CapsOf(PushFront(Q, s, events).queues)
<1> DEFINE full == events \o Q.queues[s]
<1>1. full \in Seq(Event)
  BY ConcatProperties DEF QueueType
<1>2. PushFront(Q, s, events) = Store(Q, s, full, PopBack(full))
  BY DEF PushFront
<1> HIDE DEF full
<1>3. PopBack(full) \in Seq(Event) /\ Len(PopBack(full)) <= MAX_PENDING_PER_SCOPE
  BY <1>1, PopCaps, PopType
<1>4. QED
  BY <1>2, <1>3, StoreCaps

\* A batch that comes back, in the three ways it can.
LEMMA RequeueCaps ==
  ASSUME IsFiniteSet(Scope), NEW Q \in QueueType, CapsOf(Q.queues), NEW b \in FlushBatch,
         NEW reason
  PROVE  /\ CapsOf(requeue(Q, b).queues)
         /\ CapsOf(requeue_preserve_timestamps(Q, b).queues)
         /\ CapsOf(requeue_as_cancelled(Q, b, reason).queues)
<1>1. b.scope \in Scope /\ b.events \in Seq(Event) /\ b.cancelled \in Seq(Event)
      /\ b.reason \in CancelReason
  BY DEF FlushBatch
<1>2. CapsOf(requeue(Q, b).queues)
  <2> DEFINE P == PushFront(Q, b.scope, b.events)
  <2>1. P \in QueueType /\ CapsOf(P.queues)
    BY <1>1, PushFrontType, PushFrontCaps
  <2>2. requeue(Q, b).queues = Q.queues \/ requeue(Q, b).queues = P.queues
    <3>1. CASE dead_letters(Q, b)
      BY <3>1 DEF requeue, QueueType
    <3>2. CASE ~dead_letters(Q, b)
      <4>1. requeue(Q, b) = [P EXCEPT !.retry_counts[b.scope] = @ + 1,
                                      !.retry_after[b.scope] = "active"]
        BY <3>2 DEF requeue
      <4> HIDE DEF P
      <4>2. QED
        BY <2>1, <4>1 DEF QueueType
    <3>3. QED
      BY <3>1, <3>2
  <2>3. QED
    BY <2>1, <2>2
<1>3. CapsOf(requeue_preserve_timestamps(Q, b).queues)
  <2> DEFINE P == [Q EXCEPT
        !.cancelled[b.scope] = b.cancelled \o @,
        !.reasons[b.scope]   = IF b.cancelled # <<>> /\ @ = "none" THEN b.reason ELSE @]
  <2>1. b.cancelled \o Q.cancelled[b.scope] \in Seq(Event)
    BY <1>1, ConcatProperties DEF QueueType
  <2>2. P \in QueueType /\ P.queues = Q.queues
    BY <1>1, <2>1 DEF QueueType
  <2>3. requeue_preserve_timestamps(Q, b) = PushFront(P, b.scope, b.events)
    BY DEF requeue_preserve_timestamps
  <2> HIDE DEF P
  <2>4. QED
    BY <1>1, <2>2, <2>3, PushFrontCaps
<1>4. CapsOf(requeue_as_cancelled(Q, b, reason).queues)
  BY CarryTables
<1>5. QED
  BY <1>2, <1>3, <1>4

\* A released event comes back to the front of its queue.
LEMMA ReleaseCaps ==
  ASSUME IsFiniteSet(Scope), NEW Q \in QueueType, CapsOf(Q.queues), NEW s \in Scope,
         NEW e \in Event
  PROVE  CapsOf(release_native_steer(Q, s, e).queues)
<1> DEFINE P == [Q EXCEPT !.withheld[s] = Without(Q.withheld[s], e)]
<1>1. Without(Q.withheld[s], e) \in Seq(Event)
  BY WithoutType DEF QueueType
<1>2. P \in QueueType /\ P.queues = Q.queues
  BY <1>1 DEF QueueType
<1>3. \/ release_native_steer(Q, s, e) = Q
      \/ release_native_steer(Q, s, e) = PushFront(P, s, <<e>>)
  BY DEF release_native_steer
<1> HIDE DEF P
<1>4. CapsOf(PushFront(P, s, <<e>>).queues)
  <2>1. <<e>> \in Seq(Event)
    OBVIOUS
  <2>2. QED
    BY <1>2, <2>1, PushFrontCaps
<1>5. QED
  BY <1>3, <1>4

\* The backstop returns withheld events under both caps.
LEMMA ExpireCaps ==
  ASSUME IsFiniteSet(Scope), NEW Q \in QueueType, CapsOf(Q.queues)
  PROVE  CapsOf(expire(Q).queues)
<1> DEFINE due == {s \in Scope : Q.deadlines[s] = "due"}
           full == [s \in Scope |-> IF s \in due THEN Q.withheld[s] \o Q.queues[s]
                                    ELSE Q.queues[s]]
           cut == [s \in Scope |-> PopBack(full[s])]
<1>1. expire(Q).queues = Q.queues \/ expire(Q).queues = enforce_channel_cap(cut)
  BY ExpireTables
<1>2. full \in [Scope -> Seq(Event)]
  BY ConcatProperties DEF QueueType
<1> HIDE DEF full
<1>3. /\ cut \in [Scope -> Seq(Event)]
      /\ \A s \in Scope : Len(cut[s]) <= MAX_PENDING_PER_SCOPE
  BY <1>2, PopType, PopCaps
<1> HIDE DEF cut
<1>4. QED
  BY <1>1, <1>3, CapEnforced

\* One queue that shrinks.
LEMMA OneShrinks ==
  ASSUME IsFiniteSet(Scope), NEW table \in [Scope -> Seq(Event)], CapsOf(table),
         NEW s \in Scope, NEW seq \in Seq(Event), Len(seq) <= Len(table[s])
  PROVE  CapsOf([table EXCEPT ![s] = seq])
<1> DEFINE rest == [table EXCEPT ![s] = seq]
<1>1. rest \in [Scope -> Seq(Event)]
  OBVIOUS
<1>2. \A t \in Scope : Len(rest[t]) <= Len(table[t])
  <2> TAKE t \in Scope
  <2>1. CASE t = s
    BY <2>1
  <2>2. CASE t # s
    <3>1. rest[t] = table[t] /\ Len(table[t]) \in Nat
      BY <2>2, LenProperties
    <3>2. QED
      BY <3>1
  <2>3. QED
    BY <2>1, <2>2
<1> HIDE DEF rest
<1>3. CapsOf(rest)
  BY <1>1, <1>2, CapsShrink
<1>4. QED
  BY <1>3 DEF rest

\* flush_next takes events from the front of one queue.
LEMMA FlushCaps ==
  ASSUME IsFiniteSet(Scope), NEW Q \in QueueType, CapsOf(Q.queues), NEW s \in Scope
  PROVE  CapsOf(flush_next(Q, s).queues)
<1> DEFINE n == DrainCount(Q, s)
           rest == SubSeq(Q.queues[s], n + 1, Len(Q.queues[s]))
<1>1. \/ flush_next(Q, s).queues = Q.queues
      \/ flush_next(Q, s).queues = [Q.queues EXCEPT ![s] = rest]
  BY FlushTables
<1>2. /\ Q.queues \in [Scope -> Seq(Event)] /\ Len(Q.queues[s]) \in Nat
      /\ \A i \in 1..Len(Q.queues[s]) : Q.queues[s][i] \in Event
  BY LenProperties, ElementOfSeq DEF QueueType
<1>3. n \in 0..Len(Q.queues[s])
  BY <1>2, QueueAssumption DEF DrainCount
<1> HIDE DEF n
<1>4. rest \in Seq(Event) /\ Len(rest) <= Len(Q.queues[s])
  <2>1. \A i \in (n + 1)..Len(Q.queues[s]) : Q.queues[s][i] \in Event
    BY <1>2, <1>3
  <2>2. /\ rest \in Seq(Event)
        /\ Len(rest) = (IF n + 1 <= Len(Q.queues[s]) THEN Len(Q.queues[s]) - (n + 1) + 1 ELSE 0)
    BY <1>2, <1>3, <2>1, SubSeqProperties
  <2> HIDE DEF rest
  <2>3. QED
    BY <1>2, <1>3, <2>2
<1> HIDE DEF rest
<1>5. QED
  BY <1>1, <1>2, <1>4, OneShrinks

\* A batch is returned, or a turn ends.
LEMMA ReturnCaps ==
  ASSUME IsFiniteSet(Scope), NEW Q \in QueueType, CapsOf(Q.queues), NEW b \in FlushBatch
  PROVE  CapsOf(ReturnBatch(Q, b).queues)
<1> DEFINE P == requeue_preserve_timestamps(Q, b)
<1>1. P \in QueueType /\ CapsOf(P.queues) /\ b.scope \in Scope
  BY RequeuePreserveType, RequeueCaps DEF FlushBatch
<1>2. ReturnBatch(Q, b) = mark_complete(P, b.scope)
  BY DEF ReturnBatch
<1> HIDE DEF P
<1>3. QED
  BY <1>1, <1>2, CompleteTables

\* handle_prompt_result and recover_panicked_agent.
LEMMA CompletedCaps ==
  ASSUME IsFiniteSet(Scope), Inv, CapsOf(q.queues), NEW a \in Agent, NEW out
  PROVE  CapsOf(Completed(Restored(q, out, task[a].batch), task[a].scope).queues)
<1> DEFINE b == task[a].batch
           s == task[a].scope
           R == Restored(q, out, b)
           reason == IF b.reason = "none" THEN "steer" ELSE b.reason
<1>1. b \in Batch /\ s \in Scope \cup {Heartbeat} /\ b.scope = s /\ q \in QueueType
  BY DEF Inv, TypeOK, BatchOfTask, Task
<1>2. HasBatch(b) => b.scope \in Scope
  BY <1>1 DEF HasBatch, Inv, BatchOfTask
<1>3. HasBatch(b) => b \in FlushBatch
  BY <1>1, <1>2 DEF Batch, FlushBatch
<1>4. \/ R = q
      \/ HasBatch(b) /\ R = requeue_as_cancelled(q, b, reason)
      \/ HasBatch(b) /\ R = requeue(q, b)
  BY DEF Restored
<1>5. R \in QueueType
  BY <1>1, <1>2, RestoredType
<1> HIDE DEF R, reason, b, s
<1>6. CapsOf(R.queues)
  BY <1>1, <1>3, <1>4, RequeueCaps
<1>7. CapsOf(Completed(R, s).queues)
  <2>1. CASE s = Heartbeat
    BY <1>6, <2>1 DEF Completed
  <2>2. CASE s # Heartbeat
    <3>1. s \in Scope /\ Completed(R, s) = mark_complete(R, s)
      BY <1>1, <2>2 DEF Completed
    <3>2. QED
      BY <1>5, <1>6, <3>1, CompleteTables
  <2>3. QED
    BY <2>1, <2>2
<1>8. QED
  BY <1>7 DEF R, b, s

\* Every step of the harness leaves the queue within its caps.
LEMMA NextCaps ==
  ASSUME IsFiniteSet(Scope), Inv, CapsOf(q.queues), [Next]_vars
  PROVE  CapsOf(q'.queues)
<1> DEFINE Q == expire(q)
           Fine == CapsOf(q'.queues)
<1> SUFFICES Fine
  OBVIOUS
<1>1. q \in QueueType /\ Q \in QueueType /\ CapsOf(Q.queues)
  BY ExpireType, ExpireCaps DEF Inv, TypeOK
<1> HIDE DEF Q
<1>2. ASSUME NEW s \in flush_choice(Q)
      PROVE  /\ s \in Scope /\ CapsOf(flush_next(Q, s).queues)
             /\ flush_next(Q, s) \in QueueType /\ flushed_batch(Q, s) \in FlushBatch
  BY <1>1, FlushChoiceFree, FlushCaps, FlushNextType
<1>3. CASE DispatchHold \/ DispatchClaim
  <2>1. PICK s \in flush_choice(Q) : q' = flush_next(Q, s)
    BY <1>3 DEF DispatchHold, DispatchClaim, Q
  <2>2. QED
    BY <1>2, <2>1
<1>4. CASE DispatchExhausted
  <2>1. PICK s \in flush_choice(Q) : q' = ReturnBatch(flush_next(Q, s), flushed_batch(Q, s))
    BY <1>4 DEF DispatchExhausted, Q
  <2>2. QED
    BY <1>2, <2>1, ReturnCaps
<1>5. CASE DispatchDone \/ HeartbeatTick
  BY <1>1, <1>5 DEF DispatchDone, HeartbeatTick, Q
<1>6. CASE ReleaseHeld
  <2>1. Head(held) \in FlushBatch
    BY <1>6, HeadTailProperties DEF ReleaseHeld, Inv, TypeOK, ReleaseHasHeld
  <2>2. QED
    BY <1>1, <1>6, <2>1, ReturnCaps DEF ReleaseHeld
<1>7. ASSUME NEW a \in Agent, PromptResult(a) \/ RecoverPanicked(a)
      PROVE  Fine
  BY <1>7, CompletedCaps DEF PromptResult, RecoverPanicked
<1>8. ASSUME NEW s \in Scope, NEW from_owner \in BOOLEAN, RelayEvent(s, from_owner)
      PROVE  Fine
  <2> DEFINE e == arrived + 1
             P == push(q, s, e)
             M == mark_native_steer_pending(P, s, e)
  <2>1. e \in Event
    BY <1>8 DEF RelayEvent
  <2>2. P \in QueueType /\ CapsOf(P.queues)
    BY <1>1, <2>1, PushType, PushCaps
  <2>3. q' = q \/ q' = P \/ q' = M
    BY <1>8 DEF RelayEvent, steer_or_interrupt
  <2> HIDE DEF P
  <2>4. CapsOf(M.queues)
    <3>1. /\ P.queues \in [Scope -> Seq(Event)] /\ P.queues[s] \in Seq(Event)
          /\ Without(P.queues[s], e) \in Seq(Event)
          /\ Len(Without(P.queues[s], e)) <= Len(P.queues[s])
      BY <2>2, WithoutType, WithoutElements DEF QueueType
    <3>2. CapsOf([P.queues EXCEPT ![s] = Without(P.queues[s], e)])
      BY <2>2, <3>1, OneShrinks
    <3>3. \/ M.queues = P.queues
          \/ M.queues = [P.queues EXCEPT ![s] = Without(P.queues[s], e)]
      BY <2>1, <2>2, MarkSteerTables
    <3>4. QED
      BY <2>2, <3>2, <3>3
  <2>5. QED
    BY <2>2, <2>3, <2>4
<1>9. ASSUME NEW ch \in Channel, MemberRemoved(ch)
      PROVE  Fine
  <2>1. /\ q'.queues \in [Scope -> Seq(Event)]
        /\ \A s \in Scope : q'.queues[s] = <<>> \/ q'.queues[s] = q.queues[s]
    BY <1>1, <1>9, NoEvents DEF MemberRemoved, drain_channel, QueueType
  <2>2. \A s \in Scope : Len(q.queues[s]) \in Nat /\ Len(<<>>) = 0
    BY <1>1, LenProperties, EmptySeq DEF QueueType
  <2>3. \A s \in Scope : Len(q'.queues[s]) <= Len(q.queues[s])
    BY <2>1, <2>2
  <2>4. q.queues \in [Scope -> Seq(Event)]
    BY <1>1 DEF QueueType
  <2>5. QED
    BY <2>1, <2>3, <2>4, CapsShrink
<1>10. ASSUME NEW st \in steers, SteerAcked(st)
       PROVE  Fine
  <2> DEFINE s == st.scope
             e == st.event
  <2>1. s \in Scope /\ e \in Event
    BY DEF Inv, TypeOK, Steer
  <2>2. CASE q' = release_native_steer(q, s, e)
    BY <1>1, <2>1, <2>2, ReleaseCaps
  <2>3. CASE q' = remove_event(extend_in_flight_deadline(q, s), s, e)
    <3>1. q'.queues = [q.queues EXCEPT ![s] = Without(q.queues[s], e)]
      BY <1>1, <2>1, <2>3 DEF remove_event, extend_in_flight_deadline, QueueType
    <3>2. /\ q.queues \in [Scope -> Seq(Event)] /\ q.queues[s] \in Seq(Event)
          /\ Without(q.queues[s], e) \in Seq(Event)
          /\ Len(Without(q.queues[s], e)) <= Len(q.queues[s])
      BY <1>1, <2>1, WithoutType, WithoutElements DEF QueueType
    <3> HIDE DEF s, e
    <3>3. QED
      BY <2>1, <3>1, <3>2, OneShrinks
  <2>4. QED
    BY <1>10, <2>2, <2>3 DEF SteerAcked
<1>11. CASE Maintenance
  <2> DEFINE R == compact_expired_state(q)
  <2>1. R \in QueueType /\ R.queues = q.queues
    BY <1>1, CompactType DEF compact_expired_state, QueueType
  <2>2. q' = expire(R)
    BY <1>11 DEF Maintenance
  <2> HIDE DEF R
  <2>3. QED
    BY <2>1, <2>2, ExpireCaps
<1>12. ASSUME NEW s \in Scope, ThrottleElapses(s) \/ DeadlineElapses(s)
       PROVE  Fine
  <2>1. q'.queues = q.queues
    BY <1>1, <1>12 DEF ThrottleElapses, DeadlineElapses, QueueType
  <2>2. QED
    BY <2>1
<1>13. CASE UNCHANGED q
  BY <1>13
<1> HIDE DEF Fine
<1>14. CASE MainLoop
  BY <1>3, <1>4, <1>5, <1>6, <1>7, <1>10, <1>11, <1>13, <1>14
     DEF MainLoop, DrainDone, CollectRespawns, queueVars
<1>15. CASE Environment
  BY <1>5, <1>8, <1>9, <1>13, <1>15
     DEF Environment, OwnerCommand, MemberAdded, TimerTick, queueVars
<1>16. CASE Time
  BY <1>12, <1>13, <1>16 DEF Time, HoldElapses, CircuitCools
<1>17. CASE \/ \E a \in Agent : Turn(a) \/ RespawnEnds(a)
            \/ \E st \in steers : SteerTaken(st) \/ SteerAnswered(st)
  BY <1>13, <1>17 DEF Turn, TurnSucceeds, TurnFails, TurnCancelled, TurnPanics, TurnEnds,
     RespawnEnds, queueVars, SteerTaken, SteerAnswered, steerFrame
<1>18. QED
  BY <1>13, <1>14, <1>15, <1>16, <1>17 DEF Next, vars

\* No path into the queue leaves a partition or a channel above its cap: not push,
\* requeue, the release of a steer, the return of a held batch, nor the backstop,
\* which puts withheld events back in several queues of a channel at once.  The
\* scopes are finitely many, as a channel's conversations and threads are.
THEOREM CapsAlwaysHold ==
  ASSUME IsFiniteSet(Scope)
  PROVE  Spec => []CapsHold
<1>1. Init => CapsOf(q.queues)
  <2> SUFFICES ASSUME Init PROVE CapsOf(q.queues)
    OBVIOUS
  <2>1. q.queues = [s \in Scope |-> <<>>]
    BY DEF Init, new
  <2>2. \A ch \in Channel : Cells(q.queues, ch) = {}
    BY <2>1 DEF Cells
  <2>3. \A s \in Scope : Len(q.queues[s]) = 0
    BY <2>1
  <2>4. QED
    <3>1. Cardinality({}) = 0
      BY FS_EmptySet
    <3>2. MAX_PENDING_PER_SCOPE \in Nat /\ MAX_PENDING_PER_CHANNEL \in Nat
      BY QueueAssumption
    <3>3. \A ch \in Channel : Cardinality(Cells(q.queues, ch)) = 0
      BY <2>2, <3>1
    <3>4. QED
      BY <2>3, <3>2, <3>3 DEF CapsOf
<1>2. CapsOf(q.queues) => CapsHold
  BY DEF CapsOf, CapsHold
<1>3. Inv /\ CapsOf(q.queues) /\ [Next]_vars => CapsOf(q.queues)'
  BY NextCaps DEF CapsOf, Cells
<1>4. QED
  BY <1>1, <1>2, <1>3, InvHolds, PTL DEF Spec
=============================================================================
