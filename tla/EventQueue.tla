----------------------------- MODULE EventQueue -----------------------------
(***************************************************************************)
(* The event queue of the agent harness (maju-acp, src/queue.rs).          *)
(*                                                                         *)
(* The queue is a value: a record q whose fields are the tables of struct  *)
(* EventQueue, and every method of the struct is an operator from a queue  *)
(* to a queue.  The main loop calls several methods in one handler, so a   *)
(* handler of module AgentHarness is a composition of these operators.     *)
(*                                                                         *)
(* Time is abstract.  An Instant stored in a table is only ever compared   *)
(* with "now", so a throttle is "none", "active" (in the future) or        *)
(* "elapsed", and an in-flight deadline "none", "armed" or "due".  An      *)
(* event is the stamp of its arrival (received_at); CreatedAt is the time  *)
(* its author signed it, which a relay replay does not deliver in order.   *)
(*                                                                         *)
(* An operator x_y just before an operator x is x with a mistake in it; it *)
(* is used only to see that the properties of AgentHarness notice it.      *)
(***************************************************************************)
EXTENDS Integers, Sequences, FiniteSets

CONSTANTS
  Scope,          \* session scopes: a conversation, or one thread of a channel
  Channel,        \* channels
  ChannelOf,      \* the channel a scope belongs to
  Event,          \* events, as arrival stamps
  CreatedAt,      \* the created_at of an event
  DedupMode,      \* "Drop" or "Queue"
  MAX_PENDING_PER_SCOPE,
  MAX_PENDING_PER_CHANNEL,
  MAX_BATCH_EVENTS,
  MAX_RETRIES

ASSUME QueueAssumption ==
  /\ ChannelOf \in [Scope -> Channel]
  /\ Event \subseteq Nat
  /\ CreatedAt \in [Event -> Nat]
  /\ DedupMode \in {"Drop", "Queue"}
  /\ MAX_PENDING_PER_SCOPE \in Nat \ {0}
  /\ MAX_PENDING_PER_CHANNEL \in Nat \ {0}
  /\ MAX_BATCH_EVENTS \in Nat \ {0}
  /\ MAX_RETRIES \in Nat

CancelReason == {"none", "steer", "interrupt"}

\* A FlushBatch: what one prompt is built from.
FlushBatch == [scope : Scope, events : Seq(Event), cancelled : Seq(Event),
               reason : CancelReason]

\* The struct EventQueue.  `evicted` is not a field of it: it remembers the
\* events the depth caps have dropped, each of which the code logs.
QueueType ==
  [queues       : [Scope -> Seq(Event)],
   in_flight    : SUBSET Scope,
   deadlines    : [Scope -> {"none", "armed", "due"}],
   retry_after  : [Scope -> {"none", "active", "elapsed"}],
   retry_counts : [Scope -> Nat],
   cancelled    : [Scope -> Seq(Event)],
   reasons      : [Scope -> CancelReason],
   withheld     : [Scope -> Seq(Event)],
   evicted      : SUBSET Event]

Elements(seq) == {seq[i] : i \in DOMAIN seq}
EventsIn(table) == UNION {Elements(table[s]) : s \in Scope}

\* The event is taken from its position; an event is queued at most once.
Without(seq, e) ==
  IF e \notin Elements(seq) THEN seq
  ELSE LET pos == CHOOSE i \in DOMAIN seq : seq[i] = e
       IN  SubSeq(seq, 1, pos - 1) \o SubSeq(seq, pos + 1, Len(seq))

new ==
  [queues       |-> [s \in Scope |-> <<>>],
   in_flight    |-> {},
   deadlines    |-> [s \in Scope |-> "none"],
   retry_after  |-> [s \in Scope |-> "none"],
   retry_counts |-> [s \in Scope |-> 0],
   cancelled    |-> [s \in Scope |-> <<>>],
   reasons      |-> [s \in Scope |-> "none"],
   withheld     |-> [s \in Scope |-> <<>>],
   evicted      |-> {}]

-----------------------------------------------------------------------------
(* Depth caps.                                                             *)

\* The queued positions of a channel: position i of scope s, as <<s, i>>.
Cells(queues, ch) ==
  UNION {{<<s, i>> : i \in DOMAIN queues[s]} : s \in {t \in Scope : ChannelOf[t] = ch}}

\* Popping the oldest head again and again takes position c of its scope once
\* every event up to c is the oldest head, so in the order of PoppedAt.
PoppedAt(queues, c) ==
  LET prefix == {queues[c[1]][i] : i \in 1..c[2]}
  IN  CHOOSE m \in prefix : \A x \in prefix : x <= m

PoppedBefore(queues, c, d) ==
  \/ PoppedAt(queues, c) < PoppedAt(queues, d)
  \/ c[1] = d[1] /\ c[2] < d[2]

\* How many events of the front of scope s the aggregate cap drops.
EvictionCount(queues, s) ==
  LET cells  == Cells(queues, ChannelOf[s])
      excess == Cardinality(cells) - MAX_PENDING_PER_CHANNEL
  IN  IF excess <= 0 THEN 0
      ELSE Cardinality({i \in DOMAIN queues[s] :
             Cardinality({c \in cells : PoppedBefore(queues, c, <<s, i>>)}) < excess})

enforce_channel_cap_off(queues) == queues

\* enforce_channel_cap.  A channel within its cap is left as it is, so the
\* operator is applied to every channel at once.
enforce_channel_cap(queues) ==
  [s \in Scope |-> SubSeq(queues[s], EvictionCount(queues, s) + 1, Len(queues[s]))]

\* The oldest events give way to a new one; the newest to a returned one.
PopFront(seq) ==
  IF Len(seq) > MAX_PENDING_PER_SCOPE THEN Tail(seq) ELSE seq

PopBack(seq) ==
  IF Len(seq) > MAX_PENDING_PER_SCOPE
  THEN SubSeq(seq, 1, MAX_PENDING_PER_SCOPE) ELSE seq

\* Queue s becomes `full`, cut to `cut` by the scope cap, then the channel cap.
Store(q, s, full, cut) ==
  LET kept == enforce_channel_cap([q.queues EXCEPT ![s] = cut])
  IN  [q EXCEPT !.queues  = kept,
                !.evicted = @ \cup (EventsIn([q.queues EXCEPT ![s] = full])
                                      \ EventsIn(kept))]

PushFront(q, s, events) ==
  LET full == events \o q.queues[s] IN Store(q, s, full, PopBack(full))

-----------------------------------------------------------------------------
(* The methods.                                                            *)

\* push accepts an event unless the scope is in flight in Drop mode.
push_accepts(q, s) == DedupMode = "Queue" \/ s \notin q.in_flight

push(q, s, e) ==
  LET full == Append(q.queues[s], e) IN Store(q, s, full, PopFront(full))

expire_drops_withheld(q) ==
  LET due == {s \in Scope : q.deadlines[s] = "due"}
  IN  [q EXCEPT !.in_flight = @ \ due,
                !.deadlines = [s \in Scope |-> IF s \in due THEN "none" ELSE @[s]],
                !.withheld  = [s \in Scope |-> IF s \in due THEN <<>> ELSE @[s]]]

\* The in-flight entries past their deadline are released, and the events
\* withheld for a steer of that turn go back to the front of their queue.
expire(q) ==
  LET due    == {s \in Scope : q.deadlines[s] = "due"}
      full   == [s \in Scope |-> IF s \in due THEN q.withheld[s] \o q.queues[s]
                                 ELSE q.queues[s]]
      kept   == enforce_channel_cap([s \in Scope |-> PopBack(full[s])])
  IN  IF due = {} THEN q
      ELSE [q EXCEPT !.in_flight = @ \ due,
                     !.deadlines = [s \in Scope |-> IF s \in due THEN "none" ELSE @[s]],
                     !.withheld  = [s \in Scope |-> IF s \in due THEN <<>> ELSE @[s]],
                     !.queues    = kept,
                     !.evicted   = @ \cup (EventsIn(full) \ EventsIn(kept))]

Ready_in_flight_too(q) == {s \in Scope : /\ q.queues[s] # <<>>
                                         /\ q.retry_after[s] # "active"}

\* Scopes with queued events that may be prompted now.
Ready(q) == {s \in Scope : /\ q.queues[s] # <<>>
                           /\ s \notin q.in_flight
                           /\ q.retry_after[s] # "active"}

CancelledReady(q) == {s \in Scope : q.cancelled[s] # <<>> /\ s \notin q.in_flight}

\* The scopes flush_next may pick on an expired queue: the one whose head
\* arrived first, else any scope (a HashMap's order) with cancelled events.
flush_choice(q) ==
  IF Ready(q) # {}
  THEN {s \in Ready(q) : \A t \in Ready(q) : Head(q.queues[s]) <= Head(q.queues[t])}
  ELSE CancelledReady(q)

\* Stable sort of a drained batch by created_at.
CreatedBefore(seq, j, i) ==
  \/ CreatedAt[seq[j]] < CreatedAt[seq[i]]
  \/ CreatedAt[seq[j]] = CreatedAt[seq[i]] /\ j < i

Rank(seq, i) == 1 + Cardinality({j \in DOMAIN seq : CreatedBefore(seq, j, i)})

SortByCreated(seq) ==
  [p \in DOMAIN seq |-> seq[CHOOSE i \in DOMAIN seq : Rank(seq, i) = p]]

DrainCount(q, s) ==
  IF Len(q.queues[s]) < MAX_BATCH_EVENTS THEN Len(q.queues[s]) ELSE MAX_BATCH_EVENTS

\* The batch flush_next returns for a chosen scope.  Cancelled events ride
\* along as carryover, or are prompted again as they were if nothing else is.
flushed_batch(q, s) ==
  IF s \in Ready(q)
  THEN [scope     |-> s,
        events    |-> SortByCreated(SubSeq(q.queues[s], 1, DrainCount(q, s))),
        cancelled |-> q.cancelled[s],
        reason    |-> IF q.cancelled[s] = <<>> THEN "none" ELSE q.reasons[s]]
  ELSE [scope |-> s, events |-> q.cancelled[s], cancelled |-> <<>>,
        reason |-> q.reasons[s]]

\* What flush_next leaves behind.
flush_next(q, s) ==
  [q EXCEPT !.queues[s]    = IF s \in Ready(q)
                             THEN SubSeq(@, DrainCount(q, s) + 1, Len(@)) ELSE @,
            !.cancelled[s] = <<>>,
            !.reasons[s]   = "none",
            !.in_flight    = @ \cup {s},
            !.deadlines[s] = "armed"]

\* An active throttle means the scope was requeued and keeps its counter.
mark_complete(q, s) ==
  [q EXCEPT !.in_flight       = @ \ {s},
            !.deadlines[s]    = "none",
            !.retry_after[s]  = IF @ = "active" THEN @ ELSE "none",
            !.retry_counts[s] = IF q.retry_after[s] = "active" THEN @ ELSE 0]

\* requeue hands the batch back to its caller when the retries are used up.
dead_letters(q, b) == q.retry_counts[b.scope] + 1 > MAX_RETRIES

requeue_with_carryover(q, b) ==
  IF dead_letters(q, b)
  THEN [q EXCEPT !.retry_counts[b.scope] = 0, !.retry_after[b.scope] = "none"]
  ELSE [PushFront(q, b.scope, b.events) EXCEPT
          !.cancelled[b.scope]    = b.cancelled \o @,
          !.retry_counts[b.scope] = @ + 1,
          !.retry_after[b.scope]  = "active"]

requeue(q, b) ==
  IF dead_letters(q, b)
  THEN [q EXCEPT !.retry_counts[b.scope] = 0, !.retry_after[b.scope] = "none"]
  ELSE [PushFront(q, b.scope, b.events) EXCEPT
          !.retry_counts[b.scope] = @ + 1,
          !.retry_after[b.scope]  = "active"]

requeue_preserve_timestamps(q, b) ==
  LET carried == [q EXCEPT
        !.cancelled[b.scope] = b.cancelled \o @,
        !.reasons[b.scope]   = IF b.cancelled # <<>> /\ @ = "none" THEN b.reason ELSE @]
  IN  PushFront(carried, b.scope, b.events)

requeue_as_cancelled_events_only(q, b, reason) ==
  [q EXCEPT !.cancelled[b.scope] = @ \o b.events,
            !.reasons[b.scope]   = reason]

requeue_as_cancelled(q, b, reason) ==
  [q EXCEPT !.cancelled[b.scope] = @ \o b.cancelled \o b.events,
            !.reasons[b.scope]   = reason]

has_flushable_carryover(q) == CancelledReady(q) # {}
has_flushable_work(q) == flush_choice(q) # {}

drain_channel_and_deadlines(q, ch) ==
  LET keep(table, empty) ==
        [s \in Scope |-> IF ChannelOf[s] = ch THEN empty ELSE table[s]]
  IN  [q EXCEPT !.queues       = keep(@, <<>>),
                !.deadlines    = keep(@, "none"),
                !.retry_after  = keep(@, "none"),
                !.retry_counts = keep(@, 0),
                !.cancelled    = keep(@, <<>>),
                !.reasons      = keep(@, "none"),
                !.withheld     = keep(@, <<>>)]

\* Everything pending for a channel goes; its in-flight marks stay.
drain_channel(q, ch) ==
  LET keep(table, empty) ==
        [s \in Scope |-> IF ChannelOf[s] = ch THEN empty ELSE table[s]]
  IN  [q EXCEPT !.queues       = keep(@, <<>>),
                !.retry_after  = keep(@, "none"),
                !.retry_counts = keep(@, 0),
                !.cancelled    = keep(@, <<>>),
                !.reasons      = keep(@, "none"),
                !.withheld     = keep(@, <<>>)]

PendingOf(q, ch) ==
  UNION {Elements(q.queues[s]) \cup Elements(q.cancelled[s]) \cup Elements(q.withheld[s]) :
           s \in {t \in Scope : ChannelOf[t] = ch}}

mark_native_steer_pending(q, s, e) ==
  IF e \in Elements(q.queues[s])
  THEN [q EXCEPT !.queues[s] = Without(@, e), !.withheld[s] = Append(@, e)]
  ELSE q

release_native_steer_in_flight(q, s, e) ==
  IF e \in Elements(q.withheld[s]) /\ s \in q.in_flight
  THEN PushFront([q EXCEPT !.withheld[s] = Without(@, e)], s, <<e>>)
  ELSE q

release_native_steer(q, s, e) ==
  IF e \in Elements(q.withheld[s])
  THEN PushFront([q EXCEPT !.withheld[s] = Without(@, e)], s, <<e>>)
  ELSE q

remove_event_queued(q, s, e) == [q EXCEPT !.queues[s] = Without(@, e)]
remove_event(q, s, e) ==
  [q EXCEPT !.queues[s] = Without(@, e), !.withheld[s] = Without(@, e)]

\* A steer that landed grants the turn a fresh budget; a late one does not
\* bring a deadline back.
extend_in_flight_deadline(q, s) ==
  [q EXCEPT !.deadlines[s] = IF @ = "none" THEN @ ELSE "armed"]

compact_expired_state(q) ==
  [q EXCEPT !.retry_after  = [s \in Scope |-> IF @[s] = "active" THEN @[s] ELSE "none"],
            !.retry_counts = [s \in Scope |->
               IF \/ q.retry_after[s] = "active"
                  \/ q.queues[s] # <<>>
                  \/ s \in q.in_flight
               THEN @[s] ELSE 0]]
=============================================================================
