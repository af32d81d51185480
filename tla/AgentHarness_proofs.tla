------------------------ MODULE AgentHarness_proofs ------------------------
(***************************************************************************)
(* Invariants of the agent harness, for every number of agents, scopes and *)
(* events, every cap and every handling mode.                              *)
(***************************************************************************)
EXTENDS AgentHarness, EventQueue_proofs

-----------------------------------------------------------------------------
(* The inductive invariant.                                                *)

\* A task carries a batch of its own scope, and a heartbeat carries no events.
BatchOfTask ==
  \A a \in Agent :
    /\ task[a].batch.scope = task[a].scope
    /\ task[a].scope = Heartbeat => task[a].batch.events = <<>>

\* dispatch_pending releases held batches only while there are some.
ReleaseHasHeld == pc = "release" => held # <<>>

Inv == TypeOK /\ BatchOfTask /\ ReleaseHasHeld

-----------------------------------------------------------------------------
(* The operators of the harness.                                           *)

\* The slot a scan by index finds is one of the candidates.
LEMMA LeastIn ==
  ASSUME NEW S \in SUBSET Agent, S # {}
  PROVE  Least(S) \in S
<1>1. S \subseteq Nat
  BY HarnessAssumption DEF Agent
<1> DEFINE less == {ss \in Nat \X Nat : ss[1] < ss[2]}
<1>2. IsWellFoundedOn(less, Nat)
  BY NatLessThanWellFounded DEF OpToRel
<1>3. \E m \in S : \A k \in S : ~(<<k, m>> \in less)
  <2> HIDE DEF less
  <2> QED
    BY <1>1, <1>2, WFMin
<1>4. \E m \in S : \A k \in S : m <= k
  <2>1. \A k, m \in Nat : k < m => <<k, m>> \in less
    OBVIOUS
  <2> HIDE DEF less
  <2>2. \A k, m \in Nat : k < m \/ m <= k
    OBVIOUS
  <2>3. QED
    BY <1>1, <1>3, <2>1, <2>2
<1>5. QED
  BY <1>4 DEF Least

\* try_claim takes an idle agent.
LEMMA ClaimInIdle ==
  ASSUME NEW s, idle \subseteq Agent, idle # {}
  PROVE  try_claim(s) \in idle /\ try_claim(s) \in Agent
<1>1. Claimable(s) \in SUBSET idle /\ Claimable(s) # {}
  BY DEF Claimable
<1>2. try_claim(s) \in Claimable(s)
  BY <1>1, LeastIn DEF try_claim
<1>3. QED
  BY <1>1, <1>2

\* mark_complete, for the task of a scope or of a heartbeat.
LEMMA CompletedType ==
  ASSUME NEW Q \in QueueType, NEW s \in Scope \cup {Heartbeat}
  PROVE  LET R == Completed(Q, s) IN
         /\ R \in QueueType
         /\ R.in_flight = Q.in_flight \ {s}
         /\ R.deadlines = [t \in Scope |-> IF t = s THEN "none" ELSE Q.deadlines[t]]
<1>1. CASE s = Heartbeat
  BY <1>1, HarnessAssumption DEF Completed, QueueType
<1>2. CASE s \in Scope
  <2>1. Completed(Q, s) = mark_complete(Q, s)
    BY <1>2, HarnessAssumption DEF Completed
  <2>2. [Q.deadlines EXCEPT ![s] = "none"]
          = [t \in Scope |-> IF t = s THEN "none" ELSE Q.deadlines[t]]
    BY <1>2 DEF QueueType
  <2>3. QED
    BY <1>2, <2>1, <2>2, MarkCompleteType
<1>3. QED
  BY <1>1, <1>2

\* The batch a turn gives back goes to the queue; the in-flight marks wait for
\* mark_complete.
LEMMA RestoredType ==
  ASSUME NEW Q \in QueueType, NEW out, NEW b \in Batch,
         HasBatch(b) => b.scope \in Scope
  PROVE  Restored(Q, out, b) \in QueueType /\ SameTurns(Q, Restored(Q, out, b))
<1> DEFINE reason == IF b.reason = "none" THEN "steer" ELSE b.reason
<1>1. reason \in CancelReason
  BY DEF Batch, CancelReason
<1>2. \/ Restored(Q, out, b) = Q
      \/ HasBatch(b) /\ Restored(Q, out, b) = requeue_as_cancelled(Q, b, reason)
      \/ HasBatch(b) /\ Restored(Q, out, b) = requeue(Q, b)
  BY DEF Restored
<1>3. HasBatch(b) => b \in FlushBatch
  BY DEF Batch, FlushBatch
<1> HIDE DEF reason
<1>4. QED
  BY <1>1, <1>2, <1>3, RequeueType, RequeueCancelledType DEF SameTurns

\* A batch returned by dispatch_pending leaves its scope out of flight.
LEMMA ReturnBatchType ==
  ASSUME NEW Q \in QueueType, NEW b \in FlushBatch
  PROVE  LET R == ReturnBatch(Q, b) IN
         /\ R \in QueueType
         /\ R.in_flight = Q.in_flight \ {b.scope}
         /\ R.deadlines = [Q.deadlines EXCEPT ![b.scope] = "none"]
<1>1. b.scope \in Scope
  BY DEF FlushBatch
<1> DEFINE P == requeue_preserve_timestamps(Q, b)
<1>2. P \in QueueType /\ SameTurns(Q, P)
  BY RequeuePreserveType
<1>3. ReturnBatch(Q, b) = mark_complete(P, b.scope)
  BY DEF ReturnBatch
<1> HIDE DEF P
<1>4. QED
  BY <1>1, <1>2, <1>3, MarkCompleteType DEF SameTurns

\* record_crash answers with a circuit, and refuses a respawn only with the
\* circuit open.
LEMMA RecordCrashType ==
  ASSUME NEW c \in Circuit, NEW v \in record_crash(c)
  PROVE  /\ v.respawn \in BOOLEAN
         /\ v.circuit \in Circuit
         /\ ~v.respawn => v.circuit.open_until = "open"
<1>1. CASE c.open_until = "cooled"
  <2>1. v = [respawn |-> TRUE, circuit |-> HalfOpen]
    BY <1>1 DEF record_crash
  <2>2. QED
    BY <2>1, CircuitAssumption DEF HalfOpen, Circuit
<1>2. CASE c.open_until = "open"
  <2>1. v = [respawn |-> FALSE, circuit |-> c]
    BY <1>2 DEF record_crash
  <2>2. QED
    BY <1>2, <2>1 DEF Circuit
<1>3. CASE c.open_until = "closed"
  <2>1. PICK kept \in 0..c.crashes :
          /\ kept < CIRCUIT_BREAKER_THRESHOLD
          /\ v = [respawn |-> ~(kept + 1 >= CIRCUIT_BREAKER_THRESHOLD),
                  circuit |-> [crashes |-> kept + 1,
                    open_until |-> IF kept + 1 >= CIRCUIT_BREAKER_THRESHOLD
                                   THEN "open" ELSE "closed"]]
    BY <1>3 DEF record_crash
  <2>2. kept + 1 \in 0..CIRCUIT_BREAKER_THRESHOLD
    BY <2>1, CircuitAssumption DEF Circuit
  <2>3. QED
    BY <2>1, <2>2 DEF Circuit
<1>4. QED
  BY <1>1, <1>2, <1>3 DEF Circuit

\* The other steps of the breaker.
LEMMA CircuitSteps ==
  ASSUME NEW c \in Circuit
  PROVE  /\ mark_spawn_failed(c) \in Circuit /\ mark_spawn_failed(c).open_until = "open"
         /\ Cooled(c) \in Circuit /\ Cooled(c).open_until = "cooled"
         /\ refilled(c) \in Circuit
  BY CircuitAssumption DEF mark_spawn_failed, Cooled, refilled, HalfOpen, Circuit

-----------------------------------------------------------------------------
(* Every action preserves the types.                                       *)

\* Time only moves a table entry from one of its values to the next.
LEMMA TimeType == Inv /\ Time => Inv'
<1> SUFFICES ASSUME Inv, Time PROVE Inv'
  OBVIOUS
<1> USE DEF Inv, BatchOfTask, ReleaseHasHeld, TypeOK, timeFrame, boundVars
<1>1. ASSUME NEW s \in Scope, ThrottleElapses(s) PROVE Inv'
  <2>1. q' \in QueueType
    BY <1>1 DEF ThrottleElapses, QueueType
  <2>2. QED
    BY <1>1, <2>1 DEF ThrottleElapses
<1>2. ASSUME NEW s \in Scope, DeadlineElapses(s) PROVE Inv'
  <2>1. q' \in QueueType
    BY <1>2 DEF DeadlineElapses, QueueType
  <2>2. QED
    BY <1>2, <2>1 DEF DeadlineElapses
<1>3. ASSUME NEW s \in Scope, HoldElapses(s) PROVE Inv'
  BY <1>3 DEF HoldElapses
<1>4. ASSUME NEW a \in Agent, CircuitCools(a) PROVE Inv'
  <2>1. Cooled(circuit[a]) \in Circuit
    BY CircuitSteps
  <2>2. QED
    BY <1>4, <2>1 DEF CircuitCools
<1>5. QED
  BY <1>1, <1>2, <1>3, <1>4 DEF Time

\* dispatch_pending
LEMMA DispatchHoldType == Inv /\ DispatchHold => Inv'
<1> SUFFICES ASSUME Inv, DispatchHold PROVE Inv'
  OBVIOUS
<1> USE DEF Inv, BatchOfTask, ReleaseHasHeld, TypeOK, slotVars, boundVars
<1>1. PICK s \in flush_choice(expire(q)) :
        /\ held_since' = [held_since EXCEPT ![s] = "holding"]
        /\ held' = Append(held, flushed_batch(expire(q), s))
        /\ q' = flush_next(expire(q), s)
  BY DEF DispatchHold
<1>2. s \in Scope /\ expire(q) \in QueueType
  BY FlushChoiceFree, ExpireType
<1>3. q' \in QueueType /\ flushed_batch(expire(q), s) \in FlushBatch
  BY <1>1, <1>2, FlushNextType
<1>4. held' \in Seq(FlushBatch)
  BY <1>1, <1>3, AppendProperties
<1>5. QED
  BY <1>1, <1>2, <1>3, <1>4 DEF DispatchHold

\* A dispatch to an idle agent stores a well-typed batch in its task.
LEMMA DispatchClaimType == Inv /\ DispatchClaim => Inv'
<1> SUFFICES ASSUME Inv, DispatchClaim PROVE Inv'
  OBVIOUS
<1> USE DEF Inv, BatchOfTask, ReleaseHasHeld, TypeOK, slotVars, boundVars
<1>1. PICK s \in flush_choice(expire(q)) :
        /\ idle' = idle \ {try_claim(s)}
        /\ task' = [task EXCEPT ![try_claim(s)] =
             [scope |-> s, batch |-> flushed_batch(expire(q), s),
              phase |-> "running", outcome |-> "ok", control |-> "armed"]]
        /\ session_owners' = [session_owners EXCEPT ![s] = try_claim(s)]
        /\ held_since' = [held_since EXCEPT ![s] = "none"]
        /\ q' = flush_next(expire(q), s)
  BY DEF DispatchClaim
<1>2. s \in Scope /\ expire(q) \in QueueType
  BY FlushChoiceFree, ExpireType
<1> DEFINE b == flushed_batch(expire(q), s)
<1>3. q' \in QueueType /\ b \in FlushBatch /\ b.scope = s
  BY <1>1, <1>2, FlushNextType
<1>4. try_claim(s) \in Agent
  BY ClaimInIdle DEF DispatchClaim
<1> HIDE DEF b
<1>5. [scope |-> s, batch |-> b, phase |-> "running", outcome |-> "ok", control |-> "armed"]
        \in Task
  BY <1>2, <1>3 DEF Task, Batch, FlushBatch, Outcome
<1>6. task' \in [Agent -> Task]
  BY <1>1, <1>5 DEF b
<1>7. BatchOfTask'
  BY <1>1, <1>2, <1>3, <1>4, HarnessAssumption DEF b
<1>8. QED
  BY <1>1, <1>2, <1>3, <1>4, <1>6, <1>7 DEF DispatchClaim

\* Ending dispatch_pending, with or without held batches, keeps the types.
LEMMA DispatchEndsType ==
  Inv /\ (DispatchExhausted \/ DispatchDone \/ ReleaseHeld) => Inv'
<1> SUFFICES ASSUME Inv, DispatchExhausted \/ DispatchDone \/ ReleaseHeld PROVE Inv'
  OBVIOUS
<1> USE DEF Inv, BatchOfTask, ReleaseHasHeld, TypeOK, slotVars, boundVars, poolVars, LoopOver
<1>1. CASE DispatchExhausted
  <2>1. PICK s \in flush_choice(expire(q)) :
          /\ held_since' = [held_since EXCEPT ![s] = "none"]
          /\ q' = ReturnBatch(flush_next(expire(q), s), flushed_batch(expire(q), s))
    BY <1>1 DEF DispatchExhausted
  <2>2. s \in Scope /\ expire(q) \in QueueType
    BY FlushChoiceFree, ExpireType
  <2>3. flush_next(expire(q), s) \in QueueType /\ flushed_batch(expire(q), s) \in FlushBatch
    BY <2>2, FlushNextType
  <2>4. q' \in QueueType
    BY <2>1, <2>3, ReturnBatchType
  <2>5. QED
    BY <1>1, <2>1, <2>2, <2>4 DEF DispatchExhausted
<1>2. CASE DispatchDone
  <2>1. q' \in QueueType
    BY <1>2, ExpireType DEF DispatchDone
  <2>2. QED
    BY <1>2, <2>1 DEF DispatchDone
<1>3. CASE ReleaseHeld
  <2>1. held # <<>>
    BY <1>3 DEF ReleaseHeld
  <2>2. Head(held) \in FlushBatch /\ Tail(held) \in Seq(FlushBatch)
    BY <2>1, HeadTailProperties
  <2>3. q' \in QueueType
    BY <1>3, <2>2, ReturnBatchType DEF ReleaseHeld
  <2>4. QED
    BY <1>3, <2>2, <2>3 DEF ReleaseHeld
<1>4. QED
  BY <1>1, <1>2, <1>3

\* A control signal changes nothing of a task but its one-shot sender.
LEMMA SignalType ==
  ASSUME task \in [Agent -> Task], BatchOfTask, NEW s, NEW sig \in Signal,
         signal_in_flight_task_for_scope(s, sig)
  PROVE  task' \in [Agent -> Task] /\ BatchOfTask'
<1>1. CASE task' = task
  BY <1>1 DEF BatchOfTask
<1>2. CASE \E a \in TasksOf(s) : task' = Signalled(task, a, sig)
  <2>1. PICK a \in Agent, c \in {"none"} \cup Signal : task' = [task EXCEPT ![a].control = c]
        \/ task' = task
    BY <1>2 DEF Signalled, TasksOf
  <2>2. CASE task' = [task EXCEPT ![a].control = c]
    BY <2>1, <2>2 DEF Task, BatchOfTask
  <2>3. QED
    BY <1>1, <2>1, <2>2
<1>3. QED
  BY <1>1, <1>2 DEF signal_in_flight_task_for_scope

\* An admitted event, steered into the turn of its scope or merged with it.
LEMMA SteerOrInterruptType ==
  ASSUME Inv, NEW Q \in QueueType, NEW s \in Scope, NEW e \in Event, NEW sig \in Signal,
         steer_or_interrupt(Q, s, e, sig)
  PROVE  /\ q' \in QueueType /\ SameTurns(Q, q')
         /\ task' \in [Agent -> Task] /\ BatchOfTask'
         /\ steers' \subseteq Steer
<1> USE DEF Inv, TypeOK
<1>1. CASE /\ \E a \in TasksOf(s) :
                /\ q' = mark_native_steer_pending(Q, s, e)
                /\ steers' = steers \cup
                     {[scope |-> s, event |-> e, agent |-> a, state |-> "slot", ack |-> "neutral"]}
           /\ UNCHANGED task
  <2>1. q' \in QueueType /\ SameTurns(Q, q')
    BY <1>1, MarkSteerType
  <2>2. steers' \subseteq Steer
    BY <1>1 DEF Steer, TasksOf, SteerAckKind
  <2>3. QED
    BY <1>1, <2>1, <2>2 DEF BatchOfTask
<1>2. CASE /\ q' = Q
           /\ signal_in_flight_task_for_scope(s, sig)
           /\ UNCHANGED steers
  BY <1>2, SignalType DEF SameTurns
<1>3. QED
  BY <1>1, <1>2 DEF steer_or_interrupt

\* Admitting an event keeps the types, whether it is steered, signalled or queued.
LEMMA RelayEventType ==
  ASSUME Inv, NEW s \in Scope, NEW from_owner \in BOOLEAN, RelayEvent(s, from_owner)
  PROVE  Inv'
<1> USE DEF Inv, TypeOK, ReleaseHasHeld, slotVars, boundVars, poolVars
<1> DEFINE e == arrived + 1
           sig == mode_gate_signal(from_owner)
           steered == push_accepts(q, s) /\ s \in q.in_flight /\ sig # "none"
<1>1. e \in Event /\ arrived' = e /\ e \in Nat
  BY DEF RelayEvent
<1>2. push(q, s, e) \in QueueType
  BY <1>1, PushType
<1>3. /\ q' \in QueueType /\ task' \in [Agent -> Task] /\ BatchOfTask'
      /\ steers' \subseteq Steer
  <2>1. CASE steered
    <3>1. steer_or_interrupt(push(q, s, e), s, e, sig)
      BY <2>1 DEF RelayEvent
    <3>2. sig \in Signal
      BY <2>1, HarnessAssumption DEF mode_gate_signal, Signal
    <3> HIDE DEF sig
    <3>3. QED
      BY <1>1, <1>2, <3>1, <3>2, SteerOrInterruptType
  <2>2. CASE ~steered
    BY <1>2, <2>2 DEF RelayEvent, BatchOfTask
  <2>3. QED
    BY <2>1, <2>2
<1>4. discarded' \subseteq Event
  BY <1>1 DEF RelayEvent
<1>5. QED
  BY <1>1, <1>3, <1>4 DEF RelayEvent

\* !cancel and !rotate keep the types.
LEMMA OwnerCommandType ==
  ASSUME Inv, NEW s \in Scope, NEW sig \in {"cancel", "rotate"}, OwnerCommand(s, sig)
  PROVE  Inv'
<1> USE DEF Inv, TypeOK, ReleaseHasHeld, slotVars
<1>1. task' \in [Agent -> Task] /\ BatchOfTask'
  BY SignalType DEF OwnerCommand, Signal
<1>2. /\ sessions' \in [Agent -> SUBSET Scope]
      /\ session_owners' \in [Scope -> Agent \cup {NoAgent}]
      /\ held_since' \in [Scope -> {"none", "holding", "over"}]
  <2>1. CASE /\ sessions' = [a \in Agent |-> IF a \in idle THEN sessions[a] \ {s} ELSE sessions[a]]
             /\ session_owners' = [session_owners EXCEPT ![s] = NoAgent]
             /\ held_since' = [held_since EXCEPT ![s] = "none"]
    BY <2>1
  <2>2. CASE UNCHANGED <<sessions, session_owners, held_since>>
    BY <2>2
  <2>3. QED
    BY <2>1, <2>2 DEF OwnerCommand
<1>3. commands' \in 0..MaxCommands
  BY HarnessAssumption DEF OwnerCommand
<1>4. QED
  BY <1>1, <1>2, <1>3 DEF OwnerCommand

\* Joining and leaving a channel keep the types.
LEMMA MembershipType ==
  ASSUME Inv, NEW ch \in Channel, MemberRemoved(ch) \/ MemberAdded(ch)
  PROVE  Inv'
<1> USE DEF Inv, TypeOK, ReleaseHasHeld, BatchOfTask, slotVars, poolVars, queueVars
<1>1. commands < MaxCommands /\ commands' = commands + 1 => commands' \in 0..MaxCommands
  BY HarnessAssumption
<1>2. CASE MemberRemoved(ch)
  <2>1. q' \in QueueType
    BY <1>2, DrainChannelType DEF MemberRemoved
  <2>2. PendingOf(q, ch) \subseteq Event
    BY ElementsType DEF PendingOf, QueueType
  <2>3. /\ sessions' \in [Agent -> SUBSET Scope]
        /\ session_owners' \in [Scope -> Agent \cup {NoAgent}]
        /\ held_since' \in [Scope -> {"none", "holding", "over"}]
    BY <1>2 DEF MemberRemoved
  <2>4. QED
    BY <1>1, <1>2, <2>1, <2>2, <2>3 DEF MemberRemoved
<1>3. CASE MemberAdded(ch)
  BY <1>1, <1>3 DEF MemberAdded
<1>4. QED
  BY <1>2, <1>3

\* The end of a process.
LEMMA CrashType ==
  ASSUME circuit \in [Agent -> Circuit],
         respawn \in [Agent -> {"none", "running", "ok", "failed"}],
         NEW a \in Agent, NEW next, Crash(a, next)
  PROVE  /\ circuit' \in [Agent -> Circuit]
         /\ respawn' \in [Agent -> {"none", "running", "ok", "failed"}]
         /\ pc' \in {next, "exited"}
<1>1. PICK v \in record_crash(circuit[a]) :
        /\ circuit' = [circuit EXCEPT ![a] = v.circuit]
        /\ respawn' = [respawn EXCEPT ![a] = IF v.respawn THEN "running" ELSE @]
        /\ pc' \in {next, "exited"}
  BY DEF Crash
<1>2. v.circuit \in Circuit
  BY RecordCrashType
<1>3. QED
  BY <1>1, <1>2

\* The events of a batch.
LEMMA BatchEventsType ==
  ASSUME NEW b \in Batch
  PROVE  BatchEvents(b) \subseteq Event
  BY ElementsType DEF BatchEvents, Batch

\* No task.
LEMMA NoTaskType == NoTask \in Task
  BY NoEvents DEF NoTask, NoBatch, Task, Batch, Outcome, CancelReason

\* The queue after a turn has ended, however it ended.
LEMMA RestoredCompleted ==
  ASSUME Inv, NEW a \in Agent, NEW out
  PROVE  LET Q == Completed(Restored(q, out, task[a].batch), task[a].scope) IN
         /\ Q \in QueueType
         /\ Q.in_flight = q.in_flight \ {task[a].scope}
         /\ Q.deadlines = [t \in Scope |-> IF t = task[a].scope THEN "none" ELSE q.deadlines[t]]
<1> USE DEF Inv, TypeOK, BatchOfTask
<1> DEFINE b == task[a].batch
           R == Restored(q, out, b)
<1>1. b \in Batch /\ task[a].scope \in Scope \cup {Heartbeat}
  BY DEF Task
<1>2. HasBatch(b) => b.scope \in Scope
  BY <1>1 DEF HasBatch
<1>3. R \in QueueType /\ SameTurns(q, R)
  BY <1>1, <1>2, RestoredType
<1> DEFINE Q == Completed(R, task[a].scope)
<1> HIDE DEF R
<1>4. /\ Q \in QueueType
      /\ Q.in_flight = R.in_flight \ {task[a].scope}
      /\ Q.deadlines = [t \in Scope |-> IF t = task[a].scope THEN "none" ELSE R.deadlines[t]]
  BY <1>1, <1>3, CompletedType
<1>5. R.in_flight = q.in_flight /\ R.deadlines = q.deadlines
  BY <1>3 DEF SameTurns
<1> HIDE DEF Q
<1>6. /\ Q \in QueueType
      /\ Q.in_flight = q.in_flight \ {task[a].scope}
      /\ Q.deadlines = [t \in Scope |-> IF t = task[a].scope THEN "none" ELSE q.deadlines[t]]
  BY <1>4, <1>5
<1>7. QED
  BY <1>6 DEF Q, R

\* handle_prompt_result keeps the types for every outcome of a turn.
LEMMA PromptResultType ==
  ASSUME Inv, NEW a \in Agent, PromptResult(a)
  PROVE  Inv'
<1> USE DEF Inv, TypeOK, ReleaseHasHeld, BatchOfTask, boundVars
<1>1. q' \in QueueType
  BY RestoredCompleted DEF PromptResult
<1>2. task' = [task EXCEPT ![a] = NoTask]
  BY DEF PromptResult
<1>3. task' \in [Agent -> Task] /\ BatchOfTask'
  BY <1>2, NoTaskType DEF NoTask, NoBatch
<1>4. discarded' \subseteq Event
  BY BatchEventsType DEF PromptResult, Task
<1>5. heartbeat_in_flight' \in BOOLEAN
  BY DEF PromptResult
<1>6. CASE idle' = idle \cup {a}
           /\ sessions' = [sessions EXCEPT ![a] = StillMember(@)]
           /\ pc' = "drain" /\ UNCHANGED slotVars
  BY <1>1, <1>3, <1>4, <1>5, <1>6 DEF PromptResult, StillMember, slotVars
<1>7. CASE Crash(a, "drain") /\ sessions' = [sessions EXCEPT ![a] = {}] /\ UNCHANGED idle
  BY <1>1, <1>3, <1>4, <1>5, <1>7, CrashType DEF PromptResult
<1>8. QED
  BY <1>6, <1>7 DEF PromptResult

\* recover_panicked_agent keeps the types.
LEMMA RecoverPanickedType ==
  ASSUME Inv, NEW a \in Agent, RecoverPanicked(a)
  PROVE  Inv'
<1> USE DEF Inv, TypeOK, ReleaseHasHeld, BatchOfTask, boundVars
<1>1. q' \in QueueType
  BY RestoredCompleted DEF RecoverPanicked
<1>2. task' = [task EXCEPT ![a] = NoTask]
  BY DEF RecoverPanicked
<1>3. task' \in [Agent -> Task] /\ BatchOfTask'
  BY <1>2, NoTaskType DEF NoTask, NoBatch
<1>4. discarded' \subseteq Event
  BY BatchEventsType DEF RecoverPanicked, Task
<1>5. heartbeat_in_flight' \in BOOLEAN
  BY DEF RecoverPanicked
<1>6. Crash(a, IF pc = "drain" THEN "drain" ELSE "dispatch")
  BY DEF RecoverPanicked
<1>7. /\ circuit' \in [Agent -> Circuit]
      /\ respawn' \in [Agent -> {"none", "running", "ok", "failed"}]
      /\ pc' \in {"drain", "dispatch", "exited"}
  BY <1>6, CrashType
<1>8. QED
  BY <1>1, <1>3, <1>4, <1>5, <1>7 DEF RecoverPanicked

\* The SteerAck arm keeps the types for every kind of ack.
LEMMA SteerAckedType ==
  ASSUME Inv, NEW st \in steers, SteerAcked(st)
  PROVE  Inv'
<1> USE DEF Inv, TypeOK, ReleaseHasHeld, slotVars, boundVars, poolVars
<1>1. st.scope \in Scope /\ st.event \in Event
  BY DEF Steer
<1>2. /\ q' \in QueueType /\ served' \subseteq Event
      /\ task' \in [Agent -> Task] /\ BatchOfTask'
  <2>1. CASE /\ q' = remove_event(extend_in_flight_deadline(q, st.scope), st.scope, st.event)
             /\ served' = served \cup {st.event}
             /\ UNCHANGED task
    <3>1. extend_in_flight_deadline(q, st.scope) \in QueueType
      BY <1>1, ExtendType
    <3>2. QED
      BY <1>1, <2>1, <3>1, RemoveEventType DEF BatchOfTask
  <2>2. CASE /\ q' = release_native_steer(q, st.scope, st.event)
             /\ signal_in_flight_task_for_scope(st.scope, "steer")
             /\ UNCHANGED served
    BY <1>1, <2>2, ReleaseSteerType, SignalType DEF Signal
  <2>3. CASE /\ q' = release_native_steer(q, st.scope, st.event)
             /\ UNCHANGED <<served, task>>
    BY <1>1, <2>3, ReleaseSteerType DEF BatchOfTask
  <2>4. QED
    BY <2>1, <2>2, <2>3 DEF SteerAcked
<1>3. QED
  BY <1>2 DEF SteerAcked

\* Compaction, slot refill and expiry keep the types.
LEMMA MaintenanceType == Inv /\ Maintenance => Inv'
<1> SUFFICES ASSUME Inv, Maintenance PROVE Inv'
  OBVIOUS
<1> USE DEF Inv, TypeOK, ReleaseHasHeld, BatchOfTask, boundVars, poolVars
<1>1. q' \in QueueType
  BY CompactType, ExpireType DEF Maintenance
<1>2. \A a \in Agent : refilled(circuit[a]) \in Circuit
  BY CircuitSteps
<1>3. /\ circuit' \in [Agent -> Circuit]
      /\ respawn' \in [Agent -> {"none", "running", "ok", "failed"}]
  BY <1>2 DEF Maintenance
<1>4. QED
  BY <1>1, <1>3 DEF Maintenance

\* Collecting respawn results keeps the types.
LEMMA CollectType == Inv /\ CollectRespawns => Inv'
<1> SUFFICES ASSUME Inv, CollectRespawns PROVE Inv'
  OBVIOUS
<1> USE DEF Inv, TypeOK, ReleaseHasHeld, BatchOfTask, boundVars, queueVars
<1>1. \A a \in Agent : mark_spawn_failed(circuit[a]) \in Circuit
  BY CircuitSteps
<1>2. /\ circuit' \in [Agent -> Circuit]
      /\ respawn' \in [Agent -> {"none", "running", "ok", "failed"}]
      /\ sessions' \in [Agent -> SUBSET Scope] /\ idle' \subseteq Agent
  BY <1>1 DEF CollectRespawns
<1>3. QED
  BY <1>2 DEF CollectRespawns

\* The timers and the end of the drain keep the types.
LEMMA TickType == Inv /\ (TimerTick \/ HeartbeatTick \/ DrainDone) => Inv'
<1> SUFFICES ASSUME Inv, TimerTick \/ HeartbeatTick \/ DrainDone PROVE Inv'
  OBVIOUS
<1> USE DEF Inv, TypeOK, ReleaseHasHeld, boundVars, queueVars, poolVars, slotVars
<1>1. CASE TimerTick
  BY <1>1 DEF TimerTick, BatchOfTask
<1>2. CASE DrainDone
  BY <1>2 DEF DrainDone, BatchOfTask
<1>3. CASE HeartbeatTick
  <2> DEFINE a == Least(idle)
             fires == ~has_flushable_work(expire(q)) /\ idle # {} /\ ~heartbeat_in_flight
  <2>1. q' \in QueueType
    BY <1>3, ExpireType DEF HeartbeatTick
  <2>2. task' \in [Agent -> Task] /\ BatchOfTask'
    <3>1. CASE fires
      <4>1. a \in Agent
        BY <3>1, LeastIn
      <4>2. [NoTask EXCEPT !.phase = "running"] \in Task
        BY NoTaskType DEF Task
      <4>3. task' = [task EXCEPT ![a] = [NoTask EXCEPT !.phase = "running"]]
        BY <1>3, <3>1 DEF HeartbeatTick
      <4> HIDE DEF a
      <4>4. QED
        BY <4>1, <4>2, <4>3 DEF BatchOfTask, NoTask, NoBatch
    <3>2. CASE ~fires
      BY <1>3, <3>2 DEF HeartbeatTick, BatchOfTask
    <3>3. QED
      BY <3>1, <3>2
  <2>3. QED
    BY <1>3, <2>1, <2>2 DEF HeartbeatTick
<1>4. QED
  BY <1>1, <1>2, <1>3

\* The end of a turn, with the batch it gives back.
LEMMA TurnEndsType ==
  ASSUME Inv, NEW a \in Agent, NEW phase \in {"returned", "panicked"}, NEW out \in Outcome,
         NEW b \in Batch, b.scope = task[a].scope,
         task[a].scope = Heartbeat => b.events = <<>>,
         NEW kept \in SUBSET Scope, TurnEnds(a, phase, out, b, kept),
         failures' \in 0..MaxFailures, attempts' \in [Event -> Nat], served' \subseteq Event
  PROVE  Inv'
<1> USE DEF Inv, TypeOK, ReleaseHasHeld
<1>1. task' = [task EXCEPT ![a].phase = phase, ![a].outcome = out, ![a].batch = b]
  BY DEF TurnEnds
<1> DEFINE t == [task[a] EXCEPT !.phase = phase, !.outcome = out, !.batch = b]
<1>2. task' = [task EXCEPT ![a] = t]
  BY <1>1
<1>3. t \in Task /\ t.scope = task[a].scope /\ t.batch = b
  BY DEF Task
<1> HIDE DEF t
<1>4. task' \in [Agent -> Task] /\ BatchOfTask'
  BY <1>2, <1>3 DEF BatchOfTask
<1>5. steers' \subseteq Steer
  <2> SUFFICES ASSUME NEW x \in steers' PROVE x \in Steer
    OBVIOUS
  <2>1. PICK st \in steers : x = st \/ x = [st EXCEPT !.state = "acked", !.ack = "neutral"]
    BY DEF TurnEnds, SteersEndedBy
  <2>2. st \in Steer
    OBVIOUS
  <2>3. QED
    BY <2>1, <2>2 DEF Steer, SteerAckKind
<1>6. discarded' \subseteq Event
  BY BatchEventsType DEF TurnEnds, Task
<1>7. sessions' \in [Agent -> SUBSET Scope]
  BY DEF TurnEnds
<1>8. QED
  BY <1>4, <1>5, <1>6, <1>7 DEF TurnEnds, slotVars

\* What a turn gives back is a batch of its scope.
LEMMA GivenBackType ==
  ASSUME Inv, NEW a \in Agent
  PROVE  LET s == task[a].scope IN
         /\ \A b \in {NoBatch(s), Recoverable(task[a].batch)} :
              /\ b \in Batch /\ b.scope = s
              /\ s = Heartbeat => b.events = <<>>
         /\ task[a].control \in Signal =>
              LET b == CancelledBatch(a) IN
              /\ b \in Batch /\ b.scope = s
              /\ s = Heartbeat => b.events = <<>>
<1> USE DEF Inv, TypeOK, BatchOfTask
<1>1. task[a].batch \in Batch /\ task[a].batch.scope = task[a].scope
  BY DEF Task
<1>2. NoBatch(task[a].scope) \in Batch
  BY NoEvents DEF NoBatch, Batch, Task, CancelReason
<1>3. ASSUME NEW b \in {NoBatch(task[a].scope), Recoverable(task[a].batch)}
      PROVE  /\ b \in Batch /\ b.scope = task[a].scope
             /\ task[a].scope = Heartbeat => b.events = <<>>
  BY <1>1, <1>2 DEF Recoverable, NoBatch
<1>4. ASSUME task[a].control \in Signal
      PROVE  /\ CancelledBatch(a) \in Batch /\ CancelledBatch(a).scope = task[a].scope
             /\ task[a].scope = Heartbeat => CancelledBatch(a).events = <<>>
  <2>1. CASE task[a].control \in {"cancel", "rotate"}
    BY <1>1, <1>2, <2>1 DEF CancelledBatch, NoBatch
  <2>2. CASE task[a].control \notin {"cancel", "rotate"}
    <3>1. CancelledBatch(a) = [Recoverable(task[a].batch) EXCEPT !.reason = task[a].control]
      BY <2>2 DEF CancelledBatch
    <3>2. task[a].control \in CancelReason
      BY <1>4, <2>2 DEF Signal, CancelReason
    <3>3. QED
      BY <1>3, <3>1, <3>2 DEF Batch
  <2>3. QED
    BY <2>1, <2>2
<1>5. QED
  BY <1>3, <1>4

\* The history of failed turns.
LEMMA AttemptedType ==
  ASSUME Inv, NEW a \in Agent
  PROVE  Attempted(a) \in [Event -> Nat]
  BY DEF Attempted, Inv, TypeOK

\* Every way a turn can end keeps the types.
LEMMA TurnType ==
  ASSUME Inv, NEW a \in Agent, Turn(a)
  PROVE  Inv'
<1>1. /\ failures \in 0..MaxFailures /\ attempts \in [Event -> Nat] /\ served \subseteq Event
      /\ task[a] \in Task /\ sessions[a] \in SUBSET Scope
  BY DEF Inv, TypeOK
<1>2. Failing => failures' \in 0..MaxFailures
  BY <1>1, HarnessAssumption DEF Failing
<1>3. \A kept \in SessionsAfter(a) : kept \in SUBSET Scope
  BY <1>1 DEF SessionsAfter
<1>4. CASE TurnSucceeds(a)
  <2>1. PICK kept \in SUBSET Scope :
          TurnEnds(a, "returned", "ok", NoBatch(task[a].scope), kept)
    BY <1>3, <1>4 DEF TurnSucceeds
  <2>2. BatchEvents(task[a].batch) \subseteq Event
    BY <1>1, BatchEventsType DEF Task
  <2>3. /\ failures' \in 0..MaxFailures /\ attempts' \in [Event -> Nat]
        /\ served' \subseteq Event
    BY <1>1, <1>4, <2>2 DEF TurnSucceeds
  <2>4. QED
    BY <2>1, <2>3, TurnEndsType, GivenBackType DEF Outcome
<1>5. ASSUME NEW out \in {"crashed", "hard_silent", "auth", "app_error"}, TurnFails(a, out)
      PROVE  Inv'
  <2>1. PICK kept \in SUBSET Scope :
          TurnEnds(a, "returned", out, Recoverable(task[a].batch), kept)
    BY <1>3, <1>5 DEF TurnFails
  <2>2. /\ failures' \in 0..MaxFailures /\ attempts' \in [Event -> Nat]
        /\ served' \subseteq Event
    BY <1>1, <1>2, <1>5, AttemptedType DEF TurnFails
  <2>3. QED
    BY <2>1, <2>2, TurnEndsType, GivenBackType DEF Outcome
<1>6. ASSUME NEW out \in {"cancelled", "drain_timeout", "crashed", "app_error"},
             TurnCancelled(a, out)
      PROVE  Inv'
  <2>1. PICK kept \in SUBSET Scope : TurnEnds(a, "returned", out, CancelledBatch(a), kept)
    BY <1>1, <1>6 DEF TurnCancelled
  <2>2. /\ failures' \in 0..MaxFailures /\ attempts' \in [Event -> Nat]
        /\ served' \subseteq Event
    BY <1>1, <1>2, <1>6, AttemptedType DEF TurnCancelled
  <2>3. task[a].control \in Signal
    BY <1>6 DEF TurnCancelled
  <2>4. QED
    BY <2>1, <2>2, <2>3, TurnEndsType, GivenBackType DEF Outcome
<1>7. CASE TurnPanics(a)
  <2>1. TurnEnds(a, "panicked", "crashed", Recoverable(task[a].batch), {})
    BY <1>7 DEF TurnPanics
  <2>2. /\ failures' \in 0..MaxFailures /\ attempts' \in [Event -> Nat]
        /\ served' \subseteq Event
    BY <1>1, <1>2, <1>7, AttemptedType DEF TurnPanics
  <2>3. QED
    BY <2>1, <2>2, TurnEndsType, GivenBackType DEF Outcome
<1>8. QED
  BY <1>4, <1>5, <1>6, <1>7 DEF Turn

\* The end of a respawn keeps the types.
LEMMA RespawnEndsType ==
  ASSUME Inv, NEW a \in Agent, RespawnEnds(a)
  PROVE  Inv'
<1> USE DEF Inv, TypeOK, ReleaseHasHeld, BatchOfTask, queueVars, poolVars
<1>1. failures' \in 0..MaxFailures
  BY HarnessAssumption DEF RespawnEnds, Failing
<1>2. respawn' \in [Agent -> {"none", "running", "ok", "failed"}]
  BY DEF RespawnEnds
<1>3. QED
  BY <1>1, <1>2 DEF RespawnEnds

\* Taking and answering a native steer keep the types.
LEMMA SteerType ==
  ASSUME Inv, NEW st \in steers, SteerTaken(st) \/ SteerAnswered(st)
  PROVE  Inv'
<1> USE DEF Inv, TypeOK, ReleaseHasHeld, BatchOfTask, steerFrame, poolVars, slotVars, boundVars
<1>1. steers' \subseteq Steer
  <2>1. st \in Steer
    OBVIOUS
  <2>2. CASE SteerTaken(st)
    <3>1. PICK next \in {[st EXCEPT !.state = "written"],
                         [st EXCEPT !.state = "acked", !.ack = "unlanded"]} :
            steers' = (steers \ {st}) \cup {next}
      BY <2>2 DEF SteerTaken
    <3>2. next \in Steer
      BY <2>1, <3>1 DEF Steer, SteerAckKind
    <3>3. QED
      BY <3>1, <3>2
  <2>3. CASE SteerAnswered(st)
    <3>1. PICK ack \in SteerAckKind :
            steers' = (steers \ {st}) \cup {[st EXCEPT !.state = "acked", !.ack = ack]}
      BY <2>3 DEF SteerAnswered
    <3>2. [st EXCEPT !.state = "acked", !.ack = ack] \in Steer
      BY <2>1 DEF Steer
    <3>3. QED
      BY <3>1, <3>2
  <2>4. QED
    BY <2>2, <2>3
<1>2. UNCHANGED steerFrame
  BY DEF SteerTaken, SteerAnswered
<1>3. QED
  BY <1>1, <1>2

-----------------------------------------------------------------------------
(* Type correctness.                                                       *)

\* The invariant holds when the harness starts.
LEMMA InitType == Init => Inv
<1> SUFFICES ASSUME Init PROVE Inv
  OBVIOUS
<1> USE DEF Init, initialize_agent_pool
<1>1. q \in QueueType
  BY NoEvents DEF new, QueueType, CancelReason
<1>2. held \in Seq(FlushBatch)
  BY EmptySeq
<1>3. task \in [Agent -> Task] /\ BatchOfTask
  BY NoTaskType DEF BatchOfTask, NoTask, NoBatch
<1>4. circuit \in [Agent -> Circuit]
  BY CircuitAssumption DEF Closed, Circuit
<1>5. /\ sessions \in [Agent -> SUBSET Scope]
      /\ session_owners \in [Scope -> Agent \cup {NoAgent}]
      /\ held_since \in [Scope -> {"none", "holding", "over"}]
      /\ respawn \in [Agent -> {"none", "running", "ok", "failed"}]
      /\ attempts \in [Event -> Nat]
  OBVIOUS
<1>6. arrived \in Nat /\ failures \in 0..MaxFailures /\ commands \in 0..MaxCommands
  <2>1. IsFiniteSet(Agent)
    BY HarnessAssumption, FS_Interval DEF Agent
  <2>2. Cardinality(Agent \ idle) \in Nat
    BY <2>1, FS_Difference, FS_CardinalityType
  <2>3. QED
    BY <2>2, HarnessAssumption
<1>7. QED
  BY <1>1, <1>2, <1>3, <1>4, <1>5, <1>6 DEF Inv, TypeOK, ReleaseHasHeld

\* Every step of the harness preserves the invariant.
LEMMA NextType == Inv /\ [Next]_vars => Inv'
<1> SUFFICES ASSUME Inv, [Next]_vars PROVE Inv'
  OBVIOUS
<1>1. CASE MainLoop
  BY <1>1, DispatchHoldType, DispatchClaimType, DispatchEndsType, PromptResultType,
     RecoverPanickedType, TickType, SteerAckedType, MaintenanceType, CollectType DEF MainLoop
<1>2. CASE Environment
  BY <1>2, RelayEventType, OwnerCommandType, MembershipType, TickType DEF Environment
<1>3. CASE \E a \in Agent : Turn(a) \/ RespawnEnds(a)
  BY <1>3, TurnType, RespawnEndsType
<1>4. CASE \E st \in steers : SteerTaken(st) \/ SteerAnswered(st)
  BY <1>4, SteerType
<1>5. CASE Time
  BY <1>5, TimeType
<1>6. CASE UNCHANGED vars
  BY <1>6 DEF vars, Inv, TypeOK, BatchOfTask, ReleaseHasHeld
<1>7. QED
  BY <1>1, <1>2, <1>3, <1>4, <1>5, <1>6 DEF Next

\* In every reachable state a task carries a batch of its own scope and
\* dispatch_pending never releases a batch it does not hold.
THEOREM InvHolds == Spec => []Inv
  BY InitType, NextType, PTL DEF Spec

\* Type correctness of the harness: whatever fails, the queue's tables are total
\* over the scopes, every batch in the loop, in a task or in a result is a batch
\* of a scope, and a slot, an owner or a steer names an agent of the pool.
THEOREM TypeCorrect == Spec => []TypeOK
<1>1. Inv => TypeOK
  BY DEF Inv
<1>2. QED
  BY <1>1, InvHolds, PTL
============================================================================
