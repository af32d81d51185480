------------------------ MODULE HarnessTurns_proofs ------------------------
(***************************************************************************)
(* Slots and turns.  An agent is in one place, comes back without sessions *)
(* of channels it was removed from, and the harness gives up only when no  *)
(* respawn is under way and the breaker of every slot that ever had an     *)
(* agent has opened.  Each in-flight mark of the queue has a deadline, so  *)
(* the backstop can release it, and as long as no turn outlives its        *)
(* deadline the marks are exactly the scopes of the turns under way and of *)
(* the held batches.                                                       *)
(***************************************************************************)
EXTENDS AgentHarness_proofs

-----------------------------------------------------------------------------
(* The slots.                                                              *)

\* A slot with no agent, no turn and no respawn under way has had its breaker
\* opened, or has been empty since the start and was not tried again yet.
DeadSlotOpen ==
  \A a \in Agent :
    a \notin idle /\ task[a].phase = "none" /\ respawn[a] = "none"
      => circuit[a].open_until # "closed" \/ circuit[a] = Closed

SlotInv == NoSlotOverwrite /\ SessionsStripped /\ DeadSlotOpen /\ ExitJustified

\* Steps that leave the slots alone.
LEMMA SlotsKept ==
  ASSUME SlotInv, UNCHANGED <<idle, sessions, respawn, circuit, removed_channels>>,
         \A a \in Agent : task'[a].phase = task[a].phase,
         pc' # "exited"
  PROVE  SlotInv'
  BY DEF SlotInv, NoSlotOverwrite, SessionsStripped, DeadSlotOpen, ExitJustified

\* A control signal leaves the phase of every task.
LEMMA SignalKeepsPhase ==
  ASSUME Inv, NEW s, NEW sig, signal_in_flight_task_for_scope(s, sig)
  PROVE  \A a \in Agent : task'[a].phase = task[a].phase /\ task'[a].scope = task[a].scope
<1> USE DEF Inv, TypeOK
<1>1. CASE task' = task
  BY <1>1
<1>2. CASE \E a \in TasksOf(s) : task' = Signalled(task, a, sig)
  <2>1. PICK a \in Agent : task' = Signalled(task, a, sig)
    BY <1>2 DEF TasksOf
  <2>2. task' = task \/ \E c : task' = [task EXCEPT ![a].control = c]
    BY <2>1 DEF Signalled
  <2>3. ASSUME NEW c, task' = [task EXCEPT ![a].control = c], NEW b \in Agent
        PROVE  task'[b].phase = task[b].phase /\ task'[b].scope = task[b].scope
    <3>1. CASE b = a
      BY <2>3, <3>1 DEF Task
    <3>2. CASE b # a
      BY <2>3, <3>2
    <3>3. QED
      BY <3>1, <3>2
  <2>4. QED
    BY <1>1, <2>2, <2>3
<1>3. QED
  BY <1>1, <1>2 DEF signal_in_flight_task_for_scope

\* dispatch_pending
LEMMA DispatchSlots ==
  ASSUME Inv, SlotInv,
         DispatchHold \/ DispatchClaim \/ DispatchExhausted \/ DispatchDone \/ ReleaseHeld
  PROVE  SlotInv'
<1>1. resume # "exited" /\ idle \subseteq Agent
  BY DEF Inv, TypeOK
<1>2. CASE DispatchHold
  BY <1>2, SlotsKept DEF DispatchHold, slotVars
<1>3. CASE DispatchExhausted \/ DispatchDone \/ ReleaseHeld
  <2>1. UNCHANGED <<idle, sessions, respawn, circuit, removed_channels, task>>
    BY <1>3 DEF DispatchExhausted, DispatchDone, ReleaseHeld, slotVars, poolVars
  <2>2. pc' # "exited"
    BY <1>1, <1>3 DEF DispatchExhausted, DispatchDone, ReleaseHeld, LoopOver
  <2>3. QED
    BY <2>1, <2>2, SlotsKept
<1>4. CASE DispatchClaim
  <2>1. PICK s \in flush_choice(expire(q)) :
          /\ idle' = idle \ {try_claim(s)}
          /\ task' = [task EXCEPT ![try_claim(s)] =
               [scope |-> s, batch |-> flushed_batch(expire(q), s), phase |-> "running",
                outcome |-> "ok", control |-> "armed"]]
    BY <1>4 DEF DispatchClaim
  <2> DEFINE a == try_claim(s)
             b == flushed_batch(expire(q), s)
  <2>2. /\ a \in idle /\ idle' = idle \ {a}
        /\ task' = [task EXCEPT ![a] = [scope |-> s, batch |-> b, phase |-> "running",
                                       outcome |-> "ok", control |-> "armed"]]
    BY <1>1, <1>4, <2>1, ClaimInIdle DEF DispatchClaim
  <2> HIDE DEF a, b
  <2>3. UNCHANGED <<sessions, respawn, circuit, removed_channels, pc>> /\ pc # "exited"
    BY <1>4 DEF DispatchClaim, slotVars
  <2>4. task \in [Agent -> Task] /\ a \in Agent
    BY <1>1, <2>2 DEF Inv, TypeOK
  <2>5. QED
    BY <2>2, <2>3, <2>4 DEF SlotInv, NoSlotOverwrite, SessionsStripped, DeadSlotOpen,
       ExitJustified
<1>5. QED
  BY <1>2, <1>3, <1>4

\* The relay arms.
LEMMA EnvironmentSlots ==
  ASSUME Inv, SlotInv, Environment
  PROVE  SlotInv'
<1>1. idle \subseteq Agent /\ task \in [Agent -> Task] /\ sessions \in [Agent -> SUBSET Scope]
  BY DEF Inv, TypeOK
<1>2. ASSUME NEW s \in Scope, NEW from_owner \in BOOLEAN, RelayEvent(s, from_owner)
      PROVE  SlotInv'
  <2>1. \A a \in Agent : task'[a].phase = task[a].phase
    BY <1>2, SignalKeepsPhase DEF RelayEvent, steer_or_interrupt
  <2>2. QED
    BY <1>2, <2>1, SlotsKept DEF RelayEvent, slotVars, poolVars
<1>3. ASSUME NEW s \in Scope, NEW sig \in {"cancel", "rotate"}, OwnerCommand(s, sig)
      PROVE  SlotInv'
  <2>1. \A a \in Agent : task'[a].phase = task[a].phase
    BY <1>3, SignalKeepsPhase DEF OwnerCommand
  <2>2. \A a \in Agent : sessions'[a] \subseteq sessions[a]
    <3>1. CASE sessions' = [a \in Agent |-> IF a \in idle THEN sessions[a] \ {s} ELSE sessions[a]]
      BY <3>1
    <3>2. CASE sessions' = sessions
      BY <3>2
    <3>3. QED
      BY <1>3, <3>1, <3>2 DEF OwnerCommand
  <2>3. UNCHANGED <<idle, respawn, circuit, removed_channels>> /\ pc' # "exited"
    BY <1>3 DEF OwnerCommand, slotVars
  <2>4. QED
    BY <1>1, <2>1, <2>2, <2>3 DEF SlotInv, NoSlotOverwrite, SessionsStripped, DeadSlotOpen,
       ExitJustified
<1>4. ASSUME NEW ch \in Channel, MemberRemoved(ch)
      PROVE  SlotInv'
  <2>1. /\ UNCHANGED <<idle, task, respawn, circuit>> /\ pc' # "exited"
        /\ removed_channels' = removed_channels \cup {ch}
        /\ sessions' = [a \in Agent |-> IF a \in idle
             THEN sessions[a] \ {s \in Scope : ChannelOf[s] = ch} ELSE sessions[a]]
    BY <1>4 DEF MemberRemoved, slotVars
  <2>2. SessionsStripped'
    BY <1>1, <2>1 DEF SlotInv, SessionsStripped
  <2>3. QED
    BY <2>1, <2>2 DEF SlotInv, NoSlotOverwrite, DeadSlotOpen, ExitJustified
<1>5. ASSUME NEW ch \in Channel, MemberAdded(ch)
      PROVE  SlotInv'
  BY <1>5 DEF MemberAdded, slotVars, poolVars, SlotInv, NoSlotOverwrite, SessionsStripped,
     DeadSlotOpen, ExitJustified
<1>6. CASE TimerTick
  BY <1>6, SlotsKept DEF TimerTick, slotVars, poolVars
<1>7. CASE HeartbeatTick
  <2> DEFINE fires == ~has_flushable_work(expire(q)) /\ idle # {} /\ ~heartbeat_in_flight
             a == Least(idle)
  <2>1. UNCHANGED <<sessions, respawn, circuit, removed_channels>> /\ pc' # "exited"
    BY <1>7 DEF HeartbeatTick, slotVars
  <2>2. CASE fires
    <3>1. a \in idle
      BY <1>1, <2>2, LeastIn
    <3>2. /\ idle' = idle \ {a}
          /\ task' = [task EXCEPT ![a] = [NoTask EXCEPT !.phase = "running"]]
      BY <1>7, <2>2 DEF HeartbeatTick
    <3> HIDE DEF a
    <3>3. task'[a].phase = "running" /\ \A c \in Agent : c # a => task'[c] = task[c]
      BY <1>1, <3>1, <3>2 DEF NoTask
    <3>4. QED
      BY <1>1, <2>1, <3>1, <3>2, <3>3 DEF SlotInv, NoSlotOverwrite, SessionsStripped,
         DeadSlotOpen, ExitJustified
  <2>3. CASE ~fires
    BY <1>7, <2>1, <2>3, SlotsKept DEF HeartbeatTick
  <2>4. QED
    BY <2>2, <2>3
<1>8. QED
  BY <1>2, <1>3, <1>4, <1>5, <1>6, <1>7 DEF Environment

\* A process that ended: its slot is respawned, or its breaker is open.
LEMMA CrashSlots ==
  ASSUME Inv, SlotInv, NEW a \in Agent, task[a].phase # "none", NEW next, next # "exited",
         Crash(a, next), task' = [task EXCEPT ![a] = NoTask],
         sessions' = [sessions EXCEPT ![a] = {}], UNCHANGED <<idle, removed_channels>>
  PROVE  SlotInv'
<1>1. PICK v \in record_crash(circuit[a]) :
        /\ circuit' = [circuit EXCEPT ![a] = v.circuit]
        /\ respawn' = [respawn EXCEPT ![a] = IF v.respawn THEN "running" ELSE @]
        /\ pc' = IF ~\E b \in Agent : b \in idle \/ task'[b].phase # "none" \/ respawn'[b] # "none"
                 THEN "exited" ELSE next
  BY DEF Crash
<1>2. /\ idle \subseteq Agent /\ task \in [Agent -> Task] /\ sessions \in [Agent -> SUBSET Scope]
      /\ circuit \in [Agent -> Circuit]
      /\ respawn \in [Agent -> {"none", "running", "ok", "failed"}]
  BY DEF Inv, TypeOK
<1>3. v.respawn \in BOOLEAN /\ (~v.respawn => v.circuit.open_until = "open")
  BY <1>2, RecordCrashType
<1>4. a \notin idle /\ respawn[a] = "none"
  BY DEF SlotInv, NoSlotOverwrite
<1>5. /\ task'[a].phase = "none"
      /\ \A b \in Agent : b # a => /\ task'[b] = task[b] /\ circuit'[b] = circuit[b]
                                   /\ respawn'[b] = respawn[b] /\ sessions'[b] = sessions[b]
  BY <1>1, <1>2 DEF NoTask
<1>6. respawn'[a] = (IF v.respawn THEN "running" ELSE "none") /\ circuit'[a] = v.circuit
  BY <1>1, <1>2, <1>4
<1>7. NoSlotOverwrite'
  BY <1>4, <1>5 DEF SlotInv, NoSlotOverwrite
<1>8. SessionsStripped'
  BY <1>2, <1>4, <1>5 DEF SlotInv, SessionsStripped
<1>9. DeadSlotOpen'
  <2>1. respawn'[a] = "none" => circuit'[a].open_until # "closed"
    BY <1>3, <1>6
  <2>2. QED
    BY <1>5, <2>1 DEF SlotInv, DeadSlotOpen
<1>10. ExitJustified'
  BY <1>1, <1>9 DEF DeadSlotOpen, ExitJustified
<1>11. QED
  BY <1>7, <1>8, <1>9, <1>10 DEF SlotInv

\* The arms of the pool.
LEMMA PoolSlots ==
  ASSUME Inv, SlotInv,
         \/ \E a \in Agent : PromptResult(a) \/ RecoverPanicked(a)
         \/ DrainDone
         \/ \E st \in steers : SteerAcked(st)
  PROVE  SlotInv'
<1>1. /\ idle \subseteq Agent /\ task \in [Agent -> Task] /\ sessions \in [Agent -> SUBSET Scope]
  BY DEF Inv, TypeOK
<1>2. ASSUME NEW a \in Agent, PromptResult(a)
      PROVE  SlotInv'
  <2>1. task[a].phase # "none" /\ task' = [task EXCEPT ![a] = NoTask] /\ UNCHANGED removed_channels
    BY <1>2 DEF PromptResult
  <2>2. CASE /\ idle' = idle \cup {a} /\ sessions' = [sessions EXCEPT ![a] = StillMember(@)]
             /\ pc' = "drain" /\ UNCHANGED slotVars
    <3>1. a \notin idle /\ respawn[a] = "none" /\ UNCHANGED <<respawn, circuit>>
      BY <2>1, <2>2 DEF SlotInv, NoSlotOverwrite, slotVars
    <3>2. /\ task'[a].phase = "none" /\ sessions'[a] = StillMember(sessions[a])
          /\ \A b \in Agent : b # a => task'[b] = task[b] /\ sessions'[b] = sessions[b]
      BY <1>1, <2>1, <2>2 DEF NoTask
    <3>3. SessionsStripped'
      BY <1>1, <2>1, <2>2, <3>2 DEF SlotInv, SessionsStripped, StillMember
    <3>4. QED
      BY <2>1, <2>2, <3>1, <3>2, <3>3 DEF SlotInv, NoSlotOverwrite, DeadSlotOpen, ExitJustified
  <2>3. CASE Crash(a, "drain") /\ sessions' = [sessions EXCEPT ![a] = {}] /\ UNCHANGED idle
    BY <2>1, <2>3, CrashSlots
  <2>4. QED
    BY <1>2, <2>2, <2>3 DEF PromptResult
<1>3. ASSUME NEW a \in Agent, RecoverPanicked(a)
      PROVE  SlotInv'
  <2>1. /\ task[a].phase # "none" /\ task' = [task EXCEPT ![a] = NoTask]
        /\ sessions' = [sessions EXCEPT ![a] = {}] /\ UNCHANGED <<idle, removed_channels>>
        /\ Crash(a, IF pc = "drain" THEN "drain" ELSE "dispatch")
    BY <1>3 DEF RecoverPanicked
  <2>2. QED
    BY <2>1, CrashSlots
<1>4. CASE DrainDone
  BY <1>4, SlotsKept DEF DrainDone, slotVars, poolVars
<1>5. ASSUME NEW st \in steers, SteerAcked(st)
      PROVE  SlotInv'
  <2>1. \A a \in Agent : task'[a].phase = task[a].phase
    BY <1>5, SignalKeepsPhase DEF SteerAcked
  <2>2. QED
    BY <1>5, <2>1, SlotsKept DEF SteerAcked, slotVars, poolVars
<1>6. QED
  BY <1>2, <1>3, <1>4, <1>5

\* Refill and collection of respawns.
LEMMA RespawnSlots ==
  ASSUME Inv, SlotInv,
         Maintenance \/ CollectRespawns \/ \E a \in Agent : RespawnEnds(a) \/ CircuitCools(a)
  PROVE  SlotInv'
<1>1. /\ idle \subseteq Agent /\ task \in [Agent -> Task] /\ sessions \in [Agent -> SUBSET Scope]
      /\ circuit \in [Agent -> Circuit]
      /\ respawn \in [Agent -> {"none", "running", "ok", "failed"}]
  BY DEF Inv, TypeOK
<1>2. CASE Maintenance
  <2> DEFINE refill == {a \in Agent : ~slot_alive(a) /\ respawn[a] = "none" /\ can_refill(circuit[a])}
  <2>1. /\ respawn' = [a \in Agent |-> IF a \in refill THEN "running" ELSE respawn[a]]
        /\ circuit' = [a \in Agent |-> IF a \in refill THEN refilled(circuit[a]) ELSE circuit[a]]
        /\ UNCHANGED <<idle, sessions, task, removed_channels>> /\ pc' # "exited"
    BY <1>2 DEF Maintenance, poolVars
  <2>2. \A a \in refill : a \notin idle /\ task[a].phase = "none"
    BY DEF slot_alive
  <2> HIDE DEF refill
  <2>3. QED
    BY <1>1, <2>1, <2>2 DEF SlotInv, NoSlotOverwrite, SessionsStripped, DeadSlotOpen, ExitJustified
<1>3. CASE CollectRespawns
  <2> DEFINE alive == {a \in Agent : respawn[a] = "ok"}
             dead == {a \in Agent : respawn[a] = "failed"}
  <2>1. /\ respawn' = [a \in Agent |-> IF a \in alive \cup dead THEN "none" ELSE respawn[a]]
        /\ circuit' = [a \in Agent |-> IF a \in dead THEN mark_spawn_failed(circuit[a]) ELSE circuit[a]]
        /\ idle' = idle \cup alive
        /\ sessions' = [a \in Agent |-> IF a \in alive THEN {} ELSE sessions[a]]
        /\ UNCHANGED <<task, removed_channels>> /\ pc' # "exited"
    BY <1>3 DEF CollectRespawns
  <2>2. \A a \in Agent : mark_spawn_failed(circuit[a]).open_until = "open"
    BY <1>1, CircuitSteps
  <2>3. NoSlotOverwrite'
    BY <1>1, <2>1 DEF SlotInv, NoSlotOverwrite
  <2>4. SessionsStripped'
    BY <1>1, <2>1 DEF SlotInv, SessionsStripped
  <2>5. DeadSlotOpen'
    BY <1>1, <2>1, <2>2 DEF SlotInv, DeadSlotOpen
  <2>6. QED
    BY <2>1, <2>3, <2>4, <2>5 DEF SlotInv, ExitJustified
<1>4. ASSUME NEW a \in Agent, RespawnEnds(a)
      PROVE  SlotInv'
  <2>1. /\ respawn[a] # "none" /\ respawn'[a] # "none"
        /\ \A b \in Agent : b # a => respawn'[b] = respawn[b]
        /\ UNCHANGED <<idle, sessions, task, circuit, removed_channels, pc>> /\ pc # "exited"
    BY <1>1, <1>4 DEF RespawnEnds, poolVars
  <2>2. QED
    BY <2>1 DEF SlotInv, NoSlotOverwrite, SessionsStripped, DeadSlotOpen, ExitJustified
<1>5. ASSUME NEW a \in Agent, CircuitCools(a)
      PROVE  SlotInv'
  <2>1. /\ circuit'[a].open_until = "cooled"
        /\ \A b \in Agent : b # a => circuit'[b] = circuit[b]
        /\ UNCHANGED <<idle, sessions, task, respawn, removed_channels, pc>> /\ pc # "exited"
    BY <1>1, <1>5, CircuitSteps DEF CircuitCools, timeFrame
  <2>2. QED
    BY <2>1 DEF SlotInv, NoSlotOverwrite, SessionsStripped, DeadSlotOpen, ExitJustified
<1>6. QED
  BY <1>2, <1>3, <1>4, <1>5

\* A turn changes only the sessions of the agent that is away with it.
LEMMA TurnSlots ==
  ASSUME Inv, SlotInv, NEW a \in Agent, Turn(a)
  PROVE  SlotInv'
<1>1. /\ idle \subseteq Agent /\ task \in [Agent -> Task] /\ sessions \in [Agent -> SUBSET Scope]
  BY DEF Inv, TypeOK
<1>2. PICK phase, out, b, kept : /\ phase \in {"returned", "panicked"}
                                 /\ TurnEnds(a, phase, out, b, kept)
  BY DEF Turn, TurnSucceeds, TurnFails, TurnCancelled, TurnPanics
<1>3. task[a].phase = "running" /\ pc # "exited"
  BY DEF Turn, TurnSucceeds, TurnFails, TurnCancelled, TurnPanics
<1>4. /\ task' = [task EXCEPT ![a].phase = phase, ![a].outcome = out, ![a].batch = b]
      /\ sessions' = [sessions EXCEPT ![a] = kept]
      /\ UNCHANGED <<idle, respawn, circuit, removed_channels, pc>>
  BY <1>2 DEF TurnEnds, slotVars
<1>5. /\ task'[a].phase = phase
      /\ \A c \in Agent : c # a => task'[c] = task[c] /\ sessions'[c] = sessions[c]
  BY <1>1, <1>4 DEF Task
<1>6. a \notin idle /\ respawn[a] = "none"
  BY <1>3 DEF SlotInv, NoSlotOverwrite
<1>7. QED
  BY <1>2, <1>1, <1>3, <1>4, <1>5, <1>6 DEF SlotInv, NoSlotOverwrite, SessionsStripped, DeadSlotOpen,
     ExitJustified

\* Every step of the harness preserves the slot invariant.
LEMMA NextSlots == Inv /\ SlotInv /\ [Next]_vars => SlotInv'
<1> SUFFICES ASSUME Inv, SlotInv, [Next]_vars PROVE SlotInv'
  OBVIOUS
<1>1. CASE MainLoop
  BY <1>1, DispatchSlots, PoolSlots, RespawnSlots DEF MainLoop
<1>2. CASE Environment
  BY <1>2, EnvironmentSlots
<1>3. CASE \E a \in Agent : Turn(a) \/ RespawnEnds(a)
  BY <1>3, TurnSlots, RespawnSlots
<1>4. CASE \E st \in steers : SteerTaken(st) \/ SteerAnswered(st)
  BY <1>4, SlotsKept DEF SteerTaken, SteerAnswered, steerFrame, poolVars, slotVars
<1>5. CASE Time
  BY <1>5, SlotsKept, RespawnSlots DEF Time, ThrottleElapses, DeadlineElapses, HoldElapses, timeFrame
<1>6. CASE UNCHANGED vars
  BY <1>6 DEF vars, SlotInv, NoSlotOverwrite, SessionsStripped, DeadSlotOpen, ExitJustified
<1>7. QED
  BY <1>1, <1>2, <1>3, <1>4, <1>5, <1>6 DEF Next

\* The slot invariant holds when the harness starts.
LEMMA InitSlots == Init => SlotInv
  BY DEF Init, NoTask, Closed, SlotInv, NoSlotOverwrite, SessionsStripped, DeadSlotOpen,
     ExitJustified

\* The slot invariant holds in every reachable state.
LEMMA SlotInvHolds == Spec => []SlotInv
  BY InitSlots, NextSlots, InvHolds, PTL DEF Spec

\* return_agent never finds its slot occupied: for every number of agents, a
\* slot's agent is idle, on a turn, or being respawned, and never two of them.
THEOREM SlotsNeverOverwritten == Spec => []NoSlotOverwrite
<1>1. SlotInv => NoSlotOverwrite
  BY DEF SlotInv
<1>2. QED
  BY <1>1, SlotInvHolds, PTL

\* An agent in the pool never has a session of a channel it was removed from,
\* wherever it was when the removal was handled.
THEOREM RemovedSessionsStripped == Spec => []SessionsStripped
<1>1. SlotInv => SessionsStripped
  BY DEF SlotInv
<1>2. QED
  BY <1>1, SlotInvHolds, PTL

\* "All agents dead" is true: the harness exits only when no respawn is under way
\* and the breaker of every slot has opened, or its agent failed to start and was
\* not tried again yet.
THEOREM ExitIsJustified == Spec => []ExitJustified
<1>1. SlotInv => ExitJustified
  BY DEF SlotInv
<1>2. QED
  BY <1>1, SlotInvHolds, PTL

-----------------------------------------------------------------------------
(* Deadlines.                                                              *)

\* InFlightArmed, of any queue.
Armed(Q) == \A s \in Scope : s \in Q.in_flight <=> Q.deadlines[s] # "none"

\* Armed looks at the in-flight marks and the deadlines only.
LEMMA ArmedSame ==
  ASSUME NEW Q, NEW R, Armed(Q), SameTurns(Q, R)
  PROVE  Armed(R)
  BY DEF Armed, SameTurns

\* Expiry removes a mark together with its deadline.
LEMMA ArmedExpire ==
  ASSUME NEW Q \in QueueType, Armed(Q)
  PROVE  expire(Q) \in QueueType /\ Armed(expire(Q))
<1> DEFINE R == expire(Q)
           due == {s \in Scope : Q.deadlines[s] = "due"}
<1>1. /\ R \in QueueType
      /\ R.in_flight = Q.in_flight \ due
      /\ R.deadlines = [s \in Scope |-> IF s \in due THEN "none" ELSE Q.deadlines[s]]
  BY ExpireType
<1> HIDE DEF R
<1>2. Armed(R)
  BY <1>1 DEF Armed
<1>3. QED
  BY <1>1, <1>2 DEF R

\* flush_next sets a mark together with its deadline.
LEMMA ArmedFlush ==
  ASSUME NEW Q \in QueueType, Armed(Q), NEW s \in Scope
  PROVE  Armed(flush_next(Q, s))
<1> DEFINE R == flush_next(Q, s)
<1>1. R.in_flight = Q.in_flight \cup {s} /\ R.deadlines = [Q.deadlines EXCEPT ![s] = "armed"]
  BY FlushNextType
<1> HIDE DEF R
<1>2. Armed(R)
  BY <1>1 DEF Armed, QueueType
<1>3. QED
  BY <1>2 DEF R

\* Returning a batch removes its mark together with its deadline.
LEMMA ArmedReturn ==
  ASSUME NEW Q \in QueueType, Armed(Q), NEW b \in FlushBatch
  PROVE  Armed(ReturnBatch(Q, b))
<1> DEFINE R == ReturnBatch(Q, b)
<1>1. R.in_flight = Q.in_flight \ {b.scope} /\ R.deadlines = [Q.deadlines EXCEPT ![b.scope] = "none"]
  BY ReturnBatchType
<1> HIDE DEF R
<1>2. Armed(R)
  BY <1>1 DEF Armed, QueueType
<1>3. QED
  BY <1>2 DEF R

\* mark_complete removes a mark together with its deadline.
LEMMA ArmedCompleted ==
  ASSUME Inv, Armed(q), NEW a \in Agent, NEW out,
         q' = Completed(Restored(q, out, task[a].batch), task[a].scope)
  PROVE  Armed(q')
<1>1. /\ q'.in_flight = q.in_flight \ {task[a].scope}
      /\ q'.deadlines = [t \in Scope |-> IF t = task[a].scope THEN "none" ELSE q.deadlines[t]]
  BY RestoredCompleted
<1>2. QED
  BY <1>1 DEF Armed

\* Every step of the harness keeps marks and deadlines together.
LEMMA NextArmed == Inv /\ Armed(q) /\ [Next]_vars => Armed(q')
<1> SUFFICES ASSUME Inv, Armed(q), [Next]_vars PROVE Armed(q')
  OBVIOUS
<1>1. q \in QueueType /\ expire(q) \in QueueType /\ Armed(expire(q))
  BY ArmedExpire DEF Inv, TypeOK
<1>2. CASE DispatchHold \/ DispatchClaim
  <2>1. PICK s \in flush_choice(expire(q)) : q' = flush_next(expire(q), s)
    BY <1>2 DEF DispatchHold, DispatchClaim
  <2>2. s \in Scope
    BY FlushChoiceFree
  <2>3. QED
    BY <1>1, <2>1, <2>2, ArmedFlush
<1>3. CASE DispatchExhausted
  <2>1. PICK s \in flush_choice(expire(q)) :
          q' = ReturnBatch(flush_next(expire(q), s), flushed_batch(expire(q), s))
    BY <1>3 DEF DispatchExhausted
  <2>2. s \in Scope
    BY FlushChoiceFree
  <2>3. /\ flush_next(expire(q), s) \in QueueType /\ Armed(flush_next(expire(q), s))
        /\ flushed_batch(expire(q), s) \in FlushBatch
    BY <1>1, <2>2, ArmedFlush, FlushNextType
  <2>4. QED
    BY <2>1, <2>3, ArmedReturn
<1>4. CASE DispatchDone \/ HeartbeatTick
  BY <1>1, <1>4 DEF DispatchDone, HeartbeatTick
<1>5. CASE ReleaseHeld
  <2>1. Head(held) \in FlushBatch
    BY <1>5, HeadTailProperties DEF ReleaseHeld, Inv, TypeOK, ReleaseHasHeld
  <2>2. QED
    BY <1>1, <1>5, <2>1, ArmedReturn DEF ReleaseHeld
<1>6. ASSUME NEW s \in Scope, NEW from_owner \in BOOLEAN, RelayEvent(s, from_owner)
      PROVE  Armed(q')
  <2> DEFINE e == arrived + 1
             sig == mode_gate_signal(from_owner)
  <2>1. e \in Event
    BY <1>6 DEF RelayEvent
  <2>2. push(q, s, e) \in QueueType /\ Armed(push(q, s, e))
    BY <1>1, <2>1, PushType, ArmedSame
  <2>3. CASE steer_or_interrupt(push(q, s, e), s, e, sig)
    <3>1. q' = push(q, s, e) \/ q' = mark_native_steer_pending(push(q, s, e), s, e)
      BY <2>3 DEF steer_or_interrupt
    <3>2. QED
      BY <2>1, <2>2, <3>1, MarkSteerType, ArmedSame
  <2>4. CASE q' = push(q, s, e) \/ q' = q
    BY <2>2, <2>4
  <2>5. QED
    BY <1>6, <2>3, <2>4 DEF RelayEvent
<1>7. ASSUME NEW ch \in Channel, MemberRemoved(ch)
      PROVE  Armed(q')
  BY <1>1, <1>7, DrainChannelType, ArmedSame DEF MemberRemoved
<1>8. ASSUME NEW a \in Agent, PromptResult(a) \/ RecoverPanicked(a)
      PROVE  Armed(q')
  BY <1>8, ArmedCompleted DEF PromptResult, RecoverPanicked
<1>9. ASSUME NEW st \in steers, SteerAcked(st)
      PROVE  Armed(q')
  <2>1. st.scope \in Scope /\ st.event \in Event
    BY DEF Inv, TypeOK, Steer
  <2>2. CASE q' = remove_event(extend_in_flight_deadline(q, st.scope), st.scope, st.event)
    <3> DEFINE R == extend_in_flight_deadline(q, st.scope)
    <3>1. R \in QueueType /\ R.in_flight = q.in_flight
          /\ \A t \in Scope : R.deadlines[t] = "none" <=> q.deadlines[t] = "none"
      BY <1>1, <2>1, ExtendType
    <3> HIDE DEF R
    <3>2. Armed(R)
      BY <3>1 DEF Armed
    <3>3. QED
      BY <2>1, <2>2, <3>1, <3>2, RemoveEventType, ArmedSame DEF R
  <2>3. CASE q' = release_native_steer(q, st.scope, st.event)
    BY <1>1, <2>1, <2>3, ReleaseSteerType, ArmedSame
  <2>4. QED
    BY <1>9, <2>2, <2>3 DEF SteerAcked
<1>10. CASE Maintenance
  BY <1>1, <1>10, CompactType, ArmedSame, ArmedExpire DEF Maintenance
<1>11. ASSUME NEW s \in Scope, ThrottleElapses(s) \/ DeadlineElapses(s)
       PROVE  Armed(q')
  <2>1. CASE ThrottleElapses(s)
    <3>1. SameTurns(q, q')
      BY <1>1, <2>1 DEF ThrottleElapses, SameTurns, QueueType
    <3>2. QED
      BY <3>1, ArmedSame
  <2>2. CASE DeadlineElapses(s)
    <3>1. /\ q'.in_flight = q.in_flight /\ q.deadlines[s] = "armed"
          /\ q'.deadlines = [q.deadlines EXCEPT ![s] = "due"]
      BY <1>1, <2>2 DEF DeadlineElapses, QueueType
    <3>2. QED
      BY <1>1, <3>1 DEF Armed, QueueType
  <2>3. QED
    BY <1>11, <2>1, <2>2
<1>12. CASE UNCHANGED q
  BY <1>12
<1>13. CASE MainLoop
  BY <1>2, <1>3, <1>4, <1>5, <1>8, <1>9, <1>10, <1>12, <1>13
     DEF MainLoop, DrainDone, CollectRespawns, queueVars
<1>14. CASE Environment
  BY <1>4, <1>6, <1>7, <1>12, <1>14
     DEF Environment, OwnerCommand, MemberAdded, TimerTick, queueVars
<1>15. CASE Time
  BY <1>11, <1>12, <1>15 DEF Time, HoldElapses, CircuitCools
<1>16. CASE \/ \E a \in Agent : Turn(a) \/ RespawnEnds(a)
            \/ \E st \in steers : SteerTaken(st) \/ SteerAnswered(st)
  BY <1>12, <1>16 DEF Turn, TurnSucceeds, TurnFails, TurnCancelled, TurnPanics, TurnEnds,
     RespawnEnds, queueVars, SteerTaken, SteerAnswered, steerFrame
<1>17. QED
  BY <1>12, <1>13, <1>14, <1>15, <1>16 DEF Next, vars

\* A scope in flight always has a deadline and a deadline always has its turn,
\* so the backstop of the queue can release whatever gets stuck, and nothing else.
THEOREM InFlightAlwaysArmed == Spec => []InFlightArmed
<1>1. Init => Armed(q)
  BY DEF Init, new, Armed
<1>2. Armed(q) => InFlightArmed
  BY DEF Armed, InFlightArmed
<1>3. Spec => []Armed(q)
  <2>1. Inv /\ Armed(q) /\ [Next]_vars => Armed(q)'
    BY NextArmed DEF Armed
  <2>2. QED
    BY <1>1, <2>1, InvHolds, PTL DEF Spec
<1>4. QED
  BY <1>2, <1>3, PTL

-----------------------------------------------------------------------------
(* One turn per scope, as long as no turn outlives its deadline.           *)

\* No deadline is past: the backstop has nothing to do.
NoDue == \A s \in Scope : q.deadlines[s] # "due"

TurnInv == OneTurnPerScope /\ NoDue

\* Without a deadline that is due, expiry changes nothing.
LEMMA NothingExpires ==
  ASSUME Inv, NoDue
  PROVE  expire(q) = q /\ q \in QueueType
<1>1. {s \in Scope : q.deadlines[s] = "due"} = {}
  BY DEF NoDue
<1>2. QED
  BY <1>1, ExpireType DEF Inv, TypeOK

\* Steps that leave the marks, the scopes of the tasks and the held batches alone.
LEMMA TurnsKept ==
  ASSUME TurnInv, SameTurns(q, q'), UNCHANGED held,
         \A a \in Agent : /\ task'[a].scope = task[a].scope
                          /\ task'[a].phase = "none" <=> task[a].phase = "none"
  PROVE  TurnInv'
<1>1. LiveTasks' = LiveTasks
  BY DEF LiveTasks
<1>2. \A a \in LiveTasks : a \in Agent
  BY DEF LiveTasks
<1>3. OneTurnPerScope'
  BY <1>1, <1>2 DEF TurnInv, OneTurnPerScope, SameTurns
<1>4. QED
  BY <1>3 DEF TurnInv, NoDue, SameTurns

\* A batch is flushed for a scope that has no turn: it is held, or it becomes the
\* only turn of its scope.
LEMMA DispatchTurns ==
  ASSUME Inv, SlotInv, TurnInv, DispatchHold \/ DispatchClaim
  PROVE  TurnInv'
<1>1. expire(q) = q /\ q \in QueueType
  BY NothingExpires DEF TurnInv
<1>2. /\ task \in [Agent -> Task] /\ held \in Seq(FlushBatch) /\ idle \subseteq Agent
  BY DEF Inv, TypeOK
<1>3. ASSUME NEW s \in flush_choice(q), q' = flush_next(q, s)
      PROVE  /\ s \in Scope /\ s \notin q.in_flight /\ s # Heartbeat
             /\ q'.in_flight = q.in_flight \cup {s} /\ NoDue'
             /\ flushed_batch(q, s) \in FlushBatch /\ flushed_batch(q, s).scope = s
  <2>1. s \in Scope /\ s \notin q.in_flight
    BY FlushChoiceFree
  <2>2. /\ q'.in_flight = q.in_flight \cup {s}
        /\ q'.deadlines = [q.deadlines EXCEPT ![s] = "armed"]
        /\ flushed_batch(q, s) \in FlushBatch /\ flushed_batch(q, s).scope = s
    BY <1>1, <1>3, <2>1, FlushNextType
  <2>3. NoDue'
    BY <1>1, <2>2 DEF TurnInv, NoDue, QueueType
  <2>4. QED
    BY <2>1, <2>2, <2>3, HarnessAssumption
<1>4. CASE DispatchHold
  <2>1. PICK s \in flush_choice(q) :
          held' = Append(held, flushed_batch(q, s)) /\ q' = flush_next(q, s)
    BY <1>1, <1>4 DEF DispatchHold
  <2> DEFINE b == flushed_batch(q, s)
             n == Len(held)
  <2>2. /\ s \in Scope /\ s \notin q.in_flight
        /\ q'.in_flight = q.in_flight \cup {s} /\ NoDue' /\ b \in FlushBatch /\ b.scope = s
    BY <1>3, <2>1
  <2> HIDE DEF b
  <2>3. /\ n \in Nat /\ DOMAIN held = 1..n /\ DOMAIN held' = 1..(n + 1)
        /\ held'[n + 1] = b /\ \A i \in 1..n : held'[i] = held[i]
    BY <1>2, <2>1, <2>2, AppendProperties, LenProperties DEF b
  <2>4. UNCHANGED task /\ LiveTasks' = LiveTasks
    BY <1>4 DEF DispatchHold, LiveTasks
  <2> HIDE DEF n
  <2>5. OneTurnPerScope'
    <3>1. \A a \in LiveTasks : task[a].scope \in q.in_flight
      BY DEF TurnInv, OneTurnPerScope
    <3>2. \A i \in 1..n : held[i].scope \in q.in_flight
      BY <2>3 DEF TurnInv, OneTurnPerScope
    <3>3. \A i \in DOMAIN held' : i \in 1..n \/ (i = n + 1 /\ held'[i].scope = s)
      BY <2>2, <2>3
    <3>4. q'.in_flight = {task'[a].scope : a \in LiveTasks'} \cup {held'[i].scope : i \in DOMAIN held'}
      <4>1. {held'[i].scope : i \in DOMAIN held'} = {held[i].scope : i \in DOMAIN held} \cup {s}
        BY <2>2, <2>3
      <4>2. {task'[a].scope : a \in LiveTasks'} = {task[a].scope : a \in LiveTasks}
        BY <2>4
      <4>3. q.in_flight = {task[a].scope : a \in LiveTasks} \cup {held[i].scope : i \in DOMAIN held}
        BY DEF TurnInv, OneTurnPerScope
      <4>4. QED
        BY <2>2, <4>1, <4>2, <4>3
    <3>5. \A i, j \in DOMAIN held' : held'[i].scope = held'[j].scope => i = j
      BY <2>2, <2>3, <3>2, <3>3 DEF TurnInv, OneTurnPerScope
    <3>6. \A a \in LiveTasks', i \in DOMAIN held' : task'[a].scope # held'[i].scope
      BY <2>2, <2>3, <2>4, <3>1, <3>3 DEF TurnInv, OneTurnPerScope
    <3>7. QED
      BY <2>4, <3>4, <3>5, <3>6 DEF TurnInv, OneTurnPerScope
  <2>6. QED
    BY <2>2, <2>5 DEF TurnInv
<1>5. CASE DispatchClaim
  <2>1. PICK s \in flush_choice(q) :
          /\ task' = [task EXCEPT ![try_claim(s)] =
               [scope |-> s, batch |-> flushed_batch(q, s), phase |-> "running",
                outcome |-> "ok", control |-> "armed"]]
          /\ q' = flush_next(q, s)
    BY <1>1, <1>5 DEF DispatchClaim
  <2> DEFINE a == try_claim(s)
  <2>2. /\ s \in Scope /\ s \notin q.in_flight /\ s # Heartbeat
        /\ q'.in_flight = q.in_flight \cup {s} /\ NoDue'
    BY <1>3, <2>1
  <2>3. a \in idle /\ a \in Agent
    BY <1>2, <1>5, ClaimInIdle DEF DispatchClaim
  <2>4. /\ task'[a].scope = s /\ task'[a].phase = "running"
        /\ \A c \in Agent : c # a => task'[c] = task[c]
    BY <1>2, <2>1, <2>3
  <2> HIDE DEF a
  <2>5. UNCHANGED held /\ task[a].phase = "none"
    BY <1>5, <2>3 DEF DispatchClaim, SlotInv, NoSlotOverwrite
  <2>6. LiveTasks' = LiveTasks \cup {a} /\ a \notin LiveTasks
    BY <2>2, <2>3, <2>4, <2>5 DEF LiveTasks
  <2>7. OneTurnPerScope'
    <3>1. \A c \in LiveTasks : task'[c] = task[c] /\ task[c].scope \in q.in_flight
      BY <2>4, <2>6 DEF LiveTasks, TurnInv, OneTurnPerScope
    <3>2. \A i \in DOMAIN held : held[i].scope \in q.in_flight
      BY DEF TurnInv, OneTurnPerScope
    <3>3. {task'[c].scope : c \in LiveTasks'} = {task[c].scope : c \in LiveTasks} \cup {s}
      BY <2>4, <2>6, <3>1
    <3>4. QED
      BY <2>2, <2>4, <2>5, <2>6, <3>1, <3>2, <3>3 DEF TurnInv, OneTurnPerScope
  <2>8. QED
    BY <2>2, <2>7 DEF TurnInv
<1>6. QED
  BY <1>4, <1>5

\* The end of the dispatch loop.
LEMMA DispatchEndsTurns ==
  ASSUME Inv, TurnInv, DispatchExhausted \/ DispatchDone \/ ReleaseHeld
  PROVE  TurnInv'
<1>1. expire(q) = q /\ q \in QueueType
  BY NothingExpires DEF TurnInv
<1>2. CASE DispatchDone
  BY <1>1, <1>2, TurnsKept DEF DispatchDone, SameTurns
<1>3. CASE DispatchExhausted
  <2>1. PICK s \in flush_choice(q) : q' = ReturnBatch(flush_next(q, s), flushed_batch(q, s))
    BY <1>1, <1>3 DEF DispatchExhausted
  <2>2. s \in Scope /\ s \notin q.in_flight
    BY FlushChoiceFree
  <2> DEFINE R == flush_next(q, s)
             b == flushed_batch(q, s)
  <2>3. /\ R \in QueueType /\ b \in FlushBatch /\ b.scope = s
        /\ R.in_flight = q.in_flight \cup {s}
        /\ R.deadlines = [q.deadlines EXCEPT ![s] = "armed"]
    BY <1>1, <2>2, FlushNextType
  <2> HIDE DEF R, b
  <2>4. /\ q'.in_flight = R.in_flight \ {s}
        /\ q'.deadlines = [R.deadlines EXCEPT ![s] = "none"]
    BY <2>1, <2>3, ReturnBatchType DEF R, b
  <2>5. q'.in_flight = q.in_flight /\ NoDue'
    BY <1>1, <2>2, <2>3, <2>4 DEF TurnInv, NoDue, QueueType
  <2>6. UNCHANGED <<task, held>>
    BY <1>3 DEF DispatchExhausted
  <2>7. QED
    BY <2>5, <2>6 DEF TurnInv, OneTurnPerScope, LiveTasks
<1>4. CASE ReleaseHeld
  <2> DEFINE s == Head(held).scope
             n == Len(held)
  <2>1. held \in Seq(FlushBatch) /\ held # <<>>
    BY <1>4 DEF ReleaseHeld, Inv, TypeOK, ReleaseHasHeld
  <2>2. Head(held) \in FlushBatch /\ s \in Scope
    <3>1. Head(held) \in FlushBatch
      BY <2>1, HeadTailProperties
    <3>2. QED
      BY <3>1 DEF FlushBatch
  <2>3. /\ n \in Nat \ {0} /\ DOMAIN held = 1..n /\ held[1] = Head(held)
        /\ held' = Tail(held) /\ DOMAIN held' = 1..(n - 1)
        /\ \A i \in 1..(n - 1) : held'[i] = held[i + 1]
    BY <1>4, <2>1, HeadTailProperties, LenProperties, EmptySeq DEF ReleaseHeld
  <2>4. q'.in_flight = q.in_flight \ {s} /\ q'.deadlines = [q.deadlines EXCEPT ![s] = "none"]
    BY <1>1, <1>4, <2>2, ReturnBatchType DEF ReleaseHeld
  <2>5. UNCHANGED task /\ LiveTasks' = LiveTasks
    BY <1>4 DEF ReleaseHeld, LiveTasks
  <2>6. NoDue'
    BY <1>1, <2>2, <2>4 DEF TurnInv, NoDue, QueueType
  <2> HIDE DEF n
  <2>7. OneTurnPerScope'
    <3>1. s = held[1].scope /\ 1 \in 1..n
      BY <2>3
    <3> HIDE DEF s
    <3>2. {held'[i].scope : i \in DOMAIN held'} = {held[i].scope : i \in DOMAIN held} \ {s}
      <4>1. \A i \in 2..n : held[i].scope # s
        BY <2>3, <3>1 DEF TurnInv, OneTurnPerScope
      <4>2. \A i \in 1..(n - 1) : i + 1 \in 2..n /\ held'[i] = held[i + 1]
        BY <2>3
      <4>3. \A i \in 2..n : i - 1 \in 1..(n - 1) /\ held'[i - 1] = held[i]
        BY <2>3
      <4>4. \A i \in 1..n : i = 1 \/ i \in 2..n
        BY <2>3
      <4>5. ASSUME NEW x \in {held'[i].scope : i \in DOMAIN held'}
            PROVE  x \in {held[i].scope : i \in DOMAIN held} \ {s}
        <5>1. PICK i \in 1..(n - 1) : x = held'[i].scope
          BY <2>3
        <5>2. i + 1 \in 2..n /\ i + 1 \in 1..n /\ x = held[i + 1].scope
          BY <2>3, <4>2, <5>1
        <5>3. QED
          BY <2>3, <4>1, <5>2
      <4>6. ASSUME NEW x \in {held[i].scope : i \in DOMAIN held} \ {s}
            PROVE  x \in {held'[i].scope : i \in DOMAIN held'}
        <5>1. PICK i \in 2..n : x = held[i].scope
          BY <2>3, <3>1, <4>4
        <5>2. i - 1 \in 1..(n - 1) /\ x = held'[i - 1].scope
          BY <4>3, <5>1
        <5>3. QED
          BY <2>3, <5>2
      <4>7. QED
        BY <4>5, <4>6
    <3>3. s \notin {task[a].scope : a \in LiveTasks}
      BY <2>3, <3>1 DEF TurnInv, OneTurnPerScope
    <3>4. q'.in_flight = {task'[a].scope : a \in LiveTasks'} \cup {held'[i].scope : i \in DOMAIN held'}
      <4>1. {task'[a].scope : a \in LiveTasks'} = {task[a].scope : a \in LiveTasks}
        BY <2>5
      <4>2. q.in_flight = {task[a].scope : a \in LiveTasks} \cup {held[i].scope : i \in DOMAIN held}
        BY DEF TurnInv, OneTurnPerScope
      <4>3. QED
        BY <2>4, <3>2, <3>3, <4>1, <4>2
    <3>5. \A i \in DOMAIN held' : i + 1 \in DOMAIN held /\ held'[i] = held[i + 1]
      BY <2>3
    <3>6. \A i, j \in DOMAIN held' : held'[i].scope = held'[j].scope => i = j
      BY <2>3, <3>5 DEF TurnInv, OneTurnPerScope
    <3>7. \A a \in LiveTasks', i \in DOMAIN held' : task'[a].scope # held'[i].scope
      BY <2>5, <3>5 DEF TurnInv, OneTurnPerScope
    <3>8. QED
      BY <2>5, <3>4, <3>6, <3>7 DEF TurnInv, OneTurnPerScope
  <2>8. QED
    BY <2>6, <2>7 DEF TurnInv
<1>5. QED
  BY <1>2, <1>3, <1>4

\* A turn's result clears the mark of its own scope and of no other.
LEMMA CompletionTurns ==
  ASSUME Inv, TurnInv, NEW a \in Agent, task[a].phase # "none", NEW out,
         q' = Completed(Restored(q, out, task[a].batch), task[a].scope),
         task' = [task EXCEPT ![a] = NoTask], UNCHANGED held
  PROVE  TurnInv'
<1> DEFINE s == task[a].scope
<1>1. /\ q'.in_flight = q.in_flight \ {s}
      /\ q'.deadlines = [t \in Scope |-> IF t = s THEN "none" ELSE q.deadlines[t]]
  BY RestoredCompleted
<1>2. NoDue'
  BY <1>1 DEF TurnInv, NoDue
<1>3. task'[a].phase = "none" /\ \A c \in Agent : c # a => task'[c] = task[c]
  BY DEF Inv, TypeOK, NoTask
<1>4. LiveTasks' = LiveTasks \ {a} /\ (s # Heartbeat => a \in LiveTasks)
  BY <1>3 DEF LiveTasks
<1>5. \A c \in LiveTasks' : c \in LiveTasks /\ task'[c] = task[c] /\ task[c].scope # s
  BY <1>3, <1>4 DEF LiveTasks, TurnInv, OneTurnPerScope
<1>6. \A i \in DOMAIN held : held[i].scope # s
  <2>1. CASE s = Heartbeat
    <3>1. \A i \in DOMAIN held : held[i] \in FlushBatch
      BY ElementOfSeq, LenProperties DEF Inv, TypeOK
    <3>2. QED
      BY <2>1, <3>1, HarnessAssumption DEF FlushBatch
  <2>2. CASE s # Heartbeat
    BY <1>4, <2>2 DEF TurnInv, OneTurnPerScope
  <2>3. QED
    BY <2>1, <2>2
<1>7. {task'[c].scope : c \in LiveTasks'} = {task[c].scope : c \in LiveTasks} \ {s}
  BY <1>4, <1>5
<1>8. q'.in_flight = {task'[c].scope : c \in LiveTasks'} \cup {held'[i].scope : i \in DOMAIN held'}
  BY <1>1, <1>6, <1>7 DEF TurnInv, OneTurnPerScope
<1>9. QED
  BY <1>2, <1>4, <1>5, <1>8 DEF TurnInv, OneTurnPerScope

\* Every step of the harness keeps one turn per scope if no turn overruns.
LEMMA NextTurns == Inv /\ SlotInv /\ TurnInv /\ ~TurnOverrun /\ [Next]_vars => TurnInv'
<1> SUFFICES ASSUME Inv, SlotInv, TurnInv, ~TurnOverrun, [Next]_vars PROVE TurnInv'
  OBVIOUS
<1>1. /\ expire(q) = q /\ q \in QueueType /\ task \in [Agent -> Task] /\ idle \subseteq Agent
  BY NothingExpires DEF TurnInv, Inv, TypeOK
<1>2. SameTurns(q, q)
  BY DEF SameTurns
<1>3. ASSUME NEW s \in Scope, NEW from_owner \in BOOLEAN, RelayEvent(s, from_owner)
      PROVE  TurnInv'
  <2> DEFINE e == arrived + 1
             sig == mode_gate_signal(from_owner)
  <2>1. e \in Event /\ UNCHANGED held
    BY <1>3 DEF RelayEvent
  <2>2. push(q, s, e) \in QueueType /\ SameTurns(q, push(q, s, e))
    BY <1>1, <2>1, PushType
  <2>3. CASE steer_or_interrupt(push(q, s, e), s, e, sig)
    <3>1. \/ q' = push(q, s, e)
          \/ q' = mark_native_steer_pending(push(q, s, e), s, e)
      BY <2>3 DEF steer_or_interrupt
    <3>2. SameTurns(q, q')
      BY <2>1, <2>2, <3>1, MarkSteerType DEF SameTurns
    <3>3. \A a \in Agent : task'[a].phase = task[a].phase /\ task'[a].scope = task[a].scope
      BY <2>3, SignalKeepsPhase DEF steer_or_interrupt
    <3>4. QED
      BY <2>1, <3>2, <3>3, TurnsKept
  <2>4. CASE (q' = push(q, s, e) \/ q' = q) /\ UNCHANGED task
    BY <1>2, <2>1, <2>2, <2>4, TurnsKept
  <2>5. QED
    BY <1>3, <2>3, <2>4 DEF RelayEvent
<1>4. ASSUME NEW s \in Scope, NEW sig \in {"cancel", "rotate"}, OwnerCommand(s, sig)
      PROVE  TurnInv'
  BY <1>2, <1>4, SignalKeepsPhase, TurnsKept DEF OwnerCommand
<1>5. ASSUME NEW ch \in Channel, MemberRemoved(ch)
      PROVE  TurnInv'
  BY <1>1, <1>5, DrainChannelType, TurnsKept DEF MemberRemoved
<1>6. ASSUME NEW a \in Agent, PromptResult(a) \/ RecoverPanicked(a)
      PROVE  TurnInv'
  BY <1>6, CompletionTurns DEF PromptResult, RecoverPanicked
<1>7. ASSUME NEW st \in steers, SteerAcked(st)
      PROVE  TurnInv'
  <2>1. st.scope \in Scope /\ st.event \in Event /\ UNCHANGED held
    BY <1>7 DEF Inv, TypeOK, Steer, SteerAcked
  <2>2. \A a \in Agent : task'[a].phase = task[a].phase /\ task'[a].scope = task[a].scope
    BY <1>7, SignalKeepsPhase DEF SteerAcked
  <2>3. CASE q' = remove_event(extend_in_flight_deadline(q, st.scope), st.scope, st.event)
    <3> DEFINE R == extend_in_flight_deadline(q, st.scope)
    <3>1. R \in QueueType /\ R.in_flight = q.in_flight
          /\ \A t \in Scope : R.deadlines[t] = "due" => q.deadlines[t] = "due"
      BY <1>1, <2>1, ExtendType
    <3>2. SameTurns(R, q')
      BY <2>1, <2>3, <3>1, RemoveEventType
    <3> HIDE DEF R
    <3>3. q'.in_flight = q.in_flight /\ NoDue'
      BY <3>1, <3>2 DEF SameTurns, TurnInv, NoDue
    <3>4. LiveTasks' = LiveTasks
      BY <2>2 DEF LiveTasks
    <3>5. \A c \in LiveTasks : task'[c].scope = task[c].scope
      BY <2>2 DEF LiveTasks
    <3>6. {task'[c].scope : c \in LiveTasks'} = {task[c].scope : c \in LiveTasks}
      BY <3>4, <3>5
    <3>7. QED
      BY <2>1, <3>3, <3>4, <3>5, <3>6 DEF TurnInv, OneTurnPerScope
  <2>4. CASE q' = release_native_steer(q, st.scope, st.event)
    BY <1>1, <2>1, <2>2, <2>4, ReleaseSteerType, TurnsKept
  <2>5. QED
    BY <1>7, <2>3, <2>4 DEF SteerAcked
<1>8. CASE Maintenance
  <2>1. compact_expired_state(q) \in QueueType /\ SameTurns(q, compact_expired_state(q))
    BY <1>1, CompactType
  <2>2. {s \in Scope : compact_expired_state(q).deadlines[s] = "due"} = {}
    BY <2>1 DEF SameTurns, TurnInv, NoDue
  <2>3. q' = compact_expired_state(q)
    BY <1>8, <2>1, <2>2, ExpireType DEF Maintenance
  <2>4. QED
    BY <1>8, <2>1, <2>3, TurnsKept DEF Maintenance
<1>9. CASE HeartbeatTick
  <2>1. SameTurns(q, q') /\ UNCHANGED held
    BY <1>1, <1>2, <1>9 DEF HeartbeatTick
  <2>2. CASE UNCHANGED task
    BY <2>1, <2>2, TurnsKept
  <2>3. CASE idle # {} /\ task' = [task EXCEPT ![Least(idle)] = [NoTask EXCEPT !.phase = "running"]]
    <3> DEFINE a == Least(idle)
    <3>1. a \in Agent /\ task[a].phase = "none"
      BY <1>1, <2>3, LeastIn DEF SlotInv, NoSlotOverwrite
    <3>2. task'[a].scope = Heartbeat /\ \A c \in Agent : c # a => task'[c] = task[c]
      BY <1>1, <2>3, <3>1 DEF NoTask
    <3> HIDE DEF a
    <3>3. LiveTasks' = LiveTasks /\ \A c \in LiveTasks : task'[c] = task[c]
      BY <3>1, <3>2 DEF LiveTasks
    <3>4. {task'[c].scope : c \in LiveTasks'} = {task[c].scope : c \in LiveTasks}
      BY <3>3
    <3>5. QED
      BY <2>1, <3>3, <3>4 DEF TurnInv, OneTurnPerScope, NoDue, SameTurns
  <2>4. QED
    BY <1>9, <2>2, <2>3 DEF HeartbeatTick
<1>10. ASSUME NEW a \in Agent, Turn(a)
       PROVE  TurnInv'
  <2>1. PICK phase, out, b, kept : /\ phase \in {"returned", "panicked"}
                                   /\ TurnEnds(a, phase, out, b, kept)
    BY <1>10 DEF Turn, TurnSucceeds, TurnFails, TurnCancelled, TurnPanics
  <2>2. task[a].phase = "running"
    BY <1>10 DEF Turn, TurnSucceeds, TurnFails, TurnCancelled, TurnPanics
  <2>3. /\ task' = [task EXCEPT ![a].phase = phase, ![a].outcome = out, ![a].batch = b]
        /\ UNCHANGED <<q, held>>
    BY <2>1 DEF TurnEnds
  <2>4. /\ task'[a].phase = phase /\ task'[a].scope = task[a].scope
        /\ \A c \in Agent : c # a => task'[c] = task[c]
    BY <1>1, <2>3 DEF Task
  <2>5. QED
    BY <1>2, <2>1, <2>2, <2>3, <2>4, TurnsKept
<1>11. ASSUME NEW s \in Scope, ThrottleElapses(s) \/ DeadlineElapses(s)
       PROVE  TurnInv'
  <2>1. SameTurns(q, q') /\ UNCHANGED <<task, held>>
    BY <1>1, <1>11 DEF ThrottleElapses, DeadlineElapses, SameTurns, QueueType, timeFrame
  <2>2. QED
    BY <2>1, TurnsKept
<1>12. CASE UNCHANGED <<q, task, held>>
  BY <1>2, <1>12, TurnsKept
<1>13. CASE MainLoop
  BY <1>6, <1>7, <1>8, <1>12, <1>13, DispatchTurns, DispatchEndsTurns
     DEF MainLoop, DrainDone, CollectRespawns, queueVars
<1>14. CASE Environment
  BY <1>3, <1>4, <1>5, <1>9, <1>12, <1>14 DEF Environment, MemberAdded, TimerTick, queueVars
<1>15. CASE Time
  BY <1>11, <1>12, <1>15 DEF Time, HoldElapses, CircuitCools, timeFrame
<1>16. CASE \/ \E a \in Agent : Turn(a) \/ RespawnEnds(a)
            \/ \E st \in steers : SteerTaken(st) \/ SteerAnswered(st)
  BY <1>10, <1>12, <1>16 DEF RespawnEnds, queueVars, SteerTaken, SteerAnswered, steerFrame
<1>17. QED
  BY <1>12, <1>13, <1>14, <1>15, <1>16 DEF Next, vars

\* No turn is under way when the harness starts.
LEMMA InitTurns == Init => TurnInv
<1> SUFFICES ASSUME Init PROVE TurnInv
  OBVIOUS
<1>1. q.in_flight = {} /\ NoDue
  BY DEF Init, new, NoDue
<1>2. LiveTasks = {} /\ DOMAIN held = {}
  BY DEF Init, LiveTasks, NoTask
<1>3. QED
  BY <1>1, <1>2 DEF TurnInv, OneTurnPerScope

\* As long as no turn outlives its in-flight deadline, no scope is ever prompted
\* twice at the same time and none is marked in flight without a turn or a held
\* batch that will clear the mark: for every number of agents and scopes, whatever
\* crashes, is cancelled, steered or removed.
THEOREM OneTurnAtATime ==
  ASSUME ~TurnOverrun
  PROVE  Spec => []OneTurnPerScope
<1>1. Inv /\ SlotInv /\ TurnInv /\ [Next]_vars => TurnInv'
  BY NextTurns
<1>2. TurnInv => OneTurnPerScope
  BY DEF TurnInv
<1>3. QED
  BY <1>1, <1>2, InitTurns, InvHolds, SlotInvHolds, PTL DEF Spec
============================================================================
