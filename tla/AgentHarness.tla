---------------------------- MODULE AgentHarness ----------------------------
(***************************************************************************)
(* The agent harness (maju-acp): the main loop that moves events from the  *)
(* relay through the EventQueue to a pool of agent processes.              *)
(*                                                                         *)
(* The main loop is one actor: it owns the queue, the pool and the         *)
(* membership tables, and each arm of its select! runs to the end before   *)
(* the next one starts.  `pc` is where it is: a handler that ends in       *)
(* dispatch_pending leaves it at "dispatch", and no arm runs until the     *)
(* dispatch loop is done.  Turns, steer watchers, respawns and time run    *)
(* beside it and meet it only through channels.                            *)
(*                                                                         *)
(* An operator x_y just before an operator x is x with a mistake in it; it *)
(* is used only to see that the properties notice it.                      *)
(***************************************************************************)
EXTENDS EventQueue, SlotCircuit

CONSTANTS
  Agents,         \* the number of slots; a slot is an index 1..Agents
  ThreadScope,    \* the scopes that are threads, not conversations
  Handling,       \* multiple_event_handling
  Heartbeats,     \* whether the heartbeat timer is configured
  Timers,         \* whether presence or typing timers wake the loop
  TurnOverrun,    \* whether a turn may outlive its in-flight deadline
  MaxFailures,    \* bound: starts, turns and respawns that fail
  MaxCommands     \* bound: owner commands and membership changes

Agent == 1..Agents
NoAgent == 0
Heartbeat == "heartbeat"
Signal == {"cancel", "rotate", "steer", "interrupt"}
Outcome == {"ok", "cancelled", "drain_timeout", "hard_silent", "crashed", "auth", "app_error"}
SteerAckKind == {"success", "not_found", "agent_error", "unlanded", "neutral"}

ASSUME HarnessAssumption ==
  /\ Agents \in Nat \ {0}
  /\ ThreadScope \subseteq Scope
  /\ Heartbeat \notin Scope
  /\ Handling \in {"queue", "steer", "interrupt", "owner_interrupt"}
  /\ Heartbeats \in BOOLEAN /\ Timers \in BOOLEAN /\ TurnOverrun \in BOOLEAN
  /\ MaxFailures \in Nat /\ MaxCommands \in Nat

VARIABLES
  q,                    \* the EventQueue
  pc,                   \* where the main loop is
  resume,               \* where it goes on after dispatch_pending
  held,                 \* batches dispatch_pending holds for a busy owner
  idle,                 \* slots whose agent sits in the pool
  sessions,             \* the scopes each agent has a provider session for
  session_owners,       \* the slot that last ran a scope
  held_since,           \* bounded hold: "none", "holding", "over"
  task,                 \* task_map and the prompt task of each slot
  steers,               \* native steers between send_steer and their ack
  removed_channels,
  respawn,              \* respawn_in_flight and the result on its channel
  circuit,              \* crash_history
  heartbeat_in_flight,
  arrived,              \* events admitted so far; the next stamp is arrived + 1
  failures, commands,   \* bounds used up
  served,               \* history: events a turn or a steer has delivered
  discarded,            \* history: events given up by an explicit decision
  attempts              \* history: failed turns an event took part in

queueVars  == <<q, arrived, served, discarded, attempts>>
poolVars   == <<idle, sessions, session_owners, held_since>>
slotVars   == <<respawn, circuit>>
boundVars  == <<failures, commands>>
vars == <<q, pc, resume, held, idle, sessions, session_owners, held_since, task, steers,
          removed_channels, respawn, circuit, heartbeat_in_flight, arrived,
          failures, commands, served, discarded, attempts>>

NoBatch(s) == [scope |-> s, events |-> <<>>, cancelled |-> <<>>, reason |-> "none"]
HasBatch(b) == b.events # <<>>
BatchEvents(b) == Elements(b.events) \cup Elements(b.cancelled)

NoTask == [scope |-> Heartbeat, batch |-> NoBatch(Heartbeat), phase |-> "none",
           outcome |-> "ok", control |-> "none"]

\* A pool of which only some agents start is valid; the other slots stay empty,
\* with a breaker that never opened, until maintenance tries them.  A failed start
\* is one of the failures that MaxFailures bounds.
initialize_agent_pool ==
  /\ idle \in SUBSET Agent \ {{}}
  /\ failures = Cardinality(Agent \ idle)
  /\ failures <= MaxFailures

Init ==
  /\ q = new
  /\ pc = "top" /\ resume = "top"
  /\ held = <<>>
  /\ initialize_agent_pool
  /\ sessions = [a \in Agent |-> {}]
  /\ session_owners = [s \in Scope |-> NoAgent]
  /\ held_since = [s \in Scope |-> "none"]
  /\ task = [a \in Agent |-> NoTask]
  /\ steers = {}
  /\ removed_channels = {}
  /\ respawn = [a \in Agent |-> "none"]
  /\ circuit = [a \in Agent |-> Closed]
  /\ heartbeat_in_flight = FALSE
  /\ arrived = 0
  /\ commands = 0
  /\ served = {} /\ discarded = {}
  /\ attempts = [e \in Event |-> 0]

-----------------------------------------------------------------------------
(* The pool.                                                               *)

TasksOf(s) == {a \in Agent : task[a].phase # "none" /\ task[a].scope = s}
has_session_for(s) == \E a \in idle : s \in sessions[a]
slot_alive_idle_only(a) == a \in idle
slot_alive(a) == a \in idle \/ task[a].phase # "none"
Least(S) == CHOOSE a \in S : \A b \in S : a <= b

should_hold_for_busy_owner(s) ==
  /\ ~has_session_for(s)
  /\ session_owners[s] # NoAgent
  /\ task[session_owners[s]].phase # "none"

\* try_claim prefers an idle agent with a session for the scope.
Claimable(s) ==
  LET affine == {a \in idle : s \in sessions[a]}
  IN  IF affine # {} THEN affine ELSE idle
try_claim(s) == Least(Claimable(s))

\* signal_in_flight_task_for_scope takes the one-shot sender of a task.  A task
\* that has already returned drops the signal with its receiver.
Signalled(tasks, a, sig) ==
  IF tasks[a].control = "armed"
  THEN [tasks EXCEPT ![a].control = IF tasks[a].phase = "running" THEN sig ELSE "none"]
  ELSE tasks

\* `find` on the task map: any task of the scope, or none.
signal_in_flight_task_for_scope(s, sig) ==
  IF TasksOf(s) = {} THEN UNCHANGED task
  ELSE \E a \in TasksOf(s) : task' = Signalled(task, a, sig)

\* send_steer: the capacity-1 channel of a running turn must have room.
SteerSlotFree(a) ==
  /\ task[a].phase = "running"
  /\ ~\E st \in steers : st.agent = a /\ st.state = "slot"

SteersEndedBy_written_only(a) ==
  {IF st.agent = a /\ st.state = "written"
   THEN [st EXCEPT !.state = "acked", !.ack = "neutral"] ELSE st : st \in steers}

\* Every return path of the read loop answers or drops the steers it holds.
SteersEndedBy(a) ==
  {IF st.agent = a /\ st.state \in {"slot", "written"}
   THEN [st EXCEPT !.state = "acked", !.ack = "neutral"] ELSE st : st \in steers}

-----------------------------------------------------------------------------
(* dispatch_pending: one iteration of its loop per step.                   *)

\* The loop is over: held batches first, then back to where it was called.
LoopOver(batches) ==
  /\ pc' = IF batches = <<>> THEN resume ELSE "release"
  /\ resume' = IF batches = <<>> THEN "top" ELSE resume

\* A thread whose session owner is busy is held, for a bounded time.
DispatchHold ==
  /\ pc = "dispatch"
  /\ \E s \in flush_choice(expire(q)) :
       /\ s \in ThreadScope /\ should_hold_for_busy_owner(s)
       /\ held_since[s] # "over"
       /\ held_since' = [held_since EXCEPT ![s] = "holding"]
       /\ held' = Append(held, flushed_batch(expire(q), s))
       /\ q' = flush_next(expire(q), s)
  /\ UNCHANGED <<pc, resume, idle, sessions, session_owners, task, steers,
                 removed_channels, slotVars, heartbeat_in_flight, arrived, boundVars, served, discarded,
                 attempts>>

Dispatchable(s) ==
  \/ s \notin ThreadScope \/ ~should_hold_for_busy_owner(s)
  \/ held_since[s] = "over"

\* An idle agent takes the batch and becomes the owner of the scope's session.
DispatchClaim ==
  /\ pc = "dispatch"
  /\ idle # {}
  /\ \E s \in flush_choice(expire(q)) :
       /\ Dispatchable(s)
       /\ LET a == try_claim(s) IN
            /\ idle' = idle \ {a}
            /\ task' = [task EXCEPT ![a] =
                 [scope |-> s, batch |-> flushed_batch(expire(q), s),
                  phase |-> "running", outcome |-> "ok", control |-> "armed"]]
            /\ session_owners' = [session_owners EXCEPT ![s] = a]
       /\ held_since' = [held_since EXCEPT ![s] = "none"]
       /\ q' = flush_next(expire(q), s)
  /\ UNCHANGED <<pc, resume, held, sessions, steers, removed_channels, slotVars,
                 heartbeat_in_flight, arrived, boundVars, served, discarded, attempts>>

ReturnBatch_dropped(queue, b) == mark_complete(queue, b.scope)

\* The batch goes back when no agent is free.
ReturnBatch(queue, b) == mark_complete(requeue_preserve_timestamps(queue, b), b.scope)

\* No agent is idle: the batch is returned and the loop ends.
DispatchExhausted ==
  /\ pc = "dispatch"
  /\ idle = {}
  /\ \E s \in flush_choice(expire(q)) :
       /\ Dispatchable(s)
       /\ held_since' = [held_since EXCEPT ![s] = "none"]
       /\ q' = ReturnBatch(flush_next(expire(q), s), flushed_batch(expire(q), s))
  /\ LoopOver(held)
  /\ UNCHANGED <<held, idle, sessions, session_owners, task, steers, removed_channels,
                 slotVars, heartbeat_in_flight, arrived, boundVars, served, discarded,
                 attempts>>

DispatchDone ==
  /\ pc = "dispatch"
  /\ flush_choice(expire(q)) = {}
  /\ q' = expire(q)
  /\ LoopOver(held)
  /\ UNCHANGED <<held, poolVars, task, steers, removed_channels, slotVars,
                 heartbeat_in_flight, arrived, boundVars, served, discarded, attempts>>

\* The held batches are returned once the loop is over.
ReleaseHeld ==
  /\ pc = "release"
  /\ q' = ReturnBatch(q, Head(held))
  /\ held' = Tail(held)
  /\ LoopOver(Tail(held))
  /\ UNCHANGED <<poolVars, task, steers, removed_channels, slotVars,
                 heartbeat_in_flight, arrived, boundVars, served, discarded, attempts>>

-----------------------------------------------------------------------------
(* Arms of the main loop: the relay.                                       *)

\* mode_gate_signal
mode_gate_signal(from_owner) ==
  CASE Handling = "queue" -> "none"
    [] Handling = "steer" -> "steer"
    [] Handling = "interrupt" -> "interrupt"
    [] Handling = "owner_interrupt" -> IF from_owner THEN "interrupt" ELSE "none"

\* steer_or_interrupt for an accepted event of a scope in flight.  The native
\* steer withholds the event before its watcher exists; if the turn cannot take
\* it, the turn is cancelled and its batch merged with the event.
steer_or_interrupt(queue, s, e, sig) ==
  \/ /\ sig = "steer"
     /\ \E a \in TasksOf(s) :
          /\ SteerSlotFree(a)
          /\ q' = mark_native_steer_pending(queue, s, e)
          /\ steers' = steers \cup
               {[scope |-> s, event |-> e, agent |-> a, state |-> "slot", ack |-> "neutral"]}
     /\ UNCHANGED task
  \/ /\ sig = "steer" => TasksOf(s) = {} \/ \E a \in TasksOf(s) : ~SteerSlotFree(a)
     /\ q' = queue
     /\ signal_in_flight_task_for_scope(s, sig)
     /\ UNCHANGED steers

\* A relay event of scope s is admitted, steered into the turn in flight, and
\* pending work is dispatched.  Events of a channel the agent was removed from
\* still come until the relay task has handled the unsubscribe.
RelayEvent(s, from_owner) ==
  LET e == arrived + 1
      sig == mode_gate_signal(from_owner)
      accepted == push_accepts(q, s)
  IN
  /\ pc = "select"
  /\ e \in Event
  /\ arrived' = e
  /\ IF accepted /\ s \in q.in_flight /\ sig # "none"
     THEN steer_or_interrupt(push(q, s, e), s, e, sig)
     ELSE /\ q' = IF accepted THEN push(q, s, e) ELSE q
          /\ UNCHANGED <<task, steers>>
  /\ discarded' = IF accepted THEN discarded ELSE discarded \cup {e}
  /\ pc' = "dispatch"
  /\ UNCHANGED <<resume, held, poolVars, removed_channels, slotVars,
                 heartbeat_in_flight, boundVars, served, attempts>>

\* !cancel and !rotate from the owner.  An idle !rotate drops the session.
OwnerCommand(s, sig) ==
  /\ pc = "select"
  /\ commands < MaxCommands
  /\ commands' = commands + 1
  /\ signal_in_flight_task_for_scope(s, sig)
  /\ IF sig = "rotate" /\ task' = task
     THEN /\ sessions' = [a \in Agent |-> IF a \in idle THEN sessions[a] \ {s} ELSE sessions[a]]
          /\ session_owners' = [session_owners EXCEPT ![s] = NoAgent]
          /\ held_since' = [held_since EXCEPT ![s] = "none"]
     ELSE UNCHANGED <<sessions, session_owners, held_since>>
  /\ pc' = "top"
  /\ UNCHANGED <<q, resume, held, idle, steers, removed_channels, slotVars,
                 heartbeat_in_flight, arrived, failures, served, discarded, attempts>>

\* The agent is removed from a channel: pending work is dropped, the sessions of
\* idle agents too, and the others are remembered for when they come back.
MemberRemoved(ch) ==
  LET gone == {s \in Scope : ChannelOf[s] = ch} IN
  /\ pc = "select"
  /\ commands < MaxCommands
  /\ commands' = commands + 1
  /\ q' = drain_channel(q, ch)
  /\ discarded' = discarded \cup PendingOf(q, ch)
  /\ sessions' = [a \in Agent |-> IF a \in idle THEN sessions[a] \ gone ELSE sessions[a]]
  /\ session_owners' = [s \in Scope |-> IF s \in gone THEN NoAgent ELSE session_owners[s]]
  /\ held_since' = [s \in Scope |-> IF s \in gone THEN "none" ELSE held_since[s]]
  /\ removed_channels' = removed_channels \cup {ch}
  /\ pc' = "top"
  /\ UNCHANGED <<resume, held, idle, task, steers, slotVars, heartbeat_in_flight,
                 arrived, failures, served, attempts>>

\* A channel the agent is added to again is no longer stripped from returning
\* agents.  The notice changes nothing for a channel that was not removed.
MemberAdded(ch) ==
  /\ pc = "select"
  /\ commands < MaxCommands
  /\ commands' = commands + 1
  /\ ch \in removed_channels
  /\ removed_channels' = removed_channels \ {ch}
  /\ pc' = "top"
  /\ UNCHANGED <<queueVars, resume, held, poolVars, task, steers, slotVars,
                 heartbeat_in_flight, failures>>

-----------------------------------------------------------------------------
(* Arms of the main loop: the pool.                                        *)

Restored_removed_too(queue, out, b) ==
  IF ~HasBatch(b) \/ out \in {"hard_silent", "auth"} THEN queue
  ELSE IF out \in {"cancelled", "drain_timeout"}
  THEN requeue_as_cancelled(queue, b, IF b.reason = "none" THEN "steer" ELSE b.reason)
  ELSE requeue(queue, b)

\* What handle_prompt_result does with the batch a turn gives back, before
\* mark_complete.
Restored(queue, out, b) ==
  IF \/ ~HasBatch(b)
     \/ ChannelOf[b.scope] \in removed_channels
     \/ out \in {"hard_silent", "auth"}
  THEN queue
  ELSE IF out \in {"cancelled", "drain_timeout"}
  THEN requeue_as_cancelled(queue, b, IF b.reason = "none" THEN "steer" ELSE b.reason)
  ELSE requeue(queue, b)

\* The batch is given up, with a notice in the channel unless it was removed.
GivenUp(queue, out, b) ==
  \/ ChannelOf[b.scope] \in removed_channels
  \/ out \in {"hard_silent", "auth"}
  \/ out \notin {"cancelled", "drain_timeout"} /\ dead_letters(queue, b)

Completed_by_channel(queue, s) ==
  IF s = Heartbeat \/ s \in ThreadScope THEN queue ELSE mark_complete(queue, s)
Completed(queue, s) == IF s = Heartbeat THEN queue ELSE mark_complete(queue, s)

Crash_ignoring_respawns(a, next) ==
  \E verdict \in record_crash(circuit[a]) :
    /\ circuit' = [circuit EXCEPT ![a] = verdict.circuit]
    /\ respawn' = [respawn EXCEPT ![a] = IF verdict.respawn THEN "running" ELSE @]
    /\ pc' = IF ~\E b \in Agent : b \in idle \/ task'[b].phase # "none"
             THEN "exited" ELSE next

\* The end of a process: record_crash decides on a respawn, and a pool with no
\* live agent and no respawn under way ends the harness.
Crash(a, next) ==
  \E verdict \in record_crash(circuit[a]) :
    /\ circuit' = [circuit EXCEPT ![a] = verdict.circuit]
    /\ respawn' = [respawn EXCEPT ![a] = IF verdict.respawn THEN "running" ELSE @]
    /\ pc' = IF ~\E b \in Agent : b \in idle \/ task'[b].phase # "none" \/ respawn'[b] # "none"
             THEN "exited" ELSE next

\* A returning agent loses the sessions of channels removed in the meantime.
StillMember_unchecked(scopes) == scopes
StillMember(scopes) == {s \in scopes : ChannelOf[s] \notin removed_channels}

\* handle_prompt_result: the batch is restored before mark_complete, then the
\* agent goes back to its slot or is replaced.
PromptResult(a) ==
  LET s == task[a].scope  b == task[a].batch  out == task[a].outcome IN
  /\ pc = "select"
  /\ task[a].phase = "returned"
  /\ q' = Completed(Restored(q, out, b), s)
  /\ discarded' = IF HasBatch(b) /\ GivenUp(q, out, b)
                  THEN discarded \cup BatchEvents(b) ELSE discarded
  /\ heartbeat_in_flight' = (heartbeat_in_flight /\ s # Heartbeat)
  /\ task' = [task EXCEPT ![a] = NoTask]
  /\ \/ /\ out \in {"ok", "cancelled", "auth", "app_error"}
        /\ idle' = idle \cup {a}
        /\ sessions' = [sessions EXCEPT ![a] = StillMember(@)]
        /\ pc' = "drain"
        /\ UNCHANGED slotVars
     \/ /\ out \in {"drain_timeout", "hard_silent", "crashed"}
        /\ Crash(a, "drain")
        /\ sessions' = [sessions EXCEPT ![a] = {}]
        /\ UNCHANGED idle
  /\ UNCHANGED <<resume, held, session_owners, held_since, steers, removed_channels,
                 arrived, boundVars, served, attempts>>

\* recover_panicked_agent: from the select! arm, or while the results that are
\* ready are drained after a prompt result.
RecoverPanicked(a) ==
  LET s == task[a].scope  b == task[a].batch  out == "crashed" IN
  /\ pc \in {"select", "drain"}
  /\ task[a].phase = "panicked"
  /\ q' = Completed(Restored(q, out, b), s)
  /\ discarded' = IF HasBatch(b) /\ GivenUp(q, out, b)
                  THEN discarded \cup BatchEvents(b) ELSE discarded
  /\ heartbeat_in_flight' = (heartbeat_in_flight /\ s # Heartbeat)
  /\ task' = [task EXCEPT ![a] = NoTask]
  /\ sessions' = [sessions EXCEPT ![a] = {}]
  /\ Crash(a, IF pc = "drain" THEN "drain" ELSE "dispatch")
  /\ UNCHANGED <<resume, held, idle, session_owners, held_since, steers,
                 removed_channels, arrived, boundVars, served, attempts>>

DrainDone ==
  /\ pc = "drain"
  /\ \A a \in Agent : task[a].phase # "panicked"
  /\ pc' = "dispatch"
  /\ UNCHANGED <<queueVars, resume, held, poolVars, task, steers, removed_channels,
                 slotVars, heartbeat_in_flight, boundVars>>

\* The SteerAck arm: drop the withheld event, or release it, and fall back to
\* cancel and merge when the steer never reached the agent.
SteerAcked(st) ==
  LET s == st.scope  e == st.event IN
  /\ pc = "select"
  /\ st.state = "acked"
  /\ steers' = steers \ {st}
  /\ \/ /\ st.ack = "success"
        /\ q' = remove_event(extend_in_flight_deadline(q, s), s, e)
        /\ served' = served \cup {e}
        /\ UNCHANGED task
     \/ /\ st.ack \in {"not_found", "unlanded"}
        /\ q' = release_native_steer(q, s, e)
        /\ signal_in_flight_task_for_scope(s, "steer")
        /\ UNCHANGED served
     \/ /\ st.ack \in {"agent_error", "neutral"}
        /\ q' = release_native_steer(q, s, e)
        /\ UNCHANGED <<served, task>>
  /\ pc' = "dispatch"
  /\ UNCHANGED <<resume, held, poolVars, removed_channels, slotVars,
                 heartbeat_in_flight, arrived, boundVars, discarded, attempts>>

-----------------------------------------------------------------------------
(* Top of the loop and timers.                                             *)

\* Once a maintenance interval has passed, an iteration starts with compaction,
\* slot refill, and dispatch if something is flushable.
Maintenance ==
  LET swept  == compact_expired_state(q)
      refill == {a \in Agent : ~slot_alive(a) /\ respawn[a] = "none" /\ can_refill(circuit[a])}
  IN
  /\ pc = "top"
  /\ respawn' = [a \in Agent |-> IF a \in refill THEN "running" ELSE respawn[a]]
  /\ circuit' = [a \in Agent |-> IF a \in refill THEN refilled(circuit[a]) ELSE circuit[a]]
  /\ q' = expire(swept)
  /\ IF has_flushable_work(expire(swept))
     THEN pc' = "dispatch" /\ resume' = "collect"
     ELSE pc' = "collect" /\ UNCHANGED resume
  /\ UNCHANGED <<held, poolVars, task, steers, removed_channels, heartbeat_in_flight,
                 arrived, boundVars, served, discarded, attempts>>

\* The respawn channel is drained without waiting; the loop then waits in
\* select!, which does not listen to that channel.
CollectRespawns ==
  LET alive == {a \in Agent : respawn[a] = "ok"}
      dead  == {a \in Agent : respawn[a] = "failed"}
  IN
  /\ pc \in {"top", "collect"}
  /\ respawn' = [a \in Agent |-> IF a \in alive \cup dead THEN "none" ELSE respawn[a]]
  /\ circuit' = [a \in Agent |-> IF a \in dead THEN mark_spawn_failed(circuit[a]) ELSE circuit[a]]
  /\ idle' = idle \cup alive
  /\ sessions' = [a \in Agent |-> IF a \in alive THEN {} ELSE sessions[a]]
  /\ IF alive # {}
     THEN pc' = "dispatch" /\ resume' = "select"
     ELSE pc' = "select" /\ UNCHANGED resume
  /\ UNCHANGED <<queueVars, held, session_owners, held_since, task, steers,
                 removed_channels, heartbeat_in_flight, boundVars>>

\* The presence and typing timers do nothing here but start an iteration.
TimerTick ==
  /\ Timers
  /\ pc = "select"
  /\ pc' = "top"
  /\ UNCHANGED <<queueVars, resume, held, poolVars, task, steers, removed_channels,
                 slotVars, heartbeat_in_flight, boundVars>>

\* The heartbeat timer gives way to events, and prompts an idle agent otherwise.
HeartbeatTick ==
  LET fires == ~has_flushable_work(expire(q)) /\ idle # {} /\ ~heartbeat_in_flight
      a == Least(idle)
  IN
  /\ Heartbeats
  /\ pc = "select"
  /\ q' = expire(q)
  /\ pc' = IF has_flushable_work(expire(q)) THEN "dispatch" ELSE "top"
  /\ heartbeat_in_flight' = (heartbeat_in_flight \/ fires)
  /\ idle' = IF fires THEN idle \ {a} ELSE idle
  /\ task' = IF fires THEN [task EXCEPT ![a] = [NoTask EXCEPT !.phase = "running"]] ELSE task
  /\ UNCHANGED <<resume, held, sessions, session_owners, held_since, steers,
                 removed_channels, slotVars, arrived, boundVars, served, discarded, attempts>>

-----------------------------------------------------------------------------
(* Turns: run_prompt_task, concurrent with the main loop.                  *)

\* requeue_batch_if_queue: Drop mode does not give a batch back.
Recoverable(b) == IF DedupMode = "Queue" THEN b ELSE NoBatch(b.scope)

\* The turn on slot a is over: its result is on the channel, its steers answered.
TurnEnds(a, phase, out, b, kept) ==
  /\ task' = [task EXCEPT ![a].phase = phase, ![a].outcome = out, ![a].batch = b]
  /\ sessions' = [sessions EXCEPT ![a] = kept]
  /\ steers' = SteersEndedBy(a)
  /\ discarded' = IF phase # "returned" \/ out # "ok"
                  THEN discarded \cup (BatchEvents(task[a].batch) \ BatchEvents(b))
                  ELSE discarded
  /\ UNCHANGED <<q, pc, resume, held, idle, session_owners, held_since, removed_channels, slotVars,
                 heartbeat_in_flight, arrived, commands>>

Failing ==
  /\ failures < MaxFailures
  /\ failures' = failures + 1

Attempted(a) == [e \in Event |-> IF e \in Elements(task[a].batch.events)
                                 THEN attempts[e] + 1 ELSE attempts[e]]

SessionsAfter_any_source(a) == {sessions[a] \cup {task[a].scope}}

\* A session survives a turn, or is rotated or invalidated by it.
SessionsAfter(a) == {sessions[a] \cup ({task[a].scope} \cap Scope), sessions[a] \ {task[a].scope}}

TurnSucceeds(a) ==
  /\ pc # "exited"
  /\ task[a].phase = "running"
  /\ \E kept \in SessionsAfter(a) :
       TurnEnds(a, "returned", "ok", NoBatch(task[a].scope), kept)
  /\ served' = served \cup BatchEvents(task[a].batch)
  /\ UNCHANGED <<failures, attempts>>

TurnFails(a, out) ==
  /\ pc # "exited"
  /\ task[a].phase = "running"
  /\ Failing
  /\ \E kept \in (IF out \in {"auth", "app_error"} THEN SessionsAfter(a) ELSE {{}}) :
       TurnEnds(a, "returned", out, Recoverable(task[a].batch), kept)
  /\ attempts' = Attempted(a)
  /\ UNCHANGED served

\* requeue_cancelled_batch: cancel and rotate drop the batch.
CancelledBatch(a) ==
  LET b == task[a].batch IN
  IF task[a].control \in {"cancel", "rotate"} THEN NoBatch(b.scope)
  ELSE [Recoverable(b) EXCEPT !.reason = task[a].control]

\* A control signal reaches the turn in time: it stops, cleanly or not.
TurnCancelled(a, out) ==
  /\ pc # "exited"
  /\ task[a].phase = "running"
  /\ task[a].control \in Signal
  /\ TurnEnds(a, "returned", out, CancelledBatch(a),
              IF out = "crashed" THEN {} ELSE sessions[a] \ {task[a].scope})
  /\ IF out = "cancelled" THEN UNCHANGED <<failures, attempts>>
     ELSE /\ Failing
          /\ attempts' = IF out = "drain_timeout" THEN attempts ELSE Attempted(a)
  /\ UNCHANGED served

\* The task panics: the JoinSet reports it and the batch kept in the task map is
\* what can be recovered.
TurnPanics(a) ==
  /\ pc # "exited"
  /\ task[a].phase = "running"
  /\ Failing
  /\ TurnEnds(a, "panicked", "crashed", Recoverable(task[a].batch), {})
  /\ attempts' = Attempted(a)
  /\ UNCHANGED served

steerFrame == <<q, pc, resume, held, poolVars, task, removed_channels, slotVars,
                heartbeat_in_flight, arrived, boundVars, served, discarded, attempts>>

\* The read loop takes a steer and writes it, unless no transport is known or
\* the write fails.  It holds one written steer at a time.
SteerTaken(st) ==
  /\ pc # "exited"
  /\ st.state = "slot" /\ task[st.agent].phase = "running"
  /\ ~\E other \in steers : other.agent = st.agent /\ other.state = "written"
  /\ \E next \in {[st EXCEPT !.state = "written"],
                  [st EXCEPT !.state = "acked", !.ack = "unlanded"]} :
       steers' = (steers \ {st}) \cup {next}
  /\ UNCHANGED steerFrame

SteerAnswered(st) ==
  /\ pc # "exited"
  /\ st.state = "written" /\ task[st.agent].phase = "running"
  /\ \E ack \in SteerAckKind \ {"neutral"} :
       steers' = (steers \ {st}) \cup {[st EXCEPT !.state = "acked", !.ack = ack]}
  /\ UNCHANGED steerFrame

\* A respawn task sends its result even if it panics (RespawnGuard).
RespawnEnds(a) ==
  /\ pc # "exited"
  /\ respawn[a] = "running"
  /\ \/ respawn' = [respawn EXCEPT ![a] = "ok"] /\ UNCHANGED failures
     \/ Failing /\ respawn' = [respawn EXCEPT ![a] = "failed"]
  /\ UNCHANGED <<queueVars, pc, resume, held, poolVars, task, steers, removed_channels,
                 circuit, heartbeat_in_flight, commands>>

-----------------------------------------------------------------------------
(* Time.                                                                   *)

timeFrame == <<pc, resume, held, idle, sessions, session_owners, task, steers, removed_channels,
               respawn, heartbeat_in_flight, arrived, boundVars, served, discarded, attempts>>

ThrottleElapses(s) ==
  /\ pc # "exited"
  /\ q.retry_after[s] = "active"
  /\ q' = [q EXCEPT !.retry_after[s] = "elapsed"]
  /\ UNCHANGED <<timeFrame, held_since, circuit>>

\* The backstop is longer than a turn may last, so it fires early only if turns
\* can overrun.
DeadlineElapses(s) ==
  /\ pc # "exited"
  /\ q.deadlines[s] = "armed"
  /\ TurnOverrun
  /\ q' = [q EXCEPT !.deadlines[s] = "due"]
  /\ UNCHANGED <<timeFrame, held_since, circuit>>

HoldElapses(s) ==
  /\ pc # "exited"
  /\ held_since[s] = "holding"
  /\ held_since' = [held_since EXCEPT ![s] = "over"]
  /\ UNCHANGED <<timeFrame, q, circuit>>

CircuitCools(a) ==
  /\ pc # "exited"
  /\ circuit[a].open_until = "open"
  /\ circuit' = [circuit EXCEPT ![a] = Cooled(@)]
  /\ UNCHANGED <<timeFrame, q, held_since>>

-----------------------------------------------------------------------------
MainLoop ==
  \/ DispatchHold \/ DispatchClaim \/ DispatchExhausted \/ DispatchDone \/ ReleaseHeld
  \/ \E a \in Agent : PromptResult(a) \/ RecoverPanicked(a)
  \/ DrainDone
  \/ \E st \in steers : SteerAcked(st)
  \/ Maintenance \/ CollectRespawns

Environment ==
  \/ \E s \in Scope, from_owner \in BOOLEAN : RelayEvent(s, from_owner)
  \/ \E s \in Scope, sig \in {"cancel", "rotate"} : OwnerCommand(s, sig)
  \/ \E ch \in Channel : MemberRemoved(ch) \/ MemberAdded(ch)
  \/ TimerTick \/ HeartbeatTick

Turn(a) ==
  \/ TurnSucceeds(a)
  \/ \E out \in {"crashed", "hard_silent", "auth", "app_error"} : TurnFails(a, out)
  \/ \E out \in {"cancelled", "drain_timeout", "crashed", "app_error"} : TurnCancelled(a, out)
  \/ TurnPanics(a)

Time ==
  \/ \E s \in Scope : ThrottleElapses(s) \/ DeadlineElapses(s) \/ HoldElapses(s)
  \/ \E a \in Agent : CircuitCools(a)

Next ==
  \/ MainLoop
  \/ Environment
  \/ \E a \in Agent : Turn(a) \/ RespawnEnds(a)
  \/ \E st \in steers : SteerTaken(st) \/ SteerAnswered(st)
  \/ Time

Spec == Init /\ [][Next]_vars

\* Steers are answered by the read loop; an ack of event e reaches its arm.
SteerProgress(e) == \E st \in steers : st.event = e /\ (SteerTaken(st) \/ SteerAnswered(st))
SteerAckFor(e) == \E st \in steers : st.event = e /\ SteerAcked(st)

\* The main loop never stops between two visits of select!.
LoopRuns ==
  DispatchHold \/ DispatchClaim \/ DispatchExhausted \/ DispatchDone \/ ReleaseHeld
    \/ DrainDone \/ CollectRespawns

\* Turns, respawns and steers end (each has a timeout), time passes, and no arm
\* of select! waits for ever: the arms above the relay are polled first, and
\* the timers below it starve only while relay events keep coming, which are
\* finitely many here.
Fairness ==
  /\ WF_vars(LoopRuns)
  /\ SF_vars(Maintenance)
  /\ WF_vars(TimerTick)
  /\ \A a \in Agent :
       /\ WF_vars(Turn(a)) /\ WF_vars(RespawnEnds(a)) /\ WF_vars(CircuitCools(a))
       /\ SF_vars(PromptResult(a)) /\ SF_vars(RecoverPanicked(a))
  /\ \A s \in Scope : WF_vars(ThrottleElapses(s)) /\ WF_vars(HoldElapses(s))
  /\ \A e \in Event : WF_vars(SteerProgress(e)) /\ SF_vars(SteerAckFor(e))

FairSpec == Spec /\ Fairness

-----------------------------------------------------------------------------
(* Properties.                                                             *)

Batch == [scope : Scope \cup {Heartbeat}, events : Seq(Event), cancelled : Seq(Event),
          reason : CancelReason]

Task == [scope : Scope \cup {Heartbeat}, batch : Batch,
         phase : {"none", "running", "returned", "panicked"},
         outcome : Outcome, control : {"none", "armed"} \cup Signal]

Steer == [scope : Scope, event : Event, agent : Agent,
          state : {"slot", "written", "acked"}, ack : SteerAckKind]

\* Every variable has the type of the Rust value it stands for.
TypeOK ==
  /\ q \in QueueType
  /\ pc \in {"top", "collect", "select", "drain", "dispatch", "release", "exited"}
  /\ resume \in {"top", "collect", "select"}
  /\ held \in Seq(FlushBatch)
  /\ idle \subseteq Agent
  /\ sessions \in [Agent -> SUBSET Scope]
  /\ session_owners \in [Scope -> Agent \cup {NoAgent}]
  /\ held_since \in [Scope -> {"none", "holding", "over"}]
  /\ task \in [Agent -> Task]
  /\ steers \subseteq Steer
  /\ removed_channels \subseteq Channel
  /\ respawn \in [Agent -> {"none", "running", "ok", "failed"}]
  /\ circuit \in [Agent -> Circuit]
  /\ heartbeat_in_flight \in BOOLEAN
  /\ arrived \in Nat /\ failures \in 0..MaxFailures /\ commands \in 0..MaxCommands
  /\ served \subseteq Event /\ discarded \subseteq Event
  /\ attempts \in [Event -> Nat]

\* Who holds which event: <<place, index, position, event>>.
At(place, table) ==
  UNION {{<<place, k, i, table[k][i]>> : i \in DOMAIN table[k]} : k \in DOMAIN table}

Carried(b) == b.events \o b.cancelled

Custody ==
  At("queue", q.queues) \cup At("carryover", q.cancelled) \cup At("withheld", q.withheld)
    \cup At("held", [i \in DOMAIN held |-> Carried(held[i])])
    \cup At("turn", [a \in Agent |-> Carried(task[a].batch)])

InCustody == {c[4] : c \in Custody}
Decided == served \cup discarded \cup q.evicted

\* Every event the queue accepted is still held somewhere, or was delivered, or
\* was given up by a decision the code logs: requeue, cancel and merge, steer
\* acks, panics, expiry and membership changes lose nothing on the way.
NoSilentLoss == 1..arrived \subseteq InCustody \cup Decided

\* requeue takes the events of a failed turn and leaves its carryover.
Forgets(a, e) ==
  /\ e \in Elements(task[a].batch.cancelled)
  /\ \/ RecoverPanicked(a)
     \/ PromptResult(a) /\ task[a].outcome \notin {"cancelled", "drain_timeout"}

\* The end of a failed turn that carried cancelled events is the only step that
\* lets go of an event without a decision: flush, dispatch, hold, expiry, steer
\* acks, panics, removals and the arrival itself always hand it on or log it.
OnlyCarryoverIsLost ==
  [][\A e \in InCustody \cup ((1..arrived') \ (1..arrived)) :
       e \in InCustody' \cup Decided' \/ \E a \in Agent : Forgets(a, e)]_vars

\* An event is in one place at a time, and once it was delivered or given up it
\* is in none: a late steer ack, a turn that fails after its channel was removed
\* or a fallback after a success does not prompt with it again.
NoDoubleDelivery ==
  /\ \A e \in InCustody : Cardinality({c \in Custody : c[4] = e}) = 1
  /\ InCustody \cap Decided = {}

LiveTasks == {a \in Agent : task[a].phase # "none" /\ task[a].scope # Heartbeat}

\* The in-flight marks of the queue are exactly the scopes of the turns under way
\* and of the batches dispatch_pending holds, one each: no scope is prompted
\* twice at the same time and none is wedged by a mark nobody will clear.
OneTurnPerScope ==
  /\ q.in_flight = {task[a].scope : a \in LiveTasks} \cup {held[i].scope : i \in DOMAIN held}
  /\ \A a, b \in LiveTasks : task[a].scope = task[b].scope => a = b
  /\ \A i, j \in DOMAIN held : held[i].scope = held[j].scope => i = j
  /\ \A a \in LiveTasks, i \in DOMAIN held : task[a].scope # held[i].scope

\* An event withheld for a native steer has a watcher that will post its ack, so
\* it can not be orphaned in the side table.
WithheldHasWatcher ==
  \A s \in Scope : \A e \in Elements(q.withheld[s]) :
    \E st \in steers : st.scope = s /\ st.event = e

\* An agent in the pool has no session of a channel the agent was removed from,
\* whether it was idle or checked out when that happened.
SessionsStripped ==
  \A a \in idle : \A s \in sessions[a] : ChannelOf[s] \notin removed_channels

\* A slot has at most one agent: idle, on a turn, or being respawned, so that
\* return_agent never finds its slot occupied.
NoSlotOverwrite ==
  \A a \in Agent :
    /\ a \in idle => task[a].phase = "none" /\ respawn[a] = "none"
    /\ respawn[a] # "none" => task[a].phase = "none"

\* A scope in flight has a deadline, so the backstop can always release it, and
\* no deadline outlives its turn.
InFlightArmed == \A s \in Scope : s \in q.in_flight <=> q.deadlines[s] # "none"

\* No path into the queue (push, requeue, release, recovery) leaves a partition
\* or a channel above its cap.
CapsHold ==
  /\ \A s \in Scope : Len(q.queues[s]) <= MAX_PENDING_PER_SCOPE
  /\ \A ch \in Channel : Cardinality(Cells(q.queues, ch)) <= MAX_PENDING_PER_CHANNEL

\* A scope is not prompted while its retry backoff is running, though the
\* carryover path of flush_next does not look at the throttle.
BackoffRespected ==
  [][\A s \in q'.in_flight \ q.in_flight : q.retry_after[s] # "active"]_vars

\* A failing batch is dead-lettered after MAX_RETRIES retries: no event takes
\* part in more failed turns than that.
AttemptsBounded == \A e \in Event : attempts[e] <= MAX_RETRIES + 1

\* The harness gives up ("all agents dead") only when no respawn is under way that
\* could bring an agent back, and the breaker of every slot has opened, except for
\* a slot that failed to start and that maintenance has not tried to fill yet: it
\* is the only empty slot whose record is still that of the start.
ExitJustified ==
  pc = "exited" =>
    \A a \in Agent :
      respawn[a] = "none" /\ (circuit[a].open_until # "closed" \/ circuit[a] = Closed)

\* Every event the queue accepted is eventually delivered or given up, however
\* turns fail, agents crash and owners are busy, unless the harness exits.
EventuallyDecided ==
  \A e \in Event : (arrived >= e) ~> (e \in Decided \/ pc = "exited")

\* No scope stays in flight for ever.
NeverWedged == \A s \in Scope : (s \in q.in_flight) ~> (s \notin q.in_flight \/ pc = "exited")
=============================================================================
