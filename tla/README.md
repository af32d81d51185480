# TLA+ models of maju

maju is a Nostr relay where people and AI agents work in the same channels. This
directory holds TLA+ models of the parts of it whose correctness depends on the
order in which things happen, the TLC configurations that check them on small
instances, and proofs that TLAPS checks for instances of every size. The models
are translated from the source; `PROJECT.json` gives, for every definition that
models code, the lines it models.

Three parts are covered: the agent harness (`crates/maju-acp`) with its event queue,
main loop, agent pool and circuit breakers; Git hosting on object storage
(`maju-relay/src/api/git`) with the announcements that create repositories; and the
deletion of a whole community (`maju-deletion`, `maju-db`) against the relays that
still serve it.

## Inventory

| Part | State it keeps | Operations | Interacts through | What is hard, and what makes it correct |
|---|---|---|---|---|
| Event queue (`maju-acp/queue.rs`) | queues per scope, in-flight marks and deadlines, throttles, retry counts, cancelled carryover, events withheld for a steer | push, flush, mark_complete, three requeues, drain, withhold, release, remove, expiry, compaction | calls from the main loop only | long sequences of legal calls; caps; expiry under a live turn. No accepted event is lost or duplicated; caps and backoff hold |
| Main loop and pool (`lib.rs`, `pool.rs`) | idle agents, sessions, session owners, task map, removed channels, respawns | the arms of `select!`, `dispatch_pending`, `handle_prompt_result`, `recover_panicked_agent`, maintenance | channels from turns, steer watchers, respawn tasks, relay | late acks and results, panics, removed channels, lost wake-ups. One turn per scope, one agent per slot, every event decided |
| Slot circuit breaker (`lib.rs`) | crash times, open_until | record_crash, mark_spawn_failed, can_refill | the main loop | half-open probes; exit only when no slot can come back |
| ACP read loop (`acp.rs`) | pending steer, prompt id, clocks | steer, answers, timeouts | capacity-1 channel, one-shot acks | a steer left in the channel when the turn ends |
| Lazy pool (`pool_lifecycle.rs`) | asleep, waking, ready, failed | wake, sleep | the main loop | sleeping on throttled work |
| Git on object storage (`maju-relay/src/api/git`) | packs, manifests, one pointer per repository, kind:30618 events | info/refs, receive-pack, compaction, CAS publish | object store, database; no lock between relays | concurrent pushes, failures between writes, PUTs carried out late. Refs move atomically, what is published can be cloned, answers are true |
| Repository registry (`side_effects.rs`, `store/git_repo.rs`) | the owner of each name | announce: peek, quota, reserve, lease, seed, roll back | database, object store | rival and sibling announcements. An accepted announcement keeps its name and its pointer |
| Subscriptions (`subscription.rs`, `handlers/req.rs`) | subscriptions, send buffers | REQ, CLOSE, fan-out | pub/sub, database | an event between the stored query and live delivery |
| Ingest (`handlers/ingest.rs`, `side_effects.rs`) | database rows | store, side effects, publish | database, pub/sub | one step of several failing |
| Push outbox (`push_runtime.rs`, `maju-push-gateway`) | leases, outbox, grants | enqueue, claim, deliver, revoke | database, APNs | at-least-once delivery, lease expiry |
| Admin workers (`handlers/admin_*_worker.rs`) | outbox rows, claims | claim, run, retry | database | crash after the action, before the mark |
| Workflow engine (`maju-workflow`) | runs, approvals | start, suspend, resume | relay sink | an approval granted twice |
| Device pairing (`maju-core/pairing`) | session phase | offer, confirm, transfer | pair relay | lost and reordered messages |
| Huddles (`audio`, `tunnel`) | rooms, leases, sequence numbers | join, forward, ack | mesh | reordering, owner change |
| Relay mesh (`maju-relay-mesh`) | members, peers | gossip | QUIC | partitions |
| Audit chain (`maju-audit`) | hash chain | append, verify | database | concurrent appends |
| Deletion (`maju-deletion`, `store/deletion.rs`) | request, its lease and stage, the frozen list, fence generation, serving leases | submit, approve, claim, the seven stages, retry, block, abort | database, object store, Redis, serving relays | stalled executors, late PUTs and deletes, aborts under way. Nothing goes before the point of no return, nothing listed survives it |
| Kubernetes backend | intents, pods | reconcile, gc | API server | stale observation |

`PROJECT.json` lists every part, with the reason for each one that is not modelled:
the parts above that are still to come, and those that are left out because they
are I/O, text, user interface or a single decision on one request.

## Modules

- `EventQueue`: the queue as a value. A record whose fields are the tables of
  `struct EventQueue`; each method is an operator from queue to queue. `expire` is
  the start of `flush_next` and `has_flushable_work`; `flush_choice`,
  `flushed_batch` and `flush_next` are the scope the rest of `flush_next` picks, what
  it returns and what it leaves.
- `SlotCircuit`: the breaker of one slot, again as a value with operators.
- `AgentHarness`: the harness. It extends the two and is the state machine.
- `MCHarness`: small sets of scopes and events for TLC; the `.cfg` files give the rest.
- `RefStore`: what a hosted repository promises to clients, the abstract specification.
- `GitPublish`: a push, from info/refs to its answer, over packs, manifests and pointers.
- `RepoRegistry`: announcements; it extends `GitPublish` and composes both. Its
  refinement mapping `RS` shows that the whole implements `RefStore`.
- `MCGit`: a history with a fork, two branches, wanted pushes and starting stores.
- `CommunityDeletion`: executors, serving relays and the operator of one community.
- `MCDeletion`: its instance.
- `EventQueue_proofs`, `AgentHarness_proofs`, `HarnessTurns_proofs`,
  `HarnessEvents_proofs`, `HarnessCustody_proofs`: theorems about the harness, each module
  extending the one before.
- `RepoRegistry_proofs`, `RepoRefinement_proofs`: theorems about Git hosting, the second
  extending the first.
- `CommunityDeletion_proofs`: the theorems about the deletion.

### How the harness is modelled

The main loop of the code is one task that owns the queue, the pool and the
membership tables; an arm of `select!` runs to its end before the next starts. So an
arm is one action, with every queue method it calls. The one part of an arm that is
cut into steps is `dispatch_pending`, a loop: `pc = "dispatch"` is one iteration
(`DispatchHold`, `DispatchClaim`, `DispatchExhausted`, `DispatchDone`) and
`pc = "release"` one held batch put back (`ReleaseHeld`). Nothing else of the loop runs
in between, but turns, respawns, steers and time do. `resume` is where the loop goes
on: to the top, to `CollectRespawns` or to `select!`.

| Action | Code |
|---|---|
| `RelayEvent` | a normal relay event: admission, `push`, `steer_or_interrupt`, dispatch |
| `OwnerCommand` | `!cancel` and `!rotate` |
| `MemberRemoved`, `MemberAdded` | membership notifications |
| `PromptResult`, `DrainDone` | the Result arm: `handle_prompt_result`, `drain_ready_join_results` |
| `RecoverPanicked` | `recover_panicked_agent` from the Panic arm or the drain |
| `SteerAcked` | the SteerAck arm |
| `Maintenance`, `CollectRespawns` | the top of the loop |
| `TimerTick`, `HeartbeatTick` | presence, typing and heartbeat timers |
| `TurnSucceeds`, `TurnFails`, `TurnCancelled`, `TurnPanics` | the ends of `run_prompt_task` |
| `SteerTaken`, `SteerAnswered` | the steer arm of the ACP read loop |
| `RespawnEnds` | the respawn task and its guard |
| `ThrottleElapses`, `DeadlineElapses`, `HoldElapses`, `CircuitCools` | time |

Abstractions:

- The pool starts with any nonempty set of its agents: `initialize_agent_pool` accepts a
  partial pool. A slot whose agent failed to start is empty, with a closed breaker, until
  `Maintenance` tries it. A failed start counts towards `MaxFailures`, like a failed turn or
  respawn, so the runs that allow no failure start with all agents.
- An `Instant` is compared with now and nothing else, so it has two or three values
  and a time action moves it on. Durations do not appear.
- An event is its arrival stamp. Its `created_at` is a constant function; the runs use
  the order of a relay replay, newest first.
- The outcomes of a turn are grouped by what `handle_prompt_result` does with them:
  `ok`, `cancelled`, `drain_timeout`, `hard_silent` (hard cap without recent activity,
  dead-lettered at once), `crashed` (exit, idle timeout, hard cap with recent activity,
  transport error), `auth`, `app_error` (every other error, project context included).
- `served`, `discarded`, `attempts` and `q.evicted` are history. An event is discarded
  when the code decides to give it up: dead letter, removed channel, Drop mode, `!cancel`,
  `!rotate`. It is evicted when a depth cap drops it. Each decision is logged or
  announced by the code.
- When two scopes expire in the same call the code recovers them one after the other
  and applies the channel cap each time; `expire` applies it once, after both.
- The crash window of the breaker is a choice: how many of the recorded crashes are
  still inside it when the next one comes.

### How Git hosting is modelled

A push is a record that moves through the phases of `receive_pack` and
`finalize_push`. Between two phases anything else may happen; there is no lock in the
code, and one handler's only knowledge of the store is what it read at hydration
(`base`).

| Action | Code |
|---|---|
| `info_refs` | GET info/refs: the client sees the published refs |
| `receive_pack` | POST: `hydrate_for_write`, `git receive-pack` in the workspace, the report |
| `prepare_compaction`, `put_pack` | one pack for all, or a delta pack; the pack limit |
| `put_manifest` | `compose_after`, `put_manifest`, and the PUT of the pointer leaves |
| `put_pointer`, `StoreSeed` | the object store carries a PUT out, waited for or not |
| `lost_race`, `finalize_push`, `fail_push` | 409; kind:30618 and 2xx; every other answer |
| `repo_name_owner` to `emit_initial_ref_state` | the steps of `handle_git_repo_announcement` |

- A commit stands for its objects; `Reach` gives the commits it needs. A pack is the set of
  what it holds, and is its own key. A manifest's digest is its place in the sequence of
  manifests ever stored; equal content has one place, as with a hash.
- The ETag of a pointer depends on its body alone, so If-Match would also succeed when the
  pointer returned to an earlier digest. It never does: each manifest names its parent.
- git itself is external: it refuses a command whose old commit is not the branch's, or
  whose objects are missing, and without `--atomic` it carries out the others. Real
  `receive-pack` does not look at the old commit of a deletion when the object of that commit
  is missing from the workspace; the model assumes that it always looks (`RefusedCommands`),
  and `RefinesRefStore` rests on that.
- Compaction yields one pack. The code lets git split it by `--max-pack-size`; several packs
  that hold together what one would are published by the same manifest, and a split into too
  many packs is not usable: the push then falls back to a delta pack, which the model allows
  at any time.
- An error may come at every step. A PUT that has left is carried out or not, later.

### How the deletion is modelled

There is one community. A request has the stages of `DeletionStage`; an executor has the
token of its claim and the position inside the stage it executes. Each transaction is an
action, guarded by the token as `verify_lease` and `verify_lease_and_fence` do it. A call
to the object store or to Redis is a step of its own, and deletes and PUTs are carried out
later, whoever still waits. Time is a lease that may expire at any moment: after that, the
stalled executor or relay may go on with what it was doing.

A serving operation of a relay (`Writer`) takes a lease, sends one PUT, and writes one row
under the lease; or writes a row without a lease. Its object and row carry its name, so
that a property can say which is left. The frozen list is a set, a chunk is one object.
`request.owner` is the holder of a lease that has not expired. `cache` and `connected`
(Redis, open connections, `set_presence`) decide which stages can succeed; no property is
about them.

### Wrong versions

Definitions named `x_y` in front of a definition `x` are `x` with a mistake a programmer
could make. They are not part of the specification; replacing `x` by one of them must
make a run fail, which shows that the run would notice the mistake.

## Properties

- `NoSilentLoss`: every accepted event is in a queue, in carryover, withheld, held or in
  a turn, or it was served, discarded or evicted.
- `OnlyCarryoverIsLost`: an action property; a step lets go of an event without such a
  decision only if it ends a failed turn that carried the event as a cancelled one.
- `NoDoubleDelivery`: it is in one such place at a time, and in none once it is decided.
- `OneTurnPerScope`: the in-flight marks are exactly the scopes of live turns and held
  batches, one each.
- `WithheldHasWatcher`: a withheld event has a steer that will be answered.
- `BackoffRespected`: no step puts a scope in flight while its backoff is running.
- `InFlightArmed`: in-flight marks and deadlines come and go together.
- `ExitJustified`: the harness gives up only when no respawn is under way and the breaker of
  every slot has opened, or the slot failed to start and has not been tried since. The second
  case is real: the exit test does not ask whether maintenance could still fill a slot.
- `SessionsStripped`, `NoSlotOverwrite`, `CapsHold`: see the comments in `AgentHarness`.
- `AttemptsBounded`: no event takes part in more than MAX_RETRIES + 1 failed turns.
- `EventuallyDecided`, `NeverWedged`: liveness.

Git hosting:

- `Cloneable`: all packs of every stored manifest are there, hold what its refs need, and
  its HEAD is a branch.
- `NoFork`: no two pushes that moved the pointer built on the same manifest.
- `LoserHasWinner`: a push that is told it was superseded was.
- `AnnouncedHoldsName`: an accepted announcement keeps its name and has a pointer.
- `ReportedIsPublished`: a branch reported as updated was published.
- `RefinesRefStore`: each push takes effect at once or not at all, from the commits its
  client had seen; "ok" and "refused" are true for ever, an error leaves both open.

Deletion:

- `LeaseHoldsOffFence`: while a serving lease is held the fence does not fall.
- `PurgedStaysEmpty`: no row after the purge.
- `WholeUntilDrained`: before the stage `drained`, and after an abort, every object is there
  and no delete is under way.
- `FreezeIsComplete`: the frozen list is the whole storage, up to PUTs whose lease was over
  before the store carried them out.
- `BindingsGone`: what the list names is gone for good once the request says so.
- `StaleExecutorIsFencedOut`: an action property; without its lease an executor changes
  neither the request nor the community nor the rows and sends no delete, and what is
  appended to the list comes from the listing of the executor that holds the lease.

## Runs

Deadlock is not checked: the harness may exit, and the events, pushes, announcements and
claims of a run are finite.

| Run | Instance | Shows |
|---|---|---|
| `HarnessQueue` | 2 threads of a channel, 2 agents, 3 events, batch 1, caps 2, 1 failure, 1 command | safety of queueing, holding, requeueing and removal |
| `HarnessSteer` | steer mode, 1 scope, 2 agents, 2 events, 1 command, no failure, turns may overrun, fair | steering and cancel-and-merge lose nothing and end |
| `HarnessSteerFaults` | steer mode, 1 scope, 3 events, 1 failure, 2 commands | no duplicates, orphans or early retries, also when the channel is left and joined again during a turn; only the carryover of a failed turn is lost |
| `HarnessDrop` | Drop mode, owner interrupts, heartbeats, 2 agents, 2 failures, 1 command, threshold 1, turns may overrun | exit only when no slot that ever had an agent can come back; partial starts; the backstop under a live turn |
| `HarnessLive` | 2 threads, 2 agents, 2 events, 1 failure or failed start, fair | liveness with holds, crashes, retries and a partial pool |
| `CarryoverLoss` | interrupt mode, 2 events, 1 failure | violation, see Findings |
| `RetryReset` | 1 agent, 1 event, 3 failures | violation, see Findings |
| `QuietLoop` | no timers, 1 event, 1 failure, fair | violation, see Findings |
| `GitRelay` | 2 pushes to one repository, 2 owners, 1 name, 2 announcements, 3 commits, 2 branches, threshold 1, 2 packs | the Git properties and the refinement |
| `PartialReject` | 2 pushes, 1 announcement | violation, see Findings |
| `AnnounceRollback` | 2 announcements of one owner | violation, see Findings |
| `Deletion` | 2 executors, 2 serving operations, 1 old object, 2 requests, 2 claims, 2 retries | the deletion properties |

The bounds are small but each interesting case needs few events: caps of 2 with 3 events
overflow on push and on requeue; a batch of 1 leaves a remainder behind a turn; two
threads are needed for a busy owner and for the channel cap to choose a victim; a second
agent for a fork and for two turns of one scope after an expiry; a third event to arrive
while one is withheld and one is in a turn. Failures and commands are bounded because each
multiplies the states; the sequences that need more of them are what the proofs are for.
The passing runs in steer mode that check `NoSilentLoss` allow no failed turn, since a
failure after a merge is the loss that `CarryoverLoss` reports. A third event that arrives
while one is withheld and one is in a turn is in `HarnessSteerFaults`, which looks for
duplicates and orphans, and for losses other than that one (`OnlyCarryoverIsLost`).

`GitRelay` starts from an empty store or from a repository with two pushes behind it; with
a compaction threshold of 1 and a limit of 2 packs every push may compact, fall back to a
delta or hit the limit, and the wanted pushes force a branch to a sibling commit, create one
and delete one, so that objects become unreachable while another push still counts on
them. A race needs two pushes; a third one meets nothing that the second has not met, since
a push sees others only through the pointer. Its announcements are of rivals: for two of the
same owner `AnnouncedHoldsName` is false, which `AnnounceRollback` reports. Pushes are
interchangeable, and so are executors and serving operations in `Deletion`.

`Deletion` allows two claims of the first request and one of the second: an executor that
stalls, one that takes over, and the first waking up again, also after an abort. Two
serving operations are one that is on time and one that is late. `MAX_RETRIES` is 2 instead
of 8, so that retrying and blocking both happen; `MAX_REQUESTS` and `MAX_CLAIMS` are bounds of
the model only.

### Fairness

`FairSpec` assumes: the loop goes on between two visits of `select!`; a turn ends (idle
timeout and hard cap), a respawn ends (spawn timeout, and the guard answers for a panic), a
steer is answered or ended by its turn; time passes; the presence or typing timer ticks.
Strong fairness is assumed of the result, panic and steer-ack arms, which are disabled
whenever the loop is elsewhere: `select!` is biased and polls them before the relay, so
they do not starve. Strong fairness of `Maintenance` stands for its interval: an
iteration that finds it elapsed comes again and again as long as the timer ticks. Relay
events, owner commands and membership changes are not fair: nobody has to send them.
The deadline of an in-flight mark is not assumed to fire. The Git and deletion runs check
safety only: a push may fail for ever, and a deletion may stay blocked.

## Findings

1. `CarryoverLoss`. A request is interrupted and rides along as carryover of the next
   batch. If that turn fails, `requeue` restores the batch's events but not its cancelled
   events. `requeue_preserve_timestamps` does restore them, and its comment says why.
2. `RetryReset`. `dispatch_pending` returns a batch it cannot place, or holds for a busy
   owner, through `mark_complete`, which resets the retry counter once the throttle has
   elapsed. A batch that crashes its agent while the slot is respawning is therefore
   retried more often than MAX_RETRIES, possibly for ever.
3. `QuietLoop`. Respawn results and elapsed throttles wake nothing. With presence and
   typing disabled and no heartbeat, a requeued batch waits for the next relay event.
4. `PartialReject`. A push of two branches, one of which has moved: `receive-pack` refuses
   that one and carries out the other in the workspace. The relay sees an `ng` and
   publishes nothing, but the report, with its `ok`, goes to the client.
5. `AnnounceRollback`. The roll-back of a failed announcement deletes the name row also
   when a second announcement of the same owner has meanwhile been accepted because of
   that row. The repository then has a pointer, and its name is free.

Smaller observations of the Git and deletion models, noted with the hazards: fence and drain
wait for serving leases, not for the PUTs sent under them, so a PUT whose lease ended on the
way may be carried out after the listing, where a comment says that no key can appear; no
stage deletes that object, and the request ends blocked (`FreezeIsComplete` without
`LateObjects` is false of the model); an error answer to a push may be followed by its publication, although a comment says that
no pointer was written; after "push committed but ref-state publication failed; retry" the
retry is a push without changes and publishes no kind:30618, where
`docs/git-on-object-storage.md` calls a failed insert non-fatal.

Smaller observations of the harness, noted with the hazards: a slot that failed to start is
not tried before the first maintenance, 30 s later, and if the other agents trip their
breakers before that the harness exits without having tried it again; the carryover fallback of `flush_next` is not
sorted, so after an interrupt and a removal and re-join the newest event need not be last;
the in-flight deadline covers one turn budget while a turn with an initial message has
two; the `join_next` arm is deaf after a task that ended well until the next wake; the
comment in `requeue` says "oldest" of the newest events it trims.

## Proofs

TLAPS checks the proofs for instances of every size: every number of agents, scopes,
channels and events, every cap and every mode of the harness; every history, every number
of repositories, branches, pushes and announcements, and every pack limit of Git hosting;
every number of executors, serving operations, objects and requests of a deletion. What is
assumed of the constants are `QueueAssumption`, `CircuitAssumption`, `HarnessAssumption`,
`GitAssumption`, `RegistryAssumption` and `DeletionAssumption`, which TLC evaluates on the
runs. Six theorems have a premise of their own, given below with its reason.

- `EventQueue_proofs` proves what each method preserves: it maps queues to queues, and
  what it does to the in-flight marks and deadlines. `SortIsPermutation`: the sort of a
  batch loses and repeats nothing. It rests on the ranks of the positions being a
  bijection, by counting.
- `AgentHarness_proofs`: `TypeCorrect`, `Spec => []TypeOK`. TypeOK is not inductive: that
  `q' = Completed(...)` stays a queue needs to know that the batch of a task belongs to the
  task's scope, and that a heartbeat has none (`BatchOfTask`); that `ReleaseHeld` finds a
  batch needs `ReleaseHasHeld`. `Inv` is the conjunction.
- `HarnessTurns_proofs`:
  - `SlotsNeverOverwritten`, `RemovedSessionsStripped` and `ExitIsJustified` are from
    `SlotInv`, which adds `DeadSlotOpen`: an empty slot without a respawn under way has had
    its breaker opened, or has the untouched breaker of a slot that failed to start. Without it nothing ties the exit test, which looks at agents and
    respawns, to the breakers.
  - `InFlightAlwaysArmed` needs no strengthening beyond `Inv`. `OneTurnAtATime` assumes
    `~TurnOverrun` and uses `TurnInv`, which adds `NoDue`: no deadline is ever due, so
    `expire` changes nothing. With overruns the property is false: a scope may then be
    prompted while its old turn still runs.
- `HarnessEvents_proofs`:
  - `WithheldIsWatched`, from `WatchInv`: a withheld event arrived before, is withheld once
    and has its watcher. That it is withheld once is needed because the answer to a steer
    removes one occurrence and the watcher.
  - `BackoffIsRespected`, an action property, from `Calm`: a scope that is in flight or
    throttled has no carryover, and a scope in flight is not throttled. `flush_next` asks
    for the throttle only when it looks at queued events, not at carryover; the invariant
    is why that is enough. It assumes `~TurnOverrun`: with two turns of one scope, the first
    may fail and set the throttle, and the second be cancelled and leave carryover, which is
    then prompted during the backoff.
  - `CapsAlwaysHold`, for finitely many scopes. The caps are an invariant by themselves, but
    the aggregate cap of a channel takes a counting argument. `EnoughVictims`: the cap drops
    the first `excess` events of the channel in arrival order, so if fewer were dropped, the
    first one left would have fewer than `excess` before it and would have been dropped.
    What is left then fits, since the cells left map one to one into those not dropped.
- `HarnessCustody_proofs` keeps books of the events. `OnBooks` are the events in the queue's
  tables, with held batches and turns, and the decided ones; `CustodyFacts` shows that these
  are the events of `InCustody` and `Decided`. For each queue method a lemma says which events
  it moves, and for each action which it hands on: `Accounts(X)` says that a step keeps all
  events but `X` on the books, takes no decision back, and keeps the books in order.
  `NextAccounts`: `X` is empty for every step, except the end of a turn, where it is the
  carryover of the turn's batch unless it was cancelled.
  - `OnlyTheCarryoverIsLost` is an action property and needs no premise. It uses `Whole`: a
    turn without events has no carryover either, so a batch that is not given back for
    being empty takes nothing with it.
  - `NothingDeliveredTwice`, from `Books` and `SteersApart`. `Books`: queue, held batches, turns and
    decisions are disjoint, no sequence has an event twice, and what is in them has arrived,
    so a new event is nowhere yet. `SteersApart`: an event has at most one steer, and is withheld or
    decided until that is answered; without it a late success could serve an event that is
    back in a queue or a turn. The premise is that in steer mode no turn outlives its
    deadline. Otherwise the backstop returns a withheld event to its queue while its steer
    is under way, and another turn may get the event that the steer delivers.
  - `NothingIsLost`, for queue mode, for Drop mode, and for every mode if nothing fails
    (`MaxFailures = 0`); otherwise an event may be lost (`CarryoverLoss`). In the first two there is no
    carryover at all (`NoCarry`): in queue mode only `!cancel` and `!rotate` stop a turn
    and they drop the batch, and in Drop mode a stopped turn does not give its batch back.
    Without failures a turn that returns was served or cancelled (`Intact`), and
    `requeue_as_cancelled` keeps both halves of the batch.
- `RepoRegistry_proofs`: `RegistryTypeCorrect`, with `Inv`: the types, what a push has in
  each phase (`Shapes`), and that the digests held by pushes, pointers and seeds name stored
  manifests. Nothing stored is ever taken away (`StoreGrows`), so what a push once read
  stays true.
  - `RepositoriesAreCloneable` needs `PackedReady`: between putting its pack and its manifest a
    push has all packs its manifest will name, and they hold what its refs need.
  - `HistoryDoesNotFork`: If-Match compares content, so it would accept a pointer that has
    been moved away and back. `LineInv` shows there is no way back: a manifest is stored
    after its parent, what a push publishes comes after its base, the pointer is past the
    base of every winner, and no two winners share a base.
  - `ConflictIsReal`, from `RaceInv`: the pointer is still at the base of a push, or somebody
    else has moved it on from there.
  - `AnnouncedStaysSeeded`: an accepted announcement has a pointer for good, without premise.
    `AnnouncedKeepsName` adds that it keeps its name, provided that no repository is announced
    twice: the finding `AnnounceRollback` is what happens otherwise. Both are from `NameInv`.
- `RepoRefinement_proofs`: `RelayImplementsRefStore`, Git hosting implements `RefStore`. `RefInv`
  ties a push to the abstract one: on the branches it names, its base has the commits its
  client had seen, and the manifest it publishes has the refs `RefStore` would give. Then the
  arrival of a push is a submission, the PUT that wins is the application, the end of a push
  is its answer, and every other step of a push, an announcement or the store stutters
  (`PushStepMaps`, `AnnounceStutters`).
- `CommunityDeletion_proofs`: `DeletionTypeCorrect`; the types are inductive with
  `RetryLeft` (a request that is not blocked has a retry left, so that counting a failure
  stays within the limit). `FenceWaitsForLeases` and `PurgedForGood` are inductive with the
  types alone: only three transactions and the abort change the community, and what each
  of them waits for is what the invariants need. `StaleExecutorsPowerless` is an action
  property: a step changes the position of one executor only (`OthersStay`), without its
  lease that step writes nothing that counts (`TokenNeeded`), and what a step appends to the
  list is from the listing of the executor that takes it, under its lease
  (`AppendsItsListing`, with `OnStage` below).
  - `AbortLeavesWhole` needs `OnStage`: every position of an executor belongs to the stage its
    token is for. With it a valid token puts a request whose objects are being deleted past
    the point of no return, and no step of an executor or the operator takes it back
    (`StagesGoOn`, `OperatorGoesOn`).
  - `ListedIsGone`, from `ListInv`: an operation sends one PUT, what was not sent is not
    listed, and a listed object whose chunk is stamped is gone. So when the last chunk is
    stamped nothing listed is left, and nothing listed has a PUT under way.
  - `FrozenListIsWhole`, from `FreezeInv`: what a valid executor has listed is the storage up to
    late PUTs, and a frozen request is behind the fence. A PUT that arrives during the listing
    is late, because the fence had waited for every lease.

Only model-checked:

- the liveness properties `EventuallyDecided` and `NeverWedged`, since fairness is out of the
  prover's reach.

`AttemptsBounded`, `ReportedIsPublished` and the properties of the other violation runs are
false of the code.

## Not modelled

In the harness: model switching and `cancel_turn` frames of the observer, the timestamp
dedup of membership notifications, the delivery ledger, reactions and failure notices,
context fetches before a prompt, shutdown, and the lazy pool. In Git hosting: clones (a
read of one manifest), the pack cache and idx sidecars (copies of immutable objects), byte
limits, authentication, and what the policy hook decides (the model lets it decline any
push). In the deletion: the taxonomy sweep, audit checkpoints, inventory digests, the
catalog checks beyond their failing. The repository's other parts are listed above.

## Plan

Every invariant and action property of the passing runs is a theorem. What is left is to
model more of the system: `PushOutbox` (leases, retries and revocation of wake-ups),
`PoolLifecycle` (lazy wake and idle sleep, composed with the queue) and `Subscriptions`
(registration against fan-out and the stored query).
