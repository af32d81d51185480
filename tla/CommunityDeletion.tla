-------------------------- MODULE CommunityDeletion --------------------------
(***************************************************************************)
(* Deletion of a whole community (maju-deletion, maju-db store/deletion.rs) *)
(* from its submission on.  Executors take turns under a lease on the      *)
(* request row: they quiesce and fence the community, freeze the list of   *)
(* its objects, delete them chunk by chunk, purge its rows and its cache,  *)
(* and verify that nothing is left. An operator may abort and submit anew. *)
(* Relays serve the community meanwhile: an effect outside Postgres runs   *)
(* under a serving lease of its own, and the fence waits for these leases. *)
(*                                                                         *)
(* Time is abstracted: a lease may expire at any moment, which stands for a *)
(* process that stalled, lost its database or died.  Every transaction is  *)
(* one action, and so is every call to the object store or to Redis; such a *)
(* call is carried out later, whether or not the caller still waits for it. *)
(* Objects are versions: nobody writes the same one twice.                 *)
(***************************************************************************)
EXTENDS Naturals, FiniteSets

CONSTANTS
  Executor, NoExecutor,
  Writer,        \* serving operations of the relays, each with one external effect
  OldObject,     \* the versions stored before the first request
  MAX_RETRIES,   \* the failures in a row at one stage that block a request: 8
  MAX_REQUESTS,  \* a bound on the requests for the community, for model checking
  MAX_CLAIMS     \* a bound on the claims of a request, for model checking

ASSUME DeletionAssumption ==
  /\ NoExecutor \notin Executor
  /\ Writer \cap OldObject = {}
  /\ MAX_RETRIES \in Nat \ {0}
  /\ MAX_REQUESTS \in Nat
  /\ MAX_CLAIMS \in Nat

Object == Writer \cup OldObject

VARIABLES
  community,   \* communities: deletion_state and deletion_fence_generation
  request,     \* the last of community_deletion_requests, with its manifest's chunks
  executor,    \* what each executor is doing, and the token it was given
  writer,      \* the serving operations and their leases
  objects,     \* the versions under the community's prefixes
  deleting,    \* the deletes the object store has not carried out yet
  rows,        \* the writers whose rows are in the community's tables
  cache,       \* whether Redis holds a key of the community
  connected    \* whether a relay still has a connection of the community

vars == <<community, request, executor, writer, objects, deleting, rows, cache, connected>>

Runnable == {"approved", "fenced", "drained", "bindings_removed", "postgres_purged",
             "cache_purged", "logically_verified"}
Terminal == {"retention_pending", "aborted"}

\* A new row; only the row of an aborted request may be there already.
NewRequest(id) ==
  [id |-> id, stage |-> IF id = 0 THEN "none" ELSE "submitted", blocked |-> FALSE,
   owner |-> NoExecutor, generation |-> 0, fence |-> 0, retries |-> 0,
   frozen |-> FALSE, manifest |-> {}, chunks |-> {}]

\* DeletionStage::next.
NextStage ==
  [approved |-> "fenced", fenced |-> "drained", drained |-> "bindings_removed",
   bindings_removed |-> "postgres_purged", postgres_purged |-> "cache_purged",
   cache_purged |-> "logically_verified", logically_verified |-> "retention_pending"]

\* lease_owner and lease_until: the owner is the holder of a lease that has not
\* expired.  Nothing the code does depends on who held one that has.
Held == request.owner # NoExecutor
Released(r) == [r EXCEPT !.owner = NoExecutor]

\* (A wrong version: it does not look at the token.)
verify_lease_any(e) ==
  /\ Held
  /\ ~request.blocked
  /\ request.stage = executor[e].stage

\* A token for an earlier request names a row that is aborted.
verify_lease(e) ==
  /\ request.id = executor[e].request
  /\ request.stage = executor[e].stage
  /\ request.owner = e
  /\ request.generation = executor[e].generation
  /\ ~request.blocked

verify_lease_and_fence(e) ==
  /\ verify_lease(e)
  /\ request.fence = executor[e].fence
  /\ community.generation = executor[e].fence
  /\ community.state \in {"fenced", "tombstone"}

\* advance_request_tx: the next stage, and no failures in a row.
Advanced(r) == [r EXCEPT !.stage = NextStage[r.stage], !.retries = 0]

LeaseHeld(w) == writer[w].lease = "live"

To(e, phase) == executor' = [executor EXCEPT ![e].phase = phase]

-----------------------------------------------------------------------------
(* The serving side.                                                       *)

\* A lease only for an active community; it carries the fence generation.
acquire_serving_write_lease(w) ==
  /\ writer[w].phase = "idle"
  /\ community.state = "active"
  /\ writer' = [writer EXCEPT ![w] = [@ EXCEPT !.phase = "admitted", !.lease = "live",
                                              !.generation = community.generation]]
  /\ UNCHANGED <<community, request, executor, objects, deleting, rows, cache, connected>>

\* (A wrong version: the row of the lease is there, whatever has happened since.)
ServingLeaseValid_found(w) == writer[w].lease # "none"

\* verify_serving_write_lease, and the guard of a final transaction.
ServingLeaseValid(w) ==
  /\ LeaseHeld(w)
  /\ community.state \in {"active", "quiescing"}
  /\ community.generation = writer[w].generation

\* ServingWriteGuard::protect verifies the lease and sends the effect.
protect(w) ==
  /\ writer[w].phase = "admitted"
  /\ ServingLeaseValid(w)
  /\ writer' = [writer EXCEPT ![w] = [@ EXCEPT !.phase = "sent", !.put = "sent"]]
  /\ UNCHANGED <<community, request, executor, objects, deleting, rows, cache, connected>>

\* The object store carries the PUT out; late: its lease is over by then.
StorePut(w) ==
  /\ writer[w].put = "sent"
  /\ objects' = objects \cup {w}
  /\ writer' = [writer EXCEPT ![w].put = IF LeaseHeld(w) THEN "stored" ELSE "late"]
  /\ UNCHANGED <<community, request, executor, deleting, rows, cache, connected>>

\* The transaction that makes the effect visible checks the lease again.
guard_transaction_with_serving_lease(w) ==
  /\ writer[w].phase = "sent"
  /\ writer[w].put \in {"stored", "late"}
  /\ ServingLeaseValid(w)
  /\ rows' = rows \cup {w}
  /\ writer' = [writer EXCEPT ![w].phase = "wrote"]
  /\ UNCHANGED <<community, request, executor, objects, deleting, cache, connected>>

\* A write to Postgres alone: no lease, the community must be active.
guard_transaction(w) ==
  /\ writer[w].phase = "idle"
  /\ community.state = "active"
  /\ rows' = rows \cup {w}
  /\ writer' = [writer EXCEPT ![w].phase = "done"]
  /\ UNCHANGED <<community, request, executor, objects, deleting, cache, connected>>

\* finish after the last step, or Drop at any other: a guard that is dropped
\* gives the lease back although its PUT may still be under way.
release_serving_write_lease(w) ==
  /\ writer[w].phase \in {"admitted", "sent", "wrote"}
  /\ writer' = [writer EXCEPT ![w] = [@ EXCEPT !.phase = "done", !.lease = "none",
                                              !.generation = 0]]
  /\ UNCHANGED <<community, request, executor, objects, deleting, rows, cache, connected>>

\* lease_until passes: the heartbeat stalled, or the relay is gone.
ServingLeaseExpires(w) ==
  /\ LeaseHeld(w)
  /\ writer' = [writer EXCEPT ![w].lease = "expired"]
  /\ UNCHANGED <<community, request, executor, objects, deleting, rows, cache, connected>>

\* A client that is still connected sets its presence, with no lease.
set_presence ==
  /\ connected
  /\ ~cache
  /\ cache' = TRUE
  /\ UNCHANGED <<community, request, executor, writer, objects, deleting, rows, connected>>

WriterStep(w) ==
  \/ acquire_serving_write_lease(w)
  \/ protect(w)
  \/ StorePut(w)
  \/ guard_transaction_with_serving_lease(w)
  \/ guard_transaction(w)
  \/ release_serving_write_lease(w)
  \/ ServingLeaseExpires(w)

-----------------------------------------------------------------------------
(* The lease of an executor.                                               *)

Resting ==
  [phase |-> "idle", request |-> 0, generation |-> 0, stage |-> "approved", fence |-> 0,
   frozen |-> FALSE, listed |-> {}, chunk |-> {}]

\* What an executor knows of the request when it starts a stage.
Briefed(e, r) ==
  executor' = [executor EXCEPT ![e] = [Resting EXCEPT !.phase = r.stage,
                 !.request = r.id, !.generation = r.generation, !.stage = r.stage,
                 !.fence = r.fence, !.frozen = r.frozen]]

Leave(e) == executor' = [executor EXCEPT ![e] = Resting]

Busy(e) == executor[e].phase # "idle"

\* A runnable request nobody holds; next_attempt_at is reached sooner or later.
Claimable == request.stage \in Runnable /\ ~request.blocked /\ ~Held

claim(e) ==
  /\ ~Busy(e)
  /\ Claimable
  /\ request.generation + request.id <= MAX_CLAIMS
  /\ request' = [request EXCEPT !.owner = e, !.generation = @ + 1]
  /\ Briefed(e, request')
  /\ UNCHANGED <<community, writer, objects, deleting, rows, cache, connected>>

\* A catalog that does not validate blocks the request instead.
claim_blocks ==
  /\ Claimable
  /\ request' = [Released(request) EXCEPT !.blocked = TRUE]
  /\ UNCHANGED <<community, executor, writer, objects, deleting, rows, cache, connected>>

\* (A wrong version: the next stage starts whatever the request says.)
heartbeat_skipped(e) ==
  /\ executor[e].phase = "completed"
  /\ Briefed(e, request)
  /\ UNCHANGED <<community, request, writer, objects, deleting, rows, cache, connected>>

\* The stage is completed: the request is read again and the lease renewed, or
\* the executor ends because the request is finished, blocked or not its own.
heartbeat(e) ==
  /\ executor[e].phase = "completed"
  /\ IF /\ request.owner = e /\ request.generation = executor[e].generation
        /\ request.id = executor[e].request /\ ~request.blocked /\ request.stage \in Runnable
     THEN Briefed(e, request)
     ELSE Leave(e)
  /\ UNCHANGED <<community, request, writer, objects, deleting, rows, cache, connected>>

LeaseExpires ==
  /\ Held
  /\ request' = Released(request)
  /\ UNCHANGED <<community, executor, writer, objects, deleting, rows, cache, connected>>

\* Shutdown, at any await of a stage: the executor gives back its own lease only.
stop_executor(e) ==
  /\ Busy(e)
  /\ request' = IF /\ request.id = executor[e].request
                   /\ request.owner = e /\ request.generation = executor[e].generation
                THEN Released(request) ELSE request
  /\ Leave(e)
  /\ UNCHANGED <<community, writer, objects, deleting, rows, cache, connected>>

\* The process dies: its lease stays until it expires.
ExecutorDies(e) ==
  /\ Busy(e)
  /\ Leave(e)
  /\ UNCHANGED <<community, request, writer, objects, deleting, rows, cache, connected>>

\* record_retry: MAX_RETRIES failures in a row at one stage block the request.
record_retry(r) ==
  [Released(r) EXCEPT !.retries = @ + 1, !.blocked = r.retries + 1 >= MAX_RETRIES]

\* block: a permanent error.
block(r) == [Released(r) EXCEPT !.blocked = TRUE]

\* Any step of a stage may fail, also after its transaction was committed; a
\* token that is stale by now leaves the request alone.
record_stage_failure(e) ==
  /\ Busy(e)
  /\ IF verify_lease(e)
     THEN request' \in {record_retry(request), block(request)}
     ELSE UNCHANGED request
  /\ Leave(e)
  /\ UNCHANGED <<community, writer, objects, deleting, rows, cache, connected>>

-----------------------------------------------------------------------------
(* The stages.                                                             *)

\* Approved, after a preflight that changes nothing.
begin_quiescing(e) ==
  /\ executor[e].phase = "approved"
  /\ verify_lease(e)
  /\ community.state \in {"active", "quiescing"}
  /\ community' = [community EXCEPT !.state = "quiescing"]
  /\ To(e, "fencing")
  /\ UNCHANGED <<request, writer, objects, deleting, rows, cache, connected>>

\* While a serving lease is held the fence fails, and is retried by a later claim.
fence(e) ==
  /\ executor[e].phase = "fencing"
  /\ verify_lease(e)
  /\ \A w \in Writer : ~LeaseHeld(w)
  /\ community.state = "quiescing"
  /\ community' = [state |-> "fenced", generation |-> community.generation + 1]
  /\ request' = [Advanced(request) EXCEPT !.fence = community.generation + 1]
  /\ To(e, "completed")
  /\ UNCHANGED <<writer, objects, deleting, rows, cache, connected>>

\* Connections are told to close; the message may be lost.
publish_disconnect_community(e) ==
  /\ executor[e].phase = "fenced"
  /\ verify_lease_and_fence(e)
  /\ connected' \in {FALSE, connected}
  /\ To(e, "disconnected")
  /\ UNCHANGED <<community, request, writer, objects, deleting, rows, cache>>

\* A manifest that is frozen already is kept; otherwise the chunks of an
\* interrupted freeze are dropped and the prefixes are listed.
serving_writes_drained(e) ==
  /\ executor[e].phase = "disconnected"
  /\ \A w \in Writer : ~LeaseHeld(w)
  /\ IF executor[e].frozen
     THEN To(e, "draining") /\ UNCHANGED request
     ELSE /\ verify_lease_and_fence(e)
          /\ ~request.frozen
          /\ request' = [request EXCEPT !.chunks = {}]
          /\ executor' = [executor EXCEPT ![e] = [@ EXCEPT !.phase = "listing", !.listed = objects]]
  /\ UNCHANGED <<community, writer, objects, deleting, rows, cache, connected>>

append_manifest_key_chunk(e) ==
  /\ executor[e].phase = "listing"
  /\ verify_lease_and_fence(e)
  /\ ~request.frozen
  /\ \E o \in executor[e].listed \ request.chunks :
       request' = [request EXCEPT !.chunks = @ \cup {o}]
  /\ UNCHANGED <<community, executor, writer, objects, deleting, rows, cache, connected>>

\* (A wrong version: a listing that was cut short is frozen as it is.)
freeze_truncated(e) ==
  /\ executor[e].phase = "listing"
  /\ verify_lease_and_fence(e)
  /\ request' = [request EXCEPT !.frozen = TRUE, !.manifest = request.chunks]
  /\ To(e, "draining")
  /\ UNCHANGED <<community, writer, objects, deleting, rows, cache, connected>>

\* The chunks must be what was listed.
freeze_destructive_storage_manifest(e) ==
  /\ executor[e].phase = "listing"
  /\ verify_lease_and_fence(e)
  /\ request.chunks = executor[e].listed
  /\ request' = [request EXCEPT !.frozen = TRUE, !.manifest = executor[e].listed]
  /\ executor' = [executor EXCEPT ![e] = [@ EXCEPT !.phase = "draining", !.listed = {}]]
  /\ UNCHANGED <<community, writer, objects, deleting, rows, cache, connected>>

mark_drained(e) ==
  /\ executor[e].phase = "draining"
  /\ verify_lease_and_fence(e)
  /\ \A w \in Writer : ~LeaseHeld(w)
  /\ request' = Advanced(request)
  /\ To(e, "completed")
  /\ UNCHANGED <<community, writer, objects, deleting, rows, cache, connected>>

\* The next chunk without a stamp; the delete leaves after the token is verified.
next_pending_manifest_chunk(e) ==
  /\ executor[e].phase = "drained"
  /\ verify_lease_and_fence(e)
  /\ \E o \in request.chunks :
       /\ deleting' = deleting \cup {o}
       /\ executor' = [executor EXCEPT ![e] = [@ EXCEPT !.phase = "deleting", !.chunk = {o}]]
  /\ UNCHANGED <<community, request, writer, objects, rows, cache, connected>>

\* The object store carries the delete out, whoever asked for it.
StoreDelete ==
  /\ \E o \in deleting :
       /\ objects' = objects \ {o}
       /\ deleting' = deleting \ {o}
  /\ UNCHANGED <<community, request, executor, writer, rows, cache, connected>>

\* (A wrong version: the stamp does not wait for the answer.)
mark_manifest_chunk_deleted_early(e) ==
  /\ executor[e].phase = "deleting"
  /\ verify_lease_and_fence(e)
  /\ request' = [request EXCEPT !.chunks = @ \ executor[e].chunk]
  /\ To(e, "drained")
  /\ UNCHANGED <<community, writer, objects, deleting, rows, cache, connected>>

\* The store answered and the token still holds: the chunk is stamped.
mark_manifest_chunk_deleted(e) ==
  /\ executor[e].phase = "deleting"
  /\ executor[e].chunk \cap objects = {}
  /\ verify_lease_and_fence(e)
  /\ executor[e].chunk \subseteq request.chunks
  /\ request' = [request EXCEPT !.chunks = @ \ executor[e].chunk]
  /\ executor' = [executor EXCEPT ![e] = [@ EXCEPT !.phase = "drained", !.chunk = {}]]
  /\ UNCHANGED <<community, writer, objects, deleting, rows, cache, connected>>

mark_bindings_removed(e) ==
  /\ executor[e].phase = "drained"
  /\ request.chunks = {}
  /\ verify_lease_and_fence(e)
  /\ request' = Advanced(request)
  /\ To(e, "completed")
  /\ UNCHANGED <<community, writer, objects, deleting, rows, cache, connected>>

\* One transaction: every scoped table, the tombstone and the stage.
purge_postgres(e) ==
  /\ executor[e].phase = "bindings_removed"
  /\ verify_lease_and_fence(e)
  /\ community.state = "fenced"
  /\ rows' = {}
  /\ community' = [community EXCEPT !.state = "tombstone"]
  /\ request' = Advanced(request)
  /\ To(e, "completed")
  /\ UNCHANGED <<writer, objects, deleting, cache, connected>>

\* The token is verified before the purge and again when the stage is marked.
verify_before_cache_purge(e) ==
  /\ executor[e].phase = "postgres_purged"
  /\ verify_lease_and_fence(e)
  /\ To(e, "purging")
  /\ UNCHANGED <<community, request, writer, objects, deleting, rows, cache, connected>>

purge_redis_namespace(e) ==
  /\ executor[e].phase = "purging"
  /\ cache' = FALSE
  /\ To(e, "purged")
  /\ UNCHANGED <<community, request, writer, objects, deleting, rows, connected>>

mark_cache_purged(e) ==
  /\ executor[e].phase = "purged"
  /\ verify_lease_and_fence(e)
  /\ request' = Advanced(request)
  /\ To(e, "completed")
  /\ UNCHANGED <<community, writer, objects, deleting, rows, cache, connected>>

\* Nothing may be left, store by store; what is found fails the stage.
verify_postgres_logically_deleted(e) ==
  /\ executor[e].phase = "cache_purged"
  /\ verify_lease_and_fence(e)
  /\ community.state = "tombstone"
  /\ rows = {}
  /\ To(e, "rows_absent")
  /\ UNCHANGED <<community, request, writer, objects, deleting, rows, cache, connected>>

verify_storage_absence(e) ==
  /\ executor[e].phase = "rows_absent"
  /\ objects = {}
  /\ To(e, "objects_absent")
  /\ UNCHANGED <<community, request, writer, objects, deleting, rows, cache, connected>>

verify_redis_absence(e) ==
  /\ executor[e].phase = "objects_absent"
  /\ ~cache
  /\ To(e, "all_absent")
  /\ UNCHANGED <<community, request, writer, objects, deleting, rows, cache, connected>>

mark_logically_verified(e) ==
  /\ executor[e].phase = "all_absent"
  /\ verify_lease_and_fence(e)
  /\ request' = [Advanced(request) EXCEPT !.chunks = {}]
  /\ To(e, "completed")
  /\ UNCHANGED <<community, writer, objects, deleting, rows, cache, connected>>

mark_retention_pending(e) ==
  /\ executor[e].phase = "logically_verified"
  /\ verify_lease_and_fence(e)
  /\ request' = Released(Advanced(request))
  /\ To(e, "completed")
  /\ UNCHANGED <<community, writer, objects, deleting, rows, cache, connected>>

ExecutorStep(e) ==
  \/ claim(e)
  \/ heartbeat(e)
  \/ stop_executor(e)
  \/ ExecutorDies(e)
  \/ record_stage_failure(e)
  \/ begin_quiescing(e)
  \/ fence(e)
  \/ publish_disconnect_community(e)
  \/ serving_writes_drained(e)
  \/ append_manifest_key_chunk(e)
  \/ freeze_destructive_storage_manifest(e)
  \/ mark_drained(e)
  \/ next_pending_manifest_chunk(e)
  \/ mark_manifest_chunk_deleted(e)
  \/ mark_bindings_removed(e)
  \/ purge_postgres(e)
  \/ verify_before_cache_purge(e)
  \/ purge_redis_namespace(e)
  \/ mark_cache_purged(e)
  \/ verify_postgres_logically_deleted(e)
  \/ verify_storage_absence(e)
  \/ verify_redis_absence(e)
  \/ mark_logically_verified(e)
  \/ mark_retention_pending(e)

-----------------------------------------------------------------------------
(* The operator.                                                           *)

\* One request at a time, for an active community.
submit ==
  /\ request.stage \in {"none", "aborted"}
  /\ community.state = "active"
  /\ request.id < MAX_REQUESTS
  /\ request' = NewRequest(request.id + 1)
  /\ UNCHANGED <<community, executor, writer, objects, deleting, rows, cache, connected>>

\* What is counted and listed for the approval binds nobody: it is listed again
\* behind the fence.
freeze_inventory ==
  /\ request.stage = "submitted"
  /\ ~request.blocked
  /\ request' = [request EXCEPT !.stage = "inventoried"]
  /\ UNCHANGED <<community, executor, writer, objects, deleting, rows, cache, connected>>

approve ==
  /\ request.stage = "inventoried"
  /\ ~request.blocked
  /\ request' = [request EXCEPT !.stage = "approved"]
  /\ UNCHANGED <<community, executor, writer, objects, deleting, rows, cache, connected>>

\* The set-up of an executor fails before its claim, at any stage before the end.
block_preclaim_setup ==
  /\ request.stage \notin Terminal \cup {"none"}
  /\ ~Held
  /\ ~request.blocked
  /\ request' = [request EXCEPT !.blocked = TRUE]
  /\ UNCHANGED <<community, executor, writer, objects, deleting, rows, cache, connected>>

Aborted(r) ==
  [Released(r) EXCEPT !.stage = "aborted", !.fence = community.generation + 1,
                      !.generation = @ + 1, !.blocked = FALSE, !.retries = 0]

\* (Wrong versions: aborting after the first deletes, or under a serving lease.)
abort_drained ==
  /\ request.stage \in {"approved", "fenced", "drained"}
  /\ \A w \in Writer : ~LeaseHeld(w)
  /\ community.state # "tombstone"
  /\ community' = [state |-> "active", generation |-> community.generation + 1]
  /\ request' = Aborted(request)
  /\ UNCHANGED <<executor, writer, objects, deleting, rows, cache, connected>>

abort_serving ==
  /\ request.stage \in {"approved", "fenced"}
  /\ community.state # "tombstone"
  /\ community' = [state |-> "active", generation |-> community.generation + 1]
  /\ request' = Aborted(request)
  /\ UNCHANGED <<executor, writer, objects, deleting, rows, cache, connected>>

\* Also while an executor is at work: both generations move on.
abort ==
  /\ request.stage \in {"approved", "fenced"}
  /\ \A w \in Writer : ~LeaseHeld(w)
  /\ community.state # "tombstone"
  /\ community' = [state |-> "active", generation |-> community.generation + 1]
  /\ request' = Aborted(request)
  /\ UNCHANGED <<executor, writer, objects, deleting, rows, cache, connected>>

unblock ==
  /\ request.blocked
  /\ request.stage \notin Terminal
  /\ ~Held
  /\ request' = [Released(request) EXCEPT !.blocked = FALSE, !.retries = 0]
  /\ UNCHANGED <<community, executor, writer, objects, deleting, rows, cache, connected>>

Init ==
  /\ community = [state |-> "active", generation |-> 0]
  /\ request = NewRequest(0)
  /\ executor = [e \in Executor |-> Resting]
  /\ writer = [w \in Writer |-> [phase |-> "idle", lease |-> "none", generation |-> 0,
                                 put |-> "none"]]
  /\ objects = OldObject
  /\ deleting = {}
  /\ rows = {}
  /\ cache = TRUE
  /\ connected = TRUE

Next ==
  \/ \E w \in Writer : WriterStep(w)
  \/ set_presence
  \/ \E e \in Executor : ExecutorStep(e)
  \/ claim_blocks
  \/ LeaseExpires
  \/ StoreDelete
  \/ submit
  \/ freeze_inventory
  \/ approve
  \/ block_preclaim_setup
  \/ abort
  \/ unblock

Spec == Init /\ [][Next]_vars

-----------------------------------------------------------------------------
(* Properties.                                                             *)

RequestType ==
  [id : Nat, stage : Runnable \cup Terminal \cup {"none", "submitted", "inventoried"},
   blocked : BOOLEAN, owner : Executor \cup {NoExecutor}, generation : Nat, fence : Nat,
   retries : 0 .. MAX_RETRIES,
   frozen : BOOLEAN, manifest : SUBSET Object, chunks : SUBSET Object]

ExecutorType ==
  [phase : Runnable \cup {"idle", "completed", "fencing", "disconnected", "listing", "draining",
                          "deleting", "purging", "purged", "rows_absent", "objects_absent",
                          "all_absent"},
   request : Nat, generation : Nat, stage : Runnable, fence : Nat, frozen : BOOLEAN,
   listed : SUBSET Object, chunk : SUBSET Object]

WriterType ==
  [phase : {"idle", "admitted", "sent", "wrote", "done"}, lease : {"none", "live", "expired"},
   generation : Nat, put : {"none", "sent", "stored", "late"}]

\* Every piece of state has its type, retry counts at the limit included.
TypeOK ==
  /\ community \in [state : {"active", "quiescing", "fenced", "tombstone"}, generation : Nat]
  /\ request \in RequestType
  /\ executor \in [Executor -> ExecutorType]
  /\ writer \in [Writer -> WriterType]
  /\ objects \subseteq Object
  /\ deleting \subseteq Object
  /\ rows \subseteq Writer
  /\ cache \in BOOLEAN
  /\ connected \in BOOLEAN

\* Whoever holds a serving lease can still finish: the community is not fenced
\* and its generation has not moved on, whatever executors and operators do
\* (fence and abort wait for leases, quiescing stops new ones).
LeaseHoldsOffFence ==
  \A w \in Writer : LeaseHeld(w) =>
    /\ community.state \in {"active", "quiescing"}
    /\ community.generation = writer[w].generation

\* No row comes back: once the tables are purged they stay empty, although a
\* relay that stalled with an old lease may wake up at any time (purge_postgres,
\* guard_transaction_with_serving_lease).
PurgedStaysEmpty == community.state = "tombstone" => rows = {}

\* Nothing is deleted before the point of no return, and an abort before it is
\* complete: every object stored before or since is there and no delete of an
\* executor that lost its lease is under way, for this request or the next
\* (abort, next_pending_manifest_chunk).
WholeUntilDrained ==
  request.stage \in {"none", "submitted", "inventoried", "approved", "fenced", "aborted"} =>
    /\ OldObject \cup {w \in Writer : writer[w].put \in {"stored", "late"}} \subseteq objects
    /\ deleting = {}

LateObjects == {w \in Writer : writer[w].put = "late"}

\* The frozen list is the whole storage of the community, up to the effect of a
\* relay whose lease was over before the store carried out its PUT.  execute_stage
\* says without that exception "no tenant key can appear after the freeze".
FreezeIsComplete ==
  request.frozen /\ request.stage # "aborted" =>
    objects \subseteq request.manifest \cup LateObjects

\* Whatever the list names is gone for good once the request says so, with
\* deletes of several executors in flight (mark_manifest_chunk_deleted,
\* mark_bindings_removed).
BindingsGone ==
  request.stage \in {"bindings_removed", "postgres_purged", "cache_purged", "logically_verified",
                     "retention_pending"} => objects \cap request.manifest = {}

\* The executor's claim of the request is the last one and its lease is running.
HoldsLease(e) ==
  /\ request.id = executor[e].request
  /\ request.owner = e
  /\ request.generation = executor[e].generation

\* An executor that lost its lease changes neither the request (stage, list,
\* stamps, retries, lease) nor the community nor the rows, and sends no delete,
\* whatever it was doing when it lost it; and what is appended to the list comes
\* from the listing of the executor that holds the lease, never from that of
\* another one (the token of every transaction).
StaleExecutorIsFencedOut ==
  [][/\ \A e \in Executor :
          Busy(e) /\ ~HoldsLease(e) /\ executor'[e] # executor[e]
            => UNCHANGED <<request, community, rows, deleting>>
     /\ \A o \in request'.chunks \ request.chunks :
          \E e \in Executor : HoldsLease(e) /\ o \in executor[e].listed]_vars
=============================================================================
