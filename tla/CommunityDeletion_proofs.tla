---------------------- MODULE CommunityDeletion_proofs ----------------------
(***************************************************************************)
(* The deletion of a community, for any number of executors, serving       *)
(* operations and objects, any retry limit and any number of claims and    *)
(* requests: types, the exclusion of serving writes by the fence, the      *)
(* emptiness of the purged tables, the powerlessness of stale executors and *)
(* the point of no return.                                                  *)
(***************************************************************************)
EXTENDS CommunityDeletion, TLAPS

\* A request that is not blocked has a retry left, so that counting one more
\* failure stays within the limit.
RetryLeft == ~request.blocked => request.retries < MAX_RETRIES

Inv == TypeOK /\ RetryLeft

-----------------------------------------------------------------------------
(* The helpers keep the types.                                             *)

\* The positions of an executor, as ExecutorType has them.
Phases ==
  Runnable \cup {"idle", "completed", "fencing", "disconnected", "listing", "draining", "deleting",
                "purging", "purged", "rows_absent", "objects_absent", "all_absent"}

\* A new position of an executor.
LEMMA ToType ==
  ASSUME executor \in [Executor -> ExecutorType], NEW e \in Executor, NEW ph \in Phases, To(e, ph)
  PROVE  executor' \in [Executor -> ExecutorType]
  BY DEF To, ExecutorType, Phases

\* Objects that were listed, and a chunk that is being deleted.
LEMMA HandlingType ==
  ASSUME executor \in [Executor -> ExecutorType], NEW e \in Executor, NEW ph \in Phases,
         NEW os \in SUBSET Object,
         \/ executor' = [executor EXCEPT ![e] = [executor[e] EXCEPT !.phase = ph, !.listed = os]]
         \/ executor' = [executor EXCEPT ![e] = [executor[e] EXCEPT !.phase = ph, !.chunk = os]]
  PROVE  executor' \in [Executor -> ExecutorType]
<1>1. executor[e] \in ExecutorType
  OBVIOUS
<1>2. [executor[e] EXCEPT !.phase = ph, !.listed = os] \in ExecutorType
  BY <1>1 DEF ExecutorType, Phases
<1>3. [executor[e] EXCEPT !.phase = ph, !.chunk = os] \in ExecutorType
  BY <1>1 DEF ExecutorType, Phases
<1>4. QED
  BY <1>2, <1>3

\* An executor that is done.
LEMMA LeaveType ==
  ASSUME executor \in [Executor -> ExecutorType], NEW e \in Executor, Leave(e)
  PROVE  executor' \in [Executor -> ExecutorType]
  BY DEF Leave, Resting, ExecutorType, Runnable

\* An executor that starts a stage.
LEMMA BriefedType ==
  ASSUME executor \in [Executor -> ExecutorType], NEW e \in Executor,
         NEW r \in RequestType, r.stage \in Runnable, Briefed(e, r)
  PROVE  executor' \in [Executor -> ExecutorType]
  BY DEF Briefed, Resting, ExecutorType, RequestType, Runnable

\* The end of a lease on the request.
LEMMA ReleasedType ==
  ASSUME NEW r \in RequestType
  PROVE  /\ Released(r) \in RequestType
         /\ Released(r).blocked = r.blocked
         /\ Released(r).retries = r.retries
         /\ Released(r).stage = r.stage
  BY DEF Released, RequestType

\* The next stage of a runnable one, without failures.
LEMMA AdvancedType ==
  ASSUME NEW r \in RequestType, r.stage \in Runnable
  PROVE  Advanced(r) \in RequestType /\ Advanced(r).retries = 0
<1>1. NextStage[r.stage] \in Runnable \cup Terminal
  BY DEF NextStage, Runnable, Terminal
<1>2. 0 \in 0 .. MAX_RETRIES
  BY DeletionAssumption
<1>3. QED
  BY <1>1, <1>2 DEF Advanced, RequestType

\* A claim; the generation moves on.
LEMMA ClaimedType ==
  ASSUME NEW r \in RequestType, NEW e \in Executor
  PROVE  [r EXCEPT !.owner = e, !.generation = r.generation + 1] \in RequestType
<1>1. e \in Executor \cup {NoExecutor}
  OBVIOUS
<1>2. r.generation + 1 \in Nat
  BY DEF RequestType
<1>3. QED
  BY <1>1, <1>2 DEF RequestType

\* A new request, and the state before the first one.
LEMMA NewRequestType ==
  ASSUME NEW id \in Nat
  PROVE  NewRequest(id) \in RequestType /\ NewRequest(id).retries = 0
  BY DeletionAssumption DEF NewRequest, RequestType

\* A failure is counted, or blocks; a retry is left unless it blocks.
LEMMA FailureType ==
  ASSUME NEW r \in RequestType, r.retries < MAX_RETRIES, NEW s \in {record_retry(r), block(r)}
  PROVE  /\ s \in RequestType
         /\ ~s.blocked => s.retries < MAX_RETRIES
         /\ s.stage = r.stage
<1> DEFINE n == r.retries + 1
           q == Released(r)
<1>1. q \in RequestType /\ q.retries = r.retries /\ q.stage = r.stage
  BY ReleasedType
<1>2. n \in 0 .. MAX_RETRIES
  BY DeletionAssumption DEF RequestType
<1>3. CASE s = record_retry(r) /\ n >= MAX_RETRIES
  <2>1. s = [q EXCEPT !.retries = n, !.blocked = TRUE]
    BY <1>1, <1>3 DEF record_retry
  <2>2. QED
    BY <1>1, <1>2, <2>1 DEF RequestType
<1>4. CASE s = record_retry(r) /\ ~(n >= MAX_RETRIES)
  <2>0. (n >= MAX_RETRIES) = FALSE
    BY <1>4
  <2> HIDE DEF q
  <2>1. s = [q EXCEPT !.retries = n, !.blocked = FALSE]
    <3>1. s = [q EXCEPT !.retries = q.retries + 1, !.blocked = (n >= MAX_RETRIES)]
      BY <1>4, Zenon DEF record_retry, q
    <3>2. QED
      BY <1>1, <2>0, <3>1, Zenon
  <2>2. n < MAX_RETRIES
    BY <1>2, <1>4, DeletionAssumption
  <2> HIDE DEF n
  <2>3. QED
    BY <1>1, <1>2, <2>1, <2>2 DEF RequestType
<1>5. CASE s = block(r)
  BY <1>1, <1>5 DEF block, RequestType
<1>6. QED
  BY <1>3, <1>4, <1>5

-----------------------------------------------------------------------------
(* Initial states and the steps of each actor.                             *)

\* The initial states.
LEMMA InitInv == Init => Inv
<1> SUFFICES ASSUME Init PROVE Inv
  OBVIOUS
<1>1. request \in RequestType /\ RetryLeft
  BY NewRequestType, DeletionAssumption DEF Init, RetryLeft
<1>2. executor \in [Executor -> ExecutorType]
  BY DEF Init, Resting, ExecutorType, Runnable
<1>3. writer \in [Writer -> WriterType]
  BY DEF Init, WriterType
<1>4. QED
  BY <1>1, <1>2, <1>3 DEF Init, Inv, TypeOK, Object

\* Serving operations change their own record, the objects and the rows.
LEMMA WriterStepInv ==
  ASSUME Inv, NEW w \in Writer, WriterStep(w)
  PROVE  Inv'
<1> USE DEF Inv, TypeOK, RetryLeft
<1>1. CASE acquire_serving_write_lease(w)
  BY <1>1 DEF acquire_serving_write_lease, WriterType
<1>2. CASE protect(w)
  BY <1>2 DEF protect, WriterType
<1>3. CASE StorePut(w)
  BY <1>3 DEF StorePut, WriterType, Object
<1>4. CASE guard_transaction_with_serving_lease(w)
  BY <1>4 DEF guard_transaction_with_serving_lease, WriterType
<1>5. CASE guard_transaction(w)
  BY <1>5 DEF guard_transaction, WriterType
<1>6. CASE release_serving_write_lease(w)
  BY <1>6 DEF release_serving_write_lease, WriterType
<1>7. CASE ServingLeaseExpires(w)
  BY <1>7 DEF ServingLeaseExpires, WriterType
<1>8. QED
  BY <1>1, <1>2, <1>3, <1>4, <1>5, <1>6, <1>7 DEF WriterStep

\* What a valid token says of the request.
LEMMA TokenFacts ==
  ASSUME Inv, NEW e \in Executor, verify_lease(e)
  PROVE  /\ request \in RequestType
         /\ request.stage \in Runnable
         /\ ~request.blocked
         /\ request.retries < MAX_RETRIES
  BY DEF Inv, TypeOK, RetryLeft, verify_lease, ExecutorType

\* The transaction that ends a stage.
LEMMA StageEnds ==
  ASSUME Inv, NEW e \in Executor, verify_lease(e), To(e, "completed")
  PROVE  /\ executor' \in [Executor -> ExecutorType]
         /\ Advanced(request) \in RequestType
         /\ Advanced(request).retries < MAX_RETRIES
<1>1. executor' \in [Executor -> ExecutorType]
  BY ToType DEF Inv, TypeOK, Phases
<1>2. QED
  BY <1>1, TokenFacts, AdvancedType, DeletionAssumption

\* A step of an executor inside a stage that changes nothing but its position.
LEMMA PositionInv ==
  ASSUME Inv, NEW e \in Executor, NEW ph \in Phases, To(e, ph),
         UNCHANGED <<community, request, writer, objects, deleting, rows, cache, connected>>
  PROVE  Inv'
<1>1. executor' \in [Executor -> ExecutorType]
  BY ToType DEF Inv, TypeOK
<1>2. QED
  BY <1>1 DEF Inv, TypeOK, RetryLeft

\* Claims, heartbeats, ends of executors and failures.
LEMMA LeaseStepInv ==
  ASSUME Inv, NEW e \in Executor,
         claim(e) \/ heartbeat(e) \/ stop_executor(e) \/ ExecutorDies(e) \/ record_stage_failure(e)
  PROVE  Inv'
<1>0. request \in RequestType /\ executor \in [Executor -> ExecutorType]
  BY DEF Inv, TypeOK
<1>1. CASE claim(e)
  <2>0. request' = [request EXCEPT !.owner = e, !.generation = request.generation + 1]
    BY <1>1 DEF claim
  <2>1. request' \in RequestType /\ request'.stage \in Runnable /\ RetryLeft'
    <3>1. request' \in RequestType
      BY <1>0, <2>0, ClaimedType
    <3>2. /\ request'.stage = request.stage
          /\ request'.blocked = request.blocked
          /\ request'.retries = request.retries
      BY <1>0, <2>0 DEF RequestType
    <3>3. QED
      BY <1>1, <3>1, <3>2 DEF claim, Claimable, Inv, RetryLeft
  <2>2. executor' \in [Executor -> ExecutorType]
    BY <1>0, <1>1, <2>1, BriefedType DEF claim
  <2>3. QED
    BY <1>1, <2>1, <2>2 DEF claim, Inv, TypeOK
<1>2. CASE heartbeat(e)
  <2>1. executor' \in [Executor -> ExecutorType]
    BY <1>0, <1>2, BriefedType, LeaveType DEF heartbeat
  <2>2. QED
    BY <1>2, <2>1 DEF heartbeat, Inv, TypeOK, RetryLeft
<1>3. CASE stop_executor(e)
  <2>1. request' \in RequestType /\ RetryLeft'
    BY <1>0, <1>3, ReleasedType DEF stop_executor, Inv, RetryLeft
  <2>2. executor' \in [Executor -> ExecutorType]
    BY <1>0, <1>3, LeaveType DEF stop_executor
  <2>3. QED
    BY <1>3, <2>1, <2>2 DEF stop_executor, Inv, TypeOK
<1>4. CASE ExecutorDies(e)
  <2>1. executor' \in [Executor -> ExecutorType]
    BY <1>0, <1>4, LeaveType DEF ExecutorDies
  <2>2. QED
    BY <1>4, <2>1 DEF ExecutorDies, Inv, TypeOK, RetryLeft
<1>5. CASE record_stage_failure(e)
  <2>1. request' \in RequestType /\ RetryLeft'
    <3>1. CASE verify_lease(e)
      <4>1. request' \in {record_retry(request), block(request)}
        BY <1>5, <3>1 DEF record_stage_failure
      <4>2. QED
        BY <4>1, <3>1, TokenFacts, FailureType DEF RetryLeft
    <3>2. CASE ~verify_lease(e)
      BY <1>0, <1>5, <3>2 DEF record_stage_failure, Inv, RetryLeft
    <3>3. QED
      BY <3>1, <3>2
  <2>2. executor' \in [Executor -> ExecutorType]
    BY <1>0, <1>5, LeaveType DEF record_stage_failure
  <2>3. QED
    BY <1>5, <2>1, <2>2 DEF record_stage_failure, Inv, TypeOK
<1>6. QED
  BY <1>1, <1>2, <1>3, <1>4, <1>5

\* Steps inside a stage: they move the executor, and some the community, the
\* chunks, the frozen list or what is being deleted.
LEMMA InsideStageInv ==
  ASSUME Inv, NEW e \in Executor,
         \/ begin_quiescing(e) \/ publish_disconnect_community(e) \/ serving_writes_drained(e)
         \/ append_manifest_key_chunk(e) \/ freeze_destructive_storage_manifest(e)
         \/ next_pending_manifest_chunk(e) \/ mark_manifest_chunk_deleted(e)
         \/ verify_before_cache_purge(e) \/ purge_redis_namespace(e)
         \/ verify_postgres_logically_deleted(e) \/ verify_storage_absence(e)
         \/ verify_redis_absence(e)
  PROVE  Inv'
<1>0. /\ request \in RequestType
      /\ executor \in [Executor -> ExecutorType]
      /\ objects \subseteq Object
      /\ executor[e].listed \subseteq Object
      /\ request.chunks \subseteq Object
  BY DEF Inv, TypeOK, ExecutorType, RequestType
<1>a. ASSUME NEW c \in SUBSET Object
      PROVE  LET r == [request EXCEPT !.chunks = c] IN
             r \in RequestType /\ r.blocked = request.blocked /\ r.retries = request.retries
  BY <1>0 DEF RequestType
<1>1. CASE begin_quiescing(e)
  <2>1. executor' \in [Executor -> ExecutorType]
    BY <1>0, <1>1, ToType DEF begin_quiescing, Phases
  <2>2. QED
    BY <1>1, <2>1 DEF begin_quiescing, Inv, TypeOK, RetryLeft
<1>2. CASE publish_disconnect_community(e)
  <2>1. executor' \in [Executor -> ExecutorType]
    BY <1>0, <1>2, ToType DEF publish_disconnect_community, Phases
  <2>2. QED
    BY <1>2, <2>1 DEF publish_disconnect_community, Inv, TypeOK, RetryLeft
<1>3. CASE serving_writes_drained(e)
  <2>1. CASE executor[e].frozen
    BY <1>3, <2>1, PositionInv DEF serving_writes_drained, Phases
  <2>2. CASE ~executor[e].frozen
    <3>1. executor' \in [Executor -> ExecutorType]
      <4>1. executor' = [executor EXCEPT ![e] =
                          [executor[e] EXCEPT !.phase = "listing", !.listed = objects]]
        BY <1>0, <1>3, <2>2 DEF serving_writes_drained
      <4>2. QED
        BY <1>0, <4>1, HandlingType DEF Phases
    <3>2. request' \in RequestType /\ RetryLeft'
      <4>1. request' = [request EXCEPT !.chunks = {}] /\ {} \in SUBSET Object
        BY <1>3, <2>2 DEF serving_writes_drained
      <4>2. QED
        BY <1>a, <4>1 DEF Inv, RetryLeft
    <3>3. QED
      BY <1>3, <2>2, <3>1, <3>2 DEF serving_writes_drained, Inv, TypeOK
  <2>3. QED
    BY <2>1, <2>2
<1>4. CASE append_manifest_key_chunk(e)
  <2>1. PICK o \in executor[e].listed \ request.chunks :
          request' = [request EXCEPT !.chunks = request.chunks \cup {o}]
    BY <1>4 DEF append_manifest_key_chunk
  <2>2. request' \in RequestType /\ RetryLeft'
    BY <1>0, <1>a, <2>1 DEF Inv, RetryLeft
  <2>3. QED
    BY <1>4, <2>2 DEF append_manifest_key_chunk, Inv, TypeOK
<1>5. CASE freeze_destructive_storage_manifest(e)
  <2>1. executor' \in [Executor -> ExecutorType]
    <3>1. executor' = [executor EXCEPT ![e] =
                        [executor[e] EXCEPT !.phase = "draining", !.listed = {}]]
      BY <1>0, <1>5 DEF freeze_destructive_storage_manifest
    <3>2. "draining" \in Phases /\ {} \in SUBSET Object
      BY DEF Phases
    <3>3. QED
      BY <1>0, <3>1, <3>2, HandlingType
  <2>2. request' = [request EXCEPT !.frozen = TRUE, !.manifest = executor[e].listed]
    BY <1>5 DEF freeze_destructive_storage_manifest
  <2>3. request' \in RequestType /\ RetryLeft'
    BY <1>0, <2>2 DEF RequestType, Inv, RetryLeft
  <2>4. QED
    BY <1>5, <2>1, <2>3 DEF freeze_destructive_storage_manifest, Inv, TypeOK
<1>6. CASE next_pending_manifest_chunk(e)
  <2>1. PICK o \in request.chunks :
          /\ deleting' = deleting \cup {o}
          /\ executor' = [executor EXCEPT ![e] =
                            [executor[e] EXCEPT !.phase = "deleting", !.chunk = {o}]]
    BY <1>6 DEF next_pending_manifest_chunk
  <2>2. executor' \in [Executor -> ExecutorType]
    <3>1. "deleting" \in Phases /\ {o} \in SUBSET Object
      BY <1>0 DEF Phases
    <3>2. QED
      BY <1>0, <2>1, <3>1, HandlingType
  <2>3. QED
    BY <1>0, <1>6, <2>1, <2>2 DEF next_pending_manifest_chunk, Inv, TypeOK, RetryLeft
<1>7. CASE mark_manifest_chunk_deleted(e)
  <2>1. executor' \in [Executor -> ExecutorType]
    <3>1. executor' = [executor EXCEPT ![e] =
                        [executor[e] EXCEPT !.phase = "drained", !.chunk = {}]]
      BY <1>0, <1>7 DEF mark_manifest_chunk_deleted
    <3>2. "drained" \in Phases /\ {} \in SUBSET Object
      BY DEF Phases, Runnable
    <3>3. QED
      BY <1>0, <3>1, <3>2, HandlingType
  <2>2. request' \in RequestType /\ RetryLeft'
    <3> DEFINE c == request.chunks \ executor[e].chunk
    <3>1. request' = [request EXCEPT !.chunks = c] /\ c \in SUBSET Object
      BY <1>0, <1>7 DEF mark_manifest_chunk_deleted
    <3> HIDE DEF c
    <3>2. QED
      BY <1>a, <3>1 DEF Inv, RetryLeft
  <2>3. QED
    BY <1>7, <2>1, <2>2 DEF mark_manifest_chunk_deleted, Inv, TypeOK
<1>8. CASE verify_before_cache_purge(e)
  BY <1>8, PositionInv DEF verify_before_cache_purge, Phases
<1>9. CASE purge_redis_namespace(e)
  <2>1. executor' \in [Executor -> ExecutorType]
    BY <1>0, <1>9, ToType DEF purge_redis_namespace, Phases
  <2>2. QED
    BY <1>9, <2>1 DEF purge_redis_namespace, Inv, TypeOK, RetryLeft
<1>10. CASE verify_postgres_logically_deleted(e)
  BY <1>10, PositionInv DEF verify_postgres_logically_deleted, Phases
<1>11. CASE verify_storage_absence(e)
  BY <1>11, PositionInv DEF verify_storage_absence, Phases
<1>12. CASE verify_redis_absence(e)
  BY <1>12, PositionInv DEF verify_redis_absence, Phases
<1>13. QED
  BY <1>1, <1>2, <1>3, <1>4, <1>5, <1>6, <1>7, <1>8, <1>9, <1>10, <1>11, <1>12

\* The transactions that end a stage.
LEMMA StageEndInv ==
  ASSUME Inv, NEW e \in Executor,
         \/ fence(e) \/ mark_drained(e) \/ mark_bindings_removed(e) \/ purge_postgres(e)
         \/ mark_cache_purged(e) \/ mark_logically_verified(e) \/ mark_retention_pending(e)
  PROVE  Inv'
<1> DEFINE A == Advanced(request)
<1>0. /\ verify_lease(e)
      /\ To(e, "completed")
      /\ UNCHANGED <<writer, objects, deleting, connected, cache>>
  BY DEF fence, mark_drained, mark_bindings_removed, purge_postgres, mark_cache_purged,
         mark_logically_verified, mark_retention_pending, verify_lease_and_fence
<1>1. /\ executor' \in [Executor -> ExecutorType]
      /\ A \in RequestType
      /\ A.retries < MAX_RETRIES
  BY <1>0, StageEnds
<1>2. /\ rows' \subseteq Writer
      /\ community' \in [state : {"active", "quiescing", "fenced", "tombstone"}, generation : Nat]
  BY DEF fence, mark_drained, mark_bindings_removed, purge_postgres, mark_cache_purged,
         mark_logically_verified, mark_retention_pending, Inv, TypeOK
<1>3. \/ request' = A
      \/ request' = [A EXCEPT !.fence = community.generation + 1]
      \/ request' = [A EXCEPT !.chunks = {}]
      \/ request' = Released(A)
  BY DEF fence, mark_drained, mark_bindings_removed, purge_postgres, mark_cache_purged,
         mark_logically_verified, mark_retention_pending
<1>4. community.generation + 1 \in Nat
  BY DEF Inv, TypeOK
<1> HIDE DEF A
<1>5. request' \in RequestType /\ request'.retries < MAX_RETRIES
  <2>1. CASE request' = A
    BY <1>1, <2>1
  <2>2. CASE request' = [A EXCEPT !.fence = community.generation + 1]
    BY <1>1, <1>4, <2>2 DEF RequestType
  <2>3. CASE request' = [A EXCEPT !.chunks = {}]
    BY <1>1, <2>3 DEF RequestType
  <2>4. CASE request' = Released(A)
    BY <1>1, <2>4, ReleasedType
  <2>5. QED
    BY <1>3, <2>1, <2>2, <2>3, <2>4
<1>6. QED
  BY <1>0, <1>1, <1>2, <1>5 DEF Inv, TypeOK, RetryLeft

\* Every step of an executor.
LEMMA ExecutorStepInv ==
  ASSUME Inv, NEW e \in Executor, ExecutorStep(e)
  PROVE  Inv'
  BY LeaseStepInv, InsideStageInv, StageEndInv DEF ExecutorStep

\* What the operator, a new request or the end of a lease makes of a request.
LEMMA OperatorType ==
  ASSUME NEW r \in RequestType, r.retries < MAX_RETRIES \/ r.blocked,
         NEW st \in {"inventoried", "approved"}
  PROVE  /\ [r EXCEPT !.stage = st] \in RequestType
         /\ [r EXCEPT !.stage = st].blocked = r.blocked
         /\ [r EXCEPT !.stage = st].retries = r.retries
         /\ [r EXCEPT !.blocked = TRUE] \in RequestType
         /\ [r EXCEPT !.blocked = TRUE].blocked
         /\ [r EXCEPT !.blocked = FALSE, !.retries = 0] \in RequestType
         /\ [r EXCEPT !.blocked = FALSE, !.retries = 0].retries = 0
<1>1. 0 \in 0 .. MAX_RETRIES
  BY DeletionAssumption
<1>2. QED
  BY <1>1 DEF RequestType, Runnable

\* A request that is aborted.
LEMMA AbortedType ==
  ASSUME Inv
  PROVE  Aborted(request) \in RequestType /\ Aborted(request).retries = 0
<1> DEFINE q == Released(request)
<1>1. q \in RequestType
  BY ReleasedType DEF Inv, TypeOK
<1>2. /\ community.generation + 1 \in Nat
      /\ q.generation + 1 \in Nat
      /\ 0 \in 0 .. MAX_RETRIES
  BY <1>1, DeletionAssumption DEF Inv, TypeOK, RequestType
<1>3. Aborted(request) = [q EXCEPT !.stage = "aborted", !.fence = community.generation + 1,
                           !.generation = q.generation + 1, !.blocked = FALSE, !.retries = 0]
  BY DEF Aborted
<1> HIDE DEF q
<1>4. QED
  BY <1>1, <1>2, <1>3 DEF RequestType, Terminal

\* The operator, the clock, the stores and the clients.
LEMMA OtherStepInv ==
  ASSUME Inv,
         \/ set_presence \/ claim_blocks \/ LeaseExpires \/ StoreDelete \/ submit
         \/ freeze_inventory \/ approve \/ block_preclaim_setup \/ abort \/ unblock
  PROVE  Inv'
<1>0. /\ request \in RequestType
      /\ ~request.blocked => request.retries < MAX_RETRIES
      /\ Released(request) \in RequestType
      /\ Released(request).blocked = request.blocked
      /\ Released(request).retries = request.retries
      /\ 0 < MAX_RETRIES
      /\ request.retries < MAX_RETRIES \/ request.blocked
  BY ReleasedType, DeletionAssumption DEF Inv, TypeOK, RetryLeft
<1>1. CASE set_presence
  BY <1>1 DEF set_presence, Inv, TypeOK, RetryLeft
<1>2. CASE StoreDelete
  BY <1>2 DEF StoreDelete, Inv, TypeOK, RetryLeft
<1>3. CASE abort
  <2>1. request' \in RequestType /\ request'.retries = 0
    BY <1>3, AbortedType DEF abort
  <2>2. community' \in [state : {"active", "quiescing", "fenced", "tombstone"}, generation : Nat]
    BY <1>3 DEF abort, Inv, TypeOK
  <2>3. QED
    BY <1>0, <1>3, <2>1, <2>2 DEF abort, Inv, TypeOK, RetryLeft
<1>4. CASE claim_blocks \/ LeaseExpires \/ submit \/ freeze_inventory \/ approve
           \/ block_preclaim_setup \/ unblock
  <2>1. UNCHANGED <<community, executor, writer, objects, deleting, rows, cache, connected>>
    BY <1>4 DEF claim_blocks, LeaseExpires, submit, freeze_inventory, approve,
                block_preclaim_setup, unblock
  <2>2. request' \in RequestType /\ (request'.blocked \/ request'.retries < MAX_RETRIES)
    <3>1. CASE claim_blocks
      BY <1>0, <3>1, OperatorType DEF claim_blocks
    <3>2. CASE LeaseExpires
      BY <1>0, <3>2 DEF LeaseExpires
    <3>3. CASE submit
      <4>1. request.id + 1 \in Nat
        BY <1>0 DEF RequestType
      <4>2. QED
        BY <1>0, <3>3, <4>1, NewRequestType DEF submit
    <3>4. CASE freeze_inventory
      BY <1>0, <3>4, OperatorType DEF freeze_inventory
    <3>5. CASE approve
      BY <1>0, <3>5, OperatorType DEF approve
    <3>6. CASE block_preclaim_setup
      BY <1>0, <3>6, OperatorType DEF block_preclaim_setup
    <3>7. CASE unblock
      BY <1>0, <3>7, OperatorType DEF unblock
    <3>8. QED
      BY <1>4, <3>1, <3>2, <3>3, <3>4, <3>5, <3>6, <3>7
  <2>3. QED
    BY <2>1, <2>2 DEF Inv, TypeOK, RetryLeft
<1>5. QED
  BY <1>1, <1>2, <1>3, <1>4

\* Every step.
LEMMA NextInv ==
  ASSUME Inv, [Next]_vars
  PROVE  Inv'
<1>1. CASE UNCHANGED vars
  BY <1>1 DEF vars, Inv, TypeOK, RetryLeft
<1>2. CASE Next
  BY <1>2, WriterStepInv, ExecutorStepInv, OtherStepInv DEF Next
<1>3. QED
  BY <1>1, <1>2

\* The invariant of the specification.
LEMMA SpecInv == Spec => []Inv
  BY InitInv, NextInv, PTL DEF Spec

-----------------------------------------------------------------------------
(* The theorems.                                                           *)

\* In every run of the deletion every piece of state has its type; a request is
\* never counted past the retry limit.
THEOREM DeletionTypeCorrect == Spec => []TypeOK
<1>1. Inv => TypeOK
  BY DEF Inv
<1>2. QED
  BY <1>1, SpecInv, PTL

\* Most steps leave the community, the serving operations and the rows alone.
LEMMA CommunityFrame ==
  ASSUME NEW e \in Executor, ExecutorStep(e)
  PROVE  /\ UNCHANGED writer
         /\ \/ UNCHANGED <<community, rows>>
            \/ begin_quiescing(e) \/ fence(e) \/ purge_postgres(e)
  BY DEF ExecutorStep, claim, heartbeat, stop_executor, ExecutorDies, record_stage_failure,
         begin_quiescing, fence, publish_disconnect_community, serving_writes_drained,
         append_manifest_key_chunk, freeze_destructive_storage_manifest, mark_drained,
         next_pending_manifest_chunk, mark_manifest_chunk_deleted, mark_bindings_removed,
         purge_postgres, verify_before_cache_purge, purge_redis_namespace, mark_cache_purged,
         verify_postgres_logically_deleted, verify_storage_absence, verify_redis_absence,
         mark_logically_verified, mark_retention_pending

\* Only an abort changes the community without an executor.
LEMMA OtherFrame ==
  ASSUME \/ set_presence \/ claim_blocks \/ LeaseExpires \/ StoreDelete \/ submit
         \/ freeze_inventory \/ approve \/ block_preclaim_setup \/ abort \/ unblock
  PROVE  UNCHANGED <<executor, writer, rows>> /\ (UNCHANGED community \/ abort)
  BY DEF set_presence, claim_blocks, LeaseExpires, StoreDelete, submit, freeze_inventory, approve,
         block_preclaim_setup, abort, unblock

\* A serving operation keeps the community, and starts a lease only while the
\* community is active.
LEMMA WriterFrame ==
  ASSUME Inv, NEW w \in Writer, WriterStep(w)
  PROVE  /\ UNCHANGED <<community, request, executor>>
         /\ rows' = rows \/ community.state \in {"active", "quiescing"}
         /\ \A v \in Writer : LeaseHeld(v)' =>
              \/ LeaseHeld(v) /\ writer'[v].generation = writer[v].generation
              \/ community.state = "active" /\ writer'[v].generation = community.generation
<1> USE DEF Inv, TypeOK, WriterType, LeaseHeld
<1>1. CASE acquire_serving_write_lease(w)
  BY <1>1 DEF acquire_serving_write_lease
<1>2. CASE protect(w)
  BY <1>2 DEF protect
<1>3. CASE StorePut(w)
  BY <1>3 DEF StorePut
<1>4. CASE guard_transaction_with_serving_lease(w)
  BY <1>4 DEF guard_transaction_with_serving_lease, ServingLeaseValid
<1>5. CASE guard_transaction(w)
  BY <1>5 DEF guard_transaction
<1>6. CASE release_serving_write_lease(w)
  BY <1>6 DEF release_serving_write_lease
<1>7. CASE ServingLeaseExpires(w)
  BY <1>7 DEF ServingLeaseExpires
<1>8. QED
  BY <1>1, <1>2, <1>3, <1>4, <1>5, <1>6, <1>7 DEF WriterStep

\* The fence and the serving leases exclude each other: fence and abort wait for
\* the leases, quiescing keeps them, and only an active community grants one.
THEOREM FenceWaitsForLeases == Spec => []LeaseHoldsOffFence
<1>1. Init => LeaseHoldsOffFence
  BY DEF Init, LeaseHoldsOffFence, LeaseHeld
<1>2. Inv /\ LeaseHoldsOffFence /\ [Next]_vars => LeaseHoldsOffFence'
  <2> SUFFICES ASSUME Inv, LeaseHoldsOffFence, [Next]_vars PROVE LeaseHoldsOffFence'
    OBVIOUS
  <2>0. community \in [state : {"active", "quiescing", "fenced", "tombstone"}, generation : Nat]
    BY DEF Inv, TypeOK
  <2>1. CASE UNCHANGED <<community, writer>>
    BY <2>1 DEF LeaseHoldsOffFence, LeaseHeld
  <2>2. ASSUME NEW w \in Writer, WriterStep(w) PROVE LeaseHoldsOffFence'
    BY <2>2, WriterFrame DEF LeaseHoldsOffFence
  <2>3. ASSUME NEW e \in Executor, ExecutorStep(e) PROVE LeaseHoldsOffFence'
    <3>1. UNCHANGED writer
      BY <2>3, CommunityFrame
    <3>2. CASE begin_quiescing(e)
      BY <2>0, <3>1, <3>2 DEF begin_quiescing, LeaseHoldsOffFence, LeaseHeld
    <3>3. CASE fence(e)
      BY <3>1, <3>3 DEF fence, LeaseHoldsOffFence, LeaseHeld
    <3>4. CASE purge_postgres(e)
      BY <3>1, <3>4 DEF purge_postgres, LeaseHoldsOffFence, LeaseHeld
    <3>5. QED
      BY <2>1, <2>3, <3>1, <3>2, <3>3, <3>4, CommunityFrame
  <2>4. CASE abort
    BY <2>4 DEF abort, LeaseHoldsOffFence, LeaseHeld
  <2>5. QED
    BY <2>1, <2>2, <2>3, <2>4, OtherFrame DEF Next, vars
<1>3. QED
  BY <1>1, <1>2, SpecInv, PTL DEF Spec

\* Rows are written only before the fence, and the purge empties every table in
\* the transaction that leaves the tombstone: no row comes back.
THEOREM PurgedForGood == Spec => []PurgedStaysEmpty
<1>1. Init => PurgedStaysEmpty
  BY DEF Init, PurgedStaysEmpty
<1>2. Inv /\ PurgedStaysEmpty /\ [Next]_vars => PurgedStaysEmpty'
  <2> SUFFICES ASSUME Inv, PurgedStaysEmpty, [Next]_vars PROVE PurgedStaysEmpty'
    OBVIOUS
  <2>0. community \in [state : {"active", "quiescing", "fenced", "tombstone"}, generation : Nat]
    BY DEF Inv, TypeOK
  <2>1. CASE UNCHANGED <<community, rows>>
    BY <2>1 DEF PurgedStaysEmpty
  <2>2. ASSUME NEW w \in Writer, WriterStep(w) PROVE PurgedStaysEmpty'
    BY <2>2, WriterFrame DEF PurgedStaysEmpty
  <2>3. ASSUME NEW e \in Executor, ExecutorStep(e) PROVE PurgedStaysEmpty'
    <3>1. CASE begin_quiescing(e)
      BY <2>0, <3>1 DEF begin_quiescing, PurgedStaysEmpty
    <3>2. CASE fence(e)
      BY <3>2 DEF fence, PurgedStaysEmpty
    <3>3. CASE purge_postgres(e)
      BY <3>3 DEF purge_postgres, PurgedStaysEmpty
    <3>4. QED
      BY <2>1, <2>3, <3>1, <3>2, <3>3, CommunityFrame
  <2>4. CASE abort
    BY <2>4 DEF abort, PurgedStaysEmpty
  <2>5. QED
    BY <2>1, <2>2, <2>3, <2>4, OtherFrame DEF Next, vars
<1>3. QED
  BY <1>1, <1>2, SpecInv, PTL DEF Spec

-----------------------------------------------------------------------------
(* Executors that lost their lease.                                        *)

\* A step of one executor leaves the others where they are.
LEMMA OthersStay ==
  ASSUME Inv, NEW e \in Executor, NEW f \in Executor, f # e, ExecutorStep(f)
  PROVE  executor'[e] = executor[e]
<1>1. ASSUME NEW ph, To(f, ph) PROVE executor'[e] = executor[e]
  BY <1>1 DEF To, Inv, TypeOK
<1>2. ASSUME NEW r, Briefed(f, r) PROVE executor'[e] = executor[e]
  BY <1>2 DEF Briefed, Inv, TypeOK
<1>3. ASSUME Leave(f) PROVE executor'[e] = executor[e]
  BY <1>3 DEF Leave, Inv, TypeOK
<1>4. CASE \/ claim(f) \/ heartbeat(f) \/ stop_executor(f) \/ ExecutorDies(f)
           \/ record_stage_failure(f)
  BY <1>2, <1>3, <1>4 DEF claim, heartbeat, stop_executor, ExecutorDies, record_stage_failure
<1>5. CASE append_manifest_key_chunk(f)
  BY <1>5 DEF append_manifest_key_chunk
<1>6. CASE serving_writes_drained(f)
  <2>1. CASE executor[f].frozen
    BY <1>1, <1>6, <2>1 DEF serving_writes_drained
  <2>2. CASE ~executor[f].frozen
    BY <1>6, <2>2 DEF serving_writes_drained, Inv, TypeOK
  <2>3. QED
    BY <2>1, <2>2
<1>7. CASE freeze_destructive_storage_manifest(f)
  BY <1>7 DEF freeze_destructive_storage_manifest, Inv, TypeOK
<1>8. CASE next_pending_manifest_chunk(f)
  BY <1>8 DEF next_pending_manifest_chunk, Inv, TypeOK
<1>9. CASE mark_manifest_chunk_deleted(f)
  BY <1>9 DEF mark_manifest_chunk_deleted, Inv, TypeOK
<1>10. CASE \E ph : To(f, ph)
  BY <1>1, <1>10
<1>11. QED
  BY <1>4, <1>5, <1>6, <1>7, <1>8, <1>9, <1>10
     DEF ExecutorStep, begin_quiescing, fence, publish_disconnect_community, mark_drained,
         mark_bindings_removed, purge_postgres, verify_before_cache_purge, purge_redis_namespace,
         mark_cache_purged, verify_postgres_logically_deleted, verify_storage_absence,
         verify_redis_absence, mark_logically_verified, mark_retention_pending

\* An executor without its lease leaves the request, the community, the rows and the deletes
\* alone: it can only stop, fail, or take a step that writes none of them.
LEMMA TokenNeeded ==
  ASSUME NEW e \in Executor, Busy(e), ~HoldsLease(e), ExecutorStep(e)
  PROVE  UNCHANGED <<request, community, rows, deleting>>
<1>1. ~verify_lease(e) /\ ~verify_lease_and_fence(e)
  BY DEF HoldsLease, verify_lease, verify_lease_and_fence
<1>2. CASE stop_executor(e)
  BY <1>2 DEF stop_executor, HoldsLease
<1>3. CASE record_stage_failure(e)
  BY <1>1, <1>3 DEF record_stage_failure
<1>4. CASE UNCHANGED <<request, community, rows, deleting>>
  BY <1>4
<1>5. CASE serving_writes_drained(e)
  BY <1>1, <1>5 DEF serving_writes_drained
<1>6. QED
  BY <1>1, <1>2, <1>3, <1>4, <1>5
     DEF ExecutorStep, claim, heartbeat, ExecutorDies, begin_quiescing, fence,
         publish_disconnect_community, append_manifest_key_chunk,
         freeze_destructive_storage_manifest, mark_drained, next_pending_manifest_chunk,
         mark_manifest_chunk_deleted, mark_bindings_removed, purge_postgres,
         verify_before_cache_purge, purge_redis_namespace, mark_cache_purged,
         verify_postgres_logically_deleted, verify_storage_absence, verify_redis_absence,
         mark_logically_verified, mark_retention_pending

-----------------------------------------------------------------------------
(* The point of no return.                                                 *)

Before == {"none", "submitted", "inventoried", "approved", "fenced", "aborted"}

\* The stage of the token at each position of an executor.
Position(ph, st) ==
  /\ ph \in Runnable => st = ph
  /\ ph = "fencing" => st = "approved"
  /\ ph \in {"disconnected", "listing", "draining"} => st = "fenced"
  /\ ph = "deleting" => st = "drained"
  /\ ph \in {"purging", "purged"} => st = "postgres_purged"
  /\ ph \in {"rows_absent", "objects_absent", "all_absent"} => st = "cache_purged"

\* Every executor is at a position of the stage its token is for; only one whose
\* token is for "drained" asks for a delete.
OnStage == \A e \in Executor : Position(executor[e].phase, executor[e].stage)

\* The position and the token of the executor that takes a step.
LEMMA PositionAndToken ==
  ASSUME Inv, OnStage, NEW e \in Executor, ExecutorStep(e)
  PROVE  OnStage'
<1>0. /\ executor \in [Executor -> ExecutorType]
      /\ executor[e] \in ExecutorType
      /\ \A f \in Executor : f # e => executor'[f] = executor[f]
      /\ Position(executor[e].phase, executor[e].stage)
  BY OthersStay DEF Inv, TypeOK, OnStage
<1> SUFFICES Position(executor'[e].phase, executor'[e].stage)
  BY <1>0 DEF OnStage
<1>1. ASSUME NEW ph, To(e, ph)
      PROVE  executor'[e].phase = ph /\ executor'[e].stage = executor[e].stage
  BY <1>0, <1>1 DEF To, ExecutorType
<1>2. ASSUME NEW r, Briefed(e, r), executor'[e].stage \in Runnable
      PROVE  Position(executor'[e].phase, executor'[e].stage)
  <2>1. executor'[e].phase = executor'[e].stage
    BY <1>0, <1>2 DEF Briefed, Resting
  <2>2. QED
    BY <1>2, <2>1 DEF Position, Runnable
<1>3. ASSUME Leave(e)
      PROVE  Position(executor'[e].phase, executor'[e].stage)
  <2>1. executor'[e].phase = "idle"
    BY <1>0, <1>3 DEF Leave, Resting
  <2>2. QED
    BY <2>1 DEF Position, Runnable
<1>4. CASE claim(e) \/ heartbeat(e)
  <2>1. \/ \E r : Briefed(e, r)
        \/ Leave(e)
    BY <1>4 DEF claim, heartbeat
  <2>2. executor'[e].stage \in Runnable
    BY <1>4, LeaseStepInv DEF Inv, TypeOK, ExecutorType
  <2>3. QED
    BY <1>2, <1>3, <2>1, <2>2
<1>5. CASE stop_executor(e) \/ ExecutorDies(e) \/ record_stage_failure(e)
  BY <1>3, <1>5 DEF stop_executor, ExecutorDies, record_stage_failure
<1>6. CASE append_manifest_key_chunk(e)
  BY <1>0, <1>6 DEF append_manifest_key_chunk
<1>7. CASE serving_writes_drained(e)
  <2>0. executor[e].stage = "fenced"
    BY <1>0, <1>7 DEF serving_writes_drained, Position
  <2>1. CASE executor[e].frozen
    <3>1. executor'[e].phase = "draining" /\ executor'[e].stage = "fenced"
      BY <1>1, <1>7, <2>0, <2>1 DEF serving_writes_drained
    <3>2. QED
      BY <3>1 DEF Position, Runnable
  <2>2. CASE ~executor[e].frozen
    <3>1. executor'[e] = [executor[e] EXCEPT !.phase = "listing", !.listed = objects]
      BY <1>0, <1>7, <2>2 DEF serving_writes_drained
    <3>2. executor'[e].phase = "listing" /\ executor'[e].stage = "fenced"
      BY <1>0, <2>0, <3>1 DEF ExecutorType
    <3>3. QED
      BY <3>2 DEF Position, Runnable
  <2>3. QED
    BY <2>1, <2>2
<1>8. CASE freeze_destructive_storage_manifest(e)
  <2>1. executor'[e] = [executor[e] EXCEPT !.phase = "draining", !.listed = {}]
    BY <1>0, <1>8 DEF freeze_destructive_storage_manifest
  <2>2. executor'[e].phase = "draining" /\ executor'[e].stage = "fenced"
    BY <1>0, <1>8, <2>1 DEF ExecutorType, Position, freeze_destructive_storage_manifest
  <2>3. QED
    BY <2>2 DEF Position, Runnable
<1>9. CASE next_pending_manifest_chunk(e)
  <2>1. PICK o : executor'[e] = [executor[e] EXCEPT !.phase = "deleting", !.chunk = {o}]
    BY <1>0, <1>9 DEF next_pending_manifest_chunk
  <2>2. executor[e].phase = "drained"
    BY <1>9 DEF next_pending_manifest_chunk
  <2>3. executor'[e].phase = "deleting" /\ executor'[e].stage = "drained"
    BY <1>0, <2>1, <2>2 DEF ExecutorType, Position, Runnable
  <2>4. QED
    BY <2>3 DEF Position, Runnable
<1>10. CASE mark_manifest_chunk_deleted(e)
  <2>1. executor'[e] = [executor[e] EXCEPT !.phase = "drained", !.chunk = {}]
    BY <1>0, <1>10 DEF mark_manifest_chunk_deleted
  <2>2. executor[e].phase = "deleting"
    BY <1>10 DEF mark_manifest_chunk_deleted
  <2>3. executor'[e].phase = "drained" /\ executor'[e].stage = "drained"
    BY <1>0, <2>1, <2>2 DEF ExecutorType, Position
  <2>4. QED
    BY <2>3 DEF Position, Runnable
<1>11. CASE \/ fence(e) \/ mark_drained(e) \/ mark_bindings_removed(e) \/ purge_postgres(e)
            \/ mark_cache_purged(e) \/ mark_logically_verified(e) \/ mark_retention_pending(e)
  <2>1. To(e, "completed")
    BY <1>11 DEF fence, mark_drained, mark_bindings_removed, purge_postgres, mark_cache_purged,
                 mark_logically_verified, mark_retention_pending
  <2>2. QED
    BY <1>1, <2>1 DEF Position, Runnable
<1>12. CASE \/ begin_quiescing(e) \/ publish_disconnect_community(e)
            \/ verify_before_cache_purge(e) \/ purge_redis_namespace(e)
            \/ verify_postgres_logically_deleted(e) \/ verify_storage_absence(e)
            \/ verify_redis_absence(e)
  <2>1. \/ executor[e].phase = "approved" /\ To(e, "fencing")
        \/ executor[e].phase = "fenced" /\ To(e, "disconnected")
        \/ executor[e].phase = "postgres_purged" /\ To(e, "purging")
        \/ executor[e].phase = "purging" /\ To(e, "purged")
        \/ executor[e].phase = "cache_purged" /\ To(e, "rows_absent")
        \/ executor[e].phase = "rows_absent" /\ To(e, "objects_absent")
        \/ executor[e].phase = "objects_absent" /\ To(e, "all_absent")
    BY <1>12 DEF begin_quiescing, publish_disconnect_community, verify_before_cache_purge,
                 purge_redis_namespace, verify_postgres_logically_deleted,
                 verify_storage_absence, verify_redis_absence
  <2>2. QED
    BY <1>0, <1>1, <2>1 DEF Position, Runnable
<1>13. QED
  BY <1>4, <1>5, <1>6, <1>7, <1>8, <1>9, <1>10, <1>11, <1>12 DEF ExecutorStep

\* No step of an executor takes a request back before the point of no return.
LEMMA StagesGoOn ==
  ASSUME Inv, NEW e \in Executor, ExecutorStep(e), request'.stage \in Before
  PROVE  request.stage \in Before
<1>0. request \in RequestType
  BY DEF Inv, TypeOK
<1>1. ASSUME NEW f \in Executor, verify_lease(f),
             Advanced(request).stage \in Before
      PROVE  request.stage \in Before
  <2>1. request.stage \in Runnable
    BY <1>1, TokenFacts
  <2>2. Advanced(request).stage = NextStage[request.stage]
    BY <1>0 DEF Advanced, RequestType
  <2>3. QED
    BY <1>1, <2>1, <2>2 DEF NextStage, Runnable, Before
<1>2. CASE \/ fence(e) \/ mark_drained(e) \/ mark_bindings_removed(e) \/ purge_postgres(e)
           \/ mark_cache_purged(e) \/ mark_logically_verified(e) \/ mark_retention_pending(e)
  <2> DEFINE A == Advanced(request)
  <2>1. verify_lease(e) /\ To(e, "completed")
    BY <1>2 DEF fence, mark_drained, mark_bindings_removed, purge_postgres, mark_cache_purged,
                mark_logically_verified, mark_retention_pending, verify_lease_and_fence
  <2>2. \/ request' = A
        \/ request' = [A EXCEPT !.fence = community.generation + 1]
        \/ request' = [A EXCEPT !.chunks = {}]
        \/ request' = Released(A)
    BY <1>2 DEF fence, mark_drained, mark_bindings_removed, purge_postgres, mark_cache_purged,
                mark_logically_verified, mark_retention_pending
  <2>3. A \in RequestType
    BY <2>1, StageEnds
  <2> HIDE DEF A
  <2>4. request'.stage = A.stage
    BY <2>2, <2>3, ReleasedType DEF RequestType
  <2>5. QED
    BY <1>1, <2>1, <2>4 DEF A
<1>3. CASE stop_executor(e)
  BY <1>0, <1>3, ReleasedType DEF stop_executor
<1>4. CASE record_stage_failure(e)
  <2>1. CASE verify_lease(e)
    <3>1. request' \in {record_retry(request), block(request)}
      BY <1>4, <2>1 DEF record_stage_failure
    <3>2. QED
      BY <2>1, <3>1, TokenFacts, FailureType
  <2>2. CASE ~verify_lease(e)
    BY <1>4, <2>2 DEF record_stage_failure
  <2>3. QED
    BY <2>1, <2>2
<1>5. CASE claim(e) \/ serving_writes_drained(e) \/ append_manifest_key_chunk(e)
           \/ freeze_destructive_storage_manifest(e) \/ mark_manifest_chunk_deleted(e)
  <2>1. request'.stage = request.stage
    BY <1>0, <1>5 DEF claim, serving_writes_drained, append_manifest_key_chunk,
                      freeze_destructive_storage_manifest, mark_manifest_chunk_deleted, RequestType
  <2>2. QED
    BY <2>1
<1>6. CASE UNCHANGED request
  BY <1>6
<1>7. QED
  BY <1>2, <1>3, <1>4, <1>5, <1>6
     DEF ExecutorStep, heartbeat, ExecutorDies, begin_quiescing, publish_disconnect_community,
         next_pending_manifest_chunk, verify_before_cache_purge, purge_redis_namespace,
         verify_postgres_logically_deleted, verify_storage_absence, verify_redis_absence

\* Executors touch no object, and ask for deletes only past the point of no return.
LEMMA ObjectFrame ==
  ASSUME Inv, OnStage, NEW e \in Executor, ExecutorStep(e)
  PROVE  /\ UNCHANGED <<objects, writer>>
         /\ deleting' = deleting \/ request'.stage \notin Before
<1>1. CASE next_pending_manifest_chunk(e)
  BY <1>1 DEF next_pending_manifest_chunk, OnStage, Position, Runnable, verify_lease_and_fence,
              verify_lease, Before
<1>2. CASE UNCHANGED <<objects, writer, deleting>>
  BY <1>2
<1>3. QED
  BY <1>1, <1>2
     DEF ExecutorStep, claim, heartbeat, stop_executor, ExecutorDies, record_stage_failure,
         begin_quiescing, fence, publish_disconnect_community, serving_writes_drained,
         append_manifest_key_chunk, freeze_destructive_storage_manifest, mark_drained,
         mark_manifest_chunk_deleted, mark_bindings_removed,
         purge_postgres, verify_before_cache_purge, purge_redis_namespace, mark_cache_purged,
         verify_postgres_logically_deleted, verify_storage_absence, verify_redis_absence,
         mark_logically_verified, mark_retention_pending

\* Nothing else takes a request back either: only one before the point of no
\* return is aborted, submitted again, inventoried or approved.
LEMMA OperatorGoesOn ==
  ASSUME Inv,
         \/ set_presence \/ claim_blocks \/ LeaseExpires \/ submit \/ freeze_inventory
         \/ approve \/ block_preclaim_setup \/ abort \/ unblock
  PROVE  /\ UNCHANGED <<objects, writer, deleting>>
         /\ request'.stage \in Before => request.stage \in Before
<1>0. request \in RequestType /\ Released(request) \in RequestType
      /\ Released(request).stage = request.stage
  BY ReleasedType DEF Inv, TypeOK
<1>1. CASE submit \/ freeze_inventory \/ approve \/ abort
  BY <1>1 DEF submit, freeze_inventory, approve, abort, Before
<1>2. CASE set_presence
  BY <1>2 DEF set_presence
<1>3. CASE LeaseExpires
  BY <1>0, <1>3 DEF LeaseExpires
<1>4. CASE claim_blocks \/ unblock
  <2> DEFINE q == Released(request)
  <2>1. \/ request' = [q EXCEPT !.blocked = TRUE]
        \/ request' = [q EXCEPT !.blocked = FALSE, !.retries = 0]
    BY <1>4 DEF claim_blocks, unblock
  <2>2. q \in RequestType /\ q.stage = request.stage
    BY <1>0
  <2> HIDE DEF q
  <2>3. request'.stage = request.stage
    BY <2>1, <2>2 DEF RequestType
  <2>4. QED
    BY <1>4, <2>3 DEF claim_blocks, unblock
<1>5. CASE block_preclaim_setup
  BY <1>0, <1>5 DEF block_preclaim_setup, RequestType
<1>6. QED
  BY <1>1, <1>2, <1>3, <1>4, <1>5

\* A serving operation touches neither the request nor the executors.
LEMMA WriterKeeps ==
  ASSUME NEW w \in Writer, WriterStep(w)
  PROVE  UNCHANGED <<community, request, executor, deleting>>
  BY DEF WriterStep, acquire_serving_write_lease, protect, StorePut,
         guard_transaction_with_serving_lease, guard_transaction,
         release_serving_write_lease, ServingLeaseExpires

\* An object appears by its own PUT only, which is carried out once: before it
\* was sent, the writer is idle or admitted.
PutOnce ==
  \A w \in Writer : writer[w].phase \in {"idle", "admitted"} => writer[w].put = "none"

\* What the steps of a serving operation do to the objects and its PUT.
LEMMA WriterPuts ==
  ASSUME Inv, NEW w \in Writer, WriterStep(w)
  PROVE  /\ objects \subseteq objects'
         /\ \A v \in Writer : writer'[v].put \in {"stored", "late"} =>
              writer[v].put \in {"stored", "late"} \/ v \in objects'
         /\ PutOnce =>
              /\ PutOnce'
              /\ \A v \in Writer : writer'[v].put \in {"none", "sent"} =>
                   writer[v].put \in {"none", "sent"} /\ v \notin objects' \ objects
              /\ \A v \in Writer : writer[v].put = "late" => writer'[v].put = "late"
              /\ objects' \subseteq
                   objects \cup {v \in Writer : writer'[v].put = "late" \/ LeaseHeld(v)}
<1> USE DEF Inv, TypeOK, WriterType, PutOnce, LeaseHeld
<1>1. CASE StorePut(w)
  BY <1>1 DEF StorePut
<1>2. CASE acquire_serving_write_lease(w)
  BY <1>2 DEF acquire_serving_write_lease
<1>3. CASE protect(w)
  BY <1>3 DEF protect
<1>4. CASE release_serving_write_lease(w)
  BY <1>4 DEF release_serving_write_lease
<1>5. CASE guard_transaction_with_serving_lease(w)
  BY <1>5 DEF guard_transaction_with_serving_lease
<1>6. CASE guard_transaction(w)
  BY <1>6 DEF guard_transaction
<1>7. CASE ServingLeaseExpires(w)
  BY <1>7 DEF ServingLeaseExpires
<1>8. QED
  BY <1>1, <1>2, <1>3, <1>4, <1>5, <1>6, <1>7 DEF WriterStep

\* Every executor stays at a position of the stage of its token.
LEMMA NextOnStage ==
  ASSUME Inv, OnStage, [Next]_vars
  PROVE  OnStage'
<1>1. ASSUME UNCHANGED executor PROVE OnStage'
  BY <1>1 DEF OnStage
<1>2. QED
  BY <1>1, PositionAndToken, WriterFrame, OtherFrame DEF Next, vars

\* So it is in every run.
LEMMA SpecOnStage == Spec => []OnStage
<1>1. Init => OnStage
  BY DEF Init, Resting, OnStage, Position, Runnable
<1>2. QED
  BY <1>1, NextOnStage, SpecInv, PTL DEF Spec

\* Until a request is drained nothing is deleted, and an abort leaves the
\* community whole: no executor that lost its lease has a delete under way, for
\* this request or the next.  The strengthening is OnStage.
THEOREM AbortLeavesWhole == Spec => []WholeUntilDrained
<1>1. Init => WholeUntilDrained
  BY DEF Init, WholeUntilDrained
<1>2. Inv /\ OnStage /\ WholeUntilDrained /\ [Next]_vars => WholeUntilDrained'
  <2> SUFFICES ASSUME Inv, OnStage, WholeUntilDrained, [Next]_vars
               PROVE  WholeUntilDrained'
    OBVIOUS
  <2>1. CASE UNCHANGED vars
    BY <2>1 DEF vars, WholeUntilDrained
  <2>2. ASSUME NEW w \in Writer, WriterStep(w)
        PROVE  WholeUntilDrained'
    <3>1. UNCHANGED <<community, request, executor, deleting>>
      BY <2>2, WriterKeeps
    <3>2. /\ objects \subseteq objects'
          /\ \A v \in Writer : writer'[v].put \in {"stored", "late"} =>
               writer[v].put \in {"stored", "late"} \/ v \in objects'
      BY <2>2, WriterPuts
    <3>3. QED
      BY <3>1, <3>2 DEF WholeUntilDrained
  <2>3. ASSUME NEW e \in Executor, ExecutorStep(e)
        PROVE  WholeUntilDrained'
    BY <2>3, ObjectFrame, StagesGoOn DEF WholeUntilDrained, Before
  <2>4. CASE StoreDelete
    BY <2>4 DEF StoreDelete, WholeUntilDrained
  <2>5. CASE set_presence \/ claim_blocks \/ LeaseExpires \/ submit \/ freeze_inventory
             \/ approve \/ block_preclaim_setup \/ abort \/ unblock
    BY <2>5, OperatorGoesOn DEF WholeUntilDrained, Before
  <2>6. QED
    BY <2>1, <2>2, <2>3, <2>4, <2>5 DEF Next
<1>3. QED
  BY <1>1, <1>2, SpecInv, SpecOnStage, PTL DEF Spec

-----------------------------------------------------------------------------
(* The frozen list of objects.                                             *)

\* The end of a lease and the next stage leave the rest of a request alone.
LEMMA KeepsTheRest ==
  ASSUME NEW r \in RequestType
  PROVE  /\ Released(r).manifest = r.manifest
         /\ Released(r).chunks = r.chunks
         /\ Released(r).frozen = r.frozen
         /\ Released(r).owner = NoExecutor
         /\ Advanced(r).manifest = r.manifest
         /\ Advanced(r).chunks = r.chunks
         /\ Advanced(r).frozen = r.frozen
         /\ Advanced(r).stage = NextStage[r.stage]
  BY DEF Released, Advanced, RequestType

\* A request whose list and stage are as before.
SameList ==
  /\ request'.manifest = request.manifest
  /\ request'.chunks = request.chunks
  /\ request'.frozen = request.frozen
  /\ request'.stage = request.stage

\* The list and the stage in the steps between stages and in failures.
LEMMA LeaseStepList ==
  ASSUME Inv, NEW e \in Executor,
         claim(e) \/ heartbeat(e) \/ stop_executor(e) \/ ExecutorDies(e) \/ record_stage_failure(e)
  PROVE  SameList
<1>0. request \in RequestType
  BY DEF Inv, TypeOK
<1> USE DEF SameList
<1>1. CASE claim(e)
  BY <1>0, <1>1 DEF claim, RequestType
<1>2. CASE heartbeat(e) \/ ExecutorDies(e)
  BY <1>2 DEF heartbeat, ExecutorDies
<1>3. CASE stop_executor(e)
  BY <1>0, <1>3, ReleasedType, KeepsTheRest DEF stop_executor
<1>4. CASE record_stage_failure(e)
  <2> DEFINE q == Released(request)
  <2>1. \/ request' = request
        \/ request' = [q EXCEPT !.retries = q.retries + 1,
                                !.blocked = request.retries + 1 >= MAX_RETRIES]
        \/ request' = [q EXCEPT !.blocked = TRUE]
    BY <1>4 DEF record_stage_failure, record_retry, block
  <2>2. /\ q \in RequestType
        /\ q.manifest = request.manifest
        /\ q.chunks = request.chunks
        /\ q.frozen = request.frozen
        /\ q.stage = request.stage
    BY <1>0, ReleasedType, KeepsTheRest
  <2> HIDE DEF q
  <2>3. QED
    BY <2>1, <2>2 DEF RequestType
<1>5. QED
  BY <1>1, <1>2, <1>3, <1>4

\* The transaction that ends a stage keeps the list; it ends the stage of its
\* position, and that of "drained" without a chunk left.
LEMMA StageEndList ==
  ASSUME Inv, OnStage, NEW e \in Executor,
         \/ fence(e) \/ mark_drained(e) \/ mark_bindings_removed(e) \/ purge_postgres(e)
         \/ mark_cache_purged(e) \/ mark_logically_verified(e) \/ mark_retention_pending(e)
  PROVE  /\ request'.manifest = request.manifest
         /\ request'.frozen = request.frozen
         /\ request.stage \in Runnable
         /\ request'.stage = NextStage[request.stage]
         /\ request.stage = "drained" => request.chunks = {}
         /\ \/ request'.chunks = request.chunks
            \/ request'.chunks = {} /\ request.stage = "cache_purged"
<1> DEFINE A == Advanced(request)
<1>1. verify_lease(e) /\ To(e, "completed")
  BY DEF fence, mark_drained, mark_bindings_removed, purge_postgres, mark_cache_purged,
         mark_logically_verified, mark_retention_pending, verify_lease_and_fence
<1>2. /\ request \in RequestType
      /\ request.stage \in Runnable
      /\ request.stage = executor[e].stage
      /\ A \in RequestType
  BY <1>1, StageEnds, TokenFacts DEF verify_lease
<1>3. \/ executor[e].phase = "drained" /\ request.chunks = {}
      \/ executor[e].phase \in {"fencing", "draining", "purged", "all_absent"}
      \/ executor[e].phase \in {"bindings_removed", "logically_verified"}
  BY DEF fence, mark_drained, mark_bindings_removed, purge_postgres, mark_cache_purged,
         mark_logically_verified, mark_retention_pending
<1>4. request.stage = "drained" => request.chunks = {}
  BY <1>2, <1>3 DEF OnStage, Position, Runnable
<1>5. \/ request' = A
      \/ request' = [A EXCEPT !.fence = community.generation + 1]
      \/ request' = [A EXCEPT !.chunks = {}] /\ executor[e].phase = "all_absent"
      \/ request' = Released(A)
  BY DEF fence, mark_drained, mark_bindings_removed, purge_postgres, mark_cache_purged,
         mark_logically_verified, mark_retention_pending
<1>6. /\ A.manifest = request.manifest
      /\ A.chunks = request.chunks
      /\ A.frozen = request.frozen
      /\ A.stage = NextStage[request.stage]
      /\ Released(A).manifest = A.manifest
      /\ Released(A).chunks = A.chunks
      /\ Released(A).frozen = A.frozen
      /\ Released(A).stage = A.stage
  BY <1>2, KeepsTheRest, ReleasedType
<1> HIDE DEF A
<1>7. /\ request'.manifest = A.manifest
      /\ request'.frozen = A.frozen
      /\ request'.stage = A.stage
      /\ \/ request'.chunks = A.chunks
         \/ request'.chunks = {} /\ executor[e].phase = "all_absent"
  BY <1>2, <1>5, <1>6 DEF RequestType
<1>8. executor[e].phase = "all_absent" => request.stage = "cache_purged"
  BY <1>2 DEF OnStage, Position
<1>9. QED
  BY <1>2, <1>4, <1>6, <1>7, <1>8

\* What an executor may do to the list, step by step.
LEMMA ListSteps ==
  ASSUME Inv, OnStage, NEW e \in Executor, ExecutorStep(e)
  PROVE  \/ SameList
         \/ \* the chunks of an interrupted freeze are dropped, or one is added
            /\ ~request.frozen
            /\ request'.frozen = request.frozen
            /\ request'.manifest = request.manifest
            /\ request'.stage = request.stage
            /\ request'.chunks = {} \/ append_manifest_key_chunk(e)
         \/ \* the list is frozen
            /\ freeze_destructive_storage_manifest(e)
            /\ request.chunks = executor[e].listed
            /\ request.stage = "fenced"
            /\ request'.stage = "fenced"
            /\ request'.frozen
            /\ request'.manifest = executor[e].listed
            /\ request'.chunks = executor[e].listed
         \/ \* a chunk is stamped
            /\ request'.manifest = request.manifest
            /\ request'.frozen = request.frozen
            /\ request'.stage = request.stage
            /\ \E c : request'.chunks = request.chunks \ c /\ c \cap objects = {}
         \/ \* a stage ends
            /\ request'.manifest = request.manifest
            /\ request'.frozen = request.frozen
            /\ request.stage \in Runnable
            /\ request'.stage = NextStage[request.stage]
            /\ request.stage = "drained" => request.chunks = {}
            /\ \/ request'.chunks = request.chunks
               \/ request'.chunks = {} /\ request.stage = "cache_purged"
<1>0. request \in RequestType
  BY DEF Inv, TypeOK
<1>1. CASE \/ claim(e) \/ heartbeat(e) \/ stop_executor(e) \/ ExecutorDies(e)
           \/ record_stage_failure(e)
  BY <1>1, LeaseStepList
<1>2. CASE \/ begin_quiescing(e) \/ publish_disconnect_community(e)
           \/ next_pending_manifest_chunk(e) \/ verify_before_cache_purge(e)
           \/ purge_redis_namespace(e) \/ verify_postgres_logically_deleted(e)
           \/ verify_storage_absence(e) \/ verify_redis_absence(e)
  <2>1. UNCHANGED request
    BY <1>2 DEF begin_quiescing, publish_disconnect_community, next_pending_manifest_chunk,
                verify_before_cache_purge, purge_redis_namespace,
                verify_postgres_logically_deleted, verify_storage_absence, verify_redis_absence
  <2>2. QED
    BY <2>1 DEF SameList
<1>3. CASE serving_writes_drained(e)
  <2>1. CASE UNCHANGED request
    BY <2>1 DEF SameList
  <2>2. CASE ~request.frozen /\ request' = [request EXCEPT !.chunks = {}]
    BY <1>0, <2>2 DEF RequestType
  <2>3. QED
    BY <1>3, <2>1, <2>2 DEF serving_writes_drained
<1>4. CASE append_manifest_key_chunk(e)
  BY <1>0, <1>4 DEF append_manifest_key_chunk, RequestType
<1>5. CASE freeze_destructive_storage_manifest(e)
  <2>1. request' = [request EXCEPT !.frozen = TRUE, !.manifest = executor[e].listed]
    BY <1>5 DEF freeze_destructive_storage_manifest
  <2>2. request.chunks = executor[e].listed /\ request.stage = "fenced"
    BY <1>5 DEF freeze_destructive_storage_manifest, verify_lease_and_fence, verify_lease,
                OnStage, Position
  <2>3. QED
    BY <1>0, <1>5, <2>1, <2>2 DEF RequestType
<1>6. CASE mark_manifest_chunk_deleted(e)
  <2>1. request' = [request EXCEPT !.chunks = request.chunks \ executor[e].chunk]
    BY <1>6 DEF mark_manifest_chunk_deleted
  <2>2. /\ request'.manifest = request.manifest
        /\ request'.frozen = request.frozen
        /\ request'.stage = request.stage
        /\ request'.chunks = request.chunks \ executor[e].chunk
    BY <1>0, <2>1 DEF RequestType
  <2>3. executor[e].chunk \cap objects = {}
    BY <1>6 DEF mark_manifest_chunk_deleted
  <2>4. QED
    BY <2>2, <2>3
<1>7. CASE \/ fence(e) \/ mark_drained(e) \/ mark_bindings_removed(e) \/ purge_postgres(e)
           \/ mark_cache_purged(e) \/ mark_logically_verified(e) \/ mark_retention_pending(e)
  BY <1>7, StageEndList
<1>8. QED
  BY <1>1, <1>2, <1>3, <1>4, <1>5, <1>6, <1>7 DEF ExecutorStep

\* What an executor lists is what is stored.
LEMMA ListedIsStored ==
  ASSUME Inv, NEW e \in Executor, ExecutorStep(e)
  PROVE  \A f \in Executor : \/ executor'[f].listed = executor[f].listed
                             \/ executor'[f].listed = {}
                             \/ executor'[f].listed = objects
<1>0. /\ executor \in [Executor -> ExecutorType]
      /\ executor[e] \in ExecutorType
      /\ \A f \in Executor : f # e => executor'[f] = executor[f]
  BY OthersStay DEF Inv, TypeOK
<1> SUFFICES \/ executor'[e].listed = executor[e].listed
             \/ executor'[e].listed = {}
             \/ executor'[e].listed = objects
  BY <1>0
<1>1. ASSUME NEW ph, To(e, ph) PROVE executor'[e].listed = executor[e].listed
  BY <1>0, <1>1 DEF To, ExecutorType
<1>2. ASSUME NEW r, Briefed(e, r) PROVE executor'[e].listed = {}
  BY <1>0, <1>2 DEF Briefed, Resting
<1>3. ASSUME Leave(e) PROVE executor'[e].listed = {}
  BY <1>0, <1>3 DEF Leave, Resting
<1>4. CASE \/ claim(e) \/ heartbeat(e) \/ stop_executor(e) \/ ExecutorDies(e)
           \/ record_stage_failure(e)
  BY <1>2, <1>3, <1>4 DEF claim, heartbeat, stop_executor, ExecutorDies, record_stage_failure
<1>5. CASE append_manifest_key_chunk(e)
  BY <1>5 DEF append_manifest_key_chunk
<1>6. CASE serving_writes_drained(e)
  <2>1. CASE To(e, "draining")
    BY <1>1, <2>1
  <2>2. CASE executor' = [executor EXCEPT ![e] =
                            [executor[e] EXCEPT !.phase = "listing", !.listed = objects]]
    BY <1>0, <2>2 DEF ExecutorType
  <2>3. QED
    BY <1>6, <2>1, <2>2 DEF serving_writes_drained
<1>7. CASE freeze_destructive_storage_manifest(e)
  BY <1>0, <1>7 DEF freeze_destructive_storage_manifest, ExecutorType
<1>8. CASE next_pending_manifest_chunk(e)
  BY <1>0, <1>8 DEF next_pending_manifest_chunk, ExecutorType
<1>9. CASE mark_manifest_chunk_deleted(e)
  BY <1>0, <1>9 DEF mark_manifest_chunk_deleted, ExecutorType
<1>10. CASE \E ph : To(e, ph)
  BY <1>1, <1>10
<1>11. QED
  BY <1>4, <1>5, <1>6, <1>7, <1>8, <1>9, <1>10
     DEF ExecutorStep, begin_quiescing, fence, publish_disconnect_community, mark_drained,
         mark_bindings_removed, purge_postgres, verify_before_cache_purge, purge_redis_namespace,
         mark_cache_purged, verify_postgres_logically_deleted, verify_storage_absence,
         verify_redis_absence, mark_logically_verified, mark_retention_pending

\* The list and the stage in the steps of the operator, the clock, the stores
\* and the clients.
LEMMA OtherList ==
  ASSUME Inv,
         \/ set_presence \/ claim_blocks \/ LeaseExpires \/ StoreDelete \/ submit
         \/ freeze_inventory \/ approve \/ block_preclaim_setup \/ abort \/ unblock
  PROVE  /\ UNCHANGED <<executor, writer>>
         /\ objects' \subseteq objects
         /\ \/ SameList
            \/ /\ request'.manifest = request.manifest
               /\ request'.chunks = request.chunks
               /\ request'.frozen = request.frozen
               /\ \/ request.stage = "submitted" /\ request'.stage = "inventoried"
                  \/ request.stage = "inventoried" /\ request'.stage = "approved"
                  \/ abort /\ request'.stage = "aborted"
            \/ submit /\ request' = NewRequest(request.id + 1)
<1>0. request \in RequestType
  BY DEF Inv, TypeOK
<1> DEFINE q == Released(request)
<1>1. /\ q \in RequestType
      /\ q.manifest = request.manifest
      /\ q.chunks = request.chunks
      /\ q.frozen = request.frozen
      /\ q.stage = request.stage
  BY <1>0, ReleasedType, KeepsTheRest
<1>2. CASE set_presence \/ StoreDelete
  BY <1>2 DEF set_presence, StoreDelete, SameList
<1>3. CASE submit
  BY <1>3 DEF submit
<1>4. CASE freeze_inventory \/ approve
  <2>1. \/ /\ request.stage = "submitted"
           /\ request' = [request EXCEPT !.stage = "inventoried"]
        \/ /\ request.stage = "inventoried"
           /\ request' = [request EXCEPT !.stage = "approved"]
    BY <1>4 DEF freeze_inventory, approve
  <2>2. UNCHANGED <<executor, writer, objects>>
    BY <1>4 DEF freeze_inventory, approve
  <2>3. QED
    BY <1>0, <2>1, <2>2 DEF RequestType
<1>5. CASE abort
  <2> HIDE DEF q
  <2>1. request' = [q EXCEPT !.stage = "aborted", !.fence = community.generation + 1,
                             !.generation = q.generation + 1, !.blocked = FALSE, !.retries = 0]
    BY <1>5 DEF abort, Aborted, q
  <2>2. UNCHANGED <<executor, writer, objects>>
    BY <1>5 DEF abort
  <2>3. QED
    BY <1>1, <1>5, <2>1, <2>2 DEF RequestType
<1>6. CASE claim_blocks \/ LeaseExpires \/ block_preclaim_setup \/ unblock
  <2>1. UNCHANGED <<executor, writer, objects>>
    BY <1>6 DEF claim_blocks, LeaseExpires, block_preclaim_setup, unblock
  <2>2. \/ request' = [q EXCEPT !.blocked = TRUE]
        \/ request' = q
        \/ request' = [request EXCEPT !.blocked = TRUE]
        \/ request' = [q EXCEPT !.blocked = FALSE, !.retries = 0]
    BY <1>6 DEF claim_blocks, LeaseExpires, block_preclaim_setup, unblock
  <2> HIDE DEF q
  <2>3. SameList
    BY <1>0, <1>1, <2>2 DEF RequestType, SameList
  <2>4. QED
    BY <2>1, <2>3
<1>7. QED
  BY <1>2, <1>3, <1>4, <1>5, <1>6

\* What an executor appends is from its own listing, under its lease.
LEMMA AppendsItsListing ==
  ASSUME Inv, OnStage, NEW e \in Executor, ExecutorStep(e)
  PROVE  \A o \in request'.chunks \ request.chunks : HoldsLease(e) /\ o \in executor[e].listed
<1>1. CASE append_manifest_key_chunk(e)
  <2>1. HoldsLease(e)
    BY <1>1 DEF append_manifest_key_chunk, verify_lease_and_fence, verify_lease, HoldsLease
  <2>2. PICK o \in executor[e].listed :
          request' = [request EXCEPT !.chunks = request.chunks \cup {o}]
    BY <1>1 DEF append_manifest_key_chunk
  <2>3. request \in RequestType
    BY DEF Inv, TypeOK
  <2>4. request'.chunks = request.chunks \cup {o}
    BY <2>2, <2>3 DEF RequestType
  <2>5. QED
    BY <2>1, <2>4
<1>2. CASE request'.chunks \subseteq request.chunks
  BY <1>2
<1>3. QED
  BY <1>1, <1>2, ListSteps DEF SameList

\* Whatever an executor was doing when its lease was lost, taken over or ended
\* by an abort, none of its later steps changes the request, the community or the
\* rows, or sends a delete, and nothing it listed gets onto the list any more:
\* every transaction checks the token.
THEOREM StaleExecutorsPowerless == Spec => StaleExecutorIsFencedOut
<1> DEFINE Powerless ==
      /\ \A e \in Executor :
           Busy(e) /\ ~HoldsLease(e) /\ executor'[e] # executor[e]
             => UNCHANGED <<request, community, rows, deleting>>
      /\ \A o \in request'.chunks \ request.chunks :
           \E e \in Executor : HoldsLease(e) /\ o \in executor[e].listed
<1>1. Inv /\ OnStage /\ [Next]_vars => [Powerless]_vars
  <2> SUFFICES ASSUME Inv, OnStage, Next PROVE Powerless
    OBVIOUS
  <2>1. ASSUME NEW f \in Executor, ExecutorStep(f)
        PROVE  Powerless
    <3>1. \A e \in Executor : executor'[e] # executor[e] => e = f
      BY <2>1, OthersStay
    <3>2. QED
      BY <2>1, <3>1, TokenNeeded, AppendsItsListing
  <2>2. ASSUME UNCHANGED executor, request'.chunks \subseteq request.chunks
        PROVE  Powerless
    BY <2>2
  <2>3. ASSUME NEW w \in Writer, WriterStep(w)
        PROVE  Powerless
    BY <2>2, <2>3, WriterFrame
  <2>4. CASE \/ set_presence \/ claim_blocks \/ LeaseExpires \/ StoreDelete \/ submit
             \/ freeze_inventory \/ approve \/ block_preclaim_setup \/ abort \/ unblock
    <3>1. UNCHANGED executor /\ request'.chunks \subseteq request.chunks
      BY <2>4, OtherList DEF SameList, NewRequest
    <3>2. QED
      BY <2>2, <3>1
  <2>5. QED
    BY <2>1, <2>3, <2>4 DEF Next
<1>2. QED
  BY <1>1, SpecInv, SpecOnStage, PTL DEF Spec, StaleExecutorIsFencedOut

\* An object whose PUT is not carried out yet is in no store and on no list.
UnsentUnlisted ==
  \A w \in Writer : writer[w].put \in {"none", "sent"} =>
    /\ w \notin objects
    /\ w \notin request.manifest
    /\ \A e \in Executor : w \notin executor[e].listed

\* What is on the list and stored has a chunk without a stamp; without a freeze
\* there is no list.
UnstampedStays ==
  /\ objects \cap (request.manifest \ request.chunks) = {}
  /\ ~request.frozen => request.manifest = {}

ListInv == PutOnce /\ UnsentUnlisted /\ UnstampedStays /\ BindingsGone

\* The stages at which what is on the list is gone.
Gone == {"bindings_removed", "postgres_purged", "cache_purged", "logically_verified",
         "retention_pending"}

\* Nothing is listed at first.
LEMMA InitListInv == Init => ListInv
<1> SUFFICES ASSUME Init PROVE ListInv
  OBVIOUS
<1>1. request.manifest = {} /\ objects = OldObject /\ ~request.frozen
  BY DEF Init, NewRequest
<1>2. QED
  BY <1>1, DeletionAssumption
     DEF Init, Resting, ListInv, PutOnce, UnsentUnlisted, UnstampedStays, BindingsGone

\* The steps of each actor keep the invariant of the list.
LEMMA NextListInv ==
  ASSUME Inv, OnStage, ListInv, [Next]_vars
  PROVE  ListInv'
<1> USE DEF ListInv
<1>1. CASE UNCHANGED vars
  BY <1>1 DEF vars, PutOnce, UnsentUnlisted, UnstampedStays, BindingsGone
<1>2. ASSUME NEW w \in Writer, WriterStep(w)
      PROVE  ListInv'
  <2>1. UNCHANGED <<request, executor>>
    BY <1>2, WriterKeeps
  <2>2. /\ PutOnce'
        /\ \A v \in Writer : writer'[v].put \in {"none", "sent"} =>
             writer[v].put \in {"none", "sent"} /\ v \notin objects' \ objects
    BY <1>2, WriterPuts
  <2>3. \A v \in objects' \ objects : v \notin request.manifest
    <3>1. CASE StorePut(w)
      BY <3>1 DEF StorePut, UnsentUnlisted
    <3>2. CASE objects' = objects
      BY <3>2
    <3>3. QED
      BY <1>2, <3>1, <3>2 DEF WriterStep, acquire_serving_write_lease, protect,
                 guard_transaction_with_serving_lease, guard_transaction,
                 release_serving_write_lease, ServingLeaseExpires
  <2>4. UnsentUnlisted'
    BY <2>1, <2>2 DEF UnsentUnlisted
  <2>5. UnstampedStays' /\ BindingsGone'
    BY <2>1, <2>3 DEF UnstampedStays, BindingsGone
  <2>6. QED
    BY <2>2, <2>4, <2>5
<1>3. ASSUME NEW e \in Executor, ExecutorStep(e)
      PROVE  ListInv'
  <2>1. UNCHANGED <<objects, writer>>
    BY <1>3, ObjectFrame
  <2>2. PutOnce'
    BY <2>1 DEF PutOnce
  <2>3. request'.manifest = request.manifest \/ request'.manifest = executor[e].listed
        \/ request'.manifest = {}
    BY <1>3, ListSteps DEF SameList
  <2>4. UnsentUnlisted'
    BY <1>3, <2>1, <2>3, ListedIsStored DEF UnsentUnlisted
  <2>5. UnstampedStays' /\ BindingsGone'
    <3> USE <2>1 DEF UnstampedStays, BindingsGone
    <3>1. CASE SameList
      BY <3>1 DEF SameList
    <3>2. CASE /\ ~request.frozen
               /\ request'.frozen = request.frozen
               /\ request'.manifest = request.manifest
               /\ request'.stage = request.stage
      BY <3>2
    <3>3. CASE /\ request'.stage = "fenced"
               /\ request'.frozen
               /\ request'.manifest = executor[e].listed
               /\ request'.chunks = executor[e].listed
      BY <3>3
    <3>4. CASE /\ request'.manifest = request.manifest
               /\ request'.frozen = request.frozen
               /\ request'.stage = request.stage
               /\ \E c : request'.chunks = request.chunks \ c /\ c \cap objects = {}
      BY <3>4
    <3>5. CASE /\ request'.manifest = request.manifest
               /\ request'.frozen = request.frozen
               /\ request.stage \in Runnable
               /\ request'.stage = NextStage[request.stage]
               /\ request.stage = "drained" => request.chunks = {}
               /\ \/ request'.chunks = request.chunks
                  \/ request'.chunks = {} /\ request.stage = "cache_purged"
      <4>1. request'.stage \in Gone => request.stage \in Gone \cup {"drained"}
        BY <3>5 DEF NextStage, Runnable, Gone
      <4>2. request'.stage \in Gone => objects \cap request.manifest = {}
        BY <3>5, <4>1 DEF Gone
      <4>3. request.stage = "cache_purged" => objects \cap request.manifest = {}
        OBVIOUS
      <4>4. QED
        BY <3>5, <4>2, <4>3 DEF Gone
    <3>6. QED
      BY <1>3, <3>1, <3>2, <3>3, <3>4, <3>5, ListSteps
  <2>6. QED
    BY <2>2, <2>4, <2>5
<1>4. ASSUME \/ set_presence \/ claim_blocks \/ LeaseExpires \/ StoreDelete \/ submit
             \/ freeze_inventory \/ approve \/ block_preclaim_setup \/ abort \/ unblock
      PROVE  ListInv'
  <2>1. UNCHANGED <<executor, writer>> /\ objects' \subseteq objects
    BY <1>4, OtherList
  <2>2. \/ /\ request'.manifest = request.manifest
           /\ request'.chunks = request.chunks
           /\ request'.frozen = request.frozen
           /\ request'.stage \in Gone => request.stage \in Gone
        \/ request'.manifest = {} /\ request'.stage \notin Gone
    <3>1. CASE submit /\ request' = NewRequest(request.id + 1)
      BY <3>1 DEF NewRequest, Gone, submit
    <3>2. QED
      BY <1>4, <3>1, OtherList DEF SameList, Gone
  <2>3. QED
    <3>1. PutOnce' /\ UnsentUnlisted'
      BY <2>1, <2>2 DEF PutOnce, UnsentUnlisted
    <3>2. UnstampedStays' /\ BindingsGone'
      BY <2>1, <2>2 DEF UnstampedStays, BindingsGone, Gone
    <3>3. QED
      BY <3>1, <3>2
<1>5. QED
  BY <1>1, <1>2, <1>3, <1>4 DEF Next

\* The inductive invariant of the list holds in every run.
LEMMA SpecListInv == Spec => []ListInv
  BY InitListInv, NextListInv, SpecInv, SpecOnStage, PTL DEF Spec

\* Once a request says that its objects are removed, nothing the frozen list
\* names is stored, and nothing of it comes back, for any number of executors
\* with deletes in flight and any number of late PUTs.
THEOREM ListedIsGone == Spec => []BindingsGone
<1>1. ListInv => BindingsGone
  BY DEF ListInv
<1>2. QED
  BY <1>1, SpecListInv, PTL

-----------------------------------------------------------------------------
(* The freeze.                                                             *)

\* While the token of an executor that lists is valid, its list is complete up to
\* late PUTs.
ListingComplete ==
  \A e \in Executor : executor[e].phase = "listing" /\ verify_lease_and_fence(e) =>
    objects \subseteq executor[e].listed \cup LateObjects

\* Behind a frozen list the community is fenced.
FrozenIsFenced ==
  request.frozen /\ request.stage # "aborted" => community.state \in {"fenced", "tombstone"}

FreezeInv == ListingComplete /\ FrozenIsFenced /\ FreezeIsComplete

\* An executor starts to list from what is stored.
LEMMA ListingStarts ==
  ASSUME Inv, NEW e \in Executor, ExecutorStep(e), executor'[e].phase = "listing"
  PROVE  executor'[e] = executor[e] \/ executor'[e].listed = objects
<1>0. executor \in [Executor -> ExecutorType] /\ executor[e] \in ExecutorType
  BY DEF Inv, TypeOK
<1>1. ASSUME NEW ph, To(e, ph) PROVE ph = "listing"
  BY <1>0, <1>1 DEF To, ExecutorType
<1>2. ASSUME NEW r, Briefed(e, r) PROVE FALSE
  <2>1. executor'[e].phase = executor'[e].stage
    BY <1>0, <1>2 DEF Briefed, Resting
  <2>2. executor'[e].stage \in Runnable
    BY ExecutorStepInv DEF Inv, TypeOK, ExecutorType
  <2>3. QED
    BY <2>1, <2>2 DEF Runnable
<1>3. ASSUME Leave(e) PROVE FALSE
  BY <1>0, <1>3 DEF Leave, Resting
<1>4. CASE \/ claim(e) \/ heartbeat(e) \/ stop_executor(e) \/ ExecutorDies(e)
           \/ record_stage_failure(e)
  BY <1>2, <1>3, <1>4 DEF claim, heartbeat, stop_executor, ExecutorDies, record_stage_failure
<1>5. CASE append_manifest_key_chunk(e)
  BY <1>5 DEF append_manifest_key_chunk
<1>6. CASE serving_writes_drained(e)
  <2>1. CASE To(e, "draining")
    BY <1>1, <2>1
  <2>2. CASE executor' = [executor EXCEPT ![e] =
                            [executor[e] EXCEPT !.phase = "listing", !.listed = objects]]
    BY <1>0, <2>2 DEF ExecutorType
  <2>3. QED
    BY <1>6, <2>1, <2>2 DEF serving_writes_drained
<1>7. CASE freeze_destructive_storage_manifest(e)
  <2>1. executor'[e] = [executor[e] EXCEPT !.phase = "draining", !.listed = {}]
    BY <1>0, <1>7 DEF freeze_destructive_storage_manifest
  <2>2. QED
    BY <1>0, <2>1 DEF ExecutorType
<1>8. CASE next_pending_manifest_chunk(e)
  <2>1. PICK o : executor'[e] = [executor[e] EXCEPT !.phase = "deleting", !.chunk = {o}]
    BY <1>0, <1>8 DEF next_pending_manifest_chunk
  <2>2. QED
    BY <1>0, <2>1 DEF ExecutorType
<1>9. CASE mark_manifest_chunk_deleted(e)
  <2>1. executor'[e] = [executor[e] EXCEPT !.phase = "drained", !.chunk = {}]
    BY <1>0, <1>9 DEF mark_manifest_chunk_deleted
  <2>2. QED
    BY <1>0, <2>1 DEF ExecutorType
<1>10. CASE \/ begin_quiescing(e) \/ publish_disconnect_community(e)
            \/ verify_before_cache_purge(e) \/ purge_redis_namespace(e)
            \/ verify_postgres_logically_deleted(e) \/ verify_storage_absence(e)
            \/ verify_redis_absence(e) \/ fence(e) \/ mark_drained(e) \/ mark_bindings_removed(e)
            \/ purge_postgres(e) \/ mark_cache_purged(e) \/ mark_logically_verified(e)
            \/ mark_retention_pending(e)
  <2>1. \/ To(e, "fencing") \/ To(e, "disconnected") \/ To(e, "purging") \/ To(e, "purged")
        \/ To(e, "rows_absent") \/ To(e, "objects_absent") \/ To(e, "all_absent")
        \/ To(e, "completed")
    BY <1>10
       DEF begin_quiescing, fence, publish_disconnect_community, mark_drained,
           mark_bindings_removed, purge_postgres, verify_before_cache_purge,
           purge_redis_namespace, mark_cache_purged, verify_postgres_logically_deleted,
           verify_storage_absence, verify_redis_absence, mark_logically_verified,
           mark_retention_pending
  <2>2. QED
    BY <1>1, <2>1
<1>11. QED
  BY <1>4, <1>5, <1>6, <1>7, <1>8, <1>9, <1>10 DEF ExecutorStep

\* While an executor holds the lease no other changes the request or the
\* community.
LEMMA HolderAlone ==
  ASSUME Inv, NEW e \in Executor, NEW f \in Executor, f # e, request.owner = e, ExecutorStep(f)
  PROVE  UNCHANGED <<request, community>>
<1>1. ~verify_lease(f) /\ ~claim(f)
  BY DeletionAssumption DEF verify_lease, claim, Claimable, Held
<1>2. CASE serving_writes_drained(f)
  BY <1>1, <1>2 DEF serving_writes_drained, verify_lease_and_fence
<1>3. CASE stop_executor(f) \/ record_stage_failure(f)
  BY <1>1, <1>3 DEF stop_executor, record_stage_failure
<1>4. CASE UNCHANGED <<request, community>>
  BY <1>4
<1>5. QED
  BY <1>1, <1>2, <1>3, <1>4
     DEF ExecutorStep, heartbeat, ExecutorDies, begin_quiescing, fence,
         publish_disconnect_community, append_manifest_key_chunk,
         freeze_destructive_storage_manifest, mark_drained, next_pending_manifest_chunk,
         mark_manifest_chunk_deleted, mark_bindings_removed, purge_postgres,
         verify_before_cache_purge, purge_redis_namespace, mark_cache_purged,
         verify_postgres_logically_deleted, verify_storage_absence, verify_redis_absence,
         mark_logically_verified, mark_retention_pending, verify_lease_and_fence

\* Only a claim gives the lease to somebody.
LEMMA OwnerSteps ==
  ASSUME Inv, NEW f \in Executor, ExecutorStep(f)
  PROVE  request'.owner \in {request.owner, NoExecutor} \/ claim(f)
<1>0. request \in RequestType
  BY DEF Inv, TypeOK
<1> DEFINE q == Released(request)
           A == Advanced(request)
<1>1. q \in RequestType /\ q.owner = NoExecutor
  BY <1>0, ReleasedType, KeepsTheRest
<1>2. CASE stop_executor(f) \/ record_stage_failure(f)
  <2>1. \/ request' = request
        \/ request' = q
        \/ request' = [q EXCEPT !.retries = q.retries + 1,
                                !.blocked = request.retries + 1 >= MAX_RETRIES]
        \/ request' = [q EXCEPT !.blocked = TRUE]
    BY <1>2 DEF stop_executor, record_stage_failure, record_retry, block
  <2> HIDE DEF q
  <2>2. QED
    BY <1>1, <2>1 DEF RequestType
<1>3. CASE \/ serving_writes_drained(f) \/ append_manifest_key_chunk(f)
           \/ freeze_destructive_storage_manifest(f) \/ mark_manifest_chunk_deleted(f)
  BY <1>0, <1>3
     DEF serving_writes_drained, append_manifest_key_chunk,
         freeze_destructive_storage_manifest, mark_manifest_chunk_deleted, RequestType
<1>4. CASE \/ fence(f) \/ mark_drained(f) \/ mark_bindings_removed(f) \/ purge_postgres(f)
           \/ mark_cache_purged(f) \/ mark_logically_verified(f) \/ mark_retention_pending(f)
  <2>1. verify_lease(f) /\ To(f, "completed")
    BY <1>4 DEF fence, mark_drained, mark_bindings_removed, purge_postgres, mark_cache_purged,
                mark_logically_verified, mark_retention_pending, verify_lease_and_fence
  <2>2. A \in RequestType /\ A.owner = request.owner
    BY <1>0, <2>1, StageEnds DEF Advanced, RequestType
  <2>3. Released(A).owner = NoExecutor
    BY <2>2, KeepsTheRest
  <2>4. \/ request' = A
        \/ request' = [A EXCEPT !.fence = community.generation + 1]
        \/ request' = [A EXCEPT !.chunks = {}]
        \/ request' = Released(A)
    BY <1>4 DEF fence, mark_drained, mark_bindings_removed, purge_postgres, mark_cache_purged,
                mark_logically_verified, mark_retention_pending
  <2> HIDE DEF A
  <2>5. QED
    BY <2>2, <2>3, <2>4 DEF RequestType
<1>5. CASE UNCHANGED request
  BY <1>5
<1>6. QED
  BY <1>2, <1>3, <1>4, <1>5
     DEF ExecutorStep, heartbeat, ExecutorDies, begin_quiescing, publish_disconnect_community,
         next_pending_manifest_chunk, verify_before_cache_purge, purge_redis_namespace,
         verify_postgres_logically_deleted, verify_storage_absence, verify_redis_absence

\* No step of the operator or the clock gives the lease to somebody.
LEMMA OwnerByOthers ==
  ASSUME Inv,
         \/ claim_blocks \/ LeaseExpires \/ submit \/ block_preclaim_setup \/ abort \/ unblock
  PROVE  request'.owner = NoExecutor
<1>0. request \in RequestType
  BY DEF Inv, TypeOK
<1> DEFINE q == Released(request)
<1>1. q \in RequestType /\ q.owner = NoExecutor
  BY <1>0, ReleasedType, KeepsTheRest
<1>2. CASE submit
  BY <1>2 DEF submit, NewRequest
<1>3. CASE block_preclaim_setup
  BY <1>0, <1>3 DEF block_preclaim_setup, Held, RequestType
<1>4. CASE claim_blocks \/ LeaseExpires \/ abort \/ unblock
  <2>1. \/ request' = q
        \/ request' = [q EXCEPT !.blocked = TRUE]
        \/ request' = [q EXCEPT !.blocked = FALSE, !.retries = 0]
        \/ request' = [q EXCEPT !.stage = "aborted", !.fence = community.generation + 1,
                                !.generation = q.generation + 1, !.blocked = FALSE, !.retries = 0]
    BY <1>4 DEF claim_blocks, LeaseExpires, abort, unblock, Aborted
  <2> HIDE DEF q
  <2>2. QED
    BY <1>1, <2>1 DEF RequestType
<1>5. QED
  BY <1>2, <1>3, <1>4

\* A token that is not valid never becomes valid again while its holder lists.
LEMMA StaleStaysStale ==
  ASSUME Inv, OnStage, [Next]_vars, NEW e \in Executor,
         executor[e].phase = "listing", executor'[e] = executor[e], verify_lease_and_fence(e)'
  PROVE  verify_lease_and_fence(e)
<1>0. /\ request'.owner = e
      /\ e # NoExecutor
      /\ request'.stage = "fenced"
  <2>1. executor[e].stage = "fenced"
    BY DEF OnStage, Position
  <2>2. QED
    BY <2>1, DeletionAssumption DEF verify_lease_and_fence, verify_lease
<1>1. ASSUME UNCHANGED <<request, community>>
      PROVE  verify_lease_and_fence(e)
  BY <1>1 DEF verify_lease_and_fence, verify_lease
<1>2. ASSUME NEW w \in Writer, WriterStep(w)
      PROVE  verify_lease_and_fence(e)
  BY <1>1, <1>2, WriterKeeps
<1>3. ASSUME NEW f \in Executor, ExecutorStep(f)
      PROVE  verify_lease_and_fence(e)
  <2>1. CASE f # e
    <3>1. ~claim(f)
      <4>1. ASSUME claim(f) PROVE request'.owner = f
        BY <4>1 DEF claim, Inv, TypeOK, RequestType
      <4>2. QED
        BY <1>0, <2>1, <4>1
    <3>2. request.owner = e
      BY <1>0, <1>3, <3>1, OwnerSteps
    <3>3. QED
      BY <1>1, <1>3, <2>1, <3>2, HolderAlone
  <2>2. CASE f = e
    <3>0. executor \in [Executor -> ExecutorType] /\ executor[e] \in ExecutorType
      BY DEF Inv, TypeOK
    <3>1. ~Leave(e)
      BY <3>0 DEF Leave, Resting
    <3>2. ~freeze_destructive_storage_manifest(e)
      <4> SUFFICES ASSUME freeze_destructive_storage_manifest(e) PROVE FALSE
        OBVIOUS
      <4>1. executor'[e] = [executor[e] EXCEPT !.phase = "draining", !.listed = {}]
        BY <3>0 DEF freeze_destructive_storage_manifest
      <4>2. executor'[e].phase = "draining"
        BY <3>0, <4>1 DEF ExecutorType
      <4>3. QED
        BY <4>2
    <3>3. CASE append_manifest_key_chunk(e)
      BY <3>3 DEF append_manifest_key_chunk
    <3>4. ~stop_executor(e) /\ ~ExecutorDies(e) /\ ~record_stage_failure(e)
      BY <3>1 DEF stop_executor, ExecutorDies, record_stage_failure
    <3>5. /\ ~claim(e) /\ ~heartbeat(e) /\ ~begin_quiescing(e) /\ ~fence(e)
          /\ ~publish_disconnect_community(e) /\ ~serving_writes_drained(e) /\ ~mark_drained(e)
          /\ ~next_pending_manifest_chunk(e) /\ ~mark_manifest_chunk_deleted(e)
          /\ ~mark_bindings_removed(e) /\ ~purge_postgres(e)
      BY DEF claim, Busy, heartbeat, begin_quiescing, fence, publish_disconnect_community,
             serving_writes_drained, mark_drained, next_pending_manifest_chunk,
             mark_manifest_chunk_deleted, mark_bindings_removed, purge_postgres
    <3>6. /\ ~verify_before_cache_purge(e) /\ ~purge_redis_namespace(e) /\ ~mark_cache_purged(e)
          /\ ~verify_postgres_logically_deleted(e) /\ ~verify_storage_absence(e)
          /\ ~verify_redis_absence(e) /\ ~mark_logically_verified(e)
          /\ ~mark_retention_pending(e)
      BY DEF verify_before_cache_purge, purge_redis_namespace, mark_cache_purged,
             verify_postgres_logically_deleted, verify_storage_absence, verify_redis_absence,
             mark_logically_verified, mark_retention_pending
    <3>7. QED
      BY <1>3, <2>2, <3>2, <3>3, <3>4, <3>5, <3>6 DEF ExecutorStep
  <2>3. QED
    BY <2>1, <2>2
<1>4. CASE freeze_inventory \/ approve
  <2>1. request'.stage # "fenced"
    BY <1>4 DEF freeze_inventory, approve, Inv, TypeOK, RequestType
  <2>2. QED
    BY <1>0, <2>1
<1>5. CASE set_presence \/ StoreDelete \/ UNCHANGED vars
  BY <1>1, <1>5 DEF set_presence, StoreDelete, vars
<1>6. QED
  BY <1>0, <1>2, <1>3, <1>4, <1>5, OwnerByOthers DEF Next

\* Behind the fence a PUT is late, whoever sent it.
LEMMA BehindTheFence ==
  ASSUME Inv, OnStage, PutOnce, LeaseHoldsOffFence, [Next]_vars,
         community.state \in {"fenced", "tombstone"}
  PROVE  /\ objects' \subseteq objects \cup LateObjects'
         /\ LateObjects \subseteq LateObjects'
<1>1. ASSUME UNCHANGED writer, objects' \subseteq objects
      PROVE  /\ objects' \subseteq objects \cup LateObjects'
             /\ LateObjects \subseteq LateObjects'
  BY <1>1 DEF LateObjects
<1>2. ASSUME NEW w \in Writer, WriterStep(w)
      PROVE  /\ objects' \subseteq objects \cup LateObjects'
             /\ LateObjects \subseteq LateObjects'
  <2>1. \A v \in Writer : ~LeaseHeld(v)
    BY DEF LeaseHoldsOffFence
  <2>2. QED
    BY <1>2, <2>1, WriterPuts DEF LateObjects
<1>3. QED
  BY <1>1, <1>2, ObjectFrame, OtherList DEF Next, vars

\* The steps keep the freeze complete.
LEMMA NextFreezeInv ==
  ASSUME Inv, OnStage, PutOnce, LeaseHoldsOffFence, FreezeInv, [Next]_vars
  PROVE  FreezeInv'
<1> USE DEF FreezeInv
<1>1. ListingComplete'
  <2> SUFFICES ASSUME NEW e \in Executor, executor'[e].phase = "listing",
                      verify_lease_and_fence(e)'
               PROVE  objects' \subseteq executor'[e].listed \cup LateObjects'
    BY DEF ListingComplete
  <2>1. CASE executor'[e] = executor[e]
    <3>1. verify_lease_and_fence(e)
      BY <2>1, StaleStaysStale
    <3>2. objects \subseteq executor[e].listed \cup LateObjects
      BY <2>1, <3>1 DEF ListingComplete
    <3>3. community.state \in {"fenced", "tombstone"}
      BY <3>1 DEF verify_lease_and_fence
    <3>4. QED
      BY <2>1, <3>2, <3>3, BehindTheFence
  <2>2. CASE executor'[e] # executor[e]
    <3>1. ExecutorStep(e)
      BY <2>2, OthersStay, WriterKeeps, OtherFrame DEF Next, vars
    <3>2. QED
      BY <2>2, <3>1, ListingStarts, ObjectFrame
  <2>3. QED
    BY <2>1, <2>2
<1>2. FrozenIsFenced'
  <2>1. CASE UNCHANGED <<community, request>>
    BY <2>1 DEF FrozenIsFenced
  <2>2. ASSUME NEW e \in Executor, ExecutorStep(e)
        PROVE  FrozenIsFenced'
    <3>0. \/ request.frozen /\ request.stage # "aborted"
          \/ ~request'.frozen
          \/ freeze_destructive_storage_manifest(e)
          \/ request'.stage = "aborted"
      BY <2>2, ListSteps DEF SameList, Runnable
    <3>1. CASE begin_quiescing(e)
      BY <3>1 DEF begin_quiescing, FrozenIsFenced, verify_lease
    <3>2. CASE fence(e)
      BY <3>2 DEF fence, FrozenIsFenced
    <3>3. CASE purge_postgres(e)
      BY <3>3 DEF purge_postgres, FrozenIsFenced, Inv, TypeOK
    <3>4. CASE UNCHANGED community
      <4>1. CASE freeze_destructive_storage_manifest(e)
        BY <3>4, <4>1 DEF freeze_destructive_storage_manifest, verify_lease_and_fence,
                          FrozenIsFenced
      <4>2. QED
        BY <3>0, <3>4, <4>1 DEF FrozenIsFenced
    <3>5. QED
      BY <2>2, <3>1, <3>2, <3>3, <3>4, CommunityFrame
  <2>3. ASSUME \/ set_presence \/ claim_blocks \/ LeaseExpires \/ StoreDelete \/ submit
               \/ freeze_inventory \/ approve \/ block_preclaim_setup \/ abort \/ unblock
        PROVE  FrozenIsFenced'
    <3>1. CASE abort
      BY <3>1, OtherList DEF FrozenIsFenced, SameList, abort, Aborted, Inv, TypeOK, RequestType,
                             Released
    <3>2. CASE submit
      BY <3>2 DEF submit, NewRequest, FrozenIsFenced
    <3>3. CASE ~abort /\ ~submit
      BY <2>3, <3>3, OtherList, OtherFrame DEF FrozenIsFenced, SameList
    <3>4. QED
      BY <3>1, <3>2, <3>3
  <2>4. QED
    BY <2>1, <2>2, <2>3, WriterKeeps DEF Next, vars
<1>3. FreezeIsComplete'
  <2>1. ASSUME request.frozen, request.stage # "aborted", request'.manifest = request.manifest
        PROVE  FreezeIsComplete'
    <3>1. community.state \in {"fenced", "tombstone"}
      BY <2>1 DEF FrozenIsFenced
    <3>2. QED
      BY <2>1, <3>1, BehindTheFence DEF FreezeIsComplete
  <2>2. ASSUME ~request'.frozen \/ request'.stage = "aborted"
        PROVE  FreezeIsComplete'
    BY <2>2 DEF FreezeIsComplete
  <2>3. CASE UNCHANGED request
    BY <2>1, <2>2, <2>3
  <2>4. ASSUME NEW e \in Executor, ExecutorStep(e)
        PROVE  FreezeIsComplete'
    <3>1. CASE freeze_destructive_storage_manifest(e)
      <4>1. /\ objects \subseteq executor[e].listed \cup LateObjects
            /\ UNCHANGED <<objects, writer>>
        BY <3>1 DEF freeze_destructive_storage_manifest, ListingComplete
      <4>2. request'.manifest = executor[e].listed
        BY <3>1 DEF freeze_destructive_storage_manifest, Inv, TypeOK, RequestType
      <4>3. QED
        BY <4>1, <4>2 DEF FreezeIsComplete, LateObjects
    <3>2. CASE ~freeze_destructive_storage_manifest(e)
      <4>1. /\ request'.manifest = request.manifest
            /\ request'.frozen = request.frozen
            /\ request.stage # "aborted" \/ request'.stage = "aborted"
        BY <2>4, <3>2, ListSteps DEF SameList, Runnable
      <4>2. QED
        BY <2>1, <2>2, <4>1
    <3>3. QED
      BY <3>1, <3>2
  <2>5. ASSUME \/ set_presence \/ claim_blocks \/ LeaseExpires \/ StoreDelete \/ submit
               \/ freeze_inventory \/ approve \/ block_preclaim_setup \/ abort \/ unblock
        PROVE  FreezeIsComplete'
    <3>1. CASE submit
      <4>1. ~request'.frozen
        BY <3>1 DEF submit, NewRequest
      <4>2. QED
        BY <2>2, <4>1
    <3>2. CASE ~submit
      BY <2>1, <2>2, <2>5, <3>2, OtherList DEF SameList
    <3>3. QED
      BY <3>1, <3>2
  <2>6. QED
    BY <2>3, <2>4, <2>5, WriterKeeps DEF Next, vars
<1>4. QED
  BY <1>1, <1>2, <1>3

\* Once frozen, the list is the whole storage of the community up to PUTs whose
\* lease was over before the store carried them out, for any number of relays
\* and executors: the fence waits for the leases, an executor lists behind it,
\* and a list is frozen only under the token it was made with.
THEOREM FrozenListIsWhole == Spec => []FreezeIsComplete
<1>1. Init => FreezeInv
  BY DEF Init, NewRequest, Resting, FreezeInv, ListingComplete, FrozenIsFenced, FreezeIsComplete
<1>2. ListInv => PutOnce
  BY DEF ListInv
<1>3. FreezeInv => FreezeIsComplete
  BY DEF FreezeInv
<1>4. QED
  BY <1>1, <1>2, <1>3, NextFreezeInv, SpecInv, SpecOnStage, SpecListInv, FenceWaitsForLeases, PTL
     DEF Spec
=============================================================================
