----------------------------- MODULE GitPublish -----------------------------
(***************************************************************************)
(* Pushes to the repositories of the relay (maju-relay, api/git).  There is *)
(* no bare repository on disk: a repository is a pointer object that names *)
(* an immutable manifest (refs, head, packs, parent), and every push       *)
(* hydrates a private workspace from it, runs git receive-pack there and   *)
(* publishes the result by a compare-and-swap of the pointer.  Any number  *)
(* of relays serve pushes with no lock between them.                       *)
(*                                                                         *)
(* Content addressing: a pack is the set of objects it holds and its key   *)
(* is its content; a manifest's digest is its place in the sequence of the *)
(* manifests ever stored, where equal content has one place.  The pointer  *)
(* object's body is a digest, and its ETag is a function of its body, so   *)
(* If-Match succeeds whenever the body is again what the writer read.      *)
(*                                                                         *)
(* A push may end at any moment in an error: a failing request to the      *)
(* store, a lost serving lease, a relay that stops.  A PUT of the pointer  *)
(* that was sent before that is carried out by the store all the same.     *)
(***************************************************************************)
EXTENDS Naturals, Sequences, FiniteSets

CONSTANTS
  Commit, NoCommit,   \* commits, and the value of a branch that does not exist
  Reach,              \* the objects a commit needs: itself and its ancestors
  Branch, NoBranch,
  MainBranch,         \* refs/heads/main
  Repo,
  Push,               \* push requests, each with its own client
  RepoOf,             \* the repository a push is for
  Proposal,           \* what a client may want: branches and their new commits
  Origin,             \* what the object store may hold when the relays start
  PACK_COMPACTION_THRESHOLD,
  MAX_MANIFEST_PACKS

RefMap == [Branch -> Commit \cup {NoCommit}]
NoRefs == [b \in Branch |-> NoCommit]

Manifest == [parent : Nat, head : Branch \cup {NoBranch}, refs : RefMap,
             packs : SUBSET SUBSET Commit]

Tips(refs) == {refs[b] : b \in Branch} \ {NoCommit}
Closure(refs) == UNION {Reach[c] : c \in Tips(refs)}
LiveBranches(refs) == {b \in Branch : refs[b] # NoCommit}

\* A manifest a reader can clone from.
Sound(m) ==
  /\ Closure(m.refs) \subseteq UNION m.packs
  /\ LiveBranches(m.refs) # {} => m.head \in LiveBranches(m.refs)

ASSUME GitAssumption ==
  /\ NoCommit \notin Commit
  /\ NoBranch \notin Branch
  /\ MainBranch \in Branch
  /\ Reach \in [Commit -> SUBSET Commit]
  /\ \A c \in Commit : c \in Reach[c] /\ \A a \in Reach[c] : Reach[a] \subseteq Reach[c]
  /\ RepoOf \in [Push -> Repo]
  /\ Proposal \subseteq [named : SUBSET Branch, new : RefMap]
  /\ PACK_COMPACTION_THRESHOLD \in Nat
  /\ MAX_MANIFEST_PACKS \in Nat
  /\ Origin \subseteq [manifests : Seq(Manifest), pointer : [Repo -> Nat]]
  /\ \A o \in Origin :
       /\ \A d \in DOMAIN o.manifests : Sound(o.manifests[d]) /\ o.manifests[d].parent < d
       /\ \A r \in Repo : o.pointer[r] <= Len(o.manifests)
       /\ \A d, e \in DOMAIN o.manifests : o.manifests[d] = o.manifests[e] => d = e

VARIABLES
  packs,       \* the packs in the object store
  manifests,   \* the manifests in the object store; a digest is an index
  pointer,     \* the digest each repository's pointer names, 0 when it is absent
  refState,    \* the kind:30618 events in the database: <<repo, digest>>
  push         \* the state of each push request

storeVars == <<packs, manifests, pointer>>
gitVars == <<packs, manifests, pointer, refState, push>>

\* ParentState::fresh: what a push builds on when the pointer is absent.
Fresh == [parent |-> 0, head |-> NoBranch, refs |-> NoRefs, packs |-> {}]

ManifestAt(d) == IF d = 0 THEN Fresh ELSE manifests[d]

\* put_immutable: content that is already there keeps its digest.
Stored(m) == \E d \in DOMAIN manifests : manifests[d] = m
\* (A wrong version: the digest of content that is stored after this one.)
DigestOf_skipping(m) == Len(manifests) + 2

DigestOf(m) ==
  IF Stored(m) THEN CHOOSE d \in DOMAIN manifests : manifests[d] = m ELSE Len(manifests) + 1
WithManifest(m) == IF Stored(m) THEN manifests ELSE Append(manifests, m)

-----------------------------------------------------------------------------
(* A push.                                                                 *)

Idle ==
  [phase |-> "idle", seen |-> NoRefs, named |-> {}, new |-> NoRefs, base |-> 0,
   packs |-> {}, digest |-> 0, put |-> "none", reply |-> "none", told |-> {}]

PushType ==
  [phase : {"idle", "view", "received", "packed", "cas", "done"},
   seen : RefMap, named : SUBSET Branch, new : RefMap, base : Nat,
   packs : SUBSET SUBSET Commit, digest : Nat, put : {"none", "sent", "won", "lost"},
   reply : {"none", "ok", "rejected", "limit", "conflict", "error"}, told : SUBSET Branch]

\* The refs of the workspace once receive-pack has carried out every command.
RefsAfter(p) ==
  [b \in Branch |-> IF b \in push[p].named THEN push[p].new[b]
                    ELSE ManifestAt(push[p].base).refs[b]]

Become(p, q) == push' = [push EXCEPT ![p] = q]

Done(p, reply, told) ==
  Become(p, [push[p] EXCEPT !.phase = "done", !.packs = {}, !.reply = reply, !.told = told])

\* GET info/refs: the client learns the refs published now.  Without a pointer
\* the answer is 404; a client that posts its push all the same sees no refs.
info_refs(p) ==
  /\ push[p].phase = "idle"
  /\ Become(p, [push[p] EXCEPT !.phase = "view", !.seen = ManifestAt(pointer[RepoOf[p]]).refs])
  /\ UNCHANGED <<storeVars, refState>>

\* (A wrong version: the old commit of a command is not compared.)
RefusedCommands_forced(named, new, seen, base) ==
  {b \in named : ~ Closure([NoRefs EXCEPT ![b] = new[b]]) \subseteq
                     UNION ManifestAt(base).packs \cup (Closure(new) \ Closure(seen))}

\* The commands receive-pack answers with ng: the branch has moved since the
\* client saw it, or the objects the client left out because it had seen them
\* published are not in the workspace.
RefusedCommands(named, new, seen, base) ==
  LET sent(b) == Closure([NoRefs EXCEPT ![b] = new[b]]) \ Closure(seen)
      have == UNION ManifestAt(base).packs \cup UNION {sent(b) : b \in named}
  IN  {b \in named : \/ ManifestAt(base).refs[b] # seen[b]
                     \/ ~ Closure([NoRefs EXCEPT ![b] = new[b]]) \subseteq have}

\* POST git-receive-pack up to finalize_push: hydrate_for_write reads the
\* pointer once, receive-pack runs in the workspace.  Without any ng the push
\* goes on; otherwise (the hook may also decline every command) the report is
\* passed on to the client and nothing is published.
receive_pack(p) ==
  /\ push[p].phase = "view"
  /\ \E want \in Proposal :
       LET seen == push[p].seen
           base == pointer[RepoOf[p]]
           named == {b \in want.named : want.new[b] # seen[b]}
           bad == RefusedCommands(named, want.new, seen, base)
           asked == [push[p] EXCEPT !.named = named, !.new = want.new, !.base = base]
       IN /\ named # {}
          /\ \/ /\ bad = {}
                /\ Become(p, [asked EXCEPT !.phase = "received"])
             \/ \E ng \in {named} \cup (IF bad = {} THEN {} ELSE {bad}) :
                  Become(p, [asked EXCEPT !.phase = "done", !.reply = "rejected",
                                          !.told = named \ ng])
  /\ UNCHANGED <<storeVars, refState>>

-----------------------------------------------------------------------------
(* cas_publish.                                                            *)

should_compact(parent) == Cardinality(parent.packs) >= PACK_COMPACTION_THRESHOLD

compacted_pack_set_is_usable(parent, compacted) ==
  \/ Cardinality(compacted) < Cardinality(parent.packs)
  \/ /\ Cardinality(parent.packs) >= MAX_MANIFEST_PACKS
     /\ Cardinality(compacted) <= MAX_MANIFEST_PACKS

\* One pack with everything the refs need; no pack at all without refs.
capture_compacted_packs(refs) == IF Tips(refs) = {} THEN {} ELSE {Closure(refs)}

\* (A wrong version: the positive and the negative tips swapped.)
capture_pack_swapped(before, after) == {{Closure(before) \ Closure(after)}}

\* The objects the refs need now and did not need before.  pack-objects may
\* write a pack without objects or nothing when there are none.
capture_pack(before, after) ==
  IF Tips(after) = {} THEN {{}}
  ELSE LET delta == Closure(after) \ Closure(before)
       IN  {{delta}} \cup (IF delta = {} THEN {{}} ELSE {})

prepare_compaction(p) ==
  LET parent == ManifestAt(push[p].base)
      compacted == capture_compacted_packs(RefsAfter(p))
  IN  /\ push[p].phase = "received"
      /\ should_compact(parent)
      /\ compacted_pack_set_is_usable(parent, compacted)
      /\ packs' = packs \cup compacted
      /\ Become(p, [push[p] EXCEPT !.phase = "packed", !.packs = compacted])
      /\ UNCHANGED <<manifests, pointer, refState>>

\* A delta pack: below the threshold, and whenever compaction did not get its
\* permit, ran out of time, failed or did not help.
put_pack(p) ==
  LET parent == ManifestAt(push[p].base) IN
  /\ push[p].phase = "received"
  /\ \E new \in capture_pack(parent.refs, RefsAfter(p)) :
       IF new # {} /\ Cardinality(parent.packs) >= MAX_MANIFEST_PACKS
       THEN Done(p, "limit", {}) /\ UNCHANGED packs
       ELSE /\ packs' = packs \cup new
            /\ Become(p, [push[p] EXCEPT !.phase = "packed", !.packs = parent.packs \cup new])
  /\ UNCHANGED <<manifests, pointer, refState>>

\* A published branch whenever there is one.  The workspace's HEAD is the
\* parent's; a workspace made from nothing has git's default.
resolve_published_head(refs, observed, parentHead) ==
  LET live == LiveBranches(refs) IN
  CASE observed \in live -> observed
    [] observed \notin live /\ parentHead \in live -> parentHead
    [] {observed, parentHead} \cap live = {} /\ MainBranch \in live -> MainBranch
    [] {observed, parentHead, MainBranch} \cap live = {} /\ live # {} -> CHOOSE b \in live : TRUE
    [] OTHER -> observed

compose_after(p, head) ==
  [parent |-> push[p].base, head |-> head, refs |-> RefsAfter(p), packs |-> push[p].packs]

\* The manifest is stored and the PUT of the pointer leaves at once, with
\* If-Match on what hydrate_for_write read, or If-None-Match: *.
put_manifest(p) ==
  LET parent == ManifestAt(push[p].base) IN
  /\ push[p].phase = "packed"
  /\ \E observed \in (IF push[p].base = 0 THEN Branch ELSE {parent.head}) :
       LET m == compose_after(p, resolve_published_head(RefsAfter(p), observed, parent.head))
       IN  /\ manifests' = WithManifest(m)
           /\ Become(p, [push[p] EXCEPT !.phase = "cas", !.digest = DigestOf(m), !.put = "sent"])
  /\ UNCHANGED <<packs, pointer, refState>>

\* (A wrong version: a PUT without a precondition.)
put_pointer_blind(p) ==
  /\ push[p].put = "sent"
  /\ pointer' = [pointer EXCEPT ![RepoOf[p]] = push[p].digest]
  /\ Become(p, [push[p] EXCEPT !.put = "won"])
  /\ UNCHANGED <<packs, manifests, refState>>

\* The object store carries the PUT out, whether or not the relay still waits.
put_pointer(p) ==
  LET r == RepoOf[p] won == pointer[r] = push[p].base IN
  /\ push[p].put = "sent"
  /\ pointer' = [pointer EXCEPT ![r] = IF won THEN push[p].digest ELSE @]
  /\ Become(p, [push[p] EXCEPT !.put = IF won THEN "won" ELSE "lost"])
  /\ UNCHANGED <<packs, manifests, refState>>

\* (A wrong version: a PUT without an answer counts as a lost race.)
lost_race_on_timeout(p) ==
  /\ push[p].phase = "cas"
  /\ push[p].put \in {"sent", "lost"}
  /\ Done(p, "conflict", {})
  /\ UNCHANGED <<storeVars, refState>>

\* 412: the winner's manifest is read and the client is told to pull.
lost_race(p) ==
  /\ push[p].phase = "cas"
  /\ push[p].put = "lost"
  /\ Done(p, "conflict", {})
  /\ UNCHANGED <<storeVars, refState>>

\* kind:30618 over the committed manifest, the release of the serving lease and
\* the answer: 2xx only when all went well.
finalize_push(p) ==
  /\ push[p].phase = "cas"
  /\ push[p].put = "won"
  /\ refState' = refState \cup {<<RepoOf[p], push[p].digest>>}
  /\ \/ Done(p, "ok", push[p].named)
     \/ Done(p, "error", {})
  /\ UNCHANGED storeVars

\* Any other end: a 5xx, a lost lease, a relay that stopped.
fail_push(p) ==
  /\ push[p].phase \in {"received", "packed", "cas"}
  /\ Done(p, "error", {})
  /\ UNCHANGED <<storeVars, refState>>

GitInit ==
  /\ \E o \in Origin :
       /\ manifests = o.manifests
       /\ packs = UNION {o.manifests[d].packs : d \in DOMAIN o.manifests}
       /\ pointer = o.pointer
  /\ refState = {}
  /\ push = [p \in Push |-> Idle]

PushStep(p) ==
  \/ info_refs(p)
  \/ receive_pack(p)
  \/ prepare_compaction(p)
  \/ put_pack(p)
  \/ put_manifest(p)
  \/ put_pointer(p)
  \/ lost_race(p)
  \/ finalize_push(p)
  \/ fail_push(p)

-----------------------------------------------------------------------------
(* Properties of the pushes.                                               *)

\* Every piece of state has its type, and digests name manifests.
GitTypeOK ==
  /\ packs \subseteq SUBSET Commit
  /\ manifests \in Seq(Manifest)
  /\ pointer \in [Repo -> 0 .. Len(manifests)]
  /\ refState \subseteq Repo \X (1 .. Len(manifests))
  /\ push \in [Push -> PushType]

\* Whatever a reader may ever find behind a pointer can be cloned: all packs a
\* manifest names are in the store, together they hold every object its refs
\* need, and its HEAD is a published branch whenever there is one.  Compaction,
\* forced updates and deletions that make objects unreachable, losers of a race
\* and failures between the steps of a push must all keep it (cas_publish).
Cloneable ==
  \A d \in DOMAIN manifests :
    manifests[d].packs \subseteq packs /\ Sound(manifests[d])

\* No lost update: two pushes that both moved the pointer never built on the
\* same manifest, and none built on the manifest published now, so history is
\* one line (the If-Match precondition of put_pointer, with no lock between
\* relays and with ETags that depend on the content only).
NoFork ==
  \A p \in Push : push[p].put = "won" =>
    /\ pointer[RepoOf[p]] # push[p].base
    /\ \A q \in Push \ {p} : push[q].put = "won" /\ RepoOf[q] = RepoOf[p] =>
         push[q].base # push[p].base

\* A branch the client was told is updated was updated by its push: the comment
\* of finalize_push says of a rejected push that "the workspace refs were NOT
\* advanced", and its in-band report still reaches the client.
ReportedIsPublished ==
  \A p \in Push : push[p].told # {} => push[p].put = "won"
=============================================================================
