---------------------------- MODULE RepoRegistry ----------------------------
(***************************************************************************)
(* Repository announcements (kind:30617) and the pushes that follow them.   *)
(* An announcement reserves the name of the repository in Postgres, one    *)
(* owner per name, then seeds the repository's pointer with the empty      *)
(* manifest, and gives the name back when it could not.  The handler holds *)
(* no lock between its steps: other announcements, of the same owner too,  *)
(* and pushes run in between.                                              *)
(***************************************************************************)
EXTENDS GitPublish

CONSTANTS
  Owner, NoOwner, Name,
  Announcement,       \* kind:30617 events whose side effect runs
  OwnerOf, NameOf,    \* who announces, and what
  MAX_REPOS_PER_PUBKEY

ASSUME RegistryAssumption ==
  /\ NoOwner \notin Owner
  /\ Repo = Owner \X Name
  /\ OwnerOf \in [Announcement -> Owner]
  /\ NameOf \in [Announcement -> Name]
  /\ MAX_REPOS_PER_PUBKEY \in Nat

VARIABLES
  nameRow,    \* git_repo_names: the owner of each name
  announce    \* the state of each announcement

vars == <<gitVars, nameRow, announce>>

Target(a) == <<OwnerOf[a], NameOf[a]>>

\* fresh: this attempt inserted the row, ReserveOutcome::Reserved.
Unannounced == [phase |-> "idle", fresh |-> FALSE, put |-> "none", result |-> "none"]

AnnounceType ==
  [phase : {"idle", "count", "reserve", "classify", "owned", "ensure", "seed", "put", "seeded",
            "rollback", "done"},
   fresh : BOOLEAN, put : {"none", "sent", "won", "lost"}, result : {"none", "ok", "error"}]

\* The manifest of a repository nobody has pushed to; all of them share it.
EmptyManifest == [parent |-> 0, head |-> MainBranch, refs |-> NoRefs, packs |-> {}]

To(a, r) == announce' = [announce EXCEPT ![a] = r]
Phase(a, ph) == To(a, [announce[a] EXCEPT !.phase = ph])
End(a, result) == To(a, [announce[a] EXCEPT !.phase = "done", !.result = result])

\* The name's owner is read first; a name of another owner is refused, a name of
\* the same owner needs no reservation.
repo_name_owner(a) ==
  /\ announce[a].phase = "idle"
  /\ CASE nameRow[NameOf[a]] = NoOwner -> Phase(a, "count")
       [] nameRow[NameOf[a]] = OwnerOf[a] -> Phase(a, "owned")
       [] OTHER -> End(a, "error")
  /\ UNCHANGED <<gitVars, nameRow>>

count_repos_for_owner(a) ==
  /\ announce[a].phase = "count"
  /\ IF Cardinality({m \in Name : nameRow[m] = OwnerOf[a]}) >= MAX_REPOS_PER_PUBKEY
     THEN End(a, "error")
     ELSE Phase(a, "reserve")
  /\ UNCHANGED <<gitVars, nameRow>>

\* (A wrong version: ON CONFLICT DO UPDATE.)
reserve_repo_name_upsert(a) ==
  /\ announce[a].phase = "reserve"
  /\ nameRow' = [nameRow EXCEPT ![NameOf[a]] = OwnerOf[a]]
  /\ To(a, [announce[a] EXCEPT !.phase = "owned", !.fresh = TRUE])
  /\ UNCHANGED gitVars

\* INSERT ... ON CONFLICT DO NOTHING; on a conflict the holder is read.
reserve_repo_name(a) ==
  /\ announce[a].phase = "reserve"
  /\ IF nameRow[NameOf[a]] = NoOwner
     THEN /\ nameRow' = [nameRow EXCEPT ![NameOf[a]] = OwnerOf[a]]
          /\ To(a, [announce[a] EXCEPT !.phase = "owned", !.fresh = TRUE])
     ELSE Phase(a, "classify") /\ UNCHANGED nameRow
  /\ UNCHANGED gitVars

\* The row may be gone again by now: that too counts as taken by another.
classify_holder(a) ==
  /\ announce[a].phase = "classify"
  /\ IF nameRow[NameOf[a]] = OwnerOf[a] THEN Phase(a, "owned") ELSE End(a, "error")
  /\ UNCHANGED <<gitVars, nameRow>>

\* A serving lease, or an early return that leaves the row where it is.
acquire_serving_write(a) ==
  /\ announce[a].phase = "owned"
  /\ \/ Phase(a, IF announce[a].fresh THEN "seed" ELSE "ensure")
     \/ End(a, "error")
  /\ UNCHANGED <<gitVars, nameRow>>

\* A pointer that is there is left as it is, whatever it names.
ensure_manifest_pointer(a) ==
  /\ announce[a].phase = "ensure"
  /\ Phase(a, IF pointer[Target(a)] # 0 THEN "seeded" ELSE "seed")
  /\ UNCHANGED <<gitVars, nameRow>>

\* The empty manifest is stored and the create-only PUT of the pointer leaves.
seed_manifest_pointer(a) ==
  /\ announce[a].phase = "seed"
  /\ manifests' = WithManifest(EmptyManifest)
  /\ To(a, [announce[a] EXCEPT !.phase = "put", !.put = "sent"])
  /\ UNCHANGED <<packs, pointer, refState, push, nameRow>>

\* The object store carries the PUT out, whether or not the handler still waits.
StoreSeed(a) ==
  LET t == Target(a) won == pointer[t] = 0 IN
  /\ announce[a].put = "sent"
  /\ pointer' = [pointer EXCEPT ![t] = IF won THEN DigestOf(EmptyManifest) ELSE @]
  /\ To(a, [announce[a] EXCEPT !.put = IF won THEN "won" ELSE "lost"])
  /\ UNCHANGED <<packs, manifests, refState, push, nameRow>>

\* A lost race is a success when the pointer names the empty manifest.
seed_answer(a) ==
  /\ announce[a].phase = "put"
  /\ announce[a].put \in {"won", "lost"}
  /\ IF announce[a].put = "won" \/ pointer[Target(a)] = DigestOf(EmptyManifest)
     THEN Phase(a, "seeded")
     ELSE Phase(a, "rollback")
  /\ UNCHANGED <<gitVars, nameRow>>

\* A store that fails or does not answer in time, or a lost lease.
seed_fails(a) ==
  /\ announce[a].phase \in {"ensure", "seed", "put"}
  /\ Phase(a, "rollback")
  /\ UNCHANGED <<gitVars, nameRow>>

\* Only the attempt that inserted the row deletes it, and only its owner's.
release_repo_name(a) ==
  /\ announce[a].phase = "rollback"
  /\ nameRow' = IF announce[a].fresh /\ nameRow[NameOf[a]] = OwnerOf[a]
                THEN [nameRow EXCEPT ![NameOf[a]] = NoOwner]
                ELSE nameRow
  /\ End(a, "error")
  /\ UNCHANGED gitVars

\* The first kind:30618 is best effort and only for a fresh reservation; the
\* release of the lease may still fail.
emit_initial_ref_state(a) ==
  /\ announce[a].phase = "seeded"
  /\ \/ /\ announce[a].fresh
        /\ refState' = refState \cup {<<Target(a), DigestOf(EmptyManifest)>>}
     \/ UNCHANGED refState
  /\ \/ End(a, "ok")
     \/ End(a, "error")
  /\ UNCHANGED <<storeVars, push, nameRow>>

Init ==
  /\ GitInit
  /\ nameRow = [m \in Name |-> IF \E o \in Owner : pointer[<<o, m>>] # 0
                             THEN CHOOSE o \in Owner : pointer[<<o, m>>] # 0 ELSE NoOwner]
  /\ announce = [a \in Announcement |-> Unannounced]

AnnounceStep(a) ==
  \/ repo_name_owner(a)
  \/ count_repos_for_owner(a)
  \/ reserve_repo_name(a)
  \/ classify_holder(a)
  \/ acquire_serving_write(a)
  \/ ensure_manifest_pointer(a)
  \/ seed_manifest_pointer(a)
  \/ StoreSeed(a)
  \/ seed_answer(a)
  \/ seed_fails(a)
  \/ release_repo_name(a)
  \/ emit_initial_ref_state(a)

Next ==
  \/ \E p \in Push : PushStep(p) /\ UNCHANGED <<nameRow, announce>>
  \/ \E a \in Announcement : AnnounceStep(a)

Spec == Init /\ [][Next]_vars

-----------------------------------------------------------------------------
(* Properties.                                                             *)

\* Every piece of state has its type.
TypeOK ==
  /\ GitTypeOK
  /\ nameRow \in [Name -> Owner \cup {NoOwner}]
  /\ announce \in [Announcement -> AnnounceType]

\* A push that is told it was superseded really was: somebody else moved the
\* pointer on from the very manifest it had built on (the 409 of finalize_push
\* is never an answer to one's own write or to a slow store).
LoserHasWinner ==
  \A p \in Push : push[p].reply = "conflict" =>
    \/ \E q \in Push \ {p} : /\ push[q].put = "won"
                             /\ RepoOf[q] = RepoOf[p]
                             /\ push[q].base = push[p].base
    \/ /\ push[p].base = 0
       /\ \E a \in Announcement : Target(a) = RepoOf[p] /\ announce[a].put = "won"

\* An announcement that succeeded leaves a repository that can be cloned and
\* whose name is its owner's, for good: no roll-back of another announcement
\* takes the name away and nobody else gets it (handle_git_repo_announcement).
AnnouncedHoldsName ==
  \A a \in Announcement : announce[a].result = "ok" =>
    /\ pointer[Target(a)] # 0
    /\ nameRow[NameOf[a]] = OwnerOf[a]

\* What the clients see: refs that change by whole pushes, each from the commits
\* its client had seen, and answers that are true.
Published == [r \in Repo |-> ManifestAt(pointer[r]).refs]
Applied == {p \in Push : push[p].put = "won"}
Requested ==
  [p \in Push |-> IF push[p].named = {}
                  THEN [old |-> NoRefs, new |-> NoRefs, named |-> {}]
                  ELSE [old |-> push[p].seen, new |-> push[p].new, named |-> push[p].named]]
Answered ==
  [p \in Push |-> IF push[p].reply \in {"rejected", "limit", "conflict"}
                  THEN "refused" ELSE push[p].reply]

RS == INSTANCE RefStore
        WITH refs <- Published, request <- Requested, applied <- Applied, answer <- Answered

\* The relay's protocol over immutable objects and one pointer implements atomic
\* compare-and-swap of the named branches (receive_pack to finalize_push).
RefinesRefStore == RS!Spec
=============================================================================
