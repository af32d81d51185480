----------------------- MODULE RepoRefinement_proofs ------------------------
(***************************************************************************)
(* The relay's protocol over immutable objects and one pointer implements  *)
(* the promise of RefStore: branches that change by whole pushes, from the *)
(* commits the client had seen, and answers that are true.  Step by step:  *)
(* receive_pack submits the request or refuses it, a put_pointer that wins *)
(* applies it, the end of a push answers it, and everything else changes   *)
(* nothing a client can see.                                               *)
(***************************************************************************)
EXTENDS RepoRegistry_proofs

-----------------------------------------------------------------------------
(* What the mapping needs to know about the pushes.                        *)

\* A push that was not refused on arrival has found the branches it names where
\* its client had seen them.
SeenAtBase ==
  \A p \in Push : push[p].named # {} /\ push[p].reply # "rejected" =>
    \A b \in push[p].named : ManifestAt(push[p].base).refs[b] = push[p].seen[b]

\* The manifest of a push that sent its PUT holds the refs of its workspace.
DigestHasRefs ==
  \A p \in Push : push[p].put # "none" => manifests[push[p].digest].refs = RefsAfter(p)

RefInv == SeenAtBase /\ DigestHasRefs

\* What a push has seen is still there.
LEMMA SeenStays ==
  ASSUME Inv, Inv', StoreGrows, RefInv, NEW p \in Push, SameRequest(p),
         push'[p].reply = "rejected" <=> push[p].reply = "rejected"
  PROVE  push'[p].named # {} /\ push'[p].reply # "rejected" =>
           \A b \in push'[p].named : ManifestAt(push[p].base)'.refs[b] = push'[p].seen[b]
<1>0. /\ push[p].base \in 0 .. Len(manifests)
      /\ \A d \in 0 .. Len(manifests) : ManifestAt(d)' = ManifestAt(d)
  BY StoreStays DEF Inv, DigestsKnown, TypeOK, GitTypeOK
<1>1. ManifestAt(push[p].base)' = ManifestAt(push[p].base)
  <2>1. push'[p].base = push[p].base
    BY DEF SameRequest
  <2>2. QED
    BY <1>0, <2>1 DEF ManifestAt
<1>2. QED
  BY <1>1 DEF RefInv, SeenAtBase, SameRequest

\* And its digest names what it named.
LEMMA DigestStays ==
  ASSUME Inv, Inv', StoreGrows, RefInv, NEW p \in Push, SameRequest(p),
         push'[p].put = "none" <=> push[p].put = "none",
         push[p].put # "none" => push'[p].digest = push[p].digest
  PROVE  push'[p].put # "none" => manifests'[push'[p].digest].refs = RefsAfter(p)'
<1>0. /\ push[p].put # "none" => push[p].digest \in 1 .. Len(manifests)
      /\ \A d \in 1 .. Len(manifests) : manifests'[d] = manifests[d]
  BY DEF Inv, DigestsKnown, StoreGrows
<1>1. RefsAfter(p)' = RefsAfter(p)
  BY RefsAfterStays
<1>2. QED
  BY <1>0, <1>1 DEF RefInv, DigestHasRefs

\* A step that leaves all other pushes alone.
LEMMA RefInvFromOne ==
  ASSUME Inv, Inv', StoreGrows, RefInv, NEW p \in Push,
         \A q \in Push \ {p} : push'[q] = push[q],
         push'[p].named # {} /\ push'[p].reply # "rejected" =>
           \A b \in push'[p].named : ManifestAt(push[p].base)'.refs[b] = push'[p].seen[b],
         push'[p].put # "none" => manifests'[push'[p].digest].refs = RefsAfter(p)'
  PROVE  RefInv'
<1>1. \A q \in Push : push'[q].named # {} /\ push'[q].reply # "rejected" =>
        \A b \in push'[q].named : ManifestAt(push[q].base)'.refs[b] = push'[q].seen[b]
  <2> SUFFICES ASSUME NEW q \in Push
               PROVE  push'[q].named # {} /\ push'[q].reply # "rejected" =>
                        \A b \in push'[q].named :
                          ManifestAt(push[q].base)'.refs[b] = push'[q].seen[b]
    OBVIOUS
  <2>1. CASE q = p
    BY <2>1
  <2>2. CASE q # p
    BY <2>2, SeenStays DEF SameRequest
  <2>3. QED
    BY <2>1, <2>2
<1>2. \A q \in Push : push'[q].put # "none" => manifests'[push'[q].digest].refs = RefsAfter(q)'
  <2> SUFFICES ASSUME NEW q \in Push
               PROVE  push'[q].put # "none" => manifests'[push'[q].digest].refs = RefsAfter(q)'
    OBVIOUS
  <2>1. CASE q = p
    BY <2>1
  <2>2. CASE q # p
    BY <2>2, DigestStays DEF SameRequest
  <2>3. QED
    BY <2>1, <2>2
<1>3. QED
  BY <1>1, <1>2 DEF RefInv, SeenAtBase, DigestHasRefs

\* The steps of a push keep it.
LEMMA PushStepRef ==
  ASSUME Inv, Inv', StoreGrows, RefInv, NEW p \in Push, PushStep(p)
  PROVE  RefInv'
<1>0. \A q \in Push \ {p} : push'[q] = push[q]
  BY PutSteps DEF OnlyPush
<1>1. CASE info_refs(p)
  <2>1. push'[p].named = {} /\ push'[p].put = "none"
    BY <1>1, InfoRefsFacts
  <2>2. QED
    BY <1>0, <2>1, RefInvFromOne
<1>2. CASE receive_pack(p)
  <2>1. /\ push'[p].put = "none"
        /\ \/ \A b \in push'[p].named : ManifestAt(push'[p].base).refs[b] = push'[p].seen[b]
           \/ push'[p].reply = "rejected"
        /\ manifests' = manifests
    BY <1>2, ReceivePackFacts DEF storeVars
  <2>2. ManifestAt(push[p].base)' = ManifestAt(push'[p].base)
    BY <2>1 DEF ManifestAt
  <2>3. QED
    BY <1>0, <2>1, <2>2, RefInvFromOne
<1>3. CASE put_manifest(p)
  <2>1. PICK m \in Manifest :
          /\ SameRequest(p)
          /\ push[p].phase = "packed" /\ push'[p].reply = "none"
          /\ push'[p].digest = DigestOf(m)
          /\ manifests' = WithManifest(m)
          /\ m.refs = RefsAfter(p)
          /\ packs' = packs
    BY <1>3, PutManifestFacts
  <2>2. push[p].reply = "none" /\ TypeOK
    BY <2>1 DEF Inv, Shapes, Shape
  <2>3. manifests'[DigestOf(m)] = m
    BY <2>1, <2>2, StoreWith
  <2>4. RefsAfter(p)' = RefsAfter(p)
    BY <2>1, RefsAfterStays
  <2>5. manifests'[push'[p].digest].refs = RefsAfter(p)'
    BY <2>1, <2>3, <2>4
  <2>6. push'[p].named # {} /\ push'[p].reply # "rejected" =>
          \A b \in push'[p].named : ManifestAt(push[p].base)'.refs[b] = push'[p].seen[b]
    BY <2>1, <2>2, SeenStays
  <2>7. QED
    BY <1>0, <2>5, <2>6, RefInvFromOne
<1>4. CASE /\ SameRequest(p)
           /\ push'[p].reply = "rejected" <=> push[p].reply = "rejected"
           /\ push'[p].put = "none" <=> push[p].put = "none"
           /\ push[p].put # "none" => push'[p].digest = push[p].digest
  <2>1. push'[p].named # {} /\ push'[p].reply # "rejected" =>
          \A b \in push'[p].named : ManifestAt(push[p].base)'.refs[b] = push'[p].seen[b]
    BY <1>4, SeenStays
  <2>2. push'[p].put # "none" => manifests'[push'[p].digest].refs = RefsAfter(p)'
    BY <1>4, DigestStays
  <2>3. QED
    BY <1>0, <2>1, <2>2, RefInvFromOne
<1>5. CASE prepare_compaction(p) \/ put_pack(p)
  <2>1. /\ SameRequest(p) /\ push'[p].put = "none" /\ push[p].put = "none"
        /\ push'[p].reply # "rejected" /\ push[p].phase = "received"
    BY <1>5, PackFacts
  <2>2. push[p].reply = "none"
    BY <2>1 DEF Inv, Shapes, Shape
  <2>3. QED
    BY <1>4, <2>1, <2>2
<1>6. CASE put_pointer(p)
  BY <1>4, <1>6, PutPointerFacts
<1>7. CASE lost_race(p) \/ finalize_push(p) \/ fail_push(p)
  BY <1>4, <1>7, AnswerFacts
<1>8. QED
  BY <1>1, <1>2, <1>3, <1>5, <1>6, <1>7 DEF PushStep

\* The mapping's invariant.
LEMMA SpecRefInv == Spec => []RefInv
<1>1. Init => RefInv
  BY DEF Init, GitInit, Idle, RefInv, SeenAtBase, DigestHasRefs
<1>2. Inv /\ Inv' /\ RefInv /\ [Next]_vars => RefInv'
  <2> SUFFICES ASSUME Inv, Inv', RefInv, [Next]_vars
               PROVE  RefInv'
    OBVIOUS
  <2>0. StoreGrows
    BY NextInv
  <2>1. ASSUME push' = push
        PROVE  RefInv'
    <3>1. \A q \in Push : push'[q].named # {} /\ push'[q].reply # "rejected" =>
            \A b \in push'[q].named : ManifestAt(push[q].base)'.refs[b] = push'[q].seen[b]
      BY <2>0, <2>1, SeenStays DEF SameRequest
    <3>2. \A q \in Push :
            push'[q].put # "none" => manifests'[push'[q].digest].refs = RefsAfter(q)'
      BY <2>0, <2>1, DigestStays DEF SameRequest
    <3>3. QED
      BY <3>1, <3>2 DEF RefInv, SeenAtBase, DigestHasRefs
  <2>2. CASE UNCHANGED vars
    BY <2>1, <2>2 DEF vars, gitVars
  <2>3. ASSUME NEW p \in Push, PushStep(p)
        PROVE  RefInv'
    BY <2>0, <2>3, PushStepRef
  <2>4. ASSUME NEW a \in Announcement, AnnounceStep(a)
        PROVE  RefInv'
    BY <2>1, <2>4, AnnounceStepInv
  <2>5. QED
    BY <2>2, <2>3, <2>4 DEF Next
<1>3. QED
  BY <1>1, <1>2, SpecInv, PTL DEF Spec

-----------------------------------------------------------------------------
(* What the clients see, push by push.                                     *)

RequestOf(r) ==
  IF r.named = {} THEN [old |-> NoRefs, new |-> NoRefs, named |-> {}]
  ELSE [old |-> r.seen, new |-> r.new, named |-> r.named]

AnswerOf(r) == IF r.reply \in {"rejected", "limit", "conflict"} THEN "refused" ELSE r.reply

\* The mapped variables, one push at a time.
LEMMA Mapped ==
  /\ Requested = [p \in Push |-> RequestOf(push[p])]
  /\ Requested' = [p \in Push |-> RequestOf(push'[p])]
  /\ Answered = [p \in Push |-> AnswerOf(push[p])]
  /\ Answered' = [p \in Push |-> AnswerOf(push'[p])]
  /\ Applied = {p \in Push : push[p].put = "won"}
  /\ Applied' = {p \in Push : push'[p].put = "won"}
  BY DEF Requested, Answered, Applied, RequestOf, AnswerOf

\* After a step of one push the others look as before.
LEMMA MappedStep ==
  ASSUME NEW p \in Push, OnlyPush(p)
  PROVE  /\ Requested' = [Requested EXCEPT ![p] = RequestOf(push'[p])]
         /\ Answered' = [Answered EXCEPT ![p] = AnswerOf(push'[p])]
         /\ RequestOf(push'[p]) = RequestOf(push[p]) => Requested' = Requested
         /\ AnswerOf(push'[p]) = AnswerOf(push[p]) => Answered' = Answered
         /\ (push'[p].put = "won" <=> push[p].put = "won") => Applied' = Applied
         /\ push'[p].put = "won" => Applied' = Applied \cup {p}
<1>0. \A q \in Push \ {p} : push'[q] = push[q]
  BY DEF OnlyPush
<1>1. \A q \in Push \ {p} : RequestOf(push'[q]) = RequestOf(push[q])
  BY <1>0
<1>2. \A q \in Push \ {p} : AnswerOf(push'[q]) = AnswerOf(push[q])
  BY <1>0
<1>3. /\ Requested' = [Requested EXCEPT ![p] = RequestOf(push'[p])]
      /\ RequestOf(push'[p]) = RequestOf(push[p]) => Requested' = Requested
  BY <1>1, Mapped
<1>4. /\ Answered' = [Answered EXCEPT ![p] = AnswerOf(push'[p])]
      /\ AnswerOf(push'[p]) = AnswerOf(push[p]) => Answered' = Answered
  BY <1>2, Mapped
<1>5. /\ (push'[p].put = "won" <=> push[p].put = "won") => Applied' = Applied
      /\ push'[p].put = "won" => Applied' = Applied \cup {p}
  BY <1>0, Mapped
<1>6. QED
  BY <1>3, <1>4, <1>5

\* Published refs change with the pointer only.
LEMMA PublishedStays ==
  ASSUME Inv, Inv', StoreGrows,
         \A r \in Repo : ManifestAt(pointer[r])'.refs = ManifestAt(pointer[r]).refs
  PROVE  Published' = Published
  BY DEF Published

\* A pointer that stays.
LEMMA StillThere ==
  ASSUME Inv, Inv', StoreGrows, NEW r \in Repo, pointer'[r] = pointer[r]
  PROVE  ManifestAt(pointer[r])' = ManifestAt(pointer[r])
<1>1. pointer[r] \in 0 .. Len(manifests)
  BY DEF Inv, TypeOK, GitTypeOK
<1>2. \A d \in 0 .. Len(manifests) : ManifestAt(d)' = ManifestAt(d)
  BY StoreStays DEF Inv, TypeOK, GitTypeOK
<1>3. QED
  BY <1>1, <1>2 DEF ManifestAt

\* Seeding a repository publishes nothing.
LEMMA AnnounceStutters ==
  ASSUME Inv, Inv', StoreGrows, NEW a \in Announcement, AnnounceStep(a)
  PROVE  UNCHANGED <<Published, Requested, Applied, Answered>>
<1>0. /\ push' = push
      /\ pointer \in [Repo -> 0 .. Len(manifests)]
      /\ Target(a) \in Repo
  BY AnnounceStepInv, RegistryAssumption DEF Inv, TypeOK, GitTypeOK, Target
<1>1. UNCHANGED <<Requested, Applied, Answered>>
  BY <1>0 DEF Requested, Applied, Answered
<1>2. Published' = Published
  <2>1. CASE PointerStays
    BY <2>1, StillThere, PublishedStays DEF PointerStays
  <2>2. CASE /\ pointer[Target(a)] = 0
             /\ pointer' = [pointer EXCEPT ![Target(a)] = DigestOf(EmptyManifest)]
             /\ ~PointerStays
    <3> SUFFICES ASSUME NEW r \in Repo
                 PROVE  ManifestAt(pointer[r])'.refs = ManifestAt(pointer[r]).refs
      BY PublishedStays
    <3>1. CASE r # Target(a)
      BY <1>0, <2>2, <3>1, StillThere
    <3>2. CASE r = Target(a)
      <4>1. StoreSeed(a)
        BY <2>2, WalkFacts, ReserveFacts, SeedFacts, ReleaseFacts, EmitFacts
           DEF AnnounceStep, Walk, PointerStays, gitVars, storeVars, Inv
      <4>2. announce[a].put = "sent" /\ manifests' = manifests
        BY <4>1, StoreSeedFacts DEF Inv
      <4>3. /\ DigestOf(EmptyManifest) \in 1 .. Len(manifests)
            /\ manifests[DigestOf(EmptyManifest)] = EmptyManifest
        BY <4>2, DigestOfStored DEF Inv, SeedsStored, TypeOK, GitTypeOK
      <4>4. pointer'[r] = DigestOf(EmptyManifest)
        BY <1>0, <2>2, <3>2
      <4>5. DigestOf(EmptyManifest) # 0
        BY <4>3
      <4>6. ManifestAt(pointer[r])' = EmptyManifest
        BY <4>2, <4>3, <4>4, <4>5 DEF ManifestAt
      <4>7. ManifestAt(pointer[r]) = Fresh
        BY <2>2, <3>2 DEF ManifestAt
      <4>8. QED
        BY <4>6, <4>7, FreshFacts
    <3>3. QED
      BY <3>1, <3>2
  <2>3. QED
    BY <2>1, <2>2, SeedSteps
<1>3. QED
  BY <1>1, <1>2

-----------------------------------------------------------------------------
(* Every step of a push is a step of RefStore or changes nothing.          *)

\* The pushes a pointer PUT wins for: all branches move at once.
LEMMA WinApplies ==
  ASSUME Inv, Inv', StoreGrows, RefInv, NEW p \in Push, put_pointer(p), push'[p].put = "won"
  PROVE  RS!Apply(p)
<1>0. /\ OnlyPush(p) /\ SameRequest(p)
      /\ push'[p].reply = push[p].reply
      /\ push[p].phase \in {"cas", "done"} /\ push[p].put = "sent"
      /\ pointer[RepoOf[p]] = push[p].base
      /\ pointer' = [pointer EXCEPT ![RepoOf[p]] = push[p].digest]
      /\ UNCHANGED <<packs, manifests, refState>>
  BY PutPointerFacts
<1>1. /\ RepoOf[p] \in Repo
      /\ pointer \in [Repo -> 0 .. Len(manifests)]
      /\ push[p] \in PushType
      /\ push[p].named # {}
      /\ push[p].reply \in {"none", "error"}
      /\ push[p].digest # 0
  <2>1. Shape(push[p]) /\ push[p] \in PushType
    BY DEF Inv, Shapes, TypeOK, GitTypeOK
  <2>2. push[p].reply \in {"none", "error"} /\ push[p].named # {}
    BY <1>0, <2>1 DEF Shape, PushType
  <2>3. push[p].digest # 0
    BY <1>0 DEF Inv, DigestsKnown
  <2>4. QED
    BY <2>1, <2>2, <2>3, GitAssumption DEF Inv, TypeOK, GitTypeOK
<1>2. Requested[p] = [old |-> push[p].seen, new |-> push[p].new, named |-> push[p].named]
  BY <1>1 DEF Requested
<1>3. Answered[p] \in {"none", "error"} /\ p \notin Applied
  BY <1>0, <1>1 DEF Answered, Applied
<1>4. Published[RepoOf[p]] = ManifestAt(push[p].base).refs
  BY <1>0, <1>1 DEF Published
<1>5. \A b \in push[p].named : Published[RepoOf[p]][b] = push[p].seen[b]
  BY <1>1, <1>4 DEF RefInv, SeenAtBase
<1>6. UNCHANGED <<Requested, Answered>> /\ Applied' = Applied \cup {p}
  <2>1. RequestOf(push'[p]) = RequestOf(push[p]) /\ AnswerOf(push'[p]) = AnswerOf(push[p])
    BY <1>0 DEF RequestOf, AnswerOf, SameRequest
  <2>2. QED
    BY <1>0, <2>1, MappedStep
<1>7. Published' = [Published EXCEPT ![RepoOf[p]] = RefsAfter(p)]
  <2>1. pointer'[RepoOf[p]] = push[p].digest
    BY <1>0, <1>1
  <2>2. ManifestAt(pointer[RepoOf[p]])'.refs = RefsAfter(p)
    <3>1. ManifestAt(pointer[RepoOf[p]])' = manifests[push[p].digest]
      BY <1>0, <1>1, <2>1 DEF ManifestAt
    <3>2. QED
      BY <1>0, <3>1 DEF RefInv, DigestHasRefs
  <2>3. \A r \in Repo \ {RepoOf[p]} :
          ManifestAt(pointer[r])'.refs = ManifestAt(pointer[r]).refs
    BY <1>0, <1>1, StillThere
  <2>4. QED
    BY <1>1, <2>2, <2>3 DEF Published
<1>8. RefsAfter(p) = [b \in Branch |-> IF b \in push[p].named THEN push[p].new[b]
                                       ELSE Published[RepoOf[p]][b]]
  BY <1>4 DEF RefsAfter
<1> DEFINE req == Requested[p]
           now == Published[RepoOf[p]]
<1>9. /\ req.named # {}
      /\ \A b \in req.named : now[b] = req.old[b]
      /\ RefsAfter(p) = [b \in Branch |-> IF b \in req.named THEN req.new[b] ELSE now[b]]
  BY <1>1, <1>2, <1>5, <1>8
<1>10. Published' = [Published EXCEPT ![RepoOf[p]] =
                      [b \in Branch |-> IF b \in req.named THEN req.new[b] ELSE now[b]]]
  BY <1>7, <1>9, Zenon
<1> HIDE DEF req, now
<1>11. QED
  BY <1>3, <1>6, <1>9, <1>10, Zenon DEF RS!Apply, req, now

\* A push arrives: its request is submitted, or refused in the same step.
LEMMA ArrivalSubmits ==
  ASSUME Inv, Inv', StoreGrows, NEW p \in Push, receive_pack(p)
  PROVE  RS!Submit(p) \/ RS!Refuse(p)
<1>0. /\ OnlyPush(p)
      /\ push[p].phase = "view"
      /\ push'[p].named # {}
      /\ push'[p].put = "none" /\ push[p].put = "none"
      /\ push'[p].reply \in {"none", "rejected"}
      /\ UNCHANGED <<packs, manifests, pointer>>
  BY ReceivePackFacts DEF storeVars
<1>1. push[p].named = {} /\ push[p].reply = "none"
  BY <1>0 DEF Inv, Shapes, Shape
<1>2. push'[p] \in PushType
  BY <1>0 DEF OnlyPush
<1>3. Requested[p] = [old |-> NoRefs, new |-> NoRefs, named |-> {}] /\ Answered[p] = "none"
  BY <1>1 DEF Requested, Answered
<1>4. /\ Requested' = [Requested EXCEPT ![p] = RequestOf(push'[p])]
      /\ Answered' = [Answered EXCEPT ![p] = AnswerOf(push'[p])]
      /\ AnswerOf(push'[p]) = AnswerOf(push[p]) => Answered' = Answered
      /\ Applied' = Applied
  BY <1>0, MappedStep
<1>5. Requested'[p] = RequestOf(push'[p])
  BY Mapped
<1>6. RequestOf(push'[p]) \in [old : RefMap, new : RefMap, named : SUBSET Branch]
  BY <1>0, <1>2 DEF RequestOf, PushType
<1>7. RS!Request = [old : RefMap, new : RefMap, named : SUBSET Branch]
  BY DEF RS!Request, RS!RefMap, RefMap
<1>8. RS!NoRequest = [old |-> NoRefs, new |-> NoRefs, named |-> {}]
  BY DEF RS!NoRequest, RS!NoRefs, NoRefs
<1>9. RS!Ask(p)
  BY <1>3, <1>4, <1>5, <1>6, <1>7, <1>8 DEF RS!Ask
<1>10. Published' = Published
  BY <1>0, StillThere, PublishedStays
<1>11. CASE push'[p].reply = "none"
  <2>1. Answered' = Answered
    BY <1>1, <1>4, <1>11 DEF AnswerOf
  <2>2. QED
    BY <1>4, <1>9, <1>10, <2>1 DEF RS!Submit
<1>12. CASE push'[p].reply = "rejected"
  <2>1. Answered' = [Answered EXCEPT ![p] = "refused"]
    BY <1>4, <1>12 DEF AnswerOf
  <2>2. QED
    BY <1>4, <1>9, <1>10, <2>1 DEF RS!Refuse
<1>13. QED
  BY <1>0, <1>11, <1>12

\* The end of a push is a true answer: "ok" only after the push took effect,
\* refused only when it did not and never will.
LEMMA EndAnswers ==
  ASSUME Inv, Inv', StoreGrows, NEW p \in Push, OnlyPush(p), SameRequest(p), PointerStays,
         push'[p].put = push[p].put, push[p].reply = "none",
         push'[p].reply \in {"ok", "conflict", "error", "limit"}
  PROVE  \E reply \in {"ok", "refused", "error"} : RS!Answer(p, reply)
<1>0. Shape(push'[p])
  BY DEF Inv, Shapes
<1> DEFINE reply == AnswerOf(push'[p])
<1>1. /\ reply \in {"ok", "refused", "error"}
      /\ reply = "ok" => push[p].put = "won"
      /\ reply = "refused" => push[p].put # "won"
  BY <1>0 DEF AnswerOf, Shape
<1>2. Answered' = [Answered EXCEPT ![p] = reply] /\ Requested' = Requested /\ Applied' = Applied
  <2>1. RequestOf(push'[p]) = RequestOf(push[p])
    BY DEF RequestOf, SameRequest
  <2>2. QED
    BY <2>1, MappedStep
<1>3. Answered[p] = "none" /\ (p \in Applied <=> push[p].put = "won")
  BY DEF Answered, Applied
<1>4. Published' = Published
  BY StillThere, PublishedStays DEF PointerStays
<1> HIDE DEF reply
<1>5. RS!Answer(p, reply)
  BY <1>1, <1>2, <1>3, <1>4 DEF RS!Answer
<1>6. QED
  BY <1>1, <1>5

\* A step nobody can see.
LEMMA InnerStutters ==
  ASSUME Inv, Inv', StoreGrows, NEW p \in Push, OnlyPush(p), PointerStays,
         RequestOf(push'[p]) = RequestOf(push[p]), push'[p].reply = push[p].reply,
         push'[p].put = "won" <=> push[p].put = "won"
  PROVE  UNCHANGED <<Published, Requested, Applied, Answered>>
<1>1. AnswerOf(push'[p]) = AnswerOf(push[p])
  BY DEF AnswerOf
<1>2. UNCHANGED <<Requested, Applied, Answered>>
  BY <1>1, MappedStep
<1>3. Published' = Published
  BY StillThere, PublishedStays DEF PointerStays
<1>4. QED
  BY <1>2, <1>3

\* Every step of a push, one by one.
LEMMA PushStepMaps ==
  ASSUME Inv, Inv', StoreGrows, RefInv, NEW p \in Push, PushStep(p)
  PROVE  RS!Next \/ UNCHANGED <<Published, Requested, Applied, Answered>>
<1>0. OnlyPush(p)
  BY PutSteps
<1>1. CASE info_refs(p)
  <2>1. /\ push'[p].named = {} /\ push[p].named = {} /\ push'[p].reply = push[p].reply
        /\ push'[p].put = "none" /\ push[p].put = "none" /\ PointerStays
    BY <1>1, InfoRefsFacts DEF PointerStays, storeVars
  <2>2. RequestOf(push'[p]) = RequestOf(push[p])
    BY <2>1 DEF RequestOf
  <2>3. QED
    BY <1>0, <2>1, <2>2, InnerStutters
<1>2. CASE receive_pack(p)
  BY <1>2, ArrivalSubmits DEF RS!Next
<1>3. CASE prepare_compaction(p) \/ put_pack(p)
  <2>1. /\ SameRequest(p) /\ push'[p].put = "none" /\ push[p].put = "none" /\ PointerStays
        /\ push[p].phase = "received"
        /\ push'[p].reply \in {"limit", "none"}
    BY <1>3, PackFacts DEF PointerStays
  <2>2. push[p].reply = "none"
    BY <2>1 DEF Inv, Shapes, Shape
  <2>3. CASE push'[p].reply = "limit"
    BY <1>0, <2>1, <2>2, <2>3, EndAnswers DEF RS!Next
  <2>4. CASE push'[p].reply = "none"
    <3>1. RequestOf(push'[p]) = RequestOf(push[p])
      BY <2>1 DEF RequestOf, SameRequest
    <3>2. QED
      BY <1>0, <2>1, <2>2, <2>4, <3>1, InnerStutters
  <2>5. QED
    BY <2>1, <2>3, <2>4
<1>4. CASE put_manifest(p)
  <2>1. /\ SameRequest(p) /\ push[p].put = "none" /\ push'[p].put = "sent"
        /\ push'[p].reply = "none" /\ push[p].phase = "packed" /\ PointerStays
    BY <1>4, PutManifestFacts DEF PointerStays
  <2>2. push[p].reply = "none"
    BY <2>1 DEF Inv, Shapes, Shape
  <2>3. RequestOf(push'[p]) = RequestOf(push[p])
    BY <2>1 DEF RequestOf, SameRequest
  <2>4. QED
    BY <1>0, <2>1, <2>2, <2>3, InnerStutters
<1>5. CASE put_pointer(p)
  <2>1. CASE push'[p].put = "won"
    BY <1>5, <2>1, WinApplies DEF RS!Next
  <2>2. CASE push'[p].put # "won"
    <3>1. /\ SameRequest(p) /\ push'[p].reply = push[p].reply /\ push[p].put # "won"
          /\ PointerStays
      BY <1>5, <2>2, PutPointerFacts DEF PointerStays
    <3>2. RequestOf(push'[p]) = RequestOf(push[p])
      BY <3>1 DEF RequestOf, SameRequest
    <3>3. QED
      BY <1>0, <2>2, <3>1, <3>2, InnerStutters
  <2>3. QED
    BY <2>1, <2>2
<1>6. CASE lost_race(p) \/ finalize_push(p) \/ fail_push(p)
  <2>1. /\ SameRequest(p) /\ PointerStays /\ push'[p].put = push[p].put /\ push[p].reply = "none"
        /\ push'[p].reply \in {"ok", "conflict", "error"}
    BY <1>6, AnswerFacts DEF PointerStays, storeVars
  <2>2. QED
    BY <1>0, <2>1, EndAnswers DEF RS!Next
<1>7. QED
  BY <1>1, <1>2, <1>3, <1>4, <1>5, <1>6 DEF PushStep

\* The repositories the relays start with are a possible start of RefStore.
LEMMA InitMaps ==
  ASSUME Init
  PROVE  RS!Init
<1>0. /\ Inv
      /\ push = [p \in Push |-> Idle]
  BY InitInv DEF Init, GitInit
<1>1. Published \in [Repo -> RefMap]
  <2>1. \A r \in Repo : pointer[r] \in 0 .. Len(manifests)
    BY <1>0 DEF Inv, TypeOK, GitTypeOK
  <2>2. \A r \in Repo : ManifestAt(pointer[r]).refs \in RefMap
    BY <1>0, <2>1, ManifestAtType DEF Inv, TypeOK, GitTypeOK
  <2>3. QED
    BY <2>2 DEF Published
<1>2. Idle.named = {} /\ Idle.reply = "none" /\ Idle.put = "none"
  BY DEF Idle
<1>3. Requested = [p \in Push |-> [old |-> NoRefs, new |-> NoRefs, named |-> {}]]
  BY <1>0, <1>2 DEF Requested
<1>4. Applied = {} /\ Answered = [p \in Push |-> "none"]
  BY <1>0, <1>2 DEF Applied, Answered
<1>5. RS!NoRequest = [old |-> NoRefs, new |-> NoRefs, named |-> {}] /\ RS!RefMap = RefMap
  BY DEF RS!NoRequest, RS!NoRefs, NoRefs, RS!RefMap, RefMap
<1>6. QED
  BY <1>1, <1>3, <1>4, <1>5 DEF RS!Init

\* The protocol over immutable objects and one conditional PUT implements atomic
\* compare-and-swap of the named branches with true answers, for any number of
\* relays, pushes and announcements, compaction and failures at any step.
THEOREM RelayImplementsRefStore == Spec => RefinesRefStore
<1>1. Init => RS!Init
  BY InitMaps
<1>2. Inv /\ Inv' /\ RefInv /\ [Next]_vars => [RS!Next]_(RS!vars)
  <2> SUFFICES ASSUME Inv, Inv', RefInv, [Next]_vars
               PROVE  RS!Next \/ UNCHANGED <<Published, Requested, Applied, Answered>>
    BY DEF RS!vars
  <2>0. StoreGrows
    BY NextInv
  <2>1. CASE UNCHANGED vars
    BY <2>1 DEF vars, gitVars, Published, Requested, Applied, Answered, ManifestAt
  <2>2. ASSUME NEW p \in Push, PushStep(p)
        PROVE  RS!Next \/ UNCHANGED <<Published, Requested, Applied, Answered>>
    BY <2>0, <2>2, PushStepMaps
  <2>3. ASSUME NEW a \in Announcement, AnnounceStep(a)
        PROVE  RS!Next \/ UNCHANGED <<Published, Requested, Applied, Answered>>
    BY <2>0, <2>3, AnnounceStutters
  <2>4. QED
    BY <2>1, <2>2, <2>3 DEF Next
<1>3. QED
  BY <1>1, <1>2, SpecInv, SpecRefInv, PTL DEF Spec, RefinesRefStore, RS!Spec
=============================================================================
