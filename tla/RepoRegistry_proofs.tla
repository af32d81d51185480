------------------------- MODULE RepoRegistry_proofs -------------------------
(***************************************************************************)
(* Hosted repositories, for any history, any number of repositories,       *)
(* branches, pushes and announcements, any limits and any object store to  *)
(* start from: types, that every manifest can be cloned, that history      *)
(* does not fork, that losers were superseded and that names are held.     *)
(***************************************************************************)
EXTENDS RepoRegistry, TLAPS

-----------------------------------------------------------------------------
(* The operators.                                                          *)

\* Refs and the objects they need.
LEMMA ClosureType ==
  ASSUME NEW rs \in RefMap
  PROVE  Tips(rs) \subseteq Commit /\ Closure(rs) \subseteq Commit
<1>1. Tips(rs) \subseteq Commit
  BY DEF Tips, RefMap
<1>2. \A c \in Tips(rs) : Reach[c] \subseteq Commit
  BY <1>1, GitAssumption
<1>3. QED
  BY <1>1, <1>2 DEF Closure

\* Without refs nothing is needed.
LEMMA NoTips ==
  ASSUME NEW rs, Tips(rs) = {}
  PROVE  Closure(rs) = {}
  BY DEF Closure

\* A repository nobody has pushed to.
LEMMA NoRefsFacts ==
  /\ NoRefs \in RefMap
  /\ Tips(NoRefs) = {}
  /\ Closure(NoRefs) = {}
  /\ LiveBranches(NoRefs) = {}
<1>1. NoRefs \in RefMap /\ Tips(NoRefs) = {} /\ LiveBranches(NoRefs) = {}
  BY DEF NoRefs, RefMap, Tips, LiveBranches
<1>2. QED
  BY <1>1, NoTips

\* The manifests that are there from the start: none pushed, nothing needed.
LEMMA FreshFacts ==
  /\ Fresh \in Manifest /\ Sound(Fresh) /\ Fresh.refs = NoRefs /\ Fresh.packs = {}
  /\ EmptyManifest \in Manifest /\ Sound(EmptyManifest)
  /\ EmptyManifest.refs = NoRefs /\ EmptyManifest.packs = {} /\ EmptyManifest.parent = 0
<1>1. /\ Fresh.refs = NoRefs /\ Fresh.packs = {}
      /\ EmptyManifest.refs = NoRefs /\ EmptyManifest.packs = {} /\ EmptyManifest.parent = 0
  BY DEF Fresh, EmptyManifest
<1>2. Fresh \in Manifest /\ EmptyManifest \in Manifest
  BY NoRefsFacts, GitAssumption DEF Fresh, EmptyManifest, Manifest
<1>3. Sound(Fresh) /\ Sound(EmptyManifest)
  BY <1>1, NoRefsFacts DEF Sound
<1>4. QED
  BY <1>1, <1>2, <1>3

\* What a digest names.
LEMMA ManifestAtType ==
  ASSUME manifests \in Seq(Manifest), NEW d \in 0 .. Len(manifests)
  PROVE  /\ ManifestAt(d) \in Manifest
         /\ ManifestAt(d).refs \in RefMap
         /\ ManifestAt(d).packs \subseteq SUBSET Commit
         /\ ManifestAt(d).head \in Branch \cup {NoBranch}
<1>1. ManifestAt(d) \in Manifest
  BY FreshFacts DEF ManifestAt
<1>2. QED
  BY <1>1 DEF Manifest

\* Storing a manifest: nothing moves, and its digest names it.
LEMMA StoringManifest ==
  ASSUME manifests \in Seq(Manifest), NEW m \in Manifest
  PROVE  /\ WithManifest(m) \in Seq(Manifest)
         /\ Len(manifests) <= Len(WithManifest(m))
         /\ \A d \in 1 .. Len(manifests) : WithManifest(m)[d] = manifests[d]
         /\ DigestOf(m) \in 1 .. Len(WithManifest(m))
         /\ WithManifest(m)[DigestOf(m)] = m
         /\ \A d \in 1 .. Len(WithManifest(m)) :
              d \in 1 .. Len(manifests) \/ (d = Len(manifests) + 1 /\ WithManifest(m)[d] = m)
<1>0. DOMAIN manifests = 1 .. Len(manifests) /\ Len(manifests) \in Nat
  OBVIOUS
<1>1. CASE Stored(m)
  <2>1. DigestOf(m) \in DOMAIN manifests /\ manifests[DigestOf(m)] = m
    BY <1>1 DEF Stored, DigestOf
  <2>2. WithManifest(m) = manifests
    BY <1>1 DEF WithManifest
  <2>3. Len(manifests) <= Len(manifests)
    BY <1>0
  <2>4. QED
    BY <1>0, <2>1, <2>2, <2>3, Zenon
<1>2. CASE ~Stored(m)
  <2> DEFINE s == Append(manifests, m)
             n == Len(manifests)
  <2>1. DigestOf(m) = n + 1 /\ WithManifest(m) = s
    BY <1>2 DEF DigestOf, WithManifest
  <2>2. /\ s \in Seq(Manifest)
        /\ Len(s) = n + 1
        /\ s[n + 1] = m
        /\ \A d \in 1 .. n : s[d] = manifests[d]
    OBVIOUS
  <2>3. /\ n <= Len(s)
        /\ n + 1 \in 1 .. Len(s)
        /\ \A d \in 1 .. Len(s) : d \in 1 .. n \/ d = n + 1
    BY <1>0, <2>2
  <2>4. \A d \in 1 .. Len(s) : d \in 1 .. n \/ (d = n + 1 /\ s[d] = m)
    BY <2>2, <2>3
  <2> HIDE DEF s
  <2>5. QED
    BY <2>1, <2>2, <2>3, <2>4, Zenon
<1>3. QED
  BY <1>1, <1>2

\* The digest of a manifest that is stored.
LEMMA DigestOfStored ==
  ASSUME manifests \in Seq(Manifest), NEW m, Stored(m)
  PROVE  DigestOf(m) \in 1 .. Len(manifests) /\ manifests[DigestOf(m)] = m
  BY DEF Stored, DigestOf

\* The published HEAD is a branch, and a live one when there is one.
LEMMA HeadIsLive ==
  ASSUME NEW rs \in RefMap, NEW o \in Branch \cup {NoBranch}, NEW h \in Branch \cup {NoBranch}
  PROVE  /\ resolve_published_head(rs, o, h) \in Branch \cup {NoBranch}
         /\ LiveBranches(rs) # {} => resolve_published_head(rs, o, h) \in LiveBranches(rs)
<1> DEFINE live == LiveBranches(rs)
<1>0. live \subseteq Branch
  BY DEF LiveBranches
<1> HIDE DEF live
<1>1. CASE o \in live
  BY <1>0, <1>1 DEF resolve_published_head, live
<1>2. CASE o \notin live /\ h \in live
  BY <1>0, <1>2 DEF resolve_published_head, live
<1>3. CASE o \notin live /\ h \notin live /\ MainBranch \in live
  <2>1. {o, h} \cap live = {}
    BY <1>3
  <2>2. resolve_published_head(rs, o, h) = MainBranch
    BY <1>3, <2>1 DEF resolve_published_head, live
  <2>3. QED
    BY <1>0, <1>3, <2>2 DEF live
<1>4. CASE o \notin live /\ h \notin live /\ MainBranch \notin live /\ live # {}
  <2>1. {o, h, MainBranch} \cap live = {}
    BY <1>4
  <2>2. resolve_published_head(rs, o, h) = CHOOSE b \in live : TRUE
    BY <1>4, <2>1 DEF resolve_published_head, live
  <2>3. (CHOOSE b \in live : TRUE) \in live
    BY <1>4
  <2>4. QED
    BY <1>0, <2>2, <2>3 DEF live
<1>5. CASE live = {}
  <2>1. resolve_published_head(rs, o, h) = o
    BY <1>5 DEF resolve_published_head, live
  <2>2. QED
    BY <1>5, <2>1 DEF live
<1>6. QED
  BY <1>1, <1>2, <1>3, <1>4, <1>5

\* A delta pack on top of packs that hold what was needed before.
LEMMA DeltaPack ==
  ASSUME NEW before \in RefMap, NEW after \in RefMap, NEW held \in SUBSET SUBSET Commit,
         Closure(before) \subseteq UNION held, NEW new \in capture_pack(before, after)
  PROVE  /\ new \in SUBSET SUBSET Commit
         /\ Closure(after) \subseteq UNION (held \cup new)
<1> DEFINE delta == Closure(after) \ Closure(before)
<1>0. Closure(after) \subseteq Commit
  BY ClosureType
<1>1. CASE Tips(after) = {}
  <2>1. Closure(after) = {} /\ new = {}
    BY <1>1, NoTips DEF capture_pack
  <2>2. QED
    BY <2>1
<1>2. CASE Tips(after) # {} /\ new = {delta}
  <2>1. \A c \in Closure(after) : c \in delta \/ \E k \in held : c \in k
    OBVIOUS
  <2>2. delta \in held \cup new /\ \A k \in held : k \in held \cup new
    BY <1>2
  <2>3. Closure(after) \subseteq UNION (held \cup new)
    BY <2>1, <2>2, Zenon
  <2>4. QED
    BY <1>0, <1>2, <2>3
<1>3. CASE Tips(after) # {} /\ new = {} /\ delta = {}
  BY <1>0, <1>3
<1>4. QED
  BY <1>1, <1>2, <1>3 DEF capture_pack

\* A compacted pack holds everything.
LEMMA CompactedPack ==
  ASSUME NEW after \in RefMap
  PROVE  /\ capture_compacted_packs(after) \in SUBSET SUBSET Commit
         /\ Closure(after) \subseteq UNION capture_compacted_packs(after)
<1>0. Closure(after) \subseteq Commit
  BY ClosureType
<1>1. CASE Tips(after) = {}
  BY <1>1, NoTips DEF capture_compacted_packs
<1>2. CASE Tips(after) # {}
  BY <1>0, <1>2 DEF capture_compacted_packs
<1>3. QED
  BY <1>1, <1>2

-----------------------------------------------------------------------------
(* Types.                                                                  *)

\* What the phase of a push says about the rest of its record.
Shape(r) ==
  /\ r.phase \in {"idle", "view"} <=> r.named = {}
  /\ r.phase \in {"idle", "view", "received", "packed"} => r.put = "none"
  /\ r.phase = "cas" => r.put # "none"
  /\ r.phase # "done" => r.reply = "none"
  /\ r.reply = "ok" => r.put = "won"
  /\ r.reply = "conflict" => r.put = "lost"
  /\ r.reply \in {"rejected", "limit"} => r.put = "none"

Shapes == \A p \in Push : Shape(push[p])

\* Digests that pushes carry name manifests in the store.
DigestsKnown ==
  \A p \in Push :
    /\ push[p].base \in 0 .. Len(manifests)
    /\ push[p].put # "none" => push[p].digest \in 1 .. Len(manifests)

\* The phases before the PUT of a seed leaves.
Unsent == {"idle", "count", "reserve", "classify", "owned", "ensure", "seed"}

\* What the phase of an announcement says about the rest of its record.
SeedShape(r) ==
  /\ r.phase \in Unsent => r.put = "none"
  /\ r.phase = "put" => r.put # "none"
  /\ r.phase = "ensure" => ~r.fresh
  /\ r.phase = "seeded" /\ r.fresh => r.put # "none"

\* The empty manifest is in the store before a pointer is seeded with it.
SeedsStored ==
  \A a \in Announcement :
    SeedShape(announce[a]) /\ (announce[a].put # "none" => Stored(EmptyManifest))

Inv == TypeOK /\ Shapes /\ DigestsKnown /\ SeedsStored

\* Nothing is ever taken out of the object store.
StoreGrows ==
  /\ packs \subseteq packs'
  /\ Len(manifests) <= Len(manifests')
  /\ \A d \in 1 .. Len(manifests) : manifests'[d] = manifests[d]

\* What a push reads of the store stays as it is.
LEMMA StoreStays ==
  ASSUME manifests \in Seq(Manifest), manifests' \in Seq(Manifest), StoreGrows
  PROVE  /\ \A d \in 0 .. Len(manifests) :
              d \in 0 .. Len(manifests') /\ ManifestAt(d)' = ManifestAt(d)
         /\ \A d \in 1 .. Len(manifests) : d \in 1 .. Len(manifests')
         /\ \A m : Stored(m) => Stored(m)'
<1>0. /\ Len(manifests) \in Nat
      /\ Len(manifests') \in Nat
      /\ DOMAIN manifests = 1 .. Len(manifests)
      /\ DOMAIN manifests' = 1 .. Len(manifests')
  OBVIOUS
<1>1. /\ \A d \in 0 .. Len(manifests) : d \in 0 .. Len(manifests')
      /\ \A d \in 1 .. Len(manifests) : d \in 1 .. Len(manifests')
  BY <1>0 DEF StoreGrows
<1>2. \A d \in 0 .. Len(manifests) : d = 0 \/ d \in 1 .. Len(manifests)
  BY <1>0
<1>3. \A d \in 0 .. Len(manifests) : ManifestAt(d)' = ManifestAt(d)
  BY <1>2 DEF StoreGrows, ManifestAt
<1>4. \A m : Stored(m) => Stored(m)'
  BY <1>0, <1>1 DEF Stored, StoreGrows
<1>5. QED
  BY <1>1, <1>3, <1>4

\* The record of a push after one of its steps.
LEMMA BecomeFacts ==
  ASSUME push \in [Push -> PushType], NEW p \in Push, NEW r \in PushType, Become(p, r)
  PROVE  /\ push' \in [Push -> PushType]
         /\ push'[p] = r
         /\ \A q \in Push \ {p} : push'[q] = push[q]
  BY DEF Become

\* The refs a push would publish.
LEMMA RefsAfterType ==
  ASSUME TypeOK, DigestsKnown, NEW p \in Push
  PROVE  RefsAfter(p) \in RefMap
<1>1. ManifestAt(push[p].base).refs \in RefMap
  BY ManifestAtType DEF TypeOK, GitTypeOK, DigestsKnown
<1>2. push[p].new \in RefMap
  BY DEF TypeOK, GitTypeOK, PushType
<1>3. QED
  BY <1>1, <1>2 DEF RefsAfter, RefMap

\* The end of a push.
LEMMA DoneFacts ==
  ASSUME push \in [Push -> PushType], NEW p \in Push, Shape(push[p]),
         NEW reply \in {"ok", "limit", "conflict", "error"}, NEW told \in SUBSET Branch,
         push[p].phase \in {"received", "packed", "cas"}, Done(p, reply, told),
         reply = "ok" => push[p].put = "won",
         reply = "conflict" => push[p].put = "lost",
         reply = "limit" => push[p].put = "none"
  PROVE  /\ push' \in [Push -> PushType]
         /\ Shape(push'[p])
         /\ push'[p].phase = "done" /\ push'[p].reply = reply
         /\ push'[p].named = push[p].named /\ push'[p].new = push[p].new
         /\ push'[p].seen = push[p].seen
         /\ push'[p].base = push[p].base
         /\ push'[p].digest = push[p].digest
         /\ push'[p].put = push[p].put
         /\ \A q \in Push \ {p} : push'[q] = push[q]
<1> DEFINE r == [push[p] EXCEPT !.phase = "done", !.packs = {}, !.reply = reply, !.told = told]
<1>0. push[p] \in PushType
  OBVIOUS
<1>1. r \in PushType
  BY <1>0 DEF PushType
<1>2. /\ r.phase = "done" /\ r.reply = reply /\ r.named = push[p].named /\ r.new = push[p].new
      /\ r.seen = push[p].seen /\ r.base = push[p].base /\ r.digest = push[p].digest
      /\ r.put = push[p].put
  BY <1>0 DEF PushType
<1>3. Become(p, r)
  BY DEF Done
<1> HIDE DEF r
<1>4. /\ push' \in [Push -> PushType]
      /\ push'[p] = r
      /\ \A q \in Push \ {p} : push'[q] = push[q]
  BY <1>1, <1>3, BecomeFacts
<1>5. Shape(r)
  BY <1>2 DEF Shape
<1>6. QED
  BY <1>2, <1>4, <1>5

-----------------------------------------------------------------------------
(* The steps of a push, field by field.                                    *)

\* What the other pushes and the client's request are after a step.
OnlyPush(p) == push' \in [Push -> PushType] /\ \A q \in Push \ {p} : push'[q] = push[q]

SameRequest(p) ==
  /\ push'[p].named = push[p].named
  /\ push'[p].new = push[p].new
  /\ push'[p].seen = push[p].seen
  /\ push'[p].base = push[p].base

\* info_refs.
LEMMA InfoRefsFacts ==
  ASSUME Inv, NEW p \in Push, info_refs(p)
  PROVE  /\ OnlyPush(p)
         /\ Shape(push'[p])
         /\ push[p].phase = "idle" /\ push'[p].phase = "view"
         /\ push'[p].named = {} /\ push'[p].named = push[p].named
         /\ push'[p].base = push[p].base
         /\ push'[p].put = "none" /\ push[p].put = "none"
         /\ push'[p].reply = push[p].reply
         /\ UNCHANGED <<storeVars, refState>>
<1> DEFINE view == ManifestAt(pointer[RepoOf[p]]).refs
           r == [push[p] EXCEPT !.phase = "view", !.seen = view]
<1>0. push[p] \in PushType /\ push \in [Push -> PushType] /\ Shape(push[p])
  BY DEF Inv, TypeOK, GitTypeOK, Shapes
<1>1. view \in RefMap
  <2>1. pointer[RepoOf[p]] \in 0 .. Len(manifests)
    BY GitAssumption DEF Inv, TypeOK, GitTypeOK
  <2>2. QED
    BY <2>1, ManifestAtType DEF Inv, TypeOK, GitTypeOK
<1>2. Become(p, r) /\ push[p].phase = "idle" /\ UNCHANGED <<storeVars, refState>>
  BY DEF info_refs
<1> HIDE DEF view
<1>3. /\ r \in PushType
      /\ r.phase = "view" /\ r.named = push[p].named /\ r.base = push[p].base
      /\ r.put = push[p].put /\ r.reply = push[p].reply
  BY <1>0, <1>1 DEF PushType
<1> HIDE DEF r
<1>4. OnlyPush(p) /\ push'[p] = r
  BY <1>0, <1>2, <1>3, BecomeFacts DEF OnlyPush
<1>5. QED
  BY <1>0, <1>2, <1>3, <1>4 DEF Shape

\* receive_pack: the request is fixed and the workspace is hydrated; a push that
\* goes on has found the branches it names where its client had seen them.
LEMMA ReceivePackFacts ==
  ASSUME Inv, NEW p \in Push, receive_pack(p)
  PROVE  /\ OnlyPush(p)
         /\ Shape(push'[p])
         /\ push[p].phase = "view"
         /\ push'[p].named # {}
         /\ push'[p].seen = push[p].seen
         /\ push'[p].base = pointer[RepoOf[p]]
         /\ push'[p].put = "none" /\ push[p].put = "none"
         /\ \/ /\ push'[p].phase = "received"
               /\ push'[p].reply = "none"
               /\ \A b \in push'[p].named :
                    ManifestAt(push'[p].base).refs[b] = push'[p].seen[b]
            \/ push'[p].phase = "done" /\ push'[p].reply = "rejected"
         /\ UNCHANGED <<storeVars, refState>>
<1>0. /\ push[p] \in PushType
      /\ push \in [Push -> PushType]
      /\ Shape(push[p])
      /\ push[p].phase = "view"
      /\ UNCHANGED <<storeVars, refState>>
  BY DEF Inv, TypeOK, GitTypeOK, Shapes, receive_pack
<1> DEFINE seen == push[p].seen
           base == pointer[RepoOf[p]]
<1>1. base \in Nat
  BY GitAssumption DEF Inv, TypeOK, GitTypeOK
<1>2. PICK want \in Proposal :
        LET named == {b \in want.named : want.new[b] # seen[b]}
            bad == RefusedCommands(named, want.new, seen, base)
            asked == [push[p] EXCEPT !.named = named, !.new = want.new, !.base = base]
        IN /\ named # {}
           /\ \/ /\ bad = {}
                 /\ Become(p, [asked EXCEPT !.phase = "received"])
              \/ \E ng \in {named} \cup (IF bad = {} THEN {} ELSE {bad}) :
                   Become(p, [asked EXCEPT !.phase = "done", !.reply = "rejected",
                                           !.told = named \ ng])
  BY Zenon DEF receive_pack
<1> DEFINE named == {b \in want.named : want.new[b] # seen[b]}
           bad == RefusedCommands(named, want.new, seen, base)
           asked == [push[p] EXCEPT !.named = named, !.new = want.new, !.base = base]
<1>3. named \in SUBSET Branch /\ want.new \in RefMap
  BY GitAssumption
<1>4. named # {}
  BY <1>2, Zenon
<1> HIDE DEF base, named, bad
<1>5. /\ asked \in PushType
      /\ asked.named = named /\ asked.base = base /\ asked.seen = push[p].seen
      /\ asked.put = push[p].put /\ asked.reply = push[p].reply /\ asked.phase = push[p].phase
  BY <1>0, <1>1, <1>3 DEF PushType
<1>6. push[p].put = "none" /\ push[p].reply = "none"
  BY <1>0 DEF Shape
<1> HIDE DEF asked
<1>7. CASE bad = {} /\ Become(p, [asked EXCEPT !.phase = "received"])
  <2> DEFINE r == [asked EXCEPT !.phase = "received"]
  <2>1. /\ r \in PushType
        /\ r.phase = "received" /\ r.named = named /\ r.base = base /\ r.seen = push[p].seen
        /\ r.put = "none" /\ r.reply = "none"
    BY <1>5, <1>6 DEF PushType
  <2>2. Become(p, r)
    BY <1>7
  <2> HIDE DEF r
  <2>3. OnlyPush(p) /\ push'[p] = r
    BY <1>0, <2>1, <2>2, BecomeFacts DEF OnlyPush
  <2>4. \A b \in named : ManifestAt(base).refs[b] = seen[b]
    BY <1>7 DEF bad, RefusedCommands
  <2>5. QED
    BY <1>0, <1>4, <1>6, <2>1, <2>3, <2>4 DEF Shape, base
<1>8. CASE \E ng : Become(p, [asked EXCEPT !.phase = "done", !.reply = "rejected",
                                           !.told = named \ ng])
  <2>0. PICK ng : Become(p, [asked EXCEPT !.phase = "done", !.reply = "rejected",
                                          !.told = named \ ng])
    BY <1>8
  <2> DEFINE r == [asked EXCEPT !.phase = "done", !.reply = "rejected", !.told = named \ ng]
  <2>1. /\ r \in PushType
        /\ r.phase = "done" /\ r.named = named /\ r.base = base /\ r.seen = push[p].seen
        /\ r.put = "none" /\ r.reply = "rejected"
    BY <1>3, <1>5, <1>6 DEF PushType
  <2>2. Become(p, r)
    BY <2>0
  <2> HIDE DEF r
  <2>3. OnlyPush(p) /\ push'[p] = r
    BY <1>0, <2>1, <2>2, BecomeFacts DEF OnlyPush
  <2>4. QED
    BY <1>0, <1>4, <1>6, <2>1, <2>3 DEF Shape, base
<1>9. QED
  BY <1>2, <1>7, <1>8, Zenon DEF asked, bad, named, base

\* Whatever a push builds on can be cloned.
LEMMA ParentCloneable ==
  ASSUME Inv, Cloneable, NEW d \in 0 .. Len(manifests)
  PROVE  /\ ManifestAt(d).packs \subseteq packs
         /\ Closure(ManifestAt(d).refs) \subseteq UNION ManifestAt(d).packs
<1>0. manifests \in Seq(Manifest)
  BY DEF Inv, TypeOK, GitTypeOK
<1>1. CASE d = 0
  BY <1>1, FreshFacts DEF ManifestAt, Sound
<1>2. CASE d # 0
  <2>1. d \in DOMAIN manifests
    BY <1>0, <1>2
  <2>2. QED
    BY <1>2, <2>1 DEF ManifestAt, Cloneable, Sound
<1>3. QED
  BY <1>1, <1>2

\* prepare_compaction and put_pack: packs are added to the store, or the push
\* ends at the limit.  On top of a sound store the packs of the push hold
\* everything its refs need.
LEMMA PackFacts ==
  ASSUME Inv, NEW p \in Push, prepare_compaction(p) \/ put_pack(p)
  PROVE  /\ OnlyPush(p)
         /\ Shape(push'[p])
         /\ SameRequest(p)
         /\ push[p].phase = "received"
         /\ push'[p].put = "none" /\ push[p].put = "none"
         /\ packs' \subseteq SUBSET Commit
         /\ packs \subseteq packs'
         /\ UNCHANGED <<manifests, pointer, refState>>
         /\ \/ push'[p].phase = "done" /\ push'[p].reply = "limit"
            \/ /\ push'[p].phase = "packed"
               /\ push'[p].reply = "none"
               /\ Cloneable => /\ push'[p].packs \subseteq packs'
                               /\ Closure(RefsAfter(p)) \subseteq UNION push'[p].packs
<1> DEFINE parent == ManifestAt(push[p].base)
<1>0. /\ push[p] \in PushType
      /\ push \in [Push -> PushType]
      /\ Shape(push[p])
      /\ push[p].phase = "received"
      /\ push[p].base \in 0 .. Len(manifests)
      /\ packs \subseteq SUBSET Commit
      /\ UNCHANGED <<manifests, pointer, refState>>
  BY DEF Inv, TypeOK, GitTypeOK, Shapes, DigestsKnown, prepare_compaction, put_pack
<1>1. push[p].put = "none" /\ push[p].reply = "none"
  BY <1>0 DEF Shape
<1>2. parent.refs \in RefMap /\ parent.packs \subseteq SUBSET Commit
  BY <1>0, ManifestAtType DEF Inv, TypeOK, GitTypeOK
<1>3. RefsAfter(p) \in RefMap
  BY RefsAfterType DEF Inv
<1>4. ASSUME NEW ps \in SUBSET SUBSET Commit,
             Become(p, [push[p] EXCEPT !.phase = "packed", !.packs = ps])
      PROVE  /\ OnlyPush(p)
             /\ Shape(push'[p])
             /\ SameRequest(p)
             /\ push'[p].put = "none"
             /\ push'[p].phase = "packed" /\ push'[p].reply = "none" /\ push'[p].packs = ps
  <2> DEFINE r == [push[p] EXCEPT !.phase = "packed", !.packs = ps]
  <2>1. /\ r \in PushType
        /\ r.phase = "packed" /\ r.packs = ps /\ r.named = push[p].named /\ r.new = push[p].new
        /\ r.seen = push[p].seen /\ r.base = push[p].base /\ r.put = push[p].put
        /\ r.reply = push[p].reply
    BY <1>0 DEF PushType
  <2>2. Become(p, r)
    BY <1>4
  <2> HIDE DEF r
  <2>3. OnlyPush(p) /\ push'[p] = r
    BY <1>0, <2>1, <2>2, BecomeFacts DEF OnlyPush
  <2>4. QED
    BY <1>0, <1>1, <2>1, <2>3 DEF Shape, SameRequest
<1>5. CASE prepare_compaction(p)
  <2> DEFINE c == capture_compacted_packs(RefsAfter(p))
  <2>1. /\ packs' = packs \cup c
        /\ Become(p, [push[p] EXCEPT !.phase = "packed", !.packs = c])
    BY <1>5 DEF prepare_compaction
  <2>2. c \in SUBSET SUBSET Commit /\ Closure(RefsAfter(p)) \subseteq UNION c
    BY <1>3, CompactedPack
  <2> HIDE DEF c
  <2>3. QED
    BY <1>0, <1>1, <1>4, <2>1, <2>2
<1>6. CASE put_pack(p)
  <2>1. PICK new \in capture_pack(parent.refs, RefsAfter(p)) :
          IF new # {} /\ Cardinality(parent.packs) >= MAX_MANIFEST_PACKS
          THEN Done(p, "limit", {}) /\ UNCHANGED packs
          ELSE /\ packs' = packs \cup new
               /\ Become(p, [push[p] EXCEPT !.phase = "packed", !.packs = parent.packs \cup new])
    BY <1>6 DEF put_pack
  <2>2. CASE Done(p, "limit", {}) /\ UNCHANGED packs
    <3>1. /\ push' \in [Push -> PushType]
          /\ Shape(push'[p])
          /\ push'[p].phase = "done" /\ push'[p].reply = "limit"
          /\ push'[p].named = push[p].named /\ push'[p].new = push[p].new
          /\ push'[p].seen = push[p].seen
          /\ push'[p].base = push[p].base
          /\ push'[p].put = push[p].put
          /\ \A q \in Push \ {p} : push'[q] = push[q]
      BY <1>0, <1>1, <2>2, DoneFacts
    <3>2. QED
      BY <1>0, <1>1, <2>2, <3>1 DEF OnlyPush, SameRequest
  <2>3. CASE /\ packs' = packs \cup new
             /\ Become(p, [push[p] EXCEPT !.phase = "packed", !.packs = parent.packs \cup new])
    <3>1. new \in SUBSET SUBSET Commit
      <4>1. CASE Tips(RefsAfter(p)) = {}
        BY <4>1 DEF capture_pack
      <4>2. CASE Tips(RefsAfter(p)) # {}
        <5>1. Closure(RefsAfter(p)) \subseteq Commit
          BY <1>3, ClosureType
        <5>2. \/ new = {}
              \/ new = {Closure(RefsAfter(p)) \ Closure(parent.refs)}
          BY <4>2 DEF capture_pack
        <5>3. QED
          BY <5>1, <5>2
      <4>3. QED
        BY <4>1, <4>2
    <3> DEFINE ps == parent.packs \cup new
    <3>2. ps \in SUBSET SUBSET Commit
      BY <1>2, <3>1
    <3>3. ASSUME Cloneable
          PROVE  ps \subseteq packs' /\ Closure(RefsAfter(p)) \subseteq UNION ps
      <4>1. parent.packs \subseteq packs /\ Closure(parent.refs) \subseteq UNION parent.packs
        BY <1>0, <3>3, ParentCloneable
      <4> DEFINE before == parent.refs
                 held == parent.packs
                 after == RefsAfter(p)
      <4>a. /\ before \in RefMap /\ after \in RefMap /\ held \in SUBSET SUBSET Commit
            /\ Closure(before) \subseteq UNION held
            /\ new \in capture_pack(before, after)
        BY <1>2, <1>3, <2>1, <4>1
      <4> HIDE DEF before, held, after
      <4>b. Closure(after) \subseteq UNION (held \cup new)
        BY <4>a, DeltaPack
      <4>2. Closure(RefsAfter(p)) \subseteq UNION ps
        BY <4>b DEF after, held
      <4>3. QED
        BY <2>3, <4>1, <4>2
    <3>4. Become(p, [push[p] EXCEPT !.phase = "packed", !.packs = ps])
      BY <2>3
    <3> HIDE DEF ps
    <3>5. QED
      BY <1>0, <1>1, <1>4, <2>3, <3>1, <3>2, <3>3, <3>4
  <2>4. QED
    BY <2>1, <2>2, <2>3
<1>7. QED
  BY <1>5, <1>6

\* put_manifest: the manifest holds the refs of the push on top of its base, with
\* the packs of the push and a live HEAD.
LEMMA PutManifestFacts ==
  ASSUME Inv, NEW p \in Push, put_manifest(p)
  PROVE  \E m \in Manifest :
           /\ OnlyPush(p)
           /\ Shape(push'[p])
           /\ SameRequest(p)
           /\ push[p].phase = "packed" /\ push[p].put = "none"
           /\ push'[p].phase = "cas" /\ push'[p].put = "sent" /\ push'[p].reply = "none"
           /\ push'[p].digest = DigestOf(m)
           /\ manifests' = WithManifest(m)
           /\ m.parent = push[p].base
           /\ m.refs = RefsAfter(p)
           /\ m.packs = push[p].packs
           /\ LiveBranches(m.refs) # {} => m.head \in LiveBranches(m.refs)
           /\ UNCHANGED <<packs, pointer, refState>>
<1> DEFINE parent == ManifestAt(push[p].base)
<1>0. /\ push[p] \in PushType
      /\ push \in [Push -> PushType]
      /\ Shape(push[p])
      /\ push[p].phase = "packed"
      /\ push[p].base \in 0 .. Len(manifests)
      /\ manifests \in Seq(Manifest)
      /\ UNCHANGED <<packs, pointer, refState>>
  BY DEF Inv, TypeOK, GitTypeOK, Shapes, DigestsKnown, put_manifest
<1>1. parent.head \in Branch \cup {NoBranch}
  BY <1>0, ManifestAtType
<1>2. RefsAfter(p) \in RefMap
  BY RefsAfterType DEF Inv
<1>3. PICK observed \in Branch \cup {NoBranch} :
        LET h == resolve_published_head(RefsAfter(p), observed, parent.head) IN
        /\ manifests' = WithManifest(compose_after(p, h))
        /\ Become(p, [push[p] EXCEPT !.phase = "cas", !.digest = DigestOf(compose_after(p, h)),
                                     !.put = "sent"])
  BY <1>1 DEF put_manifest
<1> DEFINE h == resolve_published_head(RefsAfter(p), observed, parent.head)
           m == compose_after(p, h)
<1>4. /\ h \in Branch \cup {NoBranch}
      /\ LiveBranches(RefsAfter(p)) # {} => h \in LiveBranches(RefsAfter(p))
  BY <1>1, <1>2, HeadIsLive
<1> HIDE DEF h
<1>5. /\ m \in Manifest
      /\ m.parent = push[p].base /\ m.refs = RefsAfter(p) /\ m.packs = push[p].packs /\ m.head = h
  BY <1>0, <1>2, <1>4 DEF compose_after, Manifest, PushType
<1>6. /\ manifests' = WithManifest(m)
      /\ Become(p, [push[p] EXCEPT !.phase = "cas", !.digest = DigestOf(m), !.put = "sent"])
  BY <1>3 DEF h
<1> HIDE DEF m
<1>7. DigestOf(m) \in Nat
  BY <1>0, <1>5, StoringManifest
<1> DEFINE r == [push[p] EXCEPT !.phase = "cas", !.digest = DigestOf(m), !.put = "sent"]
<1>8. /\ r \in PushType
      /\ r.phase = "cas" /\ r.digest = DigestOf(m) /\ r.put = "sent" /\ r.reply = push[p].reply
      /\ r.named = push[p].named /\ r.new = push[p].new /\ r.seen = push[p].seen
      /\ r.base = push[p].base
  BY <1>0, <1>7 DEF PushType
<1>9. Become(p, r)
  BY <1>6
<1> HIDE DEF r
<1>10. OnlyPush(p) /\ push'[p] = r
  BY <1>0, <1>8, <1>9, BecomeFacts DEF OnlyPush
<1>11. Shape(r) /\ SameRequest(p) /\ push[p].put = "none" /\ push[p].reply = "none"
  BY <1>0, <1>8, <1>10 DEF Shape, SameRequest
<1>12. QED
  BY <1>0, <1>4, <1>5, <1>6, <1>8, <1>10, <1>11

\* put_pointer: the pointer moves from the base of the push to its digest, or
\* the push has lost.
LEMMA PutPointerFacts ==
  ASSUME Inv, NEW p \in Push, put_pointer(p)
  PROVE  /\ OnlyPush(p)
         /\ Shape(push'[p])
         /\ SameRequest(p)
         /\ push'[p].phase = push[p].phase /\ push'[p].reply = push[p].reply
         /\ push'[p].digest = push[p].digest
         /\ push[p].phase \in {"cas", "done"}
         /\ push[p].put = "sent"
         /\ \/ /\ pointer[RepoOf[p]] = push[p].base
               /\ push'[p].put = "won"
               /\ pointer' = [pointer EXCEPT ![RepoOf[p]] = push[p].digest]
            \/ /\ pointer[RepoOf[p]] # push[p].base
               /\ push'[p].put = "lost"
               /\ pointer' = pointer
         /\ UNCHANGED <<packs, manifests, refState>>
<1> DEFINE won == pointer[RepoOf[p]] = push[p].base
           w == IF won THEN "won" ELSE "lost"
           r == [push[p] EXCEPT !.put = w]
<1>0. /\ push[p] \in PushType
      /\ push \in [Push -> PushType]
      /\ Shape(push[p])
      /\ push[p].put = "sent"
      /\ UNCHANGED <<packs, manifests, refState>>
      /\ pointer \in [Repo -> 0 .. Len(manifests)]
  BY DEF Inv, TypeOK, GitTypeOK, Shapes, put_pointer
<1>1. /\ pointer' = [pointer EXCEPT ![RepoOf[p]] = IF won THEN push[p].digest ELSE @]
      /\ Become(p, r)
  BY DEF put_pointer
<1>2. \/ won /\ w = "won" /\ pointer' = [pointer EXCEPT ![RepoOf[p]] = push[p].digest]
      \/ ~won /\ w = "lost" /\ pointer' = pointer
  BY <1>0, <1>1
<1> HIDE DEF w
<1>3. /\ r \in PushType
      /\ r.named = push[p].named /\ r.new = push[p].new /\ r.seen = push[p].seen
      /\ r.base = push[p].base /\ r.phase = push[p].phase /\ r.reply = push[p].reply
      /\ r.digest = push[p].digest /\ r.put = w
  BY <1>0, <1>2 DEF PushType
<1> HIDE DEF r
<1>4. OnlyPush(p) /\ push'[p] = r
  BY <1>0, <1>1, <1>3, BecomeFacts DEF OnlyPush
<1>5. push[p].phase \in {"cas", "done"}
  BY <1>0 DEF Shape, PushType
<1>6. Shape(r)
  BY <1>0, <1>2, <1>3, <1>5 DEF Shape
<1>7. QED
  BY <1>0, <1>2, <1>3, <1>4, <1>5, <1>6 DEF SameRequest

\* lost_race, finalize_push and fail_push: the push is answered, its PUT is
\* what it was.
LEMMA AnswerFacts ==
  ASSUME Inv, NEW p \in Push, lost_race(p) \/ finalize_push(p) \/ fail_push(p)
  PROVE  /\ OnlyPush(p)
         /\ Shape(push'[p])
         /\ SameRequest(p)
         /\ push[p].phase \in {"received", "packed", "cas"} /\ push'[p].phase = "done"
         /\ push[p].reply = "none" /\ push'[p].reply \in {"ok", "conflict", "error"}
         /\ push'[p].digest = push[p].digest /\ push'[p].put = push[p].put
         /\ UNCHANGED storeVars
         /\ \/ refState' = refState
            \/ /\ push[p].put = "won"
               /\ refState' = refState \cup {<<RepoOf[p], push[p].digest>>}
<1>0. /\ push[p] \in PushType
      /\ push \in [Push -> PushType]
      /\ Shape(push[p])
      /\ push[p].phase \in {"received", "packed", "cas"}
      /\ UNCHANGED storeVars
      /\ \/ refState' = refState
         \/ push[p].put = "won" /\ refState' = refState \cup {<<RepoOf[p], push[p].digest>>}
  BY DEF Inv, TypeOK, GitTypeOK, Shapes, lost_race, finalize_push, fail_push
<1>1. push[p].reply = "none" /\ push[p].named \in SUBSET Branch
  BY <1>0 DEF Shape, PushType
<1>2. \E reply \in {"ok", "conflict", "error"}, told \in SUBSET Branch :
        /\ Done(p, reply, told)
        /\ reply = "ok" => push[p].put = "won"
        /\ reply = "conflict" => push[p].put = "lost"
  BY <1>1 DEF lost_race, finalize_push, fail_push
<1>3. PICK reply \in {"ok", "conflict", "error"}, told \in SUBSET Branch :
        /\ Done(p, reply, told)
        /\ reply = "ok" => push[p].put = "won"
        /\ reply = "conflict" => push[p].put = "lost"
  BY <1>2
<1>4. /\ push' \in [Push -> PushType]
      /\ Shape(push'[p])
      /\ push'[p].phase = "done" /\ push'[p].reply = reply
      /\ push'[p].named = push[p].named /\ push'[p].new = push[p].new
      /\ push'[p].seen = push[p].seen
      /\ push'[p].base = push[p].base
      /\ push'[p].digest = push[p].digest
      /\ push'[p].put = push[p].put
      /\ \A q \in Push \ {p} : push'[q] = push[q]
  BY <1>0, <1>3, DoneFacts
<1>5. QED
  BY <1>0, <1>1, <1>3, <1>4 DEF OnlyPush, SameRequest

-----------------------------------------------------------------------------
(* The steps of an announcement.                                           *)

\* What the other announcements are after a step.
OnlyAnnounce(a) ==
  /\ announce' \in [Announcement -> AnnounceType]
  /\ \A b \in Announcement \ {a} : announce'[b] = announce[b]

Phases == {"idle", "count", "reserve", "classify", "owned", "ensure", "seed", "put", "seeded",
           "rollback", "done"}

\* The record of an announcement after one of its steps.
LEMMA ToFacts ==
  ASSUME announce \in [Announcement -> AnnounceType], NEW a \in Announcement,
         NEW r \in AnnounceType, To(a, r)
  PROVE  OnlyAnnounce(a) /\ announce'[a] = r
  BY DEF To, OnlyAnnounce

\* An announcement that goes on to another phase.
LEMMA PhaseFacts ==
  ASSUME announce \in [Announcement -> AnnounceType], NEW a \in Announcement,
         NEW ph \in Phases, Phase(a, ph)
  PROVE  /\ OnlyAnnounce(a)
         /\ announce'[a].phase = ph
         /\ announce'[a].fresh = announce[a].fresh
         /\ announce'[a].put = announce[a].put
         /\ announce'[a].result = announce[a].result
<1> DEFINE r == [announce[a] EXCEPT !.phase = ph]
<1>0. announce[a] \in AnnounceType
  OBVIOUS
<1>1. /\ r \in AnnounceType
      /\ r.phase = ph /\ r.fresh = announce[a].fresh /\ r.put = announce[a].put
      /\ r.result = announce[a].result
  BY <1>0 DEF AnnounceType, Phases
<1>2. To(a, r)
  BY DEF Phase
<1> HIDE DEF r
<1>3. QED
  BY <1>1, <1>2, ToFacts

\* The end of an announcement.
LEMMA EndFacts ==
  ASSUME announce \in [Announcement -> AnnounceType], NEW a \in Announcement,
         NEW res \in {"ok", "error"}, End(a, res)
  PROVE  /\ OnlyAnnounce(a)
         /\ announce'[a].phase = "done"
         /\ announce'[a].fresh = announce[a].fresh
         /\ announce'[a].put = announce[a].put
         /\ announce'[a].result = res
<1> DEFINE r == [announce[a] EXCEPT !.phase = "done", !.result = res]
<1>0. announce[a] \in AnnounceType
  OBVIOUS
<1>1. /\ r \in AnnounceType
      /\ r.phase = "done" /\ r.fresh = announce[a].fresh /\ r.put = announce[a].put
      /\ r.result = res
  BY <1>0 DEF AnnounceType
<1>2. To(a, r)
  BY DEF End
<1> HIDE DEF r
<1>3. QED
  BY <1>1, <1>2, ToFacts

\* A step that changes neither the store nor the names, with what it has seen.
WalkTo(a) ==
  \/ announce'[a].phase = "done" /\ announce'[a].result = "error"
  \/ /\ announce'[a].result = announce[a].result
     /\ announce'[a].phase \in Unsent => announce[a].phase \in Unsent
     /\ \/ announce'[a].phase \in {"count", "reserve", "classify", "rollback"}
        \/ announce'[a].phase = "owned" /\ nameRow[NameOf[a]] = OwnerOf[a]
        \/ announce[a].phase = "owned" /\ announce'[a].phase = "seed" /\ announce[a].fresh
        \/ announce[a].phase = "owned" /\ announce'[a].phase = "ensure" /\ ~announce[a].fresh
        \/ announce[a].phase = "ensure" /\ announce'[a].phase = "seed"
        \/ /\ announce[a].phase = "ensure" /\ announce'[a].phase = "seeded"
           /\ pointer[Target(a)] # 0
        \/ /\ announce[a].phase = "put" /\ announce'[a].phase = "seeded"
           /\ announce[a].put # "none"
           /\ announce[a].put = "won" \/ pointer[Target(a)] = DigestOf(EmptyManifest)

Walk(a) ==
  \/ repo_name_owner(a)
  \/ count_repos_for_owner(a)
  \/ classify_holder(a)
  \/ acquire_serving_write(a)
  \/ ensure_manifest_pointer(a)
  \/ seed_answer(a)
  \/ seed_fails(a)

\* The steps that only look.
LEMMA WalkFacts ==
  ASSUME TypeOK, NEW a \in Announcement, Walk(a)
  PROVE  /\ OnlyAnnounce(a)
         /\ announce'[a].fresh = announce[a].fresh
         /\ announce'[a].put = announce[a].put
         /\ WalkTo(a)
         /\ UNCHANGED <<gitVars, nameRow>>
<1>0. announce \in [Announcement -> AnnounceType] /\ announce[a] \in AnnounceType
  BY DEF TypeOK
<1>1. UNCHANGED <<gitVars, nameRow>>
  BY DEF Walk, repo_name_owner, count_repos_for_owner, classify_holder, acquire_serving_write,
         ensure_manifest_pointer, seed_answer, seed_fails
<1>2. CASE End(a, "error")
  BY <1>0, <1>1, <1>2, EndFacts DEF WalkTo
<1>3. ASSUME NEW ph \in Phases, Phase(a, ph),
             ph \in Unsent => announce[a].phase \in Unsent,
             \/ ph \in {"count", "reserve", "classify", "rollback"}
             \/ ph = "owned" /\ nameRow[NameOf[a]] = OwnerOf[a]
             \/ announce[a].phase = "owned" /\ ph = "seed" /\ announce[a].fresh
             \/ announce[a].phase = "owned" /\ ph = "ensure" /\ ~announce[a].fresh
             \/ announce[a].phase = "ensure" /\ ph = "seed"
             \/ announce[a].phase = "ensure" /\ ph = "seeded" /\ pointer[Target(a)] # 0
             \/ /\ announce[a].phase = "put" /\ ph = "seeded"
                /\ announce[a].put # "none"
                /\ announce[a].put = "won" \/ pointer[Target(a)] = DigestOf(EmptyManifest)
      PROVE  /\ OnlyAnnounce(a)
             /\ announce'[a].fresh = announce[a].fresh
             /\ announce'[a].put = announce[a].put
             /\ WalkTo(a)
  <2>1. /\ OnlyAnnounce(a)
        /\ announce'[a].phase = ph
        /\ announce'[a].fresh = announce[a].fresh
        /\ announce'[a].put = announce[a].put
        /\ announce'[a].result = announce[a].result
    BY <1>0, <1>3, PhaseFacts
  <2>2. WalkTo(a)
    BY <1>3, <2>1 DEF WalkTo
  <2>3. QED
    BY <2>1, <2>2
<1>4. CASE repo_name_owner(a)
  <2>1. /\ announce[a].phase = "idle"
        /\ \/ Phase(a, "count")
           \/ nameRow[NameOf[a]] = OwnerOf[a] /\ Phase(a, "owned")
           \/ End(a, "error")
    BY <1>4 DEF repo_name_owner
  <2>2. QED
    BY <1>1, <1>2, <1>3, <2>1 DEF Phases, Unsent
<1>5. CASE count_repos_for_owner(a)
  BY <1>1, <1>2, <1>3, <1>5 DEF count_repos_for_owner, Phases, Unsent
<1>6. CASE classify_holder(a)
  BY <1>1, <1>2, <1>3, <1>6 DEF classify_holder, Phases, Unsent
<1>7. CASE acquire_serving_write(a)
  <2>0. announce[a].fresh \in BOOLEAN
    BY <1>0 DEF AnnounceType
  <2>1. /\ announce[a].phase = "owned"
        /\ \/ announce[a].fresh /\ Phase(a, "seed")
           \/ ~announce[a].fresh /\ Phase(a, "ensure")
           \/ End(a, "error")
    BY <1>7, <2>0 DEF acquire_serving_write
  <2>2. QED
    BY <1>1, <1>2, <1>3, <2>1 DEF Phases, Unsent
<1>8. CASE ensure_manifest_pointer(a)
  <2>1. /\ announce[a].phase = "ensure"
        /\ \/ pointer[Target(a)] # 0 /\ Phase(a, "seeded")
           \/ Phase(a, "seed")
    BY <1>8 DEF ensure_manifest_pointer
  <2>2. QED
    BY <1>1, <1>3, <2>1 DEF Phases, Unsent
<1>9. CASE seed_answer(a)
  <2>1. /\ announce[a].phase = "put"
        /\ announce[a].put # "none"
        /\ \/ /\ announce[a].put = "won" \/ pointer[Target(a)] = DigestOf(EmptyManifest)
              /\ Phase(a, "seeded")
           \/ Phase(a, "rollback")
    BY <1>9 DEF seed_answer
  <2>2. QED
    BY <1>1, <1>3, <2>1 DEF Phases, Unsent
<1>10. CASE seed_fails(a)
  BY <1>1, <1>3, <1>10 DEF seed_fails, Phases, Unsent
<1>11. QED
  BY <1>4, <1>5, <1>6, <1>7, <1>8, <1>9, <1>10 DEF Walk

\* reserve_repo_name: the row is inserted where there was none.
LEMMA ReserveFacts ==
  ASSUME TypeOK, NEW a \in Announcement, reserve_repo_name(a)
  PROVE  /\ OnlyAnnounce(a)
         /\ announce[a].phase = "reserve"
         /\ announce'[a].put = announce[a].put
         /\ announce'[a].result = announce[a].result
         /\ UNCHANGED gitVars
         /\ \/ /\ announce'[a].phase = "owned"
               /\ nameRow[NameOf[a]] = NoOwner
               /\ nameRow' = [nameRow EXCEPT ![NameOf[a]] = OwnerOf[a]]
            \/ announce'[a].phase = "classify" /\ nameRow' = nameRow
<1>0. /\ announce \in [Announcement -> AnnounceType]
      /\ announce[a] \in AnnounceType
      /\ announce[a].phase = "reserve"
  BY DEF TypeOK, reserve_repo_name
<1>1. CASE nameRow[NameOf[a]] = NoOwner
  <2> DEFINE r == [announce[a] EXCEPT !.phase = "owned", !.fresh = TRUE]
  <2>1. /\ r \in AnnounceType
        /\ r.phase = "owned" /\ r.put = announce[a].put /\ r.result = announce[a].result
    BY <1>0 DEF AnnounceType
  <2>2. To(a, r) /\ nameRow' = [nameRow EXCEPT ![NameOf[a]] = OwnerOf[a]] /\ UNCHANGED gitVars
    BY <1>1 DEF reserve_repo_name
  <2> HIDE DEF r
  <2>3. OnlyAnnounce(a) /\ announce'[a] = r
    BY <1>0, <2>1, <2>2, ToFacts
  <2>4. QED
    BY <1>0, <1>1, <2>1, <2>2, <2>3
<1>2. CASE nameRow[NameOf[a]] # NoOwner
  <2>1. Phase(a, "classify") /\ UNCHANGED nameRow /\ UNCHANGED gitVars
    BY <1>2 DEF reserve_repo_name
  <2>2. QED
    BY <1>0, <2>1, PhaseFacts DEF Phases
<1>3. QED
  BY <1>1, <1>2

\* seed_manifest_pointer: the empty manifest is stored, the PUT leaves.
LEMMA SeedFacts ==
  ASSUME TypeOK, NEW a \in Announcement, seed_manifest_pointer(a)
  PROVE  /\ OnlyAnnounce(a)
         /\ announce[a].phase = "seed"
         /\ announce'[a].phase = "put"
         /\ announce'[a].fresh = announce[a].fresh
         /\ announce'[a].put = "sent"
         /\ announce'[a].result = announce[a].result
         /\ manifests' = WithManifest(EmptyManifest)
         /\ UNCHANGED <<packs, pointer, refState, push, nameRow>>
<1>0. announce \in [Announcement -> AnnounceType] /\ announce[a] \in AnnounceType
  BY DEF TypeOK
<1> DEFINE r == [announce[a] EXCEPT !.phase = "put", !.put = "sent"]
<1>1. /\ r \in AnnounceType
      /\ r.phase = "put" /\ r.fresh = announce[a].fresh /\ r.put = "sent"
      /\ r.result = announce[a].result
  BY <1>0 DEF AnnounceType
<1>2. To(a, r) /\ announce[a].phase = "seed" /\ manifests' = WithManifest(EmptyManifest)
      /\ UNCHANGED <<packs, pointer, refState, push, nameRow>>
  BY DEF seed_manifest_pointer
<1> HIDE DEF r
<1>3. OnlyAnnounce(a) /\ announce'[a] = r
  BY <1>0, <1>1, <1>2, ToFacts
<1>4. QED
  BY <1>1, <1>2, <1>3

\* StoreSeed: the pointer is created, never moved.
LEMMA StoreSeedFacts ==
  ASSUME TypeOK, NEW a \in Announcement, StoreSeed(a)
  PROVE  /\ OnlyAnnounce(a)
         /\ announce'[a].phase = announce[a].phase
         /\ announce'[a].fresh = announce[a].fresh
         /\ announce'[a].result = announce[a].result
         /\ announce[a].put = "sent"
         /\ \/ /\ pointer[Target(a)] = 0
               /\ announce'[a].put = "won"
               /\ pointer' = [pointer EXCEPT ![Target(a)] = DigestOf(EmptyManifest)]
            \/ announce'[a].put = "lost" /\ pointer' = pointer /\ pointer[Target(a)] # 0
         /\ UNCHANGED <<packs, manifests, refState, push, nameRow>>
<1>0. /\ announce \in [Announcement -> AnnounceType]
      /\ announce[a] \in AnnounceType
      /\ pointer \in [Repo -> 0 .. Len(manifests)]
  BY DEF TypeOK, GitTypeOK
<1> DEFINE won == pointer[Target(a)] = 0
           w == IF won THEN "won" ELSE "lost"
           r == [announce[a] EXCEPT !.put = w]
<1>1. /\ To(a, r)
      /\ announce[a].put = "sent"
      /\ pointer' = [pointer EXCEPT ![Target(a)] = IF won THEN DigestOf(EmptyManifest) ELSE @]
      /\ UNCHANGED <<packs, manifests, refState, push, nameRow>>
  BY DEF StoreSeed
<1>2. \/ won /\ w = "won" /\ pointer' = [pointer EXCEPT ![Target(a)] = DigestOf(EmptyManifest)]
      \/ ~won /\ w = "lost" /\ pointer' = pointer
  BY <1>0, <1>1
<1> HIDE DEF w
<1>3. /\ r \in AnnounceType
      /\ r.phase = announce[a].phase /\ r.fresh = announce[a].fresh /\ r.put = w
      /\ r.result = announce[a].result
  BY <1>0, <1>2 DEF AnnounceType
<1> HIDE DEF r
<1>4. OnlyAnnounce(a) /\ announce'[a] = r
  BY <1>0, <1>1, <1>3, ToFacts
<1>5. QED
  BY <1>1, <1>2, <1>3, <1>4

\* release_repo_name: the roll-back takes back its own row only.
LEMMA ReleaseFacts ==
  ASSUME TypeOK, NEW a \in Announcement, release_repo_name(a)
  PROVE  /\ OnlyAnnounce(a)
         /\ announce'[a].phase = "done"
         /\ announce'[a].put = announce[a].put
         /\ announce'[a].result = "error"
         /\ UNCHANGED gitVars
         /\ \/ nameRow' = nameRow
            \/ /\ nameRow[NameOf[a]] = OwnerOf[a]
               /\ nameRow' = [nameRow EXCEPT ![NameOf[a]] = NoOwner]
  BY EndFacts DEF TypeOK, release_repo_name

\* emit_initial_ref_state: the announcement succeeds or fails after the fact.
LEMMA EmitFacts ==
  ASSUME TypeOK, NEW a \in Announcement, emit_initial_ref_state(a)
  PROVE  /\ OnlyAnnounce(a)
         /\ announce[a].phase = "seeded"
         /\ announce'[a].phase = "done"
         /\ announce'[a].put = announce[a].put
         /\ \/ refState' = refState
            \/ /\ announce[a].fresh
               /\ refState' = refState \cup {<<Target(a), DigestOf(EmptyManifest)>>}
         /\ UNCHANGED <<storeVars, push, nameRow>>
  BY EndFacts DEF TypeOK, emit_initial_ref_state

-----------------------------------------------------------------------------
(* Types and shapes are kept.                                              *)

\* The types of the store after a step.
StoreTypes ==
  /\ packs' \subseteq SUBSET Commit
  /\ manifests' \in Seq(Manifest)
  /\ pointer' \in [Repo -> 0 .. Len(manifests')]
  /\ refState' \subseteq Repo \X (1 .. Len(manifests'))

\* A store that only got more.
LEMMA TypesGrow ==
  ASSUME TypeOK, StoreGrows, manifests' \in Seq(Manifest), packs' \subseteq SUBSET Commit,
         pointer' = pointer, refState' = refState
  PROVE  StoreTypes
<1>1. /\ \A d \in 0 .. Len(manifests) : d \in 0 .. Len(manifests')
      /\ \A d \in 1 .. Len(manifests) : d \in 1 .. Len(manifests')
  BY StoreStays DEF TypeOK, GitTypeOK
<1>2. pointer' \in [Repo -> 0 .. Len(manifests')]
  BY <1>1 DEF TypeOK, GitTypeOK
<1>3. refState' \subseteq Repo \X (1 .. Len(manifests'))
  BY <1>1 DEF TypeOK, GitTypeOK
<1>4. QED
  BY <1>2, <1>3 DEF StoreTypes

\* A step of a push keeps the invariant when it keeps it for that push.
LEMMA PushKeepsInv ==
  ASSUME Inv, NEW p \in Push, OnlyPush(p), Shape(push'[p]), StoreGrows, StoreTypes,
         push'[p].base \in 0 .. Len(manifests'),
         push'[p].put # "none" => push'[p].digest \in 1 .. Len(manifests'),
         UNCHANGED <<nameRow, announce>>
  PROVE  Inv'
<1>0. /\ manifests \in Seq(Manifest) /\ manifests' \in Seq(Manifest)
      /\ Shapes /\ DigestsKnown /\ SeedsStored
  BY DEF Inv, TypeOK, GitTypeOK, StoreTypes
<1>1. /\ \A d \in 0 .. Len(manifests) : d \in 0 .. Len(manifests')
      /\ \A d \in 1 .. Len(manifests) : d \in 1 .. Len(manifests')
      /\ Stored(EmptyManifest) => Stored(EmptyManifest)'
  BY <1>0, StoreStays
<1>2. TypeOK'
  BY DEF Inv, TypeOK, GitTypeOK, StoreTypes, OnlyPush
<1>3. Shapes'
  BY <1>0 DEF Shapes, OnlyPush
<1>4. DigestsKnown'
  BY <1>0, <1>1 DEF DigestsKnown, OnlyPush
<1>5. SeedsStored'
  BY <1>0, <1>1, EmptyManifest' = EmptyManifest DEF SeedsStored
<1>6. QED
  BY <1>2, <1>3, <1>4, <1>5 DEF Inv

\* A step of an announcement keeps the invariant when it keeps it for that one.
LEMMA AnnounceKeepsInv ==
  ASSUME Inv, NEW a \in Announcement, OnlyAnnounce(a), SeedShape(announce'[a]), StoreGrows,
         StoreTypes, announce'[a].put # "none" => Stored(EmptyManifest)',
         nameRow' \in [Name -> Owner \cup {NoOwner}], push' = push
  PROVE  Inv'
<1>0. /\ manifests \in Seq(Manifest) /\ manifests' \in Seq(Manifest)
      /\ Shapes /\ DigestsKnown /\ SeedsStored
  BY DEF Inv, TypeOK, GitTypeOK, StoreTypes
<1>1. /\ \A d \in 0 .. Len(manifests) : d \in 0 .. Len(manifests')
      /\ \A d \in 1 .. Len(manifests) : d \in 1 .. Len(manifests')
      /\ Stored(EmptyManifest) => Stored(EmptyManifest)'
  BY <1>0, StoreStays
<1>2. TypeOK'
  BY DEF Inv, TypeOK, GitTypeOK, StoreTypes, OnlyAnnounce
<1>3. Shapes'
  BY <1>0 DEF Shapes
<1>4. DigestsKnown'
  BY <1>0, <1>1 DEF DigestsKnown
<1>5. SeedsStored'
  BY <1>0, <1>1, EmptyManifest' = EmptyManifest DEF SeedsStored, OnlyAnnounce
<1>6. QED
  BY <1>2, <1>3, <1>4, <1>5 DEF Inv

\* A store that is left alone.
LEMMA StoreAlone ==
  ASSUME TypeOK, UNCHANGED storeVars
  PROVE  StoreGrows
  BY DEF StoreGrows, storeVars, TypeOK, GitTypeOK

\* The manifests after one was stored.
LEMMA StoreWith ==
  ASSUME TypeOK, NEW m \in Manifest, manifests' = WithManifest(m), packs' = packs
  PROVE  /\ StoreGrows
         /\ manifests' \in Seq(Manifest)
         /\ DigestOf(m) \in 1 .. Len(manifests')
         /\ manifests'[DigestOf(m)] = m
         /\ \A d \in 1 .. Len(manifests') : d \in 1 .. Len(manifests) \/ manifests'[d] = m
         /\ m = EmptyManifest => Stored(EmptyManifest)'
<1>1. /\ WithManifest(m) \in Seq(Manifest)
      /\ Len(manifests) <= Len(WithManifest(m))
      /\ \A d \in 1 .. Len(manifests) : WithManifest(m)[d] = manifests[d]
      /\ DigestOf(m) \in 1 .. Len(WithManifest(m))
      /\ WithManifest(m)[DigestOf(m)] = m
      /\ \A d \in 1 .. Len(WithManifest(m)) :
           d \in 1 .. Len(manifests) \/ (d = Len(manifests) + 1 /\ WithManifest(m)[d] = m)
  BY StoringManifest DEF TypeOK, GitTypeOK
<1> DEFINE dg == DigestOf(m)
<1> HIDE DEF dg
<1>2. DOMAIN manifests' = 1 .. Len(manifests') /\ EmptyManifest' = EmptyManifest
  BY <1>1
<1>3. m = EmptyManifest => Stored(EmptyManifest)'
  BY <1>1, <1>2, Zenon DEF Stored
<1>4. QED
  BY <1>1, <1>3 DEF StoreGrows

\* Every step of a push keeps types and shapes.
LEMMA PushStepInv ==
  ASSUME Inv, NEW p \in Push, PushStep(p), UNCHANGED <<nameRow, announce>>
  PROVE  Inv' /\ StoreGrows
<1>0. /\ TypeOK
      /\ RepoOf[p] \in Repo
      /\ pointer \in [Repo -> 0 .. Len(manifests)]
      /\ manifests \in Seq(Manifest)
      /\ packs \subseteq SUBSET Commit
      /\ push[p].base \in 0 .. Len(manifests)
      /\ push[p].put # "none" => push[p].digest \in 1 .. Len(manifests)
      /\ refState \subseteq Repo \X (1 .. Len(manifests))
  BY GitAssumption DEF Inv, TypeOK, GitTypeOK, DigestsKnown
<1>1. CASE info_refs(p)
  <2>1. /\ OnlyPush(p) /\ Shape(push'[p]) /\ push'[p].base = push[p].base
        /\ push'[p].put = "none" /\ UNCHANGED <<storeVars, refState>>
    BY <1>1, InfoRefsFacts
  <2>2. StoreGrows /\ StoreTypes
    BY <1>0, <2>1, StoreAlone, TypesGrow DEF storeVars
  <2>3. QED
    BY <1>0, <2>1, <2>2, PushKeepsInv DEF storeVars
<1>2. CASE receive_pack(p)
  <2>1. /\ OnlyPush(p) /\ Shape(push'[p]) /\ push'[p].base = pointer[RepoOf[p]]
        /\ push'[p].put = "none" /\ UNCHANGED <<storeVars, refState>>
    BY <1>2, ReceivePackFacts
  <2>2. StoreGrows /\ StoreTypes
    BY <1>0, <2>1, StoreAlone, TypesGrow DEF storeVars
  <2>3. QED
    BY <1>0, <2>1, <2>2, PushKeepsInv DEF storeVars
<1>3. CASE prepare_compaction(p) \/ put_pack(p)
  <2>1. /\ OnlyPush(p) /\ Shape(push'[p]) /\ SameRequest(p) /\ push'[p].put = "none"
        /\ packs' \subseteq SUBSET Commit /\ packs \subseteq packs'
        /\ UNCHANGED <<manifests, pointer, refState>>
    BY <1>3, PackFacts
  <2>2. StoreGrows
    BY <1>0, <2>1 DEF StoreGrows
  <2>3. StoreTypes
    BY <1>0, <2>1, <2>2, TypesGrow
  <2>4. QED
    BY <1>0, <2>1, <2>2, <2>3, PushKeepsInv DEF SameRequest
<1>4. CASE put_manifest(p)
  <2>1. PICK m \in Manifest :
          /\ OnlyPush(p) /\ Shape(push'[p]) /\ SameRequest(p)
          /\ push'[p].digest = DigestOf(m)
          /\ manifests' = WithManifest(m)
          /\ UNCHANGED <<packs, pointer, refState>>
    BY <1>4, PutManifestFacts
  <2>2. /\ StoreGrows
        /\ manifests' \in Seq(Manifest)
        /\ push'[p].digest \in 1 .. Len(manifests')
    BY <1>0, <2>1, StoreWith
  <2>3. StoreTypes
    BY <1>0, <2>1, <2>2, TypesGrow
  <2>4. push'[p].base \in 0 .. Len(manifests')
    BY <1>0, <2>1, <2>2, StoreStays DEF SameRequest
  <2>5. QED
    BY <2>1, <2>2, <2>3, <2>4, PushKeepsInv
<1>5. CASE put_pointer(p)
  <2>1. /\ OnlyPush(p) /\ Shape(push'[p]) /\ SameRequest(p)
        /\ push'[p].digest = push[p].digest /\ push[p].put = "sent"
        /\ \/ pointer' = [pointer EXCEPT ![RepoOf[p]] = push[p].digest]
           \/ pointer' = pointer
        /\ UNCHANGED <<packs, manifests, refState>>
    BY <1>5, PutPointerFacts
  <2>2. push[p].digest \in 0 .. Len(manifests) /\ push[p].digest \in 1 .. Len(manifests)
    BY <1>0, <2>1
  <2>3. pointer' \in [Repo -> 0 .. Len(manifests)]
    BY <1>0, <2>1, <2>2
  <2>4. StoreGrows /\ StoreTypes
    BY <1>0, <2>1, <2>3 DEF StoreGrows, StoreTypes
  <2>5. QED
    BY <1>0, <2>1, <2>2, <2>4, PushKeepsInv DEF SameRequest
<1>6. CASE lost_race(p) \/ finalize_push(p) \/ fail_push(p)
  <2>1. /\ OnlyPush(p) /\ Shape(push'[p]) /\ SameRequest(p)
        /\ push'[p].digest = push[p].digest /\ push'[p].put = push[p].put
        /\ UNCHANGED storeVars
        /\ \/ refState' = refState
           \/ /\ push[p].put = "won"
              /\ refState' = refState \cup {<<RepoOf[p], push[p].digest>>}
    BY <1>6, AnswerFacts
  <2>2. refState' \subseteq Repo \X (1 .. Len(manifests))
    BY <1>0, <2>1
  <2>3. StoreGrows
    BY <1>0, <2>1, StoreAlone
  <2>4. StoreTypes
    BY <1>0, <2>1, <2>2 DEF StoreTypes, storeVars
  <2>5. QED
    BY <1>0, <2>1, <2>3, <2>4, PushKeepsInv DEF SameRequest, storeVars
<1>7. QED
  BY <1>1, <1>2, <1>3, <1>4, <1>5, <1>6 DEF PushStep

\* Every step of an announcement keeps types and shapes.
LEMMA AnnounceStepInv ==
  ASSUME Inv, NEW a \in Announcement, AnnounceStep(a)
  PROVE  Inv' /\ StoreGrows /\ push' = push
<1>0. /\ TypeOK
      /\ Target(a) \in Repo /\ NameOf[a] \in Name /\ OwnerOf[a] \in Owner
      /\ pointer \in [Repo -> 0 .. Len(manifests)]
      /\ manifests \in Seq(Manifest)
      /\ packs \subseteq SUBSET Commit
      /\ refState \subseteq Repo \X (1 .. Len(manifests))
      /\ nameRow \in [Name -> Owner \cup {NoOwner}]
      /\ SeedShape(announce[a])
      /\ announce[a].put # "none" => Stored(EmptyManifest)
      /\ EmptyManifest \in Manifest /\ EmptyManifest' = EmptyManifest
  BY RegistryAssumption, FreshFacts DEF Inv, TypeOK, GitTypeOK, SeedsStored, Target
<1>1. CASE /\ Walk(a) \/ reserve_repo_name(a) \/ release_repo_name(a) \/ emit_initial_ref_state(a)
           /\ UNCHANGED storeVars
  <2>1. Stored(EmptyManifest) => Stored(EmptyManifest)'
    BY <1>0, <1>1 DEF Stored, storeVars
  <2>2. StoreGrows
    BY <1>0, <1>1, StoreAlone
  <2>3. refState' = refState => StoreTypes
    BY <1>0, <1>1 DEF StoreTypes, storeVars
  <2>4. CASE Walk(a)
    <3>1. /\ OnlyAnnounce(a)
          /\ announce'[a].fresh = announce[a].fresh
          /\ announce'[a].put = announce[a].put
          /\ WalkTo(a)
          /\ UNCHANGED <<gitVars, nameRow>>
      BY <1>0, <2>4, WalkFacts
    <3>2. SeedShape(announce'[a])
      BY <1>0, <3>1 DEF WalkTo, SeedShape, Unsent
    <3>3. refState' = refState /\ push' = push /\ nameRow' = nameRow
      BY <3>1 DEF gitVars
    <3>4. QED
      BY <1>0, <2>1, <2>2, <2>3, <3>1, <3>2, <3>3, AnnounceKeepsInv
  <2>5. CASE reserve_repo_name(a)
    <3>1. /\ OnlyAnnounce(a)
          /\ announce'[a].put = announce[a].put
          /\ UNCHANGED gitVars
          /\ announce[a].phase = "reserve"
          /\ announce'[a].phase \in {"owned", "classify"}
          /\ \/ nameRow' = [nameRow EXCEPT ![NameOf[a]] = OwnerOf[a]]
             \/ nameRow' = nameRow
      BY <1>0, <2>5, ReserveFacts
    <3>2. SeedShape(announce'[a])
      BY <1>0, <3>1 DEF SeedShape, Unsent
    <3>3. refState' = refState /\ push' = push /\ nameRow' \in [Name -> Owner \cup {NoOwner}]
      BY <1>0, <3>1 DEF gitVars
    <3>4. QED
      BY <1>0, <2>1, <2>2, <2>3, <3>1, <3>2, <3>3, AnnounceKeepsInv
  <2>6. CASE release_repo_name(a)
    <3>1. /\ OnlyAnnounce(a)
          /\ announce'[a].put = announce[a].put
          /\ UNCHANGED gitVars
          /\ announce'[a].phase = "done"
          /\ \/ nameRow' = [nameRow EXCEPT ![NameOf[a]] = NoOwner]
             \/ nameRow' = nameRow
      BY <1>0, <2>6, ReleaseFacts
    <3>2. SeedShape(announce'[a])
      BY <1>0, <3>1 DEF SeedShape, Unsent
    <3>3. refState' = refState /\ push' = push /\ nameRow' \in [Name -> Owner \cup {NoOwner}]
      BY <1>0, <3>1 DEF gitVars
    <3>4. QED
      BY <1>0, <2>1, <2>2, <2>3, <3>1, <3>2, <3>3, AnnounceKeepsInv
  <2>7. CASE emit_initial_ref_state(a)
    <3>1. /\ OnlyAnnounce(a)
          /\ announce[a].phase = "seeded"
          /\ announce'[a].phase = "done"
          /\ announce'[a].put = announce[a].put
          /\ \/ refState' = refState
             \/ /\ announce[a].fresh
                /\ refState' = refState \cup {<<Target(a), DigestOf(EmptyManifest)>>}
          /\ UNCHANGED <<storeVars, push, nameRow>>
      BY <1>0, <2>7, EmitFacts
    <3>2. SeedShape(announce'[a])
      BY <1>0, <3>1 DEF SeedShape, Unsent
    <3>3. announce[a].fresh => DigestOf(EmptyManifest) \in 1 .. Len(manifests)
      BY <1>0, <3>1, DigestOfStored DEF SeedShape
    <3>4. refState' \subseteq Repo \X (1 .. Len(manifests))
      BY <1>0, <3>1, <3>3
    <3>5. StoreTypes
      BY <1>0, <1>1, <3>4 DEF StoreTypes, storeVars
    <3>6. QED
      BY <1>0, <2>1, <2>2, <3>1, <3>2, <3>5, AnnounceKeepsInv
  <2>8. QED
    BY <1>1, <2>4, <2>5, <2>6, <2>7
<1>2. CASE seed_manifest_pointer(a)
  <2>1. /\ OnlyAnnounce(a) /\ announce'[a].phase = "put" /\ announce'[a].put = "sent"
        /\ manifests' = WithManifest(EmptyManifest)
        /\ UNCHANGED <<packs, pointer, refState, push, nameRow>>
    BY <1>0, <1>2, SeedFacts
  <2>2. StoreGrows /\ manifests' \in Seq(Manifest) /\ Stored(EmptyManifest)'
    BY <1>0, <2>1, StoreWith
  <2>3. StoreTypes
    BY <1>0, <2>1, <2>2, TypesGrow
  <2>4. SeedShape(announce'[a])
    BY <2>1 DEF SeedShape, Unsent
  <2>5. QED
    BY <1>0, <2>1, <2>2, <2>3, <2>4, AnnounceKeepsInv
<1>3. CASE StoreSeed(a)
  <2>1. /\ OnlyAnnounce(a) /\ announce'[a].phase = announce[a].phase
        /\ announce'[a].fresh = announce[a].fresh /\ announce[a].put = "sent"
        /\ announce'[a].put # "none"
        /\ \/ pointer' = [pointer EXCEPT ![Target(a)] = DigestOf(EmptyManifest)]
           \/ pointer' = pointer
        /\ UNCHANGED <<packs, manifests, refState, push, nameRow>>
    BY <1>0, <1>3, StoreSeedFacts
  <2>2. DigestOf(EmptyManifest) \in 1 .. Len(manifests)
    BY <1>0, <2>1, DigestOfStored
  <2>3. DigestOf(EmptyManifest) \in 0 .. Len(manifests)
    BY <2>2
  <2>4. pointer' \in [Repo -> 0 .. Len(manifests)]
    BY <1>0, <2>1, <2>3
  <2>5. StoreGrows /\ StoreTypes
    BY <1>0, <2>1, <2>4 DEF StoreGrows, StoreTypes
  <2>6. Stored(EmptyManifest)' /\ SeedShape(announce'[a])
    BY <1>0, <2>1 DEF Stored, SeedShape
  <2>7. QED
    BY <1>0, <2>1, <2>5, <2>6, AnnounceKeepsInv
<1>4. CASE Walk(a) \/ reserve_repo_name(a) \/ release_repo_name(a) \/ emit_initial_ref_state(a)
  BY <1>0, <1>1, <1>4, WalkFacts, ReserveFacts, ReleaseFacts, EmitFacts DEF gitVars, storeVars
<1>5. QED
  BY <1>2, <1>3, <1>4 DEF AnnounceStep, Walk

\* What the relays find when they start has the types and shapes.
LEMMA InitInv ==
  ASSUME Init
  PROVE  Inv
<1>1. PICK o \in Origin :
        /\ manifests = o.manifests
        /\ packs = UNION {o.manifests[d].packs : d \in DOMAIN o.manifests}
        /\ pointer = o.pointer
  BY DEF Init, GitInit
<1>2. o \in [manifests : Seq(Manifest), pointer : [Repo -> Nat]]
  BY GitAssumption
<1>3. manifests \in Seq(Manifest) /\ pointer \in [Repo -> Nat]
  BY <1>1, <1>2
<1>4. \A r \in Repo : pointer[r] <= Len(manifests)
  BY <1>1, GitAssumption
<1>5. pointer \in [Repo -> 0 .. Len(manifests)]
  BY <1>3, <1>4
<1>6. \A d \in DOMAIN manifests : manifests[d].packs \subseteq SUBSET Commit
  <2>1. \A d \in DOMAIN manifests : manifests[d] \in Manifest
    BY <1>3
  <2>2. QED
    BY <2>1 DEF Manifest
<1>7. packs \subseteq SUBSET Commit
  BY <1>1, <1>6
<1>8. Idle \in PushType /\ Idle.base = 0 /\ Idle.put = "none"
  BY NoRefsFacts DEF Idle, PushType
<1>9. push = [p \in Push |-> Idle] /\ refState = {}
  BY DEF Init, GitInit
<1>10. Shape(Idle)
  BY DEF Idle, Shape
<1>11. nameRow \in [Name -> Owner \cup {NoOwner}]
  BY DEF Init
<1>12. /\ Unannounced \in AnnounceType
       /\ Unannounced.put = "none"
       /\ SeedShape(Unannounced)
  BY DEF Unannounced, AnnounceType, SeedShape, Unsent
<1>13. announce = [a \in Announcement |-> Unannounced]
  BY DEF Init
<1>14. TypeOK
  BY <1>3, <1>5, <1>7, <1>8, <1>9, <1>11, <1>12, <1>13 DEF TypeOK, GitTypeOK
<1>15. Shapes
  BY <1>9, <1>10 DEF Shapes
<1>16. DigestsKnown
  <2>1. 0 \in 0 .. Len(manifests)
    BY <1>3
  <2>2. QED
    BY <1>8, <1>9, <2>1 DEF DigestsKnown
<1>17. SeedsStored
  BY <1>12, <1>13 DEF SeedsStored
<1>18. QED
  BY <1>14, <1>15, <1>16, <1>17 DEF Inv

\* Every step keeps types and shapes, and nothing leaves the store.
LEMMA NextInv ==
  ASSUME Inv, [Next]_vars
  PROVE  Inv' /\ StoreGrows
<1>1. CASE UNCHANGED vars
  <2>1. /\ UNCHANGED <<packs, manifests, pointer, refState, push, nameRow, announce>>
        /\ TypeOK
    BY <1>1 DEF vars, gitVars, Inv
  <2>2. StoreGrows
    BY <2>1, StoreAlone DEF storeVars
  <2>3. Inv'
    BY <2>1, EmptyManifest' = EmptyManifest
       DEF Inv, TypeOK, GitTypeOK, Shapes, DigestsKnown, SeedsStored, Stored
  <2>4. QED
    BY <2>2, <2>3
<1>2. QED
  BY <1>1, PushStepInv, AnnounceStepInv DEF Next

\* The invariant of the types.
LEMMA SpecInv == Spec => []Inv
<1>1. Init => Inv
  BY InitInv
<1>2. Inv /\ [Next]_vars => Inv'
  BY NextInv
<1>3. QED
  BY <1>1, <1>2, PTL DEF Spec

\* Every piece of state has its type and digests name manifests, whatever the
\* pushes, the announcements and the store do.
THEOREM RegistryTypeCorrect == Spec => []TypeOK
<1>1. Inv => TypeOK
  BY DEF Inv
<1>2. QED
  BY <1>1, SpecInv, PTL

-----------------------------------------------------------------------------
(* Everything published can be cloned.                                     *)

\* The packs a push is about to publish are in the store and hold what it needs.
PackedReady ==
  \A p \in Push : push[p].phase = "packed" =>
    /\ push[p].packs \subseteq packs
    /\ Closure(RefsAfter(p)) \subseteq UNION push[p].packs

CloneInv == Cloneable /\ PackedReady

\* The refs of a push depend on its request and its base only.
LEMMA RefsAfterStays ==
  ASSUME Inv, Inv', StoreGrows, NEW p \in Push, SameRequest(p)
  PROVE  RefsAfter(p)' = RefsAfter(p)
<1>1. push[p].base \in 0 .. Len(manifests)
  BY DEF Inv, DigestsKnown
<1>2. ManifestAt(push[p].base)' = ManifestAt(push[p].base)
  <2>1. push'[p].base = push[p].base
    BY DEF SameRequest
  <2>2. \A d \in 0 .. Len(manifests) : ManifestAt(d)' = ManifestAt(d)
    BY StoreStays DEF Inv, TypeOK, GitTypeOK
  <2>3. QED
    BY <1>1, <2>1, <2>2 DEF ManifestAt
<1>3. QED
  BY <1>2 DEF RefsAfter, SameRequest

\* A push nobody touches stays ready.
LEMMA OthersReady ==
  ASSUME Inv, Inv', StoreGrows, PackedReady, NEW q \in Push, push'[q] = push[q],
         push'[q].phase = "packed"
  PROVE  push'[q].packs \subseteq packs' /\ Closure(RefsAfter(q)') \subseteq UNION push'[q].packs
<1>1. RefsAfter(q)' = RefsAfter(q)
  BY RefsAfterStays DEF SameRequest
<1>2. QED
  BY <1>1 DEF PackedReady, StoreGrows

\* What is stored stays sound; only what is new has to be looked at.
LEMMA CloneableGrows ==
  ASSUME Inv, Inv', StoreGrows, Cloneable,
         \A d \in 1 .. Len(manifests') :
           \/ d \in 1 .. Len(manifests)
           \/ manifests'[d].packs \subseteq packs' /\ Sound(manifests'[d])
  PROVE  Cloneable'
<1>1. /\ DOMAIN manifests = 1 .. Len(manifests)
      /\ DOMAIN manifests' = 1 .. Len(manifests')
      /\ \A d \in 1 .. Len(manifests) : manifests'[d] = manifests[d]
      /\ packs \subseteq packs'
  BY DEF Inv, TypeOK, GitTypeOK, StoreGrows
<1>2. \A d \in 1 .. Len(manifests) : manifests[d].packs \subseteq packs /\ Sound(manifests[d])
  BY <1>1 DEF Cloneable
<1>3. \A d \in 1 .. Len(manifests') : manifests'[d].packs \subseteq packs' /\ Sound(manifests'[d])
  <2> SUFFICES ASSUME NEW d \in 1 .. Len(manifests')
               PROVE  manifests'[d].packs \subseteq packs' /\ Sound(manifests'[d])
    OBVIOUS
  <2>1. CASE d \in 1 .. Len(manifests)
    <3>1. manifests'[d] = manifests[d] /\ manifests[d].packs \subseteq packs /\ Sound(manifests[d])
      BY <1>1, <1>2, <2>1
    <3>2. Sound(manifests'[d])
      BY <3>1, Zenon
    <3>3. QED
      BY <1>1, <3>1, <3>2
  <2>2. QED
    BY <2>1
<1>4. QED
  BY <1>1, <1>3 DEF Cloneable, Sound, Closure, Tips, LiveBranches

\* The steps of a push keep the repositories cloneable.
LEMMA PushStepClone ==
  ASSUME Inv, Inv', StoreGrows, CloneInv, NEW p \in Push, PushStep(p)
  PROVE  CloneInv'
<1>0. /\ Cloneable /\ PackedReady
      /\ push[p].phase = "packed" => /\ push[p].packs \subseteq packs
                                     /\ Closure(RefsAfter(p)) \subseteq UNION push[p].packs
  BY DEF CloneInv, PackedReady
<1>1. ASSUME OnlyPush(p), push'[p].phase = "packed" =>
               /\ push'[p].packs \subseteq packs'
               /\ Closure(RefsAfter(p)') \subseteq UNION push'[p].packs
      PROVE  PackedReady'
  <2>1. \A q \in Push : push'[q].phase = "packed" =>
          /\ push'[q].packs \subseteq packs'
          /\ Closure(RefsAfter(q)') \subseteq UNION push'[q].packs
    <3> SUFFICES ASSUME NEW q \in Push, push'[q].phase = "packed"
                 PROVE  /\ push'[q].packs \subseteq packs'
                        /\ Closure(RefsAfter(q)') \subseteq UNION push'[q].packs
      OBVIOUS
    <3>1. CASE q = p
      BY <1>1, <3>1
    <3>2. CASE q # p
      BY <1>0, <1>1, <3>2, OthersReady DEF OnlyPush
    <3>3. QED
      BY <3>1, <3>2
  <2>2. \A q \in Push : Closure(RefsAfter(q))' = Closure(RefsAfter(q)')
    BY DEF Closure, Tips
  <2>3. QED
    BY <2>1, <2>2 DEF PackedReady
<1>2. CASE put_manifest(p)
  <2>1. PICK m \in Manifest :
          /\ OnlyPush(p)
          /\ push[p].phase = "packed"
          /\ push'[p].phase = "cas"
          /\ manifests' = WithManifest(m)
          /\ m.refs = RefsAfter(p)
          /\ m.packs = push[p].packs
          /\ LiveBranches(m.refs) # {} => m.head \in LiveBranches(m.refs)
          /\ UNCHANGED <<packs, pointer, refState>>
    BY <1>2, PutManifestFacts
  <2>2. Closure(m.refs) = Closure(RefsAfter(p))
    BY <2>1, Zenon
  <2>3. Sound(m) /\ m.packs \subseteq packs'
    BY <1>0, <2>1, <2>2 DEF Sound
  <2>4. \A d \in 1 .. Len(manifests') : d \in 1 .. Len(manifests) \/ manifests'[d] = m
    BY <2>1, StoreWith DEF Inv
  <2>5. \A d \in 1 .. Len(manifests') :
          \/ d \in 1 .. Len(manifests)
          \/ manifests'[d].packs \subseteq packs' /\ Sound(manifests'[d])
    BY <2>3, <2>4, Zenon
  <2>6. Cloneable'
    BY <1>0, <2>5, CloneableGrows
  <2>7. QED
    BY <1>1, <2>1, <2>6 DEF CloneInv
<1>3. CASE UNCHANGED manifests
  <2>1. Cloneable'
    <3>1. \A d \in 1 .. Len(manifests') : d \in 1 .. Len(manifests)
      BY <1>3
    <3>2. QED
      BY <1>0, <3>1, CloneableGrows
  <2>2. CASE prepare_compaction(p) \/ put_pack(p)
    <3>1. /\ OnlyPush(p) /\ SameRequest(p)
          /\ \/ push'[p].phase = "done"
             \/ /\ push'[p].packs \subseteq packs'
                /\ Closure(RefsAfter(p)) \subseteq UNION push'[p].packs
      BY <1>0, <2>2, PackFacts
    <3>2. RefsAfter(p)' = RefsAfter(p)
      BY <3>1, RefsAfterStays
    <3>3. Closure(RefsAfter(p)') = Closure(RefsAfter(p))
      BY <3>2, Zenon
    <3>4. QED
      BY <1>1, <2>1, <3>1, <3>3 DEF CloneInv
  <2>3. CASE OnlyPush(p) /\ push'[p].phase # "packed"
    BY <1>1, <2>1, <2>3 DEF CloneInv
  <2>4. CASE info_refs(p) \/ receive_pack(p)
    BY <2>3, <2>4, InfoRefsFacts, ReceivePackFacts
  <2>5. CASE put_pointer(p)
    BY <2>3, <2>5, PutPointerFacts
  <2>6. CASE lost_race(p) \/ finalize_push(p) \/ fail_push(p)
    BY <2>3, <2>6, AnswerFacts
  <2>7. QED
    BY <1>2, <2>2, <2>4, <2>5, <2>6 DEF PushStep
<1>4. QED
  BY <1>2, <1>3 DEF PushStep, info_refs, receive_pack, prepare_compaction, put_pack, put_pointer,
                    lost_race, finalize_push, fail_push, storeVars

\* Nothing an announcement does takes anything from the store, and the empty
\* manifest needs nothing.
LEMMA AnnounceStepClone ==
  ASSUME Inv, Inv', StoreGrows, CloneInv, push' = push,
         manifests' = manifests \/ (manifests' = WithManifest(EmptyManifest) /\ packs' = packs)
  PROVE  CloneInv'
<1>0. Cloneable /\ PackedReady
  BY DEF CloneInv
<1>1. \A d \in 1 .. Len(manifests') :
        \/ d \in 1 .. Len(manifests)
        \/ manifests'[d].packs \subseteq packs' /\ Sound(manifests'[d])
  <2>1. CASE manifests' = manifests
    BY <2>1
  <2>2. CASE manifests' = WithManifest(EmptyManifest) /\ packs' = packs
    <3>1. /\ EmptyManifest \in Manifest /\ Sound(EmptyManifest)
          /\ EmptyManifest.packs \subseteq packs'
      BY FreshFacts
    <3>2. \A d \in 1 .. Len(manifests') :
            d \in 1 .. Len(manifests) \/ manifests'[d] = EmptyManifest
      BY <2>2, <3>1, StoreWith DEF Inv
    <3>3. QED
      BY <3>1, <3>2, Zenon
  <2>3. QED
    BY <2>1, <2>2
<1>2. Cloneable'
  BY <1>0, <1>1, CloneableGrows
<1>3. \A q \in Push : Closure(RefsAfter(q))' = Closure(RefsAfter(q)')
  BY DEF Closure, Tips
<1>4. PackedReady'
  BY <1>0, <1>3, OthersReady DEF PackedReady
<1>5. QED
  BY <1>2, <1>4 DEF CloneInv

\* What an announcement does to the manifests.
LEMMA AnnounceManifests ==
  ASSUME NEW a, AnnounceStep(a)
  PROVE  manifests' = manifests \/ (manifests' = WithManifest(EmptyManifest) /\ packs' = packs)
  BY DEF AnnounceStep, repo_name_owner, count_repos_for_owner, reserve_repo_name, classify_holder,
         acquire_serving_write, ensure_manifest_pointer, seed_manifest_pointer, StoreSeed,
         seed_answer, seed_fails, release_repo_name, emit_initial_ref_state, gitVars, storeVars

\* Every manifest that was ever stored can be cloned: its packs are there, they
\* hold all its refs need and HEAD is a live branch, however pushes, forced
\* updates, deletions of branches, compaction and failures interleave.
THEOREM RepositoriesAreCloneable == Spec => []Cloneable
<1>1. Init => CloneInv
  <2> SUFFICES ASSUME Init
               PROVE  CloneInv
    OBVIOUS
  <2>1. PICK o \in Origin :
          /\ manifests = o.manifests
          /\ packs = UNION {o.manifests[d].packs : d \in DOMAIN o.manifests}
    BY DEF Init, GitInit
  <2>2. \A d \in DOMAIN manifests : manifests[d].packs \subseteq packs
    BY <2>1
  <2>3. \A d \in DOMAIN manifests : Sound(manifests[d])
    BY <2>1, GitAssumption
  <2>4. PackedReady
    BY DEF Init, GitInit, PackedReady, Idle
  <2>5. QED
    BY <2>2, <2>3, <2>4 DEF CloneInv, Cloneable
<1>2. Inv /\ Inv' /\ CloneInv /\ [Next]_vars => CloneInv'
  <2> SUFFICES ASSUME Inv, Inv', CloneInv, [Next]_vars
               PROVE  CloneInv'
    OBVIOUS
  <2>0. StoreGrows
    BY NextInv
  <2>1. CASE UNCHANGED vars
    BY <2>0, <2>1, AnnounceStepClone DEF vars, gitVars
  <2>2. ASSUME NEW p \in Push, PushStep(p)
        PROVE  CloneInv'
    BY <2>0, <2>2, PushStepClone
  <2>3. ASSUME NEW a \in Announcement, AnnounceStep(a)
        PROVE  CloneInv'
    BY <2>0, <2>3, AnnounceStepInv, AnnounceManifests, AnnounceStepClone
  <2>4. QED
    BY <2>1, <2>2, <2>3 DEF Next
<1>3. CloneInv => Cloneable
  BY DEF CloneInv
<1>4. QED
  BY <1>1, <1>2, <1>3, SpecInv, PTL DEF Spec

-----------------------------------------------------------------------------
(* History is one line.                                                    *)

\* The pointer as two digests of one repository, before and after a step.
PointerStays == pointer' = pointer

\* What a step of a push does to its PUT and to the pointer.
LEMMA PutSteps ==
  ASSUME Inv, NEW p \in Push, PushStep(p)
  PROVE  /\ OnlyPush(p)
         /\ \/ push[p].put = "none" /\ push'[p].put = "none" /\ PointerStays
            \/ put_manifest(p)
            \/ put_pointer(p)
            \/ /\ push'[p].put = push[p].put /\ push'[p].digest = push[p].digest
               /\ SameRequest(p) /\ PointerStays
<1>1. CASE info_refs(p)
  BY <1>1, InfoRefsFacts DEF PointerStays, storeVars
<1>2. CASE receive_pack(p)
  BY <1>2, ReceivePackFacts DEF PointerStays, storeVars
<1>3. CASE prepare_compaction(p) \/ put_pack(p)
  BY <1>3, PackFacts DEF PointerStays
<1>4. CASE put_manifest(p)
  BY <1>4, PutManifestFacts
<1>5. CASE put_pointer(p)
  BY <1>5, PutPointerFacts
<1>6. CASE lost_race(p) \/ finalize_push(p) \/ fail_push(p)
  BY <1>6, AnswerFacts DEF PointerStays, storeVars
<1>7. QED
  BY <1>1, <1>2, <1>3, <1>4, <1>5, <1>6 DEF PushStep

\* What a step of an announcement does to its PUT and to the pointer.
LEMMA SeedSteps ==
  ASSUME Inv, NEW a \in Announcement, AnnounceStep(a)
  PROVE  /\ OnlyAnnounce(a)
         /\ announce[a].put = "won" => announce'[a].put = "won"
         /\ \/ PointerStays
            \/ /\ pointer[Target(a)] = 0
               /\ announce'[a].put = "won"
               /\ pointer' = [pointer EXCEPT ![Target(a)] = DigestOf(EmptyManifest)]
               /\ DigestOf(EmptyManifest) \in 1 .. Len(manifests)
<1>0. /\ TypeOK /\ SeedShape(announce[a])
      /\ announce[a].put # "none" => Stored(EmptyManifest)
      /\ manifests \in Seq(Manifest)
  BY DEF Inv, SeedsStored, TypeOK, GitTypeOK
<1>1. CASE Walk(a)
  BY <1>0, <1>1, WalkFacts DEF PointerStays, gitVars
<1>2. CASE reserve_repo_name(a)
  BY <1>0, <1>2, ReserveFacts DEF PointerStays, gitVars
<1>3. CASE seed_manifest_pointer(a)
  BY <1>0, <1>3, SeedFacts DEF PointerStays, SeedShape, Unsent
<1>4. CASE StoreSeed(a)
  <2>1. announce[a].put = "sent"
    BY <1>0, <1>4, StoreSeedFacts
  <2>2. DigestOf(EmptyManifest) \in 1 .. Len(manifests)
    BY <1>0, <2>1, DigestOfStored
  <2>3. QED
    BY <1>0, <1>4, <2>1, <2>2, StoreSeedFacts DEF PointerStays
<1>5. CASE release_repo_name(a)
  BY <1>0, <1>5, ReleaseFacts DEF PointerStays, gitVars
<1>6. CASE emit_initial_ref_state(a)
  BY <1>0, <1>6, EmitFacts DEF PointerStays, storeVars
<1>7. QED
  BY <1>1, <1>2, <1>3, <1>4, <1>5, <1>6 DEF AnnounceStep, Walk

\* A manifest is stored after its parent.
ParentsFirst == \A d \in 1 .. Len(manifests) : manifests[d].parent < d

\* A push publishes a later digest than the one it builds on.
DigestAfterBase == \A p \in Push : push[p].put # "none" => push[p].base < push[p].digest

\* The pointer is past what every winner built on.
PastWinners == \A p \in Push : push[p].put = "won" => push[p].base < pointer[RepoOf[p]]

\* No two winners built on the same manifest.
OneWinner ==
  \A p, q \in Push :
    (/\ push[p].put = "won" /\ push[q].put = "won"
     /\ RepoOf[p] = RepoOf[q] /\ push[p].base = push[q].base) => p = q

LineInv == ParentsFirst /\ DigestAfterBase /\ PastWinners /\ OneWinner

\* The digest of what a push publishes is later than its base, also when a push
\* before it has stored the very same manifest.
LEMMA ParentsStep ==
  ASSUME Inv, Inv', StoreGrows, ParentsFirst,
         \A d \in 1 .. Len(manifests') :
           d \in 1 .. Len(manifests) \/ manifests'[d].parent < d
  PROVE  ParentsFirst'
<1>1. \A d \in 1 .. Len(manifests) : manifests'[d] = manifests[d]
  BY DEF StoreGrows
<1>2. QED
  BY <1>1 DEF ParentsFirst

\* Where a new manifest goes.
LEMMA NewIsLast ==
  ASSUME TypeOK, NEW m \in Manifest, manifests' = WithManifest(m), m.parent \in 0 .. Len(manifests)
  PROVE  \A d \in 1 .. Len(manifests') : d \in 1 .. Len(manifests) \/ manifests'[d].parent < d
<1>0. manifests \in Seq(Manifest) /\ Len(manifests) \in Nat
  BY DEF TypeOK, GitTypeOK
<1>1. \A d \in 1 .. Len(WithManifest(m)) :
        d \in 1 .. Len(manifests) \/ (d = Len(manifests) + 1 /\ WithManifest(m)[d] = m)
  BY <1>0, StoringManifest
<1> SUFFICES ASSUME NEW d \in 1 .. Len(manifests'), d \notin 1 .. Len(manifests)
             PROVE  manifests'[d].parent < d
  OBVIOUS
<1>2. d = Len(manifests) + 1 /\ manifests'[d] = m
  BY <1>1
<1>3. QED
  BY <1>0, <1>2

\* The steps of a push keep history one line.
LEMMA PushStepLine ==
  ASSUME Inv, Inv', StoreGrows, LineInv, NEW p \in Push, PushStep(p)
  PROVE  LineInv'
<1>0. /\ ParentsFirst /\ DigestAfterBase /\ PastWinners /\ OneWinner
      /\ manifests \in Seq(Manifest)
      /\ TypeOK
      /\ RepoOf \in [Push -> Repo]
      /\ pointer \in [Repo -> 0 .. Len(manifests)]
      /\ Len(manifests) \in Nat
  BY GitAssumption DEF LineInv, Inv, TypeOK, GitTypeOK
<1>1. OnlyPush(p)
  BY PutSteps
<1>2. \A q \in Push : push[q].base \in Nat /\ push[q].digest \in Nat
  BY <1>0 DEF TypeOK, GitTypeOK, PushType
<1>3. CASE put_manifest(p)
  <2>1. PICK m \in Manifest :
          /\ SameRequest(p)
          /\ push[p].put = "none" /\ push'[p].put = "sent"
          /\ push'[p].digest = DigestOf(m)
          /\ manifests' = WithManifest(m)
          /\ m.parent = push[p].base
          /\ UNCHANGED <<packs, pointer, refState>>
    BY <1>3, PutManifestFacts
  <2>2. DigestOf(m) \in 1 .. Len(manifests') /\ manifests'[DigestOf(m)] = m
    BY <1>0, <2>1, StoreWith
  <2>3. push[p].base \in 0 .. Len(manifests)
    BY DEF Inv, DigestsKnown
  <2>4. \A d \in 1 .. Len(manifests') : d \in 1 .. Len(manifests) \/ manifests'[d].parent < d
    BY <1>0, <2>1, <2>3, NewIsLast
  <2>5. ParentsFirst'
    BY <1>0, <2>4, ParentsStep
  <2>6. push'[p].base < push'[p].digest
    <3>1. m.parent < DigestOf(m)
      BY <2>2, <2>5 DEF ParentsFirst
    <3>2. QED
      BY <2>1, <3>1 DEF SameRequest
  <2>7. DigestAfterBase'
    BY <1>0, <1>1, <2>6 DEF DigestAfterBase, OnlyPush
  <2>8. PastWinners'
    BY <1>0, <1>1, <2>1 DEF PastWinners, OnlyPush
  <2>9. OneWinner'
    BY <1>0, <1>1, <2>1 DEF OneWinner, OnlyPush
  <2>10. QED
    BY <2>5, <2>7, <2>8, <2>9 DEF LineInv
<1>4. CASE UNCHANGED manifests
  <2>1. ParentsFirst'
    BY <1>0, <1>4 DEF ParentsFirst
  <2>2. CASE push[p].put = "none" /\ push'[p].put = "none" /\ PointerStays
    <3>1. DigestAfterBase' /\ PastWinners' /\ OneWinner'
      BY <1>0, <1>1, <2>2 DEF DigestAfterBase, PastWinners, OneWinner, OnlyPush, PointerStays
    <3>2. QED
      BY <2>1, <3>1 DEF LineInv
  <2>3. CASE /\ push'[p].put = push[p].put /\ push'[p].digest = push[p].digest
             /\ SameRequest(p) /\ PointerStays
    <3>1. \A q \in Push : /\ push'[q].put = push[q].put
                          /\ push'[q].digest = push[q].digest
                          /\ push'[q].base = push[q].base
      BY <1>1, <2>3 DEF OnlyPush, SameRequest
    <3>2. DigestAfterBase' /\ PastWinners' /\ OneWinner'
      BY <1>0, <2>3, <3>1 DEF DigestAfterBase, PastWinners, OneWinner, PointerStays
    <3>3. QED
      BY <2>1, <3>2 DEF LineInv
  <2>4. CASE put_pointer(p)
    <3>1. /\ push'[p].digest = push[p].digest
          /\ push[p].put = "sent"
          /\ \A q \in Push : push'[q].base = push[q].base
          /\ push'[p].put # "none"
      BY <1>1, <2>4, PutPointerFacts DEF OnlyPush, SameRequest
    <3>2. push[p].base < push[p].digest
      BY <1>0, <3>1 DEF DigestAfterBase
    <3>3. DigestAfterBase'
      BY <1>0, <1>1, <3>1, <3>2 DEF DigestAfterBase, OnlyPush
    <3>4. CASE push'[p].put = "lost" /\ pointer' = pointer
      <4>1. PastWinners' /\ OneWinner'
        BY <1>0, <1>1, <3>1, <3>4 DEF PastWinners, OneWinner, OnlyPush
      <4>2. QED
        BY <2>1, <3>3, <4>1 DEF LineInv
    <3>5. CASE /\ pointer[RepoOf[p]] = push[p].base
               /\ push'[p].put = "won"
               /\ pointer' = [pointer EXCEPT ![RepoOf[p]] = push[p].digest]
      <4>1. /\ pointer'[RepoOf[p]] = push[p].digest
            /\ \A r \in Repo : r # RepoOf[p] => pointer'[r] = pointer[r]
        BY <1>0, <3>5
      <4>2. \A q \in Push \ {p} : push[q].put = "won" /\ RepoOf[q] = RepoOf[p] =>
              push[q].base < push[p].base
        BY <1>0, <3>5 DEF PastWinners
      <4>3. PastWinners'
        <5> SUFFICES ASSUME NEW q \in Push, push'[q].put = "won"
                     PROVE  push'[q].base < pointer'[RepoOf[q]]
          BY DEF PastWinners
        <5>1. CASE q = p
          BY <3>1, <3>2, <4>1, <5>1
        <5>2. CASE q # p /\ RepoOf[q] = RepoOf[p]
          BY <1>1, <1>2, <3>1, <3>2, <4>1, <4>2, <5>2 DEF OnlyPush
        <5>3. CASE q # p /\ RepoOf[q] # RepoOf[p]
          BY <1>0, <1>1, <3>1, <4>1, <5>3 DEF PastWinners, OnlyPush
        <5>4. QED
          BY <5>1, <5>2, <5>3
      <4>4. OneWinner'
        <5> SUFFICES ASSUME NEW q \in Push, NEW s \in Push,
                            push'[q].put = "won", push'[s].put = "won",
                            RepoOf[q] = RepoOf[s], push'[q].base = push'[s].base
                     PROVE  q = s
          BY DEF OneWinner
        <5>1. CASE q # p /\ s # p
          BY <1>0, <1>1, <3>1, <5>1 DEF OneWinner, OnlyPush
        <5>2. CASE q = p /\ s # p
          BY <1>1, <1>2, <3>1, <4>2, <5>2 DEF OnlyPush
        <5>3. CASE q # p /\ s = p
          BY <1>1, <1>2, <3>1, <4>2, <5>3 DEF OnlyPush
        <5>4. QED
          BY <5>1, <5>2, <5>3
      <4>5. QED
        BY <2>1, <3>3, <4>3, <4>4 DEF LineInv
    <3>6. QED
      BY <2>4, <3>4, <3>5, PutPointerFacts
  <2>5. QED
    BY <1>3, <2>2, <2>3, <2>4, PutSteps
<1>5. QED
  BY <1>3, <1>4 DEF PushStep, info_refs, receive_pack, prepare_compaction, put_pack, put_pointer,
                    lost_race, finalize_push, fail_push, storeVars

\* Announcements create pointers where nobody can have won yet.
LEMMA AnnounceStepLine ==
  ASSUME Inv, Inv', StoreGrows, LineInv, NEW a \in Announcement, AnnounceStep(a)
  PROVE  LineInv'
<1>0. /\ ParentsFirst /\ DigestAfterBase /\ PastWinners /\ OneWinner
      /\ manifests \in Seq(Manifest) /\ manifests' \in Seq(Manifest)
      /\ TypeOK
      /\ RepoOf \in [Push -> Repo]
      /\ pointer \in [Repo -> 0 .. Len(manifests)]
      /\ push' = push
      /\ \A q \in Push : push[q].base \in Nat
  BY GitAssumption, AnnounceStepInv DEF LineInv, Inv, TypeOK, GitTypeOK, PushType
<1>1. ParentsFirst'
  <2>1. CASE manifests' = manifests
    BY <1>0, <2>1 DEF ParentsFirst
  <2>2. CASE manifests' = WithManifest(EmptyManifest)
    <3>1. EmptyManifest \in Manifest /\ EmptyManifest.parent \in 0 .. Len(manifests)
      BY <1>0, FreshFacts
    <3>2. QED
      BY <1>0, <2>2, <3>1, NewIsLast, ParentsStep
  <2>3. QED
    BY <2>1, <2>2, AnnounceManifests
<1>2. DigestAfterBase' /\ OneWinner'
  BY <1>0 DEF DigestAfterBase, OneWinner
<1>3. PastWinners'
  <2>1. CASE PointerStays
    BY <1>0, <2>1 DEF PastWinners, PointerStays
  <2>2. CASE /\ pointer[Target(a)] = 0
             /\ pointer' = [pointer EXCEPT ![Target(a)] = DigestOf(EmptyManifest)]
    <3>1. \A q \in Push : push[q].put = "won" => RepoOf[q] # Target(a)
      BY <1>0, <2>2 DEF PastWinners
    <3>2. \A q \in Push : push[q].put = "won" => pointer'[RepoOf[q]] = pointer[RepoOf[q]]
      BY <1>0, <2>2, <3>1
    <3>3. QED
      BY <1>0, <3>2 DEF PastWinners
  <2>3. QED
    BY <2>1, <2>2, SeedSteps
<1>4. QED
  BY <1>1, <1>2, <1>3 DEF LineInv

\* The whole of it as an invariant.
LEMMA SpecLine == Spec => []LineInv
<1>1. Init => LineInv
  <2> SUFFICES ASSUME Init
               PROVE  LineInv
    OBVIOUS
  <2>1. PICK o \in Origin : manifests = o.manifests
    BY DEF Init, GitInit
  <2>2. manifests \in Seq(Manifest)
    BY InitInv DEF Inv, TypeOK, GitTypeOK
  <2>3. ParentsFirst
    BY <2>1, <2>2, GitAssumption DEF ParentsFirst
  <2>4. \A p \in Push : push[p].put = "none"
    BY DEF Init, GitInit, Idle
  <2>5. QED
    BY <2>3, <2>4 DEF LineInv, DigestAfterBase, PastWinners, OneWinner
<1>2. Inv /\ Inv' /\ LineInv /\ [Next]_vars => LineInv'
  <2> SUFFICES ASSUME Inv, Inv', LineInv, [Next]_vars
               PROVE  LineInv'
    OBVIOUS
  <2>0. StoreGrows
    BY NextInv
  <2>1. CASE UNCHANGED vars
    BY <2>1 DEF vars, gitVars, LineInv, ParentsFirst, DigestAfterBase, PastWinners, OneWinner
  <2>2. ASSUME NEW p \in Push, PushStep(p)
        PROVE  LineInv'
    BY <2>0, <2>2, PushStepLine
  <2>3. ASSUME NEW a \in Announcement, AnnounceStep(a)
        PROVE  LineInv'
    BY <2>0, <2>3, AnnounceStepLine
  <2>4. QED
    BY <2>1, <2>2, <2>3 DEF Next
<1>3. QED
  BY <1>1, <1>2, SpecInv, PTL DEF Spec

\* No lost update: pushes that moved the pointer of a repository form one line,
\* although If-Match compares content only, because a manifest is always stored
\* after its parent and the pointer never goes back.
THEOREM HistoryDoesNotFork == Spec => []NoFork
<1>1. Inv /\ LineInv => NoFork
  <2> SUFFICES ASSUME Inv, LineInv, NEW p \in Push, push[p].put = "won"
               PROVE  /\ pointer[RepoOf[p]] # push[p].base
                      /\ \A q \in Push \ {p} : push[q].put = "won" /\ RepoOf[q] = RepoOf[p] =>
                           push[q].base # push[p].base
    BY DEF NoFork
  <2>1. push[p].base < pointer[RepoOf[p]] /\ push[p].base \in Nat
    BY DEF LineInv, PastWinners, Inv, TypeOK, GitTypeOK, PushType
  <2>2. pointer[RepoOf[p]] \in Nat
    BY GitAssumption DEF Inv, TypeOK, GitTypeOK
  <2>3. \A q \in Push \ {p} : push[q].put = "won" /\ RepoOf[q] = RepoOf[p] =>
          push[q].base # push[p].base
    BY DEF LineInv, OneWinner
  <2>4. QED
    BY <2>1, <2>2, <2>3
<1>2. QED
  BY <1>1, SpecInv, SpecLine, PTL

-----------------------------------------------------------------------------
(* A push that lost was superseded.                                        *)

\* Somebody else moved the pointer on from what the push had built on.
Superseded(p) ==
  \/ \E q \in Push \ {p} : /\ push[q].put = "won"
                           /\ RepoOf[q] = RepoOf[p]
                           /\ push[q].base = push[p].base
  \/ /\ push[p].base = 0
     /\ \E a \in Announcement : Target(a) = RepoOf[p] /\ announce[a].put = "won"

\* As long as nobody has, the pointer is where the push found it, unless the
\* push has moved it itself.
CurrentOrSuperseded ==
  \A p \in Push : push[p].named # {} /\ push[p].put # "won" =>
    Superseded(p) \/ pointer[RepoOf[p]] = push[p].base

LostIsSuperseded == \A p \in Push : push[p].put = "lost" => Superseded(p)

RaceInv == CurrentOrSuperseded /\ LostIsSuperseded

\* Who has won has won for good.
WinnersStay ==
  /\ \A q \in Push : push[q].put = "won" => push'[q].put = "won" /\ push'[q].base = push[q].base
  /\ \A a \in Announcement : announce[a].put = "won" => announce'[a].put = "won"

\* Whoever was superseded stays so.
LEMMA SupersededStays ==
  ASSUME WinnersStay, NEW p \in Push, push'[p].base = push[p].base, Superseded(p)
  PROVE  Superseded(p)'
  BY DEF WinnersStay, Superseded, Target

\* The winners of the pushes stay.
LEMMA PushWinnersStay ==
  ASSUME Inv, NEW p \in Push, PushStep(p), UNCHANGED announce
  PROVE  WinnersStay
<1>1. OnlyPush(p)
  BY PutSteps
<1>2. push[p].put = "won" => push'[p].put = "won" /\ push'[p].base = push[p].base
  <2>1. CASE put_manifest(p)
    BY <2>1, PutManifestFacts
  <2>2. CASE put_pointer(p)
    BY <2>2, PutPointerFacts
  <2>3. QED
    BY <2>1, <2>2, PutSteps DEF SameRequest
<1>3. QED
  BY <1>1, <1>2 DEF WinnersStay, OnlyPush

\* The pointer of a repository has moved from where a push found it: to the
\* digest of the push that now has won, or to the seed of an announcement.
LEMMA PushStepRace ==
  ASSUME Inv, Inv', RaceInv, NEW p \in Push, PushStep(p), UNCHANGED announce
  PROVE  RaceInv'
<1>0. /\ CurrentOrSuperseded /\ LostIsSuperseded
      /\ RepoOf \in [Push -> Repo]
      /\ pointer \in [Repo -> 0 .. Len(manifests)]
      /\ WinnersStay
      /\ OnlyPush(p)
  BY GitAssumption, PushWinnersStay, PutSteps DEF RaceInv, Inv, TypeOK, GitTypeOK
<1>1. CASE PointerStays
  <2>1. CASE receive_pack(p)
    <3>1. push'[p].base = pointer[RepoOf[p]] /\ push'[p].put = "none"
      BY <2>1, ReceivePackFacts
    <3>2. CurrentOrSuperseded'
      <4> SUFFICES ASSUME NEW q \in Push, push'[q].named # {}, push'[q].put # "won"
                   PROVE  Superseded(q)' \/ pointer'[RepoOf[q]] = push'[q].base
        BY DEF CurrentOrSuperseded
      <4>1. CASE q = p
        BY <1>1, <3>1, <4>1 DEF PointerStays
      <4>2. CASE q # p
        BY <1>0, <1>1, <4>2, SupersededStays DEF CurrentOrSuperseded, OnlyPush, PointerStays
      <4>3. QED
        BY <4>1, <4>2
    <3>3. LostIsSuperseded'
      BY <1>0, <3>1, SupersededStays DEF LostIsSuperseded, OnlyPush
    <3>4. QED
      BY <3>2, <3>3 DEF RaceInv
  <2>2. CASE ~receive_pack(p)
    <3>1. /\ push'[p].base = push[p].base
          /\ push'[p].named = push[p].named
          /\ push'[p].put # "won" => push[p].put # "won"
          /\ \/ push'[p].put = "lost" => push[p].put = "lost"
             \/ pointer[RepoOf[p]] # push[p].base /\ push[p].named # {} /\ push[p].put # "won"
      <4>1. CASE info_refs(p)
        BY <4>1, InfoRefsFacts
      <4>2. CASE prepare_compaction(p) \/ put_pack(p)
        BY <4>2, PackFacts DEF SameRequest
      <4>3. CASE put_manifest(p)
        BY <4>3, PutManifestFacts DEF SameRequest
      <4>4. CASE put_pointer(p)
        <5>1. push[p].phase \in {"cas", "done"} /\ push[p].put = "sent" /\ SameRequest(p)
          BY <4>4, PutPointerFacts
        <5>2. push[p].named # {}
          BY <5>1 DEF Inv, Shapes, Shape
        <5>3. QED
          BY <4>4, <5>1, <5>2, PutPointerFacts DEF SameRequest
      <4>5. CASE lost_race(p) \/ finalize_push(p) \/ fail_push(p)
        BY <4>5, AnswerFacts DEF SameRequest
      <4>6. QED
        BY <2>2, <4>1, <4>2, <4>3, <4>4, <4>5 DEF PushStep
    <3>2. \A q \in Push : Superseded(q) => Superseded(q)'
      BY <1>0, <3>1, SupersededStays DEF OnlyPush
    <3>3. CurrentOrSuperseded'
      BY <1>0, <1>1, <3>1, <3>2 DEF CurrentOrSuperseded, OnlyPush, PointerStays
    <3>4. LostIsSuperseded'
      BY <1>0, <3>1, <3>2 DEF LostIsSuperseded, CurrentOrSuperseded, OnlyPush
    <3>5. QED
      BY <3>3, <3>4 DEF RaceInv
  <2>3. QED
    BY <2>1, <2>2
<1>2. CASE ~PointerStays
  <2>1. put_pointer(p)
    <3>1. ~put_manifest(p)
      BY <1>2, PutManifestFacts DEF PointerStays
    <3>2. QED
      BY <1>2, <3>1, PutSteps
  <2>2. /\ SameRequest(p)
        /\ pointer[RepoOf[p]] = push[p].base
        /\ push[p].put = "sent" /\ push'[p].put = "won"
        /\ pointer' = [pointer EXCEPT ![RepoOf[p]] = push[p].digest]
    BY <1>2, <2>1, PutPointerFacts DEF PointerStays
  <2>3. \A q \in Push : Superseded(q) => Superseded(q)'
    BY <1>0, <2>2, SupersededStays DEF OnlyPush, SameRequest
  <2>4. CurrentOrSuperseded'
    <3> SUFFICES ASSUME NEW q \in Push, push'[q].named # {}, push'[q].put # "won"
                 PROVE  Superseded(q)' \/ pointer'[RepoOf[q]] = push'[q].base
      BY DEF CurrentOrSuperseded
    <3>1. q # p /\ push'[q] = push[q]
      BY <1>0, <2>2 DEF OnlyPush
    <3>2. CASE RepoOf[q] # RepoOf[p]
      BY <1>0, <2>2, <2>3, <3>1, <3>2 DEF CurrentOrSuperseded
    <3>3. CASE RepoOf[q] = RepoOf[p]
      <4>1. CASE Superseded(q)
        BY <2>3, <4>1
      <4>2. CASE ~Superseded(q)
        <5>1. push[q].base = push[p].base
          BY <1>0, <2>2, <3>1, <3>3, <4>2 DEF CurrentOrSuperseded
        <5>2. Superseded(q)'
          BY <2>2, <3>1, <3>3, <5>1 DEF Superseded, SameRequest
        <5>3. QED
          BY <5>2
      <4>3. QED
        BY <4>1, <4>2
    <3>4. QED
      BY <3>2, <3>3
  <2>5. LostIsSuperseded'
    BY <1>0, <2>2, <2>3 DEF LostIsSuperseded, OnlyPush
  <2>6. QED
    BY <2>4, <2>5 DEF RaceInv
<1>3. QED
  BY <1>1, <1>2

\* A seed supersedes the pushes that found no pointer.
LEMMA AnnounceStepRace ==
  ASSUME Inv, Inv', RaceInv, NEW a \in Announcement, AnnounceStep(a)
  PROVE  RaceInv'
<1>0. /\ CurrentOrSuperseded /\ LostIsSuperseded
      /\ RepoOf \in [Push -> Repo]
      /\ pointer \in [Repo -> 0 .. Len(manifests)]
      /\ push' = push
  BY GitAssumption, AnnounceStepInv DEF RaceInv, Inv, TypeOK, GitTypeOK
<1>1. WinnersStay
  BY <1>0, SeedSteps DEF WinnersStay, OnlyAnnounce
<1>2. \A q \in Push : Superseded(q) => Superseded(q)'
  BY <1>0, <1>1, SupersededStays
<1>3. LostIsSuperseded'
  BY <1>0, <1>2 DEF LostIsSuperseded
<1>4. CurrentOrSuperseded'
  <2>1. CASE PointerStays
    BY <1>0, <1>2, <2>1 DEF CurrentOrSuperseded, PointerStays
  <2>2. CASE /\ pointer[Target(a)] = 0
             /\ announce'[a].put = "won"
             /\ pointer' = [pointer EXCEPT ![Target(a)] = DigestOf(EmptyManifest)]
    <3> SUFFICES ASSUME NEW q \in Push, push'[q].named # {}, push'[q].put # "won"
                 PROVE  Superseded(q)' \/ pointer'[RepoOf[q]] = push'[q].base
      BY DEF CurrentOrSuperseded
    <3>1. Superseded(q) \/ pointer[RepoOf[q]] = push[q].base
      BY <1>0 DEF CurrentOrSuperseded
    <3>2. CASE RepoOf[q] # Target(a)
      BY <1>0, <1>2, <2>2, <3>1, <3>2
    <3>3. CASE RepoOf[q] = Target(a) /\ pointer[RepoOf[q]] = push[q].base
      <4>1. push'[q].base = 0 /\ Target(a)' = Target(a)
        BY <1>0, <2>2, <3>3 DEF Target
      <4>2. QED
        BY <2>2, <3>3, <4>1 DEF Superseded, Target
    <3>4. QED
      BY <1>2, <3>1, <3>2, <3>3
  <2>3. QED
    BY <2>1, <2>2, SeedSteps
<1>5. QED
  BY <1>3, <1>4 DEF RaceInv

\* A push that is told 409 was really superseded: another push, or the seed of
\* an announcement, moved the pointer on from the very manifest it had built on.
THEOREM ConflictIsReal == Spec => []LoserHasWinner
<1>1. Init => RaceInv
  BY DEF Init, GitInit, Idle, RaceInv, CurrentOrSuperseded, LostIsSuperseded
<1>2. Inv /\ Inv' /\ RaceInv /\ [Next]_vars => RaceInv'
  <2> SUFFICES ASSUME Inv, Inv', RaceInv, [Next]_vars
               PROVE  RaceInv'
    OBVIOUS
  <2>1. CASE UNCHANGED vars
    BY <2>1 DEF vars, gitVars, RaceInv, CurrentOrSuperseded, LostIsSuperseded, Superseded, Target
  <2>2. ASSUME NEW p \in Push, PushStep(p), UNCHANGED <<nameRow, announce>>
        PROVE  RaceInv'
    BY <2>2, PushStepRace
  <2>3. ASSUME NEW a \in Announcement, AnnounceStep(a)
        PROVE  RaceInv'
    BY <2>3, AnnounceStepRace
  <2>4. QED
    BY <2>1, <2>2, <2>3 DEF Next
<1>3. Inv /\ RaceInv => LoserHasWinner
  <2> SUFFICES ASSUME Inv, RaceInv, NEW p \in Push, push[p].reply = "conflict"
               PROVE  Superseded(p)
    BY DEF LoserHasWinner, Superseded
  <2>1. push[p].put = "lost"
    BY DEF Inv, Shapes, Shape
  <2>2. QED
    BY <2>1 DEF RaceInv, LostIsSuperseded
<1>4. QED
  BY <1>1, <1>2, <1>3, SpecInv, PTL DEF Spec

-----------------------------------------------------------------------------
(* Announced repositories.                                                 *)

\* Nobody else announces the same repository.
Alone(a) == \A b \in Announcement : Target(b) = Target(a) => b = a

Succeeding == {"owned", "ensure", "seed", "put", "seeded"}

\* A repository that was seeded has a pointer.
SeededExists ==
  \A a \in Announcement :
    announce[a].phase = "seeded" \/ announce[a].put = "won" \/ announce[a].result = "ok" =>
      pointer[Target(a)] # 0

\* From the reservation on the name is the announcer's, until it rolls back.
NameHeld ==
  \A a \in Announcement :
    Alone(a) /\ (announce[a].phase \in Succeeding \/ announce[a].result = "ok") =>
      nameRow[NameOf[a]] = OwnerOf[a]

\* Only a finished announcement has a result.
ResultAtEnd == \A a \in Announcement : announce[a].phase # "done" => announce[a].result = "none"

NameInv == SeededExists /\ NameHeld /\ ResultAtEnd

\* No pointer is ever taken away.
LEMMA PointersStay ==
  ASSUME Inv, Next
  PROVE  \A r \in Repo : pointer[r] # 0 => pointer'[r] # 0
<1>0. pointer \in [Repo -> 0 .. Len(manifests)] /\ RepoOf \in [Push -> Repo]
  BY GitAssumption DEF Inv, TypeOK, GitTypeOK
<1>1. ASSUME NEW p \in Push, PushStep(p)
      PROVE  \A r \in Repo : pointer[r] # 0 => pointer'[r] # 0
  <2>1. CASE put_pointer(p)
    <3>1. push[p].put = "sent"
      BY <2>1, PutPointerFacts
    <3>2. push[p].digest # 0
      BY <3>1 DEF Inv, DigestsKnown
    <3>3. QED
      BY <1>0, <2>1, <3>2, PutPointerFacts
  <2>2. CASE put_manifest(p)
    BY <2>2, PutManifestFacts
  <2>3. QED
    BY <1>1, <2>1, <2>2, PutSteps DEF PointerStays
<1>2. ASSUME NEW a \in Announcement, AnnounceStep(a)
      PROVE  \A r \in Repo : pointer[r] # 0 => pointer'[r] # 0
  <2>1. CASE PointerStays
    BY <2>1 DEF PointerStays
  <2>2. CASE /\ pointer' = [pointer EXCEPT ![Target(a)] = DigestOf(EmptyManifest)]
             /\ DigestOf(EmptyManifest) \in 1 .. Len(manifests)
    <3>1. DigestOf(EmptyManifest) # 0
      BY <2>2
    <3>2. QED
      BY <1>0, <2>2, <3>1
  <2>3. QED
    BY <1>2, <2>1, <2>2, SeedSteps
<1>3. QED
  BY <1>1, <1>2 DEF Next

\* The steps of one announcement do not take the name of another that is alone.
LEMMA OtherNamesStay ==
  ASSUME Inv, NameHeld, NEW a \in Announcement, AnnounceStep(a),
         NEW b \in Announcement \ {a}, Alone(b),
         announce[b].phase \in Succeeding \/ announce[b].result = "ok"
  PROVE  nameRow'[NameOf[b]] = OwnerOf[b]
<1>0. /\ TypeOK
      /\ nameRow \in [Name -> Owner \cup {NoOwner}]
      /\ NameOf[a] \in Name /\ NameOf[b] \in Name /\ OwnerOf[b] \in Owner
      /\ OwnerOf[b] # NoOwner
  BY RegistryAssumption DEF Inv, TypeOK
<1>1. nameRow[NameOf[b]] = OwnerOf[b]
  BY DEF NameHeld
<1>2. CASE nameRow' = nameRow
  BY <1>1, <1>2
<1>3. CASE reserve_repo_name(a)
  <2>1. \/ nameRow[NameOf[a]] = NoOwner /\ nameRow' = [nameRow EXCEPT ![NameOf[a]] = OwnerOf[a]]
        \/ nameRow' = nameRow
    BY <1>0, <1>3, ReserveFacts
  <2>2. QED
    BY <1>0, <1>1, <2>1
<1>4. CASE release_repo_name(a)
  <2>1. \/ nameRow' = nameRow
        \/ /\ nameRow[NameOf[a]] = OwnerOf[a]
           /\ nameRow' = [nameRow EXCEPT ![NameOf[a]] = NoOwner]
    BY <1>0, <1>4, ReleaseFacts
  <2>2. nameRow[NameOf[a]] = OwnerOf[a] => NameOf[a] # NameOf[b]
    BY <1>1 DEF Alone, Target
  <2>3. QED
    BY <1>0, <1>1, <2>1, <2>2
<1>5. QED
  BY <1>2, <1>3, <1>4 DEF AnnounceStep, repo_name_owner, count_repos_for_owner, classify_holder,
     acquire_serving_write, ensure_manifest_pointer, seed_manifest_pointer, StoreSeed, seed_answer,
     seed_fails, emit_initial_ref_state

\* A step of an announcement leaves it with a name and, in the end, a pointer.
LEMMA OwnStep ==
  ASSUME Inv, NameInv, NEW a \in Announcement, AnnounceStep(a)
  PROVE  /\ (announce'[a].phase \in Succeeding \/ announce'[a].result = "ok") =>
              \/ nameRow'[NameOf[a]] = OwnerOf[a]
              \/ /\ nameRow' = nameRow
                 /\ announce[a].phase \in Succeeding \/ announce[a].result = "ok"
         /\ (\/ announce'[a].phase = "seeded"
             \/ announce'[a].put = "won"
             \/ announce'[a].result = "ok") =>
              pointer[Target(a)] # 0 \/ pointer'[Target(a)] # 0
         /\ announce'[a].phase # "done" => announce'[a].result = "none"
<1>0. /\ TypeOK
      /\ nameRow \in [Name -> Owner \cup {NoOwner}]
      /\ NameOf[a] \in Name /\ Target(a) \in Repo
      /\ pointer \in [Repo -> 0 .. Len(manifests)]
      /\ announce[a].phase # "done" => announce[a].result = "none"
      /\ (announce[a].phase = "seeded" \/ announce[a].put = "won" \/ announce[a].result = "ok") =>
           pointer[Target(a)] # 0
      /\ manifests \in Seq(Manifest)
      /\ SeedShape(announce[a])
      /\ announce[a].put # "none" => Stored(EmptyManifest)
      /\ announce[a] \in AnnounceType
  BY RegistryAssumption
     DEF Inv, TypeOK, GitTypeOK, NameInv, ResultAtEnd, SeededExists, SeedsStored, Target
<1>1. CASE Walk(a)
  <2>1. /\ announce'[a].put = announce[a].put
        /\ WalkTo(a)
        /\ nameRow' = nameRow
        /\ announce[a].phase # "done"
    <3>1. announce[a].phase # "done"
      BY <1>1 DEF Walk, repo_name_owner, count_repos_for_owner, classify_holder,
         acquire_serving_write, ensure_manifest_pointer, seed_answer, seed_fails
    <3>2. QED
      BY <1>0, <1>1, <3>1, WalkFacts
  <2>2. announce[a].put # "none" => DigestOf(EmptyManifest) # 0
    BY <1>0, DigestOfStored
  <2>3. QED
    BY <1>0, <2>1, <2>2 DEF WalkTo, Succeeding
<1>2. CASE reserve_repo_name(a)
  <2>1. /\ announce'[a].put = announce[a].put /\ announce'[a].result = announce[a].result
        /\ announce[a].phase = "reserve"
        /\ \/ /\ announce'[a].phase = "owned"
              /\ nameRow' = [nameRow EXCEPT ![NameOf[a]] = OwnerOf[a]]
           \/ announce'[a].phase = "classify"
    BY <1>0, <1>2, ReserveFacts
  <2>2. announce[a].result = "none" /\ announce[a].put = "none"
    BY <1>0, <2>1 DEF SeedShape, Unsent
  <2>3. QED
    BY <1>0, <2>1, <2>2 DEF Succeeding
<1>3. CASE seed_manifest_pointer(a)
  BY <1>0, <1>3, SeedFacts DEF Succeeding
<1>4. CASE StoreSeed(a)
  <2>1. announce[a].put = "sent"
    BY <1>0, <1>4, StoreSeedFacts
  <2>2. DigestOf(EmptyManifest) # 0
    BY <1>0, <2>1, DigestOfStored
  <2>3. announce'[a].put = "won" => pointer'[Target(a)] # 0
    BY <1>0, <1>4, <2>2, StoreSeedFacts
  <2>4. QED
    BY <1>0, <1>4, <2>3, StoreSeedFacts
<1>5. CASE release_repo_name(a)
  BY <1>0, <1>5, ReleaseFacts DEF Succeeding
<1>6. CASE emit_initial_ref_state(a)
  BY <1>0, <1>6, EmitFacts DEF Succeeding
<1>7. QED
  BY <1>1, <1>2, <1>3, <1>4, <1>5, <1>6 DEF AnnounceStep, Walk

\* Every step keeps what an announcement has reached.
LEMMA NextNameInv ==
  ASSUME Inv, Inv', NameInv, Next
  PROVE  NameInv'
<1>0. /\ SeededExists /\ NameHeld /\ ResultAtEnd
      /\ \A a \in Announcement : Target(a) \in Repo
      /\ \A r \in Repo : pointer[r] # 0 => pointer'[r] # 0
  BY RegistryAssumption, PointersStay DEF NameInv, Target
<1>1. CASE UNCHANGED <<nameRow, announce>>
  <2>1. SeededExists'
    BY <1>0, <1>1 DEF SeededExists, Target
  <2>2. NameHeld' /\ ResultAtEnd'
    BY <1>0, <1>1 DEF NameHeld, ResultAtEnd, Alone, Target
  <2>3. QED
    BY <2>1, <2>2 DEF NameInv
<1>2. ASSUME NEW a \in Announcement, AnnounceStep(a)
      PROVE  NameInv'
  <2>0. \A b \in Announcement \ {a} : announce'[b] = announce[b]
    BY <1>2, SeedSteps DEF OnlyAnnounce
  <2>1. SeededExists'
    <3> SUFFICES ASSUME NEW b \in Announcement,
                        \/ announce'[b].phase = "seeded"
                        \/ announce'[b].put = "won"
                        \/ announce'[b].result = "ok"
                 PROVE  pointer'[Target(b)] # 0
      BY DEF SeededExists, Target
    <3>1. CASE b = a
      BY <1>0, <1>2, <3>1, OwnStep
    <3>2. CASE b # a
      BY <1>0, <2>0, <3>2 DEF SeededExists
    <3>3. QED
      BY <3>1, <3>2
  <2>2. NameHeld'
    <3> SUFFICES ASSUME NEW b \in Announcement, Alone(b),
                        announce'[b].phase \in Succeeding \/ announce'[b].result = "ok"
                 PROVE  nameRow'[NameOf[b]] = OwnerOf[b]
      BY DEF NameHeld, Alone, Target
    <3>1. CASE b = a
      BY <1>0, <1>2, <3>1, OwnStep DEF NameHeld
    <3>2. CASE b # a
      BY <1>0, <1>2, <2>0, <3>2, OtherNamesStay
    <3>3. QED
      BY <3>1, <3>2
  <2>3. ResultAtEnd'
    BY <1>0, <1>2, <2>0, OwnStep DEF ResultAtEnd
  <2>4. QED
    BY <2>1, <2>2, <2>3 DEF NameInv
<1>3. QED
  BY <1>1, <1>2 DEF Next

\* What a successful announcement has reached, in every state.
LEMMA SpecNameInv == Spec => []NameInv
<1>1. Init => NameInv
  BY DEF Init, Unannounced, NameInv, SeededExists, NameHeld, ResultAtEnd, Succeeding
<1>2. Inv /\ Inv' /\ NameInv /\ [Next]_vars => NameInv'
  <2>1. NameInv /\ UNCHANGED vars => NameInv'
    BY DEF vars, gitVars, NameInv, SeededExists, NameHeld, ResultAtEnd, Alone, Target
  <2>2. QED
    BY <2>1, NextNameInv
<1>3. QED
  BY <1>1, <1>2, SpecInv, PTL DEF Spec

\* An announcement that succeeded has a repository with a pointer for good,
\* however many announcements of the same repository run beside it.
THEOREM AnnouncedStaysSeeded ==
  Spec => [](\A a \in Announcement : announce[a].result = "ok" => pointer[Target(a)] # 0)
<1>1. NameInv => \A a \in Announcement : announce[a].result = "ok" => pointer[Target(a)] # 0
  BY DEF NameInv, SeededExists
<1>2. QED
  BY <1>1, SpecNameInv, PTL

\* Where no repository is announced twice, a successful announcement holds its
\* name for good.  (Without that the name can be lost: the roll-back of a second
\* announcement of the same owner takes it, the run AnnounceRollback.)
THEOREM AnnouncedKeepsName ==
  ASSUME \A a, b \in Announcement : Target(a) = Target(b) => a = b
  PROVE  Spec => []AnnouncedHoldsName
<1>1. NameInv => AnnouncedHoldsName
  BY DEF NameInv, SeededExists, NameHeld, Alone, AnnouncedHoldsName
<1>2. QED
  BY <1>1, SpecNameInv, PTL
=============================================================================
