----------------------- MODULE HarnessCustody_proofs -----------------------
(***************************************************************************)
(* Who holds an event.  The events on the books are those in the tables of *)
(* the queue, with the held batches and with the turns, and the decided    *)
(* ones.  A step takes none of them off the books but the carryover of a   *)
(* failed turn; where there is none, nothing is lost.  And no event is in  *)
(* two places, or comes back once it was decided, unless a turn outlives   *)
(* its deadline while it is steered.                                       *)
(***************************************************************************)
EXTENDS HarnessEvents_proofs

-----------------------------------------------------------------------------
(* The events of a sequence.                                               *)

\* An empty sequence holds nothing.
LEMMA EmptyElements == Elements(<<>>) = {} /\ Distinct(<<>>)
  BY DEF Elements, Distinct

\* Two sequences one after the other.
LEMMA ConcatElements ==
  ASSUME NEW s \in Seq(Event), NEW t \in Seq(Event)
  PROVE  /\ s \o t \in Seq(Event)
         /\ Elements(s \o t) = Elements(s) \cup Elements(t)
         /\ Distinct(s \o t) <=>
              Distinct(s) /\ Distinct(t) /\ Elements(s) \cap Elements(t) = {}
<1> DEFINE c == s \o t
           m == Len(s)
           n == Len(t)
<1>1. m \in Nat /\ n \in Nat /\ DOMAIN s = 1..m /\ DOMAIN t = 1..n
  BY LenProperties
<1>2. /\ c \in Seq(Event) /\ Len(c) = m + n
      /\ \A i \in 1..(m + n) : c[i] = IF i <= m THEN s[i] ELSE t[i - m]
  BY ConcatProperties
<1>3. DOMAIN c = 1..(m + n)
  BY <1>2, LenProperties
<1> HIDE DEF c, m, n
<1>4. /\ \A i \in 1..m : i \in 1..(m + n) /\ c[i] = s[i]
      /\ \A j \in 1..n : m + j \in 1..(m + n) /\ c[m + j] = t[j]
      /\ \A i \in 1..(m + n) : i \in 1..m \/ (i - m \in 1..n /\ i = m + (i - m))
  <2>1. \A i \in 1..m : i \in 1..(m + n) /\ i <= m
    BY <1>1
  <2>2. \A j \in 1..n : m + j \in 1..(m + n) /\ ~(m + j <= m) /\ (m + j) - m = j
    BY <1>1
  <2>3. \A i \in 1..(m + n) : i \in 1..m \/ (i - m \in 1..n /\ i = m + (i - m))
    BY <1>1
  <2>4. QED
    BY <1>2, <2>1, <2>2, <2>3
<1>5. Elements(c) = Elements(s) \cup Elements(t)
  <2>1. \A x \in Elements(c) : x \in Elements(s) \cup Elements(t)
    <3> TAKE x \in Elements(c)
    <3>1. PICK i \in 1..(m + n) : c[i] = x
      BY <1>3 DEF Elements
    <3>2. CASE i \in 1..m
      BY <1>1, <1>4, <3>1, <3>2 DEF Elements
    <3>3. CASE i - m \in 1..n /\ i = m + (i - m)
      <4>1. t[i - m] = x
        BY <1>4, <3>1, <3>3
      <4>2. QED
        BY <1>1, <3>3, <4>1 DEF Elements
    <3>4. QED
      BY <1>4, <3>2, <3>3
  <2>2. \A i \in 1..(m + n) : c[i] \in Elements(c)
    BY <1>3 DEF Elements
  <2>3. \A x \in Elements(s) : x \in Elements(c)
    BY <1>1, <1>4, <2>2 DEF Elements
  <2>4. \A x \in Elements(t) : x \in Elements(c)
    <3> TAKE x \in Elements(t)
    <3>1. PICK j \in 1..n : t[j] = x
      BY <1>1 DEF Elements
    <3>2. QED
      BY <1>4, <2>2, <3>1
  <2>5. QED
    BY <2>1, <2>3, <2>4
<1>6. ASSUME Distinct(s), Distinct(t), Elements(s) \cap Elements(t) = {}
      PROVE  Distinct(c)
  <2> SUFFICES ASSUME NEW i \in 1..(m + n), NEW j \in 1..(m + n), c[i] = c[j]
               PROVE  i = j
    BY <1>3 DEF Distinct
  <2>1. \A k \in 1..m : s[k] \in Elements(s)
    BY <1>1 DEF Elements
  <2>2. \A k \in 1..n : t[k] \in Elements(t)
    BY <1>1 DEF Elements
  <2>3. CASE i \in 1..m /\ j \in 1..m
    BY <1>1, <1>4, <1>6, <2>3 DEF Distinct
  <2>4. CASE i \notin 1..m /\ j \notin 1..m
    <3>1. i - m \in 1..n /\ j - m \in 1..n /\ t[i - m] = t[j - m]
      BY <1>4, <2>4
    <3>2. i - m = j - m
      BY <1>1, <1>6, <3>1 DEF Distinct
    <3>3. QED
      BY <1>1, <3>2
  <2>5. CASE i \in 1..m /\ j \notin 1..m
    BY <1>4, <1>6, <2>1, <2>2, <2>5
  <2>6. CASE i \notin 1..m /\ j \in 1..m
    BY <1>4, <1>6, <2>1, <2>2, <2>6
  <2>7. QED
    BY <2>3, <2>4, <2>5, <2>6
<1>7. ASSUME Distinct(c)
      PROVE  Distinct(s) /\ Distinct(t) /\ Elements(s) \cap Elements(t) = {}
  <2>1. \A i, j \in 1..(m + n) : c[i] = c[j] => i = j
    BY <1>3, <1>7 DEF Distinct
  <2>2. Distinct(s)
    BY <1>1, <1>4, <2>1 DEF Distinct
  <2>3. Distinct(t)
    <3> SUFFICES ASSUME NEW i \in 1..n, NEW j \in 1..n, t[i] = t[j]
                 PROVE  i = j
      BY <1>1 DEF Distinct
    <3>1. m + i = m + j
      BY <1>4, <2>1
    <3>2. QED
      BY <1>1, <3>1
  <2>4. ASSUME NEW x \in Elements(s) \cap Elements(t)
        PROVE  FALSE
    <3>1. PICK i \in 1..m, j \in 1..n : s[i] = x /\ t[j] = x
      BY <1>1 DEF Elements
    <3>2. i = m + j
      BY <1>4, <2>1, <3>1
    <3>3. QED
      BY <1>1, <3>2
  <2>5. QED
    BY <2>2, <2>3, <2>4
<1>8. QED
  BY <1>2, <1>5, <1>6, <1>7 DEF c

\* One event.
LEMMA SingleElements ==
  ASSUME NEW e \in Event
  PROVE  <<e>> \in Seq(Event) /\ Elements(<<e>>) = {e} /\ Distinct(<<e>>)
  BY DEF Elements, Distinct

\* An event at the end of a sequence.
LEMMA AppendElements ==
  ASSUME NEW s \in Seq(Event), NEW e \in Event
  PROVE  /\ Append(s, e) \in Seq(Event)
         /\ Elements(Append(s, e)) = Elements(s) \cup {e}
         /\ Distinct(s) /\ e \notin Elements(s) => Distinct(Append(s, e))
<1>1. Append(s, e) = s \o <<e>>
  BY AppendIsConcat
<1>2. /\ s \o <<e>> \in Seq(Event)
      /\ Elements(s \o <<e>>) = Elements(s) \cup Elements(<<e>>)
      /\ Distinct(s) /\ Distinct(<<e>>) /\ Elements(s) \cap Elements(<<e>>) = {}
           => Distinct(s \o <<e>>)
  BY SingleElements, ConcatElements
<1>3. e \notin Elements(s) => Elements(s) \cap {e} = {}
  OBVIOUS
<1>4. QED
  BY <1>1, <1>2, <1>3, SingleElements

\* A sequence cut in two: the parts share nothing that was there once.
LEMMA SplitElements ==
  ASSUME NEW s \in Seq(Event), NEW k \in 0..Len(s)
  PROVE  LET front == SubSeq(s, 1, k)
             back == SubSeq(s, k + 1, Len(s))
         IN
         /\ front \in Seq(Event) /\ back \in Seq(Event)
         /\ Elements(front) \cup Elements(back) = Elements(s)
         /\ Distinct(s) => /\ Distinct(front) /\ Distinct(back)
                           /\ Elements(front) \cap Elements(back) = {}
<1> DEFINE n == Len(s)
           front == SubSeq(s, 1, k)
           back == SubSeq(s, k + 1, n)
<1>1. n \in Nat
  BY LenProperties
<1>2. front \in Seq(Event) /\ back \in Seq(Event)
  <2>1. \A i \in 1..n : s[i] \in Event
    BY ElementOfSeq
  <2>2. /\ \A i \in 1..k : s[i] \in Event
        /\ \A i \in (k + 1)..n : s[i] \in Event
        /\ 1 \in Int /\ k \in Int /\ k + 1 \in Int /\ n \in Int
    BY <1>1, <2>1
  <2>3. QED
    BY <2>2, SubSeqProperties
<1>3. front \o back = s
  <2>1. 1 \in 1..(n + 1) /\ k \in (1 - 1)..n /\ n \in k..n
    BY <1>1
  <2>2. SubSeq(s, 1, n) = s
    BY SubSeqFull
  <2>3. QED
    BY <2>1, <2>2, ConcatAdjacentSubSeq
<1> HIDE DEF front, back
<1>4. /\ Elements(front \o back) = Elements(front) \cup Elements(back)
      /\ Distinct(front \o back) <=>
           Distinct(front) /\ Distinct(back) /\ Elements(front) \cap Elements(back) = {}
  BY <1>2, ConcatElements
<1>5. QED
  BY <1>2, <1>3, <1>4 DEF front, back

\* The caps of a scope drop events of a queue and bring none.
LEMMA PopElements ==
  ASSUME NEW s \in Seq(Event)
  PROVE  /\ Elements(PopFront(s)) \subseteq Elements(s)
         /\ Elements(PopBack(s)) \subseteq Elements(s)
         /\ Distinct(s) => Distinct(PopFront(s)) /\ Distinct(PopBack(s))
<1> DEFINE m == MAX_PENDING_PER_SCOPE
<1>1. m \in Nat /\ m >= 1 /\ Len(s) \in Nat
  BY QueueAssumption, LenProperties
<1>2. CASE Len(s) > m
  <2>1. m \in 0..Len(s) /\ 1 \in 0..Len(s) /\ 1 + 1 = 2
    BY <1>1, <1>2
  <2>2. s # <<>>
    BY <1>1, <1>2, EmptySeq
  <2>3. PopFront(s) = SubSeq(s, 2, Len(s)) /\ PopBack(s) = SubSeq(s, 1, m)
    BY <1>2, <2>2, TailIsSubSeq DEF PopFront, PopBack
  <2>4. /\ Elements(SubSeq(s, 2, Len(s))) \subseteq Elements(s)
        /\ Distinct(s) => Distinct(SubSeq(s, 2, Len(s)))
    BY <2>1, SplitElements
  <2>5. /\ Elements(SubSeq(s, 1, m)) \subseteq Elements(s)
        /\ Distinct(s) => Distinct(SubSeq(s, 1, m))
    BY <2>1, SplitElements
  <2>6. QED
    BY <2>3, <2>4, <2>5
<1>3. CASE ~(Len(s) > m)
  BY <1>3 DEF PopFront, PopBack
<1>4. QED
  BY <1>2, <1>3

\* Everything but the event itself stays when an event is taken out.
LEMMA WithoutKeeps ==
  ASSUME NEW seq \in Seq(Event), NEW e
  PROVE  Elements(seq) \subseteq Elements(Without(seq, e)) \cup {e}
<1> DEFINE pos == CHOOSE i \in DOMAIN seq : seq[i] = e
           n == Len(seq)
<1>1. n \in Nat /\ DOMAIN seq = 1..n
  BY LenProperties
<1>2. CASE e \notin Elements(seq)
  BY <1>2 DEF Without
<1>3. CASE e \in Elements(seq)
  <2>1. pos \in 1..n /\ seq[pos] = e
    BY <1>1, <1>3 DEF Elements
  <2>2. Without(seq, e) = SubSeq(seq, 1, pos - 1) \o SubSeq(seq, pos + 1, n)
    BY <1>3 DEF Without
  <2> HIDE DEF pos
  <2> DEFINE front == SubSeq(seq, 1, pos - 1)
             mid == SubSeq(seq, pos, n)
             back == SubSeq(seq, pos + 1, n)
  <2>3. pos \in 0..n /\ pos - 1 \in 0..n /\ (pos - 1) + 1 = pos
    BY <1>1, <2>1
  <2>4. front \in Seq(Event) /\ Elements(front) \cup Elements(mid) = Elements(seq)
    BY <2>3, SplitElements
  <2>5. back \in Seq(Event)
    BY <2>3, SplitElements
  <2>6. mid = <<e>> \o back
    <3>1. pos \in 1..n /\ n \in pos..n
      BY <1>1, <2>1
    <3>2. QED
      BY <2>1, <3>1, SubSeqRecursiveFirst
  <2>7. e \in Event
    BY <2>1, ElementOfSeq
  <2>8. Elements(mid) = {e} \cup Elements(back)
    <3>1. <<e>> \in Seq(Event) /\ Elements(<<e>>) = {e}
      BY <2>7, SingleElements
    <3> HIDE DEF mid, back
    <3>2. Elements(<<e>> \o back) = Elements(<<e>>) \cup Elements(back)
      BY <2>5, <3>1, ConcatElements
    <3>3. QED
      BY <2>6, <3>1, <3>2
  <2>9. Elements(front \o back) = Elements(front) \cup Elements(back)
    BY <2>4, <2>5, ConcatElements
  <2>10. QED
    BY <2>2, <2>4, <2>8, <2>9
<1>4. QED
  BY <1>2, <1>3

\* The sort of a batch repeats nothing.
LEMMA SortDistinct ==
  ASSUME NEW seq \in Seq(Event)
  PROVE  /\ SortByCreated(seq) \in Seq(Event)
         /\ Elements(SortByCreated(seq)) = Elements(seq)
         /\ Distinct(seq) => Distinct(SortByCreated(seq))
<1> DEFINE n == Len(seq)
           at(p) == CHOOSE i \in DOMAIN seq : Rank(seq, i) = p
           sorted == SortByCreated(seq)
<1>1. n \in Nat /\ DOMAIN seq = 1..n
  BY LenProperties
<1>2. \A p \in 1..n : at(p) \in 1..n /\ Rank(seq, at(p)) = p
  BY <1>1, RankOnto
<1>3. DOMAIN sorted = 1..n /\ \A p \in 1..n : sorted[p] = seq[at(p)]
  BY <1>1 DEF SortByCreated
<1> HIDE DEF at, sorted
<1>4. Distinct(seq) => Distinct(sorted)
  <2> SUFFICES ASSUME Distinct(seq), NEW p \in 1..n, NEW r \in 1..n, sorted[p] = sorted[r]
               PROVE  p = r
    BY <1>3 DEF Distinct
  <2>1. at(p) = at(r)
    BY <1>1, <1>2, <1>3 DEF Distinct
  <2>2. QED
    BY <1>2, <2>1
<1>5. QED
  BY <1>4, SortIsPermutation DEF sorted

-----------------------------------------------------------------------------
(* The events of a queue.                                                  *)

\* What waits in the queue, and what it has seen and not handed out.
Pending(Q) == EventsIn(Q.queues) \cup EventsIn(Q.cancelled) \cup EventsIn(Q.withheld)
Known(Q) == Pending(Q) \cup Q.evicted

\* The same events in the same places.
SameEvents(Q, R) ==
  /\ R.queues = Q.queues /\ R.cancelled = Q.cancelled
  /\ R.withheld = Q.withheld /\ R.evicted = Q.evicted

\* X comes in and nothing goes, but for what a cap evicts.
Gains(Q, R, X) == Known(R) = Known(Q) \cup X /\ Q.evicted \subseteq R.evicted

\* An event waits in one place.
Apart(Q) ==
  /\ \A s \in Scope :
       Distinct(Q.queues[s]) /\ Distinct(Q.cancelled[s]) /\ Distinct(Q.withheld[s])
  /\ \A e \in Event : \A s, t \in Scope :
       /\ e \in Elements(Q.queues[s]) /\ e \in Elements(Q.queues[t]) => s = t
       /\ e \in Elements(Q.cancelled[s]) /\ e \in Elements(Q.cancelled[t]) => s = t
       /\ e \in Elements(Q.withheld[s]) /\ e \in Elements(Q.withheld[t]) => s = t
       /\ e \in Elements(Q.queues[s]) => e \notin Elements(Q.cancelled[t])
       /\ e \in Elements(Q.queues[s]) => e \notin Elements(Q.withheld[t])
       /\ e \in Elements(Q.cancelled[s]) => e \notin Elements(Q.withheld[t])

\* And an evicted one nowhere.
Clean(Q) == Apart(Q) /\ Pending(Q) \cap Q.evicted = {}

\* What is in a table is in the sequence of a scope.
LEMMA InTable ==
  ASSUME NEW T, NEW e
  PROVE  e \in EventsIn(T) <=> \E s \in Scope : e \in Elements(T[s])
  BY DEF EventsIn

\* What waits, scope by scope.
LEMMA InPending ==
  ASSUME NEW Q, NEW e
  PROVE  e \in Pending(Q) <=>
           \E s \in Scope : \/ e \in Elements(Q.queues[s])
                            \/ e \in Elements(Q.cancelled[s])
                            \/ e \in Elements(Q.withheld[s])
<1>1. /\ e \in EventsIn(Q.queues) <=> \E s \in Scope : e \in Elements(Q.queues[s])
      /\ e \in EventsIn(Q.cancelled) <=> \E s \in Scope : e \in Elements(Q.cancelled[s])
      /\ e \in EventsIn(Q.withheld) <=> \E s \in Scope : e \in Elements(Q.withheld[s])
  BY InTable
<1>2. QED
  BY <1>1 DEF Pending

\* Queues with the same events.
LEMMA SameEventsFacts ==
  ASSUME NEW Q, NEW R, SameEvents(Q, R)
  PROVE  /\ Pending(R) = Pending(Q) /\ Known(R) = Known(Q) /\ Gains(Q, R, {})
         /\ Clean(Q) => Clean(R)
<1>1. Pending(R) = Pending(Q) /\ Known(R) = Known(Q)
  BY DEF SameEvents, Pending, Known
<1>2. Gains(Q, R, {})
  BY <1>1 DEF Gains, SameEvents
<1>3. Clean(Q) => Clean(R)
  BY <1>1 DEF Clean, Apart, SameEvents
<1>4. QED
  BY <1>1, <1>2, <1>3

\* The events of one scope, and of the others.
Here(Q, s) ==
  Elements(Q.queues[s]) \cup Elements(Q.cancelled[s]) \cup Elements(Q.withheld[s])
Elsewhere(Q, s) == UNION {Here(Q, t) : t \in Scope \ {s}}

\* One scope keeps its events apart.
Neat(Q, s) ==
  /\ Distinct(Q.queues[s]) /\ Distinct(Q.cancelled[s]) /\ Distinct(Q.withheld[s])
  /\ Elements(Q.queues[s]) \cap Elements(Q.cancelled[s]) = {}
  /\ Elements(Q.queues[s]) \cap Elements(Q.withheld[s]) = {}
  /\ Elements(Q.cancelled[s]) \cap Elements(Q.withheld[s]) = {}

\* Only the events of one scope may differ.
OnlyAt(Q, R, s) ==
  /\ R.evicted = Q.evicted
  /\ \A t \in Scope \ {s} :
       /\ R.queues[t] = Q.queues[t]
       /\ R.cancelled[t] = Q.cancelled[t]
       /\ R.withheld[t] = Q.withheld[t]

\* The events of a queue are the ones of a scope and of the others.
LEMMA HereElsewhere ==
  ASSUME NEW Q, NEW s \in Scope
  PROVE  Pending(Q) = Here(Q, s) \cup Elsewhere(Q, s)
<1>1. ASSUME NEW e
      PROVE  e \in Pending(Q) <=> e \in Here(Q, s) \cup Elsewhere(Q, s)
  <2>1. e \in Pending(Q) <=> \E t \in Scope : e \in Here(Q, t)
    BY InPending DEF Here
  <2>2. e \in Elsewhere(Q, s) <=> \E t \in Scope : t # s /\ e \in Here(Q, t)
    BY DEF Elsewhere
  <2>3. QED
    BY <2>1, <2>2
<1>2. QED
  BY <1>1

\* In a clean queue the events of a scope are apart from each other and from
\* the ones of the other scopes.
LEMMA CleanHere ==
  ASSUME NEW Q \in QueueType, NEW s \in Scope, Clean(Q)
  PROVE  /\ Neat(Q, s) /\ Here(Q, s) \cap Elsewhere(Q, s) = {}
         /\ Here(Q, s) \cap Q.evicted = {} /\ Elsewhere(Q, s) \cap Q.evicted = {}
<1>1. \A t \in Scope : Here(Q, t) \subseteq Event
  BY ElementsType DEF Here, QueueType
<1>2. Neat(Q, s)
  <2>1. \A e \in Event : /\ ~(e \in Elements(Q.queues[s]) /\ e \in Elements(Q.cancelled[s]))
                         /\ ~(e \in Elements(Q.queues[s]) /\ e \in Elements(Q.withheld[s]))
                         /\ ~(e \in Elements(Q.cancelled[s]) /\ e \in Elements(Q.withheld[s]))
    BY DEF Clean, Apart
  <2>2. QED
    BY <1>1, <2>1 DEF Clean, Apart, Neat, Here
<1>3. ASSUME NEW e \in Here(Q, s), NEW t \in Scope, t # s, e \in Here(Q, t)
      PROVE  FALSE
  <2>1. e \in Event
    BY <1>1
  <2>2. QED
    BY <1>3, <2>1 DEF Clean, Apart, Here
<1>4. Here(Q, s) \cap Elsewhere(Q, s) = {}
  BY <1>3 DEF Elsewhere
<1>5. QED
  BY <1>2, <1>4, HereElsewhere DEF Clean

\* Scopes that are neat and share nothing make a queue that keeps events apart.
LEMMA NeatApart ==
  ASSUME NEW R, \A t \in Scope : Neat(R, t),
         \A t, u \in Scope : t # u => \A e \in Here(R, t) : ~(e \in Here(R, u))
  PROVE  Apart(R)
<1>1. ASSUME NEW e \in Event, NEW t \in Scope, NEW u \in Scope
      PROVE  /\ e \in Elements(R.queues[t]) /\ e \in Elements(R.queues[u]) => t = u
             /\ e \in Elements(R.cancelled[t]) /\ e \in Elements(R.cancelled[u]) => t = u
             /\ e \in Elements(R.withheld[t]) /\ e \in Elements(R.withheld[u]) => t = u
             /\ e \in Elements(R.queues[t]) => e \notin Elements(R.cancelled[u])
             /\ e \in Elements(R.queues[t]) => e \notin Elements(R.withheld[u])
             /\ e \in Elements(R.cancelled[t]) => e \notin Elements(R.withheld[u])
  <2>1. t # u => ~(e \in Here(R, t) /\ e \in Here(R, u))
    OBVIOUS
  <2>2. Neat(R, t)
    OBVIOUS
  <2>3. QED
    BY <2>1, <2>2 DEF Here, Neat
<1>2. QED
  BY <1>1 DEF Apart, Neat

\* A queue that changed at one scope is clean if the scope is.
LEMMA OneScope ==
  ASSUME NEW Q \in QueueType, NEW R \in QueueType, NEW s \in Scope, OnlyAt(Q, R, s)
  PROVE  /\ Pending(R) = Here(R, s) \cup Elsewhere(Q, s)
         /\ /\ Clean(Q) /\ Neat(R, s)
            /\ Here(R, s) \cap Elsewhere(Q, s) = {} /\ Here(R, s) \cap Q.evicted = {}
            => Clean(R)
<1>1. Elsewhere(R, s) = Elsewhere(Q, s)
  <2>1. \A t \in Scope \ {s} : Here(R, t) = Here(Q, t)
    BY DEF OnlyAt, Here
  <2>2. QED
    BY <2>1 DEF Elsewhere
<1>2. Pending(R) = Here(R, s) \cup Elsewhere(Q, s)
  BY <1>1, HereElsewhere
<1>3. ASSUME Clean(Q), Neat(R, s), Here(R, s) \cap Elsewhere(Q, s) = {},
             Here(R, s) \cap Q.evicted = {}
      PROVE  Clean(R)
  <2>1. Pending(R) \cap R.evicted = {}
    BY <1>2, <1>3, CleanHere DEF OnlyAt
  <2>2. ASSUME NEW t \in Scope
        PROVE  Neat(R, t)
    <3>1. CASE t = s
      BY <1>3, <3>1
    <3>2. CASE t # s
      <4>1. Neat(Q, t)
        BY <1>3, CleanHere
      <4>2. QED
        BY <3>2, <4>1 DEF OnlyAt, Neat
    <3>3. QED
      BY <3>1, <3>2
  <2>3. ASSUME NEW t \in Scope, NEW u \in Scope, t # u, NEW e \in Here(R, t), e \in Here(R, u)
        PROVE  FALSE
    <3>1. CASE t = s
      <4>1. e \in Elsewhere(R, s)
        BY <2>3, <3>1 DEF Elsewhere
      <4>2. QED
        BY <1>1, <1>3, <2>3, <3>1, <4>1
    <3>2. CASE u = s
      <4>1. e \in Elsewhere(R, s)
        BY <2>3, <3>2 DEF Elsewhere
      <4>2. QED
        BY <1>1, <1>3, <2>3, <3>2, <4>1
    <3>3. CASE t # s /\ u # s
      <4>1. e \in Here(Q, t) /\ e \in Here(Q, u)
        BY <2>3, <3>3 DEF OnlyAt, Here
      <4>2. e \in Elsewhere(Q, t)
        BY <2>3, <4>1 DEF Elsewhere
      <4>3. QED
        BY <1>3, <4>1, <4>2, CleanHere
    <3>4. QED
      BY <3>1, <3>2, <3>3
  <2>4. Apart(R)
    BY <2>2, <2>3, NeatApart
  <2>5. QED
    BY <2>1, <2>4 DEF Clean
<1>4. QED
  BY <1>2, <1>3

\* R is F after the caps took events off its queues.
Cuts(F, R) ==
  /\ R.cancelled = F.cancelled /\ R.withheld = F.withheld
  /\ \A s \in Scope : /\ Elements(R.queues[s]) \subseteq Elements(F.queues[s])
                      /\ Distinct(F.queues[s]) => Distinct(R.queues[s])
  /\ R.evicted = F.evicted \cup (EventsIn(F.queues) \ EventsIn(R.queues))

\* What the caps take off is evicted.
LEMMA CutsFacts ==
  ASSUME NEW F \in QueueType, NEW R, Cuts(F, R)
  PROVE  Gains(F, R, {}) /\ (Clean(F) => Clean(R))
<1>1. EventsIn(R.queues) \subseteq EventsIn(F.queues)
  BY DEF Cuts, EventsIn
<1>2. Gains(F, R, {})
  BY <1>1 DEF Cuts, Gains, Known, Pending
<1>3. ASSUME Clean(F)
      PROVE  Clean(R)
  <2>1. Apart(R)
    BY <1>3 DEF Clean, Apart, Cuts
  <2>2. ASSUME NEW e \in Pending(R), e \in R.evicted
        PROVE  FALSE
    <3>1. e \in Pending(F)
      BY <1>1, <2>2 DEF Pending, Cuts
    <3>2. e \notin F.evicted
      BY <1>3, <3>1 DEF Clean
    <3>3. e \in EventsIn(F.queues) /\ e \notin EventsIn(R.queues)
      BY <2>2, <3>2 DEF Cuts
    <3>4. e \in EventsIn(F.cancelled) \/ e \in EventsIn(F.withheld)
      BY <2>2, <3>3 DEF Pending, Cuts
    <3>5. PICK s \in Scope : e \in Elements(F.queues[s])
      BY <3>3, InTable
    <3>6. PICK t \in Scope : e \in Elements(F.cancelled[t]) \/ e \in Elements(F.withheld[t])
      BY <3>4, InTable
    <3>7. e \in Event
      BY <3>5, ElementsType DEF QueueType
    <3>8. QED
      BY <1>3, <3>5, <3>6, <3>7 DEF Clean, Apart
  <2>3. QED
    BY <2>1, <2>2 DEF Clean
<1>4. QED
  BY <1>2, <1>3

\* The channel cap drops events of the queues and brings none.
LEMMA CapElements ==
  ASSUME NEW T \in [Scope -> Seq(Event)], NEW s \in Scope
  PROVE  /\ Elements(enforce_channel_cap(T)[s]) \subseteq Elements(T[s])
         /\ Distinct(T[s]) => Distinct(enforce_channel_cap(T)[s])
<1> DEFINE k == EvictionCount(T, s)
<1>1. k \in 0..Len(T[s]) /\ T[s] \in Seq(Event)
  BY EvictionCountType
<1>2. enforce_channel_cap(T)[s] = SubSeq(T[s], k + 1, Len(T[s]))
  BY DEF enforce_channel_cap
<1> HIDE DEF k
<1>3. QED
  BY <1>1, <1>2, SplitElements

\* A queue of one scope is stored under the caps.
LEMMA StoreFacts ==
  ASSUME NEW Q \in QueueType, NEW s \in Scope,
         NEW full \in Seq(Event), NEW cut \in Seq(Event), NEW X,
         Elements(full) = Elements(Q.queues[s]) \cup X,
         Elements(cut) \subseteq Elements(full), Distinct(full) => Distinct(cut)
  PROVE  LET R == Store(Q, s, full, cut) IN
         /\ Gains(Q, R, X)
         /\ Clean(Q) /\ Distinct(full) /\ X \cap Known(Q) = {} => Clean(R)
         /\ \A t \in Scope \ {s} : Elements(R.queues[t]) \subseteq Elements(Q.queues[t])
<1> DEFINE table == [Q.queues EXCEPT ![s] = full]
           short == [Q.queues EXCEPT ![s] = cut]
           kept == enforce_channel_cap(short)
           F == [Q EXCEPT !.queues = table]
           gone == Q.evicted \cup (EventsIn(table) \ EventsIn(kept))
           R == [Q EXCEPT !.queues = kept, !.evicted = gone]
<1>1. Store(Q, s, full, cut) = R
  BY DEF Store
<1>2. /\ table \in [Scope -> Seq(Event)] /\ table[s] = full
      /\ \A t \in Scope \ {s} : table[t] = Q.queues[t]
      /\ short \in [Scope -> Seq(Event)] /\ short[s] = cut
      /\ \A t \in Scope \ {s} : short[t] = Q.queues[t]
  BY DEF QueueType
<1>3. \A t \in Scope : /\ Elements(kept[t]) \subseteq Elements(table[t])
                       /\ Distinct(table[t]) => Distinct(kept[t])
  <2> TAKE t \in Scope
  <2>1. /\ Elements(kept[t]) \subseteq Elements(short[t])
        /\ Distinct(short[t]) => Distinct(kept[t])
    BY <1>2, CapElements
  <2> HIDE DEF kept, short, table
  <2>2. CASE t = s
    BY <1>2, <2>1, <2>2
  <2>3. CASE t # s
    BY <1>2, <2>1, <2>3
  <2>4. QED
    BY <2>2, <2>3
<1> HIDE DEF kept, short, table
<1>4. /\ F \in QueueType /\ F.queues = table /\ F.cancelled = Q.cancelled
      /\ F.withheld = Q.withheld /\ F.evicted = Q.evicted
  BY <1>2 DEF QueueType
<1> HIDE DEF gone
<1>5. /\ R.queues = kept /\ R.cancelled = Q.cancelled
      /\ R.withheld = Q.withheld /\ R.evicted = gone
  BY DEF QueueType
<1> HIDE DEF F, R
<1>6. Cuts(F, R)
  BY <1>3, <1>4, <1>5 DEF Cuts, gone
<1>7. OnlyAt(Q, F, s) /\ Here(F, s) = Here(Q, s) \cup X
  BY <1>2, <1>4 DEF OnlyAt, Here
<1>8. Pending(F) = Pending(Q) \cup X
  BY <1>4, <1>7, OneScope, HereElsewhere
<1>9. Gains(F, R, {}) /\ (Clean(F) => Clean(R))
  BY <1>4, <1>6, CutsFacts
<1>10. Gains(Q, R, X)
  BY <1>4, <1>8, <1>9 DEF Gains, Known
<1>11. ASSUME Clean(Q), Distinct(full), X \cap Known(Q) = {}
       PROVE  Clean(F)
  <2>1. Neat(Q, s) /\ Here(Q, s) \cap Elsewhere(Q, s) = {} /\ Here(Q, s) \cap Q.evicted = {}
    BY <1>11, CleanHere
  <2>2. /\ X \cap Here(Q, s) = {} /\ X \cap Elsewhere(Q, s) = {}
        /\ X \cap Q.evicted = {}
    BY <1>11, HereElsewhere DEF Known
  <2>3. Here(F, s) \cap Elsewhere(Q, s) = {} /\ Here(F, s) \cap Q.evicted = {}
    BY <1>7, <2>1, <2>2
  <2>4. Neat(F, s)
    BY <1>2, <1>4, <1>11, <2>1, <2>2 DEF Neat, Here
  <2>5. QED
    BY <1>4, <1>7, <1>11, <2>3, <2>4, OneScope
<1>12. \A t \in Scope \ {s} : Elements(R.queues[t]) \subseteq Elements(Q.queues[t])
  BY <1>2, <1>3, <1>5
<1>13. QED
  BY <1>1, <1>9, <1>10, <1>11, <1>12

\* push adds one event.
LEMMA PushFacts ==
  ASSUME NEW Q \in QueueType, NEW s \in Scope, NEW e \in Event
  PROVE  LET R == push(Q, s, e) IN
         /\ Gains(Q, R, {e})
         /\ Clean(Q) /\ e \notin Known(Q) => Clean(R)
         /\ \A t \in Scope \ {s} : Elements(R.queues[t]) \subseteq Elements(Q.queues[t])
<1> DEFINE full == Append(Q.queues[s], e)
           cut == PopFront(full)
<1>1. Q.queues[s] \in Seq(Event)
  BY DEF QueueType
<1>2. /\ full \in Seq(Event) /\ Elements(full) = Elements(Q.queues[s]) \cup {e}
      /\ Distinct(Q.queues[s]) /\ e \notin Elements(Q.queues[s]) => Distinct(full)
  BY <1>1, AppendElements
<1> HIDE DEF full
<1>3. /\ cut \in Seq(Event) /\ Elements(cut) \subseteq Elements(full)
      /\ Distinct(full) => Distinct(cut)
  BY <1>2, PopType, PopElements
<1> HIDE DEF cut
<1>4. push(Q, s, e) = Store(Q, s, full, cut)
  BY DEF push, full, cut
<1>5. ASSUME Clean(Q), e \notin Known(Q)
      PROVE  Distinct(full) /\ {e} \cap Known(Q) = {}
  <2>1. e \notin Here(Q, s) /\ Neat(Q, s)
    BY <1>5, HereElsewhere, CleanHere DEF Known
  <2>2. QED
    BY <1>2, <1>5, <2>1 DEF Here, Neat
<1> DEFINE X == {e}
<1>6. Elements(full) = Elements(Q.queues[s]) \cup X
  BY <1>2
<1> HIDE DEF X
<1>7. LET R == Store(Q, s, full, cut) IN
      /\ Gains(Q, R, X)
      /\ Clean(Q) /\ Distinct(full) /\ X \cap Known(Q) = {} => Clean(R)
      /\ \A t \in Scope \ {s} : Elements(R.queues[t]) \subseteq Elements(Q.queues[t])
  BY <1>2, <1>3, <1>6, StoreFacts
<1>8. QED
  BY <1>4, <1>5, <1>7 DEF X

\* A new event is queued for its scope or evicted at once.
LEMMA PushedEvent ==
  ASSUME NEW Q \in QueueType, NEW s \in Scope, NEW e \in Event, e \notin Known(Q)
  PROVE  LET R == push(Q, s, e) IN e \in Elements(R.queues[s]) \/ e \in R.evicted
<1> DEFINE R == push(Q, s, e)
<1>1. /\ Gains(Q, R, {e})
      /\ \A t \in Scope \ {s} : Elements(R.queues[t]) \subseteq Elements(Q.queues[t])
  BY PushFacts
<1>2. R.cancelled = Q.cancelled /\ R.withheld = Q.withheld
  BY PushTables DEF SameTables
<1> HIDE DEF R
<1>3. ASSUME e \in Pending(R) PROVE e \in Elements(R.queues[s])
  <2>1. PICK t \in Scope : \/ e \in Elements(R.queues[t])
                           \/ e \in Elements(R.cancelled[t])
                           \/ e \in Elements(R.withheld[t])
    BY <1>3, InPending
  <2>2. /\ e \notin Elements(Q.queues[t]) /\ e \notin Elements(Q.cancelled[t])
        /\ e \notin Elements(Q.withheld[t])
    BY InPending DEF Known
  <2>3. QED
    BY <1>1, <1>2, <2>1, <2>2
<1>4. QED
  BY <1>1, <1>3 DEF Gains, Known, R

\* Events go back to the front of a queue.
LEMMA PushFrontFacts ==
  ASSUME NEW Q \in QueueType, NEW s \in Scope, NEW events \in Seq(Event)
  PROVE  LET R == PushFront(Q, s, events) IN
         /\ Gains(Q, R, Elements(events))
         /\ Clean(Q) /\ Distinct(events) /\ Elements(events) \cap Known(Q) = {} => Clean(R)
<1> DEFINE full == events \o Q.queues[s]
           cut == PopBack(full)
<1>1. Q.queues[s] \in Seq(Event)
  BY DEF QueueType
<1>2. /\ full \in Seq(Event) /\ Elements(full) = Elements(events) \cup Elements(Q.queues[s])
      /\ Distinct(full) <=> /\ Distinct(events) /\ Distinct(Q.queues[s])
                            /\ Elements(events) \cap Elements(Q.queues[s]) = {}
  BY <1>1, ConcatElements
<1> HIDE DEF full
<1>3. /\ cut \in Seq(Event) /\ Elements(cut) \subseteq Elements(full)
      /\ Distinct(full) => Distinct(cut)
  BY <1>2, PopType, PopElements
<1> HIDE DEF cut
<1>4. PushFront(Q, s, events) = Store(Q, s, full, cut)
  BY DEF PushFront, full, cut
<1>5. ASSUME Clean(Q), Distinct(events), Elements(events) \cap Known(Q) = {}
      PROVE  Distinct(full)
  <2>1. Elements(events) \cap Here(Q, s) = {} /\ Neat(Q, s)
    BY <1>5, HereElsewhere, CleanHere DEF Known
  <2>2. QED
    BY <1>2, <1>5, <2>1 DEF Here, Neat
<1>6. Elements(full) = Elements(Q.queues[s]) \cup Elements(events)
  BY <1>2
<1>7. QED
  BY <1>2, <1>3, <1>4, <1>5, <1>6, StoreFacts

\* Two additions one after the other.
LEMMA GainsThen ==
  ASSUME NEW Q, NEW P, NEW R, NEW X, NEW Y, Gains(Q, P, X), Gains(P, R, Y)
  PROVE  Gains(Q, R, X \cup Y)
  BY DEF Gains

\* A steered event moves inside its scope.
LEMMA MarkFacts ==
  ASSUME NEW Q \in QueueType, NEW s \in Scope, NEW e \in Event
  PROVE  LET R == mark_native_steer_pending(Q, s, e) IN
         /\ Pending(R) = Pending(Q) /\ R.evicted = Q.evicted
         /\ Clean(Q) => Clean(R)
         /\ e \in Elements(Q.queues[s]) => e \in Elements(R.withheld[s])
         /\ \A t \in Scope : Elements(Q.withheld[t]) \subseteq Elements(R.withheld[t])
<1> DEFINE w == Append(Q.withheld[s], e)
           r == Without(Q.queues[s], e)
           M == [Q EXCEPT !.queues[s] = r, !.withheld[s] = w]
<1>1. Q.queues[s] \in Seq(Event) /\ Q.withheld[s] \in Seq(Event)
  BY DEF QueueType
<1>2. /\ w \in Seq(Event) /\ Elements(w) = Elements(Q.withheld[s]) \cup {e}
      /\ Distinct(Q.withheld[s]) /\ e \notin Elements(Q.withheld[s]) => Distinct(w)
  BY <1>1, AppendElements
<1>3. /\ r \in Seq(Event) /\ Elements(r) \subseteq Elements(Q.queues[s])
      /\ Elements(Q.queues[s]) \subseteq Elements(r) \cup {e}
      /\ Distinct(Q.queues[s]) => Distinct(r) /\ e \notin Elements(r)
  BY <1>1, WithoutType, WithoutElements, WithoutKeeps
<1> HIDE DEF w, r
<1>4. CASE e \in Elements(Q.queues[s])
  <2>1. mark_native_steer_pending(Q, s, e) = M
    BY <1>4 DEF mark_native_steer_pending, w, r
  <2>2. /\ M \in QueueType /\ M.queues = [Q.queues EXCEPT ![s] = r]
        /\ M.withheld = [Q.withheld EXCEPT ![s] = w]
        /\ M.cancelled = Q.cancelled /\ M.evicted = Q.evicted
    BY <1>2, <1>3 DEF QueueType
  <2> HIDE DEF M
  <2>3. /\ M.queues[s] = r /\ M.withheld[s] = w
        /\ \A t \in Scope \ {s} : M.queues[t] = Q.queues[t] /\ M.withheld[t] = Q.withheld[t]
    BY <2>2 DEF QueueType
  <2>4. OnlyAt(Q, M, s)
    BY <2>2, <2>3 DEF OnlyAt
  <2>5. Here(M, s) = Here(Q, s)
    BY <1>2, <1>3, <1>4, <2>2, <2>3 DEF Here
  <2>6. Pending(M) = Pending(Q)
    <3>1. Pending(M) = Here(M, s) \cup Elsewhere(Q, s)
      BY <2>2, <2>4, OneScope
    <3>2. QED
      BY <2>5, <3>1, HereElsewhere
  <2>7. ASSUME Clean(Q) PROVE Clean(M)
    <3>1. /\ Neat(Q, s) /\ Here(Q, s) \cap Elsewhere(Q, s) = {}
          /\ Here(Q, s) \cap Q.evicted = {}
      BY <2>7, CleanHere
    <3>2. Neat(M, s)
      BY <1>2, <1>3, <1>4, <2>2, <2>3, <3>1 DEF Neat
    <3>3. QED
      BY <2>2, <2>4, <2>5, <2>7, <3>1, <3>2, OneScope
  <2>8. \A t \in Scope : Elements(Q.withheld[t]) \subseteq Elements(M.withheld[t])
    <3> TAKE t \in Scope
    <3>1. CASE t = s
      BY <1>2, <2>3, <3>1
    <3>2. CASE t # s
      BY <2>3, <3>2
    <3>3. QED
      BY <3>1, <3>2
  <2>9. e \in Elements(M.withheld[s])
    BY <1>2, <2>3
  <2>10. QED
    BY <2>1, <2>2, <2>6, <2>7, <2>8, <2>9
<1>5. CASE e \notin Elements(Q.queues[s])
  BY <1>5 DEF mark_native_steer_pending
<1>6. QED
  BY <1>4, <1>5

\* A released event stays in the queue, or is evicted.
LEMMA ReleaseFacts ==
  ASSUME NEW Q \in QueueType, NEW s \in Scope, NEW e \in Event
  PROVE  LET R == release_native_steer(Q, s, e) IN
         Gains(Q, R, {}) /\ (Clean(Q) => Clean(R))
<1> DEFINE w == Without(Q.withheld[s], e)
           P == [Q EXCEPT !.withheld[s] = w]
           R == release_native_steer(Q, s, e)
<1>1. Q.withheld[s] \in Seq(Event)
  BY DEF QueueType
<1>2. /\ w \in Seq(Event) /\ Elements(w) \subseteq Elements(Q.withheld[s])
      /\ Elements(Q.withheld[s]) \subseteq Elements(w) \cup {e}
      /\ Distinct(Q.withheld[s]) => Distinct(w) /\ e \notin Elements(w)
  BY <1>1, WithoutType, WithoutElements, WithoutKeeps
<1>3. CASE e \notin Elements(Q.withheld[s])
  <2>1. R = Q
    BY <1>3 DEF release_native_steer
  <2>2. QED
    BY <2>1 DEF Gains
<1>4. CASE e \in Elements(Q.withheld[s])
  <2>1. R = PushFront(P, s, <<e>>)
    BY <1>4 DEF release_native_steer
  <2> HIDE DEF w, R
  <2>2. /\ P \in QueueType /\ P.withheld = [Q.withheld EXCEPT ![s] = w]
        /\ P.queues = Q.queues /\ P.cancelled = Q.cancelled /\ P.evicted = Q.evicted
    BY <1>2 DEF QueueType
  <2> HIDE DEF P
  <2>3. P.withheld[s] = w /\ \A t \in Scope \ {s} : P.withheld[t] = Q.withheld[t]
    BY <2>2 DEF QueueType
  <2>4. OnlyAt(Q, P, s)
    BY <2>2, <2>3 DEF OnlyAt
  <2>5. Here(P, s) \subseteq Here(Q, s) /\ Here(P, s) \cup {e} = Here(Q, s)
    BY <1>2, <1>4, <2>2, <2>3 DEF Here
  <2>6. Pending(P) \cup {e} = Pending(Q)
    BY <2>2, <2>4, <2>5, OneScope, HereElsewhere
  <2>7. <<e>> \in Seq(Event) /\ Elements(<<e>>) = {e} /\ Distinct(<<e>>)
    BY SingleElements
  <2> DEFINE one == <<e>>
  <2> HIDE DEF one
  <2>8. /\ Gains(P, R, Elements(one))
        /\ Clean(P) /\ Distinct(one) /\ Elements(one) \cap Known(P) = {} => Clean(R)
    BY <2>1, <2>2, <2>7, PushFrontFacts DEF one
  <2>9. Gains(Q, R, {})
    BY <2>2, <2>6, <2>7, <2>8 DEF Gains, Known, one
  <2>10. ASSUME Clean(Q) PROVE Clean(R)
    <3>1. /\ Neat(Q, s) /\ Here(Q, s) \cap Elsewhere(Q, s) = {}
          /\ Here(Q, s) \cap Q.evicted = {}
      BY <2>10, CleanHere
    <3>2. Neat(P, s)
      BY <1>2, <2>2, <2>3, <3>1 DEF Neat
    <3>3. Clean(P)
      BY <2>2, <2>4, <2>5, <2>10, <3>1, <3>2, OneScope
    <3>4. e \notin Here(P, s)
      BY <1>2, <1>4, <2>2, <2>3, <3>1 DEF Here, Neat
    <3>5. e \notin Known(P)
      <4>1. e \in Here(Q, s)
        BY <1>4 DEF Here
      <4>2. Pending(P) = Here(P, s) \cup Elsewhere(Q, s)
        BY <2>2, <2>4, OneScope
      <4>3. QED
        BY <2>2, <3>1, <3>4, <4>1, <4>2 DEF Known
    <3>6. QED
      BY <2>7, <2>8, <3>3, <3>5 DEF one
  <2>11. QED
    BY <2>9, <2>10 DEF R
<1>5. QED
  BY <1>3, <1>4

\* A delivered event leaves its scope, and nothing else does.
LEMMA RemoveFacts ==
  ASSUME NEW Q \in QueueType, NEW s \in Scope, NEW e \in Event
  PROVE  LET R == remove_event(extend_in_flight_deadline(Q, s), s, e) IN
         /\ Pending(R) \subseteq Pending(Q) /\ Pending(Q) \subseteq Pending(R) \cup {e}
         /\ R.evicted = Q.evicted
         /\ Clean(Q) => Clean(R)
         /\ Clean(Q) /\ e \in Elements(Q.withheld[s]) => e \notin Pending(R)
         /\ \A t \in Scope : Elements(Q.withheld[t]) \subseteq Elements(R.withheld[t]) \cup {e}
<1> DEFINE P == extend_in_flight_deadline(Q, s)
           R == remove_event(P, s, e)
           w == Without(Q.withheld[s], e)
           r == Without(Q.queues[s], e)
<1>1. Q.queues[s] \in Seq(Event) /\ Q.withheld[s] \in Seq(Event)
  BY DEF QueueType
<1>2. /\ w \in Seq(Event) /\ Elements(w) \subseteq Elements(Q.withheld[s])
      /\ Elements(Q.withheld[s]) \subseteq Elements(w) \cup {e}
      /\ Distinct(Q.withheld[s]) => Distinct(w) /\ e \notin Elements(w)
  BY <1>1, WithoutType, WithoutElements, WithoutKeeps
<1>3. /\ r \in Seq(Event) /\ Elements(r) \subseteq Elements(Q.queues[s])
      /\ Elements(Q.queues[s]) \subseteq Elements(r) \cup {e}
      /\ Distinct(Q.queues[s]) => Distinct(r) /\ e \notin Elements(r)
  BY <1>1, WithoutType, WithoutElements, WithoutKeeps
<1>4. R \in QueueType
  <2>1. P \in QueueType
    BY ExtendType
  <2> HIDE DEF P
  <2>2. QED
    BY <2>1, RemoveEventType
<1>5. /\ R.queues = [Q.queues EXCEPT ![s] = r] /\ R.withheld = [Q.withheld EXCEPT ![s] = w]
      /\ R.cancelled = Q.cancelled
  BY RemoveTables
<1>6. R.evicted = Q.evicted
  BY DEF remove_event, extend_in_flight_deadline, QueueType
<1> HIDE DEF P, R, w, r
<1>7. /\ R.queues[s] = r /\ R.withheld[s] = w
      /\ \A t \in Scope \ {s} : R.queues[t] = Q.queues[t] /\ R.withheld[t] = Q.withheld[t]
  BY <1>5 DEF QueueType
<1>8. OnlyAt(Q, R, s)
  BY <1>5, <1>6, <1>7 DEF OnlyAt
<1>9. Here(R, s) \subseteq Here(Q, s) /\ Here(Q, s) \subseteq Here(R, s) \cup {e}
  BY <1>2, <1>3, <1>5, <1>7 DEF Here
<1>10. /\ Pending(R) = Here(R, s) \cup Elsewhere(Q, s)
       /\ Pending(Q) = Here(Q, s) \cup Elsewhere(Q, s)
  BY <1>4, <1>8, OneScope, HereElsewhere
<1>11. ASSUME Clean(Q)
       PROVE  /\ Neat(Q, s) /\ Here(Q, s) \cap Elsewhere(Q, s) = {}
              /\ Here(Q, s) \cap Q.evicted = {}
  BY <1>11, CleanHere
<1>12. ASSUME Clean(Q) PROVE Clean(R)
  <2>1. Neat(R, s)
    BY <1>2, <1>3, <1>5, <1>7, <1>11, <1>12 DEF Neat
  <2>2. Here(R, s) \cap Elsewhere(Q, s) = {} /\ Here(R, s) \cap Q.evicted = {}
    BY <1>9, <1>11, <1>12
  <2>3. QED
    BY <1>4, <1>8, <1>12, <2>1, <2>2, OneScope
<1>13. ASSUME Clean(Q), e \in Elements(Q.withheld[s]) PROVE e \notin Pending(R)
  <2>1. e \in Here(Q, s)
    BY <1>13 DEF Here
  <2>2. e \notin Here(R, s)
    BY <1>2, <1>3, <1>5, <1>7, <1>11, <1>13 DEF Here, Neat
  <2>3. QED
    BY <1>10, <1>11, <1>13, <2>1, <2>2
<1>14. ASSUME NEW t \in Scope
       PROVE  Elements(Q.withheld[t]) \subseteq Elements(R.withheld[t]) \cup {e}
  <2>1. CASE t = s
    BY <1>2, <1>7, <2>1
  <2>2. CASE t # s
    BY <1>7, <2>2
  <2>3. QED
    BY <2>1, <2>2
<1>15. QED
  BY <1>6, <1>9, <1>10, <1>12, <1>13, <1>14 DEF R, P

\* Methods that touch no event.
LEMMA StillFacts ==
  ASSUME NEW Q \in QueueType, NEW s \in Scope
  PROVE  /\ SameEvents(Q, mark_complete(Q, s))
         /\ SameEvents(Q, compact_expired_state(Q))
<1>1. SameEvents(Q, mark_complete(Q, s))
  BY DEF mark_complete, SameEvents, QueueType
<1>2. SameEvents(Q, compact_expired_state(Q))
  BY DEF compact_expired_state, SameEvents, QueueType
<1>3. QED
  BY <1>1, <1>2

\* A batch counts each event once.
Once(b) ==
  /\ Distinct(b.events) /\ Distinct(b.cancelled)
  /\ Elements(b.events) \cap Elements(b.cancelled) = {}

\* requeue keeps the events of a batch, unless it gives the batch up.
LEMMA RequeueFacts ==
  ASSUME NEW Q \in QueueType, NEW b \in FlushBatch
  PROVE  LET R == requeue(Q, b) IN
         /\ dead_letters(Q, b) => SameEvents(Q, R)
         /\ ~dead_letters(Q, b) =>
              /\ Gains(Q, R, Elements(b.events))
              /\ Clean(Q) /\ Once(b) /\ BatchEvents(b) \cap Known(Q) = {} => Clean(R)
<1> DEFINE s == b.scope
           R == requeue(Q, b)
           P == PushFront(Q, s, b.events)
           n == P.retry_counts[s] + 1
           D == [Q EXCEPT !.retry_counts[s] = 0, !.retry_after[s] = "none"]
           B == [P EXCEPT !.retry_counts[s] = n, !.retry_after[s] = "active"]
<1>1. s \in Scope /\ b.events \in Seq(Event)
  BY DEF FlushBatch
<1>2. R = IF dead_letters(Q, b) THEN D ELSE B
  BY DEF requeue
<1>3. CASE dead_letters(Q, b)
  <2>1. SameEvents(Q, D)
    BY <1>1 DEF SameEvents, QueueType
  <2>2. QED
    BY <1>2, <1>3, <2>1
<1>4. CASE ~dead_letters(Q, b)
  <2>1. P \in QueueType
    BY <1>1, PushFrontType
  <2>2. /\ Gains(Q, P, Elements(b.events))
        /\ Clean(Q) /\ Distinct(b.events) /\ Elements(b.events) \cap Known(Q) = {} => Clean(P)
    BY <1>1, PushFrontFacts
  <2> HIDE DEF P, n
  <2>3. SameEvents(P, B)
    BY <1>1, <2>1 DEF SameEvents, QueueType
  <2>4. R = B
    BY <1>2, <1>4
  <2> HIDE DEF B, R
  <2>5. Known(R) = Known(P) /\ Gains(P, R, {}) /\ (Clean(P) => Clean(R))
    BY <2>3, <2>4, SameEventsFacts
  <2>6. Gains(Q, R, Elements(b.events))
    BY <2>2, <2>5 DEF Gains
  <2>7. Clean(Q) /\ Once(b) /\ BatchEvents(b) \cap Known(Q) = {} => Clean(R)
    BY <2>2, <2>5 DEF Once, BatchEvents
  <2>8. QED
    BY <1>4, <2>6, <2>7 DEF R
<1>5. QED
  BY <1>3, <1>4

\* Events come to the carryover of one scope.
LEMMA CarryFacts ==
  ASSUME NEW Q \in QueueType, NEW R \in QueueType, NEW s \in Scope, NEW X,
         R.queues = Q.queues, R.withheld = Q.withheld, R.evicted = Q.evicted,
         \A t \in Scope \ {s} : R.cancelled[t] = Q.cancelled[t],
         Elements(R.cancelled[s]) = Elements(Q.cancelled[s]) \cup X
  PROVE  /\ Gains(Q, R, X)
         /\ Clean(Q) /\ Distinct(R.cancelled[s]) /\ X \cap Known(Q) = {} => Clean(R)
<1>1. OnlyAt(Q, R, s)
  BY DEF OnlyAt
<1>2. Here(R, s) = Here(Q, s) \cup X
  BY DEF Here
<1>3. Pending(R) = Pending(Q) \cup X
  <2>1. Pending(R) = Here(R, s) \cup Elsewhere(Q, s)
    BY <1>1, OneScope
  <2>2. QED
    BY <1>2, <2>1, HereElsewhere
<1>4. Gains(Q, R, X)
  BY <1>3 DEF Gains, Known
<1>5. ASSUME Clean(Q), Distinct(R.cancelled[s]), X \cap Known(Q) = {} PROVE Clean(R)
  <2>1. /\ Neat(Q, s) /\ Here(Q, s) \cap Elsewhere(Q, s) = {}
        /\ Here(Q, s) \cap Q.evicted = {}
    BY <1>5, CleanHere
  <2>2. X \cap Here(Q, s) = {} /\ X \cap Elsewhere(Q, s) = {} /\ X \cap Q.evicted = {}
    BY <1>5, HereElsewhere DEF Known
  <2>3. Here(R, s) \cap Elsewhere(Q, s) = {} /\ Here(R, s) \cap Q.evicted = {}
    BY <1>2, <2>1, <2>2
  <2>4. Neat(R, s)
    BY <1>5, <2>1, <2>2 DEF Neat, Here
  <2>5. QED
    BY <1>1, <1>5, <2>3, <2>4, OneScope
<1>6. QED
  BY <1>4, <1>5

\* requeue_preserve_timestamps keeps all the events of a batch.
LEMMA PreserveFacts ==
  ASSUME NEW Q \in QueueType, NEW b \in FlushBatch
  PROVE  LET R == requeue_preserve_timestamps(Q, b) IN
         /\ Gains(Q, R, BatchEvents(b))
         /\ Clean(Q) /\ Once(b) /\ BatchEvents(b) \cap Known(Q) = {} => Clean(R)
<1> DEFINE s == b.scope
           R == requeue_preserve_timestamps(Q, b)
           c == b.cancelled \o Q.cancelled[s]
           why == IF b.cancelled # <<>> /\ Q.reasons[s] = "none" THEN b.reason ELSE Q.reasons[s]
           C == [Q EXCEPT !.cancelled[s] = c, !.reasons[s] = why]
<1>1. /\ s \in Scope /\ b.events \in Seq(Event) /\ b.cancelled \in Seq(Event)
      /\ b.reason \in CancelReason /\ Q.cancelled[s] \in Seq(Event)
  BY DEF FlushBatch, QueueType
<1>2. /\ c \in Seq(Event) /\ Elements(c) = Elements(b.cancelled) \cup Elements(Q.cancelled[s])
      /\ Distinct(c) <=> /\ Distinct(b.cancelled) /\ Distinct(Q.cancelled[s])
                         /\ Elements(b.cancelled) \cap Elements(Q.cancelled[s]) = {}
  BY <1>1, ConcatElements
<1>3. why \in CancelReason
  BY <1>1 DEF QueueType
<1>4. R = PushFront(C, s, b.events)
  <2>1. [Q EXCEPT !.cancelled[b.scope] = b.cancelled \o @,
                  !.reasons[b.scope]   = IF b.cancelled # <<>> /\ @ = "none" THEN b.reason ELSE @]
          = C
    BY <1>1 DEF QueueType
  <2>2. QED
    BY <2>1 DEF requeue_preserve_timestamps
<1> HIDE DEF c, why, s, R
<1>5. /\ C \in QueueType /\ C.cancelled = [Q.cancelled EXCEPT ![s] = c]
      /\ C.queues = Q.queues /\ C.withheld = Q.withheld /\ C.evicted = Q.evicted
  BY <1>1, <1>2, <1>3 DEF QueueType
<1> HIDE DEF C
<1>6. C.cancelled[s] = c /\ \A t \in Scope \ {s} : C.cancelled[t] = Q.cancelled[t]
  BY <1>1, <1>5 DEF QueueType
<1> DEFINE X == Elements(b.cancelled)
           Y == Elements(b.events)
<1>7. /\ Gains(Q, C, X)
      /\ Clean(Q) /\ Distinct(c) /\ X \cap Known(Q) = {} => Clean(C)
  <2>1. Elements(C.cancelled[s]) = Elements(Q.cancelled[s]) \cup X
    BY <1>2, <1>6
  <2> HIDE DEF X
  <2>2. QED
    BY <1>1, <1>5, <1>6, <2>1, CarryFacts
<1>8. /\ Gains(C, R, Y)
      /\ Clean(C) /\ Distinct(b.events) /\ Y \cap Known(C) = {} => Clean(R)
  BY <1>1, <1>4, <1>5, PushFrontFacts
<1>9. BatchEvents(b) = X \cup Y
  BY DEF BatchEvents
<1> HIDE DEF X, Y
<1>10. Gains(Q, R, BatchEvents(b))
  BY <1>7, <1>8, <1>9, GainsThen
<1>11. ASSUME Clean(Q), Once(b), BatchEvents(b) \cap Known(Q) = {} PROVE Clean(R)
  <2>1. Distinct(b.events) /\ Distinct(b.cancelled) /\ X \cap Y = {}
    BY <1>11 DEF Once, X, Y
  <2>2. X \cap Known(Q) = {} /\ Y \cap Known(Q) = {}
    BY <1>9, <1>11
  <2>3. Distinct(Q.cancelled[s]) /\ Elements(Q.cancelled[s]) \subseteq Known(Q)
    BY <1>1, <1>11, HereElsewhere DEF Clean, Apart, Known, Here
  <2>4. Clean(C)
    BY <1>2, <1>7, <1>11, <2>1, <2>2, <2>3 DEF X
  <2>5. Known(C) = Known(Q) \cup X
    BY <1>7 DEF Gains
  <2>6. QED
    BY <1>8, <2>1, <2>2, <2>4, <2>5
<1>12. QED
  BY <1>10, <1>11 DEF R

\* requeue_as_cancelled does too.
LEMMA CancelledFacts ==
  ASSUME NEW Q \in QueueType, NEW b \in FlushBatch, NEW reason \in CancelReason
  PROVE  LET R == requeue_as_cancelled(Q, b, reason) IN
         /\ Gains(Q, R, BatchEvents(b))
         /\ Clean(Q) /\ Once(b) /\ BatchEvents(b) \cap Known(Q) = {} => Clean(R)
<1> DEFINE s == b.scope
           R == requeue_as_cancelled(Q, b, reason)
           d == Q.cancelled[s] \o b.cancelled
           c == d \o b.events
<1>1. /\ s \in Scope /\ b.events \in Seq(Event) /\ b.cancelled \in Seq(Event)
      /\ Q.cancelled[s] \in Seq(Event)
  BY DEF FlushBatch, QueueType
<1>2. /\ d \in Seq(Event) /\ Elements(d) = Elements(Q.cancelled[s]) \cup Elements(b.cancelled)
      /\ Distinct(d) <=> /\ Distinct(Q.cancelled[s]) /\ Distinct(b.cancelled)
                         /\ Elements(Q.cancelled[s]) \cap Elements(b.cancelled) = {}
  BY <1>1, ConcatElements
<1> HIDE DEF d
<1>3. /\ c \in Seq(Event) /\ Elements(c) = Elements(d) \cup Elements(b.events)
      /\ Distinct(c) <=> /\ Distinct(d) /\ Distinct(b.events)
                         /\ Elements(d) \cap Elements(b.events) = {}
  BY <1>1, <1>2, ConcatElements
<1>4. R = [Q EXCEPT !.cancelled[s] = c, !.reasons[s] = reason]
  BY <1>1 DEF requeue_as_cancelled, QueueType, d
<1> HIDE DEF c, s, R
<1>5. /\ R \in QueueType /\ R.cancelled = [Q.cancelled EXCEPT ![s] = c]
      /\ R.queues = Q.queues /\ R.withheld = Q.withheld /\ R.evicted = Q.evicted
  BY <1>1, <1>3, <1>4 DEF QueueType
<1>6. R.cancelled[s] = c /\ \A t \in Scope \ {s} : R.cancelled[t] = Q.cancelled[t]
  BY <1>1, <1>5 DEF QueueType
<1> DEFINE X == BatchEvents(b)
<1>7. Elements(R.cancelled[s]) = Elements(Q.cancelled[s]) \cup X
  BY <1>2, <1>3, <1>6 DEF BatchEvents
<1>8. ASSUME Clean(Q), Once(b), X \cap Known(Q) = {} PROVE Distinct(R.cancelled[s])
  <2>1. Distinct(Q.cancelled[s]) /\ Elements(Q.cancelled[s]) \subseteq Known(Q)
    BY <1>1, <1>8, HereElsewhere DEF Clean, Apart, Known, Here
  <2>2. QED
    BY <1>2, <1>3, <1>6, <1>8, <2>1 DEF Once, BatchEvents
<1> HIDE DEF X
<1>9. /\ Gains(Q, R, X)
      /\ Clean(Q) /\ Distinct(R.cancelled[s]) /\ X \cap Known(Q) = {} => Clean(R)
  BY <1>1, <1>5, <1>6, <1>7, CarryFacts
<1>10. QED
  BY <1>8, <1>9 DEF X, R

\* A batch that finds no agent goes back whole.
LEMMA ReturnFacts ==
  ASSUME NEW Q \in QueueType, NEW b \in FlushBatch
  PROVE  LET R == ReturnBatch(Q, b) IN
         /\ Gains(Q, R, BatchEvents(b))
         /\ Clean(Q) /\ Once(b) /\ BatchEvents(b) \cap Known(Q) = {} => Clean(R)
<1> DEFINE P == requeue_preserve_timestamps(Q, b)
           R == ReturnBatch(Q, b)
<1>1. /\ P \in QueueType /\ b.scope \in Scope
      /\ Gains(Q, P, BatchEvents(b))
      /\ Clean(Q) /\ Once(b) /\ BatchEvents(b) \cap Known(Q) = {} => Clean(P)
  BY RequeuePreserveType, PreserveFacts DEF FlushBatch
<1>2. R = mark_complete(P, b.scope)
  BY DEF ReturnBatch
<1> HIDE DEF P, R
<1>3. SameEvents(P, R)
  BY <1>1, <1>2, StillFacts
<1>4. Known(R) = Known(P) /\ Gains(P, R, {}) /\ (Clean(P) => Clean(R))
  BY <1>3, SameEventsFacts
<1>5. Gains(Q, R, BatchEvents(b))
  BY <1>1, <1>4 DEF Gains
<1>6. QED
  BY <1>1, <1>4, <1>5 DEF R

\* The backstop moves withheld events back to their queue and loses none.
LEMMA ExpireFacts ==
  ASSUME NEW Q \in QueueType
  PROVE  Gains(Q, expire(Q), {}) /\ (Clean(Q) => Clean(expire(Q)))
<1> DEFINE due == {s \in Scope : Q.deadlines[s] = "due"}
           full == [s \in Scope |-> IF s \in due THEN Q.withheld[s] \o Q.queues[s]
                                    ELSE Q.queues[s]]
           cut == [s \in Scope |-> PopBack(full[s])]
           kept == enforce_channel_cap(cut)
           marks == Q.in_flight \ due
           dead == [s \in Scope |-> IF s \in due THEN "none" ELSE Q.deadlines[s]]
           still == [s \in Scope |-> IF s \in due THEN <<>> ELSE Q.withheld[s]]
           gone == Q.evicted \cup (EventsIn(full) \ EventsIn(kept))
           R == [Q EXCEPT !.in_flight = marks, !.deadlines = dead, !.withheld = still,
                          !.queues = kept, !.evicted = gone]
           F == [Q EXCEPT !.queues = full, !.withheld = still]
<1>1. expire(Q) = IF due = {} THEN Q ELSE R
  BY DEF expire
<1>2. /\ Q.queues \in [Scope -> Seq(Event)] /\ Q.withheld \in [Scope -> Seq(Event)]
  BY DEF QueueType
<1>3. ASSUME NEW t \in Scope, t \in due
      PROVE  /\ full[t] \in Seq(Event) /\ still[t] = <<>>
             /\ Elements(full[t]) = Elements(Q.withheld[t]) \cup Elements(Q.queues[t])
             /\ Distinct(full[t]) <=>
                  /\ Distinct(Q.withheld[t]) /\ Distinct(Q.queues[t])
                  /\ Elements(Q.withheld[t]) \cap Elements(Q.queues[t]) = {}
  <2>1. full[t] = Q.withheld[t] \o Q.queues[t] /\ still[t] = <<>>
    BY <1>3
  <2> HIDE DEF full, still
  <2>2. QED
    BY <1>2, <2>1, ConcatElements
<1>4. ASSUME NEW t \in Scope, t \notin due
      PROVE  full[t] = Q.queues[t] /\ still[t] = Q.withheld[t]
  BY <1>4
<1>5. full \in [Scope -> Seq(Event)] /\ still \in [Scope -> Seq(Event)]
  <2>1. \A t \in Scope : full[t] \in Seq(Event) /\ still[t] \in Seq(Event)
    BY <1>2, <1>3, <1>4, NoEvents
  <2>2. QED
    BY <2>1
<1> HIDE DEF full, still
<1>6. cut \in [Scope -> Seq(Event)] /\ \A t \in Scope : cut[t] = PopBack(full[t])
  BY <1>5, PopType
<1> HIDE DEF cut
<1>7. \A t \in Scope : /\ Elements(kept[t]) \subseteq Elements(full[t])
                       /\ Distinct(full[t]) => Distinct(kept[t])
  <2> TAKE t \in Scope
  <2>1. /\ Elements(kept[t]) \subseteq Elements(cut[t])
        /\ Distinct(cut[t]) => Distinct(kept[t])
    BY <1>6, CapElements
  <2>2. /\ Elements(cut[t]) \subseteq Elements(full[t])
        /\ Distinct(full[t]) => Distinct(cut[t])
    BY <1>5, <1>6, PopElements
  <2> HIDE DEF kept
  <2>3. QED
    BY <2>1, <2>2
<1>8. due = {} => Gains(Q, expire(Q), {}) /\ (Clean(Q) => Clean(expire(Q)))
  BY <1>1 DEF Gains
<1> HIDE DEF kept, gone, marks, dead
<1>9. /\ R.queues = kept /\ R.cancelled = Q.cancelled /\ R.withheld = still
      /\ R.evicted = gone
  BY DEF QueueType
<1>10. /\ F \in QueueType /\ F.queues = full /\ F.cancelled = Q.cancelled
       /\ F.withheld = still /\ F.evicted = Q.evicted
  BY <1>5 DEF QueueType
<1> HIDE DEF R, F, due
<1>11. Cuts(F, R)
  BY <1>7, <1>9, <1>10 DEF Cuts, gone
<1>12. ASSUME NEW t \in Scope PROVE Here(F, t) = Here(Q, t)
  <2>1. CASE t \in due
    BY <1>3, <1>10, <2>1, EmptyElements DEF Here
  <2>2. CASE t \notin due
    BY <1>4, <1>10, <2>2 DEF Here
  <2>3. QED
    BY <2>1, <2>2
<1>13. Pending(F) = Pending(Q)
  <2>1. ASSUME NEW e PROVE e \in Pending(F) <=> e \in Pending(Q)
    <3>1. e \in Pending(F) <=> \E t \in Scope : e \in Here(F, t)
      BY InPending DEF Here
    <3>2. e \in Pending(Q) <=> \E t \in Scope : e \in Here(Q, t)
      BY InPending DEF Here
    <3>3. QED
      BY <1>12, <3>1, <3>2
  <2>2. QED
    BY <2>1
<1>14. ASSUME Clean(Q) PROVE Clean(F)
  <2>1. ASSUME NEW t \in Scope PROVE Neat(F, t)
    <3>1. Neat(Q, t)
      BY <1>14, CleanHere
    <3>2. CASE t \in due
      BY <1>3, <1>10, <3>1, <3>2, EmptyElements DEF Neat
    <3>3. CASE t \notin due
      BY <1>4, <1>10, <3>1, <3>3 DEF Neat
    <3>4. QED
      BY <3>2, <3>3
  <2>2. ASSUME NEW t \in Scope, NEW u \in Scope, t # u, NEW e \in Here(F, t), e \in Here(F, u)
        PROVE  FALSE
    <3>1. e \in Here(Q, t) /\ e \in Here(Q, u)
      BY <1>12, <2>2
    <3>2. e \in Elsewhere(Q, t)
      BY <2>2, <3>1 DEF Elsewhere
    <3>3. QED
      BY <1>14, <3>1, <3>2, CleanHere
  <2>3. Apart(F)
    BY <2>1, <2>2, NeatApart
  <2>4. QED
    BY <1>10, <1>13, <1>14, <2>3 DEF Clean
<1>15. Gains(F, R, {}) /\ (Clean(F) => Clean(R))
  BY <1>10, <1>11, CutsFacts
<1>16. Gains(Q, R, {}) /\ (Clean(Q) => Clean(R))
  BY <1>10, <1>13, <1>14, <1>15 DEF Gains, Known
<1>17. QED
  BY <1>1, <1>8, <1>16

\* flush_next hands out a batch of the scope's events and keeps the others.
LEMMA FlushFacts ==
  ASSUME NEW Q \in QueueType, NEW s \in flush_choice(Q)
  PROVE  LET R == flush_next(Q, s)
             b == flushed_batch(Q, s)
         IN
         /\ Pending(Q) = Pending(R) \cup BatchEvents(b) /\ R.evicted = Q.evicted
         /\ R.withheld = Q.withheld
         /\ HasBatch(b)
         /\ Clean(Q) => Clean(R) /\ Once(b) /\ BatchEvents(b) \cap Known(R) = {}
<1> DEFINE R == flush_next(Q, s)
           b == flushed_batch(Q, s)
           n == DrainCount(Q, s)
           front == SubSeq(Q.queues[s], 1, n)
           back == SubSeq(Q.queues[s], n + 1, Len(Q.queues[s]))
           left == IF s \in Ready(Q) THEN back ELSE Q.queues[s]
           G == [Q EXCEPT !.queues[s] = left, !.cancelled[s] = <<>>, !.reasons[s] = "none",
                          !.in_flight = @ \cup {s}, !.deadlines[s] = "armed"]
<1>1. /\ s \in Scope /\ Q.queues[s] \in Seq(Event) /\ Q.cancelled[s] \in Seq(Event)
      /\ s \in Ready(Q) => Q.queues[s] # <<>>
      /\ s \notin Ready(Q) => Q.cancelled[s] # <<>>
  BY DEF flush_choice, Ready, CancelledReady, QueueType
<1>2. n \in 0..Len(Q.queues[s]) /\ (s \in Ready(Q) => n >= 1)
  <2>1. Len(Q.queues[s]) \in Nat /\ (Q.queues[s] # <<>> => Len(Q.queues[s]) # 0)
    BY <1>1, LenProperties, EmptySeq
  <2>2. QED
    BY <1>1, <2>1, QueueAssumption DEF DrainCount
<1>3. R = G
  BY <1>1 DEF flush_next, QueueType
<1>4. b = IF s \in Ready(Q)
          THEN [scope |-> s, events |-> SortByCreated(front), cancelled |-> Q.cancelled[s],
                reason |-> IF Q.cancelled[s] = <<>> THEN "none" ELSE Q.reasons[s]]
          ELSE [scope |-> s, events |-> Q.cancelled[s], cancelled |-> <<>>,
                reason |-> Q.reasons[s]]
  BY DEF flushed_batch
<1> HIDE DEF n
<1>5. /\ front \in Seq(Event) /\ back \in Seq(Event)
      /\ Elements(front) \cup Elements(back) = Elements(Q.queues[s])
      /\ Distinct(Q.queues[s]) => /\ Distinct(front) /\ Distinct(back)
                                  /\ Elements(front) \cap Elements(back) = {}
  BY <1>1, <1>2, SplitElements
<1>6. /\ SortByCreated(front) \in Seq(Event)
      /\ Elements(SortByCreated(front)) = Elements(front)
      /\ Distinct(front) => Distinct(SortByCreated(front))
  BY <1>5, SortDistinct
<1>7. s \in Ready(Q) => SortByCreated(front) # <<>>
  <2> SUFFICES ASSUME s \in Ready(Q) PROVE SortByCreated(front) # <<>>
    OBVIOUS
  <2>1. 1 \in 1..n /\ n \in Nat
    BY <1>2, LenProperties
  <2>2. DOMAIN front = 1..n
    BY <2>1
  <2> HIDE DEF front
  <2>3. DOMAIN SortByCreated(front) = 1..n
    BY <2>2 DEF SortByCreated
  <2>4. QED
    BY <2>1, <2>3
<1>8. left \in Seq(Event)
  BY <1>1, <1>5
<1> HIDE DEF left, R
<1>9. /\ R \in QueueType /\ R.queues = [Q.queues EXCEPT ![s] = left]
      /\ R.cancelled = [Q.cancelled EXCEPT ![s] = <<>>]
      /\ R.withheld = Q.withheld /\ R.evicted = Q.evicted
  BY <1>1, <1>3, <1>8, NoEvents DEF QueueType, CancelReason
<1>10. /\ R.queues[s] = left /\ R.cancelled[s] = <<>>
       /\ \A t \in Scope \ {s} : /\ R.queues[t] = Q.queues[t]
                                 /\ R.cancelled[t] = Q.cancelled[t]
  BY <1>1, <1>9 DEF QueueType
<1> DEFINE B == BatchEvents(b)
<1>11. /\ HasBatch(b)
       /\ Here(Q, s) = Here(R, s) \cup B
       /\ Neat(Q, s) => Neat(R, s) /\ Once(b) /\ B \cap Here(R, s) = {}
  <2> HIDE DEF front, back, b
  <2>1. CASE s \in Ready(Q)
    <3>1. left = back /\ b.events = SortByCreated(front) /\ b.cancelled = Q.cancelled[s]
      BY <1>4, <2>1 DEF left
    <3>2. QED
      BY <1>5, <1>6, <1>7, <1>9, <1>10, <2>1, <3>1, EmptyElements
         DEF HasBatch, Here, BatchEvents, Neat, Once
  <2>2. CASE s \notin Ready(Q)
    <3>1. left = Q.queues[s] /\ b.events = Q.cancelled[s] /\ b.cancelled = <<>>
      BY <1>4, <2>2 DEF left
    <3>2. QED
      BY <1>1, <1>9, <1>10, <2>2, <3>1, EmptyElements
         DEF HasBatch, Here, BatchEvents, Neat, Once
  <2>3. QED
    BY <2>1, <2>2
<1> HIDE DEF b, B
<1>12. OnlyAt(Q, R, s)
  BY <1>9, <1>10 DEF OnlyAt
<1>13. /\ Pending(R) = Here(R, s) \cup Elsewhere(Q, s)
       /\ Pending(Q) = Here(Q, s) \cup Elsewhere(Q, s)
  BY <1>1, <1>9, <1>12, OneScope, HereElsewhere
<1>14. ASSUME Clean(Q)
       PROVE  Clean(R) /\ Once(b) /\ B \cap Known(R) = {}
  <2>1. /\ Neat(Q, s) /\ Here(Q, s) \cap Elsewhere(Q, s) = {}
        /\ Here(Q, s) \cap Q.evicted = {}
    BY <1>1, <1>14, CleanHere
  <2>2. Here(R, s) \cap Elsewhere(Q, s) = {} /\ Here(R, s) \cap Q.evicted = {}
    BY <1>11, <2>1
  <2>3. Clean(R)
    BY <1>1, <1>9, <1>11, <1>12, <1>14, <2>1, <2>2, OneScope
  <2>4. B \cap Known(R) = {}
    BY <1>9, <1>11, <1>13, <2>1 DEF Known
  <2>5. QED
    BY <1>11, <2>1, <2>3, <2>4
<1>15. Pending(Q) = Pending(R) \cup B
  BY <1>11, <1>13
<1>16. QED
  BY <1>9, <1>11, <1>14, <1>15 DEF R, B, b

\* drain_channel drops what waits in the channel, and nothing else.
LEMMA DrainFacts ==
  ASSUME NEW Q \in QueueType, NEW ch
  PROVE  LET R == drain_channel(Q, ch) IN
         /\ Pending(Q) = Pending(R) \cup PendingOf(Q, ch) /\ R.evicted = Q.evicted
         /\ Clean(Q) => Clean(R) /\ Pending(R) \cap PendingOf(Q, ch) = {}
         /\ \A t \in Scope :
              Elements(Q.withheld[t]) \subseteq Elements(R.withheld[t]) \cup PendingOf(Q, ch)
<1> DEFINE R == drain_channel(Q, ch)
           gone == {t \in Scope : ChannelOf[t] = ch}
           D == PendingOf(Q, ch)
<1>1. /\ R.evicted = Q.evicted
      /\ \A t \in gone : /\ R.queues[t] = <<>> /\ R.cancelled[t] = <<>>
                         /\ R.withheld[t] = <<>>
      /\ \A t \in Scope \ gone : /\ R.queues[t] = Q.queues[t]
                                 /\ R.cancelled[t] = Q.cancelled[t]
                                 /\ R.withheld[t] = Q.withheld[t]
  BY DEF drain_channel, QueueType
<1>2. R \in QueueType
  BY DrainChannelType
<1> HIDE DEF R
<1>3. ASSUME NEW e PROVE e \in D <=> \E t \in gone : e \in Here(Q, t)
  BY DEF PendingOf, Here
<1> HIDE DEF D
<1>4. /\ \A t \in gone : Here(R, t) = {}
      /\ \A t \in Scope \ gone : Here(R, t) = Here(Q, t)
  BY <1>1, EmptyElements DEF Here
<1>5. ASSUME NEW e
      PROVE  /\ e \in Pending(R) <=> \E t \in Scope \ gone : e \in Here(Q, t)
             /\ e \in Pending(Q) <=> \E t \in Scope : e \in Here(Q, t)
  <2>1. e \in Pending(R) <=> \E t \in Scope : e \in Here(R, t)
    BY InPending DEF Here
  <2>2. e \in Pending(Q) <=> \E t \in Scope : e \in Here(Q, t)
    BY InPending DEF Here
  <2> HIDE DEF gone
  <2>3. QED
    BY <1>4, <2>1, <2>2 DEF gone
<1>6. Pending(Q) = Pending(R) \cup D
  BY <1>3, <1>5
<1>7. ASSUME Clean(Q) PROVE Clean(R) /\ Pending(R) \cap D = {}
  <2>1. ASSUME NEW t \in Scope, NEW u \in Scope, t # u, NEW e \in Here(Q, t), e \in Here(Q, u)
        PROVE  FALSE
    <3>1. e \in Elsewhere(Q, t)
      BY <2>1 DEF Elsewhere
    <3>2. QED
      BY <1>7, <2>1, <3>1, CleanHere
  <2>2. Pending(R) \cap D = {}
    <3>1. ASSUME NEW e \in Pending(R), e \in D PROVE FALSE
      <4>1. PICK t \in Scope \ gone : e \in Here(Q, t)
        BY <1>5
      <4>2. PICK u \in gone : e \in Here(Q, u)
        BY <1>3, <3>1
      <4>3. QED
        BY <2>1, <4>1, <4>2
    <3>2. QED
      BY <3>1
  <2>3. ASSUME NEW t \in Scope PROVE Neat(R, t)
    <3>1. Neat(Q, t)
      BY <1>7, CleanHere
    <3>2. CASE t \in gone
      BY <1>1, <3>2, EmptyElements DEF Neat
    <3>3. CASE t \notin gone
      BY <1>1, <3>1, <3>3 DEF Neat
    <3>4. QED
      BY <3>2, <3>3
  <2>4. \A t \in Scope : Here(R, t) \subseteq Here(Q, t)
    BY <1>4
  <2>5. Apart(R)
    BY <2>1, <2>3, <2>4, NeatApart
  <2>6. Pending(R) \cap R.evicted = {}
    BY <1>1, <1>6, <1>7 DEF Clean
  <2>7. QED
    BY <2>2, <2>5, <2>6 DEF Clean
<1>8. ASSUME NEW t \in Scope
      PROVE  Elements(Q.withheld[t]) \subseteq Elements(R.withheld[t]) \cup D
  <2>1. CASE t \in gone
    BY <1>3, <2>1 DEF Here
  <2>2. CASE t \notin gone
    BY <1>1, <2>2
  <2>3. QED
    BY <2>1, <2>2
<1>9. QED
  BY <1>1, <1>6, <1>7, <1>8 DEF R, D

\* What handle_prompt_result does with the batch of a turn: it is given up, goes
\* back whole after a cancel, or without its carryover after a failure.
LEMMA RestoredFacts ==
  ASSUME NEW Q \in QueueType, NEW b \in Batch, HasBatch(b) => b.scope \in Scope,
         NEW s \in Scope \cup {Heartbeat}, NEW out
  PROVE  LET R == Completed(Restored(Q, out, b), s) IN
         /\ ~HasBatch(b) \/ GivenUp(Q, out, b) => SameEvents(Q, R)
         /\ HasBatch(b) /\ ~GivenUp(Q, out, b) =>
              /\ out \in {"cancelled", "drain_timeout"} => Gains(Q, R, BatchEvents(b))
              /\ out \notin {"cancelled", "drain_timeout"} => Gains(Q, R, Elements(b.events))
              /\ Clean(Q) /\ Once(b) /\ BatchEvents(b) \cap Known(Q) = {} => Clean(R)
<1> DEFINE P == Restored(Q, out, b)
           R == Completed(P, s)
           reason == IF b.reason = "none" THEN "steer" ELSE b.reason
<1>1. P \in QueueType
  BY RestoredType
<1>2. SameEvents(P, R)
  <2> HIDE DEF P
  <2>1. CASE s = Heartbeat
    BY <2>1 DEF Completed, SameEvents
  <2>2. CASE s # Heartbeat
    BY <1>1, <2>2, StillFacts DEF Completed
  <2>3. QED
    BY <2>1, <2>2
<1>3. /\ ~HasBatch(b) => P = Q
      /\ GivenUp(Q, out, b) =>
           P = Q \/ (HasBatch(b) /\ dead_letters(Q, b) /\ P = requeue(Q, b))
      /\ HasBatch(b) /\ ~GivenUp(Q, out, b) =>
           IF out \in {"cancelled", "drain_timeout"}
           THEN P = requeue_as_cancelled(Q, b, reason)
           ELSE ~dead_letters(Q, b) /\ P = requeue(Q, b)
  <2>1. "cancelled" \notin {"hard_silent", "auth"} /\ "drain_timeout" \notin {"hard_silent", "auth"}
    OBVIOUS
  <2>2. QED
    BY <2>1 DEF Restored, GivenUp
<1>4. HasBatch(b) => b \in FlushBatch /\ reason \in CancelReason
  BY DEF Batch, FlushBatch, CancelReason
<1> HIDE DEF P, R, reason
<1>5. CASE ~HasBatch(b) \/ GivenUp(Q, out, b)
  <2>1. SameEvents(Q, P)
    <3>1. CASE P = Q
      BY <3>1 DEF SameEvents
    <3>2. CASE HasBatch(b) /\ dead_letters(Q, b) /\ P = requeue(Q, b)
      BY <1>4, <3>2, RequeueFacts
    <3>3. QED
      BY <1>3, <1>5, <3>1, <3>2
  <2>2. SameEvents(Q, R)
    BY <1>2, <2>1 DEF SameEvents
  <2>3. QED
    BY <1>5, <2>2 DEF R, P
<1>6. CASE HasBatch(b) /\ ~GivenUp(Q, out, b)
  <2>1. Known(R) = Known(P) /\ Gains(P, R, {}) /\ (Clean(P) => Clean(R))
    BY <1>2, SameEventsFacts
  <2>2. CASE out \in {"cancelled", "drain_timeout"}
    <3>1. P = requeue_as_cancelled(Q, b, reason)
      BY <1>3, <1>6, <2>2
    <3>2. /\ Gains(Q, P, BatchEvents(b))
          /\ Clean(Q) /\ Once(b) /\ BatchEvents(b) \cap Known(Q) = {} => Clean(P)
      BY <1>4, <1>6, <3>1, CancelledFacts
    <3>3. Gains(Q, R, BatchEvents(b))
      BY <2>1, <3>2 DEF Gains
    <3>4. QED
      BY <1>6, <2>1, <2>2, <3>2, <3>3 DEF R, P
  <2>3. CASE out \notin {"cancelled", "drain_timeout"}
    <3>1. ~dead_letters(Q, b) /\ P = requeue(Q, b)
      BY <1>3, <1>6, <2>3
    <3>2. /\ Gains(Q, P, Elements(b.events))
          /\ Clean(Q) /\ Once(b) /\ BatchEvents(b) \cap Known(Q) = {} => Clean(P)
      BY <1>4, <1>6, <3>1, RequeueFacts
    <3>3. Gains(Q, R, Elements(b.events))
      BY <2>1, <3>2 DEF Gains
    <3>4. QED
      BY <1>6, <2>1, <2>3, <3>2, <3>3 DEF R, P
  <2>4. QED
    BY <2>2, <2>3
<1>7. QED
  BY <1>5, <1>6

-----------------------------------------------------------------------------
(* The events of several batches.                                          *)

Spread(f) == UNION {BatchEvents(f[k]) : k \in DOMAIN f}
Others(f, k) == UNION {BatchEvents(f[l]) : l \in (DOMAIN f) \ {k}}

\* No event is in two batches, or twice in one.
Sole(f) ==
  /\ \A k \in DOMAIN f : Once(f[k])
  /\ \A k, l \in DOMAIN f : k # l => BatchEvents(f[k]) \cap BatchEvents(f[l]) = {}

\* The batches of the turns.
Turns == [a \in Agent |-> task[a].batch]

\* One batch and the others.
LEMMA SpreadSplit ==
  ASSUME NEW f, NEW k \in DOMAIN f
  PROVE  /\ Spread(f) = BatchEvents(f[k]) \cup Others(f, k)
         /\ Sole(f) => Once(f[k]) /\ BatchEvents(f[k]) \cap Others(f, k) = {}
<1>1. Spread(f) = BatchEvents(f[k]) \cup Others(f, k)
  <2>1. ASSUME NEW e PROVE e \in Spread(f) <=> e \in BatchEvents(f[k]) \cup Others(f, k)
    <3>1. e \in Spread(f) <=> \E l \in DOMAIN f : e \in BatchEvents(f[l])
      BY DEF Spread
    <3>2. e \in Others(f, k) <=> \E l \in DOMAIN f : l # k /\ e \in BatchEvents(f[l])
      BY DEF Others
    <3>3. QED
      BY <3>1, <3>2
  <2>2. QED
    BY <2>1
<1>2. ASSUME Sole(f) PROVE Once(f[k]) /\ BatchEvents(f[k]) \cap Others(f, k) = {}
  <2>1. ASSUME NEW e \in BatchEvents(f[k]), e \in Others(f, k) PROVE FALSE
    <3>1. PICK l \in DOMAIN f : l # k /\ e \in BatchEvents(f[l])
      BY <2>1 DEF Others
    <3>2. QED
      BY <1>2, <2>1, <3>1 DEF Sole
  <2>2. QED
    BY <1>2, <2>1 DEF Sole
<1>3. QED
  BY <1>1, <1>2

\* One batch is replaced.
LEMMA SpreadReplace ==
  ASSUME NEW f, NEW g, NEW k \in DOMAIN f, DOMAIN g = DOMAIN f,
         \A l \in DOMAIN f : l # k => g[l] = f[l]
  PROVE  /\ Spread(g) = BatchEvents(g[k]) \cup Others(f, k)
         /\ Sole(f) /\ Once(g[k]) /\ BatchEvents(g[k]) \cap Others(f, k) = {} => Sole(g)
<1>1. Others(g, k) = Others(f, k)
  <2>1. ASSUME NEW e PROVE e \in Others(g, k) <=> e \in Others(f, k)
    <3>1. e \in Others(g, k) <=> \E l \in DOMAIN f : l # k /\ e \in BatchEvents(g[l])
      BY DEF Others
    <3>2. e \in Others(f, k) <=> \E l \in DOMAIN f : l # k /\ e \in BatchEvents(f[l])
      BY DEF Others
    <3>3. QED
      BY <3>1, <3>2
  <2>2. QED
    BY <2>1
<1>2. Spread(g) = BatchEvents(g[k]) \cup Others(f, k)
  BY <1>1, SpreadSplit
<1>3. ASSUME Sole(f), Once(g[k]), BatchEvents(g[k]) \cap Others(f, k) = {}
      PROVE  Sole(g)
  <2>1. \A l \in DOMAIN g : Once(g[l])
    BY <1>3 DEF Sole
  <2>2. ASSUME NEW l \in DOMAIN g, NEW m \in DOMAIN g, l # m,
               NEW e \in BatchEvents(g[l]), e \in BatchEvents(g[m])
        PROVE  FALSE
    <3>1. \A n \in DOMAIN f : n # k => BatchEvents(f[n]) \subseteq Others(f, k)
      BY DEF Others
    <3>2. CASE l = k
      BY <1>3, <2>2, <3>1, <3>2
    <3>3. CASE m = k
      BY <1>3, <2>2, <3>1, <3>3
    <3>4. CASE l # k /\ m # k
      BY <1>3, <2>2, <3>4 DEF Sole
    <3>5. QED
      BY <3>2, <3>3, <3>4
  <2>3. QED
    BY <2>1, <2>2 DEF Sole
<1>4. QED
  BY <1>2, <1>3

\* A batch is held.
LEMMA SpreadAppend ==
  ASSUME NEW f \in Seq(FlushBatch), NEW b \in FlushBatch
  PROVE  LET g == Append(f, b) IN
         /\ Spread(g) = Spread(f) \cup BatchEvents(b)
         /\ Sole(f) /\ Once(b) /\ BatchEvents(b) \cap Spread(f) = {} => Sole(g)
<1> DEFINE g == Append(f, b)
           n == Len(f)
<1>1. n \in Nat /\ DOMAIN f = 1..n
  BY LenProperties
<1>2. /\ g \in Seq(FlushBatch) /\ Len(g) = n + 1
      /\ \A i \in 1..n : g[i] = f[i]
      /\ g[n + 1] = b
  BY <1>1, AppendProperties
<1> HIDE DEF g
<1>3. DOMAIN g = 1..(n + 1)
  BY <1>2, LenProperties
<1> HIDE DEF n
<1>4. /\ n + 1 \in 1..(n + 1) /\ ~(n + 1 \in 1..n)
      /\ \A i \in 1..(n + 1) : i \in 1..n \/ i = n + 1
      /\ \A i \in 1..n : i \in 1..(n + 1)
  BY <1>1
<1> DEFINE last == n + 1
           D == 1..n
           E == 1..(n + 1)
<1>5. /\ DOMAIN f = D /\ DOMAIN g = E /\ last \in E /\ ~(last \in D)
      /\ \A i \in E : i \in D \/ i = last
      /\ \A i \in D : i \in E /\ g[i] = f[i]
      /\ g[last] = b
  BY <1>1, <1>2, <1>3, <1>4
<1> HIDE DEF last, D, E
<1>6. Spread(g) = Spread(f) \cup BatchEvents(b)
  <2>1. ASSUME NEW e PROVE e \in Spread(g) <=> e \in Spread(f) \cup BatchEvents(b)
    <3>1. e \in Spread(g) <=> \E i \in E : e \in BatchEvents(g[i])
      BY <1>5 DEF Spread
    <3>2. e \in Spread(f) <=> \E i \in D : e \in BatchEvents(f[i])
      BY <1>5 DEF Spread
    <3>3. QED
      BY <1>5, <3>1, <3>2
  <2>2. QED
    BY <2>1
<1>7. ASSUME Sole(f), Once(b), BatchEvents(b) \cap Spread(f) = {} PROVE Sole(g)
  <2>1. \A i \in E : Once(g[i])
    BY <1>5, <1>7 DEF Sole
  <2>2. \A i \in D : BatchEvents(f[i]) \subseteq Spread(f)
    BY <1>5 DEF Spread
  <2>3. ASSUME NEW i \in E, NEW j \in E, i # j,
               NEW e \in BatchEvents(g[i]), e \in BatchEvents(g[j])
        PROVE  FALSE
    <3>1. CASE i = last
      BY <1>5, <1>7, <2>2, <2>3, <3>1
    <3>2. CASE j = last
      BY <1>5, <1>7, <2>2, <2>3, <3>2
    <3>3. CASE i \in D /\ j \in D
      BY <1>5, <1>7, <2>3, <3>3 DEF Sole
    <3>4. QED
      BY <1>5, <3>1, <3>2, <3>3
  <2>4. QED
    BY <1>5, <2>1, <2>3 DEF Sole
<1>8. QED
  BY <1>6, <1>7 DEF g

\* The first held batch is released.
LEMMA SpreadTail ==
  ASSUME NEW f \in Seq(FlushBatch), f # <<>>
  PROVE  /\ Head(f) \in FlushBatch /\ Tail(f) \in Seq(FlushBatch)
         /\ Spread(f) = BatchEvents(Head(f)) \cup Spread(Tail(f))
         /\ Sole(f) => /\ Sole(Tail(f)) /\ Once(Head(f))
                       /\ BatchEvents(Head(f)) \cap Spread(Tail(f)) = {}
<1> DEFINE g == Tail(f)
           n == Len(f)
<1>1. n \in Nat /\ DOMAIN f = 1..n /\ n # 0
  BY LenProperties, EmptySeq
<1>2. /\ Head(f) \in FlushBatch /\ Head(f) = f[1]
      /\ g \in Seq(FlushBatch) /\ Len(g) = n - 1
      /\ \A i \in 1..Len(g) : g[i] = f[i + 1]
  BY <1>1, HeadTailProperties
<1> HIDE DEF g
<1>3. DOMAIN g = 1..(n - 1)
  BY <1>2, LenProperties
<1> HIDE DEF n
<1>4. /\ 1 \in 1..n
      /\ \A i \in 1..n : i = 1 \/ (i - 1 \in 1..(n - 1) /\ (i - 1) + 1 = i)
      /\ \A i \in 1..(n - 1) : i + 1 \in 1..n /\ i + 1 # 1
      /\ \A i, j \in 1..(n - 1) : i # j => i + 1 # j + 1
  BY <1>1
<1>5. \A i \in 1..(n - 1) : g[i] = f[i + 1]
  BY <1>2, <1>3
<1>6. Spread(f) = BatchEvents(f[1]) \cup Spread(g)
  <2>1. ASSUME NEW e PROVE e \in Spread(f) <=> e \in BatchEvents(f[1]) \cup Spread(g)
    <3>1. e \in Spread(f) <=> \E i \in 1..n : e \in BatchEvents(f[i])
      BY <1>1 DEF Spread
    <3>2. e \in Spread(g) <=> \E i \in 1..(n - 1) : e \in BatchEvents(g[i])
      BY <1>3 DEF Spread
    <3>3. ASSUME e \in Spread(f) PROVE e \in BatchEvents(f[1]) \cup Spread(g)
      <4>1. PICK i \in 1..n : e \in BatchEvents(f[i])
        BY <3>1, <3>3
      <4>2. CASE i = 1
        BY <4>1, <4>2
      <4>3. CASE i - 1 \in 1..(n - 1) /\ (i - 1) + 1 = i
        <5>1. g[i - 1] = f[i]
          BY <1>5, <4>3
        <5>2. QED
          BY <3>2, <4>1, <4>3, <5>1
      <4>4. QED
        BY <1>4, <4>2, <4>3
    <3>4. ASSUME e \in Spread(g) PROVE e \in Spread(f)
      <4>1. PICK i \in 1..(n - 1) : e \in BatchEvents(g[i])
        BY <3>2, <3>4
      <4>2. i + 1 \in 1..n /\ e \in BatchEvents(f[i + 1])
        BY <1>4, <1>5, <4>1
      <4>3. QED
        BY <3>1, <4>2
    <3>5. e \in BatchEvents(f[1]) => e \in Spread(f)
      BY <1>4, <3>1
    <3>6. QED
      BY <3>3, <3>4, <3>5
  <2>2. QED
    BY <2>1
<1>7. ASSUME Sole(f)
      PROVE  Sole(g) /\ Once(f[1]) /\ BatchEvents(f[1]) \cap Spread(g) = {}
  <2>1. Once(f[1]) /\ \A i \in 1..(n - 1) : Once(g[i])
    BY <1>1, <1>4, <1>5, <1>7 DEF Sole
  <2>2. ASSUME NEW i \in 1..(n - 1), NEW j \in 1..(n - 1), i # j
        PROVE  BatchEvents(g[i]) \cap BatchEvents(g[j]) = {}
    <3>1. /\ i + 1 \in 1..n /\ j + 1 \in 1..n /\ i + 1 # j + 1
          /\ g[i] = f[i + 1] /\ g[j] = f[j + 1]
      BY <1>4, <1>5, <2>2
    <3>2. QED
      BY <1>1, <1>7, <3>1 DEF Sole
  <2>3. ASSUME NEW e \in BatchEvents(f[1]), e \in Spread(g) PROVE FALSE
    <3>1. PICK i \in 1..(n - 1) : e \in BatchEvents(g[i])
      BY <1>3, <2>3 DEF Spread
    <3>2. i + 1 \in 1..n /\ i + 1 # 1 /\ g[i] = f[i + 1]
      BY <1>4, <1>5
    <3>3. QED
      BY <1>1, <1>4, <1>7, <2>3, <3>1, <3>2 DEF Sole
  <2>4. QED
    BY <1>3, <2>1, <2>2, <2>3 DEF Sole
<1>8. QED
  BY <1>2, <1>6, <1>7 DEF g

-----------------------------------------------------------------------------
(* The books: who holds what.                                              *)

\* Held and prompted events H and T are apart from each other and unknown to the
\* queue, nothing of D waits or is prompted, and no event is after the n-th.
Ledger(Q, H, T, D, n) ==
  /\ Known(Q) \cap H = {} /\ Known(Q) \cap T = {} /\ H \cap T = {}
  /\ Pending(Q) \cap D = {} /\ H \cap D = {} /\ T \cap D = {}
  /\ \A e \in Known(Q) \cup H \cup T \cup D : e <= n

\* None of the events B is held, prompted or decided, and all have arrived.
Free(B, H, T, D, n) ==
  B \cap H = {} /\ B \cap T = {} /\ B \cap D = {} /\ \A e \in B : e <= n

LEMMA FreeNothing ==
  ASSUME NEW H, NEW T, NEW D, NEW n
  PROVE  Free({}, H, T, D, n)
  BY DEF Free

\* Events come to the queue from outside the books.
LEMMA LedgerGains ==
  ASSUME NEW Q, NEW R, NEW H, NEW T, NEW D, NEW n, NEW X, Ledger(Q, H, T, D, n),
         Clean(R), Gains(Q, R, X), Free(X, H, T, D, n)
  PROVE  Ledger(R, H, T, D, n)
<1>1. Known(R) = Known(Q) \cup X /\ Q.evicted \subseteq R.evicted
  BY DEF Gains
<1>2. Pending(R) \subseteq Pending(Q) \cup X
  BY <1>1 DEF Clean, Known
<1>3. QED
  BY <1>1, <1>2 DEF Ledger, Free

\* The queue hands out a batch.
HandsOut(Q, R, B) ==
  Pending(Q) = Pending(R) \cup B /\ R.evicted = Q.evicted /\ B \cap Known(R) = {}

LEMMA LedgerFlush ==
  ASSUME NEW Q, NEW R, NEW H, NEW T, NEW D, NEW n, NEW B, Ledger(Q, H, T, D, n),
         HandsOut(Q, R, B)
  PROVE  /\ Ledger(R, H, T, D, n)
         /\ Ledger(R, H \cup B, T, D, n)
         /\ Ledger(R, H, T \cup B, D, n)
         /\ Free(B, H, T, D, n)
<1>1. Known(Q) = Known(R) \cup B /\ Pending(R) \subseteq Pending(Q) /\ B \subseteq Pending(Q)
  BY DEF Known, HandsOut
<1>2. /\ B \cap H = {} /\ B \cap T = {} /\ B \cap D = {} /\ \A e \in B : e <= n
      /\ Known(R) \cap H = {} /\ Known(R) \cap T = {} /\ Pending(R) \cap D = {}
      /\ B \cap Known(R) = {}
  BY <1>1 DEF Ledger, HandsOut
<1>3. QED
  BY <1>1, <1>2 DEF Ledger, Free

\* Held events are let go of, and so are events of turns.
LEMMA LedgerLess ==
  ASSUME NEW Q, NEW H, NEW T, NEW D, NEW n, NEW G, NEW S, Ledger(Q, H, T, D, n),
         G \subseteq H, S \subseteq T
  PROVE  Ledger(Q, G, S, D, n)
  BY DEF Ledger

\* Events of a turn are decided.
LEMMA LedgerTurnDecided ==
  ASSUME NEW Q, NEW H, NEW T, NEW D, NEW n, NEW S, NEW X, Ledger(Q, H, T, D, n), Clean(Q),
         S \cup X \subseteq T, S \cap X = {}
  PROVE  Ledger(Q, H, S, D \cup X, n)
<1>1. Pending(Q) \subseteq Known(Q)
  BY DEF Known
<1>2. QED
  BY <1>1 DEF Ledger

\* Events of the queue are decided.
LEMMA LedgerQueueDecided ==
  ASSUME NEW Q, NEW R, NEW H, NEW T, NEW D, NEW n, NEW X, Ledger(Q, H, T, D, n),
         Pending(R) \subseteq Pending(Q), R.evicted = Q.evicted, Pending(R) \cap X = {},
         X \subseteq Known(Q) \cup D
  PROVE  Ledger(R, H, T, D \cup X, n)
<1>1. Known(R) \subseteq Known(Q)
  BY DEF Known
<1>2. QED
  BY <1>1 DEF Ledger

OnBooks == Known(q) \cup Spread(held) \cup Spread(Turns) \cup served \cup discarded

Books ==
  /\ Clean(q) /\ Sole(held) /\ Sole(Turns)
  /\ Ledger(q, Spread(held), Spread(Turns), served \cup discarded, arrived)

\* A turn that has given back its batch, or has none, holds nothing.
Whole ==
  \A a \in Agent : task[a].phase = "none" \/ ~HasBatch(task[a].batch) =>
    BatchEvents(task[a].batch) = {}

\* The types.
LEMMA CustodyTypes ==
  ASSUME Inv
  PROVE  /\ q \in QueueType /\ held \in Seq(FlushBatch) /\ arrived \in Nat
         /\ task \in [Agent -> Task] /\ DOMAIN Turns = Agent
         /\ \A a \in Agent : /\ Turns[a] = task[a].batch /\ task[a].batch \in Batch
                             /\ task[a].scope \in Scope \cup {Heartbeat}
                             /\ HasBatch(task[a].batch) => task[a].batch.scope \in Scope
<1>1. /\ q \in QueueType /\ held \in Seq(FlushBatch) /\ arrived \in Nat
      /\ task \in [Agent -> Task] /\ DOMAIN Turns = Agent
      /\ \A a \in Agent : Turns[a] = task[a].batch
  BY DEF Inv, TypeOK, Turns
<1>2. ASSUME NEW a \in Agent
      PROVE  /\ task[a].batch \in Batch /\ task[a].scope \in Scope \cup {Heartbeat}
             /\ HasBatch(task[a].batch) => task[a].batch.scope \in Scope
  <2>1. task[a].batch \in Batch /\ task[a].scope \in Scope \cup {Heartbeat}
    BY <1>1 DEF Task
  <2>2. QED
    BY <2>1 DEF Inv, BatchOfTask, HasBatch
<1>3. QED
  BY <1>1, <1>2

\* The queue after expiry, and after a flush: the facts of the dispatch loop.
LEMMA DispatchFacts ==
  ASSUME Inv, NEW s \in flush_choice(expire(q))
  PROVE  LET R == flush_next(expire(q), s)
             b == flushed_batch(expire(q), s)
         IN
         /\ R \in QueueType /\ b \in FlushBatch /\ b.scope = s /\ HasBatch(b)
         /\ Known(q) = Known(R) \cup BatchEvents(b) /\ q.evicted \subseteq R.evicted
         /\ Books =>
              /\ Clean(R) /\ Once(b) /\ BatchEvents(b) \cap Known(R) = {}
              /\ LET D == served \cup discarded IN
                 /\ Free(BatchEvents(b), Spread(held), Spread(Turns), D, arrived)
                 /\ Ledger(R, Spread(held), Spread(Turns), D, arrived)
                 /\ Ledger(R, Spread(held) \cup BatchEvents(b), Spread(Turns), D, arrived)
                 /\ Ledger(R, Spread(held), Spread(Turns) \cup BatchEvents(b), D, arrived)
<1> DEFINE Q == expire(q)
           R == flush_next(Q, s)
           b == flushed_batch(Q, s)
           D == served \cup discarded
<1>1. Q \in QueueType /\ q \in QueueType
  BY CustodyTypes, ExpireType
<1>2. Gains(q, Q, {}) /\ (Clean(q) => Clean(Q))
  BY <1>1, ExpireFacts
<1> HIDE DEF Q
<1>3. s \in Scope /\ R \in QueueType /\ b \in FlushBatch /\ b.scope = s
  BY <1>1, FlushChoiceFree, FlushNextType DEF Q
<1>4. /\ Pending(Q) = Pending(R) \cup BatchEvents(b) /\ R.evicted = Q.evicted /\ HasBatch(b)
      /\ Clean(Q) => Clean(R) /\ Once(b) /\ BatchEvents(b) \cap Known(R) = {}
  BY <1>1, FlushFacts DEF Q
<1> HIDE DEF R, b, D
<1>5. Known(q) = Known(R) \cup BatchEvents(b) /\ q.evicted \subseteq R.evicted
  BY <1>2, <1>4 DEF Gains, Known
<1>6. ASSUME Books
      PROVE  /\ Clean(R) /\ Once(b) /\ BatchEvents(b) \cap Known(R) = {}
             /\ Free(BatchEvents(b), Spread(held), Spread(Turns), D, arrived)
             /\ Ledger(R, Spread(held), Spread(Turns), D, arrived)
             /\ Ledger(R, Spread(held) \cup BatchEvents(b), Spread(Turns), D, arrived)
             /\ Ledger(R, Spread(held), Spread(Turns) \cup BatchEvents(b), D, arrived)
  <2>1. Clean(Q) /\ Ledger(q, Spread(held), Spread(Turns), D, arrived)
    BY <1>2, <1>6 DEF Books, D
  <2>2. Ledger(Q, Spread(held), Spread(Turns), D, arrived)
    BY <1>2, <2>1, LedgerGains, FreeNothing
  <2>3. Clean(R) /\ Once(b) /\ BatchEvents(b) \cap Known(R) = {}
    BY <1>4, <2>1
  <2> DEFINE H == Spread(held)
             T == Spread(Turns)
             B == BatchEvents(b)
  <2>4. Ledger(Q, H, T, D, arrived) /\ HandsOut(Q, R, B)
    BY <1>4, <2>2, <2>3 DEF HandsOut
  <2> HIDE DEF H, T, B
  <2>5. /\ Ledger(R, H, T, D, arrived) /\ Ledger(R, H \cup B, T, D, arrived)
        /\ Ledger(R, H, T \cup B, D, arrived)
        /\ Free(B, H, T, D, arrived)
    BY <2>4, LedgerFlush
  <2>6. QED
    BY <2>3, <2>5 DEF H, T, B
<1>7. QED
  BY <1>3, <1>4, <1>5, <1>6 DEF R, b, D, Q

-----------------------------------------------------------------------------
(* The steps.                                                              *)

\* A steer's event is withheld or decided, and each event has one steer at most.
OneSteer(S) == \A st, other \in S : st.event = other.event => st = other
SteersApart ==
  /\ \A st \in steers : st.event \in Elements(q.withheld[st.scope]) \/ st.event \in Decided
  /\ OneSteer(steers)

\* A step keeps the books: all but the events X stay on them, and in order.
Accounts(X) ==
  /\ OnBooks \subseteq OnBooks' \cup X /\ Decided \subseteq Decided'
  /\ Books /\ SteersApart => Books'

\* Steps that change the batch of one turn at most.
LEMMA TurnsAt ==
  ASSUME Inv, NEW a \in Agent, \A c \in Agent : c # a => task'[c].batch = task[c].batch
  PROVE  /\ Spread(Turns) = BatchEvents(task[a].batch) \cup Others(Turns, a)
         /\ Spread(Turns') = BatchEvents(task'[a].batch) \cup Others(Turns, a)
         /\ Sole(Turns) => /\ Once(task[a].batch)
                           /\ BatchEvents(task[a].batch) \cap Others(Turns, a) = {}
         /\ /\ Sole(Turns) /\ Once(task'[a].batch)
            /\ BatchEvents(task'[a].batch) \cap Others(Turns, a) = {}
            => Sole(Turns')
<1> DEFINE f == Turns
           g == Turns'
<1>1. /\ DOMAIN f = Agent /\ DOMAIN g = Agent
      /\ \A c \in Agent : f[c] = task[c].batch /\ g[c] = task'[c].batch
  BY DEF Turns
<1> HIDE DEF f, g
<1>2. a \in DOMAIN f /\ DOMAIN g = DOMAIN f /\ \A c \in DOMAIN f : c # a => g[c] = f[c]
  BY <1>1
<1>3. /\ Spread(f) = BatchEvents(f[a]) \cup Others(f, a)
      /\ Sole(f) => Once(f[a]) /\ BatchEvents(f[a]) \cap Others(f, a) = {}
  BY <1>2, SpreadSplit
<1>4. /\ Spread(g) = BatchEvents(g[a]) \cup Others(f, a)
      /\ Sole(f) /\ Once(g[a]) /\ BatchEvents(g[a]) \cap Others(f, a) = {} => Sole(g)
  BY <1>2, SpreadReplace
<1>5. f[a] = task[a].batch /\ g[a] = task'[a].batch
  BY <1>1
<1>6. QED
  BY <1>3, <1>4, <1>5 DEF f, g

\* Steps that leave the batches of the turns.
LEMMA TurnsSame ==
  ASSUME \A c \in Agent : task'[c].batch = task[c].batch
  PROVE  Turns' = Turns
  BY DEF Turns

\* A control signal leaves the batch and the outcome of every task.
LEMMA SignalKeepsBatch ==
  ASSUME Inv, NEW s, NEW sig, signal_in_flight_task_for_scope(s, sig)
  PROVE  \A a \in Agent : task'[a].batch = task[a].batch /\ task'[a].outcome = task[a].outcome
<1> USE DEF Inv, TypeOK
<1>1. CASE task' = task
  BY <1>1
<1>2. CASE \E a \in TasksOf(s) : task' = Signalled(task, a, sig)
  <2>1. PICK a \in Agent : task' = Signalled(task, a, sig)
    BY <1>2 DEF TasksOf
  <2>2. task' = task \/ \E c : task' = [task EXCEPT ![a].control = c]
    BY <2>1 DEF Signalled
  <2>3. ASSUME NEW c, task' = [task EXCEPT ![a].control = c], NEW b \in Agent
        PROVE  task'[b].batch = task[b].batch /\ task'[b].outcome = task[b].outcome
    <3>1. CASE b = a
      BY <2>3, <3>1 DEF Task
    <3>2. CASE b # a
      BY <2>3, <3>2
    <3>3. QED
      BY <3>1, <3>2
  <2>4. QED
    BY <1>1, <2>2, <2>3
<1>3. QED
  BY <1>1, <1>2 DEF signal_in_flight_task_for_scope

\* The queue only moves its own events.
LEMMA QueueAccounts ==
  ASSUME Gains(q, q', {}), Clean(q) => Clean(q'),
         UNCHANGED <<held, served, discarded, arrived>>, Spread(Turns') = Spread(Turns),
         Sole(Turns) => Sole(Turns')
  PROVE  Accounts({})
<1>1. OnBooks \subseteq OnBooks' /\ Decided \subseteq Decided'
  BY DEF OnBooks, Gains, Decided
<1>2. ASSUME Books PROVE Books'
  <2> DEFINE H == Spread(held)
             T == Spread(Turns)
             D == served \cup discarded
  <2>1. Clean(q') /\ Ledger(q, H, T, D, arrived)
    BY <1>2 DEF Books
  <2> HIDE DEF H, T, D
  <2>2. Ledger(q', H, T, D, arrived)
    BY <2>1, LedgerGains, FreeNothing
  <2>3. QED
    BY <1>2, <2>1, <2>2 DEF Books, H, T, D
<1>3. QED
  BY <1>1, <1>2 DEF Accounts

\* A batch is held for a busy owner.
LEMMA HoldAccounts ==
  ASSUME Inv, DispatchHold
  PROVE  Accounts({})
<1>1. PICK s \in flush_choice(expire(q)) : /\ held' = Append(held, flushed_batch(expire(q), s))
                                           /\ q' = flush_next(expire(q), s)
  BY DEF DispatchHold
<1>2. UNCHANGED <<task, served, discarded, arrived>>
  BY DEF DispatchHold
<1> DEFINE b == flushed_batch(expire(q), s)
           B == BatchEvents(b)
           H == Spread(held)
           T == Spread(Turns)
           D == served \cup discarded
<1>3. /\ q' \in QueueType /\ b \in FlushBatch /\ Known(q) = Known(q') \cup B
      /\ q.evicted \subseteq q'.evicted
      /\ Books => /\ Clean(q') /\ Once(b) /\ Free(B, H, T, D, arrived)
                  /\ Ledger(q', H \cup B, T, D, arrived)
  BY <1>1, DispatchFacts
<1>4. Turns' = Turns
  BY <1>2, TurnsSame
<1>5. /\ Spread(held') = H \cup B
      /\ Sole(held) /\ Once(b) /\ B \cap H = {} => Sole(held')
  <2>1. held' = Append(held, b) /\ held \in Seq(FlushBatch)
    BY <1>1, CustodyTypes
  <2> HIDE DEF b
  <2>2. QED
    BY <1>3, <2>1, SpreadAppend
<1> HIDE DEF b, B, H, T, D
<1>6. OnBooks \subseteq OnBooks' /\ Decided \subseteq Decided'
  BY <1>2, <1>3, <1>4, <1>5 DEF OnBooks, H, Decided
<1>7. ASSUME Books PROVE Books'
  <2>1. Sole(held') /\ Sole(Turns') /\ Clean(q')
    BY <1>3, <1>4, <1>5, <1>7 DEF Books, Free
  <2>2. Ledger(q', H \cup B, T, D, arrived)
    BY <1>3, <1>7
  <2>3. Spread(Turns') = T /\ served' \cup discarded' = D /\ arrived' = arrived
    BY <1>2, <1>4 DEF T, D
  <2>4. QED
    BY <1>5, <2>1, <2>2, <2>3 DEF Books
<1>8. QED
  BY <1>6, <1>7 DEF Accounts

\* An idle agent takes a batch: it had none.
LEMMA ClaimAccounts ==
  ASSUME Inv, SlotInv, Whole, DispatchClaim
  PROVE  Accounts({})
<1>1. PICK s \in flush_choice(expire(q)) :
        /\ task' = [task EXCEPT ![try_claim(s)] =
             [scope |-> s, batch |-> flushed_batch(expire(q), s),
              phase |-> "running", outcome |-> "ok", control |-> "armed"]]
        /\ q' = flush_next(expire(q), s)
  BY DEF DispatchClaim
<1>2. UNCHANGED <<held, served, discarded, arrived>> /\ idle # {}
  BY DEF DispatchClaim
<1> DEFINE a == try_claim(s)
           b == flushed_batch(expire(q), s)
           B == BatchEvents(b)
           H == Spread(held)
           T == Spread(Turns)
           D == served \cup discarded
           O == Others(Turns, a)
<1>3. /\ q' \in QueueType /\ b \in FlushBatch /\ Known(q) = Known(q') \cup B
      /\ q.evicted \subseteq q'.evicted
      /\ Books => /\ Clean(q') /\ Once(b) /\ Free(B, H, T, D, arrived)
                  /\ Ledger(q', H, T \cup B, D, arrived)
  BY <1>1, DispatchFacts
<1>4. a \in idle /\ a \in Agent
  BY <1>2, ClaimInIdle DEF Inv, TypeOK
<1>5. BatchEvents(task[a].batch) = {}
  BY <1>4 DEF SlotInv, NoSlotOverwrite, Whole
<1>6. task'[a].batch = b /\ \A c \in Agent : c # a => task'[c].batch = task[c].batch
  <2>1. task \in [Agent -> Task]
    BY CustodyTypes
  <2> HIDE DEF b, a
  <2>2. task' = [task EXCEPT ![a] = [scope |-> s, batch |-> b, phase |-> "running",
                                     outcome |-> "ok", control |-> "armed"]]
    BY <1>1 DEF a, b
  <2>3. QED
    BY <1>4, <2>1, <2>2
<1> HIDE DEF a, b, B, H, T, D, O
<1>7. /\ T = O /\ Spread(Turns') = B \cup O
      /\ Sole(Turns) /\ Once(b) /\ B \cap O = {} => Sole(Turns')
  BY <1>4, <1>5, <1>6, TurnsAt DEF T, O, B
<1>8. Spread(Turns') = T \cup B
  BY <1>7
<1>9. OnBooks \subseteq OnBooks' /\ Decided \subseteq Decided'
  BY <1>2, <1>3, <1>8 DEF OnBooks, T, Decided
<1>10. ASSUME Books PROVE Books'
  <2>1. Sole(held') /\ Sole(Turns') /\ Clean(q')
    BY <1>2, <1>3, <1>7, <1>10 DEF Books, Free
  <2>2. Ledger(q', H, T \cup B, D, arrived)
    BY <1>3, <1>10
  <2>3. Spread(held') = H /\ served' \cup discarded' = D /\ arrived' = arrived
    BY <1>2 DEF H, D
  <2>4. QED
    BY <1>8, <2>1, <2>2, <2>3 DEF Books
<1>11. QED
  BY <1>9, <1>10 DEF Accounts

\* No agent is free: the batch goes back.
LEMMA ExhaustedAccounts ==
  ASSUME Inv, DispatchExhausted
  PROVE  Accounts({})
<1>1. PICK s \in flush_choice(expire(q)) :
        q' = ReturnBatch(flush_next(expire(q), s), flushed_batch(expire(q), s))
  BY DEF DispatchExhausted
<1>2. UNCHANGED <<task, held, served, discarded, arrived>>
  BY DEF DispatchExhausted
<1> DEFINE b == flushed_batch(expire(q), s)
           R == flush_next(expire(q), s)
           B == BatchEvents(b)
           H == Spread(held)
           T == Spread(Turns)
           D == served \cup discarded
<1>3. /\ R \in QueueType /\ b \in FlushBatch /\ Known(q) = Known(R) \cup B
      /\ q.evicted \subseteq R.evicted
      /\ Books => /\ Clean(R) /\ Once(b) /\ B \cap Known(R) = {} /\ Free(B, H, T, D, arrived)
                  /\ Ledger(R, H, T, D, arrived)
  BY <1>1, DispatchFacts
<1>4. q' = ReturnBatch(R, b)
  BY <1>1
<1> HIDE DEF b, R
<1>5. /\ Gains(R, q', B)
      /\ Clean(R) /\ Once(b) /\ B \cap Known(R) = {} => Clean(q')
  BY <1>3, <1>4, ReturnFacts
<1>6. Turns' = Turns
  BY <1>2, TurnsSame
<1> HIDE DEF B, H, T, D
<1>7. OnBooks \subseteq OnBooks' /\ Decided \subseteq Decided'
  BY <1>2, <1>3, <1>5, <1>6 DEF OnBooks, Gains, Decided
<1>8. ASSUME Books PROVE Books'
  <2>1. Sole(held') /\ Sole(Turns') /\ Clean(q')
    BY <1>2, <1>3, <1>5, <1>6, <1>8 DEF Books
  <2>2. Ledger(q', H, T, D, arrived)
    BY <1>3, <1>5, <1>8, <2>1, LedgerGains
  <2>3. /\ Spread(held') = H /\ Spread(Turns') = T
        /\ served' \cup discarded' = D /\ arrived' = arrived
    BY <1>2, <1>6 DEF H, T, D
  <2>4. QED
    BY <2>1, <2>2, <2>3 DEF Books
<1>9. QED
  BY <1>7, <1>8 DEF Accounts

\* A held batch goes back.
LEMMA ReleaseAccounts ==
  ASSUME Inv, ReleaseHeld
  PROVE  Accounts({})
<1> DEFINE b == Head(held)
           B == BatchEvents(b)
           H == Spread(held)
           G == Spread(Tail(held))
           T == Spread(Turns)
           D == served \cup discarded
<1>1. /\ q' = ReturnBatch(q, b) /\ held' = Tail(held)
      /\ UNCHANGED <<task, served, discarded, arrived>>
  BY DEF ReleaseHeld
<1>2. /\ b \in FlushBatch /\ H = B \cup G
      /\ Sole(held) => Sole(Tail(held)) /\ Once(b) /\ B \cap G = {}
  BY CustodyTypes, SpreadTail DEF Inv, ReleaseHasHeld, ReleaseHeld
<1> HIDE DEF b
<1>3. /\ Gains(q, q', B)
      /\ Clean(q) /\ Once(b) /\ B \cap Known(q) = {} => Clean(q')
  BY <1>1, <1>2, CustodyTypes, ReturnFacts
<1>4. Turns' = Turns
  BY <1>1, TurnsSame
<1>5. Spread(held') = G
  BY <1>1
<1> HIDE DEF B, H, G, T, D
<1>6. OnBooks \subseteq OnBooks' /\ Decided \subseteq Decided'
  BY <1>1, <1>2, <1>3, <1>4, <1>5 DEF OnBooks, Gains, H, Decided
<1>7. ASSUME Books PROVE Books'
  <2>1. Ledger(q, H, T, D, arrived) /\ Clean(q) /\ Sole(held) /\ Sole(Turns)
    BY <1>7 DEF Books, H, T, D
  <2>2. Ledger(q, G, T, D, arrived)
    BY <1>2, <2>1, LedgerLess
  <2>3. Free(B, G, T, D, arrived) /\ B \cap Known(q) = {}
    BY <1>2, <2>1 DEF Free, Ledger
  <2>4. Clean(q')
    BY <1>2, <1>3, <2>1, <2>3
  <2>5. Ledger(q', G, T, D, arrived)
    BY <1>3, <2>2, <2>3, <2>4, LedgerGains
  <2>6. /\ Sole(held') /\ Sole(Turns') /\ Spread(Turns') = T
        /\ served' \cup discarded' = D /\ arrived' = arrived
    BY <1>1, <1>2, <1>4, <2>1 DEF T, D
  <2>7. QED
    BY <1>5, <2>4, <2>5, <2>6 DEF Books
<1>8. QED
  BY <1>6, <1>7 DEF Accounts

\* Nothing carries no events.
LEMMA NothingCarried ==
  /\ \A s : BatchEvents(NoBatch(s)) = {} /\ Once(NoBatch(s)) /\ ~HasBatch(NoBatch(s))
  /\ NoTask.batch = NoBatch(Heartbeat)
<1>1. \A s : NoBatch(s).events = <<>> /\ NoBatch(s).cancelled = <<>>
  BY DEF NoBatch
<1>2. NoTask.batch = NoBatch(Heartbeat)
  BY DEF NoTask
<1>3. QED
  BY <1>1, <1>2, EmptyElements DEF BatchEvents, Once, HasBatch

\* The backstop runs: at the end of the dispatch loop, on a heartbeat tick and in
\* the maintenance of an iteration.
LEMMA ExpiryAccounts ==
  ASSUME Inv, SlotInv, Whole, DispatchDone \/ HeartbeatTick \/ Maintenance
  PROVE  Accounts({})
<1>1. q \in QueueType
  BY CustodyTypes
<1>2. Gains(q, q', {}) /\ (Clean(q) => Clean(q'))
  <2>1. CASE DispatchDone \/ HeartbeatTick
    BY <1>1, <2>1, ExpireFacts DEF DispatchDone, HeartbeatTick
  <2>2. CASE Maintenance
    <3> DEFINE R == compact_expired_state(q)
    <3>1. R \in QueueType
      BY <1>1, CompactType
    <3>2. SameEvents(q, R)
      BY <1>1 DEF SameEvents, compact_expired_state, QueueType
    <3>3. q' = expire(R)
      BY <2>2 DEF Maintenance
    <3> HIDE DEF R
    <3>4. Gains(R, q', {}) /\ (Clean(R) => Clean(q'))
      BY <3>1, <3>3, ExpireFacts
    <3>5. Gains(q, R, {}) /\ (Clean(q) => Clean(R))
      BY <3>2, SameEventsFacts
    <3>6. QED
      BY <3>4, <3>5 DEF Gains
  <2>3. QED
    BY <2>1, <2>2
<1>3. UNCHANGED <<held, served, discarded, arrived>>
  BY DEF DispatchDone, HeartbeatTick, Maintenance
<1>4. CASE UNCHANGED task
  BY <1>2, <1>3, <1>4, TurnsSame, QueueAccounts
<1>5. CASE idle # {} /\ task' = [task EXCEPT ![Least(idle)] = [NoTask EXCEPT !.phase = "running"]]
  <2> DEFINE a == Least(idle)
             started == [NoTask EXCEPT !.phase = "running"]
  <2>1. a \in Agent /\ a \in idle /\ task \in [Agent -> Task]
    BY <1>5, LeastIn DEF Inv, TypeOK
  <2>2. started.batch = NoBatch(Heartbeat)
    BY DEF NoTask
  <2> HIDE DEF a, started
  <2>3. task' = [task EXCEPT ![a] = started]
    BY <1>5 DEF a, started
  <2>4. /\ task'[a].batch = NoBatch(Heartbeat)
        /\ \A c \in Agent : c # a => task'[c].batch = task[c].batch
    BY <2>1, <2>2, <2>3
  <2>5. BatchEvents(task[a].batch) = {}
    BY <2>1 DEF SlotInv, NoSlotOverwrite, Whole
  <2>6. BatchEvents(task'[a].batch) = {} /\ Once(task'[a].batch)
    BY <2>4, NothingCarried
  <2>7. Spread(Turns') = Spread(Turns) /\ (Sole(Turns) => Sole(Turns'))
    BY <2>1, <2>4, <2>5, <2>6, TurnsAt
  <2>8. QED
    BY <1>2, <1>3, <2>7, QueueAccounts
<1>6. QED
  BY <1>4, <1>5 DEF DispatchDone, HeartbeatTick, Maintenance

\* What requeue leaves behind when a turn ends.
Leaves(a, out) ==
  IF out \in {"cancelled", "drain_timeout"} THEN {} ELSE Elements(task[a].batch.cancelled)

\* A turn gives its batch back: it is queued again, given up or, as far as requeue
\* leaves it, lost.
LEMMA ResultAccounts ==
  ASSUME Inv, Whole, NEW a \in Agent, NEW out,
         q' = Completed(Restored(q, out, task[a].batch), task[a].scope),
         discarded' = IF HasBatch(task[a].batch) /\ GivenUp(q, out, task[a].batch)
                      THEN discarded \cup BatchEvents(task[a].batch) ELSE discarded,
         task' = [task EXCEPT ![a] = NoTask], UNCHANGED <<held, served, arrived>>
  PROVE  Accounts(Leaves(a, out))
<1> DEFINE b == task[a].batch
           B == BatchEvents(b)
           H == Spread(held)
           T == Spread(Turns)
           D == served \cup discarded
           O == Others(Turns, a)
<1>1. /\ q \in QueueType /\ b \in Batch /\ task[a].scope \in Scope \cup {Heartbeat}
      /\ HasBatch(b) => b.scope \in Scope
      /\ task \in [Agent -> Task]
  BY CustodyTypes
<1>2. task'[a].batch = NoBatch(Heartbeat) /\ \A c \in Agent : c # a => task'[c].batch = task[c].batch
  BY <1>1, NothingCarried
<1>3. BatchEvents(task'[a].batch) = {} /\ Once(task'[a].batch)
  BY <1>2, NothingCarried
<1>4. /\ T = B \cup O /\ Spread(Turns') = O
      /\ Sole(Turns) => Once(b) /\ B \cap O = {} /\ Sole(Turns')
  BY <1>2, <1>3, TurnsAt
<1>5. /\ ~HasBatch(b) \/ GivenUp(q, out, b) => SameEvents(q, q')
      /\ HasBatch(b) /\ ~GivenUp(q, out, b) =>
           /\ out \in {"cancelled", "drain_timeout"} => Gains(q, q', B)
           /\ out \notin {"cancelled", "drain_timeout"} => Gains(q, q', Elements(b.events))
           /\ Clean(q) /\ Once(b) /\ B \cap Known(q) = {} => Clean(q')
  <2> HIDE DEF b, B
  <2>1. q' = Completed(Restored(q, out, b), task[a].scope)
    BY DEF b
  <2>2. QED
    BY <1>1, <2>1, RestoredFacts DEF B
<1>6. ~HasBatch(b) => B = {}
  BY DEF Whole
<1>7. discarded' = IF HasBatch(b) /\ GivenUp(q, out, b) THEN discarded \cup B ELSE discarded
  OBVIOUS
<1>8. Leaves(a, out) = IF out \in {"cancelled", "drain_timeout"} THEN {} ELSE Elements(b.cancelled)
  BY DEF Leaves
<1>9. B = Elements(b.events) \cup Elements(b.cancelled)
  BY DEF BatchEvents
<1> HIDE DEF b, B, H, T, D, O
<1>10. ASSUME Books
       PROVE  /\ Ledger(q, H, T, D, arrived) /\ Clean(q) /\ Sole(held) /\ Sole(Turns')
              /\ Ledger(q, H, O, D, arrived) /\ Free(B, H, O, D, arrived)
              /\ B \cap Known(q) = {} /\ Once(b) /\ B \cap O = {}
  <2>1. Ledger(q, H, T, D, arrived) /\ Clean(q) /\ Sole(held) /\ Sole(Turns)
    BY <1>10 DEF Books, H, T, D
  <2>2. Once(b) /\ B \cap O = {} /\ Sole(Turns')
    BY <1>4, <2>1
  <2>3. Ledger(q, H, O, D, arrived)
    BY <1>4, <2>1, LedgerLess
  <2>4. Free(B, H, O, D, arrived) /\ B \cap Known(q) = {}
    BY <1>4, <2>1, <2>2 DEF Ledger, Free
  <2>5. QED
    BY <2>1, <2>2, <2>3, <2>4
<1>11. Spread(held') = H
  BY DEF H
<1>12. CASE ~HasBatch(b) \/ GivenUp(q, out, b)
  <2> DEFINE E == served' \cup discarded'
  <2>1. E = D \cup B
    BY <1>6, <1>7, <1>12 DEF D
  <2>2. SameEvents(q, q')
    BY <1>5, <1>12
  <2>3. Known(q') = Known(q) /\ Gains(q, q', {}) /\ (Clean(q) => Clean(q'))
    BY <2>2, SameEventsFacts
  <2>4. OnBooks \subseteq OnBooks'
    BY <1>4, <1>11, <2>1, <2>3 DEF OnBooks, H, T, D
  <2>5. Decided \subseteq Decided'
    BY <1>7, <2>2 DEF SameEvents, Decided
  <2>6. ASSUME Books PROVE Books'
    <3>1. Clean(q') /\ Sole(held') /\ Sole(Turns')
      BY <1>10, <2>3, <2>6
    <3>2. B \cap O = {} /\ B \cup O \subseteq T
      BY <1>4, <1>10, <2>6
    <3>3. Ledger(q, H, O, D \cup B, arrived)
      BY <1>10, <2>6, <3>2, LedgerTurnDecided
    <3>4. Ledger(q', H, O, D \cup B, arrived)
      BY <2>3, <3>1, <3>3, LedgerGains, FreeNothing
    <3>5. QED
      BY <1>4, <1>11, <2>1, <3>1, <3>4 DEF Books
  <2>7. QED
    BY <2>4, <2>5, <2>6 DEF Accounts
<1>13. CASE HasBatch(b) /\ ~GivenUp(q, out, b)
  <2>1. discarded' = discarded
    BY <1>7, <1>13
  <2>2. PICK X : Gains(q, q', X) /\ X \subseteq B /\ B \subseteq X \cup Leaves(a, out)
    <3>1. CASE out \in {"cancelled", "drain_timeout"}
      BY <1>5, <1>13, <3>1
    <3>2. CASE out \notin {"cancelled", "drain_timeout"}
      BY <1>5, <1>8, <1>9, <1>13, <3>2
    <3>3. QED
      BY <3>1, <3>2
  <2>3. OnBooks \subseteq OnBooks' \cup Leaves(a, out)
    BY <1>4, <1>11, <2>1, <2>2 DEF OnBooks, Gains, H, T
  <2>4. Decided \subseteq Decided'
    BY <2>1, <2>2 DEF Gains, Decided
  <2>5. ASSUME Books PROVE Books'
    <3>1. Clean(q') /\ Sole(held') /\ Sole(Turns')
      BY <1>5, <1>10, <1>13, <2>5
    <3>2. Free(X, H, O, D, arrived)
      BY <1>10, <2>2, <2>5 DEF Free
    <3>3. Ledger(q', H, O, D, arrived)
      BY <1>10, <2>2, <2>5, <3>1, <3>2, LedgerGains
    <3>4. served' \cup discarded' = D
      BY <2>1 DEF D
    <3>5. QED
      BY <1>4, <1>11, <3>1, <3>3, <3>4 DEF Books
  <2>6. QED
    BY <2>3, <2>4, <2>5 DEF Accounts
<1>14. QED
  BY <1>12, <1>13

\* A steer was answered: its event was delivered, or it goes back to its queue.
LEMMA AckAccounts ==
  ASSUME Inv, NEW st \in steers, SteerAcked(st)
  PROVE  Accounts({})
<1> DEFINE s == st.scope
           e == st.event
<1>1. q \in QueueType /\ s \in Scope /\ e \in Event
  BY CustodyTypes DEF Inv, TypeOK, Steer
<1>2. UNCHANGED <<held, discarded, arrived>>
  BY DEF SteerAcked
<1>3. CASE /\ q' = release_native_steer(q, s, e) /\ UNCHANGED served
           /\ (signal_in_flight_task_for_scope(s, "steer") \/ UNCHANGED task)
  <2>1. \A a \in Agent : task'[a].batch = task[a].batch
    BY <1>3, SignalKeepsBatch
  <2>2. Gains(q, q', {}) /\ (Clean(q) => Clean(q'))
    BY <1>1, <1>3, ReleaseFacts
  <2>3. QED
    BY <1>2, <1>3, <2>1, <2>2, TurnsSame, QueueAccounts
<1>4. CASE /\ q' = remove_event(extend_in_flight_deadline(q, s), s, e)
           /\ served' = served \cup {e} /\ UNCHANGED task
  <2> DEFINE H == Spread(held)
             T == Spread(Turns)
             D == served \cup discarded
             X == {e}
  <2>1. Turns' = Turns
    BY <1>4, TurnsSame
  <2>2. /\ Pending(q') \subseteq Pending(q) /\ Pending(q) \subseteq Pending(q') \cup {e}
        /\ q'.evicted = q.evicted
        /\ Clean(q) => Clean(q')
        /\ Clean(q) /\ e \in Elements(q.withheld[s]) => e \notin Pending(q')
    BY <1>1, <1>4, RemoveFacts
  <2>3. st \in steers /\ st.scope = s /\ st.event = e
    OBVIOUS
  <2> HIDE DEF s, e
  <2>4. OnBooks \subseteq OnBooks'
    BY <1>2, <1>4, <2>1, <2>2 DEF OnBooks, Known
  <2>5. Decided \subseteq Decided'
    BY <1>2, <1>4, <2>2 DEF Decided
  <2>6. ASSUME Books, SteersApart PROVE Books'
    <3>1. Clean(q) /\ Sole(held) /\ Sole(Turns) /\ Ledger(q, H, T, D, arrived)
      BY <2>6 DEF Books
    <3>2. e \in Elements(q.withheld[s]) \/ e \in Decided
      BY <2>3, <2>6 DEF SteersApart
    <3>3. Pending(q') \cap X = {} /\ X \subseteq Known(q) \cup D
      <4>1. CASE e \in Elements(q.withheld[s])
        <5>1. e \in Pending(q) /\ e \notin Pending(q')
          BY <1>1, <2>2, <3>1, <4>1, InPending
        <5>2. QED
          BY <5>1 DEF Known
      <4>2. CASE e \in Decided
        BY <2>2, <3>1, <4>2 DEF Decided, Clean, Ledger, Known
      <4>3. QED
        BY <3>2, <4>1, <4>2
    <3> HIDE DEF H, T, D, X
    <3>4. Ledger(q', H, T, D \cup X, arrived)
      BY <2>2, <3>1, <3>3, LedgerQueueDecided
    <3>5. served' \cup discarded' = D \cup X
      BY <1>2, <1>4 DEF D, X
    <3>6. Clean(q') /\ Sole(held') /\ Sole(Turns') /\ Spread(held') = H /\ Spread(Turns') = T
      BY <1>2, <2>1, <2>2, <3>1 DEF H, T
    <3>7. QED
      BY <1>2, <3>4, <3>5, <3>6 DEF Books
  <2>7. QED
    BY <2>4, <2>5, <2>6 DEF Accounts
<1>5. QED
  BY <1>3, <1>4 DEF SteerAcked

\* The books are about events.
LEMMA BooksType ==
  ASSUME Inv
  PROVE  OnBooks \subseteq Event
<1>1. /\ q \in QueueType /\ held \in Seq(FlushBatch) /\ DOMAIN Turns = Agent
      /\ \A a \in Agent : Turns[a] \in Batch
      /\ served \subseteq Event /\ discarded \subseteq Event
  BY CustodyTypes DEF Inv, TypeOK
<1>2. Known(q) \subseteq Event
  <2>1. /\ EventsIn(q.queues) \subseteq Event /\ EventsIn(q.cancelled) \subseteq Event
        /\ EventsIn(q.withheld) \subseteq Event /\ q.evicted \subseteq Event
    BY <1>1, EventsInType DEF QueueType
  <2>2. QED
    BY <2>1 DEF Known, Pending
<1>3. Spread(Turns) \subseteq Event
  BY <1>1, BatchEventsType DEF Spread
<1>4. Spread(held) \subseteq Event
  <2>1. \A i \in DOMAIN held : held[i] \in FlushBatch
    BY <1>1, ElementOfSeq, LenProperties
  <2>2. \A b \in FlushBatch : BatchEvents(b) \subseteq Event
    BY ElementsType DEF FlushBatch, BatchEvents
  <2>3. QED
    BY <2>1, <2>2 DEF Spread
<1>5. QED
  BY <1>1, <1>2, <1>3, <1>4 DEF OnBooks

\* A new event is on no page yet.
LEMMA LedgerArrives ==
  ASSUME NEW Q, NEW H \in SUBSET Nat, NEW T \in SUBSET Nat, NEW D \in SUBSET Nat, NEW n \in Nat,
         Known(Q) \subseteq Nat, Ledger(Q, H, T, D, n)
  PROVE  /\ Ledger(Q, H, T, D, n + 1) /\ Ledger(Q, H, T, D \cup {n + 1}, n + 1)
         /\ Free({n + 1}, H, T, D, n + 1) /\ n + 1 \notin Known(Q)
<1>1. \A e \in Known(Q) \cup H \cup T \cup D : e \in Nat /\ e <= n
  BY DEF Ledger
<1>2. \A e \in Known(Q) \cup H \cup T \cup D : e <= n + 1 /\ e # n + 1
  BY <1>1
<1>3. n + 1 <= n + 1
  OBVIOUS
<1> DEFINE m == n + 1
<1>4. /\ \A e \in Known(Q) \cup H \cup T \cup D : e <= m /\ e # m
      /\ m <= m
  BY <1>2, <1>3
<1> HIDE DEF m
<1>5. Pending(Q) \subseteq Known(Q)
  BY DEF Known
<1>6. Ledger(Q, H, T, D, m) /\ Ledger(Q, H, T, D \cup {m}, m)
  BY <1>4, <1>5 DEF Ledger
<1>7. Free({m}, H, T, D, m) /\ m \notin Known(Q)
  BY <1>4 DEF Free
<1>8. QED
  BY <1>6, <1>7 DEF m

\* A relay event is queued, withheld for a steer, evicted or refused.
LEMMA RelayAccounts ==
  ASSUME Inv, NEW s \in Scope, NEW from_owner \in BOOLEAN, RelayEvent(s, from_owner)
  PROVE  Accounts({}) /\ arrived + 1 \in OnBooks'
<1> DEFINE e == arrived + 1
           sig == mode_gate_signal(from_owner)
           P == push(q, s, e)
           M == mark_native_steer_pending(P, s, e)
           H == Spread(held)
           T == Spread(Turns)
           D == served \cup discarded
<1>1. /\ e \in Event /\ arrived' = e /\ q \in QueueType /\ arrived \in Nat
      /\ UNCHANGED <<held, served>>
  BY CustodyTypes DEF RelayEvent
<1>2. \/ /\ push_accepts(q, s) /\ discarded' = discarded
         /\ \/ steer_or_interrupt(P, s, e, sig)
            \/ q' = P /\ UNCHANGED task
      \/ /\ q' = q /\ UNCHANGED task
         /\ discarded' = discarded \cup {e}
  BY DEF RelayEvent
<1>3. \A a \in Agent : task'[a].batch = task[a].batch
  BY <1>2, SignalKeepsBatch DEF steer_or_interrupt
<1>4. Turns' = Turns
  BY <1>3, TurnsSame
<1>5. ASSUME Books
      PROVE  /\ Clean(q) /\ Sole(held) /\ Sole(Turns)
             /\ Ledger(q, H, T, D, e) /\ Ledger(q, H, T, D \cup {e}, e)
             /\ Free({e}, H, T, D, e) /\ e \notin Known(q)
  <2>1. Clean(q) /\ Sole(held) /\ Sole(Turns) /\ Ledger(q, H, T, D, arrived)
    BY <1>5 DEF Books
  <2>2. H \subseteq Nat /\ T \subseteq Nat /\ D \subseteq Nat /\ Known(q) \subseteq Nat
    BY BooksType, QueueAssumption DEF OnBooks
  <2> HIDE DEF H, T, D
  <2>3. QED
    BY <1>1, <2>1, <2>2, LedgerArrives
<1>6. CASE q' = q /\ discarded' = discarded \cup {e}
  <2>1. OnBooks \subseteq OnBooks' /\ e \in OnBooks' /\ Decided \subseteq Decided'
    BY <1>1, <1>4, <1>6 DEF OnBooks, Decided
  <2>2. ASSUME Books PROVE Books'
    <3>1. served' \cup discarded' = D \cup {e}
      BY <1>1, <1>6
    <3> HIDE DEF D, e
    <3>2. QED
      BY <1>1, <1>4, <1>5, <1>6, <2>2, <3>1 DEF Books
  <2>3. QED
    BY <2>1, <2>2 DEF Accounts
<1>7. CASE (q' = P \/ q' = M) /\ discarded' = discarded
  <2>1. P \in QueueType
    BY <1>1, PushType
  <2>2. Gains(q, P, {e}) /\ (Clean(q) /\ e \notin Known(q) => Clean(P))
    BY <1>1, PushFacts
  <2> HIDE DEF P
  <2>3. Pending(M) = Pending(P) /\ M.evicted = P.evicted /\ (Clean(P) => Clean(M))
    BY <1>1, <2>1, MarkFacts
  <2> HIDE DEF M
  <2>4. Known(q') = Known(P) /\ q'.evicted = P.evicted /\ (Clean(P) => Clean(q'))
    BY <1>7, <2>3 DEF Known
  <2>5. Gains(q, q', {e})
    BY <2>2, <2>4 DEF Gains
  <2>6. OnBooks \subseteq OnBooks' /\ e \in OnBooks' /\ Decided \subseteq Decided'
    BY <1>1, <1>4, <1>7, <2>5 DEF OnBooks, Decided, Gains
  <2>7. ASSUME Books PROVE Books'
    <3>1. Clean(q') /\ Sole(held') /\ Sole(Turns')
      BY <1>1, <1>4, <1>5, <2>2, <2>4, <2>7
    <3> DEFINE X == {e}
    <3>2. Ledger(q, H, T, D, e) /\ Gains(q, q', X) /\ Free(X, H, T, D, e)
      BY <1>5, <2>5, <2>7
    <3> HIDE DEF X, e
    <3>3. Spread(held') = H /\ Spread(Turns') = T /\ served' \cup discarded' = D
      BY <1>1, <1>4, <1>7
    <3> HIDE DEF H, T, D
    <3>4. Ledger(q', H, T, D, e)
      BY <3>1, <3>2, LedgerGains
    <3>5. QED
      BY <1>1, <3>1, <3>3, <3>4 DEF Books
  <2>8. QED
    BY <2>6, <2>7 DEF Accounts
<1>8. QED
  BY <1>2, <1>6, <1>7 DEF steer_or_interrupt

\* The pending work of a channel is dropped, by decision.
LEMMA RemovedAccounts ==
  ASSUME Inv, NEW ch \in Channel, MemberRemoved(ch)
  PROVE  Accounts({})
<1> DEFINE H == Spread(held)
           T == Spread(Turns)
           D == served \cup discarded
           X == PendingOf(q, ch)
<1>1. /\ q' = drain_channel(q, ch) /\ discarded' = discarded \cup X
      /\ UNCHANGED <<held, task, served, arrived>> /\ q \in QueueType
  BY CustodyTypes DEF MemberRemoved
<1>2. Turns' = Turns
  BY <1>1, TurnsSame
<1>3. /\ Pending(q) = Pending(q') \cup X /\ q'.evicted = q.evicted
      /\ Clean(q) => Clean(q') /\ Pending(q') \cap X = {}
  BY <1>1, DrainFacts
<1> HIDE DEF X
<1>4. OnBooks \subseteq OnBooks'
  BY <1>1, <1>2, <1>3 DEF OnBooks, Known
<1>5. Decided \subseteq Decided'
  BY <1>1, <1>3 DEF Decided
<1>6. ASSUME Books PROVE Books'
  <2>1. Clean(q) /\ Sole(held) /\ Sole(Turns) /\ Ledger(q, H, T, D, arrived)
    BY <1>6 DEF Books
  <2>2. served' \cup discarded' = D \cup X /\ Spread(held') = H /\ Spread(Turns') = T
    BY <1>1, <1>2
  <2> HIDE DEF H, T, D
  <2>3. /\ Pending(q') \subseteq Pending(q) /\ Pending(q') \cap X = {}
        /\ X \subseteq Known(q) \cup D
    BY <1>3, <2>1 DEF Known
  <2>4. Ledger(q', H, T, D \cup X, arrived)
    BY <1>3, <2>1, <2>3, LedgerQueueDecided
  <2>5. QED
    BY <1>1, <1>2, <1>3, <2>1, <2>2, <2>4 DEF Books
<1>7. QED
  BY <1>4, <1>5, <1>6 DEF Accounts

\* A turn keeps its whole batch for the main loop, or nothing of it.
GivesBack(old, b) ==
  \/ b.events = <<>> /\ b.cancelled = <<>>
  \/ b.events = old.events /\ b.cancelled = old.cancelled

LEMMA GivesBackFacts ==
  ASSUME NEW old, NEW b, GivesBack(old, b)
  PROVE  /\ BatchEvents(b) = {} \/ BatchEvents(b) = BatchEvents(old)
         /\ Once(old) => Once(b)
         /\ (~HasBatch(old) => BatchEvents(old) = {}) => (~HasBatch(b) => BatchEvents(b) = {})
<1>1. CASE b.events = <<>> /\ b.cancelled = <<>>
  BY <1>1, EmptyElements DEF BatchEvents, Once
<1>2. CASE b.events = old.events /\ b.cancelled = old.cancelled
  BY <1>2 DEF BatchEvents, Once, HasBatch
<1>3. QED
  BY <1>1, <1>2 DEF GivesBack

\* The end of a turn: what it does not give back was delivered or is given up.
LEMMA TurnGives ==
  ASSUME Inv, NEW a \in Agent, Turn(a)
  PROVE  /\ GivesBack(task[a].batch, task'[a].batch)
         /\ task'[a].phase \in {"returned", "panicked"} /\ task[a].phase = "running"
         /\ \A c \in Agent : c # a => task'[c] = task[c]
         /\ served' \cup discarded' = (served \cup discarded)
              \cup (BatchEvents(task[a].batch) \ BatchEvents(task'[a].batch))
         /\ served \subseteq served' /\ discarded \subseteq discarded'
         /\ UNCHANGED <<q, held, arrived>>
<1> DEFINE old == task[a].batch
<1>1. old \in Batch /\ task \in [Agent -> Task]
  BY CustodyTypes
<1>2. GivesBack(old, Recoverable(old)) /\ \A s : GivesBack(old, NoBatch(s))
  BY DEF Recoverable, NoBatch, GivesBack
<1>3. GivesBack(old, CancelledBatch(a))
  <2> DEFINE r == Recoverable(old)
             d == [r EXCEPT !.reason = task[a].control]
  <2>1. CancelledBatch(a) = NoBatch(old.scope) \/ CancelledBatch(a) = d
    BY DEF CancelledBatch
  <2>2. r.events = d.events /\ r.cancelled = d.cancelled
    BY <1>1 DEF Recoverable, NoBatch, Batch
  <2> HIDE DEF r, d
  <2>3. GivesBack(old, d)
    BY <1>2, <2>2 DEF GivesBack, r
  <2>4. QED
    BY <1>2, <2>1, <2>3
<1>4. PICK phase, out, b, kept :
        /\ TurnEnds(a, phase, out, b, kept) /\ phase \in {"returned", "panicked"}
        /\ GivesBack(old, b)
        /\ \/ /\ phase = "returned" /\ out = "ok" /\ served' = served \cup BatchEvents(old)
              /\ b = NoBatch(task[a].scope)
           \/ (phase # "returned" \/ out # "ok") /\ served' = served
  <2>1. CASE TurnSucceeds(a)
    BY <1>2, <2>1 DEF TurnSucceeds
  <2>2. ASSUME NEW out \in {"crashed", "hard_silent", "auth", "app_error"}, TurnFails(a, out)
        PROVE  \E kept : /\ TurnEnds(a, "returned", out, Recoverable(old), kept)
                         /\ out # "ok" /\ served' = served
    BY <2>2 DEF TurnFails
  <2>3. ASSUME NEW out \in {"cancelled", "drain_timeout", "crashed", "app_error"},
               TurnCancelled(a, out)
        PROVE  \E kept : /\ TurnEnds(a, "returned", out, CancelledBatch(a), kept)
                         /\ out # "ok" /\ served' = served
    BY <2>3 DEF TurnCancelled
  <2>4. CASE TurnPanics(a)
    BY <1>2, <2>4 DEF TurnPanics
  <2>5. QED
    BY <1>2, <1>3, <2>1, <2>2, <2>3, <2>4 DEF Turn
<1>5. /\ task' = [task EXCEPT ![a].phase = phase, ![a].outcome = out, ![a].batch = b]
      /\ UNCHANGED <<q, held, arrived>>
      /\ discarded' = IF phase # "returned" \/ out # "ok"
                      THEN discarded \cup (BatchEvents(old) \ BatchEvents(b)) ELSE discarded
  BY <1>4 DEF TurnEnds
<1>6. task'[a].batch = b /\ task'[a].phase = phase /\ \A c \in Agent : c # a => task'[c] = task[c]
  BY <1>1, <1>5 DEF Task
<1>7. task[a].phase = "running"
  BY DEF Turn, TurnSucceeds, TurnFails, TurnCancelled, TurnPanics
<1>8. b = NoBatch(task[a].scope) => BatchEvents(b) = {}
  BY NothingCarried
<1> HIDE DEF old
<1>9. served' \cup discarded' = (served \cup discarded) \cup (BatchEvents(old) \ BatchEvents(b))
  <2>1. CASE phase = "returned" /\ out = "ok"
    BY <1>4, <1>5, <1>8, <2>1
  <2>2. CASE phase # "returned" \/ out # "ok"
    BY <1>4, <1>5, <2>2
  <2>3. QED
    BY <2>1, <2>2
<1>10. served \subseteq served' /\ discarded \subseteq discarded'
  BY <1>4, <1>5
<1>11. QED
  BY <1>4, <1>5, <1>6, <1>7, <1>9, <1>10 DEF old

LEMMA TurnAccounts ==
  ASSUME Inv, NEW a \in Agent, Turn(a)
  PROVE  Accounts({})
<1> DEFINE B == BatchEvents(task[a].batch)
           C == BatchEvents(task'[a].batch)
           H == Spread(held)
           T == Spread(Turns)
           D == served \cup discarded
           O == Others(Turns, a)
           X == B \ C
<1>1. /\ GivesBack(task[a].batch, task'[a].batch)
      /\ \A c \in Agent : c # a => task'[c] = task[c]
      /\ served' \cup discarded' = D \cup X
      /\ served \subseteq served' /\ discarded \subseteq discarded'
      /\ UNCHANGED <<q, held, arrived>>
  BY TurnGives
<1>2. (C = {} \/ C = B) /\ (Once(task[a].batch) => Once(task'[a].batch))
  BY <1>1, GivesBackFacts
<1>3. /\ T = B \cup O /\ Spread(Turns') = C \cup O
      /\ Sole(Turns) => Once(task[a].batch) /\ B \cap O = {}
      /\ Sole(Turns) /\ Once(task'[a].batch) /\ C \cap O = {} => Sole(Turns')
  BY <1>1, TurnsAt
<1> HIDE DEF B, C, H, T, D, O
<1>4. OnBooks \subseteq OnBooks'
  BY <1>1, <1>3 DEF OnBooks, T, D
<1>5. Decided \subseteq Decided'
  BY <1>1 DEF Decided
<1>6. ASSUME Books PROVE Books'
  <2>1. Clean(q) /\ Sole(held) /\ Sole(Turns) /\ Ledger(q, H, T, D, arrived)
    BY <1>6 DEF Books, H, T, D
  <2> DEFINE S == C \cup O
  <2>2. S \cup X \subseteq T /\ S \cap X = {} /\ Sole(Turns')
    BY <1>2, <1>3, <2>1
  <2>3. Spread(held') = H /\ Sole(held') /\ Clean(q')
    BY <1>1, <2>1 DEF H
  <2> HIDE DEF X, S
  <2>4. Ledger(q, H, S, D \cup X, arrived)
    BY <2>1, <2>2, LedgerTurnDecided
  <2>5. QED
    BY <1>1, <1>3, <2>2, <2>3, <2>4 DEF Books, S
<1>7. QED
  BY <1>4, <1>5, <1>6 DEF Accounts

\* Steps that leave the books.
LEMMA UntouchedAccounts ==
  ASSUME UNCHANGED <<held, task, served, discarded, arrived>>, SameEvents(q, q')
  PROVE  Accounts({})
<1>1. Turns' = Turns
  BY TurnsSame
<1>2. Gains(q, q', {}) /\ (Clean(q) => Clean(q'))
  BY SameEventsFacts
<1>3. QED
  BY <1>1, <1>2, QueueAccounts

\* Every step keeps the books, but for what requeue leaves of a batch, and puts
\* each event that arrives on them.
LEMMA NextAccounts ==
  ASSUME Inv, SlotInv, Whole, [Next]_vars
  PROVE  /\ \/ Accounts({})
            \/ \E a \in Agent : PromptResult(a) /\ Accounts(Leaves(a, task[a].outcome))
            \/ \E a \in Agent : RecoverPanicked(a) /\ Accounts(Leaves(a, "crashed"))
         /\ arrived' = arrived \/ (arrived' = arrived + 1 /\ arrived' \in OnBooks')
<1> DEFINE Goal ==
      /\ \/ Accounts({})
         \/ \E a \in Agent : PromptResult(a) /\ Accounts(Leaves(a, task[a].outcome))
         \/ \E a \in Agent : RecoverPanicked(a) /\ Accounts(Leaves(a, "crashed"))
      /\ arrived' = arrived \/ (arrived' = arrived + 1 /\ arrived' \in OnBooks')
<1> SUFFICES Goal
  OBVIOUS
<1>1. ASSUME NEW a \in Agent, PromptResult(a)
      PROVE  Goal
  <2>1. Accounts(Leaves(a, task[a].outcome))
    <3> DEFINE out == task[a].outcome
    <3>1. /\ q' = Completed(Restored(q, out, task[a].batch), task[a].scope)
          /\ discarded' = IF HasBatch(task[a].batch) /\ GivenUp(q, out, task[a].batch)
                          THEN discarded \cup BatchEvents(task[a].batch) ELSE discarded
          /\ task' = [task EXCEPT ![a] = NoTask] /\ UNCHANGED <<held, served, arrived>>
      BY <1>1 DEF PromptResult
    <3> HIDE DEF out
    <3>2. Accounts(Leaves(a, out))
      BY <3>1, ResultAccounts
    <3>3. QED
      BY <3>2 DEF out
  <2>2. QED
    BY <1>1, <2>1 DEF PromptResult
<1>2. ASSUME NEW a \in Agent, RecoverPanicked(a)
      PROVE  Goal
  <2>1. Accounts(Leaves(a, "crashed"))
    <3>1. /\ q' = Completed(Restored(q, "crashed", task[a].batch), task[a].scope)
          /\ discarded' = IF HasBatch(task[a].batch) /\ GivenUp(q, "crashed", task[a].batch)
                          THEN discarded \cup BatchEvents(task[a].batch) ELSE discarded
          /\ task' = [task EXCEPT ![a] = NoTask] /\ UNCHANGED <<held, served, arrived>>
      BY <1>2 DEF RecoverPanicked
    <3>2. QED
      BY <3>1, ResultAccounts
  <2>2. QED
    BY <1>2, <2>1 DEF RecoverPanicked
<1>3. ASSUME NEW s \in Scope, NEW from_owner \in BOOLEAN, RelayEvent(s, from_owner)
      PROVE  Goal
  <2>1. arrived' = arrived + 1
    BY <1>3 DEF RelayEvent
  <2>2. Accounts({}) /\ arrived + 1 \in OnBooks'
    BY <1>3, RelayAccounts
  <2>3. QED
    BY <2>1, <2>2
<1>4. ASSUME NEW s \in Scope, NEW sig \in {"cancel", "rotate"}, OwnerCommand(s, sig)
      PROVE  Goal
  <2>1. UNCHANGED <<q, held, served, discarded, arrived>>
    BY <1>4 DEF OwnerCommand
  <2>2. Turns' = Turns
    BY <1>4, SignalKeepsBatch, TurnsSame DEF OwnerCommand
  <2>3. SameEvents(q, q')
    BY <2>1 DEF SameEvents
  <2>4. Gains(q, q', {}) /\ (Clean(q) => Clean(q'))
    BY <2>3, SameEventsFacts
  <2>5. Accounts({})
    BY <2>1, <2>2, <2>4, QueueAccounts
  <2>6. QED
    BY <2>1, <2>5
<1>5. ASSUME NEW ch \in Channel, MemberRemoved(ch)
      PROVE  Goal
  BY <1>5, RemovedAccounts DEF MemberRemoved
<1>6. ASSUME NEW st \in steers, SteerAcked(st)
      PROVE  Goal
  BY <1>6, AckAccounts DEF SteerAcked
<1>7. ASSUME NEW a \in Agent, Turn(a)
      PROVE  Goal
  BY <1>7, TurnAccounts, TurnGives
<1>8. CASE DispatchHold \/ DispatchClaim
  BY <1>8, HoldAccounts, ClaimAccounts DEF DispatchHold, DispatchClaim
<1>9. CASE DispatchExhausted \/ ReleaseHeld
  BY <1>9, ExhaustedAccounts, ReleaseAccounts DEF DispatchExhausted, ReleaseHeld
<1>10. CASE DispatchDone \/ HeartbeatTick \/ Maintenance
  BY <1>10, ExpiryAccounts DEF DispatchDone, HeartbeatTick, Maintenance
<1>11. ASSUME NEW s \in Scope, ThrottleElapses(s) \/ DeadlineElapses(s)
       PROVE  Goal
  <2>1. UNCHANGED <<held, task, served, discarded, arrived>> /\ q \in QueueType
    BY <1>11, CustodyTypes DEF ThrottleElapses, DeadlineElapses, timeFrame
  <2>2. SameEvents(q, q')
    BY <1>11, <2>1 DEF ThrottleElapses, DeadlineElapses, SameEvents, QueueType
  <2>3. QED
    BY <2>1, <2>2, UntouchedAccounts
<1>12. CASE UNCHANGED <<q, held, task, served, discarded, arrived>>
  <2>1. SameEvents(q, q')
    BY <1>12 DEF SameEvents
  <2>2. QED
    BY <1>12, <2>1, UntouchedAccounts
<1> HIDE DEF Goal
<1>13. CASE MainLoop
  BY <1>1, <1>2, <1>6, <1>8, <1>9, <1>10, <1>12, <1>13
     DEF MainLoop, DrainDone, CollectRespawns, queueVars
<1>14. CASE Environment
  BY <1>3, <1>4, <1>5, <1>10, <1>12, <1>14
     DEF Environment, MemberAdded, TimerTick, queueVars
<1>15. CASE Time
  BY <1>11, <1>12, <1>15 DEF Time, HoldElapses, CircuitCools, timeFrame
<1>16. CASE \/ \E a \in Agent : Turn(a) \/ RespawnEnds(a)
            \/ \E st \in steers : SteerTaken(st) \/ SteerAnswered(st)
  <2>1. ASSUME NEW a \in Agent, RespawnEnds(a)
        PROVE  UNCHANGED <<q, held, task, served, discarded, arrived>>
    BY <2>1 DEF RespawnEnds, queueVars
  <2>2. ASSUME NEW st \in steers, SteerTaken(st) \/ SteerAnswered(st)
        PROVE  UNCHANGED <<q, held, task, served, discarded, arrived>>
    BY <2>2 DEF SteerTaken, SteerAnswered, steerFrame
  <2>3. QED
    BY <1>7, <1>12, <1>16, <2>1, <2>2
<1>17. QED
  BY <1>12, <1>13, <1>14, <1>15, <1>16 DEF Next, vars

\* No step leaves events with a turn that has given back its batch.
LEMMA NextWhole == Inv /\ SlotInv /\ Whole /\ [Next]_vars => Whole'
<1> SUFFICES ASSUME Inv, SlotInv, Whole, [Next]_vars, NEW a \in Agent,
                    task'[a].phase = "none" \/ ~HasBatch(task'[a].batch)
             PROVE  BatchEvents(task'[a].batch) = {}
  BY DEF Whole, HasBatch, BatchEvents, Elements
<1>1. task \in [Agent -> Task] /\ idle \subseteq Agent
  BY DEF Inv, TypeOK
<1>2. CASE task'[a].phase = task[a].phase /\ task'[a].batch = task[a].batch
  BY <1>2 DEF Whole
<1>3. ASSUME NEW c \in Agent, PromptResult(c) \/ RecoverPanicked(c)
      PROVE  BatchEvents(task'[a].batch) = {}
  <2>1. task' = [task EXCEPT ![c] = NoTask]
    BY <1>3 DEF PromptResult, RecoverPanicked
  <2>2. CASE c = a
    BY <1>1, <2>1, <2>2, NothingCarried
  <2>3. CASE c # a
    BY <1>1, <1>2, <2>1, <2>3
  <2>4. QED
    BY <2>2, <2>3
<1>4. ASSUME NEW c \in Agent, Turn(c)
      PROVE  BatchEvents(task'[a].batch) = {}
  <2>1. /\ GivesBack(task[c].batch, task'[c].batch)
        /\ task'[c].phase \in {"returned", "panicked"}
        /\ \A d \in Agent : d # c => task'[d] = task[d]
    BY <1>4, TurnGives
  <2>2. CASE c = a
    <3>1. ~HasBatch(task[a].batch) => BatchEvents(task[a].batch) = {}
      BY DEF Whole
    <3>2. ~HasBatch(task'[a].batch)
      BY <2>1, <2>2
    <3>3. QED
      BY <2>1, <2>2, <3>1, <3>2, GivesBackFacts
  <2>3. CASE c # a
    BY <1>2, <2>1, <2>3
  <2>4. QED
    BY <2>2, <2>3
<1>5. CASE DispatchClaim
  <2>1. PICK s \in flush_choice(expire(q)) :
          task' = [task EXCEPT ![try_claim(s)] =
             [scope |-> s, batch |-> flushed_batch(expire(q), s),
              phase |-> "running", outcome |-> "ok", control |-> "armed"]]
    BY <1>5 DEF DispatchClaim
  <2> DEFINE c == try_claim(s)
             b == flushed_batch(expire(q), s)
  <2>2. HasBatch(b)
    BY DispatchFacts
  <2>3. c \in Agent
    BY <1>1, <1>5, ClaimInIdle DEF DispatchClaim
  <2> HIDE DEF b, c
  <2>4. task' = [task EXCEPT ![c] = [scope |-> s, batch |-> b, phase |-> "running",
                                     outcome |-> "ok", control |-> "armed"]]
    BY <2>1 DEF b, c
  <2>5. CASE c = a
    BY <1>1, <2>2, <2>3, <2>4, <2>5
  <2>6. CASE c # a
    BY <1>1, <1>2, <2>4, <2>6
  <2>7. QED
    BY <2>5, <2>6
<1>6. CASE HeartbeatTick
  <2>1. CASE UNCHANGED task
    BY <1>2, <2>1
  <2>2. CASE task' = [task EXCEPT ![Least(idle)] = [NoTask EXCEPT !.phase = "running"]]
    <3> DEFINE c == Least(idle)
               started == [NoTask EXCEPT !.phase = "running"]
    <3>1. started.batch = NoBatch(Heartbeat)
      BY DEF NoTask
    <3> HIDE DEF c, started
    <3>2. task' = [task EXCEPT ![c] = started]
      BY <2>2 DEF c, started
    <3>3. CASE c = a
      BY <1>1, <3>1, <3>2, <3>3, NothingCarried
    <3>4. CASE c # a
      BY <1>1, <1>2, <3>2, <3>4
    <3>5. QED
      BY <3>3, <3>4
  <2>3. QED
    BY <1>6, <2>1, <2>2 DEF HeartbeatTick
<1>7. ASSUME NEW s, NEW sig, signal_in_flight_task_for_scope(s, sig)
      PROVE  BatchEvents(task'[a].batch) = {}
  BY <1>2, <1>7, SignalKeepsBatch, SignalKeepsPhase
<1>8. CASE UNCHANGED task
  BY <1>2, <1>8
<1>9. CASE MainLoop
  BY <1>3, <1>5, <1>7, <1>8, <1>9 DEF MainLoop, DispatchHold, DispatchExhausted, DispatchDone,
     ReleaseHeld, DrainDone, SteerAcked, Maintenance, CollectRespawns
<1>10. CASE Environment
  BY <1>6, <1>7, <1>8, <1>10 DEF Environment, RelayEvent, steer_or_interrupt, OwnerCommand,
     MemberRemoved, MemberAdded, TimerTick
<1>11. CASE Time
  BY <1>8, <1>11 DEF Time, ThrottleElapses, DeadlineElapses, HoldElapses, CircuitCools, timeFrame
<1>12. CASE \/ \E c \in Agent : Turn(c) \/ RespawnEnds(c)
            \/ \E st \in steers : SteerTaken(st) \/ SteerAnswered(st)
  BY <1>4, <1>8, <1>12 DEF RespawnEnds, SteerTaken, SteerAnswered, steerFrame
<1>13. QED
  BY <1>8, <1>9, <1>10, <1>11, <1>12 DEF Next, vars

-----------------------------------------------------------------------------
(* The books and the custody of events.                                    *)

Stamps(A) == {c[4] : c \in A}

\* No event is twice among the places A.
Single(A) == \A c, d \in A : c[4] = d[4] => c = d

LEMMA InAt ==
  ASSUME NEW place, NEW T, NEW c
  PROVE  c \in At(place, T) <=>
           \E k \in DOMAIN T : \E i \in DOMAIN T[k] : c = <<place, k, i, T[k][i]>>
  BY DEF At

LEMMA AtStamps ==
  ASSUME NEW place, NEW T
  PROVE  Stamps(At(place, T)) = UNION {Elements(T[k]) : k \in DOMAIN T}
<1> DEFINE A == At(place, T)
<1>1. \A c : c \in A <=> \E k \in DOMAIN T : \E i \in DOMAIN T[k] : c = <<place, k, i, T[k][i]>>
  BY InAt
<1> HIDE DEF A
<1>2. ASSUME NEW e \in Stamps(A) PROVE e \in UNION {Elements(T[k]) : k \in DOMAIN T}
  <2>1. PICK c \in A : c[4] = e
    BY DEF Stamps
  <2>2. PICK k \in DOMAIN T : \E i \in DOMAIN T[k] : c = <<place, k, i, T[k][i]>>
    BY <1>1
  <2>3. PICK i \in DOMAIN T[k] : c = <<place, k, i, T[k][i]>>
    BY <2>2
  <2>4. e = T[k][i]
    BY <2>1, <2>3
  <2>5. QED
    BY <2>4 DEF Elements
<1>3. ASSUME NEW e \in UNION {Elements(T[k]) : k \in DOMAIN T} PROVE e \in Stamps(A)
  <2>1. PICK k \in DOMAIN T : e \in Elements(T[k])
    OBVIOUS
  <2>2. PICK i \in DOMAIN T[k] : e = T[k][i]
    BY <2>1 DEF Elements
  <2> DEFINE c == <<place, k, i, T[k][i]>>
  <2>3. c \in A /\ c[4] = e
    BY <1>1, <2>2
  <2> HIDE DEF c
  <2>4. QED
    BY <2>3 DEF Stamps
<1>4. QED
  BY <1>2, <1>3 DEF A

LEMMA AtSingle ==
  ASSUME NEW place, NEW T, \A k \in DOMAIN T : Distinct(T[k]),
         \A e : \A k, l \in DOMAIN T : e \in Elements(T[k]) /\ e \in Elements(T[l]) => k = l
  PROVE  Single(At(place, T))
<1> SUFFICES ASSUME NEW c \in At(place, T), NEW d \in At(place, T), c[4] = d[4]
             PROVE  c = d
  BY DEF Single
<1>1. PICK k \in DOMAIN T : \E i \in DOMAIN T[k] : c = <<place, k, i, T[k][i]>>
  BY InAt
<1>2. PICK i \in DOMAIN T[k] : c = <<place, k, i, T[k][i]>>
  BY <1>1
<1>3. PICK l \in DOMAIN T : \E j \in DOMAIN T[l] : d = <<place, l, j, T[l][j]>>
  BY InAt
<1>4. PICK j \in DOMAIN T[l] : d = <<place, l, j, T[l][j]>>
  BY <1>3
<1>5. T[k][i] = T[l][j]
  BY <1>2, <1>4
<1>6. T[k][i] \in Elements(T[k]) /\ T[l][j] \in Elements(T[l])
  BY DEF Elements
<1>7. k = l
  BY <1>5, <1>6
<1>8. i = j
  BY <1>5, <1>7 DEF Distinct
<1>9. QED
  BY <1>2, <1>4, <1>7, <1>8

LEMMA SingleUnion ==
  ASSUME NEW A, NEW B, Single(A), Single(B), Stamps(A) \cap Stamps(B) = {}
  PROVE  Single(A \cup B)
<1> SUFFICES ASSUME NEW c \in A \cup B, NEW d \in A \cup B, c[4] = d[4]
             PROVE  c = d
  BY DEF Single
<1>1. c \in A => c[4] \in Stamps(A)
  BY DEF Stamps
<1>2. c \in B => c[4] \in Stamps(B)
  BY DEF Stamps
<1>3. d \in A => d[4] \in Stamps(A)
  BY DEF Stamps
<1>4. d \in B => d[4] \in Stamps(B)
  BY DEF Stamps
<1>5. CASE c \in A /\ d \in A
  BY <1>5 DEF Single
<1>6. CASE c \in B /\ d \in B
  BY <1>6 DEF Single
<1>7. QED
  BY <1>1, <1>2, <1>3, <1>4, <1>5, <1>6

LEMMA StampsUnion ==
  ASSUME NEW A, NEW B
  PROVE  Stamps(A \cup B) = Stamps(A) \cup Stamps(B)
  BY DEF Stamps

\* What a batch carries, in order.
LEMMA CarriedFacts ==
  ASSUME NEW b, b.events \in Seq(Event), b.cancelled \in Seq(Event)
  PROVE  /\ Elements(Carried(b)) = BatchEvents(b)
         /\ Once(b) => Distinct(Carried(b))
  BY ConcatElements DEF Carried, BatchEvents, Once

\* The places of several batches.
LEMMA BatchesAt ==
  ASSUME NEW place, NEW f,
         \A k \in DOMAIN f : f[k].events \in Seq(Event) /\ f[k].cancelled \in Seq(Event)
  PROVE  LET A == At(place, [k \in DOMAIN f |-> Carried(f[k])]) IN
         Stamps(A) = Spread(f) /\ (Sole(f) => Single(A))
<1> DEFINE T == [k \in DOMAIN f |-> Carried(f[k])]
<1>1. DOMAIN T = DOMAIN f /\ \A k \in DOMAIN f : T[k] = Carried(f[k])
  OBVIOUS
<1> HIDE DEF T
<1>2. \A k \in DOMAIN f : /\ Elements(T[k]) = BatchEvents(f[k])
                          /\ Once(f[k]) => Distinct(T[k])
  BY <1>1, CarriedFacts
<1>3. Stamps(At(place, T)) = Spread(f)
  <2>1. UNION {Elements(T[k]) : k \in DOMAIN T} = UNION {BatchEvents(f[k]) : k \in DOMAIN f}
    BY <1>1, <1>2
  <2>2. QED
    BY <2>1, AtStamps DEF Spread
<1>4. ASSUME Sole(f) PROVE Single(At(place, T))
  <2>1. \A k \in DOMAIN T : Distinct(T[k])
    BY <1>1, <1>2, <1>4 DEF Sole
  <2>2. ASSUME NEW e, NEW k \in DOMAIN T, NEW l \in DOMAIN T,
               e \in Elements(T[k]), e \in Elements(T[l])
        PROVE  k = l
    BY <1>1, <1>2, <1>4, <2>2 DEF Sole
  <2>3. QED
    BY <2>1, <2>2, AtSingle
<1>5. QED
  BY <1>3, <1>4 DEF T

\* The places of a table of the queue.
LEMMA TableAt ==
  ASSUME NEW place, NEW T, DOMAIN T = Scope
  PROVE  Stamps(At(place, T)) = EventsIn(T)
  BY AtStamps DEF EventsIn

\* Custody is what is pending in the queue, held and prompted.
LEMMA CustodyFacts ==
  ASSUME Inv
  PROVE  /\ InCustody = Pending(q) \cup Spread(held) \cup Spread(Turns)
         /\ InCustody \cup Decided = OnBooks
         /\ Books => Single(Custody) /\ InCustody \cap Decided = {}
<1> DEFINE A1 == At("queue", q.queues)
           A2 == At("carryover", q.cancelled)
           A3 == At("withheld", q.withheld)
           A4 == At("held", [i \in DOMAIN held |-> Carried(held[i])])
           A5 == At("turn", [a \in Agent |-> Carried(task[a].batch)])
<1>1. /\ q \in QueueType /\ held \in Seq(FlushBatch) /\ DOMAIN Turns = Agent
      /\ \A a \in Agent : Turns[a] = task[a].batch /\ task[a].batch \in Batch
  BY CustodyTypes
<1>2. DOMAIN q.queues = Scope /\ DOMAIN q.cancelled = Scope /\ DOMAIN q.withheld = Scope
  BY <1>1 DEF QueueType
<1>3. /\ Stamps(A1) = EventsIn(q.queues) /\ Stamps(A2) = EventsIn(q.cancelled)
      /\ Stamps(A3) = EventsIn(q.withheld)
  BY <1>2, TableAt
<1>4. Stamps(A4) = Spread(held) /\ (Sole(held) => Single(A4))
  <2>1. \A i \in DOMAIN held : held[i] \in FlushBatch
    BY <1>1, ElementOfSeq, LenProperties
  <2>2. \A i \in DOMAIN held : held[i].events \in Seq(Event) /\ held[i].cancelled \in Seq(Event)
    BY <2>1 DEF FlushBatch
  <2>3. QED
    BY <2>2, BatchesAt
<1>5. Stamps(A5) = Spread(Turns) /\ (Sole(Turns) => Single(A5))
  <2>1. \A a \in DOMAIN Turns : /\ Turns[a].events \in Seq(Event)
                                /\ Turns[a].cancelled \in Seq(Event)
    BY <1>1 DEF Batch
  <2>2. [a \in DOMAIN Turns |-> Carried(Turns[a])] = [a \in Agent |-> Carried(task[a].batch)]
    BY <1>1
  <2> DEFINE f == Turns
  <2> HIDE DEF f
  <2>3. LET A == At("turn", [a \in DOMAIN f |-> Carried(f[a])]) IN
        Stamps(A) = Spread(f) /\ (Sole(f) => Single(A))
    BY <2>1, BatchesAt DEF f
  <2>4. A5 = At("turn", [a \in DOMAIN f |-> Carried(f[a])])
    BY <2>2 DEF f
  <2>5. QED
    BY <2>3, <2>4 DEF f
<1>6. Custody = (((A1 \cup A2) \cup A3) \cup A4) \cup A5
  BY DEF Custody
<1>7. InCustody = Stamps(Custody)
  BY DEF InCustody, Stamps
<1> HIDE DEF A1, A2, A3, A4, A5
<1>8. /\ Stamps(A1 \cup A2) = EventsIn(q.queues) \cup EventsIn(q.cancelled)
      /\ Stamps((A1 \cup A2) \cup A3) = Pending(q)
      /\ Stamps(((A1 \cup A2) \cup A3) \cup A4) = Pending(q) \cup Spread(held)
      /\ Stamps(Custody) = Pending(q) \cup Spread(held) \cup Spread(Turns)
  <2>1. Stamps(A1 \cup A2) = EventsIn(q.queues) \cup EventsIn(q.cancelled)
    BY <1>3, StampsUnion
  <2>2. Stamps((A1 \cup A2) \cup A3) = Pending(q)
    BY <1>3, <2>1, StampsUnion DEF Pending
  <2>3. Stamps(((A1 \cup A2) \cup A3) \cup A4) = Pending(q) \cup Spread(held)
    BY <1>4, <2>2, StampsUnion
  <2>4. Stamps((((A1 \cup A2) \cup A3) \cup A4) \cup A5)
          = Pending(q) \cup Spread(held) \cup Spread(Turns)
    BY <1>5, <2>3, StampsUnion
  <2>5. QED
    BY <1>6, <2>1, <2>2, <2>3, <2>4
<1>9. InCustody \cup Decided = OnBooks
  BY <1>7, <1>8 DEF Decided, OnBooks, Known
<1>10. ASSUME Books PROVE Single(Custody) /\ InCustody \cap Decided = {}
  <2>1. /\ Apart(q) /\ Pending(q) \cap q.evicted = {} /\ Sole(held) /\ Sole(Turns)
        /\ Ledger(q, Spread(held), Spread(Turns), served \cup discarded, arrived)
    BY <1>10 DEF Books, Clean
  <2>2. \A s \in Scope : /\ q.queues[s] \in Seq(Event) /\ q.cancelled[s] \in Seq(Event)
                         /\ q.withheld[s] \in Seq(Event)
    BY <1>1 DEF QueueType
  <2>3. \A s \in Scope : /\ Elements(q.queues[s]) \subseteq Event
                         /\ Elements(q.cancelled[s]) \subseteq Event
                         /\ Elements(q.withheld[s]) \subseteq Event
    BY <2>2, ElementsType
  <2>4. Single(A1)
    <3>1. \A s \in Scope : Distinct(q.queues[s])
      BY <2>1 DEF Apart
    <3>2. \A e : \A s, t \in Scope :
            e \in Elements(q.queues[s]) /\ e \in Elements(q.queues[t]) => s = t
      BY <2>1, <2>3 DEF Apart
    <3>3. QED
      BY <1>2, <3>1, <3>2, AtSingle DEF A1
  <2>5. Single(A2)
    <3>1. \A s \in Scope : Distinct(q.cancelled[s])
      BY <2>1 DEF Apart
    <3>2. \A e : \A s, t \in Scope :
            e \in Elements(q.cancelled[s]) /\ e \in Elements(q.cancelled[t]) => s = t
      BY <2>1, <2>3 DEF Apart
    <3>3. QED
      BY <1>2, <3>1, <3>2, AtSingle DEF A2
  <2>6. Single(A3)
    <3>1. \A s \in Scope : Distinct(q.withheld[s])
      BY <2>1 DEF Apart
    <3>2. \A e : \A s, t \in Scope :
            e \in Elements(q.withheld[s]) /\ e \in Elements(q.withheld[t]) => s = t
      BY <2>1, <2>3 DEF Apart
    <3>3. QED
      BY <1>2, <3>1, <3>2, AtSingle DEF A3
  <2>7. EventsIn(q.queues) \cap EventsIn(q.cancelled) = {}
    <3>1. ASSUME NEW e \in EventsIn(q.queues), e \in EventsIn(q.cancelled) PROVE FALSE
      <4>1. PICK s \in Scope : e \in Elements(q.queues[s])
        BY InTable
      <4>2. PICK t \in Scope : e \in Elements(q.cancelled[t])
        BY <3>1, InTable
      <4>3. QED
        BY <2>1, <2>3, <4>1, <4>2 DEF Apart
    <3>2. QED
      BY <3>1
  <2>8. (EventsIn(q.queues) \cup EventsIn(q.cancelled)) \cap EventsIn(q.withheld) = {}
    <3>1. ASSUME NEW e \in EventsIn(q.withheld),
                 e \in EventsIn(q.queues) \/ e \in EventsIn(q.cancelled)
          PROVE  FALSE
      <4>1. PICK s \in Scope : e \in Elements(q.withheld[s])
        BY InTable
      <4>2. PICK t \in Scope : e \in Elements(q.queues[t]) \/ e \in Elements(q.cancelled[t])
        BY <3>1, InTable
      <4>3. QED
        BY <2>1, <2>3, <4>1, <4>2 DEF Apart
    <3>2. QED
      BY <3>1
  <2>9. /\ Pending(q) \cap Spread(held) = {}
        /\ (Pending(q) \cup Spread(held)) \cap Spread(Turns) = {}
        /\ (Pending(q) \cup Spread(held) \cup Spread(Turns)) \cap (served \cup discarded) = {}
        /\ (Spread(held) \cup Spread(Turns)) \cap q.evicted = {}
    BY <2>1 DEF Ledger, Known
  <2>10. Single(A1 \cup A2)
    BY <1>3, <2>4, <2>5, <2>7, SingleUnion
  <2>11. Single((A1 \cup A2) \cup A3)
    BY <1>3, <1>8, <2>6, <2>8, <2>10, SingleUnion
  <2>12. Single(((A1 \cup A2) \cup A3) \cup A4)
    BY <1>4, <1>8, <2>1, <2>9, <2>11, SingleUnion
  <2>13. Single(Custody)
    BY <1>5, <1>6, <1>8, <2>1, <2>9, <2>12, SingleUnion
  <2>14. InCustody \cap Decided = {}
    BY <1>7, <1>8, <2>1, <2>9 DEF Decided
  <2>15. QED
    BY <2>13, <2>14
<1>11. QED
  BY <1>7, <1>8, <1>9, <1>10

-----------------------------------------------------------------------------
(* What may be lost.                                                       *)

\* No turn has a batch when the harness starts.
LEMMA InitWhole == Init => Whole
<1> SUFFICES ASSUME Init, NEW a \in Agent PROVE BatchEvents(task[a].batch) = {}
  BY DEF Whole
<1>1. task[a].batch = NoBatch(Heartbeat)
  BY NothingCarried DEF Init
<1>2. QED
  BY <1>1, NothingCarried

LEMMA WholeHolds == Spec => []Whole
  BY InitWhole, NextWhole, InvHolds, SlotInvHolds, PTL DEF Spec

Bridge == InCustody \cup Decided = OnBooks

LEMMA BridgeHolds == Spec => []Bridge
<1>1. Inv => Bridge
  BY CustodyFacts DEF Bridge
<1>2. QED
  BY <1>1, InvHolds, PTL

\* The end of a failed turn that carried cancelled events is the only step that
\* lets go of an event the harness holds, or does not keep one that arrives:
\* requeue takes the events of the batch and forgets the carryover.  Whatever else
\* happens to an event, in any configuration and even if turns overrun, it stays
\* in the queue, with a held batch or with a turn, or its end is logged.
THEOREM OnlyTheCarryoverIsLost == Spec => OnlyCarryoverIsLost
<1> DEFINE Step == \A e \in InCustody \cup ((1..arrived') \ (1..arrived)) :
                     e \in InCustody' \cup Decided' \/ \E a \in Agent : Forgets(a, e)
<1>1. Inv /\ SlotInv /\ Whole /\ Bridge /\ Bridge' /\ [Next]_vars => Step
  <2> SUFFICES ASSUME Inv, SlotInv, Whole, Bridge, Bridge', [Next]_vars,
                      NEW e \in InCustody \cup ((1..arrived') \ (1..arrived)),
                      e \notin InCustody' \cup Decided'
               PROVE  \E a \in Agent : Forgets(a, e)
    OBVIOUS
  <2>1. e \notin OnBooks'
    BY DEF Bridge
  <2>2. /\ \/ Accounts({})
           \/ \E a \in Agent : PromptResult(a) /\ Accounts(Leaves(a, task[a].outcome))
           \/ \E a \in Agent : RecoverPanicked(a) /\ Accounts(Leaves(a, "crashed"))
        /\ arrived' = arrived \/ (arrived' = arrived + 1 /\ arrived' \in OnBooks')
    BY NextAccounts
  <2>3. e \in OnBooks
    <3>1. CASE e \in InCustody
      BY <3>1 DEF Bridge
    <3>2. CASE e \in (1..arrived') \ (1..arrived)
      <4>1. arrived \in Nat
        BY CustodyTypes
      <4>2. arrived' = arrived + 1 => e = arrived'
        BY <3>2, <4>1
      <4>3. arrived' # arrived
        BY <3>2
      <4>4. QED
        BY <2>1, <2>2, <4>2, <4>3
    <3>3. QED
      BY <3>1, <3>2
  <2>4. CASE Accounts({})
    BY <2>1, <2>3, <2>4 DEF Accounts
  <2>5. ASSUME NEW a \in Agent, PromptResult(a), Accounts(Leaves(a, task[a].outcome))
        PROVE  Forgets(a, e)
    <3>1. e \in Leaves(a, task[a].outcome)
      BY <2>1, <2>3, <2>5 DEF Accounts
    <3>2. QED
      BY <2>5, <3>1 DEF Leaves, Forgets
  <2>6. ASSUME NEW a \in Agent, RecoverPanicked(a), Accounts(Leaves(a, "crashed"))
        PROVE  Forgets(a, e)
    <3>1. e \in Leaves(a, "crashed")
      BY <2>1, <2>3, <2>6 DEF Accounts
    <3>2. e \in Elements(task[a].batch.cancelled)
      BY <3>1 DEF Leaves
    <3>3. QED
      BY <2>6, <3>2 DEF Forgets
  <2>7. QED
    BY <2>2, <2>4, <2>5, <2>6
<1>2. Inv /\ SlotInv /\ Whole /\ Bridge /\ Bridge' /\ [Next]_vars => [Step]_vars
  BY <1>1
<1>3. QED
  BY <1>2, InvHolds, SlotInvHolds, WholeHolds, BridgeHolds, PTL DEF Spec, OnlyCarryoverIsLost

-----------------------------------------------------------------------------
(* Steers and double delivery.                                             *)

\* The read loop and the end of a turn bring no steer.
LEMMA SteersFrom ==
  ASSUME Inv, OneSteer(steers),
         \/ steers' = steers
         \/ \E a : steers' = SteersEndedBy(a)
         \/ \E st \in steers : SteerTaken(st) \/ SteerAnswered(st)
  PROVE  OneSteer(steers') /\ \A st \in steers' : Watched(st.event, st.scope, steers)
<1>1. steers \subseteq Steer
  BY DEF Inv, TypeOK
<1>2. CASE steers' = steers
  BY <1>2 DEF Watched
<1>3. ASSUME NEW a, steers' = SteersEndedBy(a)
      PROVE  OneSteer(steers') /\ \A st \in steers' : Watched(st.event, st.scope, steers)
  <2> DEFINE f(st) == IF st.agent = a /\ st.state \in {"slot", "written"}
                      THEN [st EXCEPT !.state = "acked", !.ack = "neutral"] ELSE st
  <2>1. \A st \in steers : f(st).event = st.event /\ f(st).scope = st.scope
    BY <1>1 DEF Steer
  <2>2. steers' = {f(st) : st \in steers}
    BY <1>3 DEF SteersEndedBy
  <2> HIDE DEF f
  <2>3. OneSteer(steers')
    BY <2>1, <2>2 DEF OneSteer
  <2>4. QED
    BY <2>1, <2>2, <2>3 DEF Watched
<1>4. ASSUME NEW other \in steers, SteerTaken(other) \/ SteerAnswered(other)
      PROVE  OneSteer(steers') /\ \A st \in steers' : Watched(st.event, st.scope, steers)
  <2>1. PICK next : /\ steers' = (steers \ {other}) \cup {next}
                    /\ next.event = other.event /\ next.scope = other.scope
    <3>1. CASE SteerTaken(other)
      <4>1. PICK next \in {[other EXCEPT !.state = "written"],
                           [other EXCEPT !.state = "acked", !.ack = "unlanded"]} :
              steers' = (steers \ {other}) \cup {next}
        BY <3>1 DEF SteerTaken
      <4>2. next.event = other.event /\ next.scope = other.scope
        BY <1>1, <4>1 DEF Steer
      <4>3. QED
        BY <4>1, <4>2
    <3>2. CASE SteerAnswered(other)
      <4>1. PICK ack : steers' = (steers \ {other}) \cup
                                   {[other EXCEPT !.state = "acked", !.ack = ack]}
        BY <3>2 DEF SteerAnswered
      <4> DEFINE next == [other EXCEPT !.state = "acked", !.ack = ack]
      <4>2. next.event = other.event /\ next.scope = other.scope
        BY <1>1 DEF Steer
      <4>3. QED
        BY <4>1, <4>2
    <3>3. QED
      BY <1>4, <3>1, <3>2
  <2>2. OneSteer(steers')
    BY <2>1 DEF OneSteer
  <2>3. QED
    BY <2>1, <2>2 DEF Watched
<1>5. QED
  BY <1>2, <1>3, <1>4

\* Only the steer mode steers.
NoSteers == Handling # "steer" => steers = {}

LEMMA NextNoSteers == NoSteers /\ [Next]_vars => NoSteers'
<1> SUFFICES ASSUME Handling # "steer", steers = {}, [Next]_vars PROVE steers' = {}
  BY DEF NoSteers
<1>1. ~\E st \in steers : SteerAcked(st)
  OBVIOUS
<1>2. ASSUME NEW s \in Scope, NEW from_owner \in BOOLEAN, RelayEvent(s, from_owner)
      PROVE  steers' = {}
  <2>1. mode_gate_signal(from_owner) # "steer"
    BY HarnessAssumption DEF mode_gate_signal
  <2>2. QED
    BY <1>2, <2>1 DEF RelayEvent, steer_or_interrupt
<1>3. CASE ~\E s \in Scope, from_owner \in BOOLEAN : RelayEvent(s, from_owner)
  <2>1. \/ steers' = steers
        \/ \E a : steers' = SteersEndedBy(a)
        \/ \E st \in steers : SteerTaken(st) \/ SteerAnswered(st)
    BY <1>1, <1>3, OtherSteers
  <2>2. QED
    BY <2>1 DEF SteersEndedBy
<1>4. QED
  BY <1>2, <1>3

\* The steer of a new event withholds it, unless the caps evicted it.
LEMMA RelaySteers ==
  ASSUME Inv, Books, SteersApart, Decided \subseteq Decided',
         NEW s \in Scope, NEW from_owner \in BOOLEAN, RelayEvent(s, from_owner)
  PROVE  SteersApart'
<1> DEFINE e == arrived + 1
           P == push(q, s, e)
           M == mark_native_steer_pending(P, s, e)
<1>1. e \in Event /\ arrived \in Nat /\ q \in QueueType
  BY CustodyTypes DEF RelayEvent
<1>2. e \notin OnBooks
  <2>1. OnBooks \subseteq Nat /\ \A f \in OnBooks : f <= arrived
    BY BooksType, QueueAssumption DEF OnBooks, Books, Ledger
  <2>2. QED
    BY <1>1, <2>1
<1>3. P \in QueueType /\ P.withheld = q.withheld
  BY <1>1, PushType, PushTables DEF SameTables
<1>4. e \in Elements(P.queues[s]) \/ e \in P.evicted
  BY <1>1, <1>2, PushedEvent DEF OnBooks
<1>5. \/ (q' = P \/ q' = q) /\ steers' = steers
      \/ /\ q' = M
         /\ \E a : steers' = steers \cup
              {[scope |-> s, event |-> e, agent |-> a, state |-> "slot", ack |-> "neutral"]}
  BY DEF RelayEvent, steer_or_interrupt
<1> HIDE DEF P
<1>6. /\ M.evicted = P.evicted
      /\ e \in Elements(P.queues[s]) => e \in Elements(M.withheld[s])
      /\ \A t \in Scope : Elements(P.withheld[t]) \subseteq Elements(M.withheld[t])
  BY <1>1, <1>3, MarkFacts
<1> HIDE DEF M
<1>7. \A t \in Scope : Elements(q.withheld[t]) \subseteq Elements(q'.withheld[t])
  BY <1>3, <1>5, <1>6
<1>8. \A st \in steers : /\ st.scope \in Scope
                         /\ st.event \in Elements(q'.withheld[st.scope]) \/ st.event \in Decided'
  BY <1>7 DEF SteersApart, Inv, TypeOK, Steer
<1>9. \A st \in steers : st.event \in OnBooks
  <2>1. \A t \in Scope : Elements(q.withheld[t]) \subseteq OnBooks
    BY InPending DEF OnBooks, Known
  <2>2. Decided \subseteq OnBooks
    BY DEF Decided, OnBooks, Known
  <2>3. QED
    BY <2>1, <2>2 DEF SteersApart, Inv, TypeOK, Steer
<1>10. CASE steers' = steers
  BY <1>8, <1>10 DEF SteersApart
<1>11. CASE q' = M /\ \E a : steers' = steers \cup
              {[scope |-> s, event |-> e, agent |-> a, state |-> "slot", ack |-> "neutral"]}
  <2>1. PICK a : steers' = steers \cup
              {[scope |-> s, event |-> e, agent |-> a, state |-> "slot", ack |-> "neutral"]}
    BY <1>11
  <2> DEFINE new_st == [scope |-> s, event |-> e, agent |-> a, state |-> "slot",
                        ack |-> "neutral"]
  <2>2. new_st.scope = s /\ new_st.event = e /\ steers' = steers \cup {new_st}
    BY <2>1
  <2> HIDE DEF new_st, e
  <2>3. e \in Elements(q'.withheld[s]) \/ e \in Decided'
    BY <1>4, <1>6, <1>11 DEF Decided
  <2>4. OneSteer(steers')
    BY <1>2, <1>9, <2>2 DEF OneSteer, SteersApart
  <2>5. QED
    BY <1>8, <2>2, <2>3, <2>4 DEF SteersApart
<1>12. QED
  BY <1>5, <1>10, <1>11

\* Every step keeps the events of the steers withheld until they are decided, if
\* the backstop does not release them.
LEMMA NextSteers ==
  ASSUME Inv, Books, SteersApart, NoDue, Decided \subseteq Decided', [Next]_vars
  PROVE  SteersApart'
<1>1. q \in QueueType /\ steers \subseteq Steer
  BY DEF Inv, TypeOK
<1>2. ASSUME NEW st \in steers, SteerAcked(st) PROVE SteersApart'
  <2> DEFINE s == st.scope
             e == st.event
             w == Without(q.withheld[s], e)
  <2>1. s \in Scope /\ q.withheld \in [Scope -> Seq(Event)]
    BY <1>1 DEF Steer, QueueType
  <2>2. q'.withheld = [q.withheld EXCEPT ![s] = w]
    BY <1>2, AckWithheld
  <2>3. Elements(q.withheld[s]) \subseteq Elements(w) \cup {e}
    BY <2>1, WithoutKeeps
  <2>4. steers' = steers \ {st}
    BY <1>2 DEF SteerAcked
  <2>5. \A other \in steers' : other.event # e /\ other \in steers /\ other.scope \in Scope
    BY <1>1, <2>4 DEF SteersApart, OneSteer, Steer
  <2> HIDE DEF s, e, w
  <2>6. \A t \in Scope : Elements(q.withheld[t]) \subseteq Elements(q'.withheld[t]) \cup {e}
    <3> TAKE t \in Scope
    <3>1. CASE t = s
      BY <2>1, <2>2, <2>3, <3>1
    <3>2. CASE t # s
      BY <2>1, <2>2, <3>2
    <3>3. QED
      BY <3>1, <3>2
  <2>7. \A other \in steers' :
          other.event \in Elements(q'.withheld[other.scope]) \/ other.event \in Decided'
    BY <2>5, <2>6 DEF SteersApart
  <2>8. OneSteer(steers')
    BY <2>4 DEF SteersApart, OneSteer
  <2>9. QED
    BY <2>7, <2>8 DEF SteersApart
<1>3. ASSUME NEW ch \in Channel, MemberRemoved(ch) PROVE SteersApart'
  <2>1. /\ q' = drain_channel(q, ch) /\ discarded' = discarded \cup PendingOf(q, ch)
        /\ steers' = steers
    BY <1>3 DEF MemberRemoved
  <2>2. \A t \in Scope :
          Elements(q.withheld[t]) \subseteq Elements(q'.withheld[t]) \cup PendingOf(q, ch)
    BY <1>1, <2>1, DrainFacts
  <2>3. PendingOf(q, ch) \subseteq Decided'
    BY <2>1 DEF Decided
  <2>4. \A st \in steers : st.scope \in Scope
    BY <1>1 DEF Steer
  <2>5. QED
    BY <2>1, <2>2, <2>3, <2>4 DEF SteersApart
<1>4. CASE /\ ~\E st \in steers : SteerAcked(st)
           /\ ~\E s \in Scope, from_owner \in BOOLEAN : RelayEvent(s, from_owner)
           /\ \A ch \in Channel : ~MemberRemoved(ch)
  <2>1. q'.withheld = q.withheld
    BY <1>4, WithheldKept
  <2>2. \/ steers' = steers
        \/ \E a : steers' = SteersEndedBy(a)
        \/ \E st \in steers : SteerTaken(st) \/ SteerAnswered(st)
    BY <1>4, OtherSteers
  <2>3. OneSteer(steers') /\ \A st \in steers' : Watched(st.event, st.scope, steers)
    BY <2>2, SteersFrom DEF SteersApart
  <2>4. QED
    BY <2>1, <2>3 DEF SteersApart, Watched
<1>5. QED
  BY <1>2, <1>3, <1>4, RelaySteers

\* The books are empty at the start.
LEMMA InitBooks == Init => Books /\ SteersApart /\ NoSteers
<1> SUFFICES ASSUME Init PROVE Books /\ SteersApart /\ NoSteers
  OBVIOUS
<1>1. q = new /\ held = <<>> /\ steers = {} /\ served = {} /\ discarded = {} /\ arrived = 0
  BY DEF Init
<1>2. \A s \in Scope : new.queues[s] = <<>> /\ new.cancelled[s] = <<>> /\ new.withheld[s] = <<>>
  BY DEF new
<1>3. new.evicted = {}
  BY DEF new
<1>4. \A s \in Scope : /\ Elements(new.queues[s]) = {} /\ Distinct(new.queues[s])
                       /\ Elements(new.cancelled[s]) = {} /\ Distinct(new.cancelled[s])
                       /\ Elements(new.withheld[s]) = {} /\ Distinct(new.withheld[s])
  BY <1>2, EmptyElements
<1>5. Pending(new) = {} /\ Known(new) = {}
  BY <1>3, <1>4, InPending DEF Known
<1>6. Clean(new)
  BY <1>4, <1>5 DEF Clean, Apart
<1>7. DOMAIN held = {}
  BY <1>1
<1>8. Spread(held) = {} /\ Sole(held)
  BY <1>7 DEF Spread, Sole
<1>9. DOMAIN Turns = Agent /\ \A a \in Agent : Turns[a] = NoBatch(Heartbeat)
  BY NothingCarried DEF Turns, Init
<1>10. \A a \in Agent : BatchEvents(Turns[a]) = {} /\ Once(Turns[a])
  BY <1>9, NothingCarried
<1>11. Spread(Turns) = {} /\ Sole(Turns)
  BY <1>9, <1>10 DEF Spread, Sole
<1>12. served \cup discarded = {}
  BY <1>1
<1>13. Ledger(new, {}, {}, {}, arrived)
  BY <1>5 DEF Ledger
<1>14. Books
  BY <1>1, <1>6, <1>8, <1>11, <1>12, <1>13 DEF Books
<1>15. QED
  BY <1>1, <1>14 DEF SteersApart, OneSteer, NoSteers

\* Every step keeps the books in order, whichever of its events it forgets.
LEMMA NextBooks ==
  ASSUME Handling = "steer" => ~TurnOverrun,
         Inv, SlotInv, Whole, Handling = "steer" => TurnInv, Books, SteersApart, NoSteers,
         [Next]_vars
  PROVE  Books' /\ SteersApart' /\ NoSteers' /\ (Handling = "steer" => TurnInv')
<1>1. PICK X : Accounts(X)
  BY NextAccounts
<1>2. Books' /\ Decided \subseteq Decided'
  BY <1>1 DEF Accounts
<1>3. NoSteers'
  BY NextNoSteers
<1>4. Handling = "steer" => TurnInv'
  BY NextTurns
<1>5. CASE Handling = "steer"
  <2>1. SteersApart'
    BY <1>2, <1>5, NextSteers DEF TurnInv
  <2>2. QED
    BY <1>2, <1>3, <1>4, <2>1
<1>6. CASE Handling # "steer"
  <2>1. steers' = {}
    BY <1>3, <1>6 DEF NoSteers
  <2>2. SteersApart'
    BY <2>1 DEF SteersApart, OneSteer
  <2>3. QED
    BY <1>2, <1>3, <1>6, <2>2
<1>7. QED
  BY <1>5, <1>6

\* An event is in one place at a time, and in none once it was delivered or given
\* up: in every mode in which native steers do not meet a turn that outlives its
\* in-flight deadline.  (Then the backstop returns a withheld event to its queue
\* while the steer that delivers it is still under way.)
THEOREM NothingDeliveredTwice ==
  ASSUME Handling = "steer" => ~TurnOverrun
  PROVE  Spec => []NoDoubleDelivery
<1> DEFINE TurnsFine == Handling = "steer" => TurnInv
           AllApart == Books /\ SteersApart /\ NoSteers /\ TurnsFine
<1>1. Init => AllApart
  BY InitBooks, InitTurns
<1>2. Inv /\ SlotInv /\ Whole /\ AllApart /\ [Next]_vars => AllApart'
  <2>1. ASSUME Inv, SlotInv, Whole, AllApart, [Next]_vars PROVE AllApart'
    <3>1. Books' /\ SteersApart' /\ NoSteers' /\ (Handling = "steer" => TurnInv')
      BY <2>1, NextBooks
    <3>2. QED
      BY <3>1
  <2>2. QED
    BY <2>1
<1>3. Inv /\ AllApart => NoDoubleDelivery
  <2> SUFFICES ASSUME Inv, Books PROVE NoDoubleDelivery
    OBVIOUS
  <2>1. Single(Custody) /\ InCustody \cap Decided = {}
    BY CustodyFacts
  <2>2. ASSUME NEW e \in InCustody
        PROVE  Cardinality({c \in Custody : c[4] = e}) = 1
    <3>1. PICK c \in Custody : c[4] = e
      BY DEF InCustody
    <3>2. {d \in Custody : d[4] = e} = {c}
      BY <2>1, <3>1 DEF Single
    <3>3. QED
      BY <3>2, FS_Singleton
  <2>3. QED
    BY <2>1, <2>2 DEF NoDoubleDelivery
<1> HIDE DEF AllApart
<1>4. QED
  BY <1>1, <1>2, <1>3, InvHolds, SlotInvHolds, WholeHolds, PTL DEF Spec

-----------------------------------------------------------------------------
(* When nothing at all is lost.                                            *)

\* A control signal reaches a task, or is dropped with its receiver.
LEMMA SignalControl ==
  ASSUME Inv, NEW s, NEW sig, signal_in_flight_task_for_scope(s, sig), NEW c \in Agent
  PROVE  task'[c].control \in {task[c].control, sig, "none"}
<1>1. task \in [Agent -> Task]
  BY DEF Inv, TypeOK
<1>2. CASE task' = task
  BY <1>2
<1>3. CASE \E a \in TasksOf(s) : task' = Signalled(task, a, sig)
  <2>1. PICK a \in Agent : task' = Signalled(task, a, sig)
    BY <1>3 DEF TasksOf
  <2>2. task' = task \/ \E x \in {sig, "none"} : task' = [task EXCEPT ![a].control = x]
    BY <2>1 DEF Signalled
  <2>3. ASSUME NEW x \in {sig, "none"}, task' = [task EXCEPT ![a].control = x]
        PROVE  task'[c].control \in {task[c].control, sig, "none"}
    <3>1. CASE c = a
      BY <1>1, <2>3, <3>1 DEF Task
    <3>2. CASE c # a
      BY <1>1, <2>3, <3>2
    <3>3. QED
      BY <3>1, <3>2
  <2>4. QED
    BY <1>2, <2>2, <2>3
<1>4. QED
  BY <1>2, <1>3 DEF signal_in_flight_task_for_scope

\* How a turn ends: with its batch delivered, with a failure, or by a signal.
LEMMA TurnEnding ==
  ASSUME Inv, NEW a \in Agent, Turn(a)
  PROVE  /\ task'[a].control = task[a].control
         /\ \A c \in Agent : c # a => task'[c] = task[c]
         /\ \/ /\ task'[a].phase = "returned" /\ task'[a].outcome = "ok"
               /\ task'[a].batch = NoBatch(task[a].scope)
            \/ /\ Failing /\ task'[a].outcome \notin {"ok", "cancelled", "drain_timeout"}
               /\ task'[a].batch \in {Recoverable(task[a].batch), CancelledBatch(a)}
            \/ /\ task'[a].phase = "returned" /\ task[a].control \in Signal
               /\ task'[a].batch = CancelledBatch(a)
               /\ task'[a].outcome = "cancelled" \/ (task'[a].outcome = "drain_timeout" /\ Failing)
<1>1. task \in [Agent -> Task]
  BY DEF Inv, TypeOK
<1>2. ASSUME NEW phase, NEW out, NEW b, NEW kept, TurnEnds(a, phase, out, b, kept)
      PROVE  /\ task'[a].phase = phase /\ task'[a].outcome = out /\ task'[a].batch = b
             /\ task'[a].control = task[a].control
             /\ \A c \in Agent : c # a => task'[c] = task[c]
  BY <1>1, <1>2 DEF TurnEnds, Task
<1>3. CASE TurnSucceeds(a)
  <2>1. PICK kept : TurnEnds(a, "returned", "ok", NoBatch(task[a].scope), kept)
    BY <1>3 DEF TurnSucceeds
  <2>2. QED
    BY <1>2, <2>1
<1>4. ASSUME NEW out \in {"crashed", "hard_silent", "auth", "app_error"}, TurnFails(a, out)
      PROVE  /\ Failing /\ task'[a].outcome = out
             /\ task'[a].batch = Recoverable(task[a].batch)
             /\ task'[a].control = task[a].control
             /\ \A c \in Agent : c # a => task'[c] = task[c]
  <2>1. PICK kept : TurnEnds(a, "returned", out, Recoverable(task[a].batch), kept)
    BY <1>4 DEF TurnFails
  <2>2. QED
    BY <1>2, <1>4, <2>1 DEF TurnFails
<1>5. ASSUME NEW out \in {"cancelled", "drain_timeout", "crashed", "app_error"},
             TurnCancelled(a, out)
      PROVE  /\ task[a].control \in Signal /\ task'[a].phase = "returned"
             /\ task'[a].outcome = out /\ task'[a].batch = CancelledBatch(a)
             /\ out = "cancelled" \/ Failing
             /\ task'[a].control = task[a].control
             /\ \A c \in Agent : c # a => task'[c] = task[c]
  <2>1. PICK kept : TurnEnds(a, "returned", out, CancelledBatch(a), kept)
    BY <1>5 DEF TurnCancelled
  <2>2. QED
    BY <1>2, <1>5, <2>1 DEF TurnCancelled
<1>6. CASE TurnPanics(a)
  <2>1. TurnEnds(a, "panicked", "crashed", Recoverable(task[a].batch), {}) /\ Failing
    BY <1>6 DEF TurnPanics
  <2>2. QED
    BY <1>2, <2>1
<1>7. QED
  BY <1>3, <1>4, <1>5, <1>6 DEF Turn

\* What a step does to the task of a slot.
TaskStep(a) ==
  \/ task'[a] = task[a] \/ task'[a] = NoTask
  \/ /\ task'[a].phase = "running" /\ task'[a].control \in {"none", "armed"}
     /\ \/ task'[a].batch = NoBatch(Heartbeat)
        \/ \E s \in flush_choice(expire(q)) : task'[a].batch = flushed_batch(expire(q), s)
  \/ /\ task'[a].batch = task[a].batch /\ task'[a].outcome = task[a].outcome
     /\ task'[a].phase = task[a].phase
     /\ \/ task'[a].control \in {task[a].control, "none", "cancel", "rotate"}
        \/ Handling # "queue" \/ steers # {}
  \/ Turn(a)

LEMMA TaskSteps ==
  ASSUME Inv, [Next]_vars, NEW a \in Agent
  PROVE  TaskStep(a)
<1>1. task \in [Agent -> Task] /\ idle \subseteq Agent
  BY DEF Inv, TypeOK
<1>2. CASE task'[a] = task[a]
  BY <1>2 DEF TaskStep
<1>3. ASSUME NEW c \in Agent, PromptResult(c) \/ RecoverPanicked(c)
      PROVE  TaskStep(a)
  <2>1. task' = [task EXCEPT ![c] = NoTask]
    BY <1>3 DEF PromptResult, RecoverPanicked
  <2>2. task'[a] = NoTask \/ task'[a] = task[a]
    BY <1>1, <2>1
  <2>3. QED
    BY <2>2 DEF TaskStep
<1>4. ASSUME NEW c \in Agent, Turn(c)
      PROVE  TaskStep(a)
  <2>1. c # a => task'[a] = task[a]
    BY <1>4, TurnGives
  <2>2. QED
    BY <1>4, <2>1 DEF TaskStep
<1>5. CASE DispatchClaim
  <2>1. PICK s \in flush_choice(expire(q)) :
          task' = [task EXCEPT ![try_claim(s)] =
             [scope |-> s, batch |-> flushed_batch(expire(q), s),
              phase |-> "running", outcome |-> "ok", control |-> "armed"]]
    BY <1>5 DEF DispatchClaim
  <2> DEFINE c == try_claim(s)
             b == flushed_batch(expire(q), s)
             started == [scope |-> s, batch |-> b, phase |-> "running", outcome |-> "ok",
                         control |-> "armed"]
  <2>2. c \in Agent
    BY <1>1, <1>5, ClaimInIdle DEF DispatchClaim
  <2>3. started.phase = "running" /\ started.control = "armed" /\ started.batch = b
    OBVIOUS
  <2>4. task' = [task EXCEPT ![c] = started]
    BY <2>1
  <2> HIDE DEF c, started
  <2>5. task'[a] = task[a] \/ task'[a] = started
    BY <1>1, <2>4
  <2>6. QED
    BY <2>3, <2>5 DEF TaskStep
<1>6. CASE HeartbeatTick
  <2> DEFINE c == Least(idle)
             started == [NoTask EXCEPT !.phase = "running"]
  <2>1. /\ started.batch = NoBatch(Heartbeat) /\ started.phase = "running"
        /\ started.control = "none"
    BY DEF NoTask
  <2>2. task' = task \/ task' = [task EXCEPT ![c] = started]
    BY <1>6 DEF HeartbeatTick
  <2> HIDE DEF c, started
  <2>3. task'[a] = task[a] \/ task'[a] = started
    BY <1>1, <2>2
  <2>4. QED
    BY <2>1, <2>3 DEF TaskStep
<1>7. ASSUME NEW s, NEW sig, signal_in_flight_task_for_scope(s, sig),
             sig \in {"cancel", "rotate"} \/ Handling # "queue" \/ steers # {}
      PROVE  TaskStep(a)
  <2>1. /\ task'[a].batch = task[a].batch /\ task'[a].outcome = task[a].outcome
        /\ task'[a].phase = task[a].phase
    BY <1>7, SignalKeepsBatch, SignalKeepsPhase
  <2>2. task'[a].control \in {task[a].control, sig, "none"}
    BY <1>7, SignalControl
  <2>3. QED
    BY <1>7, <2>1, <2>2 DEF TaskStep
<1>8. CASE UNCHANGED task
  BY <1>2, <1>8
<1>9. ASSUME NEW s \in Scope, NEW from_owner \in BOOLEAN, RelayEvent(s, from_owner)
      PROVE  TaskStep(a)
  <2> DEFINE sig == mode_gate_signal(from_owner)
  <2>1. Handling # "queue" \/ sig = "none"
    BY DEF mode_gate_signal
  <2>2. UNCHANGED task \/ (sig # "none" /\ signal_in_flight_task_for_scope(s, sig))
    BY <1>9 DEF RelayEvent, steer_or_interrupt
  <2> HIDE DEF sig
  <2>3. QED
    BY <1>7, <1>8, <2>1, <2>2
<1>10. ASSUME NEW st \in steers, SteerAcked(st)
       PROVE  TaskStep(a)
  <2>1. UNCHANGED task \/ signal_in_flight_task_for_scope(st.scope, "steer")
    BY <1>10 DEF SteerAcked
  <2>2. QED
    BY <1>7, <1>8, <2>1
<1>11. CASE MainLoop
  BY <1>3, <1>5, <1>8, <1>10, <1>11 DEF MainLoop, DispatchHold, DispatchExhausted,
     DispatchDone, ReleaseHeld, DrainDone, Maintenance, CollectRespawns
<1>12. CASE Environment
  BY <1>6, <1>7, <1>8, <1>9, <1>12 DEF Environment, OwnerCommand,
     MemberRemoved, MemberAdded, TimerTick
<1>13. CASE Time
  BY <1>8, <1>13 DEF Time, ThrottleElapses, DeadlineElapses, HoldElapses, CircuitCools, timeFrame
<1>14. CASE \/ \E c \in Agent : Turn(c) \/ RespawnEnds(c)
            \/ \E st \in steers : SteerTaken(st) \/ SteerAnswered(st)
  BY <1>4, <1>8, <1>14 DEF RespawnEnds, SteerTaken, SteerAnswered, steerFrame
<1>15. QED
  BY <1>8, <1>11, <1>12, <1>13, <1>14 DEF Next, vars

\* Without failures a turn returns delivered, or was cancelled.
Intact ==
  \A a \in Agent :
    /\ task[a].phase # "panicked"
    /\ task[a].phase = "returned" =>
         task[a].outcome = "cancelled" \/ task[a].batch.cancelled = <<>>

LEMMA NextIntact ==
  ASSUME MaxFailures = 0, Inv, Intact, [Next]_vars
  PROVE  Intact'
<1> SUFFICES ASSUME NEW a \in Agent
             PROVE  /\ task'[a].phase # "panicked"
                    /\ task'[a].phase = "returned" =>
                         task'[a].outcome = "cancelled" \/ task'[a].batch.cancelled = <<>>
  BY DEF Intact
<1>1. ~Failing
  BY DEF Failing, Inv, TypeOK
<1>2. CASE Turn(a)
  <2>1. /\ task'[a].phase = "returned"
        /\ task'[a].outcome = "cancelled" \/ task'[a].batch = NoBatch(task[a].scope)
    BY <1>1, <1>2, TurnEnding
  <2>2. NoBatch(task[a].scope).cancelled = <<>>
    BY DEF NoBatch
  <2>3. QED
    BY <2>1, <2>2
<1>3. CASE task'[a] = NoTask
  BY <1>3 DEF NoTask
<1>4. CASE ~Turn(a) /\ task'[a] # NoTask
  <2>1. TaskStep(a)
    BY TaskSteps
  <2>2. \/ task'[a] = task[a] \/ task'[a].phase = "running"
        \/ /\ task'[a].batch = task[a].batch /\ task'[a].outcome = task[a].outcome
           /\ task'[a].phase = task[a].phase
    BY <1>4, <2>1 DEF TaskStep
  <2>3. QED
    BY <2>2 DEF Intact
<1>5. QED
  BY <1>2, <1>3, <1>4

\* Where only the owner's commands stop a turn, or a stopped turn does not give
\* its batch back, there is no carryover.
Unmixed(t) ==
  /\ t.batch.cancelled = <<>>
  /\ t.phase = "returned" /\ t.outcome \in {"cancelled", "drain_timeout"} => ~HasBatch(t.batch)
  /\ Handling = "queue" => t.control \notin {"steer", "interrupt"}

NoneCarried(Q) == \A s \in Scope : Q.cancelled[s] = <<>>

NoCarry ==
  /\ NoneCarried(q)
  /\ \A i \in DOMAIN held : held[i].cancelled = <<>>
  /\ \A a \in Agent : Unmixed(task[a])

\* flush_next finds nothing to carry along.
LEMMA FlushUnmixed ==
  ASSUME Inv, NoneCarried(q), NEW s \in flush_choice(expire(q))
  PROVE  /\ NoneCarried(expire(q)) /\ NoneCarried(flush_next(expire(q), s))
         /\ flushed_batch(expire(q), s).cancelled = <<>>
<1> DEFINE Q == expire(q)
<1>1. q \in QueueType /\ Q \in QueueType /\ Q.cancelled = q.cancelled
  BY ExpireType, ExpireTables DEF Inv, TypeOK
<1> HIDE DEF Q
<1>2. s \in flush_choice(Q)
  BY DEF Q
<1>3. s \in Scope
  BY <1>2, FlushChoiceFree
<1>4. NoneCarried(Q)
  BY <1>1 DEF NoneCarried
<1>5. flush_next(Q, s).cancelled = [Q.cancelled EXCEPT ![s] = <<>>]
  BY <1>1, <1>3, FlushTables
<1>6. NoneCarried(flush_next(Q, s))
  BY <1>1, <1>3, <1>4, <1>5 DEF NoneCarried, QueueType
<1>7. flushed_batch(Q, s).cancelled \in {Q.cancelled[s], <<>>}
  BY DEF flushed_batch
<1>8. QED
  BY <1>3, <1>4, <1>6, <1>7 DEF NoneCarried, Q

\* A turn ends as unmixed as it started.
LEMMA TurnUnmixed ==
  ASSUME Handling = "queue" \/ DedupMode = "Drop", Inv, NEW a \in Agent, Unmixed(task[a]), Turn(a)
  PROVE  Unmixed(task'[a])
<1> DEFINE old == task[a].batch
           r == Recoverable(old)
           d == [r EXCEPT !.reason = task[a].control]
           b == task'[a].batch
<1>1. old \in Batch /\ old.cancelled = <<>>
  BY CustodyTypes DEF Unmixed
<1>2. /\ r.cancelled = <<>> /\ d.cancelled = <<>> /\ d.events = r.events
      /\ DedupMode = "Drop" => r.events = <<>>
  BY <1>1 DEF Recoverable, NoBatch, Batch
<1>3. CancelledBatch(a) = NoBatch(old.scope) \/ CancelledBatch(a) = d
  BY DEF CancelledBatch
<1>4. task[a].control \in {"cancel", "rotate"} => CancelledBatch(a) = NoBatch(old.scope)
  BY DEF CancelledBatch
<1> HIDE DEF d, r
<1>5. CancelledBatch(a).cancelled = <<>>
  BY <1>2, <1>3 DEF NoBatch
<1>6. task[a].control \in Signal => CancelledBatch(a).events = <<>>
  <2>1. CASE Handling = "queue"
    <3>1. task[a].control \in Signal => task[a].control \in {"cancel", "rotate"}
      BY <2>1 DEF Unmixed, Signal
    <3>2. QED
      BY <1>4, <3>1 DEF NoBatch
  <2>2. CASE DedupMode = "Drop"
    BY <1>2, <1>3, <2>2 DEF NoBatch
  <2>3. QED
    BY <2>1, <2>2
<1>7. /\ task'[a].control = task[a].control
      /\ b \in {r, CancelledBatch(a), NoBatch(task[a].scope)}
      /\ task'[a].outcome \in {"cancelled", "drain_timeout"} =>
           task[a].control \in Signal /\ b = CancelledBatch(a)
  BY TurnEnding DEF r
<1>8. b.cancelled = <<>>
  BY <1>2, <1>5, <1>7 DEF NoBatch
<1> HIDE DEF b
<1>9. task'[a].outcome \in {"cancelled", "drain_timeout"} => ~HasBatch(b)
  BY <1>6, <1>7 DEF HasBatch
<1>10. QED
  BY <1>7, <1>8, <1>9 DEF Unmixed, b

\* No task gets a carryover.
LEMMA NextUnmixed ==
  ASSUME Handling = "queue" \/ DedupMode = "Drop", Inv, NoSteers, NoCarry, [Next]_vars,
         NEW a \in Agent
  PROVE  Unmixed(task'[a])
<1>1. Unmixed(task[a]) /\ NoneCarried(q)
  BY DEF NoCarry
<1>2. CASE Turn(a)
  BY <1>1, <1>2, TurnUnmixed
<1>3. CASE task'[a] = task[a]
  BY <1>1, <1>3
<1>4. CASE task'[a] = NoTask
  BY <1>4 DEF Unmixed, NoTask, NoBatch
<1>5. CASE /\ task'[a].phase = "running" /\ task'[a].control \in {"none", "armed"}
           /\ \/ task'[a].batch = NoBatch(Heartbeat)
              \/ \E s \in flush_choice(expire(q)) : task'[a].batch = flushed_batch(expire(q), s)
  <2>1. task'[a].batch.cancelled = <<>>
    BY <1>1, <1>5, FlushUnmixed DEF NoBatch
  <2>2. QED
    BY <1>5, <2>1 DEF Unmixed
<1>6. CASE /\ task'[a].batch = task[a].batch /\ task'[a].outcome = task[a].outcome
           /\ task'[a].phase = task[a].phase
           /\ \/ task'[a].control \in {task[a].control, "none", "cancel", "rotate"}
              \/ Handling # "queue" \/ steers # {}
  <2>1. Handling = "queue" =>
          task'[a].control \in {task[a].control, "none", "cancel", "rotate"}
    BY <1>6 DEF NoSteers
  <2>2. QED
    BY <1>1, <1>6, <2>1 DEF Unmixed
<1>7. QED
  BY <1>2, <1>3, <1>4, <1>5, <1>6, TaskSteps DEF TaskStep

\* Nor does the queue.
LEMMA NextNoneCarried ==
  ASSUME Inv, NoSteers, NoCarry, [Next]_vars
  PROVE  NoneCarried(q')
<1> DEFINE Q == expire(q)
<1>1. /\ q \in QueueType /\ Q \in QueueType /\ NoneCarried(q)
      /\ Q.cancelled = q.cancelled /\ NoneCarried(Q)
  BY ExpireType, ExpireTables DEF Inv, TypeOK, NoCarry, NoneCarried
<1> HIDE DEF Q
<1>2. ASSUME NEW s \in flush_choice(Q)
      PROVE  /\ s \in Scope /\ NoneCarried(flush_next(Q, s))
             /\ flush_next(Q, s) \in QueueType
             /\ flushed_batch(Q, s) \in FlushBatch /\ flushed_batch(Q, s).cancelled = <<>>
  BY <1>1, <1>2, FlushChoiceFree, FlushUnmixed, FlushNextType DEF Q
<1>3. ASSUME NEW R \in QueueType, NoneCarried(R), NEW b \in FlushBatch, b.cancelled = <<>>
      PROVE  NoneCarried(ReturnBatch(R, b))
  <2> DEFINE P == requeue_preserve_timestamps(R, b)
  <2>1. P \in QueueType /\ b.scope \in Scope /\ P.cancelled = R.cancelled
    BY <1>3, RequeuePreserveType, CarryTables DEF FlushBatch
  <2>2. ReturnBatch(R, b) = mark_complete(P, b.scope)
    BY DEF ReturnBatch
  <2> HIDE DEF P
  <2>3. ReturnBatch(R, b).cancelled = R.cancelled
    BY <2>1, <2>2, CompleteTables
  <2>4. QED
    BY <1>3, <2>3 DEF NoneCarried
<1>4. CASE DispatchHold \/ DispatchClaim
  <2>1. PICK s \in flush_choice(Q) : q' = flush_next(Q, s)
    BY <1>4 DEF DispatchHold, DispatchClaim, Q
  <2>2. QED
    BY <1>2, <2>1
<1>5. CASE DispatchExhausted
  <2>1. PICK s \in flush_choice(Q) : q' = ReturnBatch(flush_next(Q, s), flushed_batch(Q, s))
    BY <1>5 DEF DispatchExhausted, Q
  <2>2. QED
    BY <1>2, <1>3, <2>1
<1>6. CASE DispatchDone \/ HeartbeatTick
  BY <1>1, <1>6 DEF DispatchDone, HeartbeatTick, Q
<1>7. CASE ReleaseHeld
  <2>1. Head(held) \in FlushBatch /\ Head(held).cancelled = <<>>
    <3>1. held \in Seq(FlushBatch) /\ held # <<>>
      BY <1>7 DEF ReleaseHeld, Inv, TypeOK, ReleaseHasHeld
    <3>2. Head(held) = held[1] /\ 1 \in DOMAIN held /\ Head(held) \in FlushBatch
      BY <3>1
    <3>3. QED
      BY <3>2 DEF NoCarry
  <2>2. q' = ReturnBatch(q, Head(held))
    BY <1>7 DEF ReleaseHeld
  <2>3. QED
    BY <1>1, <1>3, <2>1, <2>2
<1>8. ASSUME NEW a \in Agent, PromptResult(a) \/ RecoverPanicked(a)
      PROVE  NoneCarried(q')
  <2> DEFINE b == task[a].batch
             s == task[a].scope
  <2>1. PICK out : /\ q' = Completed(Restored(q, out, b), s)
                   /\ \/ task[a].phase = "returned" /\ out = task[a].outcome
                      \/ out = "crashed"
    BY <1>8 DEF PromptResult, RecoverPanicked
  <2>2. b \in Batch /\ s \in Scope \cup {Heartbeat} /\ (HasBatch(b) => b.scope \in Scope)
    BY CustodyTypes
  <2>3. out \notin {"cancelled", "drain_timeout"} \/ ~HasBatch(b)
    BY <2>1 DEF NoCarry, Unmixed
  <2> DEFINE R == Restored(q, out, b)
  <2>4. R \in QueueType /\ R.cancelled = q.cancelled
    BY <1>1, <2>2, <2>3, RestoredType, RestoredTables
  <2>5. q' = R \/ (s \in Scope /\ q' = mark_complete(R, s))
    <3>1. q' = Completed(R, s)
      BY <2>1
    <3> HIDE DEF R, s
    <3>2. QED
      BY <2>2, <3>1 DEF Completed
  <2> HIDE DEF R
  <2>6. q'.cancelled = q.cancelled
    BY <2>4, <2>5, CompleteTables
  <2>7. QED
    BY <1>1, <2>6 DEF NoneCarried
<1>9. ASSUME NEW s \in Scope, NEW from_owner \in BOOLEAN, RelayEvent(s, from_owner)
      PROVE  NoneCarried(q')
  <2> DEFINE e == arrived + 1
             P == push(q, s, e)
  <2>1. e \in Event
    BY <1>9 DEF RelayEvent
  <2>2. P \in QueueType /\ P.cancelled = q.cancelled
    BY <1>1, <2>1, PushType, PushTables DEF SameTables
  <2>3. q' = q \/ q' = P \/ q' = mark_native_steer_pending(P, s, e)
    BY <1>9 DEF RelayEvent, steer_or_interrupt
  <2> HIDE DEF P, e
  <2>4. mark_native_steer_pending(P, s, e).cancelled = P.cancelled
    BY <2>1, <2>2, MarkSteerTables
  <2>5. q'.cancelled = q.cancelled
    BY <2>2, <2>3, <2>4
  <2>6. QED
    BY <1>1, <2>5 DEF NoneCarried
<1>10. ASSUME NEW st \in steers, SteerAcked(st)
       PROVE  NoneCarried(q')
  <2> DEFINE s == st.scope
             e == st.event
  <2>1. s \in Scope /\ e \in Event
    BY DEF Inv, TypeOK, Steer
  <2>2. \/ q' = release_native_steer(q, s, e)
        \/ q' = remove_event(extend_in_flight_deadline(q, s), s, e)
    BY <1>10 DEF SteerAcked
  <2> HIDE DEF s, e
  <2>3. release_native_steer(q, s, e).cancelled = q.cancelled
    BY <1>1, <2>1, ReleaseTables
  <2>4. remove_event(extend_in_flight_deadline(q, s), s, e).cancelled = q.cancelled
    BY <1>1, <2>1, RemoveTables
  <2>5. QED
    BY <1>1, <2>2, <2>3, <2>4 DEF NoneCarried
<1>11. ASSUME NEW ch \in Channel, MemberRemoved(ch)
       PROVE  NoneCarried(q')
  <2>1. \A s \in Scope : q'.cancelled[s] \in {q.cancelled[s], <<>>}
    BY <1>1, <1>11 DEF MemberRemoved, drain_channel, QueueType
  <2>2. QED
    BY <1>1, <2>1 DEF NoneCarried
<1>12. CASE Maintenance
  <2> DEFINE R == compact_expired_state(q)
  <2>1. R \in QueueType /\ R.cancelled = q.cancelled
    BY <1>1, CompactType DEF compact_expired_state, QueueType
  <2>2. q' = expire(R)
    BY <1>12 DEF Maintenance
  <2> HIDE DEF R
  <2>3. q'.cancelled = q.cancelled
    BY <2>1, <2>2, ExpireTables
  <2>4. QED
    BY <1>1, <2>3 DEF NoneCarried
<1>13. ASSUME NEW s \in Scope, ThrottleElapses(s) \/ DeadlineElapses(s)
       PROVE  NoneCarried(q')
  <2>1. q'.cancelled = q.cancelled
    BY <1>1, <1>13 DEF ThrottleElapses, DeadlineElapses, QueueType
  <2>2. QED
    BY <1>1, <2>1 DEF NoneCarried
<1>14. CASE UNCHANGED q
  BY <1>1, <1>14
<1>15. CASE MainLoop
  BY <1>4, <1>5, <1>6, <1>7, <1>8, <1>10, <1>12, <1>14, <1>15
     DEF MainLoop, DrainDone, CollectRespawns, queueVars
<1>16. CASE Environment
  BY <1>6, <1>9, <1>11, <1>14, <1>16
     DEF Environment, OwnerCommand, MemberAdded, TimerTick, queueVars
<1>17. CASE Time
  BY <1>13, <1>14, <1>17 DEF Time, HoldElapses, CircuitCools
<1>18. CASE \/ \E a \in Agent : Turn(a) \/ RespawnEnds(a)
            \/ \E st \in steers : SteerTaken(st) \/ SteerAnswered(st)
  BY <1>14, <1>18, TurnGives DEF RespawnEnds, queueVars, SteerTaken, SteerAnswered, steerFrame
<1>19. QED
  BY <1>14, <1>15, <1>16, <1>17, <1>18 DEF Next, vars

\* Nor a batch that waits for its busy owner.
LEMMA NextHeldBare ==
  ASSUME Inv, NoCarry, [Next]_vars
  PROVE  \A i \in DOMAIN held' : held'[i].cancelled = <<>>
<1> DEFINE Bare == \A i \in DOMAIN held' : held'[i].cancelled = <<>>
<1>1. held \in Seq(FlushBatch) /\ \A i \in 1..Len(held) : held[i].cancelled = <<>>
  BY LenProperties DEF Inv, TypeOK, NoCarry
<1>2. CASE DispatchHold
  <2> DEFINE Q == expire(q)
  <2>1. PICK s \in flush_choice(Q) : held' = Append(held, flushed_batch(Q, s))
    BY <1>2 DEF DispatchHold
  <2> DEFINE b == flushed_batch(Q, s)
  <2>2. b.cancelled = <<>> /\ b \in FlushBatch
    <3>1. Q \in QueueType /\ s \in Scope
      BY ExpireType, FlushChoiceFree DEF Inv, TypeOK
    <3>2. QED
      BY <3>1, FlushUnmixed, FlushNextType DEF NoCarry
  <2> HIDE DEF b, Q
  <2>3. held' = Append(held, b)
    BY <2>1 DEF b
  <2>4. /\ DOMAIN held' = 1..(Len(held) + 1)
        /\ \A i \in 1..(Len(held) + 1) : held'[i] = IF i = Len(held) + 1 THEN b ELSE held[i]
    BY <1>1, <2>2, <2>3
  <2>5. \A i \in 1..(Len(held) + 1) : i = Len(held) + 1 \/ i \in 1..Len(held)
    BY <1>1, LenProperties
  <2>6. QED
    BY <1>1, <2>2, <2>4, <2>5
<1>3. CASE ReleaseHeld
  <2>1. held # <<>> /\ held' = Tail(held)
    BY <1>3 DEF ReleaseHeld, Inv, ReleaseHasHeld
  <2>2. /\ DOMAIN held' = 1..(Len(held) - 1)
        /\ \A i \in 1..(Len(held) - 1) : held'[i] = held[i + 1]
    BY <1>1, <2>1
  <2>3. \A i \in 1..(Len(held) - 1) : i + 1 \in 1..Len(held)
    BY <1>1, LenProperties
  <2>4. QED
    BY <1>1, <2>2, <2>3
<1>4. CASE UNCHANGED held
  BY <1>4 DEF NoCarry
<1> HIDE DEF Bare
<1>5. CASE MainLoop
  BY <1>2, <1>3, <1>4, <1>5 DEF MainLoop, DispatchClaim, DispatchExhausted, DispatchDone,
     PromptResult, RecoverPanicked, DrainDone, SteerAcked, Maintenance, CollectRespawns
<1>6. CASE Environment
  BY <1>4, <1>6 DEF Environment, RelayEvent, OwnerCommand, MemberRemoved, MemberAdded,
     TimerTick, HeartbeatTick
<1>7. CASE Time
  BY <1>4, <1>7 DEF Time, ThrottleElapses, DeadlineElapses, HoldElapses, CircuitCools, timeFrame
<1>8. CASE \/ \E a \in Agent : Turn(a) \/ RespawnEnds(a)
           \/ \E st \in steers : SteerTaken(st) \/ SteerAnswered(st)
  BY <1>4, <1>8, TurnGives DEF RespawnEnds, SteerTaken, SteerAnswered, steerFrame
<1>9. QED
  BY <1>4, <1>5, <1>6, <1>7, <1>8 DEF Next, vars

\* The carryover of the turn that ends is empty.
LEMMA NothingLeft ==
  ASSUME \/ NoCarry
         \/ Intact,
         NEW a \in Agent
  PROVE  /\ PromptResult(a) => Leaves(a, task[a].outcome) = {}
         /\ RecoverPanicked(a) => Leaves(a, "crashed") = {}
<1>1. CASE NoCarry
  <2>1. task[a].batch.cancelled = <<>>
    BY <1>1 DEF NoCarry, Unmixed
  <2>2. QED
    BY <2>1, EmptyElements DEF Leaves
<1>2. CASE Intact
  <2>1. ~RecoverPanicked(a)
    BY <1>2 DEF Intact, RecoverPanicked
  <2>2. PromptResult(a) => task[a].outcome = "cancelled" \/ task[a].batch.cancelled = <<>>
    BY <1>2 DEF Intact, PromptResult
  <2>3. QED
    BY <2>1, <2>2, EmptyElements DEF Leaves
<1>3. QED
  BY <1>1, <1>2

Present == 1..arrived \subseteq OnBooks

\* Every event that arrived stays on the books.
LEMMA NextPresent ==
  ASSUME Inv, SlotInv, Whole, NoCarry \/ Intact, Present, [Next]_vars
  PROVE  Present'
<1>1. /\ \/ Accounts({})
         \/ \E a \in Agent : PromptResult(a) /\ Accounts(Leaves(a, task[a].outcome))
         \/ \E a \in Agent : RecoverPanicked(a) /\ Accounts(Leaves(a, "crashed"))
      /\ arrived' = arrived \/ (arrived' = arrived + 1 /\ arrived' \in OnBooks')
  BY NextAccounts
<1>2. OnBooks \subseteq OnBooks'
  <2>1. ASSUME NEW a \in Agent, PromptResult(a), Accounts(Leaves(a, task[a].outcome))
        PROVE  Accounts({})
    <3>1. Leaves(a, task[a].outcome) = {}
      BY <2>1, NothingLeft
    <3>2. QED
      BY <2>1, <3>1
  <2>2. ASSUME NEW a \in Agent, RecoverPanicked(a), Accounts(Leaves(a, "crashed"))
        PROVE  Accounts({})
    <3>1. Leaves(a, "crashed") = {}
      BY <2>2, NothingLeft
    <3>2. QED
      BY <2>2, <3>1
  <2>3. Accounts({})
    BY <1>1, <2>1, <2>2
  <2>4. QED
    BY <2>3 DEF Accounts
<1>3. arrived \in Nat
  BY CustodyTypes
<1>4. CASE arrived' = arrived
  BY <1>2, <1>4 DEF Present
<1>5. CASE arrived' = arrived + 1 /\ arrived' \in OnBooks'
  <2>1. \A e \in 1..(arrived + 1) : e = arrived + 1 \/ e \in 1..arrived
    BY <1>3
  <2>2. \A e \in 1..arrived : e \in OnBooks'
    BY <1>2 DEF Present
  <2>3. \A e \in 1..arrived' : e \in OnBooks'
    BY <1>5, <2>1, <2>2
  <2>4. QED
    BY <2>3 DEF Present
<1>6. QED
  BY <1>1, <1>4, <1>5

\* At the start nothing arrived, is carried along or has failed.
LEMMA InitPresent == Init => Present /\ NoCarry /\ Intact
<1> SUFFICES ASSUME Init PROVE Present /\ NoCarry /\ Intact
  OBVIOUS
<1>1. q = new /\ held = <<>> /\ arrived = 0 /\ \A a \in Agent : task[a] = NoTask
  BY DEF Init
<1>2. NoneCarried(new)
  BY DEF NoneCarried, new
<1>3. Unmixed(NoTask) /\ NoTask.phase = "none"
  BY DEF Unmixed, NoTask, NoBatch
<1>4. NoCarry /\ Intact
  BY <1>1, <1>2, <1>3 DEF NoCarry, Intact
<1>5. 1..arrived = {}
  BY <1>1
<1>6. QED
  BY <1>4, <1>5 DEF Present

\* Every event the queue accepted is still held somewhere, or was delivered, or was
\* given up by a decision the code logs: where only the owner's commands stop a
\* turn, where a stopped turn does not give its batch back, or where nothing fails.
\* (A failed turn that carried cancelled events is where requeue forgets them.)
THEOREM NothingIsLost ==
  ASSUME Handling = "queue" \/ DedupMode = "Drop" \/ MaxFailures = 0
  PROVE  Spec => []NoSilentLoss
<1> DEFINE Bare == Handling = "queue" \/ DedupMode = "Drop"
           Calmly == IF Bare THEN NoCarry ELSE Intact
           Kept == Present /\ NoSteers /\ Calmly
<1>1. Init => Kept
  BY InitPresent, InitBooks
<1>2. Inv /\ SlotInv /\ Whole /\ Kept /\ [Next]_vars => Kept'
  <2>1. ASSUME Inv, SlotInv, Whole, Kept, [Next]_vars PROVE Kept'
    <3>1. Present'
      BY <2>1, NextPresent
    <3>2. NoSteers'
      BY <2>1, NextNoSteers
    <3>3. CASE Bare
      <4>1. \A a \in Agent : Unmixed(task'[a])
        BY <2>1, <3>3, NextUnmixed
      <4>2. NoneCarried(q') /\ \A i \in DOMAIN held' : held'[i].cancelled = <<>>
        BY <2>1, <3>3, NextNoneCarried, NextHeldBare
      <4>3. NoCarry'
        BY <4>1, <4>2 DEF NoCarry, NoneCarried, Unmixed, HasBatch
      <4>4. QED
        BY <3>1, <3>2, <3>3, <4>3
    <3>4. CASE ~Bare
      <4>1. Intact'
        BY <2>1, <3>4, NextIntact
      <4>2. QED
        BY <3>1, <3>2, <3>4, <4>1
    <3>5. QED
      BY <3>3, <3>4
  <2>2. QED
    BY <2>1
<1>3. Bridge /\ Kept => NoSilentLoss
  BY DEF Bridge, Present, NoSilentLoss
<1> HIDE DEF Kept
<1>4. QED
  BY <1>1, <1>2, <1>3, InvHolds, SlotInvHolds, WholeHolds, BridgeHolds, PTL DEF Spec

============================================================================
