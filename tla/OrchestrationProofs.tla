------------------------ MODULE OrchestrationProofs ------------------------
(***************************************************************************)
(* What holds of the scheduler, the graph and the workers for any number   *)
(* of tasks, any limits and whatever the workers report.                   *)
(***************************************************************************)
EXTENDS Orchestration, FiniteSetTheorems, SequenceTheorems, TLAPS

----------------------------------------------------------------------------
(* The queue and its operators *)

\* A later member of a set of numbers has the higher rank.
LEMMA RankGrows ==
  ASSUME NEW S, S \subseteq Int, IsFiniteSet(S), NEW n \in S, NEW p \in S, n < p
  PROVE  Rank(S, n) < Rank(S, p)
<1> DEFINE N == {m \in S : m <= n}
<1> DEFINE P == {m \in S : m <= p}
<1>1. n \in Int /\ p \in Int
  OBVIOUS
<1>2. N \subseteq P
  <2> SUFFICES ASSUME NEW m \in S, m <= n
               PROVE  m <= p
    OBVIOUS
  <2>1. m \in Int
    OBVIOUS
  <2> QED
    BY <1>1, <2>1
<1>3. p \in P /\ p \notin N /\ P \subseteq S
  BY <1>1
<1>4. IsFiniteSet(P)
  <2> HIDE DEF P
  <2> QED
    BY <1>3, FS_Subset
<1>5. /\ IsFiniteSet(N) /\ Cardinality(N) <= Cardinality(P)
      /\ Cardinality(P) = Cardinality(N) => P = N
  <2> HIDE DEF N, P
  <2> QED
    BY <1>2, <1>4, FS_Subset
<1>6. Cardinality(P) \in Nat /\ Cardinality(N) \in Nat
  <2> HIDE DEF N, P
  <2> QED
    BY <1>4, <1>5, FS_CardinalityType
<1>7. P # N
  BY <1>3
<1>8. Cardinality(N) < Cardinality(P)
  <2> HIDE DEF N, P
  <2> QED
    BY <1>5, <1>6, <1>7
<1> QED
  BY <1>8 DEF Rank

\* Every place from the first to the last is the rank of one member.
LEMMA Ranks ==
  ASSUME NEW S, S \subseteq Int, IsFiniteSet(S)
  PROVE  /\ Cardinality(S) \in Nat
         /\ \A n \in S : Rank(S, n) \in 1..Cardinality(S)
         /\ \A k \in 1..Cardinality(S) : \E n \in S : Rank(S, n) = k
<1> DEFINE c == Cardinality(S)
<1> DEFINE f == [n \in S |-> Rank(S, n)]
<1>1. c \in Nat
  BY FS_CardinalityType
<1>2. \A n \in S : Rank(S, n) \in 1..c
  <2> SUFFICES ASSUME NEW n \in S
               PROVE  Rank(S, n) \in 1..c
    OBVIOUS
  <2> DEFINE N == {m \in S : m <= n}
  <2>1. N \subseteq S /\ n \in N
    OBVIOUS
  <2>2. IsFiniteSet(N) /\ Cardinality(N) <= c
    <3> HIDE DEF N
    <3> QED
      BY <2>1, FS_Subset
  <2>3. Cardinality(N) \in Nat
    <3> HIDE DEF N
    <3> QED
      BY <2>2, FS_CardinalityType
  <2>4. Cardinality(N) # 0
    <3> HIDE DEF N
    <3> QED
      BY <2>1, <2>2, FS_EmptySet
  <2> HIDE DEF N, c
  <2>5. Cardinality(N) \in 1..c
    BY <2>2, <2>3, <2>4, <1>1
  <2> QED
    BY <2>5 DEF N, Rank
<1>3. f \in [S -> 1..c]
  BY <1>2
<1>4. ASSUME NEW n \in S, NEW p \in S, f[n] = f[p]
      PROVE  n = p
  <2>1. CASE n < p
    <3>1. Rank(S, n) < Rank(S, p)
      BY <2>1, RankGrows
    <3>2. Rank(S, n) \in Int /\ Rank(S, p) \in Int
      BY <1>1, <1>2
    <3> QED
      BY <1>4, <3>1, <3>2
  <2>2. CASE p < n
    <3>1. Rank(S, p) < Rank(S, n)
      BY <2>2, RankGrows
    <3>2. Rank(S, n) \in Int /\ Rank(S, p) \in Int
      BY <1>1, <1>2
    <3> QED
      BY <1>4, <3>1, <3>2
  <2> QED
    BY <2>1, <2>2
<1>5. f \in Injection(S, 1..c)
  <2> HIDE DEF f, c
  <2> QED
    BY <1>3, <1>4 DEF Injection, IsInjective
<1>6. IsFiniteSet(1..c) /\ Cardinality(1..c) = c
  <2>1. c \in Int /\ 1 \in Int
    BY <1>1
  <2> HIDE DEF c
  <2>2. IsFiniteSet(1..c) /\ Cardinality(1..c) = IF 1 > c THEN 0 ELSE c - 1 + 1
    BY <2>1, FS_Interval
  <2> QED
    BY <2>2, <1>1
<1>7. f \in Surjection(S, 1..c)
  <2> HIDE DEF f
  <2> QED
    BY <1>5, <1>6, FS_Injection
<1>8. \A k \in 1..c : \E n \in S : f[n] = k
  <2> HIDE DEF f, c
  <2> QED
    BY <1>7 DEF Surjection
<1> QED
  BY <1>1, <1>2, <1>8

\* Ascending lists every member of a set once, the smaller ones first.
LEMMA AscendingLists ==
  ASSUME NEW S, S \subseteq Int, IsFiniteSet(S)
  PROVE  /\ Cardinality(S) \in Nat
         /\ Ascending(S) \in Seq(S) /\ Len(Ascending(S)) = Cardinality(S)
         /\ \A n \in S : \E k \in 1..Cardinality(S) : Ascending(S)[k] = n
         /\ \A j, k \in 1..Cardinality(S) : j < k => Ascending(S)[j] < Ascending(S)[k]
<1> DEFINE c == Cardinality(S)
<1> DEFINE a == Ascending(S)
<1>1. c \in Nat
  BY Ranks
<1>2. \A k \in 1..c : a[k] \in S /\ Rank(S, a[k]) = k
  <2> SUFFICES ASSUME NEW k \in 1..c
               PROVE  a[k] \in S /\ Rank(S, a[k]) = k
    OBVIOUS
  <2>1. \E n \in S : Rank(S, n) = k
    BY Ranks
  <2>2. a[k] = CHOOSE n \in S : Rank(S, n) = k
    BY DEF Ascending
  <2> QED
    BY <2>1, <2>2
<1>3. a \in Seq(S) /\ Len(a) = c
  <2>1. a = [k \in 1..c |-> a[k]] /\ DOMAIN a = 1..c
    BY DEF Ascending
  <2> HIDE DEF a, c
  <2> QED
    BY <1>1, <1>2, <2>1
<1>4. ASSUME NEW j \in 1..c, NEW k \in 1..c, j < k
      PROVE  a[j] < a[k]
  <2>1. a[j] \in Int /\ a[k] \in Int
    BY <1>2
  <2>2. CASE a[k] < a[j]
    <3>1. Rank(S, a[k]) < Rank(S, a[j])
      <4> HIDE DEF a
      <4> QED
        BY <1>2, <2>2, RankGrows
    <3> QED
      BY <1>2, <1>4, <3>1
  <2>3. CASE a[k] = a[j]
    BY <1>2, <1>4, <2>3
  <2> QED
    BY <2>1, <2>2, <2>3
<1>5. ASSUME NEW n \in S
      PROVE  \E k \in 1..c : a[k] = n
  <2> DEFINE k == Rank(S, n)
  <2>1. k \in 1..c
    BY Ranks
  <2>2. a[k] \in S /\ Rank(S, a[k]) = k
    BY <1>2, <2>1
  <2>3. ASSUME a[k] < n PROVE FALSE
    <3>1. Rank(S, a[k]) < Rank(S, n)
      <4> HIDE DEF a
      <4> QED
        BY <2>2, <2>3, RankGrows
    <3> QED
      BY <2>1, <2>2, <3>1
  <2>4. ASSUME n < a[k] PROVE FALSE
    <3>1. Rank(S, n) < Rank(S, a[k])
      <4> HIDE DEF a
      <4> QED
        BY <2>2, <2>4, RankGrows
    <3> QED
      BY <2>1, <2>2, <3>1
  <2>5. a[k] \in Int /\ n \in Int
    BY <2>2
  <2>6. a[k] = n
    <3> HIDE DEF a, k
    <3> QED
      BY <2>3, <2>4, <2>5
  <2> QED
    BY <2>1, <2>6
<1> QED
  BY <1>1, <1>3, <1>4, <1>5

\* What the scheduler keeps: every task once, in the order of priority.
Entry == [id : Tasks, priority : Nat]
Distinct(queue) == \A j, k \in DOMAIN queue : queue[j].id = queue[k].id => j = k
InOrder(queue) ==
  \A j, k \in DOMAIN queue : j <= k => queue[j].priority >= queue[k].priority
IsQueue(queue) == queue \in Seq(Entry) /\ Distinct(queue) /\ InOrder(queue)

\* What is left of a queue when entries are taken out is a queue.
LEMMA PartOfQueue ==
  ASSUME NEW q, IsQueue(q), NEW r \in Seq(Entry), NEW f \in [1..Len(r) -> DOMAIN q],
         \A j, k \in 1..Len(r) : j < k => f[j] < f[k],
         \A k \in 1..Len(r) : r[k] = q[f[k]]
  PROVE  /\ IsQueue(r)
         /\ \A t : t \in Ids(r) <=> \E k \in 1..Len(r) : q[f[k]].id = t
<1>1. q \in Seq(Entry) /\ DOMAIN q = 1..Len(q) /\ \A k \in DOMAIN q : q[k] \in Entry
  BY LenProperties, ElementOfSeq DEF IsQueue
<1>2. DOMAIN r = 1..Len(r) /\ \A k \in 1..Len(r) : f[k] \in DOMAIN q /\ f[k] \in Int
  BY <1>1, LenProperties
<1>3. Distinct(r)
  <2> SUFFICES ASSUME NEW j \in 1..Len(r), NEW k \in 1..Len(r), r[j].id = r[k].id
               PROVE  j = k
    BY <1>2 DEF Distinct
  <2>1. f[j] = f[k]
    BY <1>2 DEF IsQueue, Distinct
  <2>2. f[j] \in Int /\ f[k] \in Int /\ j \in Int /\ k \in Int
    BY <1>2
  <2> QED
    BY <2>1, <2>2
<1>4. InOrder(r)
  <2> SUFFICES ASSUME NEW j \in 1..Len(r), NEW k \in 1..Len(r), j <= k
               PROVE  q[f[j]].priority >= q[f[k]].priority
    BY <1>2 DEF InOrder
  <2>1. f[j] \in Int /\ f[k] \in Int /\ j \in Int /\ k \in Int
    BY <1>2
  <2>2. f[j] <= f[k]
    BY <2>1
  <2> QED
    BY <1>2, <2>2 DEF IsQueue, InOrder
<1>5. \A t : t \in Ids(r) <=> \E k \in 1..Len(r) : q[f[k]].id = t
  BY <1>2 DEF Ids
<1> QED
  BY <1>3, <1>4, <1>5 DEF IsQueue

\* Scheduler::remove leaves the other tasks, each in its place.
LEMMA WithoutIsQueue ==
  ASSUME NEW q, IsQueue(q), NEW ids
  PROVE  IsQueue(Without(q, ids)) /\ Ids(Without(q, ids)) = Ids(q) \ ids
<1> DEFINE K == {k \in DOMAIN q : q[k].id \notin ids}
<1> DEFINE kept == Ascending(K)
<1> DEFINE n == Cardinality(K)
<1>1. q \in Seq(Entry) /\ Len(q) \in Nat /\ DOMAIN q = 1..Len(q)
  BY LenProperties DEF IsQueue
<1>2. IsFiniteSet(1..Len(q))
  BY <1>1, FS_Interval
<1>3. K \subseteq 1..Len(q) /\ K \subseteq Int
  BY <1>1
<1>4. IsFiniteSet(K)
  <2> HIDE DEF K
  <2> QED
    BY <1>2, <1>3, FS_Subset
<1>5. /\ n \in Nat /\ kept \in Seq(K) /\ Len(kept) = n
      /\ \A i \in K : \E k \in 1..n : kept[k] = i
      /\ \A j, k \in 1..n : j < k => kept[j] < kept[k]
  <2> HIDE DEF K
  <2> QED
    BY <1>3, <1>4, AscendingLists
<1>6. DOMAIN kept = 1..n /\ kept \in [1..n -> K]
  <2> HIDE DEF K, kept, n
  <2> QED
    BY <1>5, LenProperties
<1>7. kept \in [1..n -> DOMAIN q]
  <2> HIDE DEF kept, n
  <2> QED
    BY <1>6
<1> DEFINE r == Without(q, ids)
<1>8. r = [k \in 1..n |-> q[kept[k]]]
  BY <1>6 DEF Without
<1>9. r \in Seq(Entry) /\ Len(r) = n /\ \A k \in 1..n : r[k] = q[kept[k]]
  <2>1. \A k \in 1..n : q[kept[k]] \in Entry
    <3> HIDE DEF kept, n
    <3> QED
      BY <1>1, <1>7, ElementOfSeq
  <2> HIDE DEF kept, n, r
  <2> QED
    BY <1>5, <1>8, <2>1
<1>10. IsQueue(r) /\ \A t : t \in Ids(r) <=> \E k \in 1..n : q[kept[k]].id = t
  <2>1. \A j, k \in 1..Len(r) : j < k => kept[j] < kept[k]
    <3> HIDE DEF K, kept, n, r
    <3> QED
      BY <1>5, <1>9
  <2> HIDE DEF K, kept, n, r
  <2>2. kept \in [1..Len(r) -> DOMAIN q] /\ \A k \in 1..Len(r) : r[k] = q[kept[k]]
    BY <1>7, <1>9
  <2> QED
    BY <1>9, <2>1, <2>2, PartOfQueue
<1>11. ASSUME NEW k \in 1..n
       PROVE  q[kept[k]].id \in Ids(q) \ ids
  <2>1. kept[k] \in K
    <3> HIDE DEF K, kept, n
    <3> QED
      BY <1>6
  <2> HIDE DEF kept
  <2> QED
    BY <2>1 DEF Ids
<1>12. ASSUME NEW t \in Ids(q) \ ids
       PROVE  \E k \in 1..n : q[kept[k]].id = t
  <2>1. PICK i \in DOMAIN q : q[i].id = t
    BY DEF Ids
  <2>2. i \in K
    BY <2>1
  <2>3. PICK k \in 1..n : kept[k] = i
    BY <1>5, <2>2
  <2> QED
    BY <2>1, <2>3
<1>13. Ids(r) = Ids(q) \ ids
  <2> HIDE DEF K, kept, n, r
  <2> QED
    BY <1>10, <1>11, <1>12
<1> QED
  BY <1>10, <1>13

\* next_ready takes one task out of the queue.
LEMMA TakenIsQueue ==
  ASSUME IsQueue(ready), NEW i \in DOMAIN ready
  PROVE  IsQueue(Taken(i)) /\ Ids(Taken(i)) = Ids(ready) \ {ready[i].id}
<1> DEFINE n == Len(ready) - 1
<1> DEFINE f == [k \in 1..n |-> IF k < i THEN k ELSE k + 1]
<1> DEFINE front == SubSeq(ready, 1, i - 1)
<1> DEFINE back == SubSeq(ready, i + 1, Len(ready))
<1>1. ready \in Seq(Entry) /\ Len(ready) \in Nat /\ DOMAIN ready = 1..Len(ready)
  BY LenProperties DEF IsQueue
<1>2. i \in Int /\ 1 <= i /\ i <= Len(ready) /\ n \in Nat
  BY <1>1
<1>3. \A k \in 1..Len(ready) : ready[k] \in Entry
  BY <1>1, ElementOfSeq
<1>4. /\ front \in Seq(Entry) /\ Len(front) = i - 1
      /\ \A k \in 1..(i - 1) : front[k] = ready[k]
  <2>1. \A k \in 1..(i - 1) : ready[k] \in Entry
    BY <1>2, <1>3
  <2>2. /\ front \in Seq(Entry)
        /\ Len(front) = IF 1 <= i - 1 THEN (i - 1) - 1 + 1 ELSE 0
        /\ \A k \in 1 .. (i - 1) - 1 + 1 : front[k] = ready[1 + k - 1]
    BY <1>2, <2>1, SubSeqProperties
  <2> HIDE DEF front
  <2> QED
    BY <1>2, <2>2
<1>5. /\ back \in Seq(Entry) /\ Len(back) = Len(ready) - i
      /\ \A k \in 1..(Len(ready) - i) : back[k] = ready[i + k]
  <2>1. \A k \in (i + 1)..Len(ready) : ready[k] \in Entry
    BY <1>1, <1>2, <1>3
  <2>2. /\ back \in Seq(Entry)
        /\ Len(back) = IF i + 1 <= Len(ready) THEN Len(ready) - (i + 1) + 1 ELSE 0
        /\ \A k \in 1 .. Len(ready) - (i + 1) + 1 : back[k] = ready[(i + 1) + k - 1]
    BY <1>1, <1>2, <2>1, SubSeqProperties
  <2> DEFINE l == Len(ready)
  <2>3. l \in Nat /\ i \in 1..l
    BY <1>1
  <2>4. Len(back) = l - i /\ l - (i + 1) + 1 = l - i
    <3> HIDE DEF back, l
    <3> QED
      BY <2>2, <2>3 DEF l
  <2>5. \A k \in 1..(l - i) : k \in 1 .. l - (i + 1) + 1 /\ (i + 1) + k - 1 = i + k
    <3> HIDE DEF l
    <3> QED
      BY <2>3
  <2> HIDE DEF back
  <2> QED
    BY <2>2, <2>4, <2>5
<1> DEFINE r == front \o back
<1>6. r \in Seq(Entry) /\ Len(r) = n /\ \A k \in 1..n : r[k] = ready[f[k]]
  <2> DEFINE l == Len(ready)
  <2>1. /\ r \in Seq(Entry) /\ Len(r) = Len(front) + Len(back)
        /\ \A k \in 1..Len(front) + Len(back) :
             r[k] = IF k <= Len(front) THEN front[k] ELSE back[k - Len(front)]
    <3> HIDE DEF front, back
    <3> QED
      BY <1>4, <1>5, ConcatProperties
  <2>2. l \in Nat /\ i \in 1..l
    BY <1>1
  <2>3. /\ Len(front) = i - 1 /\ Len(back) = l - i /\ n = l - 1
        /\ \A k \in 1..(i - 1) : front[k] = ready[k]
        /\ \A k \in 1..(l - i) : back[k] = ready[i + k]
    BY <1>4, <1>5
  <2> HIDE DEF l, n, front, back, r
  <2>4. Len(front) + Len(back) = n /\ n \in Nat
    BY <2>2, <2>3
  <2>5. ASSUME NEW k \in 1..n PROVE r[k] = ready[f[k]]
    <3>1. k \in Int /\ 1 <= k /\ k <= l - 1
      BY <2>2, <2>3
    <3>2. CASE k < i
      <4>1. k \in 1..(i - 1) /\ k <= Len(front) /\ f[k] = k
        BY <2>2, <2>3, <3>1, <3>2
      <4> QED
        BY <2>1, <2>3, <2>4, <4>1
    <3>3. CASE ~(k < i)
      <4>1. k - (i - 1) \in 1..(l - i) /\ ~(k <= Len(front)) /\ f[k] = i + (k - (i - 1))
        BY <2>2, <2>3, <3>1, <3>3
      <4> HIDE DEF f
      <4> QED
        BY <2>1, <2>3, <2>4, <4>1
    <3> QED
      BY <3>2, <3>3
  <2> QED
    BY <2>1, <2>4, <2>5
<1>7. f \in [1..n -> DOMAIN ready] /\ \A j, k \in 1..n : j < k => f[j] < f[k]
  BY <1>1, <1>2
<1>8. IsQueue(r) /\ \A t : t \in Ids(r) <=> \E k \in 1..n : ready[f[k]].id = t
  <2>1. \A j, k \in 1..Len(r) : j < k => f[j] < f[k]
    <3> HIDE DEF f, n, r
    <3> QED
      BY <1>6, <1>7
  <2> HIDE DEF f, n, r
  <2>2. f \in [1..Len(r) -> DOMAIN ready] /\ \A k \in 1..Len(r) : r[k] = ready[f[k]]
    BY <1>6, <1>7
  <2>3. r \in Seq(Entry) /\ IsQueue(ready)
    BY <1>6
  <2>4. /\ IsQueue(r)
        /\ \A t : t \in Ids(r) <=> \E k \in 1..Len(r) : ready[f[k]].id = t
    BY <2>1, <2>2, <2>3, PartOfQueue
  <2> QED
    BY <1>6, <2>4
<1>9. ASSUME NEW k \in 1..n
      PROVE  ready[f[k]].id \in Ids(ready) \ {ready[i].id}
  <2>1. f[k] \in DOMAIN ready /\ f[k] # i
    BY <1>1, <1>2
  <2> HIDE DEF f
  <2> QED
    BY <2>1 DEF Ids, IsQueue, Distinct
<1>10. ASSUME NEW t \in Ids(ready) \ {ready[i].id}
       PROVE  \E k \in 1..n : ready[f[k]].id = t
  <2>1. PICK m \in DOMAIN ready : ready[m].id = t
    BY DEF Ids
  <2>2. m # i /\ m \in 1..Len(ready)
    BY <1>1, <2>1
  <2>3. CASE m < i
    <3>1. m \in 1..n /\ f[m] = m
      BY <1>1, <1>2, <2>2, <2>3
    <3> QED
      BY <2>1, <3>1
  <2>4. CASE i < m
    <3>1. m - 1 \in 1..n /\ f[m - 1] = m
      BY <1>1, <1>2, <2>2, <2>4
    <3> QED
      BY <2>1, <3>1
  <2> QED
    BY <1>2, <2>2, <2>3, <2>4
<1>11. Ids(r) = Ids(ready) \ {ready[i].id}
  <2> HIDE DEF f, n, r
  <2> QED
    BY <1>8, <1>9, <1>10
<1>12. Taken(i) = r
  BY DEF Taken
<1> QED
  BY <1>8, <1>11, <1>12

\* A set of places with all that are in front of them is a beginning.
LEMMA Beginning ==
  ASSUME NEW l \in Nat, NEW S \in SUBSET (1..l),
         \A k \in S : \A j \in 1..k : j \in S
  PROVE  Cardinality(S) \in 0..l /\ S = 1..Cardinality(S)
<1> DEFINE c == Cardinality(S)
<1>1. IsFiniteSet(1..l) /\ Cardinality(1..l) = l
  <2>1. IsFiniteSet(1..l) /\ Cardinality(1..l) = IF 1 > l THEN 0 ELSE l - 1 + 1
    BY FS_Interval
  <2> QED
    BY <2>1
<1>2. IsFiniteSet(S) /\ c <= l
  <2> DEFINE all == 1..l
  <2>1. IsFiniteSet(all) /\ Cardinality(all) = l /\ S \in SUBSET all
    BY <1>1
  <2> HIDE DEF all
  <2> QED
    BY <2>1, FS_Subset
<1>3. c \in Nat
  BY <1>2, FS_CardinalityType
<1>4. \A k \in S : k <= c
  <2> SUFFICES ASSUME NEW k \in S
               PROVE  k <= c
    OBVIOUS
  <2>1. 1..k \subseteq S /\ k \in 1..l
    OBVIOUS
  <2>2. IsFiniteSet(1..k) /\ Cardinality(1..k) = IF 1 > k THEN 0 ELSE k - 1 + 1
    BY <2>1, FS_Interval
  <2>3. Cardinality(1..k) <= c
    BY <1>2, <2>1, FS_Subset
  <2> HIDE DEF c
  <2> QED
    BY <1>3, <2>1, <2>2, <2>3
<1>5. IsFiniteSet(1..c) /\ Cardinality(1..c) = c
  <2>1. c \in Int
    BY <1>3
  <2> HIDE DEF c
  <2>2. IsFiniteSet(1..c) /\ Cardinality(1..c) = IF 1 > c THEN 0 ELSE c - 1 + 1
    BY <2>1, FS_Interval
  <2> QED
    BY <1>3, <2>2
<1>6. S \subseteq 1..c
  <2> HIDE DEF c
  <2> QED
    BY <1>3, <1>4
<1>7. S = 1..c
  <2>1. Cardinality(1..c) = Cardinality(S)
    BY <1>5
  <2> DEFINE all == 1..c
  <2>2. IsFiniteSet(all) /\ S \in SUBSET all /\ Cardinality(all) = Cardinality(S)
    BY <1>5, <1>6, <2>1
  <2> HIDE DEF all
  <2>3. S = all
    BY <2>2, FS_Subset
  <2> QED
    BY <2>3 DEF all
<1> QED
  BY <1>2, <1>3, <1>7

\* Scheduler::enqueue: the queue stays in the order of priority.
LEMMA EnqueuedIsQueue ==
  ASSUME NEW q, IsQueue(q), NEW task \in Entry, task.id \notin Ids(q)
  PROVE  /\ IsQueue(Enqueued(q, task))
         /\ Ids(Enqueued(q, task)) = Ids(q) \cup {task.id}
<1> DEFINE l == Len(q)
<1> DEFINE S == {k \in DOMAIN q : q[k].priority >= task.priority}
<1> DEFINE c == Cardinality(S)
<1> DEFINE front == SubSeq(q, 1, c)
<1> DEFINE back == SubSeq(q, c + 1, l)
<1> DEFINE one == <<task>>
<1> DEFINE head == front \o one
<1> DEFINE r == head \o back
<1>1. /\ q \in Seq(Entry) /\ l \in Nat /\ DOMAIN q = 1..l
      /\ \A k \in 1..l : q[k] \in Entry /\ q[k].priority \in Nat
  <2>1. q \in Seq(Entry)
    BY DEF IsQueue
  <2>2. l \in Nat /\ DOMAIN q = 1..l /\ \A k \in 1..l : q[k] \in Entry
    BY <2>1, LenProperties, ElementOfSeq
  <2>3. \A e \in Entry : e.priority \in Nat
    BY DEF Entry
  <2> HIDE DEF l
  <2> QED
    BY <2>1, <2>2, <2>3
<1>2. task.priority \in Nat
  BY DEF Entry
<1>3. c \in 0..l /\ S = 1..c
  <2>1. S \in SUBSET (1..l)
    BY <1>1
  <2>2. ASSUME NEW k \in S, NEW j \in 1..k
        PROVE  j \in S
    <3>1. j \in DOMAIN q /\ k \in DOMAIN q /\ j <= k
      BY <1>1
    <3>2. q[j].priority >= q[k].priority
      BY <3>1 DEF IsQueue, InOrder
    <3>3. q[j].priority \in Nat /\ q[k].priority \in Nat /\ q[k].priority >= task.priority
      BY <1>1, <3>1
    <3> QED
      BY <1>2, <3>1, <3>2, <3>3
  <2> HIDE DEF S, l
  <2> QED
    BY <1>1, <2>1, <2>2, Beginning
<1>4. \A k \in 1..l : k <= c <=> q[k].priority >= task.priority
  <2>1. \A k \in 1..l : k \in S <=> q[k].priority >= task.priority
    BY <1>1
  <2> HIDE DEF S, c, l
  <2> QED
    BY <1>1, <1>3, <2>1
<1> HIDE DEF S, c
<1>5. /\ front \in Seq(Entry) /\ Len(front) = c
      /\ \A k \in 1..c : front[k] = q[k]
  <2>1. \A k \in 1..c : q[k] \in Entry
    BY <1>1, <1>3
  <2>2. /\ front \in Seq(Entry)
        /\ Len(front) = IF 1 <= c THEN c - 1 + 1 ELSE 0
        /\ \A k \in 1 .. c - 1 + 1 : front[k] = q[1 + k - 1]
    BY <1>3, <2>1, SubSeqProperties
  <2> HIDE DEF front
  <2> QED
    BY <1>3, <2>2
<1>6. /\ back \in Seq(Entry) /\ Len(back) = l - c
      /\ \A k \in 1..(l - c) : back[k] = q[c + k]
  <2>1. \A k \in (c + 1)..l : q[k] \in Entry
    BY <1>1, <1>3
  <2>2. /\ back \in Seq(Entry)
        /\ Len(back) = IF c + 1 <= l THEN l - (c + 1) + 1 ELSE 0
        /\ \A k \in 1 .. l - (c + 1) + 1 : back[k] = q[(c + 1) + k - 1]
    BY <1>1, <1>3, <2>1, SubSeqProperties
  <2>3. Len(back) = l - c /\ l - (c + 1) + 1 = l - c
    <3> HIDE DEF back, l
    <3> QED
      BY <1>1, <1>3, <2>2
  <2>4. \A k \in 1..(l - c) : k \in 1 .. l - (c + 1) + 1 /\ (c + 1) + k - 1 = c + k
    <3> HIDE DEF l
    <3> QED
      BY <1>1, <1>3
  <2> HIDE DEF back, l
  <2> QED
    BY <2>2, <2>3, <2>4
<1>7. <<task>> \in Seq(Entry) /\ Len(<<task>>) = 1 /\ <<task>>[1] = task
  OBVIOUS
<1>8. /\ r \in Seq(Entry) /\ Len(r) = l + 1
      /\ \A k \in 1..c : r[k] = q[k]
      /\ r[c + 1] = task
      /\ \A k \in (c + 2)..(l + 1) : r[k] = q[k - 1]
  <2>1. /\ head \in Seq(Entry) /\ Len(head) = Len(front) + Len(one)
        /\ \A k \in 1..Len(front) + Len(one) :
             head[k] = IF k <= Len(front) THEN front[k] ELSE one[k - Len(front)]
    <3> HIDE DEF front, one
    <3> QED
      BY <1>5, <1>7, ConcatProperties DEF one
  <2>2. /\ r \in Seq(Entry) /\ Len(r) = Len(head) + Len(back)
        /\ \A k \in 1..Len(head) + Len(back) :
             r[k] = IF k <= Len(head) THEN head[k] ELSE back[k - Len(head)]
    <3>1. head \in Seq(Entry) /\ back \in Seq(Entry)
      BY <1>6, <2>1
    <3> HIDE DEF head, back
    <3> QED
      BY <3>1, ConcatProperties
  <2>3. one[1] = task /\ Len(one) = 1
    BY <1>7
  <2> HIDE DEF front, back, l, one, head, r
  <2>4. Len(head) = c + 1 /\ \A k \in 1..c : head[k] = q[k]
    BY <1>3, <1>5, <2>1, <2>3
  <2>5. head[c + 1] = task
    BY <1>3, <1>5, <2>1, <2>3
  <2>6. Len(r) = l + 1
    BY <1>1, <1>3, <1>6, <2>2, <2>4
  <2>7. \A k \in 1..(c + 1) : r[k] = head[k]
    BY <1>1, <1>3, <1>6, <2>2, <2>4
  <2>8. ASSUME NEW k \in (c + 2)..(l + 1) PROVE r[k] = q[k - 1]
    <3>1. /\ k \in 1..(c + 1) + (l - c) /\ ~(k <= c + 1)
          /\ k - (c + 1) \in 1..(l - c) /\ c + (k - (c + 1)) = k - 1
      BY <1>1, <1>3
    <3>2. r[k] = back[k - (c + 1)]
      BY <1>6, <2>2, <2>4, <3>1
    <3> QED
      BY <1>6, <3>1, <3>2
  <2> QED
    BY <1>3, <2>2, <2>4, <2>5, <2>6, <2>7, <2>8
<1>9. DOMAIN r = 1..(l + 1) /\ c + 1 \in 1..(l + 1)
  <2> HIDE DEF r, l
  <2> QED
    BY <1>1, <1>3, <1>8, LenProperties
<1> HIDE DEF r, head, one, front, back, l
<1>10. \A k \in 1..(l + 1) : \/ k \in 1..c /\ k \in DOMAIN q /\ r[k] = q[k]
                             \/ k = c + 1 /\ r[k] = task
                             \/ /\ k \in (c + 2)..(l + 1) /\ k - 1 \in DOMAIN q
                                /\ r[k] = q[k - 1]
  BY <1>1, <1>3, <1>8
<1>11. \A k \in DOMAIN q : q[k].id # task.id
  BY DEF Ids
<1>12. Distinct(r)
  <2> SUFFICES ASSUME NEW j \in 1..(l + 1), NEW k \in 1..(l + 1), r[j].id = r[k].id
               PROVE  j = k
    BY <1>9 DEF Distinct
  <2>1. \A m, n \in DOMAIN q : q[m].id = q[n].id => m = n
    BY DEF IsQueue, Distinct
  <2>2. CASE j = c + 1 \/ k = c + 1
    BY <1>3, <1>8, <1>10, <1>11, <2>2
  <2>3. CASE j # c + 1 /\ k # c + 1
    <3> DEFINE old(m) == IF m <= c THEN m ELSE m - 1
    <3>1. \A m \in 1..(l + 1) : m # c + 1 => old(m) \in DOMAIN q /\ r[m] = q[old(m)]
      BY <1>1, <1>3, <1>10
    <3>2. old(j) = old(k)
      <4> HIDE DEF old
      <4> QED
        BY <2>1, <2>3, <3>1
    <3> QED
      BY <1>1, <1>3, <2>3, <3>2
  <2> QED
    BY <2>2, <2>3
<1>13. InOrder(r)
  <2> SUFFICES ASSUME NEW j \in 1..(l + 1), NEW k \in 1..(l + 1), j <= k
               PROVE  r[j].priority >= r[k].priority
    BY <1>9 DEF InOrder
  <2>1. \A m, n \in DOMAIN q : m <= n => q[m].priority >= q[n].priority
    BY DEF IsQueue, InOrder
  <2>2. CASE j = k
    BY <1>1, <1>2, <1>10, <2>2
  <2>3. CASE j < k /\ k \in 1..c
    BY <1>1, <1>3, <1>10, <2>1, <2>3
  <2>4. CASE j < k /\ k = c + 1
    BY <1>1, <1>3, <1>4, <1>10, <2>4
  <2>5. CASE k \in (c + 2)..(l + 1) /\ j = c + 1
    BY <1>1, <1>2, <1>3, <1>4, <1>10, <2>5
  <2>6. CASE k \in (c + 2)..(l + 1) /\ j < k /\ j # c + 1
    <3>1. r[k] = q[k - 1] /\ k - 1 \in DOMAIN q
      BY <1>8, <1>1, <1>3, <2>6
    <3>2. CASE j <= c
      <4>1. r[j] = q[j] /\ j \in DOMAIN q /\ j <= k - 1
        BY <1>8, <1>1, <1>3, <2>6, <3>2
      <4> QED
        BY <2>1, <3>1, <4>1
    <3>3. CASE c + 2 <= j
      <4>1. r[j] = q[j - 1] /\ j - 1 \in DOMAIN q /\ j - 1 <= k - 1
        BY <1>8, <1>1, <1>3, <2>6, <3>3
      <4> QED
        BY <2>1, <3>1, <4>1
    <3> QED
      BY <1>3, <2>6, <3>2, <3>3
  <2> QED
    BY <1>1, <1>3, <1>10, <2>2, <2>3, <2>4, <2>5, <2>6
<1>14. Ids(r) = Ids(q) \cup {task.id}
  <2>1. \A k \in 1..(l + 1) : r[k].id \in Ids(q) \cup {task.id}
    BY <1>10 DEF Ids
  <2>2. \A k \in DOMAIN q : \E m \in 1..(l + 1) : r[m] = q[k]
    <3> SUFFICES ASSUME NEW k \in DOMAIN q
                 PROVE  \E m \in 1..(l + 1) : r[m] = q[k]
      OBVIOUS
    <3>1. CASE k <= c
      BY <1>1, <1>3, <1>8, <3>1
    <3>2. CASE k > c
      <4>1. k + 1 \in (c + 2)..(l + 1) /\ (k + 1) - 1 = k /\ k + 1 \in 1..(l + 1)
        BY <1>1, <1>3, <3>2
      <4>2. r[k + 1] = q[k]
        BY <1>8, <4>1
      <4> QED
        BY <4>1, <4>2
    <3> QED
      BY <1>1, <1>3, <3>1, <3>2
  <2>3. task.id \in Ids(r)
    BY <1>8, <1>9 DEF Ids
  <2> QED
    BY <1>9, <2>1, <2>2, <2>3 DEF Ids
<1>15. Enqueued(q, task) = r
  BY DEF Enqueued, r, head, one, front, back, l, c, S
<1> QED
  BY <1>8, <1>12, <1>13, <1>14, <1>15 DEF IsQueue

\* What becomes ready is queued behind all that waits, with the lowest priority.
LEMMA AppendedIsQueue ==
  ASSUME OrchestrationAssumption, NEW q, IsQueue(q), NEW new \in SUBSET Tasks,
         new \cap Ids(q) = {}
  PROVE  IsQueue(q \o Entries(new)) /\ Ids(q \o Entries(new)) = Ids(q) \cup new
<1> DEFINE l == Len(q)
<1> DEFINE n == Cardinality(new)
<1> DEFINE a == Ascending(new)
<1> DEFINE e == Entries(new)
<1> DEFINE r == q \o e
<1>1. /\ q \in Seq(Entry) /\ l \in Nat /\ DOMAIN q = 1..l
      /\ \A k \in 1..l : q[k] \in Entry /\ q[k].priority \in Nat
  <2>1. q \in Seq(Entry)
    BY DEF IsQueue
  <2>2. l \in Nat /\ DOMAIN q = 1..l /\ \A k \in 1..l : q[k] \in Entry
    BY <2>1, LenProperties, ElementOfSeq
  <2>3. \A m \in Entry : m.priority \in Nat
    BY DEF Entry
  <2> HIDE DEF l
  <2> QED
    BY <2>1, <2>2, <2>3
<1>2. /\ n \in Nat /\ a \in Seq(new) /\ Len(a) = n
      /\ \A t \in new : \E k \in 1..n : a[k] = t
      /\ \A j, k \in 1..n : j < k => a[j] < a[k]
  <2>1. Tasks \subseteq Nat /\ IsFiniteSet(Tasks)
    BY DEF OrchestrationAssumption
  <2>2. new \subseteq Int
    BY <2>1
  <2>3. IsFiniteSet(new)
    BY <2>1, FS_Subset
  <2> QED
    BY <2>2, <2>3, AscendingLists
<1> HIDE DEF n, a, l
<1>3. \A k \in 1..n : a[k] \in new /\ a[k] \in Int
  <2>1. \A t \in new : t \in Int
    BY DEF OrchestrationAssumption
  <2> QED
    BY <1>2, <2>1, ElementOfSeq
<1>4. e = [k \in 1..n |-> [id |-> a[k], priority |-> 0]]
  BY DEF Entries, n, a
<1>5. /\ e \in Seq(Entry) /\ Len(e) = n
      /\ \A k \in 1..n : e[k].id = a[k] /\ e[k].priority = 0
  <2>1. \A k \in 1..n : [id |-> a[k], priority |-> 0] \in Entry
    BY <1>3 DEF Entry
  <2> HIDE DEF e
  <2> QED
    BY <1>2, <1>4, <2>1
<1>6. /\ r \in Seq(Entry) /\ Len(r) = l + n
      /\ \A k \in 1..(l + n) : r[k] = IF k <= l THEN q[k] ELSE e[k - l]
  <2>1. q \in Seq(Entry) /\ e \in Seq(Entry) /\ Len(q) = l /\ Len(e) = n
    BY <1>1, <1>5 DEF l
  <2> HIDE DEF e
  <2> QED
    BY <2>1, ConcatProperties
<1>7. DOMAIN r = 1..(l + n)
  <2> HIDE DEF r
  <2> QED
    BY <1>6, LenProperties
<1>8. \A k \in 1..(l + n) :
        \/ k <= l /\ k \in DOMAIN q /\ r[k] = q[k]
        \/ k > l /\ k - l \in 1..n /\ r[k].id = a[k - l] /\ r[k].priority = 0
  <2> SUFFICES ASSUME NEW k \in 1..(l + n)
               PROVE  \/ k <= l /\ k \in DOMAIN q /\ r[k] = q[k]
                      \/ k > l /\ k - l \in 1..n /\ r[k].id = a[k - l] /\ r[k].priority = 0
    OBVIOUS
  <2> HIDE DEF r, e
  <2>1. CASE k <= l
    <3>1. k \in 1..l
      BY <1>1, <1>2, <2>1
    <3> QED
      BY <1>1, <1>6, <2>1, <3>1
  <2>2. CASE k > l
    <3>1. k - l \in 1..n
      BY <1>1, <1>2, <2>2
    <3>2. r[k] = e[k - l]
      BY <1>1, <1>2, <1>6, <2>2
    <3> QED
      BY <1>5, <2>2, <3>1, <3>2
  <2> QED
    BY <1>1, <1>2, <2>1, <2>2
<1> HIDE DEF r, e
<1>9. \A k \in DOMAIN q : q[k].id \in Ids(q)
  BY DEF Ids
<1>10. Distinct(r)
  <2> SUFFICES ASSUME NEW j \in 1..(l + n), NEW k \in 1..(l + n), r[j].id = r[k].id
               PROVE  j = k
    BY <1>7 DEF Distinct
  <2>1. j \in Int /\ k \in Int
    BY <1>1, <1>2
  <2>2. CASE j <= l /\ k <= l
    <3>1. j \in DOMAIN q /\ k \in DOMAIN q /\ r[j] = q[j] /\ r[k] = q[k]
      BY <1>1, <1>8, <2>1, <2>2
    <3> QED
      BY <3>1 DEF IsQueue, Distinct
  <2>3. CASE (j <= l /\ k > l) \/ (j > l /\ k <= l)
    <3>1. ASSUME NEW m \in 1..(l + n), m <= l PROVE r[m].id \in Ids(q)
      <4>1. m \in Int /\ l \in Int
        BY <1>1, <1>2
      <4>2. m \in DOMAIN q /\ r[m] = q[m]
        BY <1>8, <3>1, <4>1
      <4> QED
        BY <1>9, <4>2
    <3>2. ASSUME NEW m \in 1..(l + n), m > l PROVE r[m].id \in new
      <4>1. ~(m <= l)
        <5>1. m \in Int /\ l \in Int
          BY <1>1, <1>2
        <5> QED
          BY <3>2, <5>1
      <4>2. m - l \in 1..n /\ r[m].id = a[m - l]
        BY <1>8, <4>1
      <4> QED
        BY <1>3, <4>2
    <3>3. r[j].id # r[k].id
      BY <2>3, <3>1, <3>2
    <3> QED
      BY <3>3
  <2>4. CASE j > l /\ k > l
    <3>1. j - l \in 1..n /\ k - l \in 1..n /\ a[j - l] = a[k - l]
      BY <1>1, <1>8, <2>1, <2>4
    <3>2. j - l = k - l
      BY <1>2, <1>3, <3>1
    <3> QED
      BY <1>1, <2>1, <3>2
  <2> QED
    BY <1>1, <2>1, <2>2, <2>3, <2>4
<1>11. InOrder(r)
  <2> SUFFICES ASSUME NEW j \in 1..(l + n), NEW k \in 1..(l + n), j <= k
               PROVE  r[j].priority >= r[k].priority
    BY <1>7 DEF InOrder
  <2>1. CASE k <= l
    <3>1. j \in DOMAIN q /\ k \in DOMAIN q
      BY <1>1, <1>2, <2>1
    <3>2. r[j] = q[j] /\ r[k] = q[k]
      BY <1>1, <1>2, <1>8, <2>1
    <3> QED
      BY <3>1, <3>2 DEF IsQueue, InOrder
  <2>2. CASE k > l
    BY <1>1, <1>2, <1>8, <2>2
  <2> QED
    BY <1>1, <1>2, <2>1, <2>2
<1>12. Ids(r) = Ids(q) \cup new
  <2>1. \A k \in 1..(l + n) : r[k].id \in Ids(q) \cup new
    BY <1>3, <1>8, <1>9
  <2>2. \A k \in DOMAIN q : k \in 1..(l + n) /\ r[k] = q[k]
    BY <1>1, <1>2, <1>8
  <2>3. ASSUME NEW t \in new
        PROVE  \E m \in 1..(l + n) : r[m].id = t
    <3>1. PICK k \in 1..n : a[k] = t
      BY <1>2
    <3>2. l + k \in 1..(l + n) /\ ~(l + k <= l) /\ (l + k) - l = k
      BY <1>1, <1>2
    <3> QED
      BY <1>8, <3>1, <3>2
  <2>4. Ids(r) = {r[k].id : k \in 1..(l + n)}
    BY <1>7 DEF Ids
  <2>5. \A t \in Ids(q) : \E k \in DOMAIN q : q[k].id = t
    BY DEF Ids
  <2>6. Ids(r) \subseteq Ids(q) \cup new
    BY <2>1, <2>4
  <2>7. ASSUME NEW t \in Ids(q) PROVE t \in Ids(r)
    <3>1. PICK k \in DOMAIN q : q[k].id = t
      BY <2>5
    <3> QED
      BY <2>2, <2>4, <3>1
  <2>8. new \subseteq Ids(r)
    BY <2>3, <2>4
  <2> QED
    BY <2>6, <2>7, <2>8
<1> QED
  BY <1>6, <1>10, <1>11, <1>12 DEF IsQueue, r, e

\* A queue is as long as the set of its tasks is large.
LEMMA SizeOfQueue ==
  ASSUME NEW q, IsQueue(q)
  PROVE  Len(q) = Cardinality(Ids(q))
<1> DEFINE n == Len(q)
<1> DEFINE I == Ids(q)
<1> DEFINE f == [k \in 1..n |-> q[k].id]
<1>1. q \in Seq(Entry) /\ n \in Nat /\ DOMAIN q = 1..n
  BY LenProperties DEF IsQueue
<1>2. IsFiniteSet(1..n) /\ Cardinality(1..n) = n
  <2> HIDE DEF n
  <2>1. IsFiniteSet(1..n) /\ Cardinality(1..n) = IF 1 > n THEN 0 ELSE n - 1 + 1
    BY <1>1, FS_Interval
  <2> QED
    BY <1>1, <2>1
<1>3. f \in [1..n -> I] /\ \A t \in I : \E k \in 1..n : f[k] = t
  BY <1>1 DEF Ids
<1>4. \A j, k \in 1..n : f[j] = f[k] => j = k
  BY <1>1 DEF IsQueue, Distinct
<1> HIDE DEF f, n, I
<1>5. f \in Bijection(1..n, I)
  BY <1>3, <1>4 DEF Bijection, Injection, Surjection, IsInjective
<1>6. ExistsBijection(1..n, I)
  BY <1>5 DEF ExistsBijection
<1>7. Cardinality(I) = Cardinality(1..n)
  BY <1>2, <1>6, FS_Bijection
<1> QED
  BY <1>2, <1>7 DEF n, I

----------------------------------------------------------------------------
(* The inductive invariant *)

USE DEF graphVars, slotVars, workerVars, history, vars

Alive(t) == workers[t] + Len(completions[t])

\* A worker or its completion is what the token of a task stands for: live as
\* long as the task runs, cancelled once nobody knows what the worker does.
Watched ==
  \A t \in Tasks :
    /\ Alive(t) <= 1 /\ (Alive(t) = 1 <=> token[t] # "none")
    /\ token[t] = "live" <=> state[t] = "Running"
    /\ token[t] = "cancelled" => state[t] = "Unknown"

\* What has succeeded has its result.
Accepted == \A t \in Tasks : state[t] = "Succeeded" => t \in results

\* The scheduler's two collections, and the order of its queue.
Scheduled ==
  /\ IsQueue(ready) /\ Ids(ready) = {t \in Tasks : state[t] = "Ready"}
  /\ running = {t \in Tasks : state[t] = "Running"}

\* What a ready or running task is still related to has succeeded.
EdgesSucceeded ==
  \A e \in relations :
    state[e[2]] \in {"Ready", "Running"} => state[e[1]] = "Succeeded" /\ e[1] \in results

\* A prerequisite that the spec of a record names is still related to it, unless its
\* own record was deleted.
Named ==
  \A t \in Present : \A d \in dependencies[t] :
    <<d, t>> \in relations \cup retired \cup abandoned

IInv == TypeOK /\ Watched /\ Accepted /\ Scheduled /\ EdgesSucceeded /\ Named

\* The types of what belongs to one task.
LEMMA OfTask ==
  ASSUME TypeOK, NEW t \in Tasks
  PROVE  /\ state[t] \in NodeState \cup {Absent} /\ token[t] \in {"none", "live", "cancelled"}
         /\ workers[t] \in Nat /\ completions[t] \in Seq(Reports)
         /\ Len(completions[t]) \in Nat
         /\ completions[t] # <<>> => Len(completions[t]) > 0
<1>1. /\ state[t] \in NodeState \cup {Absent} /\ token[t] \in {"none", "live", "cancelled"}
      /\ workers[t] \in Nat /\ completions[t] \in Seq(Reports)
  BY DEF TypeOK
<1>2. Len(completions[t]) \in Nat
  BY <1>1, LenProperties
<1>3. completions[t] # <<>> => Len(completions[t]) > 0
  BY <1>1, EmptySeq
<1> QED
  BY <1>1, <1>2, <1>3

\* The empty runtime.
LEMMA InitHolds ==
  ASSUME OrchestrationAssumption, Init
  PROVE  IInv
<1>1. TypeOK
  BY DEF Init, TypeOK, Present, NodeState, Absent, Ids, OrchestrationAssumption
<1>2. Watched
  BY DEF Init, Watched, Alive, Absent
<1>3. Accepted /\ EdgesSucceeded /\ Named
  BY DEF Init, Accepted, EdgesSucceeded, Named, Present, Absent
<1>4. Scheduled
  <2>1. IsQueue(ready)
    BY DEF Init, IsQueue, Distinct, InOrder
  <2> QED
    BY <2>1 DEF Init, Scheduled, Ids, Absent
<1> QED
  BY <1>1, <1>2, <1>3, <1>4 DEF IInv

\* submit: a new record has no worker, no relation to a dependent and no result.
LEMMA SubmitKeeps ==
  ASSUME OrchestrationAssumption, IInv, NEW t \in Tasks, NEW deps \in SUBSET Tasks,
         NEW priority \in Priorities, Submit(t, deps, priority)
  PROVE  IInv'
<1> DEFINE entry == [id |-> t, priority |-> priority]
<1>1. /\ state' = [state EXCEPT ![t] = IF deps = {} THEN "Ready" ELSE "Queued"]
      /\ state'[t] \in {"Ready", "Queued"} /\ state[t] = Absent
      /\ \A u \in Tasks \ {t} : state'[u] = state[u]
      /\ state' \in [Tasks -> NodeState \cup {Absent}]
  BY DEF Submit, IInv, TypeOK, NodeState
<1>2. Present' = Present \cup {t}
  BY <1>1 DEF Present, Absent
<1>3. entry \in Entry /\ entry.id = t
  BY DEF Entry, OrchestrationAssumption
<1>4. t \notin Ids(ready)
  BY <1>1 DEF IInv, Scheduled, Absent
<1>5. /\ IsQueue(ready')
      /\ Ids(ready') = Ids(ready) \cup (IF deps = {} THEN {t} ELSE {})
  <2>1. CASE deps = {}
    <3>1. ready' = Enqueued(ready, entry)
      BY <2>1 DEF Submit
    <3> HIDE DEF entry
    <3>2. /\ IsQueue(Enqueued(ready, entry))
          /\ Ids(Enqueued(ready, entry)) = Ids(ready) \cup {entry.id}
      BY <1>3, <1>4, EnqueuedIsQueue DEF IInv, Scheduled
    <3> QED
      BY <1>3, <2>1, <3>1, <3>2
  <2>2. CASE deps # {}
    BY <2>2 DEF Submit, IInv, Scheduled
  <2> QED
    BY <2>1, <2>2
<1>6. Scheduled'
  <2>1. Ids(ready') = {u \in Tasks : state'[u] = "Ready"}
    <3>1. Ids(ready) = {u \in Tasks : state[u] = "Ready"}
      BY DEF IInv, Scheduled
    <3>2. state'[t] = "Ready" <=> deps = {}
      BY <1>1 DEF IInv, TypeOK
    <3>3. \A u \in Tasks : state'[u] = "Ready" <=> state[u] = "Ready" \/ (u = t /\ deps = {})
      BY <1>1, <3>2 DEF Absent
    <3> QED
      BY <1>5, <3>1, <3>3
  <2>2. running' = {u \in Tasks : state'[u] = "Running"}
    BY <1>1 DEF IInv, Scheduled, Submit, Absent
  <2> QED
    BY <1>5, <2>1, <2>2 DEF Scheduled
<1>7. TypeOK'
  <2>1. relations' \subseteq Present' \X Present'
    BY <1>2 DEF Submit, IInv, TypeOK
  <2>2. dependencies' \in [Tasks -> SUBSET Tasks]
    BY DEF Submit, IInv, TypeOK
  <2>3. ready' \in Seq([id : Tasks, priority : Nat])
    BY <1>5 DEF IsQueue, Entry
  <2>4. submits' \in 0..MaxSubmits
    BY DEF Submit, IInv, TypeOK, OrchestrationAssumption
  <2> QED
    BY <1>1, <1>2, <2>1, <2>2, <2>3, <2>4 DEF Submit, IInv, TypeOK
<1>8. Watched'
  BY <1>1 DEF Submit, IInv, Watched, Alive, Absent
<1>9. Accepted'
  BY <1>1 DEF Submit, IInv, Accepted
<1>10. EdgesSucceeded'
  <2> SUFFICES ASSUME NEW e \in relations', state'[e[2]] \in {"Ready", "Running"}
               PROVE  state'[e[1]] = "Succeeded" /\ e[1] \in results'
    BY DEF EdgesSucceeded
  <2>1. e \in relations
    <3>1. CASE e[2] = t
      BY <1>1, <3>1 DEF Submit
    <3>2. CASE e[2] # t
      BY <3>2 DEF Submit
    <3> QED
      BY <3>1, <3>2
  <2>2. e[1] \in Present /\ e[2] \in Present /\ e[1] # t /\ e[2] # t
    BY <1>1, <2>1 DEF IInv, TypeOK, Present
  <2>3. state'[e[1]] = state[e[1]] /\ state'[e[2]] = state[e[2]]
    BY <1>1, <2>2 DEF Present
  <2> QED
    BY <2>1, <2>3 DEF IInv, EdgesSucceeded, Submit
<1>11. Named'
  <2> SUFFICES ASSUME NEW u \in Present', NEW d \in dependencies'[u]
               PROVE  <<d, u>> \in relations' \cup retired' \cup abandoned'
    BY DEF Named
  <2>1. CASE u = t
    <3>1. d \in deps
      BY <2>1 DEF Submit, IInv, TypeOK
    <3> QED
      BY <2>1, <3>1 DEF Submit
  <2>2. CASE u # t
    <3>1. u \in Present /\ d \in dependencies[u]
      BY <1>2, <2>2 DEF Submit, IInv, TypeOK, Present
    <3> QED
      BY <3>1 DEF Submit, IInv, Named
  <2> QED
    BY <2>1, <2>2
<1> QED
  BY <1>6, <1>7, <1>8, <1>9, <1>10, <1>11 DEF IInv

\* A completion that has arrived is the last sign of a worker that was known.
LEMMA Arrived ==
  ASSUME IInv, NEW t \in Reapable
  PROVE  /\ t \in Tasks /\ workers[t] = 0 /\ Len(completions[t]) = 1
         /\ state[t] \in {"Running", "Unknown"}
         /\ Tail(completions[t]) = <<>>
<1>1. t \in Tasks /\ completions[t] # <<>>
  BY DEF Reapable
<1>2. /\ workers[t] \in Nat /\ completions[t] \in Seq(Reports)
      /\ Len(completions[t]) \in Nat /\ Len(completions[t]) > 0
      /\ token[t] \in {"none", "live", "cancelled"}
  BY <1>1, OfTask DEF IInv
<1>3. /\ Alive(t) <= 1 /\ (Alive(t) = 1 <=> token[t] # "none")
      /\ token[t] = "live" <=> state[t] = "Running"
      /\ token[t] = "cancelled" => state[t] = "Unknown"
  BY <1>1 DEF IInv, Watched
<1>4. workers[t] = 0 /\ Len(completions[t]) = 1 /\ Alive(t) = 1
  <2> DEFINE w == workers[t]
  <2> DEFINE n == Len(completions[t])
  <2>1. w \in Nat /\ n \in Nat /\ n > 0 /\ w + n <= 1 /\ Alive(t) = w + n
    BY <1>2, <1>3 DEF Alive
  <2> HIDE DEF w, n
  <2>2. w = 0 /\ n = 1 /\ Alive(t) = 1
    BY <2>1
  <2> QED
    BY <2>2 DEF w, n
<1>5. state[t] \in {"Running", "Unknown"}
  BY <1>2, <1>3, <1>4
<1>6. Tail(completions[t]) = <<>>
  <2>1. /\ Tail(completions[t]) \in Seq(Reports)
        /\ Len(Tail(completions[t])) = Len(completions[t]) - 1
    BY <1>1, <1>2, HeadTailProperties
  <2>2. Len(Tail(completions[t])) = 0
    BY <1>4, <2>1
  <2> QED
    BY <2>1, <2>2, EmptySeq
<1> QED
  BY <1>1, <1>4, <1>5, <1>6

\* What tick makes of the states: outcomes for those who have sent one, and new
\* states for those who wait for others.
LEMMA ReapedStates ==
  ASSUME IInv, NEW t \in Tasks
  PROVE  /\ t \in Reapable => Reaped[t] \in {"Failed", "Stale", "Unknown", "Succeeded"}
         /\ t \notin Reapable => Reaped[t] = state[t]
         /\ Reaped[t] \notin {"Queued", "Blocked"} => Refreshed(Reaped)[t] = Reaped[t]
         /\ Reaped[t] \in {"Queued", "Blocked"} =>
              Refreshed(Reaped)[t] \in {"Queued", "Blocked", "Ready"}
         /\ Reaped[t] \in {"Queued", "Blocked"} /\ Refreshed(Reaped)[t] = "Ready" =>
              Satisfied(Reaped, t)
<1>1. t \in Reapable => Reaped[t] \in {"Failed", "Stale", "Unknown", "Succeeded"}
  BY DEF Reaped, Verdict
<1>2. t \notin Reapable => Reaped[t] = state[t]
  BY DEF Reaped
<1> HIDE DEF Reaped
<1>3. Refreshed(Reaped)[t] =
        IF Reaped[t] \notin {"Queued", "Blocked"} THEN Reaped[t]
        ELSE IF \E d \in Prerequisites(t) : Reaped[d] \in {"Failed", "Cancelled", "Unknown"}
          THEN "Blocked"
        ELSE IF Satisfied(Reaped, t) THEN "Ready" ELSE "Queued"
  BY DEF Refreshed
<1> QED
  BY <1>1, <1>2, <1>3

\* tick until it launches.
LEMMA ReapKeeps ==
  ASSUME OrchestrationAssumption, IInv, Reap
  PROVE  IInv'
<1> DEFINE new == {t \in Tasks : state'[t] = "Ready" /\ Reaped[t] # "Ready"}
<1>1. state' = Refreshed(Reaped) /\ ready' = ready \o Entries(new)
  BY DEF Reap
<1>2. ASSUME NEW t \in Tasks
      PROVE  /\ t \in Reapable =>
                  /\ state[t] \in {"Running", "Unknown"}
                  /\ state'[t] \in {"Failed", "Stale", "Unknown", "Succeeded"}
                  /\ state'[t] = Reaped[t]
             /\ t \notin Reapable =>
                  /\ Reaped[t] = state[t]
                  /\ state[t] \notin {"Queued", "Blocked"} => state'[t] = state[t]
                  /\ state[t] \in {"Queued", "Blocked"} =>
                       state'[t] \in {"Queued", "Blocked", "Ready"}
             /\ Reaped[t] \notin {"Queued", "Blocked"} => state'[t] = Reaped[t]
  BY <1>1, Arrived, ReapedStates
<1>3. ASSUME NEW t \in Tasks
      PROVE  state'[t] \in NodeState \cup {Absent} /\ (state'[t] = Absent <=> state[t] = Absent)
  BY <1>2 DEF IInv, TypeOK, NodeState, Absent
<1>4. Present' = Present
  BY <1>3 DEF Present
<1>5. new \in SUBSET Tasks /\ new \cap Ids(ready) = {}
  <2>1. ASSUME NEW t \in new, t \in Ids(ready)
        PROVE  FALSE
    <3>1. t \in Tasks /\ state[t] = "Ready" /\ Reaped[t] # "Ready"
      BY <2>1 DEF IInv, Scheduled
    <3> QED
      BY <1>2, <3>1
  <2> QED
    BY <2>1
<1>6. IsQueue(ready') /\ Ids(ready') = Ids(ready) \cup new
  <2> HIDE DEF new
  <2> QED
    BY <1>1, <1>5, AppendedIsQueue DEF IInv, Scheduled
<1>7. Scheduled'
  <2>1. Ids(ready') = {t \in Tasks : state'[t] = "Ready"}
    <3>1. ASSUME NEW t \in Ids(ready) PROVE t \in Tasks /\ state'[t] = "Ready"
      BY <1>2 DEF IInv, Scheduled
    <3>2. ASSUME NEW t \in Tasks, state'[t] = "Ready" PROVE t \in Ids(ready) \cup new
      BY <1>2, <3>2 DEF IInv, Scheduled
    <3> QED
      BY <1>6, <3>1, <3>2
  <2>2. running' = {t \in Tasks : state'[t] = "Running"}
    <3>1. running' = {t \in Tasks : state[t] = "Running"} \ Reapable
      BY DEF IInv, Scheduled, Reap, Freed
    <3>2. ASSUME NEW t \in Tasks
          PROVE  state'[t] = "Running" <=> state[t] = "Running" /\ t \notin Reapable
      BY <1>2
    <3> QED
      BY <3>1, <3>2
  <2> QED
    BY <1>6, <2>1, <2>2 DEF Scheduled
<1>8. ASSUME NEW t \in Tasks
      PROVE  /\ t \in Reapable => completions'[t] = <<>> /\ token'[t] = "none"
             /\ t \notin Reapable => completions'[t] = <<>> /\ completions[t] = <<>>
                                      /\ token'[t] = token[t]
  BY Arrived DEF Reap, Reapable
<1>9. TypeOK'
  <2>1. state' \in [Tasks -> NodeState \cup {Absent}]
    BY <1>1, <1>3 DEF Refreshed
  <2>2. relations' \subseteq Present' \X Present'
    BY <1>4 DEF Reap, IInv, TypeOK
  <2>3. ready' \in Seq([id : Tasks, priority : Nat])
    BY <1>6 DEF IsQueue, Entry
  <2>4. results' \subseteq Present'
    <3>1. Reapable \subseteq Present
      BY Arrived DEF Present, Absent
    <3> QED
      BY <1>4, <3>1 DEF Reap, IInv, TypeOK
  <2>5. token' \in [Tasks -> {"none", "live", "cancelled"}]
    BY DEF Reap, IInv, TypeOK
  <2>6. completions' \in [Tasks -> Seq(Reports)]
    <3>1. completions' =
            [t \in Tasks |-> IF t \in Reapable THEN Tail(completions[t]) ELSE <<>>]
      BY DEF Reap
    <3>2. \A t \in Tasks : t \in Reapable => Tail(completions[t]) = <<>>
      BY Arrived
    <3>3. <<>> \in Seq(Reports)
      BY EmptySeq
    <3> QED
      BY <3>1, <3>2, <3>3
  <2>7. running' \subseteq Tasks
    BY <1>7 DEF Scheduled
  <2> QED
    BY <2>1, <2>2, <2>3, <2>4, <2>5, <2>6, <2>7 DEF Reap, IInv, TypeOK
<1>10. Watched'
  <2> SUFFICES ASSUME NEW t \in Tasks
               PROVE  /\ Alive(t)' <= 1 /\ (Alive(t)' = 1 <=> token'[t] # "none")
                      /\ token'[t] = "live" <=> state'[t] = "Running"
                      /\ token'[t] = "cancelled" => state'[t] = "Unknown"
    BY DEF Watched
  <2>1. /\ Len(completions'[t]) = 0 /\ workers'[t] = workers[t] /\ workers[t] \in Nat
        /\ Alive(t)' = workers[t]
    <3>1. workers' = workers /\ workers[t] \in Nat
      BY OfTask DEF Reap, IInv
    <3>2. completions'[t] = <<>>
      BY <1>8
    <3>3. Len(completions'[t]) = 0
      BY <3>2
    <3> QED
      BY <3>1, <3>3 DEF Alive
  <2>2. CASE t \in Reapable
    <3>1. workers[t] = 0
      BY <2>2, Arrived
    <3>2. token'[t] = "none" /\ state'[t] \in {"Failed", "Stale", "Unknown", "Succeeded"}
      BY <1>2, <1>8, <2>2
    <3> QED
      BY <2>1, <3>1, <3>2
  <2>3. CASE t \notin Reapable
    <3>1. Alive(t)' = Alive(t)
      BY <1>8, <2>1, <2>3 DEF Alive
    <3>2. state'[t] = state[t] \/ {state[t], state'[t]} \subseteq {"Queued", "Blocked", "Ready"}
      BY <1>2, <2>3
    <3> QED
      BY <1>8, <2>3, <3>1, <3>2 DEF IInv, Watched
  <2> QED
    BY <2>2, <2>3
<1>11. ASSUME NEW t \in Tasks, Reaped[t] = "Succeeded" PROVE t \in results'
  BY <1>2, <1>11 DEF Reap, IInv, Accepted
<1>12. Accepted'
  BY <1>2, <1>11 DEF Accepted
<1>13. EdgesSucceeded'
  <2> SUFFICES ASSUME NEW e \in relations, state'[e[2]] \in {"Ready", "Running"}
               PROVE  state'[e[1]] = "Succeeded" /\ e[1] \in results'
    BY DEF EdgesSucceeded, Reap
  <2>1. e[1] \in Tasks /\ e[2] \in Tasks /\ e = <<e[1], e[2]>>
    BY DEF IInv, TypeOK, Present
  <2>2. Reaped[e[1]] = "Succeeded"
    <3>1. CASE state[e[2]] \in {"Ready", "Running"}
      BY <1>2, <2>1, <3>1 DEF IInv, EdgesSucceeded
    <3>2. CASE state[e[2]] \notin {"Ready", "Running"}
      <4>1. Reaped[e[2]] \in {"Queued", "Blocked"} /\ Refreshed(Reaped)[e[2]] = "Ready"
        BY <1>1, <1>2, <2>1, <3>2
      <4>2. Satisfied(Reaped, e[2])
        BY <2>1, <4>1, ReapedStates
      <4> QED
        BY <2>1, <4>2 DEF Satisfied, Prerequisites
    <3> QED
      BY <3>1, <3>2
  <2> QED
    BY <1>2, <1>11, <2>1, <2>2
<1>14. Named'
  BY <1>4 DEF Reap, IInv, Named
<1> QED
  BY <1>7, <1>9, <1>10, <1>12, <1>13, <1>14 DEF IInv

\* next_ready and the start of a worker.
LEMMA LaunchKeeps ==
  ASSUME OrchestrationAssumption, IInv, NEW k \in DOMAIN ready, Launch(k)
  PROVE  IInv'
<1> DEFINE t == ready[k].id
<1>1. t \in Tasks /\ state[t] = "Ready"
  BY DEF IInv, Scheduled, Ids
<1>2. token[t] = "none" /\ Alive(t) = 0 /\ workers[t] = 0 /\ Len(completions[t]) = 0
  <2> HIDE DEF t
  <2>1. /\ workers[t] \in Nat /\ Len(completions[t]) \in Nat
        /\ token[t] \in {"none", "live", "cancelled"}
    BY <1>1, OfTask DEF IInv
  <2>2. /\ Alive(t) <= 1 /\ (Alive(t) = 1 <=> token[t] # "none")
        /\ token[t] = "live" <=> state[t] = "Running"
        /\ token[t] = "cancelled" => state[t] = "Unknown"
    BY <1>1 DEF IInv, Watched
  <2> QED
    BY <1>1, <2>1, <2>2 DEF Alive
<1>3. /\ ready' = Taken(k) /\ running' = running \cup {t}
      /\ state' = [state EXCEPT ![t] = "Running"] /\ token' = [token EXCEPT ![t] = "live"]
      /\ workers' = [workers EXCEPT ![t] = @ + 1]
      /\ UNCHANGED <<relations, dependencies, cap, results, completions, phase, submits,
                     history>>
  BY DEF Launch
<1> HIDE DEF t
<1>4. /\ state'[t] = "Running" /\ token'[t] = "live" /\ workers'[t] = 1
      /\ \A u \in Tasks \ {t} : /\ state'[u] = state[u] /\ token'[u] = token[u]
                                /\ workers'[u] = workers[u]
  BY <1>1, <1>2, <1>3 DEF IInv, TypeOK
<1>5. IsQueue(ready') /\ Ids(ready') = Ids(ready) \ {t}
  BY <1>3, TakenIsQueue DEF IInv, Scheduled, t
<1>6. Scheduled'
  BY <1>1, <1>3, <1>4, <1>5 DEF IInv, Scheduled
<1>7. Present' = Present
  BY <1>1, <1>4 DEF Present, Absent
<1>8. TypeOK'
  <2>1. /\ state' \in [Tasks -> NodeState \cup {Absent}]
        /\ token' \in [Tasks -> {"none", "live", "cancelled"}]
        /\ workers' \in [Tasks -> Nat]
    BY <1>1, <1>3 DEF IInv, TypeOK, NodeState
  <2>2. ready' \in Seq([id : Tasks, priority : Nat])
    BY <1>5 DEF IsQueue, Entry
  <2> QED
    BY <1>1, <1>3, <1>7, <2>1, <2>2 DEF IInv, TypeOK
<1>9. Watched'
  BY <1>1, <1>2, <1>3, <1>4 DEF IInv, Watched, Alive
<1>10. Accepted' /\ EdgesSucceeded'
  <2>1. Accepted'
    BY <1>1, <1>3, <1>4 DEF IInv, Accepted
  <2>2. \A e \in relations : e[1] \in Tasks /\ e[2] \in Tasks
    BY DEF IInv, TypeOK, Present
  <2>3. EdgesSucceeded'
    BY <1>1, <1>3, <1>4, <2>2 DEF IInv, EdgesSucceeded
  <2> QED
    BY <2>1, <2>3
<1>11. Named'
  BY <1>3, <1>7 DEF IInv, Named
<1> QED
  BY <1>6, <1>8, <1>9, <1>10, <1>11 DEF IInv

\* A worker that ends only hands its report over.
LEMMA FinishKeeps ==
  ASSUME IInv, NEW t \in Tasks, NEW report \in Reports, Finish(t, report)
  PROVE  IInv'
<1>1. /\ workers[t] \in Nat /\ workers[t] > 0 /\ completions[t] \in Seq(Reports)
      /\ workers' = [workers EXCEPT ![t] = @ - 1]
      /\ completions' = [completions EXCEPT ![t] = Append(@, report)]
      /\ UNCHANGED <<graphVars, slotVars, results, token, phase, submits, history>>
  BY DEF Finish, IInv, TypeOK
<1>2. /\ workers'[t] = workers[t] - 1 /\ completions'[t] = Append(completions[t], report)
      /\ \A u \in Tasks \ {t} : workers'[u] = workers[u] /\ completions'[u] = completions[u]
  BY <1>1 DEF IInv, TypeOK
<1>3. \A u \in Tasks : Alive(u)' = Alive(u)
  <2>1. Alive(t)' = Alive(t)
    <3>1. Len(Append(completions[t], report)) = Len(completions[t]) + 1
      BY <1>1
    <3>2. Len(completions[t]) \in Nat
      BY <1>1
    <3> QED
      BY <1>1, <1>2, <3>1, <3>2 DEF Alive
  <2> QED
    BY <1>2, <2>1 DEF Alive
<1>4. TypeOK'
  <2>1. workers' \in [Tasks -> Nat] /\ completions' \in [Tasks -> Seq(Reports)]
    BY <1>1 DEF IInv, TypeOK
  <2> QED
    BY <1>1, <2>1 DEF IInv, TypeOK, Present
<1>5. Watched'
  BY <1>1, <1>3 DEF IInv, Watched
<1> QED
  BY <1>1, <1>4, <1>5 DEF IInv, Accepted, Scheduled, EdgesSucceeded, Named, Present, Ids,
    IsQueue, Distinct, InOrder

\* Reachable is closed under the edges, holds its root, and stays within every
\* closed set that does.
LEMMA ReachableLeast ==
  ASSUME NEW edges, NEW root \in Tasks
  PROVE  /\ Reachable(edges, root) \subseteq Tasks /\ root \in Reachable(edges, root)
         /\ \A S \in Closed(edges) : root \in S => Reachable(edges, root) \subseteq S
BY DEF Reachable

\* The tasks below a record are records.
LEMMA BelowPresent ==
  ASSUME TypeOK, NEW root \in Present
  PROVE  root \in Descendants(root) /\ Descendants(root) \subseteq Present
<1>1. Present \in Closed(relations)
  BY DEF Closed, Present, TypeOK
<1>2. root \in Tasks
  BY DEF Present
<1> QED
  BY <1>1, <1>2, ReachableLeast DEF Descendants

\* What a cancellation makes of a task that is cancelled.
LEMMA CancelledState ==
  ASSUME IInv, NEW t \in Present
  PROVE  /\ AsRoot(t) = AsDescendant(t)
         /\ AsRoot(t) \in Over
         /\ state[t] \in Over => AsRoot(t) = state[t]
         /\ state[t] \notin Over => AsRoot(t) \in {"Unknown", "Cancelled"}
         /\ token[t] # "none" => AsRoot(t) = "Unknown"
<1>1. t \in Tasks
  BY DEF Present
<1>2. /\ token[t] \in {"none", "live", "cancelled"}
      /\ token[t] = "live" <=> state[t] = "Running"
      /\ token[t] = "cancelled" => state[t] = "Unknown"
  BY <1>1, OfTask DEF IInv, Watched
<1> QED
  BY <1>2 DEF AsRoot, AsDescendant, Over

\* What cancel_tree and cancel_all have in common: the tasks that are told have
\* their outcome, and neither a place in the queue nor a slot.
CancelOf(below) ==
  /\ below \subseteq Present
  /\ state' = [t \in Tasks |-> IF t \in below THEN AsRoot(t) ELSE state[t]]
  /\ token' = [t \in Tasks |->
                 IF t \in below /\ token[t] = "live" THEN "cancelled" ELSE token[t]]
  /\ IsQueue(ready') /\ Ids(ready') = Ids(ready) \ below /\ running' = running \ below
  /\ UNCHANGED <<relations, dependencies, cap, results, workerVars, phase, submits,
                 history>>

\* Such a step keeps the invariant.
LEMMA CancelOfKeeps ==
  ASSUME IInv, NEW below, CancelOf(below)
  PROVE  IInv'
<1>1. ASSUME NEW t \in Tasks
      PROVE  /\ t \in below => /\ state'[t] \in Over
                               /\ state[t] \in Over => state'[t] = state[t]
                               /\ token[t] # "none" => state'[t] = "Unknown"
                               /\ state[t] # Absent
             /\ t \notin below => state'[t] = state[t] /\ token'[t] = token[t]
             /\ token'[t] = "none" <=> token[t] = "none"
             /\ t \in below => token'[t] # "live"
             /\ token'[t] \in {"none", "live", "cancelled"}
  <2>1. t \in below => t \in Present /\ state'[t] = AsRoot(t) /\ state[t] # Absent
    BY DEF CancelOf, Present
  <2>2. token'[t] = IF t \in below /\ token[t] = "live" THEN "cancelled" ELSE token[t]
    BY DEF CancelOf
  <2>3. t \notin below => state'[t] = state[t]
    BY DEF CancelOf
  <2>4. token[t] \in {"none", "live", "cancelled"}
    BY OfTask DEF IInv
  <2> QED
    BY <2>1, <2>2, <2>3, <2>4, CancelledState
<1>2. ASSUME NEW t \in Tasks
      PROVE  state'[t] \in NodeState \cup {Absent} /\ (state'[t] = Absent <=> state[t] = Absent)
  <2>1. state[t] \in NodeState \cup {Absent}
    BY OfTask DEF IInv
  <2> QED
    BY <1>1, <2>1 DEF Over, NodeState, Absent
<1>3. Present' = Present
  BY <1>2 DEF Present
<1>4. TypeOK'
  <2>1. state' \in [Tasks -> NodeState \cup {Absent}]
    BY <1>2 DEF CancelOf
  <2>2. token' \in [Tasks -> {"none", "live", "cancelled"}]
    BY <1>1 DEF CancelOf
  <2>3. ready' \in Seq([id : Tasks, priority : Nat])
    BY DEF CancelOf, IsQueue, Entry
  <2> QED
    BY <1>3, <2>1, <2>2, <2>3 DEF CancelOf, IInv, TypeOK
<1>5. Scheduled'
  <2>1. \A t \in Tasks : state'[t] = "Ready" <=> state[t] = "Ready" /\ t \notin below
    BY <1>1 DEF Over
  <2>2. \A t \in Tasks : state'[t] = "Running" <=> state[t] = "Running" /\ t \notin below
    BY <1>1 DEF Over
  <2> QED
    BY <2>1, <2>2 DEF CancelOf, IInv, Scheduled
<1>6. Watched'
  <2> SUFFICES ASSUME NEW t \in Tasks
               PROVE  /\ Alive(t)' <= 1 /\ (Alive(t)' = 1 <=> token'[t] # "none")
                      /\ token'[t] = "live" <=> state'[t] = "Running"
                      /\ token'[t] = "cancelled" => state'[t] = "Unknown"
    BY DEF Watched
  <2>1. Alive(t)' = Alive(t)
    BY DEF CancelOf, Alive
  <2>2. /\ Alive(t) <= 1 /\ (Alive(t) = 1 <=> token[t] # "none")
        /\ token[t] = "live" <=> state[t] = "Running"
        /\ token[t] = "cancelled" => state[t] = "Unknown"
    BY DEF IInv, Watched
  <2> QED
    BY <1>1, <2>1, <2>2 DEF Over
<1>7. Accepted'
  <2> SUFFICES ASSUME NEW t \in Tasks, state'[t] = "Succeeded"
               PROVE  t \in results
    BY DEF Accepted, CancelOf
  <2>1. CASE t \in below
    <3>1. t \in Present /\ AsRoot(t) = "Succeeded"
      BY <2>1 DEF CancelOf
    <3>2. state[t] = "Succeeded"
      BY <3>1, CancelledState
    <3> QED
      BY <3>2 DEF IInv, Accepted
  <2>2. CASE t \notin below
    BY <1>1, <2>2 DEF IInv, Accepted
  <2> QED
    BY <2>1, <2>2
<1>8. EdgesSucceeded'
  <2> SUFFICES ASSUME NEW e \in relations, state'[e[2]] \in {"Ready", "Running"}
               PROVE  state'[e[1]] = "Succeeded" /\ e[1] \in results
    BY DEF EdgesSucceeded, CancelOf
  <2>1. e[1] \in Tasks /\ e[2] \in Tasks
    BY DEF IInv, TypeOK, Present
  <2>2. state[e[2]] \in {"Ready", "Running"}
    BY <1>1, <2>1 DEF Over
  <2>3. state[e[1]] = "Succeeded" /\ e[1] \in results
    BY <2>2 DEF IInv, EdgesSucceeded
  <2>4. state'[e[1]] = "Succeeded"
    BY <1>1, <2>1, <2>3 DEF Over
  <2> QED
    BY <2>3, <2>4
<1>9. Named'
  BY <1>3 DEF CancelOf, IInv, Named
<1> QED
  BY <1>4, <1>5, <1>6, <1>7, <1>8, <1>9 DEF IInv

\* cancel_tree cancels the task and all below it.
LEMMA CancelChildOf ==
  ASSUME IInv, NEW t \in Tasks, CancelChild(t)
  PROVE  CancelOf(Descendants(t)) /\ t \in Descendants(t)
<1> DEFINE below == Descendants(t)
<1>1. t \in Present /\ t \in below /\ below \subseteq Present
  BY BelowPresent DEF CancelChild, IInv
<1>2. /\ ready' = Without(ready, below) /\ running' = running \ below
      /\ token' = Told(t, below) /\ state' = AfterCancel(t)
      /\ UNCHANGED <<relations, dependencies, cap, results, workerVars, phase, submits,
                     history>>
  BY DEF CancelChild
<1>3. state' = [u \in Tasks |-> IF u \in below THEN AsRoot(u) ELSE state[u]]
  <2>1. state' = [u \in Tasks |-> IF u = t THEN AsRoot(u)
                                 ELSE IF u \in below THEN AsDescendant(u) ELSE state[u]]
    BY <1>2 DEF AfterCancel
  <2>2. \A u \in below : AsDescendant(u) = AsRoot(u)
    BY <1>1, CancelledState
  <2> HIDE DEF below
  <2> QED
    BY <1>1, <2>1, <2>2
<1>4. token' = [u \in Tasks |->
                  IF u \in below /\ token[u] = "live" THEN "cancelled" ELSE token[u]]
  BY <1>2 DEF Told
<1>5. IsQueue(ready') /\ Ids(ready') = Ids(ready) \ below
  <2> HIDE DEF below
  <2> QED
    BY <1>2, WithoutIsQueue DEF IInv, Scheduled
<1> QED
  BY <1>1, <1>2, <1>3, <1>4, <1>5 DEF CancelOf

\* cancel_all cancels every record.
LEMMA CancelAllOf ==
  ASSUME IInv, CancelAll
  PROVE  CancelOf(Present)
<1>1. state' = [t \in Tasks |-> IF t \in Present THEN AsRoot(t) ELSE state[t]]
  <2>1. state' = [t \in Tasks |-> IF t \in Present THEN AsRoot(t) ELSE Absent]
    BY DEF CancelAll
  <2>2. \A t \in Tasks \ Present : state[t] = Absent
    BY DEF Present
  <2> QED
    BY <2>1, <2>2
<1>2. token' = [t \in Tasks |->
                  IF t \in Present /\ token[t] = "live" THEN "cancelled" ELSE token[t]]
  <2>1. token' = [t \in Tasks |-> IF token[t] = "live" THEN "cancelled" ELSE token[t]]
    BY DEF CancelAll
  <2>2. \A t \in Tasks : token[t] = "live" => t \in Present
    BY DEF IInv, Watched, Present, Absent
  <2> QED
    BY <2>1, <2>2
<1>3. Ids(ready) \subseteq Present /\ running \subseteq Present
  BY DEF IInv, Scheduled, Present, Absent
<1>4. ready' = <<>> /\ running' = {}
  BY DEF CancelAll
<1>5. IsQueue(ready') /\ Ids(ready') = {}
  BY <1>4 DEF IsQueue, Distinct, InOrder, Ids
<1> QED
  BY <1>1, <1>2, <1>3, <1>4, <1>5 DEF CancelOf, CancelAll

\* delete_record: neither a worker nor a task that runs loses its record.
LEMMA DeleteKeeps ==
  ASSUME IInv, NEW t \in Tasks, DeleteRecord(t)
  PROVE  IInv'
<1>1. /\ state[t] \in {"Succeeded", "Failed", "Cancelled", "Blocked", "Stale"}
      /\ state' = [state EXCEPT ![t] = Absent]
      /\ relations' = {e \in relations : e[1] # t /\ e[2] # t}
      /\ dependencies' = [dependencies EXCEPT ![t] = {}]
      /\ results' = results \ {t}
      /\ ready' = Without(ready, {t}) /\ running' = running \ {t}
      /\ token' = [token EXCEPT ![t] = "none"]
      /\ UNCHANGED <<cap, workerVars, phase, submits>>
  BY DEF DeleteRecord, CanDelete, Severed
<1>2. /\ state'[t] = Absent /\ token'[t] = "none"
      /\ \A u \in Tasks \ {t} : state'[u] = state[u] /\ token'[u] = token[u]
  BY <1>1 DEF IInv, TypeOK
<1>3. Present' = Present \ {t}
  BY <1>2 DEF Present
<1>4. IsQueue(ready') /\ Ids(ready') = Ids(ready) \ {t}
  BY <1>1, WithoutIsQueue DEF IInv, Scheduled
<1>5. token[t] = "none"
  <2>1. token[t] \in {"none", "live", "cancelled"}
    BY OfTask DEF IInv
  <2> QED
    BY <1>1, <2>1 DEF IInv, Watched
<1>6. TypeOK'
  <2>1. /\ state' \in [Tasks -> NodeState \cup {Absent}]
        /\ token' \in [Tasks -> {"none", "live", "cancelled"}]
        /\ dependencies' \in [Tasks -> SUBSET Tasks]
    BY <1>1 DEF IInv, TypeOK
  <2>2. relations' \subseteq Present' \X Present'
    BY <1>1, <1>3 DEF IInv, TypeOK
  <2>3. ready' \in Seq([id : Tasks, priority : Nat])
    BY <1>4 DEF IsQueue, Entry
  <2>4. retired' \subseteq Tasks \X Tasks /\ abandoned' \subseteq Tasks \X Tasks
    BY DEF DeleteRecord, DependentPairs, IInv, TypeOK, Present
  <2> QED
    BY <1>1, <1>3, <2>1, <2>2, <2>3, <2>4 DEF IInv, TypeOK
<1>7. Scheduled'
  BY <1>1, <1>2, <1>4 DEF IInv, Scheduled, Absent
<1>8. Watched'
  BY <1>1, <1>2, <1>5 DEF IInv, Watched, Alive, Absent
<1>9. Accepted'
  BY <1>1, <1>2 DEF IInv, Accepted, Absent
<1>10. EdgesSucceeded'
  <2> SUFFICES ASSUME NEW e \in relations', state'[e[2]] \in {"Ready", "Running"}
               PROVE  state'[e[1]] = "Succeeded" /\ e[1] \in results'
    BY DEF EdgesSucceeded
  <2>1. e \in relations /\ e[1] # t /\ e[2] # t
    BY <1>1
  <2>2. e[1] \in Tasks /\ e[2] \in Tasks
    BY <2>1 DEF IInv, TypeOK, Present
  <2> QED
    BY <1>1, <1>2, <2>1, <2>2 DEF IInv, EdgesSucceeded
<1>11. /\ \A u : <<t, u>> \in relations => <<t, u>> \in retired' \cup abandoned'
       /\ \A e \in retired \cup abandoned : e[2] # t => e \in retired' \cup abandoned'
  BY DEF DeleteRecord, DependentPairs
<1>12. Named'
  <2> SUFFICES ASSUME NEW u \in Present', NEW d \in dependencies'[u]
               PROVE  <<d, u>> \in relations' \cup retired' \cup abandoned'
    BY DEF Named
  <2>1. u # t /\ d \in dependencies[u] /\ <<d, u>> \in relations \cup retired \cup abandoned
    <3>1. u \in Present /\ u # t
      BY <1>3
    <3>2. dependencies'[u] = dependencies[u]
      BY <1>1, <3>1 DEF IInv, TypeOK, Present
    <3> QED
      BY <3>1, <3>2 DEF IInv, Named
  <2>2. CASE <<d, u>> \in relations /\ d # t
    BY <1>1, <2>1, <2>2
  <2>3. CASE <<d, u>> \in relations /\ d = t
    BY <1>11, <2>3
  <2>4. CASE <<d, u>> \in retired \cup abandoned
    BY <1>11, <2>1, <2>4
  <2> QED
    BY <2>1, <2>2, <2>3, <2>4
<1> QED
  BY <1>6, <1>7, <1>8, <1>9, <1>10, <1>12 DEF IInv

\* The steps that leave the tasks alone.
LEMMA OthersKeep ==
  ASSUME IInv, EndTick \/ (\E c \in Caps : SetGlobalConcurrency(c)) \/ UNCHANGED vars
  PROVE  IInv'
<1>1. /\ cap' \in Caps /\ phase' \in {"idle", "launch"}
      /\ UNCHANGED <<graphVars, ready, running, results, token, workerVars, submits, history>>
  BY DEF IInv, TypeOK, EndTick, SetGlobalConcurrency
<1>2. TypeOK'
  BY <1>1 DEF IInv, TypeOK, Present
<1>3. Watched' /\ Accepted' /\ EdgesSucceeded' /\ Named'
  BY <1>1 DEF IInv, Watched, Alive, Accepted, EdgesSucceeded, Named, Present
<1>4. Scheduled'
  BY <1>1 DEF IInv, Scheduled, IsQueue, Distinct, InOrder, Ids
<1> QED
  BY <1>2, <1>3, <1>4 DEF IInv

\* Every step keeps it.
LEMMA NextKeeps ==
  ASSUME OrchestrationAssumption, IInv, [Next]_vars
  PROVE  IInv'
<1>1. CASE Reap
  BY <1>1, ReapKeeps
<1>2. CASE \E k \in DOMAIN ready : Launch(k)
  BY <1>2, LaunchKeeps
<1>3. CASE \E t \in Tasks : WorkerStep(t)
  BY <1>3, FinishKeeps DEF WorkerStep
<1>4. CASE \E t \in Tasks, deps \in SUBSET Tasks, p \in Priorities : Submit(t, deps, p)
  BY <1>4, SubmitKeeps
<1>5. CASE \E t \in Tasks : CancelChild(t)
  BY <1>5, CancelChildOf, CancelOfKeeps
<1>6. CASE CancelAll
  BY <1>6, CancelAllOf, CancelOfKeeps
<1>7. CASE \E t \in Tasks : DeleteRecord(t)
  BY <1>7, DeleteKeeps
<1>8. CASE EndTick \/ (\E c \in Caps : SetGlobalConcurrency(c)) \/ UNCHANGED vars
  BY <1>8, OthersKeep
<1> HIDE DEF vars
<1> QED
  BY <1>1, <1>2, <1>3, <1>4, <1>5, <1>6, <1>7, <1>8 DEF Next, TickStep

\* The inductive invariant of the runtime: its books agree, its workers are
\* watched, its queue is in order (submit, tick, cancel_tree, delete_record).
THEOREM BooksAgree == Spec => []IInv
<1>1. Init => IInv
  BY OrchestrationAssumption, InitHolds
<1>2. IInv /\ [Next]_vars => IInv'
  BY OrchestrationAssumption, NextKeeps
<1> QED
  BY <1>1, <1>2, PTL DEF Spec

----------------------------------------------------------------------------
(* The properties *)

\* The queue holds every ready task once, the slots are those of what runs:
\* submit, tick, cancel_tree and delete_record change both books alike.
THEOREM BooksMatch == Spec => []SchedulerMatchesGraph
<1>1. IInv => SchedulerMatchesGraph
  BY SizeOfQueue DEF IInv, Scheduled, SchedulerMatchesGraph
<1> QED
  BY <1>1, BooksAgree, PTL

\* Every thread that works and every completion on its way belongs to a record
\* that runs or is unknown, so that tick finds the spec it indexes.
THEOREM WorkersStayKnown == Spec => []WorkersAreKnown
<1>1. IInv => WorkersAreKnown
  <2> SUFFICES ASSUME IInv, NEW t \in Tasks
               PROVE  /\ Alive(t) <= 1
                      /\ Alive(t) = 1 =>
                           \/ t \in running /\ state[t] = "Running"
                           \/ state[t] = "Unknown" /\ token[t] = "cancelled"
    BY DEF WorkersAreKnown, Alive
  <2>1. token[t] \in {"none", "live", "cancelled"}
    BY OfTask DEF IInv
  <2>2. /\ Alive(t) <= 1 /\ (Alive(t) = 1 <=> token[t] # "none")
        /\ token[t] = "live" <=> state[t] = "Running"
        /\ token[t] = "cancelled" => state[t] = "Unknown"
    BY DEF IInv, Watched
  <2> QED
    BY <2>1, <2>2 DEF IInv, Scheduled
<1> QED
  BY <1>1, BooksAgree, PTL

\* Of what the spec of a ready or running task names, each one has succeeded with a
\* result, or had when its record was deleted, but for a prerequisite whose record
\* the user deleted before it had succeeded: that one holds nothing back any more
\* (submit, TaskGraph::refresh, cancel_tree, delete_record).
THEOREM PrerequisitesComeFirst == Spec => []PrerequisitesSucceeded
<1>1. IInv => PrerequisitesSucceeded
  <2> SUFFICES ASSUME IInv, NEW t \in Tasks, state[t] \in {"Ready", "Running"},
                      NEW d \in dependencies[t]
               PROVE  \/ <<d, t>> \in relations /\ state[d] = "Succeeded" /\ d \in results
                      \/ <<d, t>> \in retired
                      \/ <<d, t>> \in abandoned
    BY DEF PrerequisitesSucceeded
  <2>1. t \in Present
    BY DEF Present, Absent
  <2>2. <<d, t>> \in relations \cup retired \cup abandoned
    BY <2>1 DEF IInv, Named
  <2>3. <<d, t>> \in relations => state[d] = "Succeeded" /\ d \in results
    BY DEF IInv, EdgesSucceeded
  <2> QED
    BY <2>2, <2>3
<1> QED
  BY <1>1, BooksAgree, PTL

\* Where both name the same prerequisites, the tree and the graph have the same
\* tasks below a record.
LEMMA SameTree ==
  ASSUME TypeOK, NEW root \in Present,
         \A t \in Present : dependencies[t] \cap Present = Prerequisites(t)
  PROVE  TreeDescendants(root) = Descendants(root)
<1> DEFINE tree == {e \in Tasks \X Present : e[1] \in dependencies[e[2]]}
<1>1. root \in Tasks /\ Present \subseteq Tasks
  BY DEF Present
<1>2. \A e \in relations : e[1] \in Present /\ e[2] \in Present /\ e = <<e[1], e[2]>>
  BY DEF TypeOK
<1>3. relations \subseteq tree
  <2> SUFFICES ASSUME NEW e \in relations
               PROVE  e \in Tasks \X Present /\ e[1] \in dependencies[e[2]]
    OBVIOUS
  <2>1. e[1] \in Prerequisites(e[2])
    BY <1>1, <1>2 DEF Prerequisites
  <2> QED
    BY <1>1, <1>2, <2>1
<1>4. \A e \in tree : e[1] \in Present => e \in relations
  <2> SUFFICES ASSUME NEW e \in tree, e[1] \in Present
               PROVE  e \in relations
    OBVIOUS
  <2>1. e[2] \in Present /\ e[1] \in dependencies[e[2]] /\ e = <<e[1], e[2]>>
    OBVIOUS
  <2>2. e[1] \in Prerequisites(e[2])
    BY <2>1
  <2> QED
    BY <2>1, <2>2 DEF Prerequisites
<1>5. Descendants(root) \subseteq TreeDescendants(root)
  <2>1. Reachable(tree, root) \in Closed(relations)
    <3>1. Reachable(tree, root) \subseteq Tasks
      BY <1>1, ReachableLeast
    <3>2. ASSUME NEW e \in relations, e[1] \in Reachable(tree, root)
          PROVE  e[2] \in Reachable(tree, root)
      <4>1. e[2] \in Tasks
        BY <1>1, <1>2
      <4>2. e \in tree
        BY <1>3
      <4>3. \A S \in Closed(tree) : root \in S => e[1] \in S
        <5> HIDE DEF tree
        <5> QED
          BY <3>2 DEF Reachable
      <4>4. \A S \in Closed(tree) : root \in S => e[2] \in S
        <5> HIDE DEF tree
        <5> QED
          BY <4>2, <4>3 DEF Closed
      <4> HIDE DEF tree
      <4> QED
        BY <4>1, <4>4 DEF Reachable
    <3> HIDE DEF tree
    <3> QED
      BY <3>1, <3>2 DEF Closed
  <2>2. root \in Reachable(tree, root)
    BY <1>1, ReachableLeast
  <2>3. Reachable(relations, root) \subseteq Reachable(tree, root)
    <3> HIDE DEF tree
    <3> QED
      BY <1>1, <2>1, <2>2, ReachableLeast
  <2> QED
    BY <2>3 DEF Descendants, TreeDescendants
<1>6. TreeDescendants(root) \subseteq Descendants(root)
  <2> DEFINE below == Reachable(relations, root)
  <2>1. below \subseteq Present /\ root \in below
    BY BelowPresent DEF Descendants
  <2>2. ASSUME NEW e \in relations, e[1] \in below
        PROVE  e[2] \in below
    <3>1. e[2] \in Tasks
      BY <1>1, <1>2
    <3>2. \A S \in Closed(relations) : root \in S => e[1] \in S
      BY <2>2 DEF Reachable
    <3>3. \A S \in Closed(relations) : root \in S => e[2] \in S
      BY <3>2 DEF Closed
    <3> QED
      BY <3>1, <3>3 DEF Reachable
  <2>3. below \in Closed(tree)
    <3>1. ASSUME NEW e \in tree, e[1] \in below
          PROVE  e[2] \in below
      BY <1>4, <2>1, <2>2, <3>1
    <3> HIDE DEF tree, below
    <3> QED
      BY <1>1, <2>1, <3>1 DEF Closed
  <2>4. Reachable(tree, root) \subseteq below
    <3> HIDE DEF tree, below
    <3> QED
      BY <1>1, <2>1, <2>3, ReachableLeast
  <2> QED
    BY <2>4 DEF Descendants, TreeDescendants
<1> QED
  BY <1>5, <1>6

\* cancel_child in the task tree and cancel_tree in the graph lead to the same
\* states, wherever both know the same relations.
THEOREM CancelsAgree == Spec => []CancelAgrees
<1>1. IInv => CancelAgrees
  <2> SUFFICES ASSUME IInv, NEW root \in Present,
                      \A t \in Present : dependencies[t] \cap Present = Prerequisites(t)
               PROVE  TreeAfterCancel(root) = AfterCancel(root)
    BY DEF CancelAgrees
  <2> DEFINE below == Descendants(root)
  <2>1. TreeDescendants(root) = below
    BY SameTree DEF IInv
  <2>2. root \in below /\ below \subseteq Present
    BY BelowPresent DEF IInv
  <2>3. \A t \in below : AsRoot(t) = AsDescendant(t)
    BY <2>2, CancelledState
  <2>4. TreeAfterCancel(root) =
          [t \in Tasks |-> IF t \notin below \/ state[t] \in Over THEN state[t]
                          ELSE IF state[t] = "Running" THEN "Unknown" ELSE "Cancelled"]
    BY <2>1 DEF TreeAfterCancel
  <2>5. AfterCancel(root) = [t \in Tasks |-> IF t = root THEN AsRoot(t)
                              ELSE IF t \in below THEN AsDescendant(t) ELSE state[t]]
    BY DEF AfterCancel
  <2>6. \A t \in below : AsDescendant(t) =
          IF state[t] = "Running" THEN "Unknown"
          ELSE IF state[t] \in Over THEN state[t] ELSE "Cancelled"
    BY DEF AsDescendant
  <2>7. "Running" \notin Over
    BY DEF Over
  <2> HIDE DEF below
  <2> QED
    BY <2>2, <2>3, <2>4, <2>5, <2>6, <2>7
<1> QED
  BY <1>1, BooksAgree, PTL

\* What may become of one task in a step.
Keeps(t) ==
  /\ state[t] \in {"Succeeded", "Failed", "Cancelled"} => state'[t] \in {state[t], Absent}
  /\ state[t] = "Unknown" => state'[t] = "Unknown" \/ completions[t] # <<>>
  /\ state[t] = "Stale" => state'[t] \in {"Stale", "Cancelled", Absent}

\* A cancellation takes no outcome back.
LEMMA CancelOfFinal ==
  ASSUME IInv, NEW below, CancelOf(below), NEW t \in Tasks
  PROVE  Keeps(t)
<1>1. CASE t \in below
  <2>1. t \in Present /\ state'[t] = AsRoot(t)
    BY <1>1 DEF CancelOf
  <2>2. CASE state[t] \in Over
    BY <2>1, <2>2, CancelledState DEF Keeps, Over
  <2>3. CASE state[t] = "Stale"
    <3>1. token[t] = "none"
      BY <2>3, OfTask DEF IInv, Watched
    <3>2. AsRoot(t) = "Cancelled"
      BY <2>3, <3>1 DEF AsRoot, Over
    <3> QED
      BY <2>1, <2>3, <3>2 DEF Keeps
  <2>4. CASE state[t] \notin Over \cup {"Stale"}
    BY <2>4 DEF Keeps, Over
  <2> QED
    BY <2>2, <2>3, <2>4
<1>2. CASE t \notin below
  BY <1>2 DEF CancelOf, Keeps
<1> QED
  BY <1>1, <1>2

\* No late completion, cancel or refresh overwrites an outcome (tick, cancel_tree,
\* delete_record).
THEOREM OutcomesStay == Spec => OutcomesAreFinal
<1>1. ASSUME IInv, [Next]_vars, NEW t \in Tasks
      PROVE  Keeps(t)
  <2>1. CASE Reap
    <3>1. state' = Refreshed(Reaped)
      BY <2>1 DEF Reap
    <3>2. CASE t \in Reapable
      BY <1>1, <3>2, Arrived DEF Keeps, Reapable
    <3>3. CASE t \notin Reapable
      BY <1>1, <3>1, <3>3, ReapedStates DEF Keeps
    <3> QED
      BY <3>2, <3>3
  <2>2. CASE \E k \in DOMAIN ready : Launch(k)
    <3>1. PICK k \in DOMAIN ready : Launch(k)
      BY <2>2
    <3>2. state[ready[k].id] = "Ready" /\ state' = [state EXCEPT ![ready[k].id] = "Running"]
      BY <1>1, <3>1 DEF Launch, IInv, Scheduled, Ids
    <3> QED
      BY <1>1, <3>2 DEF Keeps, IInv, TypeOK
  <2>3. CASE \E d \in Tasks, deps \in SUBSET Tasks, p \in Priorities : Submit(d, deps, p)
    <3>1. PICK d \in Tasks : state[d] = Absent /\ \A u \in Tasks \ {d} : state'[u] = state[u]
      BY <1>1, <2>3 DEF Submit, IInv, TypeOK
    <3> QED
      BY <3>1 DEF Keeps, Absent
  <2>4. CASE \E root \in Tasks : CancelChild(root)
    BY <1>1, <2>4, CancelChildOf, CancelOfFinal
  <2>5. CASE CancelAll
    BY <1>1, <2>5, CancelAllOf, CancelOfFinal
  <2>6. CASE \E d \in Tasks : DeleteRecord(d)
    <3>1. PICK d \in Tasks : CanDelete(d) /\ state' = [state EXCEPT ![d] = Absent]
      BY <2>6 DEF DeleteRecord
    <3> QED
      BY <1>1, <3>1 DEF Keeps, IInv, TypeOK, CanDelete
  <2>7. CASE UNCHANGED state
    BY <2>7 DEF Keeps
  <2>8. \/ UNCHANGED state \/ Reap \/ CancelAll
        \/ \E k \in DOMAIN ready : Launch(k)
        \/ \E d \in Tasks, deps \in SUBSET Tasks, p \in Priorities : Submit(d, deps, p)
        \/ \E root \in Tasks : CancelChild(root)
        \/ \E d \in Tasks : DeleteRecord(d)
    BY <1>1 DEF Next, TickStep, WorkerStep, Finish, EndTick, SetGlobalConcurrency
  <2> QED
    BY <2>1, <2>2, <2>3, <2>4, <2>5, <2>6, <2>7, <2>8
<1>2. IInv /\ [Next]_vars => [\A t \in Tasks : Keeps(t)]_vars
  BY <1>1
<1> QED
  BY <1>2, BooksAgree, PTL DEF Spec, OutcomesAreFinal, Keeps

\* The tasks of S that use x.
Users(S, of, x) == {r \in S : of[r] = x}

\* SlotLimits, but for the global one: set_global_concurrency may lower that one
\* below the number of tasks that run.
LimitsKept ==
  /\ \A p : Cardinality(Users(running, Provider, p)) <= PerProvider
  /\ \A w : Cardinality(Users(running, Workspace, w)) <= PerWorkspace
  /\ \A e : Cardinality(Users(running, Environment, e)) <= PerEnvironment

\* A slot taken by one task counts once, for what that task uses.
LEMMA OneMoreSlot ==
  ASSUME NEW of, NEW limit \in Nat, NEW S, IsFiniteSet(S), NEW t, NEW x,
         Cardinality(Users(S, of, x)) <= limit,
         Cardinality(Users(S, of, of[t])) < limit
  PROVE  Cardinality(Users(S \cup {t}, of, x)) <= limit
<1> DEFINE old == {r \in S : of[r] = x}
<1>1. IsFiniteSet(old)
  <2>1. old \in SUBSET S
    OBVIOUS
  <2> HIDE DEF old
  <2> QED
    BY <2>1, FS_Subset
<1>2. CASE of[t] = x
  <2>1. Users(S \cup {t}, of, x) = old \cup {t} /\ Users(S, of, of[t]) = old
    BY <1>2 DEF Users
  <2>2. Cardinality(old) \in Nat /\ Cardinality(old) < limit
    <3>1. Cardinality(old) \in Nat
      BY <1>1, FS_CardinalityType
    <3> QED
      BY <2>1, <3>1
  <2> HIDE DEF old
  <2>3. Cardinality(old \cup {t}) = IF t \in old THEN Cardinality(old) ELSE Cardinality(old) + 1
    BY <1>1, FS_AddElement
  <2>4. Cardinality(old \cup {t}) <= Cardinality(old) + 1
    BY <2>2, <2>3
  <2>5. Cardinality(old \cup {t}) \in Nat
    BY <2>2, <2>3
  <2>6. Cardinality(old \cup {t}) <= limit
    BY <2>2, <2>4, <2>5
  <2> QED
    BY <2>1, <2>6
<1>3. CASE of[t] # x
  <2>1. Users(S \cup {t}, of, x) = old /\ Users(S, of, x) = old
    BY <1>3 DEF Users
  <2> QED
    BY <2>1
<1> QED
  BY <1>2, <1>3

\* Fewer tasks take no more slots.
LEMMA FewerSlots ==
  ASSUME NEW of, NEW limit \in Nat, NEW S, IsFiniteSet(S), NEW T, T \subseteq S, NEW x,
         Cardinality(Users(S, of, x)) <= limit
  PROVE  Cardinality(Users(T, of, x)) <= limit
<1> DEFINE old == {r \in S : of[r] = x}
<1> DEFINE rest == {r \in T : of[r] = x}
<1>1. old \in SUBSET S /\ rest \in SUBSET old
  OBVIOUS
<1> HIDE DEF old, rest
<1>2. IsFiniteSet(old)
  BY <1>1, FS_Subset
<1>3. IsFiniteSet(rest) /\ Cardinality(rest) <= Cardinality(old)
  BY <1>1, <1>2, FS_Subset
<1>4. Cardinality(rest) \in Nat /\ Cardinality(old) \in Nat /\ Cardinality(old) <= limit
  <2>1. Cardinality(rest) \in Nat /\ Cardinality(old) \in Nat
    BY <1>2, <1>3, FS_CardinalityType
  <2> QED
    BY <2>1 DEF old, Users
<1>5. Cardinality(rest) <= limit
  BY <1>3, <1>4
<1> QED
  BY <1>5 DEF rest, Users

\* Whatever is submitted, cancelled and deleted, no provider, workspace or
\* environment has more tasks in its slots than Scheduler::reason allows.
THEOREM LimitsAreKept == Spec => []LimitsKept
<1>1. Init => LimitsKept
  <2> SUFFICES ASSUME Init PROVE LimitsKept
    OBVIOUS
  <2>1. running = {} /\ Cardinality({}) = 0
    BY FS_EmptySet DEF Init
  <2>2. \A S \in SUBSET running : Cardinality(S) = 0
    BY <2>1
  <2>3. PerProvider \in Nat /\ PerWorkspace \in Nat /\ PerEnvironment \in Nat
    BY OrchestrationAssumption DEF OrchestrationAssumption
  <2>4. \A of, x : Users(running, of, x) \in SUBSET running
    BY DEF Users
  <2> QED
    BY <2>2, <2>3, <2>4 DEF LimitsKept
<1>2. ASSUME IInv, LimitsKept, [Next]_vars
      PROVE  LimitsKept'
  <2>1. /\ PerProvider \in Nat /\ PerWorkspace \in Nat /\ PerEnvironment \in Nat
        /\ Tasks \subseteq Nat /\ IsFiniteSet(Tasks)
    BY OrchestrationAssumption DEF OrchestrationAssumption
  <2>2. IsFiniteSet(running)
    BY <1>2, <2>1, FS_Subset DEF IInv, TypeOK
  <2>3. CASE \E k \in DOMAIN ready : Launch(k)
    <3>1. PICK k \in DOMAIN ready : Launch(k)
      BY <2>3
    <3> DEFINE t == ready[k].id
    <3>2. /\ running' = running \cup {t}
          /\ Cardinality(Users(running, Provider, Provider[t])) < PerProvider
          /\ Cardinality(Users(running, Workspace, Workspace[t])) < PerWorkspace
          /\ Cardinality(Users(running, Environment, Environment[t])) < PerEnvironment
      BY <3>1 DEF Launch, HasSlot, Users
    <3> HIDE DEF t
    <3>3. ASSUME NEW p
          PROVE  Cardinality(Users(running \cup {t}, Provider, p)) <= PerProvider
      BY <1>2, <2>1, <2>2, <3>2, OneMoreSlot DEF LimitsKept
    <3>4. ASSUME NEW w
          PROVE  Cardinality(Users(running \cup {t}, Workspace, w)) <= PerWorkspace
      BY <1>2, <2>1, <2>2, <3>2, OneMoreSlot DEF LimitsKept
    <3>5. ASSUME NEW e
          PROVE  Cardinality(Users(running \cup {t}, Environment, e)) <= PerEnvironment
      BY <1>2, <2>1, <2>2, <3>2, OneMoreSlot DEF LimitsKept
    <3> QED
      BY <3>2, <3>3, <3>4, <3>5 DEF LimitsKept
  <2>4. CASE running' \subseteq running
    <3>1. ASSUME NEW p
          PROVE  Cardinality(Users(running', Provider, p)) <= PerProvider
      BY <1>2, <2>1, <2>2, <2>4, FewerSlots DEF LimitsKept
    <3>2. ASSUME NEW w
          PROVE  Cardinality(Users(running', Workspace, w)) <= PerWorkspace
      BY <1>2, <2>1, <2>2, <2>4, FewerSlots DEF LimitsKept
    <3>3. ASSUME NEW e
          PROVE  Cardinality(Users(running', Environment, e)) <= PerEnvironment
      BY <1>2, <2>1, <2>2, <2>4, FewerSlots DEF LimitsKept
    <3> QED
      BY <3>1, <3>2, <3>3 DEF LimitsKept
  <2>5. running' \subseteq running \/ \E k \in DOMAIN ready : Launch(k)
    BY <1>2 DEF Next, TickStep, WorkerStep, Reap, Freed, EndTick, Finish, Submit,
      CancelChild, CancelAll, DeleteRecord, SetGlobalConcurrency
  <2> QED
    BY <2>3, <2>4, <2>5
<1>3. IInv /\ LimitsKept /\ [Next]_vars => LimitsKept'
  BY <1>2
<1> QED
  BY <1>1, <1>3, BooksAgree, PTL DEF Spec

============================================================================
