------------------------ MODULE UserPrioritiesProofs ------------------------
(***************************************************************************)
(* The safety of UserPriorities for any number of users and any length of  *)
(* the window: what the queue of java.util does to its array, what a pick  *)
(* makes of the queue, and the invariant of the policy.                    *)
(***************************************************************************)
EXTENDS UserPriorities, RecursiveFunctions, FiniteSetTheorems, SequenceTheorems

Arrays == Seq(Users)
Counts == [Users -> Int]

Distinct(h) == \A i, j \in 1 .. Len(h) : h[i] = h[j] => i = j

Ordered(n, h) == \A i \in 2 .. Len(h) : n[h[i \div 2]] <= n[h[i]]

(* In order but for the place i and its parent ...                         *)
OrderedBelow(n, h, i) ==
    \A j \in 2 .. Len(h) :
       /\ j # i => n[h[j \div 2]] <= n[h[j]]
       /\ j \div 2 = i /\ i > 1 => n[h[i \div 2]] <= n[h[j]]

(* ... but for the place i and its children.                               *)
OrderedAbove(n, h, i) ==
    \A j \in 2 .. Len(h) :
       /\ j \div 2 # i => n[h[j \div 2]] <= n[h[j]]
       /\ j \div 2 = i /\ i > 1 => n[h[i \div 2]] <= n[h[j]]

Rearranged(q) ==
    {h \in Arrays : /\ Len(h) = Len(q) /\ ToSet(h) = ToSet(q)
                    /\ Distinct(q) => Distinct(h)}

-----------------------------------------------------------------------------
(* The array of the queue.                                                 *)

LEMMA ArraySet ==
    ASSUME NEW h \in Arrays
    PROVE  ToSet(h) = {h[i] : i \in 1 .. Len(h)} /\ ToSet(h) \subseteq Users
BY DEF Arrays, ToSet

LEMMA SwapKeeps ==
    ASSUME NEW h \in Arrays, NEW i \in 1 .. Len(h), NEW j \in 1 .. Len(h)
    PROVE  /\ Swap(h, i, j) \in Arrays /\ Len(Swap(h, i, j)) = Len(h)
           /\ \A k \in 1 .. Len(h) :
                 Swap(h, i, j)[k] = IF k = j THEN h[i] ELSE IF k = i THEN h[j] ELSE h[k]
BY DEF Swap, Arrays

LEMMA SwapRearranges ==
    ASSUME NEW q \in Arrays, NEW h \in Rearranged(q),
           NEW i \in 1 .. Len(h), NEW j \in 1 .. Len(h)
    PROVE  Swap(h, i, j) \in Rearranged(q)
<1> DEFINE g == Swap(h, i, j)
<1>1. h \in Arrays
  BY DEF Rearranged
<1>2. /\ g \in Arrays /\ Len(g) = Len(h)
      /\ \A k \in 1 .. Len(h) : g[k] = IF k = j THEN h[i] ELSE IF k = i THEN h[j] ELSE h[k]
  BY <1>1, SwapKeeps
<1> HIDE DEF g
<1>3. ToSet(g) = ToSet(h)
  <2>1. \A k \in 1 .. Len(h) : \E l \in 1 .. Len(h) : h[k] = g[l]
    <3> SUFFICES ASSUME NEW k \in 1 .. Len(h)
                 PROVE  \E l \in 1 .. Len(h) : h[k] = g[l]
      OBVIOUS
    <3>1. CASE k = i
      BY <1>2, <3>1
    <3>2. CASE k = j
      BY <1>2, <3>2
    <3>3. CASE k # i /\ k # j
      BY <1>2, <3>3
    <3> QED
      BY <3>1, <3>2, <3>3
  <2>2. \A k \in 1 .. Len(h) : \E l \in 1 .. Len(h) : g[k] = h[l]
    BY <1>2
  <2>3. /\ ToSet(g) = {g[k] : k \in 1 .. Len(h)}
        /\ ToSet(h) = {h[k] : k \in 1 .. Len(h)}
    BY <1>1, <1>2, ArraySet
  <2>4. ToSet(h) \subseteq ToSet(g)
    BY <2>1, <2>3, Zenon
  <2>5. ToSet(g) \subseteq ToSet(h)
    BY <2>2, <2>3, Zenon
  <2> QED
    BY <2>4, <2>5
<1>4. Distinct(h) => Distinct(g)
  BY <1>2 DEF Distinct
<1> QED
  BY <1>2, <1>3, <1>4 DEF Rearranged, g

LEMMA SiftingTyped ==
    ASSUME NEW q \in Arrays, NEW s \in Sifting(q), NEW i \in 1 .. Len(q)
    PROVE  /\ s.heap \in Arrays /\ Len(s.heap) = Len(q) /\ s.at \in 1 .. Len(q)
           /\ Moved(s, i) \in Sifting(q)
<1>1. DOMAIN q = 1 .. Len(q) /\ Len(q) \in Nat
  BY DEF Arrays
<1>2. s.heap \in [1 .. Len(q) -> Users] /\ s.at \in 1 .. Len(q)
  BY <1>1 DEF Sifting
<1>3. s.heap \in Arrays /\ Len(s.heap) = Len(q)
  BY <1>1, <1>2 DEF Arrays
<1>4. Swap(s.heap, s.at, i) \in [1 .. Len(q) -> Users]
  BY <1>2 DEF Swap
<1> QED
  BY <1>1, <1>2, <1>3, <1>4 DEF Sifting, Moved

-----------------------------------------------------------------------------
(* Sifting up.                                                             *)

LEMMA SiftUpEnds ==
    ASSUME NEW n, NEW q \in Arrays, NEW k \in 1 .. Len(q), NEW I \in SUBSET Sifting(q),
           [heap |-> q, at |-> k] \in I, NEW Post,
           \A s \in I : IF s.at = 1 \/ n[s.heap[s.at \div 2]] <= n[s.heap[s.at]]
                          THEN s.heap \in Post
                          ELSE Moved(s, s.at \div 2) \in I
    PROVE  SiftUp(n, q, k) \in Post
<1> DEFINE D == Sifting(q)
           Base == {s \in D : s.at = 1 \/ n[s.heap[s.at \div 2]] <= n[s.heap[s.at]]}
           result == [s \in D |-> s.heap]
           next == [s \in D |-> Moved(s, s.at \div 2)]
           rank == [s \in D |-> s.at]
           F(f) == [s \in D |->
                      IF s.at = 1 \/ n[s.heap[s.at \div 2]] <= n[s.heap[s.at]] THEN s.heap
                      ELSE f[Moved(s, s.at \div 2)]]
           start == [heap |-> q, at |-> k]
<1>1. ASSUME NEW s \in D
      PROVE  /\ s.at \in Nat
             /\ s.at # 1 => Moved(s, s.at \div 2) \in D /\ s.at \div 2 < s.at
  <2>1. s.at \in 1 .. Len(q) /\ Len(q) \in Nat
    BY SiftingTyped DEF Arrays
  <2>2. s.at # 1 => s.at \div 2 \in 1 .. Len(q) /\ s.at \div 2 < s.at
    BY <2>1
  <2> QED
    BY <2>1, <2>2, SiftingTyped
<1>2. Loop(D, Base, next, rank)
  <2>1. rank \in [D -> Nat]
    BY <1>1
  <2>2. ASSUME NEW s \in D, s \notin Base
        PROVE  next[s] \in D /\ rank[next[s]] < rank[s]
    <3>1. s.at # 1
      BY <2>2
    <3>2. next[s] \in D /\ rank[next[s]] = s.at \div 2
      BY <1>1, <3>1 DEF Moved
    <3> QED
      BY <1>1, <3>1, <3>2
  <2> QED
    BY <2>1, <2>2 DEF Loop
<1>3. \A f : f = F(f) <=> LoopFunction(D, Base, result, next, f)
  BY DEF LoopFunction, Step
<1>4. Keeps(D, Base, result, next, I, Post)
  BY DEF Keeps
<1>5. SiftUp(n, q, k) = (CHOOSE f : f = F(f))[start]
  BY Zenon DEF SiftUp
<1> HIDE DEF F, D, Base, result, next, rank
<1>6. (CHOOSE f : f = F(f)) = TheLoop(D, Base, result, next)
  BY <1>3, Zenon DEF TheLoop
<1>7. start \in I => TheLoop(D, Base, result, next)[start] \in Post
  <2> HIDE DEF start
  <2> QED
    BY <1>2, <1>4, LoopEnds
<1> QED
  BY <1>5, <1>6, <1>7

LEMMA OrderedBelowSwap ==
    ASSUME NEW n \in Counts, NEW h \in Arrays, NEW i \in 2 .. Len(h),
           OrderedBelow(n, h, i), ~ (n[h[i \div 2]] <= n[h[i]])
    PROVE  OrderedBelow(n, Swap(h, i, i \div 2), i \div 2)
<1> DEFINE a == i \div 2
           g == Swap(h, i, a)
           v(j) == n[h[j]]
<1>1. a \in 1 .. Len(h) /\ i \in 1 .. Len(h) /\ a < i /\ Len(h) \in Nat
  BY DEF Arrays
<1>2. /\ Len(g) = Len(h)
      /\ \A k \in 1 .. Len(h) : g[k] = IF k = a THEN h[i] ELSE IF k = i THEN h[a] ELSE h[k]
  <2> HIDE DEF a
  <2> QED
    BY <1>1, SwapKeeps, Zenon
<1>3. \A k \in 1 .. Len(h) : v(k) \in Int
  BY DEF Counts, Arrays
<1>4. v(i) < v(a)
  BY <1>1, <1>3
<1>5. \A j \in 2 .. Len(h) : j \div 2 \in 1 .. Len(h) /\ j \in 1 .. Len(h) /\ j \div 2 < j
  BY <1>1
<1>6. \A j \in 2 .. Len(h) : /\ j # i => v(j \div 2) <= v(j)
                             /\ j \div 2 = i => v(a) <= v(j)
  BY <1>1 DEF OrderedBelow
<1>7. \A k \in 1 .. Len(h) : n[g[k]] = IF k = a THEN v(i) ELSE IF k = i THEN v(a) ELSE v(k)
  BY <1>2
<1> HIDE DEF a, g, v
<1>8. ASSUME NEW j \in 2 .. Len(h), j # a
      PROVE  n[g[j \div 2]] <= n[g[j]]
  <2>1. CASE j = i
    <3>1. j \div 2 = a
      BY <2>1 DEF a
    <3>2. n[g[a]] = v(i) /\ n[g[i]] = v(a)
      BY <1>1, <1>7
    <3> QED
      BY <1>1, <1>3, <1>4, <2>1, <3>1, <3>2
  <2>2. CASE j # i /\ j \div 2 = i
    BY <1>1, <1>3, <1>5, <1>6, <1>7, <1>8, <2>2
  <2>3. CASE j # i /\ j \div 2 = a
    BY <1>1, <1>3, <1>4, <1>5, <1>6, <1>7, <1>8, <2>3
  <2>4. CASE j # i /\ j \div 2 # a /\ j \div 2 # i
    BY <1>5, <1>6, <1>7, <1>8, <2>4
  <2> QED
    BY <2>1, <2>2, <2>3, <2>4
<1>9. ASSUME NEW j \in 2 .. Len(h), j \div 2 = a, a > 1
      PROVE  n[g[a \div 2]] <= n[g[j]]
  <2>1. a \in 2 .. Len(h) /\ a # i
    BY <1>1, <1>9
  <2>2. v(a \div 2) <= v(a) /\ a \div 2 \in 1 .. Len(h) /\ a \div 2 < a
    BY <1>5, <1>6, <2>1
  <2>3. n[g[a \div 2]] = v(a \div 2)
    BY <1>1, <1>7, <2>2
  <2>4. v(a) <= n[g[j]]
    BY <1>1, <1>3, <1>5, <1>6, <1>7, <1>9
  <2>5. n[g[j]] \in Int
    BY <1>1, <1>3, <1>5, <1>7
  <2> QED
    BY <1>1, <1>3, <2>2, <2>3, <2>4, <2>5
<1> QED
  BY <1>2, <1>8, <1>9 DEF OrderedBelow, a, g

(* Sifting up rearranges, and repairs the one place that was out of order. *)
LEMMA SiftUpSound ==
    ASSUME NEW n \in Counts, NEW q \in Arrays, NEW k \in 1 .. Len(q)
    PROVE  /\ SiftUp(n, q, k) \in Rearranged(q)
           /\ OrderedBelow(n, q, k) => Ordered(n, SiftUp(n, q, k))
<1> DEFINE Was == OrderedBelow(n, q, k)
           I == {s \in Sifting(q) : /\ s.heap \in Rearranged(q)
                                    /\ Was => OrderedBelow(n, s.heap, s.at)}
           Post == {h \in Rearranged(q) : Was => Ordered(n, h)}
<1>1. [heap |-> q, at |-> k] \in I
  BY DEF Sifting, Rearranged, Arrays
<1>2. ASSUME NEW s \in I
      PROVE  IF s.at = 1 \/ n[s.heap[s.at \div 2]] <= n[s.heap[s.at]]
               THEN s.heap \in Post
               ELSE Moved(s, s.at \div 2) \in I
  <2>1. /\ s.heap \in Arrays /\ Len(s.heap) = Len(q) /\ s.at \in 1 .. Len(q)
        /\ Len(q) \in Nat
    BY SiftingTyped DEF Arrays
  <2>2. CASE s.at = 1 \/ n[s.heap[s.at \div 2]] <= n[s.heap[s.at]]
    <3>1. Was => Ordered(n, s.heap)
      BY <2>1, <2>2 DEF OrderedBelow, Ordered
    <3> QED
      BY <2>2, <3>1
  <2>3. CASE ~ (s.at = 1 \/ n[s.heap[s.at \div 2]] <= n[s.heap[s.at]])
    <3>1. s.at \in 2 .. Len(q) /\ s.at \div 2 \in 1 .. Len(q)
      BY <2>1, <2>3
    <3>2. Moved(s, s.at \div 2) \in Sifting(q)
      BY <3>1, SiftingTyped
    <3>3. Swap(s.heap, s.at, s.at \div 2) \in Rearranged(q)
      BY <2>1, <3>1, SwapRearranges
    <3>4. Was => OrderedBelow(n, Swap(s.heap, s.at, s.at \div 2), s.at \div 2)
      BY <2>1, <2>3, <3>1, OrderedBelowSwap
    <3> QED
      BY <2>3, <3>2, <3>3, <3>4 DEF Moved
  <2> QED
    BY <2>2, <2>3
<1> HIDE DEF I, Post
<1>3. I \in SUBSET Sifting(q)
  BY DEF I
<1>4. SiftUp(n, q, k) \in Post
  BY <1>1, <1>2, <1>3, SiftUpEnds
<1> QED
  BY <1>4 DEF Post

-----------------------------------------------------------------------------
(* Sifting down.                                                           *)

LEMMA ChildIsLeast ==
    ASSUME NEW n \in Counts, NEW h \in Arrays, NEW i \in 1 .. Len(h), 2 * i <= Len(h)
    PROVE  /\ Child(n, h, i) \in 2 .. Len(h) /\ Child(n, h, i) \div 2 = i
           /\ Child(n, h, i) > i
           /\ \A j \in 2 .. Len(h) : j \div 2 = i => n[h[Child(n, h, i)]] <= n[h[j]]
<1>1. Len(h) \in Nat /\ \A j \in 1 .. Len(h) : n[h[j]] \in Int
  BY DEF Arrays, Counts
<1>2. \A j \in 2 .. Len(h) : j \div 2 = i => j = 2 * i \/ j = 2 * i + 1
  BY <1>1
<1>3. CASE 2 * i < Len(h) /\ n[h[2 * i + 1]] < n[h[2 * i]]
  <2>1. Child(n, h, i) = 2 * i + 1
    BY <1>3 DEF Child
  <2> QED
    BY <1>1, <1>2, <1>3, <2>1
<1>4. CASE ~ (2 * i < Len(h) /\ n[h[2 * i + 1]] < n[h[2 * i]])
  <2>1. Child(n, h, i) = 2 * i
    BY <1>4 DEF Child
  <2>2. 2 * i \in 2 .. Len(h) /\ (2 * i) \div 2 = i /\ 2 * i > i
    BY <1>1
  <2> DEFINE a == 2 * i
             b == 2 * i + 1
  <2>3. a \in 1 .. Len(h) /\ (b \in 1 .. Len(h) => ~ n[h[b]] < n[h[a]])
    BY <1>1, <1>4
  <2>4. \A j \in 2 .. Len(h) : j \div 2 = i => j = a \/ j = b
    BY <1>2
  <2> HIDE DEF a, b
  <2>5. \A j \in 2 .. Len(h) : j \div 2 = i => n[h[a]] <= n[h[j]]
    BY <1>1, <2>3, <2>4
  <2> QED
    BY <2>1, <2>2, <2>5 DEF a
<1> QED
  BY <1>3, <1>4

LEMMA SiftDownEnds ==
    ASSUME NEW n \in Counts, NEW q \in Arrays, NEW k \in 1 .. Len(q),
           NEW I \in SUBSET Sifting(q), [heap |-> q, at |-> k] \in I, NEW Post,
           \A s \in I : IF \/ 2 * s.at > Len(q)
                           \/ n[s.heap[s.at]] <= n[s.heap[Child(n, s.heap, s.at)]]
                          THEN s.heap \in Post
                          ELSE Moved(s, Child(n, s.heap, s.at)) \in I
    PROVE  SiftDown(n, q, k) \in Post
<1> DEFINE D == Sifting(q)
           Base == {s \in D : \/ 2 * s.at > Len(q)
                              \/ n[s.heap[s.at]] <= n[s.heap[Child(n, s.heap, s.at)]]}
           result == [s \in D |-> s.heap]
           next == [s \in D |-> Moved(s, Child(n, s.heap, s.at))]
           rank == [s \in D |-> Len(q) - s.at]
           F(f) == [s \in D |->
                      IF \/ 2 * s.at > Len(q)
                         \/ n[s.heap[s.at]] <= n[s.heap[Child(n, s.heap, s.at)]] THEN s.heap
                      ELSE f[Moved(s, Child(n, s.heap, s.at))]]
           start == [heap |-> q, at |-> k]
<1>1. ASSUME NEW s \in D
      PROVE  /\ Len(q) - s.at \in Nat
             /\ 2 * s.at <= Len(q) =>
                  /\ Moved(s, Child(n, s.heap, s.at)) \in D
                  /\ Len(q) - Child(n, s.heap, s.at) < Len(q) - s.at
  <2>1. /\ s.at \in 1 .. Len(q) /\ Len(q) \in Nat
        /\ s.heap \in Arrays /\ Len(s.heap) = Len(q)
    BY SiftingTyped DEF Arrays
  <2>2. 2 * s.at <= Len(q) =>
           Child(n, s.heap, s.at) \in 2 .. Len(q) /\ Child(n, s.heap, s.at) > s.at
    BY <2>1, ChildIsLeast
  <2> HIDE DEF D
  <2>3. 2 * s.at <= Len(q) => Child(n, s.heap, s.at) \in 1 .. Len(q)
    BY <2>1, <2>2
  <2>4. 2 * s.at <= Len(q) => Moved(s, Child(n, s.heap, s.at)) \in D
    BY <2>3, SiftingTyped DEF D
  <2> QED
    BY <2>1, <2>2, <2>3, <2>4
<1>2. Loop(D, Base, next, rank)
  <2>1. rank \in [D -> Nat]
    BY <1>1
  <2>2. ASSUME NEW s \in D, s \notin Base
        PROVE  next[s] \in D /\ rank[next[s]] < rank[s]
    <3>1. 2 * s.at <= Len(q)
      <4>1. s.at \in 1 .. Len(q) /\ Len(q) \in Nat
        BY SiftingTyped DEF Arrays
      <4> QED
        BY <2>2, <4>1
    <3>2. next[s] \in D /\ rank[next[s]] = Len(q) - Child(n, s.heap, s.at)
      BY <1>1, <3>1 DEF Moved
    <3> QED
      BY <1>1, <3>1, <3>2
  <2> QED
    BY <2>1, <2>2 DEF Loop
<1>3. \A f : f = F(f) <=> LoopFunction(D, Base, result, next, f)
  BY DEF LoopFunction, Step
<1>4. Keeps(D, Base, result, next, I, Post)
  BY DEF Keeps
<1>5. SiftDown(n, q, k) = (CHOOSE f : f = F(f))[start]
  BY Zenon DEF SiftDown
<1> HIDE DEF F, D, Base, result, next, rank
<1>6. (CHOOSE f : f = F(f)) = TheLoop(D, Base, result, next)
  BY <1>3, Zenon DEF TheLoop
<1>7. start \in I => TheLoop(D, Base, result, next)[start] \in Post
  <2> HIDE DEF start
  <2> QED
    BY <1>2, <1>4, LoopEnds
<1> QED
  BY <1>5, <1>6, <1>7

LEMMA OrderedAboveSwap ==
    ASSUME NEW n \in Counts, NEW h \in Arrays, NEW i \in 1 .. Len(h), 2 * i <= Len(h),
           OrderedAbove(n, h, i), ~ (n[h[i]] <= n[h[Child(n, h, i)]])
    PROVE  OrderedAbove(n, Swap(h, i, Child(n, h, i)), Child(n, h, i))
<1> DEFINE c == Child(n, h, i)
           g == Swap(h, i, c)
           v(j) == n[h[j]]
<1>1. /\ c \in 2 .. Len(h) /\ c \div 2 = i /\ c > i
      /\ \A j \in 2 .. Len(h) : j \div 2 = i => v(c) <= v(j)
  BY ChildIsLeast
<1> HIDE DEF c
<1>2. c \in 1 .. Len(h) /\ Len(h) \in Nat
  BY <1>1 DEF Arrays
<1>3. \A k \in 1 .. Len(h) : v(k) \in Int
  BY DEF Counts, Arrays
<1>4. v(c) < v(i)
  BY <1>2, <1>3 DEF c
<1>5. \A j \in 2 .. Len(h) : j \div 2 \in 1 .. Len(h) /\ j \in 1 .. Len(h) /\ j \div 2 < j
  BY <1>2
<1>6. \A j \in 2 .. Len(h) : j \div 2 # i => v(j \div 2) <= v(j)
  BY DEF OrderedAbove
<1>7. \A j \in 2 .. Len(h) : j \div 2 = i /\ i > 1 => v(i \div 2) <= v(j)
  BY DEF OrderedAbove
<1>8. /\ Len(g) = Len(h)
      /\ \A k \in 1 .. Len(h) : n[g[k]] = IF k = c THEN v(i) ELSE IF k = i THEN v(c) ELSE v(k)
  <2>1. /\ Len(g) = Len(h)
        /\ \A k \in 1 .. Len(h) : g[k] = IF k = c THEN h[i] ELSE IF k = i THEN h[c] ELSE h[k]
    BY <1>2, SwapKeeps
  <2> HIDE DEF g
  <2> QED
    BY <2>1
<1> HIDE DEF g, v
<1>9. ASSUME NEW j \in 2 .. Len(h), j \div 2 # c
      PROVE  n[g[j \div 2]] <= n[g[j]]
  <2>1. CASE j = c
    BY <1>1, <1>2, <1>3, <1>4, <1>5, <1>8, <2>1
  <2>2. CASE j # c /\ j \div 2 = i
    BY <1>1, <1>2, <1>3, <1>5, <1>8, <2>2
  <2>3. CASE j = i
    <3>1. i > 1 /\ v(i \div 2) <= v(c)
      BY <1>1, <1>7, <2>3
    <3>2. n[g[j]] = v(c) /\ n[g[j \div 2]] = v(i \div 2)
      BY <1>1, <1>5, <1>8, <1>9, <2>3
    <3> QED
      BY <3>1, <3>2
  <2>4. CASE j # c /\ j # i /\ j \div 2 # i
    BY <1>5, <1>6, <1>8, <1>9, <2>4
  <2> QED
    BY <2>1, <2>2, <2>3, <2>4
<1>10. ASSUME NEW j \in 2 .. Len(h), j \div 2 = c
       PROVE  n[g[c \div 2]] <= n[g[j]]
  <2>1. n[g[c \div 2]] = v(c)
    BY <1>1, <1>5, <1>8
  <2>2. j # c /\ j # i /\ n[g[j]] = v(j)
    BY <1>1, <1>5, <1>8, <1>10
  <2>3. v(c) <= v(j)
    BY <1>1, <1>6, <1>10
  <2> QED
    BY <2>1, <2>2, <2>3
<1> QED
  BY <1>8, <1>9, <1>10 DEF OrderedAbove, c, g

(* Sifting down rearranges, and repairs what is out of order below a place.*)
LEMMA SiftDownSound ==
    ASSUME NEW n \in Counts, NEW q \in Arrays, NEW k \in 1 .. Len(q)
    PROVE  /\ SiftDown(n, q, k) \in Rearranged(q)
           /\ OrderedAbove(n, q, k) => Ordered(n, SiftDown(n, q, k))
<1> DEFINE Was == OrderedAbove(n, q, k)
           I == {s \in Sifting(q) : /\ s.heap \in Rearranged(q)
                                    /\ Was => OrderedAbove(n, s.heap, s.at)}
           Post == {h \in Rearranged(q) : Was => Ordered(n, h)}
<1>1. [heap |-> q, at |-> k] \in I
  BY DEF Sifting, Rearranged, Arrays
<1>2. ASSUME NEW s \in I
      PROVE  IF \/ 2 * s.at > Len(q)
                \/ n[s.heap[s.at]] <= n[s.heap[Child(n, s.heap, s.at)]]
               THEN s.heap \in Post
               ELSE Moved(s, Child(n, s.heap, s.at)) \in I
  <2> DEFINE h == s.heap
             i == s.at
             c == Child(n, h, i)
  <2>1. /\ h \in Arrays /\ Len(h) = Len(q) /\ i \in 1 .. Len(q) /\ Len(q) \in Nat
    BY SiftingTyped DEF Arrays
  <2>2. h \in Rearranged(q) /\ (Was => OrderedAbove(n, h, i))
    OBVIOUS
  <2>3. 2 * i <= Len(q) =>
           /\ c \in 2 .. Len(h) /\ c \div 2 = i
           /\ \A j \in 2 .. Len(h) : j \div 2 = i => n[h[c]] <= n[h[j]]
    BY <2>1, ChildIsLeast
  <2>4. CASE 2 * i > Len(q) \/ n[h[i]] <= n[h[c]]
    <3>1. ASSUME Was, NEW j \in 2 .. Len(h)
          PROVE  n[h[j \div 2]] <= n[h[j]]
      <4>1. CASE j \div 2 # i
        BY <2>2, <3>1, <4>1 DEF OrderedAbove
      <4>2. CASE j \div 2 = i
        <5>1. 2 * i <= Len(q)
          BY <2>1, <4>2
        <5>2. n[h[i]] <= n[h[c]] /\ n[h[c]] <= n[h[j]]
          BY <2>1, <2>3, <2>4, <4>2, <5>1
        <5>3. n[h[i]] \in Int /\ n[h[c]] \in Int /\ n[h[j]] \in Int
          <6>1. c \in 1 .. Len(h) /\ i \in 1 .. Len(h) /\ j \in 1 .. Len(h)
            BY <2>1, <2>3, <5>1
          <6> HIDE DEF h, i, c
          <6>2. \A x \in 1 .. Len(h) : n[h[x]] \in Int
            BY <2>1 DEF Arrays, Counts
          <6> QED
            BY <6>1, <6>2
        <5> QED
          BY <4>2, <5>2, <5>3
      <4> QED
        BY <4>1, <4>2
    <3> QED
      BY <2>2, <2>4, <3>1 DEF Ordered
  <2>5. CASE ~ (2 * i > Len(q) \/ n[h[i]] <= n[h[c]])
    <3>1. 2 * i <= Len(q) /\ c \in 1 .. Len(q)
      BY <2>1, <2>3, <2>5
    <3>2. Moved(s, c) \in Sifting(q)
      BY <3>1, SiftingTyped
    <3>3. Swap(h, i, c) \in Rearranged(q)
      BY <2>1, <2>2, <3>1, SwapRearranges
    <3>4. Was => OrderedAbove(n, Swap(h, i, c), c)
      BY <2>1, <2>2, <2>5, <3>1, OrderedAboveSwap
    <3> QED
      BY <2>5, <3>2, <3>3, <3>4 DEF Moved
  <2> QED
    BY <2>4, <2>5
<1> HIDE DEF I, Post
<1>3. I \in SUBSET Sifting(q)
  BY DEF I
<1>4. SiftDown(n, q, k) \in Post
  BY <1>1, <1>2, <1>3, SiftDownEnds
<1> QED
  BY <1>4 DEF Post

-----------------------------------------------------------------------------
(* The operations of the queue.                                            *)

LEMMA OfferSound ==
    ASSUME NEW n \in Counts, NEW q \in Arrays, NEW u \in Users
    PROVE  /\ Offer(n, q, u) \in Arrays
           /\ ToSet(Offer(n, q, u)) = ToSet(q) \cup {u}
           /\ Distinct(q) /\ u \notin ToSet(q) => Distinct(Offer(n, q, u))
           /\ Ordered(n, q) => Ordered(n, Offer(n, q, u))
<1> DEFINE a == Append(q, u)
           k == Len(q) + 1
<1>1. Len(q) \in Nat /\ \A i \in 1 .. Len(q) : q[i] \in Users
  BY DEF Arrays
<1>2. /\ a \in Arrays /\ Len(a) = k /\ a[k] = u
      /\ \A i \in 1 .. Len(q) : a[i] = q[i]
  BY DEF Arrays
<1> HIDE DEF a
<1>3. k \in 1 .. Len(a)
  BY <1>1, <1>2
<1>4. /\ SiftUp(n, a, k) \in Rearranged(a)
      /\ OrderedBelow(n, a, k) => Ordered(n, SiftUp(n, a, k))
  BY <1>2, <1>3, SiftUpSound
<1>5. ToSet(a) = ToSet(q) \cup {u}
  <2>1. ToSet(a) = {a[i] : i \in 1 .. k} /\ ToSet(q) = {q[i] : i \in 1 .. Len(q)}
    BY <1>2, ArraySet
  <2>2. \A x : (\E i \in 1 .. k : x = a[i]) <=> (\E i \in 1 .. Len(q) : x = q[i]) \/ x = u
    BY <1>1, <1>2
  <2> QED
    BY <2>1, <2>2
<1>6. Distinct(q) /\ u \notin ToSet(q) => Distinct(a)
  <2>1. ToSet(q) = {q[i] : i \in 1 .. Len(q)}
    BY ArraySet
  <2>2. u \notin ToSet(q) => \A i \in 1 .. Len(q) : q[i] # u
    BY <2>1
  <2>3. \A i \in 1 .. k : i \in 1 .. Len(q) \/ i = k
    BY <1>1
  <2> QED
    BY <1>1, <1>2, <2>2, <2>3 DEF Distinct
<1>7. Ordered(n, q) => OrderedBelow(n, a, k)
  <2> SUFFICES ASSUME Ordered(n, q), NEW j \in 2 .. k
               PROVE  /\ j # k => n[a[j \div 2]] <= n[a[j]]
                      /\ j \div 2 # k
    BY <1>2 DEF OrderedBelow
  <2>1. j \div 2 # k
    BY <1>1
  <2>2. j # k => j \in 2 .. Len(q) /\ j \in 1 .. Len(q) /\ j \div 2 \in 1 .. Len(q)
    BY <1>1
  <2> QED
    BY <1>2, <2>1, <2>2 DEF Ordered
<1>8. Offer(n, q, u) = SiftUp(n, a, k)
  BY DEF Offer, a
<1> QED
  BY <1>4, <1>5, <1>6, <1>7, <1>8 DEF Rearranged

LEMMA AfterPollSound ==
    ASSUME NEW n \in Counts, NEW q \in Arrays, q # << >>
    PROVE  /\ q[1] \in Users /\ Head(q) = q[1] /\ q[1] \in ToSet(q)
           /\ AfterPoll(n, q) \in Arrays /\ Len(AfterPoll(n, q)) = Len(q) - 1
           /\ Distinct(q) => /\ Distinct(AfterPoll(n, q))
                             /\ ToSet(AfterPoll(n, q)) = ToSet(q) \ {q[1]}
           /\ Ordered(n, q) => Ordered(n, AfterPoll(n, q))
<1>1. /\ Len(q) \in Nat \ {0} /\ \A i \in 1 .. Len(q) : q[i] \in Users
      /\ Head(q) = q[1] /\ Last(q) = q[Len(q)]
  BY EmptySeq DEF Arrays, Last
<1>2. ToSet(q) = {q[i] : i \in 1 .. Len(q)}
  BY ArraySet
<1>3. CASE Len(q) = 1
  <2>1. AfterPoll(n, q) = << >>
    BY <1>3 DEF AfterPoll
  <2>2. << >> \in Arrays /\ Len(<< >>) = 0
    BY EmptySeq DEF Arrays
  <2>3. ToSet(<< >>) = {}
    BY <2>2, ArraySet
  <2>4. ToSet(q) = {q[1]}
    BY <1>2, <1>3
  <2> HIDE DEF AfterPoll
  <2> QED
    BY <1>1, <1>3, <2>1, <2>2, <2>3, <2>4 DEF Distinct, Ordered
<1>4. CASE Len(q) # 1
  <2> DEFINE s == SubSeq(q, 2, Len(q) - 1)
             a == <<Last(q)>> \o s
             m == Len(q) - 1
  <2>1. m \in Nat \ {0} /\ Len(q) = m + 1
    BY <1>1, <1>4
  <2>2. /\ s \in Arrays /\ Len(s) = m - 1
        /\ \A i \in 1 .. m - 1 : s[i] = q[i + 1]
    <3>1. \A i \in 2 .. m : q[i] \in Users
      BY <1>1, <2>1
    <3>2. /\ s \in Seq(Users) /\ Len(s) = IF 2 <= m THEN m - 2 + 1 ELSE 0
          /\ \A i \in 1 .. m - 2 + 1 : s[i] = q[2 + i - 1]
      BY <2>1, <3>1, SubSeqProperties
    <3> HIDE DEF s, m
    <3>3. Len(s) = m - 1 /\ m - 2 + 1 = m - 1
      BY <2>1, <3>2
    <3>4. \A i \in 1 .. m - 1 : s[i] = q[2 + i - 1]
      BY <3>2, <3>3
    <3>5. \A i \in 1 .. m - 1 : 2 + i - 1 = i + 1
      BY <2>1
    <3> QED
      BY <3>2, <3>3, <3>4, <3>5 DEF Arrays
  <2> HIDE DEF s
  <2>3. /\ a \in Arrays /\ Len(a) = m
        /\ \A i \in 1 .. m : a[i] = IF i = 1 THEN q[m + 1] ELSE q[i]
    <3>1. <<Last(q)>> \in Arrays /\ Len(<<Last(q)>>) = 1 /\ <<Last(q)>>[1] = q[m + 1]
      BY <1>1, <2>1 DEF Arrays
    <3>2. /\ a \in Arrays /\ Len(a) = 1 + (m - 1)
          /\ \A i \in 1 .. 1 + (m - 1) : a[i] = IF i <= 1 THEN <<Last(q)>>[i] ELSE s[i - 1]
      BY <2>2, <3>1, ConcatProperties DEF Arrays
    <3> HIDE DEF a, m
    <3>3. 1 + (m - 1) = m
      BY <2>1
    <3>4. ASSUME NEW i \in 1 .. m
          PROVE  a[i] = IF i = 1 THEN q[m + 1] ELSE q[i]
      <4>1. a[i] = IF i <= 1 THEN <<Last(q)>>[i] ELSE s[i - 1]
        BY <3>2, <3>3
      <4>2. CASE i = 1
        BY <3>1, <4>1, <4>2
      <4>3. CASE i # 1
        <5>1. i - 1 \in 1 .. m - 1 /\ ~ i <= 1
          BY <2>1, <4>3
        <5>2. s[i - 1] = q[i - 1 + 1] /\ i - 1 + 1 = i
          BY <2>2, <5>1
        <5> QED
          BY <4>1, <4>3, <5>1, <5>2
      <4> QED
        BY <4>2, <4>3
    <3> QED
      BY <3>2, <3>3, <3>4
  <2>4. AfterPoll(n, q) = SiftDown(n, a, 1)
    BY <1>4 DEF AfterPoll, s
  <2> HIDE DEF a, m, AfterPoll
  <2>5. /\ SiftDown(n, a, 1) \in Rearranged(a)
        /\ OrderedAbove(n, a, 1) => Ordered(n, SiftDown(n, a, 1))
    BY <2>1, <2>3, SiftDownSound
  <2>6. Ordered(n, q) => OrderedAbove(n, a, 1)
    <3> SUFFICES ASSUME Ordered(n, q), NEW j \in 2 .. m
                 PROVE  j \div 2 # 1 => n[a[j \div 2]] <= n[a[j]]
      BY <2>3 DEF OrderedAbove
    <3>1. j \in 2 .. Len(q) /\ j \in 1 .. m /\ j \div 2 \in 1 .. m /\ j # 1
      BY <2>1
    <3> QED
      BY <2>3, <3>1 DEF Ordered
  <2>7. Distinct(q) => Distinct(a) /\ ToSet(a) = ToSet(q) \ {q[1]}
    <3> SUFFICES ASSUME Distinct(q)
                 PROVE  Distinct(a) /\ ToSet(a) = ToSet(q) \ {q[1]}
      OBVIOUS
    <3>1. Distinct(a)
      BY <1>1, <2>1, <2>3 DEF Distinct
    <3>2. ToSet(a) = {a[i] : i \in 1 .. m}
      BY <2>3, ArraySet
    <3>3. \A i \in 1 .. m : \E j \in 1 .. Len(q) : a[i] = q[j] /\ j # 1
      BY <2>1, <2>3
    <3>4. ASSUME NEW j \in 1 .. Len(q), j # 1
          PROVE  \E i \in 1 .. m : q[j] = a[i]
      <4>1. CASE j = m + 1
        BY <2>1, <2>3, <4>1
      <4>2. CASE j # m + 1
        BY <2>1, <2>3, <3>4, <4>2
      <4> QED
        BY <4>1, <4>2
    <3>5. \A j \in 1 .. Len(q) : j # 1 <=> q[j] # q[1]
      BY <1>1 DEF Distinct
    <3>6. ToSet(a) \subseteq ToSet(q) \ {q[1]}
      BY <1>2, <3>2, <3>3, <3>5
    <3>7. ToSet(q) \ {q[1]} \subseteq ToSet(a)
      BY <1>2, <3>2, <3>4, <3>5
    <3> QED
      BY <3>1, <3>6, <3>7
  <2>8. q[1] \in ToSet(q) /\ q[1] \in Users
    BY <1>1, <1>2
  <2> QED
    BY <1>1, <2>1, <2>3, <2>4, <2>5, <2>6, <2>7, <2>8 DEF Rearranged
<1> QED
  BY <1>3, <1>4

(* The head of an ordered array is one of the least of it.                 *)
LEMMA HeadIsLeast ==
    ASSUME NEW n \in Counts, NEW h \in Arrays, Ordered(n, h), NEW u \in ToSet(h)
    PROVE  n[h[1]] <= n[u]
<1> DEFINE Bad == {i \in 1 .. Len(h) : ~ n[h[1]] <= n[h[i]]}
<1>1. Len(h) \in Nat /\ \A i \in 1 .. Len(h) : n[h[i]] \in Int
  BY DEF Arrays, Counts
<1>2. PICK k \in 1 .. Len(h) : u = h[k]
  BY ArraySet
<1>3. SUFFICES ASSUME k \in Bad
               PROVE  FALSE
  BY <1>2
<1>4. PICK i \in Bad : \A j \in Bad : i <= j
  <2>1. Bad \in SUBSET Nat /\ Bad # {}
    BY <1>3
  <2> HIDE DEF Bad
  <2> QED
    BY <2>1, LeastNumber
<1>5. i \in 2 .. Len(h)
  BY <1>1, <1>4
<1>6. n[h[i \div 2]] <= n[h[i]]
  BY <1>5 DEF Ordered
<1>7. i \div 2 \in 1 .. Len(h) /\ i \div 2 < i
  BY <1>1, <1>5
<1>8. i \div 2 \notin Bad
  BY <1>4, <1>5, <1>7
<1>9. n[h[1]] <= n[h[i \div 2]]
  BY <1>7, <1>8
<1>10. n[h[1]] \in Int /\ n[h[i]] \in Int /\ n[h[i \div 2]] \in Int
  BY <1>1, <1>4, <1>5, <1>7
<1> QED
  BY <1>4, <1>6, <1>9, <1>10

-----------------------------------------------------------------------------
(* A pick.                                                                 *)

LEMMA AddAllEnds ==
    ASSUME NEW n \in Counts, NEW q \in Arrays, NEW rest \in Arrays,
           NEW I \in SUBSET [heap : Arrays, done : 0 .. Len(rest)],
           [heap |-> q, done |-> 0] \in I, NEW Post,
           \A s \in I : IF s.done = Len(rest) THEN s.heap \in Post
                          ELSE [heap |-> Offer(n, s.heap, rest[s.done + 1]),
                                done |-> s.done + 1] \in I
    PROVE  AddAll(n, q, rest) \in Post
<1> DEFINE D == [heap : Arrays, done : 0 .. Len(rest)]
           Base == {s \in D : s.done = Len(rest)}
           Then(s) == [heap |-> Offer(n, s.heap, rest[s.done + 1]), done |-> s.done + 1]
           result == [s \in D |-> s.heap]
           next == [s \in D |-> Then(s)]
           rank == [s \in D |-> Len(rest) - s.done]
           F(f) == [s \in D |-> IF s.done = Len(rest) THEN s.heap ELSE f[Then(s)]]
           start == [heap |-> q, done |-> 0]
<1>1. ASSUME NEW s \in D
      PROVE  /\ Len(rest) - s.done \in Nat
             /\ s.done # Len(rest) => Then(s) \in D
             /\ Len(rest) - Then(s).done < Len(rest) - s.done
  <2>1. s.heap \in Arrays /\ s.done \in 0 .. Len(rest) /\ Len(rest) \in Nat
    BY DEF Arrays
  <2>2. s.done # Len(rest) => rest[s.done + 1] \in Users /\ s.done + 1 \in 0 .. Len(rest)
    BY <2>1 DEF Arrays
  <2>3. s.done # Len(rest) => Offer(n, s.heap, rest[s.done + 1]) \in Arrays
    BY <2>1, <2>2, OfferSound
  <2> QED
    BY <2>1, <2>2, <2>3
<1>2. Loop(D, Base, next, rank)
  <2>1. rank \in [D -> Nat]
    BY <1>1
  <2>2. ASSUME NEW s \in D, s \notin Base
        PROVE  next[s] \in D /\ rank[next[s]] < rank[s]
    <3>1. s.done # Len(rest) /\ next[s] = Then(s)
      BY <2>2
    <3>2. next[s] \in D /\ rank[next[s]] = Len(rest) - Then(s).done
      BY <1>1, <3>1
    <3> QED
      BY <1>1, <3>2
  <2> QED
    BY <2>1, <2>2 DEF Loop
<1>3. \A f : f = F(f) <=> LoopFunction(D, Base, result, next, f)
  BY DEF LoopFunction, Step
<1>4. Keeps(D, Base, result, next, I, Post)
  BY DEF Keeps
<1>5. AddAll(n, q, rest) = (CHOOSE f : f = F(f))[start]
  BY Zenon DEF AddAll, Arrays
<1> HIDE DEF F, D, Base, result, next, rank
<1>6. (CHOOSE f : f = F(f)) = TheLoop(D, Base, result, next)
  BY <1>3, Zenon DEF TheLoop
<1>7. start \in I => TheLoop(D, Base, result, next)[start] \in Post
  <2> HIDE DEF start
  <2> QED
    BY <1>2, <1>4, LoopEnds
<1> QED
  BY <1>5, <1>6, <1>7

(* What the new queue holds is in order, whatever the order of the old one.*)
LEMMA AddAllSound ==
    ASSUME NEW n \in Counts, NEW q \in Arrays, NEW rest \in Arrays,
           Distinct(q), Distinct(rest), ToSet(q) \cap ToSet(rest) = {}, Ordered(n, q)
    PROVE  /\ AddAll(n, q, rest) \in Arrays
           /\ ToSet(AddAll(n, q, rest)) = ToSet(q) \cup ToSet(rest)
           /\ Distinct(AddAll(n, q, rest)) /\ Ordered(n, AddAll(n, q, rest))
<1> DEFINE First(k) == {rest[j] : j \in 1 .. k}
           I == {s \in [heap : Arrays, done : 0 .. Len(rest)] :
                   /\ ToSet(s.heap) = ToSet(q) \cup First(s.done)
                   /\ Distinct(s.heap) /\ Ordered(n, s.heap)}
           Post == {h \in Arrays : /\ ToSet(h) = ToSet(q) \cup ToSet(rest)
                                   /\ Distinct(h) /\ Ordered(n, h)}
<1>1. Len(rest) \in Nat /\ ToSet(rest) = First(Len(rest)) /\ First(0) = {}
  <2>1. Len(rest) \in Nat
    BY DEF Arrays
  <2> QED
    BY <2>1, ArraySet
<1>2. [heap |-> q, done |-> 0] \in I
  BY <1>1
<1>3. ASSUME NEW s \in I
      PROVE  IF s.done = Len(rest) THEN s.heap \in Post
             ELSE [heap |-> Offer(n, s.heap, rest[s.done + 1]), done |-> s.done + 1] \in I
  <2>1. /\ s.heap \in Arrays /\ s.done \in 0 .. Len(rest)
        /\ ToSet(s.heap) = ToSet(q) \cup First(s.done)
        /\ Distinct(s.heap) /\ Ordered(n, s.heap)
    OBVIOUS
  <2>2. CASE s.done = Len(rest)
    BY <1>1, <2>1, <2>2
  <2>3. CASE s.done # Len(rest)
    <3> DEFINE k == s.done + 1
               u == rest[k]
    <3>1. k \in 1 .. Len(rest) /\ s.done = k - 1 /\ u \in Users
      BY <1>1, <2>1, <2>3 DEF Arrays
    <3>2. u \in ToSet(rest)
      BY <3>1, ArraySet
    <3>3. u \notin First(s.done)
      BY <1>1, <2>1, <3>1 DEF Distinct
    <3>4. First(k) = First(s.done) \cup {u}
      <4>1. \A j \in 1 .. k : j \in 1 .. s.done \/ j = k
        BY <3>1
      <4>2. \A j \in 1 .. s.done : j \in 1 .. k
        BY <3>1
      <4>3. k \in 1 .. k
        BY <3>1
      <4> HIDE DEF k
      <4>4. \A x : (\E j \in 1 .. k : x = rest[j]) <=> (\E j \in 1 .. s.done : x = rest[j]) \/ x = u
        BY <4>1, <4>2, <4>3
      <4> QED
        BY <4>4
    <3>5. u \notin ToSet(s.heap)
      BY <2>1, <3>2, <3>3
    <3>6. k \in 0 .. Len(rest)
      BY <3>1
    <3> HIDE DEF k, u, First
    <3>7. /\ Offer(n, s.heap, u) \in Arrays
          /\ ToSet(Offer(n, s.heap, u)) = ToSet(s.heap) \cup {u}
          /\ Distinct(Offer(n, s.heap, u)) /\ Ordered(n, Offer(n, s.heap, u))
      BY <2>1, <3>1, <3>5, OfferSound
    <3>8. ToSet(Offer(n, s.heap, u)) = ToSet(q) \cup First(k)
      BY <2>1, <3>4, <3>7
    <3>9. [heap |-> Offer(n, s.heap, u), done |-> k] \in I
      BY <3>6, <3>7, <3>8
    <3> QED
      BY <2>3, <3>9 DEF k, u
  <2> QED
    BY <2>2, <2>3
<1> HIDE DEF I, Post
<1>4. I \in SUBSET [heap : Arrays, done : 0 .. Len(rest)]
  BY DEF I
<1>5. AddAll(n, q, rest) \in Post
  BY <1>2, <1>3, <1>4, AddAllEnds
<1> QED
  BY <1>5 DEF Post

LEMMA PollUserEnds ==
    ASSUME NEW n \in Counts, NEW q \in Arrays,
           NEW I \in SUBSET [heap : Arrays, aside : Arrays],
           [heap |-> q, aside |-> << >>] \in I, NEW Post,
           \A s \in I :
              IF s.heap = << >> THEN [users |-> {}, heap |-> s.aside] \in Post
              ELSE IF s.heap[1] \in waiting
                THEN Found(n, s.heap[1], s.aside, AfterPoll(n, s.heap)) \in Post
              ELSE [heap  |-> AfterPoll(n, s.heap),
                    aside |-> Offer(n, s.aside, s.heap[1])] \in I
    PROVE  PollUser(n, q) \in Post
<1> DEFINE D == [heap : Arrays, aside : Arrays]
           Base == {s \in D : s.heap = << >> \/ s.heap[1] \in waiting}
           End(s) == IF s.heap = << >> THEN [users |-> {}, heap |-> s.aside]
                     ELSE Found(n, s.heap[1], s.aside, AfterPoll(n, s.heap))
           Then(s) == [heap  |-> AfterPoll(n, s.heap),
                       aside |-> Offer(n, s.aside, s.heap[1])]
           result == [s \in D |-> End(s)]
           next == [s \in D |-> Then(s)]
           rank == [s \in D |-> Len(s.heap)]
           F(f) == [s \in D |->
                      IF s.heap = << >> THEN [users |-> {}, heap |-> s.aside]
                      ELSE IF s.heap[1] \in waiting
                        THEN Found(n, s.heap[1], s.aside, AfterPoll(n, s.heap))
                      ELSE f[Then(s)]]
           start == [heap |-> q, aside |-> << >>]
<1>1. ASSUME NEW s \in D
      PROVE  /\ Len(s.heap) \in Nat
             /\ s.heap # << >> => Then(s) \in D /\ Len(Then(s).heap) < Len(s.heap)
  <2>1. s.heap \in Arrays /\ s.aside \in Arrays /\ Len(s.heap) \in Nat
    BY DEF Arrays
  <2>2. s.heap # << >> =>
           /\ s.heap[1] \in Users
           /\ AfterPoll(n, s.heap) \in Arrays /\ Len(AfterPoll(n, s.heap)) = Len(s.heap) - 1
    BY <2>1, AfterPollSound
  <2>3. s.heap # << >> => Offer(n, s.aside, s.heap[1]) \in Arrays
    BY <2>1, <2>2, OfferSound
  <2> QED
    BY <2>1, <2>2, <2>3
<1>2. Loop(D, Base, next, rank)
  <2>1. rank \in [D -> Nat]
    BY <1>1
  <2>2. ASSUME NEW s \in D, s \notin Base
        PROVE  next[s] \in D /\ rank[next[s]] < rank[s]
    <3>1. s.heap # << >> /\ next[s] = Then(s)
      BY <2>2
    <3>2. next[s] \in D /\ rank[next[s]] = Len(Then(s).heap)
      BY <1>1, <3>1
    <3> QED
      BY <1>1, <3>1, <3>2
  <2> QED
    BY <2>1, <2>2 DEF Loop
<1>3. \A f : f = F(f) <=> LoopFunction(D, Base, result, next, f)
  <2> HIDE DEF Then
  <2> QED
    BY DEF LoopFunction, Step
<1>4. Keeps(D, Base, result, next, I, Post)
  <2> SUFFICES ASSUME NEW s \in I
               PROVE  IF s \in Base THEN result[s] \in Post ELSE next[s] \in I
    BY DEF Keeps
  <2>1. s \in D
    OBVIOUS
  <2> QED
    BY <2>1
<1>5. PollUser(n, q) = (CHOOSE f : f = F(f))[start]
  BY Zenon DEF PollUser, Arrays
<1> HIDE DEF F, D, Base, result, next, rank
<1>6. (CHOOSE f : f = F(f)) = TheLoop(D, Base, result, next)
  BY <1>3, Zenon DEF TheLoop
<1>7. start \in I => TheLoop(D, Base, result, next)[start] \in Post
  <2> HIDE DEF start
  <2> QED
    BY <1>2, <1>4, LoopEnds
<1> QED
  BY <1>5, <1>6, <1>7

(* A pick loses no user and doubles none, puts the queue in order for the  *)
(* new counts even if it was not for the old ones, and finds a user with   *)
(* pending work: a least active one if the queue was in order.             *)
Picked(n, q) ==
    {p \in [users : SUBSET Users, heap : Arrays] :
       /\ Distinct(p.heap) /\ ToSet(p.heap) = ToSet(q)
       /\ \E u \in waiting \cap ToSet(q) :
             /\ p.users = {u} /\ Ordered(Counted(n, u), p.heap)
             /\ Ordered(n, q) => \A v \in waiting : n[u] <= n[v]}

LEMMA CountedTyped ==
    ASSUME NEW n \in Counts, NEW u \in Users
    PROVE  /\ Counted(n, u) \in Counts
           /\ \A v \in Users : Counted(n, u)[v] = IF v = u THEN n[v] + 1 ELSE n[v]
BY DEF Counted, Counts

LEMMA PollUserSound ==
    ASSUME NEW n \in Counts, NEW q \in Arrays, Distinct(q),
           waiting \subseteq ToSet(q), waiting # {}
    PROVE  PollUser(n, q) \in Picked(n, q)
<1> DEFINE I == {s \in [heap : Arrays, aside : Arrays] :
                   /\ Distinct(s.heap) /\ Distinct(s.aside)
                   /\ ToSet(s.heap) \cap ToSet(s.aside) = {}
                   /\ ToSet(s.heap) \cup ToSet(s.aside) = ToSet(q)
                   /\ waiting \cap ToSet(s.aside) = {}
                   /\ Ordered(n, s.aside)
                   /\ Ordered(n, q) => Ordered(n, s.heap)}
<1>1. [heap |-> q, aside |-> << >>] \in I
  <2>1. << >> \in Arrays /\ Len(<< >>) = 0
    BY EmptySeq DEF Arrays
  <2>2. ToSet(<< >>) = {}
    BY <2>1, ArraySet
  <2>3. Distinct(<< >>) /\ Ordered(n, << >>)
    BY <2>1 DEF Distinct, Ordered
  <2> QED
    BY <2>1, <2>2, <2>3
<1>2. ASSUME NEW s \in I
      PROVE  IF s.heap = << >> THEN [users |-> {}, heap |-> s.aside] \in Picked(n, q)
             ELSE IF s.heap[1] \in waiting
               THEN Found(n, s.heap[1], s.aside, AfterPoll(n, s.heap)) \in Picked(n, q)
             ELSE [heap  |-> AfterPoll(n, s.heap),
                   aside |-> Offer(n, s.aside, s.heap[1])] \in I
  <2> DEFINE h == s.heap
             aside == s.aside
             u == h[1]
             rest == AfterPoll(n, h)
  <2>1. /\ h \in Arrays /\ aside \in Arrays /\ Distinct(h) /\ Distinct(aside)
        /\ ToSet(h) \cap ToSet(aside) = {} /\ ToSet(h) \cup ToSet(aside) = ToSet(q)
        /\ waiting \cap ToSet(aside) = {} /\ waiting \subseteq ToSet(h)
        /\ Ordered(n, aside) /\ (Ordered(n, q) => Ordered(n, h))
    OBVIOUS
  <2>2. h # << >>
    <3>1. << >> \in Arrays /\ Len(<< >>) = 0
      BY EmptySeq DEF Arrays
    <3>2. ToSet(<< >>) = {}
      BY <3>1, ArraySet
    <3> QED
      BY <2>1, <3>2
  <2> HIDE DEF h, aside
  <2>3. /\ u \in Users /\ u \in ToSet(h) /\ rest \in Arrays /\ Distinct(rest)
        /\ ToSet(rest) = ToSet(h) \ {u} /\ (Ordered(n, h) => Ordered(n, rest))
    BY <2>1, <2>2, AfterPollSound
  <2> HIDE DEF rest
  <2>4. u \notin ToSet(aside)
    BY <2>1, <2>3
  <2>5. CASE u \in waiting
    <3> DEFINE m == Counted(n, u)
               new == AddAll(m, Offer(m, aside, u), rest)
    <3>1. /\ m \in Counts
          /\ \A v \in Users : m[v] = IF v = u THEN n[v] + 1 ELSE n[v]
      BY <2>3, CountedTyped
    <3> HIDE DEF m
    <3>2. Ordered(m, aside)
      <4> SUFFICES ASSUME NEW i \in 2 .. Len(aside)
                   PROVE  m[aside[i \div 2]] <= m[aside[i]]
        BY DEF Ordered
      <4>1. Len(aside) \in Nat
        BY <2>1 DEF Arrays
      <4>2. i \in 1 .. Len(aside) /\ i \div 2 \in 1 .. Len(aside)
        BY <4>1
      <4>3. /\ aside[i] \in ToSet(aside) /\ aside[i \div 2] \in ToSet(aside)
            /\ aside[i] \in Users /\ aside[i \div 2] \in Users
        BY <2>1, <4>2, ArraySet
      <4>4. m[aside[i]] = n[aside[i]] /\ m[aside[i \div 2]] = n[aside[i \div 2]]
        BY <2>4, <3>1, <4>3
      <4> QED
        BY <2>1, <4>4 DEF Ordered
    <3>3. /\ Offer(m, aside, u) \in Arrays
          /\ ToSet(Offer(m, aside, u)) = ToSet(aside) \cup {u}
          /\ Distinct(Offer(m, aside, u)) /\ Ordered(m, Offer(m, aside, u))
      BY <2>1, <2>3, <2>4, <3>1, <3>2, OfferSound
    <3>4. ToSet(Offer(m, aside, u)) \cap ToSet(rest) = {}
      BY <2>1, <2>3, <3>3
    <3>5. /\ new \in Arrays /\ Distinct(new) /\ Ordered(m, new)
          /\ ToSet(new) = ToSet(Offer(m, aside, u)) \cup ToSet(rest)
      BY <2>3, <3>1, <3>3, <3>4, AddAllSound
    <3> HIDE DEF new
    <3>6. ToSet(new) = ToSet(q)
      BY <2>1, <2>3, <3>3, <3>5
    <3>7. ASSUME Ordered(n, q), NEW v \in waiting
          PROVE  n[u] <= n[v]
      BY <2>1, <3>7, HeadIsLeast
    <3>8. u \in waiting \cap ToSet(q)
      BY <2>1, <2>3, <2>5
    <3>9. Found(n, u, aside, rest) = [users |-> {u}, heap |-> new]
      BY DEF Found, m, new
    <3> HIDE DEF u
    <3>10. [users |-> {u}, heap |-> new] \in Picked(n, q)
      BY <2>3, <3>5, <3>6, <3>7, <3>8 DEF Picked, m
    <3> QED
      BY <2>2, <2>5, <3>9, <3>10 DEF u, h, aside, rest
  <2>6. CASE u \notin waiting
    <3> DEFINE new == Offer(n, aside, u)
    <3>1. /\ new \in Arrays /\ ToSet(new) = ToSet(aside) \cup {u}
          /\ Distinct(new) /\ Ordered(n, new)
      BY <2>1, <2>3, <2>4, OfferSound
    <3> HIDE DEF new, u
    <3>2. [heap |-> rest, aside |-> new] \in I
      BY <2>1, <2>3, <2>4, <2>6, <3>1
    <3> QED
      BY <2>2, <2>6, <3>2 DEF u, h, aside, rest, new
  <2> QED
    BY <2>5, <2>6
<1> HIDE DEF I
<1>3. I \in SUBSET [heap : Arrays, aside : Arrays]
  BY DEF I
<1> QED
  BY <1>1, <1>2, <1>3, PollUserEnds

-----------------------------------------------------------------------------
(* The window and the counts.                                              *)

Places(s, u) == {i \in 1 .. Len(s) : s[i] = u}

LEMMA OccurrencesPlaces ==
    ASSUME NEW s \in Arrays, NEW u
    PROVE  /\ Occurrences(s, u) = Cardinality(Places(s, u)) /\ IsFiniteSet(Places(s, u))
           /\ Occurrences(s, u) \in 0 .. Len(s)
<1>1. DOMAIN s = 1 .. Len(s) /\ Len(s) \in Nat
  BY DEF Arrays
<1>2. /\ IsFiniteSet(1 .. Len(s)) /\ Cardinality(1 .. Len(s)) = Len(s)
  <2>1. 1 \in Int /\ Len(s) \in Int
    BY <1>1
  <2>2. /\ IsFiniteSet(1 .. Len(s))
        /\ Cardinality(1 .. Len(s)) = IF 1 > Len(s) THEN 0 ELSE Len(s) - 1 + 1
    BY <2>1, FS_Interval
  <2> QED
    BY <1>1, <2>2
<1>3. Places(s, u) \in SUBSET (1 .. Len(s))
  BY DEF Places
<1>4. IsFiniteSet(Places(s, u)) /\ Cardinality(Places(s, u)) <= Len(s)
  BY <1>2, <1>3, FS_Subset
<1>5. Cardinality(Places(s, u)) \in Nat
  BY <1>4, FS_CardinalityType
<1>6. Occurrences(s, u) = Cardinality(Places(s, u))
  BY <1>1 DEF Occurrences, Places
<1> QED
  BY <1>1, <1>4, <1>5, <1>6

LEMMA OccurrencesAppended ==
    ASSUME NEW s \in Arrays, NEW v \in Users, NEW u
    PROVE  Occurrences(Append(s, v), u) = IF u = v THEN Occurrences(s, u) + 1
                                          ELSE Occurrences(s, u)
<1> DEFINE t == Append(s, v)
<1>1. Len(s) \in Nat
  BY DEF Arrays
<1>2. /\ t \in Arrays /\ Len(t) = Len(s) + 1 /\ t[Len(s) + 1] = v
      /\ \A i \in 1 .. Len(s) : t[i] = s[i]
  BY DEF Arrays
<1> HIDE DEF t
<1>3. /\ Occurrences(s, u) = Cardinality(Places(s, u)) /\ IsFiniteSet(Places(s, u))
      /\ Occurrences(t, u) = Cardinality(Places(t, u))
  BY <1>2, OccurrencesPlaces
<1>4. Len(s) + 1 \notin Places(s, u)
  BY <1>1 DEF Places
<1>5. CASE u = v
  <2>1. Places(t, u) = Places(s, u) \cup {Len(s) + 1}
    BY <1>1, <1>2, <1>5 DEF Places
  <2> QED
    BY <1>3, <1>4, <1>5, <2>1, FS_AddElement DEF t
<1>6. CASE u # v
  <2>1. Places(t, u) = Places(s, u)
    BY <1>1, <1>2, <1>6 DEF Places
  <2> QED
    BY <1>3, <1>6, <2>1 DEF t
<1> QED
  BY <1>5, <1>6

LEMMA PartsOfWindow ==
    ASSUME NEW s \in Arrays, NEW k \in 0 .. Len(s)
    PROVE  /\ SubSeq(s, 1, k) \in Arrays /\ Len(SubSeq(s, 1, k)) = k
           /\ \A i \in 1 .. k : SubSeq(s, 1, k)[i] = s[i]
           /\ SubSeq(s, k + 1, Len(s)) \in Arrays
           /\ Len(SubSeq(s, k + 1, Len(s))) = Len(s) - k
           /\ \A i \in 1 .. Len(s) - k : SubSeq(s, k + 1, Len(s))[i] = s[i + k]
<1>1. Len(s) \in Nat /\ k \in Nat /\ k <= Len(s) /\ \A i \in 1 .. Len(s) : s[i] \in Users
  BY DEF Arrays
<1>2. /\ SubSeq(s, 1, k) \in Seq(Users)
      /\ Len(SubSeq(s, 1, k)) = IF 1 <= k THEN k - 1 + 1 ELSE 0
      /\ \A i \in 1 .. k - 1 + 1 : SubSeq(s, 1, k)[i] = s[1 + i - 1]
  <2>1. \A i \in 1 .. k : s[i] \in Users
    BY <1>1
  <2> QED
    BY <1>1, <2>1, SubSeqProperties
<1>3. DEFINE m == k + 1
             l == Len(s)
<1>4. m \in Int /\ l \in Int /\ \A i \in m .. l : s[i] \in Users
  BY <1>1
<1>5. /\ SubSeq(s, m, l) \in Seq(Users)
      /\ Len(SubSeq(s, m, l)) = IF m <= l THEN l - m + 1 ELSE 0
      /\ \A i \in 1 .. l - m + 1 : SubSeq(s, m, l)[i] = s[m + i - 1]
  <2> HIDE DEF m, l
  <2> QED
    BY <1>4, SubSeqProperties
<1>6. l - m + 1 = Len(s) - k /\ k - 1 + 1 = k
  BY <1>1
<1>7. \A i \in Int : 1 + i - 1 = i /\ m + i - 1 = i + k
  BY <1>1
<1>8. /\ Len(SubSeq(s, 1, k)) = k /\ Len(SubSeq(s, m, l)) = Len(s) - k
  BY <1>1, <1>2, <1>5
<1>9. \A i \in 1 .. k : SubSeq(s, 1, k)[i] = s[i]
  BY <1>2, <1>6, <1>7
<1>10. \A i \in 1 .. Len(s) - k : SubSeq(s, m, l)[i] = s[i + k]
  <2> HIDE DEF m, l
  <2> QED
    BY <1>5, <1>6, <1>7
<1> QED
  BY <1>2, <1>5, <1>8, <1>9, <1>10 DEF Arrays

LEMMA OccurrencesSplit ==
    ASSUME NEW s \in Arrays, NEW k \in 0 .. Len(s), NEW u
    PROVE  Occurrences(s, u) = Occurrences(SubSeq(s, 1, k), u)
                                 + Occurrences(SubSeq(s, k + 1, Len(s)), u)
<1> DEFINE a == SubSeq(s, 1, k)
           b == SubSeq(s, k + 1, Len(s))
           Later == {i \in Places(s, u) : i > k}
           f == [i \in Later |-> i - k]
<1>1. Len(s) \in Nat /\ k \in Nat /\ k <= Len(s)
  BY DEF Arrays
<1>2. /\ a \in Arrays /\ Len(a) = k /\ \A i \in 1 .. k : a[i] = s[i]
      /\ b \in Arrays /\ Len(b) = Len(s) - k
      /\ \A i \in 1 .. Len(s) - k : b[i] = s[i + k]
  BY PartsOfWindow
<1> HIDE DEF a, b
<1>3. /\ Occurrences(s, u) = Cardinality(Places(s, u)) /\ IsFiniteSet(Places(s, u))
      /\ Occurrences(a, u) = Cardinality(Places(a, u)) /\ IsFiniteSet(Places(a, u))
      /\ Occurrences(b, u) = Cardinality(Places(b, u)) /\ IsFiniteSet(Places(b, u))
  BY <1>2, OccurrencesPlaces
<1>4. Places(s, u) = Places(a, u) \cup Later /\ Places(a, u) \cap Later = {}
  BY <1>1, <1>2 DEF Places
<1>5. f \in Bijection(Later, Places(b, u))
  <2>1. f \in [Later -> Places(b, u)]
    BY <1>1, <1>2 DEF Places
  <2>2. \A i, j \in Later : f[i] = f[j] => i = j
    BY <1>1 DEF Places
  <2>3. ASSUME NEW j \in Places(b, u)
        PROVE  \E i \in Later : f[i] = j
    <3>1. j + k \in Later /\ f[j + k] = j
      BY <1>1, <1>2 DEF Places
    <3> QED
      BY <3>1
  <2> HIDE DEF f, Later
  <2> QED
    BY <2>1, <2>2, <2>3 DEF Bijection, Injection, Surjection, IsInjective
<1>6. IsFiniteSet(Later)
  BY <1>3, FS_Subset
<1>7. Cardinality(Later) = Cardinality(Places(b, u))
  <2>1. ExistsBijection(Later, Places(b, u))
    BY <1>5 DEF ExistsBijection
  <2> QED
    BY <1>6, <2>1, FS_Bijection
<1>8. Cardinality(Places(s, u)) = Cardinality(Places(a, u)) + Cardinality(Later)
                                    - Cardinality(Places(a, u) \cap Later)
  <2> HIDE DEF Later
  <2> QED
    BY <1>3, <1>4, <1>6, FS_Union
<1>9. Cardinality(Places(a, u)) \in Nat /\ Cardinality(Later) \in Nat
  BY <1>3, <1>6, FS_CardinalityType
<1>10. Cardinality(Places(a, u) \cap Later) = 0
  BY <1>4, FS_EmptySet
<1> HIDE DEF Later
<1>11. Occurrences(s, u) = Occurrences(a, u) + Occurrences(b, u)
  BY <1>3, <1>7, <1>8, <1>9, <1>10
<1> QED
  BY <1>11 DEF a, b

-----------------------------------------------------------------------------
(* The invariant.                                                          *)

IInv == HeapSound /\ CountsMatchWindow

LEMMA HeapParts ==
    ASSUME HeapSound
    PROVE  /\ heap \in Arrays /\ window \in Arrays /\ Len(window) \in 0 .. MaxWindow
           /\ count \in Counts /\ waiting \subseteq ToSet(heap) /\ ToSet(heap) \subseteq Users
           /\ Distinct(heap) /\ Ordered(count, heap)
<1>1. heap \in Seq(Users) /\ window \in Seq(Users) /\ Len(window) <= MaxWindow
  BY DEF HeapSound, TypeOK
<1>2. count \in Counts
  BY UserPrioritiesAssumption DEF HeapSound, TypeOK, Counts
<1>3. Len(window) \in Nat /\ DOMAIN heap = 1 .. Len(heap)
  BY <1>1
<1>4. Distinct(heap) /\ Ordered(count, heap)
  BY <1>3 DEF HeapSound, EveryUserQueuedOnce, HeapInOrder, Distinct, Ordered
<1> QED
  BY <1>1, <1>2, <1>3, <1>4, ArraySet, UserPrioritiesAssumption
     DEF Arrays, HeapSound, EveryUserQueuedOnce

LEMMA ExpiredCounts ==
    ASSUME IInv, NEW k \in 0 .. Len(window)
    PROVE  /\ Expired(k) \in Counts
           /\ \A u \in Users : Expired(k)[u] = Occurrences(SubSeq(window, k + 1, Len(window)), u)
           /\ Expired(0) = count
<1>1. window \in Arrays /\ count \in Counts
  BY HeapParts DEF IInv
<1>2. ASSUME NEW u \in Users, NEW j \in 0 .. Len(window)
      PROVE  /\ Expired(j)[u] = Occurrences(SubSeq(window, j + 1, Len(window)), u)
             /\ Expired(j)[u] \in Int
             /\ Expired(j)[u] = count[u] - Occurrences(SubSeq(window, 1, j), u)
             /\ Occurrences(SubSeq(window, 1, j), u) \in 0 .. j
  <2>1. /\ SubSeq(window, 1, j) \in Arrays /\ Len(SubSeq(window, 1, j)) = j
        /\ SubSeq(window, j + 1, Len(window)) \in Arrays
    BY <1>1, PartsOfWindow
  <2>2. /\ Occurrences(SubSeq(window, 1, j), u) \in 0 .. j
        /\ Occurrences(SubSeq(window, j + 1, Len(window)), u)
              \in 0 .. Len(SubSeq(window, j + 1, Len(window)))
    BY <2>1, OccurrencesPlaces
  <2>3. Len(SubSeq(window, j + 1, Len(window))) \in Nat
    BY <2>1 DEF Arrays
  <2>4. count[u] = Occurrences(SubSeq(window, 1, j), u)
                     + Occurrences(SubSeq(window, j + 1, Len(window)), u)
    BY <1>1, OccurrencesSplit DEF IInv, CountsMatchWindow
  <2>5. Expired(j)[u] = count[u] - Occurrences(SubSeq(window, 1, j), u)
    BY DEF Expired
  <2> QED
    BY <2>2, <2>3, <2>4, <2>5
<1>3. Expired(k) \in Counts
  BY <1>2 DEF Expired, Counts
<1>4. Expired(0) = count
  <2>1. 0 \in 0 .. Len(window)
    BY <1>1 DEF Arrays
  <2>2. \A u \in Users : Expired(0)[u] = count[u]
    <3> TAKE u \in Users
    <3>1. count[u] \in Int
      BY <1>1 DEF Counts
    <3>2. Occurrences(SubSeq(window, 1, 0), u) = 0
      BY <1>2, <2>1
    <3> QED
      BY <1>2, <2>1, <3>1, <3>2
  <2>3. Expired(0) = [u \in Users |-> Expired(0)[u]] /\ count = [u \in Users |-> count[u]]
    BY <1>1 DEF Expired, Counts
  <2> QED
    BY <2>2, <2>3
<1> QED
  BY <1>2, <1>3, <1>4

(* What a pick does: the user it serves, the new queue, and the new window.*)
LEMMA PickServes ==
    ASSUME IInv, NEW k \in 0 .. Len(window), Pick(k)
    PROVE  \E u \in waiting :
              /\ count' = Counted(Expired(k), u)
              /\ window' = Append(SubSeq(window, k + 1, Len(window)), u)
              /\ waiting' \subseteq waiting
              /\ heap' \in Arrays /\ Distinct(heap') /\ ToSet(heap') = ToSet(heap)
              /\ Ordered(count', heap')
              /\ Ordered(Expired(k), heap) => \A v \in waiting : Expired(k)[u] <= Expired(k)[v]
<1> DEFINE n == Expired(k)
           p == PollUser(n, heap)
<1>1. n \in Counts
  BY ExpiredCounts
<1>2. heap \in Arrays /\ Distinct(heap) /\ waiting \subseteq ToSet(heap)
  BY HeapParts DEF IInv
<1>3. waiting # {}
  BY DEF Pick
<1> HIDE DEF n
<1>4. p \in Picked(n, heap)
  BY <1>1, <1>2, <1>3, PollUserSound
<1>5. PICK u \in p.users : /\ heap' = p.heap /\ count' = Counted(n, u)
                           /\ window' = Append(SubSeq(window, k + 1, Len(window)), u)
                           /\ waiting' \in {waiting, waiting \ {u}}
  BY DEF Pick, n
<1> HIDE DEF p
<1>6. /\ u \in waiting /\ Ordered(Counted(n, u), p.heap)
      /\ Ordered(n, heap) => \A v \in waiting : n[u] <= n[v]
  BY <1>4, <1>5 DEF Picked
<1>7. p.heap \in Arrays /\ Distinct(p.heap) /\ ToSet(p.heap) = ToSet(heap)
  BY <1>4 DEF Picked
<1> QED
  BY <1>5, <1>6, <1>7 DEF n

-----------------------------------------------------------------------------
(* The invariant holds.                                                    *)

LEMMA EmptyArray ==
    /\ << >> \in Arrays /\ Len(<< >>) = 0 /\ ToSet(<< >>) = {}
    /\ \A u : Occurrences(<< >>, u) = 0
<1>1. << >> \in Arrays /\ Len(<< >>) = 0
  BY EmptySeq DEF Arrays
<1>2. ToSet(<< >>) = {}
  BY <1>1, ArraySet
<1>3. \A u : Occurrences(<< >>, u) \in 0 .. 0
  BY <1>1, OccurrencesPlaces
<1> QED
  BY <1>1, <1>2, <1>3

(* The parts of the queue's soundness make it up.                          *)
LEMMA HeapFromParts ==
    ASSUME NEW h \in Arrays, NEW n \in Counts, Distinct(h), Ordered(n, h)
    PROVE  /\ \A i, j \in DOMAIN h : h[i] = h[j] => i = j
           /\ \A i \in 2 .. Len(h) : n[h[i \div 2]] <= n[h[i]]
<1>1. DOMAIN h = 1 .. Len(h)
  BY DEF Arrays
<1> QED
  BY <1>1 DEF Distinct, Ordered

(* A count that matches the window is within its bound.                    *)
LEMMA CountsBounded ==
    ASSUME NEW w \in Arrays, Len(w) <= MaxWindow, NEW n \in Counts,
           \A u \in Users : n[u] = Occurrences(w, u)
    PROVE  n \in [Users -> 0 .. MaxWindow]
<1>1. Len(w) \in Nat
  BY DEF Arrays
<1>2. ASSUME NEW u \in Users
      PROVE  n[u] \in 0 .. MaxWindow
  <2>1. Occurrences(w, u) \in 0 .. Len(w)
    BY OccurrencesPlaces
  <2> QED
    BY <1>1, <2>1, UserPrioritiesAssumption
<1> QED
  BY <1>2 DEF Counts

LEMMA InitSound == Init => IInv
<1> SUFFICES ASSUME Init PROVE IInv
  OBVIOUS
<1>1. heap = << >> /\ window = << >> /\ waiting = {} /\ count = [u \in Users |-> 0]
  BY DEF Init
<1>2. heap \in Arrays /\ Len(heap) = 0 /\ window \in Arrays /\ Len(window) = 0
  BY <1>1, EmptyArray
<1>3. CountsMatchWindow
  BY <1>1, EmptyArray DEF CountsMatchWindow
<1>4. TypeOK
  BY <1>1, <1>2, UserPrioritiesAssumption DEF TypeOK, Arrays
<1>5. EveryUserQueuedOnce
  BY <1>1, <1>2 DEF EveryUserQueuedOnce, Arrays
<1>6. HeapInOrder
  BY <1>2 DEF HeapInOrder
<1> QED
  BY <1>3, <1>4, <1>5, <1>6 DEF IInv, HeapSound

(* One more run in the window is one more for its user alone.              *)
LEMMA CountedMatches ==
    ASSUME NEW w \in Arrays, NEW n \in Counts, NEW u \in Users,
           \A v \in Users : n[v] = Occurrences(w, v)
    PROVE  \A v \in Users : Counted(n, u)[v] = Occurrences(Append(w, u), v)
BY CountedTyped, OccurrencesAppended

LEMMA PickSound ==
    ASSUME IInv, NEW k \in 0 .. Len(window), Pick(k)
    PROVE  IInv'
<1> DEFINE rest == SubSeq(window, k + 1, Len(window))
<1>1. PICK u \in waiting :
         /\ count' = Counted(Expired(k), u)
         /\ window' = Append(rest, u)
         /\ waiting' \subseteq waiting
         /\ heap' \in Arrays /\ Distinct(heap') /\ ToSet(heap') = ToSet(heap)
         /\ Ordered(count', heap')
  BY PickServes
<1>2. /\ window \in Arrays /\ Len(window) \in 0 .. MaxWindow
      /\ waiting \subseteq ToSet(heap) /\ ToSet(heap) \subseteq Users
  BY HeapParts DEF IInv
<1>3. u \in Users
  BY <1>2
<1>4. rest \in Arrays /\ Len(rest) = Len(window) - k
  BY <1>2, PartsOfWindow
<1>5. Len(window) - k < MaxWindow /\ Len(window) \in Nat /\ k \in Nat
  BY <1>2, UserPrioritiesAssumption DEF Pick
<1>6. /\ Expired(k) \in Counts
      /\ \A v \in Users : Expired(k)[v] = Occurrences(rest, v)
  BY ExpiredCounts
<1> HIDE DEF rest
<1>7. window' \in Arrays /\ Len(window') = Len(rest) + 1
  BY <1>1, <1>3, <1>4 DEF Arrays
<1>8. Len(window') <= MaxWindow
  BY <1>4, <1>5, <1>7, UserPrioritiesAssumption
<1>9. count' \in Counts
  BY <1>1, <1>3, <1>6, CountedTyped
<1>10. CountsMatchWindow'
  <2>1. \A v \in Users : Counted(Expired(k), u)[v] = Occurrences(Append(rest, u), v)
    BY <1>3, <1>4, <1>6, CountedMatches
  <2> QED
    BY <1>1, <2>1 DEF CountsMatchWindow
<1>11. count' \in [Users -> 0 .. MaxWindow]
  BY <1>7, <1>8, <1>9, <1>10, CountsBounded DEF CountsMatchWindow
<1>12. TypeOK'
  BY <1>1, <1>2, <1>7, <1>8, <1>11 DEF TypeOK, Arrays
<1>13. EveryUserQueuedOnce' /\ HeapInOrder'
  BY <1>1, <1>2, <1>9, HeapFromParts DEF EveryUserQueuedOnce, HeapInOrder
<1> QED
  BY <1>10, <1>12, <1>13 DEF IInv, HeapSound

LEMMA NewPendingTaskSound ==
    ASSUME IInv, NEW u \in Users, NewPendingTask(u)
    PROVE  IInv'
<1>1. /\ heap \in Arrays /\ count \in Counts /\ Distinct(heap) /\ Ordered(count, heap)
      /\ waiting \subseteq ToSet(heap) /\ ToSet(heap) \subseteq Users
  BY HeapParts DEF IInv
<1>2. /\ heap' = IF u \in ToSet(heap) THEN heap ELSE Offer(count, heap, u)
      /\ waiting' = waiting \cup {u} /\ count' = count /\ window' = window
  BY DEF NewPendingTask
<1>3. /\ heap' \in Arrays /\ Distinct(heap') /\ Ordered(count, heap')
      /\ ToSet(heap') = ToSet(heap) \cup {u}
  <2>1. CASE u \in ToSet(heap)
    BY <1>1, <1>2, <2>1
  <2>2. CASE u \notin ToSet(heap)
    BY <1>1, <1>2, <2>2, OfferSound
  <2> QED
    BY <2>1, <2>2
<1>4. CountsMatchWindow'
  BY <1>2 DEF IInv, CountsMatchWindow, Occurrences
<1>5. TypeOK'
  BY <1>1, <1>2, <1>3 DEF IInv, HeapSound, TypeOK, Arrays
<1>6. EveryUserQueuedOnce' /\ HeapInOrder'
  BY <1>1, <1>2, <1>3, HeapFromParts DEF EveryUserQueuedOnce, HeapInOrder
<1> QED
  BY <1>4, <1>5, <1>6 DEF IInv, HeapSound

LEMMA StepSound == IInv /\ [Next]_vars => IInv'
<1> SUFFICES ASSUME IInv, [Next]_vars PROVE IInv'
  OBVIOUS
<1>1. ASSUME NEW k \in 0 .. Len(window), Pick(k) PROVE IInv'
  BY <1>1, PickSound
<1>2. ASSUME NEW u \in Users, NewPendingTask(u) PROVE IInv'
  BY <1>2, NewPendingTaskSound
<1>3. ASSUME NEW u \in Users, CancelLast(u) PROVE IInv'
  <2>1. /\ waiting' = waiting \ {u} /\ heap' = heap /\ count' = count /\ window' = window
    BY <1>3 DEF CancelLast
  <2> QED
    BY <2>1 DEF IInv, HeapSound, TypeOK, EveryUserQueuedOnce, HeapInOrder,
                CountsMatchWindow, Occurrences
<1>4. CASE UNCHANGED vars
  BY <1>4 DEF vars, IInv, HeapSound, TypeOK, EveryUserQueuedOnce, HeapInOrder,
              CountsMatchWindow, Occurrences
<1> QED
  BY <1>1, <1>2, <1>3, <1>4 DEF Next

(* The policy keeps its invariant, for any users, any window, and whatever *)
(* part of the window has expired when a worker picks.                     *)
THEOREM PolicySound == Spec => []IInv
<1>1. Init => IInv
  BY InitSound
<1>2. IInv /\ [Next]_vars => IInv'
  BY StepSound
<1> QED
  BY <1>1, <1>2, PTL DEF Spec

(* The queue that getPendingTask rebuilds on every pick has every user     *)
(* once, every user with pending work among them, and is a heap again for  *)
(* the counts as they are after the pick: userPriorities is sound between  *)
(* two calls, though the counts in it were lowered under its feet.         *)
THEOREM HeapIsSound == Spec => []HeapSound
<1>1. IInv => HeapSound
  BY DEF IInv
<1> QED
  BY <1>1, PolicySound, PTL

(* TasksInWindow.count of a user is the number of its runs in              *)
(* executedTaskWindow: none is counted down twice or never.                *)
THEOREM CountsAreExact == Spec => []CountsMatchWindow
<1>1. IInv => CountsMatchWindow
  BY DEF IInv
<1> QED
  BY <1>1, PolicySound, PTL

(* The pick that finds nothing expired serves a user with pending work     *)
(* than whom no other one with pending work had fewer recent runs.         *)
THEOREM LeastActiveServed == Spec => LeastActiveIsServed
<1>1. ASSUME IInv, Pick(0), NEW u \in Users, Served(u), NEW v \in waiting
      PROVE  count[u] <= count[v]
  <2>1. /\ window \in Arrays /\ count \in Counts /\ Ordered(count, heap)
        /\ waiting \subseteq Users
    BY <1>1, HeapParts DEF IInv
  <2>2. 0 \in 0 .. Len(window)
    BY <2>1 DEF Arrays
  <2>3. Expired(0) = count
    BY <1>1, <2>2, ExpiredCounts
  <2> DEFINE rest == SubSeq(window, 0 + 1, Len(window))
  <2>4. PICK w \in waiting : /\ window' = Append(rest, w)
                             /\ Ordered(count, heap) => \A x \in waiting : count[w] <= count[x]
    BY <1>1, <2>2, <2>3, PickServes
  <2>5. rest \in Arrays
    BY <2>1, <2>2, PartsOfWindow
  <2> HIDE DEF rest
  <2>6. Last(window') = w
    BY <2>1, <2>4, <2>5 DEF Last, Arrays
  <2>7. u = w
    BY <1>1, <2>6 DEF Served, ServedLast
  <2> QED
    BY <2>1, <2>4, <2>7
<1>2. IInv /\ [Next]_vars =>
        [Pick(0) => \A u \in Users : Served(u) => \A v \in waiting : count[u] <= count[v]]_vars
  BY <1>1
<1> QED
  BY <1>2, PolicySound, PTL DEF Spec, LeastActiveIsServed

(* "assert result != null" in getPendingTask: while any user has pending   *)
(* work, the search finds one, whatever part of the window has expired and *)
(* however much the heap is out of order for the lowered counts.           *)
SearchFinds ==
    waiting # {} => \A k \in 0 .. Len(window) :
                       \E u \in waiting : PollUser(Expired(k), heap).users = {u}

THEOREM SearchAlwaysFinds == Spec => []SearchFinds
<1>1. IInv => SearchFinds
  <2> SUFFICES ASSUME IInv, waiting # {}, NEW k \in 0 .. Len(window)
               PROVE  \E u \in waiting : PollUser(Expired(k), heap).users = {u}
    BY DEF SearchFinds
  <2>1. heap \in Arrays /\ Distinct(heap) /\ waiting \subseteq ToSet(heap)
    BY HeapParts DEF IInv
  <2>2. Expired(k) \in Counts
    BY ExpiredCounts
  <2>3. PollUser(Expired(k), heap) \in Picked(Expired(k), heap)
    BY <2>1, <2>2, PollUserSound
  <2> QED
    BY <2>3 DEF Picked
<1> QED
  BY <1>1, PolicySound, PTL
=============================================================================
