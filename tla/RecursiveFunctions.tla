------------------------- MODULE RecursiveFunctions -------------------------
(***************************************************************************)
(* Recursive functions of two forms, for the proofs about them.  A loop:   *)
(* f[x] is result[x] when it ends at x and f[next[x]] when it goes on.  A  *)
(* fold: f[0] is given, and f[k] is step[k][f[k - 1]].  The provers do not *)
(* instantiate the library's induction theorems, whose parameter is an     *)
(* operator; here all parameters are sets and functions.                   *)
(***************************************************************************)
EXTENDS Integers, WellFoundedInduction, TLAPS

(* A set of natural numbers that is not empty has a least element.         *)
LEMMA LeastNumber ==
    ASSUME NEW S \in SUBSET Nat, S # {}
    PROVE  \E m \in S : \A k \in S : m <= k
<1>1. PICK m \in S : \A k \in S : <<k, m>> \notin OpToRel(<, Nat)
  BY NatLessThanWellFounded, WFMin
<1>2. ASSUME NEW k \in S
      PROVE  m <= k
  <2>1. ~ k < m
    BY <1>1 DEF OpToRel
  <2> QED
    BY <2>1
<1> QED
  BY <1>2

(* From x in D the loop ends with a result or goes on with a smaller rank. *)
Loop(D, Base, next, rank) ==
    /\ rank \in [D -> Nat]
    /\ \A x \in D : x \notin Base => next[x] \in D /\ rank[next[x]] < rank[x]

Step(D, Base, result, next, f) ==
    [x \in D |-> IF x \in Base THEN result[x] ELSE f[next[x]]]

LoopFunction(D, Base, result, next, f) == f = Step(D, Base, result, next, f)

Keeps(D, Base, result, next, I, Post) ==
    /\ I \subseteq D
    /\ \A x \in I : IF x \in Base THEN result[x] \in Post ELSE next[x] \in I

(* What holds before the loop and is kept by its steps holds at its end.   *)
LEMMA LoopInvariant ==
    ASSUME NEW D, NEW Base, NEW result, NEW next, NEW rank, Loop(D, Base, next, rank),
           NEW f, LoopFunction(D, Base, result, next, f),
           NEW I, NEW Post, Keeps(D, Base, result, next, I, Post), NEW start \in I
    PROVE  f[start] \in Post
<1> DEFINE Bad == {x \in I : f[x] \notin Post}
           Ranks == {rank[x] : x \in Bad}
<1>1. SUFFICES ASSUME start \in Bad
               PROVE  FALSE
  OBVIOUS
<1>2. Ranks \in SUBSET Nat /\ Ranks # {}
  BY <1>1 DEF Loop, Keeps
<1>3. PICK x \in Bad : \A y \in Bad : rank[x] <= rank[y]
  <2>1. PICK r \in Ranks : \A k \in Ranks : r <= k
    BY <1>2, LeastNumber
  <2> QED
    BY <2>1
<1>4. f[x] = IF x \in Base THEN result[x] ELSE f[next[x]]
  BY <1>3 DEF LoopFunction, Step, Keeps
<1>5. x \notin Base /\ next[x] \in Bad
  BY <1>3, <1>4 DEF Keeps
<1>6. rank[next[x]] < rank[x] /\ rank[next[x]] \in Nat /\ rank[x] \in Nat
  BY <1>3, <1>5 DEF Loop, Keeps
<1> QED
  BY <1>3, <1>5, <1>6

(* The loop is defined up to a rank.                                       *)
Below(D, rank, m) == {x \in D : rank[x] < m}

Computes(D, Base, result, next, rank, m, f) ==
    \A x \in Below(D, rank, m) : f[x] = IF x \in Base THEN result[x] ELSE f[next[x]]

LEMMA ComputesUnique ==
    ASSUME NEW D, NEW Base, NEW result, NEW next, NEW rank, Loop(D, Base, next, rank),
           NEW m \in Nat, NEW f, Computes(D, Base, result, next, rank, m, f),
           NEW k \in Nat, NEW g, Computes(D, Base, result, next, rank, k, g),
           NEW start \in D, rank[start] < m, rank[start] < k
    PROVE  f[start] = g[start]
<1> DEFINE Bad == {x \in D : rank[x] < m /\ rank[x] < k /\ f[x] # g[x]}
           Ranks == {rank[x] : x \in Bad}
<1>1. SUFFICES ASSUME start \in Bad
               PROVE  FALSE
  OBVIOUS
<1>2. Ranks \in SUBSET Nat /\ Ranks # {}
  BY <1>1 DEF Loop
<1>3. PICK x \in Bad : \A y \in Bad : rank[x] <= rank[y]
  <2>1. PICK r \in Ranks : \A j \in Ranks : r <= j
    BY <1>2, LeastNumber
  <2> QED
    BY <2>1
<1>4. /\ f[x] = IF x \in Base THEN result[x] ELSE f[next[x]]
      /\ g[x] = IF x \in Base THEN result[x] ELSE g[next[x]]
  BY <1>3 DEF Computes, Below
<1>5. x \notin Base /\ f[next[x]] # g[next[x]]
  BY <1>3, <1>4
<1>6. next[x] \in D /\ rank[next[x]] < rank[x] /\ rank[next[x]] \in Nat /\ rank[x] \in Nat
  BY <1>3, <1>5 DEF Loop
<1> QED
  BY <1>3, <1>5, <1>6

LEMMA ComputesExists ==
    ASSUME NEW D, NEW Base, NEW result, NEW next, NEW rank, Loop(D, Base, next, rank),
           NEW m \in Nat
    PROVE  \E f : Computes(D, Base, result, next, rank, m, f)
<1> DEFINE Has(k) == \E f : Computes(D, Base, result, next, rank, k, f)
           Bad == {k \in Nat : ~ Has(k)}
<1>1. SUFFICES ASSUME m \in Bad
               PROVE  FALSE
  OBVIOUS
<1>2. PICK k \in Bad : \A j \in Bad : k <= j
  <2> HIDE DEF Has
  <2> QED
    BY <1>1, LeastNumber
<1>3. Has(0)
  BY DEF Computes, Below, Loop
<1>4. k # 0 /\ k - 1 \in Nat /\ Has(k - 1)
  <2> HIDE DEF Has
  <2> QED
    BY <1>2, <1>3
<1>5. PICK f : Computes(D, Base, result, next, rank, k - 1, f)
  BY <1>4
<1> DEFINE g == Step(D, Base, result, next, f)
<1>6. Computes(D, Base, result, next, rank, k, g)
  <2>1. SUFFICES ASSUME NEW x \in D, rank[x] < k, x \notin Base
                 PROVE  g[x] = g[next[x]]
    BY DEF Computes, Below, Step
  <2>2. next[x] \in D /\ rank[next[x]] < k - 1
    BY <1>2, <2>1 DEF Loop
  <2>3. g[x] = f[next[x]]
    BY <2>1 DEF Step
  <2>4. f[next[x]] = IF next[x] \in Base THEN result[next[x]] ELSE f[next[next[x]]]
    BY <1>5, <2>2 DEF Computes, Below
  <2> QED
    BY <2>2, <2>3, <2>4 DEF Step
<1> QED
  BY <1>2, <1>6

(* The recursive function exists.                                          *)
LEMMA LoopExists ==
    ASSUME NEW D, NEW Base, NEW result, NEW next, NEW rank, Loop(D, Base, next, rank)
    PROVE  \E f : LoopFunction(D, Base, result, next, f)
<1> DEFINE C(m) == CHOOSE f : Computes(D, Base, result, next, rank, m, f)
           f == [x \in D |-> C(rank[x] + 1)[x]]
<1>1. \A m \in Nat : Computes(D, Base, result, next, rank, m, C(m))
  BY ComputesExists
<1> HIDE DEF C
<1>2. ASSUME NEW x \in D, x \notin Base
      PROVE  f[x] = f[next[x]]
  <2> DEFINE y == next[x]
  <2>1. y \in D /\ rank[y] < rank[x] /\ rank[x] \in Nat /\ rank[y] \in Nat
    BY <1>2 DEF Loop
  <2> HIDE DEF y
  <2>2. C(rank[x] + 1)[x] = C(rank[x] + 1)[next[x]]
    BY <1>1, <1>2, <2>1 DEF Computes, Below
  <2>3. C(rank[x] + 1)[y] = C(rank[y] + 1)[y]
    <3> DEFINE m == rank[x] + 1
               k == rank[y] + 1
    <3>1. m \in Nat /\ k \in Nat /\ rank[y] < m /\ rank[y] < k
      BY <2>1
    <3>2. Computes(D, Base, result, next, rank, m, C(m))
            /\ Computes(D, Base, result, next, rank, k, C(k))
      BY <1>1, <3>1
    <3> HIDE DEF m, k
    <3>3. ASSUME NEW g, Computes(D, Base, result, next, rank, m, g),
                 NEW h, Computes(D, Base, result, next, rank, k, h)
          PROVE  g[y] = h[y]
      BY <2>1, <3>1, <3>3, ComputesUnique
    <3>4. C(m)[y] = C(k)[y]
      BY <3>2, <3>3
    <3> QED
      BY <3>4 DEF m, k
  <2> QED
    BY <2>1, <2>2, <2>3 DEF y
<1>3. ASSUME NEW x \in D, x \in Base
      PROVE  f[x] = result[x]
  <2>1. rank[x] \in Nat
    BY <1>3 DEF Loop
  <2> QED
    BY <1>1, <1>3, <2>1 DEF Computes, Below
<1>4. f = Step(D, Base, result, next, f)
  <2> HIDE DEF f
  <2>1. f = [x \in D |-> f[x]]
    BY DEF f
  <2> QED
    BY <1>2, <1>3, <2>1 DEF Step
<1> QED
  BY <1>4 DEF LoopFunction

(* The two together, for the function that a definition chooses.           *)
TheLoop(D, Base, result, next) == CHOOSE f : LoopFunction(D, Base, result, next, f)

LEMMA LoopEnds ==
    ASSUME NEW D, NEW Base, NEW result, NEW next, NEW rank, Loop(D, Base, next, rank),
           NEW I, NEW Post, Keeps(D, Base, result, next, I, Post), NEW start \in I
    PROVE  TheLoop(D, Base, result, next)[start] \in Post
<1>1. LoopFunction(D, Base, result, next, TheLoop(D, Base, result, next))
  BY LoopExists DEF TheLoop
<1> QED
  BY <1>1, LoopInvariant

-----------------------------------------------------------------------------
(* Folds.                                                                  *)

(* What holds at 0 and is handed on from k - 1 to k holds up to n.         *)
LEMMA Upwards ==
    ASSUME NEW n \in Nat, NEW T \in SUBSET (0 .. n), 0 \in T,
           \A k \in 1 .. n : k - 1 \in T => k \in T
    PROVE  \A k \in 0 .. n : k \in T
<1> SUFFICES ASSUME NEW bad \in 0 .. n, bad \notin T PROVE FALSE
  OBVIOUS
<1> DEFINE S == {k \in 0 .. n : k \notin T}
<1>1. S \in SUBSET Nat /\ S # {}
  OBVIOUS
<1>2. PICK m \in S : \A k \in S : m <= k
  BY <1>1, LeastNumber
<1>3. m \in 1 .. n /\ m - 1 \in 0 .. n
  BY <1>2
<1>4. m - 1 \in T
  BY <1>2, <1>3
<1> QED
  BY <1>2, <1>3, <1>4

Fold(n, base, step, f) ==
    /\ f[0] = base
    /\ \A k \in 1 .. n : f[k] = step[k][f[k - 1]]

LEMMA FoldExists ==
    ASSUME NEW D, NEW n \in Nat, NEW base \in D, NEW step \in [1 .. n -> [D -> D]]
    PROVE  \E f \in [0 .. n -> D] : Fold(n, base, step, f)
<1> DEFINE T == {k \in 0 .. n : \E f \in [0 .. k -> D] : Fold(k, base, step, f)}
<1>1. 0 \in T
  <2>1. [k \in 0 .. 0 |-> base] \in [0 .. 0 -> D]
    OBVIOUS
  <2>2. Fold(0, base, step, [k \in 0 .. 0 |-> base])
    BY DEF Fold
  <2> QED
    BY <2>1, <2>2
<1>2. ASSUME NEW k \in 1 .. n, k - 1 \in T
      PROVE  k \in T
  <2>1. PICK f \in [0 .. k - 1 -> D] : Fold(k - 1, base, step, f)
    BY <1>2
  <2> DEFINE g == [i \in 0 .. k |-> IF i = k THEN step[k][f[k - 1]] ELSE f[i]]
  <2>2. f[k - 1] \in D
    BY <1>2, <2>1
  <2>3. step[k][f[k - 1]] \in D
    BY <1>2, <2>2
  <2>4. g \in [0 .. k -> D]
    <3>1. \A i \in 0 .. k : i # k => i \in 0 .. k - 1
      BY <1>2
    <3> QED
      BY <2>1, <2>3, <3>1
  <2>5. g[0] = base
    BY <1>2, <2>1 DEF Fold
  <2>6. ASSUME NEW i \in 1 .. k
        PROVE  g[i] = step[i][g[i - 1]]
    <3>1. i - 1 \in 0 .. k /\ i - 1 # k /\ i \in 0 .. k
      BY <1>2, <2>6
    <3>2. g[i - 1] = f[i - 1]
      BY <3>1
    <3>3. CASE i = k
      BY <3>1, <3>2, <3>3
    <3>4. CASE i # k
      <4>1. i \in 1 .. k - 1 /\ g[i] = f[i]
        BY <1>2, <2>6, <3>1, <3>4
      <4> QED
        BY <2>1, <3>2, <4>1 DEF Fold
    <3> QED
      BY <3>3, <3>4
  <2> HIDE DEF g
  <2>7. Fold(k, base, step, g)
    BY <2>5, <2>6 DEF Fold
  <2> QED
    BY <1>2, <2>4, <2>7
<1> HIDE DEF T
<1>3. T \in SUBSET (0 .. n)
  BY DEF T
<1>4. \A k \in 0 .. n : k \in T
  BY <1>1, <1>2, <1>3, Upwards
<1>5. n \in T
  BY <1>4
<1> QED
  BY <1>5 DEF T
=============================================================================
