---------------------------- MODULE ScoreProofs ----------------------------
(***************************************************************************)
(* The score of a run, for any rubric and any log files: its comments      *)
(* account for every point, the results and the tests that passed are paid,*)
(* and no part leaves its bounds.  The loops over lines and files are      *)
(* folds, and what they carry along is a sum.  The search for failures     *)
(* goes through the reports of all classes from line to line: Path says    *)
(* where it stopped, Read what it has found at the end of some of the text.*)
(***************************************************************************)
EXTENDS Score, RecursiveFunctions, SequenceTheorems

-----------------------------------------------------------------------------
(* Sums.                                                                   *)

PrefixSums(s, f) ==
    /\ f \in [0 .. Len(s) -> Int] /\ f[0] = 0
    /\ \A k \in 1 .. Len(s) : f[k] = f[k - 1] + s[k]

LEMMA SumIsPrefixSum ==
    ASSUME NEW s \in Seq(Int)
    PROVE  \E f : PrefixSums(s, f) /\ Sum(s) = f[Len(s)]
<1> DEFINE n == Len(s)
           G(f) == [k \in 0 .. n |-> IF k = 0 THEN 0 ELSE f[k - 1] + s[k]]
           Adds(k) == [x \in Int |-> x + s[k]]
           step == [k \in 1 .. n |-> Adds(k)]
           sum == CHOOSE f : f = G(f)
<1>1. n \in Nat /\ \A k \in 1 .. n : s[k] \in Int
  OBVIOUS
<1>2. PICK g \in [0 .. n -> Int] : Fold(n, 0, step, g)
  <2>1. ASSUME NEW k \in 1 .. n
        PROVE  Adds(k) \in [Int -> Int]
    <3>1. s[k] \in Int
      BY <1>1
    <3>2. \A x \in Int : x + s[k] \in Int
      BY <3>1
    <3> QED
      BY <3>2
  <2> HIDE DEF Adds
  <2>2. step \in [1 .. n -> [Int -> Int]]
    BY <2>1
  <2>3. 0 \in Int
    OBVIOUS
  <2> HIDE DEF step, n
  <2> QED
    BY <1>1, <2>2, <2>3, FoldExists
<1>3. g = G(g)
  <2>1. ASSUME NEW k \in 0 .. n
        PROVE  g[k] = IF k = 0 THEN 0 ELSE g[k - 1] + s[k]
    <3>1. CASE k = 0
      BY <1>2, <3>1 DEF Fold
    <3>2. CASE k # 0
      <4>1. k \in 1 .. n /\ k - 1 \in 0 .. n
        BY <1>1, <3>2
      <4>2. g[k] = step[k][g[k - 1]] /\ g[k - 1] \in Int
        BY <1>2, <4>1 DEF Fold
      <4> QED
        BY <3>2, <4>1, <4>2
    <3> QED
      BY <3>1, <3>2
  <2> QED
    BY <1>2, <2>1
<1>4. sum = G(sum)
  <2> HIDE DEF G
  <2> QED
    BY <1>3
<1>5. Sum(s) = sum[n]
  BY Zenon DEF Sum
<1> HIDE DEF sum
<1>6. DOMAIN sum = 0 .. n
  BY <1>4
<1>7. ASSUME NEW k \in 0 .. n
      PROVE  sum[k] = IF k = 0 THEN 0 ELSE sum[k - 1] + s[k]
  BY <1>4
<1>8. \A k \in 0 .. n : sum[k] \in Int
  <2> DEFINE T == {i \in 0 .. n : sum[i] \in Int}
  <2>1. 0 \in T
    BY <1>1, <1>7
  <2>2. ASSUME NEW k \in 1 .. n, k - 1 \in T
        PROVE  k \in T
    <3>1. k \in 0 .. n /\ k # 0
      BY <1>1
    <3>2. sum[k] = sum[k - 1] + s[k] /\ s[k] \in Int
      BY <1>1, <1>7, <3>1
    <3>3. sum[k - 1] \in Int
      BY <2>2
    <3> QED
      BY <3>1, <3>2, <3>3
  <2> HIDE DEF n
  <2>3. T \in SUBSET (0 .. n)
    OBVIOUS
  <2> HIDE DEF T
  <2>4. \A k \in 0 .. n : k \in T
    BY <1>1, <2>1, <2>2, <2>3, Upwards
  <2> QED
    BY <2>4 DEF T
<1>9. sum = [k \in 0 .. n |-> sum[k]]
  BY <1>4
<1>10. PrefixSums(s, sum)
  <2>1. sum \in [0 .. n -> Int]
    BY <1>8, <1>9
  <2>2. \A k \in 1 .. n : k \in 0 .. n /\ k # 0
    BY <1>1
  <2>3. sum[0] = 0
    BY <1>1, <1>7
  <2> HIDE DEF G
  <2> QED
    BY <1>7, <2>1, <2>2, <2>3 DEF PrefixSums
<1> QED
  BY <1>5, <1>10

LEMMA SumUnique ==
    ASSUME NEW s \in Seq(Int), NEW f, PrefixSums(s, f)
    PROVE  Sum(s) = f[Len(s)]
<1> DEFINE n == Len(s)
<1>1. n \in Nat
  OBVIOUS
<1>2. PICK g : PrefixSums(s, g) /\ Sum(s) = g[n]
  BY SumIsPrefixSum
<1> DEFINE T == {i \in 0 .. n : f[i] = g[i]}
<1>3. 0 \in T
  BY <1>1, <1>2 DEF PrefixSums
<1>4. ASSUME NEW k \in 1 .. n, k - 1 \in T
      PROVE  k \in T
  BY <1>2, <1>4 DEF PrefixSums
<1> HIDE DEF n
<1>5. T \in SUBSET (0 .. n)
  OBVIOUS
<1> HIDE DEF T
<1>6. n \in T
  <2>1. \A k \in 0 .. n : k \in T
    BY <1>1, <1>3, <1>4, <1>5, Upwards
  <2> QED
    BY <1>1, <2>1
<1> QED
  BY <1>2, <1>6 DEF T, n

LEMMA SumType ==
    ASSUME NEW s \in Seq(Int)
    PROVE  Sum(s) \in Int
<1>1. PICK f : PrefixSums(s, f) /\ Sum(s) = f[Len(s)]
  BY SumIsPrefixSum
<1>2. Len(s) \in 0 .. Len(s)
  OBVIOUS
<1> QED
  BY <1>1, <1>2 DEF PrefixSums

LEMMA SumOfNone == Sum(<<>>) = 0
<1>1. <<>> \in Seq(Int) /\ Len(<<>>) = 0
  OBVIOUS
<1>2. PICK f : PrefixSums(<<>>, f) /\ Sum(<<>>) = f[0]
  BY <1>1, SumIsPrefixSum
<1> QED
  BY <1>2 DEF PrefixSums

LEMMA SumOfOne ==
    ASSUME NEW x \in Int
    PROVE  Sum(<<x>>) = x
<1>1. <<x>> \in Seq(Int) /\ Len(<<x>>) = 1 /\ <<x>>[1] = x
  OBVIOUS
<1>2. PICK f : PrefixSums(<<x>>, f) /\ Sum(<<x>>) = f[1]
  BY <1>1, SumIsPrefixSum
<1>3. 1 \in 1 .. 1 /\ 1 - 1 = 0
  OBVIOUS
<1>4. f[1] = f[0] + x /\ f[0] = 0
  BY <1>1, <1>2, <1>3 DEF PrefixSums
<1> QED
  BY <1>2, <1>4

LEMMA SumOfBoth ==
    ASSUME NEW a \in Seq(Int), NEW b \in Seq(Int)
    PROVE  a \o b \in Seq(Int) /\ Sum(a \o b) = Sum(a) + Sum(b)
<1> DEFINE m == Len(a)
           n == Len(b)
           s == a \o b
<1>1. m \in Nat /\ n \in Nat
  OBVIOUS
<1>2. /\ s \in Seq(Int) /\ Len(s) = m + n
      /\ \A i \in 1 .. m + n : s[i] = IF i <= m THEN a[i] ELSE b[i - m]
  OBVIOUS
<1>3. PICK f : PrefixSums(a, f) /\ Sum(a) = f[m]
  BY SumIsPrefixSum
<1>4. PICK g : PrefixSums(b, g) /\ Sum(b) = g[n]
  BY SumIsPrefixSum
<1> DEFINE h == [i \in 0 .. m + n |-> IF i <= m THEN f[i] ELSE f[m] + g[i - m]]
<1> HIDE DEF s
<1>5. /\ \A i \in 0 .. m : f[i] \in Int
      /\ \A i \in 0 .. n : g[i] \in Int
      /\ \A i \in 1 .. m : f[i] = f[i - 1] + a[i] /\ a[i] \in Int
      /\ \A i \in 1 .. n : g[i] = g[i - 1] + b[i] /\ b[i] \in Int
      /\ f[0] = 0 /\ g[0] = 0
  <2>1. \A i \in 1 .. m : a[i] \in Int
    OBVIOUS
  <2>2. \A i \in 1 .. n : b[i] \in Int
    OBVIOUS
  <2> HIDE DEF m, n
  <2>3. /\ f \in [0 .. m -> Int] /\ f[0] = 0 /\ \A i \in 1 .. m : f[i] = f[i - 1] + a[i]
    BY <1>3 DEF PrefixSums, m
  <2>4. /\ g \in [0 .. n -> Int] /\ g[0] = 0 /\ \A i \in 1 .. n : g[i] = g[i - 1] + b[i]
    BY <1>4 DEF PrefixSums, n
  <2> QED
    BY <2>1, <2>2, <2>3, <2>4
<1> HIDE DEF m, n
<1>6. h \in [0 .. m + n -> Int]
  <2>1. \A i \in 0 .. m + n : i > m => i - m \in 0 .. n
    BY <1>1
  <2>2. m \in 0 .. m /\ \A i \in 0 .. m + n : i <= m => i \in 0 .. m
    BY <1>1
  <2>3. \A i \in 0 .. m + n : ~ i <= m => i > m
    BY <1>1
  <2> QED
    BY <1>5, <2>1, <2>2, <2>3
<1>7. ASSUME NEW i \in 1 .. m + n
      PROVE  h[i] = h[i - 1] + s[i]
  <2>1. i \in 0 .. m + n /\ i - 1 \in 0 .. m + n
    BY <1>1
  <2>2. CASE i <= m
    <3>1. i \in 1 .. m /\ i - 1 <= m
      BY <1>1, <2>2
    <3> QED
      BY <1>2, <1>5, <2>1, <2>2, <3>1
  <2>3. CASE i = m + 1
    <3>1. i - m = 1 /\ i - 1 = m /\ ~ i <= m /\ 1 \in 1 .. n /\ 1 - 1 = 0
      BY <1>1, <2>3
    <3>2. g[1] = g[0] + b[1] /\ b[1] \in Int /\ f[m] \in Int
      <4>1. m \in 0 .. m
        BY <1>1
      <4> QED
        BY <1>5, <3>1, <4>1
    <3>3. h[i] = f[m] + g[1] /\ h[i - 1] = f[m] /\ s[i] = b[1]
      BY <1>1, <1>2, <2>1, <3>1
    <3> QED
      BY <1>5, <3>2, <3>3
  <2>4. CASE i > m + 1
    <3>1. /\ ~ i <= m /\ ~ i - 1 <= m /\ i - m \in 1 .. n
          /\ (i - 1) - m = (i - m) - 1 /\ (i - m) - 1 \in 0 .. n /\ i - m \in 0 .. n
      BY <1>1, <2>4
    <3>2. /\ g[i - m] = g[(i - m) - 1] + b[i - m] /\ b[i - m] \in Int /\ f[m] \in Int
          /\ g[(i - m) - 1] \in Int
      <4>1. m \in 0 .. m
        BY <1>1
      <4> QED
        BY <1>5, <3>1, <4>1
    <3>3. h[i] = f[m] + g[i - m] /\ h[i - 1] = f[m] + g[(i - m) - 1] /\ s[i] = b[i - m]
      BY <1>2, <2>1, <3>1
    <3> QED
      BY <3>2, <3>3
  <2> QED
    BY <1>1, <2>2, <2>3, <2>4
<1>8. h[0] = 0 /\ h[m + n] = f[m] + g[n]
  <2>1. 0 \in 0 .. m + n /\ m + n \in 0 .. m + n /\ 0 <= m
    BY <1>1
  <2>2. CASE n = 0
    BY <1>1, <1>5, <2>1, <2>2
  <2>3. CASE n # 0
    <3>1. ~ m + n <= m /\ (m + n) - m = n
      BY <1>1, <2>3
    <3> QED
      BY <1>5, <2>1, <3>1
  <2> QED
    BY <2>2, <2>3
<1> HIDE DEF h
<1>9. PrefixSums(s, h)
  BY <1>2, <1>6, <1>7, <1>8 DEF PrefixSums
<1>10. Sum(s) = h[m + n]
  BY <1>2, <1>9, SumUnique
<1> QED
  BY <1>2, <1>3, <1>4, <1>8, <1>10 DEF s, m, n

(* RemoveAt closes the gap: what stood behind the element moves forward.   *)
LEMMA RemovedFrom ==
    ASSUME NEW S, NEW q \in Seq(S), NEW k \in 1 .. Len(q)
    PROVE  /\ RemoveAt(q, k) \in Seq(S) /\ Len(RemoveAt(q, k)) = Len(q) - 1
           /\ \A i \in 1 .. Len(q) - 1 :
                 RemoveAt(q, k)[i] = IF i < k THEN q[i] ELSE q[i + 1]
<1> DEFINE before == SubSeq(q, 1, k - 1)
           behind == SubSeq(q, k + 1, Len(q))
<1>1. /\ before \in Seq(S) /\ Len(before) = k - 1
      /\ \A i \in 1 .. k - 1 : before[i] = q[i]
  OBVIOUS
<1>2. /\ behind \in Seq(S) /\ Len(behind) = Len(q) - k
      /\ \A i \in 1 .. Len(q) - k : behind[i] = q[k + i]
  OBVIOUS
<1>3. RemoveAt(q, k) = before \o behind
  BY DEF RemoveAt
<1>4. Len(q) \in Nat /\ k \in 1 .. Len(q)
  OBVIOUS
<1> HIDE DEF before, behind
<1>5. before \o behind \in Seq(S) /\ Len(before \o behind) = Len(q) - 1
  <2>1. before \o behind \in Seq(S) /\ Len(before \o behind) = Len(before) + Len(behind)
    BY <1>1, <1>2, ConcatProperties
  <2> QED
    BY <1>1, <1>2, <1>4, <2>1
<1>6. ASSUME NEW i \in 1 .. Len(q) - 1
      PROVE  (before \o behind)[i] = IF i < k THEN q[i] ELSE q[i + 1]
  <2>1. (before \o behind)[i] = IF i <= Len(before) THEN before[i]
                                                   ELSE behind[i - Len(before)]
    BY <1>1, <1>2, <1>4
  <2>2. CASE i < k
    BY <1>1, <1>4, <2>1, <2>2
  <2>3. CASE ~ i < k
    <3>1. ~ i <= Len(before) /\ i - Len(before) \in 1 .. Len(q) - k
          /\ k + (i - Len(before)) = i + 1
      BY <1>1, <1>4, <2>3
    <3> QED
      BY <1>2, <2>1, <2>3, <3>1
  <2> QED
    BY <2>2, <2>3
<1> QED
  BY <1>3, <1>5, <1>6

LEMMA SumOfRest ==
    ASSUME NEW s \in Seq(Int), NEW j \in 1 .. Len(s)
    PROVE  Sum(RemoveAt(s, j)) = Sum(s) - s[j]
<1> DEFINE n == Len(s)
           r == RemoveAt(s, j)
           x == s[j]
<1>1. n \in Nat /\ j \in 1 .. n /\ x \in Int
  OBVIOUS
<1>2. /\ r \in Seq(Int) /\ Len(r) = n - 1
      /\ \A i \in 1 .. n - 1 : r[i] = IF i < j THEN s[i] ELSE s[i + 1]
  BY RemovedFrom
<1>3. PICK f : PrefixSums(s, f) /\ Sum(s) = f[n]
  BY SumIsPrefixSum
<1> DEFINE h == [i \in 0 .. n - 1 |-> IF i < j THEN f[i] ELSE f[i + 1] - x]
<1> HIDE DEF r
<1>4. /\ \A i \in 0 .. n : f[i] \in Int
      /\ \A i \in 1 .. n : f[i] = f[i - 1] + s[i]
      /\ f[0] = 0
  BY <1>3 DEF PrefixSums
<1>5. \A i \in 1 .. n : s[i] \in Int
  OBVIOUS
<1>6. f[j] = f[j - 1] + x /\ f[j - 1] \in Int
  <2>1. j - 1 \in 0 .. n
    BY <1>1
  <2> QED
    BY <1>1, <1>4, <2>1
<1> HIDE DEF n
<1>7. h \in [0 .. n - 1 -> Int]
  <2>1. \A i \in 0 .. n - 1 : i \in 0 .. n /\ i + 1 \in 0 .. n
    BY <1>1
  <2> HIDE DEF x
  <2> QED
    BY <1>1, <1>4, <2>1
<1> HIDE DEF x
<1>8. ASSUME NEW i \in 1 .. n - 1
      PROVE  h[i] = h[i - 1] + r[i]
  <2>1. i \in 0 .. n - 1 /\ i - 1 \in 0 .. n - 1 /\ i \in 1 .. n /\ i + 1 \in 1 .. n
        /\ (i + 1) - 1 = i /\ (i - 1) + 1 = i /\ i - 1 \in 0 .. n
    BY <1>1
  <2>2. /\ f[i] = f[i - 1] + s[i] /\ f[i + 1] = f[i] + s[i + 1]
        /\ s[i] \in Int /\ s[i + 1] \in Int /\ f[i - 1] \in Int /\ f[i] \in Int
    BY <1>4, <1>5, <2>1
  <2>3. CASE i < j
    <3>1. i - 1 < j
      BY <1>1, <2>3
    <3> QED
      BY <1>2, <2>1, <2>2, <2>3, <3>1
  <2>4. CASE i = j
    <3>1. ~ i < j /\ i - 1 < j
      BY <1>1, <2>4
    <3>2. h[i] = f[i + 1] - x /\ h[i - 1] = f[i - 1] /\ r[i] = s[i + 1]
      BY <1>2, <2>1, <3>1
    <3>3. f[i] = f[i - 1] + x
      BY <1>6, <2>4
    <3> HIDE DEF h
    <3> QED
      BY <1>1, <2>2, <3>2, <3>3
  <2>5. CASE i > j
    <3>1. ~ i < j /\ ~ i - 1 < j
      BY <1>1, <2>5
    <3>2. h[i] = f[i + 1] - x /\ h[i - 1] = f[i] - x /\ r[i] = s[i + 1]
      BY <1>2, <2>1, <3>1
    <3> HIDE DEF h
    <3> QED
      BY <1>1, <2>2, <3>2
  <2> QED
    BY <1>1, <2>3, <2>4, <2>5
<1>9. h[0] = 0 /\ h[n - 1] = f[n] - x
  <2>1. 0 \in 0 .. n - 1 /\ n - 1 \in 0 .. n - 1 /\ (n - 1) + 1 = n /\ 0 < j
    BY <1>1
  <2>2. CASE j = n
    <3>1. n - 1 < j
      BY <1>1, <2>2
    <3> QED
      BY <1>1, <1>4, <1>6, <2>1, <2>2, <3>1
  <2>3. CASE j # n
    <3>1. ~ n - 1 < j
      BY <1>1, <2>3
    <3> QED
      BY <1>4, <2>1, <3>1
  <2> QED
    BY <2>2, <2>3
<1> HIDE DEF h
<1>10. PrefixSums(r, h)
  BY <1>2, <1>7, <1>8, <1>9 DEF PrefixSums
<1>11. Sum(r) = h[n - 1]
  BY <1>2, <1>10, SumUnique
<1> QED
  BY <1>3, <1>9, <1>11 DEF r, x

(* A sum with one term replaced.                                           *)
LEMMA SumChanged ==
    ASSUME NEW s \in Seq(Int), NEW t \in Seq(Int), Len(s) = Len(t), NEW j \in 1 .. Len(s),
           \A i \in 1 .. Len(s) : i # j => s[i] = t[i]
    PROVE  Sum(t) = Sum(s) - s[j] + t[j]
<1> DEFINE n == Len(s)
           x == RemoveAt(s, j)
           y == RemoveAt(t, j)
<1>1. n \in Nat /\ j \in 1 .. n /\ s[j] \in Int /\ t[j] \in Int
  OBVIOUS
<1>2. /\ x \in Seq(Int) /\ Len(x) = n - 1
      /\ \A i \in 1 .. n - 1 : x[i] = IF i < j THEN s[i] ELSE s[i + 1]
  BY RemovedFrom
<1>3. /\ y \in Seq(Int) /\ Len(y) = n - 1
      /\ \A i \in 1 .. n - 1 : y[i] = IF i < j THEN t[i] ELSE t[i + 1]
  <2>1. n = Len(t) /\ j \in 1 .. Len(t)
    OBVIOUS
  <2> HIDE DEF n
  <2> QED
    BY <2>1, RemovedFrom
<1>4. Sum(x) = Sum(s) - s[j] /\ Sum(y) = Sum(t) - t[j] /\ Sum(s) \in Int /\ Sum(t) \in Int
  <2>1. j \in 1 .. Len(t)
    OBVIOUS
  <2> QED
    BY <2>1, SumOfRest, SumType
<1> HIDE DEF n, x, y
<1>5. ASSUME NEW i \in 1 .. n - 1
      PROVE  x[i] = y[i]
  <2>1. i \in 1 .. n /\ i + 1 \in 1 .. n
    BY <1>1
  <2>2. CASE i < j
    <3>1. s[i] = t[i]
      BY <2>1, <2>2 DEF n
    <3> QED
      BY <1>2, <1>3, <2>2, <3>1
  <2>3. CASE ~ i < j
    <3>1. i + 1 # j
      BY <1>1, <2>3
    <3>2. s[i + 1] = t[i + 1]
      BY <2>1, <3>1 DEF n
    <3> QED
      BY <1>2, <1>3, <2>3, <3>2
  <2> QED
    BY <2>2, <2>3
<1>6. x = y
  BY <1>2, <1>3, <1>5, SeqEqual
<1> QED
  BY <1>1, <1>4, <1>6

LEMMA SumOfZeros ==
    ASSUME NEW s \in Seq(Int), \A i \in 1 .. Len(s) : s[i] = 0
    PROVE  Sum(s) = 0
<1> DEFINE n == Len(s)
           f == [i \in 0 .. n |-> 0]
<1>1. n \in Nat
  OBVIOUS
<1>2. PrefixSums(s, f)
  <2>1. \A i \in 1 .. n : i \in 0 .. n /\ i - 1 \in 0 .. n
    BY <1>1
  <2> QED
    BY <1>1, <2>1 DEF PrefixSums
<1>3. f[n] = 0
  BY <1>1
<1> HIDE DEF f
<1> QED
  BY <1>2, <1>3, SumUnique

(* Sums of larger numbers are larger.                                      *)
LEMMA SumAtMost ==
    ASSUME NEW s \in Seq(Int), NEW t \in Seq(Int), Len(s) = Len(t),
           \A i \in 1 .. Len(s) : s[i] <= t[i]
    PROVE  Sum(s) <= Sum(t)
<1> DEFINE n == Len(s)
<1>1. n \in Nat /\ \A i \in 1 .. n : s[i] \in Int /\ t[i] \in Int /\ s[i] <= t[i]
  OBVIOUS
<1>2. PICK f : PrefixSums(s, f) /\ Sum(s) = f[n]
  BY SumIsPrefixSum
<1>3. PICK g : PrefixSums(t, g) /\ Sum(t) = g[n]
  BY SumIsPrefixSum
<1>4. /\ f \in [0 .. n -> Int] /\ f[0] = 0 /\ \A i \in 1 .. n : f[i] = f[i - 1] + s[i]
      /\ g \in [0 .. n -> Int] /\ g[0] = 0 /\ \A i \in 1 .. n : g[i] = g[i - 1] + t[i]
  BY <1>2, <1>3 DEF PrefixSums
<1> HIDE DEF n
<1> DEFINE R == {k \in 0 .. n : f[k] <= g[k]}
<1>5. R \in SUBSET (0 .. n) /\ 0 \in R
  BY <1>1, <1>4
<1>6. ASSUME NEW k \in 1 .. n, k - 1 \in R
      PROVE  k \in R
  <2>1. k - 1 \in 0 .. n /\ k \in 0 .. n
    BY <1>1, <1>6
  <2>2. /\ f[k - 1] \in Int /\ g[k - 1] \in Int /\ f[k - 1] <= g[k - 1]
        /\ f[k] = f[k - 1] + s[k] /\ g[k] = g[k - 1] + t[k]
        /\ s[k] \in Int /\ t[k] \in Int /\ s[k] <= t[k]
    BY <1>1, <1>4, <1>6, <2>1
  <2>3. f[k] <= g[k]
    BY <2>2
  <2> QED
    BY <2>1, <2>3
<1> HIDE DEF R
<1>7. \A k \in 0 .. n : k \in R
  BY <1>1, <1>5, <1>6, Upwards
<1>8. n \in R
  BY <1>1, <1>7
<1> QED
  BY <1>2, <1>3, <1>8 DEF R

LEMMA SumNotNegative ==
    ASSUME NEW s \in Seq(Int), \A i \in 1 .. Len(s) : 0 <= s[i]
    PROVE  0 <= Sum(s)
<1> DEFINE n == Len(s)
           zeros == [i \in 1 .. n |-> 0]
<1>1. n \in Nat /\ zeros \in [1 .. n -> Int] /\ \A i \in 1 .. n : zeros[i] = 0
  OBVIOUS
<1> HIDE DEF zeros
<1>2. zeros \in Seq(Int) /\ Len(zeros) = n
  BY <1>1, SeqDef
<1>3. Sum(zeros) = 0
  BY <1>1, <1>2, SumOfZeros
<1>4. Sum(zeros) <= Sum(s)
  BY <1>1, <1>2, SumAtMost
<1> QED
  BY <1>3, <1>4

-----------------------------------------------------------------------------
(* Lists.                                                                  *)

LEMMA ListItems ==
    ASSUME NEW s, IsList(s)
    PROVE  /\ s \in Seq(ToSet(s)) /\ Len(s) \in Nat /\ DOMAIN s = 1 .. Len(s)
           /\ \A i \in 1 .. Len(s) : s[i] \in ToSet(s)
<1>1. s \in Seq(ToSet(s))
  BY DEF IsList
<1>2. Len(s) \in Nat /\ DOMAIN s = 1 .. Len(s)
  BY <1>1
<1> QED
  BY <1>1, <1>2 DEF ToSet

LEMMA LeastOf ==
    ASSUME NEW S \in SUBSET Nat, S # {}
    PROVE  Min(S) \in S /\ \A k \in S : Min(S) <= k
<1>1. \E m \in S : \A k \in S : m <= k
  BY LeastNumber
<1> QED
  BY <1>1 DEF Min

(* What FlattenSeq has put together after each of the sequences.           *)
Flattens(S, seqs, f) ==
    /\ f \in [0 .. Len(seqs) -> Seq(S)] /\ f[0] = <<>>
    /\ \A k \in 1 .. Len(seqs) : f[k] = f[k - 1] \o seqs[k]

LEMMA FlattensUnique ==
    ASSUME NEW S, NEW seqs \in Seq(Seq(S)), NEW f, Flattens(S, seqs, f)
    PROVE  FlattenSeq(seqs) = f[Len(seqs)]
<1> DEFINE n == Len(seqs)
           G(h) == [i \in 1 .. n |-> IF i = 1 THEN seqs[i] ELSE h[i - 1] \o seqs[i]]
           flatten == CHOOSE h : h = G(h)
           g == [k \in 1 .. n |-> f[k]]
<1>1. n \in Nat /\ \A k \in 1 .. n : seqs[k] \in Seq(S)
  OBVIOUS
<1>2. CASE n = 0
  <2>1. seqs = <<>>
    BY <1>2
  <2> QED
    BY <1>2, <2>1 DEF FlattenSeq, Flattens
<1>3. CASE n # 0
  <2>1. ASSUME NEW k \in 1 .. n
        PROVE  g[k] = IF k = 1 THEN seqs[k] ELSE g[k - 1] \o seqs[k]
    <3>1. f[k] = f[k - 1] \o seqs[k] /\ seqs[k] \in Seq(S)
      BY <1>1 DEF Flattens
    <3>2. CASE k = 1
      <4>1. f[k - 1] = <<>>
        BY <3>2 DEF Flattens
      <4>2. <<>> \o seqs[k] = seqs[k]
        BY <3>1, ConcatEmptySeq
      <4> QED
        BY <3>1, <3>2, <4>1, <4>2
    <3>3. CASE k # 1
      <4>1. k - 1 \in 1 .. n
        BY <1>1, <3>3
      <4> QED
        BY <3>1, <3>3, <4>1
    <3> QED
      BY <3>2, <3>3
  <2>2. g = G(g)
    <3> DEFINE e(k) == IF k = 1 THEN seqs[k] ELSE g[k - 1] \o seqs[k]
    <3>1. g = [k \in 1 .. n |-> g[k]]
      OBVIOUS
    <3> HIDE DEF g, n
    <3>2. g = [k \in 1 .. n |-> e(k)]
      BY <2>1, <3>1
    <3> QED
      BY <3>2
  <2>3. flatten = G(flatten)
    <3> HIDE DEF G
    <3> QED
      BY <2>2
  <2>4. FlattenSeq(seqs) = flatten[n]
    BY <1>3, Zenon DEF FlattenSeq
  <2> HIDE DEF flatten
  <2>5. ASSUME NEW k \in 1 .. n
        PROVE  flatten[k] = IF k = 1 THEN seqs[k] ELSE flatten[k - 1] \o seqs[k]
    BY <2>3
  <2> DEFINE T == {k \in 0 .. n : k = 0 \/ flatten[k] = g[k]}
  <2>6. 0 \in T
    BY <1>1
  <2>7. ASSUME NEW k \in 1 .. n, k - 1 \in T
        PROVE  k \in T
    <3> HIDE DEF g
    <3>1. CASE k = 1
      BY <2>1, <2>5, <3>1
    <3>2. CASE k # 1
      <4>1. flatten[k - 1] = g[k - 1]
        BY <1>1, <2>7, <3>2
      <4> QED
        BY <2>1, <2>5, <3>2, <4>1
    <3> QED
      BY <3>1, <3>2
  <2>8. n \in T
    <3> HIDE DEF n
    <3>1. T \in SUBSET (0 .. n)
      OBVIOUS
    <3> HIDE DEF T
    <3>2. \A k \in 0 .. n : k \in T
      BY <1>1, <2>6, <2>7, <3>1, Upwards
    <3> QED
      BY <1>1, <3>2
  <2>9. g[n] = f[n]
    BY <1>1, <1>3
  <2> HIDE DEF g
  <2> QED
    BY <1>3, <2>4, <2>8, <2>9
<1> QED
  BY <1>2, <1>3

LEMMA FlattenFolds ==
    ASSUME NEW S, NEW seqs \in Seq(Seq(S))
    PROVE  \E f : Flattens(S, seqs, f) /\ FlattenSeq(seqs) = f[Len(seqs)]
<1> DEFINE n == Len(seqs)
           Adds(k) == [x \in Seq(S) |-> x \o seqs[k]]
           step == [k \in 1 .. n |-> Adds(k)]
<1>1. n \in Nat /\ \A k \in 1 .. n : seqs[k] \in Seq(S)
  OBVIOUS
<1>2. ASSUME NEW k \in 1 .. n
      PROVE  Adds(k) \in [Seq(S) -> Seq(S)]
  <2>1. seqs[k] \in Seq(S)
    BY <1>1
  <2>2. \A x \in Seq(S) : x \o seqs[k] \in Seq(S)
    BY <2>1, ConcatProperties
  <2> QED
    BY <2>2
<1>3. PICK f \in [0 .. n -> Seq(S)] : Fold(n, <<>>, step, f)
  <2> HIDE DEF Adds
  <2>1. step \in [1 .. n -> [Seq(S) -> Seq(S)]]
    BY <1>2
  <2>2. <<>> \in Seq(S)
    OBVIOUS
  <2> HIDE DEF step, n
  <2> QED
    BY <1>1, <2>1, <2>2, FoldExists
<1>4. Flattens(S, seqs, f)
  <2>1. ASSUME NEW k \in 1 .. n
        PROVE  f[k] = f[k - 1] \o seqs[k]
    <3>1. k - 1 \in 0 .. n
      BY <1>1
    <3>2. f[k - 1] \in Seq(S)
      BY <1>3, <3>1
    <3> QED
      BY <1>3, <3>2 DEF Fold
  <2> QED
    BY <1>3, <2>1 DEF Fold, Flattens
<1> QED
  BY <1>4, FlattensUnique

LEMMA FlattenTyped ==
    ASSUME NEW S, NEW seqs \in Seq(Seq(S))
    PROVE  FlattenSeq(seqs) \in Seq(S)
<1>1. PICK f : Flattens(S, seqs, f) /\ FlattenSeq(seqs) = f[Len(seqs)]
  BY FlattenFolds
<1>2. Len(seqs) \in 0 .. Len(seqs)
  OBVIOUS
<1> QED
  BY <1>1, <1>2 DEF Flattens

LEMMA FlattenOfOne ==
    ASSUME NEW S, NEW x \in Seq(S)
    PROVE  FlattenSeq(<<x>>) = x
<1> DEFINE f == [k \in 0 .. 1 |-> IF k = 0 THEN <<>> ELSE x]
<1>1. <<x>> \in Seq(Seq(S)) /\ Len(<<x>>) = 1 /\ <<x>>[1] = x
  OBVIOUS
<1>2. Flattens(S, <<x>>, f)
  <2>1. <<>> \o x = x
    BY ConcatEmptySeq
  <2>2. f \in [0 .. 1 -> Seq(S)] /\ f[0] = <<>> /\ f[1] = x
    OBVIOUS
  <2> HIDE DEF f
  <2>3. \A k \in 1 .. 1 : k = 1 /\ k - 1 = 0
    OBVIOUS
  <2> QED
    BY <1>1, <2>1, <2>2, <2>3 DEF Flattens
<1>3. f[1] = x
  OBVIOUS
<1> HIDE DEF f
<1> QED
  BY <1>1, <1>2, <1>3, FlattensUnique

LEMMA FlattenOfBoth ==
    ASSUME NEW S, NEW a \in Seq(Seq(S)), NEW b \in Seq(Seq(S))
    PROVE  FlattenSeq(a \o b) = FlattenSeq(a) \o FlattenSeq(b)
<1> DEFINE m == Len(a)
           n == Len(b)
           s == a \o b
<1>1. /\ m \in Nat /\ n \in Nat
      /\ \A i \in 1 .. m : a[i] \in Seq(S)
      /\ \A i \in 1 .. n : b[i] \in Seq(S)
  OBVIOUS
<1>2. /\ s \in Seq(Seq(S)) /\ Len(s) = m + n
      /\ \A i \in 1 .. m + n : s[i] = IF i <= m THEN a[i] ELSE b[i - m]
  BY ConcatProperties
<1>3. PICK f : Flattens(S, a, f) /\ FlattenSeq(a) = f[m]
  BY FlattenFolds
<1>4. PICK g : Flattens(S, b, g) /\ FlattenSeq(b) = g[n]
  BY FlattenFolds
<1> HIDE DEF s, m, n
<1>5. /\ f \in [0 .. m -> Seq(S)] /\ f[0] = <<>> /\ \A k \in 1 .. m : f[k] = f[k - 1] \o a[k]
      /\ g \in [0 .. n -> Seq(S)] /\ g[0] = <<>> /\ \A k \in 1 .. n : g[k] = g[k - 1] \o b[k]
  BY <1>3, <1>4 DEF Flattens, m, n
<1> DEFINE h == [k \in 0 .. m + n |-> IF k <= m THEN f[k] ELSE f[m] \o g[k - m]]
<1>6. ASSUME NEW k \in 0 .. n
      PROVE  f[m] \o g[k] \in Seq(S)
  <2>1. f[m] \in Seq(S) /\ g[k] \in Seq(S)
    BY <1>1, <1>5
  <2> QED
    BY <2>1, ConcatProperties
<1>7. h \in [0 .. m + n -> Seq(S)]
  <2>1. \A k \in 0 .. m + n : k <= m => k \in 0 .. m
    BY <1>1
  <2>2. \A k \in 0 .. m + n : ~ k <= m => k - m \in 0 .. n
    BY <1>1
  <2> QED
    BY <1>5, <1>6, <2>1, <2>2
<1>8. ASSUME NEW k \in 1 .. m + n
      PROVE  h[k] = h[k - 1] \o s[k]
  <2>1. k \in 0 .. m + n /\ k - 1 \in 0 .. m + n
    BY <1>1
  <2>2. CASE k <= m
    <3>1. k \in 1 .. m /\ k - 1 <= m
      BY <1>1, <2>2
    <3> QED
      BY <1>2, <1>5, <2>1, <2>2, <3>1
  <2>3. CASE ~ k <= m
    <3>1. k - m \in 1 .. n /\ (k - m) - 1 \in 0 .. n /\ (k - m) - 1 = k - 1 - m
      BY <1>1, <2>3
    <3>2. f[m] \in Seq(S) /\ g[k - 1 - m] \in Seq(S) /\ b[k - m] \in Seq(S)
      BY <1>1, <1>5, <3>1
    <3>3. g[k - m] = g[k - 1 - m] \o b[k - m]
      BY <1>5, <3>1
    <3>4. f[m] \o g[k - m] = (f[m] \o g[k - 1 - m]) \o b[k - m]
      <4> DEFINE x == f[m]
                 y == g[k - 1 - m]
                 z == b[k - m]
      <4>1. x \in Seq(S) /\ y \in Seq(S) /\ z \in Seq(S)
        BY <3>2
      <4>2. g[k - m] = y \o z
        BY <3>3
      <4> HIDE DEF x, y, z
      <4>3. (x \o y) \o z = x \o (y \o z)
        BY <4>1, ConcatAssociative
      <4>4. x \o g[k - m] = (x \o y) \o z
        BY <4>2, <4>3
      <4> QED
        BY <4>4 DEF x, y, z
    <3>5. h[k] = f[m] \o g[k - m]
      BY <2>1, <2>3
    <3>6. h[k - 1] = f[m] \o g[k - 1 - m]
      <4>1. CASE k - 1 <= m
        <5>1. k - 1 = m /\ k - 1 - m = 0
          BY <1>1, <2>3, <4>1
        <5>2. f[m] \o <<>> = f[m]
          BY <3>2, ConcatEmptySeq
        <5>3. h[k - 1] = f[k - 1]
          BY <2>1, <4>1
        <5>4. g[k - 1 - m] = <<>>
          BY <1>5, <5>1
        <5> QED
          BY <5>1, <5>2, <5>3, <5>4
      <4>2. CASE ~ k - 1 <= m
        BY <2>1, <4>2
      <4> QED
        BY <4>1, <4>2
    <3> HIDE DEF h
    <3> QED
      BY <1>2, <2>3, <3>4, <3>5, <3>6
  <2> QED
    BY <2>2, <2>3
<1>9. h[0] = <<>> /\ h[m + n] = f[m] \o g[n]
  <2>1. h[0] = f[0]
    BY <1>1
  <2>2. h[m + n] = f[m] \o g[n]
    <3>1. CASE n = 0
      <4>1. f[m] \in Seq(S)
        BY <1>1, <1>5
      <4>2. f[m] \o <<>> = f[m]
        BY <4>1, ConcatEmptySeq
      <4>3. h[m + n] = f[m] /\ g[n] = <<>>
        BY <1>1, <1>5, <3>1
      <4> QED
        BY <4>2, <4>3
    <3>2. CASE n # 0
      <4>1. m + n \in 0 .. m + n /\ ~ m + n <= m /\ (m + n) - m = n
        BY <1>1, <3>2
      <4> QED
        BY <4>1
    <3> QED
      BY <3>1, <3>2
  <2> QED
    BY <1>5, <2>1, <2>2
<1> HIDE DEF h
<1>10. Flattens(S, s, h)
  BY <1>2, <1>7, <1>8, <1>9 DEF Flattens
<1>11. FlattenSeq(s) = h[m + n]
  BY <1>2, <1>10, FlattensUnique
<1> QED
  BY <1>3, <1>4, <1>9, <1>11 DEF s

(* Concatenation, for the second of three texts that are put together.     *)
Associates(S, a) == \A b \in Seq(S), c \in Seq(S) : a \o (b \o c) = (a \o b) \o c

LEMMA ConcatAssociates ==
    ASSUME NEW S, NEW a \in Seq(S)
    PROVE  Associates(S, a)
<1>1. ASSUME NEW b \in Seq(S), NEW c \in Seq(S)
      PROVE  a \o (b \o c) = (a \o b) \o c
  BY ConcatAssociative
<1> QED
  BY <1>1 DEF Associates

-----------------------------------------------------------------------------
(* The lines of correct.txt.                                               *)

(* Lines with a count announce that many failures.                         *)
Countable(S) == \A line \in S : line.kind = "count" => line.n \in Nat

(* The lines of correct.txt, as far as the parser looks at them.           *)
IsParsed(lines) == \E S : Countable(S) /\ lines \in Seq(S)

(* The lines of reports with failures of T.                                *)
HoldsReports(S, T) ==
    /\ {Text, OkLine} \subseteq S /\ \A n \in Nat : CountLine(n) \in S
    /\ \A n \in Nat, t \in T : FailureLine(n, t) \in S

LEMMA ReportTyped ==
    ASSUME NEW T, NEW report, report # Killed => IsList(report) /\ ToSet(report) \subseteq T,
           NEW S, {Text, OkLine} \subseteq S, \A n \in Nat : CountLine(n) \in S,
           \A n \in Nat, t \in T : FailureLine(n, t) \in S
    PROVE  JUnitReport(report) \in Seq(S)
<1>1. CASE report = Killed
  BY <1>1 DEF JUnitReport
<1>2. CASE report # Killed /\ report = <<>>
  BY <1>2 DEF JUnitReport
<1>3. CASE report # Killed /\ report # <<>>
  <2> DEFINE failures == [n \in DOMAIN report |-> <<FailureLine(n, report[n]), Text>>]
  <2>1. /\ Len(report) \in Nat /\ DOMAIN report = 1 .. Len(report)
        /\ \A n \in 1 .. Len(report) : report[n] \in T
    BY <1>3, ListItems
  <2>2. ASSUME NEW n \in DOMAIN report
        PROVE  <<FailureLine(n, report[n]), Text>> \in Seq(S)
    <3>1. n \in Nat /\ report[n] \in T
      BY <2>1
    <3>2. FailureLine(n, report[n]) \in S
      BY <3>1
    <3> QED
      BY <3>2
  <2>3. failures \in [1 .. Len(report) -> Seq(S)]
    BY <2>1, <2>2
  <2> HIDE DEF failures
  <2>4. failures \in Seq(Seq(S))
    BY <2>1, <2>3, SeqDef
  <2>5. FlattenSeq(failures) \in Seq(S)
    BY <2>4, FlattenTyped
  <2>6. <<Text, CountLine(Len(report))>> \in Seq(S) /\ <<Text>> \in Seq(S)
    <3>1. CountLine(Len(report)) \in S
      BY <2>1
    <3> QED
      BY <3>1
  <2>7. <<Text, CountLine(Len(report))>> \o FlattenSeq(failures) \o <<Text>> \in Seq(S)
    BY <2>5, <2>6, ConcatProperties
  <2> QED
    BY <1>3, <2>7 DEF JUnitReport, failures
<1> QED
  BY <1>1, <1>2, <1>3

(* What is printed for a submission.                                       *)
FailedTests(r) == UNION {ToSet(r.reports[c]) : c \in DOMAIN r.reports}

LinesOf(r) ==
    {Text, Blank, StderrHeader, OkLine} \cup {CountLine(n) : n \in Nat}
      \cup {FailureLine(x[1], x[2]) : x \in Nat \X FailedTests(r)} \cup ToSet(r.stderr)

Bodies(r) == [c \in DOMAIN r.reports |-> JUnitReport(r.reports[c])]

LEMMA LinesTyped ==
    ASSUME NEW r \in Submissions, r.reports # NoFile
    PROVE  /\ Countable(LinesOf(r)) /\ HoldsReports(LinesOf(r), FailedTests(r))
           /\ {Text, Blank, StderrHeader} \subseteq LinesOf(r) /\ r.stderr \in Seq(LinesOf(r))
           /\ Len(r.reports) \in Nat /\ DOMAIN r.reports = 1 .. Len(r.reports)
           /\ \A c \in 1 .. Len(r.reports) :
                 r.reports[c] # Killed => r.reports[c] \in Seq(FailedTests(r))
           /\ Bodies(r) \in Seq(Seq(LinesOf(r))) /\ Len(Bodies(r)) = Len(r.reports)
           /\ \A c \in 1 .. Len(r.reports) : Bodies(r)[c] = JUnitReport(r.reports[c])
<1> DEFINE reports == r.reports
           T == FailedTests(r)
           S == LinesOf(r)
           all == Bodies(r)
<1>1. /\ IsList(reports) /\ \A t \in ToSet(reports) : t # Killed => IsList(t)
      /\ IsList(r.stderr)
      /\ \A line \in ToSet(r.stderr) : line.kind = "count" => line.n \in Nat
  BY ScoreAssumption
<1>2. /\ Len(reports) \in Nat /\ DOMAIN reports = 1 .. Len(reports)
      /\ \A c \in 1 .. Len(reports) : reports[c] \in ToSet(reports)
  BY <1>1, ListItems
<1>3. /\ {Text, Blank, StderrHeader, OkLine} \subseteq S /\ \A n \in Nat : CountLine(n) \in S
      /\ \A n \in Nat, t \in T : FailureLine(n, t) \in S
      /\ ToSet(r.stderr) \subseteq S
  <2>1. ASSUME NEW n \in Nat, NEW t \in T
        PROVE  FailureLine(n, t) \in S
    <3>1. <<n, t>> \in Nat \X T /\ FailureLine(<<n, t>>[1], <<n, t>>[2]) = FailureLine(n, t)
      OBVIOUS
    <3> HIDE DEF T
    <3>2. FailureLine(n, t) \in {FailureLine(x[1], x[2]) : x \in Nat \X T}
      BY <3>1
    <3> QED
      BY <3>2 DEF LinesOf, T
  <2> HIDE DEF T
  <2> QED
    BY <2>1 DEF LinesOf
<1>4. ASSUME NEW line \in S, line.kind = "count"
      PROVE  line.n \in Nat
  <2>1. CASE line \in {Text, Blank, StderrHeader, OkLine}
    BY <1>4, <2>1 DEF Text, Blank, StderrHeader, OkLine
  <2>2. CASE \E n \in Nat : line = CountLine(n)
    BY <2>2 DEF CountLine
  <2>3. CASE \E x \in Nat \X T : line = FailureLine(x[1], x[2])
    BY <1>4, <2>3 DEF FailureLine
  <2>4. CASE line \in ToSet(r.stderr)
    BY <1>1, <1>4, <2>4
  <2> HIDE DEF T
  <2> QED
    BY <2>1, <2>2, <2>3, <2>4 DEF LinesOf, T
<1>5. ASSUME NEW c \in 1 .. Len(reports), reports[c] # Killed
      PROVE  /\ IsList(reports[c]) /\ ToSet(reports[c]) \subseteq T
             /\ reports[c] \in Seq(T)
  <2>1. IsList(reports[c]) /\ ToSet(reports[c]) \subseteq T
    BY <1>1, <1>2, <1>5 DEF FailedTests
  <2>2. reports[c] \in Seq(ToSet(reports[c]))
    BY <2>1 DEF IsList
  <2>3. reports[c] \in Seq(T)
    BY <2>1, <2>2, SeqMonotonic
  <2> QED
    BY <2>1, <2>3
<1> HIDE DEF T, S, reports
<1>6. /\ all \in Seq(Seq(S)) /\ Len(all) = Len(reports)
      /\ \A c \in 1 .. Len(reports) : all[c] = JUnitReport(reports[c])
  <2>1. ASSUME NEW c \in 1 .. Len(reports)
        PROVE  JUnitReport(reports[c]) \in Seq(S)
    BY <1>3, <1>5, ReportTyped
  <2>2. /\ all \in [1 .. Len(reports) -> Seq(S)]
        /\ \A c \in 1 .. Len(reports) : all[c] = JUnitReport(reports[c])
    BY <1>2, <2>1 DEF Bodies, reports
  <2> HIDE DEF all
  <2> QED
    BY <1>2, <2>2, SeqDef
<1>7. r.stderr \in Seq(S)
  <2>1. r.stderr \in Seq(ToSet(r.stderr))
    BY <1>1 DEF IsList
  <2> QED
    BY <1>3, <2>1, SeqMonotonic
<1>8. Countable(S)
  BY <1>4 DEF Countable
<1>9. HoldsReports(S, T)
  BY <1>3 DEF HoldsReports
<1>10. \A c \in 1 .. Len(reports) : reports[c] # Killed => reports[c] \in Seq(T)
  BY <1>5
<1> QED
  BY <1>2, <1>3, <1>6, <1>7, <1>8, <1>9, <1>10 DEF reports, T, S, all

(* What stands behind the header of the last section.                      *)
LEMMA StderrTyped ==
    ASSUME NEW r \in Submissions, r.reports # NoFile
    PROVE  Stderr(r.reports, r.stderr) \in Seq(LinesOf(r))
<1> DEFINE S == LinesOf(r)
<1>1. Text \in S /\ r.stderr \in Seq(S)
  BY LinesTyped
<1> HIDE DEF S
<1>2. <<Text>> \in Seq(S) /\ << >> \in Seq(S)
  BY <1>1
<1>3. Stderr(r.reports, r.stderr) \in Seq(S)
  BY <1>1, <1>2, ConcatProperties DEF Stderr
<1> QED
  BY <1>3 DEF S

LEMMA CorrectTxtParsed ==
    ASSUME NEW r \in Submissions, r.reports # NoFile
    PROVE  IsParsed(CorrectTxt(r.reports, r.stderr))
<1> DEFINE S == LinesOf(r)
           all == Bodies(r)
           err == Stderr(r.reports, r.stderr)
<1>1. /\ Countable(S) /\ {Text, Blank, StderrHeader} \subseteq S /\ err \in Seq(S)
      /\ all \in Seq(Seq(S))
  BY LinesTyped, StderrTyped
<1> HIDE DEF S, all, err
<1>2. FlattenSeq(all) \in Seq(S)
  BY <1>1, FlattenTyped
<1>3. <<Text>> \in Seq(S) /\ <<Blank, StderrHeader>> \in Seq(S) /\ <<Blank>> \in Seq(S)
  BY <1>1
<1>4. <<Text>> \o FlattenSeq(all) \o <<Blank, StderrHeader>> \o err \o <<Blank>> \in Seq(S)
  BY <1>1, <1>2, <1>3, ConcatProperties
<1>5. CorrectTxt(r.reports, r.stderr) \in Seq(S)
  BY <1>4 DEF CorrectTxt, Bodies, all, err
<1> QED
  BY <1>1, <1>5 DEF IsParsed

LEMMA CorrectFileParsed ==
    ASSUME NEW r \in Submissions, CorrectFile(r) # NoFile
    PROVE  IsParsed(CorrectFile(r))
<1>1. r.reports # NoFile
  BY DEF CorrectFile
<1>2. IsParsed(CorrectTxt(r.reports, r.stderr))
  BY <1>1, CorrectTxtParsed
<1>3. IsParsed(<<Text>>)
  <2> DEFINE S == {Text}
  <2>1. <<Text>> \in Seq(S) /\ Countable(S)
    BY DEF Text, Countable
  <2> HIDE DEF S
  <2> QED
    BY <2>1 DEF IsParsed
<1> QED
  BY <1>1, <1>2, <1>3 DEF CorrectFile, Displayed

-----------------------------------------------------------------------------
(* The failures announced, and the search for them.                        *)

(* What a line announces.                                                  *)
NumbersOf(line) == IF line.kind = "count" THEN [n \in 1 .. line.n |-> n] ELSE <<>>

LineNumbers(lines) == [i \in DOMAIN lines |-> NumbersOf(lines[i])]

LEMMA LineNumbersTyped ==
    ASSUME NEW S, Countable(S), NEW lines \in Seq(S)
    PROVE  /\ LineNumbers(lines) \in Seq(Seq(Nat)) /\ Len(LineNumbers(lines)) = Len(lines)
           /\ \A i \in 1 .. Len(lines) : LineNumbers(lines)[i] = NumbersOf(lines[i])
           /\ Announced(lines) = FlattenSeq(LineNumbers(lines))
           /\ Announced(lines) \in Seq(Nat)
<1> DEFINE all == LineNumbers(lines)
<1>1. /\ Len(lines) \in Nat /\ DOMAIN lines = 1 .. Len(lines)
      /\ \A i \in 1 .. Len(lines) : lines[i] \in S
  OBVIOUS
<1>2. ASSUME NEW line \in S
      PROVE  NumbersOf(line) \in Seq(Nat)
  <2>1. CASE line.kind = "count"
    <3> DEFINE m == line.n
               up == [n \in 1 .. m |-> n]
    <3>1. m \in Nat
      BY <2>1 DEF Countable
    <3> HIDE DEF m
    <3>2. up \in [1 .. m -> Nat]
      BY <3>1
    <3> HIDE DEF up
    <3>3. up \in Seq(Nat)
      BY <3>1, <3>2, SeqDef
    <3> QED
      BY <2>1, <3>3 DEF up, m, NumbersOf
  <2>2. CASE line.kind # "count"
    BY <2>2 DEF NumbersOf
  <2> QED
    BY <2>1, <2>2
<1>3. \A i \in 1 .. Len(lines) : all[i] = NumbersOf(lines[i])
  BY <1>1 DEF LineNumbers
<1>4. all \in [1 .. Len(lines) -> Seq(Nat)]
  BY <1>1, <1>2 DEF LineNumbers
<1> HIDE DEF all
<1>5. all \in Seq(Seq(Nat)) /\ Len(all) = Len(lines)
  BY <1>1, <1>4, SeqDef
<1>6. FlattenSeq(all) \in Seq(Nat)
  BY <1>5, FlattenTyped
<1>7. Announced(lines) = FlattenSeq(all)
  BY DEF Announced, all, LineNumbers, NumbersOf
<1> QED
  BY <1>3, <1>5, <1>6, <1>7 DEF all

LEMMA AnnouncedTyped ==
    ASSUME NEW lines, IsParsed(lines)
    PROVE  Announced(lines) \in Seq(Nat) /\ Len(lines) \in Nat
<1>1. PICK S : Countable(S) /\ lines \in Seq(S)
  BY DEF IsParsed
<1>2. Announced(lines) \in Seq(Nat)
  BY <1>1, LineNumbersTyped
<1> QED
  BY <1>1, <1>2

LEMMA AnnouncedByBoth ==
    ASSUME NEW S, Countable(S), NEW a \in Seq(S), NEW b \in Seq(S)
    PROVE  Announced(a \o b) = Announced(a) \o Announced(b)
<1>1. /\ a \o b \in Seq(S) /\ Len(a \o b) = Len(a) + Len(b)
      /\ \A i \in 1 .. Len(a) + Len(b) :
            (a \o b)[i] = IF i <= Len(a) THEN a[i] ELSE b[i - Len(a)]
      /\ Len(a) \in Nat /\ Len(b) \in Nat
  BY ConcatProperties
<1> DEFINE x == LineNumbers(a)
           y == LineNumbers(b)
           z == LineNumbers(a \o b)
<1>2. /\ x \in Seq(Seq(Nat)) /\ Len(x) = Len(a)
      /\ \A i \in 1 .. Len(a) : x[i] = NumbersOf(a[i])
      /\ Announced(a) = FlattenSeq(x)
  BY LineNumbersTyped
<1>3. /\ y \in Seq(Seq(Nat)) /\ Len(y) = Len(b)
      /\ \A i \in 1 .. Len(b) : y[i] = NumbersOf(b[i])
      /\ Announced(b) = FlattenSeq(y)
  BY LineNumbersTyped
<1>4. /\ z \in Seq(Seq(Nat)) /\ Len(z) = Len(a) + Len(b)
      /\ \A i \in 1 .. Len(a) + Len(b) : z[i] = NumbersOf((a \o b)[i])
      /\ Announced(a \o b) = FlattenSeq(z)
  BY <1>1, LineNumbersTyped
<1> HIDE DEF x, y, z
<1>5. x \o y \in Seq(Seq(Nat)) /\ Len(x \o y) = Len(a) + Len(b)
  <2>1. x \in Seq(Seq(Nat)) /\ y \in Seq(Seq(Nat))
    BY <1>2, <1>3
  <2>2. x \o y \in Seq(Seq(Nat))
    BY <2>1, ConcatProperties
  <2>3. Len(x \o y) = Len(x) + Len(y)
    BY <2>1, ConcatProperties
  <2> QED
    BY <1>2, <1>3, <2>2, <2>3
<1>6. ASSUME NEW i \in 1 .. Len(a) + Len(b)
      PROVE  z[i] = (x \o y)[i]
  <2>1. (x \o y)[i] = IF i <= Len(a) THEN x[i] ELSE y[i - Len(a)]
    BY <1>2, <1>3, ConcatProperties
  <2>2. CASE i <= Len(a)
    <3>1. i \in 1 .. Len(a)
      BY <1>1, <2>2
    <3> QED
      BY <1>1, <1>2, <1>4, <2>1, <2>2, <3>1
  <2>3. CASE ~ i <= Len(a)
    <3>1. i - Len(a) \in 1 .. Len(b)
      BY <1>1, <2>3
    <3> QED
      BY <1>1, <1>3, <1>4, <2>1, <2>3, <3>1
  <2> QED
    BY <2>2, <2>3
<1>7. z = x \o y
  <2> DEFINE w == x \o y
  <2>1. w \in Seq(Seq(Nat)) /\ Len(w) = Len(z) /\ \A i \in 1 .. Len(z) : z[i] = w[i]
    BY <1>4, <1>5, <1>6
  <2> HIDE DEF w
  <2>2. z = w
    BY <1>4, <2>1, SeqEqual
  <2> QED
    BY <2>2 DEF w
<1>8. FlattenSeq(x \o y) = FlattenSeq(x) \o FlattenSeq(y)
  BY <1>2, <1>3, FlattenOfBoth
<1> QED
  BY <1>2, <1>3, <1>4, <1>7, <1>8

LEMMA AnnouncedByNone ==
    ASSUME NEW S, Countable(S), NEW a \in Seq(S), \A i \in 1 .. Len(a) : a[i].kind # "count"
    PROVE  Announced(a) = <<>>
<1> DEFINE x == LineNumbers(a)
           n == Len(x)
<1>1. /\ x \in Seq(Seq(Nat)) /\ Len(x) = Len(a)
      /\ \A i \in 1 .. Len(a) : x[i] = NumbersOf(a[i])
      /\ Announced(a) = FlattenSeq(x)
  BY LineNumbersTyped
<1>2. \A i \in 1 .. Len(a) : x[i] = <<>>
  BY <1>1 DEF NumbersOf
<1> HIDE DEF x
<1>3. n \in Nat /\ \A i \in 1 .. n : x[i] = <<>>
  BY <1>1, <1>2
<1>4. PICK f : Flattens(Nat, x, f) /\ FlattenSeq(x) = f[n]
  BY <1>1, FlattenFolds
<1> DEFINE T == {k \in 0 .. n : f[k] = <<>>}
<1> HIDE DEF n
<1>5. 0 \in T
  BY <1>3, <1>4 DEF Flattens
<1>6. ASSUME NEW k \in 1 .. n, k - 1 \in T
      PROVE  k \in T
  <2>1. f[k] = f[k - 1] \o x[k] /\ x[k] = <<>> /\ f[k - 1] = <<>>
    BY <1>3, <1>4, <1>6 DEF Flattens, n
  <2>2. <<>> \o <<>> = <<>>
    OBVIOUS
  <2> QED
    BY <1>3, <2>1, <2>2
<1>7. T \in SUBSET (0 .. n)
  OBVIOUS
<1> HIDE DEF T
<1>8. n \in T
  <2>1. \A k \in 0 .. n : k \in T
    BY <1>3, <1>5, <1>6, <1>7, Upwards
  <2> QED
    BY <1>3, <2>1
<1> QED
  BY <1>1, <1>4, <1>8 DEF T

Up(n) == [k \in 1 .. n |-> k]

LEMMA AnnouncedByCount ==
    ASSUME NEW S, Countable(S), NEW n \in Nat, CountLine(n) \in S
    PROVE  Announced(<<CountLine(n)>>) = [k \in 1 .. n |-> k]
<1> DEFINE a == <<CountLine(n)>>
           x == LineNumbers(a)
           up == [k \in 1 .. n |-> k]
<1>1. a \in Seq(S) /\ Len(a) = 1 /\ a[1] = CountLine(n)
  OBVIOUS
<1> HIDE DEF a
<1>2. /\ x \in Seq(Seq(Nat)) /\ Len(x) = 1 /\ x[1] = NumbersOf(CountLine(n))
      /\ Announced(a) = FlattenSeq(x)
  BY <1>1, LineNumbersTyped
<1>3. NumbersOf(CountLine(n)) = up
  BY DEF NumbersOf, CountLine
<1>4. up \in Seq(Nat)
  <2>1. up \in [1 .. n -> Nat]
    OBVIOUS
  <2> HIDE DEF up
  <2> QED
    BY <2>1, SeqDef
<1> HIDE DEF x, up
<1>5. x = <<up>>
  BY <1>2, <1>3
<1>6. FlattenSeq(x) = up
  BY <1>4, <1>5, FlattenOfOne
<1> QED
  BY <1>2, <1>6 DEF a, up

LEMMA ReportedByBoth ==
    ASSUME NEW S, NEW a \in Seq(S), NEW b \in Seq(S)
    PROVE  Reported(a \o b) <=> Reported(a) \/ Reported(b)
<1>1. /\ a \o b \in Seq(S) /\ Len(a \o b) = Len(a) + Len(b)
      /\ \A i \in 1 .. Len(a) + Len(b) :
            (a \o b)[i] = IF i <= Len(a) THEN a[i] ELSE b[i - Len(a)]
      /\ Len(a) \in Nat /\ Len(b) \in Nat
  BY ConcatProperties
<1>2. /\ DOMAIN a = 1 .. Len(a) /\ DOMAIN b = 1 .. Len(b)
      /\ DOMAIN (a \o b) = 1 .. Len(a) + Len(b)
  BY <1>1
<1> DEFINE c == a \o b
<1> HIDE DEF c
<1>3. ASSUME NEW i \in 1 .. Len(a), a[i].kind \in {"ok", "count"}
      PROVE  \E k \in 1 .. Len(a) + Len(b) : c[k].kind \in {"ok", "count"}
  <2>1. i \in 1 .. Len(a) + Len(b) /\ c[i] = a[i]
    BY <1>1 DEF c
  <2> QED
    BY <1>3, <2>1
<1>4. ASSUME NEW i \in 1 .. Len(b), b[i].kind \in {"ok", "count"}
      PROVE  \E k \in 1 .. Len(a) + Len(b) : c[k].kind \in {"ok", "count"}
  <2>1. i + Len(a) \in 1 .. Len(a) + Len(b) /\ c[i + Len(a)] = b[i]
    BY <1>1 DEF c
  <2> QED
    BY <1>4, <2>1
<1>5. ASSUME NEW k \in 1 .. Len(a) + Len(b), c[k].kind \in {"ok", "count"}
      PROVE  \/ \E i \in 1 .. Len(a) : a[i].kind \in {"ok", "count"}
             \/ \E i \in 1 .. Len(b) : b[i].kind \in {"ok", "count"}
  <2>1. CASE k <= Len(a)
    <3>1. k \in 1 .. Len(a) /\ c[k] = a[k]
      BY <1>1, <2>1 DEF c
    <3> QED
      BY <1>5, <3>1
  <2>2. CASE ~ k <= Len(a)
    <3>1. k - Len(a) \in 1 .. Len(b) /\ c[k] = b[k - Len(a)]
      BY <1>1, <2>2 DEF c
    <3> QED
      BY <1>5, <3>1
  <2> QED
    BY <2>1, <2>2
<1> QED
  BY <1>2, <1>3, <1>4, <1>5 DEF Reported, c

(* The tests of a rubric, as far as their points.                          *)
HasPoints(tests) == IsList(tests) /\ \A test \in ToSet(tests) : test.points_worth \in Int

Searching == [at : Nat, losses : Seq(Int)]

LEMMA AfterFailureTyped ==
    ASSUME NEW tests, HasPoints(tests), NEW lines, Len(lines) \in Nat,
           NEW acc \in Searching, NEW n
    PROVE  AfterFailure(tests, lines, acc, n) \in Searching
<1> DEFINE at == Search(lines, acc.at, n)
           hits == {i \in acc.at .. Len(lines) : Heads(lines[i], n)}
           losses == LossAt(tests, lines, at)
           fits == {i \in 1 .. Len(tests) : tests[i].testname = lines[at].test}
           first == IF fits # {} THEN Min(fits) ELSE 0
<1>1. acc.at \in Nat /\ acc.losses \in Seq(Int)
  BY DEF Searching
<1>2. at = IF hits = {} THEN Len(lines) + 1 ELSE Min(hits)
  BY DEF Search, SearchFrom
<1>3. at \in Nat
  <2>1. hits \in SUBSET Nat
    BY <1>1
  <2> HIDE DEF hits, at
  <2>2. hits # {} => Min(hits) \in hits
    BY <2>1, LeastOf
  <2> QED
    BY <1>2, <2>1, <2>2
<1> HIDE DEF at
<1>4. losses \in Seq(Int)
  <2>1. /\ Len(tests) \in Nat
        /\ \A i \in 1 .. Len(tests) : tests[i].points_worth \in Int
    BY ListItems DEF HasPoints
  <2>2. losses = IF at > Len(lines) \/ first = 0 THEN <<>> ELSE <<tests[first].points_worth>>
    BY DEF LossAt, SelectInSeq
  <2>3. fits \in SUBSET Nat
    BY <2>1
  <2>4. fits # {} => Min(fits) \in fits
    <3> HIDE DEF fits
    <3> QED
      BY <2>3, LeastOf
  <2>5. first # 0 => first \in 1 .. Len(tests)
    BY <2>4
  <2> HIDE DEF first, losses
  <2>6. CASE at > Len(lines) \/ first = 0
    BY <2>2, <2>6
  <2>7. CASE ~ (at > Len(lines) \/ first = 0)
    <3>1. tests[first].points_worth \in Int
      BY <2>1, <2>5, <2>7
    <3> QED
      BY <2>2, <2>7, <3>1
  <2> QED
    BY <2>6, <2>7
<1> HIDE DEF losses
<1>5. acc.losses \o losses \in Seq(Int)
  BY <1>1, <1>4, ConcatProperties
<1>6. AfterFailure(tests, lines, acc, n) = [at |-> at, losses |-> acc.losses \o losses]
  BY DEF AfterFailure, at, losses
<1> QED
  BY <1>3, <1>5, <1>6 DEF Searching

(* The search for the failures announced, from one to the next.            *)
Searched(tests, lines, f) ==
    LET numbers == Announced(lines) IN
    /\ f \in [0 .. Len(numbers) -> Searching]
    /\ f[0] = [at |-> 1, losses |-> <<>>]
    /\ \A k \in 1 .. Len(numbers) : f[k] = AfterFailure(tests, lines, f[k - 1], numbers[k])
    /\ CorrectnessLosses(tests, lines) = f[Len(numbers)].losses

LEMMA SearchFolds ==
    ASSUME NEW tests, HasPoints(tests), NEW lines, IsParsed(lines)
    PROVE  \E f : Searched(tests, lines, f)
<1> DEFINE numbers == Announced(lines)
           n == Len(numbers)
           start == [at |-> 1, losses |-> <<>>]
           G(f) == [k \in 0 .. n |->
                      IF k = 0 THEN start ELSE AfterFailure(tests, lines, f[k - 1], numbers[k])]
           Find(k) == [x \in Searching |-> AfterFailure(tests, lines, x, numbers[k])]
           step == [k \in 1 .. n |-> Find(k)]
           search == CHOOSE f : f = G(f)
<1>1. n \in Nat /\ Len(lines) \in Nat
  <2>1. numbers \in Seq(Nat) /\ Len(lines) \in Nat
    BY AnnouncedTyped
  <2> HIDE DEF numbers
  <2> QED
    BY <2>1
<1>2. start \in Searching
  BY DEF Searching
<1> HIDE DEF n, start
<1>3. ASSUME NEW k, NEW x \in Searching
      PROVE  AfterFailure(tests, lines, x, numbers[k]) \in Searching
  BY <1>1, AfterFailureTyped
<1>4. PICK g \in [0 .. n -> Searching] : Fold(n, start, step, g)
  <2>1. ASSUME NEW k \in 1 .. n
        PROVE  Find(k) \in [Searching -> Searching]
    BY <1>3
  <2> HIDE DEF Find
  <2>2. step \in [1 .. n -> [Searching -> Searching]]
    BY <2>1
  <2> HIDE DEF step
  <2> QED
    BY <1>1, <1>2, <2>2, FoldExists
<1>5. ASSUME NEW k \in 0 .. n
      PROVE  g[k] = IF k = 0 THEN start ELSE AfterFailure(tests, lines, g[k - 1], numbers[k])
  <2>1. CASE k = 0
    BY <1>4, <2>1 DEF Fold
  <2>2. CASE k # 0
    <3>1. k \in 1 .. n /\ k - 1 \in 0 .. n
      BY <1>1, <2>2
    <3>2. g[k] = step[k][g[k - 1]] /\ g[k - 1] \in Searching
      BY <1>4, <3>1 DEF Fold
    <3>3. step[k] = Find(k)
      BY <3>1
    <3> QED
      BY <2>2, <3>2, <3>3
  <2> QED
    BY <2>1, <2>2
<1>6. g = G(g)
  <2> DEFINE e(k) == IF k = 0 THEN start ELSE AfterFailure(tests, lines, g[k - 1], numbers[k])
  <2>1. g = [k \in 0 .. n |-> g[k]]
    BY <1>4
  <2>2. g = [k \in 0 .. n |-> e(k)]
    BY <1>5, <2>1
  <2> QED
    BY <2>2
<1>7. search = G(search)
  <2> HIDE DEF G
  <2> QED
    BY <1>6
<1>8. CorrectnessLosses(tests, lines) = search[n].losses
  BY Zenon DEF CorrectnessLosses, n, start
<1> HIDE DEF search
<1>9. /\ search = [k \in 0 .. n |-> IF k = 0 THEN start
                                    ELSE AfterFailure(tests, lines, search[k - 1], numbers[k])]
      /\ \A k \in 0 .. n : search[k] = IF k = 0 THEN start
                         ELSE AfterFailure(tests, lines, search[k - 1], numbers[k])
  BY <1>7
<1> DEFINE T == {k \in 0 .. n : search[k] \in Searching}
<1>10. 0 \in T
  BY <1>1, <1>2, <1>9
<1>11. ASSUME NEW k \in 1 .. n, k - 1 \in T
       PROVE  k \in T
  <2>1. k \in 0 .. n /\ k # 0
    BY <1>1
  <2>2. search[k] = AfterFailure(tests, lines, search[k - 1], numbers[k])
    BY <1>9, <2>1
  <2>3. search[k - 1] \in Searching
    BY <1>11
  <2>4. search[k] \in Searching
    BY <1>3, <2>2, <2>3
  <2> QED
    BY <2>1, <2>4
<1>12. T \in SUBSET (0 .. n)
  OBVIOUS
<1>13. \A k \in 0 .. n : search[k] \in Searching
  <2> HIDE DEF T
  <2>1. \A k \in 0 .. n : k \in T
    BY <1>1, <1>10, <1>11, <1>12, Upwards
  <2> QED
    BY <2>1 DEF T
<1>14. search \in [0 .. n -> Searching]
  BY <1>9, <1>13
<1>15. /\ search[0] = start
       /\ \A k \in 1 .. n : search[k] = AfterFailure(tests, lines, search[k - 1], numbers[k])
  <2>1. 0 \in 0 .. n /\ \A k \in 1 .. n : k \in 0 .. n /\ k # 0
    BY <1>1
  <2> QED
    BY <1>9, <2>1
<1> QED
  BY <1>8, <1>14, <1>15 DEF Searched, n, start

LEMMA CorrectnessLossesTyped ==
    ASSUME NEW tests, HasPoints(tests), NEW lines, IsParsed(lines)
    PROVE  CorrectnessLosses(tests, lines) \in Seq(Int)
<1> DEFINE numbers == Announced(lines)
<1>1. PICK f : Searched(tests, lines, f)
  BY SearchFolds
<1>2. numbers \in Seq(Nat)
  BY AnnouncedTyped
<1> HIDE DEF numbers
<1>3. Len(numbers) \in 0 .. Len(numbers)
  BY <1>2
<1>4. /\ f[Len(numbers)] \in Searching
      /\ CorrectnessLosses(tests, lines) = f[Len(numbers)].losses
  BY <1>1, <1>3 DEF Searched, numbers
<1> QED
  BY <1>4 DEF Searching

-----------------------------------------------------------------------------
(* Performance.                                                            *)

(* What a list of tests amounts to, each with a weight of its own.          *)
Weights(w, tests) == [i \in DOMAIN tests |-> w[tests[i]]]

LEMMA WeightsTyped ==
    ASSUME NEW E, NEW w \in [E -> Int], NEW tests \in Seq(E)
    PROVE  /\ Weights(w, tests) \in Seq(Int) /\ Len(Weights(w, tests)) = Len(tests)
           /\ \A i \in 1 .. Len(tests) : Weights(w, tests)[i] = w[tests[i]]
           /\ Sum(Weights(w, tests)) \in Int
<1> DEFINE s == Weights(w, tests)
           n == Len(tests)
<1>1. n \in Nat /\ DOMAIN tests = 1 .. n /\ \A i \in 1 .. n : tests[i] \in E
  OBVIOUS
<1> HIDE DEF n
<1>2. s = [i \in 1 .. n |-> w[tests[i]]]
  BY <1>1 DEF Weights
<1> HIDE DEF s
<1>3. s \in [1 .. n -> Int]
  BY <1>1, <1>2
<1>4. s \in Seq(Int) /\ Len(s) = n
  <2>1. s \in Seq(Int)
    BY <1>1, <1>3, SeqDef
  <2>2. DOMAIN s = 1 .. n /\ DOMAIN s = 1 .. Len(s) /\ Len(s) \in Nat
    BY <1>3, <2>1
  <2> QED
    BY <1>1, <2>1, <2>2
<1>5. Sum(s) \in Int
  BY <1>4, SumType
<1> QED
  BY <1>1, <1>2, <1>4, <1>5 DEF s, n

LEMMA WeightsOfRest ==
    ASSUME NEW E, NEW w \in [E -> Int], NEW tests \in Seq(E), NEW j \in 1 .. Len(tests)
    PROVE  Sum(Weights(w, RemoveAt(tests, j))) = Sum(Weights(w, tests)) - w[tests[j]]
<1> DEFINE rest == RemoveAt(tests, j)
           s == Weights(w, tests)
           t == Weights(w, rest)
           u == RemoveAt(s, j)
<1>1. /\ s \in Seq(Int) /\ Len(s) = Len(tests)
      /\ \A i \in 1 .. Len(tests) : s[i] = w[tests[i]]
  BY WeightsTyped
<1>2. /\ rest \in Seq(E) /\ Len(rest) = Len(tests) - 1
      /\ \A i \in 1 .. Len(tests) - 1 : rest[i] = IF i < j THEN tests[i] ELSE tests[i + 1]
  BY RemovedFrom
<1> HIDE DEF rest
<1>3. /\ t \in Seq(Int) /\ Len(t) = Len(rest)
      /\ \A i \in 1 .. Len(rest) : t[i] = w[rest[i]]
  <2>1. rest \in Seq(E)
    BY <1>2
  <2>2. t \in Seq(Int) /\ Len(t) = Len(rest)
    BY <2>1, WeightsTyped
  <2>3. \A i \in 1 .. Len(rest) : t[i] = w[rest[i]]
    <3>1. DOMAIN rest = 1 .. Len(rest)
      BY <2>1
    <3> QED
      BY <3>1 DEF Weights
  <2> QED
    BY <2>2, <2>3
<1> HIDE DEF s, t
<1>4. /\ u \in Seq(Int) /\ Len(u) = Len(s) - 1
      /\ \A i \in 1 .. Len(s) - 1 : u[i] = IF i < j THEN s[i] ELSE s[i + 1]
  BY <1>1, RemovedFrom
<1>5. Sum(u) = Sum(s) - s[j]
  BY <1>1, SumOfRest
<1> HIDE DEF u
<1>6. Len(tests) \in Nat
  OBVIOUS
<1>7. ASSUME NEW i \in 1 .. Len(t)
      PROVE  t[i] = u[i]
  <2>1. i \in 1 .. Len(tests) /\ i + 1 \in 1 .. Len(tests) /\ i \in 1 .. Len(tests) - 1
    BY <1>2, <1>3, <1>6
  <2>2. s[i] = w[tests[i]] /\ s[i + 1] = w[tests[i + 1]]
    BY <1>1, <2>1
  <2>3. t[i] = w[rest[i]]
    BY <1>3
  <2>4. u[i] = IF i < j THEN s[i] ELSE s[i + 1]
    BY <1>1, <1>4, <2>1
  <2>5. rest[i] = IF i < j THEN tests[i] ELSE tests[i + 1]
    BY <1>2, <2>1
  <2> QED
    BY <2>2, <2>3, <2>4, <2>5
<1>8. t = u
  BY <1>1, <1>2, <1>3, <1>4, <1>7, SeqEqual
<1> QED
  BY <1>1, <1>5, <1>8 DEF rest, s, t

PointsOf(tests) == [i \in DOMAIN tests |-> tests[i].points_worth]

LEMMA WorthWeighs ==
    ASSUME NEW E, NEW tests \in Seq(E)
    PROVE  /\ PointsOf(tests) = Weights([e \in E |-> e.points_worth], tests)
           /\ Worth(tests) = Sum(PointsOf(tests))
<1> DEFINE w == [e \in E |-> e.points_worth]
<1>1. \A i \in DOMAIN tests : w[tests[i]] = tests[i].points_worth
  OBVIOUS
<1> HIDE DEF w
<1>2. PointsOf(tests) = Weights(w, tests)
  BY <1>1 DEF PointsOf, Weights
<1>3. Worth(tests) = Sum(PointsOf(tests))
  BY DEF Worth, PointsOf
<1> QED
  BY <1>2, <1>3 DEF w

LEMMA WorthTyped ==
    ASSUME NEW E, \A e \in E : e.points_worth \in Int, NEW tests \in Seq(E)
    PROVE  /\ PointsOf(tests) \in Seq(Int) /\ Worth(tests) = Sum(PointsOf(tests))
           /\ Worth(tests) \in Int
<1> DEFINE w == [e \in E |-> e.points_worth]
<1>1. w \in [E -> Int]
  OBVIOUS
<1>2. PointsOf(tests) = Weights(w, tests) /\ Worth(tests) = Sum(PointsOf(tests))
  BY WorthWeighs
<1> HIDE DEF w
<1> QED
  BY <1>1, <1>2, WeightsTyped

LEMMA WorthOfRest ==
    ASSUME NEW E, \A e \in E : e.points_worth \in Int, NEW tests \in Seq(E),
           NEW j \in 1 .. Len(tests)
    PROVE  Worth(RemoveAt(tests, j)) = Worth(tests) - tests[j].points_worth
<1> DEFINE w == [e \in E |-> e.points_worth]
           rest == RemoveAt(tests, j)
<1>1. w \in [E -> Int] /\ w[tests[j]] = tests[j].points_worth
  OBVIOUS
<1>2. rest \in Seq(E)
  BY RemovedFrom
<1>3. Sum(Weights(w, rest)) = Sum(Weights(w, tests)) - w[tests[j]]
  BY <1>1, WeightsOfRest
<1> HIDE DEF rest
<1>4. Worth(tests) = Sum(Weights(w, tests)) /\ Worth(rest) = Sum(Weights(w, rest))
  BY <1>2, WorthWeighs
<1> HIDE DEF w
<1> QED
  BY <1>1, <1>3, <1>4 DEF rest

LEMMA PositionIsFirst ==
    ASSUME NEW E, NEW tests \in Seq(E), NEW name, NEW cores
    PROVE  LET p == Position(tests, name, cores) IN
           /\ p \in 0 .. Len(tests)
           /\ p = 0 => \A i \in 1 .. Len(tests) : ~ Fits(tests[i], name, cores)
           /\ p # 0 => /\ Fits(tests[p], name, cores)
                       /\ \A i \in 1 .. Len(tests) : Fits(tests[i], name, cores) => p <= i
<1> DEFINE I == {i \in 1 .. Len(tests) : Fits(tests[i], name, cores)}
           p == Position(tests, name, cores)
<1>1. Len(tests) \in Nat
  OBVIOUS
<1>2. p = IF I # {} THEN Min(I) ELSE 0
  BY DEF Position, SelectInSeq, Fits
<1>3. I # {} => Min(I) \in I /\ \A i \in I : Min(I) <= i
  <2>1. I \in SUBSET Nat
    BY <1>1
  <2> HIDE DEF I
  <2> QED
    BY <2>1, LeastOf
<1> HIDE DEF p
<1>4. CASE I = {}
  <2>1. p = 0 /\ \A i \in 1 .. Len(tests) : ~ Fits(tests[i], name, cores)
    BY <1>2, <1>4
  <2> QED
    BY <1>1, <2>1 DEF p
<1>5. CASE I # {}
  <2>1. p \in I /\ \A i \in I : p <= i
    BY <1>2, <1>3, <1>5
  <2>2. p \in 1 .. Len(tests) /\ Fits(tests[p], name, cores)
    BY <2>1
  <2>3. \A i \in 1 .. Len(tests) : Fits(tests[i], name, cores) => p <= i
    BY <2>1
  <2> QED
    BY <1>1, <2>2, <2>3 DEF p
<1> QED
  BY <1>4, <1>5

(* The first test of that name on so many cores is the same in both lists. *)
Same(graded, tests, name, cores) ==
    LET p == Position(tests, name, cores)
        q == Position(graded, name, cores)
    IN  (p = 0 <=> q = 0) /\ (p # 0 => graded[q] = tests[p])

(* Removing a test moves the first of another name or number of cores, and *)
(* leaves it the first.                                                    *)
LEMMA RestHasSame ==
    ASSUME NEW E, NEW graded \in Seq(E), NEW n1, NEW c1, NEW name, NEW cores,
           name # n1 \/ cores # c1, NEW j, j = Position(graded, n1, c1), j # 0
    PROVE  Same(RemoveAt(graded, j), graded, name, cores)
<1> DEFINE rest == RemoveAt(graded, j)
           n == Len(graded)
           q == Position(graded, name, cores)
           r == Position(rest, name, cores)
           Fit(i) == Fits(graded[i], name, cores)
<1>1. n \in Nat
  OBVIOUS
<1>2. j \in 1 .. n /\ ~ Fit(j)
  <2>1. j \in 0 .. n /\ Fits(graded[j], n1, c1)
    BY PositionIsFirst
  <2> QED
    BY <1>1, <2>1 DEF Fits
<1>3. /\ rest \in Seq(E) /\ Len(rest) = n - 1
      /\ \A i \in 1 .. n - 1 : rest[i] = IF i < j THEN graded[i] ELSE graded[i + 1]
  BY <1>2, RemovedFrom
<1>4. /\ q \in 0 .. n
      /\ q = 0 => \A i \in 1 .. n : ~ Fit(i)
      /\ q # 0 => Fit(q) /\ \A i \in 1 .. n : Fit(i) => q <= i
  BY PositionIsFirst
<1> HIDE DEF rest
<1>5. /\ r \in 0 .. n - 1
      /\ r = 0 => \A i \in 1 .. n - 1 : ~ Fits(rest[i], name, cores)
      /\ r # 0 => /\ Fits(rest[r], name, cores)
                  /\ \A i \in 1 .. n - 1 : Fits(rest[i], name, cores) => r <= i
  BY <1>3, PositionIsFirst
<1> HIDE DEF q, r, n
<1>6. ASSUME NEW i \in 1 .. n - 1
      PROVE  Fits(rest[i], name, cores) <=> IF i < j THEN Fit(i) ELSE Fit(i + 1)
  BY <1>3
<1>7. ASSUME NEW i \in 1 .. n - 1
      PROVE  i \in 1 .. n /\ i + 1 \in 1 .. n
  BY <1>1
<1> HIDE DEF Fit
<1>8. CASE q = 0
  <2>1. \A i \in 1 .. n - 1 : ~ Fits(rest[i], name, cores)
    BY <1>4, <1>6, <1>7, <1>8
  <2>2. r = 0
    BY <1>1, <1>5, <2>1
  <2> QED
    BY <1>8, <2>2 DEF Same, q, r, rest
<1>9. CASE q # 0 /\ q < j
  <2>1. q \in 1 .. n - 1 /\ Fits(rest[q], name, cores)
    BY <1>1, <1>2, <1>4, <1>6, <1>9
  <2>2. r # 0 /\ r <= q /\ r \in 1 .. n - 1 /\ r < j
    BY <1>1, <1>2, <1>5, <1>9, <2>1
  <2>3. Fit(r) /\ r \in 1 .. n
    BY <1>5, <1>6, <1>7, <2>2
  <2>4. r = q
    BY <1>1, <1>4, <1>9, <2>2, <2>3
  <2>5. rest[r] = graded[q]
    BY <1>3, <1>9, <2>1, <2>4
  <2> QED
    BY <1>9, <2>2, <2>5 DEF Same, q, r, rest
<1>10. CASE q # 0 /\ q > j
  <2>1. /\ q - 1 \in 1 .. n - 1 /\ ~ q - 1 < j /\ (q - 1) + 1 = q
    BY <1>1, <1>2, <1>4, <1>10
  <2>2. Fits(rest[q - 1], name, cores)
    <3> DEFINE k == q - 1
    <3>1. k \in 1 .. n - 1 /\ ~ k < j /\ Fit(k + 1)
      BY <1>4, <1>10, <2>1
    <3> HIDE DEF k
    <3>2. Fits(rest[k], name, cores)
      BY <1>6, <3>1
    <3> QED
      BY <3>2 DEF k
  <2>3. r # 0 /\ r <= q - 1 /\ r \in 1 .. n - 1
    BY <1>1, <1>5, <2>1, <2>2
  <2>4. ~ r < j /\ Fit(r + 1)
    <3>1. CASE r < j
      <4>1. Fit(r) /\ r \in 1 .. n
        BY <1>5, <1>6, <1>7, <2>3, <3>1
      <4> QED
        BY <1>1, <1>2, <1>4, <1>10, <3>1, <4>1
    <3>2. CASE ~ r < j
      BY <1>5, <1>6, <2>3, <3>2
    <3> QED
      BY <3>1, <3>2
  <2>5. q <= r + 1
    BY <1>4, <1>7, <1>10, <2>3, <2>4
  <2>6. r + 1 = q
    BY <1>1, <1>4, <2>3, <2>5
  <2>7. rest[r] = graded[q]
    BY <1>3, <2>3, <2>4, <2>6
  <2> QED
    BY <1>10, <2>3, <2>7 DEF Same, q, r, rest
<1>11. CASE q = j
  BY <1>1, <1>2, <1>4, <1>11
<1> QED
  BY <1>1, <1>2, <1>4, <1>8, <1>9, <1>10, <1>11

LEMMA RestIsCleared ==
    ASSUME NEW E, NEW graded \in Seq(E), NEW j \in 1 .. Len(graded)
    PROVE  LET rest == RemoveAt(graded, j) IN
           /\ \A name, c : Position(graded, name, c) = 0 => Position(rest, name, c) = 0
           /\ Distinct(graded) =>
                 /\ Distinct(rest)
                 /\ \A name, c : Fits(graded[j], name, c) => Position(rest, name, c) = 0
<1> DEFINE rest == RemoveAt(graded, j)
           n == Len(graded)
           from(i) == IF i < j THEN i ELSE i + 1
<1>1. n \in Nat /\ j \in 1 .. n
  OBVIOUS
<1>2. /\ rest \in Seq(E) /\ Len(rest) = n - 1
      /\ \A i \in 1 .. n - 1 : rest[i] = IF i < j THEN graded[i] ELSE graded[i + 1]
  BY RemovedFrom
<1> HIDE DEF rest, n
<1>3. ASSUME NEW i \in 1 .. n - 1
      PROVE  rest[i] = graded[from(i)] /\ from(i) \in 1 .. n /\ from(i) # j
  <2>1. CASE i < j
    BY <1>1, <1>2, <2>1
  <2>2. CASE ~ i < j
    BY <1>1, <1>2, <2>2
  <2> QED
    BY <2>1, <2>2
<1>4. \A i, k \in 1 .. n - 1 : from(i) = from(k) => i = k
  BY <1>1
<1> HIDE DEF from
<1>5. ASSUME NEW name, NEW c, \A i \in 1 .. n - 1 : ~ Fits(rest[i], name, c)
      PROVE  Position(rest, name, c) = 0
  <2> DEFINE r == Position(rest, name, c)
  <2>1. r \in 0 .. Len(rest) /\ (r # 0 => Fits(rest[r], name, c))
    BY <1>2, PositionIsFirst
  <2> HIDE DEF r
  <2>2. r # 0 => r \in 1 .. n - 1
    BY <1>1, <1>2, <2>1
  <2>3. r = 0
    BY <1>5, <2>1, <2>2
  <2> QED
    BY <2>3 DEF r
<1>6. ASSUME NEW name, NEW c, Position(graded, name, c) = 0
      PROVE  Position(rest, name, c) = 0
  <2>1. \A i \in 1 .. n : ~ Fits(graded[i], name, c)
    BY <1>6, PositionIsFirst DEF n
  <2>2. \A i \in 1 .. n - 1 : ~ Fits(rest[i], name, c)
    BY <1>3, <2>1
  <2> QED
    BY <1>5, <2>2
<1>7. ASSUME Distinct(graded)
      PROVE  /\ Distinct(rest)
             /\ \A name, c : Fits(graded[j], name, c) => Position(rest, name, c) = 0
  <2>1. \A i, k \in 1 .. n : Fits(graded[i], graded[k].testname, graded[k].ncores) => i = k
    BY <1>7 DEF Distinct, n
  <2>2. Distinct(rest)
    <3>1. ASSUME NEW i \in 1 .. n - 1, NEW k \in 1 .. n - 1,
                 Fits(rest[i], rest[k].testname, rest[k].ncores)
          PROVE  i = k
      <4>1. Fits(graded[from(i)], graded[from(k)].testname, graded[from(k)].ncores)
        BY <1>3, <3>1
      <4>2. from(i) = from(k)
        BY <1>3, <2>1, <4>1
      <4> QED
        BY <1>4, <4>2
    <3> QED
      BY <1>2, <3>1 DEF Distinct
  <2>3. ASSUME NEW name, NEW c, Fits(graded[j], name, c)
        PROVE  Position(rest, name, c) = 0
    <3>1. ASSUME NEW i \in 1 .. n - 1, Fits(rest[i], name, c)
          PROVE  FALSE
      <4>1. Fits(graded[from(i)], graded[j].testname, graded[j].ncores)
        BY <1>3, <2>3, <3>1 DEF Fits
      <4> QED
        BY <1>1, <1>3, <2>1, <4>1
    <3> QED
      BY <1>5, <3>1
  <2> QED
    BY <2>2, <2>3
<1> QED
  BY <1>6, <1>7 DEF rest

(* The tests of a rubric with their intervals.                             *)
HasGrading(tests) ==
    /\ HasPoints(tests)
    /\ \A test \in ToSet(tests) :
          IsList(test.grading) /\ \A g \in ToSet(test.grading) : g.points_off \in Int

Graded(tests) == [points : Int, losses : Seq(Int), graded : Seq(ToSet(tests))]

(* What was given, what was taken off, and what may still be given.        *)
Balanced(tests, acc) == acc.points + Sum(acc.losses) + Worth(acc.graded) = Worth(tests)

(* pay is what a test pays once it is graded: what was given, and what may *)
(* still be paid, is what all tests pay together.                          *)
Paid(tests, pay, acc) ==
    acc.points + Sum(Weights(pay, acc.graded)) = Sum(Weights(pay, tests))

PaysLine(tests, pay, cores, line) ==
    LET i == Position(tests, line.test, cores) IN
    i # 0 => pay[tests[i]] = tests[i].points_worth - Sum(IntervalLosses(tests[i], line))

Cleared(graded, cores, line) == Position(graded, line.test, cores) = 0

LEMMA IntervalTyped ==
    ASSUME NEW test, IsList(test.grading), \A g \in ToSet(test.grading) : g.points_off \in Int,
           NEW line
    PROVE  IntervalLosses(test, line) \in Seq(Int)
<1> DEFINE I == {i \in 1 .. Len(test.grading) : InInterval(line, test.grading[i])}
           p == IF I # {} THEN Min(I) ELSE 0
<1>1. /\ Len(test.grading) \in Nat
      /\ \A i \in 1 .. Len(test.grading) : test.grading[i] \in ToSet(test.grading)
  BY ListItems
<1>2. IntervalLosses(test, line) = IF p = 0 THEN <<>> ELSE <<test.grading[p].points_off>>
  BY DEF IntervalLosses, SelectInSeq
<1>3. p # 0 => p \in 1 .. Len(test.grading)
  <2>1. I \in SUBSET Nat
    BY <1>1
  <2>2. I # {} => Min(I) \in I
    <3> HIDE DEF I
    <3> QED
      BY <2>1, LeastOf
  <2> QED
    BY <2>2
<1> HIDE DEF p
<1>4. CASE p = 0
  BY <1>2, <1>4
<1>5. CASE p # 0
  <2>1. test.grading[p].points_off \in Int
    BY <1>1, <1>3, <1>5
  <2> QED
    BY <1>2, <1>5, <2>1
<1> QED
  BY <1>4, <1>5

(* What a line that names a test of the rubric does.                       *)
LEMMA GradeLineTyped ==
    ASSUME NEW tests, HasGrading(tests), NEW cores, NEW acc \in Graded(tests), NEW line
    PROVE  LET i == Position(tests, line.test, cores)
               j == Position(acc.graded, line.test, cores)
               new == GradeLine(tests, cores, acc, line)
           IN  /\ new \in Graded(tests)
               /\ i = 0 => new = acc
               /\ i # 0 => /\ i \in 1 .. Len(tests)
                           /\ new.points + Sum(new.losses)
                                 = acc.points + Sum(acc.losses) + tests[i].points_worth
                           /\ new.points = acc.points + tests[i].points_worth
                                             - Sum(IntervalLosses(tests[i], line))
                           /\ Sum(IntervalLosses(tests[i], line)) \in Int
                           /\ j = 0 => new.graded = acc.graded
                           /\ j # 0 => j \in 1 .. Len(acc.graded)
                                         /\ new.graded = RemoveAt(acc.graded, j)
<1> DEFINE i == Position(tests, line.test, cores)
           j == Position(acc.graded, line.test, cores)
           new == GradeLine(tests, cores, acc, line)
           losses == IntervalLosses(tests[i], line)
           rest == Ungraded(acc.graded, line.test, cores)
<1>1. /\ tests \in Seq(ToSet(tests)) /\ Len(tests) \in Nat
      /\ \A k \in 1 .. Len(tests) : tests[k] \in ToSet(tests)
  BY ListItems DEF HasGrading, HasPoints
<1>2. acc.points \in Int /\ acc.losses \in Seq(Int) /\ acc.graded \in Seq(ToSet(tests))
  BY DEF Graded
<1>3. i \in 0 .. Len(tests) /\ j \in 0 .. Len(acc.graded)
  BY <1>1, <1>2, PositionIsFirst
<1>4. CASE i = 0
  <2>1. new = acc
    BY <1>4 DEF GradeLine
  <2> QED
    BY <1>4, <2>1
<1>5. CASE i # 0
  <2>1. i \in 1 .. Len(tests) /\ tests[i] \in ToSet(tests)
    BY <1>1, <1>3, <1>5
  <2>2. tests[i].points_worth \in Int
    BY <2>1 DEF HasGrading, HasPoints
  <2>3. losses \in Seq(Int) /\ Sum(losses) \in Int
    <3>1. losses \in Seq(Int)
      BY <2>1, IntervalTyped DEF HasGrading
    <3> HIDE DEF losses
    <3> QED
      BY <3>1, SumType
  <2>4. rest = IF j = 0 THEN acc.graded ELSE RemoveAt(acc.graded, j)
    BY DEF Ungraded
  <2>5. new = [points |-> acc.points + tests[i].points_worth - Sum(losses),
               losses |-> acc.losses \o losses, graded |-> rest]
    BY <1>5 DEF GradeLine
  <2>6. j # 0 => j \in 1 .. Len(acc.graded)
    <3>1. Len(acc.graded) \in Nat
      BY <1>2
    <3> HIDE DEF j
    <3> QED
      BY <1>3, <3>1
  <2> HIDE DEF i, j, losses, rest, new
  <2>7. rest \in Seq(ToSet(tests))
    BY <1>2, <2>4, <2>6, RemovedFrom
  <2>8. /\ acc.losses \o losses \in Seq(Int)
        /\ Sum(acc.losses \o losses) = Sum(acc.losses) + Sum(losses)
        /\ Sum(acc.losses) \in Int
    BY <1>2, <2>3, SumOfBoth, SumType
  <2>9. new \in Graded(tests)
    BY <1>2, <2>2, <2>3, <2>5, <2>7, <2>8 DEF Graded
  <2>10. new.points + Sum(new.losses) = acc.points + Sum(acc.losses) + tests[i].points_worth
    <3>1. new.points = acc.points + tests[i].points_worth - Sum(losses)
          /\ new.losses = acc.losses \o losses
      BY <2>5
    <3> QED
      BY <1>2, <2>2, <2>3, <2>8, <3>1
  <2>11. new.graded = rest /\ new.points = acc.points + tests[i].points_worth - Sum(losses)
    BY <2>5
  <2> QED
    BY <1>5, <2>1, <2>3, <2>4, <2>6, <2>9, <2>10, <2>11 DEF i, j, new, losses
<1> QED
  BY <1>4, <1>5

LEMMA GradeLineBalances ==
    ASSUME NEW tests, HasGrading(tests), NEW cores, NEW acc \in Graded(tests), NEW line,
           Balanced(tests, acc), Same(acc.graded, tests, line.test, cores)
    PROVE  Balanced(tests, GradeLine(tests, cores, acc, line))
<1> DEFINE i == Position(tests, line.test, cores)
           j == Position(acc.graded, line.test, cores)
           new == GradeLine(tests, cores, acc, line)
<1>1. /\ i = 0 => new = acc
      /\ i # 0 => /\ i \in 1 .. Len(tests)
                  /\ new.points + Sum(new.losses)
                        = acc.points + Sum(acc.losses) + tests[i].points_worth
                  /\ j # 0 => j \in 1 .. Len(acc.graded)
                                /\ new.graded = RemoveAt(acc.graded, j)
  BY GradeLineTyped
<1>2. (i = 0 <=> j = 0) /\ (i # 0 => acc.graded[j] = tests[i])
  BY DEF Same
<1> HIDE DEF i, j, new
<1>3. CASE i = 0
  BY <1>1, <1>3 DEF new
<1>4. CASE i # 0
  <2>1. /\ acc.points \in Int /\ acc.losses \in Seq(Int) /\ acc.graded \in Seq(ToSet(tests))
        /\ \A e \in ToSet(tests) : e.points_worth \in Int
    BY DEF Graded, HasGrading, HasPoints
  <2>2. Sum(acc.losses) \in Int
    BY <2>1, SumType
  <2>3. Worth(acc.graded) \in Int /\ tests[i].points_worth \in Int
    <3>1. Worth(acc.graded) \in Int
      BY <2>1, WorthTyped
    <3>2. tests[i] \in ToSet(tests)
      BY <1>1, <1>4, ListItems DEF HasGrading, HasPoints
    <3> QED
      BY <2>1, <3>1, <3>2
  <2>4. Worth(new.graded) = Worth(acc.graded) - tests[i].points_worth
    BY <1>1, <1>2, <1>4, <2>1, WorthOfRest
  <2>5. new.points + Sum(new.losses) = acc.points + Sum(acc.losses) + tests[i].points_worth
    BY <1>1, <1>4
  <2>6. new.points + Sum(new.losses) + Worth(new.graded) = Worth(tests)
    <3>1. acc.points + Sum(acc.losses) + Worth(acc.graded) = Worth(tests)
      BY DEF Balanced
    <3> QED
      BY <2>1, <2>2, <2>3, <2>4, <2>5, <3>1
  <2> QED
    BY <2>6 DEF Balanced, new
<1> QED
  BY <1>3, <1>4

LEMMA GradeLineKeeps ==
    ASSUME NEW tests, HasGrading(tests), NEW cores, NEW acc \in Graded(tests), NEW line,
           NEW name, NEW c, name # line.test \/ c # cores, Same(acc.graded, tests, name, c)
    PROVE  Same(GradeLine(tests, cores, acc, line).graded, tests, name, c)
<1> DEFINE i == Position(tests, line.test, cores)
           j == Position(acc.graded, line.test, cores)
           new == GradeLine(tests, cores, acc, line)
<1>1. /\ i = 0 => new = acc
      /\ i # 0 => /\ j = 0 => new.graded = acc.graded
                  /\ j # 0 => new.graded = RemoveAt(acc.graded, j)
  BY GradeLineTyped
<1>2. acc.graded \in Seq(ToSet(tests))
  BY DEF Graded
<1>3. j # 0 => Same(RemoveAt(acc.graded, j), acc.graded, name, c)
  BY <1>2, RestHasSame
<1>4. CASE i # 0 /\ j # 0
  <2>1. new.graded = RemoveAt(acc.graded, j)
    BY <1>1, <1>4
  <2>2. Same(new.graded, acc.graded, name, c)
    BY <1>3, <1>4, <2>1
  <2> HIDE DEF new
  <2> QED
    BY <2>2 DEF Same, new
<1>5. CASE ~ (i # 0 /\ j # 0)
  BY <1>1, <1>5
<1> QED
  BY <1>4, <1>5

LEMMA GradeLinePays ==
    ASSUME NEW tests, HasGrading(tests), NEW cores, NEW acc \in Graded(tests), NEW line,
           Same(acc.graded, tests, line.test, cores),
           NEW pay \in [ToSet(tests) -> Int], PaysLine(tests, pay, cores, line),
           Paid(tests, pay, acc)
    PROVE  Paid(tests, pay, GradeLine(tests, cores, acc, line))
<1> DEFINE i == Position(tests, line.test, cores)
           j == Position(acc.graded, line.test, cores)
           new == GradeLine(tests, cores, acc, line)
           off == Sum(IntervalLosses(tests[i], line))
<1>1. /\ i = 0 => new = acc
      /\ i # 0 => /\ i \in 1 .. Len(tests)
                  /\ new.points = acc.points + tests[i].points_worth - off
                  /\ off \in Int
                  /\ j # 0 => j \in 1 .. Len(acc.graded)
                                /\ new.graded = RemoveAt(acc.graded, j)
  BY GradeLineTyped
<1>2. (i = 0 <=> j = 0) /\ (i # 0 => acc.graded[j] = tests[i])
  BY DEF Same
<1>3. i # 0 => pay[tests[i]] = tests[i].points_worth - off
  BY DEF PaysLine
<1> HIDE DEF i, j, new, off
<1>4. CASE i = 0
  BY <1>1, <1>4 DEF new
<1>5. CASE i # 0
  <2>1. acc.points \in Int /\ acc.graded \in Seq(ToSet(tests))
    BY DEF Graded
  <2>2. tests[i] \in ToSet(tests) /\ tests[i].points_worth \in Int
    <3>1. tests[i] \in ToSet(tests)
      BY <1>1, <1>5, ListItems DEF HasGrading, HasPoints
    <3> QED
      BY <3>1 DEF HasGrading, HasPoints
  <2>3. j \in 1 .. Len(acc.graded) /\ new.graded = RemoveAt(acc.graded, j)
    BY <1>1, <1>2, <1>5
  <2>4. Sum(Weights(pay, new.graded)) = Sum(Weights(pay, acc.graded)) - pay[acc.graded[j]]
    BY <2>1, <2>3, WeightsOfRest
  <2>5. Sum(Weights(pay, acc.graded)) \in Int
    BY <2>1, WeightsTyped
  <2>6. pay[acc.graded[j]] = tests[i].points_worth - off
    BY <1>2, <1>3, <1>5
  <2>7. new.points = acc.points + tests[i].points_worth - off /\ off \in Int
    BY <1>1, <1>5
  <2>8. acc.points + Sum(Weights(pay, acc.graded)) = Sum(Weights(pay, tests))
    BY DEF Paid
  <2>9. new.points + Sum(Weights(pay, new.graded)) = Sum(Weights(pay, tests))
    BY <2>1, <2>2, <2>4, <2>5, <2>6, <2>7, <2>8
  <2> QED
    BY <2>9 DEF Paid, new
<1> QED
  BY <1>4, <1>5

LEMMA GradeLineClears ==
    ASSUME NEW tests, HasGrading(tests), NEW cores, NEW acc \in Graded(tests), NEW line,
           Same(acc.graded, tests, line.test, cores)
    PROVE  LET new == GradeLine(tests, cores, acc, line) IN
           /\ \A name, c : Position(acc.graded, name, c) = 0
                              => Position(new.graded, name, c) = 0
           /\ Distinct(acc.graded) => Distinct(new.graded) /\ Cleared(new.graded, cores, line)
<1> DEFINE i == Position(tests, line.test, cores)
           j == Position(acc.graded, line.test, cores)
           new == GradeLine(tests, cores, acc, line)
<1>1. /\ i = 0 => new = acc
      /\ i # 0 /\ j # 0 => j \in 1 .. Len(acc.graded) /\ new.graded = RemoveAt(acc.graded, j)
  BY GradeLineTyped
<1>2. i = 0 <=> j = 0
  BY DEF Same
<1>3. acc.graded \in Seq(ToSet(tests))
  BY DEF Graded
<1>4. j # 0 => Fits(acc.graded[j], line.test, cores)
  BY <1>3, PositionIsFirst
<1> HIDE DEF i, new
<1>5. CASE j = 0
  <2>1. new = acc /\ Cleared(acc.graded, cores, line)
    BY <1>1, <1>2, <1>5 DEF Cleared
  <2> QED
    BY <2>1 DEF new
<1>6. CASE j # 0
  <2> HIDE DEF j
  <2>1. j \in 1 .. Len(acc.graded) /\ new.graded = RemoveAt(acc.graded, j)
    BY <1>1, <1>2, <1>6
  <2>2. /\ \A name, c : Position(acc.graded, name, c) = 0 => Position(new.graded, name, c) = 0
        /\ Distinct(acc.graded) =>
              /\ Distinct(new.graded)
              /\ \A name, c : Fits(acc.graded[j], name, c) => Position(new.graded, name, c) = 0
    BY <1>3, <2>1, RestIsCleared
  <2> QED
    BY <1>4, <1>6, <2>2 DEF Cleared, new
<1> QED
  BY <1>5, <1>6

(* What is known at each line of a file.                                   *)
FileFold(tests, cores, acc, lines, f) ==
    /\ f \in [0 .. Len(lines) -> Graded(tests)] /\ f[0] = acc
    /\ \A k \in 1 .. Len(lines) : f[k] = GradeLine(tests, cores, f[k - 1], lines[k])
    /\ GradeFile(tests, cores, acc, lines) = f[Len(lines)]

LEMMA GradeFileFolds ==
    ASSUME NEW tests, HasGrading(tests), NEW cores, NEW acc \in Graded(tests),
           NEW lines, IsList(lines)
    PROVE  \E f : FileFold(tests, cores, acc, lines, f)
<1> DEFINE n == Len(lines)
           D == Graded(tests)
           G(f) == [k \in 0 .. n |->
                      IF k = 0 THEN acc ELSE GradeLine(tests, cores, f[k - 1], lines[k])]
           Grade(k) == [x \in D |-> GradeLine(tests, cores, x, lines[k])]
           step == [k \in 1 .. n |-> Grade(k)]
           file == CHOOSE f : f = G(f)
<1>1. n \in Nat
  BY ListItems
<1> HIDE DEF n
<1>2. ASSUME NEW k, NEW x \in D
      PROVE  GradeLine(tests, cores, x, lines[k]) \in D
  BY GradeLineTyped
<1> HIDE DEF D
<1>3. acc \in D
  BY DEF D
<1>4. PICK g \in [0 .. n -> D] : Fold(n, acc, step, g)
  <2>1. ASSUME NEW k \in 1 .. n
        PROVE  Grade(k) \in [D -> D]
    BY <1>2
  <2> HIDE DEF Grade
  <2>2. step \in [1 .. n -> [D -> D]]
    BY <2>1
  <2> HIDE DEF step
  <2> QED
    BY <1>1, <1>3, <2>2, FoldExists
<1>5. ASSUME NEW k \in 0 .. n
      PROVE  g[k] = IF k = 0 THEN acc ELSE GradeLine(tests, cores, g[k - 1], lines[k])
  <2>1. CASE k = 0
    BY <1>4, <2>1 DEF Fold
  <2>2. CASE k # 0
    <3>1. k \in 1 .. n /\ k - 1 \in 0 .. n
      BY <1>1, <2>2
    <3>2. g[k] = step[k][g[k - 1]] /\ g[k - 1] \in D
      BY <1>4, <3>1 DEF Fold
    <3>3. step[k] = Grade(k)
      BY <3>1
    <3> QED
      BY <2>2, <3>2, <3>3
  <2> QED
    BY <2>1, <2>2
<1>6. g = G(g)
  <2> DEFINE e(k) == IF k = 0 THEN acc ELSE GradeLine(tests, cores, g[k - 1], lines[k])
  <2>1. g = [k \in 0 .. n |-> g[k]]
    BY <1>4
  <2>2. g = [k \in 0 .. n |-> e(k)]
    BY <1>5, <2>1
  <2> QED
    BY <2>2
<1>7. file = G(file)
  <2> HIDE DEF G
  <2> QED
    BY <1>6
<1>8. GradeFile(tests, cores, acc, lines) = file[n]
  BY Zenon DEF GradeFile, n
<1> HIDE DEF file
<1>9. ASSUME NEW k \in 0 .. n
      PROVE  file[k] = IF k = 0 THEN acc ELSE GradeLine(tests, cores, file[k - 1], lines[k])
  BY <1>7
<1>10. file = [k \in 0 .. n |-> file[k]]
  BY <1>7
<1> DEFINE T == {k \in 0 .. n : file[k] \in D}
<1>11. 0 \in T
  BY <1>1, <1>3, <1>9
<1>12. ASSUME NEW k \in 1 .. n, k - 1 \in T
       PROVE  k \in T
  <2>1. k \in 0 .. n /\ k # 0
    BY <1>1
  <2>2. file[k] = GradeLine(tests, cores, file[k - 1], lines[k])
    BY <1>9, <2>1
  <2>3. file[k - 1] \in D
    BY <1>12
  <2>4. file[k] \in D
    BY <1>2, <2>2, <2>3
  <2> QED
    BY <2>1, <2>4
<1>13. \A k \in 0 .. n : file[k] \in D
  <2>1. T \in SUBSET (0 .. n)
    OBVIOUS
  <2> HIDE DEF T
  <2>2. \A k \in 0 .. n : k \in T
    BY <1>1, <1>11, <1>12, <2>1, Upwards
  <2> QED
    BY <2>2 DEF T
<1>14. file \in [0 .. n -> D]
  BY <1>10, <1>13
<1>15. file[0] = acc
  BY <1>1, <1>9
<1>16. \A k \in 1 .. n : file[k] = GradeLine(tests, cores, file[k - 1], lines[k])
  <2>1. \A k \in 1 .. n : k \in 0 .. n /\ k # 0
    BY <1>1
  <2> QED
    BY <1>9, <2>1
<1> QED
  BY <1>8, <1>14, <1>15, <1>16 DEF n, D, FileFold

PaysLines(tests, pay, cores, lines) ==
    \A i \in 1 .. Len(lines) : PaysLine(tests, pay, cores, lines[i])

StaysCleared(old, new) ==
    \A name, c : Position(old, name, c) = 0 => Position(new, name, c) = 0

(* A file in which no test has two lines.                                  *)
LEMMA GradeFileBalances ==
    ASSUME NEW tests, HasGrading(tests), NEW cores, NEW acc \in Graded(tests),
           NEW lines, IsList(lines), Balanced(tests, acc),
           \A i, j \in DOMAIN lines : lines[i].test = lines[j].test => i = j,
           \A name : Same(acc.graded, tests, name, cores),
           NEW pay \in [ToSet(tests) -> Int]
    PROVE  LET new == GradeFile(tests, cores, acc, lines) IN
           /\ new \in Graded(tests) /\ Balanced(tests, new)
           /\ \A name, c : c # cores /\ Same(acc.graded, tests, name, c)
                              => Same(new.graded, tests, name, c)
           /\ PaysLines(tests, pay, cores, lines) /\ Paid(tests, pay, acc)
                 => Paid(tests, pay, new)
           /\ StaysCleared(acc.graded, new.graded)
           /\ Distinct(acc.graded) =>
                 /\ Distinct(new.graded)
                 /\ \A i \in 1 .. Len(lines) : Cleared(new.graded, cores, lines[i])
<1> DEFINE n == Len(lines)
<1>1. n \in Nat /\ DOMAIN lines = 1 .. n
  BY ListItems
<1>0. PICK f : FileFold(tests, cores, acc, lines, f)
  BY GradeFileFolds
<1>2. /\ f \in [0 .. n -> Graded(tests)] /\ f[0] = acc
      /\ \A k \in 1 .. n : f[k] = GradeLine(tests, cores, f[k - 1], lines[k])
      /\ GradeFile(tests, cores, acc, lines) = f[n]
  BY <1>0 DEF FileFold
<1> HIDE DEF n
<1> DEFINE Fine(k) ==
             /\ Balanced(tests, f[k])
             /\ \A i \in 1 .. n : i > k => Same(f[k].graded, tests, lines[i].test, cores)
             /\ \A name, c : c # cores /\ Same(acc.graded, tests, name, c)
                                => Same(f[k].graded, tests, name, c)
             /\ PaysLines(tests, pay, cores, lines) /\ Paid(tests, pay, acc)
                   => Paid(tests, pay, f[k])
             /\ StaysCleared(acc.graded, f[k].graded)
             /\ Distinct(acc.graded) =>
                   /\ Distinct(f[k].graded)
                   /\ \A i \in 1 .. n : i <= k => Cleared(f[k].graded, cores, lines[i])
           T == {k \in 0 .. n : Fine(k)}
<1>3. Fine(0)
  BY <1>2 DEF StaysCleared
<1>4. ASSUME NEW k \in 1 .. n, Fine(k - 1)
      PROVE  Fine(k)
  <2> DEFINE old == f[k - 1]
  <2>1. /\ k - 1 \in 0 .. n /\ k > k - 1
        /\ \A i \in 1 .. n : i > k => i > k - 1 /\ i # k
    BY <1>1
  <2>2. old \in Graded(tests) /\ f[k] = GradeLine(tests, cores, old, lines[k])
    BY <1>2, <2>1
  <2>3. /\ Balanced(tests, old)
        /\ \A i \in 1 .. n : i > k - 1 => Same(old.graded, tests, lines[i].test, cores)
        /\ \A name, c : c # cores /\ Same(acc.graded, tests, name, c)
                           => Same(old.graded, tests, name, c)
        /\ PaysLines(tests, pay, cores, lines) /\ Paid(tests, pay, acc)
              => Paid(tests, pay, old)
        /\ StaysCleared(acc.graded, old.graded)
        /\ Distinct(acc.graded) =>
              /\ Distinct(old.graded)
              /\ \A i \in 1 .. n : i <= k - 1 => Cleared(old.graded, cores, lines[i])
    BY <1>4
  <2> HIDE DEF old
  <2>4. Balanced(tests, f[k])
    BY <2>1, <2>2, <2>3, GradeLineBalances
  <2>7. ASSUME PaysLines(tests, pay, cores, lines), Paid(tests, pay, acc)
        PROVE  Paid(tests, pay, f[k])
    <3>1. PaysLine(tests, pay, cores, lines[k]) /\ Paid(tests, pay, old)
      BY <2>3, <2>7 DEF PaysLines, n
    <3>2. Same(old.graded, tests, lines[k].test, cores)
      BY <2>1, <2>3
    <3> QED
      BY <2>2, <3>1, <3>2, GradeLinePays
  <2>8. /\ StaysCleared(old.graded, f[k].graded)
        /\ Distinct(old.graded) => Distinct(f[k].graded) /\ Cleared(f[k].graded, cores, lines[k])
    <3> DEFINE line == lines[k]
               new == GradeLine(tests, cores, old, line)
    <3>1. Same(old.graded, tests, line.test, cores)
      BY <2>1, <2>3
    <3>2. f[k] = new
      BY <2>2
    <3> HIDE DEF line
    <3>3. /\ \A name, c : Position(old.graded, name, c) = 0 => Position(new.graded, name, c) = 0
          /\ Distinct(old.graded) => Distinct(new.graded) /\ Cleared(new.graded, cores, line)
      BY <2>2, <3>1, GradeLineClears
    <3> HIDE DEF new
    <3> QED
      BY <3>2, <3>3 DEF StaysCleared, line
  <2>9. StaysCleared(acc.graded, f[k].graded)
    BY <2>3, <2>8 DEF StaysCleared
  <2>10. ASSUME Distinct(acc.graded)
         PROVE  /\ Distinct(f[k].graded)
                /\ \A i \in 1 .. n : i <= k => Cleared(f[k].graded, cores, lines[i])
    <3>1. /\ Distinct(f[k].graded) /\ Cleared(f[k].graded, cores, lines[k])
          /\ \A i \in 1 .. n : i <= k - 1 => Cleared(f[k].graded, cores, lines[i])
      BY <2>3, <2>8, <2>10 DEF StaysCleared, Cleared
    <3>2. \A i \in 1 .. n : i <= k => i = k \/ i <= k - 1
      BY <1>1
    <3> QED
      BY <3>1, <3>2
  <2>5. ASSUME NEW i \in 1 .. n, i > k
        PROVE  Same(f[k].graded, tests, lines[i].test, cores)
    <3>1. lines[i].test # lines[k].test
      BY <1>1, <2>1, <2>5
    <3>2. Same(old.graded, tests, lines[i].test, cores)
      BY <2>1, <2>3, <2>5
    <3> QED
      BY <2>2, <3>1, <3>2, GradeLineKeeps
  <2>6. ASSUME NEW name, NEW c, c # cores, Same(acc.graded, tests, name, c)
        PROVE  Same(f[k].graded, tests, name, c)
    <3>1. Same(old.graded, tests, name, c)
      BY <2>3, <2>6
    <3> QED
      BY <2>2, <2>6, <3>1, GradeLineKeeps
  <2> QED
    BY <2>4, <2>5, <2>6, <2>7, <2>9, <2>10
<1> HIDE DEF Fine
<1>5. n \in T
  <2>1. 0 \in T
    BY <1>1, <1>3
  <2>2. ASSUME NEW k \in 1 .. n, k - 1 \in T
        PROVE  k \in T
    <3>1. Fine(k - 1) /\ k \in 0 .. n
      BY <1>1, <2>2
    <3> QED
      BY <1>4, <3>1
  <2>3. T \in SUBSET (0 .. n)
    OBVIOUS
  <2> HIDE DEF T
  <2>4. \A k \in 0 .. n : k \in T
    BY <1>1, <2>1, <2>2, <2>3, Upwards
  <2> QED
    BY <1>1, <2>4
<1>6. Fine(n) /\ f[n] \in Graded(tests)
  BY <1>1, <1>2, <1>5
<1>7. \A i \in 1 .. n : i <= n
  BY <1>1
<1> QED
  BY <1>2, <1>6, <1>7 DEF Fine, n

(* The first state of the grading.                                         *)
Start(tests) == [points |-> 0, losses |-> <<>>, graded |-> tests]

LEMMA StartBalances ==
    ASSUME NEW tests, HasGrading(tests)
    PROVE  /\ Start(tests) \in Graded(tests) /\ Balanced(tests, Start(tests))
           /\ \A name, c : Same(Start(tests).graded, tests, name, c)
<1>1. tests \in Seq(ToSet(tests)) /\ \A e \in ToSet(tests) : e.points_worth \in Int
  BY ListItems DEF HasGrading, HasPoints
<1>2. Start(tests) \in Graded(tests)
  BY <1>1 DEF Start, Graded
<1>3. Worth(tests) \in Int
  BY <1>1, WorthTyped
<1>4. /\ Start(tests).points = 0 /\ Start(tests).losses = <<>>
      /\ Start(tests).graded = tests
  BY DEF Start
<1>5. Balanced(tests, Start(tests))
  BY <1>3, <1>4, SumOfNone DEF Balanced
<1>6. \A name, c : Same(Start(tests).graded, tests, name, c)
  BY <1>4 DEF Same
<1> QED
  BY <1>2, <1>5, <1>6

LEMMA GradeFileTyped ==
    ASSUME NEW tests, HasGrading(tests), NEW cores, NEW acc \in Graded(tests),
           NEW lines, IsList(lines)
    PROVE  GradeFile(tests, cores, acc, lines) \in Graded(tests)
<1>1. Len(lines) \in Nat
  BY ListItems
<1>2. PICK f : FileFold(tests, cores, acc, lines, f)
  BY GradeFileFolds
<1> QED
  BY <1>1, <1>2 DEF FileFold

LEMMA GradeFilesFold ==
    ASSUME NEW tests, HasGrading(tests), NEW ncores, IsList(ncores),
           NEW perf, \A c \in ToSet(ncores) : IsList(perf[c])
    PROVE  \E f \in [0 .. Len(ncores) -> Graded(tests)] :
              /\ f[0] = Start(tests)
              /\ \A k \in 1 .. Len(ncores) :
                    f[k] = GradeFile(tests, ncores[k], f[k - 1], perf[ncores[k]])
              /\ GradeFiles(tests, ncores, perf) = f[Len(ncores)]
<1> DEFINE n == Len(ncores)
           D == Graded(tests)
           start == [points |-> 0, losses |-> <<>>, graded |-> tests]
           G(f) == [k \in 0 .. n |->
                      IF k = 0 THEN start
                      ELSE GradeFile(tests, ncores[k], f[k - 1], perf[ncores[k]])]
           Grade(k) == [x \in D |-> GradeFile(tests, ncores[k], x, perf[ncores[k]])]
           step == [k \in 1 .. n |-> Grade(k)]
           files == CHOOSE f : f = G(f)
<1>1. n \in Nat /\ \A k \in 1 .. n : ncores[k] \in ToSet(ncores)
  BY ListItems
<1> HIDE DEF n
<1>2. ASSUME NEW k \in 1 .. n, NEW x \in D
      PROVE  GradeFile(tests, ncores[k], x, perf[ncores[k]]) \in D
  BY <1>1, GradeFileTyped
<1>3. start \in D
  BY StartBalances DEF Start
<1> HIDE DEF D, start
<1>4. PICK g \in [0 .. n -> D] : Fold(n, start, step, g)
  <2>1. ASSUME NEW k \in 1 .. n
        PROVE  Grade(k) \in [D -> D]
    BY <1>2
  <2> HIDE DEF Grade
  <2>2. step \in [1 .. n -> [D -> D]]
    BY <2>1
  <2> HIDE DEF step
  <2> QED
    BY <1>1, <1>3, <2>2, FoldExists
<1>5. ASSUME NEW k \in 0 .. n
      PROVE  g[k] = IF k = 0 THEN start ELSE GradeFile(tests, ncores[k], g[k - 1], perf[ncores[k]])
  <2>1. CASE k = 0
    BY <1>4, <2>1 DEF Fold
  <2>2. CASE k # 0
    <3>1. k \in 1 .. n /\ k - 1 \in 0 .. n
      BY <1>1, <2>2
    <3>2. g[k] = step[k][g[k - 1]] /\ g[k - 1] \in D
      BY <1>4, <3>1 DEF Fold
    <3>3. step[k] = Grade(k)
      BY <3>1
    <3> QED
      BY <2>2, <3>2, <3>3
  <2> QED
    BY <2>1, <2>2
<1>6. g = G(g)
  <2> DEFINE e(k) == IF k = 0 THEN start ELSE GradeFile(tests, ncores[k], g[k - 1], perf[ncores[k]])
  <2>1. g = [k \in 0 .. n |-> g[k]]
    BY <1>4
  <2>2. g = [k \in 0 .. n |-> e(k)]
    BY <1>5, <2>1
  <2> QED
    BY <2>2
<1>7. files = G(files)
  <2> HIDE DEF G
  <2> QED
    BY <1>6
<1>8. GradeFiles(tests, ncores, perf) = files[n]
  BY Zenon DEF GradeFiles, n, start
<1> HIDE DEF files
<1>9. ASSUME NEW k \in 0 .. n
      PROVE  files[k] = IF k = 0 THEN start
                        ELSE GradeFile(tests, ncores[k], files[k - 1], perf[ncores[k]])
  BY <1>7
<1>10. files = [k \in 0 .. n |-> files[k]]
  BY <1>7
<1> DEFINE T == {k \in 0 .. n : files[k] \in D}
<1>11. 0 \in T
  BY <1>1, <1>3, <1>9
<1>12. ASSUME NEW k \in 1 .. n, k - 1 \in T
       PROVE  k \in T
  <2>1. k \in 0 .. n /\ k # 0
    BY <1>1
  <2>2. files[k] = GradeFile(tests, ncores[k], files[k - 1], perf[ncores[k]])
    BY <1>9, <2>1
  <2>3. files[k - 1] \in D
    BY <1>12
  <2>4. files[k] \in D
    BY <1>2, <2>2, <2>3
  <2> QED
    BY <2>1, <2>4
<1>13. \A k \in 0 .. n : files[k] \in D
  <2>1. T \in SUBSET (0 .. n)
    OBVIOUS
  <2> HIDE DEF T
  <2>2. \A k \in 0 .. n : k \in T
    BY <1>1, <1>11, <1>12, <2>1, Upwards
  <2> QED
    BY <2>2 DEF T
<1>14. files \in [0 .. n -> D]
  BY <1>10, <1>13
<1>15. files[0] = start
  BY <1>1, <1>9
<1>16. \A k \in 1 .. n : files[k] = GradeFile(tests, ncores[k], files[k - 1], perf[ncores[k]])
  <2>1. \A k \in 1 .. n : k \in 0 .. n /\ k # 0
    BY <1>1
  <2> QED
    BY <1>9, <2>1
<1> QED
  BY <1>8, <1>14, <1>15, <1>16 DEF n, D, start, Start

LEMMA GradeFilesBalance ==
    ASSUME NEW tests, HasGrading(tests), NEW ncores, IsList(ncores), IsInjective(ncores),
           NEW perf,
           \A c \in ToSet(ncores) :
              /\ IsList(perf[c])
              /\ \A i, j \in DOMAIN perf[c] : perf[c][i].test = perf[c][j].test => i = j,
           NEW pay \in [ToSet(tests) -> Int]
    PROVE  LET end == GradeFiles(tests, ncores, perf) IN
           /\ end \in Graded(tests) /\ Balanced(tests, end)
           /\ (\A c \in ToSet(ncores) : PaysLines(tests, pay, c, perf[c]))
                 => Paid(tests, pay, end)
           /\ Distinct(tests) =>
                 \A c \in ToSet(ncores) : \A i \in 1 .. Len(perf[c]) :
                    Cleared(end.graded, c, perf[c][i])
<1> DEFINE n == Len(ncores)
<1>1. /\ n \in Nat /\ DOMAIN ncores = 1 .. n
      /\ \A k \in 1 .. n : ncores[k] \in ToSet(ncores)
  BY ListItems
<1>2. PICK f \in [0 .. n -> Graded(tests)] :
         /\ f[0] = Start(tests)
         /\ \A k \in 1 .. n : f[k] = GradeFile(tests, ncores[k], f[k - 1], perf[ncores[k]])
         /\ GradeFiles(tests, ncores, perf) = f[n]
  BY GradeFilesFold
<1> HIDE DEF n
<1> DEFINE AllCleared(graded, c) == \A i \in 1 .. Len(perf[c]) : Cleared(graded, c, perf[c][i])
           Fine(k) ==
             /\ Balanced(tests, f[k])
             /\ \A i \in 1 .. n : i > k => \A name : Same(f[k].graded, tests, name, ncores[i])
             /\ (\A c \in ToSet(ncores) : PaysLines(tests, pay, c, perf[c]))
                   => Paid(tests, pay, f[k])
             /\ Distinct(tests) =>
                   /\ Distinct(f[k].graded)
                   /\ \A i \in 1 .. n : i <= k => AllCleared(f[k].graded, ncores[i])
           T == {k \in 0 .. n : Fine(k)}
<1>3. Fine(0)
  <2>1. Paid(tests, pay, Start(tests)) /\ Start(tests).graded = tests
    <3>1. tests \in Seq(ToSet(tests))
      BY ListItems DEF HasGrading, HasPoints
    <3>2. Sum(Weights(pay, tests)) \in Int
      BY <3>1, WeightsTyped
    <3> QED
      BY <3>2 DEF Paid, Start
  <2> QED
    BY <1>2, <2>1, StartBalances
<1>4. ASSUME NEW k \in 1 .. n, Fine(k - 1)
      PROVE  Fine(k)
  <2> DEFINE old == f[k - 1]
             cores == ncores[k]
             lines == perf[cores]
  <2>1. /\ k - 1 \in 0 .. n /\ k > k - 1
        /\ \A i \in 1 .. n : i > k => i > k - 1 /\ i # k
    BY <1>1
  <2>2. old \in Graded(tests) /\ f[k] = GradeFile(tests, cores, old, lines)
    BY <1>2, <2>1
  <2>3. /\ Balanced(tests, old)
        /\ \A i \in 1 .. n : i > k - 1 => \A name : Same(old.graded, tests, name, ncores[i])
        /\ (\A c \in ToSet(ncores) : PaysLines(tests, pay, c, perf[c])) => Paid(tests, pay, old)
        /\ Distinct(tests) =>
              /\ Distinct(old.graded)
              /\ \A i \in 1 .. n : i <= k - 1 => AllCleared(old.graded, ncores[i])
    BY <1>4
  <2>4. /\ IsList(lines)
        /\ \A i, j \in DOMAIN lines : lines[i].test = lines[j].test => i = j
    BY <1>1
  <2> HIDE DEF old, lines
  <2>5. \A name : Same(old.graded, tests, name, cores)
    BY <2>1, <2>3
  <2>6. /\ Balanced(tests, f[k])
        /\ \A name, c : c # cores /\ Same(old.graded, tests, name, c)
                           => Same(f[k].graded, tests, name, c)
        /\ PaysLines(tests, pay, cores, lines) /\ Paid(tests, pay, old) => Paid(tests, pay, f[k])
        /\ StaysCleared(old.graded, f[k].graded)
        /\ Distinct(old.graded) =>
              /\ Distinct(f[k].graded)
              /\ \A i \in 1 .. Len(lines) : Cleared(f[k].graded, cores, lines[i])
    <3> HIDE DEF cores
    <3> DEFINE new == GradeFile(tests, cores, old, lines)
    <3>1. Balanced(tests, old) /\ IsList(lines)
      BY <2>3, <2>4
    <3>2. /\ Balanced(tests, new)
          /\ \A name, c : c # cores /\ Same(old.graded, tests, name, c)
                             => Same(new.graded, tests, name, c)
          /\ PaysLines(tests, pay, cores, lines) /\ Paid(tests, pay, old)
                => Paid(tests, pay, new)
          /\ StaysCleared(old.graded, new.graded)
          /\ Distinct(old.graded) =>
                /\ Distinct(new.graded)
                /\ \A i \in 1 .. Len(lines) : Cleared(new.graded, cores, lines[i])
      BY <2>2, <2>4, <2>5, <3>1, GradeFileBalances
    <3>3. f[k] = new
      BY <2>2
    <3> HIDE DEF new
    <3> QED
      BY <3>2, <3>3
  <2>7. ASSUME NEW i \in 1 .. n, i > k, NEW name
        PROVE  Same(f[k].graded, tests, name, ncores[i])
    <3>1. ncores[i] # cores
      BY <1>1, <2>1, <2>7 DEF IsInjective
    <3>2. Same(old.graded, tests, name, ncores[i])
      BY <2>1, <2>3, <2>7
    <3> QED
      BY <2>6, <3>1, <3>2
  <2>8. ASSUME \A c \in ToSet(ncores) : PaysLines(tests, pay, c, perf[c])
        PROVE  Paid(tests, pay, f[k])
    <3>1. PaysLines(tests, pay, cores, lines)
      BY <1>1, <2>8 DEF lines
    <3> QED
      BY <2>3, <2>6, <2>8, <3>1
  <2>9. ASSUME Distinct(tests)
        PROVE  /\ Distinct(f[k].graded)
               /\ \A i \in 1 .. n : i <= k => AllCleared(f[k].graded, ncores[i])
    <3>1. Distinct(f[k].graded) /\ AllCleared(f[k].graded, cores)
      BY <2>3, <2>6, <2>9 DEF lines
    <3>2. ASSUME NEW i \in 1 .. n, i <= k - 1
          PROVE  AllCleared(f[k].graded, ncores[i])
      <4>1. AllCleared(old.graded, ncores[i])
        BY <2>3, <2>9, <3>2
      <4> QED
        BY <2>6, <4>1 DEF StaysCleared, Cleared
    <3>3. \A i \in 1 .. n : i <= k => i = k \/ i <= k - 1
      BY <1>1
    <3> HIDE DEF AllCleared
    <3> QED
      BY <3>1, <3>2, <3>3
  <2> QED
    BY <2>6, <2>7, <2>8, <2>9
<1> HIDE DEF Fine
<1>5. n \in T
  <2>1. 0 \in T
    BY <1>1, <1>3
  <2>2. ASSUME NEW k \in 1 .. n, k - 1 \in T
        PROVE  k \in T
    <3>1. Fine(k - 1) /\ k \in 0 .. n
      BY <1>1, <2>2
    <3> QED
      BY <1>4, <3>1
  <2>3. T \in SUBSET (0 .. n)
    OBVIOUS
  <2> HIDE DEF T
  <2>4. \A k \in 0 .. n : k \in T
    BY <1>1, <2>1, <2>2, <2>3, Upwards
  <2> QED
    BY <1>1, <2>4
<1>6. Fine(n) /\ f[n] \in Graded(tests)
  BY <1>1, <1>2, <1>5
<1>7. \A c \in ToSet(ncores) : \E i \in 1 .. n : i <= n /\ c = ncores[i]
  BY <1>1 DEF ToSet
<1>8. ASSUME Distinct(tests), NEW c \in ToSet(ncores)
      PROVE  AllCleared(f[n].graded, c)
  <2> HIDE DEF AllCleared
  <2> QED
    BY <1>6, <1>7, <1>8 DEF Fine
<1> QED
  BY <1>2, <1>6, <1>8 DEF Fine

-----------------------------------------------------------------------------
(* The parts of a score.                                                   *)

Explained(part) == part.total - part.points = Sum(part.losses)

LEMMA NoPointsExplained ==
    ASSUME NEW total \in Int
    PROVE  Explained(NoPoints(total))
BY SumOfOne DEF Explained, NoPoints, Part

LEMMA CorrectnessExplained ==
    ASSUME NEW tests, HasPoints(tests), NEW status,
           NEW lines, lines # NoFile => IsParsed(lines)
    PROVE  Explained(Correctness(tests, status, lines))
<1> DEFINE losses == CorrectnessLosses(tests, lines)
<1>1. Worth(tests) \in Int
  BY WorthTyped, ListItems DEF HasPoints
<1>2. CASE \/ ~ RunCompleted(status) \/ lines = NoFile \/ NonEmptyStderr(lines)
           \/ ~ Reported(lines)
  BY <1>1, <1>2, NoPointsExplained DEF Correctness
<1>3. CASE ~ (\/ ~ RunCompleted(status) \/ lines = NoFile \/ NonEmptyStderr(lines)
              \/ ~ Reported(lines))
  <2>1. losses \in Seq(Int)
    BY <1>3, CorrectnessLossesTyped
  <2>2. Correctness(tests, status, lines)
          = Part(Worth(tests) - Sum(losses), Worth(tests), losses)
    BY <1>3 DEF Correctness
  <2> HIDE DEF losses
  <2>3. Sum(losses) \in Int
    BY <2>1, SumType
  <2> QED
    BY <1>1, <2>2, <2>3 DEF Explained, Part
<1> QED
  BY <1>2, <1>3

LEMMA PerformanceExplained ==
    ASSUME NEW tests, HasGrading(tests), NEW status, NEW ncores, IsList(ncores),
           IsInjective(ncores), NEW perf,
           \A c \in ToSet(ncores) : perf[c] # NoFile =>
              /\ IsList(perf[c])
              /\ \A i, j \in DOMAIN perf[c] : perf[c][i].test = perf[c][j].test => i = j
    PROVE  Explained(Performance(tests, status, ncores, perf))
<1> DEFINE end == GradeFiles(tests, ncores, perf)
           lost == PointsOf(end.graded)
<1>1. tests \in Seq(ToSet(tests)) /\ \A e \in ToSet(tests) : e.points_worth \in Int
  BY ListItems DEF HasGrading, HasPoints
<1>2. Worth(tests) \in Int
  BY <1>1, WorthTyped
<1>3. CASE (\E c \in ToSet(ncores) : perf[c] = NoFile) \/ ~ RunCompleted(status)
  BY <1>2, <1>3, NoPointsExplained DEF Performance
<1>4. CASE ~ ((\E c \in ToSet(ncores) : perf[c] = NoFile) \/ ~ RunCompleted(status))
  <2>1. end \in Graded(tests) /\ Balanced(tests, end)
    <3>1. [e \in ToSet(tests) |-> 0] \in [ToSet(tests) -> Int]
      OBVIOUS
    <3> QED
      BY <1>4, <3>1, GradeFilesBalance
  <2>2. Performance(tests, status, ncores, perf)
          = Part(end.points, Worth(tests), end.losses \o lost)
    BY <1>4 DEF Performance, PointsOf
  <2> HIDE DEF end
  <2>3. end.points \in Int /\ end.losses \in Seq(Int) /\ end.graded \in Seq(ToSet(tests))
    BY <2>1 DEF Graded
  <2>4. lost \in Seq(Int) /\ Worth(end.graded) = Sum(lost)
    BY <1>1, <2>3, WorthTyped
  <2> HIDE DEF lost
  <2>5. Sum(end.losses \o lost) = Sum(end.losses) + Sum(lost)
        /\ Sum(end.losses) \in Int /\ Sum(lost) \in Int
    BY <2>3, <2>4, SumOfBoth, SumType
  <2>6. end.points + Sum(end.losses) + Sum(lost) = Worth(tests)
    BY <2>1, <2>4 DEF Balanced
  <2>7. Worth(tests) - end.points = Sum(end.losses \o lost)
    BY <1>2, <2>3, <2>5, <2>6
  <2> QED
    BY <2>2, <2>7 DEF Explained, Part
<1> QED
  BY <1>3, <1>4

(* A search for a line ends in the list or at 0.                           *)
LEMMA FirstLine ==
    ASSUME NEW n \in Nat, NEW I \in SUBSET (1 .. n)
    PROVE  (IF I # {} THEN Min(I) ELSE 0) \in 0 .. n
<1>1. I \in SUBSET Nat
  OBVIOUS
<1>2. CASE I = {}
  BY <1>2
<1>3. CASE I # {}
  <2> DEFINE least == Min(I)
  <2>1. least \in I
    BY <1>1, <1>3, LeastOf
  <2> HIDE DEF least
  <2>2. least \in 0 .. n
    BY <2>1
  <2> QED
    BY <1>3, <2>2 DEF least
<1> QED
  BY <1>2, <1>3

LEMMA StyleErrorsTyped ==
    ASSUME NEW lines, IsList(lines)
    PROVE  StyleErrors(lines) \in Nat
<1> DEFINE start == SelectInSeq(lines, LAMBDA line : line = "start")
           after == IF start = 0 THEN <<>> ELSE SubSeq(lines, start + 1, Len(lines))
           done == SelectInSeq(after, LAMBDA line : line = "done")
           E == ToSet(lines)
<1>1. lines \in Seq(E) /\ Len(lines) \in Nat
  BY ListItems
<1> HIDE DEF E
<1>2. start \in 0 .. Len(lines)
  <2> DEFINE I == {i \in 1 .. Len(lines) : lines[i] = "start"}
  <2>1. start = IF I # {} THEN Min(I) ELSE 0
    BY DEF SelectInSeq
  <2>2. I \in SUBSET (1 .. Len(lines))
    OBVIOUS
  <2> HIDE DEF I, start
  <2> QED
    BY <1>1, <2>1, <2>2, FirstLine
<1> HIDE DEF start
<1>3. Len(after) \in Nat
  <2>1. CASE start = 0
    BY <2>1
  <2>2. CASE start # 0
    <3>1. SubSeq(lines, start + 1, Len(lines)) \in Seq(E)
      BY <1>1, <1>2, <2>2
    <3> QED
      BY <2>2, <3>1
  <2> QED
    BY <2>1, <2>2
<1> HIDE DEF after
<1>4. done \in 0 .. Len(after)
  <2> DEFINE I == {i \in 1 .. Len(after) : after[i] = "done"}
  <2>1. done = IF I # {} THEN Min(I) ELSE 0
    BY DEF SelectInSeq
  <2>2. I \in SUBSET (1 .. Len(after))
    OBVIOUS
  <2> HIDE DEF I, done
  <2> QED
    BY <1>3, <2>1, <2>2, FirstLine
<1>5. StyleErrors(lines) = IF done = 0 THEN Len(after) ELSE done - 1
  BY DEF StyleErrors, done, after, start
<1> QED
  BY <1>3, <1>4, <1>5

LEMMA StyleExplained ==
    ASSUME NEW style, style.points_per_error \in Int, style.max_points_off \in Int,
           NEW lines, lines # NoFile => IsList(lines)
    PROVE  Explained(Style(style, lines))
<1> DEFINE off == Capped(StyleErrors(lines) * style.points_per_error, style)
<1>1. CASE lines = NoFile
  BY <1>1, NoPointsExplained DEF Style
<1>2. CASE lines # NoFile
  <2>1. StyleErrors(lines) \in Int
    BY <1>2, StyleErrorsTyped
  <2>2. StyleErrors(lines) * style.points_per_error \in Int
    BY <2>1
  <2>3. off \in Int
    BY <2>2 DEF Capped
  <2>4. Style(style, lines)
          = Part(style.max_points_off - off, style.max_points_off, <<off>>)
    BY <1>2 DEF Style
  <2> HIDE DEF off
  <2>5. Sum(<<off>>) = off
    BY <2>3, SumOfOne
  <2> QED
    BY <2>3, <2>4, <2>5 DEF Explained, Part
<1> QED
  BY <1>1, <1>2

-----------------------------------------------------------------------------
(* The comments account for every point.                                   *)

IInv ==
    /\ rubric \in Rubrics /\ run \in Submissions
    /\ score \in {NotAsked, CalculateScore(rubric, run), Null, Died}

(* A request for a score answers with that of its run, or with none.       *)
LEMMA ScoreSound == Spec => []IInv
<1>1. Init => IInv
  BY DEF Init, IInv
<1>2. IInv /\ [Next]_vars => IInv'
  <2> SUFFICES ASSUME IInv, [Next]_vars PROVE IInv'
    OBVIOUS
  <2>1. CASE GetScore
    <3>1. /\ rubric' = rubric /\ run' = run
          /\ score' \in {CalculateScore(rubric, run), Null, Died}
      BY <2>1 DEF GetScore
    <3>2. CalculateScore(rubric, run)' = CalculateScore(rubric', run')
      OBVIOUS
    <3> QED
      BY <3>1, <3>2 DEF IInv
  <2>2. CASE UNCHANGED vars
    BY <2>2 DEF vars, IInv
  <2> QED
    BY <2>1, <2>2 DEF Next
<1> QED
  BY <1>1, <1>2, PTL DEF Spec

(* What a score that was given is made of.                                 *)
LEMMA ScoredRun ==
    ASSUME IInv, Scored
    PROVE  /\ rubric \in Rubrics /\ ValidRubric(rubric) /\ run \in Submissions
           /\ score.correctness
                = Correctness(rubric.correctness, run.status, CorrectFile(run))
           /\ score.performance = Performance(rubric.performance.tests, run.status,
                                              run.ncores, run.perf)
           /\ score.style = Style(rubric.style, run.style)
           /\ HasPoints(rubric.correctness) /\ HasGrading(rubric.performance.tests)
           /\ \A test \in ToSet(rubric.correctness) : 0 <= test.points_worth
<1>1. score = CalculateScore(rubric, run) /\ score # Null
  BY DEF IInv, Scored
<1>2. /\ rubric \in Rubrics /\ ValidRubric(rubric) /\ run \in Submissions
      /\ score = [correctness |-> Correctness(rubric.correctness, run.status, CorrectFile(run)),
                  performance |-> Performance(rubric.performance.tests, run.status,
                                              run.ncores, run.perf),
                  style       |-> Style(rubric.style, run.style)]
  BY <1>1 DEF CalculateScore, IInv
<1>3. HasPoints(rubric.correctness) /\ HasGrading(rubric.performance.tests)
  BY <1>2, ScoreAssumption DEF HasPoints, HasGrading
<1>4. \A test \in ToSet(rubric.correctness) :
         test.points_worth \in Int /\ test.points_worth >= 0
  BY <1>2, <1>3 DEF ValidRubric, HasPoints
<1>5. \A test \in ToSet(rubric.correctness) : 0 <= test.points_worth
  BY <1>4
<1> QED
  BY <1>2, <1>3, <1>5

(* "Include detailed feedback on where points were lost" (score.js:596):   *)
(* whatever the rubric asks for and the run printed, the comments of each  *)
(* part add up to what lies between its points and its total. For the      *)
(* performance part every test of the rubric is either graded or left in   *)
(* graded_tests, on which its comment depends, but never both.             *)
THEOREM LossesAreExplained == Spec => []LossesExplained
<1>1. IInv => LossesExplained
  <2> SUFFICES ASSUME IInv, Scored, ResultsOnce, NEW part \in Parts
               PROVE  Explained(part)
    BY DEF LossesExplained, Explained
  <2>1. /\ rubric \in Rubrics /\ ValidRubric(rubric) /\ run \in Submissions
        /\ score.correctness
             = Correctness(rubric.correctness, run.status, CorrectFile(run))
        /\ score.performance = Performance(rubric.performance.tests, run.status,
                                           run.ncores, run.perf)
        /\ score.style = Style(rubric.style, run.style)
        /\ HasPoints(rubric.correctness) /\ HasGrading(rubric.performance.tests)
    BY ScoredRun
  <2>2. rubric.style.points_per_error \in Int /\ rubric.style.max_points_off \in Int
    BY <2>1, ScoreAssumption
  <2>3. /\ IsList(run.ncores)
        /\ \A c \in ToSet(run.ncores) : run.perf[c] # NoFile => IsList(run.perf[c])
        /\ run.style # NoFile => IsList(run.style)
    BY <2>1, ScoreAssumption
  <2>4. CorrectFile(run) # NoFile => IsParsed(CorrectFile(run))
    BY <2>1, CorrectFileParsed
  <2>5. Explained(score.correctness)
    BY <2>1, <2>4, CorrectnessExplained
  <2>6. Explained(score.performance)
    <3>1. /\ IsInjective(run.ncores)
          /\ \A c \in ToSet(run.ncores) : run.perf[c] # NoFile =>
                \A i, j \in DOMAIN run.perf[c] :
                   run.perf[c][i].test = run.perf[c][j].test => i = j
      BY DEF ResultsOnce
    <3>2. Explained(Performance(rubric.performance.tests, run.status, run.ncores, run.perf))
      BY <2>1, <2>3, <3>1, PerformanceExplained
    <3> QED
      BY <2>1, <3>2
  <2>7. Explained(score.style)
    BY <2>1, <2>2, <2>3, StyleExplained
  <2> QED
    BY <2>5, <2>6, <2>7 DEF Parts
<1> QED
  BY <1>1, ScoreSound, PTL

-----------------------------------------------------------------------------
(* What the results of a run pay.                                          *)

IsGraded(test) ==
    /\ test.points_worth \in Int /\ IsList(test.grading)
    /\ \A g \in ToSet(test.grading) : g.points_off \in Int /\ IsInterval(g)

Holds(line, g) ==
    IF line.par = 0 THEN g.bottom_inclusive = 0
    ELSE /\ g.bottom_inclusive * line.par <= line.seq
         /\ g.top_exclusive = -1 \/ line.seq < g.top_exclusive * line.par

LEMMA IntervalHolds ==
    ASSUME NEW line, HasTimes(line), NEW g, IsInterval(g)
    PROVE  InInterval(line, g) <=> Holds(line, g)
<1> DEFINE bottom == g.bottom_inclusive
           top == g.top_exclusive
           seq == line.seq
           par == line.par
<1>1. /\ bottom \in Nat /\ top \in Int /\ (top = -1 \/ top > 0) /\ seq \in Nat /\ par \in Nat
  BY DEF IsInterval, HasTimes
<1>2. InInterval(line, g) <=>
         /\ IF par > 0 THEN bottom * par <= seq ELSE bottom <= 0
         /\ top < 0 \/ ~ (IF par > 0 THEN top * par <= seq ELSE top <= 0)
  BY DEF InInterval, AtLeast
<1>3. Holds(line, g) <=>
         IF par = 0 THEN bottom = 0
         ELSE bottom * par <= seq /\ (top = -1 \/ seq < top * par)
  BY DEF Holds
<1> HIDE DEF bottom, top, seq, par
<1>4. CASE par = 0
  BY <1>1, <1>2, <1>3, <1>4
<1>5. CASE par # 0
  <2>1. par > 0 /\ top * par \in Int
    BY <1>1, <1>5
  <2>2. ~ (top * par <= seq) <=> seq < top * par
    BY <1>1, <2>1
  <2>3. top < 0 <=> top = -1
    BY <1>1
  <2> QED
    BY <1>2, <1>3, <1>5, <2>1, <2>2, <2>3
<1> QED
  BY <1>4, <1>5

LEMMA IntervalTakesOff ==
    ASSUME NEW test, IsGraded(test), NEW line, HasTimes(line)
    PROVE  LET fits == {i \in DOMAIN test.grading : Holds(line, test.grading[i])} IN
           /\ Sum(IntervalLosses(test, line))
                = IF fits = {} THEN 0 ELSE test.grading[Min(fits)].points_off
           /\ Sum(IntervalLosses(test, line)) \in Int
<1> DEFINE n == Len(test.grading)
           I == {i \in 1 .. n : InInterval(line, test.grading[i])}
           fits == {i \in DOMAIN test.grading : Holds(line, test.grading[i])}
           p == IF I # {} THEN Min(I) ELSE 0
<1>1. /\ n \in Nat /\ DOMAIN test.grading = 1 .. n
      /\ \A i \in 1 .. n : test.grading[i] \in ToSet(test.grading)
  BY ListItems DEF IsGraded
<1>2. IntervalLosses(test, line) = IF p = 0 THEN <<>> ELSE <<test.grading[p].points_off>>
  BY DEF IntervalLosses, SelectInSeq
<1>3. \A i \in 1 .. n : InInterval(line, test.grading[i]) <=> Holds(line, test.grading[i])
  BY <1>1, IntervalHolds DEF IsGraded
<1>4. I = fits
  BY <1>1, <1>3
<1>5. I \in SUBSET (1 .. n)
  OBVIOUS
<1>6. I # {} => Min(I) \in I
  <2>1. I \in SUBSET Nat
    BY <1>1
  <2> HIDE DEF I
  <2> QED
    BY <2>1, LeastOf
<1> HIDE DEF I, fits, n
<1>7. CASE I = {}
  BY <1>2, <1>4, <1>7, SumOfNone DEF fits
<1>8. CASE I # {}
  <2> DEFINE least == Min(I)
             off == test.grading[least].points_off
  <2>1. least \in 1 .. n /\ p = least
    BY <1>5, <1>6, <1>8
  <2>2. off \in Int
    BY <1>1, <2>1 DEF IsGraded
  <2>3. IntervalLosses(test, line) = <<off>>
    <3> HIDE DEF least
    <3>1. least # 0
      BY <1>1, <2>1
    <3> QED
      BY <1>2, <2>1, <3>1
  <2> HIDE DEF off
  <2>4. Sum(IntervalLosses(test, line)) = off
    BY <2>2, <2>3, SumOfOne
  <2> QED
    BY <1>4, <1>8, <2>2, <2>4 DEF off, fits
<1> QED
  BY <1>7, <1>8

LEMMA PayOfResult ==
    ASSUME NEW test, IsGraded(test), NEW line, HasTimes(line), ResultsOf(test) = {line}
    PROVE  /\ Pay(test) = test.points_worth - Sum(IntervalLosses(test, line))
           /\ Pay(test) \in Int
<1> DEFINE fits == {i \in DOMAIN test.grading : Holds(line, test.grading[i])}
           off == IF fits = {} THEN 0 ELSE test.grading[Min(fits)].points_off
<1>1. (CHOOSE l \in ResultsOf(test) : TRUE) = line
  OBVIOUS
<1>2. Pay(test) = test.points_worth - off
  BY <1>1 DEF Pay, Holds
<1>3. off = Sum(IntervalLosses(test, line)) /\ off \in Int
  BY IntervalTakesOff
<1> HIDE DEF off
<1>4. test.points_worth \in Int
  BY DEF IsGraded
<1> QED
  BY <1>2, <1>3, <1>4

LEMMA PayOfNothing ==
    ASSUME NEW test, ResultsOf(test) = {}
    PROVE  Pay(test) = 0
  BY DEF Pay

(* The tests and the results of a valid rubric and a run.                  *)
Comparable ==
    /\ HasGrading(rubric.performance.tests) /\ Distinct(rubric.performance.tests)
    /\ \A test \in ToSet(rubric.performance.tests) : IsGraded(test)
    /\ IsList(run.ncores) /\ IsInjective(run.ncores)
    /\ \A c \in ToSet(run.ncores) :
          /\ run.perf[c] # NoFile /\ IsList(run.perf[c])
          /\ \A line \in ToSet(run.perf[c]) : HasTimes(line)
          /\ \A i, j \in DOMAIN run.perf[c] : run.perf[c][i].test = run.perf[c][j].test => i = j

(* A test has at most one result.                                          *)
LEMMA ResultIsOne ==
    ASSUME Comparable, NEW test, NEW c \in ToSet(run.ncores), NEW line \in ToSet(run.perf[c]),
           Fits(test, line.test, c)
    PROVE  ResultsOf(test) = {line} /\ HasTimes(line)
<1> DEFINE lines == run.perf[c]
<1>1. /\ HasTimes(line)
      /\ \A i, j \in DOMAIN lines : lines[i].test = lines[j].test => i = j
  BY DEF Comparable
<1>2. test.ncores = c /\ test.testname = line.test
  BY DEF Fits
<1>3. ToSet(run.ncores) \cap {test.ncores} = {c}
  BY <1>2
<1>4. ResultsOf(test) = {l \in ToSet(lines) : l.test = line.test}
  BY <1>2, <1>3 DEF ResultsOf
<1>5. ASSUME NEW l \in ToSet(lines), l.test = line.test
      PROVE  l = line
  <2>1. PICK i \in DOMAIN lines : l = lines[i]
    BY DEF ToSet
  <2>2. PICK j \in DOMAIN lines : line = lines[j]
    BY DEF ToSet
  <2> HIDE DEF lines
  <2> QED
    BY <1>1, <1>5, <2>1, <2>2
<1>6. line \in ToSet(lines)
  OBVIOUS
<1> HIDE DEF lines
<1> QED
  BY <1>1, <1>4, <1>5, <1>6

LEMMA ResultsAre ==
    ASSUME NEW test, ResultsOf(test) # {}
    PROVE  \E c \in ToSet(run.ncores) : \E line \in ToSet(run.perf[c]) : Fits(test, line.test, c)
<1>1. PICK line \in ResultsOf(test) : TRUE
  OBVIOUS
<1>2. /\ line.test = test.testname
      /\ \E c \in ToSet(run.ncores) \cap {test.ncores} : line \in ToSet(run.perf[c])
  BY <1>1 DEF ResultsOf
<1> QED
  BY <1>2 DEF Fits

LEMMA PayTyped ==
    ASSUME Comparable, NEW test \in ToSet(rubric.performance.tests)
    PROVE  Pay(test) \in Int
<1>1. CASE ResultsOf(test) = {}
  BY <1>1, PayOfNothing
<1>2. CASE ResultsOf(test) # {}
  <2>1. PICK c \in ToSet(run.ncores) :
           \E line \in ToSet(run.perf[c]) : Fits(test, line.test, c)
    BY <1>2, ResultsAre
  <2>2. PICK line \in ToSet(run.perf[c]) : Fits(test, line.test, c)
    BY <2>1
  <2>3. ResultsOf(test) = {line} /\ HasTimes(line)
    BY <2>2, ResultIsOne
  <2>4. IsGraded(test)
    BY DEF Comparable
  <2> QED
    BY <2>3, <2>4, PayOfResult
<1> QED
  BY <1>1, <1>2

LEMMA PerformancePays ==
    ASSUME Comparable
    PROVE  LET tests == rubric.performance.tests IN
           GradeFiles(tests, run.ncores, run.perf).points
              = Sum([i \in DOMAIN tests |-> Pay(tests[i])])
<1> DEFINE tests == rubric.performance.tests
           E == ToSet(tests)
           pay == [e \in E |-> Pay(e)]
           end == GradeFiles(tests, run.ncores, run.perf)
<1>1. /\ tests \in Seq(E) /\ HasGrading(tests) /\ Distinct(tests)
      /\ \A i \in 1 .. Len(tests) : tests[i] \in E
  BY ListItems DEF Comparable, HasGrading, HasPoints
<1>2. pay \in [E -> Int] /\ \A e \in E : pay[e] = Pay(e)
  BY PayTyped
<1> HIDE DEF pay
<1>3. ASSUME NEW c \in ToSet(run.ncores)
      PROVE  PaysLines(tests, pay, c, run.perf[c])
  <2> DEFINE lines == run.perf[c]
  <2>1. ASSUME NEW k \in 1 .. Len(lines)
        PROVE  PaysLine(tests, pay, c, lines[k])
    <3> DEFINE line == lines[k]
               i == Position(tests, line.test, c)
    <3>1. line \in ToSet(run.perf[c])
      BY ListItems DEF Comparable
    <3> HIDE DEF line
    <3>2. CASE i = 0
      BY <3>2 DEF PaysLine, line
    <3>3. CASE i # 0
      <4>1. i \in 1 .. Len(tests) /\ Fits(tests[i], line.test, c)
        <5>1. i \in 0 .. Len(tests) /\ Fits(tests[i], line.test, c) /\ Len(tests) \in Nat
          BY <1>1, <3>3, PositionIsFirst
        <5> HIDE DEF i
        <5> QED
          BY <3>3, <5>1
      <4> HIDE DEF i
      <4>2. tests[i] \in E /\ IsGraded(tests[i])
        BY <1>1, <4>1 DEF Comparable
      <4>3. ResultsOf(tests[i]) = {line} /\ HasTimes(line)
        BY <3>1, <4>1, ResultIsOne
      <4>4. pay[tests[i]] = tests[i].points_worth - Sum(IntervalLosses(tests[i], line))
        BY <1>2, <4>2, <4>3, PayOfResult
      <4> QED
        BY <4>4 DEF PaysLine, line, i
    <3> QED
      BY <3>2, <3>3
  <2> QED
    BY <2>1 DEF PaysLines
<1>4. /\ end \in Graded(tests) /\ Paid(tests, pay, end)
      /\ \A c \in ToSet(run.ncores) : \A i \in 1 .. Len(run.perf[c]) :
            Cleared(end.graded, c, run.perf[c][i])
  <2>1. /\ IsList(run.ncores) /\ IsInjective(run.ncores)
        /\ \A c \in ToSet(run.ncores) :
              /\ IsList(run.perf[c])
              /\ \A i, j \in DOMAIN run.perf[c] :
                    run.perf[c][i].test = run.perf[c][j].test => i = j
    BY DEF Comparable
  <2> HIDE DEF tests
  <2> QED
    BY <1>1, <1>2, <1>3, <2>1, GradeFilesBalance
<1> HIDE DEF end
<1>5. end.points \in Int /\ end.graded \in Seq(E)
  BY <1>4 DEF Graded
<1>6. ASSUME NEW i \in 1 .. Len(end.graded)
      PROVE  pay[end.graded[i]] = 0
  <2> DEFINE test == end.graded[i]
  <2>1. test \in E
    BY <1>5
  <2>2. ASSUME NEW c \in ToSet(run.ncores), NEW line \in ToSet(run.perf[c]),
               Fits(test, line.test, c)
        PROVE  FALSE
    <3>1. PICK k \in 1 .. Len(run.perf[c]) : line = run.perf[c][k]
      BY ListItems DEF Comparable, ToSet
    <3>2. Position(end.graded, line.test, c) = 0
      BY <1>4, <3>1 DEF Cleared
    <3> QED
      BY <1>5, <2>2, <3>2, PositionIsFirst
  <2> HIDE DEF test
  <2>3. ResultsOf(test) = {}
    BY <2>2, ResultsAre
  <2> QED
    BY <1>2, <2>1, <2>3, PayOfNothing DEF test
<1>7. Sum(Weights(pay, end.graded)) = 0
  <2>1. /\ Weights(pay, end.graded) \in Seq(Int)
        /\ Len(Weights(pay, end.graded)) = Len(end.graded)
    BY <1>2, <1>5, WeightsTyped
  <2>2. \A i \in 1 .. Len(end.graded) : Weights(pay, end.graded)[i] = 0
    <3>1. DOMAIN end.graded = 1 .. Len(end.graded)
      BY <1>5
    <3> QED
      BY <1>6, <3>1 DEF Weights
  <2> QED
    BY <2>1, <2>2, SumOfZeros
<1>8. end.points = Sum(Weights(pay, tests))
  BY <1>4, <1>5, <1>7 DEF Paid
<1>9. Weights(pay, tests) = [i \in DOMAIN tests |-> Pay(tests[i])]
  <2>1. \A i \in DOMAIN tests : pay[tests[i]] = Pay(tests[i])
    BY <1>1, <1>2
  <2> QED
    BY <2>1 DEF Weights
<1> QED
  BY <1>8, <1>9 DEF end

(* A run whose files are all there, with regular results.                  *)
LEMMA RunIsComparable ==
    ASSUME RegularResults, ResultsOnce, rubric \in Rubrics, ValidRubric(rubric),
           run \in Submissions, \A c \in ToSet(run.ncores) : run.perf[c] # NoFile
    PROVE  Comparable
<1>1. /\ HasGrading(rubric.performance.tests)
      /\ \A test \in ToSet(rubric.performance.tests) :
            /\ test.points_worth \in Int /\ IsList(test.grading)
            /\ \A g \in ToSet(test.grading) : g.points_off \in Int
  BY ScoreAssumption DEF HasPoints, HasGrading
<1>2. /\ Distinct(rubric.performance.tests)
      /\ \A test \in ToSet(rubric.performance.tests) :
            \A g \in ToSet(test.grading) : IsInterval(g)
  BY DEF RegularResults
<1>3. \A test \in ToSet(rubric.performance.tests) : IsGraded(test)
  BY <1>1, <1>2 DEF IsGraded
<1>4. /\ IsList(run.ncores)
      /\ \A c \in ToSet(run.ncores) : IsList(run.perf[c])
  BY ScoreAssumption
<1>5. \A c \in ToSet(run.ncores) : \A line \in ToSet(run.perf[c]) : HasTimes(line)
  BY DEF RegularResults
<1> QED
  BY <1>1, <1>2, <1>3, <1>4, <1>5 DEF ResultsOnce, Comparable

(* The points of the performance part are those that the results are worth *)
(* to the rubric (score.js:476-547): each test pays once, on the cores it  *)
(* is meant for and by the first of its intervals, in whatever order the   *)
(* lines come, and nothing is paid when a file is missing.                 *)
THEOREM ResultsArePaid ==
    ASSUME RegularResults
    PROVE  Spec => []ResultsPay
<1>1. IInv => ResultsPay
  <2> SUFFICES ASSUME IInv, Scored, ResultsOnce
               PROVE  score.performance.points =
                        IF RunCompleted(run.status)
                             /\ \A c \in ToSet(run.ncores) : run.perf[c] # NoFile
                        THEN Sum([i \in DOMAIN rubric.performance.tests |->
                                    Pay(rubric.performance.tests[i])])
                        ELSE 0
    BY DEF ResultsPay
  <2>1. /\ rubric \in Rubrics /\ ValidRubric(rubric) /\ run \in Submissions
        /\ score.performance = Performance(rubric.performance.tests, run.status,
                                           run.ncores, run.perf)
    BY ScoredRun
  <2>2. CASE RunCompleted(run.status) /\ \A c \in ToSet(run.ncores) : run.perf[c] # NoFile
    <3>1. Comparable
      BY <2>1, <2>2, RunIsComparable
    <3>2. score.performance.points
            = GradeFiles(rubric.performance.tests, run.ncores, run.perf).points
      BY <2>1, <2>2 DEF Performance, Part
    <3> QED
      BY <2>2, <3>1, <3>2, PerformancePays
  <2>3. CASE ~ (RunCompleted(run.status) /\ \A c \in ToSet(run.ncores) : run.perf[c] # NoFile)
    BY <2>1, <2>3 DEF Performance, NoPoints, Part
  <2> QED
    BY <2>2, <2>3
<1> QED
  BY <1>1, ScoreSound, PTL

-----------------------------------------------------------------------------
(* What failures take off when each is found at a line of its own.         *)

(* find_correctness_test_with_name.                                        *)
Named(tests, name) == SelectInSeq(tests, LAMBDA test : test.testname = name)

LEMMA NamedIsFirst ==
    ASSUME NEW E, NEW tests \in Seq(E), NEW name
    PROVE  LET i == Named(tests, name) IN
           /\ i \in 0 .. Len(tests)
           /\ i = 0 => \A k \in 1 .. Len(tests) : tests[k].testname # name
           /\ i # 0 => tests[i].testname = name
<1> DEFINE I == {i \in 1 .. Len(tests) : tests[i].testname = name}
<1>1. Named(tests, name) = IF I # {} THEN Min(I) ELSE 0
  BY DEF Named, SelectInSeq
<1>2. I \in SUBSET Nat /\ Len(tests) \in Nat
  OBVIOUS
<1>3. I # {} => Min(I) \in I
  <2> HIDE DEF I
  <2> QED
    BY <1>2, LeastOf
<1> QED
  BY <1>1, <1>2, <1>3

(* The points of each test, without the failed ones.                       *)
LeftPoints(tests, failed) ==
    [i \in DOMAIN tests |-> IF tests[i].testname \in failed THEN 0 ELSE tests[i].points_worth]

LEMMA LeftTyped ==
    ASSUME NEW E, \A e \in E : e.points_worth \in Int, NEW tests \in Seq(E), NEW failed
    PROVE  /\ LeftPoints(tests, failed) \in Seq(Int)
           /\ Len(LeftPoints(tests, failed)) = Len(tests)
           /\ \A i \in 1 .. Len(tests) : LeftPoints(tests, failed)[i]
                = IF tests[i].testname \in failed THEN 0 ELSE tests[i].points_worth
           /\ WorthWithout(tests, failed) = Sum(LeftPoints(tests, failed))
           /\ WorthWithout(tests, failed) \in Int
<1> DEFINE s == LeftPoints(tests, failed)
<1>1. /\ Len(tests) \in Nat /\ DOMAIN tests = 1 .. Len(tests)
      /\ \A i \in 1 .. Len(tests) : tests[i].points_worth \in Int
  OBVIOUS
<1>2. s \in [1 .. Len(tests) -> Int]
  BY <1>1 DEF LeftPoints
<1>3. \A i \in 1 .. Len(tests) :
         s[i] = IF tests[i].testname \in failed THEN 0 ELSE tests[i].points_worth
  BY <1>1 DEF LeftPoints
<1> HIDE DEF s
<1>4. s \in Seq(Int) /\ Len(s) = Len(tests)
  BY <1>1, <1>2, SeqDef
<1>5. WorthWithout(tests, failed) = Sum(s)
  BY DEF WorthWithout, LeftPoints, s
<1>6. Sum(s) \in Int
  BY <1>4, SumType
<1> QED
  BY <1>3, <1>4, <1>5, <1>6 DEF s

LEMMA NoneFailed ==
    ASSUME NEW E, \A e \in E : e.points_worth \in Int, NEW tests \in Seq(E)
    PROVE  WorthWithout(tests, {}) = Worth(tests)
<1>1. LeftPoints(tests, {}) = PointsOf(tests)
  BY DEF LeftPoints, PointsOf
<1> QED
  BY <1>1, LeftTyped, WorthTyped

(* The failure at a line takes off the points of its test, if it has not   *)
(* failed before.                                                          *)
LEMMA LossTakesOff ==
    ASSUME NEW E, \A e \in E : e.points_worth \in Int, NEW tests \in Seq(E), NamedOnce(tests),
           NEW lines, Len(lines) \in Nat, NEW at \in 1 .. Len(lines), NEW failed,
           \A i \in 1 .. Len(tests) :
              tests[i].testname = lines[at].test => lines[at].test \notin failed
    PROVE  /\ LossAt(tests, lines, at) \in Seq(Int)
           /\ WorthWithout(tests, failed \cup {lines[at].test})
                = WorthWithout(tests, failed) - Sum(LossAt(tests, lines, at))
<1> DEFINE name == lines[at].test
           i == Named(tests, name)
           s == LeftPoints(tests, failed)
           t == LeftPoints(tests, failed \cup {name})
<1>1. /\ i \in 0 .. Len(tests)
      /\ i = 0 => \A k \in 1 .. Len(tests) : tests[k].testname # name
      /\ i # 0 => tests[i].testname = name
  BY NamedIsFirst
<1>2. LossAt(tests, lines, at) = IF i = 0 THEN <<>> ELSE <<tests[i].points_worth>>
  BY DEF LossAt, Named
<1>3. /\ s \in Seq(Int) /\ Len(s) = Len(tests) /\ WorthWithout(tests, failed) = Sum(s)
      /\ \A k \in 1 .. Len(tests) :
            s[k] = IF tests[k].testname \in failed THEN 0 ELSE tests[k].points_worth
  BY LeftTyped
<1>4. /\ t \in Seq(Int) /\ Len(t) = Len(tests)
      /\ WorthWithout(tests, failed \cup {name}) = Sum(t)
      /\ \A k \in 1 .. Len(tests) :
            t[k] = IF tests[k].testname \in failed \cup {name} THEN 0
                   ELSE tests[k].points_worth
  BY LeftTyped
<1>5. /\ Len(tests) \in Nat /\ DOMAIN tests = 1 .. Len(tests)
      /\ \A k \in 1 .. Len(tests) : tests[k].points_worth \in Int
  OBVIOUS
<1>6. \A k \in 1 .. Len(tests) : tests[k].testname = name => name \notin failed
  OBVIOUS
<1>7. \A k, l \in 1 .. Len(tests) : tests[k].testname = tests[l].testname => k = l
  BY <1>5 DEF NamedOnce
<1> HIDE DEF name, i, s, t
<1>8. CASE i = 0
  <2>1. \A k \in 1 .. Len(s) : s[k] = t[k]
    BY <1>1, <1>3, <1>4, <1>8
  <2>2. s = t
    BY <1>3, <1>4, <2>1, SeqEqual
  <2>3. LossAt(tests, lines, at) = <<>> /\ <<>> \in Seq(Int) /\ Sum(s) \in Int
    BY <1>2, <1>3, <1>8, SumType
  <2>4. Sum(t) = Sum(s) - Sum(LossAt(tests, lines, at))
    BY <2>2, <2>3, SumOfNone
  <2> QED
    BY <1>3, <1>4, <2>3, <2>4 DEF name
<1>9. CASE i # 0
  <2>1. i \in 1 .. Len(s) /\ i \in 1 .. Len(tests)
    BY <1>1, <1>3, <1>5, <1>9
  <2>2. \A k \in 1 .. Len(s) : k # i => s[k] = t[k]
    BY <1>1, <1>3, <1>4, <1>7, <1>9, <2>1
  <2>3. Sum(t) = Sum(s) - s[i] + t[i]
    BY <1>3, <1>4, <2>1, <2>2, SumChanged
  <2>4. s[i] = tests[i].points_worth /\ t[i] = 0 /\ tests[i].points_worth \in Int
    BY <1>1, <1>3, <1>4, <1>5, <1>6, <1>9, <2>1
  <2>5. LossAt(tests, lines, at) = <<tests[i].points_worth>>
    BY <1>2, <1>9
  <2>6. Sum(<<tests[i].points_worth>>) = tests[i].points_worth
    BY <2>4, SumOfOne
  <2>7. <<tests[i].points_worth>> \in Seq(Int)
    BY <2>4
  <2>8. Sum(s) \in Int
    BY <1>3, SumType
  <2>9. Sum(t) = Sum(s) - Sum(LossAt(tests, lines, at))
    BY <2>3, <2>4, <2>5, <2>6, <2>8
  <2> QED
    BY <1>3, <1>4, <2>5, <2>7, <2>9 DEF name
<1> QED
  BY <1>8, <1>9

LEMMA SearchFinds ==
    ASSUME NEW lines, Len(lines) \in Nat, NEW from \in Nat, NEW at \in from .. Len(lines), NEW n,
           Heads(lines[at], n), \A i \in from .. at - 1 : ~ Heads(lines[i], n)
    PROVE  Search(lines, from, n) = at
<1> DEFINE hits == {i \in from .. Len(lines) : Heads(lines[i], n)}
<1>1. at \in hits /\ hits \in SUBSET Nat
  OBVIOUS
<1>2. \A i \in hits : at <= i
  <2> SUFFICES ASSUME NEW i \in hits, ~ at <= i PROVE FALSE
    BY <1>1
  <2>1. i \in from .. at - 1 /\ Heads(lines[i], n)
    BY <1>1
  <2> QED
    BY <2>1
<1>3. Search(lines, from, n) = Min(hits)
  BY <1>1 DEF Search, SearchFrom
<1> HIDE DEF hits
<1>4. Min(hits) \in hits /\ \A i \in hits : Min(hits) <= i
  BY <1>1, LeastOf
<1>5. Min(hits) = at
  <2> DEFINE m == Min(hits)
  <2>1. m \in Nat /\ at \in Nat /\ at <= m /\ m <= at
    BY <1>1, <1>2, <1>4
  <2> HIDE DEF m
  <2>2. m = at
    BY <2>1
  <2> QED
    BY <2>2 DEF m
<1> QED
  BY <1>3, <1>5

(* The search stops at the lines p[1], p[2], ... with the failures found,  *)
(* and skips none; behind the last one there is nothing but lines with the *)
(* number last, so that any other number is searched for from here to the  *)
(* next report.                                                            *)
Path(lines, found, last, p) ==
    /\ p \in [0 .. Len(found) -> 1 .. Len(lines)] /\ p[0] = 1
    /\ \A k \in 1 .. Len(found) :
          /\ p[k - 1] <= p[k] /\ lines[p[k]] = found[k]
          /\ \A i \in p[k - 1] .. p[k] - 1 : ~ Heads(lines[i], found[k].n)
    /\ \A i \in p[Len(found)] .. Len(lines) : lines[i].kind = "failure" => lines[i].n = last

(* Text without failures ...                                               *)
LEMMA PathGoesOn ==
    ASSUME NEW S, NEW a \in Seq(S), NEW b \in Seq(S), NEW found \in Seq(S), NEW last, NEW p,
           Path(a, found, last, p), \A i \in 1 .. Len(b) : b[i].kind # "failure"
    PROVE  Path(a \o b, found, last, p)
<1> DEFINE m == Len(a)
           n == Len(b)
           c == a \o b
           h == Len(found)
<1>1. /\ m \in Nat /\ n \in Nat /\ h \in Nat /\ Len(c) = m + n
      /\ \A i \in 1 .. m + n : c[i] = IF i <= m THEN a[i] ELSE b[i - m]
  BY ConcatProperties
<1> HIDE DEF m, n, c, h
<1>2. /\ p \in [0 .. h -> 1 .. m] /\ p[0] = 1
      /\ \A k \in 1 .. h :
            /\ p[k - 1] <= p[k] /\ a[p[k]] = found[k]
            /\ \A i \in p[k - 1] .. p[k] - 1 : ~ Heads(a[i], found[k].n)
      /\ \A i \in p[h] .. m : a[i].kind = "failure" => a[i].n = last
  BY DEF Path, m, h
<1>3. p \in [0 .. h -> 1 .. m + n]
  <2>1. 1 .. m \subseteq 1 .. m + n
    BY <1>1
  <2> QED
    BY <1>2, <2>1
<1>4. \A i \in 1 .. m : c[i] = a[i]
  BY <1>1
<1>5. ASSUME NEW k \in 1 .. h
      PROVE  /\ p[k - 1] <= p[k] /\ c[p[k]] = found[k]
             /\ \A i \in p[k - 1] .. p[k] - 1 : ~ Heads(c[i], found[k].n)
  <2>1. k - 1 \in 0 .. h /\ k \in 0 .. h
    BY <1>1
  <2>2. p[k] \in 1 .. m /\ p[k - 1] \in 1 .. m
    BY <1>2, <2>1
  <2>3. \A i \in p[k - 1] .. p[k] - 1 : i \in 1 .. m
    BY <1>1, <2>2
  <2> QED
    BY <1>2, <1>4, <2>2, <2>3
<1>6. ASSUME NEW i \in p[h] .. m + n, c[i].kind = "failure"
      PROVE  c[i].n = last
  <2>1. p[h] \in 1 .. m
    BY <1>1, <1>2
  <2>2. CASE i <= m
    <3>1. i \in 1 .. m /\ i \in p[h] .. m
      BY <1>1, <2>1, <2>2
    <3> QED
      BY <1>2, <1>4, <1>6, <3>1
  <2>3. CASE ~ i <= m
    <3>1. i - m \in 1 .. n /\ i \in 1 .. m + n
      BY <1>1, <2>1, <2>3
    <3>2. c[i] = b[i - m] /\ b[i - m].kind # "failure"
      BY <1>1, <2>3, <3>1 DEF n
    <3> QED
      BY <1>6, <3>2
  <2> QED
    BY <2>2, <2>3
<1>7. \A k \in 1 .. h :
            /\ p[k - 1] <= p[k] /\ c[p[k]] = found[k]
            /\ \A i \in p[k - 1] .. p[k] - 1 : ~ Heads(c[i], found[k].n)
  BY <1>5
<1>8. \A i \in p[h] .. m + n : c[i].kind = "failure" => c[i].n = last
  BY <1>6
<1>9. Path(c, found, last, p)
  BY <1>1, <1>2, <1>3, <1>7, <1>8 DEF Path, h
<1> QED
  BY <1>9 DEF c

(* ... and a failure whose number is not last.                             *)
LEMMA PathFinds ==
    ASSUME NEW S, NEW a \in Seq(S), NEW found \in Seq(S), NEW last, NEW p,
           Path(a, found, last, p), NEW line \in S, line.kind = "failure", line.n # last
    PROVE  \E q : Path(a \o <<line>>, found \o <<line>>, line.n, q)
<1> DEFINE m == Len(a)
           c == a \o <<line>>
           h == Len(found)
           g == found \o <<line>>
           q == [k \in 0 .. h + 1 |-> IF k <= h THEN p[k] ELSE m + 1]
<1>1. /\ m \in Nat /\ Len(c) = m + 1 /\ c[m + 1] = line
      /\ \A i \in 1 .. m : c[i] = a[i]
  OBVIOUS
<1>2. /\ h \in Nat /\ Len(g) = h + 1 /\ g[h + 1] = line
      /\ \A i \in 1 .. h : g[i] = found[i]
  OBVIOUS
<1> HIDE DEF m, c, h, g
<1>3. /\ p \in [0 .. h -> 1 .. m] /\ p[0] = 1
      /\ \A k \in 1 .. h :
            /\ p[k - 1] <= p[k] /\ a[p[k]] = found[k]
            /\ \A i \in p[k - 1] .. p[k] - 1 : ~ Heads(a[i], found[k].n)
      /\ \A i \in p[h] .. m : a[i].kind = "failure" => a[i].n = last
  BY DEF Path, m, h
<1>4. /\ \A k \in 0 .. h : p[k] \in 1 .. m /\ q[k] = p[k]
      /\ q[h + 1] = m + 1
  BY <1>2, <1>3
<1>5. q \in [0 .. h + 1 -> 1 .. m + 1] /\ q[0] = 1
  <2>1. \A k \in 0 .. h + 1 : k <= h => k \in 0 .. h
    BY <1>2
  <2>2. 1 .. m \subseteq 1 .. m + 1 /\ m + 1 \in 1 .. m + 1
    BY <1>1
  <2>3. 0 \in 0 .. h
    BY <1>2
  <2> QED
    BY <1>3, <1>4, <2>1, <2>2, <2>3
<1> HIDE DEF q
<1>6. ASSUME NEW k \in 1 .. h + 1
      PROVE  /\ q[k - 1] <= q[k] /\ c[q[k]] = g[k]
             /\ \A i \in q[k - 1] .. q[k] - 1 : ~ Heads(c[i], g[k].n)
  <2>1. CASE k <= h
    <3>1. k \in 1 .. h /\ k - 1 \in 0 .. h /\ k \in 0 .. h
      BY <1>2, <2>1
    <3>2. p[k] \in 1 .. m /\ p[k - 1] \in 1 .. m /\ q[k] = p[k] /\ q[k - 1] = p[k - 1]
      BY <1>4, <3>1
    <3>3. \A i \in q[k - 1] .. q[k] - 1 : i \in 1 .. m
      BY <1>1, <3>2
    <3>4. g[k] = found[k]
      BY <1>2, <3>1
    <3> QED
      BY <1>1, <1>3, <3>1, <3>2, <3>3, <3>4
  <2>2. CASE ~ k <= h
    <3>1. k = h + 1 /\ k - 1 = h /\ h \in 0 .. h
      BY <1>2, <2>2
    <3>2. q[k] = m + 1 /\ q[k - 1] = p[h] /\ p[h] \in 1 .. m
      BY <1>4, <3>1
    <3>3. q[k - 1] <= q[k] /\ c[q[k]] = g[k] /\ g[k] = line
      BY <1>1, <1>2, <3>1, <3>2
    <3>4. ASSUME NEW i \in q[k - 1] .. q[k] - 1
          PROVE  ~ Heads(c[i], line.n)
      <4>1. i \in p[h] .. m /\ i \in 1 .. m
        BY <1>1, <3>2
      <4>2. c[i] = a[i] /\ (a[i].kind = "failure" => a[i].n = last)
        BY <1>1, <1>3, <4>1
      <4> QED
        BY <4>2 DEF Heads
    <3> QED
      BY <3>3, <3>4
  <2> QED
    BY <2>1, <2>2
<1>7. ASSUME NEW i \in q[h + 1] .. m + 1
      PROVE  c[i].n = line.n
  <2>1. i = m + 1
    BY <1>1, <1>4
  <2> QED
    BY <1>1, <2>1
<1>8. Path(c, g, line.n, q)
  <2>1. \A k \in 1 .. h + 1 :
             /\ q[k - 1] <= q[k] /\ c[q[k]] = g[k]
             /\ \A i \in q[k - 1] .. q[k] - 1 : ~ Heads(c[i], g[k].n)
    BY <1>6
  <2>2. \A i \in q[h + 1] .. m + 1 : c[i].kind = "failure" => c[i].n = line.n
    BY <1>7
  <2> QED
    BY <1>1, <1>2, <1>5, <2>1, <2>2 DEF Path
<1> QED
  BY <1>8 DEF c, g

(* The numbers of the failures found.                                      *)
Numbers(found) == [k \in 1 .. Len(found) |-> found[k].n]

(* Of a test of the rubric, no two failures are found.                     *)
FailedOnce(tests, found) ==
    \A i, j \in 1 .. Len(found) :
       /\ found[i].test = found[j].test
       /\ \E k \in DOMAIN tests : tests[k].testname = found[i].test
       => i = j

(* The tests of the failures found.                                        *)
FailedUpTo(found, k) == {found[j].test : j \in 1 .. k}

(* On such a path the search takes off what the failed tests are worth.    *)
LEMMA PathLosses ==
    ASSUME NEW tests, HasPoints(tests), NamedOnce(tests),
           NEW S, Countable(S), NEW lines \in Seq(S), NEW found \in Seq(S),
           \A k \in 1 .. Len(found) : found[k].kind = "failure",
           NEW last, NEW p, Path(lines, found, last, p),
           Announced(lines) = Numbers(found), FailedOnce(tests, found)
    PROVE  WorthWithout(tests, FailedUpTo(found, Len(found)))
             = Worth(tests) - Sum(CorrectnessLosses(tests, lines))
<1> DEFINE E == ToSet(tests)
           h == Len(found)
           numbers == Announced(lines)
<1>1. /\ tests \in Seq(E) /\ \A e \in E : e.points_worth \in Int
      /\ Len(tests) \in Nat /\ DOMAIN tests = 1 .. Len(tests)
  BY ListItems DEF HasPoints
<1>2. IsParsed(lines) /\ Len(lines) \in Nat
  BY DEF IsParsed, Countable
<1>3. h \in Nat /\ Len(numbers) = h /\ \A k \in 1 .. h : numbers[k] = found[k].n
  <2>1. h \in Nat
    OBVIOUS
  <2> HIDE DEF h
  <2>2. Len([k \in 1 .. h |-> found[k].n]) = h
    BY <2>1
  <2> QED
    BY <2>1, <2>2 DEF Numbers, h
<1>4. PICK f : Searched(tests, lines, f)
  BY <1>2, SearchFolds
<1>5. /\ f \in [0 .. h -> Searching]
      /\ f[0] = [at |-> 1, losses |-> <<>>]
      /\ \A k \in 1 .. h : f[k] = AfterFailure(tests, lines, f[k - 1], found[k].n)
      /\ CorrectnessLosses(tests, lines) = f[h].losses
  <2> HIDE DEF h
  <2> QED
    BY <1>3, <1>4 DEF Searched
<1> HIDE DEF numbers, h, E
<1>6. /\ p \in [0 .. h -> 1 .. Len(lines)] /\ p[0] = 1
      /\ \A k \in 1 .. h :
            /\ p[k - 1] <= p[k] /\ lines[p[k]] = found[k]
            /\ \A i \in p[k - 1] .. p[k] - 1 : ~ Heads(lines[i], found[k].n)
  BY DEF Path, h
<1> DEFINE Good(k) == /\ f[k].at = p[k]
                      /\ WorthWithout(tests, FailedUpTo(found, k))
                           = Worth(tests) - Sum(f[k].losses)
           T == {k \in 0 .. h : Good(k)}
<1>7. Worth(tests) \in Int
  BY <1>1, WorthTyped
<1>8. 0 \in T
  <2>1. FailedUpTo(found, 0) = {}
    BY DEF FailedUpTo
  <2>2. WorthWithout(tests, {}) = Worth(tests)
    BY <1>1, NoneFailed
  <2>3. f[0].losses = <<>> /\ f[0].at = 1
    BY <1>5
  <2>4. WorthWithout(tests, FailedUpTo(found, 0)) = Worth(tests) - Sum(f[0].losses)
    <3>1. Sum(f[0].losses) = 0
      BY <2>3, SumOfNone
    <3>2. WorthWithout(tests, FailedUpTo(found, 0)) = Worth(tests)
      BY <2>1, <2>2
    <3> QED
      BY <1>7, <3>1, <3>2
  <2>5. f[0].at = p[0]
    BY <1>6, <2>3
  <2>6. 0 \in 0 .. h
    BY <1>3
  <2> QED
    BY <2>4, <2>5, <2>6
<1>9. ASSUME NEW k \in 1 .. h, k - 1 \in T
      PROVE  k \in T
  <2> DEFINE at == p[k]
             failed == FailedUpTo(found, k - 1)
             losses == LossAt(tests, lines, at)
  <2>1. /\ k - 1 \in 0 .. h /\ k \in 0 .. h
        /\ f[k - 1].at = p[k - 1]
        /\ WorthWithout(tests, failed) = Worth(tests) - Sum(f[k - 1].losses)
    BY <1>3, <1>9
  <2>2. /\ at \in 1 .. Len(lines) /\ p[k - 1] \in 1 .. Len(lines) /\ p[k - 1] <= at
        /\ lines[at] = found[k]
        /\ \A i \in p[k - 1] .. at - 1 : ~ Heads(lines[i], found[k].n)
    BY <1>6, <2>1
  <2>3. Heads(lines[at], found[k].n)
    BY <2>2 DEF Heads, h
  <2>4. Search(lines, p[k - 1], found[k].n) = at
    <3> DEFINE from == p[k - 1]
    <3>1. from \in Nat /\ at \in from .. Len(lines)
      BY <1>2, <2>2
    <3>2. \A i \in from .. at - 1 : ~ Heads(lines[i], found[k].n)
      BY <2>2
    <3> HIDE DEF from, at
    <3>3. Search(lines, from, found[k].n) = at
      BY <1>2, <2>3, <3>1, <3>2, SearchFinds
    <3> QED
      BY <3>3 DEF from, at
  <2>5. f[k] = [at |-> at, losses |-> f[k - 1].losses \o losses]
    <3>1. f[k] = AfterFailure(tests, lines, f[k - 1], found[k].n)
      BY <1>5
    <3> HIDE DEF at
    <3> QED
      BY <2>1, <2>4, <3>1 DEF AfterFailure
  <2>6. f[k - 1].losses \in Seq(Int)
    BY <1>5, <2>1 DEF Searching
  <2>7. FailedUpTo(found, k) = failed \cup {lines[at].test}
    <3>1. 1 .. k = 1 .. (k - 1) \cup {k}
      BY <1>3
    <3> HIDE DEF at
    <3> QED
      BY <2>2, <3>1 DEF FailedUpTo
  <2>8. ASSUME NEW i \in 1 .. Len(tests), tests[i].testname = lines[at].test
        PROVE  lines[at].test \notin failed
    <3> SUFFICES ASSUME NEW j \in 1 .. k - 1, lines[at].test = found[j].test PROVE FALSE
      BY DEF FailedUpTo
    <3>1. j \in 1 .. h /\ j # k
      BY <1>3
    <3>2. found[k].test = found[j].test /\ tests[i].testname = found[k].test
      BY <2>2, <2>8
    <3> QED
      BY <1>1, <3>1, <3>2 DEF FailedOnce, h
  <2> HIDE DEF failed
  <2>9. /\ losses \in Seq(Int)
        /\ WorthWithout(tests, failed \cup {lines[at].test})
             = WorthWithout(tests, failed) - Sum(losses)
    <3> HIDE DEF at
    <3> QED
      BY <1>1, <1>2, <2>2, <2>8, LossTakesOff
  <2> HIDE DEF losses, at
  <2>10. Sum(f[k - 1].losses \o losses) = Sum(f[k - 1].losses) + Sum(losses)
    BY <2>6, <2>9, SumOfBoth
  <2>11. Sum(f[k - 1].losses) \in Int /\ Sum(losses) \in Int
    BY <2>6, <2>9, SumType
  <2>12. f[k].at = p[k]
    BY <2>5 DEF at
  <2>13. f[k].losses = f[k - 1].losses \o losses
    BY <2>5
  <2>14. WorthWithout(tests, FailedUpTo(found, k)) = Worth(tests) - Sum(f[k].losses)
    BY <1>7, <2>1, <2>7, <2>9, <2>10, <2>11, <2>13
  <2> QED
    BY <2>1, <2>12, <2>14
<1>10. T \in SUBSET (0 .. h)
  OBVIOUS
<1>11. Good(h)
  <2> HIDE DEF T
  <2>1. \A k \in 0 .. h : k \in T
    BY <1>3, <1>8, <1>9, <1>10, Upwards
  <2>2. h \in T
    BY <1>3, <2>1
  <2> QED
    BY <2>2 DEF T
<1> QED
  BY <1>5, <1>11 DEF h

-----------------------------------------------------------------------------
(* The search reads the report of a class.                                 *)

(* The search through some text finds all failures that it announces.      *)
Read(S, lines, found, last) ==
    /\ found \in Seq(S) /\ \A k \in 1 .. Len(found) : found[k].kind = "failure"
    /\ Announced(lines) = Numbers(found)
    /\ \E p : Path(lines, found, last, p)

LEMMA NumbersOfBoth ==
    ASSUME NEW S, NEW a \in Seq(S), NEW b \in Seq(S)
    PROVE  Numbers(a \o b) = Numbers(a) \o Numbers(b)
<1> DEFINE m == Len(a)
           n == Len(b)
           c == a \o b
           N == {line.n : line \in S}
           x == Numbers(a)
           y == Numbers(b)
           z == Numbers(c)
<1>1. /\ m \in Nat /\ n \in Nat /\ Len(c) = m + n
      /\ \A i \in 1 .. m + n : c[i] = IF i <= m THEN a[i] ELSE b[i - m]
      /\ \A i \in 1 .. m : a[i] \in S
      /\ \A i \in 1 .. n : b[i] \in S
  BY ConcatProperties
<1> HIDE DEF m, n, c
<1>2. x \in Seq(N) /\ Len(x) = m /\ \A i \in 1 .. m : x[i] = a[i].n
  <2>1. x \in [1 .. m -> N] /\ \A i \in 1 .. m : x[i] = a[i].n
    BY <1>1 DEF Numbers, m
  <2> HIDE DEF x, N
  <2> QED
    BY <1>1, <2>1, SeqDef
<1>3. y \in Seq(N) /\ Len(y) = n /\ \A i \in 1 .. n : y[i] = b[i].n
  <2>1. y \in [1 .. n -> N] /\ \A i \in 1 .. n : y[i] = b[i].n
    BY <1>1 DEF Numbers, n
  <2> HIDE DEF y, N
  <2> QED
    BY <1>1, <2>1, SeqDef
<1>4. z \in Seq(N) /\ Len(z) = m + n /\ \A i \in 1 .. m + n : z[i] = c[i].n
  <2>1. ASSUME NEW i \in 1 .. m + n
        PROVE  c[i] \in S
    <3>1. CASE i <= m
      <4>1. i \in 1 .. m
        BY <1>1, <3>1
      <4> QED
        BY <1>1, <3>1, <4>1
    <3>2. CASE ~ i <= m
      <4>1. i - m \in 1 .. n
        BY <1>1, <3>2
      <4> QED
        BY <1>1, <3>2, <4>1
    <3> QED
      BY <3>1, <3>2
  <2>2. z \in [1 .. m + n -> N] /\ \A i \in 1 .. m + n : z[i] = c[i].n
    BY <1>1, <2>1 DEF Numbers
  <2>3. m + n \in Nat
    BY <1>1
  <2> HIDE DEF z, N
  <2> QED
    BY <2>2, <2>3, SeqDef
<1> HIDE DEF x, y, z, N
<1> DEFINE w == x \o y
<1>5. /\ w \in Seq(N) /\ Len(w) = m + n
      /\ \A i \in 1 .. m + n : w[i] = IF i <= m THEN x[i] ELSE y[i - m]
  BY <1>2, <1>3, ConcatProperties
<1> HIDE DEF w
<1>6. ASSUME NEW i \in 1 .. m + n
      PROVE  z[i] = w[i]
  <2>1. CASE i <= m
    <3>1. i \in 1 .. m
      BY <1>1, <2>1
    <3> QED
      BY <1>1, <1>2, <1>4, <1>5, <2>1, <3>1
  <2>2. CASE ~ i <= m
    <3>1. i - m \in 1 .. n
      BY <1>1, <2>2
    <3> QED
      BY <1>1, <1>3, <1>4, <1>5, <2>2, <3>1
  <2> QED
    BY <2>1, <2>2
<1>7. z = w
  BY <1>4, <1>5, <1>6, SeqEqual
<1> QED
  BY <1>7 DEF w, x, y, z, c

LEMMA ReadGoesOn ==
    ASSUME NEW S, Countable(S), NEW a \in Seq(S), NEW found, NEW last,
           Read(S, a, found, last), NEW b \in Seq(S),
           \A i \in 1 .. Len(b) : b[i].kind \notin {"count", "failure"}
    PROVE  Read(S, a \o b, found, last)
<1>1. PICK p : Path(a, found, last, p)
  BY DEF Read
<1>2. found \in Seq(S) /\ \A i \in 1 .. Len(b) : b[i].kind # "failure" /\ b[i].kind # "count"
  BY DEF Read
<1>3. Path(a \o b, found, last, p)
  BY <1>1, <1>2, PathGoesOn
<1>4. Announced(a \o b) = Announced(a)
  <2>1. Announced(a \o b) = Announced(a) \o Announced(b)
    BY AnnouncedByBoth
  <2>2. Announced(b) = <<>>
    BY <1>2, AnnouncedByNone
  <2>3. Announced(a) \in Seq(Nat)
    BY LineNumbersTyped
  <2>4. Announced(a) \o <<>> = Announced(a)
    BY <2>3, ConcatEmptySeq
  <2> QED
    BY <2>1, <2>2, <2>4
<1> QED
  BY <1>3, <1>4 DEF Read

(* The failures of a report.                                               *)
Fails(report, k) == [n \in 1 .. k |-> FailureLine(n, report[n])]

LEMMA NoFails ==
    ASSUME NEW report
    PROVE  Fails(report, 0) = <<>>
<1> DEFINE x == Fails(report, 0)
<1>1. x \in [1 .. 0 -> {}]
  BY DEF Fails
<1> HIDE DEF x
<1>2. x \in Seq({}) /\ Len(x) = 0
  BY <1>1, SeqDef
<1>3. x = <<>>
  BY <1>2
<1> QED
  BY <1>3 DEF x

LEMMA FailsTyped ==
    ASSUME NEW S, NEW T, HoldsReports(S, T), NEW report \in Seq(T), NEW k \in 0 .. Len(report)
    PROVE  /\ Fails(report, k) \in Seq(S) /\ Len(Fails(report, k)) = k
           /\ \A n \in 1 .. k : Fails(report, k)[n] = FailureLine(n, report[n])
           /\ k # 0 => Fails(report, k)
                         = Fails(report, k - 1) \o <<FailureLine(k, report[k])>>
<1>1. ASSUME NEW j \in 0 .. Len(report)
      PROVE  /\ Fails(report, j) \in Seq(S) /\ Len(Fails(report, j)) = j
             /\ \A n \in 1 .. j : Fails(report, j)[n] = FailureLine(n, report[n])
  <2> DEFINE x == Fails(report, j)
  <2>1. \A n \in 1 .. j : n \in Nat /\ report[n] \in T
    OBVIOUS
  <2>2. \A n \in 1 .. j : FailureLine(n, report[n]) \in S
    BY <2>1 DEF HoldsReports
  <2>3. x \in [1 .. j -> S] /\ \A n \in 1 .. j : x[n] = FailureLine(n, report[n])
    BY <2>2 DEF Fails
  <2>4. j \in Nat
    OBVIOUS
  <2> HIDE DEF x
  <2>5. x \in Seq(S) /\ Len(x) = j
    BY <2>3, <2>4, SeqDef
  <2> QED
    BY <2>3, <2>5 DEF x
<1>2. ASSUME k # 0
      PROVE  Fails(report, k) = Fails(report, k - 1) \o <<FailureLine(k, report[k])>>
  <2> DEFINE x == Fails(report, k - 1)
             y == Fails(report, k)
             line == FailureLine(k, report[k])
             z == x \o <<line>>
  <2>1. k \in Nat /\ k - 1 \in 0 .. Len(report) /\ k \in 1 .. k /\ 1 .. k - 1 \subseteq 1 .. k
    BY <1>2
  <2>2. /\ x \in Seq(S) /\ Len(x) = k - 1
        /\ \A n \in 1 .. k - 1 : x[n] = FailureLine(n, report[n])
    BY <1>1, <2>1
  <2>3. /\ y \in Seq(S) /\ Len(y) = k
        /\ \A n \in 1 .. k : y[n] = FailureLine(n, report[n])
    BY <1>1
  <2>4. line \in S
    BY <2>1 DEF HoldsReports
  <2> HIDE DEF x, y, line
  <2>5. /\ z \in Seq(S) /\ Len(z) = k /\ z[k] = line
        /\ \A n \in 1 .. k - 1 : z[n] = x[n]
    BY <2>1, <2>2, <2>4
  <2> HIDE DEF z
  <2>6. ASSUME NEW n \in 1 .. k
        PROVE  y[n] = z[n]
    <3>1. CASE n = k
      BY <2>3, <2>5, <3>1 DEF line
    <3>2. CASE n # k
      <4>1. n \in 1 .. k - 1
        BY <2>1, <3>2
      <4> QED
        BY <2>2, <2>3, <2>5, <4>1
    <3> QED
      BY <3>1, <3>2
  <2>7. y = z
    BY <2>3, <2>5, <2>6, SeqEqual
  <2> QED
    BY <2>7 DEF x, y, z, line
<1> QED
  BY <1>1, <1>2

LEMMA NumbersOfFails ==
    ASSUME NEW S, NEW T, HoldsReports(S, T), NEW report \in Seq(T)
    PROVE  Numbers(Fails(report, Len(report))) = Up(Len(report))
<1> DEFINE n == Len(report)
           x == Fails(report, n)
<1>1. n \in Nat /\ n \in 0 .. Len(report)
  OBVIOUS
<1>2. Len(x) = n /\ \A k \in 1 .. n : x[k] = FailureLine(k, report[k])
  <2> HIDE DEF n
  <2> QED
    BY <1>1, FailsTyped
<1> HIDE DEF x, n
<1>3. \A k \in 1 .. n : x[k].n = k
  BY <1>2 DEF FailureLine
<1>4. Numbers(x) = [k \in 1 .. n |-> x[k].n]
  BY <1>2 DEF Numbers
<1>5. Numbers(x) = Up(n)
  BY <1>3, <1>4 DEF Up
<1> QED
  BY <1>5 DEF x, n

(* The lines of its failures.                                              *)
Pairs(report) == [n \in DOMAIN report |-> <<FailureLine(n, report[n]), Text>>]

LEMMA PairsTyped ==
    ASSUME NEW S, NEW T, HoldsReports(S, T), NEW report \in Seq(T)
    PROVE  /\ Pairs(report) \in Seq(Seq(S)) /\ Len(Pairs(report)) = Len(report)
           /\ \A n \in 1 .. Len(report) :
                 /\ FailureLine(n, report[n]) \in S
                 /\ Pairs(report)[n] = <<FailureLine(n, report[n]), Text>>
<1> DEFINE x == Pairs(report)
<1>1. Len(report) \in Nat /\ DOMAIN report = 1 .. Len(report)
  OBVIOUS
<1>2. \A n \in 1 .. Len(report) : n \in Nat /\ report[n] \in T
  OBVIOUS
<1>3. \A n \in 1 .. Len(report) : FailureLine(n, report[n]) \in S /\ Text \in S
  BY <1>2 DEF HoldsReports
<1>4. /\ x \in [1 .. Len(report) -> Seq(S)]
      /\ \A n \in 1 .. Len(report) : x[n] = <<FailureLine(n, report[n]), Text>>
  BY <1>1, <1>3 DEF Pairs
<1> HIDE DEF x
<1>5. x \in Seq(Seq(S)) /\ Len(x) = Len(report)
  BY <1>1, <1>4, SeqDef
<1> QED
  BY <1>3, <1>4, <1>5 DEF x

LEMMA FailureRead ==
    ASSUME NEW S, NEW a \in Seq(S), NEW found \in Seq(S), NEW last,
           \E p : Path(a, found, last, p), NEW line \in S, Text \in S,
           line.kind = "failure", line.n # last
    PROVE  \E p : Path(a \o <<line, Text>>, found \o <<line>>, line.n, p)
<1>1. PICK q : Path(a \o <<line>>, found \o <<line>>, line.n, q)
  BY PathFinds
<1> DEFINE b == a \o <<line>>
           g == found \o <<line>>
           t == <<Text>>
<1>2. b \in Seq(S) /\ g \in Seq(S) /\ t \in Seq(S) /\ Len(t) = 1 /\ t[1] = Text
  OBVIOUS
<1>3. a \o <<line, Text>> = b \o t
  <2>1. <<line>> \in Seq(S) /\ <<line, Text>> = <<line>> \o t
    OBVIOUS
  <2>2. Associates(S, a)
    BY ConcatAssociates
  <2> QED
    BY <1>2, <2>1, <2>2 DEF Associates
<1>4. \A i \in 1 .. Len(t) : t[i].kind # "failure"
  BY <1>2 DEF Text
<1>5. Path(b, g, line.n, q)
  BY <1>1
<1> HIDE DEF b, g, t
<1>6. Path(b \o t, g, line.n, q)
  BY <1>2, <1>4, <1>5, PathGoesOn
<1> QED
  BY <1>3, <1>6 DEF g

(* The first failure of a report is found behind the last one of the       *)
(* reports before it, unless they have the same number.                    *)
LEMMA FailuresRead ==
    ASSUME NEW S, NEW T, HoldsReports(S, T), NEW report \in Seq(T),
           NEW base \in Seq(S), NEW found \in Seq(S), NEW last,
           \E p : Path(base, found, last, p), report # <<>> => last # 1,
           NEW f, Flattens(S, Pairs(report), f), NEW k \in 0 .. Len(report)
    PROVE  /\ \E p : Path(base \o f[k], found \o Fails(report, k),
                          IF k = 0 THEN last ELSE k, p)
           /\ \A i \in 1 .. Len(f[k]) : f[k][i].kind # "count"
<1> DEFINE n == Len(report)
           At(j) == IF j = 0 THEN last ELSE j
           Reads(j) == \E p : Path(base \o f[j], found \o Fails(report, j), At(j), p)
           Plain(j) == \A i \in 1 .. Len(f[j]) : f[j][i].kind # "count"
           G == {j \in 0 .. n : Reads(j) /\ Plain(j)}
<1>1. n \in Nat /\ Len(Pairs(report)) = n
  BY PairsTyped
<1>2. /\ f \in [0 .. n -> Seq(S)] /\ f[0] = <<>>
      /\ \A j \in 1 .. n : f[j] = f[j - 1] \o <<FailureLine(j, report[j]), Text>>
  <2>1. \A j \in 1 .. n : Pairs(report)[j] = <<FailureLine(j, report[j]), Text>>
    BY PairsTyped
  <2> HIDE DEF n
  <2> QED
    BY <1>1, <2>1 DEF Flattens
<1>3. 0 \in G
  <2>1. base \o f[0] = base
    BY <1>2, ConcatEmptySeq
  <2>2. Fails(report, 0) = <<>>
    <3>1. 0 \in 0 .. Len(report)
      BY <1>1
    <3>2. Fails(report, 0) \in Seq(S) /\ Len(Fails(report, 0)) = 0
      BY <3>1, FailsTyped
    <3> QED
      BY <3>2
  <2>3. found \o Fails(report, 0) = found
    BY <2>2, ConcatEmptySeq
  <2>4. Reads(0)
    BY <2>1, <2>3
  <2>5. Plain(0)
    BY <1>2
  <2>6. 0 \in 0 .. n
    BY <1>1
  <2> QED
    BY <2>4, <2>5, <2>6
<1>4. ASSUME NEW j \in 1 .. n, j - 1 \in G
      PROVE  j \in G
  <2> DEFINE line == FailureLine(j, report[j])
             a == base \o f[j - 1]
             g == found \o Fails(report, j - 1)
             two == <<line, Text>>
  <2>1. j \in 0 .. n /\ j - 1 \in 0 .. n /\ j # 0 /\ f[j - 1] \in Seq(S)
    <3>1. j \in 0 .. n /\ j - 1 \in 0 .. n /\ j # 0
      BY <1>1
    <3> HIDE DEF n
    <3>2. f[j - 1] \in Seq(S)
      BY <1>2, <3>1
    <3> QED
      BY <3>1, <3>2
  <2>2. line \in S /\ Text \in S /\ line.kind = "failure" /\ line.n = j
    <3>1. line \in S
      BY PairsTyped
    <3> QED
      BY <3>1 DEF FailureLine, HoldsReports
  <2>3. Fails(report, j - 1) \in Seq(S) /\ Fails(report, j) = Fails(report, j - 1) \o <<line>>
    <3>1. Fails(report, j - 1) \in Seq(S)
      BY <2>1, FailsTyped
    <3>2. Fails(report, j) = Fails(report, j - 1) \o <<line>>
      BY <2>1, FailsTyped
    <3> QED
      BY <3>1, <3>2
  <2>4. a \in Seq(S) /\ g \in Seq(S)
    BY <2>1, <2>3, ConcatProperties
  <2>5. \E p : Path(a, g, At(j - 1), p)
    BY <1>4
  <2>6. j # At(j - 1)
    BY <1>1, <2>1
  <2>7. f[j] = f[j - 1] \o two
    BY <1>2
  <2>8. two \in Seq(S) /\ Len(two) = 2 /\ two[1] = line /\ two[2] = Text
    BY <2>2
  <2> HIDE DEF line, At, Reads, Plain, G
  <2>9. base \o f[j] = a \o two
    <3> HIDE DEF two
    <3> DEFINE x == f[j - 1]
    <3>1. x \in Seq(S) /\ two \in Seq(S)
      BY <2>1, <2>8
    <3> HIDE DEF x
    <3>2. Associates(S, base)
      BY ConcatAssociates
    <3>3. base \o (x \o two) = (base \o x) \o two
      BY <3>1, <3>2 DEF Associates
    <3> QED
      BY <2>7, <3>3 DEF x
  <2>10. found \o Fails(report, j) = g \o <<line>>
    <3>1. <<line>> \in Seq(S)
      BY <2>2
    <3> DEFINE one == <<line>>
               fails == Fails(report, j - 1)
    <3>2. one \in Seq(S) /\ fails \in Seq(S)
      BY <2>3, <3>1
    <3> HIDE DEF one, fails
    <3>3. Associates(S, found)
      BY ConcatAssociates
    <3>4. found \o (fails \o one) = (found \o fails) \o one
      BY <3>2, <3>3 DEF Associates
    <3> QED
      BY <2>3, <3>4 DEF one, fails
  <2> HIDE DEF a, g
  <2>11. \E p : Path(a \o <<line, Text>>, g \o <<line>>, line.n, p)
    BY <2>2, <2>4, <2>5, <2>6, FailureRead
  <2>12. Reads(j)
    BY <2>1, <2>2, <2>9, <2>10, <2>11 DEF Reads, At
  <2>13. Plain(j)
    <3>1. Plain(j - 1)
      BY <1>4 DEF G
    <3> DEFINE x == f[j - 1]
               y == f[j]
    <3>2. /\ x \in Seq(S) /\ y = x \o two /\ Len(x) \in Nat
          /\ \A i \in 1 .. Len(x) : x[i].kind # "count"
      BY <2>1, <2>7, <3>1 DEF Plain
    <3> HIDE DEF x, y, two
    <3>3. /\ Len(y) = Len(x) + 2
          /\ \A i \in 1 .. Len(x) + 2 : y[i] = IF i <= Len(x) THEN x[i] ELSE two[i - Len(x)]
      <4>1. x \in Seq(S) /\ two \in Seq(S)
        BY <2>8, <3>2
      <4>2. /\ Len(x \o two) = Len(x) + Len(two)
            /\ \A i \in 1 .. Len(x) + Len(two) :
                  (x \o two)[i] = IF i <= Len(x) THEN x[i] ELSE two[i - Len(x)]
        BY <4>1, ConcatProperties
      <4> QED
        BY <2>8, <3>2, <4>2
    <3>4. ASSUME NEW i \in 1 .. Len(y)
          PROVE  y[i].kind # "count"
      <4>1. CASE i <= Len(x)
        <5>1. i \in 1 .. Len(x) /\ y[i] = x[i]
          BY <3>2, <3>3, <4>1
        <5> QED
          BY <3>2, <5>1
      <4>2. CASE ~ i <= Len(x)
        <5>1. i - Len(x) \in {1, 2} /\ y[i] = two[i - Len(x)]
          BY <3>2, <3>3, <4>2
        <5> QED
          BY <2>2, <2>8, <5>1 DEF Text
      <4> QED
        BY <4>1, <4>2
    <3> QED
      BY <3>4 DEF Plain, y
  <2> QED
    BY <2>1, <2>12, <2>13 DEF G
<1>5. G \in SUBSET (0 .. n)
  OBVIOUS
<1>6. k \in G
  <2> HIDE DEF G
  <2>1. k \in 0 .. n
    OBVIOUS
  <2> HIDE DEF n
  <2>2. \A j \in 0 .. n : j \in G
    BY <1>1, <1>3, <1>4, <1>5, Upwards
  <2> QED
    BY <2>1, <2>2
<1> QED
  BY <1>6

LEMMA ReportAnnounces ==
    ASSUME NEW S, Countable(S), NEW T, HoldsReports(S, T), NEW report \in Seq(T), report # <<>>,
           NEW flat \in Seq(S), \A i \in 1 .. Len(flat) : flat[i].kind # "count"
    PROVE  LET text == <<Text, CountLine(Len(report))>> \o flat \o <<Text>> IN
           /\ text \in Seq(S) /\ Announced(text) = Up(Len(report)) /\ Reported(text)
<1> DEFINE n == Len(report)
           t == <<Text>>
           c == <<CountLine(n)>>
           x == <<Text, CountLine(n)>>
<1>1. n \in Nat /\ Text \in S /\ CountLine(n) \in S
  BY DEF HoldsReports
<1>2. /\ t \in Seq(S) /\ c \in Seq(S) /\ x \in Seq(S) /\ x = t \o c
      /\ Len(t) = 1 /\ t[1] = Text /\ Len(x) = 2 /\ x[2] = CountLine(n)
  BY <1>1
<1>3. Announced(c) = Up(n)
  BY <1>1, AnnouncedByCount DEF Up
<1>4. Announced(t) = <<>>
  <2>1. \A i \in 1 .. Len(t) : t[i].kind # "count"
    BY <1>2 DEF Text
  <2> HIDE DEF t
  <2> QED
    BY <1>2, <2>1, AnnouncedByNone
<1>5. Announced(flat) = <<>>
  BY AnnouncedByNone
<1>6. Up(n) \in Seq(Nat)
  BY <1>1, <1>2, <1>3, LineNumbersTyped
<1>7. Reported(x)
  <2>1. 2 \in DOMAIN x /\ x[2].kind = "count"
    BY <1>2 DEF CountLine
  <2> QED
    BY <2>1 DEF Reported
<1> HIDE DEF t, c, x, n
<1>8. Announced(x) = Up(n)
  <2>1. Announced(t \o c) = Announced(t) \o Announced(c)
    BY <1>2, AnnouncedByBoth
  <2>2. <<>> \o Up(n) = Up(n)
    BY <1>6, ConcatEmptySeq
  <2> QED
    BY <1>2, <1>3, <1>4, <2>1, <2>2
<1>9. x \o flat \in Seq(S) /\ (x \o flat) \o t \in Seq(S)
  BY <1>2, ConcatProperties
<1>10. Up(n) \o <<>> = Up(n)
  BY <1>6, ConcatEmptySeq
<1>11. Announced(x \o flat) = Up(n)
  <2>1. Announced(x \o flat) = Announced(x) \o Announced(flat)
    BY <1>2, AnnouncedByBoth
  <2> QED
    BY <1>5, <1>8, <1>10, <2>1
<1>12. Announced((x \o flat) \o t) = Up(n)
  <2>1. Announced((x \o flat) \o t) = Announced(x \o flat) \o Announced(t)
    BY <1>2, <1>9, AnnouncedByBoth
  <2> QED
    BY <1>4, <1>10, <1>11, <2>1
<1>13. Reported((x \o flat) \o t)
  <2>1. Reported(x \o flat)
    BY <1>2, <1>7, ReportedByBoth
  <2> QED
    BY <1>2, <1>9, <2>1, ReportedByBoth
<1> QED
  BY <1>9, <1>12, <1>13 DEF x, t, n

(* The report of a class is read when the last report with failures had    *)
(* not just one.                                                           *)
LEMMA ReportRead ==
    ASSUME NEW S, Countable(S), NEW T, HoldsReports(S, T), NEW a \in Seq(S),
           NEW report, report # Killed, report \in Seq(T),
           NEW found, NEW last, Read(S, a, found, last), report # <<>> => last # 1
    PROVE  /\ JUnitReport(report) \in Seq(S) /\ Reported(JUnitReport(report))
           /\ Read(S, a \o JUnitReport(report), found \o Fails(report, Len(report)),
                   IF report = <<>> THEN last ELSE Len(report))
<1>1. Text \in S /\ OkLine \in S /\ found \in Seq(S)
  BY DEF HoldsReports, Read
<1>2. CASE report = <<>>
  <2> DEFINE b == <<Text, OkLine>>
  <2>1. JUnitReport(report) = b
    BY <1>2 DEF JUnitReport
  <2>2. b \in Seq(S) /\ Len(b) = 2 /\ b[1] = Text /\ b[2] = OkLine
    BY <1>1
  <2>3. \A i \in 1 .. Len(b) : b[i].kind \notin {"count", "failure"}
    BY <2>2 DEF Text, OkLine
  <2>4. Reported(b)
    <3>1. 2 \in DOMAIN b /\ b[2].kind = "ok"
      BY <2>2 DEF OkLine
    <3> QED
      BY <3>1 DEF Reported
  <2> HIDE DEF b
  <2>5. Read(S, a \o b, found, last)
    BY <2>2, <2>3, ReadGoesOn
  <2>6. found \o Fails(report, Len(report)) = found
    <3>1. Len(report) = 0
      BY <1>2
    <3>2. Fails(report, Len(report)) = <<>>
      BY <3>1, NoFails
    <3> QED
      BY <1>1, <3>2, ConcatEmptySeq
  <2> QED
    BY <1>2, <2>1, <2>2, <2>4, <2>5, <2>6
<1>3. CASE report # <<>>
  <2> DEFINE n == Len(report)
             x == <<Text, CountLine(n)>>
             t == <<Text>>
             g == found \o Fails(report, n)
  <2>1. n \in Nat /\ n # 0 /\ n \in 0 .. Len(report)
    BY <1>3
  <2>2. x \in Seq(S) /\ Len(x) = 2 /\ x[1] = Text /\ x[2] = CountLine(n)
        /\ t \in Seq(S) /\ Len(t) = 1 /\ t[1] = Text
    <3>1. CountLine(n) \in S
      BY <2>1 DEF HoldsReports
    <3> QED
      BY <1>1, <3>1
  <2>3. \A i \in 1 .. Len(x) : x[i].kind # "failure"
    BY <2>2 DEF Text, CountLine
  <2>4. \A i \in 1 .. Len(t) : t[i].kind # "failure"
    BY <2>2 DEF Text
  <2>5. Pairs(report) \in Seq(Seq(S)) /\ Len(Pairs(report)) = n
    BY PairsTyped
  <2>6. PICK f : Flattens(S, Pairs(report), f) /\ FlattenSeq(Pairs(report)) = f[n]
    <3> HIDE DEF n
    <3> QED
      BY <2>5, FlattenFolds
  <2>7. f[n] \in Seq(S)
    <3> HIDE DEF n
    <3> QED
      BY <2>1, <2>5, <2>6 DEF Flattens
  <2>8. JUnitReport(report) = (x \o f[n]) \o t
    BY <1>3, <2>6 DEF JUnitReport, Pairs
  <2>9. PICK p : Path(a, found, last, p)
    BY DEF Read
  <2> HIDE DEF x, t
  <2>10. a \o x \in Seq(S) /\ \E q : Path(a \o x, found, last, q)
    <3>1. Path(a \o x, found, last, p)
      BY <1>1, <2>2, <2>3, <2>9, PathGoesOn
    <3> QED
      BY <2>2, <3>1, ConcatProperties
  <2>11. /\ \E q : Path((a \o x) \o f[n], g, n, q)
         /\ \A i \in 1 .. Len(f[n]) : f[n][i].kind # "count"
    <3> DEFINE base == a \o x
    <3>1. base \in Seq(S) /\ \E q : Path(base, found, last, q)
      BY <2>10
    <3> HIDE DEF base, n
    <3>2. /\ \E q : Path(base \o f[n], found \o Fails(report, n), IF n = 0 THEN last ELSE n, q)
          /\ \A i \in 1 .. Len(f[n]) : f[n][i].kind # "count"
      BY <1>1, <2>1, <2>6, <3>1, FailuresRead
    <3> QED
      BY <2>1, <3>2 DEF base
  <2>12. g \in Seq(S) /\ Fails(report, n) \in Seq(S)
    <3>1. Fails(report, n) \in Seq(S)
      BY <2>1, FailsTyped
    <3> HIDE DEF n
    <3> QED
      BY <1>1, <3>1, ConcatProperties
  <2> DEFINE flat == f[n]
             whole == (x \o flat) \o t
  <2>13. /\ flat \in Seq(S) /\ \A i \in 1 .. Len(flat) : flat[i].kind # "count"
         /\ \E q : Path((a \o x) \o flat, g, n, q)
    BY <2>7, <2>11
  <2>14. JUnitReport(report) = whole
    BY <2>8
  <2> HIDE DEF flat
  <2>15. whole \in Seq(S) /\ Announced(whole) = Up(n) /\ Reported(whole)
    BY <1>3, <2>13, ReportAnnounces DEF x, t
  <2>16. /\ a \o whole = ((a \o x) \o flat) \o t
         /\ (a \o x) \o flat \in Seq(S)
    <3>1. x \in Seq(S) /\ flat \in Seq(S) /\ t \in Seq(S)
      BY <2>2, <2>13
    <3>2. a \o ((x \o flat) \o t) = ((a \o x) \o flat) \o t
      <4> DEFINE b == x \o flat
      <4>1. b \in Seq(S)
        BY <3>1, ConcatProperties
      <4>2. Associates(S, a)
        BY ConcatAssociates
      <4>3. a \o b = (a \o x) \o flat
        BY <3>1, <4>2 DEF Associates
      <4> HIDE DEF b, whole
      <4>4. a \o (b \o t) = (a \o b) \o t
        BY <3>1, <4>1, <4>2 DEF Associates
      <4> QED
        BY <4>3, <4>4 DEF b
    <3>3. (a \o x) \o flat \in Seq(S)
      BY <2>10, <3>1, ConcatProperties
    <3> QED
      BY <3>2, <3>3
  <2> HIDE DEF g, n
  <2>17. \E q : Path(a \o whole, g, n, q)
    <3> DEFINE b == (a \o x) \o flat
    <3>1. b \in Seq(S) /\ \E q : Path(b, g, n, q)
      BY <2>13, <2>16
    <3> HIDE DEF b
    <3>2. PICK q : Path(b, g, n, q)
      BY <3>1
    <3>3. Path(b \o t, g, n, q)
      BY <2>2, <2>4, <2>12, <3>1, <3>2, PathGoesOn
    <3> QED
      BY <2>16, <3>3 DEF b
  <2>18. Announced(a \o whole) = Numbers(g)
    <3> DEFINE fails == Fails(report, n)
    <3>1. Numbers(fails) = Up(n)
      BY NumbersOfFails DEF n
    <3>2. Announced(a \o whole) = Announced(a) \o Announced(whole)
      BY <2>15, AnnouncedByBoth
    <3>3. Announced(a) = Numbers(found)
      BY DEF Read
    <3>4. fails \in Seq(S)
      BY <2>12
    <3>5. g = found \o fails
      BY DEF g
    <3> HIDE DEF fails, whole
    <3>6. Numbers(found \o fails) = Numbers(found) \o Numbers(fails)
      BY <1>1, <3>4, NumbersOfBoth
    <3> QED
      BY <2>15, <3>1, <3>2, <3>3, <3>5, <3>6
  <2>19. \A k \in 1 .. Len(g) : g[k].kind = "failure"
    <3> DEFINE fails == Fails(report, n)
    <3>1. fails \in Seq(S) /\ Len(fails) = n
      BY <2>1, FailsTyped
    <3>2. \A k \in 1 .. n : fails[k].kind = "failure"
      <4>1. \A k \in 1 .. n : fails[k] = FailureLine(k, report[k])
        BY <2>1, FailsTyped
      <4>2. ASSUME NEW k \in 1 .. n
            PROVE  FailureLine(k, report[k]).kind = "failure"
        BY DEF FailureLine
      <4> HIDE DEF fails
      <4> QED
        BY <4>1, <4>2
    <3>3. g = found \o fails
      BY DEF g
    <3> HIDE DEF fails
    <3>4. /\ Len(g) = Len(found) + n
          /\ \A k \in 1 .. Len(found) + Len(fails) :
                g[k] = IF k <= Len(found) THEN found[k] ELSE fails[k - Len(found)]
      BY <1>1, <3>1, <3>3, ConcatProperties
    <3>5. ASSUME NEW k \in 1 .. Len(g)
          PROVE  g[k].kind = "failure"
      <4>1. Len(found) \in Nat /\ k \in 1 .. Len(found) + Len(fails)
        BY <1>1, <3>1, <3>4
      <4>2. CASE k <= Len(found)
        <5>1. k \in 1 .. Len(found) /\ g[k] = found[k]
          BY <3>4, <4>1, <4>2
        <5> QED
          BY <5>1 DEF Read
      <4>3. CASE ~ k <= Len(found)
        <5>1. k - Len(found) \in 1 .. n /\ g[k] = fails[k - Len(found)]
          BY <2>1, <3>1, <3>4, <4>1, <4>3
        <5> QED
          BY <3>2, <5>1
      <4> QED
        BY <4>2, <4>3
    <3> QED
      BY <3>5
  <2>20. Read(S, a \o whole, g, n)
    BY <2>12, <2>17, <2>18, <2>19 DEF Read
  <2> HIDE DEF whole
  <2> QED
    BY <1>3, <2>14, <2>15, <2>20 DEF g, n
<1> QED
  BY <1>2, <1>3

(* A class that ran out of time prints no report.                          *)
LEMMA KilledRead ==
    ASSUME NEW S, Countable(S), Text \in S, NEW a \in Seq(S),
           NEW found, NEW last, Read(S, a, found, last)
    PROVE  /\ JUnitReport(Killed) \in Seq(S) /\ ~ Reported(JUnitReport(Killed))
           /\ Read(S, a \o JUnitReport(Killed), found, last)
<1> DEFINE b == <<Text>>
<1>1. b \in Seq(S) /\ Len(b) = 1 /\ DOMAIN b = {1} /\ b[1] = Text
  OBVIOUS
<1>2. JUnitReport(Killed) = b
  BY DEF JUnitReport
<1>3. \A i \in 1 .. Len(b) : b[i].kind \notin {"count", "failure"}
  BY <1>1 DEF Text
<1>4. ~ Reported(b)
  BY <1>1 DEF Reported, Text
<1> HIDE DEF b
<1>5. Read(S, a \o b, found, last)
  BY <1>1, <1>3, ReadGoesOn
<1> QED
  BY <1>1, <1>2, <1>4, <1>5

(* Failures of another class are failures of other tests.                  *)
LEMMA FailsAdded ==
    ASSUME NEW S, NEW T, HoldsReports(S, T), NEW report \in Seq(T), IsInjective(report),
           NEW found \in Seq(S), NEW tests, FailedOnce(tests, found),
           \A k \in DOMAIN tests : tests[k].testname \in ToSet(report)
                                     => tests[k].testname \notin FailedUpTo(found, Len(found))
    PROVE  LET new == found \o Fails(report, Len(report)) IN
           /\ FailedOnce(tests, new)
           /\ FailedUpTo(new, Len(new)) = FailedUpTo(found, Len(found)) \cup ToSet(report)
<1> DEFINE m == Len(found)
           n == Len(report)
           fails == Fails(report, n)
           new == found \o fails
<1>1. m \in Nat /\ n \in Nat /\ DOMAIN report = 1 .. n
  OBVIOUS
<1>2. /\ fails \in Seq(S) /\ Len(fails) = n
      /\ \A k \in 1 .. n : fails[k] = FailureLine(k, report[k])
  <2>1. n \in 0 .. Len(report)
    BY <1>1
  <2> HIDE DEF n
  <2> QED
    BY <2>1, FailsTyped
<1>3. \A k \in 1 .. n : fails[k].test = report[k]
  <2>1. ASSUME NEW k \in 1 .. n
        PROVE  FailureLine(k, report[k]).test = report[k]
    BY DEF FailureLine
  <2> HIDE DEF fails, n
  <2> QED
    BY <1>2, <2>1
<1> HIDE DEF fails
<1>4. /\ Len(new) = m + n
      /\ \A i \in 1 .. m + n : new[i] = IF i <= m THEN found[i] ELSE fails[i - m]
  <2>1. found \in Seq(S) /\ fails \in Seq(S)
    BY <1>2
  <2>2. /\ Len(found \o fails) = Len(found) + Len(fails)
        /\ \A i \in 1 .. Len(found) + Len(fails) :
              (found \o fails)[i] = IF i <= Len(found) THEN found[i] ELSE fails[i - Len(found)]
    BY <2>1, ConcatProperties
  <2>3. Len(fails) = n
    BY <1>2
  <2> HIDE DEF n
  <2> QED
    BY <2>2, <2>3
<1> HIDE DEF new, m, n
<1>5. /\ \A i \in 1 .. m : i \in 1 .. m + n /\ new[i].test = found[i].test
      /\ \A i \in 1 .. n : i + m \in 1 .. m + n /\ new[i + m].test = report[i]
  <2>1. ASSUME NEW i \in 1 .. m
        PROVE  i \in 1 .. m + n /\ new[i].test = found[i].test
    BY <1>1, <1>4
  <2>2. ASSUME NEW i \in 1 .. n
        PROVE  i + m \in 1 .. m + n /\ new[i + m].test = report[i]
    <3>1. i + m \in 1 .. m + n /\ ~ i + m <= m /\ (i + m) - m = i
      BY <1>1
    <3> QED
      BY <1>3, <1>4, <3>1
  <2> QED
    BY <2>1, <2>2
<1>6. \A i \in 1 .. m + n : i \in 1 .. m \/ (i - m \in 1 .. n /\ (i - m) + m = i)
  BY <1>1
<1>7. \A i, j \in 1 .. n : report[i] = report[j] => i = j
  BY <1>1 DEF IsInjective
<1>8. ToSet(report) = {report[i] : i \in 1 .. n}
  BY <1>1 DEF ToSet
<1>9. FailedUpTo(new, m + n) = FailedUpTo(found, m) \cup ToSet(report)
  <2>1. ASSUME NEW i \in 1 .. m + n
        PROVE  new[i].test \in FailedUpTo(found, m) \cup ToSet(report)
    <3>1. CASE i \in 1 .. m
      BY <1>5, <3>1 DEF FailedUpTo
    <3>2. CASE i - m \in 1 .. n /\ (i - m) + m = i
      BY <1>5, <1>8, <3>2
    <3> QED
      BY <1>6, <3>1, <3>2
  <2>2. ASSUME NEW i \in 1 .. m
        PROVE  found[i].test \in FailedUpTo(new, m + n)
    BY <1>5 DEF FailedUpTo
  <2>3. ASSUME NEW i \in 1 .. n
        PROVE  report[i] \in FailedUpTo(new, m + n)
    <3>1. i + m \in 1 .. m + n /\ new[i + m].test = report[i]
      BY <1>5
    <3> QED
      BY <3>1 DEF FailedUpTo
  <2>4. FailedUpTo(new, m + n) \subseteq FailedUpTo(found, m) \cup ToSet(report)
    <3>1. \A x \in FailedUpTo(new, m + n) : \E i \in 1 .. m + n : x = new[i].test
      BY DEF FailedUpTo
    <3> QED
      BY <2>1, <3>1
  <2>5. FailedUpTo(found, m) \subseteq FailedUpTo(new, m + n)
    <3>1. \A x \in FailedUpTo(found, m) : \E i \in 1 .. m : x = found[i].test
      BY DEF FailedUpTo
    <3> QED
      BY <2>2, <3>1
  <2>6. ToSet(report) \subseteq FailedUpTo(new, m + n)
    BY <1>8, <2>3
  <2> QED
    BY <2>4, <2>5, <2>6
<1>10. \A k \in DOMAIN tests, i \in 1 .. m, j \in 1 .. n :
          tests[k].testname = found[i].test => found[i].test # report[j]
  <2> SUFFICES ASSUME NEW k \in DOMAIN tests, NEW i \in 1 .. m, NEW j \in 1 .. n,
                      tests[k].testname = found[i].test, found[i].test = report[j]
               PROVE  FALSE
    OBVIOUS
  <2>1. tests[k].testname \in ToSet(report)
    BY <1>8
  <2>2. tests[k].testname \in FailedUpTo(found, m)
    BY DEF FailedUpTo
  <2> QED
    BY <2>1, <2>2 DEF m
<1>11. ASSUME NEW i \in 1 .. m + n, NEW j \in 1 .. m + n, new[i].test = new[j].test,
              NEW k \in DOMAIN tests, tests[k].testname = new[i].test
       PROVE  i = j
  <2>1. CASE i \in 1 .. m /\ j \in 1 .. m
    BY <1>5, <1>11, <2>1 DEF FailedOnce, m
  <2>2. CASE i \notin 1 .. m /\ j \notin 1 .. m
    <3>1. i - m \in 1 .. n /\ j - m \in 1 .. n /\ (i - m) + m = i /\ (j - m) + m = j
      BY <1>6, <2>2
    <3>2. new[i].test = report[i - m] /\ new[j].test = report[j - m]
      BY <1>5, <3>1
    <3>3. i - m = j - m
      BY <1>7, <1>11, <3>1, <3>2
    <3> QED
      BY <3>1, <3>3
  <2>3. CASE i \in 1 .. m /\ j \notin 1 .. m
    <3>1. j - m \in 1 .. n /\ (j - m) + m = j
      BY <1>6, <2>3
    <3>2. new[i].test = found[i].test /\ new[j].test = report[j - m]
      BY <1>5, <2>3, <3>1
    <3> QED
      BY <1>10, <1>11, <2>3, <3>1, <3>2
  <2>4. CASE i \notin 1 .. m /\ j \in 1 .. m
    <3>1. i - m \in 1 .. n /\ (i - m) + m = i
      BY <1>6, <2>4
    <3>2. new[j].test = found[j].test /\ new[i].test = report[i - m]
      BY <1>5, <2>4, <3>1
    <3> QED
      BY <1>10, <1>11, <2>4, <3>1, <3>2
  <2> QED
    BY <2>1, <2>2, <2>3, <2>4
<1>12. FailedOnce(tests, new)
  BY <1>4, <1>11 DEF FailedOnce
<1> QED
  BY <1>4, <1>9, <1>12 DEF new, fails, m, n

(* The text before the first report.                                       *)
LEMMA NothingRead ==
    ASSUME NEW S, Countable(S), Text \in S, NEW last
    PROVE  /\ <<Text>> \in Seq(S) /\ Read(S, <<Text>>, <<>>, last)
           /\ ~ Reported(<<Text>>)
<1> DEFINE a == <<Text>>
           p == [k \in 0 .. 0 |-> 1]
<1>1. a \in Seq(S) /\ Len(a) = 1 /\ a[1] = Text /\ DOMAIN a = {1}
  OBVIOUS
<1>2. ~ Reported(a)
  BY <1>1 DEF Reported, Text
<1> HIDE DEF a
<1>3. <<>> \in Seq(S) /\ Len(<<>>) = 0
  OBVIOUS
<1>4. p \in [0 .. 0 -> 1 .. 1] /\ p[0] = 1
  OBVIOUS
<1> HIDE DEF p
<1>5. \A i \in 1 .. 1 : a[i].kind # "failure" /\ a[i].kind # "count"
  BY <1>1 DEF Text
<1>6. Path(a, <<>>, last, p)
  BY <1>1, <1>3, <1>4, <1>5 DEF Path
<1>7. Announced(a) = <<>>
  BY <1>1, <1>5, AnnouncedByNone
<1>8. Numbers(<<>>) = <<>>
  <2> DEFINE x == Numbers(<<>>)
  <2>1. x \in [1 .. 0 -> {}]
    BY <1>3 DEF Numbers
  <2> HIDE DEF x
  <2>2. x \in Seq({}) /\ Len(x) = 0
    BY <2>1, SeqDef
  <2>3. x = <<>>
    BY <2>2
  <2> QED
    BY <2>3 DEF x
<1>9. Read(S, a, <<>>, last)
  BY <1>3, <1>6, <1>7, <1>8 DEF Read
<1> QED
  BY <1>1, <1>2, <1>9 DEF a

-----------------------------------------------------------------------------
(* The search reads the reports of all classes.                            *)

(* A test of the rubric does not fail in two classes.                      *)
NamedInOneClass(tests) ==
    \A c, d \in Completed : \A k \in DOMAIN tests :
       /\ tests[k].testname \in ToSet(run.reports[c])
       /\ tests[k].testname \in ToSet(run.reports[d])
       => c = d

(* The reports of the first c classes.                                     *)
CompletedUpTo(c) == {d \in Completed : d <= c}

FailuresUpTo(c) == UNION {ToSet(run.reports[d]) : d \in CompletedUpTo(c)}

(* The failures of the last report that has some.                          *)
LastFailures(c) ==
    LET before == {d \in CompletedUpTo(c) : run.reports[d] # <<>>} IN
    IF before = {} THEN 0 ELSE Len(run.reports[Max(before)])

(* No lone failure is followed by others.                                  *)
LEMMA LastIsNotOne ==
    ASSUME DOMAIN run.reports \subseteq Nat, ~ LoneFailureFollowed,
           NEW c \in Completed, run.reports[c] # <<>>
    PROVE  LastFailures(c - 1) # 1
<1>1. Completed \subseteq Nat
  BY DEF Completed
<1>2. {d \in CompletedUpTo(c - 1) : run.reports[d] # <<>>} = FailuresBefore(c)
  <2>1. c \in Nat
    BY <1>1
  <2>2. \A d \in Completed : d <= c - 1 <=> d < c
    BY <1>1, <2>1
  <2>3. {d \in Completed : d <= c - 1 /\ run.reports[d] # <<>>}
          = {d \in Completed : d < c /\ run.reports[d] # <<>>}
    BY <2>2
  <2>4. {d \in CompletedUpTo(c - 1) : run.reports[d] # <<>>}
          = {d \in Completed : d <= c - 1 /\ run.reports[d] # <<>>}
    BY DEF CompletedUpTo
  <2> QED
    BY <2>3, <2>4 DEF FailuresBefore
<1>3. FailuresBefore(c) # {} => Len(run.reports[Max(FailuresBefore(c))]) # 1
  BY DEF LoneFailureFollowed
<1> DEFINE before == FailuresBefore(c)
<1>4. LastFailures(c - 1) = IF before = {} THEN 0 ELSE Len(run.reports[Max(before)])
  BY <1>2 DEF LastFailures
<1> HIDE DEF before
<1>5. before # {} => Len(run.reports[Max(before)]) # 1
  BY <1>3 DEF before
<1>6. CASE before = {}
  BY <1>4, <1>6
<1>7. CASE before # {}
  BY <1>4, <1>5, <1>7
<1> QED
  BY <1>6, <1>7

LEMMA UpToNext ==
    ASSUME DOMAIN run.reports \subseteq Nat, NEW c \in Nat \ {0}
    PROVE  /\ c \notin Completed => /\ CompletedUpTo(c) = CompletedUpTo(c - 1)
                                    /\ FailuresUpTo(c) = FailuresUpTo(c - 1)
                                    /\ LastFailures(c) = LastFailures(c - 1)
           /\ c \in Completed =>
                /\ CompletedUpTo(c) = CompletedUpTo(c - 1) \cup {c}
                /\ FailuresUpTo(c) = FailuresUpTo(c - 1) \cup ToSet(run.reports[c])
                /\ LastFailures(c) = IF run.reports[c] = <<>> THEN LastFailures(c - 1)
                                     ELSE Len(run.reports[c])
<1>1. Completed \subseteq Nat
  BY DEF Completed
<1>2. CASE c \notin Completed
  <2>1. CompletedUpTo(c) = CompletedUpTo(c - 1)
    <3>1. \A d \in Completed : d <= c <=> d <= c - 1
      <4> SUFFICES ASSUME NEW d \in Completed PROVE d <= c <=> d <= c - 1
        OBVIOUS
      <4>1. d \in Nat /\ d # c
        BY <1>1, <1>2
      <4> QED
        BY <4>1
    <3> QED
      BY <3>1 DEF CompletedUpTo
  <2> QED
    BY <1>2, <2>1 DEF FailuresUpTo, LastFailures
<1>3. CASE c \in Completed
  <2>1. CompletedUpTo(c) = CompletedUpTo(c - 1) \cup {c}
    <3>1. \A d \in Completed : d <= c <=> d <= c - 1 \/ d = c
      <4> SUFFICES ASSUME NEW d \in Completed PROVE d <= c <=> d <= c - 1 \/ d = c
        OBVIOUS
      <4>1. d \in Nat
        BY <1>1
      <4> QED
        BY <4>1
    <3> QED
      BY <1>3, <3>1 DEF CompletedUpTo
  <2>2. FailuresUpTo(c) = FailuresUpTo(c - 1) \cup ToSet(run.reports[c])
    BY <2>1 DEF FailuresUpTo
  <2> DEFINE old == {d \in CompletedUpTo(c - 1) : run.reports[d] # <<>>}
             new == {d \in CompletedUpTo(c) : run.reports[d] # <<>>}
  <2>3. CASE run.reports[c] = <<>>
    <3>1. new = old
      BY <2>1, <2>3
    <3> QED
      BY <1>3, <2>1, <2>2, <2>3, <3>1 DEF LastFailures
  <2>4. CASE run.reports[c] # <<>>
    <3>1. new = old \cup {c}
      BY <2>1, <2>4
    <3>2. \A d \in old : d \in Nat /\ d < c
      BY <1>1 DEF CompletedUpTo
    <3> HIDE DEF old
    <3>3. c \in new /\ \A d \in new : c >= d /\ (d >= c => d = c)
      BY <3>1, <3>2
    <3> HIDE DEF new
    <3>4. Max(new) = c
      BY <3>3 DEF Max
    <3>5. LastFailures(c) = Len(run.reports[c])
      BY <3>3, <3>4 DEF LastFailures, new
    <3> QED
      BY <1>3, <2>1, <2>2, <2>4, <3>5
  <2> QED
    BY <2>3, <2>4
<1> QED
  BY <1>2, <1>3

(* The inductive invariant over the classes: the text of the first c has   *)
(* been read, and what was found in it are their failures.                 *)
ReadUpTo(tests, c, lines) ==
    LET S == LinesOf(run) IN
    /\ lines \in Seq(S) /\ (Reported(lines) <=> CompletedUpTo(c) # {})
    /\ \E found : /\ Read(S, lines, found, LastFailures(c)) /\ FailedOnce(tests, found)
                  /\ FailedUpTo(found, Len(found)) = FailuresUpTo(c)

LEMMA NoClassRead ==
    ASSUME NEW tests, run \in Submissions, HasReports
    PROVE  ReadUpTo(tests, 0, <<Text>>)
<1> DEFINE S == LinesOf(run)
<1>1. /\ Countable(S) /\ Text \in S /\ DOMAIN run.reports = 1 .. Len(run.reports)
      /\ Len(run.reports) \in Nat
  BY LinesTyped DEF HasReports
<1>2. CompletedUpTo(0) = {}
  <2>1. \A d \in Completed : d \in 1 .. Len(run.reports)
    BY <1>1 DEF Completed
  <2>2. \A d \in Completed : ~ d <= 0
    BY <1>1, <2>1
  <2> QED
    BY <2>2 DEF CompletedUpTo
<1>3. FailuresUpTo(0) = {}
  BY <1>2 DEF FailuresUpTo
<1> HIDE DEF S
<1>4. /\ <<Text>> \in Seq(S) /\ Read(S, <<Text>>, <<>>, LastFailures(0))
      /\ ~ Reported(<<Text>>)
  BY <1>1, NothingRead
<1>5. Len(<<>>) = 0
  OBVIOUS
<1>6. FailedOnce(tests, <<>>) /\ FailedUpTo(<<>>, 0) = {}
  BY <1>5 DEF FailedOnce, FailedUpTo
<1> QED
  BY <1>2, <1>3, <1>4, <1>5, <1>6 DEF ReadUpTo, S

LEMMA NextClassRead ==
    ASSUME NEW tests, run \in Submissions, HasReports, FailsOnce, ~ LoneFailureFollowed,
           NamedInOneClass(tests), NEW c \in 1 .. Len(run.reports), NEW lines,
           ReadUpTo(tests, c - 1, lines)
    PROVE  ReadUpTo(tests, c, lines \o JUnitReport(run.reports[c]))
<1> DEFINE S == LinesOf(run)
           T == FailedTests(run)
           report == run.reports[c]
           text == JUnitReport(report)
           last == LastFailures(c - 1)
<1>1. /\ Countable(S) /\ HoldsReports(S, T) /\ Text \in S
      /\ Len(run.reports) \in Nat /\ DOMAIN run.reports = 1 .. Len(run.reports)
      /\ report # Killed => report \in Seq(T)
  BY LinesTyped DEF HasReports
<1>2. /\ c \in Nat \ {0} /\ c \in DOMAIN run.reports /\ DOMAIN run.reports \subseteq Nat
      /\ (c \in Completed <=> report # Killed)
  BY <1>1 DEF Completed
<1>3. PICK found : /\ Read(S, lines, found, last) /\ FailedOnce(tests, found)
                   /\ FailedUpTo(found, Len(found)) = FailuresUpTo(c - 1)
  BY DEF ReadUpTo
<1>4. lines \in Seq(S) /\ (Reported(lines) <=> CompletedUpTo(c - 1) # {})
  BY DEF ReadUpTo
<1> HIDE DEF S, T, text
<1>5. text \in Seq(S) => /\ lines \o text \in Seq(S)
                         /\ Reported(lines \o text) <=> Reported(lines) \/ Reported(text)
  BY <1>4, ReportedByBoth, ConcatProperties
<1>6. CASE report = Killed
  <2>1. /\ CompletedUpTo(c) = CompletedUpTo(c - 1) /\ FailuresUpTo(c) = FailuresUpTo(c - 1)
        /\ LastFailures(c) = LastFailures(c - 1)
    BY <1>2, <1>6, UpToNext
  <2>2. /\ JUnitReport(Killed) \in Seq(S) /\ ~ Reported(JUnitReport(Killed))
        /\ Read(S, lines \o JUnitReport(Killed), found, last)
    BY <1>1, <1>3, <1>4, KilledRead
  <2>3. text = JUnitReport(Killed)
    BY <1>6 DEF text
  <2>4. /\ text \in Seq(S) /\ ~ Reported(text) /\ Read(S, lines \o text, found, last)
    BY <2>2, <2>3
  <2>5. ReadUpTo(tests, c, lines \o text)
    BY <1>3, <1>4, <1>5, <2>1, <2>4 DEF ReadUpTo, S
  <2> QED
    BY <2>5 DEF text
<1>7. CASE report # Killed
  <2> DEFINE new == found \o Fails(report, Len(report))
  <2>1. /\ CompletedUpTo(c) = CompletedUpTo(c - 1) \cup {c}
        /\ FailuresUpTo(c) = FailuresUpTo(c - 1) \cup ToSet(report)
        /\ LastFailures(c) = IF report = <<>> THEN last ELSE Len(report)
    BY <1>2, <1>7, UpToNext
  <2>2. report \in Seq(T) /\ IsInjective(report) /\ c \in Completed
    BY <1>1, <1>2, <1>7 DEF FailsOnce
  <2>3. report # <<>> => last # 1
    BY <1>2, <2>2, LastIsNotOne
  <2>4. found \in Seq(S)
    BY <1>3 DEF Read
  <2>5. \A k \in DOMAIN tests : tests[k].testname \in ToSet(report)
                                  => tests[k].testname \notin FailedUpTo(found, Len(found))
    <3> SUFFICES ASSUME NEW k \in DOMAIN tests, tests[k].testname \in ToSet(report),
                        tests[k].testname \in FailuresUpTo(c - 1)
                 PROVE  FALSE
      BY <1>3
    <3>1. PICK d \in CompletedUpTo(c - 1) : tests[k].testname \in ToSet(run.reports[d])
      BY DEF FailuresUpTo
    <3>2. d \in Completed /\ d <= c - 1
      BY <3>1 DEF CompletedUpTo
    <3>3. c = d
      BY <2>2, <3>1, <3>2 DEF NamedInOneClass
    <3> QED
      BY <1>2, <3>2, <3>3
  <2> HIDE DEF report, last
  <2>6. /\ FailedOnce(tests, new)
        /\ FailedUpTo(new, Len(new)) = FailedUpTo(found, Len(found)) \cup ToSet(report)
    BY <1>1, <1>3, <2>2, <2>4, <2>5, FailsAdded
  <2>7. /\ text \in Seq(S) /\ Reported(text)
        /\ Read(S, lines \o text, new, IF report = <<>> THEN last ELSE Len(report))
    BY <1>1, <1>3, <1>4, <1>7, <2>2, <2>3, ReportRead DEF text
  <2> HIDE DEF new
  <2>8. CompletedUpTo(c) # {}
    BY <2>1
  <2>9. /\ Read(S, lines \o text, new, LastFailures(c)) /\ FailedOnce(tests, new)
        /\ FailedUpTo(new, Len(new)) = FailuresUpTo(c)
    BY <1>3, <2>1, <2>6, <2>7
  <2>10. ReadUpTo(tests, c, lines \o text)
    BY <1>5, <2>7, <2>8, <2>9 DEF ReadUpTo, S
  <2> QED
    BY <2>10 DEF text, report
<1> QED
  BY <1>6, <1>7

LEMMA ClassesRead ==
    ASSUME NEW tests, run \in Submissions, HasReports, FailsOnce, ~ LoneFailureFollowed,
           NamedInOneClass(tests)
    PROVE  ReadUpTo(tests, Len(run.reports), <<Text>> \o FlattenSeq(Bodies(run)))
<1> DEFINE S == LinesOf(run)
           n == Len(run.reports)
           all == Bodies(run)
           t == <<Text>>
<1>1. /\ all \in Seq(Seq(S)) /\ Len(all) = n /\ n \in Nat /\ Text \in S
      /\ \A c \in 1 .. n : all[c] = JUnitReport(run.reports[c])
  BY LinesTyped DEF HasReports
<1>2. ReadUpTo(tests, 0, t)
  BY NoClassRead
<1>3. \A c \in 1 .. n : \A lines :
         ReadUpTo(tests, c - 1, lines) => ReadUpTo(tests, c, lines \o all[c])
  BY <1>1, NextClassRead
<1>4. t \in Seq(S)
  BY <1>1
<1> HIDE DEF S, n, all, t
<1>5. PICK f : Flattens(S, all, f) /\ FlattenSeq(all) = f[Len(all)]
  BY <1>1, FlattenFolds
<1>6. /\ \A k \in 0 .. n : f[k] \in Seq(S)
      /\ f[0] = <<>> /\ \A k \in 1 .. n : f[k] = f[k - 1] \o all[k]
      /\ \A k \in 1 .. n : all[k] \in Seq(S)
  <2>1. \A k \in 1 .. n : all[k] \in Seq(S)
    BY <1>1
  <2>2. f \in [0 .. n -> Seq(S)] /\ f[0] = <<>> /\ \A k \in 1 .. n : f[k] = f[k - 1] \o all[k]
    BY <1>1, <1>5 DEF Flattens
  <2> QED
    BY <2>1, <2>2
<1>7. Associates(S, t)
  BY <1>4, ConcatAssociates
<1> DEFINE Holds_(k) == ReadUpTo(tests, k, t \o f[k])
           R == {k \in 0 .. n : Holds_(k)}
<1>8. Holds_(0)
  <2>1. t \o f[0] = t
    BY <1>4, <1>6, ConcatEmptySeq
  <2> QED
    BY <1>2, <2>1
<1>9. ASSUME NEW k \in 1 .. n, Holds_(k - 1)
      PROVE  Holds_(k)
  <2>1. f[k - 1] \in Seq(S) /\ all[k] \in Seq(S) /\ f[k] = f[k - 1] \o all[k]
    <3>1. k - 1 \in 0 .. n
      BY <1>1, <1>9
    <3> QED
      BY <1>6, <1>9, <3>1
  <2>2. t \o (f[k - 1] \o all[k]) = (t \o f[k - 1]) \o all[k]
    BY <1>7, <2>1 DEF Associates
  <2>3. t \o f[k] = (t \o f[k - 1]) \o all[k]
    BY <2>1, <2>2
  <2>4. ReadUpTo(tests, k, (t \o f[k - 1]) \o all[k])
    BY <1>3, <1>9
  <2> QED
    BY <2>3, <2>4
<1> HIDE DEF Holds_
<1>10. /\ R \in SUBSET (0 .. n) /\ 0 \in R
       /\ \A k \in 1 .. n : k - 1 \in R => k \in R
  BY <1>1, <1>8, <1>9
<1> HIDE DEF R
<1>11. \A k \in 0 .. n : k \in R
  BY <1>1, <1>10, Upwards
<1>12. n \in R
  BY <1>1, <1>11
<1>13. Holds_(n)
  BY <1>12 DEF R
<1> QED
  BY <1>1, <1>5, <1>13 DEF Holds_, n, all, t

(* Only what follows the last header is looked at, which is what was       *)
(* printed to stderr and one blank line.                                   *)
LEMMA StderrEmpty ==
    ASSUME NEW S, NEW a \in Seq(S), NEW err \in Seq(S), Blank \in S, StderrHeader \in S,
           StderrHeader \notin ToSet(err)
    PROVE  NonEmptyStderr(a \o <<Blank, StderrHeader>> \o err \o <<Blank>>)
             <=> ~ ToSet(err) \subseteq {Blank}
<1> DEFINE m == Len(a)
           e == Len(err)
           head == <<Blank, StderrHeader>>
           end == <<Blank>>
           x == a \o head
           y == x \o err
           z == y \o end
           hits == {i \in DOMAIN z : z[i] = StderrHeader}
<1>1. /\ m \in Nat /\ e \in Nat /\ ToSet(err) = {err[i] : i \in 1 .. e}
      /\ head \in Seq(S) /\ Len(head) = 2 /\ head[2] = StderrHeader
      /\ end \in Seq(S) /\ Len(end) = 1 /\ end[1] = Blank /\ Blank # StderrHeader
  BY DEF ToSet, Blank, StderrHeader
<1> HIDE DEF head, end
<1>2. x \in Seq(S) /\ Len(x) = m + 2 /\ x[m + 2] = StderrHeader
  <2>1. x \in Seq(S) /\ Len(x) = Len(a) + Len(head)
    BY <1>1, ConcatProperties
  <2>2. \A i \in 1 .. Len(a) + Len(head) :
           x[i] = IF i <= Len(a) THEN a[i] ELSE head[i - Len(a)]
    BY <1>1, ConcatProperties
  <2>3. /\ m + 2 \in 1 .. Len(a) + Len(head) /\ ~ m + 2 <= Len(a) /\ (m + 2) - Len(a) = 2
    BY <1>1
  <2> HIDE DEF x
  <2> QED
    BY <1>1, <2>1, <2>2, <2>3
<1> HIDE DEF x, m
<1>3. /\ y \in Seq(S) /\ Len(y) = m + 2 + e
      /\ y[m + 2] = StderrHeader
      /\ \A i \in 1 .. e : y[i + m + 2] = err[i]
  <2>1. y \in Seq(S) /\ Len(y) = Len(x) + Len(err)
    BY <1>2, ConcatProperties
  <2>2. \A i \in 1 .. Len(x) + Len(err) :
           y[i] = IF i <= Len(x) THEN x[i] ELSE err[i - Len(x)]
    BY <1>2, ConcatProperties
  <2> HIDE DEF y
  <2>3. y[m + 2] = StderrHeader
    <3>1. m + 2 \in 1 .. Len(x) + Len(err) /\ m + 2 <= Len(x)
      BY <1>1, <1>2
    <3> QED
      BY <1>2, <2>2, <3>1
  <2>4. ASSUME NEW i \in 1 .. e
        PROVE  y[i + m + 2] = err[i]
    <3>1. /\ i + m + 2 \in 1 .. Len(x) + Len(err) /\ ~ i + m + 2 <= Len(x)
          /\ (i + m + 2) - Len(x) = i
      BY <1>1, <1>2
    <3> QED
      BY <2>2, <3>1
  <2> QED
    BY <1>1, <1>2, <2>1, <2>3, <2>4
<1> HIDE DEF y
<1>4. /\ z \in Seq(S) /\ Len(z) = m + 3 + e /\ z[m + 2] = StderrHeader
      /\ \A i \in 1 .. e : z[i + m + 2] = err[i]
      /\ z[m + 3 + e] = Blank
  <2>1. z \in Seq(S) /\ Len(z) = Len(y) + Len(end)
    <3>1. y \in Seq(S) /\ end \in Seq(S)
      BY <1>1, <1>3
    <3> QED
      BY <3>1, ConcatProperties
  <2>2. \A i \in 1 .. Len(y) + Len(end) :
           z[i] = IF i <= Len(y) THEN y[i] ELSE end[i - Len(y)]
    <3>1. y \in Seq(S) /\ end \in Seq(S)
      BY <1>1, <1>3
    <3> QED
      BY <3>1, ConcatProperties
  <2> HIDE DEF z
  <2>3. z[m + 2] = StderrHeader
    <3>1. m + 2 \in 1 .. Len(y) + Len(end) /\ m + 2 <= Len(y)
      BY <1>1, <1>3
    <3> QED
      BY <1>3, <2>2, <3>1
  <2>4. ASSUME NEW i \in 1 .. e
        PROVE  z[i + m + 2] = err[i]
    <3>1. i + m + 2 \in 1 .. Len(y) + Len(end) /\ i + m + 2 <= Len(y)
      BY <1>1, <1>3
    <3> QED
      BY <1>3, <2>2, <3>1
  <2>5. z[m + 3 + e] = Blank
    <3>1. /\ m + 3 + e \in 1 .. Len(y) + Len(end) /\ ~ m + 3 + e <= Len(y)
          /\ (m + 3 + e) - Len(y) = 1
      BY <1>1, <1>3
    <3> QED
      BY <1>1, <2>2, <3>1
  <2> QED
    BY <1>1, <1>3, <2>1, <2>3, <2>4, <2>5
<1> HIDE DEF z
<1>5. DOMAIN z = 1 .. m + 3 + e
  <2>1. z \in Seq(S) /\ Len(z) = m + 3 + e
    BY <1>4
  <2> QED
    BY <2>1
<1>6. \A i \in m + 3 .. m + 3 + e : \/ i = m + 3 + e
                                    \/ i - m - 2 \in 1 .. e /\ (i - m - 2) + m + 2 = i
  <2> HIDE DEF e
  <2> SUFFICES ASSUME NEW i \in m + 3 .. m + 3 + e, i # m + 3 + e
               PROVE  i - m - 2 \in 1 .. e /\ (i - m - 2) + m + 2 = i
    OBVIOUS
  <2> QED
    BY <1>1
<1>7. ASSUME NEW i \in m + 3 .. m + 3 + e
      PROVE  z[i] \in {Blank} \cup ToSet(err)
  <2>1. CASE i = m + 3 + e
    BY <1>4, <2>1
  <2>2. CASE i - m - 2 \in 1 .. e /\ (i - m - 2) + m + 2 = i
    <3>1. z[i] = err[i - m - 2]
      BY <1>4, <2>2
    <3> QED
      BY <1>1, <2>2, <3>1
  <2> QED
    BY <1>6, <2>1, <2>2
<1>8. Max({0} \cup hits) = m + 2
  <2>1. m + 2 \in hits
    BY <1>1, <1>4, <1>5
  <2>2. ASSUME NEW i \in hits
        PROVE  i <= m + 2
    <3>1. i \in 1 .. m + 3 + e /\ z[i] = StderrHeader
      BY <1>5
    <3>2. i \notin m + 3 .. m + 3 + e
      BY <1>1, <1>7, <3>1
    <3> QED
      BY <1>1, <3>1, <3>2
  <2>3. hits \subseteq Nat
    BY <1>5
  <2> HIDE DEF hits
  <2>4. /\ m + 2 \in {0} \cup hits
        /\ \A i \in {0} \cup hits : m + 2 >= i /\ (i >= m + 2 => i = m + 2)
    BY <1>1, <2>1, <2>2, <2>3
  <2> QED
    BY <2>4 DEF Max
<1>9. NonEmptyStderr(z) <=> \E i \in m + 3 .. m + 3 + e : z[i] # Blank
  <2>1. NonEmptyStderr(z) <=> \E i \in Max({0} \cup hits) + 1 .. Len(z) : z[i] # Blank
    BY DEF NonEmptyStderr
  <2> HIDE DEF hits
  <2>2. Max({0} \cup hits) + 1 = m + 3
    BY <1>1, <1>8
  <2> QED
    BY <1>4, <2>1, <2>2
<1>10. ASSUME ToSet(err) \subseteq {Blank}, NEW i \in m + 3 .. m + 3 + e
       PROVE  z[i] = Blank
  BY <1>7, <1>10
<1>11. ASSUME ~ ToSet(err) \subseteq {Blank}
       PROVE  \E i \in m + 3 .. m + 3 + e : z[i] # Blank
  <2>1. PICK j \in 1 .. e : err[j] # Blank
    BY <1>1, <1>11
  <2>2. j + m + 2 \in m + 3 .. m + 3 + e
    BY <1>1, <2>1
  <2>3. z[j + m + 2] # Blank
    BY <1>4, <2>1
  <2> QED
    BY <2>2, <2>3
<1>12. NonEmptyStderr(z) <=> ~ ToSet(err) \subseteq {Blank}
  BY <1>9, <1>10, <1>11
<1> QED
  BY <1>12 DEF z, y, x, head, end

(* The line that replaces a large file counts as printed to stderr.        *)
LEMMA LargeFileFails == NonEmptyStderr(<<Text>>)
<1> DEFINE z == <<Text>>
           hits == {i \in DOMAIN z : z[i] = StderrHeader}
<1>1. DOMAIN z = {1} /\ Len(z) = 1 /\ z[1] # StderrHeader /\ z[1] # Blank
  BY DEF Text, StderrHeader, Blank
<1>2. hits = {}
  BY <1>1
<1>3. Max({0} \cup hits) = 0
  <2> HIDE DEF hits
  <2>1. \A i \in {0} \cup hits : i = 0
    BY <1>2
  <2>2. 0 \in {0} \cup hits /\ \A i \in {0} \cup hits : 0 >= i
    BY <2>1
  <2> QED
    BY <2>1, <2>2 DEF Max
<1>4. NonEmptyStderr(z) <=> \E i \in Max({0} \cup hits) + 1 .. Len(z) : z[i] # Blank
  BY DEF NonEmptyStderr
<1> HIDE DEF hits, z
<1>5. 1 \in Max({0} \cup hits) + 1 .. Len(z)
  BY <1>1, <1>3
<1> QED
  BY <1>1, <1>4, <1>5 DEF z

UpToAll ==
    LET n == Len(run.reports) IN
    CompletedUpTo(n) = Completed /\ FailuresUpTo(n) = Failures

LEMMA AllClasses ==
    ASSUME run \in Submissions, HasReports
    PROVE  UpToAll
<1> DEFINE n == Len(run.reports)
<1>1. n \in Nat /\ DOMAIN run.reports = 1 .. n
  BY LinesTyped DEF HasReports
<1>2. \A d \in Completed : d <= n
  BY <1>1 DEF Completed
<1>3. CompletedUpTo(n) = Completed
  BY <1>2 DEF CompletedUpTo
<1>4. FailuresUpTo(n) = Failures
  BY <1>3 DEF FailuresUpTo, Failures
<1> QED
  BY <1>3, <1>4 DEF UpToAll

(* Nothing but blank lines is on stderr: no class ran out of time, and none*)
(* printed anything to it.                                                 *)
Quiet == ToSet(run.stderr) \subseteq {Blank} /\ Completed = DOMAIN run.reports

LEMMA QuietStderr ==
    ASSUME run \in Submissions, HasReports
    PROVE  LET err == Stderr(run.reports, run.stderr) IN
           /\ ToSet(err) \subseteq {Blank} <=> Quiet
           /\ StderrHeader \notin ToSet(run.stderr) => StderrHeader \notin ToSet(err)
<1> DEFINE S == LinesOf(run)
           out == run.stderr
           err == Stderr(run.reports, run.stderr)
<1>1. Text \in S /\ out \in Seq(S)
  BY LinesTyped DEF HasReports
<1>2. Text # Blank /\ Text # StderrHeader
  BY DEF Text, Blank, StderrHeader
<1>3. Killed \in ToSet(run.reports) <=> Completed # DOMAIN run.reports
  BY DEF Completed, ToSet
<1> HIDE DEF S
<1>4. CASE Killed \in ToSet(run.reports)
  <2>1. err = out \o <<Text>>
    BY <1>4 DEF Stderr
  <2>2. ToSet(err) = ToSet(out) \cup {Text}
    <3>1. <<Text>> \in Seq(S) /\ ToSet(<<Text>>) = {Text}
      BY <1>1 DEF ToSet
    <3>2. ToSet(out \o <<Text>>) = ToSet(out) \cup ToSet(<<Text>>)
      <4> DEFINE x == out \o <<Text>>
      <4>1. /\ DOMAIN x = DOMAIN out \cup {Len(out) + 1}
            /\ \A i \in DOMAIN out : x[i] = out[i]
            /\ x[Len(out) + 1] = Text
        BY <1>1
      <4> HIDE DEF x
      <4>2. ToSet(x) = {x[i] : i \in DOMAIN x} /\ ToSet(out) = {out[i] : i \in DOMAIN out}
        BY DEF ToSet
      <4>3. ToSet(x) = ToSet(out) \cup {Text}
        BY <4>1, <4>2
      <4> QED
        BY <3>1, <4>3 DEF x
    <3> QED
      BY <2>1, <3>1, <3>2
  <2> HIDE DEF err
  <2> QED
    BY <1>2, <1>3, <1>4, <2>2 DEF Quiet, err
<1>5. CASE Killed \notin ToSet(run.reports)
  <2>1. err = out
    <3>1. out \o << >> = out
      BY <1>1
    <3> QED
      BY <1>5, <3>1 DEF Stderr
  <2> QED
    BY <1>3, <1>5, <2>1 DEF Quiet
<1> QED
  BY <1>4, <1>5

(* When the correctness part pays at all.                                  *)
Pays == RunCompleted(run.status) /\ ~ run.large /\ Quiet /\ Completed # {}

(* correct.txt, read to its end.                                           *)
LEMMA TextRead ==
    ASSUME NEW tests, run \in Submissions, HasReports, FailsOnce, ~ LoneFailureFollowed,
           NamedInOneClass(tests), StderrHeader \notin ToSet(run.stderr)
    PROVE  LET lines == CorrectTxt(run.reports, run.stderr) IN
           /\ NonEmptyStderr(lines) <=> ~ Quiet
           /\ Quiet => ReadUpTo(tests, Len(run.reports), lines)
<1> DEFINE S == LinesOf(run)
           n == Len(run.reports)
           err == Stderr(run.reports, run.stderr)
           a == <<Text>> \o FlattenSeq(Bodies(run))
           head == <<Blank, StderrHeader>>
           end == <<Blank>>
           lines == CorrectTxt(run.reports, run.stderr)
<1>1. /\ Countable(S) /\ Blank \in S /\ StderrHeader \in S /\ err \in Seq(S)
  BY LinesTyped, StderrTyped DEF HasReports
<1>0. (ToSet(err) \subseteq {Blank} <=> Quiet) /\ StderrHeader \notin ToSet(err)
  BY QuietStderr
<1>2. ReadUpTo(tests, n, a)
  BY ClassesRead
<1>3. lines = a \o head \o err \o end
  BY DEF CorrectTxt, Bodies
<1>4. /\ head \in Seq(S) /\ Len(head) = 2 /\ head[1] = Blank /\ head[2] = StderrHeader
      /\ end \in Seq(S) /\ Len(end) = 1 /\ end[1] = Blank
  BY <1>1
<1> HIDE DEF S, n, a, err
<1>5. a \in Seq(S)
  BY <1>2 DEF ReadUpTo, S
<1>6. NonEmptyStderr(lines) <=> ~ ToSet(err) \subseteq {Blank}
  BY <1>0, <1>1, <1>3, <1>5, StderrEmpty
<1> HIDE DEF head, end, lines
<1>7. ASSUME NEW x, ReadUpTo(tests, n, x), NEW b \in Seq(S),
             \A i \in 1 .. Len(b) : b[i] = Blank \/ b[i] = StderrHeader
      PROVE  ReadUpTo(tests, n, x \o b)
  <2>1. \A i \in 1 .. Len(b) : b[i].kind \notin {"count", "failure"}
    BY <1>7 DEF Blank, StderrHeader
  <2>2. x \in Seq(S) /\ (Reported(x) <=> CompletedUpTo(n) # {})
    BY <1>7 DEF ReadUpTo, S
  <2>3. x \o b \in Seq(S)
    BY <2>2, ConcatProperties
  <2>4. ~ Reported(b)
    <3>1. DOMAIN b = 1 .. Len(b)
      OBVIOUS
    <3> QED
      BY <1>7, <3>1 DEF Reported, Blank, StderrHeader
  <2>5. Reported(x \o b) <=> Reported(x)
    BY <2>2, <2>4, ReportedByBoth
  <2>6. PICK found : /\ Read(S, x, found, LastFailures(n)) /\ FailedOnce(tests, found)
                     /\ FailedUpTo(found, Len(found)) = FailuresUpTo(n)
    BY <1>7 DEF ReadUpTo, S
  <2>7. Read(S, x \o b, found, LastFailures(n))
    BY <1>1, <2>1, <2>2, <2>6, ReadGoesOn
  <2> QED
    BY <2>2, <2>3, <2>5, <2>6, <2>7 DEF ReadUpTo, S
<1>8. ASSUME ToSet(err) \subseteq {Blank}
      PROVE  ReadUpTo(tests, n, lines)
  <2>1. ReadUpTo(tests, n, a \o head)
    <3>1. \A i \in 1 .. Len(head) : head[i] = Blank \/ head[i] = StderrHeader
      BY <1>4
    <3> QED
      BY <1>2, <1>4, <1>7, <3>1
  <2>2. ReadUpTo(tests, n, (a \o head) \o err)
    <3>1. \A i \in 1 .. Len(err) : err[i] \in ToSet(err)
      BY <1>1 DEF ToSet
    <3>2. \A i \in 1 .. Len(err) : err[i] = Blank
      BY <1>8, <3>1
    <3> QED
      BY <1>1, <1>7, <2>1, <3>2
  <2>3. \A i \in 1 .. Len(end) : end[i] = Blank
    BY <1>4
  <2>4. ReadUpTo(tests, n, ((a \o head) \o err) \o end)
    BY <1>4, <1>7, <2>2, <2>3
  <2> QED
    BY <1>3, <2>4
<1> QED
  BY <1>0, <1>6, <1>8 DEF lines, n

LEMMA CorrectnessPays ==
    ASSUME NEW tests, HasPoints(tests), NamedOnce(tests), NamedInOneClass(tests),
           run \in Submissions, HasReports, FailsOnce, ~ LoneFailureFollowed,
           StderrHeader \notin ToSet(run.stderr), CorrectTxt(run.reports, run.stderr) # NoFile
    PROVE  Correctness(tests, run.status, CorrectFile(run)).points
             = IF Pays THEN WorthWithout(tests, Failures) ELSE 0
<1> DEFINE S == LinesOf(run)
           n == Len(run.reports)
           lines == CorrectTxt(run.reports, run.stderr)
           file == CorrectFile(run)
           part == Correctness(tests, run.status, file)
<1>1. CASE run.large
  <2>1. file = <<Text>>
    BY <1>1 DEF CorrectFile, Displayed, HasReports
  <2>2. part = NoPoints(Worth(tests))
    BY <2>1, LargeFileFails DEF Correctness
  <2> QED
    BY <1>1, <2>2 DEF NoPoints, Part, Pays
<1>2. CASE ~ run.large
  <2>1. file = lines
    BY <1>2 DEF CorrectFile, Displayed, HasReports
  <2>2. /\ NonEmptyStderr(lines) <=> ~ Quiet
        /\ Quiet => ReadUpTo(tests, n, lines)
    BY TextRead
  <2>3. CompletedUpTo(n) = Completed /\ FailuresUpTo(n) = Failures
    BY AllClasses DEF UpToAll
  <2> HIDE DEF lines, n
  <2>4. CASE ~ Pays
    <3>1. \/ ~ RunCompleted(run.status) \/ NonEmptyStderr(lines) \/ ~ Reported(lines)
      BY <1>2, <2>2, <2>3, <2>4 DEF Pays, ReadUpTo
    <3>2. part = NoPoints(Worth(tests))
      BY <2>1, <3>1 DEF Correctness
    <3> QED
      BY <2>4, <3>2 DEF NoPoints, Part
  <2>5. CASE Pays
    <3>1. /\ RunCompleted(run.status) /\ ~ NonEmptyStderr(lines)
          /\ ReadUpTo(tests, n, lines) /\ Completed # {}
      BY <2>2, <2>5 DEF Pays
    <3>2. Reported(lines) /\ lines \in Seq(S)
      BY <2>3, <3>1 DEF ReadUpTo
    <3>3. PICK found : /\ Read(S, lines, found, LastFailures(n)) /\ FailedOnce(tests, found)
                       /\ FailedUpTo(found, Len(found)) = Failures
      BY <2>3, <3>1 DEF ReadUpTo
    <3>4. Countable(S)
      BY LinesTyped DEF HasReports
    <3> DEFINE losses == CorrectnessLosses(tests, lines)
    <3>5. WorthWithout(tests, Failures) = Worth(tests) - Sum(losses)
      <4> HIDE DEF S
      <4>1. /\ found \in Seq(S) /\ \A k \in 1 .. Len(found) : found[k].kind = "failure"
            /\ Announced(lines) = Numbers(found)
        BY <3>3 DEF Read
      <4>2. PICK p : Path(lines, found, LastFailures(n), p)
        BY <3>3 DEF Read
      <4>3. lines \in Seq(S)
        BY <3>2
      <4>4. WorthWithout(tests, FailedUpTo(found, Len(found)))
              = Worth(tests) - Sum(CorrectnessLosses(tests, lines))
        BY <3>3, <3>4, <4>1, <4>2, <4>3, PathLosses
      <4> QED
        BY <3>3, <4>4
    <3>6. lines # NoFile
      BY DEF lines
    <3>7. part = Part(Worth(tests) - Sum(losses), Worth(tests), losses)
      BY <2>1, <3>1, <3>2, <3>6 DEF Correctness
    <3> QED
      BY <2>5, <3>5, <3>7 DEF Part
  <2> QED
    BY <2>4, <2>5
<1> QED
  BY <1>1, <1>2

(* OrdinaryReports, for the rubric and the run at hand.                    *)
OrdinaryRun ==
    /\ NamedOnce(rubric.correctness) /\ NamedInOneClass(rubric.correctness)
    /\ HasReports => /\ StderrHeader \notin ToSet(run.stderr)
                     /\ CorrectTxt(run.reports, run.stderr) # NoFile

LEMMA RunIsOrdinary ==
    ASSUME OrdinaryReports, rubric \in Rubrics, ValidRubric(rubric), run \in Submissions,
           HasReports
    PROVE  OrdinaryRun
<1> DEFINE tests == rubric.correctness
<1>1. /\ NamedOnce(tests) /\ StderrHeader \notin ToSet(run.stderr)
      /\ \A c, d \in DOMAIN run.reports : \A test \in ToSet(tests) :
            /\ run.reports[c] # Killed /\ test.testname \in ToSet(run.reports[c])
            /\ run.reports[d] # Killed /\ test.testname \in ToSet(run.reports[d])
            => c = d
  BY DEF OrdinaryReports, HasReports
<1>2. CorrectTxt(run.reports, run.stderr) # NoFile
  BY FileAssumption DEF HasReports
<1>3. \A k \in DOMAIN tests : tests[k] \in ToSet(tests)
  BY DEF ToSet
<1> HIDE DEF tests
<1>4. NamedInOneClass(tests)
  <2> SUFFICES ASSUME NEW c \in Completed, NEW d \in Completed, NEW k \in DOMAIN tests,
                      tests[k].testname \in ToSet(run.reports[c]),
                      tests[k].testname \in ToSet(run.reports[d])
               PROVE  c = d
    BY DEF NamedInOneClass
  <2>1. /\ c \in DOMAIN run.reports /\ run.reports[c] # Killed
        /\ d \in DOMAIN run.reports /\ run.reports[d] # Killed
    BY DEF Completed
  <2> QED
    BY <1>1, <1>3, <2>1
<1> QED
  BY <1>1, <1>2, <1>4 DEF OrdinaryRun, tests

(* "calculated based on the correctness ... tests that the submission      *)
(* passed" (user_guide.html:73-75): the points of the correctness part are *)
(* those of the tests of the rubric that no class reported a failure of,   *)
(* whatever the number of classes and of failures, unless the only failure *)
(* of a class is followed by failures of another one: the search for the   *)
(* first failure of the next report starts at the line that it found last  *)
(* (score.js:418-422) and stays there.  Nothing is paid when a class ran   *)
(* out of time or something was printed to stderr.                         *)
THEOREM PassedTestsArePaid ==
    ASSUME OrdinaryReports
    PROVE  Spec => []PassedTestsPayUnlessLone
<1>1. IInv => PassedTestsPayUnlessLone
  <2> SUFFICES ASSUME IInv, Scored, HasReports, FailsOnce, ~ LoneFailureFollowed
               PROVE  score.correctness.points
                        = IF Pays THEN WorthWithout(rubric.correctness, Failures) ELSE 0
    BY DEF PassedTestsPayUnlessLone, PassedTestsPay, Pays, Quiet
  <2>1. /\ rubric \in Rubrics /\ ValidRubric(rubric) /\ run \in Submissions
        /\ HasPoints(rubric.correctness)
        /\ score.correctness
             = Correctness(rubric.correctness, run.status, CorrectFile(run))
    BY ScoredRun
  <2>2. OrdinaryRun
    BY <2>1, RunIsOrdinary
  <2> DEFINE tests == rubric.correctness
  <2>3. /\ NamedOnce(tests) /\ NamedInOneClass(tests) /\ HasPoints(tests)
        /\ StderrHeader \notin ToSet(run.stderr)
        /\ CorrectTxt(run.reports, run.stderr) # NoFile
    BY <2>1, <2>2 DEF OrdinaryRun
  <2> HIDE DEF tests
  <2>4. Correctness(tests, run.status, CorrectFile(run)).points
          = IF Pays THEN WorthWithout(tests, Failures) ELSE 0
    BY <2>1, <2>3, CorrectnessPays
  <2> QED
    BY <2>1, <2>4 DEF tests
<1> QED
  BY <1>1, ScoreSound, PTL

-----------------------------------------------------------------------------
(* The bounds of the parts.                                                *)

(* A part as PartsInBounds wants it.                                       *)
InBounds(part) == 0 <= part.points /\ part.points <= part.total

LEMMA NoPointsInBounds ==
    ASSUME NEW total \in Int, 0 <= total
    PROVE  InBounds(NoPoints(total))
  BY DEF InBounds, NoPoints, Part

(* The points of the passed tests of a rubric are some of all points.      *)
LEMMA WorthWithoutInBounds ==
    ASSUME NEW tests, HasPoints(tests), \A test \in ToSet(tests) : 0 <= test.points_worth,
           NEW failed
    PROVE  /\ 0 <= WorthWithout(tests, failed) /\ WorthWithout(tests, failed) <= Worth(tests)
           /\ 0 <= Worth(tests) /\ Worth(tests) \in Int
<1> DEFINE E == ToSet(tests)
           s == LeftPoints(tests, failed)
           t == LeftPoints(tests, {})
<1>1. tests \in Seq(E) /\ \A e \in E : e.points_worth \in Int
  BY DEF HasPoints, IsList
<1>2. \A i \in 1 .. Len(tests) : tests[i] \in E /\ tests[i].points_worth \in Int
                                  /\ 0 <= tests[i].points_worth
  <2> HIDE DEF E
  <2>1. \A i \in 1 .. Len(tests) : tests[i] \in E
    BY <1>1
  <2> QED
    BY <1>1, <2>1 DEF E
<1> HIDE DEF E
<1>3. /\ s \in Seq(Int) /\ Len(s) = Len(tests) /\ WorthWithout(tests, failed) = Sum(s)
      /\ \A i \in 1 .. Len(tests) :
            s[i] = IF tests[i].testname \in failed THEN 0 ELSE tests[i].points_worth
  BY <1>1, LeftTyped
<1>4. /\ t \in Seq(Int) /\ Len(t) = Len(tests) /\ WorthWithout(tests, {}) = Sum(t)
      /\ \A i \in 1 .. Len(tests) : t[i] = tests[i].points_worth
  BY <1>1, LeftTyped
<1>5. Sum(t) = Worth(tests) /\ Worth(tests) \in Int
  <2>1. WorthWithout(tests, {}) = Worth(tests)
    BY <1>1, NoneFailed
  <2>2. Sum(t) \in Int
    BY <1>4, SumType
  <2> QED
    BY <1>4, <2>1, <2>2
<1> HIDE DEF s, t
<1>6. \A i \in 1 .. Len(tests) : 0 <= s[i] /\ s[i] <= t[i] /\ 0 <= t[i]
  <2> SUFFICES ASSUME NEW i \in 1 .. Len(tests)
               PROVE  0 <= s[i] /\ s[i] <= t[i] /\ 0 <= t[i]
    OBVIOUS
  <2>1. tests[i].points_worth \in Int /\ 0 <= tests[i].points_worth
    BY <1>2
  <2> QED
    BY <1>3, <1>4, <2>1
<1>7. 0 <= Sum(s) /\ Sum(s) <= Sum(t) /\ 0 <= Sum(t)
  BY <1>3, <1>4, <1>6, SumAtMost, SumNotNegative
<1> QED
  BY <1>3, <1>5, <1>7

LEMMA CorrectnessInBounds ==
    ASSUME NEW tests, HasPoints(tests), NamedOnce(tests), NamedInOneClass(tests),
           \A test \in ToSet(tests) : 0 <= test.points_worth,
           run \in Submissions, HasReports, FailsOnce, ~ LoneFailureFollowed,
           StderrHeader \notin ToSet(run.stderr), CorrectTxt(run.reports, run.stderr) # NoFile
    PROVE  InBounds(Correctness(tests, run.status, CorrectFile(run)))
<1> DEFINE part == Correctness(tests, run.status, CorrectFile(run))
<1>1. part.points = IF Pays THEN WorthWithout(tests, Failures) ELSE 0
  BY CorrectnessPays
<1>2. part.total = Worth(tests)
  BY DEF Correctness, NoPoints, Part
<1>3. /\ 0 <= WorthWithout(tests, Failures) /\ WorthWithout(tests, Failures) <= Worth(tests)
      /\ 0 <= Worth(tests)
  BY WorthWithoutInBounds
<1> HIDE DEF part
<1>4. InBounds(part)
  <2>1. CASE Pays
    BY <1>1, <1>2, <1>3, <2>1 DEF InBounds
  <2>2. CASE ~ Pays
    BY <1>1, <1>2, <1>3, <2>2 DEF InBounds
  <2> QED
    BY <2>1, <2>2
<1> QED
  BY <1>4 DEF part

(* The points of style are not negative.                                   *)
StylePoints(style) ==
    /\ style.points_per_error \in Int /\ 0 <= style.points_per_error
    /\ style.max_points_off \in Int /\ 0 <= style.max_points_off

LEMMA StyleInBounds ==
    ASSUME NEW style, StylePoints(style), NEW lines, lines # NoFile => IsList(lines)
    PROVE  InBounds(Style(style, lines))
<1> DEFINE errors == StyleErrors(lines)
           per == style.points_per_error
           max == style.max_points_off
           off == Capped(errors * per, style)
<1>1. per \in Int /\ 0 <= per /\ max \in Int /\ 0 <= max
  BY DEF StylePoints
<1>2. CASE lines = NoFile
  BY <1>1, <1>2, NoPointsInBounds DEF Style
<1>3. CASE lines # NoFile
  <2>1. errors \in Nat
    BY <1>3, StyleErrorsTyped
  <2>2. off = IF errors * per > max THEN max ELSE errors * per
    BY DEF Capped
  <2>3. Style(style, lines) = Part(max - off, max, <<off>>)
    BY <1>3 DEF Style
  <2> HIDE DEF errors, per, max, off
  <2>4. errors * per \in Int /\ 0 <= errors * per
    BY <1>1, <2>1
  <2>5. off \in Int /\ 0 <= off /\ off <= max
    BY <1>1, <2>2, <2>4
  <2>6. 0 <= max - off /\ max - off <= max
    BY <1>1, <2>5
  <2> QED
    BY <2>3, <2>6 DEF InBounds, Part
<1> QED
  BY <1>2, <1>3

(* An interval takes off no more than the test is worth.                   *)
DeductsItsPoints(test) ==
    /\ 0 <= test.points_worth
    /\ \A g \in ToSet(test.grading) : 0 <= g.points_off /\ g.points_off <= test.points_worth

LEMMA DeductionInBounds ==
    ASSUME NEW test, IsGraded(test), DeductsItsPoints(test), NEW line, HasTimes(line)
    PROVE  /\ 0 <= Sum(IntervalLosses(test, line))
           /\ Sum(IntervalLosses(test, line)) <= test.points_worth
<1> DEFINE fits == {i \in DOMAIN test.grading : Holds(line, test.grading[i])}
           off == Sum(IntervalLosses(test, line))
           worth == test.points_worth
<1>1. off = IF fits = {} THEN 0 ELSE test.grading[Min(fits)].points_off
  BY IntervalTakesOff
<1>2. 0 <= worth
  BY DEF DeductsItsPoints
<1>3. CASE fits = {}
  BY <1>1, <1>2, <1>3
<1>4. CASE fits # {}
  <2>1. Len(test.grading) \in Nat /\ DOMAIN test.grading = 1 .. Len(test.grading)
        /\ \A i \in 1 .. Len(test.grading) : test.grading[i] \in ToSet(test.grading)
    BY ListItems DEF IsGraded
  <2>2. fits \subseteq 1 .. Len(test.grading)
    BY <2>1
  <2> DEFINE least == Min(fits)
  <2>3. least \in fits
    <3>1. fits \in SUBSET Nat
      BY <2>1, <2>2
    <3> HIDE DEF fits
    <3> QED
      BY <1>4, <3>1, LeastOf
  <2> HIDE DEF fits, off, worth
  <2>4. off = test.grading[least].points_off
    BY <1>1, <1>4
  <2> HIDE DEF least
  <2>5. test.grading[least] \in ToSet(test.grading)
    BY <2>1, <2>2, <2>3
  <2>6. /\ 0 <= test.grading[least].points_off
        /\ test.grading[least].points_off <= test.points_worth
    BY <2>5 DEF DeductsItsPoints
  <2>7. 0 <= off /\ off <= worth
    BY <2>4, <2>6 DEF worth
  <2> QED
    BY <2>7 DEF off, worth
<1> QED
  BY <1>3, <1>4

LEMMA PayInBounds ==
    ASSUME Comparable, NEW test \in ToSet(rubric.performance.tests), DeductsItsPoints(test)
    PROVE  Pay(test) \in Int /\ 0 <= Pay(test) /\ Pay(test) <= test.points_worth
<1>1. Pay(test) \in Int
  BY PayTyped
<1>2. CASE ResultsOf(test) = {}
  BY <1>1, <1>2, PayOfNothing DEF DeductsItsPoints
<1>3. CASE ResultsOf(test) # {}
  <2>1. PICK c \in ToSet(run.ncores) :
           \E line \in ToSet(run.perf[c]) : Fits(test, line.test, c)
    BY <1>3, ResultsAre
  <2>2. PICK line \in ToSet(run.perf[c]) : Fits(test, line.test, c)
    BY <2>1
  <2>3. ResultsOf(test) = {line} /\ HasTimes(line)
    BY <2>2, ResultIsOne
  <2>4. IsGraded(test) /\ test.points_worth \in Int
    BY DEF Comparable, IsGraded
  <2> DEFINE off == Sum(IntervalLosses(test, line))
             worth == test.points_worth
  <2>5. Pay(test) = worth - off
    BY <2>3, <2>4, PayOfResult
  <2>6. 0 <= off /\ off <= worth /\ off \in Int
    BY <2>3, <2>4, DeductionInBounds, IntervalTakesOff
  <2> HIDE DEF off
  <2>7. worth \in Int
    BY <2>4
  <2> HIDE DEF worth
  <2>8. 0 <= Pay(test) /\ Pay(test) <= worth
    BY <2>5, <2>6, <2>7
  <2> QED
    BY <1>1, <2>8 DEF worth
<1> QED
  BY <1>2, <1>3

LEMMA WorthNotNegative ==
    ASSUME NEW tests, HasPoints(tests), \A test \in ToSet(tests) : 0 <= test.points_worth
    PROVE  Worth(tests) \in Int /\ 0 <= Worth(tests)
  BY WorthWithoutInBounds

LEMMA PerformanceInBounds ==
    ASSUME Comparable, \A test \in ToSet(rubric.performance.tests) : DeductsItsPoints(test)
    PROVE  LET tests == rubric.performance.tests
               points == GradeFiles(tests, run.ncores, run.perf).points
           IN  0 <= points /\ points <= Worth(tests)
<1> DEFINE tests == rubric.performance.tests
           E == ToSet(tests)
           s == [i \in DOMAIN tests |-> Pay(tests[i])]
           t == PointsOf(tests)
           points == GradeFiles(tests, run.ncores, run.perf).points
<1>1. /\ tests \in Seq(E) /\ Len(tests) \in Nat /\ DOMAIN tests = 1 .. Len(tests)
      /\ \A i \in 1 .. Len(tests) : tests[i] \in E
      /\ \A e \in E : e.points_worth \in Int
  BY ListItems DEF Comparable, HasGrading, HasPoints
<1>2. points = Sum(s)
  BY PerformancePays
<1>3. t \in Seq(Int) /\ Worth(tests) = Sum(t)
  BY <1>1, WorthTyped
<1>4. DOMAIN t = DOMAIN tests /\ \A i \in DOMAIN tests : t[i] = tests[i].points_worth
  BY DEF PointsOf
<1>5. \A e \in E : Pay(e) \in Int /\ 0 <= Pay(e) /\ Pay(e) <= e.points_worth
  BY PayInBounds
<1> HIDE DEF t, points, E
<1>6. s \in [1 .. Len(tests) -> Int] /\ \A i \in 1 .. Len(tests) : s[i] = Pay(tests[i])
  BY <1>1, <1>5
<1> HIDE DEF s
<1>7. s \in Seq(Int) /\ Len(s) = Len(tests)
  <2>1. Len(tests) \in Nat
    BY <1>1
  <2> HIDE DEF tests
  <2> QED
    BY <1>6, <2>1, SeqDef
<1>8. Len(t) = Len(s)
  <2> HIDE DEF tests
  <2>1. DOMAIN t = 1 .. Len(tests)
    BY <1>1, <1>4
  <2> QED
    BY <1>1, <1>3, <1>7, <2>1
<1> HIDE DEF tests
<1>9. \A i \in 1 .. Len(s) : 0 <= s[i] /\ s[i] <= t[i]
  BY <1>1, <1>4, <1>5, <1>6, <1>7
<1>10. Sum(s) <= Sum(t)
  BY <1>3, <1>7, <1>8, <1>9, SumAtMost
<1>11. 0 <= Sum(s)
  BY <1>7, <1>9, SumNotNegative
<1> QED
  BY <1>2, <1>3, <1>10, <1>11 DEF tests, points

(* No part of a score is negative or above its total: what the failures,   *)
(* the intervals and the errors of style take off is taken off once, and   *)
(* is never more than there is.                                            *)
THEOREM PartsAreInBounds ==
    ASSUME OrdinaryReports, RegularResults, NoNegativePoints
    PROVE  Spec => []PartsInBounds
<1>1. IInv => PartsInBounds
  <2> SUFFICES ASSUME IInv, Scored, ResultsOnce,
                      HasReports => FailsOnce /\ ~ LoneFailureFollowed, NEW part \in Parts
               PROVE  InBounds(part)
    BY DEF PartsInBounds, InBounds
  <2>1. /\ rubric \in Rubrics /\ ValidRubric(rubric) /\ run \in Submissions
        /\ score.correctness
             = Correctness(rubric.correctness, run.status, CorrectFile(run))
        /\ score.performance = Performance(rubric.performance.tests, run.status,
                                           run.ncores, run.perf)
        /\ score.style = Style(rubric.style, run.style)
        /\ HasPoints(rubric.correctness) /\ HasGrading(rubric.performance.tests)
        /\ \A test \in ToSet(rubric.correctness) : 0 <= test.points_worth
    BY ScoredRun
  <2>2. InBounds(score.correctness)
    <3> DEFINE tests == rubric.correctness
               file == CorrectFile(run)
    <3>1. CASE HasReports
      <4>1. OrdinaryRun
        BY <2>1, <3>1, RunIsOrdinary
      <4>2. /\ NamedOnce(tests) /\ NamedInOneClass(tests) /\ HasPoints(tests)
            /\ \A test \in ToSet(tests) : 0 <= test.points_worth
            /\ StderrHeader \notin ToSet(run.stderr)
            /\ CorrectTxt(run.reports, run.stderr) # NoFile
        BY <2>1, <3>1, <4>1 DEF OrdinaryRun
      <4> HIDE DEF tests
      <4>3. InBounds(Correctness(tests, run.status, CorrectFile(run)))
        BY <2>1, <3>1, <4>2, CorrectnessInBounds
      <4> QED
        BY <2>1, <4>3 DEF tests
    <3>2. CASE ~ HasReports
      <4>1. file = NoFile
        BY <3>2 DEF CorrectFile, HasReports
      <4>2. score.correctness = NoPoints(Worth(tests))
        BY <2>1, <4>1 DEF Correctness
      <4>3. Worth(tests) \in Int /\ 0 <= Worth(tests)
        BY <2>1, WorthNotNegative
      <4> QED
        BY <4>2, <4>3, NoPointsInBounds
    <3> QED
      BY <3>1, <3>2
  <2>3. InBounds(score.performance)
    <3> DEFINE tests == rubric.performance.tests
               all == \A c \in ToSet(run.ncores) : run.perf[c] # NoFile
    <3>1. \A test \in ToSet(tests) : DeductsItsPoints(test)
      <4> SUFFICES ASSUME NEW test \in ToSet(tests) PROVE DeductsItsPoints(test)
        OBVIOUS
      <4>1. /\ test.points_worth >= 0
            /\ \A g \in ToSet(test.grading) : g.points_off >= 0
        BY <2>1 DEF NoNegativePoints
      <4>2. \A g \in ToSet(test.grading) : g.points_off <= test.points_worth
        BY <2>1 DEF ValidRubric, ValidGrading
      <4>3. /\ test.points_worth \in Int
            /\ \A g \in ToSet(test.grading) : g.points_off \in Int
        BY <2>1 DEF HasGrading, HasPoints
      <4> QED
        BY <4>1, <4>2, <4>3 DEF DeductsItsPoints
    <3>2. Worth(tests) \in Int /\ 0 <= Worth(tests)
      <4>1. HasPoints(tests) /\ \A test \in ToSet(tests) : 0 <= test.points_worth
        BY <2>1, <3>1 DEF HasGrading, DeductsItsPoints
      <4> HIDE DEF tests
      <4> QED
        BY <4>1, WorthNotNegative
    <3>3. CASE RunCompleted(run.status) /\ all
      <4>1. Comparable
        BY <2>1, <3>3, RunIsComparable
      <4>2. /\ score.performance.points = GradeFiles(tests, run.ncores, run.perf).points
            /\ score.performance.total = Worth(tests)
        BY <2>1, <3>3 DEF Performance, Part
      <4> DEFINE points == GradeFiles(tests, run.ncores, run.perf).points
      <4>3. 0 <= points /\ points <= Worth(tests)
        BY <3>1, <4>1, PerformanceInBounds
      <4> HIDE DEF points, tests
      <4> QED
        BY <4>2, <4>3 DEF InBounds, points
    <3>4. CASE ~ (RunCompleted(run.status) /\ all)
      <4>1. score.performance = NoPoints(Worth(tests))
        BY <2>1, <3>4 DEF Performance
      <4> QED
        BY <3>2, <4>1, NoPointsInBounds
    <3> QED
      BY <3>3, <3>4
  <2>4. InBounds(score.style)
    <3>1. StylePoints(rubric.style)
      <4>1. rubric.style.points_per_error \in Int /\ rubric.style.max_points_off \in Int
        BY <2>1, ScoreAssumption
      <4>2. rubric.style.points_per_error >= 0 /\ rubric.style.max_points_off >= 0
        BY <2>1 DEF NoNegativePoints
      <4> QED
        BY <4>1, <4>2 DEF StylePoints
    <3>2. run.style # NoFile => IsList(run.style)
      BY <2>1, ScoreAssumption
    <3> QED
      BY <2>1, <3>1, <3>2, StyleInBounds
  <2> QED
    BY <2>2, <2>3, <2>4 DEF Parts
<1> QED
  BY <1>1, ScoreSound, PTL
=============================================================================
