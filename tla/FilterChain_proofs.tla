-------------------------- MODULE FilterChain_proofs --------------------------
(* For every chain of filters, every configuration and every input: what each *)
(* stage hands on is what its filter is named for, however often the windows  *)
(* wrapped and the chain was reset.                                           *)
EXTENDS FilterChain, CommonLemmas, FiniteSetTheorems

(* Rings of one size turn into each other by a permutation of the positions:  *)
(* g is f, taken in the order b, and ascends.                                 *)
Rearranges(b, g, f, n) ==
  /\ b \in [1..n -> 1..n]
  /\ \A i, j \in 1..n : b[i] = b[j] => i = j
  /\ \A i \in 1..n : g[i] = f[b[i]]
Ascends(g, n) == \A i, j \in 1..n : i <= j => g[i] <= g[j]
Sorts(b, g, f, n) == Rearranges(b, g, f, n) /\ Ascends(g, n)

-----------------------------------------------------------------------------
(* The insertion sort.                                                        *)

LEMMA GreatestNumber ==
  ASSUME NEW n \in Nat, NEW T, T \subseteq 0..n, T # {}
  PROVE  /\ Max(T) \in T
         /\ \A y \in T : y <= Max(T)
<1> DEFINE U == {n - x : x \in T}
<1>1. U \subseteq Nat /\ U # {}
  <2>1. \A x \in T : n - x \in Nat
    OBVIOUS
  <2> QED
    BY <2>1
<1>2. PICK m \in U : \A k \in U : m <= k
  <2> HIDE DEF U
  <2> QED
    BY <1>1, LeastNumber
<1>3. PICK x \in T : m = n - x
  BY <1>2
<1>4. ASSUME NEW y \in T PROVE x >= y
  <2>1. n - y \in U
    OBVIOUS
  <2>2. n - x <= n - y /\ x \in Int /\ y \in Int
    BY <1>2, <1>3, <2>1
  <2> QED
    BY <2>2
<1>5. Max(T) \in T /\ \A y \in T : Max(T) >= y
  BY <1>3, <1>4 DEF Max
<1> QED
  BY <1>5

(* Everything up to the place is not greater than the key, and everything     *)
(* behind it is.                                                              *)
LEMMA PlaceParts ==
  ASSUME NEW n \in Nat, NEW g \in Seq(Int), Len(g) = n, NEW key \in Int, Ascends(g, n)
  PROVE  /\ Place(g, key) \in 0..n
         /\ \A i \in 1..n : i <= Place(g, key) => g[i] <= key
         /\ \A i \in 1..n : i > Place(g, key) => g[i] > key
<1> DEFINE T == {0} \cup {i \in DOMAIN g : g[i] <= key}
<1>1. DOMAIN g = 1..n /\ \A i \in 1..n : g[i] \in Int
  BY LenProperties, ElementOfSeq
<1>2. T \subseteq 0..n /\ T # {}
  BY <1>1
<1>3. Place(g, key) = Max(T)
  BY DEF Place
<1>4. Max(T) \in T /\ \A y \in T : y <= Max(T)
  <2> HIDE DEF T
  <2> QED
    BY <1>2, GreatestNumber
<1> DEFINE p == Max(T)
<1>5. p \in T /\ p \in 0..n /\ \A y \in T : y <= p
  BY <1>2, <1>4
<1> HIDE DEF p
<1>6. ASSUME NEW i \in 1..n, i <= p PROVE g[i] <= key
  <2>1. p \in 1..n /\ g[p] <= key
    BY <1>1, <1>5, <1>6
  <2>2. g[i] <= g[p]
    BY <1>6, <2>1 DEF Ascends
  <2> QED
    BY <1>1, <2>1, <2>2
<1>7. ASSUME NEW i \in 1..n, i > p PROVE g[i] > key
  <2>1. i \notin T
    BY <1>5, <1>7
  <2> QED
    BY <1>1, <2>1
<1> QED
  BY <1>3, <1>5, <1>6, <1>7 DEF p

LEMMA InsertedSorts ==
  ASSUME NEW n \in Nat, NEW f, NEW b, NEW g \in Seq(Int), Len(g) = n, f[n + 1] \in Int,
         Sorts(b, g, f, n)
  PROVE  /\ Inserted(g, f[n + 1]) \in Seq(Int) /\ Len(Inserted(g, f[n + 1])) = n + 1
         /\ \E c : Sorts(c, Inserted(g, f[n + 1]), f, n + 1)
<1> DEFINE key == f[n + 1]
           p == Place(g, key)
           h == [i \in 1..n + 1 |-> IF i <= p THEN g[i] ELSE IF i = p + 1 THEN key ELSE g[i - 1]]
           c == [i \in 1..n + 1 |-> IF i <= p THEN b[i] ELSE IF i = p + 1 THEN n + 1 ELSE b[i - 1]]
<1>1. key \in Int /\ Ascends(g, n) /\ Rearranges(b, g, f, n)
  BY DEF Sorts
<1>2. /\ p \in 0..n
      /\ \A i \in 1..n : i <= p => g[i] <= key
      /\ \A i \in 1..n : i > p => g[i] > key
  BY <1>1, PlaceParts
<1>3. Inserted(g, key) = h
  BY DEF Inserted
<1>4. \A i \in 1..n : g[i] \in Int
  BY ElementOfSeq
<1>5. PICK k \in Int : k = f[n + 1]
  OBVIOUS
<1> HIDE DEF p
<1>6. ASSUME NEW i \in 1..n + 1 PROVE h[i] \in Int /\ c[i] \in 1..n + 1 /\ h[i] = f[c[i]]
  <2>1. CASE i <= p
    BY <1>1, <1>2, <1>4, <2>1 DEF Rearranges
  <2>2. CASE i = p + 1
    BY <1>1, <1>2, <2>2
  <2>3. CASE i > p + 1
    <3>1. i - 1 \in 1..n /\ ~(i <= p) /\ i # p + 1
      BY <1>2, <2>3
    <3>2. h[i] = g[i - 1] /\ c[i] = b[i - 1]
      BY <3>1
    <3>3. g[i - 1] = f[b[i - 1]] /\ b[i - 1] \in 1..n /\ g[i - 1] \in Int
      BY <1>1, <1>4, <3>1 DEF Rearranges
    <3> HIDE DEF h, c
    <3> QED
      BY <3>2, <3>3
  <2> QED
    BY <1>2, <2>1, <2>2, <2>3
<1>7. h \in Seq(Int) /\ Len(h) = n + 1
  <2>1. h \in [1..n + 1 -> Int] /\ n + 1 \in Nat
    BY <1>6
  <2>2. h \in Seq(Int)
    BY <2>1, SeqDef
  <2>3. DOMAIN h = 1..n + 1 /\ DOMAIN h = 1..Len(h) /\ Len(h) \in Nat
    BY <2>2, LenProperties
  <2>4. Len(h) = n + 1
    <3> HIDE DEF h
    <3> QED
      BY <2>3
  <2> QED
    BY <2>2, <2>4
<1>8. ASSUME NEW i \in 1..n + 1, NEW j \in 1..n + 1, c[i] = c[j] PROVE i = j
  <2>1. \A l \in 1..n : b[l] \in 1..n
    BY <1>1 DEF Rearranges
  <2>2. \A l, m \in 1..n : b[l] = b[m] => l = m
    BY <1>1 DEF Rearranges
  <2>3. \A l \in 1..n + 1 : \/ l <= p /\ l \in 1..n /\ c[l] = b[l]
                            \/ l = p + 1 /\ c[l] = n + 1
                            \/ l > p + 1 /\ l - 1 \in 1..n /\ c[l] = b[l - 1]
    BY <1>2
  <2> HIDE DEF c
  <2>4. CASE i = p + 1 \/ j = p + 1
    <3>1. \A l \in 1..n : b[l] # n + 1
      BY <2>1
    <3>2. \A l \in 1..n + 1 : l # p + 1 => c[l] # n + 1
      BY <1>2, <2>3, <3>1
    <3>3. c[p + 1] = n + 1
      BY <1>2, <2>3
    <3> QED
      BY <1>2, <1>8, <2>4, <3>2, <3>3
  <2>5. CASE i # p + 1 /\ j # p + 1
    <3>1. CASE i <= p /\ j <= p
      BY <1>2, <1>8, <2>2, <2>3, <3>1
    <3>2. CASE i <= p /\ j > p + 1
      BY <1>2, <1>8, <2>2, <2>3, <3>2, i # j - 1
    <3>3. CASE i > p + 1 /\ j <= p
      BY <1>2, <1>8, <2>2, <2>3, <3>3, j # i - 1
    <3>4. CASE i > p + 1 /\ j > p + 1
      BY <1>2, <1>8, <2>2, <2>3, <3>4
    <3> QED
      BY <1>2, <2>5, <3>1, <3>2, <3>3, <3>4
  <2> QED
    BY <2>4, <2>5
<1>9. ASSUME NEW i \in 1..n + 1, NEW j \in 1..n + 1, i <= j PROVE h[i] <= h[j]
  <2>1. \A l \in 1..n + 1 : \/ l <= p /\ l \in 1..n /\ h[l] = g[l]
                            \/ l = p + 1 /\ h[l] = k
                            \/ l > p + 1 /\ l - 1 \in 1..n /\ h[l] = g[l - 1]
    BY <1>2, <1>5
  <2>2. \A l, m \in 1..n : l <= m => g[l] <= g[m]
    BY <1>1 DEF Ascends
  <2>3. \A l \in 1..n : (l <= p => g[l] <= k) /\ (l > p => g[l] > k)
    BY <1>2, <1>5
  <2> HIDE DEF h
  <2> QED
    BY <1>2, <1>4, <1>5, <1>9, <2>1, <2>2, <2>3
<1>10. Sorts(c, h, f, n + 1)
  <2>1. c \in [1..n + 1 -> 1..n + 1]
    BY <1>6
  <2> HIDE DEF c, h
  <2> QED
    BY <1>6, <1>8, <1>9, <2>1 DEF Sorts, Rearranges, Ascends
<1> QED
  BY <1>3, <1>7, <1>10

(* f[i] is what the sort has after i values.                                  *)
IsSort(f, s, n) ==
  f = [i \in 0..n |-> IF i = 0 THEN <<>> ELSE Inserted(f[i - 1], s[i])]

LEMMA SortExists ==
  ASSUME NEW s, NEW m \in Nat
  PROVE  \E f : IsSort(f, s, m)
<1> DEFINE P == {n \in Nat : \E f : IsSort(f, s, n)}
<1>1. 0 \in P
  <2>1. IsSort([i \in 0..0 |-> <<>>], s, 0)
    BY DEF IsSort
  <2> QED
    BY <2>1
<1>2. ASSUME NEW n \in P PROVE n + 1 \in P
  <2>1. PICK f : IsSort(f, s, n)
    OBVIOUS
  <2> DEFINE h(e, i) == IF i = 0 THEN <<>> ELSE Inserted(e, s[i])
  <2>2. n \in Nat /\ f = [i \in 0..n |-> h(f[i - 1], i)]
    BY <2>1 DEF IsSort
  <2> DEFINE g == [i \in 0..n + 1 |-> IF i = n + 1 THEN h(f[n], n + 1) ELSE f[i]]
  <2>3. \A i \in 0..n + 1 : g[i] = h(g[i - 1], i)
    <3> SUFFICES ASSUME NEW i \in 0..n + 1 PROVE g[i] = h(g[i - 1], i)
      OBVIOUS
    <3>1. CASE i = n + 1
      <4>1. g[i] = h(f[n], n + 1) /\ i - 1 = n /\ n \in 0..n + 1 /\ n # n + 1
        BY <2>2, <3>1
      <4>2. g[n] = f[n]
        BY <4>1
      <4> QED
        BY <3>1, <4>1, <4>2
    <3>2. CASE i \in 1..n
      <4>1. g[i] = f[i] /\ g[i - 1] = f[i - 1] /\ f[i] = h(f[i - 1], i)
        BY <2>2, <3>2
      <4> QED
        BY <4>1
    <3>3. CASE i = 0
      <4>1. g[0] = f[0] /\ f[0] = h(f[0 - 1], 0)
        BY <2>2
      <4> QED
        BY <3>3, <4>1
    <3> QED
      BY <2>2, <3>1, <3>2, <3>3
  <2>4. g = [i \in 0..n + 1 |-> g[i]]
    OBVIOUS
  <2> HIDE DEF g
  <2>5. IsSort(g, s, n + 1)
    BY <2>3, <2>4 DEF IsSort
  <2> QED
    BY <2>2, <2>5
<1> HIDE DEF P
<1>3. P = Nat
  <2>1. P \subseteq Nat
    BY DEF P
  <2> QED
    BY <1>1, <1>2, <2>1, Induction
<1> QED
  BY <1>3 DEF P

(* Sorted sorts.                                                              *)
LEMMA SortedSorts ==
  ASSUME NEW s \in Seq(Int)
  PROVE  /\ Sorted(s) \in Seq(Int) /\ Len(Sorted(s)) = Len(s)
         /\ \E b : Sorts(b, Sorted(s), s, Len(s))
<1> DEFINE sorted == CHOOSE f : f = [i \in 0..Len(s) |-> IF i = 0 THEN <<>> ELSE Inserted(f[i - 1], s[i])]
<1>1. Len(s) \in Nat /\ \A i \in 1..Len(s) : s[i] \in Int
  BY LenProperties, ElementOfSeq
<1>2. \E f : IsSort(f, s, Len(s))
  BY <1>1, SortExists
<1>3. IsSort(sorted, s, Len(s))
  BY <1>2 DEF IsSort
<1>4. Sorted(s) = sorted[Len(s)]
  BY DEF Sorted
<1> HIDE DEF sorted
<1> DEFINE Q(n) == /\ sorted[n] \in Seq(Int) /\ Len(sorted[n]) = n
                   /\ \E b : Sorts(b, sorted[n], s, n)
           P == {n \in Nat : n <= Len(s) => Q(n)}
<1>5. 0 \in P
  <2>1. sorted[0] = <<>>
    BY <1>1, <1>3 DEF IsSort
  <2>2. <<>> \in Seq(Int) /\ Len(<<>>) = 0
    BY EmptySeq
  <2>3. Sorts(<<>>, <<>>, s, 0)
    BY DEF Sorts, Rearranges, Ascends
  <2> QED
    BY <2>1, <2>2, <2>3
<1>6. ASSUME NEW n \in P PROVE n + 1 \in P
  <2> SUFFICES ASSUME n + 1 <= Len(s) PROVE Q(n + 1)
    OBVIOUS
  <2>1. n \in Nat /\ Q(n) /\ n + 1 \in 1..Len(s) /\ n + 1 - 1 = n
    BY <1>1
  <2>2. sorted[n + 1] = Inserted(sorted[n], s[n + 1])
    BY <1>1, <1>3, <2>1 DEF IsSort
  <2>3. PICK b : Sorts(b, sorted[n], s, n)
    BY <2>1
  <2>4. s[n + 1] \in Int
    BY <1>1, <2>1
  <2>5. PICK g \in Seq(Int) : g = sorted[n] /\ Len(g) = n
    BY <2>1
  <2>6. /\ Inserted(g, s[n + 1]) \in Seq(Int) /\ Len(Inserted(g, s[n + 1])) = n + 1
        /\ \E c : Sorts(c, Inserted(g, s[n + 1]), s, n + 1)
    BY <2>1, <2>3, <2>4, <2>5, InsertedSorts
  <2> QED
    BY <2>2, <2>5, <2>6
<1>7. P = Nat
  <2> HIDE DEF P
  <2>1. P \subseteq Nat
    BY DEF P
  <2> QED
    BY <1>5, <1>6, <2>1, Induction
<1>8. Q(Len(s))
  BY <1>1, <1>7
<1> QED
  BY <1>4, <1>8

-----------------------------------------------------------------------------
(* Medians.                                                                   *)

(* The k-th of the ascending values has fewer than k below it, and no fewer   *)
(* than k that are not above: two counts, each by the injection b.            *)
LEMMA MiddleOfSorted ==
  ASSUME NEW n \in Nat, NEW r \in Seq(Int), Len(r) = n, NEW g \in Seq(Int), Len(g) = n,
         NEW b, Sorts(b, g, r, n), NEW k \in 1..n
  PROVE  IsMiddle(g[k], r, k)
<1>1. DOMAIN r = 1..n /\ \A i \in 1..n : r[i] \in Int /\ g[i] \in Int
  BY LenProperties, ElementOfSeq
<1>2. \A i \in 1..n : b[i] \in 1..n /\ g[i] = r[b[i]]
  BY DEF Sorts, Rearranges
<1>3. \A i, j \in 1..n : b[i] = b[j] => i = j
  BY DEF Sorts, Rearranges
<1>4. \A i, j \in 1..n : i <= j => g[i] <= g[j]
  BY DEF Sorts, Ascends
<1>5. PICK x \in Int : x = g[k]
  BY <1>1
<1> DEFINE NotAbove == {i \in 1..n : r[i] <= x}
           Below == {i \in 1..n : r[i] < x}
           NotBelow == {i \in 1..n : ~(r[i] < x)}
<1>6. IsFiniteSet(1..n) /\ Cardinality(1..n) = n
  BY FS_Interval
<1>7. IsFiniteSet(NotAbove) /\ IsFiniteSet(NotBelow)
      /\ Cardinality(NotAbove) \in Nat /\ Cardinality(NotBelow) \in Nat
  BY <1>6, FS_Subset, FS_CardinalityType
<1>8. Cardinality(NotAbove) >= k
  <2> DEFINE m == [i \in 1..k |-> b[i]]
  <2>1. ASSUME NEW i \in 1..k PROVE i \in 1..n /\ b[i] \in NotAbove
    <3>1. i \in 1..n /\ g[i] <= g[k]
      BY <1>4
    <3> QED
      BY <1>1, <1>2, <1>5, <3>1
  <2>2. m \in [1..k -> NotAbove]
    BY <2>1
  <2>3. \A i, j \in 1..k : m[i] = m[j] => i = j
    BY <1>3, <2>1
  <2>4. m \in Injection(1..k, NotAbove)
    <3> HIDE DEF m, NotAbove
    <3> QED
      BY <2>2, <2>3 DEF Injection, IsInjective
  <2>5. Cardinality(1..k) = k
    BY FS_Interval
  <2> HIDE DEF m, NotAbove
  <2>6. Cardinality(1..k) <= Cardinality(NotAbove)
    BY <1>7, <2>4, FS_Injection
  <2> QED
    BY <1>7, <2>5, <2>6
<1>9. Cardinality(NotBelow) >= n - k + 1
  <2> DEFINE m == [i \in k..n |-> b[i]]
  <2>1. ASSUME NEW i \in k..n PROVE i \in 1..n /\ b[i] \in NotBelow
    <3>1. i \in 1..n /\ g[k] <= g[i]
      BY <1>4
    <3> QED
      BY <1>1, <1>2, <1>5, <3>1
  <2>2. m \in [k..n -> NotBelow]
    BY <2>1
  <2>3. \A i, j \in k..n : m[i] = m[j] => i = j
    BY <1>3, <2>1
  <2>4. m \in Injection(k..n, NotBelow)
    <3> HIDE DEF m, NotBelow
    <3> QED
      BY <2>2, <2>3 DEF Injection, IsInjective
  <2>5. Cardinality(k..n) = n - k + 1
    BY FS_Interval
  <2> HIDE DEF m, NotBelow
  <2>6. Cardinality(k..n) <= Cardinality(NotBelow)
    BY <1>7, <2>4, FS_Injection
  <2> QED
    BY <1>7, <2>5, <2>6
<1>10. Cardinality(Below) < k
  <2>1. Below = (1..n) \ NotBelow /\ (1..n) \cap NotBelow = NotBelow
    OBVIOUS
  <2>2. Cardinality((1..n) \ NotBelow) = Cardinality(1..n) - Cardinality((1..n) \cap NotBelow)
    BY <1>6, FS_Difference
  <2>3. Cardinality(Below) = n - Cardinality(NotBelow)
    BY <1>6, <2>1, <2>2
  <2> QED
    BY <1>7, <1>9, <2>3
<1>11. \E i \in 1..n : r[i] = x
  BY <1>2, <1>5
<1> QED
  BY <1>1, <1>5, <1>8, <1>10, <1>11 DEF IsMiddle

(* The place among the readings of what slot i - 1 of the ring holds.         *)
PlaceOf(i, next, n, c) == IF n < c THEN i ELSE IF i - 1 >= next THEN i - next ELSE i - next + c

LEMMA HalvesOf ==
  ASSUME NEW n \in Nat, n > 0
  PROVE  /\ n \div 2 \in Nat
         /\ n % 2 = 1 => n \div 2 + 1 \in 1..n /\ (n + 1) \div 2 = n \div 2 + 1
         /\ n % 2 # 1 => n \div 2 \in 1..n /\ n \div 2 + 1 \in 1..n
<1> DEFINE h == n \div 2
           m == n % 2
<1>1. h \in Int /\ m \in {0, 1} /\ n = 2 * h + m
  OBVIOUS
<1>2. m = 1 => (n + 1) \div 2 = h + 1
  OBVIOUS
<1> HIDE DEF h, m
<1>3. h \in Nat /\ (m = 1 => h + 1 \in 1..n) /\ (m # 1 => h \in 1..n /\ h + 1 \in 1..n)
  BY <1>1
<1> QED
  BY <1>2, <1>3 DEF h, m

LEMMA SumOfInts == ASSUME NEW x \in Int, NEW y \in Int PROVE x + y \in Int
  OBVIOUS

(* However the ring wrapped, sorting it from its first slot on gives the      *)
(* median of the readings.                                                    *)
LEMMA MedianOfReadings ==
  ASSUME NEW c \in Nat \ {0}, NEW s, NEW r \in Seq(Int), Holds(s.samples, s.next, r, c),
         s.count = Len(r), r # <<>>
  PROVE  MedianOutput(s) \in Int /\ IsMedian(MedianOutput(s), r)
<1>1. PICK n \in Nat : n = Len(r) /\ n > 0
  BY LenProperties, EmptySeq
<1>2. PICK w \in [0..c - 1 -> Int] : w = s.samples
  BY DEF Holds
<1>3. PICK next \in 0..c - 1 : next = s.next
  BY DEF Holds
<1>4. n <= c /\ DOMAIN r = 1..n /\ \A i \in 1..n : r[i] \in Int
  BY <1>1, LenProperties, ElementOfSeq DEF Holds
<1>5. PICK t \in Seq(Int) : t = [i \in 1..n |-> w[i - 1]] /\ Len(t) = n
  <2> DEFINE u == [i \in 1..n |-> w[i - 1]]
  <2>1. u \in [1..n -> Int]
    BY <1>4
  <2>2. u \in Seq(Int)
    BY <2>1, SeqDef
  <2>3. DOMAIN u = 1..n /\ DOMAIN u = 1..Len(u) /\ Len(u) \in Nat
    BY <2>2, LenProperties
  <2>4. Len(u) = n
    <3> HIDE DEF u
    <3> QED
      BY <2>3
  <2> QED
    BY <2>2, <2>4
<1>6. PICK g \in Seq(Int) : g = Sorted(t) /\ Len(g) = n
  BY <1>5, SortedSorts
<1>7. PICK b : Sorts(b, g, t, n)
  BY <1>5, <1>6, SortedSorts
<1> DEFINE place(i) == PlaceOf(i, next, n, c)
           d == [i \in 1..n |-> place(b[i])]
<1>8. \A i \in 1..n : b[i] \in 1..n /\ g[i] = t[b[i]]
  BY <1>7 DEF Sorts, Rearranges
<1>9. ASSUME NEW i \in 1..n PROVE place(i) \in 1..n /\ r[place(i)] = t[i]
                                  /\ \A j \in 1..n : place(i) = place(j) => i = j
  <2>1. n \in 1..c
    BY <1>1, <1>4
  <2>2. place(i) \in 1..n /\ SlotOf(place(i), next, n, c) = i - 1
    BY <2>1 DEF PlaceOf, SlotOf
  <2>3. ASSUME NEW j \in 1..n, place(i) = place(j) PROVE i = j
    <3>1. CASE n < c
      BY <2>3, <3>1 DEF PlaceOf
    <3>2. CASE n = c /\ i > next /\ j > next
      <4>1. place(i) = i - next /\ place(j) = j - next
        BY <3>2 DEF PlaceOf
      <4> QED
        BY <2>3, <3>2, <4>1
    <3>5. CASE n = c /\ i <= next /\ j <= next
      <4>1. place(i) = i - next + c /\ place(j) = j - next + c
        BY <3>5 DEF PlaceOf
      <4> QED
        BY <2>3, <3>5, <4>1
    <3>3. CASE n = c /\ i > next /\ j <= next
      <4>1. place(i) = i - next /\ place(j) = j - next + c
        BY <3>3 DEF PlaceOf
      <4> QED
        BY <2>3, <3>3, <4>1
    <3>4. CASE n = c /\ i <= next /\ j > next
      <4>1. place(j) = j - next /\ place(i) = i - next + c
        BY <3>4 DEF PlaceOf
      <4> QED
        BY <2>3, <3>4, <4>1
    <3> QED
      BY <2>1, <3>1, <3>2, <3>3, <3>4, <3>5
  <2> HIDE DEF place
  <2>4. r[place(i)] = w[i - 1]
    BY <1>1, <1>2, <1>3, <2>2 DEF Holds
  <2> QED
    BY <1>5, <2>2, <2>3, <2>4
<1> HIDE DEF place
<1>10. Sorts(d, g, r, n)
  <2>1. d \in [1..n -> 1..n]
    BY <1>8, <1>9
  <2>2. \A i, j \in 1..n : d[i] = d[j] => i = j
    BY <1>7, <1>8, <1>9 DEF Sorts, Rearranges
  <2>3. \A i \in 1..n : g[i] = r[d[i]]
    BY <1>8, <1>9
  <2> QED
    BY <1>7, <2>1, <2>2, <2>3 DEF Sorts, Rearranges
<1>11. \A i \in 1..n : d[i] \in 1..n /\ g[i] = r[d[i]] /\ g[i] \in Int
  BY <1>6, <1>10, ElementOfSeq DEF Sorts, Rearranges
<1> HIDE DEF d
<1>12. \A k \in 1..n : IsMiddle(g[k], r, k)
  BY <1>1, <1>6, <1>10, MiddleOfSorted
<1> DEFINE half == n \div 2
<1>13. /\ half \in Nat
       /\ n % 2 = 1 => half + 1 \in 1..n /\ (n + 1) \div 2 = half + 1
       /\ n % 2 # 1 => half \in 1..n /\ half + 1 \in 1..n
  BY <1>1, HalvesOf
<1>14. MedianOutput(s) = IF n % 2 = 1 THEN g[half + 1]
                         ELSE DivRoundNearest(g[half] + g[half + 1], 2)
  BY <1>1, <1>2, <1>5, <1>6 DEF MedianOutput
<1> HIDE DEF half
<1>15. CASE n % 2 = 1
  <2>1. IsMiddle(g[half + 1], r, (n + 1) \div 2) /\ g[half + 1] \in Int
    BY <1>11, <1>12, <1>13, <1>15
  <2> QED
    BY <1>1, <1>14, <1>15, <2>1 DEF IsMedian
<1>16. CASE n % 2 # 1
  <2>1. PICK m \in Int : m = g[half] + g[half + 1]
    <3>1. g[half] \in Int /\ g[half + 1] \in Int
      BY <1>11, <1>13, <1>16
    <3>2. PICK x \in Int, y \in Int : x = g[half] /\ y = g[half + 1]
      BY <3>1
    <3>3. x + y \in Int
      BY SumOfInts
    <3> QED
      BY <3>2, <3>3
  <2>2. DivRoundNearest(m, 2) \in Int /\ IsNearest(DivRoundNearest(m, 2), m, 2)
    BY RoundedNearest, 2 \in Nat \ {0}
  <2>3. /\ d[half] \in 1..n /\ d[half + 1] \in 1..n
        /\ g[half] = r[d[half]] /\ g[half + 1] = r[d[half + 1]]
    BY <1>11, <1>13, <1>16
  <2>4. IsMiddle(r[d[half]], r, half) /\ IsMiddle(r[d[half + 1]], r, half + 1)
    BY <1>12, <1>13, <1>16, <2>3
  <2>5. MedianOutput(s) = DivRoundNearest(m, 2)
    BY <1>14, <1>16, <2>1
  <2>6. r[d[half]] + r[d[half + 1]] = m
    BY <2>1, <2>3
  <2>7. \E i, j \in DOMAIN r : /\ IsMiddle(r[i], r, half)
                               /\ IsMiddle(r[j], r, half + 1)
                               /\ IsNearest(DivRoundNearest(m, 2), r[i] + r[j], 2)
    BY <1>4, <2>2, <2>3, <2>4, <2>6
  <2> QED
    BY <1>1, <1>16, <2>2, <2>5, <2>7 DEF IsMedian, half
<1> QED
  BY <1>15, <1>16

-----------------------------------------------------------------------------
(* Averages.                                                                  *)

(* A sum lies between its number of values times the least and the greatest.  *)
LEMMA TotalWithin ==
  ASSUME NEW r \in Seq(Int), NEW low \in Int, NEW high \in Int,
         \A k \in 1..Len(r) : low <= r[k] /\ r[k] <= high
  PROVE  low * Len(r) <= Total(r) /\ Total(r) <= high * Len(r)
<1>1. PICK n \in Nat : n = Len(r)
  BY LenProperties
<1>2. PICK f : IsPart(f, r, n) /\ Total(r) = f[n]
  BY <1>1, TotalIsPart
<1>3. \A k \in 1..n : r[k] \in Int /\ low <= r[k] /\ r[k] <= high
  BY <1>1, ElementOfSeq
<1> DEFINE P == {i \in Nat : i <= n => low * i <= f[i] /\ f[i] <= high * i}
<1>4. 0 \in P
  BY <1>2 DEF IsPart
<1>5. ASSUME NEW i \in P PROVE i + 1 \in P
  <2> SUFFICES ASSUME i + 1 <= n PROVE low * (i + 1) <= f[i + 1] /\ f[i + 1] <= high * (i + 1)
    OBVIOUS
  <2>1. i \in Nat /\ i <= n /\ low * i <= f[i] /\ f[i] <= high * i /\ i + 1 \in 1..n
        /\ i + 1 - 1 = i
    OBVIOUS
  <2>2. f[i + 1] = f[i] + r[i + 1] /\ f[i] \in Int
    BY <1>2, <2>1 DEF IsPart
  <2>3. r[i + 1] \in Int /\ low <= r[i + 1] /\ r[i + 1] <= high
    BY <1>3, <2>1
  <2>4. low * (i + 1) = low * i + low /\ high * (i + 1) = high * i + high
    BY <2>1
  <2>5. low * i \in Int /\ high * i \in Int
    BY <2>1
  <2> QED
    BY <2>1, <2>2, <2>3, <2>4, <2>5
<1> HIDE DEF P
<1>6. P = Nat
  <2>1. P \subseteq Nat
    BY DEF P
  <2> QED
    BY <1>4, <1>5, <2>1, Induction
<1>7. low * n <= f[n] /\ f[n] <= high * n
  <2>1. n \in P
    BY <1>6
  <2>2. n <= n => low * n <= f[n] /\ f[n] <= high * n
    BY <2>1, Zenon DEF P
  <2>3. n <= n
    OBVIOUS
  <2> QED
    BY <2>2, <2>3
<1> QED
  BY <1>1, <1>2, <1>7

(* What lies between two integers is rounded to something between them.       *)
LEMMA NearestWithin ==
  ASSUME NEW c \in Nat \ {0}, NEW n \in Int, NEW x \in Int, NEW low \in Int, NEW high \in Int,
         IsNearest(x, n, c), low * c <= n, n <= high * c
  PROVE  low <= x /\ x <= high
<1>1. 2 * Magnitude(n - x * c) <= c
  BY DEF IsNearest, Magnitude
<1>2. PICK p \in Int : p = x * c
  OBVIOUS
<1>3. n - p <= c /\ p - n <= c /\ 2 * (n - p) <= c /\ 2 * (p - n) <= c
  BY <1>1, <1>2 DEF Magnitude
<1>4. ~(x < low)
  <2> SUFFICES ASSUME x < low PROVE FALSE
    OBVIOUS
  <2>1. PICK d \in Nat : low = x + 1 + d
    <3>1. low - x - 1 \in Nat /\ low = x + 1 + (low - x - 1)
      OBVIOUS
    <3> QED
      BY <3>1
  <2>2. low * c = x * c + c + d * c /\ d * c \in Nat
    BY <2>1
  <2> QED
    BY <1>2, <1>3, <2>2
<1>5. ~(high < x)
  <2> SUFFICES ASSUME high < x PROVE FALSE
    OBVIOUS
  <2>1. PICK d \in Nat : x = high + 1 + d
    <3>1. x - high - 1 \in Nat /\ x = high + 1 + (x - high - 1)
      OBVIOUS
    <3> QED
      BY <3>1
  <2>2. x * c = high * c + c + d * c /\ d * c \in Nat
    BY <2>1
  <2> QED
    BY <1>2, <1>3, <2>2
<1> QED
  BY <1>4, <1>5

(* A median is one of the values or the mean of two.                          *)
LEMMA MedianWithin ==
  ASSUME NEW r \in Seq(Int), NEW low \in Int, NEW high \in Int,
         \A k \in 1..Len(r) : low <= r[k] /\ r[k] <= high,
         NEW x \in Int, IsMedian(x, r)
  PROVE  low <= x /\ x <= high
<1>1. DOMAIN r = 1..Len(r) /\ \A k \in 1..Len(r) : r[k] \in Int
  BY LenProperties, ElementOfSeq
<1>2. CASE Len(r) % 2 = 1
  BY <1>1, <1>2 DEF IsMedian, IsMiddle
<1>3. CASE Len(r) % 2 # 1
  <2>1. PICK i, j \in 1..Len(r) : IsNearest(x, r[i] + r[j], 2)
    BY <1>1, <1>3 DEF IsMedian
  <2>2. PICK n \in Int : n = r[i] + r[j]
    BY <1>1, <2>1
  <2>3. low * 2 <= n /\ n <= high * 2
    BY <1>1, <2>2
  <2> QED
    BY <2>1, <2>2, <2>3, NearestWithin, 2 \in Nat \ {0}
<1> QED
  BY <1>2, <1>3

(* A share of a difference, rounded, does not overshoot it, and is nothing    *)
(* only when it is less than half a unit.                                     *)
LEMMA RoundedShare ==
  ASSUME NEW whole \in Nat \ {0}, NEW alpha \in 1..whole, NEW diff \in Int
  PROVE  LET step == DivRoundNearest(alpha * diff, whole)
         IN  /\ step \in Int
             /\ diff >= 0 => 0 <= step /\ step <= diff
             /\ diff <= 0 => diff <= step /\ step <= 0
             /\ step = 0 <=> 2 * alpha * Magnitude(diff) < whole
<1>1. PICK n \in Int : n = alpha * diff
  OBVIOUS
<1>2. PICK step \in Int : step = DivRoundNearest(n, whole) /\ IsNearest(step, n, whole)
  BY RoundedNearest
<1>3. diff >= 0 => 0 * whole <= n /\ n <= diff * whole
  <2> SUFFICES ASSUME diff >= 0 PROVE 0 * whole <= n /\ n <= diff * whole
    OBVIOUS
  <2>1. n >= 0
    BY <1>1
  <2>2. PICK d \in Nat : whole = alpha + d
    BY whole - alpha \in Nat, whole = alpha + (whole - alpha)
  <2>3. diff * whole = n + diff * d /\ diff * d >= 0
    BY <1>1, <2>2
  <2> QED
    BY <2>1, <2>3
<1>4. diff <= 0 => diff * whole <= n /\ n <= 0 * whole
  <2> SUFFICES ASSUME diff <= 0 PROVE diff * whole <= n /\ n <= 0 * whole
    OBVIOUS
  <2>0. PICK m \in Nat : diff = -m
    BY -diff \in Nat, diff = -(-diff)
  <2>1. PICK k \in Nat : k = alpha * m
    BY <2>0
  <2>2. n = -k
    BY <1>1, <2>0, <2>1
  <2>3. PICK d \in Nat : whole = alpha + d
    BY whole - alpha \in Nat, whole = alpha + (whole - alpha)
  <2>4. diff * whole = -(k + m * d) /\ m * d \in Nat
    BY <2>0, <2>1, <2>3
  <2> QED
    BY <2>2, <2>4
<1>5. diff >= 0 => 0 <= step /\ step <= diff
  <2>1. 0 \in Int
    OBVIOUS
  <2> QED
    BY <1>2, <1>3, <2>1, NearestWithin, Zenon
<1>6. diff <= 0 => diff <= step /\ step <= 0
  <2>1. 0 \in Int
    OBVIOUS
  <2> QED
    BY <1>2, <1>4, <2>1, NearestWithin, Zenon
<1>7. 2 * Magnitude(n) = 2 * alpha * Magnitude(diff)
  <2>1. CASE diff >= 0
    <3>1. n >= 0
      BY <1>1, <2>1
    <3> QED
      BY <1>1, <2>1, <3>1 DEF Magnitude
  <2>2. CASE diff < 0
    <3>1. PICK m \in Nat : diff = -m /\ m # 0
      BY <2>2, -diff \in Nat, diff = -(-diff)
    <3>2. n = -(alpha * m) /\ alpha * m > 0
      BY <1>1, <3>1
    <3> QED
      BY <2>2, <3>1, <3>2 DEF Magnitude
  <2> QED
    BY <2>1, <2>2
<1>8. step = 0 <=> 2 * Magnitude(n) < whole
  <2>1. PICK p \in Int : p = step * whole
    OBVIOUS
  <2>2. /\ 2 * Magnitude(n - p) <= whole
        /\ 2 * Magnitude(n - p) = whole => Magnitude(p) > Magnitude(n)
    BY <1>2, <2>1 DEF IsNearest, Magnitude
  <2>3. step = 0 => p = 0
    BY <2>1
  <2>4. step > 0 => p >= whole
    <3> SUFFICES ASSUME step > 0 PROVE p >= whole
      OBVIOUS
    <3>1. p = (step - 1) * whole + whole /\ (step - 1) * whole >= 0
      BY <2>1
    <3> QED
      BY <3>1
  <2>5. step < 0 => p <= -whole
    <3> SUFFICES ASSUME step < 0 PROVE p <= -whole
      OBVIOUS
    <3>1. PICK m \in Nat : step = -m - 1
      BY -step - 1 \in Nat, step = -(-step - 1) - 1
    <3>2. p = -(m * whole) - whole /\ m * whole \in Nat
      BY <2>1, <3>1
    <3> QED
      BY <3>2
  <2>6. step = 0 => 2 * Magnitude(n) < whole
    BY <2>2, <2>3 DEF Magnitude
  <2>7. step # 0 => ~(2 * Magnitude(n) < whole)
    BY <2>2, <2>4, <2>5 DEF Magnitude
  <2> QED
    BY <2>6, <2>7
<1> QED
  BY <1>1, <1>2, <1>5, <1>6, <1>7, <1>8

-----------------------------------------------------------------------------
(* One stage.                                                                 *)

(* What the observers hold after the input v.                                 *)
NextFed(r, v, c) == IF Len(r) = c THEN Append(Tail(r), v) ELSE Append(r, v)
NextRange(g, v, started) ==
  IF started THEN [low  |-> IF v < g.low THEN v ELSE g.low,
                   high |-> IF v > g.high THEN v ELSE g.high]
  ELSE [low |-> v, high |-> v]

(* Of a stage i: its state s, its last inputs r, its last output o and the    *)
(* range g of its inputs.                                                     *)
InRange(r, g) ==
  r # <<>> => /\ g.low \in IntType /\ g.high \in IntType /\ g.low <= g.high
              /\ \A k \in 1..Len(r) : g.low <= r[k] /\ r[k] <= g.high

InputsInRange(i, r, o, g) ==
  /\ r \in Seq(Int) /\ Len(r) <= Window(i) /\ InRange(r, g)
  /\ r # <<>> => o \in IntType

LimitInv(i, s, r, o) ==
  /\ s.started \in BOOLEAN /\ (s.started <=> r # <<>>)
  /\ r # <<>> => s.previous = o /\ o \in Chain[i].min..Chain[i].max

EmaInv(s, r, o, g) ==
  /\ s.started \in BOOLEAN /\ (s.started <=> r # <<>>)
  /\ r # <<>> => s.value = o /\ o \in g.low..g.high

WindowInv(i, s, r, o, g) ==
  /\ Holds(s.samples, s.next, r, Chain[i].window) /\ s.count = Len(r)
  /\ Chain[i].kind = "ma" => s.sum = Total(r)
  /\ r # <<>> =>
       /\ IF Chain[i].kind = "ma" THEN IsNearest(o, Total(r), Len(r)) ELSE IsMedian(o, r)
       /\ o \in g.low..g.high

StageInv(i, s, r, o, g) ==
  /\ InputsInRange(i, r, o, g)
  /\ i \in Limits => LimitInv(i, s, r, o)
  /\ i \in Emas => EmaInv(s, r, o, g)
  /\ i \in Windows => WindowInv(i, s, r, o, g)

(* A row has a field for every stage.                                         *)
IsRow(f) == f = [i \in Stages |-> f[i]]

IInv ==
  /\ at \in 0..Len(Chain)
  /\ at # 0 => signal \in IntType
  /\ IsRow(state) /\ IsRow(fed) /\ IsRow(output) /\ IsRow(range)
  /\ \A i \in Stages : StageInv(i, state[i], fed[i], output[i], range[i])

LEMMA StageKinds ==
  ASSUME NEW i \in Stages
  PROVE  /\ i \in Limits \/ i \in Emas \/ i \in Windows
         /\ i \in Limits => /\ Chain[i].kind = "limit" /\ i \notin Emas /\ i \notin Windows
                            /\ Chain[i].min \in IntType /\ Chain[i].max \in IntType
                            /\ Chain[i].min <= Chain[i].max /\ Chain[i].change \in Nat
         /\ i \in Emas => /\ Chain[i].kind = "ema" /\ i \notin Windows
                          /\ Chain[i].alpha \in 1..Q15One
         /\ i \in Windows => /\ Chain[i].kind = "ma" \/ Chain[i].kind = "median"
                             /\ Chain[i].window \in Nat \ {0}
         /\ Window(i) \in Nat \ {0} /\ (i \in Windows => Window(i) = Chain[i].window)
<1>1. Chain[i] \in StageTypes
  BY ChainAssumption, ElementOfSeq DEF Stages
<1>2. CASE Chain[i] \in [kind : {"limit"}, min : IntType, max : IntType, change : Nat]
  <2>1. Chain[i].kind = "limit" /\ Chain[i].min \in IntType /\ Chain[i].max \in IntType
        /\ Chain[i].change \in Nat
    BY <1>2
  <2>2. i \in Limits /\ i \notin Emas /\ i \notin Windows
    BY <2>1 DEF Limits, Emas, Windows
  <2>3. Chain[i].min <= Chain[i].max /\ Window(i) = 1
    BY <2>2, ChainAssumption DEF Window
  <2> QED
    BY <2>1, <2>2, <2>3
<1>3. CASE Chain[i] \in [kind : {"ema"}, alpha : 1..Q15One]
  <2>1. Chain[i].kind = "ema" /\ Chain[i].alpha \in 1..Q15One
    BY <1>3
  <2>2. i \in Emas /\ i \notin Limits /\ i \notin Windows
    BY <2>1 DEF Limits, Emas, Windows
  <2>3. Window(i) = 1
    BY <2>2 DEF Window
  <2> QED
    BY <2>1, <2>2, <2>3
<1>4. CASE Chain[i] \in [kind : {"ma", "median"}, window : Nat \ {0}]
  <2>1. Chain[i].window \in Nat \ {0} /\ (Chain[i].kind = "ma" \/ Chain[i].kind = "median")
    BY <1>4
  <2>2. i \in Windows /\ i \notin Limits /\ i \notin Emas
    BY <2>1 DEF Limits, Emas, Windows
  <2>3. Window(i) = Chain[i].window
    BY <2>2 DEF Window
  <2> QED
    BY <2>1, <2>2, <2>3
<1> QED
  BY <1>1, <1>2, <1>3, <1>4 DEF StageTypes

(* The inputs a stage has still in its window, with the next one.             *)
LEMMA FedOnce ==
  ASSUME NEW c \in Nat \ {0}, NEW r \in Seq(Int), Len(r) <= c, NEW v \in Int
  PROVE  /\ NextFed(r, v, c) \in Seq(Int) /\ Len(NextFed(r, v, c)) <= c
         /\ NextFed(r, v, c) # <<>>
         /\ \A k \in 1..Len(NextFed(r, v, c)) :
              NextFed(r, v, c)[k] = v \/ \E l \in 1..Len(r) : NextFed(r, v, c)[k] = r[l]
<1>1. PICK n \in Nat : n = Len(r)
  BY LenProperties
<1>2. CASE n = c
  <2>1. r # <<>>
    BY <1>1, <1>2, EmptySeq
  <2>2. /\ Tail(r) \in Seq(Int) /\ Len(Tail(r)) = n - 1
        /\ \A k \in 1..n - 1 : Tail(r)[k] = r[k + 1]
    BY <1>1, <2>1, HeadTailProperties
  <2>3. PICK t \in Seq(Int) : t = Tail(r) /\ Len(t) = n - 1
    BY <2>2
  <2>4. /\ Append(t, v) \in Seq(Int) /\ Len(Append(t, v)) = n
        /\ \A k \in 1..n - 1 : Append(t, v)[k] = t[k]
        /\ Append(t, v)[n] = v
    <3>1. Len(t) + 1 = n
      BY <2>3
    <3> QED
      BY <2>3, <3>1, AppendProperties
  <2>5. PICK u \in Seq(Int) : u = Append(t, v) /\ Len(u) = n
    BY <2>4
  <2>6. ASSUME NEW k \in 1..n PROVE u[k] = v \/ \E l \in 1..n : u[k] = r[l]
    <3>1. CASE k = n
      BY <2>4, <2>5, <3>1
    <3>2. CASE k \in 1..n - 1
      <4>1. u[k] = r[k + 1] /\ k + 1 \in 1..n
        BY <2>2, <2>3, <2>4, <2>5, <3>2
      <4> QED
        BY <4>1
    <3> QED
      BY <3>1, <3>2
  <2>7. u # <<>> /\ n <= c
    BY <1>2, <2>5, EmptySeq
  <2>8. NextFed(r, v, c) = u
    BY <1>1, <1>2, <2>3, <2>5 DEF NextFed
  <2> QED
    BY <1>1, <2>5, <2>6, <2>7, <2>8
<1>3. CASE n # c
  <2>1. /\ Append(r, v) \in Seq(Int) /\ Len(Append(r, v)) = n + 1
        /\ \A k \in 1..n : Append(r, v)[k] = r[k]
        /\ Append(r, v)[n + 1] = v
    BY <1>1, AppendProperties
  <2>2. PICK u \in Seq(Int) : u = Append(r, v) /\ Len(u) = n + 1
    BY <2>1
  <2>3. ASSUME NEW k \in 1..n + 1 PROVE u[k] = v \/ \E l \in 1..n : u[k] = r[l]
    BY <2>1, <2>2
  <2>4. u # <<>> /\ n + 1 <= c
    BY <1>1, <1>3, <2>2, EmptySeq
  <2>5. NextFed(r, v, c) = u
    BY <1>1, <1>3, <2>2 DEF NextFed
  <2> QED
    BY <1>1, <2>2, <2>3, <2>4, <2>5
<1> QED
  BY <1>2, <1>3

(* They are in the range of all inputs, which only grows.                     *)
Wider(g2, g, v, r) ==
  /\ g2.low \in IntType /\ g2.high \in IntType
  /\ g2.low <= v /\ v <= g2.high
  /\ r # <<>> => g2.low <= g.low /\ g.high <= g2.high

LEMMA RangeOnce ==
  ASSUME NEW c \in Nat \ {0}, NEW r \in Seq(Int), Len(r) <= c, NEW g, InRange(r, g),
         NEW v \in IntType
  PROVE  /\ InRange(NextFed(r, v, c), NextRange(g, v, r # <<>>))
         /\ Wider(NextRange(g, v, r # <<>>), g, v, r)
<1> DEFINE r2 == NextFed(r, v, c)
           g2 == NextRange(g, v, r # <<>>)
<1> SUFFICES /\ g2.low \in IntType /\ g2.high \in IntType /\ g2.low <= g2.high
             /\ g2.low <= v /\ v <= g2.high
             /\ r # <<>> => g2.low <= g.low /\ g.high <= g2.high
             /\ \A k \in 1..Len(r2) : g2.low <= r2[k] /\ r2[k] <= g2.high
  BY DEF InRange, Wider
<1>1. v \in Int /\ \A x \in IntType : x \in Int
  BY ChainAssumption DEF IntType
<1>2. \A k \in 1..Len(r2) : r2[k] = v \/ \E l \in 1..Len(r) : r2[k] = r[l]
  BY <1>1, FedOnce
<1> HIDE DEF r2
<1>3. CASE r = <<>>
  <2>1. g2.low = v /\ g2.high = v
    BY <1>3 DEF NextRange
  <2>2. \A k \in 1..Len(r2) : r2[k] = v
    BY <1>2, <1>3, EmptySeq
  <2> QED
    BY <1>1, <1>3, <2>1, <2>2
<1>4. CASE r # <<>>
  <2>1. PICK low \in IntType, high \in IntType : low = g.low /\ high = g.high
    BY <1>4 DEF InRange
  <2>2. /\ low <= high /\ low \in Int /\ high \in Int
        /\ \A l \in 1..Len(r) : r[l] \in Int /\ low <= r[l] /\ r[l] <= high
    BY <1>1, <1>4, <2>1, ElementOfSeq, LenProperties DEF InRange
  <2>3. PICK low2 \in IntType : /\ low2 = (IF v < low THEN v ELSE low)
                                /\ low2 \in Int /\ low2 <= v /\ low2 <= low
    BY <1>1, <2>2
  <2>4. PICK high2 \in IntType : /\ high2 = (IF v > high THEN v ELSE high)
                                 /\ high2 \in Int /\ v <= high2 /\ high <= high2
    BY <1>1, <2>2
  <2>5. g2.low = low2 /\ g2.high = high2
    BY <1>4, <2>1, <2>3, <2>4 DEF NextRange
  <2>6. ASSUME NEW k \in 1..Len(r2) PROVE low2 <= r2[k] /\ r2[k] <= high2
    <3>1. CASE r2[k] = v
      BY <1>1, <2>3, <2>4, <3>1
    <3>2. CASE \E l \in 1..Len(r) : r2[k] = r[l]
      BY <2>2, <2>3, <2>4, <3>2
    <3> QED
      BY <1>2, <3>1, <3>2
  <2> QED
    BY <1>1, <2>1, <2>3, <2>4, <2>5, <2>6
<1> QED
  BY <1>3, <1>4

(* A limit: within the limits and within the change at once.                  *)
LimitKeeps(i, r, o, s2) ==
  /\ s2.started = TRUE /\ s2.previous \in IntType
  /\ s2.previous \in Chain[i].min..Chain[i].max
  /\ r # <<>> => Magnitude(s2.previous - o) <= Chain[i].change

LEMMA LimitOnce ==
  ASSUME NEW i \in Stages, i \in Limits, NEW s, NEW r, NEW o, NEW v \in IntType,
         LimitInv(i, s, r, o)
  PROVE  LimitKeeps(i, r, o, LimitAfter(Chain[i], s, v))
<1> DEFINE s2 == LimitAfter(Chain[i], s, v)
<1>1. /\ v \in Int /\ \A x \in IntType : x \in Int
      /\ \A a, b \in IntType : a..b \subseteq IntType
  BY ChainAssumption DEF IntType
<1>2. PICK min \in IntType, max \in IntType, change \in Nat :
        /\ min = Chain[i].min /\ max = Chain[i].max /\ change = Chain[i].change
        /\ min <= max
  BY StageKinds
<1>3. min \in Int /\ max \in Int
  BY <1>1
<1>4. PICK x \in Int : x = Clamped(Chain[i], v) /\ min <= x /\ x <= max
  <2>1. Clamped(Chain[i], v) = IF v < min THEN min ELSE IF v > max THEN max ELSE v
    BY <1>2 DEF Clamped
  <2> QED
    BY <1>1, <1>2, <1>3, <2>1
<1>5. s2.started = TRUE
      /\ s2.previous = IF s.started THEN Slewed(Chain[i], s.previous, x) ELSE x
  BY <1>4 DEF LimitAfter
<1> HIDE DEF s2
<1>6. CASE r = <<>>
  <2>1. s2.previous = x
    BY <1>5, <1>6 DEF LimitInv
  <2>2. x \in min..max
    BY <1>3, <1>4
  <2> QED
    BY <1>1, <1>2, <1>5, <1>6, <2>1, <2>2 DEF LimitKeeps, s2
<1>7. CASE r # <<>>
  <2>1. PICK p \in Int : p = o /\ s.previous = p /\ min <= p /\ p <= max /\ s.started
    BY <1>2, <1>3, <1>7 DEF LimitInv
  <2>2. s2.previous = IF x > p + change THEN p + change
                      ELSE IF x < p - change THEN p - change ELSE x
    BY <1>2, <1>5, <2>1 DEF Slewed
  <2>3. PICK y \in Int : y = s2.previous /\ min <= y /\ y <= max
                         /\ y - p <= change /\ p - y <= change
    BY <1>3, <1>4, <2>1, <2>2
  <2>4. y \in min..max
    BY <1>3, <2>3
  <2>5. Magnitude(y - p) <= change
    BY <2>3 DEF Magnitude
  <2> QED
    BY <1>1, <1>2, <1>5, <2>1, <2>3, <2>4, <2>5 DEF LimitKeeps, s2
<1> QED
  BY <1>6, <1>7

(* An average: between its value and its input, and nothing is saturated.     *)
EmaKeeps(i, r, o, v, s2, g2) ==
  /\ s2.started = TRUE /\ s2.value \in IntType /\ s2.value \in g2.low..g2.high
  /\ r # <<>> => /\ Magnitude(v - s2.value) <= Magnitude(v - o)
                 /\ (v - o) * (v - s2.value) >= 0
                 /\ s2.value = o <=> 2 * Chain[i].alpha * Magnitude(v - o) < Q15One

LEMMA EmaOnce ==
  ASSUME NEW i \in Stages, i \in Emas, NEW s, NEW r, NEW o, NEW g, InputsInRange(i, r, o, g),
         EmaInv(s, r, o, g), NEW v \in IntType, NEW g2, Wider(g2, g, v, r)
  PROVE  EmaKeeps(i, r, o, v, EmaAfter(Chain[i], s, v), g2)
<1> DEFINE s2 == EmaAfter(Chain[i], s, v)
<1>1. /\ v \in Int /\ \A x \in IntType : x \in Int /\ LeastInt <= x /\ x <= GreatestInt
      /\ \A x \in Int : LeastInt <= x /\ x <= GreatestInt => x \in IntType
      /\ LeastInt \in Int /\ GreatestInt \in Int
  BY ChainAssumption DEF IntType
<1>2. PICK alpha \in 1..Q15One : alpha = Chain[i].alpha
  BY StageKinds
<1>3. PICK low2 \in Int, high2 \in Int :
        low2 = g2.low /\ high2 = g2.high /\ low2 <= v /\ v <= high2
  BY <1>1 DEF Wider
<1>4. CASE r = <<>>
  <2>1. s2.started = TRUE /\ s2.value = v
    BY <1>4 DEF EmaAfter, EmaInv
  <2>2. v \in low2..high2
    BY <1>1, <1>3
  <2> QED
    BY <1>3, <1>4, <2>1, <2>2 DEF EmaKeeps
<1>5. CASE r # <<>>
  <2>1. PICK p \in Int : p = o /\ s.value = p /\ s.started /\ p \in IntType
    BY <1>1, <1>5 DEF EmaInv, InputsInRange
  <2>2. low2 <= p /\ p <= high2
    <3>1. PICK low \in Int, high \in Int : low = g.low /\ high = g.high
      BY <1>1, <1>5 DEF InputsInRange, InRange
    <3>2. p \in low..high /\ low2 <= low /\ high <= high2
      BY <1>3, <1>5, <2>1, <3>1 DEF EmaInv, Wider
    <3> QED
      BY <3>1, <3>2
  <2>3. PICK diff \in Int : diff = v - p
    BY <1>1
  <2>4. PICK step \in Int : step = DivRoundNearest(alpha * diff, Q15One)
    BY RoundedShare DEF Q15One
  <2>5. /\ diff >= 0 => 0 <= step /\ step <= diff
        /\ diff <= 0 => diff <= step /\ step <= 0
        /\ step = 0 <=> 2 * alpha * Magnitude(diff) < Q15One
    <3>1. PICK whole \in Nat \ {0} : whole = Q15One
      BY DEF Q15One
    <3>2. alpha \in 1..whole /\ step = DivRoundNearest(alpha * diff, whole)
      BY <2>4, <3>1
    <3>3. /\ diff >= 0 => 0 <= step /\ step <= diff
          /\ diff <= 0 => diff <= step /\ step <= 0
          /\ step = 0 <=> 2 * alpha * Magnitude(diff) < whole
      BY <3>2, RoundedShare
    <3> QED
      BY <3>1, <3>3
  <2>6. PICK y \in Int : /\ y = p + step /\ LeastInt <= y /\ y <= GreatestInt
                         /\ low2 <= y /\ y <= high2
    BY <1>1, <1>3, <2>1, <2>2, <2>3, <2>5
  <2>7. s2.started = TRUE /\ s2.value = y
    <3>1. Adjustment(Chain[i], p, v) = step
      BY <1>2, <2>3, <2>4 DEF Adjustment
    <3>2. Saturated(y, LeastInt, GreatestInt) = y
      BY <1>1, <2>6 DEF Saturated
    <3> QED
      BY <2>1, <2>6, <3>1, <3>2 DEF EmaAfter
  <2>8. y \in IntType /\ y \in low2..high2
    BY <1>1, <1>3, <2>6
  <2>9. Magnitude(v - y) <= Magnitude(v - p)
    BY <1>1, <2>3, <2>5, <2>6 DEF Magnitude
  <2>10. (v - p) * (v - y) >= 0
    <3>1. PICK rest \in Int : rest = v - y /\ rest = diff - step
      BY <1>1, <2>3, <2>6
    <3>2. CASE diff >= 0
      <4>1. diff \in Nat /\ rest \in Nat
        BY <2>5, <3>1, <3>2
      <4> QED
        BY <2>3, <3>1, <4>1
    <3>3. CASE diff < 0
      <4>1. PICK d \in Nat, e \in Nat : diff = -d /\ rest = -e
        <5>1. -diff \in Nat /\ -rest \in Nat /\ diff = -(-diff) /\ rest = -(-rest)
          BY <2>5, <3>1, <3>3
        <5> QED
          BY <5>1
      <4>2. diff * rest = d * e /\ d * e \in Nat
        BY <4>1
      <4> QED
        BY <2>3, <3>1, <4>2
    <3> QED
      BY <3>2, <3>3
  <2>11. y = p <=> 2 * alpha * Magnitude(v - p) < Q15One
    BY <2>3, <2>5, <2>6
  <2> QED
    BY <1>2, <1>3, <2>1, <2>7, <2>8, <2>9, <2>10, <2>11 DEF EmaKeeps
<1> QED
  BY <1>4, <1>5

(* A window: the ring, the running sum and what is made of them.              *)
LEMMA WindowOnce ==
  ASSUME NEW i \in Stages, i \in Windows, NEW s, NEW r \in Seq(Int), NEW o, NEW g,
         WindowInv(i, s, r, o, g), NEW v \in IntType,
         NEW r2, r2 = NextFed(r, v, Window(i)), NEW g2, InRange(r2, g2),
         NEW s2, s2 = After(Chain[i], s, v)
  PROVE  /\ WindowInv(i, s2, r2, Output(Chain[i], s2), g2)
         /\ Output(Chain[i], s2) \in IntType
<1>1. PICK c \in Nat \ {0} : c = Chain[i].window /\ c = Window(i)
  BY StageKinds
<1>2. v \in Int /\ \A x \in IntType : x \in Int
  BY ChainAssumption DEF IntType
<1>3. PICK n \in Nat : n = Len(r) /\ s.count = n /\ n <= c
  BY <1>1, LenProperties DEF WindowInv, Holds
<1>4. Holds(s.samples, s.next, r, c)
  BY <1>1 DEF WindowInv
<1>5. PICK w \in [0..c - 1 -> Int], next \in 0..c - 1 : w = s.samples /\ next = s.next
  BY <1>4 DEF Holds
<1> DEFINE m == IF n < c THEN n + 1 ELSE n
           out == IF n = c THEN w[next] ELSE 0
<1>6. /\ r2 \in Seq(Int) /\ r2 # <<>> /\ Len(r2) = m
      /\ Holds(Overwritten(w, next, v), NextIn(next, c), r2, c)
      /\ Total(r2) = Total(r) + v - out
  <2>1. CASE n < c
    <3>1. Len(r) < c /\ Holds(w, next, r, c) /\ r2 = Append(r, v)
      BY <1>1, <1>3, <1>4, <1>5, <2>1 DEF NextFed
    <3>2. /\ Append(r, v) \in Seq(Int) /\ Append(r, v) # <<>>
          /\ Len(Append(r, v)) = Len(r) + 1
          /\ Total(Append(r, v)) = Total(r) + v
          /\ Holds(Overwritten(w, next, v), NextIn(next, c), Append(r, v), c)
      BY <1>2, <3>1, RingFills
    <3>3. Total(r) \in Int
      BY <1>2, TotalAppend
    <3> QED
      BY <1>2, <1>3, <2>1, <3>1, <3>2, <3>3
  <2>2. CASE n = c
    <3>1. Len(r) = c /\ Holds(w, next, r, c) /\ r2 = Append(Tail(r), v)
      BY <1>1, <1>3, <1>4, <1>5, <2>2 DEF NextFed
    <3>2. /\ r2 \in Seq(Int) /\ r2 # <<>>
          /\ Holds(Overwritten(w, next, v), NextIn(next, c), r2, c)
      BY <1>2, <3>1, RingTurns
    <3>3. Len(r2) = c /\ Total(r2) = Total(r) + v - w[next]
      BY <1>2, <3>1, RingTurns
    <3> QED
      BY <2>2, <3>2, <3>3
  <2> QED
    BY <1>3, <2>1, <2>2
<1>7. m \in Nat \ {0}
  BY <1>1, <1>3
<1>8. PICK low \in Int, high \in Int : /\ low = g2.low /\ high = g2.high
                                       /\ low \in IntType /\ high \in IntType
                                       /\ \A x \in Int : low <= x /\ x <= high =>
                                            x \in IntType /\ x \in low..high
  <2>1. PICK low \in IntType, high \in IntType : low = g2.low /\ high = g2.high
    BY <1>6 DEF InRange
  <2>2. low \in Int /\ high \in Int
    BY <1>2
  <2>3. \A x \in Int : low <= x /\ x <= high => x \in IntType /\ x \in low..high
    BY <2>2, ChainAssumption DEF IntType
  <2> QED
    BY <2>1, <2>2, <2>3
<1>9. \A k \in 1..m : low <= r2[k] /\ r2[k] <= high /\ r2[k] \in Int
  BY <1>6, <1>7, <1>8, ElementOfSeq DEF InRange
<1>10. NextIndex(Chain[i], next) = NextIn(next, c)
  BY <1>1 DEF NextIndex, NextIn
<1> HIDE DEF m, out
<1>11. CASE Chain[i].kind = "ma"
  <2>1. s2 = MaAfter(Chain[i], s, v)
    BY <1>11 DEF After
  <2>2. WindowFull(Chain[i], s) <=> n = c
    BY <1>1, <1>3 DEF WindowFull
  <2>3. s2.samples = Overwritten(w, next, v) /\ s2.next = NextIn(next, c)
    BY <1>5, <1>10, <2>1 DEF MaAfter, Overwritten
  <2>4. s2.count = m
    BY <1>3, <2>1, <2>2 DEF MaAfter, m
  <2>5. s2.sum = Total(r2)
    <3>1. s.sum = Total(r)
      BY <1>11 DEF WindowInv
    <3>2. s2.sum = Total(r) + v - out
      BY <1>5, <2>1, <2>2, <3>1 DEF MaAfter, out
    <3> QED
      BY <1>6, <3>2
  <2>6. PICK t \in Int : t = Total(r2)
    BY <1>2, <1>6, TotalAppend
  <2>7. PICK x \in Int : x = DivRoundNearest(t, m) /\ IsNearest(x, t, m)
    BY <1>7, RoundedNearest
  <2>8. Output(Chain[i], s2) = x
    BY <1>11, <2>4, <2>5, <2>6, <2>7 DEF Output, MaOutput
  <2>9. low * m <= t /\ t <= high * m
    <3>1. \A k \in 1..Len(r2) : low <= r2[k] /\ r2[k] <= high
      BY <1>6, <1>9
    <3>2. low * Len(r2) <= Total(r2) /\ Total(r2) <= high * Len(r2)
      BY <1>6, <3>1, TotalWithin
    <3> QED
      BY <1>6, <2>6, <3>2
  <2>10. low <= x /\ x <= high
    BY <1>7, <2>7, <2>9, NearestWithin
  <2>11. x \in low..high /\ x \in IntType
    BY <1>8, <2>10
  <2> QED
    BY <1>1, <1>6, <1>8, <1>11, <2>3, <2>4, <2>5, <2>6, <2>7, <2>8, <2>11 DEF WindowInv
<1>12. CASE Chain[i].kind = "median"
  <2>1. s2 = MedianAfter(Chain[i], s, v)
    BY <1>12 DEF After
  <2>2. s2.samples = Overwritten(w, next, v) /\ s2.next = NextIn(next, c)
    BY <1>5, <1>10, <2>1 DEF MedianAfter, Overwritten
  <2>3. s2.count = m
    BY <1>1, <1>3, <2>1 DEF MedianAfter, m
  <2>4. PICK x \in Int : x = MedianOutput(s2) /\ IsMedian(x, r2)
    BY <1>6, <2>2, <2>3, MedianOfReadings
  <2>5. Output(Chain[i], s2) = x
    BY <1>12, <2>4 DEF Output
  <2>6. low <= x /\ x <= high
    BY <1>6, <1>8, <1>9, <2>4, MedianWithin
  <2>7. x \in low..high /\ x \in IntType
    BY <1>8, <2>6
  <2> QED
    BY <1>1, <1>6, <1>8, <1>12, <2>2, <2>3, <2>4, <2>5, <2>7 DEF WindowInv
<1> QED
  BY <1>11, <1>12, StageKinds

LEMMA StageOnce ==
  ASSUME NEW i \in Stages, NEW s, NEW r, NEW o, NEW g, StageInv(i, s, r, o, g),
         NEW v \in IntType,
         NEW s2, s2 = After(Chain[i], s, v), NEW r2, r2 = NextFed(r, v, Window(i)),
         NEW g2, g2 = NextRange(g, v, r # <<>>)
  PROVE  StageInv(i, s2, r2, Output(Chain[i], s2), g2) /\ Output(Chain[i], s2) \in IntType
<1>1. r \in Seq(Int) /\ Len(r) <= Window(i) /\ Window(i) \in Nat \ {0}
  BY StageKinds DEF StageInv, InputsInRange
<1>2. v \in Int
  BY ChainAssumption DEF IntType
<1>3. r2 \in Seq(Int) /\ Len(r2) <= Window(i) /\ r2 # <<>>
  BY <1>1, <1>2, FedOnce
<1>4. InputsInRange(i, r, o, g) /\ InRange(r, g)
  BY DEF StageInv, InputsInRange
<1>5. InRange(r2, g2) /\ Wider(g2, g, v, r)
  BY <1>1, <1>4, RangeOnce
<1> DEFINE o2 == Output(Chain[i], s2)
<1>6. ASSUME o2 \in IntType PROVE InputsInRange(i, r2, o2, g2)
  BY <1>3, <1>5, <1>6 DEF InputsInRange
<1>7. CASE i \in Limits
  <2>1. Chain[i].kind = "limit" /\ i \notin Emas /\ i \notin Windows
    BY <1>7, StageKinds
  <2>2. s2 = LimitAfter(Chain[i], s, v) /\ o2 = s2.previous
    BY <2>1 DEF After, Output
  <2>3. LimitInv(i, s, r, o)
    BY <1>7 DEF StageInv
  <2>4. LimitInv(i, s2, r2, s2.previous) /\ s2.previous \in IntType
    <3>1. LimitKeeps(i, r, o, s2)
      BY <1>7, <2>2, <2>3, LimitOnce
    <3> QED
      BY <1>3, <3>1 DEF LimitKeeps, LimitInv
  <2> QED
    BY <1>6, <2>1, <2>2, <2>4 DEF StageInv
<1>8. CASE i \in Emas
  <2>1. Chain[i].kind = "ema" /\ i \notin Limits /\ i \notin Windows
    BY <1>8, StageKinds
  <2>2. s2 = EmaAfter(Chain[i], s, v) /\ o2 = s2.value
    BY <2>1 DEF After, Output
  <2>3. EmaInv(s, r, o, g)
    BY <1>8 DEF StageInv
  <2>4. EmaInv(s2, r2, s2.value, g2) /\ s2.value \in IntType
    <3>1. EmaKeeps(i, r, o, v, s2, g2)
      BY <1>4, <1>5, <1>8, <2>2, <2>3, EmaOnce
    <3> QED
      BY <1>3, <3>1 DEF EmaKeeps, EmaInv
  <2> QED
    BY <1>6, <2>1, <2>2, <2>4 DEF StageInv
<1>9. CASE i \in Windows
  <2>1. i \notin Limits /\ i \notin Emas
    BY <1>9, StageKinds
  <2>2. WindowInv(i, s, r, o, g)
    BY <1>9 DEF StageInv
  <2>3. WindowInv(i, s2, r2, o2, g2) /\ o2 \in IntType
    BY <1>1, <1>5, <1>9, <2>2, WindowOnce
  <2> QED
    BY <1>6, <2>1, <2>3 DEF StageInv
<1> QED
  BY <1>7, <1>8, <1>9, StageKinds

LEMMA StageAtStart ==
  ASSUME NEW i \in Stages
  PROVE  StageInv(i, StageInit(Chain[i]), <<>>, 0, [low |-> 0, high |-> 0])
<1>1. <<>> \in Seq(Int) /\ Len(<<>>) = 0 /\ Window(i) \in Nat \ {0}
  BY EmptySeq, StageKinds
<1>2. InputsInRange(i, <<>>, 0, [low |-> 0, high |-> 0])
  BY <1>1 DEF InputsInRange, InRange
<1>3. CASE i \in Limits
  <2>1. StageInit(Chain[i]) = LimitInit
    BY <1>3, StageKinds DEF StageInit
  <2>2. LimitInv(i, StageInit(Chain[i]), <<>>, 0)
    BY <2>1 DEF LimitInv, LimitInit
  <2> QED
    BY <1>2, <1>3, <2>2, StageKinds DEF StageInv
<1>4. CASE i \in Emas
  <2>1. StageInit(Chain[i]) = EmaInit
    BY <1>4, StageKinds DEF StageInit
  <2>2. EmaInv(StageInit(Chain[i]), <<>>, 0, [low |-> 0, high |-> 0])
    BY <2>1 DEF EmaInv, EmaInit
  <2> QED
    BY <1>2, <1>4, <2>2, StageKinds DEF StageInv
<1>5. CASE i \in Windows
  <2>1. PICK c \in Nat \ {0} : c = Chain[i].window
    BY <1>5, StageKinds
  <2> DEFINE s == StageInit(Chain[i])
             w == [k \in 0..c - 1 |-> 0]
  <2>2. s.samples = w /\ s.count = 0 /\ s.next = 0 /\ (Chain[i].kind = "ma" => s.sum = 0)
    <3>1. CASE Chain[i].kind = "ma"
      BY <2>1, <3>1 DEF StageInit, MaInit
    <3>2. CASE Chain[i].kind = "median"
      BY <2>1, <3>2 DEF StageInit, MedianInit
    <3> QED
      BY <1>5, <3>1, <3>2, StageKinds
  <2>3. Holds(w, 0, <<>>, c)
    <3>1. w \in [0..c - 1 -> Int] /\ 0 \in 0..c - 1 /\ Len(<<>>) <= c /\ 1..Len(<<>>) = {}
      BY <1>1
    <3> QED
      BY <1>1, <3>1 DEF Holds
  <2>4. Total(<<>>) = 0
    BY <1>1, TotalIsPart DEF IsPart
  <2>5. WindowInv(i, s, <<>>, 0, [low |-> 0, high |-> 0])
    BY <1>1, <2>1, <2>2, <2>3, <2>4 DEF WindowInv
  <2> QED
    BY <1>2, <1>5, <2>5, StageKinds DEF StageInv
<1> QED
  BY <1>3, <1>4, <1>5, StageKinds

-----------------------------------------------------------------------------
(* The chain.                                                                 *)

LEMMA LengthOfChain == Len(Chain) \in Nat \ {0} /\ Stages = 1..Len(Chain)
  BY ChainAssumption, LenProperties, EmptySeq DEF Stages

LEMMA RowsAtStart ==
  /\ IsRow(Fresh) /\ IsRow(NothingFed) /\ IsRow(Zeros) /\ IsRow(NoRange)
  /\ \A i \in Stages : StageInv(i, Fresh[i], NothingFed[i], Zeros[i], NoRange[i])
<1>1. IsRow(Fresh) /\ IsRow(NothingFed) /\ IsRow(Zeros) /\ IsRow(NoRange)
  BY DEF IsRow, Fresh, NothingFed, Zeros, NoRange
<1>2. ASSUME NEW i \in Stages
      PROVE  StageInv(i, Fresh[i], NothingFed[i], Zeros[i], NoRange[i])
  <2>1. /\ Fresh[i] = StageInit(Chain[i]) /\ NothingFed[i] = <<>> /\ Zeros[i] = 0
        /\ NoRange[i] = [low |-> 0, high |-> 0]
    BY DEF Fresh, NothingFed, Zeros, NoRange
  <2> QED
    BY <2>1, StageAtStart
<1> QED
  BY <1>1, <1>2

LEMMA IInvInit == Init => IInv
<1> SUFFICES ASSUME Init PROVE IInv
  OBVIOUS
<1>1. at \in 0..Len(Chain) /\ at = 0
  BY LengthOfChain DEF Init
<1> QED
  BY <1>1, RowsAtStart DEF Init, IInv

(* What a step of the stage i does to every field.                            *)
LEMMA StageStep ==
  ASSUME IInv, NEW i \in Stages, ProcessStage(i)
  PROVE  /\ IsRow(state)' /\ IsRow(fed)' /\ IsRow(output)' /\ IsRow(range)'
         /\ signal \in IntType
         /\ state'[i] = After(Chain[i], state[i], signal)
         /\ fed'[i] = NextFed(fed[i], signal, Window(i))
         /\ output'[i] = Output(Chain[i], state'[i]) /\ output'[i] = signal'
         /\ range'[i] = NextRange(range[i], signal, fed[i] # <<>>)
         /\ \A j \in Stages : j # i => /\ state'[j] = state[j] /\ fed'[j] = fed[j]
                                       /\ output'[j] = output[j] /\ range'[j] = range[j]
<1>1. IsRow(state) /\ IsRow(fed) /\ IsRow(output) /\ IsRow(range)
  BY DEF IInv
<1>2. signal \in IntType
  BY LengthOfChain DEF IInv, ProcessStage
<1> DEFINE s == After(Chain[i], state[i], signal)
<1>3. state' = [state EXCEPT ![i] = s] /\ output' = [output EXCEPT ![i] = Output(Chain[i], s)]
      /\ signal' = Output(Chain[i], s)
  BY DEF ProcessStage
<1>4. fed' = [fed EXCEPT ![i] = NextFed(fed[i], signal, Window(i))]
  BY DEF ProcessStage, NextFed
<1>5. range' = [range EXCEPT ![i] = NextRange(range[i], signal, fed[i] # <<>>)]
  BY DEF ProcessStage, NextRange, Started
<1> HIDE DEF s
<1>6. IsRow(state)' /\ state'[i] = s /\ \A j \in Stages : j # i => state'[j] = state[j]
  BY <1>1, <1>3 DEF IsRow
<1>7. IsRow(output)' /\ output'[i] = Output(Chain[i], s)
      /\ \A j \in Stages : j # i => output'[j] = output[j]
  BY <1>1, <1>3 DEF IsRow
<1>8. IsRow(fed)' /\ fed'[i] = NextFed(fed[i], signal, Window(i))
      /\ \A j \in Stages : j # i => fed'[j] = fed[j]
  BY <1>1, <1>4 DEF IsRow
<1>9. IsRow(range)' /\ range'[i] = NextRange(range[i], signal, fed[i] # <<>>)
      /\ \A j \in Stages : j # i => range'[j] = range[j]
  BY <1>1, <1>5 DEF IsRow
<1> QED
  BY <1>2, <1>3, <1>6, <1>7, <1>8, <1>9 DEF s

LEMMA IInvNext == IInv /\ [Next]_vars => IInv'
<1> SUFFICES ASSUME IInv, [Next]_vars PROVE IInv'
  OBVIOUS
<1>1. ASSUME NEW input \in Values, Process(input) PROVE IInv'
  <2>1. at' \in 0..Len(Chain) /\ signal' \in IntType
    BY <1>1, LengthOfChain, ChainAssumption DEF Process
  <2> QED
    BY <1>1, <2>1 DEF Process, IInv, IsRow
<1>2. ASSUME NEW i \in Stages, ProcessStage(i) PROVE IInv'
  <2>0. StageInv(i, state'[i], fed'[i], output'[i], range'[i]) /\ output'[i] \in IntType
    <3>1. StageInv(i, state[i], fed[i], output[i], range[i])
      BY DEF IInv
    <3>2. /\ signal \in IntType
          /\ state'[i] = After(Chain[i], state[i], signal)
          /\ fed'[i] = NextFed(fed[i], signal, Window(i))
          /\ output'[i] = Output(Chain[i], state'[i])
          /\ range'[i] = NextRange(range[i], signal, fed[i] # <<>>)
      BY <1>2, StageStep
    <3>3. /\ StageInv(i, state'[i], fed'[i], Output(Chain[i], state'[i]), range'[i])
          /\ Output(Chain[i], state'[i]) \in IntType
      BY <3>1, <3>2, StageOnce, Zenon
    <3> QED
      BY <3>2, <3>3, Zenon
  <2>1. ASSUME NEW j \in Stages
        PROVE  StageInv(j, state'[j], fed'[j], output'[j], range'[j])
    <3>1. CASE j = i
      BY <2>0, <3>1
    <3>2. CASE j # i
      BY <1>2, <3>2, StageStep DEF IInv
    <3> QED
      BY <3>1, <3>2
  <2>3. at' \in 0..Len(Chain)
    BY <1>2, LengthOfChain DEF ProcessStage
  <2>4. /\ IsRow(state)' /\ IsRow(fed)' /\ IsRow(output)' /\ IsRow(range)'
        /\ output'[i] = signal'
    BY <1>2, StageStep
  <2> QED
    BY <2>0, <2>1, <2>3, <2>4 DEF IInv
<1>3. ASSUME Reset PROVE IInv'
  <2>1. /\ state' = Fresh /\ fed' = NothingFed /\ output' = Zeros /\ range' = NoRange
        /\ at' = at /\ at = 0
    BY <1>3 DEF Reset
  <2>2. IsRow(state)' /\ IsRow(fed)' /\ IsRow(output)' /\ IsRow(range)'
    BY <2>1, RowsAtStart DEF IsRow
  <2>3. \A i \in Stages : StageInv(i, state'[i], fed'[i], output'[i], range'[i])
    BY <2>1, RowsAtStart
  <2> QED
    BY <2>1, <2>2, <2>3 DEF IInv
<1>4. CASE UNCHANGED vars
  BY <1>4 DEF vars, IInv, IsRow
<1> QED
  BY <1>1, <1>2, <1>3, <1>4 DEF Next

LEMMA IInvHolds == Spec => []IInv
  BY IInvInit, IInvNext, PTL DEF Spec

(* However often the rings wrapped and the chain was reset: a moving average   *)
(* is the rounded mean, and a median the median, of exactly the last inputs.   *)
THEOREM WindowsCorrect == Spec => []WindowOutputs
<1>1. IInv => WindowOutputs
  <2> SUFFICES ASSUME IInv, NEW i \in Windows, Started(i)
               PROVE  IF Chain[i].kind = "ma"
                      THEN IsNearest(output[i], Total(fed[i]), Len(fed[i]))
                      ELSE IsMedian(output[i], fed[i])
    BY DEF WindowOutputs
  <2>1. i \in Stages /\ WindowInv(i, state[i], fed[i], output[i], range[i])
    BY DEF IInv, StageInv, Windows
  <2> QED
    BY <2>1 DEF WindowInv, Started
<1> QED
  BY <1>1, IInvHolds, PTL

(* No smoothing stage, that is no median, moving average or exponential       *)
(* average, hands on more than the greatest or less than the least of its     *)
(* inputs since the reset.  Of a limit stage it would be false.               *)
THEOREM HullCorrect == Spec => []HullKept
<1>1. IInv => HullKept
  <2> SUFFICES ASSUME IInv, NEW i \in Windows \cup Emas, Started(i)
               PROVE  output[i] \in range[i].low..range[i].high
    BY DEF HullKept
  <2>1. CASE i \in Windows
    <3>1. i \in Stages /\ WindowInv(i, state[i], fed[i], output[i], range[i])
      BY <2>1 DEF IInv, StageInv, Windows
    <3> QED
      BY <3>1 DEF WindowInv, Started
  <2>2. CASE i \in Emas
    <3>1. i \in Stages /\ EmaInv(state[i], fed[i], output[i], range[i])
      BY <2>2 DEF IInv, StageInv, Emas
    <3> QED
      BY <3>1 DEF EmaInv, Started
  <2> QED
    BY <2>1, <2>2
<1> QED
  BY <1>1, IInvHolds, PTL

(* Every output of a limit is within its limits, and within its change of the *)
(* output before.                                                             *)
THEOREM LimitCorrect == Spec => LimitRespected
<1> DEFINE Respected(i) ==
      Started(i)' => /\ output'[i] \in Chain[i].min..Chain[i].max
                     /\ Started(i) => Magnitude(output'[i] - output[i]) <= Chain[i].change
<1>1. IInv /\ [Next]_vars => [\A i \in Limits : Respected(i)]_vars
  <2> SUFFICES ASSUME IInv, Next, NEW i \in Limits, Started(i)' PROVE Respected(i)
    OBVIOUS
  <2>1. i \in Stages /\ LimitInv(i, state[i], fed[i], output[i])
    BY DEF IInv, StageInv, Limits
  <2>2. fed'[i] # <<>>
    BY DEF Started
  <2>3. CASE output'[i] = output[i] /\ fed'[i] = fed[i]
    <3>1. output[i] \in Chain[i].min..Chain[i].max
      BY <2>1, <2>2, <2>3 DEF LimitInv
    <3>2. output[i] - output[i] = 0 /\ Chain[i].change \in Nat
      BY <2>1, <3>1, StageKinds, ChainAssumption DEF IntType
    <3> QED
      BY <2>3, <3>1, <3>2 DEF Magnitude
  <2>4. CASE ProcessStage(i)
    <3>1. /\ signal \in IntType /\ state'[i] = After(Chain[i], state[i], signal)
          /\ output'[i] = Output(Chain[i], state'[i])
      BY <2>1, <2>4, StageStep
    <3>2. state'[i] = LimitAfter(Chain[i], state[i], signal) /\ output'[i] = state'[i].previous
      BY <2>1, <3>1, StageKinds DEF After, Output
    <3>3. LimitKeeps(i, fed[i], output[i], state'[i])
      BY <2>1, <3>1, <3>2, LimitOnce
    <3> QED
      BY <3>2, <3>3 DEF Started, LimitKeeps
  <2>5. ASSUME NEW j \in Stages, j # i, ProcessStage(j)
        PROVE  output'[i] = output[i] /\ fed'[i] = fed[i]
    BY <2>1, <2>5, StageStep
  <2>6. ASSUME NEW input \in Values, Process(input)
        PROVE  output'[i] = output[i] /\ fed'[i] = fed[i]
    BY <2>6 DEF Process
  <2>7. ~Reset
    BY <2>1, <2>2 DEF Reset, NothingFed
  <2> QED
    BY <2>3, <2>4, <2>5, <2>6, <2>7 DEF Next
<1> QED
  BY <1>1, IInvHolds, PTL DEF Spec, LimitRespected

(* The average moves towards its input without overshoot, and stands still    *)
(* only when the step would be less than half a unit.                         *)
THEOREM EmaCorrect == Spec => EmaApproaches
<1> DEFINE Approaches(i) ==
      at = i /\ Started(i) =>
        LET input  == signal
            before == input - output[i]
            after  == input - output'[i]
        IN
        /\ Magnitude(after) <= Magnitude(before)
        /\ before * after >= 0
        /\ output'[i] = output[i] <=> 2 * Chain[i].alpha * Magnitude(before) < Q15One
<1>1. IInv /\ [Next]_vars => [\A i \in Emas : Approaches(i)]_vars
  <2> SUFFICES ASSUME IInv, Next, NEW i \in Emas, at = i, Started(i) PROVE Approaches(i)
    OBVIOUS
  <2>1. i \in Stages /\ EmaInv(state[i], fed[i], output[i], range[i])
    BY DEF IInv, StageInv, Emas
  <2>2. at # 0 /\ fed[i] # <<>>
    BY <2>1, LengthOfChain DEF Started
  <2>3. ProcessStage(i)
    BY <2>2 DEF Next, Process, ProcessStage, Reset
  <2>4. /\ signal \in IntType /\ state'[i] = After(Chain[i], state[i], signal)
        /\ output'[i] = Output(Chain[i], state'[i])
        /\ fed'[i] = NextFed(fed[i], signal, Window(i))
        /\ range'[i] = NextRange(range[i], signal, fed[i] # <<>>)
    BY <2>1, <2>3, StageStep
  <2>5. state'[i] = EmaAfter(Chain[i], state[i], signal) /\ output'[i] = state'[i].value
    BY <2>1, <2>4, StageKinds DEF After, Output
  <2>6. InputsInRange(i, fed[i], output[i], range[i])
    BY <2>1 DEF IInv, StageInv
  <2>7. Wider(range'[i], range[i], signal, fed[i])
    BY <2>1, <2>4, <2>6, RangeOnce, StageKinds DEF InputsInRange
  <2>8. EmaKeeps(i, fed[i], output[i], signal, state'[i], range'[i])
    BY <2>1, <2>4, <2>5, <2>6, <2>7, EmaOnce
  <2>9. /\ Magnitude(signal - output'[i]) <= Magnitude(signal - output[i])
        /\ (signal - output[i]) * (signal - output'[i]) >= 0
        /\ output'[i] = output[i] <=>
             2 * Chain[i].alpha * Magnitude(signal - output[i]) < Q15One
    BY <2>2, <2>5, <2>8 DEF EmaKeeps
  <2> QED
    BY <2>9
<1> QED
  BY <1>1, IInvHolds, PTL DEF Spec, EmaApproaches
=============================================================================
