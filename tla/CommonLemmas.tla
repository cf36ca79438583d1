---------------------------- MODULE CommonLemmas -----------------------------
(* Facts that the proofs of several components rest on: induction, as a       *)
(* statement about a set of numbers so that it can be cited without naming an *)
(* operator; remainders, for counters and clocks that wrap; the rounding      *)
(* division; sums of sequences; and rings that keep the last few readings.    *)
EXTENDS FixedPoint, Sums, SequenceTheorems, WellFoundedInduction, TLAPS

(* Every set of natural numbers that is not empty has a least element.        *)
LEMMA LeastNumber ==
  ASSUME NEW T, T \subseteq Nat, T # {}
  PROVE  \E m \in T : \A k \in T : m <= k
<1> DEFINE R == OpToRel(<, Nat)
<1>1. IsWellFoundedOn(R, Nat)
  BY NatLessThanWellFounded
<1>2. \A x, y \in Nat : x < y => <<x, y>> \in R
  BY DEF OpToRel
<1> HIDE DEF R
<1>3. PICK x \in T : \A y \in T : ~(<<y, x>> \in R)
  BY <1>1, WFMin
<1>4. ASSUME NEW k \in T PROVE x <= k
  <2>1. x \in Nat /\ k \in Nat
    BY <1>3
  <2>2. ~(k < x)
    BY <1>2, <1>3, <2>1, Zenon
  <2> QED
    BY <2>1, <2>2
<1> QED
  BY <1>3, <1>4

(* A set that holds zero, and with every number the next one, holds them all. *)
THEOREM Induction ==
  ASSUME NEW P, P \subseteq Nat, 0 \in P, \A n \in P : n + 1 \in P
  PROVE  P = Nat
<1> SUFFICES ASSUME Nat \ P # {} PROVE FALSE
  OBVIOUS
<1>1. PICK m \in Nat \ P : \A k \in Nat \ P : m <= k
  BY LeastNumber
<1>2. m # 0
  OBVIOUS
<1>3. m - 1 \in Nat /\ ~(m <= m - 1)
  BY <1>2
<1>4. m - 1 \in P
  BY <1>1, <1>3
<1> QED
  BY <1>1, <1>3, <1>4, m - 1 + 1 = m

-----------------------------------------------------------------------------
(* A number is the remainder when it differs by a multiple.                   *)
LEMMA Remainder ==
  ASSUME NEW m \in Nat \ {0}, NEW x \in Int, NEW q \in Int, NEW r \in 0..m - 1, x = q * m + r
  PROVE  x % m = r
  <1> DEFINE k == x \div m
  <1>1. k \in Int
    OBVIOUS
  <1>2. x % m = x - k * m
    OBVIOUS
  <1>3. x - k * m >= 0 /\ x - k * m < m
    <2>1. x - k * m >= 0
      OBVIOUS
    <2>2. x - k * m < m
      OBVIOUS
    <2> QED
      BY <2>1, <2>2
  <1> HIDE DEF k
  <1>4. ~(k < q)
    <2> SUFFICES ASSUME k < q PROVE FALSE
      OBVIOUS
    <2>1. PICK d \in Nat : q = k + 1 + d
      <3>1. q - k - 1 \in Nat /\ q = k + 1 + (q - k - 1)
        BY <1>1
      <3> QED
        BY <3>1
    <2>2. q * m = k * m + m + d * m /\ d * m \in Nat
      BY <1>1, <2>1
    <2> QED
      BY <1>1, <1>3, <2>2
  <1>5. ~(q < k)
    <2> SUFFICES ASSUME q < k PROVE FALSE
      OBVIOUS
    <2>1. PICK d \in Nat : k = q + 1 + d
      <3>1. k - q - 1 \in Nat /\ k = q + 1 + (k - q - 1)
        BY <1>1
      <3> QED
        BY <3>1
    <2>2. k * m = q * m + m + d * m /\ d * m \in Nat
      BY <1>1, <2>1
    <2> QED
      BY <1>1, <1>3, <2>2
  <1>6. k = q
    BY <1>1, <1>4, <1>5
  <1> QED
    BY <1>2, <1>6

(* Counting up commutes with the wrap of the counter.                         *)
LEMMA NextRemainder ==
  ASSUME NEW m \in Nat \ {0}, NEW x \in Int
  PROVE  ((x % m) + 1) % m = (x + 1) % m
  <1> DEFINE q == x \div m
             r == x % m
  <1>1. q \in Int /\ r \in 0..m - 1
    OBVIOUS
  <1>2. x = q * m + r
    OBVIOUS
  <1> HIDE DEF q, r
  <1>3. CASE r + 1 < m
    <2>1. /\ r + 1 \in 0..m - 1 /\ r + 1 \in Nat /\ x + 1 \in Int
          /\ x + 1 = q * m + (r + 1) /\ r + 1 = 0 * m + (r + 1)
      BY <1>1, <1>2, <1>3
    <2>2. (x + 1) % m = r + 1
      BY <1>1, <2>1, Remainder
    <2>3. (r + 1) % m = r + 1
      BY <1>1, <2>1, Remainder
    <2> QED
      BY <2>2, <2>3 DEF r
  <1>4. CASE r + 1 = m
    <2>1. /\ x + 1 = (q + 1) * m + 0 /\ r + 1 = 1 * m + 0 /\ 0 \in 0..m - 1
          /\ q + 1 \in Int /\ r + 1 \in Nat /\ x + 1 \in Int
      BY <1>1, <1>2, <1>4
    <2>2. (x + 1) % m = 0
      BY <1>1, <2>1, Remainder
    <2>3. (r + 1) % m = 0
      BY <1>1, <2>1, Remainder
    <2> QED
      BY <2>2, <2>3 DEF r
  <1> QED
    BY <1>1, <1>3, <1>4

(* As long as less than a turn of the clock has passed, the difference of two *)
(* wrapped readings is the time that passed between them: before was that     *)
(* difference, clock has run on and shows t, and after is the difference now. *)
LEMMA ElapsedAdvances ==
  ASSUME NEW m \in Nat \ {0}, NEW before \in Int, NEW clock \in Int, NEW after \in Int,
         NEW e \in 0..m - 1,
         after = (before - (before % m)) + ((clock % m) - clock) + e
  PROVE  after % m = e
  <1> DEFINE q == before \div m
             k == clock \div m
  <1>1. q \in Int /\ before - (before % m) = q * m
    OBVIOUS
  <1>2. k \in Int /\ (clock % m) - clock = - (k * m)
    OBVIOUS
  <1> HIDE DEF q, k
  <1>3. after = (q - k) * m + e /\ q - k \in Int
    BY <1>1, <1>2
  <1> QED
    BY <1>3, Remainder

LEMMA ElapsedNothing ==
  ASSUME NEW m \in Nat \ {0}, NEW t \in Int PROVE (t - t) % m = 0
  <1>1. t - t = 0 * m + 0 /\ 0 \in 0..m - 1 /\ t - t \in Int
    OBVIOUS
  <1> QED
    BY <1>1, Remainder

-----------------------------------------------------------------------------
(* The rounding division, first for a dividend that is not negative.          *)
LEMMA RoundedUpwards ==
  ASSUME NEW n \in Nat, NEW d \in Nat \ {0}
  PROVE  /\ DivRoundNearest(n, d) \in Nat
         /\ IsNearest(DivRoundNearest(n, d), n, d)
<1> DEFINE q == n \div d
<1>1. q \in Nat /\ q * d \in Nat /\ n - q * d >= 0 /\ n - q * d < d
  <2>1. q \in Nat
    OBVIOUS
  <2>2. n - q * d >= 0
    OBVIOUS
  <2>3. n - q * d < d
    OBVIOUS
  <2>4. q * d \in Nat
    BY <2>1
  <2> QED
    BY <2>1, <2>2, <2>3, <2>4
<1>2. Truncated(n, d) = q
  BY DEF Truncated, Magnitude
<1> HIDE DEF q
<1>3. PICK p \in Nat : p = q * d
  BY <1>1
<1>4. (q + 1) * d = p + d
  BY <1>1, <1>3
<1>5. Magnitude(n) = n /\ Magnitude(d) = d /\ Magnitude(p) = p
      /\ Magnitude(p + d) = p + d /\ Magnitude(n - p) = n - p
      /\ Magnitude(n - (p + d)) = p + d - n
  BY <1>1, <1>3 DEF Magnitude
<1>6. RoundingThreshold(d) = (d \div 2) + (d % 2)
  BY <1>5 DEF RoundingThreshold
<1>7. CASE 2 * (n - p) >= d
  <2>1. n - p # 0 /\ n - p >= RoundingThreshold(d)
    BY <1>1, <1>3, <1>6, <1>7
  <2>2. DivRoundNearest(n, d) = q + 1
    BY <1>2, <1>3, <1>5, <2>1 DEF DivRoundNearest
  <2>3. 2 * (p + d - n) <= d /\ (2 * (p + d - n) = d => p + d > n)
    BY <1>1, <1>3, <1>7
  <2>4. IsNearest(q + 1, n, d)
    BY <1>4, <1>5, <2>3 DEF IsNearest
  <2> QED
    BY <1>1, <2>2, <2>4
<1>8. CASE 2 * (n - p) < d
  <2>1. ~(n - p >= RoundingThreshold(d))
    BY <1>1, <1>3, <1>6, <1>8
  <2>2. DivRoundNearest(n, d) = q
    BY <1>2, <1>3, <1>5, <2>1 DEF DivRoundNearest
  <2>3. IsNearest(q, n, d)
    BY <1>1, <1>3, <1>5, <1>8 DEF IsNearest
  <2> QED
    BY <1>1, <2>2, <2>3
<1> QED
  BY <1>1, <1>3, <1>7, <1>8

(* It treats both sides of zero alike.                                        *)
LEMMA RoundedAlike ==
  ASSUME NEW n \in Nat \ {0}, NEW d \in Nat \ {0}
  PROVE  /\ DivRoundNearest(-n, d) \in Int
         /\ DivRoundNearest(-n, d) = -DivRoundNearest(n, d)
<1> DEFINE q == n \div d
<1>1. q \in Nat /\ q * d \in Nat
  BY q \in Nat
<1>2. Truncated(n, d) = q /\ Truncated(-n, d) = -q
  BY DEF Truncated, Magnitude
<1> HIDE DEF q
<1>3. PICK p \in Nat : p = q * d
  BY <1>1
<1>4. (-q) * d = -p
  BY <1>1, <1>3
<1>5. Magnitude(n - p) = Magnitude(-n - (-p))
  BY <1>3 DEF Magnitude
<1>6. n - p = 0 <=> -n - (-p) = 0
  BY <1>3
<1>7. (-n < 0) # (d < 0) /\ ~((n < 0) # (d < 0))
  OBVIOUS
<1>8. CASE n - p # 0 /\ Magnitude(n - p) >= RoundingThreshold(d)
  <2>1. DivRoundNearest(n, d) = q + 1
    BY <1>2, <1>3, <1>7, <1>8 DEF DivRoundNearest
  <2>2. DivRoundNearest(-n, d) = -q - 1
    BY <1>2, <1>4, <1>5, <1>6, <1>7, <1>8 DEF DivRoundNearest
  <2> QED
    BY <1>1, <2>1, <2>2
<1>9. CASE ~(n - p # 0 /\ Magnitude(n - p) >= RoundingThreshold(d))
  <2>1. DivRoundNearest(n, d) = q
    BY <1>2, <1>3, <1>9 DEF DivRoundNearest
  <2>2. DivRoundNearest(-n, d) = -q
    BY <1>2, <1>4, <1>5, <1>6, <1>9 DEF DivRoundNearest
  <2> QED
    BY <1>1, <2>1, <2>2
<1> QED
  BY <1>8, <1>9

(* util_div_round_nearest_i64 returns the nearest integer to the quotient,    *)
(* and of two the one further from zero: for every dividend and divisor.      *)
THEOREM RoundedNearest ==
  ASSUME NEW n \in Int, NEW d \in Nat \ {0}
  PROVE  /\ DivRoundNearest(n, d) \in Int
         /\ IsNearest(DivRoundNearest(n, d), n, d)
<1>1. CASE n >= 0
  BY <1>1, RoundedUpwards
<1>2. CASE n < 0
  <2>1. PICK m \in Nat \ {0} : n = -m
    BY <1>2, -n \in Nat \ {0}, n = -(-n)
  <2>2. PICK r \in Nat : r = DivRoundNearest(m, d)
    BY <2>1, RoundedUpwards
  <2>3. IsNearest(r, m, d)
    BY <2>1, <2>2, RoundedUpwards
  <2>4. DivRoundNearest(n, d) = -r
    BY <2>1, <2>2, RoundedAlike
  <2>5. PICK p \in Nat : p = r * d
    BY <2>2
  <2>6. (-r) * d = -p
    BY <2>2, <2>5
  <2>7. /\ Magnitude(n - (-p)) = Magnitude(m - p)
        /\ Magnitude(-p) = Magnitude(p) /\ Magnitude(n) = Magnitude(m)
    BY <2>1, <2>5 DEF Magnitude
  <2>8. IsNearest(-r, n, d)
    BY <2>3, <2>5, <2>6, <2>7 DEF IsNearest
  <2> QED
    BY <2>2, <2>4, <2>8
<1> QED
  BY <1>1, <1>2

-----------------------------------------------------------------------------
(* Sums.                                                                      *)

(* f[i] is the sum of the first i values of s, for i up to n.                 *)
IsPart(f, s, n) ==
  /\ f \in [0..n -> Int]
  /\ f[0] = 0 /\ \A i \in 1..n : f[i] = f[i - 1] + s[i]

(* Such a function exists: by induction on its length.                        *)
LEMMA PartExists ==
  ASSUME NEW s \in Seq(Int)
  PROVE  \E f : IsPart(f, s, Len(s))
<1> DEFINE P == {n \in Nat : n <= Len(s) => \E f : IsPart(f, s, n)}
<1>0. Len(s) \in Nat /\ \A i \in 1..Len(s) : s[i] \in Int
  BY LenProperties, ElementOfSeq
<1>1. 0 \in P
  <2>1. IsPart([i \in 0..0 |-> 0], s, 0)
    BY DEF IsPart
  <2> QED
    BY <2>1
<1>2. ASSUME NEW n \in P PROVE n + 1 \in P
  <2> SUFFICES ASSUME n + 1 <= Len(s) PROVE \E f : IsPart(f, s, n + 1)
    OBVIOUS
  <2>1. n \in Nat /\ n <= Len(s)
    BY <1>0
  <2>2. PICK f : IsPart(f, s, n)
    BY <2>1
  <2> DEFINE g == [i \in 0..n + 1 |-> IF i = n + 1 THEN f[n] + s[n + 1] ELSE f[i]]
  <2>3. g \in [0..n + 1 -> Int]
    BY <1>0, <2>1, <2>2 DEF IsPart
  <2>4. g[0] = 0
    BY <2>1, <2>2 DEF IsPart
  <2>5. ASSUME NEW i \in 1..n + 1 PROVE g[i] = g[i - 1] + s[i]
    <3>1. CASE i = n + 1
      BY <2>1, <3>1
    <3>2. CASE i \in 1..n
      BY <2>1, <2>2, <3>2 DEF IsPart
    <3> QED
      BY <2>1, <3>1, <3>2
  <2>6. IsPart(g, s, n + 1)
    BY <2>3, <2>4, <2>5 DEF IsPart
  <2> QED
    BY <2>6
<1> HIDE DEF P
<1>3. P = Nat
  <2>1. P \subseteq Nat
    BY DEF P
  <2> QED
    BY <1>1, <1>2, <2>1, Induction
<1> QED
  BY <1>0, <1>3 DEF P

(* Total is its last value.                                                   *)
LEMMA TotalIsPart ==
  ASSUME NEW s \in Seq(Int)
  PROVE  \E f : IsPart(f, s, Len(s)) /\ Total(s) = f[Len(s)]
<1> DEFINE part == CHOOSE g : g = [i \in 0..Len(s) |-> IF i = 0 THEN 0 ELSE g[i - 1] + s[i]]
<1>0. Len(s) \in Nat /\ \A i \in 1..Len(s) : s[i] \in Int
  BY LenProperties, ElementOfSeq
<1>1. PICK f : IsPart(f, s, Len(s))
  BY PartExists
<1>2. f = [i \in 0..Len(s) |-> IF i = 0 THEN 0 ELSE f[i - 1] + s[i]]
  BY <1>0, <1>1 DEF IsPart
<1>3. part = [i \in 0..Len(s) |-> IF i = 0 THEN 0 ELSE part[i - 1] + s[i]]
  BY <1>2
<1>4. Total(s) = part[Len(s)]
  BY DEF Total
<1> HIDE DEF part
<1> DEFINE P == {i \in Nat : i <= Len(s) => part[i] = f[i]}
<1>5. 0 \in P
  BY <1>0, <1>1, <1>3 DEF IsPart
<1>6. ASSUME NEW i \in P PROVE i + 1 \in P
  <2> SUFFICES ASSUME i + 1 <= Len(s) PROVE part[i + 1] = f[i + 1]
    OBVIOUS
  <2>1. i \in Nat /\ part[i] = f[i] /\ i + 1 \in 1..Len(s) /\ i + 1 - 1 = i
    BY <1>0
  <2>2. f[i + 1] = f[i] + s[i + 1]
    BY <1>1, <2>1 DEF IsPart
  <2>3. part[i + 1] = part[i] + s[i + 1]
    BY <1>0, <1>3, <2>1
  <2> QED
    BY <2>1, <2>2, <2>3
<1> HIDE DEF P
<1>7. P = Nat
  <2>1. P \subseteq Nat
    BY DEF P
  <2> QED
    BY <1>5, <1>6, <2>1, Induction
<1>8. part[Len(s)] = f[Len(s)]
  BY <1>0, <1>7 DEF P
<1> QED
  BY <1>1, <1>4, <1>8

(* Two sums that add the same values agree.                                  *)
LEMMA PartsAgree ==
  ASSUME NEW n \in Nat, NEW f, NEW g, NEW s, NEW t, IsPart(f, s, n), IsPart(g, t, n),
         \A i \in 1..n : s[i] = t[i]
  PROVE  f[n] = g[n]
<1> DEFINE P == {i \in Nat : i <= n => f[i] = g[i]}
<1>1. 0 \in P
  BY DEF IsPart
<1>2. ASSUME NEW i \in P PROVE i + 1 \in P
  <2> SUFFICES ASSUME i + 1 <= n PROVE f[i + 1] = g[i + 1]
    OBVIOUS
  <2>1. i \in Nat /\ f[i] = g[i] /\ i + 1 \in 1..n /\ i + 1 - 1 = i
    OBVIOUS
  <2> QED
    BY <2>1 DEF IsPart
<1> HIDE DEF P
<1>3. P = Nat
  <2>1. P \subseteq Nat
    BY DEF P
  <2> QED
    BY <1>1, <1>2, <2>1, Induction
<1> QED
  BY <1>3 DEF P

(* A value more, at the end.                                                 *)
LEMMA TotalAppend ==
  ASSUME NEW s \in Seq(Int), NEW v \in Int
  PROVE  /\ Total(s) \in Int
         /\ Total(Append(s, v)) = Total(s) + v
<1>1. /\ Append(s, v) \in Seq(Int) /\ Len(Append(s, v)) = Len(s) + 1
      /\ \A i \in 1..Len(s) : Append(s, v)[i] = s[i]
      /\ Append(s, v)[Len(s) + 1] = v
  BY AppendProperties
<1>2. PICK t \in Seq(Int) : t = Append(s, v)
  BY <1>1
<1>3. PICK n \in Nat : n = Len(s)
  BY LenProperties
<1>4. PICK f : IsPart(f, s, n) /\ Total(s) = f[n]
  BY <1>3, TotalIsPart
<1>5. PICK g : IsPart(g, t, n + 1) /\ Total(t) = g[n + 1]
  BY <1>1, <1>2, <1>3, TotalIsPart
<1> DEFINE h == [i \in 0..n |-> g[i]]
<1>6. IsPart(h, t, n) /\ h[n] = g[n]
  BY <1>5 DEF IsPart
<1> HIDE DEF h
<1>7. f[n] = g[n]
  <2>1. \A i \in 1..n : s[i] = t[i]
    BY <1>1, <1>2, <1>3
  <2>2. f[n] = h[n]
    BY <1>4, <1>6, <2>1, PartsAgree
  <2> QED
    BY <1>6, <2>2
<1>8. g[n + 1] = g[n] + v
  <2>1. t[n + 1] = v /\ n + 1 - 1 = n /\ n + 1 \in 1..n + 1
    BY <1>1, <1>2, <1>3
  <2> QED
    BY <1>5, <2>1 DEF IsPart
<1>9. f[n] \in Int
  BY <1>4 DEF IsPart
<1> QED
  BY <1>2, <1>4, <1>5, <1>7, <1>8, <1>9

(* The first value less.                                                     *)
LEMMA TotalTail ==
  ASSUME NEW s \in Seq(Int), s # <<>>
  PROVE  Total(Tail(s)) = Total(s) - s[1]
<1>1. /\ Tail(s) \in Seq(Int) /\ Len(Tail(s)) = Len(s) - 1
      /\ \A i \in 1..Len(Tail(s)) : Tail(s)[i] = s[i + 1]
  BY HeadTailProperties
<1>2. PICK n \in Nat : n = Len(s) - 1
  BY LenProperties, EmptySeq
<1>3. Len(s) = n + 1 /\ s[1] \in Int
  BY <1>2, LenProperties, ElementOfSeq
<1>4. PICK t \in Seq(Int) : t = Tail(s)
  BY <1>1
<1>5. PICK f : IsPart(f, s, n + 1) /\ Total(s) = f[n + 1]
  BY <1>3, TotalIsPart
<1>6. PICK g : IsPart(g, t, n) /\ Total(t) = g[n]
  BY <1>1, <1>2, <1>4, TotalIsPart
<1> DEFINE h == [i \in 0..n |-> f[i + 1] - s[1]]
<1>7. IsPart(h, t, n)
  <2>1. h \in [0..n -> Int]
    BY <1>3, <1>5 DEF IsPart
  <2>2. h[0] = 0
    BY <1>3, <1>5 DEF IsPart
  <2>3. ASSUME NEW i \in 1..n PROVE h[i] = h[i - 1] + t[i]
    <3>1. i - 1 \in 0..n /\ i \in 0..n /\ i - 1 + 1 = i /\ i + 1 \in 1..n + 1 /\ i + 1 - 1 = i
      OBVIOUS
    <3>2. t[i] = s[i + 1]
      BY <1>1, <1>2, <1>4
    <3>3. f[i + 1] = f[i] + s[i + 1]
      BY <1>5, <3>1 DEF IsPart
    <3>4. h[i] = f[i + 1] - s[1] /\ h[i - 1] = f[i] - s[1]
      BY <3>1
    <3>5. f[i] \in Int /\ f[i + 1] \in Int
      BY <1>5, i \in 0..n + 1, i + 1 \in 0..n + 1 DEF IsPart
    <3>6. s[i + 1] \in Int
      BY <1>3, <3>1, ElementOfSeq
    <3> QED
      BY <1>3, <3>2, <3>3, <3>4, <3>5, <3>6
  <2> QED
    BY <2>1, <2>2, <2>3 DEF IsPart
<1>8. h[n] = f[n + 1] - s[1]
  OBVIOUS
<1> HIDE DEF h
<1>9. g[n] = h[n]
  BY <1>6, <1>7, PartsAgree
<1> QED
  BY <1>4, <1>5, <1>6, <1>8, <1>9

LEMMA TotalType ==
  ASSUME NEW s \in Seq(Int) PROVE Total(s) \in Int
<1>1. PICK f : IsPart(f, s, Len(s)) /\ Total(s) = f[Len(s)]
  BY TotalIsPart
<1>2. Len(s) \in Nat
  BY LenProperties
<1> QED
  BY <1>1, <1>2 DEF IsPart

(* One sum exceeds another by no more than the one value that does: the       *)
(* values of s are those of t or less, but the k-th may be larger by d.       *)
BoundedBut(s, t, k, d) ==
  /\ Len(s) = Len(t)
  /\ k \in 1..Len(s) \/ d >= 0
  /\ \A i \in 1..Len(s) : s[i] <= t[i] + IF i = k THEN d ELSE 0

LEMMA SumsOrdered ==
  ASSUME NEW a \in Int, NEW b \in Int, NEW x \in Int, NEW y \in Int, NEW d \in Int,
         (a <= b /\ x <= y + d) \/ (a <= b + d /\ x <= y)
  PROVE  a + x <= b + y + d
  OBVIOUS

LEMMA TotalBounded ==
  ASSUME NEW s \in Seq(Int), NEW t \in Seq(Int), NEW k \in Int, NEW d \in Int,
         BoundedBut(s, t, k, d)
  PROVE  Total(s) <= Total(t) + d
<1>1. PICK n \in Nat : n = Len(s) /\ n = Len(t)
  BY LenProperties DEF BoundedBut
<1>2. PICK f : IsPart(f, s, n) /\ Total(s) = f[n]
  BY <1>1, TotalIsPart
<1>3. PICK g : IsPart(g, t, n) /\ Total(t) = g[n]
  BY <1>1, TotalIsPart
<1>4. \A i \in 1..n : s[i] \in Int /\ t[i] \in Int
  BY <1>1, ElementOfSeq
<1>5. \A i \in 1..n : s[i] <= t[i] + IF i = k THEN d ELSE 0
  BY <1>1 DEF BoundedBut
<1>6. \A i \in 0..n : f[i] \in Int /\ g[i] \in Int
  BY <1>2, <1>3 DEF IsPart
<1> DEFINE P == {i \in Nat : i <= n => f[i] <= g[i] + IF 1 <= k /\ k <= i THEN d ELSE 0}
<1>7. 0 \in P
  BY <1>2, <1>3 DEF IsPart
<1>8. ASSUME NEW i \in P PROVE i + 1 \in P
  <2> SUFFICES ASSUME i + 1 <= n
               PROVE  f[i + 1] <= g[i + 1] + IF 1 <= k /\ k <= i + 1 THEN d ELSE 0
    OBVIOUS
  <2>1. /\ i \in Nat /\ f[i] <= g[i] + (IF 1 <= k /\ k <= i THEN d ELSE 0)
        /\ i + 1 \in 1..n /\ i + 1 - 1 = i /\ i \in 0..n
    OBVIOUS
  <2>2. f[i + 1] = f[i] + s[i + 1] /\ g[i + 1] = g[i] + t[i + 1]
    <3> HIDE DEF P
    <3>1. f[i + 1] = f[i + 1 - 1] + s[i + 1]
      BY <1>2, <2>1 DEF IsPart
    <3>2. g[i + 1] = g[i + 1 - 1] + t[i + 1]
      BY <1>3, <2>1 DEF IsPart
    <3> QED
      BY <2>1, <3>1, <3>2
  <2>3. s[i + 1] <= t[i + 1] + IF i + 1 = k THEN d ELSE 0
    BY <1>5, <2>1
  <2>4. s[i + 1] \in Int /\ t[i + 1] \in Int /\ f[i] \in Int /\ g[i] \in Int
    BY <1>4, <1>6, <2>1
  <2>5. CASE i + 1 = k
    <3>1. f[i] <= g[i] /\ s[i + 1] <= t[i + 1] + d
      BY <2>1, <2>3, <2>4, <2>5
    <3>2. f[i] + s[i + 1] <= g[i] + t[i + 1] + d
      BY <2>4, <3>1, SumsOrdered
    <3>3. 1 <= k /\ k <= i + 1
      BY <2>1, <2>5
    <3> QED
      BY <2>2, <3>2, <3>3
  <2>6. CASE i + 1 # k
    <3>1. s[i + 1] <= t[i + 1]
      BY <2>3, <2>4, <2>6
    <3>2. (1 <= k /\ k <= i + 1) <=> (1 <= k /\ k <= i)
      BY <2>1, <2>6
    <3>3. PICK e \in Int : e = IF 1 <= k /\ k <= i THEN d ELSE 0
      OBVIOUS
    <3>4. f[i] <= g[i] + e /\ s[i + 1] <= t[i + 1] + 0
      BY <2>1, <2>4, <3>1, <3>3
    <3>5. f[i] + s[i + 1] <= g[i] + t[i + 1] + e
      BY <2>4, <3>1, <3>4, SumsOrdered
    <3> QED
      BY <2>2, <3>2, <3>3, <3>5
  <2> QED
    BY <2>5, <2>6
<1> HIDE DEF P
<1>9. P = Nat
  <2>1. P \subseteq Nat
    BY DEF P
  <2> QED
    BY <1>7, <1>8, <2>1, Induction
<1>10. f[n] <= g[n] + IF 1 <= k /\ k <= n THEN d ELSE 0
  BY <1>9 DEF P
<1>11. f[n] \in Int /\ g[n] \in Int
  BY <1>6
<1>12. k \in 1..n \/ d >= 0
  BY <1>1 DEF BoundedBut
<1> QED
  BY <1>2, <1>3, <1>10, <1>11, <1>12

(* A sum of values none of which is negative.                                *)
LEMMA TotalNatural ==
  ASSUME NEW s \in Seq(Int), \A i \in 1..Len(s) : s[i] >= 0
  PROVE  Total(s) >= 0
<1>1. PICK n \in Nat : n = Len(s)
  BY LenProperties
<1>2. PICK f : IsPart(f, s, n) /\ Total(s) = f[n]
  BY <1>1, TotalIsPart
<1> DEFINE P == {i \in Nat : i <= n => f[i] >= 0}
<1>3. 0 \in P
  BY <1>2 DEF IsPart
<1>4. ASSUME NEW i \in P PROVE i + 1 \in P
  <2> SUFFICES ASSUME i + 1 <= n PROVE f[i + 1] >= 0
    OBVIOUS
  <2>1. i \in Nat /\ f[i] >= 0 /\ i + 1 \in 1..n /\ i + 1 - 1 = i /\ i \in 0..n
    OBVIOUS
  <2>2. f[i + 1] = f[i] + s[i + 1] /\ f[i] \in Int
    BY <1>2, <2>1 DEF IsPart
  <2>3. s[i + 1] \in Int /\ s[i + 1] >= 0
    BY <1>1, <2>1, ElementOfSeq
  <2> QED
    BY <2>1, <2>2, <2>3
<1> HIDE DEF P
<1>5. P = Nat
  <2>1. P \subseteq Nat
    BY DEF P
  <2> QED
    BY <1>3, <1>4, <2>1, Induction
<1> QED
  BY <1>2, <1>5 DEF P

-----------------------------------------------------------------------------
(* Rings of readings.                                                         *)

(* Where the k-th of n readings is in a ring of c slots.                      *)
SlotOf(k, next, n, c) ==
  IF n < c THEN k - 1 ELSE IF next + k - 1 < c THEN next + k - 1 ELSE next + k - 1 - c

(* The ring after the value v.                                                *)
Overwritten(w, next, v) == [w EXCEPT ![next] = v]

(* The slot after the slot i.                                                 *)
NextIn(i, c) == (i + 1) % c

(* The ring w, to be written at next, holds the readings r.                   *)
Holds(w, next, r, c) ==
  /\ w \in [0..c - 1 -> Int] /\ next \in 0..c - 1
  /\ Len(r) <= c /\ (Len(r) < c => next = Len(r))
  /\ \A k \in 1..Len(r) : r[k] = w[SlotOf(k, next, Len(r), c)]

LEMMA NextInWraps ==
  ASSUME NEW c \in Nat \ {0}, NEW i \in 0..c - 1
  PROVE  NextIn(i, c) = IF i + 1 = c THEN 0 ELSE i + 1
<1>1. CASE i + 1 = c
  <2>1. c % c = 0
    OBVIOUS
  <2> QED
    BY <1>1, <2>1 DEF NextIn
<1>2. CASE i + 1 # c
  <2>1. i + 1 \in Nat /\ i + 1 < c
    BY <1>2
  <2>2. (i + 1) % c = i + 1
    BY <2>1
  <2> QED
    BY <1>2, <2>2 DEF NextIn
<1> QED
  BY <1>1, <1>2

LEMMA RingFills ==
  ASSUME NEW c \in Nat \ {0}, NEW w, NEW next, NEW r \in Seq(Int), NEW v \in Int,
         Holds(w, next, r, c), Len(r) < c
  PROVE  /\ Append(r, v) \in Seq(Int) /\ Append(r, v) # <<>>
         /\ Len(Append(r, v)) = Len(r) + 1
         /\ Total(Append(r, v)) = Total(r) + v
         /\ Holds(Overwritten(w, next, v), NextIn(next, c), Append(r, v), c)
<1>1. PICK n \in Nat : n = Len(r)
  BY LenProperties
<1>2. /\ Append(r, v) \in Seq(Int) /\ Len(Append(r, v)) = n + 1
      /\ \A i \in 1..n : Append(r, v)[i] = r[i]
      /\ Append(r, v)[n + 1] = v
  BY <1>1, AppendProperties
<1>3. PICK r2 \in Seq(Int) : r2 = Append(r, v)
  BY <1>2
<1>4. w \in [0..c - 1 -> Int] /\ next = n /\ n < c /\ next \in 0..c - 1
  BY <1>1 DEF Holds
<1>5. \A k \in 1..n : r[k] = w[k - 1]
  BY <1>1, <1>4 DEF Holds, SlotOf
<1>6. PICK next2 \in 0..c - 1 : next2 = NextIn(next, c) /\ next2 = IF n + 1 = c THEN 0 ELSE n + 1
  BY <1>4, NextInWraps
<1>7. PICK w2 \in [0..c - 1 -> Int] : w2 = Overwritten(w, next, v) /\ w2 = [w EXCEPT ![next] = v]
  BY <1>4 DEF Overwritten
<1>8. ASSUME NEW k \in 1..n + 1 PROVE r2[k] = w2[SlotOf(k, next2, n + 1, c)]
  <2>1. SlotOf(k, next2, n + 1, c) = k - 1
    BY <1>4, <1>6 DEF SlotOf
  <2>2. CASE k = n + 1
    BY <1>2, <1>3, <1>4, <1>7, <2>1, <2>2
  <2>3. CASE k \in 1..n
    <3>1. r2[k] = r[k] /\ r[k] = w[k - 1]
      BY <1>2, <1>3, <1>5, <2>3
    <3>2. w2[k - 1] = w[k - 1]
      BY <1>4, <1>7, <2>3
    <3> QED
      BY <2>1, <3>1, <3>2
  <2> QED
    BY <2>2, <2>3
<1>9. Len(r2) = n + 1 /\ n + 1 <= c /\ (n + 1 < c => next2 = n + 1)
  BY <1>2, <1>3, <1>4, <1>6
<1>10. Holds(w2, next2, r2, c)
  BY <1>8, <1>9 DEF Holds
<1>11. r2 # <<>>
  BY <1>9, EmptySeq
<1>12. Total(Append(r, v)) = Total(r) + v
  BY TotalAppend
<1> QED
  BY <1>1, <1>2, <1>3, <1>6, <1>7, <1>10, <1>11, <1>12

LEMMA RingTurns ==
  ASSUME NEW c \in Nat \ {0}, NEW w, NEW next, NEW r \in Seq(Int), NEW v \in Int,
         Holds(w, next, r, c), Len(r) = c
  PROVE  /\ Append(Tail(r), v) \in Seq(Int) /\ Append(Tail(r), v) # <<>>
         /\ Len(Append(Tail(r), v)) = c
         /\ Total(Append(Tail(r), v)) = Total(r) + v - w[next]
         /\ Holds(Overwritten(w, next, v), NextIn(next, c), Append(Tail(r), v), c)
<1>1. r # <<>>
  BY EmptySeq
<1>2. /\ Tail(r) \in Seq(Int) /\ Len(Tail(r)) = c - 1
      /\ \A i \in 1..c - 1 : Tail(r)[i] = r[i + 1]
  BY <1>1, HeadTailProperties
<1>3. PICK t \in Seq(Int) : t = Tail(r)
  BY <1>2
<1>4. /\ Append(t, v) \in Seq(Int) /\ Len(Append(t, v)) = c
      /\ \A i \in 1..c - 1 : Append(t, v)[i] = t[i]
      /\ Append(t, v)[c] = v
  <2>1. Len(t) + 1 = c /\ Len(t) = c - 1
    BY <1>2, <1>3
  <2> QED
    BY <2>1, AppendProperties
<1>5. PICK r2 \in Seq(Int) : r2 = Append(t, v)
  BY <1>4
<1>6. w \in [0..c - 1 -> Int] /\ next \in 0..c - 1
  BY DEF Holds
<1>7. \A k \in 1..c : r[k] = w[SlotOf(k, next, c, c)]
  BY DEF Holds
<1>8. PICK next2 \in 0..c - 1 : next2 = NextIn(next, c) /\ next2 = IF next + 1 = c THEN 0 ELSE next + 1
  BY <1>6, NextInWraps
<1>9. PICK w2 \in [0..c - 1 -> Int] : w2 = Overwritten(w, next, v) /\ w2 = [w EXCEPT ![next] = v]
  BY <1>6 DEF Overwritten
<1>10. ASSUME NEW k \in 1..c PROVE r2[k] = w2[SlotOf(k, next2, c, c)]
  <2>1. CASE k = c
    <3>1. SlotOf(k, next2, c, c) = next
      BY <1>6, <1>8, <2>1 DEF SlotOf
    <3> QED
      BY <1>4, <1>5, <1>6, <1>9, <2>1, <3>1
  <2>2. CASE k \in 1..c - 1
    <3>1. SlotOf(k, next2, c, c) = SlotOf(k + 1, next, c, c)
      BY <1>6, <1>8, <2>2 DEF SlotOf
    <3>2. SlotOf(k + 1, next, c, c) \in 0..c - 1 /\ SlotOf(k + 1, next, c, c) # next
      BY <1>6, <2>2 DEF SlotOf
    <3>3. r2[k] = r[k + 1]
      BY <1>2, <1>3, <1>4, <1>5, <2>2
    <3>4. r[k + 1] = w[SlotOf(k + 1, next, c, c)]
      BY <1>7, <2>2, k + 1 \in 1..c
    <3> QED
      BY <1>6, <1>9, <3>1, <3>2, <3>3, <3>4
  <2> QED
    BY <2>1, <2>2
<1>11. Len(r2) = c
  BY <1>4, <1>5
<1>12. Holds(w2, next2, r2, c)
  BY <1>10, <1>11 DEF Holds
<1>13. r2 # <<>>
  BY <1>11, EmptySeq
<1>14. r[1] = w[next] /\ r[1] \in Int
  BY <1>6, <1>7, ElementOfSeq, 1 \in 1..c DEF SlotOf
<1>15. Total(r2) = Total(r) + v - w[next]
  <2>1. Total(r) \in Int
    BY TotalAppend
  <2>2. Total(t) = Total(r) - r[1]
    BY <1>1, <1>3, TotalTail
  <2>3. Total(r2) = Total(t) + v
    BY <1>5, TotalAppend
  <2> QED
    BY <1>14, <2>1, <2>2, <2>3
<1> QED
  BY <1>3, <1>4, <1>5, <1>8, <1>9, <1>12, <1>13, <1>15

FirstSlots(w, n) == {w[i] : i \in 0..n - 1}
Readings(r) == {r[k] : k \in 1..Len(r)}

(* The filled part of the ring holds the readings and nothing else.           *)
LEMMA SameReadings ==
  ASSUME NEW c \in Nat \ {0}, NEW w, NEW next, NEW r \in Seq(Int), Holds(w, next, r, c)
  PROVE  FirstSlots(w, Len(r)) = Readings(r)
<1>1. PICK n \in Nat : n = Len(r)
  BY LenProperties
<1>2. w \in [0..c - 1 -> Int] /\ next \in 0..c - 1 /\ n <= c
      /\ \A k \in 1..n : r[k] = w[SlotOf(k, next, n, c)]
  BY <1>1 DEF Holds
<1>3. ASSUME NEW k \in 1..n PROVE SlotOf(k, next, n, c) \in 0..n - 1
  BY <1>2 DEF SlotOf
<1>4. ASSUME NEW i \in 0..n - 1 PROVE \E k \in 1..n : SlotOf(k, next, n, c) = i
  <2>1. CASE n < c
    <3>1. i + 1 \in 1..n /\ SlotOf(i + 1, next, n, c) = i
      BY <2>1 DEF SlotOf
    <3> QED
      BY <3>1
  <2>2. CASE n = c /\ i >= next
    <3>1. i - next + 1 \in 1..n /\ SlotOf(i - next + 1, next, n, c) = i
      BY <1>2, <2>2 DEF SlotOf
    <3> QED
      BY <3>1
  <2>3. CASE n = c /\ i < next
    <3>1. i - next + 1 + c \in 1..n /\ SlotOf(i - next + 1 + c, next, n, c) = i
      BY <1>2, <2>3 DEF SlotOf
    <3> QED
      BY <3>1
  <2> QED
    BY <1>2, <2>1, <2>2, <2>3
<1>5. ASSUME NEW x \in {w[i] : i \in 0..n - 1} PROVE x \in {r[k] : k \in 1..n}
  BY <1>2, <1>4
<1>6. ASSUME NEW x \in {r[k] : k \in 1..n} PROVE x \in {w[i] : i \in 0..n - 1}
  BY <1>2, <1>3
<1>7. {w[i] : i \in 0..n - 1} = {r[k] : k \in 1..n}
  BY <1>5, <1>6
<1>8. Readings(r) = {r[k] : k \in 1..n}
  BY <1>1 DEF Readings
<1>9. FirstSlots(w, Len(r)) = {w[i] : i \in 0..n - 1}
  BY <1>1 DEF FirstSlots
<1> QED
  BY <1>7, <1>8, <1>9
=============================================================================
