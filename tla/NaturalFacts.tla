---------------------------- MODULE NaturalFacts ----------------------------
(***************************************************************************)
(* Facts about natural numbers that the proofs of this project use:        *)
(* induction over sets of numbers, the powers of two that are the sizes    *)
(* of words and of hash tables, and sequences, whatever their elements.    *)
(***************************************************************************)
EXTENDS Integers, FiniteSetTheorems, SequenceTheorems, WellFoundedInduction, TLAPS

\* A set of natural numbers has a least element.
LEMMA LeastNatural ==
    ASSUME NEW T \in SUBSET Nat, T # {}
    PROVE  \E m \in T : \A k \in T : m <= k
<1> DEFINE R == {p \in Nat \X Nat : p[1] < p[2]}
<1>1. IsWellFoundedOn(R, Nat)
  BY NatLessThanWellFounded DEF OpToRel
<1>2. \E m \in T : \A k \in T : <<k, m>> \notin R
  <2> HIDE DEF R
  <2> QED
    BY <1>1, WFMin
<1>3. PICK m \in T : \A k \in T : <<k, m>> \notin R
  BY <1>2
<1>4. \A k \in T : m <= k
  <2> TAKE k \in T
  <2>1. k \in Nat /\ m \in Nat /\ ~(k < m)
    BY <1>3
  <2> QED
    BY <2>1
<1> QED
  BY <1>4

\* The greatest of some natural numbers that are bounded.
LEMMA GreatestNatural ==
    ASSUME NEW T \in SUBSET Nat, T # {}, NEW b \in Nat, \A t \in T : t <= b
    PROVE  \E m \in T : \A t \in T : t <= m
<1> DEFINE U == {m \in Nat : \A t \in T : t <= m}
<1>1. PICK m \in U : \A k \in U : m <= k
  BY LeastNatural
<1>2. m \in T
  <2> SUFFICES ASSUME m \notin T PROVE FALSE
    OBVIOUS
  <2>1. m \in Nat /\ \A t \in T : t \in Nat /\ t <= m /\ t # m
    BY <1>1
  <2>2. m # 0 /\ m - 1 \in Nat
    <3>1. PICK t \in T : TRUE
      OBVIOUS
    <3> QED
      BY <2>1, <3>1
  <2>3. \A t \in T : t <= m - 1
    BY <2>1
  <2>4. m <= m - 1
    BY <1>1, <2>2, <2>3
  <2> QED
    BY <2>1, <2>4
<1> QED
  BY <1>1, <1>2

\* A set that holds 0 and with a number its successor holds every number.
LEMMA InductionOnSet ==
    ASSUME NEW S, 0 \in S, \A n \in Nat : n \in S => n + 1 \in S
    PROVE  Nat \subseteq S
<1> SUFFICES ASSUME NEW x \in Nat, x \notin S PROVE FALSE
  OBVIOUS
<1>1. PICK m \in Nat \ S : \A k \in Nat \ S : m <= k
  <2>1. Nat \ S \in SUBSET Nat /\ Nat \ S # {}
    OBVIOUS
  <2> QED
    BY <2>1, LeastNatural
<1>2. m # 0 /\ m - 1 \in Nat
  BY <1>1
<1>3. m - 1 \in S
  BY <1>1, <1>2
<1>4. (m - 1) + 1 \in S
  BY <1>2, <1>3
<1> QED
  BY <1>1, <1>4

\* The powers of two count the subsets of a set.
LEMMA PowerCounts ==
    ASSUME NEW n \in Nat
    PROVE  /\ IsFiniteSet(SUBSET (1 .. n))
           /\ Cardinality(SUBSET (1 .. n)) = 2 ^ n
<1>1. IsFiniteSet(1 .. n) /\ Cardinality(1 .. n) = n
  BY FS_Interval
<1> QED
  BY <1>1, FS_SUBSET

LEMMA PowerPositive ==
    ASSUME NEW n \in Nat
    PROVE  2 ^ n \in Nat /\ 2 ^ n > 0
<1>1. 2 ^ n \in Nat
  BY PowerCounts, FS_CardinalityType
<1>2. SUBSET (1 .. n) # {}
  OBVIOUS
<1>3. 2 ^ n # 0
  BY PowerCounts, FS_EmptySet, <1>2
<1> QED
  BY <1>1, <1>3

LEMMA PowerZero == 2 ^ 0 = 1
<1>1. SUBSET (1 .. 0) = {{}}
  OBVIOUS
<1> QED
  BY <1>1, PowerCounts, FS_Singleton

LEMMA PowerDoubles ==
    ASSUME NEW n \in Nat
    PROVE  2 ^ (n + 1) = 2 * 2 ^ n
<1> DEFINE A == SUBSET (1 .. n)
           B == {T \in SUBSET (1 .. (n + 1)) : n + 1 \in T}
           f == [T \in A |-> T \cup {n + 1}]
<1>1. IsFiniteSet(A) /\ Cardinality(A) = 2 ^ n
  BY PowerCounts
<1>2. IsFiniteSet(SUBSET (1 .. (n + 1))) /\ Cardinality(SUBSET (1 .. (n + 1))) = 2 ^ (n + 1)
  BY PowerCounts
<1>3. f \in Bijection(A, B)
  <2>1. \A T \in A : T \cup {n + 1} \in B
    OBVIOUS
  <2>2. f \in [A -> B]
    BY <2>1
  <2>3. \A T, U \in A : f[T] = f[U] => T = U
    <3> SUFFICES ASSUME NEW T \in A, NEW U \in A, T \cup {n + 1} = U \cup {n + 1} PROVE T = U
      OBVIOUS
    <3>1. n + 1 \notin T /\ n + 1 \notin U
      OBVIOUS
    <3> QED
      BY <3>1
  <2>4. \A T \in B : \E U \in A : f[U] = T
    <3> TAKE T \in B
    <3>1. T \ {n + 1} \in A
      OBVIOUS
    <3>2. f[T \ {n + 1}] = T
      BY <3>1
    <3> QED
      BY <3>1, <3>2
  <2> HIDE DEF A, B, f
  <2> QED
    BY <2>2, <2>3, <2>4 DEF Bijection, Injection, Surjection, IsInjective
<1>4. IsFiniteSet(B) /\ Cardinality(B) = 2 ^ n
  <2> HIDE DEF A, B, f
  <2>1. ExistsBijection(A, B)
    BY <1>3 DEF ExistsBijection
  <2> QED
    BY <1>1, <2>1, FS_Bijection
<1>5. A \cap B = {} /\ A \cup B = SUBSET (1 .. (n + 1))
  <2>1. \A T \in A : n + 1 \notin T
    OBVIOUS
  <2>2. A \subseteq SUBSET (1 .. (n + 1)) /\ \A T \in SUBSET (1 .. (n + 1)) : n + 1 \notin T => T \in A
    OBVIOUS
  <2> QED
    BY <2>1, <2>2
<1>6. Cardinality(A \cup B) = Cardinality(A) + Cardinality(B) - Cardinality({})
  <2> HIDE DEF A, B
  <2> QED
    BY <1>1, <1>4, <1>5, FS_Union
<1>7. 2 ^ n \in Nat
  BY PowerPositive
<1>8. 2 ^ (n + 1) = 2 ^ n + 2 ^ n - 0
  <2> HIDE DEF A, B
  <2> QED
    BY <1>1, <1>2, <1>4, <1>5, <1>6, FS_EmptySet
<1> QED
  BY <1>7, <1>8

-----------------------------------------------------------------------------
(* Triangular probing *)

Divides(d, x) == \E z \in Nat : x = d * z

\* An odd factor of a multiple of a power of two has no part in the power.
LEMMA OddFactor ==
    ASSUME NEW q \in Nat, NEW a \in Nat, NEW b \in Nat, a % 2 = 1, Divides(2 ^ q, a * b)
    PROVE  Divides(2 ^ q, b)
<1> DEFINE S == {p \in Nat : \A x, y \in Nat :
                    x % 2 = 1 /\ Divides(2 ^ p, x * y) => Divides(2 ^ p, y)}
<1>1. 0 \in S
  <2>1. \A y \in Nat : y = 2 ^ 0 * y
    BY PowerZero
  <2>2. \A y \in Nat : Divides(2 ^ 0, y)
    BY <2>1 DEF Divides
  <2> QED
    BY <2>2
<1>2. ASSUME NEW p \in Nat, p \in S PROVE p + 1 \in S
  <2> SUFFICES ASSUME NEW x \in Nat, NEW y \in Nat, x % 2 = 1, Divides(2 ^ (p + 1), x * y)
               PROVE  Divides(2 ^ (p + 1), y)
    OBVIOUS
  <2>0. PICK z \in Nat : x * y = 2 ^ (p + 1) * z
    BY DEF Divides
  <2> DEFINE w == 2 ^ p
  <2>1. w \in Nat /\ 2 ^ (p + 1) = 2 * w
    BY PowerPositive, PowerDoubles
  <2>2. PICK k \in Nat : x = 2 * k + 1
    <3>1. x \div 2 \in Nat /\ x = 2 * (x \div 2) + 1
      OBVIOUS
    <3> QED
      BY <3>1
  <2>3. PICK e \in Nat : y = 2 * e
    <3> HIDE DEF w
    <3>1. w * z \in Nat /\ k * y \in Nat
      BY <2>1
    <3>2. x * y = 2 * (k * y) + y
      BY <2>2
    <3>3. x * y = 2 * (w * z)
      BY <2>0, <2>1
    <3>4. y = 2 * (w * z - k * y)
      BY <3>1, <3>2, <3>3
    <3>5. w * z - k * y \in Nat
      BY <3>1, <3>4
    <3> QED
      BY <3>4, <3>5
  <2>4. x * e = w * z
    <3> HIDE DEF w
    <3>1. x * y = 2 * (x * e)
      BY <2>3
    <3>2. x * y = 2 * (w * z)
      BY <2>0, <2>1
    <3>3. x * e \in Nat /\ w * z \in Nat
      BY <2>1
    <3> QED
      BY <3>1, <3>2, <3>3
  <2>5. Divides(w, e)
    <3>1. \A u, v \in Nat : u % 2 = 1 /\ Divides(w, u * v) => Divides(w, v)
      BY <1>2
    <3> HIDE DEF w
    <3>2. Divides(w, x * e)
      BY <2>4 DEF Divides
    <3> QED
      BY <3>1, <3>2
  <2>6. PICK d \in Nat : e = w * d
    BY <2>5 DEF Divides
  <2>7. y = 2 ^ (p + 1) * d
    <3> HIDE DEF w
    <3> QED
      BY <2>1, <2>3, <2>6
  <2> QED
    BY <2>7 DEF Divides
<1>3. q \in S
  <2> HIDE DEF S
  <2> QED
    BY <1>1, <1>2, InductionOnSet
<1> QED
  BY <1>3

\* A triangular number, without a division.
LEMMA Triangle ==
    ASSUME NEW s \in Nat
    PROVE  /\ (s * (s + 1)) \div 2 \in Nat
           /\ 2 * ((s * (s + 1)) \div 2) = s * (s + 1)
<1>1. PICK k \in Nat : s = 2 * k \/ s = 2 * k + 1
  <2>1. s \div 2 \in Nat /\ (s = 2 * (s \div 2) \/ s = 2 * (s \div 2) + 1)
    OBVIOUS
  <2> QED
    BY <2>1
<1>2. PICK c \in Nat : s * (s + 1) = 2 * c
  <2>1. CASE s = 2 * k
    <3> DEFINE c == k * (s + 1)
    <3>1. c \in Nat /\ s * (s + 1) = 2 * c
      BY <2>1
    <3> HIDE DEF c
    <3> QED
      BY <3>1
  <2>2. CASE s = 2 * k + 1
    <3> DEFINE c == s * (k + 1)
    <3>1. c \in Nat /\ s * (s + 1) = 2 * c
      BY <2>2
    <3> HIDE DEF c
    <3> QED
      BY <3>1
  <2> QED
    BY <1>1, <2>1, <2>2
<1> QED
  BY <1>2

\* Two factors, one of them odd, whose product is a multiple of a power of two
\* that is larger than both.
LEMMA NoSmallFactors ==
    ASSUME NEW q \in Nat, NEW u \in Nat, NEW v \in Nat, u % 2 = 1 \/ v % 2 = 1,
           0 < u, u < 2 ^ q, 0 < v, v < 2 ^ q, Divides(2 ^ q, u * v)
    PROVE  FALSE
<1> DEFINE w == 2 ^ q
<1>1. w \in Nat
  BY PowerPositive
<1>2. u * v = v * u
  OBVIOUS
<1>3. Divides(w, v) \/ Divides(w, u)
  BY <1>2, OddFactor
<1>4. \A d \in Nat : w * d = 0 \/ w * d >= w
  <2> HIDE DEF w
  <2> TAKE d \in Nat
  <2>1. CASE d = 0
    BY <1>1, <2>1
  <2>2. CASE d # 0
    <3>1. PICK e \in Nat : d = e + 1
      <4>1. d - 1 \in Nat /\ d = (d - 1) + 1
        BY <2>2
      <4> QED
        BY <4>1
    <3>2. w * d = w * e + w /\ w * e \in Nat
      BY <1>1, <3>1
    <3> QED
      BY <1>1, <3>2
  <2> QED
    BY <2>1, <2>2
<1> QED
  BY <1>1, <1>3, <1>4 DEF Divides

\* The sums of the steps, modulo a power of two.
Triangular(h, step, n) == (h + (step * (step + 1)) \div 2) % n

\* Remainders of a division: equal ones differ by a multiple.
LEMMA SameRemainder ==
    ASSUME NEW n \in Nat, n > 0, NEW x \in Nat, NEW y \in Nat, x <= y, x % n = y % n
    PROVE  Divides(n, y - x)
<1>1. /\ x \div n \in Int /\ x = n * (x \div n) + (x % n)
      /\ y \div n \in Int /\ y = n * (y \div n) + (y % n)
      /\ 0 <= x % n /\ x % n < n /\ x % n \in Int
  OBVIOUS
<1> DEFINE a == x \div n
           b == y \div n
           r == x % n
<1>2. a \in Int /\ b \in Int /\ r \in Int /\ x = n * a + r /\ y = n * b + r /\ r < n
  BY <1>1
<1> HIDE DEF a, b, r
<1>3. y - x = n * (b - a)
  BY <1>2
<1>4. b - a >= 0
  <2> SUFFICES ASSUME b - a <= -1 PROVE FALSE
    BY <1>2
  <2>1. PICK e \in Nat : b - a = -1 - e
    <3>1. a - b - 1 \in Nat /\ b - a = -1 - (a - b - 1)
      BY <1>2
    <3> QED
      BY <3>1
  <2>2. n * (b - a) = -n - n * e /\ n * e \in Nat
    BY <1>2, <2>1
  <2> QED
    BY <1>3, <2>2
<1>5. b - a \in Nat
  BY <1>2, <1>4
<1> QED
  BY <1>3, <1>5 DEF Divides

\* A multiple that is added does not change a remainder.
LEMMA MultipleAdded ==
    ASSUME NEW n \in Nat, n > 0, NEW x \in Nat, NEW t \in Nat
    PROVE  (x + n * t) % n = x % n
<1> DEFINE y == x + n * t
<1>1. y \in Nat
  OBVIOUS
<1> DEFINE a == x \div n
           b == y \div n
           r == x % n
           u == y % n
<1>2. a \in Int /\ r \in 0 .. (n - 1) /\ x = n * a + r
  OBVIOUS
<1>3. b \in Int /\ u \in 0 .. (n - 1) /\ y = n * b + u
  <2> HIDE DEF y
  <2> QED
    BY <1>1
<1>4. y = x + n * t
  OBVIOUS
<1> HIDE DEF a, b, r, u, y
<1> DEFINE k == a + t - b
<1>5. k \in Int /\ n * k = u - r
  BY <1>2, <1>3, <1>4
<1> HIDE DEF k
<1>6. k <= 0
  <2> SUFFICES ASSUME k >= 1 PROVE FALSE
    BY <1>5
  <2>1. n * (k - 1) >= 0 /\ n * (k - 1) = n * k - n
    BY <1>5
  <2> QED
    BY <1>2, <1>3, <1>5, <2>1
<1>7. k >= 0
  <2> SUFFICES ASSUME k <= -1 PROVE FALSE
    BY <1>5
  <2>1. n * (-1 - k) >= 0 /\ n * (-1 - k) = -n - n * k
    BY <1>5
  <2> QED
    BY <1>2, <1>3, <1>5, <2>1
<1>8. k = 0
  BY <1>5, <1>6, <1>7
<1>9. r = u
  BY <1>2, <1>3, <1>5, <1>8
<1> QED
  BY <1>4, <1>9 DEF r, u

LEMMA DoubleDivides ==
    ASSUME NEW n \in Nat, NEW x \in Int, Divides(n, x)
    PROVE  Divides(2 * n, 2 * x)
<1>1. PICK z \in Nat : x = n * z
  BY DEF Divides
<1>2. 2 * x = (2 * n) * z
  BY <1>1
<1> QED
  BY <1>2 DEF Divides

\* The first n steps of a probe sequence are at different places.
LEMMA TriangularInjective ==
    ASSUME NEW p \in Nat, NEW h \in Nat, NEW s \in 0 .. (2 ^ p - 1), NEW t \in 0 .. (2 ^ p - 1),
           s < t
    PROVE  Triangular(h, s, 2 ^ p) # Triangular(h, t, 2 ^ p)
<1> SUFFICES ASSUME Triangular(h, s, 2 ^ p) = Triangular(h, t, 2 ^ p) PROVE FALSE
  OBVIOUS
<1> DEFINE n == 2 ^ p
           x == (s * (s + 1)) \div 2
           y == (t * (t + 1)) \div 2
<1>1. n \in Nat /\ n > 0 /\ 2 ^ (p + 1) = 2 * n
  BY PowerPositive, PowerDoubles
<1>2. s \in Nat /\ t \in Nat /\ s < n /\ t < n
  BY <1>1
<1>3. x \in Nat /\ 2 * x = s * (s + 1) /\ y \in Nat /\ 2 * y = t * (t + 1)
  BY <1>2, Triangle
<1>4. (h + x) % n = (h + y) % n
  BY DEF Triangular
<1> HIDE DEF n, x, y
<1> DEFINE u == t - s
           v == t + s + 1
<1>5. /\ u \in Nat /\ v \in Nat /\ 0 < u /\ u < 2 * n /\ 0 < v /\ v < 2 * n
      /\ u % 2 = 1 \/ v % 2 = 1
  BY <1>1, <1>2
<1>6. u * v = 2 * (y - x)
  <2>1. u * v = t * (t + 1) - s * (s + 1)
    BY <1>2
  <2> QED
    BY <1>3, <2>1
<1> HIDE DEF u, v
<1>7. x <= y
  <2>1. u * v \in Nat
    BY <1>5
  <2> QED
    BY <1>3, <1>6, <2>1
<1>8. Divides(n, y - x)
  <2>1. h + x \in Nat /\ h + y \in Nat /\ h + x <= h + y /\ (h + y) - (h + x) = y - x
    BY <1>3, <1>7
  <2> QED
    BY <1>1, <1>4, <2>1, SameRemainder
<1> DEFINE q == p + 1
<1>9. q \in Nat /\ 2 ^ q = 2 * n
  BY <1>1
<1> HIDE DEF q
<1>10. Divides(2 ^ q, u * v)
  BY <1>1, <1>3, <1>6, <1>8, <1>9, DoubleDivides
<1> QED
  BY <1>1, <1>5, <1>9, <1>10, NoSmallFactors

\* They are at all places.
LEMMA TriangularReaches ==
    ASSUME NEW p \in Nat, NEW h \in Nat, NEW i \in 0 .. (2 ^ p - 1)
    PROVE  \E s \in 0 .. (2 ^ p - 1) : Triangular(h, s, 2 ^ p) = i
<1> DEFINE n == 2 ^ p
           P == 0 .. (n - 1)
           f == [s \in P |-> Triangular(h, s, n)]
<1>1. n \in Nat /\ n > 0
  BY PowerPositive
<1>2. \A s \in P : Triangular(h, s, n) \in P
  <2> TAKE s \in P
  <2>1. (s * (s + 1)) \div 2 \in Nat
    BY <1>1, Triangle
  <2> HIDE DEF n
  <2> QED
    BY <1>1, <2>1 DEF Triangular
<1>3. f \in Injection(P, P)
  <2>1. f \in [P -> P]
    BY <1>2
  <2>2. ASSUME NEW s \in P, NEW t \in P, f[s] = f[t] PROVE s = t
    <3>1. ~(s < t) /\ ~(t < s)
      BY <2>2, TriangularInjective
    <3>2. s \in Int /\ t \in Int
      BY <1>1
    <3> QED
      BY <3>1, <3>2
  <2> HIDE DEF f, P
  <2> QED
    BY <2>1, <2>2 DEF Injection, IsInjective
<1>4. IsFiniteSet(P)
  BY <1>1, FS_Interval
<1>5. f \in Surjection(P, P)
  <2> HIDE DEF f, P
  <2> QED
    BY <1>3, <1>4, FS_Injection
<1>6. \E s \in P : f[s] = i
  <2> HIDE DEF f
  <2> QED
    BY <1>5 DEF Surjection
<1> QED
  BY <1>6

\* The sequence is back where it began after 2 * n - 1 steps and not earlier.
LEMMA TriangularReturns ==
    ASSUME NEW p \in Nat, NEW h \in Nat
    PROVE  /\ \A s \in 1 .. (2 * 2 ^ p - 2) : Triangular(h, s, 2 ^ p) # Triangular(h, 0, 2 ^ p)
           /\ Triangular(h, 2 * 2 ^ p - 1, 2 ^ p) = Triangular(h, 0, 2 ^ p)
<1> DEFINE n == 2 ^ p
<1>1. n \in Nat /\ n > 0 /\ 2 ^ (p + 1) = 2 * n
  BY PowerPositive, PowerDoubles
<1>2. Triangular(h, 0, n) = h % n
  BY <1>1 DEF Triangular
<1>3. ASSUME NEW s \in 1 .. (2 * n - 2), Triangular(h, s, n) = Triangular(h, 0, n) PROVE FALSE
  <2> DEFINE x == (s * (s + 1)) \div 2
  <2>1. s \in Nat /\ s > 0 /\ s + 1 < 2 * n
    BY <1>1
  <2>2. x \in Nat /\ 2 * x = s * (s + 1)
    BY <2>1, Triangle
  <2>3. (h + x) % n = h % n
    BY <1>2, <1>3 DEF Triangular
  <2> HIDE DEF x, n
  <2>4. Divides(n, x)
    <3>1. h + x \in Nat /\ h <= h + x /\ (h + x) - h = x
      BY <2>2
    <3> QED
      BY <1>1, <2>3, <3>1, SameRemainder
  <2> DEFINE q == p + 1
             t == s + 1
  <2>5. q \in Nat /\ 2 ^ q = 2 * n /\ t \in Nat /\ 0 < t /\ t < 2 * n /\ s < 2 * n
    BY <1>1, <2>1
  <2>6. (s % 2 = 1 \/ t % 2 = 1) /\ 2 * x = s * t
    BY <2>1, <2>2
  <2> HIDE DEF q, t
  <2>7. Divides(2 ^ q, s * t)
    BY <1>1, <2>2, <2>4, <2>5, <2>6, DoubleDivides
  <2> QED
    BY <2>1, <2>5, <2>6, <2>7, NoSmallFactors
<1>4. Triangular(h, 2 * n - 1, n) = Triangular(h, 0, n)
  <2> DEFINE t == 2 * n - 1
             x == (t * (t + 1)) \div 2
  <2>1. t \in Nat
    BY <1>1
  <2>2. x \in Nat /\ 2 * x = t * (t + 1)
    BY <2>1, Triangle
  <2>3. x = n * t
    <3>1. t * (t + 1) = 2 * (n * t)
      <4> HIDE DEF n
      <4> QED
        BY <1>1
    <3>2. n * t \in Nat
      BY <1>1
    <3> HIDE DEF x, t, n
    <3> QED
      BY <2>2, <3>1, <3>2
  <2>4. (h + n * t) % n = h % n
    <3> HIDE DEF n, t
    <3> QED
      BY <1>1, <2>1, MultipleAdded
  <2> QED
    BY <1>2, <2>3, <2>4 DEF Triangular
<1> QED
  BY <1>3, <1>4

-----------------------------------------------------------------------------
(* Sequences of anything *)

IsSequence(s) == s \in Seq({s[i] : i \in DOMAIN s})

LEMMA SequenceIs ==
    ASSUME NEW S, NEW s \in Seq(S)
    PROVE  IsSequence(s)
<1>1. Len(s) \in Nat /\ s \in [1 .. Len(s) -> S] /\ DOMAIN s = 1 .. Len(s)
  BY LenProperties
<1>2. s \in [1 .. Len(s) -> {s[i] : i \in DOMAIN s}]
  BY <1>1
<1> QED
  BY <1>1, <1>2, SeqDef DEF IsSequence

LEMMA SequenceHas ==
    ASSUME NEW s, IsSequence(s)
    PROVE  /\ Len(s) \in Nat /\ DOMAIN s = 1 .. Len(s)
           /\ s = [i \in 1 .. Len(s) |-> s[i]]
BY LenProperties DEF IsSequence

LEMMA SequenceMade ==
    ASSUME NEW s, NEW n \in Nat, DOMAIN s = 1 .. n, s = [i \in 1 .. n |-> s[i]]
    PROVE  IsSequence(s) /\ Len(s) = n
<1>1. s \in [1 .. n -> {s[i] : i \in DOMAIN s}]
  OBVIOUS
<1>2. s \in Seq({s[i] : i \in DOMAIN s})
  BY <1>1, SeqDef
<1>3. Len(s) \in Nat /\ DOMAIN s = 1 .. Len(s)
  BY <1>2, LenProperties
<1>4. Len(s) = n
  <2>1. ASSUME Len(s) < n PROVE FALSE
    <3>1. n \in 1 .. n /\ n \notin 1 .. Len(s)
      BY <1>3, <2>1
    <3> QED
      BY <1>3, <3>1
  <2>2. ASSUME n < Len(s) PROVE FALSE
    <3>1. Len(s) \in 1 .. Len(s) /\ Len(s) \notin 1 .. n
      BY <1>3, <2>2
    <3> QED
      BY <1>3, <3>1
  <2> QED
    BY <1>3, <2>1, <2>2
<1> QED
  BY <1>2, <1>4 DEF IsSequence

LEMMA SequenceJoined ==
    ASSUME NEW s, NEW t, IsSequence(s), IsSequence(t)
    PROVE  /\ IsSequence(s \o t) /\ Len(s \o t) = Len(s) + Len(t)
           /\ \A i \in 1 .. Len(s) : (s \o t)[i] = s[i]
           /\ \A i \in 1 .. Len(t) : (s \o t)[Len(s) + i] = t[i]
<1> DEFINE S == {s[i] : i \in DOMAIN s} \cup {t[i] : i \in DOMAIN t}
<1>1. s \in Seq(S) /\ t \in Seq(S)
  BY SeqMonotonic DEF IsSequence
<1>2. /\ s \o t \in Seq(S)
      /\ Len(s \o t) = Len(s) + Len(t)
      /\ \A i \in 1 .. Len(s) + Len(t) :
            (s \o t)[i] = IF i <= Len(s) THEN s[i] ELSE t[i - Len(s)]
  <2> HIDE DEF S
  <2> QED
    BY <1>1, ConcatProperties
<1>3. Len(s) \in Nat /\ Len(t) \in Nat
  BY SequenceHas
<1>4. IsSequence(s \o t)
  BY <1>2, SequenceIs
<1>5. ASSUME NEW i \in 1 .. Len(s) PROVE (s \o t)[i] = s[i]
  BY <1>2, <1>3
<1>6. ASSUME NEW i \in 1 .. Len(t) PROVE (s \o t)[Len(s) + i] = t[i]
  <2>1. Len(s) + i \in 1 .. Len(s) + Len(t) /\ ~(Len(s) + i <= Len(s)) /\ (Len(s) + i) - Len(s) = i
    BY <1>3
  <2> QED
    BY <1>2, <2>1
<1> QED
  BY <1>2, <1>4, <1>5, <1>6

LEMMA SequenceAppended ==
    ASSUME NEW s, IsSequence(s), NEW e
    PROVE  /\ IsSequence(Append(s, e)) /\ Len(Append(s, e)) = Len(s) + 1
           /\ \A i \in 1 .. Len(s) : Append(s, e)[i] = s[i]
           /\ Append(s, e)[Len(s) + 1] = e
<1> DEFINE S == {s[i] : i \in DOMAIN s} \cup {e}
<1>1. s \in Seq(S) /\ e \in S
  BY SeqMonotonic DEF IsSequence
<1>2. /\ Append(s, e) \in Seq(S)
      /\ Len(Append(s, e)) = Len(s) + 1
      /\ \A i \in 1 .. Len(s) : Append(s, e)[i] = s[i]
      /\ Append(s, e)[Len(s) + 1] = e
  <2> HIDE DEF S
  <2> QED
    BY <1>1, AppendProperties
<1>3. IsSequence(Append(s, e))
  BY <1>2, SequenceIs
<1> QED
  BY <1>2, <1>3
=============================================================================
