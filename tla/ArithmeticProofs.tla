------------------------------ MODULE ArithmeticProofs ------------------------------
(***************************************************************************)
(* What the other proofs need to know about numbers: divisors and          *)
(* remainders, and induction over the naturals in a form the provers can   *)
(* apply.  Behind that, the products of the simulator and the sums it      *)
(* makes of them fill two words: what HI and LO hold afterwards, whatever  *)
(* the width of a word.  At the end, powers and Fermat's theorem, and what *)
(* the loops of powmod and inverse return, for every input.                *)
(***************************************************************************)
EXTENDS Divisibility, Multiply, WellFoundedInduction, FiniteSetTheorems, TLAPS

(* Induction over the naturals, for a set in place of a predicate: to show   *)
(* P(n) for every n, take S = {n \in Nat : P(n)}.  A set of naturals has a  *)
(* least element because < is well founded.                                *)
Less == {ss \in Nat \X Nat : ss[1] < ss[2]}

LEMMA LessIsWF == IsWellFoundedOn(Less, Nat)
  BY NatLessThanWellFounded DEF OpToRel, Less

LEMMA LeastElement ==
  ASSUME NEW S, S \subseteq Nat, S # {}
  PROVE  \E n \in S : \A k \in S : n <= k
<1>1. PICK n \in S : \A k \in S : ~ (<<k, n>> \in Less)
  BY LessIsWF, WFMin
<1>2. ASSUME NEW k \in S PROVE n <= k
  <2>1. k \in Nat /\ n \in Nat /\ ~ (<<k, n>> \in Less)
    BY <1>1
  <2>2. ~ (k < n)
    BY <2>1 DEF Less
  <2>3. QED BY <2>1, <2>2
<1>3. QED BY <1>2

LEMMA Induction ==
  ASSUME NEW S, 0 \in S, \A n \in Nat : n \in S => n + 1 \in S
  PROVE  Nat \subseteq S
<1>1. SUFFICES ASSUME Nat \ S # {} PROVE FALSE
  OBVIOUS
<1>2. PICK n \in Nat \ S : \A k \in Nat \ S : n <= k
  BY <1>1, LeastElement
<1>3. n # 0 /\ n - 1 \in Nat /\ n - 1 \in S
  BY <1>2
<1>4. (n - 1) + 1 \in S
  BY <1>3
<1>5. QED BY <1>2, <1>4

-------------------------------------------------------------------------------
(* The quotient of a division needs no bound. *)
LEMMA DividesIsMultiple ==
  ASSUME NEW d \in Nat, NEW n \in Nat
  PROVE  Divides(d, n) <=> \E q \in Nat : n = d * q
<1>1. ASSUME Divides(d, n) PROVE \E q \in Nat : n = d * q
  BY <1>1 DEF Divides
<1>2. ASSUME NEW q \in Nat, n = d * q PROVE Divides(d, n)
  <2>1. CASE n = 0
    <3>1. 0 \in 0..n /\ n = d * 0
      BY <2>1
    <3>2. QED BY <3>1 DEF Divides
  <2>2. CASE d = 0
    BY <2>1, <2>2, <1>2
  <2>3. CASE d # 0 /\ n # 0
    <3>1. q <= d * q
      BY <2>3
    <3>2. q \in 0..n
      BY <3>1, <1>2
    <3>3. QED BY <3>2, <1>2 DEF Divides
  <2>4. QED BY <2>1, <2>2, <2>3
<1>3. QED BY <1>1, <1>2

(* A common divisor of m and n, m <= n, is one of m and n - m, and back. *)
LEMMA DividesDifference ==
  ASSUME NEW d \in Nat, NEW m \in Nat, NEW n \in Nat, m <= n, Divides(d, m)
  PROVE  Divides(d, n) <=> Divides(d, n - m)
<1>0. n - m \in Nat
  OBVIOUS
<1>1. PICK k \in Nat : m = d * k
  BY DividesIsMultiple
<1>2. ASSUME Divides(d, n) PROVE Divides(d, n - m)
  <2>1. PICK q \in Nat : n = d * q
    BY <1>2, DividesIsMultiple
  <2>2. n - m = d * (q - k)
    BY <1>1, <2>1
  <2>3. q - k \in Nat \/ n - m = 0
    <3>1. CASE q >= k
      BY <3>1
    <3>2. CASE q < k
      <4>1. d * q <= d * k
        BY <3>2
      <4>2. QED BY <4>1, <1>1, <2>1
    <3>3. QED BY <3>1, <3>2
  <2>4. n - m = 0 => n - m = d * 0
    OBVIOUS
  <2>5. QED BY <1>0, <2>2, <2>3, <2>4, DividesIsMultiple
<1>3. ASSUME Divides(d, n - m) PROVE Divides(d, n)
  <2>1. PICK q \in Nat : n - m = d * q
    BY <1>0, <1>3, DividesIsMultiple
  <2>2. n = d * (q + k)
    BY <1>1, <2>1
  <2>3. QED BY <2>2, DividesIsMultiple
<1>4. QED BY <1>2, <1>3

(* Everything divides 0. *)
LEMMA DividesZero == \A d \in Nat : Divides(d, 0)
  BY DEF Divides

LEMMA DividesSelf ==
  ASSUME NEW n \in Nat
  PROVE  Divides(n, n)
<1>1. n = n * 1
  OBVIOUS
<1>2. QED BY <1>1, DividesIsMultiple


-------------------------------------------------------------------------------
(* Quotient and remainder, as the loops compute them. *)
LEMMA QuotientRemainder ==
  ASSUME NEW n \in Nat, NEW d \in Nat \ {0}
  PROVE  /\ n \div d \in Nat /\ n % d \in Nat
         /\ n = d * (n \div d) + (n % d)
         /\ n % d < d
  OBVIOUS

(* A multiple of n leaves the remainder 0. *)
LEMMA MultipleIsCongruentToZero ==
  ASSUME NEW n \in Nat \ {0}, NEW k \in Int
  PROVE  (k * n) % n = 0
  OBVIOUS

(* There is one way to write a number as a multiple of n and a remainder. *)
LEMMA RemainderIsUnique ==
  ASSUME NEW n \in Nat \ {0}, NEW k \in Int, NEW r \in 0..(n - 1)
  PROVE  (k * n + r) % n = r
<1> DEFINE v == k * n + r
           j == v \div n
           s == v % n
<1>1. v \in Int /\ j \in Int /\ s \in 0..(n - 1) /\ v = n * j + s
  OBVIOUS
<1> HIDE DEF j, s
<1>2. n * (j - k) = r - s
  BY <1>1
<1>3. j - k = 0
  <2>1. CASE j - k >= 1
    <3>1. n * (j - k) >= n
      BY <1>1, <2>1
    <3>2. QED BY <3>1, <1>1, <1>2
  <2>2. CASE j - k <= -1
    <3>1. n * (j - k) <= -n
      BY <1>1, <2>2
    <3>2. QED BY <3>1, <1>1, <1>2
  <2>3. QED BY <2>1, <2>2, <1>1
<1>4. s = r
  BY <1>1, <1>2, <1>3
<1>5. QED BY <1>4 DEF s

(* The remainder 0 is left by multiples only. *)
LEMMA CongruentToZeroIsMultiple ==
  ASSUME NEW n \in Nat \ {0}, NEW v \in Int, v % n = 0
  PROVE  \E k \in Int : v = k * n
<1>1. v = n * (v \div n) + (v % n) /\ v \div n \in Int
  OBVIOUS
<1>2. QED BY <1>1

(* Reducing one factor before a product is reduced changes nothing. *)
LEMMA ReducedFactor ==
  ASSUME NEW u \in Nat, NEW v \in Nat, NEW m \in Nat \ {0}
  PROVE  ((u % m) * v) % m = (u * v) % m
<1> DEFINE q == u \div m
           r == u % m
           s == (r * v) % m
           k == (r * v) \div m
<1>1. q \in Nat /\ r \in Nat /\ u = m * q + r
  BY QuotientRemainder
<1> HIDE DEF q, r
<1>2. r * v \in Nat /\ q * v \in Nat
  BY <1>1
<1>3. s \in 0..(m - 1) /\ k \in Nat /\ r * v = m * k + s
  <2> DEFINE p == r * v
  <2>1. p \in Nat
    BY <1>2
  <2> HIDE DEF p
  <2>2. p \div m \in Nat /\ p % m \in 0..(m - 1) /\ p = m * (p \div m) + (p % m)
    BY <2>1, QuotientRemainder
  <2>3. QED BY <2>2 DEF p
<1> HIDE DEF k
<1>4. u * v = m * (q * v) + r * v
  BY <1>1
<1>5. m * (q * v) + m * k = (q * v + k) * m
  BY <1>2, <1>3
<1>6. u * v = (q * v + k) * m + s /\ q * v + k \in Int
  <2>1. s \in Nat /\ m * (q * v) \in Nat /\ m * k \in Nat
    BY <1>2, <1>3
  <2> HIDE DEF s
  <2>2. QED BY <1>2, <1>3, <1>4, <1>5, <2>1
<1> HIDE DEF s
<1>7. (u * v) % m = s
  BY <1>3, <1>6, RemainderIsUnique
<1>8. QED BY <1>7 DEF s, r

-------------------------------------------------------------------------------
(* Primes and numbers without a common divisor. *)
LEMMA DivisorIsSmaller ==
  ASSUME NEW d \in Nat, NEW n \in Nat \ {0}, Divides(d, n)
  PROVE  d \in 1..n
<1>1. PICK q \in Nat : n = d * q
  BY DividesIsMultiple
<1>2. d # 0 /\ q # 0
  BY <1>1
<1>3. d <= d * q
  BY <1>2
<1>4. QED BY <1>1, <1>2, <1>3

LEMMA DividesTransitive ==
  ASSUME NEW d \in Nat, NEW m \in Nat, NEW n \in Nat, Divides(d, m), Divides(m, n)
  PROVE  Divides(d, n)
<1>1. PICK j \in Nat : m = d * j
  BY DividesIsMultiple
<1>2. PICK k \in Nat : n = m * k
  BY DividesIsMultiple
<1>3. n = d * (j * k) /\ j * k \in Nat
  BY <1>1, <1>2
<1>4. QED BY <1>3, DividesIsMultiple

(* The least divisor above 1 is prime. *)
LEMMA PrimeDivisor ==
  ASSUME NEW n \in Nat, n > 1
  PROVE  \E r \in 2..n : IsPrime(r) /\ Divides(r, n)
<1> DEFINE S == {r \in 2..n : Divides(r, n)}
<1>1. n \in S /\ S \subseteq Nat
  BY DividesSelf
<1>2. PICK r \in S : \A k \in S : r <= k
  <2> HIDE DEF S
  <2>1. QED BY <1>1, LeastElement
<1>3. ASSUME NEW k \in 2..(r - 1), Divides(k, r) PROVE FALSE
  <2>1. k \in Nat /\ r \in Nat /\ Divides(k, n) /\ k \in 2..n
    BY <1>2, <1>3, DividesTransitive
  <2>2. QED BY <1>2, <2>1
<1>4. QED BY <1>2, <1>3 DEF IsPrime

LEMMA PrimeIsCoprime ==
  ASSUME NEW r \in Nat, NEW n \in Nat, IsPrime(r), ~ Divides(r, n)
  PROVE  Coprime(r, n)
BY DEF Coprime, IsPrime

LEMMA DivisorIsCoprime ==
  ASSUME NEW d \in Nat \ {0}, NEW m \in Nat \ {0}, NEW n \in Nat, Divides(d, m), Coprime(m, n)
  PROVE  Coprime(d, n)
<1>1. d \in 1..m
  BY DivisorIsSmaller
<1>2. ASSUME NEW k \in 1..d, Divides(k, d), Divides(k, n) PROVE k = 1
  <2>1. k \in 1..m /\ Divides(k, m)
    BY <1>1, <1>2, DividesTransitive
  <2>2. QED BY <1>2, <2>1 DEF Coprime
<1>3. QED BY <1>2 DEF Coprime

(* The least number above 1 that is coprime to another is prime. *)
LEMMA LeastCoprimeIsPrime ==
  ASSUME NEW m \in Nat, NEW n \in Nat, m > 1, Coprime(m, n),
         \A k \in 2..(m - 1) : ~ Coprime(k, n)
  PROVE  IsPrime(m)
<1>1. ASSUME NEW k \in 2..(m - 1), Divides(k, m) PROVE FALSE
  BY <1>1, DivisorIsCoprime
<1>2. QED BY <1>1 DEF IsPrime

(* The predecessor of a number above 2 has a prime divisor, which does not  *)
(* divide the number itself.                                                *)
LEMMA CoprimePrimeBelow ==
  ASSUME NEW n \in Nat, n > 2
  PROVE  \E r \in 2..(n - 1) : IsPrime(r) /\ Coprime(r, n)
<1>1. PICK r \in 2..(n - 1) : IsPrime(r) /\ Divides(r, n - 1)
  BY PrimeDivisor
<1>2. ASSUME Divides(r, n) PROVE FALSE
  <2>1. Divides(r, n - (n - 1))
    BY <1>1, <1>2, DividesDifference
  <2>2. Divides(r, 1)
    BY <2>1
  <2>3. QED BY <2>2, DivisorIsSmaller
<1>3. QED BY <1>1, <1>2, PrimeIsCoprime

(* A prime that divides a product divides one of the factors: the least     *)
(* multiple of the second factor that it divides divides every other one.   *)
LEMMA PrimeDividesFactor ==
  ASSUME NEW r \in Nat, NEW a \in Nat \ {0}, NEW b \in Nat, IsPrime(r), Divides(r, a * b)
  PROVE  Divides(r, a) \/ Divides(r, b)
<1> DEFINE S == {k \in Nat \ {0} : Divides(r, k * b)}
<1>0. r > 1
  BY DEF IsPrime
<1>1. a \in S
  OBVIOUS
<1>2. r \in S
  <2>1. r * b \in Nat /\ Divides(r, r * b)
    BY DividesIsMultiple
  <2>2. QED BY <1>0, <2>1
<1>3. PICK m \in S : \A k \in S : m <= k
  <2>1. S \subseteq Nat
    OBVIOUS
  <2> HIDE DEF S
  <2>2. QED BY <1>1, <2>1, LeastElement
<1>4. m \in Nat \ {0} /\ m * b \in Nat /\ Divides(r, m * b)
  OBVIOUS
<1>5. ASSUME NEW k \in S PROVE Divides(m, k)
  <2> DEFINE q == k \div m
             t == k % m
  <2>1. k \in Nat /\ k * b \in Nat /\ Divides(r, k * b)
    OBVIOUS
  <2>2. q \in Nat /\ t \in Nat /\ t < m /\ k = m * q + t
    BY <1>4, <2>1, QuotientRemainder
  <2> HIDE DEF q, t, S
  <2>3. Divides(r, (m * b) * q)
    <3>1. PICK j \in Nat : m * b = r * j
      BY <1>4, DividesIsMultiple
    <3>2. (m * b) * q = r * (j * q) /\ j * q \in Nat /\ (m * b) * q \in Nat
      BY <1>4, <2>2, <3>1
    <3>3. QED BY <3>2, DividesIsMultiple
  <2>4. k * b = (m * b) * q + t * b /\ t * b \in Nat /\ (m * b) * q \in Nat
    BY <1>4, <2>1, <2>2
  <2>5. Divides(r, t * b)
    <3> DEFINE u == (m * b) * q
               v == k * b
               w == t * b
    <3>1. u \in Nat /\ v \in Nat /\ w \in Nat /\ v = u + w /\ Divides(r, u) /\ Divides(r, v)
      BY <2>1, <2>3, <2>4
    <3> HIDE DEF u, v, w
    <3>2. u <= v /\ v - u = w
      BY <3>1
    <3>3. Divides(r, w)
      BY <3>1, <3>2, DividesDifference
    <3>4. QED BY <3>3 DEF w
  <2>6. t = 0
    <3>1. t # 0 => t \in S
      BY <2>2, <2>5 DEF S
    <3>2. QED BY <1>3, <2>2, <3>1
  <2>7. k = m * q
    BY <1>4, <2>2, <2>6
  <2>8. QED BY <1>4, <2>1, <2>2, <2>7, DividesIsMultiple
<1>6. Divides(m, r) /\ Divides(m, a)
  BY <1>1, <1>2, <1>5
<1>7. m = 1 \/ m = r
  <2>1. m \in 1..r
    BY <1>0, <1>4, <1>6, DivisorIsSmaller
  <2>2. QED BY <1>6, <2>1 DEF IsPrime
<1>8. CASE m = 1
  <2>1. m * b = b
    BY <1>8
  <2>2. QED BY <1>4, <2>1
<1>9. QED BY <1>6, <1>7, <1>8

(* A prime is coprime to a product of smaller numbers. *)
LEMMA PrimeAndSmallerFactors ==
  ASSUME NEW r \in Nat, NEW a \in 1..(r - 1), NEW b \in 1..(r - 1), IsPrime(r)
  PROVE  Coprime(r, a * b)
<1>1. ~ Divides(r, a) /\ ~ Divides(r, b)
  BY DivisorIsSmaller
<1>2. a * b \in Nat /\ ~ Divides(r, a * b)
  BY <1>1, PrimeDividesFactor
<1>3. QED BY <1>2, PrimeIsCoprime

-------------------------------------------------------------------------------
(* Words and double words.                                                  *)

(* The simulator multiplies by half words. *)
Halves == 0..(HALF - 1)

LEMMA Widths == HALF \in Nat \ {0} /\ WORD \in Nat \ {0} /\ WORD * WORD \in Nat \ {0}
<1>1. HALF \in Nat \ {0}
  BY HalfAssumption
<1>2. WORD \in Nat \ {0}
  BY <1>1 DEF WORD
<1>3. QED BY <1>1, <1>2

(* No product of half words leaves the word. *)
LEMMA HalvesFit ==
  ASSUME NEW s \in Halves, NEW t \in Halves
  PROVE  s * t \in Words
<1>1. s \in Nat /\ t \in Nat /\ HALF \in Nat /\ s <= HALF - 1 /\ t <= HALF - 1
  BY Widths DEF Halves
<1>2. s * t \in Nat /\ s * t <= (HALF - 1) * t
  BY <1>1
<1>3. (HALF - 1) * t <= (HALF - 1) * (HALF - 1)
  BY <1>1
<1>4. (HALF - 1) * (HALF - 1) <= HALF * HALF - 1
  BY Widths
<1>5. (HALF - 1) * t \in Int /\ (HALF - 1) * (HALF - 1) \in Int /\ HALF * HALF \in Int
  BY <1>1
<1>6. QED BY <1>2, <1>3, <1>4, <1>5 DEF Words, WORD

(* A word is its two halves. *)
LEMMA Split ==
  ASSUME NEW v \in Words
  PROVE  v \div HALF \in Halves /\ v % HALF \in Halves /\ v = HALF * (v \div HALF) + (v % HALF)
<1>1. v \in Nat /\ v < HALF * HALF /\ HALF \in Nat \ {0}
  BY Widths DEF Words, WORD
<1> DEFINE q == v \div HALF
           r == v % HALF
<1>2. q \in Nat /\ r \in Nat /\ v = HALF * q + r /\ r < HALF
  BY <1>1, QuotientRemainder
<1>3. q < HALF
  <2>1. SUFFICES ASSUME q >= HALF PROVE FALSE
    BY <1>1, <1>2
  <2>2. HALF * q >= HALF * HALF
    BY <1>1, <1>2, <2>1
  <2>3. HALF * q \in Nat /\ HALF * HALF \in Nat
    BY <1>1, <1>2
  <2>4. QED BY <1>1, <1>2, <2>2, <2>3
<1>4. QED BY <1>1, <1>2, <1>3 DEF Halves

(* The test for a carry finds it: the sum of two words is at least as large  *)
(* as either of them unless it has left the word.                            *)
LEMMA CarryFound ==
  ASSUME NEW s \in Words, NEW t \in Words
  PROVE  LET m == (s + t) % WORD
         IN  m \in Words /\ s + t = m + (IF m < s \/ m < t THEN WORD ELSE 0)
<1> DEFINE m == (s + t) % WORD
<1>1. s \in Nat /\ t \in Nat /\ s < WORD /\ t < WORD /\ WORD \in Nat \ {0}
  BY Widths DEF Words
<1>2. CASE s + t < WORD
  <2>1. m = s + t
    <3>1. s + t \in 0..(WORD - 1) /\ 0 \in Int /\ 0 * WORD + (s + t) = s + t
      BY <1>1, <1>2
    <3>2. (0 * WORD + (s + t)) % WORD = s + t
      BY <1>1, <3>1, RemainderIsUnique
    <3>3. QED BY <3>1, <3>2
  <2>2. QED BY <1>1, <1>2, <2>1 DEF Words
<1>3. CASE s + t >= WORD
  <2>1. m = s + t - WORD
    <3>1. s + t - WORD \in 0..(WORD - 1) /\ 1 \in Int /\ 1 * WORD + (s + t - WORD) = s + t
      BY <1>1, <1>3
    <3>2. (1 * WORD + (s + t - WORD)) % WORD = s + t - WORD
      BY <1>1, <3>1, RemainderIsUnique
    <3>3. QED BY <3>1, <3>2
  <2>2. QED BY <1>1, <1>3, <2>1 DEF Words
<1>4. QED BY <1>1, <1>2, <1>3

(* All carries together. *)
LEMMA CarriesFound ==
  ASSUME NEW s \in Words, NEW t \in Words, NEW w \in Words
  PROVE  LET mid2 == (((s + t) % WORD) + w) % WORD
         IN  /\ mid2 \in Words /\ Carries(s, t, w) \in 0..2
             /\ s + t + w = mid2 + Carries(s, t, w) * WORD
<1> DEFINE mid == (s + t) % WORD
           mid2 == (mid + w) % WORD
           c1 == IF mid < s \/ mid < t THEN 1 ELSE 0
           c2 == IF mid2 < mid \/ mid2 < w THEN 1 ELSE 0
<1>1. mid \in Words /\ s + t = mid + c1 * WORD
  <2>1. mid \in Words /\ s + t = mid + (IF mid < s \/ mid < t THEN WORD ELSE 0)
    BY CarryFound
  <2>2. QED BY <2>1, Widths
<1>2. mid2 \in Words /\ mid + w = mid2 + c2 * WORD
  <2>1. mid2 \in Words /\ mid + w = mid2 + (IF mid2 < mid \/ mid2 < w THEN WORD ELSE 0)
    BY <1>1, CarryFound
  <2>2. QED BY <2>1, Widths
<1>3. Carries(s, t, w) = c1 + c2
  BY DEF Carries
<1>4. c1 \in {0, 1} /\ c2 \in {0, 1}
  OBVIOUS
<1> HIDE DEF c1, c2, mid, mid2
<1>5. s + t + w = mid2 + (c1 + c2) * WORD
  <2>1. s \in Nat /\ t \in Nat /\ w \in Nat /\ mid \in Nat /\ mid2 \in Nat
    BY <1>1, <1>2 DEF Words
  <2>2. (c1 + c2) * WORD = c1 * WORD + c2 * WORD
    BY <1>4, Widths
  <2>3. c1 * WORD \in Nat /\ c2 * WORD \in Nat
    BY <1>4, Widths
  <2>4. QED BY <1>1, <1>2, <2>1, <2>2, <2>3
<1>6. QED BY <1>2, <1>3, <1>4, <1>5 DEF mid, mid2

-----------------------------------------------------------------------------
(* unsigned_multiply leaves the product of its arguments in HI and LO, for   *)
(* every even width of half a word.                                          *)
THEOREM UnsignedIsExact ==
  ASSUME NEW v1 \in Words, NEW v2 \in Words
  PROVE  LET p == unsigned_multiply(v1, v2)
         IN  p.lo \in Words /\ p.hi \in Words /\ Double(p) = v1 * v2
<1> DEFINE h1 == v1 \div HALF
           l1 == v1 % HALF
           h2 == v2 \div HALF
           l2 == v2 % HALF
           u == (l1 * l2) \div HALF
           l == (l1 * l2) % HALF
           mid2 == (((h1 * l2 + h2 * l1) % WORD) + u) % WORD
           k == Carries(h1 * l2, h2 * l1, u)
           m0 == mid2 % HALF
           m1 == mid2 \div HALF
           hi == h1 * h2 + k * HALF + m1
           lo == l + m0 * HALF
<1>1. /\ h1 \in Halves /\ l1 \in Halves /\ v1 = HALF * h1 + l1
      /\ h2 \in Halves /\ l2 \in Halves /\ v2 = HALF * h2 + l2
  BY Split
<1>2. h1 * l2 \in Words /\ h2 * l1 \in Words /\ l1 * l2 \in Words /\ h1 * h2 \in Words
  BY <1>1, HalvesFit
<1>3. u \in Halves /\ l \in Halves /\ l1 * l2 = HALF * u + l
  BY <1>2, Split
<1>4. u \in Words
  BY <1>3, Widths, HalvesFit DEF Halves, Words, WORD
<1>5. mid2 \in Words /\ k \in 0..2 /\ h1 * l2 + h2 * l1 + u = mid2 + k * WORD
  BY <1>2, <1>4, CarriesFound
<1>6. m1 \in Halves /\ m0 \in Halves /\ mid2 = HALF * m1 + m0
  BY <1>5, Split
<1>7. unsigned_multiply(v1, v2) = [lo |-> lo, hi |-> hi % WORD]
  BY DEF unsigned_multiply
<1>8. /\ HALF \in Nat \ {0} /\ WORD = HALF * HALF
      /\ h1 \in Nat /\ l1 \in Nat /\ h2 \in Nat /\ l2 \in Nat /\ u \in Nat /\ l \in Nat
      /\ k \in Nat /\ m0 \in Nat /\ m1 \in Nat /\ l <= HALF - 1 /\ m0 <= HALF - 1
      /\ v1 \in Nat /\ v2 \in Nat /\ v1 < WORD /\ v2 < WORD
  BY <1>1, <1>3, <1>5, <1>6, Widths DEF Halves, Words, WORD
<1> HIDE DEF h1, l1, h2, l2, u, l, mid2, k, m0, m1
<1>9. lo \in Words
  <2>1. m0 * HALF <= (HALF - 1) * HALF
    BY <1>8
  <2>2. (HALF - 1) * HALF = WORD - HALF
    BY <1>8
  <2>3. m0 * HALF \in Nat /\ WORD \in Nat
    BY <1>8
  <2>4. QED BY <1>8, <2>1, <2>2, <2>3 DEF Words
<1>10. v1 * v2 = hi * WORD + lo
  <2>1. v1 * v2 = (HALF * h1 + l1) * (HALF * h2 + l2)
    BY <1>1
  <2>2. (HALF * h1 + l1) * (HALF * h2 + l2) = (h1 * h2) * WORD + (h1 * l2 + h2 * l1) * HALF + l1 * l2
    BY <1>8
  <2>3. (h1 * l2 + h2 * l1) * HALF + l1 * l2 = (mid2 + k * WORD) * HALF + l
    <3>1. (h1 * l2 + h2 * l1 + u) * HALF = (mid2 + k * WORD) * HALF
      BY <1>5
    <3>2. (h1 * l2 + h2 * l1 + u) * HALF = (h1 * l2 + h2 * l1) * HALF + HALF * u
      BY <1>8
    <3>3. h1 * l2 \in Nat /\ h2 * l1 \in Nat /\ (h1 * l2 + h2 * l1) * HALF \in Nat /\ HALF * u \in Nat
      BY <1>8
    <3>4. QED BY <1>3, <1>8, <3>1, <3>2, <3>3
  <2>4. (mid2 + k * WORD) * HALF = (m1 + k * HALF) * WORD + m0 * HALF
    BY <1>6, <1>8
  <2>5. (h1 * h2) * WORD + (m1 + k * HALF) * WORD = hi * WORD
    BY <1>8
  <2>6. /\ (h1 * h2) * WORD \in Nat /\ (h1 * l2 + h2 * l1) * HALF \in Nat /\ l1 * l2 \in Nat
        /\ (m1 + k * HALF) * WORD \in Nat /\ m0 * HALF \in Nat /\ hi * WORD \in Nat
    BY <1>8
  <2>7. v1 * v2 = (h1 * h2) * WORD + ((mid2 + k * WORD) * HALF + l)
    BY <2>1, <2>2, <2>3, <2>6
  <2>8. QED BY <1>8, <2>4, <2>5, <2>6, <2>7
<1>11. hi \in Nat
  BY <1>8
<1> HIDE DEF hi, lo
<1>12. hi < WORD
  <2>1. SUFFICES ASSUME hi >= WORD PROVE FALSE
    BY <1>8, <1>11
  <2>2. hi * WORD >= WORD * WORD
    BY <1>8, <1>11, <2>1
  <2>3. v1 * v2 <= WORD * v2 /\ WORD * v2 <= WORD * (WORD - 1)
    BY <1>8
  <2>4. WORD * (WORD - 1) < WORD * WORD
    BY <1>8
  <2>5. /\ v1 * v2 \in Nat /\ WORD * v2 \in Nat /\ WORD * (WORD - 1) \in Int
        /\ WORD * WORD \in Nat /\ hi * WORD \in Nat /\ lo \in Nat
    BY <1>8, <1>9, <1>11 DEF Words
  <2>6. QED BY <1>10, <2>2, <2>3, <2>4, <2>5
<1>13. hi % WORD = hi
  <2>1. hi \in 0..(WORD - 1) /\ 0 * WORD + hi = hi /\ WORD \in Nat \ {0}
    BY <1>11, <1>12, Widths
  <2>2. (0 * WORD + hi) % WORD = hi
    BY <2>1, RemainderIsUnique
  <2>3. QED BY <2>1, <2>2
<1>14. QED BY <1>7, <1>9, <1>10, <1>11, <1>12, <1>13, Widths DEF Double, Words

(* A sign does not leave the word. *)
LEMMA MagnitudeIsWord ==
  ASSUME NEW v \in Words
  PROVE  LET m == IF Negative(v) THEN Negated(v) ELSE v
         IN  m \in Words /\ Signed(v) = (IF Negative(v) THEN 0 - m ELSE m)
<1>1. v \in Nat /\ v < WORD /\ WORD \in Nat \ {0}
  BY Widths DEF Words
<1>2. CASE Negative(v)
  <2>1. CASE v = 0
    <3>1. WORD >= 2
      <4>1. HALF >= 2
        BY HalfAssumption
      <4>2. QED BY <4>1, Widths DEF WORD
    <3>2. QED BY <1>1, <1>2, <2>1, <3>1 DEF Negative
  <2>2. CASE v # 0
    BY <1>1, <1>2, <2>2 DEF Negated, Signed, Words
  <2>3. QED BY <2>1, <2>2
<1>3. CASE ~ Negative(v)
  BY <1>1, <1>3 DEF Signed, Words
<1>4. QED BY <1>2, <1>3

(* Complementing both words and incrementing the pair negates the number it  *)
(* stands for.                                                               *)
LEMMA PairNegated ==
  ASSUME NEW hi \in Words, NEW lo \in Words
  PROVE  LET n == [lo |-> Negated(lo),
                   hi |-> (Complement(hi) + (IF Negated(lo) = 0 THEN 1 ELSE 0)) % WORD]
         IN  Double(n) = (0 - (hi * WORD + lo)) % (WORD * WORD)
<1> DEFINE P == hi * WORD + lo
           M == WORD * WORD
           up == (Complement(hi) + (IF Negated(lo) = 0 THEN 1 ELSE 0)) % WORD
<1>1. /\ hi \in Nat /\ lo \in Nat /\ hi < WORD /\ lo < WORD
      /\ WORD \in Nat \ {0} /\ M \in Nat \ {0}
  BY Widths DEF Words
<1>2. SUFFICES up * WORD + Negated(lo) = (0 - P) % M
  BY DEF Double
<1>3. P \in Nat /\ P < M
  <2>1. hi * WORD <= (WORD - 1) * WORD
    BY <1>1
  <2>2. (WORD - 1) * WORD = M - WORD /\ hi * WORD \in Nat
    BY <1>1
  <2>3. QED BY <1>1, <2>1, <2>2
<1>4. CASE lo = 0 /\ hi = 0
  <2>1. P = 0 /\ Negated(lo) = 0 /\ Complement(hi) + 1 = 1 * WORD + 0
    BY <1>1, <1>4 DEF Negated, Complement
  <2>2. 0 \in 0..(WORD - 1) /\ 0 \in 0..(M - 1)
    BY <1>1
  <2>3. (1 * WORD + 0) % WORD = 0 /\ (0 * M + 0) % M = 0
    BY <1>1, <2>2, RemainderIsUnique
  <2>4. 0 - P = 0 * M + 0
    BY <1>1, <2>1
  <2>5. QED BY <1>1, <2>1, <2>3, <2>4
<1>5. CASE lo = 0 /\ hi # 0
  <2>1. Negated(lo) = 0 /\ Complement(hi) + 1 = 0 * WORD + (WORD - hi)
    BY <1>1, <1>5 DEF Negated, Complement
  <2>2. WORD - hi \in 0..(WORD - 1)
    BY <1>1, <1>5
  <2>3. (0 * WORD + (WORD - hi)) % WORD = WORD - hi
    BY <1>1, <2>2, RemainderIsUnique
  <2>4. up = WORD - hi
    BY <2>1, <2>3
  <2>5. (WORD - hi) * WORD = M - P
    BY <1>1, <1>5
  <2>6. hi * WORD >= 1
    BY <1>1, <1>5
  <2>7. M - P \in 0..(M - 1) /\ 0 - P = (0 - 1) * M + (M - P)
    BY <1>1, <1>3, <1>5, <2>6
  <2>8. ((0 - 1) * M + (M - P)) % M = M - P
    BY <1>1, <2>7, RemainderIsUnique
  <2>9. QED BY <1>1, <1>3, <2>1, <2>4, <2>5, <2>7, <2>8
<1>6. CASE lo # 0
  <2>1. Negated(lo) = WORD - lo /\ Negated(lo) # 0 /\ Complement(hi) + 0 = 0 * WORD + (WORD - 1 - hi)
    BY <1>1, <1>6 DEF Negated, Complement
  <2>2. WORD - 1 - hi \in 0..(WORD - 1)
    BY <1>1
  <2>3. (0 * WORD + (WORD - 1 - hi)) % WORD = WORD - 1 - hi
    BY <1>1, <2>2, RemainderIsUnique
  <2>4. up = WORD - 1 - hi
    BY <2>1, <2>3
  <2>5. (WORD - 1 - hi) * WORD + (WORD - lo) = M - P
    BY <1>1
  <2>6. hi * WORD \in Nat
    BY <1>1
  <2>7. M - P \in 0..(M - 1) /\ 0 - P = (0 - 1) * M + (M - P)
    BY <1>1, <1>3, <1>6, <2>6
  <2>8. ((0 - 1) * M + (M - P)) % M = M - P
    BY <1>1, <2>7, RemainderIsUnique
  <2>9. QED BY <2>1, <2>4, <2>5, <2>7, <2>8
<1>7. QED BY <1>4, <1>5, <1>6

(* signed_multiply leaves in HI and LO the double word that is the product   *)
(* of its arguments in two's complement.                                     *)
THEOREM SignedIsExact ==
  ASSUME NEW v1 \in Words, NEW v2 \in Words
  PROVE  Double(signed_multiply(v1, v2)) = (Signed(v1) * Signed(v2)) % (WORD * WORD)
<1> DEFINE m1 == IF Negative(v1) THEN Negated(v1) ELSE v1
           m2 == IF Negative(v2) THEN Negated(v2) ELSE v2
           p == unsigned_multiply(m1, m2)
           M == WORD * WORD
<1>1. /\ m1 \in Words /\ Signed(v1) = (IF Negative(v1) THEN 0 - m1 ELSE m1)
      /\ m2 \in Words /\ Signed(v2) = (IF Negative(v2) THEN 0 - m2 ELSE m2)
  BY MagnitudeIsWord
<1>2. p.lo \in Words /\ p.hi \in Words /\ Double(p) = m1 * m2
  BY <1>1, UnsignedIsExact
<1>3. signed_multiply(v1, v2) =
        IF Negative(v1) = Negative(v2) THEN p
        ELSE [lo |-> Negated(p.lo),
              hi |-> (Complement(p.hi) + (IF Negated(p.lo) = 0 THEN 1 ELSE 0)) % WORD]
  BY DEF signed_multiply
<1> HIDE DEF m1, m2, p
<1>4. m1 \in Nat /\ m2 \in Nat /\ m1 < WORD /\ m2 < WORD /\ WORD \in Nat \ {0} /\ M \in Nat \ {0}
  BY <1>1, Widths DEF Words
<1>5. CASE Negative(v1) = Negative(v2)
  <2>1. Signed(v1) * Signed(v2) = m1 * m2
    <3>1. CASE Negative(v1) /\ Negative(v2)
      <4>1. Signed(v1) = 0 - m1 /\ Signed(v2) = 0 - m2
        BY <1>1, <3>1
      <4>2. QED BY <1>4, <4>1
    <3>2. CASE ~ Negative(v1) /\ ~ Negative(v2)
      BY <1>1, <3>2
    <3>3. QED BY <1>5, <3>1, <3>2
  <2>2. m1 * m2 \in 0..(M - 1)
    <3>1. m1 * m2 <= WORD * m2 /\ WORD * m2 <= WORD * (WORD - 1)
      BY <1>4
    <3>2. WORD * (WORD - 1) = M - WORD /\ m1 * m2 \in Nat /\ WORD * m2 \in Nat
      BY <1>4
    <3>3. QED BY <1>4, <3>1, <3>2
  <2>3. (0 * M + m1 * m2) % M = m1 * m2
    BY <1>4, <2>2, RemainderIsUnique
  <2>4. 0 * M + m1 * m2 = m1 * m2
    BY <1>4
  <2>5. QED BY <1>2, <1>3, <1>5, <2>1, <2>3, <2>4
<1>6. CASE Negative(v1) # Negative(v2)
  <2>1. Signed(v1) * Signed(v2) = 0 - m1 * m2
    <3>1. CASE Negative(v1) /\ ~ Negative(v2)
      <4>1. Signed(v1) = 0 - m1 /\ Signed(v2) = m2
        BY <1>1, <3>1
      <4>2. QED BY <1>4, <4>1
    <3>2. CASE ~ Negative(v1) /\ Negative(v2)
      <4>1. Signed(v1) = m1 /\ Signed(v2) = 0 - m2
        BY <1>1, <3>2
      <4>2. QED BY <1>4, <4>1
    <3>3. QED BY <1>6, <3>1, <3>2 DEF Negative
  <2>2. Double(signed_multiply(v1, v2)) = (0 - (p.hi * WORD + p.lo)) % M
    BY <1>2, <1>3, <1>6, PairNegated
  <2>3. p.hi * WORD + p.lo = m1 * m2
    BY <1>2 DEF Double
  <2>4. QED BY <2>1, <2>2, <2>3
<1>7. QED BY <1>5, <1>6

(* Reducing a pair modulo the double word reduces its high word. *)
LEMMA PairReduced ==
  ASSUME NEW up \in Int, NEW lo \in Words
  PROVE  (up * WORD + lo) % (WORD * WORD) = (up % WORD) * WORD + lo
<1> DEFINE q == up \div WORD
           r == up % WORD
           M == WORD * WORD
<1>1. /\ WORD \in Nat \ {0} /\ M \in Nat \ {0} /\ lo \in Nat /\ lo < WORD
      /\ q \in Int /\ r \in Nat /\ r <= WORD - 1 /\ up = WORD * q + r
  BY Widths DEF Words
<1> HIDE DEF q, r
<1>2. r * WORD + lo \in 0..(M - 1)
  <2>1. r * WORD <= (WORD - 1) * WORD /\ r * WORD \in Nat
    BY <1>1
  <2>2. (WORD - 1) * WORD = M - WORD
    BY <1>1
  <2>3. QED BY <1>1, <2>1, <2>2
<1>3. up * WORD + lo = q * M + (r * WORD + lo)
  <2>1. up * WORD = q * M + r * WORD
    BY <1>1
  <2>2. up * WORD \in Int /\ q * M \in Int /\ r * WORD \in Int
    BY <1>1
  <2>3. QED BY <1>1, <2>1, <2>2
<1>4. (q * M + (r * WORD + lo)) % M = r * WORD + lo
  BY <1>1, <1>2, RemainderIsUnique
<1>5. QED BY <1>3, <1>4 DEF r

(* madd and maddu leave the sum of the two double words in HI and LO, the    *)
(* carry of the low words included.                                          *)
THEOREM AccumulatedIsExact ==
  ASSUME NEW acc \in [hi : Words, lo : Words], NEW p \in [hi : Words, lo : Words]
  PROVE  Double(Accumulated(acc, p)) = (Double(acc) + Double(p)) % (WORD * WORD)
<1> DEFINE lo == (acc.lo + p.lo) % WORD
           carry == IF lo < p.lo \/ lo < acc.lo THEN 1 ELSE 0
           up == acc.hi + carry + p.hi
           M == WORD * WORD
<1>1. /\ acc.lo \in Nat /\ p.lo \in Nat /\ acc.hi \in Nat /\ p.hi \in Nat
      /\ WORD \in Nat \ {0} /\ M \in Nat \ {0} /\ carry \in {0, 1}
  BY Widths DEF Words
<1>2. lo \in Words /\ acc.lo + p.lo = lo + carry * WORD
  <2>1. lo \in Words /\ acc.lo + p.lo = lo + (IF lo < acc.lo \/ lo < p.lo THEN WORD ELSE 0)
    BY CarryFound
  <2>2. QED BY <2>1, Widths
<1>3. Double(Accumulated(acc, p)) = (up % WORD) * WORD + lo
  BY DEF Accumulated, Double
<1> HIDE DEF carry, lo
<1>4. up \in Nat
  BY <1>1
<1>5. Double(acc) + Double(p) = up * WORD + lo
  <2>1. up * WORD = acc.hi * WORD + carry * WORD + p.hi * WORD
    BY <1>1
  <2>2. acc.hi * WORD \in Nat /\ carry * WORD \in Nat /\ p.hi * WORD \in Nat /\ lo \in Nat
    BY <1>1, <1>2 DEF Words
  <2>3. QED BY <1>1, <1>2, <2>1, <2>2 DEF Double
<1> HIDE DEF up
<1>6. (up * WORD + lo) % M = (up % WORD) * WORD + lo
  BY <1>2, <1>4, PairReduced
<1>7. QED BY <1>3, <1>5, <1>6

(* msub and msubu leave the difference, the borrow of the low words included. *)
THEOREM ReducedIsExact ==
  ASSUME NEW acc \in [hi : Words, lo : Words], NEW p \in [hi : Words, lo : Words]
  PROVE  Double(Reduced(acc, p)) = (Double(acc) - Double(p)) % (WORD * WORD)
<1> DEFINE borrow == IF p.lo > acc.lo THEN 1 ELSE 0
           lo == (acc.lo - p.lo) % WORD
           up == acc.hi - borrow - p.hi
           M == WORD * WORD
<1>1. /\ acc.lo \in Nat /\ p.lo \in Nat /\ acc.hi \in Nat /\ p.hi \in Nat
      /\ acc.lo < WORD /\ p.lo < WORD
      /\ WORD \in Nat \ {0} /\ M \in Nat \ {0} /\ borrow \in {0, 1}
  BY Widths DEF Words
<1>2. lo = acc.lo - p.lo + borrow * WORD /\ lo \in Words
  <2>1. CASE p.lo > acc.lo
    <3> DEFINE d == (acc.lo - p.lo) + WORD
    <3>1. d \in 0..(WORD - 1)
      BY <1>1, <2>1
    <3>2. (0 - 1) * WORD + d = acc.lo - p.lo
      BY <1>1
    <3>3. ((0 - 1) * WORD + d) % WORD = d
      BY <1>1, <3>1, RemainderIsUnique
    <3>4. lo = d
      BY <3>2, <3>3
    <3>5. QED BY <1>1, <2>1, <3>1, <3>4 DEF Words
  <2>2. CASE ~ (p.lo > acc.lo)
    <3>1. acc.lo - p.lo \in 0..(WORD - 1) /\ 0 * WORD + (acc.lo - p.lo) = acc.lo - p.lo
      BY <1>1, <2>2
    <3>2. (0 * WORD + (acc.lo - p.lo)) % WORD = acc.lo - p.lo
      BY <1>1, <3>1, RemainderIsUnique
    <3>3. lo = acc.lo - p.lo
      BY <3>1, <3>2
    <3>4. QED BY <1>1, <2>2, <3>1, <3>3 DEF Words
  <2>3. QED BY <2>1, <2>2
<1>3. Double(Reduced(acc, p)) = (up % WORD) * WORD + lo
  BY DEF Reduced, Double
<1> HIDE DEF borrow, lo
<1>4. up \in Int
  BY <1>1
<1>5. Double(acc) - Double(p) = up * WORD + lo
  <2>1. up * WORD = acc.hi * WORD - borrow * WORD - p.hi * WORD
    BY <1>1
  <2>2. acc.hi * WORD \in Nat /\ borrow * WORD \in Nat /\ p.hi * WORD \in Nat /\ lo \in Nat
    BY <1>1, <1>2 DEF Words
  <2>3. QED BY <1>1, <1>2, <2>1, <2>2 DEF Double
<1> HIDE DEF up
<1>6. (up * WORD + lo) % M = (up % WORD) * WORD + lo
  BY <1>2, <1>4, PairReduced
<1>7. QED BY <1>3, <1>5, <1>6

-------------------------------------------------------------------------------
(* Recursion over the naturals, for a function in place of an operator.     *)
Iterates(f, T, c, step) ==
  f \in [Nat -> T] /\ f[0] = c /\ \A n \in Nat : f[n + 1] = step[<<n, f[n]>>]

(* Such a function exists: the ones up to n are put together.               *)
LEMMA Iteration ==
  ASSUME NEW T, NEW c \in T, NEW step \in [Nat \X T -> T]
  PROVE  \E f : Iterates(f, T, c, step)
<1> DEFINE Upto(f, n) == /\ f \in [0..n -> T] /\ f[0] = c
                         /\ \A k \in 0..(n - 1) : f[k + 1] = step[<<k, f[k]>>]
           S == {n \in Nat : \E f : Upto(f, n)}
<1>1. Nat \subseteq S
  <2>1. 0 \in S
    <3>1. Upto([k \in 0..0 |-> c], 0)
      OBVIOUS
    <3>2. QED BY <3>1
  <2>2. ASSUME NEW n \in Nat, n \in S PROVE n + 1 \in S
    <3>1. PICK f : Upto(f, n)
      BY <2>2
    <3> DEFINE g == [k \in 0..(n + 1) |-> IF k <= n THEN f[k] ELSE step[<<n, f[n]>>]]
    <3>2. f[n] \in T /\ step[<<n, f[n]>>] \in T
      BY <3>1
    <3>3. g \in [0..(n + 1) -> T] /\ g[0] = c
      BY <3>1, <3>2
    <3>4. ASSUME NEW k \in 0..((n + 1) - 1) PROVE g[k + 1] = step[<<k, g[k]>>]
      <4>1. CASE k = n
        <5>1. n + 1 \in 0..(n + 1) /\ ~ (n + 1 <= n) /\ n \in 0..(n + 1) /\ n <= n
          OBVIOUS
        <5>2. g[n + 1] = step[<<n, f[n]>>] /\ g[n] = f[n]
          BY <5>1
        <5>3. QED BY <4>1, <5>2
      <4>2. CASE k < n
        <5>1. k \in 0..(n - 1) /\ k \in 0..(n + 1) /\ k + 1 \in 0..(n + 1) /\ k <= n /\ k + 1 <= n
          BY <4>2
        <5>2. g[k] = f[k] /\ g[k + 1] = f[k + 1]
          BY <5>1
        <5>3. QED BY <3>1, <5>1, <5>2
      <4>3. QED BY <4>1, <4>2
    <3>5. Upto(g, n + 1)
      BY <3>3, <3>4
    <3>6. n + 1 \in Nat
      OBVIOUS
    <3> HIDE DEF g, Upto
    <3>7. QED BY <3>5, <3>6
  <2> HIDE DEF S
  <2>3. QED BY <2>1, <2>2, Induction
<1>2. ASSUME NEW m \in Nat, NEW n \in Nat, m <= n, NEW f, NEW g, Upto(f, m), Upto(g, n)
      PROVE  \A k \in 0..m : f[k] = g[k]
  <2> DEFINE R == {k \in Nat : k <= m => f[k] = g[k]}
  <2>1. 0 \in R
    BY <1>2
  <2>2. ASSUME NEW k \in Nat, k \in R PROVE k + 1 \in R
    <3>1. SUFFICES ASSUME k + 1 <= m PROVE f[k + 1] = g[k + 1]
      OBVIOUS
    <3>2. k \in 0..(m - 1) /\ k \in 0..(n - 1) /\ f[k] = g[k]
      BY <1>2, <2>2, <3>1
    <3>3. QED BY <1>2, <3>2
  <2> HIDE DEF R
  <2>3. Nat \subseteq R
    BY <2>1, <2>2, Induction
  <2>4. QED BY <2>3 DEF R
<1> DEFINE F(n) == CHOOSE f : Upto(f, n)
           h == [n \in Nat |-> F(n)[n]]
<1>3. \A n \in Nat : Upto(F(n), n)
  BY <1>1
<1> HIDE DEF F
<1>4. h \in [Nat -> T]
  <2>1. ASSUME NEW n \in Nat PROVE F(n)[n] \in T
    <3>1. F(n) \in [0..n -> T] /\ n \in 0..n
      BY <1>3
    <3>2. QED BY <3>1
  <2>2. QED BY <2>1
<1>5. h[0] = c
  BY <1>3
<1>6. ASSUME NEW n \in Nat PROVE h[n + 1] = step[<<n, h[n]>>]
  <2>1. n + 1 \in Nat /\ n <= n + 1 /\ n \in 0..n /\ n \in 0..((n + 1) - 1)
    OBVIOUS
  <2>2. F(n)[n] = F(n + 1)[n]
    <3>1. Upto(F(n), n) /\ Upto(F(n + 1), n + 1)
      BY <1>3, <2>1
    <3> HIDE DEF Upto
    <3>2. QED BY <1>2, <2>1, <3>1
  <2>3. F(n + 1)[n + 1] = step[<<n, F(n + 1)[n]>>]
    BY <1>3, <2>1
  <2>4. QED BY <2>1, <2>2, <2>3
<1>7. Iterates(h, T, c, step)
  BY <1>4, <1>5, <1>6 DEF Iterates
<1>8. QED BY <1>7

Recurses(f, D, Stop, out, step) ==
  f = [s \in D |-> IF s \in Stop THEN out[s] ELSE f[step[s]]]

(* A tail recursion that gets nearer to its end with every call defines a   *)
(* function.                                                                *)
LEMMA TailRecursion ==
  ASSUME NEW D, NEW R, NEW Stop, NEW step \in [D -> D], NEW out \in [D -> R],
         NEW rank \in [D -> Nat],
         \A s \in D : s \notin Stop => rank[step[s]] < rank[s]
  PROVE  \E f : f \in [D -> R] /\ Recurses(f, D, Stop, out, step)
<1> DEFINE T == [D -> R]
           again == [x \in Nat \X T |-> [s \in D |-> IF s \in Stop THEN out[s] ELSE x[2][step[s]]]]
<1>1. again \in [Nat \X T -> T]
  OBVIOUS
<1>2. PICK F : Iterates(F, T, out, again)
  <2>1. out \in T
    OBVIOUS
  <2> HIDE DEF again, T
  <2>2. QED BY <1>1, <2>1, Iteration
<1>2a. F \in [Nat -> T] /\ F[0] = out /\ \A n \in Nat : F[n + 1] = again[<<n, F[n]>>]
  BY <1>2 DEF Iterates
<1>3. ASSUME NEW n \in Nat, NEW s \in D
      PROVE  F[n + 1][s] = IF s \in Stop THEN out[s] ELSE F[n][step[s]]
  <2>1. F[n] \in T /\ <<n, F[n]>> \in Nat \X T
    BY <1>2a
  <2>2. F[n + 1] = again[<<n, F[n]>>]
    BY <1>2a
  <2>3. again[<<n, F[n]>>] = [t \in D |-> IF t \in Stop THEN out[t] ELSE F[n][step[t]]]
    <3>1. <<n, F[n]>>[2] = F[n]
      OBVIOUS
    <3> HIDE DEF T
    <3>2. QED BY <2>1, <3>1
  <2>4. QED BY <2>2, <2>3
<1> HIDE DEF again
<1>4. ASSUME NEW s \in D PROVE F[0][s] = out[s]
  BY <1>2a
<1> DEFINE S == {n \in Nat : \A s \in D : rank[s] <= n => F[n + 1][s] = F[n][s]}
<1>5. Nat \subseteq S
  <2>1. 0 \in S
    <3>1. SUFFICES ASSUME NEW s \in D, rank[s] <= 0 PROVE F[0 + 1][s] = F[0][s]
      OBVIOUS
    <3>2. s \in Stop
      <4>1. SUFFICES ASSUME s \notin Stop PROVE FALSE
        OBVIOUS
      <4>2. step[s] \in D /\ rank[s] \in Nat
        OBVIOUS
      <4>3. rank[step[s]] \in Nat /\ rank[step[s]] < rank[s]
        BY <4>1, <4>2
      <4>4. QED BY <3>1, <4>2, <4>3
    <3>3. QED BY <1>3, <1>4, <3>2
  <2>2. ASSUME NEW n \in Nat, n \in S PROVE n + 1 \in S
    <3>1. SUFFICES ASSUME NEW s \in D, rank[s] <= n + 1 PROVE F[(n + 1) + 1][s] = F[n + 1][s]
      OBVIOUS
    <3>0. n + 1 \in Nat
      OBVIOUS
    <3>2. CASE s \in Stop
      <4>1. F[(n + 1) + 1][s] = out[s] /\ F[n + 1][s] = out[s]
        BY <1>3, <3>0, <3>2
      <4>2. QED BY <4>1
    <3>3. CASE s \notin Stop
      <4>1. step[s] \in D /\ rank[s] \in Nat /\ rank[step[s]] \in Nat /\ rank[step[s]] < rank[s]
        BY <3>3
      <4>2. F[n + 1][step[s]] = F[n][step[s]]
        BY <2>2, <3>1, <4>1
      <4>3. QED BY <1>3, <3>0, <3>3, <4>1, <4>2
    <3>4. QED BY <3>2, <3>3
  <2> HIDE DEF S
  <2>3. QED BY <2>1, <2>2, Induction
<1> DEFINE E == {k \in Nat : \A s \in D : F[rank[s] + k][s] = F[rank[s]][s]}
<1>6. Nat \subseteq E
  <2>1. 0 \in E
    <3>1. \A s \in D : rank[s] + 0 = rank[s]
      OBVIOUS
    <3>2. QED BY <3>1
  <2>2. ASSUME NEW k \in Nat, k \in E PROVE k + 1 \in E
    <3>1. SUFFICES ASSUME NEW s \in D PROVE F[rank[s] + (k + 1)][s] = F[rank[s]][s]
      OBVIOUS
    <3>2. rank[s] + k \in Nat /\ rank[s] <= rank[s] + k /\ rank[s] + (k + 1) = (rank[s] + k) + 1
      OBVIOUS
    <3>3. F[(rank[s] + k) + 1][s] = F[rank[s] + k][s]
      BY <1>5, <3>2
    <3>4. QED BY <2>2, <3>2, <3>3
  <2> HIDE DEF E
  <2>3. QED BY <2>1, <2>2, Induction
<1> DEFINE f == [s \in D |-> F[rank[s]][s]]
<1>7. f \in [D -> R]
  <2>1. \A s \in D : F[rank[s]] \in [D -> R]
    BY <1>2a
  <2>2. QED BY <2>1
<1>8. ASSUME NEW s \in D PROVE f[s] = IF s \in Stop THEN out[s] ELSE f[step[s]]
  <2>1. CASE s \in Stop
    <3>1. rank[s] \in Nat /\ F[rank[s] + 1][s] = F[rank[s]][s]
      BY <1>5
    <3>2. QED BY <1>3, <2>1, <3>1
  <2>2. CASE s \notin Stop
    <3> DEFINE m == rank[s] - 1
               k == m - rank[step[s]]
    <3>1. m \in Nat /\ k \in Nat /\ rank[s] = m + 1 /\ m = rank[step[s]] + k /\ step[s] \in D
      <4>1. step[s] \in D /\ rank[s] \in Nat /\ rank[step[s]] \in Nat /\ rank[step[s]] < rank[s]
        BY <2>2
      <4>2. QED BY <4>1
    <3> HIDE DEF m, k
    <3>2. F[m + 1][s] = F[m][step[s]]
      BY <1>3, <2>2, <3>1
    <3>3. F[rank[step[s]] + k][step[s]] = F[rank[step[s]]][step[s]]
      BY <1>6, <3>1
    <3>4. QED BY <2>2, <3>1, <3>2, <3>3
  <2>3. QED BY <2>1, <2>2
<1>9. f = [s \in D |-> IF s \in Stop THEN out[s] ELSE f[step[s]]]
  <2>1. f = [s \in D |-> f[s]]
    OBVIOUS
  <2> HIDE DEF f
  <2>2. QED BY <1>8, <2>1
<1>10. Recurses(f, D, Stop, out, step)
  BY <1>9 DEF Recurses
<1> HIDE DEF f
<1>11. QED BY <1>7, <1>10

(* b to the n. *)
Powers(b) == CHOOSE f : Iterates(f, Nat, 1, [x \in Nat \X Nat |-> x[2] * b])
Power(b, n) == Powers(b)[n]

(* What a power is, step by step.                                           *)
LEMMA PowerDef ==
  ASSUME NEW b \in Nat
  PROVE  /\ Power(b, 0) = 1
         /\ \A n \in Nat : Power(b, n) \in Nat /\ Power(b, n + 1) = Power(b, n) * b
<1> DEFINE step == [x \in Nat \X Nat |-> x[2] * b]
<1>1. step \in [Nat \X Nat -> Nat]
  <2>1. \A x \in Nat \X Nat : x[2] * b \in Nat
    OBVIOUS
  <2>2. QED BY <2>1
<1>2. Iterates(Powers(b), Nat, 1, step)
  <2> HIDE DEF step
  <2>1. \E f : Iterates(f, Nat, 1, step)
    BY <1>1, Iteration
  <2>2. QED BY <2>1 DEF Powers, step
<1>3. ASSUME NEW n \in Nat PROVE Power(b, n) \in Nat /\ Power(b, n + 1) = Power(b, n) * b
  <2>1. Power(b, n) \in Nat
    BY <1>2 DEF Iterates, Power
  <2>2. Power(b, n + 1) = step[<<n, Power(b, n)>>]
    BY <1>2 DEF Iterates, Power
  <2>3. QED BY <2>1, <2>2
<1>4. QED BY <1>2, <1>3 DEF Iterates, Power

(* The sum of two exponents is the product of two powers.                   *)
LEMMA PowerOfSum ==
  ASSUME NEW b \in Nat, NEW m \in Nat, NEW n \in Nat
  PROVE  Power(b, m + n) = Power(b, m) * Power(b, n)
<1> DEFINE S == {k \in Nat : Power(b, m + k) = Power(b, m) * Power(b, k)}
<1>1. 0 \in S
  <2>1. Power(b, 0) = 1 /\ Power(b, m) \in Nat /\ m + 0 = m
    BY PowerDef
  <2>2. QED BY <2>1
<1>2. ASSUME NEW k \in Nat, k \in S PROVE k + 1 \in S
  <2>1. m + k \in Nat /\ m + (k + 1) = (m + k) + 1
    OBVIOUS
  <2>2. Power(b, m + (k + 1)) = (Power(b, m) * Power(b, k)) * b
    BY <1>2, <2>1, PowerDef
  <2>3. Power(b, k + 1) = Power(b, k) * b /\ Power(b, m) \in Nat /\ Power(b, k) \in Nat
    BY PowerDef
  <2>4. \A u, v \in Nat : (u * v) * b = u * (v * b)
    OBVIOUS
  <2>5. QED BY <2>2, <2>3, <2>4
<1> HIDE DEF S
<1>3. n \in S
  BY <1>1, <1>2, Induction
<1>4. QED BY <1>3 DEF S

(* The product of two exponents is a power of a power.                      *)
LEMMA PowerOfProduct ==
  ASSUME NEW b \in Nat, NEW m \in Nat, NEW n \in Nat
  PROVE  Power(b, m * n) = Power(Power(b, m), n)
<1> DEFINE c == Power(b, m)
           S == {k \in Nat : Power(b, m * k) = Power(c, k)}
<1>0. c \in Nat
  BY PowerDef
<1> HIDE DEF c
<1>1. 0 \in S
  <2>1. Power(b, 0) = 1 /\ Power(c, 0) = 1 /\ m * 0 = 0
    BY <1>0, PowerDef
  <2>2. QED BY <2>1
<1>2. ASSUME NEW k \in Nat, k \in S PROVE k + 1 \in S
  <2>1. m * k \in Nat /\ m * (k + 1) = m * k + m
    OBVIOUS
  <2>2. Power(b, m * (k + 1)) = Power(b, m * k) * c
    <3> DEFINE j == m * k
    <3>1. j \in Nat
      BY <2>1
    <3> HIDE DEF j
    <3>2. Power(b, j + m) = Power(b, j) * c
      BY <3>1, PowerOfSum DEF c
    <3>3. QED BY <2>1, <3>2 DEF j
  <2>3. Power(c, k + 1) = Power(c, k) * c
    BY <1>0, PowerDef
  <2>4. QED BY <1>2, <2>2, <2>3
<1> HIDE DEF S
<1>3. n \in S
  BY <1>1, <1>2, Induction
<1>4. QED BY <1>3 DEF S, c

-------------------------------------------------------------------------------
(* a and b leave the same remainder modulo m. *)
Alike(a, b, m) == \E k \in Int : a = b + k * m

(* Alike is an equivalence, and products and powers keep it.                *)
LEMMA AlikeSelf == ASSUME NEW a \in Int, NEW m \in Int PROVE Alike(a, a, m)
<1>1. a = a + 0 * m
  OBVIOUS
<1>2. QED BY <1>1 DEF Alike

LEMMA AlikeBack ==
  ASSUME NEW a \in Int, NEW b \in Int, NEW m \in Int, Alike(a, b, m)
  PROVE  Alike(b, a, m)
<1>1. PICK k \in Int : a = b + k * m
  BY DEF Alike
<1>2. b = a + (-k) * m /\ -k \in Int
  BY <1>1
<1>3. QED BY <1>2 DEF Alike

LEMMA AlikeBoth ==
  ASSUME NEW a \in Int, NEW b \in Int, NEW c \in Int, NEW m \in Int, Alike(a, b, m), Alike(b, c, m)
  PROVE  Alike(a, c, m)
<1>1. PICK k \in Int : a = b + k * m
  BY DEF Alike
<1>2. PICK j \in Int : b = c + j * m
  BY DEF Alike
<1>3. a = c + (j + k) * m /\ j + k \in Int
  BY <1>1, <1>2
<1>4. QED BY <1>3 DEF Alike

LEMMA AlikeProduct ==
  ASSUME NEW a \in Int, NEW b \in Int, NEW c \in Int, NEW d \in Int, NEW m \in Int,
         Alike(a, b, m), Alike(c, d, m)
  PROVE  Alike(a * c, b * d, m)
<1>1. PICK k \in Int : a = b + k * m
  BY DEF Alike
<1>2. PICK j \in Int : c = d + j * m
  BY DEF Alike
<1> DEFINE i == b * j + k * d + k * (j * m)
<1>3. i \in Int
  OBVIOUS
<1>4. a * c = b * d + i * m
  <2>1. a * c = b * c + (k * m) * c
    BY <1>1
  <2>2. b * c = b * d + b * (j * m)
    BY <1>2
  <2>3. (k * m) * c = (k * m) * d + (k * m) * (j * m)
    BY <1>2
  <2>4. i * m = b * (j * m) + (k * m) * d + (k * m) * (j * m)
    OBVIOUS
  <2>5. QED BY <2>1, <2>2, <2>3, <2>4
<1> HIDE DEF i
<1>5. QED BY <1>3, <1>4 DEF Alike

LEMMA AlikePowers ==
  ASSUME NEW a \in Nat, NEW b \in Nat, NEW m \in Nat, NEW n \in Nat, Alike(a, b, m)
  PROVE  Alike(Power(a, n), Power(b, n), m)
<1> DEFINE S == {k \in Nat : Alike(Power(a, k), Power(b, k), m)}
<1>1. 0 \in S
  BY PowerDef, AlikeSelf
<1>2. ASSUME NEW k \in Nat, k \in S PROVE k + 1 \in S
  <2>1. Power(a, k) \in Nat /\ Power(b, k) \in Nat
    BY PowerDef
  <2>2. Alike(Power(a, k) * a, Power(b, k) * b, m)
    BY <1>2, <2>1, AlikeProduct
  <2>3. QED BY <2>2, PowerDef
<1> HIDE DEF S
<1>3. n \in S
  BY <1>1, <1>2, Induction
<1>4. QED BY <1>3 DEF S

(* A number and its remainder are alike.                                    *)
LEMMA RemainderIsAlike ==
  ASSUME NEW n \in Nat, NEW m \in Nat \ {0}
  PROVE  Alike(n, n % m, m)
<1>1. n = (n % m) + (n \div m) * m /\ n \div m \in Int
  BY QuotientRemainder
<1>2. QED BY <1>1 DEF Alike

(* The only remainder a number is like is its own.                          *)
LEMMA AlikeRemainder ==
  ASSUME NEW n \in Int, NEW m \in Nat \ {0}, NEW r \in 0..(m - 1), Alike(n, r, m)
  PROVE  n % m = r
<1>1. PICK k \in Int : n = r + k * m
  BY DEF Alike
<1>2. n = k * m + r
  <2>1. r \in Int /\ k * m \in Int
    OBVIOUS
  <2>2. QED BY <1>1, <2>1
<1>3. QED BY <1>2, RemainderIsUnique

(* The numbers like 0 are the multiples.                                    *)
LEMMA AlikeZero ==
  ASSUME NEW n \in Nat, NEW m \in Nat \ {0}
  PROVE  Alike(n, 0, m) <=> Divides(m, n)
<1>1. ASSUME NEW k \in Int, n = 0 + k * m PROVE Divides(m, n)
  <2>1. CASE k < 0
    <3>1. k * m < 0
      BY <2>1
    <3>2. QED BY <1>1, <3>1
  <2>2. CASE k >= 0
    <3>1. k \in Nat /\ n = m * k
      BY <1>1, <2>2
    <3>2. QED BY <3>1, DividesIsMultiple
  <2>3. QED BY <2>1, <2>2
<1>2. ASSUME Divides(m, n) PROVE Alike(n, 0, m)
  <2>1. PICK q \in Nat : n = m * q
    BY <1>2, DividesIsMultiple
  <2>2. n = 0 + q * m /\ q \in Int
    BY <2>1
  <2>3. QED BY <2>2 DEF Alike
<1>3. QED BY <1>1, <1>2 DEF Alike

(* a and b are alike exactly if m divides their distance.                   *)
LEMMA AlikeDifference ==
  ASSUME NEW a \in Nat, NEW b \in Nat, b <= a, NEW m \in Nat \ {0}
  PROVE  Alike(a, b, m) <=> Divides(m, a - b)
<1>1. a - b \in Nat
  OBVIOUS
<1>2. Alike(a, b, m) <=> Alike(a - b, 0, m)
  <2>1. \A k \in Int : a = b + k * m <=> a - b = 0 + k * m
    OBVIOUS
  <2>2. QED BY <2>1 DEF Alike
<1>3. QED BY <1>1, <1>2, AlikeZero

-------------------------------------------------------------------------------
(* The product of g[1] to g[n]. *)
Products(g) == CHOOSE f : Iterates(f, Nat, 1, [x \in Nat \X Nat |-> x[2] * g[x[1] + 1]])
Product(g, n) == Products(g)[n]

(* What a product is, step by step.                                         *)
LEMMA ProductDef ==
  ASSUME NEW g \in [Nat -> Nat]
  PROVE  /\ Product(g, 0) = 1
         /\ \A n \in Nat : Product(g, n) \in Nat /\ Product(g, n + 1) = Product(g, n) * g[n + 1]
<1> DEFINE step == [x \in Nat \X Nat |-> x[2] * g[x[1] + 1]]
<1>1. step \in [Nat \X Nat -> Nat]
  <2>1. ASSUME NEW x \in Nat \X Nat PROVE x[2] * g[x[1] + 1] \in Nat
    <3>1. x[2] \in Nat /\ x[1] + 1 \in Nat
      OBVIOUS
    <3>2. g[x[1] + 1] \in Nat
      BY <3>1
    <3>3. QED BY <3>1, <3>2
  <2>2. QED BY <2>1
<1>2. Iterates(Products(g), Nat, 1, step)
  <2> HIDE DEF step
  <2>1. \E f : Iterates(f, Nat, 1, step)
    BY <1>1, Iteration
  <2>2. QED BY <2>1 DEF Products, step
<1>3. ASSUME NEW n \in Nat PROVE Product(g, n) \in Nat /\ Product(g, n + 1) = Product(g, n) * g[n + 1]
  <2>1. Product(g, n) \in Nat
    BY <1>2 DEF Iterates, Product
  <2>2. Product(g, n + 1) = step[<<n, Product(g, n)>>]
    BY <1>2 DEF Iterates, Product
  <2>3. QED BY <2>1, <2>2
<1>4. QED BY <1>2, <1>3 DEF Iterates, Product

(* The product of the numbers up to n that are in S. *)
Factors(S) == [k \in Nat |-> IF k \in S THEN k ELSE 1]

(* One factor, taken out of a product.                                      *)
LEMMA FactorTaken ==
  ASSUME NEW S, NEW x \in S, x \in Nat \ {0}, NEW n \in Nat
  PROVE  Product(Factors(S), n)
           = IF x <= n THEN Product(Factors(S \ {x}), n) * x ELSE Product(Factors(S \ {x}), n)
<1> DEFINE T == S \ {x}
           a(k) == Product(Factors(S), k)
           b(k) == Product(Factors(T), k)
           R == {k \in Nat : a(k) = IF x <= k THEN b(k) * x ELSE b(k)}
<1>1. /\ Factors(S) \in [Nat -> Nat] /\ Factors(T) \in [Nat -> Nat]
      /\ \A k \in Nat : k # x => Factors(S)[k] = Factors(T)[k]
      /\ Factors(S)[x] = x /\ Factors(T)[x] = 1
  BY DEF Factors
<1> HIDE DEF T
<1>2. /\ a(0) = 1 /\ b(0) = 1
      /\ \A k \in Nat : /\ a(k) \in Nat /\ b(k) \in Nat
                        /\ a(k + 1) = a(k) * Factors(S)[k + 1]
                        /\ b(k + 1) = b(k) * Factors(T)[k + 1]
  BY <1>1, ProductDef
<1> HIDE DEF a, b
<1>3. 0 \in R
  BY <1>2
<1>4. ASSUME NEW k \in Nat, k \in R PROVE k + 1 \in R
  <2>0. k + 1 \in Nat /\ Factors(T)[k + 1] \in Nat
    BY <1>1
  <2>1. CASE x < k + 1
    <3>1. a(k) = b(k) * x /\ Factors(S)[k + 1] = Factors(T)[k + 1]
      BY <1>1, <1>4, <2>0, <2>1
    <3>2. a(k + 1) = (b(k) * x) * Factors(T)[k + 1] /\ b(k + 1) = b(k) * Factors(T)[k + 1]
      BY <1>2, <3>1
    <3>3. \A u, v, w \in Nat : (u * v) * w = (u * w) * v
      OBVIOUS
    <3>4. a(k + 1) = b(k + 1) * x
      BY <1>2, <2>0, <3>2, <3>3
    <3>5. QED BY <2>0, <2>1, <3>4
  <2>2. CASE x = k + 1
    <3>1. a(k) = b(k)
      BY <1>4, <2>2
    <3>2. QED BY <1>1, <1>2, <2>0, <2>2, <3>1
  <2>3. CASE x > k + 1
    <3>1. a(k) = b(k) /\ Factors(S)[k + 1] = Factors(T)[k + 1]
      BY <1>1, <1>4, <2>0, <2>3
    <3>2. QED BY <1>2, <2>0, <2>3, <3>1
  <2>4. QED BY <2>1, <2>2, <2>3
<1> HIDE DEF R
<1>5. n \in R
  BY <1>3, <1>4, Induction
<1>6. QED BY <1>5 DEF R, a, b, T

(* The product of nothing.                                                  *)
LEMMA NoFactors ==
  ASSUME NEW n \in Nat
  PROVE  Product(Factors({}), n) = 1
<1> DEFINE R == {k \in Nat : Product(Factors({}), k) = 1}
<1>1. Factors({}) \in [Nat -> Nat] /\ \A k \in Nat : Factors({})[k] = 1
  BY DEF Factors
<1>2. 0 \in R
  BY <1>1, ProductDef
<1>3. ASSUME NEW k \in Nat, k \in R PROVE k + 1 \in R
  BY <1>1, <1>3, ProductDef
<1> HIDE DEF R
<1>4. n \in R
  BY <1>2, <1>3, Induction
<1>5. QED BY <1>4 DEF R

(* A product of different numbers does not depend on their order. *)
LEMMA ProductOfValues ==
  ASSUME NEW m \in Nat, NEW g \in [Nat -> Nat],
         \A k \in 1..m : g[k] \in 1..m,
         \A j, k \in 1..m : g[j] = g[k] => j = k,
         NEW n \in 0..m
  PROVE  Product(g, n) = Product(Factors({g[k] : k \in 1..n}), m)
<1> DEFINE V(k) == {g[j] : j \in 1..k}
           R == {k \in Nat : k <= m => Product(g, k) = Product(Factors(V(k)), m)}
<1>1. 0 \in R
  <2>1. V(0) = {}
    OBVIOUS
  <2> HIDE DEF V
  <2>2. QED BY <2>1, NoFactors, ProductDef
<1>2. ASSUME NEW k \in Nat, k \in R PROVE k + 1 \in R
  <2>1. SUFFICES ASSUME k + 1 <= m PROVE Product(g, k + 1) = Product(Factors(V(k + 1)), m)
    OBVIOUS
  <2> DEFINE x == g[k + 1]
  <2>2. k + 1 \in 1..m /\ x \in 1..m /\ x \in V(k + 1)
    BY <2>1
  <2>3. V(k + 1) \ {x} = V(k)
    <3>1. ASSUME NEW j \in 1..(k + 1) PROVE g[j] # x => g[j] \in V(k)
      <4>1. j = k + 1 \/ j \in 1..k
        OBVIOUS
      <4>2. QED BY <4>1
    <3>2. ASSUME NEW j \in 1..k PROVE g[j] # x /\ g[j] \in V(k + 1)
      <4>1. j \in 1..m /\ j \in 1..(k + 1) /\ j # k + 1
        BY <2>1
      <4>2. g[j] # g[k + 1]
        BY <2>2, <4>1
      <4>3. QED BY <4>1, <4>2
    <3>3. QED BY <3>1, <3>2
  <2> HIDE DEF V
  <2>4. Product(Factors(V(k + 1)), m) = Product(Factors(V(k)), m) * x
    <3>1. x \in Nat \ {0} /\ x <= m
      BY <2>2
    <3>2. QED BY <2>2, <2>3, <3>1, FactorTaken
  <2>5. Product(g, k + 1) = Product(g, k) * x
    BY ProductDef
  <2>6. k <= m
    BY <2>1
  <2>7. QED BY <1>2, <2>4, <2>5, <2>6
<1> HIDE DEF R
<1>3. n \in R
  BY <1>1, <1>2, Induction
<1>4. QED BY <1>3 DEF R

(* A function that takes no value twice takes all of them. *)
LEMMA AllValuesTaken ==
  ASSUME NEW m \in Nat, NEW g \in [Nat -> Nat],
         \A k \in 1..m : g[k] \in 1..m,
         \A j, k \in 1..m : g[j] = g[k] => j = k
  PROVE  {g[k] : k \in 1..m} = 1..m
<1> DEFINE f == [k \in 1..m |-> g[k]]
<1>1. f \in Injection(1..m, 1..m)
  BY DEF Injection, IsInjective
<1>2. IsFiniteSet(1..m)
  BY FS_Interval
<1> HIDE DEF f
<1>3. f \in Surjection(1..m, 1..m)
  BY <1>1, <1>2, FS_Injection
<1>4. \A v \in 1..m : \E k \in 1..m : f[k] = v
  BY <1>3 DEF Surjection
<1>5. QED BY <1>4 DEF f

(* A prime, its predecessor, and what can be divided by them.               *)
LEMMA PrimeSelf == ASSUME NEW r \in Nat, IsPrime(r) PROVE r > 1 /\ r - 1 \in Nat /\ r \in Nat \ {0}
BY DEF IsPrime

(* Euclid: a prime that divides a product divides a factor.                 *)
LEMMA PrimeDividesProduct ==
  ASSUME NEW r \in Nat, IsPrime(r), NEW a \in Nat, NEW b \in Nat
  PROVE  Divides(r, a * b) <=> Divides(r, a) \/ Divides(r, b)
<1>1. ASSUME NEW u \in Nat, NEW v \in Nat, Divides(r, u) PROVE Divides(r, u * v)
  <2>1. PICK j \in Nat : u = r * j
    BY <1>1, DividesIsMultiple
  <2>2. u * v = r * (j * v) /\ j * v \in Nat /\ u * v \in Nat
    BY <2>1
  <2>3. QED BY <2>2, DividesIsMultiple
<1>2. a * b = b * a
  OBVIOUS
<1>3. a = 0 => Divides(r, a)
  BY DividesZero
<1>4. QED BY <1>1, <1>2, <1>3, PrimeDividesFactor

(* Fermat's theorem. The products of a with 1 to r - 1 are, modulo r, these *)
(* numbers in another order, and their product can be cancelled.            *)
LEMMA Fermat ==
  ASSUME NEW r \in Nat, IsPrime(r), NEW a \in Nat, ~ Divides(r, a)
  PROVE  Alike(Power(a, r - 1), 1, r)
<1> DEFINE m == r - 1
           g == [k \in Nat |-> (a * k) % r]
           f(k) == Product(Factors(1..m), k)
<1>1. r > 1 /\ m \in Nat /\ r \in Nat \ {0} /\ m < r
  BY PrimeSelf
<1>2. ASSUME NEW k \in Nat PROVE a * k \in Nat /\ g[k] \in 0..(r - 1) /\ Alike(a * k, g[k], r)
  <2> DEFINE v == a * k
  <2>1. v \in Nat /\ g[k] = v % r
    OBVIOUS
  <2> HIDE DEF v, g
  <2>2. v % r \in 0..(r - 1)
    BY <1>1, <2>1
  <2>5. Alike(v, v % r, r)
    BY <1>1, <2>1, RemainderIsAlike
  <2>3. v \in Nat /\ g[k] \in 0..(r - 1) /\ Alike(v, g[k], r)
    BY <2>1, <2>2, <2>5
  <2>4. QED BY <2>3 DEF v
<1>3. g \in [Nat -> Nat]
  <2>1. \A k \in Nat : (a * k) % r \in Nat
    BY <1>1, <1>2
  <2>2. QED BY <2>1
<1> HIDE DEF g
<1>4. ASSUME NEW k \in 1..m PROVE g[k] \in 1..m /\ ~ Divides(r, k)
  <2>1. ~ Divides(r, k)
    BY <1>1, DivisorIsSmaller
  <2>2. ~ Divides(r, a * k)
    BY <1>1, <2>1, PrimeDividesProduct
  <2>3. g[k] # 0
    <3>1. SUFFICES ASSUME g[k] = 0 PROVE FALSE
      OBVIOUS
    <3>2. Alike(a * k, 0, r) /\ a * k \in Nat
      BY <1>2, <3>1
    <3>3. QED BY <1>1, <2>2, <3>2, AlikeZero
  <2>4. QED BY <1>1, <1>2, <2>1, <2>3
<1>5. ASSUME NEW j \in 1..m, NEW k \in 1..m, j < k, g[j] = g[k] PROVE FALSE
  <2> DEFINE d == k - j
  <2>1. j \in Nat /\ k \in Nat /\ a * j \in Nat /\ a * k \in Nat /\ d \in 1..m /\ d \in Nat /\ k = j + d
    BY <1>1, <1>5
  <2> HIDE DEF d
  <2>2. Alike(a * k, g[k], r) /\ Alike(a * j, g[j], r) /\ g[k] \in Int /\ g[j] \in Int
    BY <1>2, <2>1
  <2>3. Alike(a * k, a * j, r)
    BY <1>1, <1>5, <2>1, <2>2, AlikeBack, AlikeBoth
  <2>4. a * k = a * j + a * d /\ a * d \in Nat
    BY <2>1
  <2>5. Divides(r, a * d)
    <3> DEFINE v == a * j
               w == a * d
    <3>1. v \in Nat /\ w \in Nat /\ Alike(v + w, v, r)
      BY <2>1, <2>3, <2>4
    <3> HIDE DEF v, w
    <3>2. v <= v + w /\ (v + w) - v = w /\ v + w \in Nat
      BY <3>1
    <3>3. Divides(r, w)
      BY <1>1, <3>1, <3>2, AlikeDifference
    <3>4. QED BY <3>3 DEF w
  <2>6. ~ Divides(r, d)
    BY <1>4, <2>1
  <2>7. QED BY <2>1, <2>5, <2>6, PrimeDividesProduct
<1>6. \A j, k \in 1..m : g[j] = g[k] => j = k
  <2>1. \A j, k \in 1..m : j < k \/ k < j \/ j = k
    BY <1>1
  <2>2. QED BY <1>5, <2>1
<1>7. Product(g, m) = f(m)
  <2>1. {g[k] : k \in 1..m} = 1..m
    BY <1>1, <1>3, <1>4, <1>6, AllValuesTaken
  <2>2. m \in 0..m
    BY <1>1
  <2> HIDE DEF m
  <2>3. Product(g, m) = Product(Factors({g[k] : k \in 1..m}), m)
    BY <1>1, <1>3, <1>4, <1>6, <2>2, ProductOfValues
  <2>4. QED BY <2>1, <2>3
<1>8. /\ f(0) = 1
      /\ \A k \in Nat : f(k) \in Nat
      /\ \A k \in Nat : k + 1 <= m => f(k + 1) = f(k) * (k + 1)
  <2>1. Factors(1..m) \in [Nat -> Nat] /\ \A k \in Nat : k + 1 <= m => Factors(1..m)[k + 1] = k + 1
    BY <1>1 DEF Factors
  <2>2. QED BY <2>1, ProductDef
<1> HIDE DEF f
<1> DEFINE R == {k \in Nat : k <= m => Alike(Product(g, k), Power(a, k) * f(k), r) /\ ~ Divides(r, f(k))}
<1>9. 0 \in R
  <2>1. ~ Divides(r, 1)
    BY <1>1, DivisorIsSmaller
  <2>2. Product(g, 0) = 1 /\ Power(a, 0) * f(0) = 1
    <3>1. Product(g, 0) = 1
      BY <1>3, ProductDef
    <3>2. Power(a, 0) = 1 /\ f(0) = 1
      BY <1>8, PowerDef
    <3>3. QED BY <3>1, <3>2
  <2>3. QED BY <1>1, <1>8, <2>1, <2>2, AlikeSelf
<1>10. ASSUME NEW k \in Nat, k \in R PROVE k + 1 \in R
  <2>1. SUFFICES ASSUME k + 1 <= m
                 PROVE  Alike(Product(g, k + 1), Power(a, k + 1) * f(k + 1), r) /\ ~ Divides(r, f(k + 1))
    OBVIOUS
  <2>2. k <= m /\ k + 1 \in 1..m /\ k + 1 \in Nat
    BY <2>1
  <2>3. f(k + 1) = f(k) * (k + 1) /\ f(k) \in Nat /\ Power(a, k) \in Nat /\ Power(a, k + 1) = Power(a, k) * a
        /\ Product(g, k) \in Nat /\ Product(g, k + 1) = Product(g, k) * g[k + 1] /\ g[k + 1] \in Nat
    <3>1. Product(g, k) \in Nat /\ Product(g, k + 1) = Product(g, k) * g[k + 1]
      BY <1>3, ProductDef
    <3>2. Power(a, k) \in Nat /\ Power(a, k + 1) = Power(a, k) * a
      BY PowerDef
    <3>3. f(k + 1) = f(k) * (k + 1) /\ f(k) \in Nat
      BY <1>8, <2>1
    <3>4. g[k + 1] \in Nat
      BY <1>3, <2>2
    <3>5. QED BY <3>1, <3>2, <3>3, <3>4
  <2>4. ~ Divides(r, f(k + 1))
    BY <1>4, <1>10, <2>2, <2>3, PrimeDividesProduct
  <2>5. Alike(g[k + 1], a * (k + 1), r)
    <3> DEFINE i == k + 1
               v == a * i
    <3>1. i \in Nat /\ v \in Nat /\ Alike(v, g[i], r) /\ g[i] \in Nat
      BY <1>2, <2>2, <2>3
    <3> HIDE DEF v
    <3>2. Alike(g[i], v, r)
      BY <3>1, AlikeBack
    <3>3. QED BY <3>2 DEF v
  <2>6. Power(a, k) * f(k) \in Nat /\ a * (k + 1) \in Nat
    BY <2>3
  <2>7. Alike(Product(g, k) * g[k + 1], (Power(a, k) * f(k)) * (a * (k + 1)), r)
    <3> DEFINE s == Product(g, k)
               u == Power(a, k) * f(k)
               v == a * (k + 1)
               w == g[k + 1]
    <3>1. s \in Nat /\ u \in Nat /\ v \in Nat /\ w \in Nat
      BY <2>3, <2>6
    <3>2. Alike(s, u, r) /\ Alike(w, v, r)
      BY <1>10, <2>2, <2>5
    <3> HIDE DEF s, u, v, w
    <3>3. Alike(s * w, u * v, r)
      BY <3>1, <3>2, AlikeProduct
    <3>4. QED BY <3>3 DEF s, u, v, w
  <2>8. \A u, v, w \in Nat : (u * v) * (a * w) = (u * a) * (v * w)
    OBVIOUS
  <2>9. QED BY <2>2, <2>3, <2>4, <2>7, <2>8
<1> HIDE DEF R
<1>11. m \in R
  BY <1>1, <1>9, <1>10, Induction
<1>12. Alike(f(m), Power(a, m) * f(m), r) /\ ~ Divides(r, f(m))
  BY <1>1, <1>7, <1>11 DEF R
<1> DEFINE x == Power(a, m)
<1>13. x \in Nat /\ f(m) \in Nat
  BY <1>1, <1>8, PowerDef
<1> HIDE DEF x, m
<1>14. Alike(x * f(m), f(m), r)
  BY <1>1, <1>12, <1>13, AlikeBack DEF x
<1>15. CASE x = 0
  <2>1. x * f(m) = 0
    BY <1>13, <1>15
  <2>2. Alike(f(m), 0, r)
    BY <1>1, <1>13, <1>14, <2>1, AlikeBack
  <2>3. QED BY <1>1, <1>12, <1>13, <2>2, AlikeZero
<1>16. CASE x # 0
  <2>1. x - 1 \in Nat /\ f(m) <= x * f(m) /\ x * f(m) - f(m) = (x - 1) * f(m) /\ x * f(m) \in Nat
    BY <1>13, <1>16
  <2>2. Divides(r, (x - 1) * f(m))
    BY <1>1, <1>13, <1>14, <2>1, AlikeDifference
  <2>3. Divides(r, x - 1)
    BY <1>12, <1>13, <2>1, <2>2, PrimeDividesProduct
  <2>4. Alike(x, 1, r)
    BY <1>1, <1>13, <2>1, <2>3, AlikeDifference
  <2>5. QED BY <2>4 DEF x, m
<1>17. QED BY <1>15, <1>16

-------------------------------------------------------------------------------
(* Raising to a power that is one more than a multiple of r - 1 changes     *)
(* nothing modulo the prime r.                                              *)
LEMMA PowerOfPrime ==
  ASSUME NEW r \in Nat, IsPrime(r), NEW a \in Nat, NEW k \in Nat
  PROVE  Alike(Power(a, (r - 1) * k + 1), a, r)
<1> DEFINE j == (r - 1) * k
           b == Power(a, r - 1)
<1>1. r - 1 \in Nat /\ r \in Nat \ {0} /\ j \in Nat
  BY PrimeSelf
<1>2. Power(a, j) \in Nat /\ Power(a, j + 1) = Power(a, j) * a /\ b \in Nat /\ Power(a, j) = Power(b, k)
  <2>1. b \in Nat
    BY <1>1, PowerDef
  <2>2. Power(a, j) = Power(b, k)
    BY <1>1, PowerOfProduct
  <2> HIDE DEF j, b
  <2>3. Power(a, j) \in Nat /\ Power(a, j + 1) = Power(a, j) * a
    BY <1>1, PowerDef
  <2>4. QED BY <2>1, <2>2, <2>3
<1> HIDE DEF j
<1>3. CASE Divides(r, a)
  <2>1. Divides(r, Power(a, j) * a) /\ Power(a, j) * a \in Nat
    <3> DEFINE c == Power(a, j)
    <3>1. c \in Nat
      BY <1>2
    <3> HIDE DEF c
    <3>2. c * a \in Nat
      BY <3>1
    <3>3. Divides(r, c * a)
      BY <1>3, <3>1, PrimeDividesProduct
    <3>4. QED BY <3>2, <3>3 DEF c
  <2>2. Alike(Power(a, j) * a, 0, r) /\ Alike(0, a, r)
    BY <1>1, <1>3, <2>1, AlikeZero, AlikeBack
  <2>3. QED BY <1>1, <1>2, <2>1, <2>2, AlikeBoth DEF j
<1>4. CASE ~ Divides(r, a)
  <2>1. Alike(b, 1, r)
    BY <1>4, Fermat
  <2> HIDE DEF b
  <2>2. Alike(Power(b, k), Power(1, k), r)
    BY <1>1, <1>2, <2>1, AlikePowers
  <2>3. Power(1, k) = 1
    <3> DEFINE S == {n \in Nat : Power(1, n) = 1}
    <3>1. 0 \in S
      BY PowerDef
    <3>2. ASSUME NEW n \in Nat, n \in S PROVE n + 1 \in S
      <4>1. Power(1, n + 1) = Power(1, n) * 1
        BY PowerDef
      <4>2. QED BY <3>2, <4>1
    <3> HIDE DEF S
    <3>3. k \in S
      BY <3>1, <3>2, Induction
    <3>4. QED BY <3>3 DEF S
  <2>4. Alike(Power(a, j) * a, 1 * a, r)
    <3>1. Alike(Power(a, j), 1, r) /\ Alike(a, a, r)
      BY <1>1, <1>2, <2>2, <2>3, AlikeSelf
    <3>2. QED BY <1>1, <1>2, <3>1, AlikeProduct
  <2>5. 1 * a = a
    OBVIOUS
  <2>6. QED BY <1>2, <2>4, <2>5 DEF j
<1>5. QED BY <1>3, <1>4

(* RSA: exponents that are inverse to each other modulo the totient of two  *)
(* different primes undo each other modulo the product.                     *)
LEMMA DecryptedIsMessage ==
  ASSUME NEW p1 \in Nat, NEW p2 \in Nat, IsPrime(p1), IsPrime(p2), p1 # p2,
         NEW x \in Nat, NEW y \in Nat, (x * y) % ((p1 - 1) * (p2 - 1)) = 1,
         NEW a \in 0..(p1 * p2 - 1)
  PROVE  Alike(Power(Power(a, x), y), a, p1 * p2)
<1> DEFINE t == (p1 - 1) * (p2 - 1)
           n == x * y
           k == n \div t
           z == Power(a, n)
<1>1. /\ p1 - 1 \in Nat \ {0} /\ p2 - 1 \in Nat \ {0} /\ t \in Nat \ {0} /\ n \in Nat /\ a \in Nat
      /\ p1 \in Nat \ {0} /\ p2 \in Nat \ {0} /\ p1 > 1 /\ p2 > 1
      /\ p1 * p2 \in Nat \ {0}
  BY PrimeSelf
<1>2. k \in Nat /\ n = t * k + 1
  <2>1. n % t = 1
    OBVIOUS
  <2> HIDE DEF n, t
  <2>2. QED BY <1>1, <2>1, QuotientRemainder
<1> HIDE DEF k
<1>3. t * k = (p1 - 1) * ((p2 - 1) * k) /\ t * k = (p2 - 1) * ((p1 - 1) * k)
      /\ (p1 - 1) * k \in Nat /\ (p2 - 1) * k \in Nat
  BY <1>1, <1>2
<1> HIDE DEF t
<1>4. z = Power(Power(a, x), y)
  BY <1>1, PowerOfProduct
<1> HIDE DEF n
<1>5. Alike(z, a, p1) /\ Alike(z, a, p2)
  <2>1. Alike(Power(a, (p1 - 1) * ((p2 - 1) * k) + 1), a, p1)
    BY <1>1, <1>3, PowerOfPrime
  <2>2. Alike(Power(a, (p2 - 1) * ((p1 - 1) * k) + 1), a, p2)
    BY <1>1, <1>3, PowerOfPrime
  <2>3. QED BY <1>2, <1>3, <2>1, <2>2
<1>6. z \in Nat /\ a <= z
  <2> DEFINE i == t * k
             w == Power(a, i)
  <2>1. i \in Nat /\ n = i + 1
    BY <1>1, <1>2
  <2> HIDE DEF i
  <2>2. z = w * a /\ w \in Nat
    BY <1>1, <2>1, PowerDef
  <2>3. CASE w = 0
    <3>1. z = 0
      BY <1>1, <2>2, <2>3
    <3>2. a = 0
      <4>1. SUFFICES ASSUME a # 0 PROVE FALSE
        OBVIOUS
      <4> DEFINE S == {j \in Nat : Power(a, j) # 0}
      <4>2. 0 \in S
        BY <1>1, PowerDef
      <4>3. ASSUME NEW j \in Nat, j \in S PROVE j + 1 \in S
        <5>1. Power(a, j + 1) = Power(a, j) * a /\ Power(a, j) \in Nat /\ Power(a, j) # 0
          BY <1>1, <4>3, PowerDef
        <5> HIDE DEF S
        <5>2. Power(a, j) * a # 0
          BY <1>1, <4>1, <5>1
        <5>3. QED BY <5>1, <5>2 DEF S
      <4> HIDE DEF S
      <4>4. i \in S
        BY <2>1, <4>2, <4>3, Induction
      <4>5. QED BY <2>3, <4>4 DEF S
    <3>3. QED BY <3>1, <3>2
  <2>4. CASE w # 0
    <3>1. w * a >= a /\ w * a \in Nat
      BY <1>1, <2>2, <2>4
    <3>2. QED BY <2>2, <3>1
  <2>5. QED BY <2>3, <2>4
<1> DEFINE b == z - a
<1>7. b \in Nat
  BY <1>1, <1>6
<1>8. Divides(p1, b) /\ Divides(p2, b)
  BY <1>1, <1>5, <1>6, AlikeDifference
<1> HIDE DEF b, z
<1>9. PICK j \in Nat : b = p1 * j
  BY <1>1, <1>7, <1>8, DividesIsMultiple
<1>10. ~ Divides(p2, p1)
  <2>1. SUFFICES ASSUME Divides(p2, p1) PROVE FALSE
    OBVIOUS
  <2>2. p2 \in 1..p1
    BY <1>1, <2>1, DivisorIsSmaller
  <2>3. QED BY <1>1, <2>1, <2>2 DEF IsPrime
<1>11. PICK i \in Nat : j = p2 * i
  <2>1. Divides(p2, j)
    BY <1>1, <1>8, <1>9, <1>10, PrimeDividesProduct
  <2>2. QED BY <1>1, <2>1, DividesIsMultiple
<1>12. b = (p1 * p2) * i
  BY <1>9, <1>11
<1>13. Divides(p1 * p2, b)
  <2> HIDE DEF b
  <2>1. QED BY <1>1, <1>7, <1>12, DividesIsMultiple
<1>14. QED BY <1>1, <1>4, <1>6, <1>13, AlikeDifference DEF b

-------------------------------------------------------------------------------
(* Induction with every smaller number to rely on.                          *)
LEMMA StrongInduction ==
  ASSUME NEW S, \A n \in Nat : (\A k \in 0..(n - 1) : k \in S) => n \in S
  PROVE  Nat \subseteq S
<1>1. SUFFICES ASSUME Nat \ S # {} PROVE FALSE
  OBVIOUS
<1>2. PICK n \in Nat \ S : \A k \in Nat \ S : n <= k
  <2>1. Nat \ S \subseteq Nat
    OBVIOUS
  <2>2. QED BY <1>1, <2>1, LeastElement
<1>3. ASSUME NEW k \in 0..(n - 1) PROVE k \in S
  <2>1. k \in Nat /\ ~ (n <= k)
    BY <1>2
  <2>2. QED BY <1>2, <2>1
<1>4. QED BY <1>2, <1>3

(* The loop of powmod: f of x, y and n is what it returns when it is entered *)
(* with these, mul multiplies and reduces.                                   *)
Squaring(f, S, H, mul) ==
  \A x, y \in S, n \in 0..H :
    f[<<x, y, n>>] = IF n = 0 THEN x
                     ELSE f[<<IF n % 2 = 1 THEN mul[<<x, y>>] ELSE x, mul[<<y, y>>], n \div 2>>]

(* Half of a number is smaller, and the rest is 0 or 1.                     *)
LEMMA Halved ==
  ASSUME NEW n \in Nat \ {0}
  PROVE  /\ n \div 2 \in 0..(n - 1) /\ n \div 2 \in Nat
         /\ n % 2 \in {0, 1} /\ n = 2 * (n \div 2) + (n % 2)
  OBVIOUS

Closed(S, mul) == \A x, y \in S : mul[<<x, y>>] \in S
Agreeing(f, g, S, H) == \A x, y \in S, n \in 0..H : f[<<x, y, n>>] = g[<<x, y, n>>]

(* Two such loops with the same products return the same.                    *)
LEMMA LoopsAgree ==
  ASSUME NEW S, NEW H \in Nat, NEW mul, Closed(S, mul), NEW f, NEW g,
         Squaring(f, S, H, mul), Squaring(g, S, H, mul)
  PROVE  Agreeing(f, g, S, H)
<1> DEFINE R == {n \in Nat : n <= H => \A x, y \in S : f[<<x, y, n>>] = g[<<x, y, n>>]}
<1>1. ASSUME NEW n \in Nat, \A k \in 0..(n - 1) : k \in R PROVE n \in R
  <2>1. SUFFICES ASSUME n <= H, NEW x \in S, NEW y \in S PROVE f[<<x, y, n>>] = g[<<x, y, n>>]
    OBVIOUS
  <2>2. n \in 0..H
    BY <2>1
  <2>3. CASE n = 0
    <3>1. f[<<x, y, n>>] = x
      BY <2>2, <2>3 DEF Squaring
    <3>2. g[<<x, y, n>>] = x
      BY <2>2, <2>3 DEF Squaring
    <3>3. QED BY <3>1, <3>2
  <2>4. CASE n # 0
    <3> DEFINE k == n \div 2
               u == IF n % 2 = 1 THEN mul[<<x, y>>] ELSE x
               v == mul[<<y, y>>]
    <3>1. k \in 0..(n - 1) /\ k \in Nat /\ k <= H
      BY <2>2, <2>4, Halved
    <3>2. u \in S /\ v \in S
      BY DEF Closed
    <3>3. f[<<x, y, n>>] = f[<<u, v, k>>] /\ g[<<x, y, n>>] = g[<<u, v, k>>]
      BY <2>2, <2>4 DEF Squaring
    <3> HIDE DEF u, v, k
    <3>4. f[<<u, v, k>>] = g[<<u, v, k>>]
      BY <1>1, <3>1, <3>2
    <3>5. QED BY <3>3, <3>4
  <2>5. QED BY <2>3, <2>4
<1> HIDE DEF R
<1>2. Nat \subseteq R
  BY <1>1, StrongInduction
<1>3. QED BY <1>2 DEF R, Agreeing

(* The powers one round of squaring needs.                                  *)
LEMMA SmallPowers ==
  ASSUME NEW b \in Nat
  PROVE  Power(b, 0) = 1 /\ Power(b, 1) = b /\ Power(b, 2) = b * b
<1>1. Power(b, 0) = 1 /\ \A n \in Nat : Power(b, n + 1) = Power(b, n) * b
  BY PowerDef
<1>2. Power(b, 1) = b
  <2>1. Power(b, 0 + 1) = Power(b, 0) * b
    BY <1>1
  <2>2. Power(b, 1) = 1 * b
    BY <1>1, <2>1
  <2>3. QED BY <2>2
<1>3. Power(b, 1 + 1) = Power(b, 1) * b
  BY <1>1
<1>4. Power(b, 2) = Power(b, 1) * b
  BY <1>3
<1>5. QED BY <1>1, <1>2, <1>4

(* Squaring and multiplying modulo m leaves x times the power of y.         *)
LEMMA LoopIsPower ==
  ASSUME NEW m \in Nat \ {0}, NEW H \in Nat, NEW mul, NEW f, Squaring(f, 0..(m - 1), H, mul),
         \A u, v \in 0..(m - 1) : mul[<<u, v>>] = (u * v) % m
  PROVE  \A x, y \in 0..(m - 1), n \in 0..H :
           f[<<x, y, n>>] \in 0..(m - 1) /\ Alike(f[<<x, y, n>>], x * Power(y, n), m)
<1> DEFINE G(n, x, y) == f[<<x, y, n>>] \in 0..(m - 1) /\ Alike(f[<<x, y, n>>], x * Power(y, n), m)
           R == {n \in Nat : n <= H => \A x, y \in 0..(m - 1) : G(n, x, y)}
<1>0. ASSUME NEW u \in 0..(m - 1), NEW v \in 0..(m - 1)
      PROVE  mul[<<u, v>>] \in 0..(m - 1) /\ Alike(mul[<<u, v>>], u * v, m)
  <2> DEFINE w == u * v
  <2>1. w \in Nat /\ mul[<<u, v>>] = w % m
    OBVIOUS
  <2> HIDE DEF w
  <2>2. w % m \in 0..(m - 1)
    BY <2>1
  <2>3. Alike(w, w % m, m)
    BY <2>1, RemainderIsAlike
  <2>4. Alike(w % m, w, m)
    BY <2>1, <2>2, <2>3, AlikeBack
  <2>5. QED BY <2>1, <2>2, <2>4 DEF w
<1>1. ASSUME NEW n \in Nat, \A k \in 0..(n - 1) : k \in R PROVE n \in R
  <2>1. SUFFICES ASSUME n <= H, NEW x \in 0..(m - 1), NEW y \in 0..(m - 1) PROVE G(n, x, y)
    BY DEF R
  <2>2. n \in 0..H /\ x \in Nat /\ y \in Nat
    BY <2>1
  <2>3. CASE n = 0
    <3>1. f[<<x, y, n>>] = x
      BY <2>2, <2>3 DEF Squaring
    <3>2. Power(y, n) = 1 /\ x * 1 = x
      BY <2>2, <2>3, PowerDef
    <3>3. Alike(x, x, m)
      BY <2>2, AlikeSelf
    <3>4. QED BY <3>1, <3>2, <3>3
  <2>4. CASE n # 0
    <3> DEFINE k == n \div 2
               i == n % 2
               u == IF i = 1 THEN mul[<<x, y>>] ELSE x
               v == mul[<<y, y>>]
               a == Power(y, i)
               b == Power(y * y, k)
    <3>1. k \in 0..(n - 1) /\ k \in Nat /\ k <= H /\ i \in {0, 1} /\ n = 2 * k + i /\ y * y \in Nat
      BY <2>2, <2>4, Halved
    <3>2. u \in 0..(m - 1) /\ v \in 0..(m - 1) /\ Alike(v, y * y, m)
      BY <1>0
    <3>3. f[<<x, y, n>>] = f[<<u, v, k>>]
      BY <2>2, <2>4 DEF Squaring
    <3>4. a \in Nat /\ b \in Nat /\ a = IF i = 1 THEN y ELSE 1
      <4>1. Power(y, 0) = 1 /\ Power(y, 1) = y
        BY <2>2, SmallPowers
      <4>2. a = IF i = 1 THEN y ELSE 1
        BY <3>1, <4>1
      <4>3. b \in Nat
        BY <3>1, PowerDef
      <4>4. QED BY <2>2, <4>2, <4>3
    <3>5. Alike(u, x * a, m)
      <4>1. CASE i = 1
        <5>1. u = mul[<<x, y>>] /\ a = y
          BY <3>4, <4>1
        <5>2. QED BY <1>0, <5>1
      <4>2. CASE i # 1
        <5>1. u = x /\ a = 1 /\ x * 1 = x
          BY <2>2, <3>4, <4>2
        <5>2. QED BY <2>2, <5>1, AlikeSelf
      <4>3. QED BY <4>1, <4>2
    <3>6. Power(y, n) = a * b
      <4>1. Power(y, 2) = y * y
        BY <2>2, SmallPowers
      <4>2. Power(y, 2 * k) = b
        BY <2>2, <3>1, <4>1, PowerOfProduct
      <4>3. Power(y, i + 2 * k) = Power(y, i) * Power(y, 2 * k)
        <5>1. i \in Nat /\ 2 * k \in Nat
          BY <3>1
        <5> HIDE DEF i, k
        <5>2. QED BY <2>2, <5>1, PowerOfSum
      <4>4. n = i + 2 * k
        BY <3>1
      <4>5. QED BY <4>2, <4>3, <4>4
    <3> HIDE DEF u, v, k, i
    <3>7. f[<<u, v, k>>] \in 0..(m - 1) /\ Alike(f[<<u, v, k>>], u * Power(v, k), m)
      BY <1>1, <3>1, <3>2 DEF R
    <3>8. Alike(Power(v, k), b, m) /\ Power(v, k) \in Nat
      <4> DEFINE yy == y * y
      <4>1. v \in Nat /\ yy \in Nat /\ Alike(v, yy, m)
        BY <3>1, <3>2
      <4> HIDE DEF yy
      <4>2. Alike(Power(v, k), Power(yy, k), m)
        BY <3>1, <4>1, AlikePowers
      <4>3. Power(v, k) \in Nat
        BY <3>1, <4>1, PowerDef
      <4>4. QED BY <4>2, <4>3 DEF yy
    <3> DEFINE c == Power(v, k)
               z == f[<<u, v, k>>]
               xa == x * a
    <3>9. c \in Nat /\ z \in Nat /\ u \in Nat /\ xa \in Nat /\ b \in Nat
      BY <2>2, <3>2, <3>4, <3>7, <3>8
    <3>10. xa * b = x * Power(y, n)
      <4>1. \A r, s, t \in Nat : (r * s) * t = r * (s * t)
        OBVIOUS
      <4> HIDE DEF a, b
      <4>2. QED BY <2>2, <3>4, <3>6, <4>1
    <3>11. Alike(z, u * c, m) /\ Alike(c, b, m) /\ Alike(u, xa, m)
      BY <3>5, <3>7, <3>8
    <3> HIDE DEF a, b, c, z, xa
    <3>12. Alike(u * c, xa * b, m)
      BY <3>9, <3>11, AlikeProduct
    <3>13. u * c \in Nat /\ xa * b \in Nat
      BY <3>9
    <3>14. Alike(z, xa * b, m)
      <4> DEFINE uc == u * c
                 xb == xa * b
      <4>1. uc \in Nat /\ xb \in Nat /\ Alike(z, uc, m) /\ Alike(uc, xb, m)
        BY <3>11, <3>12, <3>13
      <4> HIDE DEF uc, xb
      <4>2. z \in Int /\ uc \in Int /\ xb \in Int /\ m \in Int
        BY <3>9, <4>1
      <4>4. Alike(z, xb, m)
        BY <4>1, <4>2, AlikeBoth
      <4>3. QED BY <4>4 DEF xb
    <3>15. QED BY <3>3, <3>7, <3>10, <3>14 DEF z
  <2>5. QED BY <2>3, <2>4
<1> HIDE DEF R
<1>2. Nat \subseteq R
  BY <1>1, StrongInduction
<1>3. QED BY <1>2 DEF R

(* Two remainders that are alike are the same. *)
LEMMA AlikeRemainders ==
  ASSUME NEW m \in Nat \ {0}, NEW a \in 0..(m - 1), NEW b \in 0..(m - 1), Alike(a, b, m)
  PROVE  a = b
<1>1. a % m = b /\ a % m = a
  BY AlikeRemainder
<1>2. QED BY <1>1

(* Whatever computes powers modulo the product of two different primes      *)
(* recovers the message.                                                    *)
LEMMA MessageRecovered ==
  ASSUME NEW p1 \in Nat, NEW p2 \in Nat, IsPrime(p1), IsPrime(p2), p1 # p2,
         NEW x \in Nat, NEW y \in Nat, (x * y) % ((p1 - 1) * (p2 - 1)) = 1,
         NEW m, m = p1 * p2, NEW a \in 0..(m - 1), NEW c \in 0..(m - 1), NEW r \in 0..(m - 1),
         Alike(c, Power(a, x), m), Alike(r, Power(c, y), m)
  PROVE  r = a
<1> DEFINE u == Power(a, x)
           v == Power(c, y)
           w == Power(u, y)
<1>1. m \in Nat \ {0} /\ a \in Nat /\ c \in Nat /\ r \in Nat
  <2>1. p1 \in Nat \ {0} /\ p2 \in Nat \ {0}
    BY PrimeSelf
  <2>2. m \in Nat \ {0}
    BY <2>1
  <2>3. QED BY <2>2
<1>2. u \in Nat /\ v \in Nat
  BY <1>1, PowerDef
<1>3. Alike(w, a, m)
  BY DecryptedIsMessage
<1> HIDE DEF u, v
<1>4. w \in Nat
  BY <1>2, PowerDef
<1>5. Alike(v, w, m)
  BY <1>1, <1>2, AlikePowers DEF u, v
<1> HIDE DEF w
<1>6. m \in Int /\ a \in Int /\ r \in Int /\ v \in Int /\ w \in Int
  BY <1>1, <1>2, <1>4
<1>7. Alike(r, w, m)
  <2>1. Alike(r, v, m)
    BY DEF v
  <2>2. QED BY <1>5, <1>6, <2>1, AlikeBoth
<1>8. Alike(r, a, m)
  BY <1>3, <1>6, <1>7, AlikeBoth
<1>9. QED BY <1>1, <1>8, AlikeRemainders

-------------------------------------------------------------------------------
(* The loop of inverse: f is what it returns when it is entered with the    *)
(* two numbers of Euclid's algorithm, their factors and two words, which    *)
(* only a division by zero would look at.                                   *)
Divided(a, b, s, t, l, h) == <<b, a % b, t - (a \div b) * s, s, l, h>>
Inverting(f, S, L) ==
  \A a, b \in S, l, h \in L, s, t \in Int :
    /\ a = 1 => f[<<a, b, s, t, l, h>>] = t
    /\ a > 1 /\ b # 0 => \E i, j \in L : f[<<a, b, s, t, l, h>>] = f[Divided(a, b, s, t, i, j)]

NoCommonFactor(a, b) == \A k, i, j \in Nat : a = k * i /\ b = k * j => k = 1

(* The factors have different signs; u and v are their amounts.             *)
Signs(s, t, u, v) == (s = u /\ t = 0 - v) \/ (s = 0 - u /\ t = v)

(* What holds whenever the loop is entered, for the inverse of x modulo n.  *)
EuclidFactors(a, b, s, t, x, n) ==
  /\ a # 0 /\ NoCommonFactor(a, b)
  /\ Alike(a, t * x, n) /\ Alike(b, s * x, n)
  /\ \E u, v \in Nat : Signs(s, t, u, v) /\ u * a + v * b = n /\ 2 * v <= n

(* z, or z + n if it is negative, is the inverse of x modulo n. *)
HalfInverse(z, x, n) == z \in Int /\ Alike(1, z * x, n) /\ 2 * z <= n /\ -(2 * z) <= n

(* One round of the loop, on numbers it does not end with.                  *)
LEMMA EuclidStep ==
  ASSUME NEW n \in Nat \ {0, 1}, NEW x \in Nat, NEW a \in Nat, NEW b \in Nat, NEW s \in Int, NEW t \in Int,
         EuclidFactors(a, b, s, t, x, n), a > 1
  PROVE  /\ b # 0 /\ a % b \in 0..(b - 1) /\ a \div b \in 0..a
         /\ t - (a \div b) * s \in Int
         /\ EuclidFactors(b, a % b, t - (a \div b) * s, s, x, n)
<1>1. b # 0
  <2>1. SUFFICES ASSUME b = 0 PROVE FALSE
    OBVIOUS
  <2>2. a = a * 1 /\ b = a * 0
    BY <2>1
  <2>3. \A i, j \in Nat : a = a * i /\ b = a * j => a = 1
    BY DEF EuclidFactors, NoCommonFactor
  <2>4. 0 \in Nat /\ 1 \in Nat /\ a # 1
    OBVIOUS
  <2>5. QED BY <2>2, <2>3, <2>4
<1> DEFINE i == a \div b
           r == a % b
           s1 == t - i * s
<1>2. i \in 0..a /\ i \in Nat /\ r \in 0..(b - 1) /\ r \in Nat /\ a = b * i + r
  <2>1. i \in Nat /\ r \in Nat /\ a = b * i + r /\ r < b
    BY <1>1, QuotientRemainder
  <2> HIDE DEF i, r
  <2>2. b * i >= i
    BY <1>1, <2>1
  <2>3. QED BY <2>1, <2>2
<1> HIDE DEF i, r
<1>3. i * s \in Int /\ s1 \in Int
  BY <1>2
<1>4. NoCommonFactor(b, r)
  <2>1. SUFFICES ASSUME NEW k \in Nat, NEW f \in Nat, NEW g \in Nat, b = k * f, r = k * g
                 PROVE  k = 1
    BY DEF NoCommonFactor
  <2>2. b * i + r = k * (f * i + g) /\ f * i + g \in Nat
    BY <1>2, <2>1
  <2>3. QED BY <1>2, <2>1, <2>2 DEF EuclidFactors, NoCommonFactor
<1>5. Alike(r, s1 * x, n)
  <2>1. PICK j \in Int : a = t * x + j * n
    BY DEF EuclidFactors, Alike
  <2>2. PICK k \in Int : b = s * x + k * n
    BY DEF EuclidFactors, Alike
  <2>3. r = (t * x + j * n) - (s * x + k * n) * i
    BY <1>2, <2>1, <2>2
  <2>4. (s * x + k * n) * i = (i * s) * x + (k * i) * n
    BY <1>2
  <2>5. s1 * x = t * x - (i * s) * x
    BY <1>2
  <2>6. (j - k * i) * n = j * n - (k * i) * n
    BY <1>2
  <2> DEFINE isx == (i * s) * x
             kin == (k * i) * n
             jn == j * n
             tx == t * x
  <2>7. isx \in Int /\ kin \in Int /\ jn \in Int /\ tx \in Int /\ r \in Int
    BY <1>2
  <2>8. r = (tx + jn) - (isx + kin) /\ s1 * x = tx - isx /\ (j - k * i) * n = jn - kin
    BY <2>3, <2>4, <2>5, <2>6
  <2> HIDE DEF isx, kin, jn, tx, s1
  <2>9. r = s1 * x + (j - k * i) * n
    BY <2>7, <2>8
  <2>10. j - k * i \in Int
    BY <1>2
  <2>11. QED BY <2>9, <2>10 DEF Alike
<1>6. \E u, v \in Nat : Signs(s1, s, u, v) /\ u * b + v * r = n /\ 2 * v <= n
  <2>1. PICK u \in Nat, v \in Nat : Signs(s, t, u, v) /\ u * a + v * b = n /\ 2 * v <= n
    BY DEF EuclidFactors
  <2> DEFINE w == v + i * u
  <2>2. w \in Nat /\ i * u \in Nat
    BY <1>2
  <2>3. Signs(s1, s, w, u)
    <3>1. CASE s = u /\ t = 0 - v
      BY <1>2, <3>1 DEF Signs
    <3>2. CASE s = 0 - u /\ t = v
      <4>1. i * (0 - u) = 0 - i * u
        BY <1>2
      <4>2. QED BY <1>2, <2>2, <3>2, <4>1 DEF Signs
    <3>3. QED BY <2>1, <3>1, <3>2 DEF Signs
  <2>4. w * b + u * r = n
    <3>1. w * b = v * b + u * (b * i)
      BY <1>2
    <3>2. u * a = u * (b * i) + u * r
      BY <1>2
    <3>3. u * (b * i) \in Nat /\ u * r \in Nat /\ v * b \in Nat
      BY <1>2
    <3> DEFINE ubi == u * (b * i)
               ur == u * r
               vb == v * b
               ua == u * a
               wb == w * b
    <3>4. ubi \in Nat /\ ur \in Nat /\ vb \in Nat /\ wb = vb + ubi /\ ua = ubi + ur /\ ua + vb = n
      BY <2>1, <3>1, <3>2, <3>3
    <3> HIDE DEF ubi, ur, vb, ua, wb
    <3>5. wb + ur = n
      BY <3>4
    <3>6. QED BY <3>5 DEF wb, ur
  <2>5. 2 * u <= n
    <3> DEFINE ua == u * a
               vb == v * b
    <3>1. 2 * u <= ua /\ ua \in Nat /\ vb \in Nat /\ ua + vb = n
      BY <2>1
    <3> HIDE DEF ua, vb
    <3>2. QED BY <3>1
  <2> HIDE DEF w
  <2>6. QED BY <2>2, <2>3, <2>4, <2>5
<1>7. Alike(b, s * x, n)
  BY DEF EuclidFactors
<1> HIDE DEF s1
<1>8. QED BY <1>1, <1>2, <1>3, <1>4, <1>5, <1>6, <1>7 DEF EuclidFactors, i, r, s1

(* The loop ends with a factor that is an inverse and at most half of n.    *)
LEMMA LoopInverts ==
  ASSUME NEW n \in Nat \ {0, 1}, NEW x \in Nat, NEW H \in Nat, NEW L, 0..H \subseteq L, NEW f, Inverting(f, 0..H, L)
  PROVE  \A a, b \in 0..H, l, h \in L, s, t \in Int :
           EuclidFactors(a, b, s, t, x, n) => HalfInverse(f[<<a, b, s, t, l, h>>], x, n)
<1> DEFINE G(b) == \A a \in 0..H, l, h \in L, s, t \in Int :
                     EuclidFactors(a, b, s, t, x, n) => HalfInverse(f[<<a, b, s, t, l, h>>], x, n)
           R == {b \in Nat : b <= H => G(b)}
<1>1. ASSUME NEW b \in Nat, \A k \in 0..(b - 1) : k \in R PROVE b \in R
  <2>1. SUFFICES ASSUME b <= H, NEW a \in 0..H, NEW l \in L, NEW h \in L, NEW s \in Int, NEW t \in Int,
                        EuclidFactors(a, b, s, t, x, n)
                 PROVE  HalfInverse(f[<<a, b, s, t, l, h>>], x, n)
    OBVIOUS
  <2>2. b \in 0..H /\ a \in Nat
    BY <2>1
  <2>3. CASE a = 1
    <3>1. f[<<a, b, s, t, l, h>>] = t
      <4> DEFINE S == 0..H
      <4>1. a \in S /\ b \in S /\ Inverting(f, S, L)
        BY <2>2
      <4> HIDE DEF S
      <4>2. QED BY <2>3, <4>1 DEF Inverting
    <3>2. Alike(1, t * x, n)
      BY <2>1, <2>3 DEF EuclidFactors
    <3>3. 2 * t <= n /\ -(2 * t) <= n
      BY <2>1 DEF EuclidFactors, Signs
    <3>4. QED BY <3>1, <3>2, <3>3 DEF HalfInverse
  <2>4. CASE a > 1
    <3> DEFINE i == a \div b
               r == a % b
               s1 == t - i * s
    <3>1. b # 0 /\ r \in 0..(b - 1) /\ i \in 0..a /\ s1 \in Int /\ EuclidFactors(b, r, s1, s, x, n)
      BY <2>1, <2>2, <2>4, EuclidStep
    <3>2. PICK j \in L, k \in L : f[<<a, b, s, t, l, h>>] = f[<<b, r, s1, s, j, k>>]
      <4> DEFINE S == 0..H
      <4>1. a \in S /\ b \in S /\ Inverting(f, S, L)
        BY <2>2
      <4> HIDE DEF S
      <4>2. \E j, k \in L : f[<<a, b, s, t, l, h>>] = f[Divided(a, b, s, t, j, k)]
        <5> HIDE DEF i, r, s1, G, R
        <5>1. QED BY <2>4, <3>1, <4>1, SMTT(60) DEF Inverting
      <4>3. QED BY <4>2 DEF Divided
    <3> HIDE DEF i, r, s1
    <3>3. r \in R /\ r \in 0..H /\ i \in 0..H /\ r <= H
      <4>1. r \in R
        <5> HIDE DEF R
        <5>1. QED BY <1>1, <3>1
      <4>2. r \in 0..H /\ i \in 0..H /\ r <= H
        BY <2>2, <3>1
      <4>3. QED BY <4>1, <4>2
    <3>4. G(r)
      <4> HIDE DEF G
      <4>1. QED BY <3>3
    <3>5. HalfInverse(f[<<b, r, s1, s, j, k>>], x, n)
      BY <2>2, <3>1, <3>3, <3>4
    <3>6. QED BY <3>2, <3>5
  <2>5. a # 0
    BY <2>1 DEF EuclidFactors
  <2>6. QED BY <2>2, <2>3, <2>4, <2>5
<1> HIDE DEF R
<1>2. Nat \subseteq R
  BY <1>1, StrongInduction
<1>3. QED BY <1>2 DEF R

(* The numbers the loop is entered with.                                    *)
LEMMA FirstFactors ==
  ASSUME NEW n \in Nat \ {0, 1}, NEW x \in Nat \ {0}, Coprime(x, n)
  PROVE  EuclidFactors(x, n, 0, 1, x, n)
<1>1. NoCommonFactor(x, n)
  <2>1. SUFFICES ASSUME NEW k \in Nat, NEW i \in Nat, NEW j \in Nat, x = k * i, n = k * j PROVE k = 1
    BY DEF NoCommonFactor
  <2>2. Divides(k, x) /\ Divides(k, n)
    BY <2>1, DividesIsMultiple
  <2>3. k \in 1..x
    BY <2>2, DivisorIsSmaller
  <2>4. QED BY <2>2, <2>3 DEF Coprime
<1>2. Alike(x, 1 * x, n)
  BY AlikeSelf
<1>3. Alike(n, 0 * x, n)
  <2>1. n = 0 * x + 1 * n
    OBVIOUS
  <2>2. QED BY <2>1 DEF Alike
<1>4. Signs(0, 1, 0, 1)
  <2>1. 0 = 0 - 0
    OBVIOUS
  <2>2. QED BY <2>1 DEF Signs
<1>5. 0 * x + 1 * n = n /\ 2 * 1 <= n
  OBVIOUS
<1>6. QED BY <1>1, <1>2, <1>3, <1>4, <1>5 DEF EuclidFactors

(* The factor, made positive, is the inverse.                               *)
LEMMA FactorIsInverse ==
  ASSUME NEW n \in Nat \ {0, 1}, NEW x \in Nat, NEW z, HalfInverse(z, x, n)
  PROVE  LET y == IF z < 0 THEN z + n ELSE z IN y \in 1..(n - 1) /\ (x * y) % n = 1
<1> DEFINE y == IF z < 0 THEN z + n ELSE z
<1>0. z \in Int /\ 2 * z <= n /\ -(2 * z) <= n
  BY DEF HalfInverse
<1>1. PICK k \in Int : 1 = z * x + k * n
  BY DEF HalfInverse, Alike
<1>2. z # 0
  <2>1. SUFFICES ASSUME z = 0 PROVE FALSE
    OBVIOUS
  <2>2. k * n = 1
    BY <1>0, <1>1, <2>1
  <2>3. CASE k <= 0
    <3>1. k * n <= 0
      BY <2>3
    <3>2. QED BY <2>2, <3>1
  <2>4. CASE k >= 1
    <3>1. k * n >= n
      BY <2>4
    <3>2. QED BY <2>2, <3>1
  <2>5. QED BY <2>3, <2>4
<1>3. y \in 1..(n - 1)
  BY <1>0, <1>2
<1>4. PICK j \in Int : x * y = j * n + 1
  <2>1. CASE z < 0
    <3>1. x * y = z * x + x * n
      BY <1>0, <2>1
    <3>2. (x - k) * n = x * n - k * n /\ x - k \in Int
      OBVIOUS
    <3> DEFINE zx == z * x
               xn == x * n
               kn == k * n
    <3>3. zx \in Int /\ xn \in Int /\ kn \in Int /\ 1 = zx + kn /\ x * y = zx + xn /\ (x - k) * n = xn - kn
      BY <1>0, <1>1, <3>1, <3>2
    <3> HIDE DEF zx, xn, kn, y
    <3>4. x * y = (x - k) * n + 1
      BY <3>3
    <3>5. QED BY <3>2, <3>4
  <2>2. CASE ~ (z < 0)
    <3>1. x * y = z * x
      BY <1>0, <2>2
    <3>2. (-k) * n = -(k * n) /\ -k \in Int
      OBVIOUS
    <3> DEFINE zx == z * x
               kn == k * n
    <3>3. zx \in Int /\ kn \in Int /\ 1 = zx + kn /\ x * y = zx /\ (-k) * n = -kn
      BY <1>0, <1>1, <3>1, <3>2
    <3> HIDE DEF zx, kn, y
    <3>4. x * y = (-k) * n + 1
      BY <3>3
    <3>5. QED BY <3>2, <3>4
  <2>3. QED BY <2>1, <2>2
<1>5. (j * n + 1) % n = 1
  <2>1. 1 \in 0..(n - 1)
    OBVIOUS
  <2>2. QED BY <2>1, RemainderIsUnique
<1>6. QED BY <1>3, <1>4, <1>5
===============================================================================
