-------------------------------- MODULE Multiply --------------------------------
(***************************************************************************)
(* How the simulator multiplies two words into the double word HI, LO:     *)
(* "high-school math" with half words, because C has no wider integer that *)
(* run.c would trust.  A word is a number below HALF * HALF, read as       *)
(* unsigned, or as two's complement by Signed.                             *)
(***************************************************************************)
EXTENDS Integers

CONSTANT HALF     \* what fits in half a word: 2^16 in the code

ASSUME HalfAssumption == HALF \in Nat \ {0} /\ HALF % 2 = 0

WORD == HALF * HALF
Words == 0..(WORD - 1)

Negative(v) == v >= WORD \div 2
Signed(v) == IF Negative(v) THEN v - WORD ELSE v

Complement(v) == WORD - 1 - v
Negated(v) == IF v = 0 THEN 0 ELSE WORD - v

(* Mutant: the second carry is forgotten. *)
CarriesOnce(ad, cb, upper_bd) ==
  IF (ad + cb) % WORD < ad \/ (ad + cb) % WORD < cb THEN 1 ELSE 0

(* carry_mid: how often the sum of the middle products leaves the word.     *)
Carries(ad, cb, upper_bd) ==
  LET mid  == (ad + cb) % WORD
      mid2 == (mid + upper_bd) % WORD
  IN  (IF mid < ad \/ mid < cb THEN 1 ELSE 0)
        + (IF mid2 < mid \/ mid2 < upper_bd THEN 1 ELSE 0)

unsigned_multiply(v1, v2) ==
  LET a == v1 \div HALF
      b == v1 % HALF
      c == v2 \div HALF
      d == v2 % HALF
      upper_bd == (b * d) \div HALF
      mid2 == (((a * d + c * b) % WORD) + upper_bd) % WORD
  IN  [lo |-> ((b * d) % HALF) + (mid2 % HALF) * HALF,
       hi |-> (a * c + Carries(a * d, c * b, upper_bd) * HALF + mid2 \div HALF) % WORD]

(* The double word is complemented and incremented if the signs differ. *)
signed_multiply(v1, v2) ==
  LET Magnitude(v) == IF Negative(v) THEN Negated(v) ELSE v
      p == unsigned_multiply(Magnitude(v1), Magnitude(v2))
  IN  IF Negative(v1) = Negative(v2) THEN p
      ELSE [lo |-> Negated(p.lo),
            hi |-> (Complement(p.hi) + (IF Negated(p.lo) = 0 THEN 1 ELSE 0)) % WORD]

(* madd, maddu: the low words are added, a carry goes into the high ones. *)
Accumulated(acc, p) ==
  LET lo == (acc.lo + p.lo) % WORD
      carry == IF lo < p.lo \/ lo < acc.lo THEN 1 ELSE 0
  IN  [lo |-> lo, hi |-> (acc.hi + carry + p.hi) % WORD]

(* msub, msubu *)
Reduced(acc, p) ==
  LET borrow == IF p.lo > acc.lo THEN 1 ELSE 0
  IN  [lo |-> (acc.lo - p.lo) % WORD, hi |-> (acc.hi - borrow - p.hi) % WORD]

(* The number a pair HI, LO stands for, unsigned. *)
Double(p) == p.hi * WORD + p.lo
===============================================================================
