----------------------------- MODULE RSAFunctionsProofs -----------------------------
(***************************************************************************)
(* Proofs about the functions of C/RSA.c, for every value of the constants: *)
(* the invariant of each function's loop, that its steps keep it, and the   *)
(* properties of RSAFunctions that follow.                                  *)
(***************************************************************************)
EXTENDS RSAFunctions, ArithmeticProofs

-------------------------------------------------------------------------------
(* GCD: the parameters keep the common divisors of the arguments.           *)

(* Inside the loop a never becomes 0: this is why the early return is there. *)
GcdLoop == pc = "loop" => param1 # 0

GcdEntry == pc = "entry" => param1 = arg1 /\ param2 = arg2

(* The two returns: the early one, and the one the loop condition allows. *)
GcdDone ==
  pc = "done" =>
    \/ arg1 = 0 /\ ret = arg2
    \/ param2 = 0 /\ param1 # 0 /\ ret = param1

(* The common divisors of the two parameters are those of the arguments.    *)
CommonDivisorsKept ==
  \A d \in 1..(arg1 + arg2) :
     Divides(d, param1) /\ Divides(d, param2) <=> Divides(d, arg1) /\ Divides(d, arg2)

GcdInv == G!TypeOK /\ GcdEntry /\ GcdLoop /\ CommonDivisorsKept /\ GcdDone

-------------------------------------------------------------------------------
(* Each instance has a copy of the reference definitions; they say the same. *)
LEMMA GcdReading == \A g, m, n : G!IsGCD(g, m, n) <=> IsGCD(g, m, n)
  BY DEF G!IsGCD, IsGCD, G!Divides, Divides

LEMMA CoprimeReading == \A m, n : I!Coprime(m, n) <=> Coprime(m, n)
  BY DEF I!Coprime, Coprime, I!Divides, Divides

LEMMA PrimeReading == \A n : T!IsPrime(n) <=> IsPrime(n)
  BY DEF T!IsPrime, IsPrime, T!Divides, Divides

LEMMA ClosestReading ==
  \A r, m, size : /\ T!IsClosest(r, m, size) <=> IsClosest(r, m, size)
                  /\ T!WithinReach(m, size) <=> WithinReach(m, size)
  BY DEF T!IsClosest, IsClosest, T!WithinReach, WithinReach, T!Distance, Distance,
         T!IsPrime, IsPrime, T!Divides, Divides

-------------------------------------------------------------------------------
LEMMA InitGcd == G!Init => GcdInv
  BY ArgsAssumption DEF G!Init, GcdInv, G!TypeOK, GcdEntry, GcdLoop, CommonDivisorsKept, GcdDone

(* The loop keeps the common divisors whichever of its branches runs. *)
LEMMA GcdKeepsDivisors ==
  ASSUME GcdInv, G!SubtractFromA \/ G!SubtractFromB
  PROVE  CommonDivisorsKept'
<1> USE DEF GcdInv, G!TypeOK
<1>1. SUFFICES ASSUME NEW d \in 1..(arg1 + arg2)
               PROVE  Divides(d, param1') /\ Divides(d, param2')
                        <=> Divides(d, param1) /\ Divides(d, param2)
  BY DEF CommonDivisorsKept, G!SubtractFromA, G!SubtractFromB
<1>2. d \in Nat /\ param1 \in Nat /\ param2 \in Nat
  OBVIOUS
<1>3. CASE G!SubtractFromA
  <2>1. param1' = param1 - param2 /\ param2' = param2 /\ param2 <= param1
    BY <1>3 DEF G!SubtractFromA
  <2>2. Divides(d, param2) => (Divides(d, param1) <=> Divides(d, param1 - param2))
    BY <1>2, <2>1, DividesDifference
  <2>3. QED BY <2>1, <2>2
<1>4. CASE G!SubtractFromB
  <2>1. param2' = param2 - param1 /\ param1' = param1 /\ param1 <= param2
    BY <1>4 DEF G!SubtractFromB
  <2>2. Divides(d, param1) => (Divides(d, param2) <=> Divides(d, param2 - param1))
    BY <1>2, <2>1, DividesDifference
  <2>3. QED BY <2>1, <2>2
<1>5. QED BY <1>3, <1>4

LEMMA NextGcd == GcdInv /\ [G!Next]_(G!vars) => GcdInv'
<1>1. SUFFICES ASSUME GcdInv, [G!Next]_(G!vars) PROVE GcdInv'
  OBVIOUS
<1> USE DEF GcdInv, G!TypeOK, GcdEntry, GcdLoop, GcdDone
<1>2. CASE G!ReturnB
  BY <1>1, <1>2 DEF G!ReturnB, CommonDivisorsKept
<1>3. CASE G!EnterLoop
  BY <1>1, <1>3 DEF G!EnterLoop, CommonDivisorsKept
<1>4. CASE G!SubtractFromA
  <2>1. CommonDivisorsKept'
    BY <1>1, <1>4, GcdKeepsDivisors
  <2>2. QED BY <1>1, <1>4, <2>1 DEF G!SubtractFromA
<1>5. CASE G!SubtractFromB
  <2>1. CommonDivisorsKept'
    BY <1>1, <1>5, GcdKeepsDivisors
  <2>2. QED BY <1>1, <1>5, <2>1 DEF G!SubtractFromB
<1>6. CASE G!ExitLoop
  BY <1>1, <1>6 DEF G!ExitLoop, CommonDivisorsKept
<1>7. CASE UNCHANGED G!vars
  BY <1>1, <1>7 DEF G!vars, CommonDivisorsKept
<1>8. QED
  BY <1>1, <1>2, <1>3, <1>4, <1>5, <1>6, <1>7 DEF G!Next

LEMMA GcdInvGivesGCD == GcdInv => G!GCDCorrect
<1>1. SUFFICES ASSUME GcdInv, pc = "done" PROVE IsGCD(ret, arg1, arg2)
  BY GcdReading DEF G!GCDCorrect
<1>2. /\ arg1 \in Nat /\ arg2 \in Nat /\ param1 \in 0..arg1 /\ param2 \in 0..arg2
      /\ CommonDivisorsKept
      /\ (arg1 = 0 /\ ret = arg2) \/ (param2 = 0 /\ param1 # 0 /\ ret = param1)
  BY <1>1 DEF GcdInv, G!TypeOK, GcdDone
<1>3. CASE arg1 = 0 /\ ret = arg2
  BY <1>2, <1>3, DividesZero, DividesSelf DEF IsGCD
<1>4. CASE param2 = 0 /\ param1 # 0 /\ ret = param1
  <2>1. ret \in 1..(arg1 + arg2)
    BY <1>2, <1>4
  <2>2. Divides(ret, param1) /\ Divides(ret, param2)
    BY <1>2, <1>4, <2>1, DividesZero, DividesSelf
  <2>3. Divides(ret, arg1) /\ Divides(ret, arg2)
    BY <1>2, <2>1, <2>2 DEF CommonDivisorsKept
  <2>4. \A d \in 1..(arg1 + arg2) :
           Divides(d, arg1) /\ Divides(d, arg2) => Divides(d, ret)
    BY <1>2, <1>4 DEF CommonDivisorsKept
  <2>5. QED BY <2>3, <2>4 DEF IsGCD
<1>5. QED BY <1>2, <1>3, <1>4

-------------------------------------------------------------------------------
(* inverse: the cofactors stay tied to the remainders, and each remainder   *)
(* is its cofactor times the exponent modulo the totient.                   *)

(* v is 0 modulo the totient, with the quotient made explicit. *)
MultipleOf(v) == \E k \in Int : v = k * arg1

CofactorsOfE == MultipleOf(local1 * arg2 - param1) /\ MultipleOf(local2 * arg2 - param2)

(* The cofactor that is returned is smaller than the totient. *)
X1Small ==
  /\ local2 + arg1 >= 0
  /\ arg1 > 1 /\ pc # "entry" => I!Abs(local2) < arg1

(* The remainders have the divisors of the arguments. *)
SameDivisors ==
  \A d \in Nat :
    Divides(d, param1) /\ Divides(d, param2) => Divides(d, arg1) /\ Divides(d, arg2)

InverseEntry == pc = "entry" => param1 = arg1 /\ param2 = arg2

InverseTrap == pc = "trap" => param2 > 1 /\ param1 = 0

InverseDone ==
  pc = "done" =>
    \/ arg1 = 1 /\ ret = 1
    \/ param2 = 1 /\ ret = IF local2 < 0 THEN local2 + arg1 ELSE local2

InverseRange ==
  /\ arg1 \in 0..(IntLimit - 1) /\ arg2 \in 1..(IntLimit - 1)
  /\ param1 \in 0..(IntLimit - 1) /\ param2 \in 1..(IntLimit - 1)
  /\ local1 \in Int /\ local2 \in Int
  /\ pc \in {"entry", "loop", "done", "trap"}
  /\ ret \in 0..(IntLimit - 1)

CofactorRange ==
  /\ local1 \in -(IntLimit - 1)..(IntLimit - 1)
  /\ local2 \in -(IntLimit - 1)..(IntLimit - 1)

InverseInv ==
  /\ InverseRange /\ CofactorRange /\ I!CofactorsTied /\ CofactorsOfE /\ X1Small
  /\ SameDivisors /\ InverseEntry /\ InverseTrap /\ InverseDone

-------------------------------------------------------------------------------
(* A value in the range of an int is stored as it is. *)
LEMMA ToIntIsIdentity ==
  ASSUME NEW v \in -(IntLimit - 1)..(IntLimit - 1)
  PROVE  I!ToInt(v) = v
<1>1. IntLimit \in Nat /\ IntLimit > 1
  BY InverseAssumption
<1>2. v + IntLimit \in 0..(2 * IntLimit - 1)
  BY <1>1
<1>3. (v + IntLimit) % (2 * IntLimit) = v + IntLimit
  BY <1>1, <1>2
<1>4. QED BY <1>1, <1>3 DEF I!ToInt

(* A common divisor of d and n - q * d divides n. *)
LEMMA DividesCombination ==
  ASSUME NEW d \in Nat, NEW m \in Nat, NEW r \in Nat, NEW q \in Nat,
         Divides(d, m), Divides(d, r)
  PROVE  Divides(d, m * q + r)
<1>1. PICK j \in Nat : m = d * j
  BY DividesIsMultiple
<1>2. PICK k \in Nat : r = d * k
  BY DividesIsMultiple
<1>3. m * q + r = d * (j * q + k)
  BY <1>1, <1>2
<1>4. j * q + k \in Nat /\ m * q + r \in Nat
  OBVIOUS
<1>5. QED BY <1>3, <1>4, DividesIsMultiple

LEMMA InitInverse == I!Init => InverseInv
<1>1. SUFFICES ASSUME I!Init PROVE InverseInv
  OBVIOUS
<1>2. IntLimit \in Nat /\ IntLimit > 1
      /\ arg1 \in 0..(IntLimit - 1) /\ arg2 \in 1..(IntLimit - 1)
  BY <1>1, InverseAssumption DEF I!Init
<1>3. InverseRange /\ CofactorRange /\ I!CofactorsTied /\ InverseEntry /\ InverseTrap /\ InverseDone
      /\ X1Small /\ SameDivisors
  BY <1>1, <1>2 DEF I!Init, InverseRange, CofactorRange, I!CofactorsTied, I!Abs, InverseEntry, InverseTrap,
                    InverseDone, X1Small, SameDivisors
<1>4. MultipleOf(local1 * arg2 - param1)
  <2>1. local1 * arg2 - param1 = (-1) * arg1
    BY <1>1, <1>2 DEF I!Init
  <2>2. QED BY <2>1 DEF MultipleOf
<1>5. MultipleOf(local2 * arg2 - param2)
  <2>1. local2 * arg2 - param2 = 0 * arg1
    BY <1>1, <1>2 DEF I!Init
  <2>2. QED BY <2>1 DEF MultipleOf
<1>6. QED BY <1>3, <1>4, <1>5 DEF InverseInv, CofactorsOfE

-------------------------------------------------------------------------------
(* One pass of the loop, with the quotient and the remainder named.        *)
LEMMA EuclidStepInverse ==
  ASSUME InverseInv, I!EuclidStep
  PROVE  InverseInv'
<1> DEFINE q == param2 \div param1
           r == param2 % param1
<1>1. /\ IntLimit \in Nat /\ IntLimit > 1
      /\ arg1 \in Nat /\ arg1 < IntLimit /\ arg2 \in Nat
      /\ param1 \in Nat \ {0} /\ param1 < IntLimit /\ param2 \in Nat /\ param2 > 1 /\ param2 < IntLimit
      /\ local1 \in Int /\ local2 \in Int /\ pc = "loop"
  BY InverseAssumption DEF InverseInv, InverseRange, I!EuclidStep
<1>2. /\ q \in Nat /\ r \in Nat /\ param2 = param1 * q + r /\ r < param1
  BY <1>1, QuotientRemainder
<1>3. /\ param1' = r /\ param2' = param1 /\ local2' = local1 /\ local1' = I!ToInt(local2 - q * local1)
      /\ arg1' = arg1 /\ arg2' = arg2 /\ pc' = pc /\ ret' = ret
  BY DEF I!EuclidStep
<1> HIDE DEF q, r
<1>4. I!Abs(local1) * param2 + I!Abs(local2) * param1 = arg1
      /\ ((local1 <= 0 /\ local2 >= 0) \/ (local1 >= 0 /\ local2 <= 0))
  BY DEF InverseInv, I!CofactorsTied
<1>a. I!Abs(local1) \in Nat /\ I!Abs(local2) \in Nat
  BY <1>1 DEF I!Abs
<1>5. I!Abs(local2 - q * local1) = I!Abs(local2) + q * I!Abs(local1)
  <2>1. CASE local1 <= 0 /\ local2 >= 0
    <3>1. q * local1 <= 0 /\ q * (-local1) = -(q * local1)
      BY <1>1, <1>2, <2>1
    <3>2. QED BY <1>1, <1>2, <2>1, <3>1 DEF I!Abs
  <2>2. CASE local1 >= 0 /\ local2 <= 0
    <3>1. q * local1 >= 0 /\ q * (-local1) = -(q * local1)
      BY <1>1, <1>2, <2>2
    <3>2. QED BY <1>1, <1>2, <2>2, <3>1 DEF I!Abs
  <2>3. QED BY <1>4, <2>1, <2>2
<1>6. I!Abs(local2 - q * local1) * param1 + I!Abs(local1) * r = arg1
  <2>1. I!Abs(local2 - q * local1) * param1 = I!Abs(local2) * param1 + I!Abs(local1) * (param1 * q)
    BY <1>5, <1>a, <1>1, <1>2
  <2>2. I!Abs(local1) * param2 = I!Abs(local1) * (param1 * q) + I!Abs(local1) * r
    BY <1>2, <1>a, <1>1
  <2>3. QED BY <2>1, <2>2, <1>4, <1>a, <1>1, <1>2
<1>7. I!Abs(local2 - q * local1) <= arg1 /\ local2 - q * local1 \in Int /\ I!Abs(local2 - q * local1) \in Nat
  <2>1. q * local1 \in Int /\ local2 - q * local1 \in Int
    BY <1>1, <1>2
  <2>2. I!Abs(local2 - q * local1) \in Nat
    BY <2>1 DEF I!Abs
  <2>3. I!Abs(local1) * r >= 0
    BY <1>a, <1>2
  <2>4. I!Abs(local2 - q * local1) * param1 <= arg1
    BY <1>6, <2>2, <2>3, <1>1, <1>2, <1>a
  <2>5. I!Abs(local2 - q * local1) <= I!Abs(local2 - q * local1) * param1
    BY <2>2, <1>1
  <2>6. QED BY <2>1, <2>2, <2>4, <2>5, <1>1
<1>8. local1' = local2 - q * local1 /\ local1' \in -(IntLimit - 1)..(IntLimit - 1)
  <2>1. local2 - q * local1 \in -(IntLimit - 1)..(IntLimit - 1)
    BY <1>7, <1>1 DEF I!Abs
  <2>2. QED BY <2>1, <1>3, ToIntIsIdentity
<1>9. InverseRange' /\ CofactorRange'
  BY <1>1, <1>2, <1>3, <1>8 DEF InverseInv, InverseRange, CofactorRange
<1>10. I!CofactorsTied'
  <2>1. I!Abs(local1') * param2' + I!Abs(local2') * param1' = arg1'
    BY <1>3, <1>6, <1>8
  <2>2. CASE local1 <= 0 /\ local2 >= 0
    <3>1. q * local1 <= 0
      BY <1>1, <1>2, <2>2
    <3>2. QED BY <1>1, <1>2, <1>3, <1>8, <2>1, <2>2, <3>1 DEF I!CofactorsTied, I!Abs
  <2>3. CASE local1 >= 0 /\ local2 <= 0
    <3>1. q * local1 >= 0
      BY <1>1, <1>2, <2>3
    <3>2. QED BY <1>1, <1>2, <1>3, <1>8, <2>1, <2>3, <3>1 DEF I!CofactorsTied, I!Abs
  <2>4. QED BY <1>4, <2>2, <2>3
<1>11. CofactorsOfE'
  <2>1. PICK j \in Int : local1 * arg2 - param1 = j * arg1
    BY DEF InverseInv, CofactorsOfE, MultipleOf
  <2>2. PICK k \in Int : local2 * arg2 - param2 = k * arg1
    BY DEF InverseInv, CofactorsOfE, MultipleOf
  <2>3. local1' * arg2' - param1' = (k - q * j) * arg1'
    <3>1. (local2 - q * local1) * arg2 = local2 * arg2 - q * (local1 * arg2)
      BY <1>1, <1>2
    <3>2. local1 * arg2 = param1 + j * arg1 /\ local2 * arg2 = param2 + k * arg1
      BY <2>1, <2>2, <1>1
    <3>3. q * (param1 + j * arg1) = param1 * q + (q * j) * arg1
      BY <1>1, <1>2
    <3>4. (k - q * j) * arg1 = k * arg1 - (q * j) * arg1
      BY <1>1, <1>2
    <3>5. (local2 - q * local1) * arg2 = (param2 + k * arg1) - (param1 * q + (q * j) * arg1)
      BY <3>1, <3>2, <3>3
    <3>6. param1 * q \in Int /\ k * arg1 \in Int /\ (q * j) * arg1 \in Int
      BY <1>1, <1>2
    <3>7. (local2 - q * local1) * arg2 - r = (k - q * j) * arg1
      BY <3>4, <3>5, <3>6, <1>1, <1>2
    <3>8. QED BY <3>7, <1>3, <1>8
  <2>4. k - q * j \in Int
    BY <1>2
  <2>5. QED BY <1>3, <2>1, <2>3, <2>4 DEF CofactorsOfE, MultipleOf
<1>12. X1Small'
  <2>1. I!Abs(local1) * 2 <= I!Abs(local1) * param2
    BY <1>a, <1>1
  <2>2. I!Abs(local2) * param1 >= 0
    BY <1>a, <1>1
  <2>3. I!Abs(local1) * 2 <= arg1
    BY <2>1, <2>2, <1>4, <1>a, <1>1
  <2>4. QED BY <2>3, <1>a, <1>1, <1>3 DEF X1Small, I!Abs
<1>13. SameDivisors'
  <2>1. SUFFICES ASSUME NEW d \in Nat, Divides(d, r), Divides(d, param1)
                 PROVE  Divides(d, arg1) /\ Divides(d, arg2)
    BY <1>3 DEF SameDivisors
  <2>2. Divides(d, param2)
    BY <2>1, <1>1, <1>2, DividesCombination
  <2>3. QED BY <2>1, <2>2 DEF InverseInv, SameDivisors
<1>14. InverseEntry' /\ InverseTrap' /\ InverseDone'
  BY <1>1, <1>3 DEF InverseEntry, InverseTrap, InverseDone
<1>15. QED BY <1>9, <1>10, <1>11, <1>12, <1>13, <1>14 DEF InverseInv

LEMMA NextInverse == InverseInv /\ [I!Next]_(I!vars) => InverseInv'
<1>1. SUFFICES ASSUME InverseInv, [I!Next]_(I!vars) PROVE InverseInv'
  OBVIOUS
<1> USE DEF InverseInv, InverseRange, CofactorRange, I!CofactorsTied, CofactorsOfE, MultipleOf, X1Small,
            SameDivisors, InverseEntry, InverseTrap, InverseDone
<1>2. CASE I!ReturnOne
  BY <1>1, <1>2 DEF I!ReturnOne
<1>3. CASE I!EnterLoop
  <2>1. arg1 > 1 => I!Abs(local2) < arg1
    BY <1>1, <1>3 DEF I!EnterLoop, I!Abs
  <2>2. QED BY <1>1, <1>3, <2>1 DEF I!EnterLoop
<1>4. CASE I!EuclidStep
  BY <1>1, <1>4, EuclidStepInverse
<1>5. CASE I!DivideByZero
  BY <1>1, <1>5 DEF I!DivideByZero
<1>6. CASE I!ExitLoop
  <2>1. ret' \in 0..(IntLimit - 1)
    BY <1>1, <1>6, InverseAssumption DEF I!ExitLoop
  <2>2. param2 = 1
    BY <1>1, <1>6, InverseAssumption DEF I!ExitLoop
  <2>3. QED BY <1>1, <1>6, <2>1, <2>2 DEF I!ExitLoop, I!Abs
<1>7. CASE UNCHANGED I!vars
  BY <1>1, <1>7 DEF I!vars
<1>8. QED
  BY <1>1, <1>2, <1>3, <1>4, <1>5, <1>6, <1>7 DEF I!Next

-------------------------------------------------------------------------------
LEMMA InverseInvGivesMultiples == InverseInv => I!RemaindersAreMultiples
<1>1. SUFFICES ASSUME InverseInv, arg1 > 0
               PROVE  Congruent(local1 * arg2, param1, arg1) /\ Congruent(local2 * arg2, param2, arg1)
  BY DEF I!RemaindersAreMultiples, I!Congruent, Congruent
<1>2. arg1 \in Nat \ {0}
  BY <1>1 DEF InverseInv, InverseRange
<1>3. PICK j \in Int : local1 * arg2 - param1 = j * arg1
  BY <1>1 DEF InverseInv, CofactorsOfE, MultipleOf
<1>4. PICK k \in Int : local2 * arg2 - param2 = k * arg1
  BY <1>1 DEF InverseInv, CofactorsOfE, MultipleOf
<1>5. QED BY <1>2, <1>3, <1>4, MultipleIsCongruentToZero DEF Congruent

LEMMA InverseInvGivesInverse == InverseInv => I!InverseCorrect
<1>1. SUFFICES ASSUME InverseInv, pc = "done", arg1 > 1
               PROVE  ret \in 1..(arg1 - 1) /\ (arg2 * ret) % arg1 = 1
  BY DEF I!InverseCorrect
<1>2. /\ arg1 \in Nat /\ arg2 \in Nat /\ local2 \in Int
      /\ param2 = 1 /\ ret = IF local2 < 0 THEN local2 + arg1 ELSE local2
      /\ I!Abs(local2) < arg1
  BY <1>1 DEF InverseInv, InverseRange, InverseDone, X1Small
<1>3. PICK k \in Int : local2 * arg2 - 1 = k * arg1
  BY <1>1, <1>2 DEF InverseInv, CofactorsOfE, MultipleOf
<1>4. PICK j \in Int : arg2 * ret = 1 + j * arg1
  <2>1. CASE local2 < 0
    <3>1. arg2 * (local2 + arg1) = local2 * arg2 + arg2 * arg1
      BY <1>2
    <3>2. (k + arg2) * arg1 = k * arg1 + arg2 * arg1 /\ k + arg2 \in Int
      BY <1>2
    <3>3. k * arg1 \in Int /\ arg2 * arg1 \in Int /\ local2 * arg2 \in Int
      BY <1>2
    <3>4. arg2 * ret = 1 + (k + arg2) * arg1
      BY <1>2, <1>3, <2>1, <3>1, <3>2, <3>3
    <3>5. QED BY <3>2, <3>4
  <2>2. CASE ~ (local2 < 0)
    <3>1. arg2 * ret = 1 + k * arg1
      BY <1>2, <1>3, <2>2
    <3>2. QED BY <3>1
  <2>3. QED BY <2>1, <2>2
<1>5. ret \in 0..(arg1 - 1)
  BY <1>2 DEF I!Abs
<1>6. ret # 0
  <2>1. SUFFICES ASSUME ret = 0 PROVE FALSE
    OBVIOUS
  <2>2. j * arg1 = -1
    BY <2>1, <1>2, <1>4
  <2>3. (j * arg1) % arg1 = 0
    BY <1>1, <1>2, MultipleIsCongruentToZero
  <2>4. QED BY <2>2, <2>3, <1>1, <1>2
<1>7. (arg2 * ret) % arg1 = 1
  <2>1. (j * arg1 + 1) % arg1 = 1
    <3>1. 1 \in 0..(arg1 - 1) /\ arg1 \in Nat \ {0} /\ j \in Int
      BY <1>1, <1>2
    <3>2. QED BY <3>1, RemainderIsUnique
  <2>2. arg2 * ret = j * arg1 + 1
    BY <1>2, <1>4
  <2>3. QED BY <2>1, <2>2
<1>8. QED BY <1>5, <1>6, <1>7

LEMMA InverseInvGivesTrap == InverseInv => I!TrapOnlyWithoutInverse
<1>1. SUFFICES ASSUME InverseInv, pc = "trap", Coprime(arg2, arg1) PROVE FALSE
  BY CoprimeReading DEF I!TrapOnlyWithoutInverse
<1>2. param2 \in Nat /\ param2 > 1 /\ param1 = 0 /\ arg2 \in Nat \ {0}
  BY <1>1 DEF InverseInv, InverseRange, InverseTrap
<1>3. Divides(param2, arg1) /\ Divides(param2, arg2)
  BY <1>1, <1>2, DividesZero, DividesSelf DEF InverseInv, SameDivisors
<1>4. param2 \in 1..arg2
  <2>1. PICK k \in Nat : arg2 = param2 * k
    BY <1>2, <1>3, DividesIsMultiple
  <2>2. k # 0
    BY <1>2, <2>1
  <2>3. param2 <= param2 * k
    BY <1>2, <2>2
  <2>4. QED BY <1>2, <2>1, <2>3
<1>5. QED BY <1>1, <1>2, <1>3, <1>4 DEF Coprime

LEMMA InverseInvGivesTypes == InverseInv => I!TypeOK
<1>1. SUFFICES ASSUME InverseInv PROVE I!TypeOK
  OBVIOUS
<1> QED BY <1>1, InverseAssumption DEF InverseInv, InverseRange, CofactorRange, I!TypeOK

-------------------------------------------------------------------------------
(* powmod: x * y^b stays the power that was asked for, modulo the modulus.  *)

(* The base is only ever multiplied by 1: from the first pass that changes *)
(* x on, y is a residue too.                                                *)
ResidueInv ==
  /\ P!TypeOK
  /\ pc = "loop" => (local1 = 1 \/ local2 < arg3)
  /\ pc = "trap" => arg3 = 0

(* What is left to multiply into x is y to the b.  The modulus 1 is apart:  *)
(* x is 1 until the first product reduces it to 0.                          *)
PowerInv ==
  /\ P!Fits => (local1 * P!ModPower(local2, param2, arg3)) % arg3 = P!ModPower(arg1, arg2, arg3)
  /\ arg3 = 1 => local1 = 0 \/ param2 > 0 \/ arg2 = 0
  /\ pc = "done" => param2 = 0

PowmodInv == ResidueInv /\ PowerInv

-------------------------------------------------------------------------------
(* f is the function the power is defined with, for the exponents up to n.  *)
PowersUpTo(f, base, n, m) ==
  f = [k \in 0..n |-> IF k = 0 THEN 1 % m ELSE (f[k-1] * base) % m]

LEMMA ModPowerDef ==
  ASSUME NEW base, NEW n, NEW m, NEW f, PowersUpTo(f, base, n, m)
  PROVE  \E g : PowersUpTo(g, base, n, m) /\ P!ModPower(base, n, m) = g[n]
<1> DEFINE g == CHOOSE g : PowersUpTo(g, base, n, m)
<1>1. PowersUpTo(g, base, n, m)
  OBVIOUS
<1>2. P!ModPower(base, n, m) = g[n]
  BY DEF P!ModPower, PowersUpTo
<1>3. QED BY <1>1, <1>2

(* A solution for a longer domain extends one for a shorter domain. *)
LEMMA SolutionsAgree ==
  ASSUME NEW base, NEW m, NEW n1 \in Nat, NEW n2 \in Nat, NEW f, NEW g,
         PowersUpTo(f, base, n1, m), PowersUpTo(g, base, n2, m), NEW k \in 0..n1, k <= n2
  PROVE  f[k] = g[k]
<1> DEFINE S == {j \in Nat : j <= n1 /\ j <= n2 => f[j] = g[j]}
<1>1. 0 \in S
  BY DEF PowersUpTo
<1>2. ASSUME NEW j \in Nat, j \in S PROVE j + 1 \in S
  <2>1. SUFFICES ASSUME j + 1 <= n1, j + 1 <= n2 PROVE f[j + 1] = g[j + 1]
    OBVIOUS
  <2>2. f[j] = g[j] /\ j + 1 \in 0..n1 /\ j + 1 \in 0..n2 /\ j + 1 # 0 /\ (j + 1) - 1 = j
    BY <1>2, <2>1
  <2>3. f[j + 1] = (f[j] * base) % m
    BY <2>2 DEF PowersUpTo
  <2>4. g[j + 1] = (g[j] * base) % m
    BY <2>2 DEF PowersUpTo
  <2>5. QED BY <2>2, <2>3, <2>4
<1> HIDE DEF S
<1>3. Nat \subseteq S
  BY <1>1, <1>2, Induction
<1>4. k \in S
  BY <1>3
<1>5. QED BY <1>4 DEF S

LEMMA SolutionExists ==
  ASSUME NEW base, NEW m, NEW n \in Nat
  PROVE  \E f : PowersUpTo(f, base, n, m)
<1> DEFINE S == {j \in Nat : \E f : PowersUpTo(f, base, j, m)}
<1>1. 0 \in S
  <2>1. PowersUpTo([k \in 0..0 |-> 1 % m], base, 0, m)
    BY DEF PowersUpTo
  <2>2. QED BY <2>1
<1>2. ASSUME NEW j \in Nat, j \in S PROVE j + 1 \in S
  <2>1. PICK f : PowersUpTo(f, base, j, m)
    BY <1>2
  <2> DEFINE g == [k \in 0..(j + 1) |-> IF k <= j THEN f[k] ELSE (f[j] * base) % m]
  <2>2. ASSUME NEW k \in 0..(j + 1)
        PROVE  g[k] = IF k = 0 THEN 1 % m ELSE (g[k-1] * base) % m
    <3>1. CASE k <= j
      <4>1. f[k] = IF k = 0 THEN 1 % m ELSE (f[k-1] * base) % m
        BY <2>1, <3>1 DEF PowersUpTo
      <4>2. g[k] = f[k] /\ (k # 0 => g[k-1] = f[k-1])
        BY <3>1
      <4>3. QED BY <4>1, <4>2
    <3>2. CASE k = j + 1
      <4>1. g[k] = (f[j] * base) % m /\ g[k - 1] = f[j] /\ k # 0
        BY <3>2
      <4>2. QED BY <4>1
    <3>3. QED BY <3>1, <3>2
  <2>3. PowersUpTo(g, base, j + 1, m)
    <3>1. g = [k \in 0..(j + 1) |-> g[k]]
      OBVIOUS
    <3> HIDE DEF g
    <3>2. QED BY <2>2, <3>1 DEF PowersUpTo
  <2>4. QED BY <2>3
<1> HIDE DEF S
<1>3. n \in S
  BY <1>1, <1>2, Induction
<1>4. QED BY <1>3 DEF S

LEMMA PowerIsSolution ==
  ASSUME NEW base, NEW n \in Nat, NEW m
  PROVE  \E g : PowersUpTo(g, base, n, m) /\ P!ModPower(base, n, m) = g[n]
  BY SolutionExists, ModPowerDef

LEMMA PowerOfZero ==
  ASSUME NEW base, NEW m
  PROVE  P!ModPower(base, 0, m) = 1 % m
<1>1. PICK g : PowersUpTo(g, base, 0, m) /\ P!ModPower(base, 0, m) = g[0]
  BY PowerIsSolution
<1>2. QED BY <1>1 DEF PowersUpTo

LEMMA PowerStep ==
  ASSUME NEW base, NEW m, NEW n \in Nat
  PROVE  P!ModPower(base, n + 1, m) = (P!ModPower(base, n, m) * base) % m
<1>1. PICK f : PowersUpTo(f, base, n, m) /\ P!ModPower(base, n, m) = f[n]
  BY PowerIsSolution
<1>2. n + 1 \in Nat
  OBVIOUS
<1>3. PICK g : PowersUpTo(g, base, n + 1, m) /\ P!ModPower(base, n + 1, m) = g[n + 1]
  BY <1>2, PowerIsSolution
<1>4. g[n + 1] = (g[n] * base) % m
  BY <1>3 DEF PowersUpTo
<1>5. g[n] = f[n]
  BY <1>1, <1>2, <1>3, SolutionsAgree
<1>6. QED BY <1>1, <1>3, <1>4, <1>5

LEMMA PowerRange ==
  ASSUME NEW base \in Nat, NEW m \in Nat \ {0}, NEW n \in Nat
  PROVE  P!ModPower(base, n, m) \in 0..(m - 1)
<1> DEFINE S == {j \in Nat : P!ModPower(base, j, m) \in 0..(m - 1)}
<1>1. 0 \in S
  BY PowerOfZero
<1>2. ASSUME NEW j \in Nat, j \in S PROVE j + 1 \in S
  <2>1. P!ModPower(base, j, m) * base \in Nat
    BY <1>2
  <2>2. (P!ModPower(base, j, m) * base) % m \in 0..(m - 1)
    BY <2>1, QuotientRemainder
  <2>3. QED BY <2>2, PowerStep
<1> HIDE DEF S
<1>3. n \in S
  BY <1>1, <1>2, Induction
<1>4. QED BY <1>3 DEF S

(* The power of a square is the power with the exponent doubled. *)
LEMMA PowerOfSquare ==
  ASSUME NEW y \in Nat, NEW m \in Nat \ {0}, NEW n \in Nat
  PROVE  P!ModPower((y * y) % m, n, m) = P!ModPower(y, 2 * n, m)
<1> DEFINE z == (y * y) % m
           S == {j \in Nat : P!ModPower(z, j, m) = P!ModPower(y, 2 * j, m)}
<1>1. 0 \in S
  BY PowerOfZero
<1>2. ASSUME NEW j \in Nat, j \in S PROVE j + 1 \in S
  <2> DEFINE c == P!ModPower(y, 2 * j, m)
  <2>1. c \in Nat /\ y * y \in Nat /\ c * y \in Nat /\ z \in Nat
    <3>1. 2 * j \in Nat
      OBVIOUS
    <3>2. c \in Nat
      BY <3>1, PowerRange
    <3>3. y * y \in Nat
      OBVIOUS
    <3>4. QED BY <3>2, <3>3, QuotientRemainder
  <2>2. P!ModPower(z, j + 1, m) = (c * z) % m
    BY <1>2, PowerStep
  <2>3. P!ModPower(y, 2 * j + 1, m) = (c * y) % m
    <3>1. 2 * j \in Nat
      OBVIOUS
    <3>2. QED BY <3>1, PowerStep
  <2>4. P!ModPower(y, 2 * (j + 1), m) = (((c * y) % m) * y) % m
    <3>1. 2 * j + 1 \in Nat /\ 2 * (j + 1) = (2 * j + 1) + 1
      OBVIOUS
    <3>2. QED BY <2>3, <3>1, PowerStep
  <2> HIDE DEF c
  <2>5. (((c * y) % m) * y) % m = ((c * y) * y) % m
    <3> DEFINE e == c * y
    <3>1. e \in Nat
      BY <2>1
    <3> HIDE DEF e
    <3>2. ((e % m) * y) % m = (e * y) % m
      BY <3>1, ReducedFactor, Zenon
    <3>3. QED BY <3>2 DEF e
  <2>6. (c * z) % m = ((c * y) * y) % m
    <3>1. (z * c) % m = ((y * y) * c) % m
      <4> DEFINE e == y * y
      <4>1. e \in Nat
        BY <2>1
      <4> HIDE DEF e
      <4>2. ((e % m) * c) % m = (e * c) % m
        BY <2>1, <4>1, ReducedFactor, Zenon
      <4>3. QED BY <4>2 DEF e
    <3> HIDE DEF z
    <3>2. c * z = z * c /\ (y * y) * c = (c * y) * y
      BY <2>1
    <3>3. QED BY <3>1, <3>2
  <2>7. QED BY <2>2, <2>4, <2>5, <2>6
<1> HIDE DEF S
<1>3. n \in S
  BY <1>1, <1>2, Induction
<1>4. QED BY <1>3 DEF S

-------------------------------------------------------------------------------
LEMMA InitPowmod == P!Init => PowmodInv
<1>1. SUFFICES ASSUME P!Init PROVE PowmodInv
  OBVIOUS
<1>2. ResidueInv
  BY <1>1, PowModAssumption DEF P!Init, ResidueInv, P!TypeOK
<1>3. ASSUME P!Fits
      PROVE  (local1 * P!ModPower(local2, param2, arg3)) % arg3 = P!ModPower(arg1, arg2, arg3)
  <2> DEFINE p == P!ModPower(arg1, arg2, arg3)
  <2>1. arg1 \in Nat /\ arg2 \in Nat /\ arg3 \in Nat \ {0}
    BY <1>1, <1>3, PowModAssumption DEF P!Init, P!Fits
  <2>2. p \in 0..(arg3 - 1)
    BY <2>1, PowerRange
  <2>3. local1 = 1 /\ P!ModPower(local2, param2, arg3) = p
    BY <1>1 DEF P!Init
  <2> HIDE DEF p
  <2>4. (1 * p) % arg3 = p
    BY <2>1, <2>2
  <2>5. QED BY <2>3, <2>4 DEF p
<1>4. arg3 = 1 => param2 > 0 \/ arg2 = 0
  BY <1>1, PowModAssumption DEF P!Init
<1>5. QED BY <1>1, <1>2, <1>3, <1>4 DEF P!Init, PowmodInv, PowerInv

(* A residue of a nonzero modulus, whatever it is the residue of. *)
LEMMA ResidueRange ==
  ASSUME NEW v \in Nat, NEW m \in Nat \ {0}
  PROVE  v % m \in 0..(m - 1)
  OBVIOUS

LEMMA TimesIsNat ==
  ASSUME NEW u \in Nat, NEW v \in Nat
  PROVE  P!Times(u, v) \in Nat
<1>1. u * v \in Nat
  OBVIOUS
<1>2. WordSize \in Nat \ {0}
  BY PowModAssumption
<1>3. QED BY <1>1, <1>2, ResidueRange DEF P!Times

LEMMA NextResidues == ResidueInv /\ [P!Next]_(P!vars) => ResidueInv'
<1>1. SUFFICES ASSUME ResidueInv, [P!Next]_(P!vars) PROVE ResidueInv'
  OBVIOUS
<1> USE DEF ResidueInv, P!TypeOK
<1>2. local1 \in Nat /\ local2 \in Nat /\ param2 \in Nat /\ arg3 \in Nat /\ arg2 \in Nat
  BY <1>1, PowModAssumption
<1>3. CASE P!MultiplyAndSquare
  <2>1. local1' \in 0..(arg3 - 1) /\ local2' \in 0..(arg3 - 1)
    BY <1>2, <1>3, TimesIsNat, ResidueRange DEF P!MultiplyAndSquare
  <2>2. param2' \in 0..arg2
    BY <1>1, <1>2, <1>3 DEF P!MultiplyAndSquare
  <2>3. QED BY <1>1, <1>2, <1>3, <2>1, <2>2 DEF P!MultiplyAndSquare
<1>4. CASE P!SquareOnly
  <2>1. local2' \in 0..(arg3 - 1)
    BY <1>2, <1>4, TimesIsNat, ResidueRange DEF P!SquareOnly
  <2>2. param2' \in 0..arg2
    BY <1>1, <1>2, <1>4 DEF P!SquareOnly
  <2>3. QED BY <1>1, <1>2, <1>4, <2>1, <2>2 DEF P!SquareOnly
<1>5. CASE P!ReduceByZero
  BY <1>1, <1>5 DEF P!ReduceByZero
<1>6. CASE P!ExitLoop
  BY <1>1, <1>6 DEF P!ExitLoop
<1>7. CASE UNCHANGED P!vars
  BY <1>1, <1>7 DEF P!vars
<1>8. QED
  BY <1>1, <1>3, <1>4, <1>5, <1>6, <1>7 DEF P!Next

(* The products are exact as long as the operands are residues. *)
LEMMA ProductIsMonotonic ==
  ASSUME NEW u \in Nat, NEW v \in Nat, NEW m \in Nat, u <= m, v <= m
  PROVE  u * v <= m * m
<1>1. u * v <= m * v
  OBVIOUS
<1>2. m * v <= m * m
  OBVIOUS
<1>3. u * v \in Nat /\ m * v \in Nat /\ m * m \in Nat
  OBVIOUS
<1>4. QED BY <1>1, <1>2, <1>3

LEMMA ResiduesGiveExact == ResidueInv => P!ProductsExact
<1>1. SUFFICES ASSUME ResidueInv, P!Fits, pc = "loop"
               PROVE  local1 * local2 < WordSize /\ local2 * local2 < WordSize
  BY DEF P!ProductsExact
<1>2. /\ WordSize \in Nat /\ arg3 \in Nat \ {0} /\ arg1 \in Nat /\ arg1 < WordSize
      /\ local1 \in Nat /\ local2 \in Nat /\ arg3 <= WordSize /\ arg3 - 1 \in Nat
      /\ arg1 * arg1 < WordSize /\ (arg3 - 1) * (arg3 - 1) < WordSize
      /\ local1 = 1 \/ local2 < arg3
      /\ local1 <= arg3 - 1 \/ local1 = 1
      /\ local2 <= arg3 - 1 \/ local2 = arg1
  BY <1>1, PowModAssumption DEF ResidueInv, P!TypeOK, P!Fits
<1>3. local2 * local2 < WordSize
  <2>1. CASE local2 <= arg3 - 1
    <3>1. local2 * local2 <= (arg3 - 1) * (arg3 - 1)
      BY <1>2, <2>1, ProductIsMonotonic
    <3>2. local2 * local2 \in Nat /\ (arg3 - 1) * (arg3 - 1) \in Nat
      BY <1>2
    <3>3. QED BY <1>2, <3>1, <3>2
  <2>2. QED BY <1>2, <2>1
<1>4. local1 * local2 < WordSize
  <2>1. CASE local1 = 1
    BY <1>2, <2>1
  <2>2. CASE local1 <= arg3 - 1 /\ local2 <= arg3 - 1
    <3>1. local1 * local2 <= (arg3 - 1) * (arg3 - 1)
      BY <1>2, <2>2, ProductIsMonotonic
    <3>2. local1 * local2 \in Nat /\ (arg3 - 1) * (arg3 - 1) \in Nat
      BY <1>2
    <3>3. QED BY <1>2, <3>1, <3>2
  <2>3. QED BY <1>2, <2>1, <2>2
<1>5. QED BY <1>3, <1>4

(* One pass squares y, halves b and, when b is odd, multiplies y into x: the *)
(* power that is left is the same.                                          *)
LEMMA PassKeepsPower ==
  ASSUME NEW m \in Nat \ {0}, NEW x \in Nat, NEW y \in Nat, NEW b \in Nat
  PROVE  /\ b % 2 = 0 => (x * P!ModPower((y * y) % m, b \div 2, m)) % m
                           = (x * P!ModPower(y, b, m)) % m
         /\ b % 2 = 1 => (((x * y) % m) * P!ModPower((y * y) % m, b \div 2, m)) % m
                           = (x * P!ModPower(y, b, m)) % m
<1> DEFINE c == b \div 2
           p == P!ModPower(y, 2 * c, m)
<1>1. c \in Nat /\ 2 * c \in Nat /\ (b % 2 = 0 => b = 2 * c) /\ (b % 2 = 1 => b = 2 * c + 1)
  OBVIOUS
<1> HIDE DEF c
<1>2. P!ModPower((y * y) % m, c, m) = p
  BY <1>1, PowerOfSquare
<1>3. p \in Nat
  BY <1>1, PowerRange
<1>4. ASSUME b % 2 = 0
      PROVE  (x * P!ModPower((y * y) % m, c, m)) % m = (x * P!ModPower(y, b, m)) % m
  BY <1>1, <1>2, <1>4
<1>5. ASSUME b % 2 = 1
      PROVE  (((x * y) % m) * P!ModPower((y * y) % m, c, m)) % m = (x * P!ModPower(y, b, m)) % m
  <2>1. P!ModPower(y, b, m) = (p * y) % m
    BY <1>1, <1>5, PowerStep
  <2> HIDE DEF p
  <2>2. x * y \in Nat /\ p * y \in Nat
    BY <1>3
  <2> DEFINE xy == x * y
             py == p * y
  <2>0. xy \in Nat /\ py \in Nat
    BY <2>2
  <2> HIDE DEF xy, py
  <2>3. ((xy % m) * p) % m = (xy * p) % m
    BY <2>0, <1>3, ReducedFactor
  <2>4. ((py % m) * x) % m = (py * x) % m
    BY <2>0, ReducedFactor
  <2>5. (x * y) * p = (p * y) * x
    BY <1>3
  <2>6. x * ((p * y) % m) = ((p * y) % m) * x
    <3>1. (p * y) % m \in Nat
      BY <2>2, QuotientRemainder
    <3>2. QED BY <3>1
  <2>7. QED BY <1>2, <2>1, <2>3, <2>4, <2>5, <2>6 DEF xy, py
<1>6. QED BY <1>4, <1>5 DEF c

LEMMA NextPowmod == PowmodInv /\ [P!Next]_(P!vars) => PowmodInv'
<1>1. SUFFICES ASSUME PowmodInv, [P!Next]_(P!vars) PROVE PowmodInv'
  OBVIOUS
<1>2. ResidueInv'
  BY <1>1, NextResidues DEF PowmodInv
<1>3. SUFFICES PowerInv'
  BY <1>2 DEF PowmodInv
<1>4. /\ local1 \in Nat /\ local2 \in Nat /\ param2 \in Nat /\ arg1 \in Nat /\ arg2 \in Nat
      /\ arg3 \in Nat /\ (P!Fits => arg3 # 0)
      /\ WordSize \in Nat \ {0}
  BY <1>1, PowModAssumption DEF PowmodInv, ResidueInv, P!TypeOK, P!Fits
<1>5. ASSUME P!Fits, pc = "loop"
      PROVE  P!Times(local1, local2) = local1 * local2 /\ P!Times(local2, local2) = local2 * local2
  <2>1. local1 * local2 < WordSize /\ local2 * local2 < WordSize
    BY <1>1, <1>5, ResiduesGiveExact DEF PowmodInv, P!ProductsExact
  <2>2. local1 * local2 \in Nat /\ local2 * local2 \in Nat
    BY <1>4
  <2>3. \A v \in Nat : v < WordSize => v % WordSize = v
    BY <1>4
  <2>4. QED BY <2>1, <2>2, <2>3 DEF P!Times
<1>6. P!Fits => (local1 * P!ModPower(local2, param2, arg3)) % arg3 = P!ModPower(arg1, arg2, arg3)
  BY <1>1 DEF PowmodInv, PowerInv
<1>7. CASE P!MultiplyAndSquare
  <2>1. /\ pc = "loop" /\ pc' = "loop" /\ param2 % 2 = 1 /\ arg3 # 0
        /\ local1' = P!Times(local1, local2) % arg3 /\ local2' = P!Times(local2, local2) % arg3
        /\ param2' = param2 \div 2 /\ arg1' = arg1 /\ arg2' = arg2 /\ arg3' = arg3
    BY <1>7 DEF P!MultiplyAndSquare
  <2>2. ASSUME P!Fits
        PROVE  (local1' * P!ModPower(local2', param2', arg3)) % arg3 = P!ModPower(arg1, arg2, arg3)
    <3>1. local1' = (local1 * local2) % arg3 /\ local2' = (local2 * local2) % arg3
      BY <1>5, <2>1, <2>2
    <3>2. (((local1 * local2) % arg3)
             * P!ModPower((local2 * local2) % arg3, param2 \div 2, arg3)) % arg3
            = (local1 * P!ModPower(local2, param2, arg3)) % arg3
      BY <1>4, <2>1, PassKeepsPower
    <3>3. QED BY <3>1, <3>2, <2>1, <2>2, <1>6
  <2>3. arg3 = 1 => local1' = 0
    <3>1. P!Times(local1, local2) \in Nat
      BY <1>4, TimesIsNat
    <3>2. QED BY <2>1, <3>1
  <2>4. P!Fits' <=> P!Fits
    BY <2>1 DEF P!Fits
  <2>5. QED BY <2>1, <2>2, <2>3, <2>4 DEF PowerInv
<1>8. CASE P!SquareOnly
  <2>1. /\ pc = "loop" /\ pc' = "loop" /\ param2 > 0 /\ param2 % 2 = 0 /\ arg3 # 0
        /\ local1' = local1 /\ local2' = P!Times(local2, local2) % arg3
        /\ param2' = param2 \div 2 /\ arg1' = arg1 /\ arg2' = arg2 /\ arg3' = arg3
    BY <1>8 DEF P!SquareOnly
  <2>2. ASSUME P!Fits
        PROVE  (local1' * P!ModPower(local2', param2', arg3)) % arg3 = P!ModPower(arg1, arg2, arg3)
    <3>1. local2' = (local2 * local2) % arg3
      BY <1>5, <2>1, <2>2
    <3>2. (local1 * P!ModPower((local2 * local2) % arg3, param2 \div 2, arg3)) % arg3
            = (local1 * P!ModPower(local2, param2, arg3)) % arg3
      BY <1>4, <2>1, PassKeepsPower
    <3>3. QED BY <3>1, <3>2, <2>1, <2>2, <1>6
  <2>3. param2' > 0
    BY <1>4, <2>1
  <2>4. P!Fits' <=> P!Fits
    BY <2>1 DEF P!Fits
  <2>5. QED BY <2>1, <2>2, <2>3, <2>4 DEF PowerInv
<1>9. CASE P!ReduceByZero
  BY <1>1, <1>9 DEF P!ReduceByZero, PowmodInv, PowerInv, P!Fits
<1>10. CASE P!ExitLoop
  BY <1>1, <1>10 DEF P!ExitLoop, PowmodInv, PowerInv, P!Fits
<1>11. CASE UNCHANGED P!vars
  BY <1>1, <1>11 DEF P!vars, PowmodInv, PowerInv, P!Fits
<1>12. QED
  BY <1>1, <1>7, <1>8, <1>9, <1>10, <1>11 DEF P!Next

LEMMA PowmodInvGivesPower == PowmodInv => P!PowerCorrect
<1>1. SUFFICES ASSUME PowmodInv, pc = "done", P!Fits, ~ (arg2 = 0 /\ arg3 = 1)
               PROVE  local1 = P!ModPower(arg1, arg2, arg3)
  BY DEF P!PowerCorrect
<1>2. /\ arg1 \in Nat /\ arg2 \in Nat /\ arg3 \in Nat \ {0} /\ local2 \in Nat /\ param2 = 0
      /\ local1 \in 0..(arg3 - 1) \cup {1}
      /\ arg3 = 1 => local1 = 0
  BY <1>1, PowModAssumption DEF PowmodInv, ResidueInv, PowerInv, P!TypeOK, P!Fits
<1>3. (local1 * (1 % arg3)) % arg3 = P!ModPower(arg1, arg2, arg3)
  BY <1>1, <1>2, PowerOfZero DEF PowmodInv, PowerInv
<1>4. CASE arg3 = 1
  BY <1>2, <1>3, <1>4
<1>5. CASE arg3 # 1
  <2>1. 1 % arg3 = 1 /\ local1 \in 0..(arg3 - 1)
    BY <1>2, <1>5
  <2>2. local1 * 1 = local1 /\ local1 % arg3 = local1
    BY <1>2, <2>1
  <2>3. QED BY <1>3, <2>1, <2>2
<1>6. QED BY <1>4, <1>5

LEMMA PowmodInvGivesKept == PowmodInv => P!PowerKept
<1>1. SUFFICES ASSUME PowmodInv, P!Fits
               PROVE  (local1 * P!ModPower(local2, param2, arg3) - P!ModPower(arg1, arg2, arg3)) % arg3 = 0
  BY DEF P!PowerKept, P!Congruent
<1> DEFINE u == local1 * P!ModPower(local2, param2, arg3)
           w == P!ModPower(arg1, arg2, arg3)
<1>2. /\ arg3 \in Nat \ {0} /\ local1 \in Nat /\ local2 \in Nat /\ param2 \in Nat
      /\ arg1 \in Nat /\ arg2 \in Nat
  BY <1>1, PowModAssumption DEF PowmodInv, ResidueInv, P!TypeOK, P!Fits
<1>3. u \in Nat /\ w \in Nat
  <2>1. P!ModPower(local2, param2, arg3) \in 0..(arg3 - 1)
    BY <1>2, PowerRange
  <2>2. P!ModPower(arg1, arg2, arg3) \in 0..(arg3 - 1)
    BY <1>2, PowerRange
  <2>3. P!ModPower(local2, param2, arg3) \in Nat /\ w \in Nat
    BY <1>2, <2>1, <2>2
  <2>4. QED BY <1>2, <2>3
<1>4. u % arg3 = w
  BY <1>1 DEF PowmodInv, PowerInv
<1> HIDE DEF u, w
<1>5. u - w = (u \div arg3) * arg3 /\ u \div arg3 \in Int
  BY <1>2, <1>3, <1>4
<1>6. (u - w) % arg3 = 0
  BY <1>2, <1>5, MultipleIsCongruentToZero
<1>7. QED BY <1>6 DEF u, w

-------------------------------------------------------------------------------
(* getprime: what the sieve has passed is exact, and the search has met no  *)
(* prime before it stops.                                                   *)

SieveInv == pc = "sieve" => param2 >= 2 /\ param1 \in 5..MAX_NUMBERS

(* The two indices are equally far from n, except that the upper one stays  *)
(* at the end of the table, and there is no prime between them.             *)
SearchInv ==
  pc = "search" =>
    /\ param1 \in 5..MAX_NUMBERS /\ local1 \in 2..param1 /\ local2 \in param1..MAX_NUMBERS
    /\ local2 = param1 + (param1 - local1) \/ (local2 = MAX_NUMBERS /\ param1 + (param1 - local1) >= MAX_NUMBERS)
    /\ \A k \in 2..(MAX_NUMBERS - 1) : local1 < k /\ k < local2 => ~ IsPrime(k)

(* What is left halfway through the sieve, the table outside the sieve and   *)
(* the value returned, as PrimeTable states them.                          *)
TableSifted ==
  pc = "sieve" =>
    \A k \in 2..(MAX_NUMBERS - 1) :
       primes[k] = 1 <=> \A d \in 2..(param2 - 1) : Divides(d, k) => d = k

TableUnfilled == \A k \in T!Table : primes[k] = 0
TableExact == \A k \in 2..(MAX_NUMBERS - 1) : primes[k] = 1 <=> IsPrime(k)
TableExactOrUnfilled ==
  /\ pc = "search" => TableExact
  /\ pc \in {"idle", "done"} => TableExact \/ TableUnfilled

ClosestReturned ==
  pc = "done" /\ param1 <= MAX_NUMBERS /\ (WithinReach(param1, MAX_NUMBERS) \/ ~ beyond)
    => IsClosest(ret, param1, MAX_NUMBERS)

TableInv == T!TypeOK /\ TableSifted /\ TableExactOrUnfilled /\ SieveInv /\ SearchInv /\ ClosestReturned

-------------------------------------------------------------------------------
LEMMA SmallPrimes == IsPrime(2) /\ IsPrime(3) /\ ~ IsPrime(4)
<1>1. IsPrime(2)
  BY DEF IsPrime
<1>2. IsPrime(3)
  <2>1. ~ Divides(2, 3)
    <3>1. SUFFICES ASSUME NEW q \in 0..3, 3 = 2 * q PROVE FALSE
      BY DEF Divides
    <3>2. QED BY <3>1
  <2>2. \A d \in 2..(3 - 1) : d = 2
    OBVIOUS
  <2>3. QED BY <2>1, <2>2 DEF IsPrime
<1>3. Divides(2, 4)
  <2>1. 4 = 2 * 2
    OBVIOUS
  <2>2. QED BY <2>1, DividesIsMultiple
<1>4. QED BY <1>1, <1>2, <1>3 DEF IsPrime

-------------------------------------------------------------------------------
LEMMA InitTable == T!Init => TableInv
<1>1. SUFFICES ASSUME T!Init PROVE TableInv
  OBVIOUS
<1>2. MAX_NUMBERS \in Nat /\ MAX_NUMBERS > 5 /\ MaxCalls \in Nat
  BY PrimeTableAssumption
<1>3. T!TypeOK
  BY <1>1, <1>2 DEF T!Init, T!TypeOK
<1>4. TableUnfilled
  BY <1>1 DEF T!Init, TableUnfilled
<1>5. QED
  BY <1>1, <1>3, <1>4 DEF T!Init, TableInv, TableSifted, TableExactOrUnfilled, SieveInv, SearchInv, ClosestReturned

(* One pass of the outer loop, over a number i that is still marked.        *)
LEMMA CrossOutSifts ==
  ASSUME TableInv, T!CrossOut
  PROVE  TableSifted'
<1>1. /\ MAX_NUMBERS \in Nat /\ param2 \in 2..(MAX_NUMBERS - 1) /\ primes[param2] = 1
      /\ primes \in [T!Table -> {0, 1}] /\ param2' = param2 + 1
      /\ \A k \in 2..(MAX_NUMBERS - 1) :
            primes[k] = 1 <=> \A d \in 2..(param2 - 1) : Divides(d, k) => d = k
      /\ primes' = [k \in T!Table |-> IF k >= param2 * param2 /\ Divides(param2, k) THEN 0 ELSE primes[k]]
  BY PrimeTableAssumption DEF TableInv, T!TypeOK, TableSifted, SieveInv, T!CrossOut, T!Divides, Divides
<1>2. SUFFICES ASSUME NEW k \in 2..(MAX_NUMBERS - 1)
               PROVE  primes'[k] = 1 <=> \A d \in 2..param2 : Divides(d, k) => d = k
  <2>1. 2..(param2' - 1) = 2..param2
    BY <1>1
  <2>2. QED BY <2>1 DEF TableSifted
<1>3. k \in T!Table /\ k \in Nat \ {0}
  BY <1>1 DEF T!Table
<1>4. primes'[k] = IF k >= param2 * param2 /\ Divides(param2, k) THEN 0 ELSE primes[k]
  BY <1>1, <1>3
<1>5. (\A d \in 2..param2 : Divides(d, k) => d = k)
        <=> primes[k] = 1 /\ (Divides(param2, k) => param2 = k)
  <2>1. \A d \in 2..param2 : d \in 2..(param2 - 1) \/ d = param2
    BY <1>1
  <2>2. param2 \in 2..param2 /\ \A d \in 2..(param2 - 1) : d \in 2..param2
    BY <1>1
  <2>3. QED BY <1>1, <2>1, <2>2
<1>6. CASE ~ Divides(param2, k)
  BY <1>4, <1>5, <1>6
<1>7. CASE Divides(param2, k)
  <2>1. PICK j \in Nat : k = param2 * j
    BY <1>1, <1>3, <1>7, DividesIsMultiple
  <2>2. CASE j >= param2
    <3>1. param2 * j >= param2 * param2
      BY <1>1, <2>2
    <3>2. param2 * j > param2
      BY <1>1, <2>2
    <3>3. QED BY <1>4, <1>5, <1>7, <2>1, <3>1, <3>2
  <2>3. CASE j = 1
    <3>1. k = param2 /\ param2 * param2 > param2
      BY <1>1, <2>1, <2>3
    <3>2. QED BY <1>1, <1>4, <1>5, <3>1
  <2>4. CASE j > 1 /\ j < param2
    <3>1. k = j * param2 /\ param2 \in Nat
      BY <1>1, <2>1
    <3>2. Divides(j, k)
      BY <1>3, <3>1, DividesIsMultiple
    <3>3. j # k
      BY <1>1, <2>1, <2>4
    <3>4. j \in 2..(param2 - 1)
      BY <1>1, <2>4
    <3>5. primes[k] # 1
      BY <1>1, <3>2, <3>3, <3>4
    <3>6. QED BY <1>4, <1>5, <3>5
  <2>5. j # 0
    BY <1>3, <1>1, <2>1
  <2>6. QED BY <1>1, <2>2, <2>3, <2>4, <2>5
<1>8. QED BY <1>6, <1>7

(* A pass over a number that is crossed out loses nothing: whatever it      *)
(* divides was crossed out together with it.                                *)
LEMMA SkipCompositeSifts ==
  ASSUME TableInv, T!SkipComposite
  PROVE  TableSifted'
<1>1. /\ MAX_NUMBERS \in Nat /\ param2 \in 2..(MAX_NUMBERS - 1) /\ primes[param2] = 0
      /\ param2' = param2 + 1 /\ primes' = primes
      /\ \A k \in 2..(MAX_NUMBERS - 1) :
            primes[k] = 1 <=> \A d \in 2..(param2 - 1) : Divides(d, k) => d = k
  BY PrimeTableAssumption DEF TableInv, T!TypeOK, TableSifted, SieveInv, T!SkipComposite
<1>2. SUFFICES ASSUME NEW k \in 2..(MAX_NUMBERS - 1), primes[k] = 1, Divides(param2, k)
               PROVE  param2 = k
  <2>1. \A d \in 2..param2 : d \in 2..(param2 - 1) \/ d = param2
    BY <1>1
  <2>2. \A d \in 2..(param2 - 1) : d \in 2..param2
    BY <1>1
  <2>3. QED BY <1>1, <2>1, <2>2 DEF TableSifted
<1>3. PICK c \in 2..(param2 - 1) : Divides(c, param2) /\ c # param2
  BY <1>1
<1>4. Divides(c, k)
  BY <1>1, <1>2, <1>3, DividesTransitive
<1>5. c = k
  BY <1>1, <1>2, <1>3, <1>4
<1>6. param2 <= k
  BY <1>1, <1>2, DivisorIsSmaller
<1>7. QED BY <1>1, <1>3, <1>5, <1>6

(* Once every number has been passed the table is exact. *)
LEMMA SiftedIsExact ==
  ASSUME TableInv, pc = "sieve", param2 >= MAX_NUMBERS
  PROVE  TableExact
<1>1. /\ MAX_NUMBERS \in Nat /\ param2 = MAX_NUMBERS
      /\ \A k \in 2..(MAX_NUMBERS - 1) :
            primes[k] = 1 <=> \A d \in 2..(param2 - 1) : Divides(d, k) => d = k
  BY PrimeTableAssumption DEF TableInv, T!TypeOK, TableSifted
<1>2. SUFFICES ASSUME NEW k \in 2..(MAX_NUMBERS - 1)
               PROVE  primes[k] = 1 <=> IsPrime(k)
  BY DEF TableExact
<1>3. (\A d \in 2..(param2 - 1) : Divides(d, k) => d = k)
        <=> \A d \in 2..(k - 1) : ~ Divides(d, k)
  <2>1. ASSUME \A d \in 2..(param2 - 1) : Divides(d, k) => d = k, NEW d \in 2..(k - 1)
        PROVE  ~ Divides(d, k)
    <3>1. d \in 2..(param2 - 1) /\ d # k
      BY <1>1
    <3>2. QED BY <2>1, <3>1
  <2>2. ASSUME \A d \in 2..(k - 1) : ~ Divides(d, k), NEW d \in 2..(param2 - 1), Divides(d, k)
        PROVE  d = k
    <3>1. d \in 1..k
      BY <1>1, <2>2, DivisorIsSmaller
    <3>2. QED BY <1>1, <2>2, <3>1
  <2>3. QED BY <2>1, <2>2
<1>4. QED BY <1>1, <1>2, <1>3 DEF IsPrime

-------------------------------------------------------------------------------
(* The calls that need no table. *)
LEMMA SmallAnswers ==
  ASSUME NEW m \in 0..4
  PROVE  IsClosest(IF m > 2 THEN 3 ELSE 2, m, MAX_NUMBERS)
<1>1. MAX_NUMBERS \in Nat /\ MAX_NUMBERS > 5
  BY PrimeTableAssumption
<1>2. CASE m > 2
  <2>1. \A k \in 2..(MAX_NUMBERS - 1) :
          k # 4 => \/ Distance(3, m) < Distance(k, m)
                   \/ Distance(3, m) = Distance(k, m) /\ 3 <= k
    BY <1>2 DEF Distance
  <2>2. QED BY <1>1, <1>2, <2>1, SmallPrimes DEF IsClosest
<1>3. CASE m <= 2
  <2>1. \A k \in 2..(MAX_NUMBERS - 1) :
          \/ Distance(2, m) < Distance(k, m)
          \/ Distance(2, m) = Distance(k, m) /\ 2 <= k
    BY <1>3 DEF Distance
  <2>2. QED BY <1>1, <1>3, <2>1, SmallPrimes DEF IsClosest
<1>4. QED BY <1>2, <1>3

(* Moving both indices on passes over no prime, and the lower one stops at  *)
(* 2 at the latest, where the table is set.                                 *)
LEMMA WidenKeepsSearchInv ==
  ASSUME TableInv, T!Widen
  PROVE  SearchInv'
<1>1. /\ MAX_NUMBERS \in Nat /\ MAX_NUMBERS > 5
      /\ param1 \in 5..MAX_NUMBERS /\ local1 \in 2..param1 /\ local2 \in param1..MAX_NUMBERS
      /\ local2 = param1 + (param1 - local1) \/ (local2 = MAX_NUMBERS /\ param1 + (param1 - local1) >= MAX_NUMBERS)
      /\ \A k \in 2..(MAX_NUMBERS - 1) : local1 < k /\ k < local2 => ~ IsPrime(k)
      /\ TableExact /\ pc = "search"
  BY PrimeTableAssumption DEF TableInv, SearchInv, TableExactOrUnfilled, T!Widen
<1>2. /\ ~ T!Flag(local1) /\ ~ T!Flag(local2) /\ param1' = param1
      /\ local1' = (IF local1 > 2 THEN local1 - 1 ELSE local1)
      /\ local2' = (IF local2 < MAX_NUMBERS THEN local2 + 1 ELSE local2)
  BY DEF T!Widen
<1>3. \A k \in 2..(MAX_NUMBERS - 1) : ~ T!Flag(k) <=> ~ IsPrime(k)
  BY <1>1 DEF T!Flag, TableExact, T!Table
<1>4. local1 > 2
  BY <1>1, <1>2, <1>3, SmallPrimes
<1>5. /\ local1' \in 2..param1 /\ local2' \in param1..MAX_NUMBERS
      /\ local2' = param1 + (param1 - local1') \/ (local2' = MAX_NUMBERS /\ param1 + (param1 - local1') >= MAX_NUMBERS)
  BY <1>1, <1>2, <1>4
<1>6. \A k \in 2..(MAX_NUMBERS - 1) : local1' < k /\ k < local2' => ~ IsPrime(k)
  <2>1. SUFFICES ASSUME NEW k \in 2..(MAX_NUMBERS - 1), local1' < k, k < local2'
                 PROVE  ~ IsPrime(k)
    OBVIOUS
  <2>2. k = local1 \/ k = local2 \/ (local1 < k /\ k < local2)
    BY <1>1, <1>2, <1>4, <2>1
  <2>3. QED BY <1>1, <1>2, <1>3, <2>2
<1>7. QED BY <1>1, <1>2, <1>5, <1>6 DEF SearchInv

(* What the search returns. *)
LEMMA FoundIsClosest ==
  ASSUME TableInv, T!Found, WithinReach(param1, MAX_NUMBERS) \/ ~ beyond
  PROVE  IsClosest(ret', param1, MAX_NUMBERS)
<1>1. /\ MAX_NUMBERS \in Nat /\ MAX_NUMBERS > 5
      /\ param1 \in 5..MAX_NUMBERS /\ local1 \in 2..param1 /\ local2 \in param1..MAX_NUMBERS
      /\ local2 = param1 + (param1 - local1) \/ (local2 = MAX_NUMBERS /\ param1 + (param1 - local1) >= MAX_NUMBERS)
      /\ \A k \in 2..(MAX_NUMBERS - 1) : local1 < k /\ k < local2 => ~ IsPrime(k)
      /\ TableExact
  BY PrimeTableAssumption DEF TableInv, SearchInv, TableExactOrUnfilled, T!Found
<1>2. (T!Flag(local1) \/ T!Flag(local2)) /\ ret' = IF T!Flag(local1) THEN local1 ELSE local2
  BY DEF T!Found
<1>3. /\ \A k \in 2..(MAX_NUMBERS - 1) : T!Flag(k) <=> IsPrime(k)
      /\ T!Flag(MAX_NUMBERS) <=> beyond
  BY <1>1 DEF T!Flag, TableExact, T!Table
<1>4. \A k \in 2..(MAX_NUMBERS - 1) : IsPrime(k) => Distance(k, param1) >= param1 - local1
  <2>1. SUFFICES ASSUME NEW k \in 2..(MAX_NUMBERS - 1), IsPrime(k), Distance(k, param1) < param1 - local1
                 PROVE  FALSE
    BY <1>1 DEF Distance
  <2>2. local1 < k /\ k < local2
    BY <1>1, <2>1 DEF Distance
  <2>3. QED BY <1>1, <2>1, <2>2
<1>5. ret' # MAX_NUMBERS
  <2>1. SUFFICES ASSUME ret' = MAX_NUMBERS PROVE FALSE
    OBVIOUS
  <2>2. beyond /\ param1 + (param1 - local1) >= MAX_NUMBERS
    BY <1>1, <1>2, <1>3, <2>1
  <2>3. PICK k \in 2..(MAX_NUMBERS - 1) : IsPrime(k) /\ param1 + Distance(k, param1) <= MAX_NUMBERS
    BY <2>2 DEF WithinReach
  <2>4. Distance(k, param1) >= param1 - local1 /\ Distance(k, param1) \in Int
    BY <1>1, <1>4, <2>3 DEF Distance
  <2>5. Distance(k, param1) = param1 - local1 /\ param1 + (param1 - local1) = MAX_NUMBERS
    BY <1>1, <2>2, <2>3, <2>4
  <2>6. k = local1
    BY <1>1, <2>5 DEF Distance
  <2>7. QED BY <1>1, <1>2, <1>3, <2>1, <2>3, <2>6
<1>6. ret' \in 2..(MAX_NUMBERS - 1) /\ IsPrime(ret') /\ Distance(ret', param1) = param1 - local1
  BY <1>1, <1>2, <1>3, <1>5 DEF Distance
<1>7. \A k \in 2..(MAX_NUMBERS - 1) :
        IsPrime(k) /\ Distance(k, param1) = param1 - local1 => ret' <= k
  <2>1. SUFFICES ASSUME NEW k \in 2..(MAX_NUMBERS - 1), IsPrime(k),
                        Distance(k, param1) = param1 - local1, k < ret'
                 PROVE  FALSE
    BY <1>6
  <2>2. k = local1
    BY <1>1, <1>2, <1>6, <2>1 DEF Distance
  <2>3. QED BY <1>2, <1>3, <2>1, <2>2
<1>8. \A k \in 2..(MAX_NUMBERS - 1) : Distance(k, param1) \in Int
  BY <1>1 DEF Distance
<1>9. QED BY <1>1, <1>4, <1>6, <1>7, <1>8 DEF IsClosest

-------------------------------------------------------------------------------
LEMMA NextTableTypes == TableInv /\ [T!Next]_(T!vars) => T!TypeOK'
<1>1. SUFFICES ASSUME TableInv, [T!Next]_(T!vars) PROVE T!TypeOK'
  OBVIOUS
<1>2. MAX_NUMBERS \in Nat /\ MAX_NUMBERS > 5 /\ MaxCalls \in Nat /\ Numbers \subseteq Nat
  BY PrimeTableAssumption
<1> USE DEF TableInv, T!TypeOK
<1>3. CASE T!CallOutOfRange
  BY <1>1, <1>2, <1>3 DEF T!CallOutOfRange, T!MayCall
<1>4. CASE T!CallSmall
  BY <1>1, <1>2, <1>4 DEF T!CallSmall, T!MayCall
<1>5. CASE T!CallSieve
  BY <1>1, <1>2, <1>5 DEF T!CallSieve, T!MayCall
<1>6. CASE T!CrossOut
  BY <1>1, <1>2, <1>6 DEF T!CrossOut
<1>7. CASE T!SkipComposite
  BY <1>1, <1>2, <1>7 DEF T!SkipComposite
<1>8. CASE T!StartSearch
  BY <1>1, <1>2, <1>8 DEF T!StartSearch, SieveInv
<1>9. CASE T!Widen
  BY <1>1, <1>2, <1>9 DEF T!Widen
<1>10. CASE T!Found
  BY <1>1, <1>2, <1>10 DEF T!Found
<1>11. CASE UNCHANGED T!vars
  BY <1>1, <1>11 DEF T!vars
<1>12. QED
  BY <1>1, <1>3, <1>4, <1>5, <1>6, <1>7, <1>8, <1>9, <1>10, <1>11 DEF T!Next, T!Call, T!Run

LEMMA NextTable == TableInv /\ [T!Next]_(T!vars) => TableInv'
<1>1. SUFFICES ASSUME TableInv, [T!Next]_(T!vars) PROVE TableInv'
  OBVIOUS
<1>2. T!TypeOK'
  BY <1>1, NextTableTypes
<1>3. /\ MAX_NUMBERS \in Nat /\ MAX_NUMBERS > 5 /\ Numbers \subseteq Nat
      /\ T!TypeOK /\ TableSifted /\ TableExactOrUnfilled /\ SieveInv /\ SearchInv /\ ClosestReturned
  BY <1>1, PrimeTableAssumption DEF TableInv
<1>4. CASE T!CallOutOfRange
  <2>1. param1' > MAX_NUMBERS /\ param1' \in Nat
    BY <1>3, <1>4 DEF T!CallOutOfRange
  <2>2. TableExactOrUnfilled'
    BY <1>3, <1>4 DEF T!CallOutOfRange, T!MayCall, TableExactOrUnfilled, TableExact, TableUnfilled
  <2>3. QED
    BY <1>2, <1>3, <1>4, <2>1, <2>2
    DEF T!CallOutOfRange, TableInv, TableSifted, SieveInv, SearchInv, ClosestReturned
<1>5. CASE T!CallSmall
  <2>1. param1' \in 0..4 /\ ret' = (IF param1' > 2 THEN 3 ELSE 2)
    BY <1>3, <1>5 DEF T!CallSmall
  <2>2. IsClosest(ret', param1', MAX_NUMBERS)
    BY <2>1, SmallAnswers
  <2>3. ClosestReturned'
    BY <2>2 DEF ClosestReturned
  <2>4. TableExactOrUnfilled'
    BY <1>3, <1>5 DEF T!CallSmall, T!MayCall, TableExactOrUnfilled, TableExact, TableUnfilled
  <2>5. QED
    BY <1>2, <1>5, <2>3, <2>4 DEF T!CallSmall, TableInv, TableSifted, SieveInv, SearchInv
<1>6. CASE T!CallSieve
  <2>1. TableSifted'
    BY <1>3, <1>6 DEF T!CallSieve, TableSifted, T!Table
  <2>2. QED
    BY <1>2, <1>3, <1>6, <2>1
    DEF T!CallSieve, TableInv, TableExactOrUnfilled, SieveInv, SearchInv, ClosestReturned
<1>7. CASE T!CrossOut
  <2>1. TableSifted'
    BY <1>1, <1>7, CrossOutSifts
  <2>2. SieveInv'
    BY <1>3, <1>7 DEF T!CrossOut, SieveInv, T!TypeOK
  <2>3. QED
    BY <1>2, <1>7, <2>1, <2>2
    DEF T!CrossOut, TableInv, TableExactOrUnfilled, SearchInv, ClosestReturned
<1>8. CASE T!SkipComposite
  <2>1. TableSifted'
    BY <1>1, <1>8, SkipCompositeSifts
  <2>2. SieveInv'
    BY <1>3, <1>8 DEF T!SkipComposite, SieveInv, T!TypeOK
  <2>3. QED
    BY <1>2, <1>8, <2>1, <2>2
    DEF T!SkipComposite, TableInv, TableExactOrUnfilled, SearchInv, ClosestReturned
<1>9. CASE T!StartSearch
  <2>1. TableExact
    BY <1>1, <1>9, SiftedIsExact DEF T!StartSearch
  <2>2. TableExactOrUnfilled'
    BY <2>1, <1>9 DEF T!StartSearch, TableExactOrUnfilled, TableExact
  <2>3. SearchInv'
    BY <1>3, <1>9 DEF T!StartSearch, SearchInv, SieveInv
  <2>4. QED
    BY <1>2, <1>9, <2>2, <2>3 DEF T!StartSearch, TableInv, TableSifted, SieveInv, ClosestReturned
<1>10. CASE T!Widen
  <2>1. SearchInv'
    BY <1>1, <1>10, WidenKeepsSearchInv
  <2>2. TableExactOrUnfilled'
    BY <1>3, <1>10 DEF T!Widen, TableExactOrUnfilled, TableExact
  <2>3. QED
    BY <1>2, <1>10, <2>1, <2>2 DEF T!Widen, TableInv, TableSifted, SieveInv, ClosestReturned
<1>11. CASE T!Found
  <2>1. WithinReach(param1, MAX_NUMBERS) \/ ~ beyond => IsClosest(ret', param1, MAX_NUMBERS)
    BY <1>1, <1>11, FoundIsClosest
  <2>2. param1' = param1 /\ beyond' = beyond /\ pc' = "done" /\ primes' = primes /\ pc = "search"
    BY <1>11 DEF T!Found
  <2>3. ClosestReturned'
    BY <2>1, <2>2 DEF ClosestReturned
  <2>4. TableExactOrUnfilled'
    BY <1>3, <2>2 DEF TableExactOrUnfilled, TableExact
  <2>5. QED
    BY <1>2, <2>2, <2>3, <2>4 DEF TableInv, TableSifted, SieveInv, SearchInv
<1>12. CASE UNCHANGED T!vars
  BY <1>2, <1>3, <1>12
  DEF T!vars, TableInv, TableSifted, TableExactOrUnfilled, TableExact, TableUnfilled, SieveInv, SearchInv, ClosestReturned
<1>13. QED
  BY <1>1, <1>4, <1>5, <1>6, <1>7, <1>8, <1>9, <1>10, <1>11, <1>12 DEF T!Next, T!Call, T!Run

LEMMA TableInvGivesExact == TableInv => T!ExactOrUnfilled
  BY PrimeReading DEF TableInv, TableExactOrUnfilled, TableExact, TableUnfilled,
     T!ExactOrUnfilled, T!Exact, T!Unfilled

LEMMA TableInvGivesClosest == TableInv => T!ClosestPrime
  BY ClosestReading DEF TableInv, ClosestReturned, T!ClosestPrime

-------------------------------------------------------------------------------
(* The four functions share the frame: the invariant is the invariant of    *)
(* the function that was called.                                            *)
FrameInv ==
  /\ function \in {"GCD", "inverse", "powmod", "getprime"}
  /\ function = "GCD" => GcdInv
  /\ function = "inverse" => InverseInv
  /\ function = "powmod" => PowmodInv
  /\ function = "getprime" => TableInv

LEMMA InitFrame == Init => FrameInv
<1>1. SUFFICES ASSUME Init PROVE FrameInv
  OBVIOUS
<1>2. CASE function = "GCD" /\ CallGCD
  BY <1>2, InitGcd DEF CallGCD, FrameInv
<1>3. CASE function = "inverse" /\ CallInverse
  BY <1>3, InitInverse DEF CallInverse, FrameInv
<1>4. CASE function = "powmod" /\ CallPowmod
  BY <1>4, InitPowmod DEF CallPowmod, FrameInv
<1>5. CASE function = "getprime" /\ T!Init
  BY <1>5, InitTable DEF FrameInv
<1>6. QED BY <1>1, <1>2, <1>3, <1>4, <1>5 DEF Init

LEMMA NextFrame == FrameInv /\ [Next]_vars => FrameInv'
<1>1. SUFFICES ASSUME FrameInv, [Next]_vars PROVE FrameInv'
  OBVIOUS
<1>2. CASE RunGCD
  <2>1. function = "GCD" /\ function' = "GCD" /\ G!Next
    BY <1>2 DEF RunGCD
  <2>2. GcdInv'
    BY <1>1, <2>1, NextGcd DEF FrameInv
  <2>3. QED BY <2>1, <2>2 DEF FrameInv
<1>3. CASE RunInverse
  <2>1. function = "inverse" /\ function' = "inverse" /\ I!Next
    BY <1>3 DEF RunInverse
  <2>2. InverseInv'
    BY <1>1, <2>1, NextInverse DEF FrameInv
  <2>3. QED BY <2>1, <2>2 DEF FrameInv
<1>4. CASE RunPowmod
  <2>1. function = "powmod" /\ function' = "powmod" /\ P!Next
    BY <1>4 DEF RunPowmod
  <2>2. PowmodInv'
    BY <1>1, <2>1, NextPowmod DEF FrameInv
  <2>3. QED BY <2>1, <2>2 DEF FrameInv
<1>5. CASE CallAgain \/ RunTable
  <2>1. function = "getprime" /\ function' = "getprime" /\ T!Next
    BY <1>5 DEF CallAgain, RunTable, T!Next
  <2>2. TableInv'
    BY <1>1, <2>1, NextTable DEF FrameInv
  <2>3. QED BY <2>1, <2>2 DEF FrameInv
<1>6. CASE UNCHANGED vars
  <2>1. /\ function' = function
        /\ UNCHANGED G!vars /\ UNCHANGED I!vars /\ UNCHANGED P!vars /\ UNCHANGED T!vars
    BY <1>6 DEF vars, frame, static, G!vars, I!vars, P!vars, T!vars
  <2>2. QED BY <1>1, <2>1, NextGcd, NextInverse, NextPowmod, NextTable DEF FrameInv
<1>7. QED BY <1>1, <1>2, <1>3, <1>4, <1>5, <1>6 DEF Next

LEMMA FrameInvariant == Spec => []FrameInv
  BY InitFrame, NextFrame, PTL DEF Spec

(* Whatever the functions are called with, their variables keep their       *)
(* types: no subtraction of GCD wraps around, no cofactor of inverse leaves *)
(* the range of an int, x and y of powmod are residues, and findClosest     *)
(* reads at most one byte behind the table.                                 *)
THEOREM FramesTyped ==
  Spec => []( /\ function = "GCD" => G!TypeOK
              /\ function = "inverse" => I!TypeOK
              /\ function = "powmod" => P!TypeOK
              /\ function = "getprime" => T!TypeOK )
<1>1. FrameInv => ( /\ function = "GCD" => G!TypeOK
                    /\ function = "inverse" => I!TypeOK
                    /\ function = "powmod" => P!TypeOK
                    /\ function = "getprime" => T!TypeOK )
  BY InverseInvGivesTypes DEF FrameInv, GcdInv, PowmodInv, ResidueInv, TableInv
<1>2. QED BY <1>1, FrameInvariant, PTL

(* GCD returns the greatest common divisor, whatever its arguments.         *)
THEOREM GCDIsCorrect == Spec => []GCDCorrect
<1>1. FrameInv => GCDCorrect
  BY GcdInvGivesGCD DEF FrameInv, GCDCorrect
<1>2. QED BY <1>1, FrameInvariant, PTL

(* For every totient and every exponent an int can hold, the cofactors of   *)
(* inverse and the products that make them stay in the range of an int.     *)
THEOREM InverseNeverOverflows == Spec => []CofactorsTied
<1>1. FrameInv => CofactorsTied
  BY DEF FrameInv, InverseInv, CofactorsTied
<1>2. QED BY <1>1, FrameInvariant, PTL

(* What inverse returns is the inverse of e modulo phi in 1..phi-1, and it  *)
(* divides by zero only when there is none.                                 *)
THEOREM InverseIsCorrect == Spec => []InverseCorrect
<1>1. FrameInv => InverseCorrect
  BY InverseInvGivesInverse, InverseInvGivesTrap DEF FrameInv, InverseCorrect
<1>2. QED BY <1>1, FrameInvariant, PTL

(* For every word size, a call of powmod whose base and residues have       *)
(* squares that fit in a word forms no product a word cuts off.             *)
THEOREM PowmodIsExact == Spec => []ProductsExact
<1>1. FrameInv => ProductsExact
  BY ResiduesGiveExact DEF FrameInv, PowmodInv, ProductsExact
<1>2. QED BY <1>1, FrameInvariant, PTL

(* Such a call returns the power, for every base, exponent and modulus.     *)
THEOREM PowmodIsCorrect == Spec => []PowerCorrect
<1>1. FrameInv => PowerCorrect
  BY PowmodInvGivesPower DEF FrameInv, PowerCorrect
<1>2. QED BY <1>1, FrameInvariant, PTL

(* The invariants of the two loops: each remainder of inverse is its        *)
(* cofactor times the exponent modulo the totient, and x * y^b of powmod    *)
(* stays congruent to the power that was asked for.                         *)
THEOREM LoopsKeepCongruences ==
  Spec => []( /\ function = "inverse" => I!RemaindersAreMultiples
              /\ function = "powmod" => P!PowerKept )
<1>1. FrameInv => ( /\ function = "inverse" => I!RemaindersAreMultiples
                    /\ function = "powmod" => P!PowerKept )
  BY InverseInvGivesMultiples, PowmodInvGivesKept DEF FrameInv
<1>2. QED BY <1>1, FrameInvariant, PTL

(* For every size of the table and every sequence of calls of getprime:     *)
(* outside the sieve the table marks exactly the primes or nothing.         *)
THEOREM TableIsExact == Spec => []ExactOrUnfilled
<1>1. FrameInv => ExactOrUnfilled
  BY TableInvGivesExact DEF FrameInv, ExactOrUnfilled
<1>2. QED BY <1>1, FrameInvariant, PTL

(* A call returns the prime closest to its argument, the smaller of two,    *)
(* unless its search reaches the byte behind the table and finds it set.    *)
THEOREM GetprimeIsCorrect == Spec => []ClosestPrime
<1>1. FrameInv => ClosestPrime
  BY TableInvGivesClosest DEF FrameInv, ClosestPrime
<1>2. QED BY <1>1, FrameInvariant, PTL
===============================================================================
