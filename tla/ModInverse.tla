------------------------------- MODULE ModInverse -------------------------------
(***************************************************************************)
(* inverse of C/RSA.c: the extended Euclidean algorithm on the unsigned    *)
(* phi and e, with the signed cofactors x0 and x1.  One action per pass of *)
(* the loop.  A division by zero ends the program (SIGFPE): pc = "trap".   *)
(***************************************************************************)
EXTENDS Divisibility, Arguments

VARIABLES
  phi0, e0,       \* the arguments; phi0 is also the local b0
  phi, e,         \* phi.phi and e, which the loop overwrites
  x0, x1,         \* the cofactors
  pc,             \* "entry", "loop", "done" or "trap"
  ret             \* the value returned, meaningful when pc = "done"

vars == <<phi0, e0, phi, e, x0, x1, pc, ret>>

(* The value an int holds after the integer v is stored into it. *)
ToInt(v) == ((v + IntLimit) % (2 * IntLimit)) - IntLimit

Init ==
  /\ phi0 \in PhiArgs /\ e0 \in EArgs
  /\ phi = phi0 /\ e = e0
  /\ x0 = 0 /\ x1 = 1
  /\ pc = "entry"
  /\ ret = 0

(* if (phi.phi == 1) return 1; *)
ReturnOne ==
  /\ pc = "entry" /\ phi = 1
  /\ ret' = 1
  /\ pc' = "done"
  /\ UNCHANGED <<phi0, e0, phi, e, x0, x1>>

EnterLoop ==
  /\ pc = "entry" /\ phi # 1
  /\ pc' = "loop"
  /\ UNCHANGED <<phi0, e0, phi, e, x0, x1, ret>>

(* Mutant: the old x1 is kept where the old x0 should go. *)
EuclidStepLosingX0 ==
  /\ pc = "loop" /\ e > 1 /\ phi # 0
  /\ phi' = e % phi
  /\ e' = phi
  /\ x0' = ToInt(x1 - (e \div phi) * x0)
  /\ x1' = x1
  /\ UNCHANGED <<phi0, e0, pc, ret>>

(* Mutant: the cofactors are updated with the wrong sign. *)
EuclidStepAdding ==
  /\ pc = "loop" /\ e > 1 /\ phi # 0
  /\ phi' = e % phi
  /\ e' = phi
  /\ x0' = ToInt(x1 + (e \div phi) * x0)
  /\ x1' = x0
  /\ UNCHANGED <<phi0, e0, pc, ret>>

EuclidStep ==
  /\ pc = "loop" /\ e > 1 /\ phi # 0
  /\ phi' = e % phi
  /\ e' = phi
  /\ x0' = ToInt(x1 - (e \div phi) * x0)
  /\ x1' = x0
  /\ UNCHANGED <<phi0, e0, pc, ret>>

(* Mutant: the loop condition is e >= 1 where the divisor is looked at. *)
DivideByZeroEarly ==
  /\ pc = "loop" /\ e >= 1 /\ phi = 0
  /\ pc' = "trap"
  /\ UNCHANGED <<phi0, e0, phi, e, x0, x1, ret>>

(* q = e / phi.phi with phi.phi == 0 *)
DivideByZero ==
  /\ pc = "loop" /\ e > 1 /\ phi = 0
  /\ pc' = "trap"
  /\ UNCHANGED <<phi0, e0, phi, e, x0, x1, ret>>

(* if (x1 < 0) x1 += b0; return x1; *)
ExitLoop ==
  /\ pc = "loop" /\ e <= 1
  /\ ret' = IF x1 < 0 THEN x1 + phi0 ELSE x1
  /\ pc' = "done"
  /\ UNCHANGED <<phi0, e0, phi, e, x0, x1>>

Next == ReturnOne \/ EnterLoop \/ EuclidStep \/ DivideByZero \/ ExitLoop

Spec == Init /\ [][Next]_vars

-------------------------------------------------------------------------------
(* The absolute value of an integer. *)
Abs(v) == IF v < 0 THEN -v ELSE v

TypeOK ==
  /\ phi0 \in 0..(IntLimit - 1) /\ e0 \in 1..(IntLimit - 1)
  /\ phi \in 0..(IntLimit - 1) /\ e \in 1..(IntLimit - 1)
  /\ x0 \in -IntLimit..(IntLimit - 1) /\ x1 \in -IntLimit..(IntLimit - 1)
  /\ pc \in {"entry", "loop", "done", "trap"}
  /\ ret \in 0..(IntLimit - 1)

(* The cofactors have opposite signs and their sizes are tied to the        *)
(* remainders, so that neither they nor the products that make them leave   *)
(* the range of a signed int: the loop has no undefined behaviour.          *)
CofactorsTied ==
  /\ (x0 <= 0 /\ x1 >= 0) \/ (x0 >= 0 /\ x1 <= 0)
  /\ Abs(x0) * e + Abs(x1) * phi = phi0

(* Each remainder is its cofactor times the exponent, modulo the totient:   *)
(* what makes x1 the inverse once e has come down to 1.                     *)
RemaindersAreMultiples ==
  phi0 > 0 =>
    /\ Congruent(x0 * e0, phi, phi0)
    /\ Congruent(x1 * e0, e, phi0)

(* The private exponent undoes the public one: e * d = 1 modulo the         *)
(* totient, and d is the representative an unsigned message power expects.  *)
InverseCorrect ==
  pc = "done" /\ phi0 > 1 =>
    /\ ret \in 1..(phi0 - 1)
    /\ (e0 * ret) % phi0 = 1

(* The division by zero is reached only when no inverse exists.             *)
TrapOnlyWithoutInverse == pc = "trap" => ~ Coprime(e0, phi0)
===============================================================================
