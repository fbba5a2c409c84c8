---------------------------------- MODULE Gcd ----------------------------------
(***************************************************************************)
(* GCD of C/RSA.c: Euclid's algorithm by repeated subtraction on unsigned  *)
(* integers, one action per branch of the loop.  mips/gcd.s is the same    *)
(* loop (ble/sub instead of the comparison and the subtractions).          *)
(***************************************************************************)
EXTENDS Divisibility, Arguments

VARIABLES
  a0, b0,         \* the arguments of the call
  a, b,           \* the parameters, which the loop overwrites
  pc,             \* "entry", "loop" or "done"
  ret             \* the value returned, meaningful when pc = "done"

vars == <<a0, b0, a, b, pc, ret>>

Init ==
  /\ a0 \in Args /\ b0 \in Args
  /\ a = a0 /\ b = b0
  /\ pc = "entry"
  /\ ret = 0

(* if (a == 0) return b; *)
ReturnB ==
  /\ pc = "entry" /\ a = 0
  /\ ret' = b
  /\ pc' = "done"
  /\ UNCHANGED <<a0, b0, a, b>>

(* Mutant: the test for a == 0 is gone, and the loop runs for every a. *)
EnterLoopUntested ==
  /\ pc = "entry"
  /\ pc' = "loop"
  /\ UNCHANGED <<a0, b0, a, b, ret>>

EnterLoop ==
  /\ pc = "entry" /\ a # 0
  /\ pc' = "loop"
  /\ UNCHANGED <<a0, b0, a, b, ret>>

SubtractFromA ==
  /\ pc = "loop" /\ b # 0 /\ a > b
  /\ a' = a - b
  /\ UNCHANGED <<a0, b0, b, pc, ret>>

(* Mutant: a binary shortcut that halves b and forgets the common factor 2. *)
SubtractFromBHalving ==
  /\ pc = "loop" /\ b # 0 /\ a <= b
  /\ b' = IF b % 2 = 0 THEN b \div 2 ELSE b - a
  /\ UNCHANGED <<a0, b0, a, pc, ret>>

SubtractFromB ==
  /\ pc = "loop" /\ b # 0 /\ a <= b
  /\ b' = b - a
  /\ UNCHANGED <<a0, b0, a, pc, ret>>

(* return a; *)
ExitLoop ==
  /\ pc = "loop" /\ b = 0
  /\ ret' = a
  /\ pc' = "done"
  /\ UNCHANGED <<a0, b0, a, b>>

Next == ReturnB \/ EnterLoop \/ SubtractFromA \/ SubtractFromB \/ ExitLoop

Spec == Init /\ [][Next]_vars

-------------------------------------------------------------------------------
(* The parameters stay unsigned: no subtraction of the loop wraps around.   *)
(* This is what lets the model subtract without a modulus.                  *)
TypeOK ==
  /\ a0 \in Nat /\ b0 \in Nat
  /\ a \in 0..a0 /\ b \in 0..b0
  /\ pc \in {"entry", "loop", "done"}
  /\ ret \in Nat

(* What the loop keeps: the common divisors of the two parameters are those *)
(* of the two arguments.                                                    *)
SameCommonDivisors ==
  \A d \in 1..(a0 + b0) :
     Divides(d, a) /\ Divides(d, b) <=> Divides(d, a0) /\ Divides(d, b0)

(* GCD returns the greatest common divisor of its arguments, the arguments  *)
(* 0 included.                                                              *)
GCDCorrect == pc = "done" => IsGCD(ret, a0, b0)
===============================================================================
