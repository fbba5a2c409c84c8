------------------------------- MODULE Arguments -------------------------------
(***************************************************************************)
(* What the number-theoretic functions of C/RSA.c may be called with, and  *)
(* the widths of the integers they compute with.                           *)
(***************************************************************************)
EXTENDS Integers

CONSTANTS
  Args,           \* the unsigned integers GCD is called with
  IntLimit,       \* 2^31 in the code: the signed range is -IntLimit..IntLimit-1
  PhiArgs,        \* the totients inverse is called with
  EArgs,          \* the exponents inverse is called with
  WordSize,       \* 2^32 in the code: unsigned arithmetic wraps around at it
  Bases, Exponents, Moduli     \* the arguments powmod is called with

ASSUME ArgsAssumption == Args \subseteq Nat

ASSUME InverseAssumption ==
  /\ IntLimit \in Nat \ {0, 1}
  /\ PhiArgs \subseteq 0..(IntLimit - 1)
  /\ EArgs \subseteq 1..(IntLimit - 1)

ASSUME PowModAssumption ==
  /\ WordSize \in Nat \ {0, 1}
  /\ Bases \subseteq 0..(WordSize - 1)
  /\ Exponents \subseteq 0..(WordSize - 1)
  /\ Moduli \subseteq 0..(WordSize - 1)
===============================================================================
