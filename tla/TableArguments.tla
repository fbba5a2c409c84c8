----------------------------- MODULE TableArguments -----------------------------
(***************************************************************************)
(* The size of the table of primes of C/RSA.c and what getprime is called  *)
(* with.                                                                   *)
(***************************************************************************)
EXTENDS Integers

CONSTANTS
  MAX_NUMBERS,    \* the size of the table, 1200 in the code
  Numbers,        \* the numbers getprime is called with
  MaxCalls        \* bound on the calls of one behaviour (main makes 2 or 3)

ASSUME PrimeTableAssumption ==
  /\ MAX_NUMBERS \in Nat /\ MAX_NUMBERS > 5
  /\ Numbers \subseteq Nat
  /\ MaxCalls \in Nat
===============================================================================
