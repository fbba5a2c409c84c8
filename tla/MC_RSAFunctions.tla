----------------------------- MODULE MC_RSAFunctions -----------------------------
(* GCD of every pair up to 24, zero included; inverse for every totient up   *)
(* to 40 with every exponent up to 60, so that exponents above the totient   *)
(* occur, as when publicExp falls back on a random prime; powmod with 8-bit  *)
(* words, on both sides of the square root of the word size, and with the    *)
(* moduli 0 and 1.  getprime on a table of 28 numbers, whose largest prime,  *)
(* 23, is far enough from its end for the search to run past it, with every  *)
(* argument up to two above the size, in every sequence of two calls.        *)
EXTENDS RSAFunctions

SmallArgs == 0..24
SmallPhis == 0..40
PositiveExponents == 1..60
SmallBases == 0..20
SmallExponents == 0..17
SmallModuli == 0..20
SmallNumbers == 0..(MAX_NUMBERS + 2)
===============================================================================
