---------------------------------- MODULE PowMod ----------------------------------
(***************************************************************************)
(* powmod of C/RSA.c: square and multiply on unsigned integers.  One       *)
(* action per branch of the loop's body.  The two products are taken       *)
(* modulo WordSize before they are reduced, and a modulus of 0 ends the    *)
(* program (SIGFPE): pc = "trap".                                          *)
(***************************************************************************)
EXTENDS Divisibility, Arguments

VARIABLES
  a0, b0, mod,    \* the arguments; the loop overwrites a copy of b0 only
  x, y, b,        \* the locals x and y, and the parameter b
  pc              \* "loop", "done" or "trap"; x is the result when "done"

vars == <<a0, b0, mod, x, y, b, pc>>

(* The unsigned value of the product u * v. *)
Times(u, v) == (u * v) % WordSize

Init ==
  /\ a0 \in Bases /\ b0 \in Exponents /\ mod \in Moduli
  /\ x = 1 /\ y = a0 /\ b = b0
  /\ pc = "loop"

(* Mutant: y is squared before it is multiplied into x. *)
MultiplyAndSquareSwapped ==
  /\ pc = "loop" /\ b % 2 = 1 /\ mod # 0
  /\ y' = Times(y, y) % mod
  /\ x' = Times(x, y') % mod
  /\ b' = b \div 2
  /\ UNCHANGED <<a0, b0, mod, pc>>

(* Mutant: y is left unreduced. *)
MultiplyAndSquareUnreduced ==
  /\ pc = "loop" /\ b % 2 = 1 /\ mod # 0
  /\ x' = Times(x, y) % mod
  /\ y' = Times(y, y)
  /\ b' = b \div 2
  /\ UNCHANGED <<a0, b0, mod, pc>>

(* A pass with the lowest bit of b set. *)
MultiplyAndSquare ==
  /\ pc = "loop" /\ b % 2 = 1 /\ mod # 0
  /\ x' = Times(x, y) % mod
  /\ y' = Times(y, y) % mod
  /\ b' = b \div 2
  /\ UNCHANGED <<a0, b0, mod, pc>>

(* A pass with the lowest bit of b clear. *)
SquareOnly ==
  /\ pc = "loop" /\ b > 0 /\ b % 2 = 0 /\ mod # 0
  /\ y' = Times(y, y) % mod
  /\ b' = b \div 2
  /\ UNCHANGED <<a0, b0, mod, x, pc>>

(* x %= mod or y %= mod with mod = 0: whichever branch the pass takes. *)
ReduceByZero ==
  /\ pc = "loop" /\ b > 0 /\ mod = 0
  /\ pc' = "trap"
  /\ UNCHANGED <<a0, b0, mod, x, y, b>>

(* return x; *)
ExitLoop ==
  /\ pc = "loop" /\ b = 0
  /\ pc' = "done"
  /\ UNCHANGED <<a0, b0, mod, x, y, b>>

Next == MultiplyAndSquare \/ SquareOnly \/ ReduceByZero \/ ExitLoop

Spec == Init /\ [][Next]_vars

-------------------------------------------------------------------------------
(* base^n, reduced modulo m after every multiplication.  The reference the  *)
(* loop is compared with.                                                   *)
ModPower(base, n, m) ==
  LET power[k \in 0..n] == IF k = 0 THEN 1 % m ELSE (power[k-1] * base) % m
  IN  power[n]

(* The calls whose products fit in a word: the base and every residue have  *)
(* a square below WordSize.                                                 *)
Fits == a0 * a0 < WordSize /\ (mod - 1) * (mod - 1) < WordSize /\ mod > 0

(* After a pass x and y are residues of the modulus, and stay so.           *)
TypeOK ==
  /\ a0 \in 0..(WordSize - 1) /\ b0 \in 0..(WordSize - 1)
  /\ mod \in 0..(WordSize - 1)
  /\ x \in 0..(mod - 1) \cup {1} /\ y \in 0..(mod - 1) \cup {a0} /\ b \in 0..b0
  /\ pc \in {"loop", "done", "trap"}

(* No product of a call that fits is ever cut off: the loop computes with   *)
(* the exact products.                                                      *)
ProductsExact ==
  Fits /\ pc = "loop" => x * y < WordSize /\ y * y < WordSize

(* The loop's invariant: what is left to multiply into x is y to the b, so  *)
(* x * y^b stays congruent to the power that was asked for.                 *)
PowerKept ==
  Fits => Congruent(x * ModPower(y, b, mod), ModPower(a0, b0, mod), mod)

(* powmod returns a^b % mod for every call that fits.  The exponent 0 with  *)
(* the modulus 1 is the exception: x is returned unreduced, as 1.           *)
PowerCorrect ==
  pc = "done" /\ Fits /\ ~ (b0 = 0 /\ mod = 1) => x = ModPower(a0, b0, mod)
===============================================================================
