------------------------------- MODULE RSAFunctions -------------------------------
(***************************************************************************)
(* The number-theoretic functions C/RSA.c exports, as main and the tests   *)
(* call them: one call of GCD, inverse or powmod at a time, each on a      *)
(* stack frame of its own, or a sequence of calls of getprime, which share *)
(* the static table.  Gcd, ModInverse, PowMod and PrimeTable say what one  *)
(* step of a call does; they use the same frame.                           *)
(***************************************************************************)
EXTENDS Arguments, TableArguments

VARIABLES
  function,       \* the function that was called
  arg1, arg2, arg3,            \* its arguments
  param1, param2, \* the parameters, which the loops overwrite
  local1, local2, \* the locals
  pc,             \* where the call stands
  ret,            \* the value returned
  primes, beyond, calls        \* the static table, the byte behind it, calls of getprime

frame == <<arg1, arg2, arg3, param1, param2, local1, local2, pc, ret>>
static == <<primes, beyond, calls>>
vars == <<function, frame, static>>

G == INSTANCE Gcd WITH
       a0 <- arg1, b0 <- arg2, a <- param1, b <- param2
I == INSTANCE ModInverse WITH
       phi0 <- arg1, e0 <- arg2, phi <- param1, e <- param2, x0 <- local1, x1 <- local2
P == INSTANCE PowMod WITH
       a0 <- arg1, b0 <- arg2, mod <- arg3, b <- param2, x <- local1, y <- local2
T == INSTANCE PrimeTable WITH
       n <- param1, i <- param2, lo <- local1, hi <- local2

CallGCD     == G!Init /\ arg3 = 0 /\ local1 = 0 /\ local2 = 0
CallInverse == I!Init /\ arg3 = 0
CallPowmod  == P!Init /\ param1 = 0 /\ ret = 0
NoTable     == primes = <<>> /\ beyond = FALSE /\ calls = 0

Init ==
  \/ function = "GCD" /\ CallGCD /\ NoTable
  \/ function = "inverse" /\ CallInverse /\ NoTable
  \/ function = "powmod" /\ CallPowmod /\ NoTable
  \/ function = "getprime" /\ T!Init /\ arg1 = 0 /\ arg2 = 0 /\ arg3 = 0

RunGCD     == function = "GCD" /\ G!Next /\ UNCHANGED <<function, static, arg3, local1, local2>>
RunInverse == function = "inverse" /\ I!Next /\ UNCHANGED <<function, static, arg3>>
RunPowmod  == function = "powmod" /\ P!Next /\ UNCHANGED <<function, static, param1, ret>>
CallAgain  == function = "getprime" /\ T!Call /\ UNCHANGED <<function, arg1, arg2, arg3>>
RunTable   == function = "getprime" /\ T!Run /\ UNCHANGED <<function, arg1, arg2, arg3>>

Next == RunGCD \/ RunInverse \/ RunPowmod \/ CallAgain \/ RunTable

Spec == Init /\ [][Next]_vars

(* A call runs on its own frame, in a program of one thread: nothing keeps  *)
(* it from taking its next step.  That getprime is called once more is      *)
(* nobody's promise.                                                        *)
FairSpec == Spec /\ WF_vars(RunGCD \/ RunInverse \/ RunPowmod \/ RunTable)

-------------------------------------------------------------------------------
(* GCD returns the greatest common divisor, also for the argument 0 that    *)
(* its early return is there for.                                           *)
GCDCorrect == function = "GCD" => G!GCDCorrect

(* No cofactor of inverse, and no product that makes one, leaves the range  *)
(* of an int, although each is computed in unsigned arithmetic.             *)
CofactorsTied == function = "inverse" => I!CofactorsTied

(* What inverse returns is the inverse of the exponent modulo the totient,  *)
(* and it divides by zero only if there is none.                            *)
InverseCorrect == function = "inverse" => I!InverseCorrect /\ I!TrapOnlyWithoutInverse

(* A call of powmod that fits forms no product a word cuts off.             *)
ProductsExact == function = "powmod" => P!ProductsExact

(* powmod returns the power, for every call that fits.                      *)
PowerCorrect == function = "powmod" => P!PowerCorrect

(* Outside the sieve the table marks the primes exactly, or it was never    *)
(* filled and no number is marked at all: what publicExp, which reads it    *)
(* after the calls, depends on.                                             *)
ExactOrUnfilled == function = "getprime" => T!ExactOrUnfilled

(* getprime returns the closest prime, the smaller of two ("In case n is    *)
(* exactly in the middle of two prime numbers, take the smaller one"),      *)
(* unless the search runs into the byte behind the table and finds it set.  *)
ClosestPrime == function = "getprime" => T!ClosestPrime

(* Every call ends: GCD and getprime return, and the loops of the others    *)
(* end in a result or in a division by zero.                                *)
Returns ==
  /\ <>(pc = "done" \/ (pc = "trap" /\ function # "GCD") \/ function = "getprime")
  /\ function = "getprime" /\ pc \in {"sieve", "search"} ~> pc = "done"
===============================================================================
