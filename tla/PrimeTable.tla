-------------------------------- MODULE PrimeTable --------------------------------
(***************************************************************************)
(* getprime and findClosest of C/RSA.c, and the static table they share:   *)
(* a sequence of calls, each of which may sieve the table again and then   *)
(* searches it in both directions from its argument.                       *)
(*                                                                         *)
(* The byte behind the table, which findClosest reads as primes[1200], is  *)
(* whatever the linker put there: beyond, chosen once.                     *)
(***************************************************************************)
EXTENDS Divisibility, TableArguments

VARIABLES
  primes,         \* the static table: 1 for numbers not crossed out
  beyond,         \* whether the byte behind the table is nonzero
  n,              \* the argument of the call
  i,              \* the outer loop variable of the sieve
  lo, hi,         \* i[0] and i[1] of findClosest
  pc,             \* "idle", "sieve", "search" or "done"
  ret,            \* the value returned, meaningful when pc = "done"
  calls           \* calls made so far

vars == <<primes, beyond, n, i, lo, hi, pc, ret, calls>>

Table == 0..(MAX_NUMBERS - 1)

(* primes[k] as the compiled code reads it. *)
Flag(k) == IF k \in Table THEN primes[k] = 1 ELSE beyond

Init ==
  /\ primes = [k \in Table |-> 0]
  /\ beyond \in BOOLEAN
  /\ n = 0 /\ i = 0 /\ lo = 0 /\ hi = 0 /\ ret = 0 /\ calls = 0
  /\ pc = "idle"

(* The caller may call getprime, for the first time or once more. *)
MayCall == pc \in {"idle", "done"} /\ calls < MaxCalls

(* n > MAX_NUMBERS: return 0. *)
CallOutOfRange ==
  /\ MayCall
  /\ n' \in {a \in Numbers : a > MAX_NUMBERS}
  /\ ret' = 0
  /\ pc' = "done"
  /\ calls' = calls + 1
  /\ UNCHANGED <<primes, beyond, i, lo, hi>>

(* n < 5: the answers that need no table, which stays as it is. *)
CallSmall ==
  /\ MayCall
  /\ n' \in {a \in Numbers : a < 5}
  /\ ret' = IF n' > 2 THEN 3 ELSE 2
  /\ pc' = "done"
  /\ calls' = calls + 1
  /\ UNCHANGED <<primes, beyond, i, lo, hi>>

(* Mutant: only the part of the table up to the argument is set. *)
CallSieveUpToN ==
  /\ MayCall
  /\ n' \in {a \in Numbers : a >= 5 /\ a <= MAX_NUMBERS}
  /\ primes' = [k \in Table |-> IF k <= n' THEN 1 ELSE primes[k]]
  /\ i' = 2
  /\ pc' = "sieve"
  /\ calls' = calls + 1
  /\ UNCHANGED <<beyond, lo, hi, ret>>

(* memset(primes, 1, sizeof(primes)); i = 2 *)
CallSieve ==
  /\ MayCall
  /\ n' \in {a \in Numbers : a >= 5 /\ a <= MAX_NUMBERS}
  /\ primes' = [k \in Table |-> 1]
  /\ i' = 2
  /\ pc' = "sieve"
  /\ calls' = calls + 1
  /\ UNCHANGED <<beyond, lo, hi, ret>>

(* A pass of the outer loop over a number still considered prime: its       *)
(* multiples j * i with j >= i are crossed out (x ^= x stores 0).           *)
CrossOut ==
  /\ pc = "sieve" /\ i < MAX_NUMBERS /\ primes[i] = 1
  /\ primes' = [k \in Table |-> IF k >= i * i /\ Divides(i, k) THEN 0 ELSE primes[k]]
  /\ i' = i + 1
  /\ UNCHANGED <<beyond, n, lo, hi, pc, ret, calls>>

(* A pass over a number already crossed out. *)
SkipComposite ==
  /\ pc = "sieve" /\ i < MAX_NUMBERS /\ primes[i] = 0
  /\ i' = i + 1
  /\ UNCHANGED <<primes, beyond, n, lo, hi, pc, ret, calls>>

(* return findClosest(n): i[0] = i[1] = n *)
StartSearch ==
  /\ pc = "sieve" /\ i >= MAX_NUMBERS
  /\ lo' = n /\ hi' = n
  /\ pc' = "search"
  /\ UNCHANGED <<primes, beyond, n, i, ret, calls>>

(* Neither index is at a number marked as prime: both move away from n. *)
Widen ==
  /\ pc = "search" /\ ~ Flag(lo) /\ ~ Flag(hi)
  /\ lo' = IF lo > 2 THEN lo - 1 ELSE lo
  /\ hi' = IF hi < MAX_NUMBERS THEN hi + 1 ELSE hi
  /\ UNCHANGED <<primes, beyond, n, i, pc, ret, calls>>

(* Mutant: the larger of the two is tried first. *)
FoundLarger ==
  /\ pc = "search" /\ (Flag(lo) \/ Flag(hi))
  /\ ret' = IF Flag(hi) THEN hi ELSE lo
  /\ pc' = "done"
  /\ UNCHANGED <<primes, beyond, n, i, lo, hi, calls>>

(* "Always try the smaller one first" *)
Found ==
  /\ pc = "search" /\ (Flag(lo) \/ Flag(hi))
  /\ ret' = IF Flag(lo) THEN lo ELSE hi
  /\ pc' = "done"
  /\ UNCHANGED <<primes, beyond, n, i, lo, hi, calls>>

Call == CallOutOfRange \/ CallSmall \/ CallSieve
Run == CrossOut \/ SkipComposite \/ StartSearch \/ Widen \/ Found

Next == Call \/ Run

Spec == Init /\ [][Next]_vars

-------------------------------------------------------------------------------
(* The parts of the state have their types, and the indices stay within the *)
(* table or one behind it.                                                  *)
TypeOK ==
  /\ primes \in [Table -> {0, 1}]
  /\ beyond \in BOOLEAN
  /\ n \in Nat /\ i \in 0..MAX_NUMBERS
  /\ lo \in 0..MAX_NUMBERS /\ hi \in 0..MAX_NUMBERS
  /\ pc \in {"idle", "sieve", "search", "done"}
  /\ ret \in 0..MAX_NUMBERS
  /\ calls \in 0..MaxCalls

(* Halfway through the sieve: what is left has no smaller divisor among the *)
(* numbers already passed.                                                  *)
Sifted ==
  pc = "sieve" =>
    \A k \in 2..(MAX_NUMBERS - 1) :
       primes[k] = 1 <=> \A d \in 2..(i - 1) : Divides(d, k) => d = k

(* Outside the sieve the table is exact, or it was never filled and no      *)
(* number is marked at all: what publicExp, which reads it after the calls, *)
(* depends on.                                                              *)
Unfilled == \A k \in Table : primes[k] = 0
Exact == \A k \in 2..(MAX_NUMBERS - 1) : primes[k] = 1 <=> IsPrime(k)
ExactOrUnfilled ==
  /\ pc = "search" => Exact
  /\ pc \in {"idle", "done"} => Exact \/ Unfilled

(* getprime returns the closest prime, the smaller of two ("In case n is    *)
(* exactly in the middle of two prime numbers, take the smaller one"),      *)
(* unless the search runs into the byte behind the table and finds it set.  *)
ClosestPrime ==
  pc = "done" /\ n <= MAX_NUMBERS /\ (WithinReach(n, MAX_NUMBERS) \/ ~ beyond)
    => IsClosest(ret, n, MAX_NUMBERS)

(* "MAX_NUMBERS 1200 // Maximum size of integer array" (C/RSA.h:13): the    *)
(* indices findClosest reads the table with are below the table's size.     *)
ReadsInBounds == pc = "search" => lo \in Table /\ hi \in Table
===============================================================================
