--------------------------------- MODULE Programs ---------------------------------
(***************************************************************************)
(* One run of one of the programs: the RSA program in C, the RSA program   *)
(* for MIPS, or the frames of the MIPS functions, which only the registers *)
(* and the stack are looked at in.  RSA, MipsRSA and CallConvention say    *)
(* what a step of each does.                                               *)
(***************************************************************************)
EXTENDS Divisibility, Sequences

CONSTANTS
  WordSize,                     \* 2^32
  CharLimit,                    \* 2^7: half the values of a byte
  C_MAX_NUMBERS,                \* 1200: the size of the table in C
  MIPS_MAX_NUMBERS,             \* 1500: the size of the table in MIPS
  RandLimit,                    \* 1024: rand() % RandLimit + 2 is the fallback's argument
  C_Args, MIPS_Args,            \* numbers the primes are looked for near
  C_Texts, MIPS_Texts,          \* chars of a text, bytes of a line
  BufferSize,                   \* 14100: the size of input_string
  Newline,                      \* the byte that ends a line
  MaxIterations                 \* bound: the calls one loop makes to gcd or powmod

ASSUME CAssumption ==
  /\ WordSize \in Nat /\ WordSize % 2 = 0
  /\ CharLimit \in Nat /\ CharLimit >= 4 /\ 2 * CharLimit <= WordSize
  /\ C_MAX_NUMBERS \in Nat /\ C_MAX_NUMBERS > 5 /\ C_MAX_NUMBERS * C_MAX_NUMBERS < WordSize
  /\ RandLimit \in Nat \ {0} /\ RandLimit + 2 <= C_MAX_NUMBERS
  /\ C_Args \subseteq 0..(WordSize - 1)
  /\ C_Texts \subseteq Seq(-CharLimit..(CharLimit - 1))

(* An exponent can be found even if getprime answers with the byte behind   *)
(* the table.  For 1200 one of 2, 3, 5, 7 and 13 is coprime to 1199 * n:    *)
(* none divides 1199, and their product is larger than n.                   *)
ASSUME TableAssumption ==
  \A n \in 1..(C_MAX_NUMBERS - 1) :
    \E k \in 2..(C_MAX_NUMBERS - 1) : IsPrime(k) /\ Coprime(k, (C_MAX_NUMBERS - 1) * n)

ASSUME MipsAssumption ==
  /\ MIPS_MAX_NUMBERS \in Nat /\ 2 * (MIPS_MAX_NUMBERS * MIPS_MAX_NUMBERS) <= WordSize
  /\ IsPrime(MIPS_MAX_NUMBERS - 1)
  /\ MIPS_Args \subseteq 0..(WordSize - 1)
  /\ BufferSize \in Nat /\ BufferSize > 1
  /\ Newline \in 1..(2 * CharLimit - 1)
  /\ MIPS_Texts \subseteq Seq((1..(2 * CharLimit - 1)) \ {Newline})
  /\ MaxIterations \in Nat

(* What the two programs have in common: every number of the smaller table  *)
(* is one of the larger, and C's fallback may draw a 3.                     *)
ASSUME TablesAssumption == C_MAX_NUMBERS <= MIPS_MAX_NUMBERS /\ RandLimit >= 2

VARIABLES
  program,                      \* the program that runs
  text, p_val, q_val,           \* its input
  filled,                       \* of the C program: the table has been sieved
  primes0, hi, lo,              \* of the MIPS program: primes[0] and the multiplier's registers
  p, q, phi, modN, e, d, val, C, M, decrypted,   \* of both
  pc,                           \* their next call
  reg, sp, stack, place, iteration, calls        \* of the functions' frames

main == <<text, p_val, q_val, p, q, phi, modN, e, d, val, C, M, decrypted, pc>>
machine == <<primes0, hi, lo>>
frames == <<reg, sp, stack, place, iteration, calls>>
vars == <<program, main, filled, machine, frames>>

InC == INSTANCE RSA WITH
  MAX_NUMBERS <- C_MAX_NUMBERS, PArgs <- C_Args, QArgs <- C_Args, Texts <- C_Texts
InMips == INSTANCE MipsRSA WITH
  MAX_NUMBERS <- MIPS_MAX_NUMBERS, PArgs <- MIPS_Args, QArgs <- MIPS_Args, Texts <- MIPS_Texts,
  ByteSize <- 2 * CharLimit
Frames == INSTANCE CallConvention WITH pc <- place

-------------------------------------------------------------------------------
NoKeys == p = 0 /\ q = 0 /\ phi = 0 /\ modN = 0 /\ e = 0 /\ d = 0
NoMain ==
  /\ text = <<>> /\ p_val = 0 /\ q_val = 0 /\ NoKeys
  /\ val = <<>> /\ C = <<>> /\ M = <<>> /\ decrypted = <<>> /\ pc = "done"
NoMachine == primes0 = 1 /\ hi = 0 /\ lo = 0
NoFrames == reg = <<>> /\ sp = 0 /\ stack = <<>> /\ place = <<>> /\ iteration = 0 /\ calls = <<>>

Init ==
  \/ program = "C" /\ InC!Init /\ NoMachine /\ NoFrames
  \/ program = "MIPS" /\ InMips!Init /\ filled = FALSE /\ NoFrames
  \/ program = "frames" /\ Frames!Init /\ NoMain /\ filled = FALSE /\ NoMachine

RunC == program = "C" /\ InC!Next /\ UNCHANGED <<program, machine, frames>>
RunMips == program = "MIPS" /\ InMips!Next /\ UNCHANGED <<program, filled, frames>>
RunFrames == program = "frames" /\ Frames!Next /\ UNCHANGED <<program, main, filled, machine>>

Next == RunC \/ RunMips \/ RunFrames

Spec == Init /\ [][Next]_vars

-------------------------------------------------------------------------------
(* With usable keys, both programs decrypt what they encrypted to what it   *)
(* was, the terminating 0 and bytes with the high bit set included.         *)
RoundTrip ==
  /\ program = "C" => InC!RoundTrip
  /\ program = "MIPS" => InMips!RoundTrip

(* The loop of publicExp finds an exponent that can be inverted, on a       *)
(* sieved table in C and on any table in MIPS.                              *)
ExponentFound ==
  /\ program = "C" => InC!ExponentFound
  /\ program = "MIPS" => InMips!ExponentPrime

(* The C program divides by zero only after one of the two failures nobody  *)
(* tests for: a number beyond the table, answered by 0, or an exponent from *)
(* the fallback over a table that was never filled.                         *)
TrapCauses == program = "C" => InC!TrapCauses

(* test_rsa (test/test.py:117-127) asserts that rsa.s prints what the C     *)
(* program prints: on comparable inputs, every step of rsa.s, with its      *)
(* table, is the step of C/main.c with the smaller table of C.              *)
SameAsC ==
  /\ program = "MIPS" /\ InMips!Comparable => InMips!CProgram!Init
  /\ [][program = "MIPS" /\ InMips!Comparable => InMips!CProgram!Next]_vars

(* jr $ra goes back behind the jal, however deep the calls were nested.     *)
ReturnsToCaller == program = "frames" => Frames!ReturnsToCaller

(* A function returns with $s0-$s7 and $sp as it was called: main keeps the *)
(* keys and the arrays in them across every call, and the length of the     *)
(* message even in $t7 (rsa.s:111, 139), which nobody saves.                *)
CallerStateKept == program = "frames" => Frames!CallerStateKept /\ Frames!LengthKept
===============================================================================
