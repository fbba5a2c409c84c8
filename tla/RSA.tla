----------------------------------- MODULE RSA -----------------------------------
(***************************************************************************)
(* The program of C/main.c: two primes, the totient, the two exponents,    *)
(* the encryption of a text and its decryption.  One action per call main  *)
(* makes.                                                                  *)
(*                                                                         *)
(* The functions main calls are represented by what their own modules show *)
(* of them: getprime by PrimeTable!ClosestPrime and ExactOrUnfilled, GCD   *)
(* by Gcd!GCDCorrect, inverse by ModInverse!InverseCorrect and             *)
(* TrapOnlyWithoutInverse.  powmod alone is computed, because here its     *)
(* products may well be cut off.                                           *)
(***************************************************************************)
EXTENDS Divisibility, Sequences

CONSTANTS
  WordSize,       \* 2^32: unsigned arithmetic wraps around at it
  CharLimit,      \* 2^7: a char is one of -CharLimit..CharLimit-1
  MAX_NUMBERS,    \* 1200: the size of the prime table
  RandLimit,      \* 1024: rand() % RandLimit + 2 is the fallback's argument
  PArgs, QArgs,   \* numbers the two primes are looked for near
  Texts           \* texts, without the terminating 0

VARIABLES
  text, p_val, q_val,     \* the command line
  filled,                 \* whether the static table has been sieved
  p, q, phi, modN, e, d,  \* the keys
  val, C, M,              \* the message as numbers, encrypted and decrypted
  decrypted,              \* the text that is printed at the end
  pc                      \* the next call of main, "done" or "trap"

vars == <<text, p_val, q_val, filled, p, q, phi, modN, e, d, val, C, M, decrypted, pc>>
keys == <<p, q, phi, modN, e, d>>
input == <<text, p_val, q_val>>

-------------------------------------------------------------------------------
(* The values getprime may return for n: the closest prime, and the size of *)
(* the table when the search can reach the byte behind it.                  *)
GetPrime(n) ==
  IF n > MAX_NUMBERS THEN {0}
  ELSE {r \in 2..(MAX_NUMBERS - 1) : IsClosest(r, n, MAX_NUMBERS)}
         \cup {r \in {MAX_NUMBERS} : ~ WithinReach(n, MAX_NUMBERS)}

(* The numbers a filled table marks. *)
Primes == {k \in 2..(MAX_NUMBERS - 1) : IsPrime(k)}

(* Whether a call with n sieves the table.                                  *)
Sieves(n) == n >= 5 /\ n <= MAX_NUMBERS

(* (a^b) % mod by squaring, every product cut off at the word size.  mod is *)
(* not 0.                                                                   *)
Times(u, v) == (u * v) % WordSize
Powmod(a, b, mod) ==
  LET power[s \in Nat \X Nat \X Nat] ==
        LET x == s[1]
            y == s[2]
            n == s[3]
        IN  IF n = 0 THEN x
            ELSE power[<< IF n % 2 = 1 THEN Times(x, y) % mod ELSE x,
                          Times(y, y) % mod,
                          n \div 2 >>]
  IN  power[<<1, a, b>>]

(* (unsigned int) text[i]: a negative char becomes a large number.          *)
ToUnsigned(c) == c % WordSize

(* (char) vals[i]: the low bits, as a signed number.                        *)
ToChar(v) == ((v + CharLimit) % (2 * CharLimit)) - CharLimit

Map(Op(_), s) == [k \in DOMAIN s |-> Op(s[k])]

-------------------------------------------------------------------------------
Init ==
  /\ text \in Texts /\ p_val \in PArgs /\ q_val \in QArgs
  /\ filled = FALSE
  /\ p = 0 /\ q = 0 /\ phi = 0 /\ modN = 0 /\ e = 0 /\ d = 0
  /\ val = <<>> /\ C = <<>> /\ M = <<>> /\ decrypted = <<>>
  /\ pc = "text2int"

(* text_length = strlen(text) + 1: the terminating 0 is part of the message. *)
Text2Int ==
  /\ pc = "text2int"
  /\ val' = Map(ToUnsigned, Append(text, 0))
  /\ pc' = "p"
  /\ UNCHANGED <<input, filled, keys, C, M, decrypted>>

GetP ==
  /\ pc = "p"
  /\ p' \in GetPrime(p_val)
  /\ filled' = (filled \/ Sieves(p_val))
  /\ pc' = "q"
  /\ UNCHANGED <<input, q, phi, modN, e, d, val, C, M, decrypted>>

(* Mutant: the table is not static, only the last call's sieve is left. *)
GetQAfresh ==
  /\ pc = "q"
  /\ q' \in GetPrime(q_val)
  /\ filled' = Sieves(q_val)
  /\ pc' = "totient"
  /\ UNCHANGED <<input, p, phi, modN, e, d, val, C, M, decrypted>>

GetQ ==
  /\ pc = "q"
  /\ q' \in GetPrime(q_val)
  /\ filled' = (filled \/ Sieves(q_val))
  /\ pc' = "totient"
  /\ UNCHANGED <<input, p, phi, modN, e, d, val, C, M, decrypted>>

(* Mutant: the totient of p times the predecessor of q. *)
TotientOfP ==
  /\ pc = "totient"
  /\ modN' = Times(p, q)
  /\ phi' = Times(p, q - 1)
  /\ pc' = "publicExp"
  /\ UNCHANGED <<input, filled, p, q, e, d, val, C, M, decrypted>>

Totient ==
  /\ pc = "totient"
  /\ LET n == Times(p, q)
         outOfBound == n < p \/ n < q
     IN  /\ modN' = IF outOfBound THEN 0 ELSE n
         /\ phi' = IF outOfBound THEN 0 ELSE ((p - 1) * (q - 1)) % WordSize
  /\ pc' = "publicExp"
  /\ UNCHANGED <<input, filled, p, q, e, d, val, C, M, decrypted>>

(* The numbers publicExp's loop accepts: coprime to phi, and marked in the  *)
(* table.  Nothing is marked before the first sieve.                        *)
Candidates ==
  {k \in Primes : filled /\ k < phi /\ Coprime(k, phi)}

(* Mutant: the candidate is not compared with the totient. *)
PublicExpUntested ==
  /\ pc = "publicExp" /\ phi > 2 /\ filled
  /\ e' = 2
  /\ pc' = "inverse"
  /\ UNCHANGED <<input, filled, p, q, phi, modN, d, val, C, M, decrypted>>

(* The loop of publicExp returns the first candidate. *)
PublicExp ==
  /\ pc = "publicExp"
  /\ e' \in Candidates
  /\ \A k \in Candidates : e' <= k
  /\ pc' = "inverse"
  /\ UNCHANGED <<input, filled, p, q, phi, modN, d, val, C, M, decrypted>>

(* "Error: No public exponent found": return getprime(rand() % 1024 + 2). *)
PublicExpFallback ==
  /\ pc = "publicExp" /\ Candidates = {}
  /\ \E n \in 2..(RandLimit + 1) :
       /\ e' \in GetPrime(n)
       /\ filled' = (filled \/ Sieves(n))
  /\ pc' = "inverse"
  /\ UNCHANGED <<input, p, q, phi, modN, d, val, C, M, decrypted>>

Inverse ==
  /\ pc = "inverse" /\ (phi = 1 \/ Coprime(e, phi))
  /\ d' \in IF phi = 1 THEN {1} ELSE {k \in 1..(phi - 1) : (e * k) % phi = 1}
  /\ pc' = "encrypt"
  /\ UNCHANGED <<input, filled, p, q, phi, modN, e, val, C, M, decrypted>>

(* The division by zero in inverse. *)
InverseTraps ==
  /\ pc = "inverse" /\ phi # 1 /\ ~ Coprime(e, phi)
  /\ pc' = "trap"
  /\ UNCHANGED <<input, filled, keys, val, C, M, decrypted>>

Encrypt ==
  /\ pc = "encrypt" /\ modN # 0
  /\ C' = [k \in DOMAIN val |-> Powmod(val[k], e, modN)]
  /\ pc' = "decrypt"
  /\ UNCHANGED <<input, filled, keys, val, M, decrypted>>

(* The division by zero in powmod: two numbers beyond the table give two    *)
(* primes 0, whose totient is (0-1)*(0-1) = 1 and whose modulus is 0.       *)
EncryptTraps ==
  /\ pc = "encrypt" /\ modN = 0
  /\ pc' = "trap"
  /\ UNCHANGED <<input, filled, keys, val, C, M, decrypted>>

Decrypt ==
  /\ pc = "decrypt"
  /\ M' = [k \in DOMAIN C |-> Powmod(C[k], d, modN)]
  /\ pc' = "int2text"
  /\ UNCHANGED <<input, filled, keys, val, C, decrypted>>

Int2Text ==
  /\ pc = "int2text"
  /\ decrypted' = Map(ToChar, M)
  /\ pc' = "done"
  /\ UNCHANGED <<input, filled, keys, val, C, M>>

Next ==
  \/ Text2Int \/ GetP \/ GetQ \/ Totient \/ PublicExp \/ PublicExpFallback
  \/ Inverse \/ InverseTraps \/ Encrypt \/ EncryptTraps \/ Decrypt \/ Int2Text

Spec == Init /\ [][Next]_vars

-------------------------------------------------------------------------------
(* The keys are usable: p and q are two different primes, every number of   *)
(* the message is a residue of the modulus, and no product of powmod is cut *)
(* off.  Nothing in the program tests any of this.                          *)
Usable ==
  /\ IsPrime(p) /\ IsPrime(q) /\ p # q
  /\ (modN - 1) * (modN - 1) < WordSize
  /\ \A k \in DOMAIN val : val[k] < modN

(* What is decrypted is what was encrypted, for usable keys. *)
RoundTrip == pc = "done" /\ Usable => decrypted = Append(text, 0)

(* Once the table has been sieved for p or q, the loop of publicExp finds   *)
(* an exponent: the fallback on a random prime, which need not be coprime   *)
(* to the totient, is not used.                                             *)
ExponentFound ==
  pc \in {"encrypt", "decrypt", "int2text", "done"} /\ phi > 2 /\ (p_val >= 5 \/ q_val >= 5) =>
    e \in 2..(phi - 1) /\ Coprime(e, phi)

(* The program divides by zero only after one of the two failures nobody    *)
(* tests for: a number beyond the table, answered by 0, or an exponent from *)
(* the fallback over a table that was never filled.                         *)
TrapCauses ==
  pc = "trap" =>
    \/ p_val > MAX_NUMBERS \/ q_val > MAX_NUMBERS
    \/ p_val < 5 /\ q_val < 5
===============================================================================
