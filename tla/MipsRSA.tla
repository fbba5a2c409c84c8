--------------------------------- MODULE MipsRSA ---------------------------------
(***************************************************************************)
(* The program of mips/rsa.s as the linker puts it together: the same      *)
(* pipeline as C/main.c, on the registers of the simulator.  One action    *)
(* per jal of main, the instructions between two calls included.           *)
(*                                                                         *)
(* It differs from the C program where the machine does: comparisons are   *)
(* signed, a division by zero is skipped and leaves HI and LO as they are  *)
(* (spim-src/CPU/run.c:500), bytes are zero-extended by hand, the table is *)
(* all ones before it is sieved, and a tie goes to the larger prime.       *)
(***************************************************************************)
EXTENDS Divisibility, Sequences

CONSTANTS
  WordSize,       \* 2^32
  ByteSize,       \* 2^8
  MAX_NUMBERS,    \* 1500: the size of the prime table
  C_MAX_NUMBERS,  \* 1200: the size of the table of C/RSA.h
  RandLimit,      \* 1024: the bound of C's random argument
  BufferSize,     \* 14100: the size of input_string
  Newline,        \* the byte that ends a line
  PArgs, QArgs,   \* the numbers typed in, as words
  Texts           \* the lines typed in, without their newline

VARIABLES
  text, p_val, q_val,     \* what is typed in
  primes0,                \* primes[0]: 1 until the table has been sieved
  hi, lo,                 \* the multiplier's registers, from totient on
  p, q, phi, modN, e, d,  \* $s0, $s1, $s5, $s4, $s6, $s7
  val, C, M,              \* the arrays of words $s3 and $s1 point to
  decrypted,              \* the bytes printed at the end
  pc                      \* the next jal of main, or "done"

vars == <<text, p_val, q_val, primes0, hi, lo, p, q, phi, modN, e, d, val, C, M, decrypted, pc>>
input == <<text, p_val, q_val>>
keys == <<p, q, phi, modN, e, d>>
messages == <<val, C, M, decrypted>>

-------------------------------------------------------------------------------
Signed(w) == IF w < WordSize \div 2 THEN w ELSE w - WordSize
Word(i) == i % WordSize
SignedByte(b) == IF b < ByteSize \div 2 THEN b ELSE b - ByteSize

(* divu: LO and HI, unchanged when the result is undefined.                 *)
Divu(a, b, l, h) ==
  IF b = 0 \/ (a = WordSize \div 2 /\ b = WordSize - 1) THEN <<l, h>>
  ELSE <<a \div b, a % b>>

(* multu: LO and HI.                                                        *)
Multu(a, b) == <<(a * b) % WordSize, (a * b) \div WordSize>>

(* mul: LO and HI of the signed product, in two's complement.               *)
Mul(a, b) == LET u == Signed(a) * Signed(b) IN <<Word(u), Word(u \div WordSize)>>

(* The numbers a search from n finds at the least distance.                 *)
TablePrimes == {k \in 2..(MAX_NUMBERS - 1) : IsPrime(k)}
Closest(n) == {r \in TablePrimes : \A k \in TablePrimes : Distance(r, n) <= Distance(k, n)}

(* Mutant: the search only goes upwards. *)
GetPrimeUpwards(n) ==
  IF Signed(n) >= MAX_NUMBERS THEN 0
  ELSE IF Signed(n) <= 2 THEN 2
  ELSE IF n < 5 THEN 3
  ELSE CHOOSE r \in TablePrimes : r > n - 1 /\ \A s \in TablePrimes : s > n - 1 => r <= s

(* getprime compares signed numbers.  Of two closest primes it takes the    *)
(* larger one: n-k is looked up together with n+k+1, and before it.         *)
GetPrime(n) ==
  IF Signed(n) >= MAX_NUMBERS THEN 0
  ELSE IF Signed(n) <= 2 THEN 2
  ELSE IF n < 5 THEN 3
  ELSE CHOOSE r \in Closest(n) : \A s \in Closest(n) : s <= r

(* primes[0] after a call with n: the sieve resets it.                      *)
SievedBy(n) == Signed(n) >= 5 /\ Signed(n) < MAX_NUMBERS

(* The bytes of the line in input_string, and what strlen counts of them:   *)
(* a line that does not fit is cut off before its newline.                  *)
Line == IF Len(text) + 2 <= BufferSize THEN Append(text, Newline)
        ELSE SubSeq(text, 1, BufferSize - 1)

(* Whether primes[i] is marked: all of the table is, before the sieve.      *)
Marked(i) == primes0 = 1 \/ IsPrime(i)

(* The loop of inverse on $a1, $a0, $t0, $t1, LO and HI, and its result.    *)
(* The next division finds in LO and HI what mul has left there.            *)
InverseLoop(a1, a0, l0, h0) ==
  LET Words == 0..(WordSize - 1)
      loop[s \in Words \X Words \X Int \X Int \X Words \X Words] ==
        IF Signed(s[1]) <= 1 THEN s[4]
        ELSE LET div == Divu(s[1], s[2], s[5], s[6])
                 mul == Mul(div[1], Word(s[3]))
             IN  loop[<<s[2], div[2], s[4] - div[1] * s[3], s[3], mul[1], mul[2]>>]
      x1 == loop[<<a1, a0, 0, 1, l0, h0>>]
  IN  Word(IF x1 < 0 THEN x1 + a0 ELSE x1)

(* The loop of powmod on $s0, $s1, $a1: the products are cut off at the     *)
(* word, and a modulus 0 leaves the high word of the product in HI.         *)
Powmod(a, b, mod) ==
  LET Reduce(u, v) == LET prod == Multu(u, v)
                      IN  Divu(prod[1], mod, prod[1], prod[2])[2]
      loop[s \in (0..(WordSize - 1)) \X (0..(WordSize - 1)) \X Nat] ==
        IF Signed(s[3]) <= 0 THEN s[1]
        ELSE loop[<<IF s[3] % 2 = 1 THEN Reduce(s[1], s[2]) ELSE s[1],
                    Reduce(s[2], s[2]),
                    s[3] \div 2>>]
  IN  loop[<<1, a, b>>]

-------------------------------------------------------------------------------
Init ==
  /\ text \in Texts /\ p_val \in PArgs /\ q_val \in QArgs
  /\ primes0 = 1 /\ hi = 0 /\ lo = 0
  /\ p = 0 /\ q = 0 /\ phi = 0 /\ modN = 0 /\ e = 0 /\ d = 0
  /\ val = <<>> /\ C = <<>> /\ M = <<>> /\ decrypted = <<>>
  /\ pc = "text2int"

(* strlen, "remove \n at the end of the string", text2int.                  *)
Text2Int ==
  /\ pc = "text2int"
  /\ val' = [Line EXCEPT ![Len(Line)] = 0]
  /\ pc' = "p"
  /\ UNCHANGED <<input, primes0, hi, lo, keys, C, M, decrypted>>

GetP ==
  /\ pc = "p"
  /\ p' = GetPrime(p_val)
  /\ primes0' = IF SievedBy(p_val) THEN 0 ELSE primes0
  /\ pc' = "q"
  /\ UNCHANGED <<input, hi, lo, q, phi, modN, e, d, messages>>

GetQ ==
  /\ pc = "q"
  /\ q' = GetPrime(q_val)
  /\ primes0' = IF SievedBy(q_val) THEN 0 ELSE primes0
  /\ pc' = "totient"
  /\ UNCHANGED <<input, hi, lo, p, phi, modN, e, d, messages>>

(* Mutant: both results are taken from the first product. *)
TotientTwice ==
  /\ pc = "totient"
  /\ LET product == Multu(Word(p - 1), Word(q - 1))
     IN  phi' = product[1] /\ modN' = product[1] /\ lo' = product[1] /\ hi' = product[2]
  /\ pc' = "publicExp"
  /\ UNCHANGED <<input, primes0, p, q, e, d, messages>>

(* Two products, the second one only if the first fits in a word.           *)
Totient ==
  /\ pc = "totient"
  /\ LET ofPhi == Multu(Word(p - 1), Word(q - 1))
         ofN == Multu(p, q)
         last == IF ofPhi[2] = 0 THEN ofN ELSE ofPhi
     IN  /\ phi' = IF last[2] = 0 THEN ofPhi[1] ELSE 0
         /\ modN' = IF last[2] = 0 THEN ofN[1] ELSE 0
         /\ lo' = last[1] /\ hi' = last[2]
  /\ pc' = "publicExp"
  /\ UNCHANGED <<input, primes0, p, q, e, d, messages>>

Candidates == {i \in 2..(MAX_NUMBERS - 1) : i < Signed(phi) /\ Coprime(i, phi) /\ Marked(i)}

(* Mutant: the comparison with 1 is gone, every marked number will do. *)
PublicExpAny ==
  /\ pc = "publicExp"
  /\ e' = 2
  /\ pc' = "inverse"
  /\ UNCHANGED <<input, primes0, hi, lo, p, q, phi, modN, d, messages>>

(* The loop of publicExp; when it runs out it returns its counter.          *)
PublicExp ==
  /\ pc = "publicExp"
  /\ e' = IF Candidates # {} THEN CHOOSE i \in Candidates : \A k \in Candidates : i <= k
          ELSE IF Signed(phi) > 2 THEN phi ELSE 2
  /\ pc' = "inverse"
  /\ UNCHANGED <<input, primes0, hi, lo, p, q, phi, modN, d, messages>>

Inverse ==
  /\ pc = "inverse"
  /\ d' = IF phi = 1 THEN 1 ELSE InverseLoop(e, phi, lo, hi)
  /\ pc' = "encrypt"
  /\ UNCHANGED <<input, primes0, hi, lo, p, q, phi, modN, e, messages>>

Encrypt ==
  /\ pc = "encrypt"
  /\ C' = [k \in DOMAIN val |-> Powmod(val[k], e, modN)]
  /\ pc' = "decrypt"
  /\ UNCHANGED <<input, primes0, hi, lo, keys, val, M, decrypted>>

Decrypt ==
  /\ pc = "decrypt"
  /\ M' = [k \in DOMAIN C |-> Powmod(C[k], d, modN)]
  /\ pc' = "int2text"
  /\ UNCHANGED <<input, primes0, hi, lo, keys, val, C, decrypted>>

(* int2text keeps the low byte of every number.                             *)
Int2Text ==
  /\ pc = "int2text"
  /\ decrypted' = [k \in DOMAIN M |-> M[k] % ByteSize]
  /\ pc' = "done"
  /\ UNCHANGED <<input, primes0, hi, lo, keys, val, C, M>>

Next ==
  Text2Int \/ GetP \/ GetQ \/ Totient \/ PublicExp \/ Inverse \/ Encrypt \/ Decrypt \/ Int2Text

Spec == Init /\ [][Next]_vars

-------------------------------------------------------------------------------
Usable ==
  /\ IsPrime(p) /\ IsPrime(q) /\ p # q
  /\ (modN - 1) * (modN - 1) < WordSize
  /\ ByteSize <= modN

(* For usable keys every line that fits in the buffer is decrypted to       *)
(* itself, bytes with the high bit set included.                            *)
RoundTrip ==
  pc = "done" /\ Usable /\ Len(text) + 2 <= BufferSize => decrypted = Append(text, 0)

(* The exponent is prime and coprime to the totient whether or not the      *)
(* table was sieved: the least number above 1 that is coprime to another is *)
(* prime, so the test of primes[i] in publicExp decides nothing.            *)
ExponentPrime ==
  pc \in {"inverse", "encrypt"} /\ phi > 2 /\ p # 0 /\ q # 0 =>
    IsPrime(e) /\ Coprime(e, phi)

(* The inputs on which the two programs are meant to do the same: a number  *)
(* from 5 on has one closest prime in the table of rsa.s, and the search of *)
(* C meets a prime before the end of its own, smaller table.  For tables of *)
(* 1200 and 1500 numbers this ends at 1196: from there on C may take the    *)
(* byte behind its table for a prime, and beyond 1200 it answers 0, where   *)
(* rsa.s finds primes up to 1499.  The programs also differ on a tie of two *)
(* primes, which C resolves to the smaller one (C/RSA.c:175) and MIPS to    *)
(* the larger (test/test.py:89); on chars with the high bit, which C        *)
(* sign-extends; on lines that do not fit; and on the totient 2, where C    *)
(* divides by zero.                                                         *)
Comparable ==
  /\ \A k \in DOMAIN text : text[k] < ByteSize \div 2
  /\ Len(text) + 2 <= BufferSize
  /\ \A n \in {p_val, q_val} :
        n >= 5 => WithinReach(n, C_MAX_NUMBERS) /\ \E r \in Closest(n) : Closest(n) = {r}
  /\ {GetPrime(p_val), GetPrime(q_val)} # {2, 3}

(* The program of C/main.c on this input, with the table and the random     *)
(* numbers of C.  Its chars are the bytes, read as signed numbers.          *)
CProgram == INSTANCE RSA WITH
  MAX_NUMBERS <- C_MAX_NUMBERS,
  filled <- primes0 = 0,
  decrypted <- [k \in DOMAIN decrypted |-> SignedByte(decrypted[k])],
  CharLimit <- ByteSize \div 2
===============================================================================
