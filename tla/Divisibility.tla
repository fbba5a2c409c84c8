----------------------------- MODULE Divisibility -----------------------------
(***************************************************************************)
(* The number theory the properties of the RSA modules are stated with.    *)
(* Nothing here models code: these are the reference definitions that the  *)
(* loops of C/RSA.c are compared with.                                     *)
(***************************************************************************)
EXTENDS Integers

(* d divides n, for naturals d and n; only 0 is divided by 0. *)
Divides(d, n) == \E q \in 0..n : n = d * q

(* g is the greatest common divisor of m and n, by its universal property. *)
IsGCD(g, m, n) ==
  /\ Divides(g, m)
  /\ Divides(g, n)
  /\ \A d \in 1..(m + n) : Divides(d, m) /\ Divides(d, n) => Divides(d, g)

Coprime(m, n) == \A d \in 1..m : Divides(d, m) /\ Divides(d, n) => d = 1

IsPrime(n) == n > 1 /\ \A d \in 2..(n - 1) : ~ Divides(d, n)

Distance(k, m) == IF k < m THEN m - k ELSE k - m

(* r is the prime below size closest to m, the smaller one of two at the    *)
(* same distance.                                                           *)
IsClosest(r, m, size) ==
  /\ r \in 2..(size - 1) /\ IsPrime(r)
  /\ \A k \in 2..(size - 1) :
        IsPrime(k) => \/ Distance(r, m) < Distance(k, m)
                      \/ Distance(r, m) = Distance(k, m) /\ r <= k

(* A search from m in both directions meets a prime below size no later     *)
(* than it meets size itself.                                               *)
WithinReach(m, size) ==
  \E k \in 2..(size - 1) : IsPrime(k) /\ m + Distance(k, m) <= size

(* m and n leave the same remainder modulo k, for integers m and n. *)
Congruent(m, n, k) == (m - n) % k = 0
===============================================================================
