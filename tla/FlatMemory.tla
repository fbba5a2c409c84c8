------------------------------- MODULE FlatMemory -------------------------------
(***************************************************************************)
(* What a program may expect of its data memory: one array of bytes, all   *)
(* zero at the start, in which a read returns what the last write to each  *)
(* byte left there.  An access may be refused, but not one that lies where *)
(* the program has already been.                                           *)
(***************************************************************************)
EXTENDS Integers

CONSTANTS
  UserAddrs,      \* the addresses a program may keep data at
  Given           \* those it may use from the start

VARIABLES
  flat,           \* the byte at every user address
  reached,        \* the addresses no access may be refused at any more
  answer          \* what the last operation returned

vars == <<flat, reached, answer>>

(* The n bytes of an access at address at, their values in the memory f, and *)
(* f with other values there.                                                *)
Cells(at, n) == at..(at + n - 1)
Get(f, at, n) == [k \in 0..(n - 1) |-> f[at + k]]
Put(f, at, n, bytes) ==
  [a \in UserAddrs |-> IF a \in Cells(at, n) THEN bytes[a - at] ELSE f[a]]

Init ==
  /\ flat = [a \in UserAddrs |-> 0]
  /\ reached = Given
  /\ answer.op = "none"

(* The addresses of S are reached by now, and perhaps others. *)
Reaches(S) == reached \cup S \subseteq reached'

Read ==
  /\ answer'.op = "read" /\ answer'.outcome = "ok"
  /\ Cells(answer'.at, answer'.n) \subseteq UserAddrs
  /\ answer'.bytes = Get(flat, answer'.at, answer'.n)
  /\ Reaches(Cells(answer'.at, answer'.n))
  /\ UNCHANGED flat

Write ==
  /\ answer'.op = "write" /\ answer'.outcome = "ok"
  /\ Cells(answer'.at, answer'.n) \subseteq UserAddrs
  /\ flat' = Put(flat, answer'.at, answer'.n, answer'.bytes)
  /\ Reaches(Cells(answer'.at, answer'.n))

(* An access is refused: unaligned, or where the program has not been.     *)
Refuse ==
  /\ answer'.op \in {"read", "write"} /\ answer'.outcome # "ok"
  /\ ~ (answer'.at % answer'.n = 0 /\ Cells(answer'.at, answer'.n) \subseteq reached)
  /\ UNCHANGED <<flat, reached>>

(* An access to another part of the memory. *)
Elsewhere ==
  /\ answer'.op \in {"read", "write"}
  /\ answer'.at \notin UserAddrs
  /\ UNCHANGED <<flat, reached>>

(* More memory is handed out, or none. *)
Grow ==
  /\ answer'.op = "grow"
  /\ Reaches({})
  /\ UNCHANGED flat

Reset == Init'

Next == Read \/ Write \/ Refuse \/ Elsewhere \/ Grow \/ Reset

Spec == Init /\ [][Next]_vars
===============================================================================
