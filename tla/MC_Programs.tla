------------------------------- MODULE MC_Programs -------------------------------
(* 14-bit words: products fit up to the modulus 128. 4-bit chars, on both    *)
(* sides of the sign and of the least modulus; 5 is the newline, every other *)
(* byte occurs in a line, and a buffer of 5 bytes holds lines of up to three *)
(* bytes, longer ones are cut off. A table of 16 numbers in C, which does    *)
(* not end in a prime, and of 18 in MIPS, which does: the moduli go from 4   *)
(* to 289, on both sides of the largest char and of 128. Arguments beyond    *)
(* the tables are among them, and for MIPS -1. Three rounds of either loop   *)
(* that calls: the second round is the first one that runs over words an     *)
(* earlier inner call has left on the stack.                                 *)
EXTENDS Programs

AllChars == {<<>>, <<1>>, <<5>>, <<2, 7>>, <<3, 7, 3>>, <<6, 4, 1>>, <<-8, -1>>}
AllArgs == 0..17
Lines ==
  {<<>>, <<1>>, <<2, 3, 4>>, <<6, 7, 8>>, <<9, 10, 11>>, <<12, 13, 14>>, <<15, 15>>,
   <<1, 2, 3, 4>>, <<1, 2, 3, 4, 6>>}
Args == (0..19) \cup {WordSize - 1}
===============================================================================
