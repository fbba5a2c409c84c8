------------------------------ MODULE MC_Assembler ------------------------------
(* Two names, two files, five lines.  The data segment has four bytes before *)
(* it must grow, by four at a time; the small data have room for one item of *)
(* two bytes, and the next .lcomm goes to the data segment.  The names are   *)
(* interchangeable.                                                          *)
EXTENDS Assembler, TLC

CONSTANTS x, y
TwoNames == {x, y}
NameSymmetry == Permutations(TwoNames)
===============================================================================
