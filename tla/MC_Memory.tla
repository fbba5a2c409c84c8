------------------------------- MODULE MC_Memory -------------------------------
(* Two words of text, the second without an instruction; data that may double; *)
(* a stack that grows by what is needed, then by doubling, and is then refused *)
(* growth that would fit; kernel data that may double; addresses at both ends  *)
(* of every segment and in the gaps.                                           *)
EXTENDS Memory

SmallAddrs == {1, 4, 8, 12, 20, 32, 42, 52, 56}
SmallIncrements == {-1, 1, 5}
CountingPayload == [n \in {1, 2, 4} |-> [i \in 0..(n - 1) |-> i + 1]]
===============================================================================
