------------------------------ MODULE MC_RunLoop -------------------------------
(* Programs of two and three instructions: a fault in the middle, in a delay  *)
(* slot and in a loop, jumps in one another's delay slots, a jump to a        *)
(* misaligned address, ones that run off their end and ones that exit.        *)
EXTENDS RunLoop

I(op) == [op |-> op, to |-> 0]
J(to) == [op |-> "jump", to |-> to]

SmallPrograms ==
  {<<I("enable"), I("fault"), J(4)>>,
   <<I("enable"), J(4), I("fault")>>,
   <<J(4), J(2), I("plain")>>,
   <<I("enable"), J(3)>>,
   <<I("enable"), I("plain"), I("exit")>>}
================================================================================
