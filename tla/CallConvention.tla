------------------------------ MODULE CallConvention ------------------------------
(***************************************************************************)
(* The register convention of the functions of mips/*.s, as the linker     *)
(* (test/generate_mips.py) expands it.  Every function starts with         *)
(* #PUSH_REGISTERS, which stores $s0-$s7 and $ra at $sp and moves $sp up   *)
(* by nine words, and ends with #POP_REGISTERS, which takes them back.     *)
(* main keeps its own values in $s0-$s7 across all its calls, the length   *)
(* of the message even in $t7, which nobody saves.                         *)
(*                                                                         *)
(* A register holds a value of which only the writer matters: <<f>> for the *)
(* function f that wrote it last, and for $ra the place the jal returns to. *)
(***************************************************************************)
EXTENDS Naturals, Sequences

CONSTANT MaxIterations  \* bound: the calls one loop makes to gcd or powmod

VARIABLES
  reg,       \* $s0-$s7, $ra and $t7
  sp,        \* words above the initial $sp
  stack,     \* the words at the initial $sp and above
  pc,        \* <<function, place in it, the next call if it is main>>
  iteration, \* the calls the loop of publicExp or encrypt has made
  calls      \* the calls that have not returned: what each caller left

vars == <<reg, sp, stack, pc, iteration, calls>>

-------------------------------------------------------------------------------
(* Mutant: $ra is not rescued, a function with a call inside overwrites it. *)
RescuedWithoutRa == <<"s0", "s1", "s2", "s3", "s4", "s5", "s6", "s7">>

(* rescue_registers, in their order. *)
Rescued == <<"s0", "s1", "s2", "s3", "s4", "s5", "s6", "s7", "ra">>
Saved == {"s0", "s1", "s2", "s3", "s4", "s5", "s6", "s7", "ra"}

(* The calls of main, in order, and the calls made in a loop.               *)
MainCalls == <<"strlen", "text2int", "getprime", "getprime", "totient", "publicExp",
               "inverse", "encrypt", "encrypt", "int2text">>
InnerCall == [f \in {"publicExp", "encrypt"} |-> IF f = "encrypt" THEN "powmod" ELSE "gcd"]
Functions == {MainCalls[k] : k \in DOMAIN MainCalls} \cup {"gcd", "powmod"}

(* Mutant: gcd computes in $t7. *)
WritesWithGcdInT7 == [f \in Functions |->
  CASE f \in {"getprime", "gcd"} -> {"s0", "s1", "t7"}
    [] f \in {"totient", "publicExp", "powmod"} -> {"s0", "s1"}
    [] f = "inverse" -> {"s0"}
    [] f = "encrypt" -> {"s0", "s1", "s2", "s3", "s4", "s5"}
    [] OTHER -> {}]

(* The registers the body of a function writes, $ra apart.                  *)
Writes == [f \in Functions |->
  CASE f = "getprime" -> {"s0", "s1", "t7"}
    [] f \in {"totient", "publicExp", "powmod"} -> {"s0", "s1"}
    [] f = "inverse" -> {"s0"}
    [] f = "encrypt" -> {"s0", "s1", "s2", "s3", "s4", "s5"}
    [] OTHER -> {}]

(* What main moves into registers before its k-th call, and behind the last.*)
MainWrites == <<{"s0", "s1", "s2"}, {"s4"}, {"s3"}, {"s0"}, {"s1"}, {"t7", "s4", "s5"},
                {"s6"}, {"s7", "s0"}, {"s1"}, {"s1"}>>

Written(regs, f) == [r \in DOMAIN reg |-> IF r \in regs THEN <<f>> ELSE reg[r]]

-------------------------------------------------------------------------------
Init ==
  /\ reg = [r \in Saved \cup {"t7"} |-> <<"boot">>]
  /\ sp = 0 /\ stack = <<>>
  /\ pc = <<"main", "call", 1>>
  /\ iteration = 0 /\ calls = <<>>

(* jal: the place behind it goes to $ra.  What the caller's registers hold  *)
(* is noted in calls, for the properties.                                   *)
Jal(f, regs, place) ==
  LET passed == [Written(regs, pc[1]) EXCEPT !["ra"] = place]
  IN  /\ reg' = passed
      /\ calls' = Append(calls, [back |-> place, regs |-> passed, sp |-> sp])
      /\ pc' = <<f, "push", 0>>
      /\ UNCHANGED <<sp, stack>>

CallFromMain ==
  /\ pc[2] = "call" /\ pc[3] <= Len(MainCalls)
  /\ Jal(MainCalls[pc[3]], MainWrites[pc[3]], <<"main", "call", pc[3] + 1>>)
  /\ iteration' = 0

(* The words from $sp up are set to the values of the registers in names.   *)
Stored(names) ==
  LET top == sp + Len(names)
  IN  [k \in 1..(IF top > Len(stack) THEN top ELSE Len(stack)) |->
         IF k \in (sp + 1)..top THEN reg[names[k - sp]] ELSE stack[k]]

(* #PUSH_REGISTERS: sw at 0($sp), 4($sp), ..., then addi $sp, $sp, 36.      *)
Push ==
  /\ pc[2] = "push"
  /\ stack' = Stored(Rescued)
  /\ sp' = sp + Len(Rescued)
  /\ pc' = <<pc[1], "body", 0>>
  /\ UNCHANGED <<reg, iteration, calls>>

(* One round of the loop of publicExp or encrypt.                           *)
CallFromLoop ==
  /\ pc[2] = "body" /\ pc[1] \in DOMAIN InnerCall /\ iteration < MaxIterations
  /\ Jal(InnerCall[pc[1]], Writes[pc[1]], pc)
  /\ iteration' = iteration + 1

(* The body of a function, or its last round, ends.                         *)
Body ==
  /\ pc[2] = "body"
  /\ reg' = Written(Writes[pc[1]], pc[1])
  /\ pc' = <<pc[1], "pop", 0>>
  /\ UNCHANGED <<sp, stack, iteration, calls>>

Restored(from) ==
  [r \in DOMAIN reg |->
     IF \E k \in DOMAIN Rescued : Rescued[k] = r
     THEN stack[from + (CHOOSE k \in DOMAIN Rescued : Rescued[k] = r)]
     ELSE reg[r]]

(* Mutant: the registers are loaded before $sp is moved back by all words. *)
PopOneWordShort ==
  /\ pc[2] = "pop"
  /\ sp' = sp - (Len(Rescued) - 1)
  /\ reg' = Restored(sp - Len(Rescued))
  /\ pc' = <<pc[1], "return", 0>>
  /\ UNCHANGED <<stack, iteration, calls>>

(* #POP_REGISTERS: addi $sp, $sp, -36, then lw from 0($sp), 4($sp), ...     *)
Pop ==
  /\ pc[2] = "pop"
  /\ sp' = sp - Len(Rescued)
  /\ reg' = Restored(sp - Len(Rescued))
  /\ pc' = <<pc[1], "return", 0>>
  /\ UNCHANGED <<stack, iteration, calls>>

(* jr $ra. *)
Return ==
  /\ pc[2] = "return"
  /\ pc' = reg["ra"]
  /\ calls' = SubSeq(calls, 1, Len(calls) - 1)
  /\ UNCHANGED <<reg, sp, stack, iteration>>

Next == CallFromMain \/ CallFromLoop \/ Push \/ Body \/ Pop \/ Return

Spec == Init /\ [][Next]_vars

-------------------------------------------------------------------------------
Caller == calls[Len(calls)]

(* jr $ra goes back behind the jal, however deep the calls were nested.     *)
ReturnsToCaller == pc[2] = "return" => reg["ra"] = Caller.back

(* A function returns with $s0-$s7 and $sp as it was called: main keeps the *)
(* keys and the arrays in them across every call.                           *)
CallerStateKept ==
  pc[2] = "return" =>
    /\ sp = Caller.sp
    /\ \A r \in Saved \ {"ra"} : reg[r] = Caller.regs[r]

(* The length of the message, which main keeps in $t7 across publicExp and  *)
(* inverse (rsa.s:111, 139), is still there when it is read.                *)
LengthKept == pc \in {<<"main", "call", 7>>, <<"main", "call", 8>>} => reg["t7"] = <<"main">>
===============================================================================
