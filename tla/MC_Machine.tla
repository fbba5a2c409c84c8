------------------------------- MODULE MC_Machine -------------------------------
(* Words of 8 bits, bytes of 2: immediate fields have 4 bits. *)
EXTENDS Machine

Line(op, regs, imm, form, known) ==
  [op |-> op, d |-> regs[1], s |-> regs[2], t |-> regs[3], imm |-> imm, form |-> form, known |-> known]

Constants == {0, 1, 7, 8, 15, 16, 127, 128, 129, 240, 248, 255}
Offsets == {0, 1, 4, 9, 120, 132, 247, 252}
Aliases == {<<2, 3, 4>>, <<2, 2, 4>>, <<2, 3, 2>>, <<2, 3, 3>>, <<2, 2, 2>>, <<0, 3, 4>>, <<2, 0, 3>>, <<2, 3, 0>>}
Pairs2 == {<<2, 3, 0>>, <<2, 2, 0>>, <<0, 3, 0>>, <<2, 0, 0>>}

SmallLines ==
  {Line(op, r, 0, "reg", TRUE) : op \in OnRegisters \cup MOVEC_OPS, r \in Aliases}
    \cup {Line(op, r, i, "imm", TRUE) : op \in (OnRegisters \cup IMMEDIATE_OPS) \ DIV_POPS, r \in Pairs2, i \in Constants}
    \cup {Line(op, r, i, "imm", TRUE) : op \in DIV_POPS, r \in Pairs2, i \in Constants \ {0}}
    \cup {Line(op, r, i, "imm", known) :
            op \in {"li", "la", "add", "and", "sltu"}, r \in Pairs2, i \in Constants, known \in BOOLEAN}
    \cup {Line("lui", <<2, 0, 0>>, i, "imm", TRUE) : i \in 0..15}
    \cup {Line(op, r, 0, "reg", TRUE) : op \in UNARY_POPS \cup COUNT_LEADING_OPS, r \in Pairs2}
    \cup {Line(op, r, 0, "reg", TRUE) :
            op \in MULT_OPS \cup HILO_DIVIDES, r \in {<<0, 3, 4>>, <<0, 3, 3>>, <<0, 3, 0>>}}
    \cup {Line(op, <<2, 3, 0>>, 0, "reg", TRUE) : op \in MOVE_FROM_HILO_OPS \cup MOVE_TO_HILO_OPS}
    \cup {Line(op, r, 0, "reg", TRUE) : op \in RegisterBranches, r \in {<<31, 3, 4>>, <<3, 3, 0>>}}
    \cup {Line(op, <<0, 3, 0>>, i, "imm", TRUE) : op \in ImmediateBranches \ Traps, i \in Constants}
    \cup {Line(op, <<0, 3, 0>>, i, "imm", TRUE) : op \in ImmediateTraps, i \in {0, 1, 7, 248, 255}}
    \cup {Line(op, r, i, "imm", known) :
            op \in MemoryLines, r \in {<<2, 3, 0>>, <<3, 3, 0>>, <<2, 0, 0>>}, i \in Offsets, known \in BOOLEAN}

SmallProducts == {<<0, 0>>, <<0, 255>>, <<255, 255>>, <<128, 1>>}
SmallContents == [x \in 132..139 |-> CASE x % 4 = 0 -> 1 [] x % 4 = 1 -> 2 [] x % 4 = 2 -> 3 [] x % 4 = 3 -> 0]
===============================================================================
