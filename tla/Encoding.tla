-------------------------------- MODULE Encoding --------------------------------
(***************************************************************************)
(* The words that stand for instructions in memory.  They are what a       *)
(* program reads in its own text and what it may write there, by .word or  *)
(* a store: the instruction that is then executed is the decoded one.      *)
(*                                                                         *)
(* A word is a record of its fields, named after their lowest bit.  The    *)
(* fields f11, f6 and f0 share their bits with the immediate low, and all  *)
(* fields but major with the target of a jump, which is low here; no type  *)
(* of instruction uses both.  Jumps go to the first 2^26 bytes of their    *)
(* segment: inst_decode masks the target with 0x2ffffff, without bit 24.   *)
(***************************************************************************)
EXTENDS PseudoInstructions

SPECIAL == 0
REGIMM == 1
SPECIAL2 == 28

(* The type of every integer instruction and its opcode: the upper six bits  *)
(* and the field of SPECIAL, SPECIAL2 and REGIMM in which it is continued.   *)
op_h ==
  [add |-> <<"R3", 0, 32>>, addu |-> <<"R3", 0, 33>>, sub |-> <<"R3", 0, 34>>, subu |-> <<"R3", 0, 35>>,
   and |-> <<"R3", 0, 36>>, or |-> <<"R3", 0, 37>>, xor |-> <<"R3", 0, 38>>, nor |-> <<"R3", 0, 39>>,
   slt |-> <<"R3", 0, 42>>, sltu |-> <<"R3", 0, 43>>, movz |-> <<"R3", 0, 10>>, movn |-> <<"R3", 0, 11>>,
   mul |-> <<"R3", 28, 2>>, clz |-> <<"R3", 28, 32>>, clo |-> <<"R3", 28, 33>>,
   sllv |-> <<"R3sh", 0, 4>>, srlv |-> <<"R3sh", 0, 6>>, srav |-> <<"R3sh", 0, 7>>,
   sll |-> <<"R2sh", 0, 0>>, srl |-> <<"R2sh", 0, 2>>, sra |-> <<"R2sh", 0, 3>>,
   mult |-> <<"R2st", 0, 24>>, multu |-> <<"R2st", 0, 25>>, div |-> <<"R2st", 0, 26>>, divu |-> <<"R2st", 0, 27>>,
   madd |-> <<"R2st", 28, 0>>, maddu |-> <<"R2st", 28, 1>>, msub |-> <<"R2st", 28, 4>>, msubu |-> <<"R2st", 28, 5>>,
   tge |-> <<"R2st", 0, 48>>, tgeu |-> <<"R2st", 0, 49>>, tlt |-> <<"R2st", 0, 50>>, tltu |-> <<"R2st", 0, 51>>,
   teq |-> <<"R2st", 0, 52>>, tne |-> <<"R2st", 0, 54>>,
   jr |-> <<"R1s", 0, 8>>, mthi |-> <<"R1s", 0, 17>>, mtlo |-> <<"R1s", 0, 19>>,
   mfhi |-> <<"R1d", 0, 16>>, mflo |-> <<"R1d", 0, 18>>, jalr |-> <<"R2ds", 0, 9>>, break |-> <<"NOARG", 0, 13>>,
   bltz |-> <<"B1", 1, 0>>, bgez |-> <<"B1", 1, 1>>, bltzl |-> <<"B1", 1, 2>>, bgezl |-> <<"B1", 1, 3>>,
   bltzal |-> <<"B1", 1, 16>>, bgezal |-> <<"B1", 1, 17>>, bltzall |-> <<"B1", 1, 18>>, bgezall |-> <<"B1", 1, 19>>,
   blez |-> <<"B1", 6, 0>>, bgtz |-> <<"B1", 7, 0>>, blezl |-> <<"B1", 22, 0>>, bgtzl |-> <<"B1", 23, 0>>,
   beq |-> <<"B2", 4, 0>>, bne |-> <<"B2", 5, 0>>, beql |-> <<"B2", 20, 0>>, bnel |-> <<"B2", 21, 0>>,
   tgei |-> <<"I1s", 1, 8>>, tgeiu |-> <<"I1s", 1, 9>>, tlti |-> <<"I1s", 1, 10>>, tltiu |-> <<"I1s", 1, 11>>,
   teqi |-> <<"I1s", 1, 12>>, tnei |-> <<"I1s", 1, 14>>, j |-> <<"J", 2, 0>>, jal |-> <<"J", 3, 0>>,
   addi |-> <<"I2", 8, 0>>, addiu |-> <<"I2", 9, 0>>, slti |-> <<"I2", 10, 0>>, sltiu |-> <<"I2", 11, 0>>,
   andi |-> <<"I2", 12, 0>>, ori |-> <<"I2", 13, 0>>, xori |-> <<"I2", 14, 0>>, lui |-> <<"I1t", 15, 0>>,
   lb |-> <<"I2a", 32, 0>>, lh |-> <<"I2a", 33, 0>>, lwl |-> <<"I2a", 34, 0>>, lw |-> <<"I2a", 35, 0>>,
   lbu |-> <<"I2a", 36, 0>>, lhu |-> <<"I2a", 37, 0>>, lwr |-> <<"I2a", 38, 0>>, ll |-> <<"I2a", 48, 0>>,
   sb |-> <<"I2a", 40, 0>>, sh |-> <<"I2a", 41, 0>>, swl |-> <<"I2a", 42, 0>>, sw |-> <<"I2a", 43, 0>>,
   swr |-> <<"I2a", 46, 0>>, sc |-> <<"I2a", 56, 0>>]

(* What the instructions of a type have: the registers rs, rt and rd, the    *)
(* shift amount sa, the immediate, the distance or the target of a branch.   *)
FieldsOf ==
  [R3 |-> {"rs", "rt", "rd"}, R3sh |-> {"rs", "rt", "rd"}, R2sh |-> {"rt", "rd", "sa"}, R2st |-> {"rs", "rt"},
   R2ds |-> {"rs", "rd"}, R1s |-> {"rs"}, R1d |-> {"rd"}, NOARG |-> {},
   B1 |-> {"rs", "to"}, B2 |-> {"rs", "rt", "to"}, J |-> {"to"},
   I1s |-> {"rs", "imm"}, I1t |-> {"rs", "rt", "imm"}, I2 |-> {"rs", "rt", "imm"}, I2a |-> {"rs", "rt", "imm"}]

(* Mutant: the mask of a register is a bit short. *)
REGSNarrow(r) == r % 16

REGS(r) == r % 32

inst_encode(i) ==
  LET fields == FieldsOf[op_h[i.op][1]]
      major == op_h[i.op][2]
      minor == op_h[i.op][3]
      If(field, v) == IF field \in fields THEN v ELSE 0
  IN  [major |-> major,
       f21 |-> If("rs", REGS(i.rs)),
       f16 |-> If("rt", REGS(i.rt)) | (IF major = REGIMM THEN minor ELSE 0),
       f11 |-> If("rd", REGS(i.rd)),
       f6 |-> If("sa", REGS(i.shamt)),
       f0 |-> IF major = REGIMM THEN 0 ELSE minor,
       low |-> IF "imm" \in fields THEN i.imm ELSE If("to", i.to)]

(* A word that no instruction has is opcode 0, which cannot be executed.     *)
Invalid == r_type("invalid", 0, 0, 0)

inst_decode(word) ==
  LET minor == CASE word.major \in {SPECIAL, SPECIAL2} -> word.f0
                 [] word.major = REGIMM -> word.f16
                 [] OTHER -> 0
      entries == {op \in DOMAIN op_h : op_h[op][2] = word.major /\ op_h[op][3] = minor}
  IN  IF entries = {} THEN Invalid
      ELSE LET op == CHOOSE o \in entries : TRUE
               If(field, v) == IF field \in FieldsOf[op_h[op][1]] THEN v ELSE 0
           IN  [op |-> op, rs |-> If("rs", word.f21), rt |-> If("rt", word.f16), rd |-> If("rd", word.f11),
                shamt |-> If("sa", word.f6), imm |-> If("imm", word.low), to |-> If("to", word.low)]

(* The instructions of a line as they are stored, or written as words.       *)
Written(instructions) == [k \in 1..Len(instructions) |-> inst_decode(inst_encode(instructions[k]))]
===============================================================================
