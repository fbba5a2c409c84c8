--------------------------- MODULE PseudoInstructions ---------------------------
(***************************************************************************)
(* The instructions the parser stores for a line of assembler source.      *)
(* Every line is one that a programmer reads as one instruction; the       *)
(* parser replaces many of them by several, for which it may use register  *)
(* 1, the assembler's temporary.                                           *)
(*                                                                         *)
(* A line is [op, d, s, t, imm, form, known]: registers d, s, t, of which  *)
(* form "imm" replaces the last by a constant or, if it is not known, by a *)
(* symbol that is defined later as imm.  Loads and stores move register d  *)
(* and have the address imm(s).                                            *)
(***************************************************************************)
EXTENDS Instructions

-----------------------------------------------------------------------------
(* The instructions of inst.c. *)

r_type(op, rd, rs, rt) == [op |-> op, rd |-> rd, rs |-> rs, rt |-> rt, imm |-> 0, shamt |-> 0, to |-> 0]
r_sh_type(op, rd, rt, shamt) == [r_type(op, rd, 0, rt) EXCEPT !.shamt = shamt % Bits]
Immediate(op, rt, rs, half) == [r_type(op, 0, rs, rt) EXCEPT !.imm = half]
BranchTo(op, rt, rs, to) == [r_type(op, 0, rs, rt) EXCEPT !.to = to]
trap_inst == r_type("break", 0, 0, 0)
nop_inst == r_sh_type("sll", 0, 0, 0)

LoadStores == {"lb", "lbu", "lh", "lhu", "ll", "lw", "lwl", "lwr", "sb", "sc", "sh", "sw", "swl", "swr"}
SignExtending == {"addi", "addiu", "slti", "sltiu"} \cup ImmediateTraps \cup LoadStores

imm_op_to_op == [addi |-> "add", addiu |-> "addu", andi |-> "and", ori |-> "or", xori |-> "xor",
                 slti |-> "slt", sltiu |-> "sltu", sll |-> "sllv", sra |-> "srav", srl |-> "srlv"]
op_to_imm_op == [add |-> "addi", addu |-> "addiu", and |-> "andi", or |-> "ori", xor |-> "xori",
                 slt |-> "slti", sltu |-> "sltiu", sllv |-> "sll", srav |-> "sra", srlv |-> "srl"]

Const(v) == [value |-> v, known |-> TRUE]
Plus(e, n) == [e EXCEPT !.value = (@ + n) % WORD]
UpperBits(v) == v \div HALF
LowerBits(v) == v % HALF

Fits(op, v) ==
  IF op \in SignExtending THEN v < HALF \div 2 \/ v >= WORD - HALF \div 2 ELSE v < HALF

produce_immediate(e, rt) ==
  LET upper == UpperBits(e.value)
      lower == LowerBits(e.value)
  IN  CASE e.known /\ lower = 0 -> <<Immediate("lui", rt, 0, upper)>>
        [] e.known /\ lower # 0 /\ upper = 0 -> <<Immediate("ori", rt, 0, lower)>>
        [] OTHER -> <<Immediate("lui", 1, 0, upper), Immediate("ori", rt, 1, lower)>>

(* Mutant: nothing compensates for a negative lower half. *)
AdjustedUpperNot(v) == UpperBits(v)

(* The upper half for an address whose lower half a load or store will sign- *)
(* extend: high += 1 for a known value, offset += 0x10000 in the lui when    *)
(* the lower half of a symbol is resolved, which happens before the lui's.   *)
AdjustedUpper(v) ==
  (UpperBits(v) + (IF LowerBits(v) >= HALF \div 2 THEN 1 ELSE 0)) % HALF

i_type_inst_full_word(op, rt, rs, e) ==
  IF op \in LoadStores
  THEN <<Immediate("lui", 1, 0, AdjustedUpper(e.value))>>
         \o (IF rs = 0 THEN <<>> ELSE <<r_type("addu", 1, 1, rs)>>)
         \o <<Immediate(op, rt, 1, LowerBits(e.value))>>
  ELSE IF op \in {"ori", "addi", "addiu", "lui"} /\ rs = 0
  THEN produce_immediate(e, rt)
  ELSE produce_immediate(e, 1) \o <<r_type(imm_op_to_op[op], rt, rs, 1)>>

i_type_inst(op, rt, rs, e) ==
  IF e.known /\ Fits(op, e.value)
  THEN <<Immediate(op, rt, rs, LowerBits(e.value))>>
  ELSE i_type_inst_full_word(op, rt, rs, e)

-----------------------------------------------------------------------------
(* The expansions of parser.y. *)

div_inst(op, rd, rs, rt, const_divisor) ==
  (IF rd # 0 /\ ~ const_divisor THEN <<BranchTo("bne", 0, rt, 2), trap_inst>> ELSE <<>>)
    \o <<r_type(IF op \in {"div", "rem"} THEN "div" ELSE "divu", 0, rs, rt)>>
    \o (IF rd = 0 THEN <<>>
        ELSE <<r_type(IF op \in {"div", "divu"} THEN "mflo" ELSE "mfhi", rd, 0, 0)>>)

mult_inst(op, rd, rs, rt) ==
  <<r_type(IF op = "mulou" THEN "multu" ELSE "mult", 0, rs, rt)>>
    \o (IF rd = 0 THEN <<>>
        ELSE <<r_type("mfhi", 1, 0, 0)>>
               \o (IF op = "mulou" THEN <<BranchTo("beq", 0, 1, 2)>>
                   ELSE <<r_type("mflo", rd, 0, 0), r_sh_type("sra", rd, rd, Bits - 1),
                          BranchTo("beq", rd, 1, 2)>>)
               \o <<trap_inst, r_type("mflo", rd, 0, 0)>>)

set_le_inst(op, rd, rs, rt) ==
  <<BranchTo("bne", rs, rt, 3), Immediate("ori", rd, 0, 1), BranchTo("beq", 0, 0, 2),
    r_type(IF op = "sle" THEN "slt" ELSE "sltu", rd, rs, rt)>>
set_gt_inst(op, rd, rs, rt) == <<r_type(IF op = "sgt" THEN "slt" ELSE "sltu", rd, rt, rs)>>
set_ge_inst(op, rd, rs, rt) ==
  <<BranchTo("bne", rs, rt, 3), Immediate("ori", rd, 0, 1), BranchTo("beq", 0, 0, 2),
    r_type(IF op = "sge" THEN "slt" ELSE "sltu", rd, rt, rs)>>
set_eq_inst(op, rd, rs, rt) ==
  <<BranchTo("beq", rs, rt, 3), Immediate("ori", rd, 0, Bool(op # "seq")),
    BranchTo("beq", 0, 0, 2), Immediate("ori", rd, 0, Bool(op = "seq"))>>

BINARYI_OPS == {"add", "addu", "and", "xor", "or", "slt", "sltu"}
BINARYIR_OPS == {"sllv", "srav", "srlv"}
SHIFT_OPS == {"sll", "sra", "srl"}
BINARY_ARITHI_OPS == {"addi", "addiu", "slti", "sltiu"}
BINARY_LOGICALI_OPS == {"andi", "ori", "xori"}
IMMEDIATE_OPS == BINARY_ARITHI_OPS \cup BINARY_LOGICALI_OPS
BINARY_OPS == {"nor"}
SUB_OPS == {"sub", "subu"}
DIV_POPS == {"div", "divu", "rem", "remu"}
MUL_POPS == {"mulo", "mulou"}
SET_POPS == {"sle", "sleu", "sgt", "sgtu", "sge", "sgeu", "seq", "sne"}
ROTATE_POPS == {"rol", "ror"}
MOVEC_OPS == {"movn", "movz"}
COUNT_LEADING_OPS == {"clo", "clz"}
UNARY_POPS == {"abs", "neg", "negu", "not", "move"}
MULT_OPS == {"mult", "multu", "madd", "maddu", "msub", "msubu"}
MULT_OPS3 == {"mul"}
HILO_DIVIDES == {"div2", "divu2"}       \* div and divu with two operands
MOVE_FROM_HILO_OPS == {"mfhi", "mflo"}
MOVE_TO_HILO_OPS == {"mthi", "mtlo"}

set_inst(op, rd, rs, rt) ==
  CASE op \in {"sle", "sleu"} -> set_le_inst(op, rd, rs, rt)
    [] op \in {"sgt", "sgtu"} -> set_gt_inst(op, rd, rs, rt)
    [] op \in {"sge", "sgeu"} -> set_ge_inst(op, rd, rs, rt)
    [] op \in {"seq", "sne"} -> set_eq_inst(op, rd, rs, rt)

(* A constant goes to register 1 unless it is 0; symbols are never 0.       *)
IsZero(e) == e.known /\ e.value = 0
InTemporary(e) == IF IsZero(e) THEN <<>> ELSE i_type_inst("ori", 1, 0, e)
Temporary(e) == IF IsZero(e) THEN 0 ELSE 1

(* Register 0 stands for "no operand", so that an absent one is rs of 0. *)
ThreeRegisters(l) ==
  CASE l.op \in BINARYI_OPS \cup BINARY_OPS \cup SUB_OPS \cup MULT_OPS3 \cup MOVEC_OPS ->
         <<r_type(l.op, l.d, l.s, l.t)>>
    [] l.op \in BINARYIR_OPS -> <<r_type(l.op, l.d, l.t, l.s)>>
    [] l.op \in SHIFT_OPS -> <<r_type(imm_op_to_op[l.op], l.d, l.t, l.s)>>
    [] l.op \in DIV_POPS -> div_inst(l.op, l.d, l.s, l.t, FALSE)
    [] l.op \in MUL_POPS -> mult_inst(l.op, l.d, l.s, l.t)
    [] l.op \in SET_POPS -> set_inst(l.op, l.d, l.s, l.t)
    [] l.op \in ROTATE_POPS ->
         <<r_type("subu", 1, 0, l.t),
           r_type(IF l.op = "ror" THEN "sllv" ELSE "srlv", 1, 1, l.s),
           r_type(IF l.op = "ror" THEN "srlv" ELSE "sllv", l.d, l.t, l.s),
           r_type("or", l.d, l.d, 1)>>

TwoRegistersAndImmediate(l) ==
  LET e == [value |-> l.imm, known |-> l.known]
  IN  CASE l.op \in BINARYI_OPS -> i_type_inst(op_to_imm_op[l.op], l.d, l.s, e)
        [] l.op \in IMMEDIATE_OPS -> i_type_inst(l.op, l.d, l.s, e)
        [] l.op \in BINARYIR_OPS -> <<r_sh_type(op_to_imm_op[l.op], l.d, l.s, l.imm)>>
        [] l.op \in SHIFT_OPS -> <<r_sh_type(l.op, l.d, l.s, l.imm)>>
        [] l.op \in BINARY_OPS -> InTemporary(e) \o <<r_type(l.op, l.d, l.s, Temporary(e))>>
        [] l.op \in SUB_OPS ->
             i_type_inst(IF l.op = "sub" THEN "addi" ELSE "addiu", l.d, l.s, Const(Negated(l.imm)))
        [] l.op \in DIV_POPS -> i_type_inst("ori", 1, 0, e) \o div_inst(l.op, l.d, l.s, 1, TRUE)
        [] l.op \in MUL_POPS ->
             IF IsZero(e) THEN i_type_inst("ori", l.d, 0, e)
             ELSE i_type_inst("ori", 1, 0, e) \o mult_inst(l.op, l.d, l.s, 1)
        [] l.op \in MULT_OPS3 -> i_type_inst("ori", 1, 0, e) \o <<r_type(l.op, l.d, l.s, 1)>>
        [] l.op \in SET_POPS -> InTemporary(e) \o set_inst(l.op, l.d, l.s, Temporary(e))
        [] l.op \in ROTATE_POPS ->
             <<r_sh_type(IF l.op = "ror" THEN "sll" ELSE "srl", 1, l.s, 0 - l.imm),
               r_sh_type(IF l.op = "ror" THEN "srl" ELSE "sll", l.d, l.s, l.imm),
               r_type("or", l.d, l.d, 1)>>
        [] l.op = "lui" -> i_type_inst("lui", l.d, 0, e)
        [] l.op = "li" -> i_type_inst("ori", l.d, 0, e)
        [] l.op = "la" -> i_type_inst(IF l.s = 0 THEN "ori" ELSE "addi", l.d, l.s, e)

TwoRegisters(l) ==
  CASE l.op = "abs" ->
         (IF l.d = l.s THEN <<>> ELSE <<r_type("addu", l.d, 0, l.s)>>)
           \o <<BranchTo("bgez", 0, l.s, 2), r_type("sub", l.d, 0, l.s)>>
    [] l.op = "neg" -> <<r_type("sub", l.d, 0, l.s)>>
    [] l.op = "negu" -> <<r_type("subu", l.d, 0, l.s)>>
    [] l.op = "not" -> <<r_type("nor", l.d, l.s, 0)>>
    [] l.op = "move" -> <<r_type("addu", l.d, 0, l.s)>>
    [] l.op \in COUNT_LEADING_OPS -> <<r_type(l.op, l.d, l.s, l.d)>>
    [] l.op \in MULT_OPS -> <<r_type(l.op, 0, l.s, l.t)>>
    [] l.op \in HILO_DIVIDES -> <<r_type(IF l.op = "div2" THEN "div" ELSE "divu", 0, l.s, l.t)>>
    [] l.op \in MOVE_FROM_HILO_OPS -> <<r_type(l.op, l.d, 0, 0)>>
    [] l.op \in MOVE_TO_HILO_OPS -> <<r_type(l.op, 0, l.s, 0)>>

-----------------------------------------------------------------------------
(* Branches, jumps and traps. *)

UNARY_BR_OPS == {"bgez", "bgezl", "bgezal", "bgezall", "bgtz", "bgtzl", "blez", "blezl",
                 "bltz", "bltzl", "bltzal", "bltzall"}
UNARY_BR_POPS == {"beqz", "bnez"}
BINARY_BR_OPS == {"beq", "beql", "bne", "bnel"}
COMPARE_BR_POPS == {"bgt", "bgtu", "bge", "bgeu", "blt", "bltu", "ble", "bleu"}
B_OPS == {"b", "bal"}
J_OPS == {"j", "jal"}
JR_OPS == {"jr", "jalr"}
BINARY_TRAP_OPS == Traps \ ImmediateTraps

SltOf(op) == IF op \in {"bgt", "bge", "blt", "ble"} THEN "slt" ELSE "sltu"
SltiOf(op) == IF op \in {"bge", "blt"} THEN "slti" ELSE "sltiu"

BranchOnRegisters(l) ==
  CASE l.op \in UNARY_BR_OPS -> <<BranchTo(l.op, 0, l.s, Label)>>
    [] l.op \in UNARY_BR_POPS -> <<BranchTo(IF l.op = "beqz" THEN "beq" ELSE "bne", 0, l.s, Label)>>
    [] l.op \in BINARY_BR_OPS -> <<BranchTo(l.op, l.t, l.s, Label)>>
    [] l.op \in {"bgt", "bgtu"} -> <<r_type(SltOf(l.op), 1, l.t, l.s), BranchTo("bne", 0, 1, Label)>>
    [] l.op \in {"bge", "bgeu"} -> <<r_type(SltOf(l.op), 1, l.s, l.t), BranchTo("beq", 0, 1, Label)>>
    [] l.op \in {"blt", "bltu"} -> <<r_type(SltOf(l.op), 1, l.s, l.t), BranchTo("bne", 0, 1, Label)>>
    [] l.op \in {"ble", "bleu"} -> <<r_type(SltOf(l.op), 1, l.t, l.s), BranchTo("beq", 0, 1, Label)>>
    [] l.op \in B_OPS -> <<BranchTo(IF l.op = "bal" THEN "bgezal" ELSE "bgez", 0, 0, Label)>>
    [] l.op \in J_OPS -> <<BranchTo(l.op, 0, 0, Label)>>
    [] l.op = "jr" -> <<r_type("jr", 0, l.s, 0)>>
    [] l.op = "jalr" -> <<r_type("jalr", l.d, l.s, 0)>>
    [] l.op \in BINARY_TRAP_OPS -> <<r_type(l.op, 0, l.s, l.t)>>

(* Mutant: bgtu adds 1 to its constant as bgt does. *)
BranchGreaterIncremented(op, rs, e) ==
  i_type_inst(IF op = "bgt" THEN "slti" ELSE "sltiu", 1, rs, Plus(e, 1))
    \o <<BranchTo("beq", 0, 1, Label)>>

(* bgt and ble compare with the next constant; there is none for the        *)
(* greatest unsigned one, so that bgtu and bleu test for equality first.    *)
BranchGreater(op, rs, e) ==
  IF op = "bgt" THEN i_type_inst("slti", 1, rs, Plus(e, 1)) \o <<BranchTo("beq", 0, 1, Label)>>
  ELSE i_type_inst("ori", 1, 0, e)
         \o <<BranchTo("beq", rs, 1, 3), r_type("sltu", 1, rs, 1), BranchTo("beq", 0, 1, Label)>>

BranchOnImmediate(l) ==
  LET e == [value |-> l.imm, known |-> l.known]
  IN  CASE l.op \in BINARY_BR_OPS ->
             InTemporary(e) \o <<BranchTo(l.op, l.s, Temporary(e), Label)>>
        [] l.op \in {"bgt", "bgtu"} -> BranchGreater(l.op, l.s, e)
        [] l.op \in {"bge", "bgeu"} -> i_type_inst(SltiOf(l.op), 1, l.s, e) \o <<BranchTo("beq", 0, 1, Label)>>
        [] l.op \in {"blt", "bltu"} -> i_type_inst(SltiOf(l.op), 1, l.s, e) \o <<BranchTo("bne", 0, 1, Label)>>
        [] l.op = "ble" -> i_type_inst("slti", 1, l.s, Plus(e, 1)) \o <<BranchTo("bne", 0, 1, Label)>>
        [] l.op = "bleu" ->
             i_type_inst("ori", 1, 0, e)
               \o <<BranchTo("beq", l.s, 1, Label), r_type("sltu", 1, l.s, 1), BranchTo("bne", 0, 1, Label)>>
        [] l.op \in ImmediateTraps -> i_type_inst(l.op, 0, l.s, e)

-----------------------------------------------------------------------------
(* Loads and stores. *)

UNALIGNED_POPS == {"ulw", "ulh", "ulhu", "usw", "ush"}
DOUBLE_POPS == {"ld", "sd"}
MemoryLines == LoadStores \cup UNALIGNED_POPS \cup DOUBLE_POPS

(* Where the byte is that belongs to the left of a half word. *)
LeftHalf == IF spim_bigendian THEN 0 ELSE 1

(* Mutant: the source of ush is not rotated back. *)
StoreHalfRotated(d, s, e) ==
  i_type_inst("sb", d, s, e)
    \o <<r_sh_type("sll", 1, d, 3 * (Bits \div 4)), r_sh_type("srl", d, d, Bits \div 4), r_type("or", d, d, 1)>>
    \o i_type_inst("sb", d, s, Plus(e, 1))

StoreHalf(d, s, e) ==
  i_type_inst("sb", d, s, e)
    \o <<r_sh_type("sll", 1, d, 3 * (Bits \div 4)), r_sh_type("srl", d, d, Bits \div 4), r_type("or", d, d, 1)>>
    \o i_type_inst("sb", d, s, Plus(e, 1))
    \o <<r_sh_type("srl", 1, d, 3 * (Bits \div 4)), r_sh_type("sll", d, d, Bits \div 4), r_type("or", d, d, 1)>>

LoadOrStore(l) ==
  LET e == [value |-> l.imm, known |-> l.known]
      At_(op, reg, n) == i_type_inst(op, reg, l.s, Plus(e, n))
      LeftRight(left, right) ==
        IF spim_bigendian THEN At_(left, l.d, 0) \o At_(right, l.d, 3)
        ELSE At_(left, l.d, 3) \o At_(right, l.d, 0)
  IN  CASE l.op \in LoadStores -> At_(l.op, l.d, 0)
        [] l.op = "ld" -> At_("lw", l.d, 0) \o At_("lw", l.d + 1, 4)
        [] l.op = "sd" -> At_("sw", l.d, 0) \o At_("sw", l.d + 1, 4)
        [] l.op = "ulw" -> LeftRight("lwl", "lwr")
        [] l.op = "usw" -> LeftRight("swl", "swr")
        [] l.op \in {"ulh", "ulhu"} ->
             At_(IF l.op = "ulh" THEN "lb" ELSE "lbu", l.d, LeftHalf) \o At_("lbu", 1, 1 - LeftHalf)
               \o <<r_sh_type("sll", l.d, l.d, Bits \div 4), r_type("or", l.d, l.d, 1)>>
        [] l.op = "ush" -> StoreHalf(l.d, l.s, e)

-----------------------------------------------------------------------------
OnRegisters == BINARYI_OPS \cup BINARYIR_OPS \cup SHIFT_OPS \cup BINARY_OPS \cup SUB_OPS \cup DIV_POPS
                 \cup MUL_POPS \cup MULT_OPS3 \cup SET_POPS \cup ROTATE_POPS
LoadImmediates == {"lui", "li", "la"}
ImmediateBranches == BINARY_BR_OPS \cup COMPARE_BR_POPS \cup ImmediateTraps
RegisterBranches ==
  UNARY_BR_OPS \cup UNARY_BR_POPS \cup BINARY_BR_OPS \cup COMPARE_BR_POPS
    \cup B_OPS \cup J_OPS \cup JR_OPS \cup BINARY_TRAP_OPS

Expansion(l) ==
  CASE l.op \in MemoryLines -> LoadOrStore(l)
    [] l.form = "imm" /\ l.op \in ImmediateBranches -> BranchOnImmediate(l)
    [] l.form = "imm" /\ l.op \in OnRegisters \cup IMMEDIATE_OPS \cup LoadImmediates -> TwoRegistersAndImmediate(l)
    [] l.form = "reg" /\ l.op \in RegisterBranches -> BranchOnRegisters(l)
    [] l.form = "reg" /\ l.op \in OnRegisters \cup MOVEC_OPS -> ThreeRegisters(l)
    [] OTHER -> TwoRegisters(l)
===============================================================================
