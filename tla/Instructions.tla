------------------------------ MODULE Instructions ------------------------------
(***************************************************************************)
(* One iteration of the loop of run_spim for every integer instruction of  *)
(* the processor: registers, HI and LO, data memory, branches, traps and   *)
(* the two-element shift register of delayed loads.  Exceptions end the    *)
(* execution here (RunLoop takes them), branches have no delay slot (see   *)
(* RunLoop), text and the segments' limits are in Memory.                  *)
(*                                                                         *)
(* A word has four bytes and eight bits instead of 32: bytes are numbers   *)
(* below BYTE, immediate fields numbers below HALF = BYTE^2.               *)
(***************************************************************************)
EXTENDS Multiply, Bitwise, Sequences

CONSTANTS
  BYTE,        \* 2^8 in the code
  Bits,        \* bits of a word: 32 in the code
  Addresses,   \* the addresses of data memory
  TEXT_BOT,    \* where the program starts
  Label,       \* the address of the label branches and jumps go to
  None         \* NULL

ASSUME InstructionAssumption ==
  /\ BYTE * BYTE = HALF /\ 2^Bits = WORD
  /\ Addresses \subseteq Words /\ \A x \in Addresses, k \in 0..3 : x - (x % 4) + k \in Addresses

Registers == 0..5 \cup {31}
BYTES_PER_WORD == 4

VARIABLES
  code,            \* the instructions in memory from TEXT_BOT on
  R, HI, LO, PC,
  mem,
  raised,          \* the exception that ended the execution, or "none"
  delayed_loads,   \* whether loads take effect one instruction late
  spim_bigendian,  \* SPIM_BIGENDIAN: the byte order of the build
  load1, load2     \* the loads of the last and of the last but one instruction

vars == <<code, R, HI, LO, PC, mem, raised, delayed_loads, spim_bigendian, load1, load2>>

InText == PC \in TEXT_BOT..(TEXT_BOT + BYTES_PER_WORD * Len(code) - 1)
Executing == raised = "none" /\ InText
inst == code[((PC - TEXT_BOT) \div BYTES_PER_WORD) + 1]

-----------------------------------------------------------------------------
(* What is common to all instructions. *)

(* The registers an instruction sees: register 0 is reset first, then the   *)
(* load of the last but one instruction arrives (in register 0 too).        *)
Regs ==
  LET fixed == [R EXCEPT ![0] = 0]
  IN  IF delayed_loads /\ load2 # None THEN [fixed EXCEPT ![load2.reg] = load2.value] ELSE fixed

(* DO_DELAYED_UPDATE and LOAD_INST_BASE, as far as the slots go. *)
LoadSlots(load) ==
  /\ load2' = IF delayed_loads THEN load1 ELSE None
  /\ load1' = IF delayed_loads THEN load ELSE None
Configured == UNCHANGED <<code, delayed_loads, spim_bigendian>>

NextInstruction == PC' = PC + BYTES_PER_WORD

SignExtended(half) == IF half >= HALF \div 2 THEN half + WORD - HALF ELSE half
Bool(b) == IF b THEN 1 ELSE 0
RsValue == Regs[inst.rs]

(* An instruction that only writes v to one register. *)
Writes(reg, v) ==
  /\ R' = [Regs EXCEPT ![reg] = v]
  /\ NextInstruction
  /\ LoadSlots(None)
  /\ Configured /\ UNCHANGED <<HI, LO, mem, raised>>

(* RAISE_EXCEPTION, before or instead of anything else the instruction does. *)
Raises(excode) ==
  /\ raised' = excode
  /\ R' = Regs
  /\ NextInstruction
  /\ LoadSlots(None)
  /\ Configured /\ UNCHANGED <<HI, LO, mem>>

-----------------------------------------------------------------------------
(* Arithmetic and logic. *)

(* ARITH_OVFL *)
Overflows(result, x, y) == Negative(x) = Negative(y) /\ Negative(x) # Negative(result)

Add ==
  /\ inst.op \in {"add", "addi"}
  /\ LET b == IF inst.op = "addi" THEN SignExtended(inst.imm) ELSE Regs[inst.rt]
         sum == (RsValue + b) % WORD
     IN  IF Overflows(sum, RsValue, b) THEN Raises("Ov")
         ELSE Writes(IF inst.op = "addi" THEN inst.rt ELSE inst.rd, sum)

AddAnd ==
  \/ inst.op = "addiu" /\ Writes(inst.rt, (RsValue + SignExtended(inst.imm)) % WORD)
  \/ inst.op = "addu" /\ Writes(inst.rd, (RsValue + Regs[inst.rt]) % WORD)
  \/ inst.op = "and" /\ Writes(inst.rd, RsValue & Regs[inst.rt])
  \/ inst.op = "andi" /\ Writes(inst.rt, RsValue & inst.imm)

Break == inst.op = "break" /\ Raises("Bp")

(* The position of the first bit from the left that is not equal to bit. *)
LeadingBits(v, bit) ==
  LET Same(n) == \A i \in (Bits - n)..(Bits - 1) : (v \div 2^i) % 2 = bit
  IN  CHOOSE n \in 0..Bits : Same(n) /\ (n = Bits \/ ~ Same(n + 1))
CountLeading == inst.op \in {"clo", "clz"} /\ Writes(inst.rd, LeadingBits(RsValue, IF inst.op = "clo" THEN 1 ELSE 0))

ConditionalMove ==
  /\ inst.op \in {"movn", "movz"}
  /\ IF (Regs[inst.rt] = 0) = (inst.op = "movz") THEN Writes(inst.rd, RsValue)
     ELSE Writes(inst.rd, Regs[inst.rd])

NorOr ==
  \/ inst.op = "nor" /\ Writes(inst.rd, Complement(RsValue | Regs[inst.rt]))
  \/ inst.op = "or" /\ Writes(inst.rd, RsValue | Regs[inst.rt])
  \/ inst.op = "ori" /\ Writes(inst.rt, RsValue | inst.imm)
ExclusiveOr ==
  \/ inst.op = "xor" /\ Writes(inst.rd, RsValue ^^ Regs[inst.rt])
  \/ inst.op = "xori" /\ Writes(inst.rt, RsValue ^^ inst.imm)
LoadUpper == inst.op = "lui" /\ Writes(inst.rt, inst.imm * HALF)

ShiftLeft ==
  LET shamt == IF inst.op = "sll" THEN inst.shamt ELSE RsValue % Bits
  IN  inst.op \in {"sll", "sllv"} /\ Writes(inst.rd, (Regs[inst.rt] * 2^shamt) % WORD)
(* sra and srav shift a signed word, srl and srlv an unsigned one. *)
ShiftRight ==
  LET shamt == IF inst.op \in {"sra", "srl"} THEN inst.shamt ELSE RsValue % Bits
      val == Regs[inst.rt]
  IN  \/ inst.op \in {"sra", "srav"} /\ Writes(inst.rd, (Signed(val) \div 2^shamt) % WORD)
      \/ inst.op \in {"srl", "srlv"} /\ Writes(inst.rd, val \div 2^shamt)

SetLess ==
  \/ inst.op = "slt" /\ Writes(inst.rd, Bool(Signed(RsValue) < Signed(Regs[inst.rt])))
  \/ inst.op = "slti" /\ Writes(inst.rt, Bool(Signed(RsValue) < Signed(SignExtended(inst.imm))))
  \/ inst.op = "sltiu" /\ Writes(inst.rt, Bool(RsValue < SignExtended(inst.imm)))
  \/ inst.op = "sltu" /\ Writes(inst.rd, Bool(RsValue < Regs[inst.rt]))

Subtract ==
  LET b == Regs[inst.rt]
      diff == (RsValue - b) % WORD
  IN  \/ /\ inst.op = "sub"
         /\ IF Negative(RsValue) # Negative(b) /\ Negative(RsValue) # Negative(diff)
            THEN Raises("Ov") ELSE Writes(inst.rd, diff)
      \/ inst.op = "subu" /\ Writes(inst.rd, diff)

-----------------------------------------------------------------------------
(* HI and LO. *)

SetsHiLo(hi, lo) ==
  /\ HI' = hi /\ LO' = lo
  /\ R' = Regs
  /\ NextInstruction
  /\ LoadSlots(None)
  /\ Configured /\ UNCHANGED <<mem, raised>>

(* C's division, which rounds towards zero. *)
Quotient(x, y) ==
  LET Abs(n) == IF n < 0 THEN - n ELSE n
      q == Abs(x) \div Abs(y)
  IN  IF (x < 0) = (y < 0) THEN q ELSE - q
(* Both tests are in div and in divu. *)
Undefined(x, y) == y = 0 \/ (x = WORD \div 2 /\ y = WORD - 1)
Divide ==
  LET b == Regs[inst.rt]
  IN  /\ inst.op \in {"div", "divu"}
      /\ CASE Undefined(RsValue, b) -> SetsHiLo(HI, LO)
           [] ~ Undefined(RsValue, b) /\ inst.op = "div" ->
                LET q == Quotient(Signed(RsValue), Signed(b))
                IN  SetsHiLo((Signed(RsValue) - q * Signed(b)) % WORD, q % WORD)
           [] ~ Undefined(RsValue, b) /\ inst.op = "divu" -> SetsHiLo(RsValue % b, RsValue \div b)

Product(signed) == IF signed THEN signed_multiply(RsValue, Regs[inst.rt]) ELSE unsigned_multiply(RsValue, Regs[inst.rt])
HiLo == [hi |-> HI, lo |-> LO]
MultiplyAdd ==
  /\ inst.op \in {"madd", "maddu"}
  /\ LET sum == Accumulated(HiLo, Product(inst.op = "madd")) IN SetsHiLo(sum.hi, sum.lo)
MultiplySubtract ==
  /\ inst.op \in {"msub", "msubu"}
  /\ LET difference == Reduced(HiLo, Product(inst.op = "msub")) IN SetsHiLo(difference.hi, difference.lo)
MultiplyWords ==
  /\ inst.op \in {"mult", "multu"}
  /\ LET p == Product(inst.op = "mult") IN SetsHiLo(p.hi, p.lo)
(* mul leaves the product in HI and LO too. *)
MultiplyToRegister ==
  /\ inst.op = "mul"
  /\ LET p == Product(TRUE)
     IN  HI' = p.hi /\ LO' = p.lo /\ R' = [Regs EXCEPT ![inst.rd] = p.lo]
  /\ NextInstruction
  /\ LoadSlots(None)
  /\ Configured /\ UNCHANGED <<mem, raised>>
MoveFromHiLo == inst.op \in {"mfhi", "mflo"} /\ Writes(inst.rd, IF inst.op = "mfhi" THEN HI ELSE LO)
MoveToHiLo ==
  \/ inst.op = "mthi" /\ SetsHiLo(RsValue, LO)
  \/ inst.op = "mtlo" /\ SetsHiLo(HI, RsValue)

-----------------------------------------------------------------------------
(* Branches, jumps and traps. *)

LikelyBranches == {"beql", "bnel", "bgezl", "bgtzl", "blezl", "bltzl", "bgezall", "bltzall"}
LinkingBranches == {"bgezal", "bgezall", "bltzal", "bltzall"}
Taken(op, x, y) ==
  CASE op \in {"beq", "beql"} -> x = y
    [] op \in {"bne", "bnel"} -> x # y
    [] op \in {"bgez", "bgezl", "bgezal", "bgezall"} -> ~ Negative(x)
    [] op \in {"bgtz", "bgtzl"} -> x # 0 /\ ~ Negative(x)
    [] op \in {"blez", "blezl"} -> x = 0 \/ Negative(x)
    [] op \in {"bltz", "bltzl", "bltzal", "bltzall"} -> Negative(x)
Branches == LikelyBranches \cup LinkingBranches \cup {"beq", "bne", "bgez", "bgtz", "blez", "bltz"}

(* inst.to is a distance in instructions, or Label. *)
BranchTarget == IF inst.to = Label THEN Label ELSE PC + BYTES_PER_WORD * inst.to

Control(regs, pc) ==
  /\ R' = regs
  /\ PC' = pc
  /\ LoadSlots(None)
  /\ Configured /\ UNCHANGED <<HI, LO, mem, raised>>

(* BRANCH_INST: the link is written before the test, whatever its result; a  *)
(* likely branch that is not taken skips the instruction behind it.          *)
Branch ==
  /\ inst.op \in Branches
  /\ LET linked == IF inst.op \in LinkingBranches THEN [Regs EXCEPT ![31] = PC + BYTES_PER_WORD] ELSE Regs
     IN  Control(linked,
                 IF Taken(inst.op, linked[inst.rs], linked[inst.rt]) THEN BranchTarget
                 ELSE IF inst.op \in LikelyBranches THEN PC + 2 * BYTES_PER_WORD
                 ELSE PC + BYTES_PER_WORD)

Jump ==
  \/ inst.op \in {"j", "jal"} /\ Control(IF inst.op = "jal" THEN [Regs EXCEPT ![31] = PC + BYTES_PER_WORD] ELSE Regs, Label)
  \/ inst.op = "jalr" /\ Control([Regs EXCEPT ![inst.rd] = PC + BYTES_PER_WORD], RsValue)
  \/ inst.op = "jr" /\ Control(Regs, RsValue)

Traps == {"teq", "teqi", "tge", "tgei", "tgeu", "tgeiu", "tlt", "tlti", "tltu", "tltiu", "tne", "tnei"}
ImmediateTraps == {"teqi", "tgei", "tgeiu", "tlti", "tltiu", "tnei"}
TrapHolds(op, x, y) ==
  CASE op \in {"teq", "teqi"} -> x = y
    [] op \in {"tge", "tgei"} -> Signed(x) >= Signed(y)
    [] op \in {"tgeu", "tgeiu"} -> x >= y
    [] op \in {"tlt", "tlti"} -> Signed(x) < Signed(y)
    [] op \in {"tltu", "tltiu"} -> x < y
    [] op \in {"tne", "tnei"} -> x # y
Trap ==
  /\ inst.op \in Traps
  /\ LET b == IF inst.op \in ImmediateTraps THEN SignExtended(inst.imm) ELSE Regs[inst.rt]
     IN  IF TrapHolds(inst.op, RsValue, b) THEN Raises("Tr") ELSE Control(Regs, PC + BYTES_PER_WORD)

-----------------------------------------------------------------------------
(* Loads and stores. *)

Address == (RsValue + SignExtended(inst.imm)) % WORD
WordAddress == Address - (Address % 4)
Byte == Address % 4

Faults(addr, size) == addr % size # 0 \/ addr \notin Addresses
Fault(addr, size, store) ==
  CASE addr % size # 0 -> IF store THEN "AdES" ELSE "AdEL"
    [] addr % size = 0 /\ addr \notin Addresses -> "DBE"
    [] OTHER -> "none"

(* The k-th byte from the right of a number of so many bytes at addr. *)
At(addr, size, k) == addr + (IF spim_bigendian THEN size - 1 - k ELSE k)
ReadMem(addr, size) ==
  IF Faults(addr, size) THEN 0
  ELSE LET B(k) == IF k < size THEN mem[At(addr, size, k)] * BYTE^k ELSE 0
       IN  B(0) + B(1) + B(2) + B(3)
WriteMem(addr, size, v) ==
  [x \in Addresses |-> IF x \in addr..(addr + size - 1)
                       THEN LET k == IF spim_bigendian THEN addr + size - 1 - x ELSE x - addr
                            IN  (v \div BYTE^k) % BYTE
                       ELSE mem[x]]

(* LOAD_INST: a load that faults writes 0. *)
Loads(reg, v, fault) ==
  /\ R' = IF delayed_loads THEN Regs ELSE [Regs EXCEPT ![reg] = v]
  /\ LoadSlots([reg |-> reg, value |-> v])
  /\ raised' = fault
  /\ NextInstruction
  /\ Configured /\ UNCHANGED <<HI, LO, mem>>

SizeOf(op) == CASE op \in {"lb", "lbu", "sb"} -> 1 [] op \in {"lh", "lhu", "sh"} -> 2 [] OTHER -> 4
Extended(op, v) ==
  CASE op = "lb" /\ v >= BYTE \div 2 -> v + WORD - BYTE
    [] op = "lh" -> SignExtended(v)
    [] OTHER -> v
Load ==
  LET size == SizeOf(inst.op)
  IN  /\ inst.op \in {"lb", "lbu", "lh", "lhu", "ll", "lw"}
      /\ Loads(inst.rt, Extended(inst.op, ReadMem(Address, size)), Fault(Address, size, FALSE))

(* The first n bytes of v from the left; the rest of it. *)
Upper(v, n) == v - (v % BYTE^(4 - n))
Lower(v, n) == v % BYTE^n

(* kept bytes of the register stay: on the right for lwl, on the left for lwr. *)
MergedLeft(word, reg, kept) == Lower(word, 4 - kept) * BYTE^kept + Lower(reg, kept)
MergedRight(word, reg, kept) == Upper(reg, kept) + (word \div BYTE^kept)
LoadUnaligned(merged) ==
  LET fault == Fault(WordAddress, 4, FALSE)
  IN  Loads(inst.rt, IF fault # "none" THEN 0 ELSE merged, fault)
LoadLeft ==
  LET kept == IF spim_bigendian THEN Byte ELSE 3 - Byte
  IN  inst.op = "lwl" /\ LoadUnaligned(MergedLeft(ReadMem(WordAddress, 4), Regs[inst.rt], kept))
LoadRight ==
  LET kept == IF spim_bigendian THEN 3 - Byte ELSE Byte
  IN  inst.op = "lwr" /\ LoadUnaligned(MergedRight(ReadMem(WordAddress, 4), Regs[inst.rt], kept))

Stores(addr, size, v) ==
  /\ raised' = Fault(addr, size, TRUE)
  /\ mem' = IF Faults(addr, size) THEN mem ELSE WriteMem(addr, size, v)
  /\ R' = Regs
  /\ NextInstruction
  /\ LoadSlots(None)
  /\ Configured /\ UNCHANGED <<HI, LO>>
Store ==
  LET size == SizeOf(inst.op)
  IN  inst.op \in {"sb", "sc", "sh", "sw"} /\ Stores(Address, size, Regs[inst.rt])

(* kept bytes of the word in memory stay: on the left for swl, on the right  *)
(* for swr.                                                                  *)
StoreLeft ==
  LET kept == IF spim_bigendian THEN Byte ELSE 3 - Byte
  IN  inst.op = "swl"
      /\ Stores(WordAddress, 4, Upper(ReadMem(WordAddress, 4), kept) + (Regs[inst.rt] \div BYTE^kept))
StoreRight ==
  LET kept == IF spim_bigendian THEN 3 - Byte ELSE Byte
  IN  inst.op = "swr"
      /\ Stores(WordAddress, 4, Lower(Regs[inst.rt], 4 - kept) * BYTE^kept + Lower(ReadMem(WordAddress, 4), kept))

-----------------------------------------------------------------------------
Execute ==
  /\ Executing
  /\ \/ Add \/ AddAnd \/ Break \/ CountLeading \/ ConditionalMove \/ NorOr \/ ExclusiveOr \/ LoadUpper
     \/ ShiftLeft \/ ShiftRight \/ SetLess \/ Subtract
     \/ Divide \/ MultiplyAdd \/ MultiplySubtract \/ MultiplyWords \/ MultiplyToRegister
     \/ MoveFromHiLo \/ MoveToHiLo
     \/ Branch \/ Jump \/ Trap
     \/ Load \/ LoadLeft \/ LoadRight \/ Store \/ StoreLeft \/ StoreRight
===============================================================================
