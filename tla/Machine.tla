--------------------------------- MODULE Machine ---------------------------------
(***************************************************************************)
(* One line of assembler source is assembled and executed on registers and *)
(* memory of any content.  What the line means is defined here a second    *)
(* time, on whole numbers, sets of bits and bytes, without looking at its  *)
(* expansion; the properties compare the two when the execution has ended. *)
(***************************************************************************)
EXTENDS Encoding, FiniteSetsExt

CONSTANTS
  Lines,         \* the lines to assemble
  Values,        \* what the operands hold before
  Products,      \* what HI and LO hold before
  Targets,       \* the addresses that loads and stores touch
  Contents       \* the bytes of data memory before

VARIABLES
  line,          \* the line that was assembled
  start          \* registers, HI, LO and memory before its execution

allVars == <<vars, line, start>>

(* Registers that are not operands hold something recognisable. *)
Operands(x, y) ==
  [[r \in Registers |-> 10 * r + 3] EXCEPT ![line.s] = x, ![line.t] = y]

Init ==
  /\ line \in Lines
  /\ delayed_loads \in (IF line.op \in MemoryLines THEN BOOLEAN ELSE {FALSE})
  /\ spim_bigendian \in (IF line.op \in MemoryLines THEN BOOLEAN ELSE {FALSE})
  /\ LET stored == Expansion(line) \o (IF delayed_loads THEN <<nop_inst, nop_inst>> ELSE <<>>)
     IN  code \in {stored, Written(stored)}
  /\ \E x \in IF line.op \in MemoryLines THEN {(addr - line.imm) % WORD : addr \in Targets} ELSE Values,
        y \in IF line.form = "imm" THEN {3} ELSE Values :
       R = [Operands(x, y) EXCEPT ![0] = 0]
  /\ \E p \in IF line.op \in {"madd", "maddu", "msub", "msubu"} THEN Products ELSE {<<3, 250>>} :
       HI = p[1] /\ LO = p[2]
  /\ mem = Contents
  /\ start = [R |-> R, HI |-> HI, LO |-> LO, mem |-> mem]
  /\ PC = TEXT_BOT /\ raised = "none" /\ load1 = None /\ load2 = None

Next == Execute /\ UNCHANGED <<line, start>>
Spec == Init /\ [][Next]_allVars

Done == ~ Executing
After == TEXT_BOT + BYTES_PER_WORD * Len(code)

-----------------------------------------------------------------------------
(* The meaning of a line. *)

s == start.R[line.s]
t == IF line.form = "imm" THEN line.imm ELSE start.R[line.t]

BitsOf(v) == {i \in 0..(Bits - 1) : (v \div 2^i) % 2 = 1}
WordOf(bits) == MapThenSumSet(LAMBDA i : 2^i, bits \cap 0..(Bits - 1))

(* Whether the relation a comparison, branch or trap is named after holds. *)
UnsignedLines == {"sltu", "sltiu", "sleu", "sgtu", "sgeu", "bltu", "bleu", "bgtu", "bgeu", "tltu", "tltiu", "tgeu", "tgeiu"}
Related(op) ==
  LET x == IF op \in UnsignedLines THEN s ELSE Signed(s)
      y == IF op \in UnsignedLines THEN t ELSE Signed(t)
  IN  CASE op \in {"slt", "sltu", "slti", "sltiu", "blt", "bltu", "tlt", "tltu", "tlti", "tltiu"} -> x < y
        [] op \in {"sle", "sleu", "ble", "bleu"} -> x <= y
        [] op \in {"sgt", "sgtu", "bgt", "bgtu"} -> x > y
        [] op \in {"sge", "sgeu", "bge", "bgeu", "tge", "tgeu", "tgei", "tgeiu"} -> x >= y
        [] op \in {"seq", "beq", "beql", "teq", "teqi"} -> x = y
        [] op \in {"sne", "bne", "bnel", "tne", "tnei"} -> x # y
        [] op \in {"bgez", "bgezl", "bgezal", "bgezall"} -> x >= 0
        [] op \in {"bgtz", "bgtzl"} -> x > 0
        [] op \in {"blez", "blezl"} -> x <= 0
        [] op \in {"bltz", "bltzl", "bltzal", "bltzall"} -> x < 0
        [] op = "beqz" -> x = 0
        [] op = "bnez" -> x # 0
        [] op \in B_OPS \cup J_OPS \cup JR_OPS -> TRUE

(* x = q * y + r, with r smaller than y and of the sign of x. *)
Divided(x, y) ==
  CHOOSE qr \in {<<q, x - q * y>> : q \in (- WORD)..WORD} :
    /\ qr[2] < y \/ qr[2] < - y
    /\ - qr[2] < y \/ - qr[2] < - y
    /\ qr[2] # 0 => (qr[2] < 0) = (x < 0)

(* The numbers div and rem divide; the pair the simulator leaves undefined   *)
(* keeps what is in HI and LO, although divu has no reason to.               *)
IsSigned(op) == op \in {"div", "rem", "div2"}
QuotientRemainder ==
  IF Undefined(s, t) THEN <<start.LO, start.HI>>
  ELSE LET qr == IF IsSigned(line.op) THEN Divided(Signed(s), Signed(t)) ELSE Divided(s, t)
       IN  <<qr[1] % WORD, qr[2] % WORD>>

Result ==
  LET n == t % Bits
      op == line.op
  IN  CASE op \in {"add", "addu", "addi", "addiu", "la"} -> (s + t) % WORD
        [] op \in {"sub", "subu"} -> (s - t) % WORD
        [] op \in {"and", "andi"} -> WordOf(BitsOf(s) \cap BitsOf(t))
        [] op \in {"or", "ori"} -> WordOf(BitsOf(s) \cup BitsOf(t))
        [] op \in {"xor", "xori"} -> WordOf((BitsOf(s) \cup BitsOf(t)) \ (BitsOf(s) \cap BitsOf(t)))
        [] op = "nor" -> WordOf((0..(Bits - 1)) \ (BitsOf(s) \cup BitsOf(t)))
        [] op = "not" -> WordOf((0..(Bits - 1)) \ BitsOf(s))
        [] op \in {"sll", "sllv"} -> WordOf({i + n : i \in BitsOf(s)})
        [] op \in {"srl", "srlv"} -> WordOf({i - n : i \in BitsOf(s)})
        [] op \in {"sra", "srav"} ->
             WordOf({i \in 0..(Bits - 1) : (IF i + n < Bits THEN i + n ELSE Bits - 1) \in BitsOf(s)})
        [] op = "rol" -> WordOf({(i + n) % Bits : i \in BitsOf(s)})
        [] op = "ror" -> WordOf({(i - n) % Bits : i \in BitsOf(s)})
        [] op \in {"slt", "sltu", "slti", "sltiu"} \cup SET_POPS -> Bool(Related(op))
        [] op \in {"mul", "mulo"} -> (Signed(s) * Signed(t)) % WORD
        [] op = "mulou" -> (s * t) % WORD
        [] op \in {"div", "divu"} -> QuotientRemainder[1]
        [] op \in {"rem", "remu"} -> QuotientRemainder[2]
        [] op = "movn" -> IF t # 0 THEN s ELSE start.R[line.d]
        [] op = "movz" -> IF t = 0 THEN s ELSE start.R[line.d]
        [] op = "clz" -> Cardinality({i \in 0..(Bits - 1) : s < 2^i})
        [] op = "clo" -> Cardinality({i \in 0..(Bits - 1) : WORD - 1 - s < 2^i})
        [] op = "abs" -> IF Signed(s) < 0 THEN - Signed(s) ELSE s
        [] op \in {"neg", "negu"} -> (- s) % WORD
        [] op = "move" -> s
        [] op = "li" -> t
        [] op = "lui" -> t * HALF
        [] op = "mfhi" -> start.HI
        [] op = "mflo" -> start.LO
        [] op = "jalr" -> After

ComputingLines ==
  OnRegisters \cup IMMEDIATE_OPS \cup LoadImmediates \cup MOVEC_OPS \cup UNARY_POPS \cup COUNT_LEADING_OPS
    \cup MOVE_FROM_HILO_OPS \cup {"jalr"}

HiLoMeant ==
  LET before == start.HI * WORD + start.LO
      op == line.op
  IN  CASE op = "mult" -> Signed(s) * Signed(t)
        [] op = "multu" -> s * t
        [] op = "madd" -> before + Signed(s) * Signed(t)
        [] op = "maddu" -> before + s * t
        [] op = "msub" -> before - Signed(s) * Signed(t)
        [] op = "msubu" -> before - s * t
        [] op \in HILO_DIVIDES -> QuotientRemainder[2] * WORD + QuotientRemainder[1]
        [] op = "mthi" -> s * WORD + start.LO
        [] op = "mtlo" -> start.HI * WORD + s
HiLoLines == MULT_OPS \cup HILO_DIVIDES \cup MOVE_TO_HILO_OPS

(* Every computation, whether the processor knows it or the assembler        *)
(* expands it, leaves the result its name promises, for every aliasing of    *)
(* its registers and however its constant is split; a link is the address    *)
(* behind the line.                                                          *)
ResultsMeant ==
  Done /\ raised = "none" =>
    /\ line.op \in ComputingLines /\ line.d # 0 => R[line.d] = Result
    /\ line.op \in HiLoLines => HI * WORD + LO = HiLoMeant % (WORD * WORD)
    /\ line.op \in LinkingBranches \cup {"bal", "jal"} => R[31] = After

-----------------------------------------------------------------------------
(* Where execution goes. *)

InRange(n) == n \in (- (WORD \div 2))..((WORD \div 2) - 1)
Excepted(op) ==
  CASE op \in {"add", "addi", "la"} /\ ~ InRange(Signed(s) + Signed(t)) /\ (op = "la" => line.s # 0) -> "Ov"
    [] op = "sub" /\ ~ InRange(Signed(s) - Signed(t)) -> "Ov"
    [] op \in {"abs", "neg"} /\ ~ InRange(- Signed(s)) -> "Ov"
    [] op \in DIV_POPS /\ t = 0 /\ line.d # 0 -> "Bp"
    [] op = "mulo" /\ ~ InRange(Signed(s) * Signed(t)) /\ line.d # 0 -> "Bp"
    [] op = "mulou" /\ s * t >= WORD /\ line.d # 0 -> "Bp"
    [] op \in Traps /\ Related(op) -> "Tr"
    [] OTHER -> "none"

BranchingLines == (RegisterBranches \cup ImmediateBranches) \ Traps
Destination ==
  CASE line.op \in JR_OPS -> s
    [] line.op \in BranchingLines \ JR_OPS /\ Related(line.op) -> Label
    [] line.op \in LikelyBranches /\ ~ Related(line.op) -> After + BYTES_PER_WORD
    [] OTHER -> After

(* Constants the expansions get wrong: bgt and ble compare with the next     *)
(* constant, which overflows; sub adds the negated constant, which is the    *)
(* constant itself.                                                          *)
WrongConstants ==
  /\ line.form = "imm"
  /\ \/ line.op \in {"bgt", "ble"} /\ line.imm = (WORD \div 2) - 1
     \/ line.op = "sub" /\ line.imm = WORD \div 2

(* A line raises an exception exactly if it overflows, divides by zero, does *)
(* not fit (mulo) or its trap condition holds, and execution goes on at the  *)
(* label exactly if the relation its name promises holds, for every constant *)
(* but WrongConstants.  A likely branch that is not taken skips the next     *)
(* instruction although there are no delay slots.                            *)
ControlMeant ==
  Done /\ line.op \notin MemoryLines /\ ~ WrongConstants =>
    /\ raised = Excepted(line.op)
    /\ raised = "none" => PC = Destination

-----------------------------------------------------------------------------
(* Loads and stores. *)

addr == (s + line.imm) % WORD
RegByte(v, k) == (v \div BYTE^k) % BYTE

(* Which byte k of register line.d + i belongs to which address. *)
WordPairs(i, from) == {<<i, k, At(from, 4, k)>> : k \in 0..3}
Pairs ==
  LET up == addr % 4
      down == 3 - up
      LeftPairs(n) == {<<0, 3 - j, IF spim_bigendian THEN addr + j ELSE addr - j>> : j \in 0..n}
      RightPairs(n) == {<<0, j, IF spim_bigendian THEN addr - j ELSE addr + j>> : j \in 0..n}
  IN  CASE line.op \in {"lw", "ll", "sw", "sc", "ulw", "usw"} -> WordPairs(0, addr)
        [] line.op \in {"lh", "lhu", "sh", "ulh", "ulhu"} -> {<<0, k, At(addr, 2, k)>> : k \in 0..1}
        [] line.op = "ush" -> {<<0, 0, addr>>, <<0, 1, addr + 1>>}
        [] line.op \in {"lb", "lbu", "sb"} -> {<<0, 0, addr>>}
        [] line.op \in DOUBLE_POPS -> WordPairs(0, addr) \cup WordPairs(1, addr + 4)
        [] line.op \in {"lwl", "swl"} -> LeftPairs(IF spim_bigendian THEN down ELSE up)
        [] line.op \in {"lwr", "swr"} -> RightPairs(IF spim_bigendian THEN up ELSE down)

Alignment ==
  CASE line.op \in {"lw", "ll", "sw", "sc"} \cup DOUBLE_POPS -> 4
    [] line.op \in {"lh", "lhu", "sh"} -> 2
    [] OTHER -> 1
StoringLines == {"sb", "sc", "sh", "sw", "swl", "swr", "usw", "ush", "sd"}
LoadingLines == MemoryLines \ StoringLines
Allowed == addr % Alignment = 0 /\ \A p \in Pairs : p[3] \in Addresses

(* The bytes of a register a load does not fetch: lwl and lwr keep them, the *)
(* others extend.                                                            *)
Remaining(i, k) ==
  CASE line.op \in {"lwl", "lwr"} -> RegByte(start.R[line.d], k)
    [] line.op \in {"lb", "lh", "ulh"} ->
         LET top == CHOOSE p \in Pairs : \A q \in Pairs : q[2] <= p[2]
         IN  IF start.mem[top[3]] >= BYTE \div 2 THEN BYTE - 1 ELSE 0
    [] OTHER -> 0

(* An unaligned or double load into its own base register reads the second   *)
(* part from a base that the first has overwritten; lwr does not see what    *)
(* lwl is still loading.                                                     *)
BaseOverwritten == line.op \in {"ulw", "ulh", "ulhu", "ld"} /\ line.d = line.s
HalfOverwritten == line.op = "ush" /\ line.d = line.s
Unmerged == line.op = "ulw" /\ delayed_loads

(* A load leaves in the register the bytes of memory its name and address    *)
(* promise, in the byte order of the machine (ush alone always stores the    *)
(* lower byte first), at once or two instructions later; a store leaves the  *)
(* register's bytes in memory; an address that is not aligned or not there   *)
(* raises an exception, whatever the size of the constant and whether or not *)
(* the label was known when the line was assembled.                          *)
TransfersMeant ==
  Done /\ line.op \in MemoryLines /\ ~ BaseOverwritten /\ ~ HalfOverwritten =>
    /\ raised = "none" <=> Allowed
    /\ raised = "none" /\ line.op \in StoringLines =>
         \A p \in Pairs : mem[p[3]] = RegByte(start.R[line.d + p[1]], p[2])
    /\ raised = "none" /\ line.op \in LoadingLines /\ ~ Unmerged =>
         \A i \in {p[1] : p \in Pairs} : line.d + i # 0 =>
           \A k \in 0..3 :
             IF \E p \in Pairs : p[1] = i /\ p[2] = k
             THEN \E p \in Pairs : p[1] = i /\ p[2] = k /\ RegByte(R[line.d + i], k) = start.mem[p[3]]
             ELSE RegByte(R[line.d + i], k) = Remaining(i, k)

-----------------------------------------------------------------------------
(* What a line may change: nothing but its destination, and that only if it  *)
(* does not raise an exception (mulo and abs write it before they do, loads  *)
(* write 0).                                                                 *)
Destinations ==
  CASE line.op \in ComputingLines /\ (raised = "none" \/ line.op \in {"mulo", "abs"}) -> {line.d}
    [] line.op \in LoadingLines -> {line.d + p[1] : p \in Pairs}
    [] line.op \in LinkingBranches \cup {"bal", "jal"} -> {31}
    [] OTHER -> {}
HiLoUsers == HiLoLines \cup DIV_POPS \cup MUL_POPS \cup MULT_OPS3
Rotated == line.op = "ush" /\ raised # "none"

(* Apart from its destination and the assembler's temporary a line leaves    *)
(* registers, HI, LO and memory as they were.  An ush whose second byte      *)
(* faults leaves its source rotated.                                         *)
OthersKept ==
  Done =>
    /\ \A r \in Registers \ ({0, 1} \cup Destinations) :
         R[r] = start.R[r] \/ (Rotated /\ r = line.d)
    /\ line.op \notin HiLoUsers => HI = start.HI /\ LO = start.LO
    /\ \A x \in Addresses :
         (line.op \in StoringLines /\ \E p \in Pairs : p[3] = x) \/ HalfOverwritten \/ mem[x] = start.mem[x]
===============================================================================
