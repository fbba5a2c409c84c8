---------------------------------- MODULE Memory ----------------------------------
(***************************************************************************)
(* The simulated memory (mem.c): arrays of bytes for data, stack and       *)
(* kernel data that grow while a program runs, and the text segment, which *)
(* holds instructions and is read and written through their encodings.     *)
(* The bytes of a word are kept in the order of their addresses, so the    *)
(* host's byte order does not show here.                                   *)
(***************************************************************************)
EXTENDS Integers

CONSTANTS
  TEXT_BOT, TextSize,                  \* text does not grow
  DATA_BOT, DataSize, DataLimit,       \* data grows upwards, by sbrk
  STACK_TOP, StackSize, StackLimit,    \* the stack grows downwards by itself,
  StackReach,                          \*   at most this far: 16 MB
  K_DATA_BOT, KDataSize, KDataLimit,   \* kernel data grows when it is assembled
  MM_IO_BOT, MM_IO_TOP,                \* the registers of the console
  Addrs,          \* the addresses programs access
  Increments,     \* the numbers of bytes by which they ask for more
  Payload,        \* Payload[n][i]: the i-th byte of the value of n bytes they write
  MaxWrites       \* bound on the number of writes

ASSUME MemoryAssumption ==
  /\ \A b \in {TEXT_BOT, DATA_BOT, STACK_TOP, K_DATA_BOT, TextSize, DataSize, StackSize,
               KDataSize, StackLimit, StackReach, MM_IO_BOT} : b \in Nat /\ b % 4 = 0
  /\ DataLimit \in Nat /\ KDataLimit \in Nat /\ MM_IO_TOP \in Nat
  /\ DataSize <= DataLimit /\ StackSize <= StackLimit /\ KDataSize <= KDataLimit
  /\ TEXT_BOT + TextSize <= DATA_BOT
  /\ DATA_BOT + DataLimit <= STACK_TOP - StackLimit
  /\ STACK_TOP <= K_DATA_BOT /\ K_DATA_BOT + KDataLimit <= MM_IO_BOT
  /\ Addrs \subseteq Nat /\ Increments \subseteq Int
  /\ MaxWrites \in Nat

ASSUME PayloadAssumption == \A n \in {1, 2, 4} : Payload[n] \in [0..(n - 1) -> Nat]

VARIABLES
  text_seg,       \* the encoding of every instruction, or Missing
  data_seg, data_top,
  stack_seg, stack_bot,
  k_data_seg, k_data_top,
  answer,         \* the last operation and what came of it
  writes          \* how many writes there were

segments == <<text_seg, data_seg, data_top, stack_seg, stack_bot, k_data_seg, k_data_top>>
vars == <<segments, answer, writes>>

Missing == <<>>
Zeros(size) == [i \in 0..(size - 1) |-> 0]
RoundUp(v) == ((v + 3) \div 4) * 4
Larger(u, v) == IF u > v THEN u ELSE v

(* What the assembler has put into text: instructions at every other word. *)
Program == [i \in 0..(TextSize \div 4 - 1) |-> IF i % 2 = 0 THEN Payload[4] ELSE Missing]

Nothing == [op |-> "none", at |-> 0, n |-> 1, bytes |-> <<>>, outcome |-> "ok"]

Init ==
  /\ text_seg = Program
  /\ data_seg = Zeros(DataSize) /\ data_top = DATA_BOT + DataSize
  /\ stack_seg = Zeros(StackSize) /\ stack_bot = STACK_TOP - StackSize
  /\ k_data_seg = Zeros(KDataSize) /\ k_data_top = K_DATA_BOT + KDataSize
  /\ answer = Nothing
  /\ writes = 0

Alive == answer.outcome # "dead"

Answer(op, at, n, bytes, outcome) ==
  answer' = [op |-> op, at |-> at, n |-> n, bytes |-> bytes, outcome |-> outcome]

InText(a)   == TEXT_BOT <= a /\ a < TEXT_BOT + TextSize
InData(a)   == DATA_BOT <= a /\ a < data_top
InStack(a)  == stack_bot <= a /\ a < STACK_TOP
InKData(a)  == K_DATA_BOT <= a /\ a < k_data_top
InDevice(a) == MM_IO_BOT <= a /\ a <= MM_IO_TOP
Aligned(a, n) == a % n = 0

(* Between data and stack, near enough to be meant as stack.               *)
BelowStack(a) == data_top < a /\ a < stack_bot /\ a > stack_bot - StackReach

(* The bytes of segment seg at index i, and seg with them replaced.        *)
Slice(seg, i, n) == [k \in 0..(n - 1) |-> seg[i + k]]
Patch(seg, i, n, bytes) ==
  [j \in DOMAIN seg |-> IF j \in i..(i + n - 1) THEN bytes[j - i] ELSE seg[j]]

-------------------------------------------------------------------------------
(* expand_stack: the segment at least doubles, and the old one is copied to *)
(* the top of the new one.                                                  *)
StackNeed(a) ==
  LET old_size == STACK_TOP - stack_bot
  IN  old_size + Larger(RoundUp(stack_bot - a + 4), old_size)

(* Mutant: the old segment is copied to the bottom, as realloc does it. *)
ExpandedFromBottom(new_size) ==
  [i \in 0..(new_size - 1) |-> IF i < STACK_TOP - stack_bot THEN stack_seg[i] ELSE 0]

Expanded(new_size) ==
  LET grown == new_size - (STACK_TOP - stack_bot)
  IN  [i \in 0..(new_size - 1) |-> IF i < grown THEN 0 ELSE stack_seg[i - grown]]

(* Mutant: the limit is compared with what is needed, not with what is taken. *)
StackGrowsByNeed(a) == STACK_TOP - a + 4 <= StackLimit

(* An access below the stack: it grows, or run_error ends the run.         *)
StackGrows(a) == StackNeed(a) <= StackLimit

-------------------------------------------------------------------------------
(* read_mem_byte, read_mem_half and read_mem_word, and bad_mem_read.       *)
ReadData(a, n) ==
  /\ InData(a) /\ Aligned(a, n)
  /\ Answer("read", a, n, Slice(data_seg, a - DATA_BOT, n), "ok")
  /\ UNCHANGED segments

ReadStack(a, n) ==
  /\ InStack(a) /\ Aligned(a, n)
  /\ Answer("read", a, n, Slice(stack_seg, a - stack_bot, n), "ok")
  /\ UNCHANGED segments

ReadKData(a, n) ==
  /\ InKData(a) /\ Aligned(a, n)
  /\ Answer("read", a, n, Slice(k_data_seg, a - K_DATA_BOT, n), "ok")
  /\ UNCHANGED segments

(* A word where no instruction is reads as 0; a byte or half follows the    *)
(* null pointer.                                                            *)
ReadText(a, n) ==
  /\ InText(a) /\ Aligned(a, n)
  /\ LET code == text_seg[(a - TEXT_BOT) \div 4]
     IN  \/ code # Missing /\ Answer("read", a, n, Slice(code, a % 4, n), "ok")
         \/ code = Missing /\ n = 4 /\ Answer("read", a, n, Zeros(4), "ok")
         \/ code = Missing /\ n < 4 /\ Answer("read", a, n, <<>>, "dead")
  /\ UNCHANGED segments

ReadBelowStack(a, n) ==
  /\ BelowStack(a) /\ Aligned(a, n)
  /\ \/ /\ StackGrows(a)
        /\ stack_seg' = Expanded(StackNeed(a))
        /\ stack_bot' = STACK_TOP - StackNeed(a)
        /\ Answer("read", a, n, Zeros(n), "ok")
     \/ /\ ~ StackGrows(a)
        /\ Answer("read", a, n, <<>>, "stopped")
        /\ UNCHANGED <<stack_seg, stack_bot>>
  /\ UNCHANGED <<text_seg, data_seg, data_top, k_data_seg, k_data_top>>

-------------------------------------------------------------------------------
(* set_mem_byte, set_mem_half and set_mem_word, and bad_mem_write.         *)
WriteData(a, n) ==
  /\ InData(a) /\ Aligned(a, n)
  /\ data_seg' = Patch(data_seg, a - DATA_BOT, n, Payload[n])
  /\ Answer("write", a, n, Payload[n], "ok")
  /\ UNCHANGED <<text_seg, data_top, stack_seg, stack_bot, k_data_seg, k_data_top>>

WriteStack(a, n) ==
  /\ InStack(a) /\ Aligned(a, n)
  /\ stack_seg' = Patch(stack_seg, a - stack_bot, n, Payload[n])
  /\ Answer("write", a, n, Payload[n], "ok")
  /\ UNCHANGED <<text_seg, data_seg, data_top, stack_bot, k_data_seg, k_data_top>>

WriteKData(a, n) ==
  /\ InKData(a) /\ Aligned(a, n)
  /\ k_data_seg' = Patch(k_data_seg, a - K_DATA_BOT, n, Payload[n])
  /\ Answer("write", a, n, Payload[n], "ok")
  /\ UNCHANGED <<text_seg, data_seg, data_top, stack_seg, stack_bot, k_data_top>>

(* The instruction is decoded anew from the patched encoding. *)
WriteText(a, n) ==
  /\ InText(a) /\ Aligned(a, n)
  /\ LET i == (a - TEXT_BOT) \div 4
     IN  \/ /\ n = 4
            /\ text_seg' = [text_seg EXCEPT ![i] = Payload[4]]
            /\ Answer("write", a, n, Payload[n], "ok")
         \/ /\ n < 4 /\ text_seg[i] # Missing
            /\ text_seg' = [text_seg EXCEPT ![i] = Patch(@, a % 4, n, Payload[n])]
            /\ Answer("write", a, n, Payload[n], "ok")
         \/ /\ n < 4 /\ text_seg[i] = Missing
            /\ Answer("write", a, n, <<>>, "dead")
            /\ UNCHANGED text_seg
  /\ UNCHANGED <<data_seg, data_top, stack_seg, stack_bot, k_data_seg, k_data_top>>

WriteBelowStack(a, n) ==
  /\ BelowStack(a) /\ Aligned(a, n)
  /\ \/ /\ StackGrows(a)
        /\ stack_bot' = STACK_TOP - StackNeed(a)
        /\ stack_seg' = Patch(Expanded(StackNeed(a)), a - stack_bot', n, Payload[n])
        /\ Answer("write", a, n, Payload[n], "ok")
     \/ /\ ~ StackGrows(a)
        /\ Answer("write", a, n, <<>>, "stopped")
        /\ UNCHANGED <<stack_seg, stack_bot>>
  /\ UNCHANGED <<text_seg, data_seg, data_top, k_data_seg, k_data_top>>

-------------------------------------------------------------------------------
(* What both have in common: the access to a register of the console (or to *)
(* an unused address there, which ends the run) and the two exceptions.     *)
Device(op, a, n) ==
  /\ InDevice(a) /\ Aligned(a, n)
  /\ \E outcome \in {"ok", "stopped"} : Answer(op, a, n, <<>>, outcome)
  /\ UNCHANGED segments

Unaligned(op, a, n) ==
  /\ ~ Aligned(a, n)
  /\ Answer(op, a, n, <<>>, IF op = "read" THEN "AdEL" ELSE "AdES")
  /\ UNCHANGED segments

OutOfRange(op, a, n) ==
  /\ Aligned(a, n)
  /\ ~ (InData(a) \/ InStack(a) \/ InKData(a) \/ InText(a) \/ BelowStack(a) \/ InDevice(a))
  /\ Answer(op, a, n, <<>>, "DBE")
  /\ UNCHANGED segments

Read(a, n) ==
  \/ ReadData(a, n) \/ ReadStack(a, n) \/ ReadKData(a, n) \/ ReadText(a, n)
  \/ ReadBelowStack(a, n)
  \/ Device("read", a, n) \/ Unaligned("read", a, n) \/ OutOfRange("read", a, n)

Write(a, n) ==
  \/ WriteData(a, n) \/ WriteStack(a, n) \/ WriteKData(a, n) \/ WriteText(a, n)
  \/ WriteBelowStack(a, n)
  \/ Device("write", a, n) \/ Unaligned("write", a, n) \/ OutOfRange("write", a, n)

-------------------------------------------------------------------------------
(* expand_data: for sbrk, and for data that is assembled at data_top.      *)
ExpandData(more) ==
  LET old_size == data_top - DATA_BOT
      new_size == old_size + RoundUp(more)
  IN  /\ \/ /\ more >= 0 /\ new_size <= DataLimit
            /\ data_top' = data_top + RoundUp(more)
            /\ data_seg' = [i \in 0..(new_size - 1) |-> IF i < old_size THEN data_seg[i] ELSE 0]
            /\ Answer("grow", 0, 1, <<>>, "ok")
         \/ /\ more < 0 \/ new_size > DataLimit
            /\ Answer("grow", 0, 1, <<>>, "stopped")
            /\ UNCHANGED <<data_seg, data_top>>
      /\ UNCHANGED <<text_seg, stack_seg, stack_bot, k_data_seg, k_data_top>>

(* expand_k_data: the loop that clears the new memory divides both ends by  *)
(* the size of a word although it counts bytes.  The new memory keeps what  *)
(* realloc found there; one byte, junk, stands for all of it.               *)
ExpandKData(more) ==
  LET old_size == k_data_top - K_DATA_BOT
      new_size == old_size + RoundUp(more)
  IN  /\ \/ /\ more >= 0 /\ new_size <= KDataLimit
            /\ k_data_top' = k_data_top + RoundUp(more)
            /\ \E junk \in {0, 1} :
                 k_data_seg' = [i \in 0..(new_size - 1) |->
                   IF i \in (old_size \div 4)..(new_size \div 4 - 1) THEN 0
                   ELSE IF i < old_size THEN k_data_seg[i] ELSE junk]
            /\ Answer("grow", 0, 1, <<>>, "ok")
         \/ /\ more < 0 \/ new_size > KDataLimit
            /\ Answer("grow", 0, 1, <<>>, "stopped")
            /\ UNCHANGED <<k_data_seg, k_data_top>>
      /\ UNCHANGED <<text_seg, data_seg, data_top, stack_seg, stack_bot>>

(* make_memory again, when the simulator is reinitialized. *)
MakeMemory ==
  /\ text_seg' = Program
  /\ data_seg' = Zeros(DataSize) /\ data_top' = DATA_BOT + DataSize
  /\ stack_seg' = Zeros(StackSize) /\ stack_bot' = STACK_TOP - StackSize
  /\ k_data_seg' = Zeros(KDataSize) /\ k_data_top' = K_DATA_BOT + KDataSize
  /\ answer' = Nothing
  /\ UNCHANGED writes

Reading ==
  /\ \E a \in Addrs, n \in {1, 2, 4} : Read(a, n)
  /\ UNCHANGED writes

Writing ==
  /\ writes < MaxWrites
  /\ \E a \in Addrs, n \in {1, 2, 4} : Write(a, n)
  /\ writes' = writes + 1

Growing ==
  /\ \E more \in Increments : ExpandData(more) \/ ExpandKData(more)
  /\ UNCHANGED writes

Next == Alive /\ (Reading \/ Writing \/ Growing \/ MakeMemory)

Spec == Init /\ [][Next]_vars

-------------------------------------------------------------------------------
TypeOK ==
  /\ writes \in 0..MaxWrites
  /\ data_top \in Nat /\ stack_bot \in Nat /\ k_data_top \in Nat
  /\ data_top % 4 = 0 /\ DATA_BOT + DataSize <= data_top /\ data_top <= DATA_BOT + DataLimit
  /\ stack_bot % 4 = 0
  /\ STACK_TOP - StackLimit <= stack_bot /\ stack_bot <= STACK_TOP - StackSize
  /\ k_data_top % 4 = 0
  /\ K_DATA_BOT + KDataSize <= k_data_top /\ k_data_top <= K_DATA_BOT + KDataLimit
  /\ data_seg \in [0..(data_top - DATA_BOT - 1) -> Nat]
  /\ stack_seg \in [0..(STACK_TOP - stack_bot - 1) -> Nat]
  /\ k_data_seg \in [0..(k_data_top - K_DATA_BOT - 1) -> Nat]
  /\ answer.outcome \in {"ok", "AdEL", "AdES", "DBE", "stopped", "dead"}

(* The part of the memory that is a program's own: data and stack.         *)
UserAddrs == DATA_BOT..(STACK_TOP - 1)
Allocated == (DATA_BOT..(data_top - 1)) \cup (stack_bot..(STACK_TOP - 1))

Contents ==
  [a \in UserAddrs |-> IF InData(a) THEN data_seg[a - DATA_BOT]
                       ELSE IF InStack(a) THEN stack_seg[a - stack_bot] ELSE 0]

Flat == INSTANCE FlatMemory WITH
  flat <- Contents, reached <- Allocated,
  Given <- (DATA_BOT..(DATA_BOT + DataSize - 1)) \cup ((STACK_TOP - StackSize)..(STACK_TOP - 1))

(* Data and stack together behave like one flat memory full of zeros: a     *)
(* read returns what was last written, whatever has grown in between, and   *)
(* an address that worked once is never refused again.                      *)
ImplementsFlatMemory == Flat!Spec

(* Growing the kernel data segment keeps what it held and adds zeros: it is *)
(* said to be extended "by adding N bytes" and to "Zero new memory"         *)
(* (mem.c:264, mem.c:287).                                                  *)
KernelDataKept ==
  [][k_data_top' > k_data_top =>
       \A i \in DOMAIN k_data_seg' :
         k_data_seg'[i] = IF i \in DOMAIN k_data_seg THEN k_data_seg[i] ELSE 0]_vars
===============================================================================
