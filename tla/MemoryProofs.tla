------------------------------ MODULE MemoryProofs ------------------------------
(***************************************************************************)
(* Data and stack implement one flat memory, for every layout of the       *)
(* segments and every sequence of accesses.                                *)
(***************************************************************************)
EXTENDS Memory, TLAPS

Sizes == {1, 2, 4}

(* What the assumption says of each constant, in the form the provers use. *)
LEMMA Layout ==
  /\ TEXT_BOT \in Nat /\ DATA_BOT \in Nat /\ STACK_TOP \in Nat /\ K_DATA_BOT \in Nat
  /\ TextSize \in Nat /\ DataSize \in Nat /\ StackSize \in Nat /\ KDataSize \in Nat
  /\ StackLimit \in Nat /\ StackReach \in Nat /\ MM_IO_BOT \in Nat
  /\ DATA_BOT % 4 = 0 /\ STACK_TOP % 4 = 0 /\ K_DATA_BOT % 4 = 0
  /\ DataSize % 4 = 0 /\ StackSize % 4 = 0 /\ KDataSize % 4 = 0
  BY MemoryAssumption

LEMMA Rounding ==
  ASSUME NEW v \in Nat
  PROVE  RoundUp(v) \in Nat /\ RoundUp(v) % 4 = 0 /\ RoundUp(v) >= v
  BY DEF RoundUp

LEMMA Payloads ==
  ASSUME NEW n \in Sizes
  PROVE  n \in Nat \ {0} /\ Payload[n] \in [0..(n - 1) -> Nat]
<1>1. n \in Nat \ {0} BY DEF Sizes
<1>2. Payload[n] \in [0..(n - 1) -> Nat] BY PayloadAssumption, Zenon DEF Sizes
<1> QED BY <1>1, <1>2

(* An aligned access to a segment whose ends are multiples of 4 lies in it. *)
LEMMA AlignedAccessFits ==
  ASSUME NEW a \in Nat, NEW n \in Sizes, NEW top \in Nat,
         a % n = 0, top % 4 = 0, a < top
  PROVE  a + n <= top
<1>1. CASE n = 1 BY <1>1
<1>2. CASE n = 2 BY <1>2
<1>3. CASE n = 4 BY <1>3
<1> QED BY <1>1, <1>2, <1>3 DEF Sizes

(* Where the stack ends after it has grown. *)
LEMMA GrownStack ==
  ASSUME TypeOK, NEW a \in Nat, BelowStack(a), StackGrows(a)
  PROVE  LET new == StackNeed(a)
         IN  /\ new \in Nat /\ new % 4 = 0 /\ new <= StackLimit
             /\ new > STACK_TOP - stack_bot
             /\ STACK_TOP - new <= a - 4
<1> DEFINE old == STACK_TOP - stack_bot
           need == stack_bot - a + 4
<1>1. /\ stack_bot \in Nat /\ stack_bot % 4 = 0
      /\ stack_bot <= STACK_TOP - StackSize
      BY DEF TypeOK
<1>1a. old \in Nat /\ old % 4 = 0 BY <1>1, Layout
<1>2. need \in Nat /\ need > 4 BY <1>1 DEF BelowStack
<1>3. /\ RoundUp(need) \in Nat /\ RoundUp(need) % 4 = 0 /\ RoundUp(need) >= need
      BY <1>2, Rounding
<1>4. StackNeed(a) = old + Larger(RoundUp(need), old) BY DEF StackNeed
<1> QED BY <1>1, <1>1a, <1>2, <1>3, <1>4, Layout DEF Larger, StackGrows

-------------------------------------------------------------------------------
(* The three growing segments have the types TypeOK gives them. *)
DataOK ==
  /\ data_top \in Nat /\ data_top % 4 = 0
  /\ DATA_BOT + DataSize <= data_top /\ data_top <= DATA_BOT + DataLimit
  /\ data_seg \in [0..(data_top - DATA_BOT - 1) -> Nat]

StackOK ==
  /\ stack_bot \in Nat /\ stack_bot % 4 = 0
  /\ STACK_TOP - StackLimit <= stack_bot /\ stack_bot <= STACK_TOP - StackSize
  /\ stack_seg \in [0..(STACK_TOP - stack_bot - 1) -> Nat]

KDataOK ==
  /\ k_data_top \in Nat /\ k_data_top % 4 = 0
  /\ K_DATA_BOT + KDataSize <= k_data_top /\ k_data_top <= K_DATA_BOT + KDataLimit
  /\ k_data_seg \in [0..(k_data_top - K_DATA_BOT - 1) -> Nat]

AnswerOK == answer.outcome \in {"ok", "AdEL", "AdES", "DBE", "stopped", "dead"}

LEMMA TypeParts ==
  TypeOK <=> writes \in 0..MaxWrites /\ DataOK /\ StackOK /\ KDataOK /\ AnswerOK
  BY DEF TypeOK, DataOK, StackOK, KDataOK, AnswerOK

LEMMA Patching ==
  ASSUME NEW D, NEW seg \in [D -> Nat], NEW i \in Nat, NEW n \in Sizes
  PROVE  Patch(seg, i, n, Payload[n]) \in [D -> Nat]
<1>1. n \in Nat /\ Payload[n] \in [0..(n - 1) -> Nat] BY Payloads
<1>2. ASSUME NEW j \in i..(i + n - 1) PROVE Payload[n][j - i] \in Nat BY <1>1
<1> QED BY <1>1, <1>2 DEF Patch

LEMMA TypeInit == Init => TypeOK
<1> SUFFICES ASSUME Init PROVE TypeOK OBVIOUS
<1>1. DataOK BY Layout, MemoryAssumption DEF Init, DataOK, Zeros
<1>2. StackOK
  <2>1. STACK_TOP - StackSize \in Nat /\ (STACK_TOP - StackSize) % 4 = 0
    BY Layout, MemoryAssumption
  <2> QED BY <2>1, Layout, MemoryAssumption DEF Init, StackOK, Zeros
<1>3. KDataOK BY Layout, MemoryAssumption DEF Init, KDataOK, Zeros
<1>4. writes \in 0..MaxWrites /\ AnswerOK BY MemoryAssumption DEF Init, AnswerOK, Nothing
<1> QED BY <1>1, <1>2, <1>3, <1>4, TypeParts

(* The stack after an access below it, and after it has been filled. *)
LEMMA StackGrowth ==
  ASSUME TypeOK, NEW a \in Nat, BelowStack(a), StackGrows(a),
         stack_bot' = STACK_TOP - StackNeed(a),
         stack_seg' \in [0..(StackNeed(a) - 1) -> Nat]
  PROVE  StackOK'
<1>1. /\ StackNeed(a) \in Nat /\ StackNeed(a) % 4 = 0 /\ StackNeed(a) <= StackLimit
      /\ StackNeed(a) > STACK_TOP - stack_bot
  BY GrownStack
<1>2. stack_bot \in Nat /\ stack_bot <= STACK_TOP - StackSize BY DEF TypeOK
<1>3. StackLimit <= STACK_TOP BY Layout, MemoryAssumption
<1>4. stack_bot' \in Nat /\ stack_bot' % 4 = 0 BY <1>1, <1>3, Layout
<1>5. /\ STACK_TOP - StackLimit <= stack_bot' /\ stack_bot' <= STACK_TOP - StackSize
      /\ STACK_TOP - stack_bot' = StackNeed(a)
  BY <1>1, <1>2, <1>4, Layout
<1>6. stack_seg' \in [0..(STACK_TOP - stack_bot' - 1) -> Nat] BY <1>5
<1> QED BY <1>4, <1>5, <1>6 DEF StackOK

LEMMA ExpandedType ==
  ASSUME TypeOK, NEW new \in Nat, new > STACK_TOP - stack_bot
  PROVE  Expanded(new) \in [0..(new - 1) -> Nat]
<1> DEFINE grown == new - (STACK_TOP - stack_bot)
<1>1. stack_bot \in Nat /\ stack_seg \in [0..(STACK_TOP - stack_bot - 1) -> Nat]
  BY DEF TypeOK
<1>2. ASSUME NEW i \in 0..(new - 1), ~ i < grown
      PROVE  stack_seg[i - grown] \in Nat
  BY <1>1, <1>2, Layout
<1> QED BY <1>2 DEF Expanded

LEMMA ReadType ==
  ASSUME TypeOK, NEW a \in Nat, NEW n \in Sizes, Read(a, n)
  PROVE  DataOK' /\ StackOK' /\ KDataOK' /\ AnswerOK'
<1>1. DataOK /\ StackOK /\ KDataOK BY TypeParts
<1>2. AnswerOK'
  BY DEF Read, ReadData, ReadStack, ReadKData, ReadText, ReadBelowStack, Device,
         Unaligned, OutOfRange, Answer, AnswerOK
<1>3. CASE UNCHANGED segments
  BY <1>1, <1>2, <1>3 DEF segments, DataOK, StackOK, KDataOK
<1>4. CASE ReadBelowStack(a, n)
  <2>1. DataOK' /\ KDataOK' BY <1>1, <1>4 DEF ReadBelowStack, DataOK, KDataOK
  <2>2. CASE ~ StackGrows(a)
    <3>1. UNCHANGED <<stack_seg, stack_bot>> BY <1>4, <2>2 DEF ReadBelowStack
    <3> QED BY <1>1, <1>2, <2>1, <3>1 DEF StackOK
  <2>3. CASE StackGrows(a)
    <3>1. BelowStack(a) /\ stack_seg' = Expanded(StackNeed(a))
          /\ stack_bot' = STACK_TOP - StackNeed(a)
      BY <1>4, <2>3 DEF ReadBelowStack
    <3>2. stack_seg' \in [0..(StackNeed(a) - 1) -> Nat]
      BY <2>3, <3>1, GrownStack, ExpandedType
    <3> QED BY <1>2, <2>1, <2>3, <3>1, <3>2, StackGrowth
  <2> QED BY <1>2, <2>1, <2>2, <2>3
<1> QED
  BY <1>3, <1>4 DEF Read, ReadData, ReadStack, ReadKData, ReadText, Device, Unaligned,
                    OutOfRange

LEMMA WriteType ==
  ASSUME TypeOK, NEW a \in Nat, NEW n \in Sizes, Write(a, n)
  PROVE  DataOK' /\ StackOK' /\ KDataOK' /\ AnswerOK'
<1>1. DataOK /\ StackOK /\ KDataOK BY TypeParts
<1>2. AnswerOK'
  BY DEF Write, WriteData, WriteStack, WriteKData, WriteText, WriteBelowStack, Device,
         Unaligned, OutOfRange, Answer, AnswerOK
<1>3. CASE UNCHANGED <<data_seg, data_top, stack_seg, stack_bot, k_data_seg, k_data_top>>
  BY <1>1, <1>2, <1>3 DEF DataOK, StackOK, KDataOK
<1>4. CASE WriteData(a, n)
  <2>1. a - DATA_BOT \in Nat BY <1>4, Layout DEF WriteData, InData
  <2>2. data_seg' \in [0..(data_top - DATA_BOT - 1) -> Nat]
    BY <1>1, <1>4, <2>1, Patching DEF WriteData, DataOK
  <2> QED BY <1>1, <1>2, <1>4, <2>2 DEF WriteData, DataOK, StackOK, KDataOK
<1>5. CASE WriteStack(a, n)
  <2>1. a - stack_bot \in Nat BY <1>1, <1>5 DEF WriteStack, InStack, StackOK
  <2>2. stack_seg' \in [0..(STACK_TOP - stack_bot - 1) -> Nat]
    BY <1>1, <1>5, <2>1, Patching DEF WriteStack, StackOK
  <2> QED BY <1>1, <1>2, <1>5, <2>2 DEF WriteStack, DataOK, StackOK, KDataOK
<1>6. CASE WriteKData(a, n)
  <2>1. a - K_DATA_BOT \in Nat BY <1>6, Layout DEF WriteKData, InKData
  <2>2. k_data_seg' \in [0..(k_data_top - K_DATA_BOT - 1) -> Nat]
    BY <1>1, <1>6, <2>1, Patching DEF WriteKData, KDataOK
  <2> QED BY <1>1, <1>2, <1>6, <2>2 DEF WriteKData, DataOK, StackOK, KDataOK
<1>7. CASE WriteBelowStack(a, n)
  <2>1. DataOK' /\ KDataOK' BY <1>1, <1>7 DEF WriteBelowStack, DataOK, KDataOK
  <2>2. CASE ~ StackGrows(a)
    <3>1. UNCHANGED <<stack_seg, stack_bot>> BY <1>7, <2>2 DEF WriteBelowStack
    <3> QED BY <1>1, <1>2, <2>1, <3>1 DEF StackOK
  <2>3. CASE StackGrows(a)
    <3>1. BelowStack(a) /\ stack_bot' = STACK_TOP - StackNeed(a)
          /\ stack_seg' = Patch(Expanded(StackNeed(a)), a - stack_bot', n, Payload[n])
      BY <1>7, <2>3 DEF WriteBelowStack
    <3>2. /\ StackNeed(a) \in Nat /\ StackNeed(a) > STACK_TOP - stack_bot
          /\ STACK_TOP - StackNeed(a) <= a - 4
      BY <2>3, <3>1, GrownStack
    <3>3. Expanded(StackNeed(a)) \in [0..(StackNeed(a) - 1) -> Nat] BY <3>2, ExpandedType
    <3>4. a - stack_bot' \in Nat BY <3>1, <3>2, Layout
    <3>5. stack_seg' \in [0..(StackNeed(a) - 1) -> Nat] BY <3>1, <3>3, <3>4, Patching
    <3> QED BY <1>2, <2>1, <2>3, <3>1, <3>5, StackGrowth
  <2> QED BY <1>2, <2>1, <2>2, <2>3
<1> QED
  BY <1>3, <1>4, <1>5, <1>6, <1>7
  DEF Write, WriteText, Device, Unaligned, OutOfRange, segments

LEMMA ExpandDataType ==
  ASSUME TypeOK, NEW more \in Int, ExpandData(more)
  PROVE  DataOK' /\ StackOK' /\ KDataOK' /\ AnswerOK'
<1> DEFINE old == data_top - DATA_BOT
           new == old + RoundUp(more)
<1>1. DataOK /\ StackOK /\ KDataOK BY TypeParts
<1>2. AnswerOK' BY DEF ExpandData, Answer, AnswerOK
<1>3. StackOK' /\ KDataOK' BY <1>1 DEF ExpandData, StackOK, KDataOK
<1>4. CASE UNCHANGED <<data_seg, data_top>> BY <1>1, <1>2, <1>3, <1>4 DEF DataOK
<1>5. CASE /\ more >= 0 /\ new <= DataLimit
           /\ data_top' = data_top + RoundUp(more)
           /\ data_seg' = [i \in 0..(new - 1) |-> IF i < old THEN data_seg[i] ELSE 0]
  <2>1. RoundUp(more) \in Nat /\ RoundUp(more) % 4 = 0 BY <1>5, Rounding
  <2>2. data_top \in Nat /\ data_top % 4 = 0 /\ DATA_BOT + DataSize <= data_top
        /\ data_seg \in [0..(old - 1) -> Nat]
    BY <1>1 DEF DataOK
  <2>3. /\ data_top' \in Nat /\ data_top' % 4 = 0
        /\ DATA_BOT + DataSize <= data_top' /\ data_top' <= DATA_BOT + DataLimit
        /\ data_top' - DATA_BOT = new
    <3>1. data_top' \in Nat /\ data_top' % 4 = 0 BY <1>5, <2>1, <2>2
    <3>2. DataLimit \in Nat /\ DATA_BOT \in Nat /\ DataSize \in Nat BY Layout, MemoryAssumption
    <3>3. data_top' = data_top + RoundUp(more) /\ data_top - DATA_BOT + RoundUp(more) <= DataLimit
      BY <1>5
    <3>4. RoundUp(more) \in Nat /\ data_top \in Nat /\ DATA_BOT + DataSize <= data_top BY <2>1, <2>2
    <3>5. data_top' - DATA_BOT = data_top - DATA_BOT + RoundUp(more) BY <3>2, <3>3, <3>4
    <3>6. DATA_BOT + DataSize <= data_top' /\ data_top' <= DATA_BOT + DataLimit BY <3>2, <3>3, <3>4
    <3> QED BY <3>1, <3>5, <3>6
  <2>4. ASSUME NEW i \in 0..(new - 1), i < old PROVE data_seg[i] \in Nat
    BY <2>1, <2>2, <2>4, Layout
  <2>5. data_seg' \in [0..(new - 1) -> Nat] BY <1>5, <2>4
  <2> QED BY <1>2, <1>3, <2>3, <2>5 DEF DataOK
<1> QED BY <1>4, <1>5 DEF ExpandData

LEMMA ExpandKDataType ==
  ASSUME TypeOK, NEW more \in Int, ExpandKData(more)
  PROVE  DataOK' /\ StackOK' /\ KDataOK' /\ AnswerOK'
<1> DEFINE old == k_data_top - K_DATA_BOT
           new == old + RoundUp(more)
<1>1. DataOK /\ StackOK /\ KDataOK BY TypeParts
<1>2. AnswerOK' BY DEF ExpandKData, Answer, AnswerOK
<1>3. StackOK' /\ DataOK' BY <1>1 DEF ExpandKData, StackOK, DataOK
<1>4. CASE UNCHANGED <<k_data_seg, k_data_top>> BY <1>1, <1>2, <1>3, <1>4 DEF KDataOK
<1>5. CASE /\ more >= 0 /\ new <= KDataLimit
           /\ k_data_top' = k_data_top + RoundUp(more)
           /\ \E junk \in {0, 1} :
                k_data_seg' = [i \in 0..(new - 1) |->
                  IF i \in (old \div 4)..(new \div 4 - 1) THEN 0
                  ELSE IF i < old THEN k_data_seg[i] ELSE junk]
  <2>1. RoundUp(more) \in Nat /\ RoundUp(more) % 4 = 0 BY <1>5, Rounding
  <2>2. k_data_top \in Nat /\ k_data_top % 4 = 0 /\ K_DATA_BOT + KDataSize <= k_data_top
        /\ k_data_seg \in [0..(old - 1) -> Nat]
    BY <1>1 DEF KDataOK
  <2>3. /\ k_data_top' \in Nat /\ k_data_top' % 4 = 0
        /\ K_DATA_BOT + KDataSize <= k_data_top' /\ k_data_top' <= K_DATA_BOT + KDataLimit
        /\ k_data_top' - K_DATA_BOT = new
    <3>1. k_data_top' \in Nat /\ k_data_top' % 4 = 0 BY <1>5, <2>1, <2>2
    <3>2. KDataLimit \in Nat /\ K_DATA_BOT \in Nat /\ KDataSize \in Nat BY Layout, MemoryAssumption
    <3>3. k_data_top' = k_data_top + RoundUp(more) /\ k_data_top - K_DATA_BOT + RoundUp(more) <= KDataLimit
      BY <1>5
    <3>4. RoundUp(more) \in Nat /\ k_data_top \in Nat /\ K_DATA_BOT + KDataSize <= k_data_top BY <2>1, <2>2
    <3>5. k_data_top' - K_DATA_BOT = k_data_top - K_DATA_BOT + RoundUp(more) BY <3>2, <3>3, <3>4
    <3>6. K_DATA_BOT + KDataSize <= k_data_top' /\ k_data_top' <= K_DATA_BOT + KDataLimit BY <3>2, <3>3, <3>4
    <3> QED BY <3>1, <3>5, <3>6
  <2>4. ASSUME NEW i \in 0..(new - 1), i < old PROVE k_data_seg[i] \in Nat
    BY <2>1, <2>2, <2>4, Layout
  <2>5. k_data_seg' \in [0..(new - 1) -> Nat] BY <1>5, <2>4
  <2> QED BY <1>2, <1>3, <2>3, <2>5 DEF KDataOK
<1> QED BY <1>4, <1>5 DEF ExpandKData

LEMMA MakeMemoryType ==
  ASSUME TypeOK, MakeMemory
  PROVE  DataOK' /\ StackOK' /\ KDataOK' /\ AnswerOK'
<1>1. DataOK' BY Layout, MemoryAssumption DEF MakeMemory, DataOK, Zeros
<1>2. StackOK'
  <2>1. STACK_TOP - StackSize \in Nat /\ (STACK_TOP - StackSize) % 4 = 0
    BY Layout, MemoryAssumption
  <2> QED BY <2>1, Layout, MemoryAssumption DEF MakeMemory, StackOK, Zeros
<1>3. KDataOK' BY Layout, MemoryAssumption DEF MakeMemory, KDataOK, Zeros
<1>4. AnswerOK' BY DEF MakeMemory, AnswerOK, Nothing
<1> QED BY <1>1, <1>2, <1>3, <1>4

LEMMA TypeStep == TypeOK /\ [Next]_vars => TypeOK'
<1> SUFFICES ASSUME TypeOK, [Next]_vars PROVE TypeOK' OBVIOUS
<1> DEFINE PartsOK == DataOK /\ StackOK /\ KDataOK /\ AnswerOK
<1>0. PartsOK /\ writes \in 0..MaxWrites BY TypeParts
<1>6. PartsOK' /\ writes' \in 0..MaxWrites => TypeOK'
  BY DEF TypeOK, DataOK, StackOK, KDataOK, AnswerOK
<1>1. CASE UNCHANGED vars
  BY <1>1 DEF TypeOK, vars, segments
<1>2. CASE Reading
  <2>1. PICK a \in Addrs, n \in Sizes : Read(a, n) BY <1>2 DEF Reading, Sizes
  <2>2. a \in Nat BY MemoryAssumption
  <2>3. PartsOK' BY <2>1, <2>2, ReadType
  <2> QED BY <1>0, <1>2, <2>3, <1>6 DEF Reading
<1>3. CASE Writing
  <2>1. PICK a \in Addrs, n \in Sizes : Write(a, n) BY <1>3 DEF Writing, Sizes
  <2>2. a \in Nat BY MemoryAssumption
  <2>3. PartsOK' BY <2>1, <2>2, WriteType
  <2>4. writes' \in 0..MaxWrites BY <1>0, <1>3, MemoryAssumption DEF Writing
  <2> QED BY <2>3, <2>4, <1>6
<1>4. CASE Growing
  <2>1. PICK more \in Increments : ExpandData(more) \/ ExpandKData(more)
    BY <1>4 DEF Growing
  <2>2. more \in Int BY MemoryAssumption
  <2>3. PartsOK' BY <2>1, <2>2, ExpandDataType, ExpandKDataType
  <2>4. writes' \in 0..MaxWrites BY <1>0, <1>4 DEF Growing
  <2> QED BY <2>3, <2>4, <1>6
<1>5. CASE MakeMemory
  <2>1. PartsOK' BY <1>5, MakeMemoryType
  <2>2. writes' \in 0..MaxWrites BY <1>0, <1>5 DEF MakeMemory
  <2> QED BY <2>1, <2>2, <1>6
<1> QED BY <1>1, <1>2, <1>3, <1>4, <1>5 DEF Next

(* No access, growth or reinitialization ever takes a segment beyond its     *)
(* limit or leaves its end unaligned or its array of another length than its *)
(* bounds say (mem.c keeps the three in separate variables).                 *)
THEOREM MemoryIsTyped == Spec => []TypeOK
<1>1. Init => TypeOK BY TypeInit
<1>2. TypeOK /\ [Next]_vars => TypeOK' BY TypeStep
<1> QED BY <1>1, <1>2, PTL DEF Spec

-------------------------------------------------------------------------------
(* The refinement.  Image is the flat memory that given data and stack      *)
(* segments stand for: Contents, with the variables as parameters.          *)
Image(dseg, dtop, sseg, sbot) ==
  [x \in UserAddrs |->
     IF DATA_BOT <= x /\ x < dtop THEN dseg[x - DATA_BOT]
     ELSE IF sbot <= x /\ x < STACK_TOP THEN sseg[x - sbot] ELSE 0]

LEMMA ContentsIsImage ==
  /\ Contents = Image(data_seg, data_top, stack_seg, stack_bot)
  /\ Contents' = Image(data_seg', data_top', stack_seg', stack_bot')
  BY DEF Contents, Image, InData, InStack

(* Where the parts of the memory lie. *)
LEMMA Places ==
  ASSUME TypeOK
  PROVE  /\ DATA_BOT \in Nat /\ STACK_TOP \in Nat /\ data_top \in Nat /\ stack_bot \in Nat
         /\ DATA_BOT <= data_top /\ data_top <= stack_bot /\ stack_bot <= STACK_TOP
         /\ data_top % 4 = 0 /\ stack_bot % 4 = 0 /\ STACK_TOP % 4 = 0
<1>1. /\ data_top \in Nat /\ stack_bot \in Nat /\ data_top % 4 = 0 /\ stack_bot % 4 = 0
      /\ DATA_BOT + DataSize <= data_top /\ data_top <= DATA_BOT + DataLimit
      /\ STACK_TOP - StackLimit <= stack_bot /\ stack_bot <= STACK_TOP - StackSize
  BY DEF TypeOK
<1>2. DATA_BOT + DataLimit <= STACK_TOP - StackLimit /\ DataLimit \in Nat
  BY MemoryAssumption
<1>3. /\ DATA_BOT \in Nat /\ STACK_TOP \in Nat /\ DataSize \in Nat /\ StackSize \in Nat
      /\ StackLimit \in Nat
  BY Layout
<1>4. STACK_TOP % 4 = 0 BY Layout
<1>5. DATA_BOT <= data_top /\ data_top <= stack_bot /\ stack_bot <= STACK_TOP
  BY <1>1, <1>2, <1>3
<1> QED BY <1>1, <1>3, <1>4, <1>5

(* Replacing bytes of a segment replaces them in its image. *)
LEMMA PatchedData ==
  ASSUME NEW dtop \in Nat, NEW dseg \in [0..(dtop - DATA_BOT - 1) -> Nat],
         NEW a \in Nat, NEW n \in Sizes, NEW bytes, NEW sseg, NEW sbot,
         DATA_BOT <= a, a + n <= dtop
  PROVE  Image(Patch(dseg, a - DATA_BOT, n, bytes), dtop, sseg, sbot)
           = Flat!Put(Image(dseg, dtop, sseg, sbot), a, n, bytes)
<1> DEFINE new == Patch(dseg, a - DATA_BOT, n, bytes)
<1>1. n \in Nat /\ DATA_BOT \in Nat /\ STACK_TOP \in Nat BY Payloads, Layout
<1>2. ASSUME NEW x \in UserAddrs, x < dtop
      PROVE  new[x - DATA_BOT]
               = IF x \in a..(a + n - 1) THEN bytes[x - a] ELSE dseg[x - DATA_BOT]
  <2>1. x \in Nat /\ DATA_BOT <= x BY <1>1 DEF UserAddrs
  <2>2. x - DATA_BOT \in 0..(dtop - DATA_BOT - 1) BY <1>1, <1>2, <2>1
  <2>3. x - DATA_BOT \in (a - DATA_BOT)..(a - DATA_BOT + n - 1) <=> x \in a..(a + n - 1)
    BY <1>1, <2>1
  <2>4. (x - DATA_BOT) - (a - DATA_BOT) = x - a BY <1>1, <2>1
  <2> QED BY <2>2, <2>3, <2>4 DEF Patch
<1>3. ASSUME NEW x \in UserAddrs, ~ x < dtop
      PROVE  x \notin a..(a + n - 1)
  BY <1>1, <1>3 DEF UserAddrs
<1>4. ASSUME NEW x \in UserAddrs PROVE DATA_BOT <= x BY <1>1 DEF UserAddrs
<1> DEFINE old == Image(dseg, dtop, sseg, sbot)
<1> HIDE DEF new
<1>5. ASSUME NEW x \in UserAddrs
      PROVE  Image(new, dtop, sseg, sbot)[x] = IF x \in a..(a + n - 1) THEN bytes[x - a] ELSE old[x]
  BY <1>2, <1>3, <1>4 DEF Image
<1>6. Image(new, dtop, sseg, sbot)
        = [x \in UserAddrs |-> Image(new, dtop, sseg, sbot)[x]] BY DEF Image
<1> HIDE DEF old
<1> QED BY <1>5, <1>6, Zenon DEF Flat!Put, Flat!Cells, old, new

LEMMA PatchedStack ==
  ASSUME NEW sbot \in Nat, NEW sseg \in [0..(STACK_TOP - sbot - 1) -> Nat],
         NEW dseg, NEW dtop \in Nat, NEW a \in Nat, NEW n \in Sizes, NEW bytes,
         sbot <= a, a + n <= STACK_TOP, dtop <= a
  PROVE  Image(dseg, dtop, Patch(sseg, a - sbot, n, bytes), sbot)
           = Flat!Put(Image(dseg, dtop, sseg, sbot), a, n, bytes)
<1> SUFFICES ASSUME NEW new, new = Patch(sseg, a - sbot, n, bytes)
             PROVE  Image(dseg, dtop, new, sbot)
                      = Flat!Put(Image(dseg, dtop, sseg, sbot), a, n, bytes)
    OBVIOUS
<1>1. n \in Nat /\ DATA_BOT \in Nat /\ STACK_TOP \in Nat BY Payloads, Layout
<1>2. ASSUME NEW x \in UserAddrs, sbot <= x
      PROVE  new[x - sbot] = IF x \in a..(a + n - 1) THEN bytes[x - a] ELSE sseg[x - sbot]
  <2>1. x \in Nat /\ x < STACK_TOP BY <1>1 DEF UserAddrs
  <2>2. x - sbot \in 0..(STACK_TOP - sbot - 1) BY <1>1, <1>2, <2>1
  <2>3. x - sbot \in (a - sbot)..(a - sbot + n - 1) <=> x \in a..(a + n - 1)
    BY <1>1, <2>1
  <2>4. (x - sbot) - (a - sbot) = x - a BY <1>1, <2>1
  <2> QED BY <2>2, <2>3, <2>4 DEF Patch
<1>3. ASSUME NEW x \in UserAddrs, x < dtop \/ ~ sbot <= x
      PROVE  x \notin a..(a + n - 1)
  BY <1>1, <1>3 DEF UserAddrs
<1>4. ASSUME NEW x \in UserAddrs PROVE DATA_BOT <= x /\ x < STACK_TOP BY <1>1 DEF UserAddrs
<1> DEFINE old == Image(dseg, dtop, sseg, sbot)
<1>5. ASSUME NEW x \in UserAddrs
      PROVE  Image(dseg, dtop, new, sbot)[x] = IF x \in a..(a + n - 1) THEN bytes[x - a] ELSE old[x]
  BY <1>2, <1>3, <1>4 DEF Image
<1>6. Image(dseg, dtop, new, sbot)
        = [x \in UserAddrs |-> Image(dseg, dtop, new, sbot)[x]] BY DEF Image
<1> HIDE DEF old
<1> QED BY <1>5, <1>6 DEF Flat!Put, Flat!Cells, old

(* Growing either segment leaves the image as it is. *)
LEMMA GrownData ==
  ASSUME TypeOK, NEW top \in Nat, data_top <= top, top <= stack_bot,
         NEW dseg, dseg = [i \in 0..(top - DATA_BOT - 1) |->
                             IF i < data_top - DATA_BOT THEN data_seg[i] ELSE 0]
  PROVE  Image(dseg, top, stack_seg, stack_bot) = Contents
<1>1. /\ DATA_BOT \in Nat /\ STACK_TOP \in Nat /\ data_top \in Nat /\ stack_bot \in Nat
      /\ DATA_BOT <= data_top /\ stack_bot <= STACK_TOP
  BY Places
<1>2. ASSUME NEW x \in UserAddrs, x < data_top
      PROVE  x < top /\ dseg[x - DATA_BOT] = data_seg[x - DATA_BOT]
  BY <1>1, <1>2 DEF UserAddrs
<1>3. ASSUME NEW x \in UserAddrs, ~ x < data_top, x < top
      PROVE  dseg[x - DATA_BOT] = 0 /\ ~ stack_bot <= x
  BY <1>1, <1>3 DEF UserAddrs
<1> QED BY <1>2, <1>3, ContentsIsImage DEF Image

LEMMA ExpandedStackImage ==
  ASSUME TypeOK, NEW new \in Nat, new >= STACK_TOP - stack_bot, data_top <= STACK_TOP - new
  PROVE  Image(data_seg, data_top, Expanded(new), STACK_TOP - new) = Contents
<1> DEFINE bot == STACK_TOP - new
<1>1. /\ DATA_BOT \in Nat /\ STACK_TOP \in Nat /\ data_top \in Nat /\ stack_bot \in Nat
      /\ DATA_BOT <= data_top /\ stack_bot <= STACK_TOP
  BY Places
<1>2. bot \in Int /\ bot <= stack_bot BY <1>1
<1>3. ASSUME NEW x \in UserAddrs, bot <= x, x < stack_bot
      PROVE  Expanded(new)[x - bot] = 0
  BY <1>1, <1>3 DEF UserAddrs, Expanded
<1>4. ASSUME NEW x \in UserAddrs, stack_bot <= x
      PROVE  Expanded(new)[x - bot] = stack_seg[x - stack_bot] /\ bot <= x
  <2>1. x \in Nat /\ x < STACK_TOP BY <1>1 DEF UserAddrs
  <2>2. x - bot \in 0..(new - 1) /\ ~ x - bot < new - (STACK_TOP - stack_bot)
    BY <1>1, <1>2, <1>4, <2>1
  <2>3. (x - bot) - (new - (STACK_TOP - stack_bot)) = x - stack_bot BY <1>1, <2>1
  <2> QED BY <1>1, <1>2, <1>4, <2>1, <2>2, <2>3 DEF Expanded
<1>5. ASSUME NEW x \in UserAddrs PROVE x \in Nat /\ x < STACK_TOP BY <1>1 DEF UserAddrs
<1> HIDE DEF bot
<1>6. Image(data_seg, data_top, Expanded(new), bot) = Contents
  BY <1>1, <1>2, <1>3, <1>4, <1>5, ContentsIsImage DEF Image
<1> QED BY <1>6 DEF bot

(* An access that leaves data and stack alone is refused or lies elsewhere. *)
LEMMA NotOurs ==
  ASSUME TypeOK, NEW a \in Nat, a < DATA_BOT \/ a >= STACK_TOP
  PROVE  a \notin UserAddrs
  BY Layout DEF UserAddrs

LEMMA HighPlaces ==
  /\ STACK_TOP <= K_DATA_BOT /\ K_DATA_BOT <= MM_IO_BOT
  /\ K_DATA_BOT \in Nat /\ MM_IO_BOT \in Nat /\ STACK_TOP \in Nat
<1>1. KDataLimit \in Nat /\ K_DATA_BOT + KDataLimit <= MM_IO_BOT BY MemoryAssumption
<1>2. K_DATA_BOT \in Nat /\ MM_IO_BOT \in Nat /\ STACK_TOP \in Nat BY Layout
<1> QED BY <1>1, <1>2, MemoryAssumption

LEMMA RefusedAccess ==
  ASSUME TypeOK, NEW a \in Nat, NEW n \in Sizes, NEW op \in {"read", "write"},
         NEW bytes, NEW outcome, outcome # "ok",
         Answer(op, a, n, bytes, outcome),
         ~ Aligned(a, n) \/ ~ (InData(a) \/ InStack(a)),
         UNCHANGED <<data_seg, data_top, stack_seg, stack_bot>>
  PROVE  Flat!Refuse
<1>1. n \in Nat \ {0} BY Payloads
<1>2. /\ answer'.op = op /\ answer'.at = a /\ answer'.n = n /\ answer'.outcome = outcome
  BY DEF Answer
<1>3. UNCHANGED <<Contents, Allocated>>
  BY DEF Contents, Allocated, InData, InStack
<1>4. ~ (a % n = 0 /\ Flat!Cells(a, n) \subseteq Allocated)
  <2>1. a \in Flat!Cells(a, n) BY <1>1 DEF Flat!Cells
  <2>2. a \in Allocated => InData(a) \/ InStack(a)
    BY Places DEF Allocated, InData, InStack
  <2> QED BY <2>1, <2>2 DEF Aligned
<1> QED BY <1>2, <1>3, <1>4 DEF Flat!Refuse

LEMMA ElsewhereAccess ==
  ASSUME TypeOK, NEW a \in Nat, NEW n \in Sizes, NEW op \in {"read", "write"},
         NEW bytes, NEW outcome,
         Answer(op, a, n, bytes, outcome), a < DATA_BOT \/ a >= STACK_TOP,
         UNCHANGED <<data_seg, data_top, stack_seg, stack_bot>>
  PROVE  Flat!Elsewhere
<1>1. answer'.op = op /\ answer'.at = a BY DEF Answer
<1>2. UNCHANGED <<Contents, Allocated>> BY DEF Contents, Allocated, InData, InStack
<1> QED BY <1>1, <1>2, NotOurs DEF Flat!Elsewhere

(* What reads and writes have in common. *)
LEMMA CommonAccess ==
  ASSUME TypeOK, NEW a \in Nat, NEW n \in Sizes, NEW op \in {"read", "write"},
         Device(op, a, n) \/ Unaligned(op, a, n) \/ OutOfRange(op, a, n)
  PROVE  Flat!Refuse \/ Flat!Elsewhere
<1>1. UNCHANGED <<data_seg, data_top, stack_seg, stack_bot>>
  BY DEF Device, Unaligned, OutOfRange, segments
<1>2. CASE Device(op, a, n)
  <2>1. a >= STACK_TOP BY <1>2, HighPlaces DEF Device, InDevice
  <2> QED BY <1>1, <1>2, <2>1, ElsewhereAccess DEF Device
<1>3. CASE Unaligned(op, a, n)
  <2>1. PICK outcome \in {"AdEL", "AdES"} : Answer(op, a, n, <<>>, outcome)
    BY <1>3 DEF Unaligned
  <2> QED BY <1>1, <1>3, <2>1, RefusedAccess DEF Unaligned
<1>4. CASE OutOfRange(op, a, n)
  BY <1>1, <1>4, RefusedAccess DEF OutOfRange
<1> QED BY <1>2, <1>3, <1>4

(* The bytes of an access to a segment, and where it lies. *)
LEMMA DataAccess ==
  ASSUME TypeOK, NEW a \in Nat, NEW n \in Sizes, InData(a), Aligned(a, n)
  PROVE  /\ DATA_BOT <= a /\ a + n <= data_top
         /\ Flat!Cells(a, n) \subseteq UserAddrs /\ Flat!Cells(a, n) \subseteq Allocated
         /\ Slice(data_seg, a - DATA_BOT, n) = Flat!Get(Contents, a, n)
<1>1. n \in Nat BY Payloads
<1>2. a + n <= data_top BY Places, AlignedAccessFits DEF InData, Aligned
<1>3. DATA_BOT <= a BY DEF InData
<1>4. Flat!Cells(a, n) \subseteq UserAddrs /\ Flat!Cells(a, n) \subseteq Allocated
  BY <1>1, <1>2, <1>3, Places DEF Flat!Cells, UserAddrs, Allocated
<1>5. ASSUME NEW k \in 0..(n - 1)
      PROVE  data_seg[(a - DATA_BOT) + k] = Contents[a + k]
  <2>1. a + k \in UserAddrs /\ InData(a + k)
    BY <1>1, <1>2, <1>3, Places DEF UserAddrs, InData
  <2>2. (a - DATA_BOT) + k = (a + k) - DATA_BOT BY Places
  <2> QED BY <2>1, <2>2 DEF Contents
<1> QED BY <1>2, <1>3, <1>4, <1>5 DEF Slice, Flat!Get

LEMMA StackAccess ==
  ASSUME TypeOK, NEW a \in Nat, NEW n \in Sizes, InStack(a), Aligned(a, n)
  PROVE  /\ stack_bot <= a /\ a + n <= STACK_TOP
         /\ Flat!Cells(a, n) \subseteq UserAddrs /\ Flat!Cells(a, n) \subseteq Allocated
         /\ Slice(stack_seg, a - stack_bot, n) = Flat!Get(Contents, a, n)
<1>1. n \in Nat BY Payloads
<1>2. a + n <= STACK_TOP BY Places, AlignedAccessFits DEF InStack, Aligned
<1>3. stack_bot <= a BY DEF InStack
<1>4. Flat!Cells(a, n) \subseteq UserAddrs /\ Flat!Cells(a, n) \subseteq Allocated
  BY <1>1, <1>2, <1>3, Places DEF Flat!Cells, UserAddrs, Allocated
<1>5. ASSUME NEW k \in 0..(n - 1)
      PROVE  stack_seg[(a - stack_bot) + k] = Contents[a + k]
  <2>1. a + k \in UserAddrs /\ ~ InData(a + k) /\ InStack(a + k)
    BY <1>1, <1>2, <1>3, Places DEF UserAddrs, InData, InStack
  <2>2. (a - stack_bot) + k = (a + k) - stack_bot BY Places
  <2> QED BY <2>1, <2>2 DEF Contents
<1> QED BY <1>2, <1>3, <1>4, <1>5 DEF Slice, Flat!Get

(* An access below the stack, when the stack can grow: it lies between data  *)
(* and the old stack, inside the new one, and nothing was there before.      *)
LEMMA BelowAccess ==
  ASSUME TypeOK, NEW a \in Nat, NEW n \in Sizes, BelowStack(a), Aligned(a, n),
         StackGrows(a), stack_bot' = STACK_TOP - StackNeed(a), UNCHANGED data_top
  PROVE  /\ StackNeed(a) \in Nat /\ StackNeed(a) >= STACK_TOP - stack_bot
         /\ data_top <= stack_bot' /\ stack_bot' \in Nat /\ stack_bot' <= stack_bot
         /\ stack_bot' <= a /\ data_top <= a /\ a + n <= stack_bot
         /\ Flat!Cells(a, n) \subseteq UserAddrs
         /\ Allocated \cup Flat!Cells(a, n) \subseteq Allocated'
         /\ Zeros(n) = Flat!Get(Contents, a, n)
<1>1. n \in Nat BY Payloads
<1>2. /\ StackNeed(a) \in Nat /\ StackNeed(a) <= StackLimit
      /\ StackNeed(a) > STACK_TOP - stack_bot /\ STACK_TOP - StackNeed(a) <= a - 4
  BY GrownStack
<1>3. data_top < a /\ a < stack_bot BY DEF BelowStack
<1>4. a + n <= stack_bot BY <1>3, Places, AlignedAccessFits DEF Aligned
<1>5. data_top <= STACK_TOP - StackNeed(a) /\ STACK_TOP - StackNeed(a) \in Nat
  <2>1. data_top <= DATA_BOT + DataLimit BY DEF TypeOK
  <2>2. DATA_BOT + DataLimit <= STACK_TOP - StackLimit /\ DataLimit \in Nat
    BY MemoryAssumption
  <2>3. StackLimit \in Nat BY Layout
  <2> QED BY <1>2, <2>1, <2>2, <2>3, Places
<1>6. stack_bot' <= stack_bot /\ stack_bot' <= a BY <1>2, <1>5, Places
<1>7. Flat!Cells(a, n) \subseteq UserAddrs
  BY <1>1, <1>3, <1>4, Places DEF Flat!Cells, UserAddrs
<1>8. Allocated \cup Flat!Cells(a, n) \subseteq Allocated'
  BY <1>1, <1>4, <1>5, <1>6, Places DEF Flat!Cells, Allocated
<1>9. ASSUME NEW k \in 0..(n - 1) PROVE Contents[a + k] = 0
  <2>1. a + k \in UserAddrs /\ ~ InData(a + k) /\ ~ InStack(a + k)
    BY <1>1, <1>3, <1>4, Places DEF UserAddrs, InData, InStack
  <2> QED BY <2>1 DEF Contents
<1>10. Zeros(n) = Flat!Get(Contents, a, n) BY <1>9 DEF Zeros, Flat!Get
<1> QED BY <1>2, <1>3, <1>4, <1>5, <1>6, <1>7, <1>8, <1>10, Places

LEMMA FlatRead ==
  ASSUME TypeOK, NEW a \in Nat, NEW n \in Sizes, Read(a, n)
  PROVE  Flat!Next
<1>1. CASE ReadData(a, n)
  <2>1. UNCHANGED <<Contents, Allocated>>
    BY <1>1 DEF ReadData, segments, Contents, Allocated, InData, InStack
  <2>2. /\ answer'.op = "read" /\ answer'.outcome = "ok"
        /\ answer'.at = a /\ answer'.n = n
        /\ answer'.bytes = Slice(data_seg, a - DATA_BOT, n)
    BY <1>1 DEF ReadData, Answer
  <2>3. InData(a) /\ Aligned(a, n) BY <1>1 DEF ReadData
  <2> QED BY <2>1, <2>2, <2>3, DataAccess DEF Flat!Next, Flat!Read, Flat!Reaches
<1>2. CASE ReadStack(a, n)
  <2>1. UNCHANGED <<Contents, Allocated>>
    BY <1>2 DEF ReadStack, segments, Contents, Allocated, InData, InStack
  <2>2. /\ answer'.op = "read" /\ answer'.outcome = "ok"
        /\ answer'.at = a /\ answer'.n = n
        /\ answer'.bytes = Slice(stack_seg, a - stack_bot, n)
    BY <1>2 DEF ReadStack, Answer
  <2>3. InStack(a) /\ Aligned(a, n) BY <1>2 DEF ReadStack
  <2> QED BY <2>1, <2>2, <2>3, StackAccess DEF Flat!Next, Flat!Read, Flat!Reaches
<1>3. CASE ReadKData(a, n)
  <2>1. a >= STACK_TOP BY <1>3, HighPlaces DEF ReadKData, InKData
  <2>2. UNCHANGED <<data_seg, data_top, stack_seg, stack_bot>>
    BY <1>3 DEF ReadKData, segments
  <2> QED BY <1>3, <2>1, <2>2, ElsewhereAccess DEF ReadKData, Flat!Next
<1>4. CASE ReadText(a, n)
  <2>1. a < DATA_BOT BY <1>4, Layout, MemoryAssumption DEF ReadText, InText
  <2>2. UNCHANGED <<data_seg, data_top, stack_seg, stack_bot>>
    BY <1>4 DEF ReadText, segments
  <2>3. \E bytes, outcome : Answer("read", a, n, bytes, outcome) BY <1>4 DEF ReadText
  <2> QED BY <2>1, <2>2, <2>3, ElsewhereAccess DEF Flat!Next
<1>5. CASE ReadBelowStack(a, n) /\ StackGrows(a)
  <2>1. /\ BelowStack(a) /\ Aligned(a, n) /\ UNCHANGED <<data_seg, data_top>>
        /\ stack_seg' = Expanded(StackNeed(a)) /\ stack_bot' = STACK_TOP - StackNeed(a)
        /\ Answer("read", a, n, Zeros(n), "ok")
    BY <1>5 DEF ReadBelowStack
  <2>2. Contents' = Contents
    BY <1>5, <2>1, BelowAccess, ExpandedStackImage, ContentsIsImage
  <2>3. /\ Flat!Cells(a, n) \subseteq UserAddrs
        /\ Allocated \cup Flat!Cells(a, n) \subseteq Allocated'
        /\ Zeros(n) = Flat!Get(Contents, a, n)
    BY <1>5, <2>1, BelowAccess
  <2>4. /\ answer'.op = "read" /\ answer'.outcome = "ok"
        /\ answer'.at = a /\ answer'.n = n /\ answer'.bytes = Zeros(n)
    BY <2>1 DEF Answer
  <2> QED BY <2>2, <2>3, <2>4 DEF Flat!Next, Flat!Read, Flat!Reaches
<1>6. CASE ReadBelowStack(a, n) /\ ~ StackGrows(a)
  <2>1. /\ UNCHANGED <<data_seg, data_top, stack_seg, stack_bot>>
        /\ Answer("read", a, n, <<>>, "stopped")
    BY <1>6 DEF ReadBelowStack
  <2>2. ~ InData(a) /\ ~ InStack(a)
    BY <1>6, Places DEF ReadBelowStack, BelowStack, InData, InStack
  <2> QED BY <2>1, <2>2, RefusedAccess DEF Flat!Next
<1>7. CASE Device("read", a, n) \/ Unaligned("read", a, n) \/ OutOfRange("read", a, n)
  BY <1>7, CommonAccess DEF Flat!Next
<1> QED BY <1>1, <1>2, <1>3, <1>4, <1>5, <1>6, <1>7 DEF Read

LEMMA FlatWrite ==
  ASSUME TypeOK, NEW a \in Nat, NEW n \in Sizes, Write(a, n)
  PROVE  Flat!Next
<1>0. /\ data_seg \in [0..(data_top - DATA_BOT - 1) -> Nat]
      /\ stack_seg \in [0..(STACK_TOP - stack_bot - 1) -> Nat]
  BY DEF TypeOK
<1>1. CASE WriteData(a, n)
  <2>1. /\ UNCHANGED <<data_top, stack_seg, stack_bot>> /\ InData(a) /\ Aligned(a, n)
        /\ data_seg' = Patch(data_seg, a - DATA_BOT, n, Payload[n])
        /\ Answer("write", a, n, Payload[n], "ok")
    BY <1>1 DEF WriteData
  <2>2. Contents' = Flat!Put(Contents, a, n, Payload[n])
    <3>1. DATA_BOT <= a /\ a + n <= data_top BY <2>1, DataAccess
    <3>2. data_top \in Nat BY Places
    <3>3. Image(Patch(data_seg, a - DATA_BOT, n, Payload[n]), data_top, stack_seg, stack_bot)
            = Flat!Put(Image(data_seg, data_top, stack_seg, stack_bot), a, n, Payload[n])
      BY <1>0, <3>1, <3>2, PatchedData
    <3> QED BY <2>1, <3>3, ContentsIsImage
  <2>3. /\ answer'.op = "write" /\ answer'.outcome = "ok"
        /\ answer'.at = a /\ answer'.n = n /\ answer'.bytes = Payload[n]
    BY <2>1 DEF Answer
  <2>4. UNCHANGED Allocated BY <2>1 DEF Allocated
  <2> QED BY <2>1, <2>2, <2>3, <2>4, DataAccess DEF Flat!Next, Flat!Write, Flat!Reaches
<1>2. CASE WriteStack(a, n)
  <2>1. /\ UNCHANGED <<data_seg, data_top, stack_bot>> /\ InStack(a) /\ Aligned(a, n)
        /\ stack_seg' = Patch(stack_seg, a - stack_bot, n, Payload[n])
        /\ Answer("write", a, n, Payload[n], "ok")
    BY <1>2 DEF WriteStack
  <2>2. Contents' = Flat!Put(Contents, a, n, Payload[n])
    <3>1. stack_bot <= a /\ a + n <= STACK_TOP /\ data_top <= a
      BY <2>1, StackAccess, Places
    <3>2. Image(data_seg, data_top, stack_seg', stack_bot)
            = Flat!Put(Image(data_seg, data_top, stack_seg, stack_bot), a, n, Payload[n])
      BY <1>0, <2>1, <3>1, Places, PatchedStack
    <3> QED BY <2>1, <3>2, ContentsIsImage
  <2>3. /\ answer'.op = "write" /\ answer'.outcome = "ok"
        /\ answer'.at = a /\ answer'.n = n /\ answer'.bytes = Payload[n]
    BY <2>1 DEF Answer
  <2>4. UNCHANGED Allocated BY <2>1 DEF Allocated
  <2> QED BY <2>1, <2>2, <2>3, <2>4, StackAccess DEF Flat!Next, Flat!Write, Flat!Reaches
<1>3. CASE WriteKData(a, n)
  <2>1. a >= STACK_TOP BY <1>3, HighPlaces DEF WriteKData, InKData
  <2> QED BY <1>3, <2>1, ElsewhereAccess DEF WriteKData, Flat!Next
<1>4. CASE WriteText(a, n)
  <2>1. a < DATA_BOT BY <1>4, Layout, MemoryAssumption DEF WriteText, InText
  <2>2. \E bytes, outcome : Answer("write", a, n, bytes, outcome) BY <1>4 DEF WriteText
  <2> QED BY <1>4, <2>1, <2>2, ElsewhereAccess DEF WriteText, Flat!Next
<1>5. CASE WriteBelowStack(a, n) /\ StackGrows(a)
  <2>1. /\ BelowStack(a) /\ Aligned(a, n) /\ UNCHANGED <<data_seg, data_top>>
        /\ stack_bot' = STACK_TOP - StackNeed(a)
        /\ stack_seg' = Patch(Expanded(StackNeed(a)), a - stack_bot', n, Payload[n])
        /\ Answer("write", a, n, Payload[n], "ok")
    BY <1>5 DEF WriteBelowStack
  <2>2. /\ StackNeed(a) \in Nat /\ StackNeed(a) >= STACK_TOP - stack_bot
        /\ data_top <= stack_bot' /\ stack_bot' \in Nat /\ stack_bot' <= a
        /\ data_top <= a /\ a + n <= stack_bot
        /\ Flat!Cells(a, n) \subseteq UserAddrs
        /\ Allocated \cup Flat!Cells(a, n) \subseteq Allocated'
    BY <1>5, <2>1, BelowAccess
  <2>3. Contents' = Flat!Put(Contents, a, n, Payload[n])
    <3>1. Image(data_seg, data_top, Expanded(StackNeed(a)), stack_bot') = Contents
      BY <2>1, <2>2, ExpandedStackImage
    <3>2. Expanded(StackNeed(a)) \in [0..(STACK_TOP - stack_bot' - 1) -> Nat]
      <4>1. StackNeed(a) > STACK_TOP - stack_bot BY <1>5, <2>1, GrownStack
      <4>2. STACK_TOP - stack_bot' = StackNeed(a) BY <2>1, <2>2, Places
      <4> QED BY <2>2, <4>1, <4>2, ExpandedType
    <3>3. a + n <= STACK_TOP BY <2>2, Places, Payloads
    <3>4. data_top \in Nat BY Places
    <3> DEFINE sbot == stack_bot'
               sseg == Expanded(StackNeed(a))
    <3>5. sbot \in Nat /\ sbot <= a /\ sseg \in [0..(STACK_TOP - sbot - 1) -> Nat]
      BY <2>2, <3>2
    <3>6. stack_seg' = Patch(sseg, a - sbot, n, Payload[n]) BY <2>1
    <3> HIDE DEF sbot, sseg
    <3>7. Image(data_seg, data_top, Patch(sseg, a - sbot, n, Payload[n]), sbot)
            = Flat!Put(Image(data_seg, data_top, sseg, sbot), a, n, Payload[n])
      BY <2>2, <3>3, <3>4, <3>5, PatchedStack
    <3> QED BY <2>1, <3>1, <3>6, <3>7, ContentsIsImage DEF sbot, sseg
  <2>4. /\ answer'.op = "write" /\ answer'.outcome = "ok"
        /\ answer'.at = a /\ answer'.n = n /\ answer'.bytes = Payload[n]
    BY <2>1 DEF Answer
  <2> QED BY <2>2, <2>3, <2>4 DEF Flat!Next, Flat!Write, Flat!Reaches
<1>6. CASE WriteBelowStack(a, n) /\ ~ StackGrows(a)
  <2>1. /\ UNCHANGED <<data_seg, data_top, stack_seg, stack_bot>>
        /\ Answer("write", a, n, <<>>, "stopped")
    BY <1>6 DEF WriteBelowStack
  <2>2. ~ InData(a) /\ ~ InStack(a)
    BY <1>6, Places DEF WriteBelowStack, BelowStack, InData, InStack
  <2> QED BY <2>1, <2>2, RefusedAccess DEF Flat!Next
<1>7. CASE Device("write", a, n) \/ Unaligned("write", a, n) \/ OutOfRange("write", a, n)
  BY <1>7, CommonAccess DEF Flat!Next
<1> QED BY <1>1, <1>2, <1>3, <1>4, <1>5, <1>6, <1>7 DEF Write

LEMMA FlatGrow ==
  ASSUME TypeOK, TypeOK', NEW more \in Int, ExpandData(more) \/ ExpandKData(more)
  PROVE  Flat!Next
<1>1. answer'.op = "grow" BY DEF ExpandData, ExpandKData, Answer
<1>2. UNCHANGED <<stack_seg, stack_bot>> BY DEF ExpandData, ExpandKData
<1>3. CASE UNCHANGED <<data_seg, data_top>>
  <2>1. UNCHANGED <<Contents, Allocated>>
    BY <1>2, <1>3 DEF Contents, Allocated, InData, InStack
  <2> QED BY <1>1, <2>1 DEF Flat!Next, Flat!Grow, Flat!Reaches
<1>4. CASE /\ ExpandData(more) /\ more >= 0
           /\ data_top' = data_top + RoundUp(more)
           /\ data_seg' = [i \in 0..((data_top - DATA_BOT + RoundUp(more)) - 1) |->
                             IF i < data_top - DATA_BOT THEN data_seg[i] ELSE 0]
  <2>1. data_top' \in Nat /\ data_top' <= stack_bot'
    <3>1. /\ data_top' \in Nat /\ stack_bot' \in Nat
          /\ data_top' <= DATA_BOT + DataLimit /\ STACK_TOP - StackLimit <= stack_bot'
      BY DEF TypeOK
    <3>2. /\ DATA_BOT + DataLimit <= STACK_TOP - StackLimit /\ DataLimit \in Nat
          /\ DATA_BOT \in Nat /\ STACK_TOP \in Nat /\ StackLimit \in Nat
      BY Layout, MemoryAssumption
    <3> QED BY <3>1, <3>2
  <2>2. RoundUp(more) \in Nat BY <1>4, Rounding
  <2>3. /\ data_top <= data_top'
        /\ data_top' - DATA_BOT - 1 = (data_top - DATA_BOT + RoundUp(more)) - 1
    BY <1>4, <2>2, Places
  <2>4. Contents' = Contents BY <1>2, <1>4, <2>1, <2>3, GrownData, ContentsIsImage
  <2>5. Allocated \subseteq Allocated'
    BY <1>2, <2>1, <2>3, Places DEF Allocated
  <2> QED BY <1>1, <2>4, <2>5 DEF Flat!Next, Flat!Grow, Flat!Reaches
<1>5. CASE ExpandKData(more) BY <1>3, <1>5 DEF ExpandKData
<1>6. CASE ExpandData(more)
  <2>1. CASE more >= 0 /\ ~ UNCHANGED <<data_seg, data_top>>
    <3>1. /\ data_top' = data_top + RoundUp(more)
          /\ data_seg' = [i \in 0..((data_top - DATA_BOT + RoundUp(more)) - 1) |->
                            IF i < data_top - DATA_BOT THEN data_seg[i] ELSE 0]
      BY <1>6, <2>1 DEF ExpandData
    <3> QED BY <1>4, <1>6, <2>1, <3>1
  <2>2. CASE ~ more >= 0 BY <1>3, <1>6, <2>2 DEF ExpandData
  <2> QED BY <1>3, <2>1, <2>2
<1> QED BY <1>5, <1>6

LEMMA FlatInit == Init => Flat!Init
<1> SUFFICES ASSUME Init PROVE Flat!Init OBVIOUS
<1>1. Allocated = (DATA_BOT..(DATA_BOT + DataSize - 1)) \cup ((STACK_TOP - StackSize)..(STACK_TOP - 1))
  <2>1. data_top = DATA_BOT + DataSize /\ stack_bot = STACK_TOP - StackSize
    BY DEF Init
  <2> QED BY <2>1, Layout DEF Allocated
<1>2. ASSUME NEW x \in UserAddrs PROVE Contents[x] = 0
  BY <1>2, Layout, MemoryAssumption DEF Init, Contents, InData, InStack, Zeros, UserAddrs
<1>3. Contents = [x \in UserAddrs |-> 0] BY <1>2 DEF Contents
<1> QED BY <1>1, <1>3 DEF Init, Flat!Init, Nothing

LEMMA FlatReset == TypeOK /\ MakeMemory => Flat!Next
<1> SUFFICES ASSUME MakeMemory PROVE Flat!Reset BY DEF Flat!Next
<1>1. Allocated' = (DATA_BOT..(DATA_BOT + DataSize - 1)) \cup ((STACK_TOP - StackSize)..(STACK_TOP - 1))
  <2>1. data_top' = DATA_BOT + DataSize /\ stack_bot' = STACK_TOP - StackSize
    BY DEF MakeMemory
  <2> QED BY <2>1, Layout DEF Allocated
<1>2. ASSUME NEW x \in UserAddrs PROVE Contents'[x] = 0
  BY <1>2, Layout DEF MakeMemory, Contents, InData, InStack, Zeros, UserAddrs
<1>3. Contents' = [x \in UserAddrs |-> 0] BY <1>2 DEF Contents
<1> QED BY <1>1, <1>3 DEF MakeMemory, Flat!Reset, Flat!Init, Nothing

(* Data and stack implement the flat memory: whatever the layout and however  *)
(* accesses, growth and reinitialization interleave, a read returns what was  *)
(* last written there (read_mem_*, set_mem_*, expand_stack, expand_data).     *)
THEOREM MemoryIsFlat == Spec => ImplementsFlatMemory
<1>1. Init => Flat!Init BY FlatInit
<1>2. TypeOK /\ TypeOK' /\ [Next]_vars => [Flat!Next]_(Flat!vars)
  <2> SUFFICES ASSUME TypeOK, TypeOK', [Next]_vars PROVE [Flat!Next]_(Flat!vars)
    OBVIOUS
  <2>1. CASE UNCHANGED vars
    BY <2>1 DEF vars, segments, Flat!vars, Contents, Allocated, InData, InStack
  <2>2. CASE Reading
    <3>1. PICK a \in Addrs, n \in Sizes : Read(a, n) BY <2>2 DEF Reading, Sizes
    <3> QED BY <3>1, FlatRead, MemoryAssumption
  <2>3. CASE Writing
    <3>1. PICK a \in Addrs, n \in Sizes : Write(a, n) BY <2>3 DEF Writing, Sizes
    <3> QED BY <3>1, FlatWrite, MemoryAssumption
  <2>4. CASE Growing
    <3>1. PICK more \in Increments : ExpandData(more) \/ ExpandKData(more)
      BY <2>4 DEF Growing
    <3> QED BY <3>1, FlatGrow, MemoryAssumption
  <2>5. CASE MakeMemory BY <2>5, FlatReset
  <2> QED BY <2>1, <2>2, <2>3, <2>4, <2>5 DEF Next
<1>3. Spec => []TypeOK BY MemoryIsTyped
<1> QED BY <1>1, <1>2, <1>3, PTL DEF Spec, ImplementsFlatMemory, Flat!Spec
===============================================================================
