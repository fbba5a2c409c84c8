------------------------------- MODULE ProgramsProofs -------------------------------
(***************************************************************************)
(* Proofs about one run of one of the programs.                            *)
(*                                                                         *)
(* The frames of the MIPS functions: what a function pushes are the words  *)
(* its caller left in the registers, the frames lie one behind the other   *)
(* below $sp, and the place a function returns to is the one the jal       *)
(* noted.  This is what has to be known of every call that has not         *)
(* returned, whatever is called by whom and however often: the return of   *)
(* one of them uncovers the frame of the next.                             *)
(*                                                                         *)
(* The keys of the two programs: for every two numbers of the table, once  *)
(* the table is sieved, the loop of publicExp finds an exponent that can   *)
(* be inverted.  The proofs look for one as a number theorist would: below *)
(* a small totient it is a prime divisor of its predecessor, below a large *)
(* one the larger prime itself, or the last number of the MIPS table.      *)
(*                                                                         *)
(* The message on its way through the loops of powmod comes back whole,    *)
(* and the two programs do the same: each function of rsa.s and its        *)
(* counterpart of RSA.c compute the same number, however they loop.        *)
(***************************************************************************)
EXTENDS Programs, ArithmeticProofs

(* The frames of the MIPS functions.  Depth is the number of calls that     *)
(* have not returned; calls[Depth] is the one that runs.                    *)
Depth == Len(calls)
Registers == Frames!Saved \cup {"t7"}
IsSequence(s) == s \in Seq({s[k] : k \in DOMAIN s})

(* A pushed frame holds what the caller left in the registers. *)
FrameSaved(j) ==
  /\ 9 * j <= Len(stack)
  /\ \A k \in 1..9 : stack[9 * (j - 1) + k] = calls[j].regs[Frames!Rescued[k]]

(* What a call is noted with: the frames lie one behind the other, and the  *)
(* outermost function was called by main, every other one in a loop.        *)
CallNoted(j) ==
  /\ calls[j].sp = 9 * (j - 1)
  /\ DOMAIN calls[j].regs = Registers
  /\ calls[j].regs["ra"] = calls[j].back
  /\ calls[j].back = IF j = 1 THEN <<"main", "call", calls[j].back[3]>>
                     ELSE <<calls[j].back[1], "body", 0>>
  /\ j = 1 => calls[j].back[3] \in Nat

ShapeInv ==
  /\ IsSequence(calls) /\ IsSequence(stack) /\ DOMAIN reg = Registers
  /\ place[2] \in {"call", "push", "body", "pop", "return"}
  /\ place[2] = "call" <=> Depth = 0
  /\ place[2] = "body" => place = <<place[1], "body", 0>>
  /\ place[2] = "call" => place[1] = "main" /\ place[3] \in Nat

StackInv ==
  /\ \A j \in 1..Depth : CallNoted(j)
  /\ \A j \in 1..(Depth - 1) : FrameSaved(j)
  /\ place[2] = "call" => sp = 0
  /\ place[2] = "push" => sp = 9 * (Depth - 1) /\ reg = calls[Depth].regs
  /\ place[2] \in {"body", "pop"} => sp = 9 * Depth /\ FrameSaved(Depth)
  /\ place[2] = "return" =>
       /\ sp = 9 * (Depth - 1)
       /\ \A r \in Frames!Saved : reg[r] = calls[Depth].regs[r]

(* Between the call of publicExp and the return of inverse only functions   *)
(* run that leave $t7 alone.                                                *)
KeepT7 == {"publicExp", "gcd", "inverse"}
LengthInv ==
  /\ place[2] = "call" /\ place[3] \in {7, 8} => reg["t7"] = <<"main">>
  /\ Depth > 0 /\ calls[1].back[3] \in {7, 8} =>
       /\ reg["t7"] = <<"main">> /\ place[1] \in KeepT7
       /\ \A j \in 2..Depth : calls[j].back[1] \in KeepT7

FramesInv == ShapeInv /\ StackInv /\ LengthInv

-------------------------------------------------------------------------------
LEMMA SequenceDomain ==
  ASSUME NEW s, IsSequence(s)
  PROVE  Len(s) \in Nat /\ DOMAIN s = 1..Len(s)
  BY DEF IsSequence

LEMMA SequenceAppended ==
  ASSUME NEW s, NEW x, IsSequence(s)
  PROVE  /\ IsSequence(Append(s, x)) /\ Len(Append(s, x)) = Len(s) + 1
         /\ \A k \in 1..Len(s) : Append(s, x)[k] = s[k]
         /\ Append(s, x)[Len(s) + 1] = x
<1> DEFINE S == {s[k] : k \in DOMAIN s} \cup {x}
           t == Append(s, x)
<1>1. s \in Seq(S) /\ x \in S
  BY DEF IsSequence
<1>2. t \in Seq(S) /\ Len(t) = Len(s) + 1 /\ t[Len(s) + 1] = x
      /\ \A k \in 1..Len(s) : t[k] = s[k]
  BY <1>1
<1>3. t \in Seq({t[k] : k \in DOMAIN t})
  <2> HIDE DEF t
  <2>1. QED BY <1>2
<1>4. QED BY <1>2, <1>3 DEF IsSequence

LEMMA SequenceShortened ==
  ASSUME NEW s, IsSequence(s), Len(s) > 0
  PROVE  LET t == SubSeq(s, 1, Len(s) - 1)
         IN  /\ IsSequence(t) /\ Len(t) = Len(s) - 1
             /\ \A k \in 1..(Len(s) - 1) : t[k] = s[k]
<1> DEFINE S == {s[k] : k \in DOMAIN s}
           m == Len(s) - 1
           t == SubSeq(s, 1, m)
<1>1. s \in Seq(S) /\ Len(s) \in Nat /\ m \in Nat /\ m + 1 = Len(s)
  BY DEF IsSequence
<1>2. t \in Seq(S) /\ Len(t) = m /\ \A k \in 1..m : t[k] = s[k]
  <2> HIDE DEF m
  <2>1. QED BY <1>1
<1>3. t \in Seq({t[k] : k \in DOMAIN t})
  <2> HIDE DEF t
  <2>1. QED BY <1>2
<1>4. QED BY <1>2, <1>3 DEF IsSequence

(* A function on 1..n is a sequence of length n. *)
LEMMA SequenceFromFunction ==
  ASSUME NEW n \in Nat, NEW s, s = [k \in 1..n |-> s[k]]
  PROVE  IsSequence(s) /\ Len(s) = n
<1>1. s \in [1..n -> {s[k] : k \in DOMAIN s}]
  OBVIOUS
<1>2. s \in Seq({s[k] : k \in DOMAIN s})
  BY <1>1
<1>3. DOMAIN s = 1..n /\ DOMAIN s = 1..Len(s) /\ Len(s) \in Nat
  BY <1>1, <1>2
<1>4. QED BY <1>2, <1>3 DEF IsSequence

-------------------------------------------------------------------------------
(* #PUSH_REGISTERS and #POP_REGISTERS. *)
LEMMA RescuedIsSaved ==
  /\ Len(Frames!Rescued) = 9 /\ DOMAIN Frames!Rescued = 1..9
  /\ Frames!Saved = {Frames!Rescued[k] : k \in 1..9} /\ "ra" \in Frames!Saved
  /\ \A j, k \in 1..9 : Frames!Rescued[j] = Frames!Rescued[k] => j = k
  BY DEF Frames!Rescued, Frames!Saved

LEMMA PushStores ==
  ASSUME ShapeInv, NEW base \in Nat, sp = base, Frames!Push
  PROVE  /\ IsSequence(stack') /\ sp' = base + 9
         /\ Len(stack) <= Len(stack') /\ base + 9 <= Len(stack')
         /\ \A k \in 1..9 : stack'[base + k] = reg[Frames!Rescued[k]]
         /\ \A k \in 1..Len(stack) : k <= base => stack'[k] = stack[k]
<1> DEFINE n == IF base + 9 > Len(stack) THEN base + 9 ELSE Len(stack)
<1>1. Len(stack) \in Nat /\ n \in Nat /\ n >= base + 9 /\ n >= Len(stack)
  BY SequenceDomain DEF ShapeInv
<1>2. stack' = [k \in 1..n |-> IF k \in (base + 1)..(base + 9)
                               THEN reg[Frames!Rescued[k - base]] ELSE stack[k]]
  BY RescuedIsSaved DEF Frames!Push, Frames!Stored
<1> HIDE DEF n
<1>3. stack' = [k \in 1..n |-> stack'[k]]
  BY <1>2
<1>4. IsSequence(stack') /\ Len(stack') = n
  BY <1>1, <1>3, SequenceFromFunction
<1>5. ASSUME NEW k \in 1..9 PROVE stack'[base + k] = reg[Frames!Rescued[k]]
  <2>1. base + k \in 1..n /\ base + k \in (base + 1)..(base + 9) /\ (base + k) - base = k
    BY <1>1
  <2>2. QED BY <1>2, <2>1
<1>6. ASSUME NEW k \in 1..Len(stack), k <= base PROVE stack'[k] = stack[k]
  <2>1. k \in 1..n /\ k \notin (base + 1)..(base + 9)
    BY <1>1, <1>6
  <2>2. QED BY <1>2, <2>1
<1>7. QED BY <1>1, <1>4, <1>5, <1>6, RescuedIsSaved DEF Frames!Push

LEMMA PopRestores ==
  ASSUME ShapeInv, NEW base \in Nat, sp = base + 9, Frames!Pop
  PROVE  /\ sp' = base /\ DOMAIN reg' = DOMAIN reg /\ reg'["t7"] = reg["t7"]
         /\ \A k \in 1..9 : reg'[Frames!Rescued[k]] = stack[base + k]
<1>1. sp' = base /\ reg' = Frames!Restored(base)
  BY RescuedIsSaved DEF Frames!Pop
<1>2. ASSUME NEW k \in 1..9 PROVE reg'[Frames!Rescued[k]] = stack[base + k]
  <2>1. Frames!Rescued[k] \in DOMAIN reg
    BY RescuedIsSaved DEF ShapeInv, Registers
  <2>2. (CHOOSE j \in DOMAIN Frames!Rescued : Frames!Rescued[j] = Frames!Rescued[k]) = k
    BY RescuedIsSaved
  <2>3. \E j \in DOMAIN Frames!Rescued : Frames!Rescued[j] = Frames!Rescued[k]
    BY RescuedIsSaved
  <2>4. QED BY <1>1, <2>1, <2>2, <2>3 DEF Frames!Restored
<1>3. "t7" \in DOMAIN reg /\ ~ \E k \in DOMAIN Frames!Rescued : Frames!Rescued[k] = "t7"
  <2>1. "t7" \notin Frames!Saved
    BY DEF Frames!Saved
  <2>2. QED BY <2>1, RescuedIsSaved DEF ShapeInv, Registers
<1>4. QED BY <1>1, <1>2, <1>3 DEF Frames!Restored

(* A frame below the one that is written stays as it is. *)
LEMMA FrameKept ==
  ASSUME NEW j \in Nat \ {0}, FrameSaved(j), calls'[j] = calls[j], Len(stack) <= Len(stack'),
         Len(stack) \in Nat, Len(stack') \in Nat,
         \A k \in 1..(9 * j) : stack'[k] = stack[k]
  PROVE  FrameSaved(j)'
<1>1. ASSUME NEW k \in 1..9 PROVE stack'[9 * (j - 1) + k] = stack[9 * (j - 1) + k]
  <2>1. 9 * (j - 1) + k \in 1..(9 * j)
    OBVIOUS
  <2>2. QED BY <2>1
<1>2. QED BY <1>1 DEF FrameSaved

-------------------------------------------------------------------------------
LEMMA InitFrames == Frames!Init => FramesInv
<1>1. SUFFICES ASSUME Frames!Init PROVE FramesInv
  OBVIOUS
<1>2. calls = <<>> /\ stack = <<>> /\ Depth = 0 /\ IsSequence(calls) /\ IsSequence(stack)
  BY <1>1 DEF Frames!Init, Depth, IsSequence
<1>3. place = <<"main", "call", 1>> /\ sp = 0 /\ DOMAIN reg = Registers
  BY <1>1 DEF Frames!Init, Registers
<1>4. QED BY <1>2, <1>3 DEF FramesInv, ShapeInv, StackInv, LengthInv

(* jal notes the call and leaves the frames alone. *)
LEMMA JalNotes ==
  ASSUME FramesInv, NEW f, NEW regs, NEW back, Frames!Jal(f, regs, back),
         place[2] \in {"call", "body"},
         back = IF Depth = 0 THEN <<"main", "call", back[3]>> ELSE <<back[1], "body", 0>>,
         Depth = 0 => back[3] \in Nat
  PROVE  /\ ShapeInv' /\ StackInv' /\ Depth' = Depth + 1 /\ place' = <<f, "push", 0>>
         /\ calls'[Depth + 1].back = back
         /\ \A j \in 1..Depth : calls'[j] = calls[j]
         /\ reg'["t7"] = IF "t7" \in regs THEN <<place[1]>> ELSE reg["t7"]
<1> DEFINE passed == [Frames!Written(regs, place[1]) EXCEPT !["ra"] = back]
           noted == [back |-> back, regs |-> passed, sp |-> sp]
<1>1. /\ reg' = passed /\ calls' = Append(calls, noted) /\ place' = <<f, "push", 0>>
      /\ sp' = sp /\ stack' = stack
  BY DEF Frames!Jal
<1>2. /\ IsSequence(calls) /\ IsSequence(stack) /\ DOMAIN reg = Registers /\ Depth \in Nat
      /\ Len(stack) \in Nat /\ (place[2] = "call" <=> Depth = 0)
  BY SequenceDomain DEF FramesInv, ShapeInv, Depth
<1>3. "ra" \in Registers /\ "t7" \in Registers
  BY DEF Registers, Frames!Saved
<1>4. DOMAIN passed = Registers /\ passed["ra"] = back
      /\ passed["t7"] = IF "t7" \in regs THEN <<place[1]>> ELSE reg["t7"]
  BY <1>2, <1>3 DEF Frames!Written
<1>5. /\ IsSequence(calls') /\ Depth' = Depth + 1
      /\ \A j \in 1..Depth : calls'[j] = calls[j]
      /\ calls'[Depth + 1] = noted
  BY <1>1, <1>2, SequenceAppended DEF Depth
<1>6. noted.back = back /\ noted.regs = passed /\ noted.sp = sp
  OBVIOUS
<1> HIDE DEF passed, noted
<1>7. sp = 9 * Depth
  BY <1>2 DEF FramesInv, StackInv
<1>8. ShapeInv'
  BY <1>1, <1>2, <1>4, <1>5 DEF ShapeInv
<1>9. ASSUME NEW j \in 1..Depth' PROVE CallNoted(j)'
  <2>1. CASE j \in 1..Depth
    <3>1. CallNoted(j)
      BY <2>1 DEF FramesInv, StackInv
    <3>2. QED BY <1>5, <2>1, <3>1 DEF CallNoted
  <2>2. CASE j = Depth + 1
    <3>1. 9 * (j - 1) = sp /\ (j = 1 <=> Depth = 0)
      BY <1>2, <1>7, <2>2
    <3>2. QED BY <1>4, <1>5, <1>6, <2>2, <3>1 DEF CallNoted
  <2>3. QED BY <1>2, <1>5, <2>1, <2>2
<1>10. ASSUME NEW j \in 1..(Depth' - 1) PROVE FrameSaved(j)'
  <2>1. j \in 1..Depth /\ FrameSaved(j)
    BY <1>2, <1>5 DEF FramesInv, StackInv
  <2>2. QED BY <1>1, <1>5, <2>1 DEF FrameSaved
<1>11. StackInv'
  BY <1>1, <1>2, <1>5, <1>6, <1>7, <1>9, <1>10 DEF StackInv
<1>12. QED BY <1>1, <1>4, <1>5, <1>6, <1>8, <1>11

(* $t7 is written by main before publicExp, and by no function that runs    *)
(* before the second of the calls behind it has returned.                   *)
LEMMA WritersOfT7 ==
  /\ Len(Frames!MainCalls) = 10
  /\ "t7" \in Frames!MainWrites[6] /\ "t7" \notin Frames!MainWrites[7]
  /\ Frames!MainCalls[6] \in KeepT7 /\ Frames!MainCalls[7] \in KeepT7
  /\ \A f \in KeepT7 : /\ "t7" \notin Frames!Writes[f]
                       /\ f \in DOMAIN Frames!InnerCall => Frames!InnerCall[f] \in KeepT7
<1>1. Len(Frames!MainCalls) = 10 /\ Frames!MainCalls[6] = "publicExp" /\ Frames!MainCalls[7] = "inverse"
      /\ DOMAIN Frames!MainCalls = 1..10
  BY DEF Frames!MainCalls
<1>2. "t7" \in Frames!MainWrites[6] /\ "t7" \notin Frames!MainWrites[7]
  BY DEF Frames!MainWrites
<1>3. KeepT7 \subseteq Frames!Functions
  BY <1>1 DEF KeepT7, Frames!Functions
<1>4. \A f \in KeepT7 : "t7" \notin Frames!Writes[f]
  BY <1>3 DEF KeepT7, Frames!Writes
<1>5. \A f \in KeepT7 \cap DOMAIN Frames!InnerCall : Frames!InnerCall[f] \in KeepT7
  BY DEF KeepT7, Frames!InnerCall
<1>6. QED BY <1>1, <1>2, <1>4, <1>5 DEF KeepT7

LEMMA CallFromMainKeeps ==
  ASSUME FramesInv, Frames!CallFromMain
  PROVE  FramesInv'
<1> DEFINE k == place[3]
           f == Frames!MainCalls[k]
           regs == Frames!MainWrites[k]
           back == <<"main", "call", k + 1>>
<1>1. /\ place[2] = "call" /\ k <= 10 /\ Frames!Jal(f, regs, back)
      /\ Depth = 0 /\ place[1] = "main" /\ k \in Nat
  BY WritersOfT7 DEF Frames!CallFromMain, FramesInv, ShapeInv
<1>2. back = <<"main", "call", back[3]>> /\ back[3] = k + 1 /\ k + 1 \in Nat
  BY <1>1
<1> HIDE DEF f, regs
<1>3. /\ ShapeInv' /\ StackInv' /\ Depth' = 1 /\ place' = <<f, "push", 0>>
      /\ calls'[1].back = back
      /\ reg'["t7"] = IF "t7" \in regs THEN <<"main">> ELSE reg["t7"]
  <2> HIDE DEF back
  <2>1. QED BY <1>1, <1>2, JalNotes
<1>4. ASSUME k + 1 \in {7, 8}
      PROVE  reg'["t7"] = <<"main">> /\ f \in KeepT7
  <2>2. k = 6 \/ k = 7
    BY <1>1, <1>4
  <2>3. CASE k = 6
    BY <1>3, <2>3, WritersOfT7 DEF f, regs
  <2>4. CASE k = 7
    <3>1. reg["t7"] = <<"main">>
      BY <1>1, <2>4 DEF FramesInv, LengthInv
    <3>2. QED BY <1>3, <2>4, <3>1, WritersOfT7 DEF f, regs
  <2>5. QED BY <2>2, <2>3, <2>4
<1>5. LengthInv'
  <2>1. \A j \in 2..Depth' : FALSE
    BY <1>3
  <2>2. place'[2] = "push" /\ place'[1] = f /\ calls'[1].back[3] = k + 1
    BY <1>2, <1>3
  <2>3. QED BY <1>4, <2>1, <2>2 DEF LengthInv
<1>6. QED BY <1>3, <1>5 DEF FramesInv

LEMMA CallFromLoopKeeps ==
  ASSUME FramesInv, Frames!CallFromLoop
  PROVE  FramesInv'
<1> DEFINE f == Frames!InnerCall[place[1]]
           regs == Frames!Writes[place[1]]
<1>1. /\ place[2] = "body" /\ place[1] \in DOMAIN Frames!InnerCall
      /\ Frames!Jal(f, regs, place) /\ Depth # 0 /\ Depth \in Nat
  BY SequenceDomain DEF Frames!CallFromLoop, FramesInv, ShapeInv, Depth
<1>2. place = <<place[1], "body", 0>>
  BY <1>1 DEF FramesInv, ShapeInv
<1> HIDE DEF f, regs
<1>3. /\ ShapeInv' /\ StackInv' /\ Depth' = Depth + 1 /\ place' = <<f, "push", 0>>
      /\ calls'[Depth + 1].back = place
      /\ \A j \in 1..Depth : calls'[j] = calls[j]
      /\ reg'["t7"] = IF "t7" \in regs THEN <<place[1]>> ELSE reg["t7"]
  BY <1>1, <1>2, JalNotes
<1>4. ASSUME calls'[1].back[3] \in {7, 8}
      PROVE  reg'["t7"] = <<"main">> /\ f \in KeepT7
             /\ \A j \in 2..Depth' : calls'[j].back[1] \in KeepT7
  <2>1. /\ reg["t7"] = <<"main">> /\ place[1] \in KeepT7
        /\ \A j \in 2..Depth : calls[j].back[1] \in KeepT7
    BY <1>1, <1>3, <1>4 DEF FramesInv, LengthInv
  <2>2. "t7" \notin regs /\ f \in KeepT7
    BY <1>1, <2>1, WritersOfT7 DEF f, regs
  <2>3. \A j \in 2..Depth' : j \in 2..Depth \/ j = Depth + 1
    BY <1>1, <1>3
  <2>4. QED BY <1>1, <1>3, <2>1, <2>2, <2>3
<1>5. LengthInv'
  <2>1. place'[2] = "push" /\ place'[1] = f
    BY <1>3
  <2>2. QED BY <1>4, <2>1 DEF LengthInv
<1>6. QED BY <1>3, <1>5 DEF FramesInv

LEMMA PushKeeps ==
  ASSUME FramesInv, Frames!Push
  PROVE  FramesInv'
<1>1. /\ place[2] = "push" /\ Depth \in Nat /\ Depth # 0 /\ sp = 9 * (Depth - 1) /\ reg = calls[Depth].regs
      /\ Len(stack) \in Nat
  BY SequenceDomain DEF Frames!Push, FramesInv, ShapeInv, StackInv, Depth
<1>2. place' = <<place[1], "body", 0>> /\ calls' = calls /\ reg' = reg /\ Depth' = Depth
  BY DEF Frames!Push, Depth
<1>3. /\ IsSequence(stack') /\ sp' = 9 * Depth
      /\ Len(stack) <= Len(stack') /\ 9 * Depth <= Len(stack')
      /\ \A k \in 1..9 : stack'[9 * (Depth - 1) + k] = reg[Frames!Rescued[k]]
      /\ \A k \in 1..Len(stack) : k <= 9 * (Depth - 1) => stack'[k] = stack[k]
  <2> DEFINE base == 9 * (Depth - 1)
  <2>1. base \in Nat /\ sp = base /\ base + 9 = 9 * Depth
    BY <1>1
  <2> HIDE DEF base
  <2>2. /\ IsSequence(stack') /\ sp' = base + 9
        /\ Len(stack) <= Len(stack') /\ base + 9 <= Len(stack')
        /\ \A k \in 1..9 : stack'[base + k] = reg[Frames!Rescued[k]]
        /\ \A k \in 1..Len(stack) : k <= base => stack'[k] = stack[k]
    BY <2>1, PushStores DEF FramesInv
  <2>3. QED BY <2>1, <2>2 DEF base
<1>4. ShapeInv'
  BY <1>1, <1>2, <1>3 DEF FramesInv, ShapeInv
<1>5. FrameSaved(Depth)'
  BY <1>1, <1>2, <1>3 DEF FrameSaved
<1>6. ASSUME NEW j \in 1..(Depth - 1) PROVE FrameSaved(j)'
  <2>1. FrameSaved(j) /\ j \in Nat \ {0} /\ 9 * j <= 9 * (Depth - 1) /\ 9 * j <= Len(stack)
    BY <1>1 DEF FramesInv, StackInv, FrameSaved
  <2>2. ASSUME NEW k \in 1..(9 * j) PROVE stack'[k] = stack[k]
    <3>1. k \in 1..Len(stack) /\ k <= 9 * (Depth - 1)
      BY <1>1, <2>1
    <3>2. QED BY <1>3, <3>1
  <2>3. Len(stack') \in Nat
    BY <1>3, SequenceDomain
  <2>4. QED BY <1>1, <1>2, <1>3, <2>1, <2>2, <2>3, FrameKept
<1>7. \A j \in 1..Depth : CallNoted(j)'
  BY <1>2 DEF FramesInv, StackInv, CallNoted
<1>8. StackInv'
  BY <1>1, <1>2, <1>3, <1>5, <1>6, <1>7 DEF StackInv
<1>9. LengthInv'
  BY <1>1, <1>2 DEF FramesInv, LengthInv
<1>10. QED BY <1>4, <1>8, <1>9 DEF FramesInv

LEMMA BodyKeeps ==
  ASSUME FramesInv, Frames!Body
  PROVE  FramesInv'
<1>1. /\ place[2] = "body" /\ place' = <<place[1], "pop", 0>>
      /\ sp' = sp /\ stack' = stack /\ calls' = calls /\ Depth' = Depth
      /\ reg' = Frames!Written(Frames!Writes[place[1]], place[1])
  BY DEF Frames!Body, Depth
<1>2. /\ DOMAIN reg' = Registers
      /\ reg'["t7"] = IF "t7" \in Frames!Writes[place[1]] THEN <<place[1]>> ELSE reg["t7"]
  BY <1>1 DEF FramesInv, ShapeInv, Registers, Frames!Written
<1>3. ShapeInv'
  BY <1>1, <1>2 DEF FramesInv, ShapeInv
<1>4. StackInv'
  BY <1>1 DEF FramesInv, StackInv, CallNoted, FrameSaved
<1>5. LengthInv'
  <2>1. ASSUME Depth > 0, calls[1].back[3] \in {7, 8}
        PROVE  reg'["t7"] = <<"main">>
    <3>1. reg["t7"] = <<"main">> /\ place[1] \in KeepT7
      BY <2>1 DEF FramesInv, LengthInv
    <3>2. QED BY <1>2, <3>1, WritersOfT7
  <2>2. QED BY <1>1, <2>1 DEF FramesInv, LengthInv
<1>6. QED BY <1>3, <1>4, <1>5 DEF FramesInv

LEMMA PopKeeps ==
  ASSUME FramesInv, Frames!Pop
  PROVE  FramesInv'
<1>1. /\ place[2] = "pop" /\ Depth \in Nat /\ Depth # 0 /\ sp = 9 * Depth /\ FrameSaved(Depth)
  BY SequenceDomain DEF Frames!Pop, FramesInv, ShapeInv, StackInv, Depth
<1>2. place' = <<place[1], "return", 0>> /\ calls' = calls /\ stack' = stack /\ Depth' = Depth
  BY DEF Frames!Pop, Depth
<1>3. /\ sp' = 9 * (Depth - 1) /\ DOMAIN reg' = DOMAIN reg /\ reg'["t7"] = reg["t7"]
      /\ \A k \in 1..9 : reg'[Frames!Rescued[k]] = stack[9 * (Depth - 1) + k]
  <2> DEFINE base == 9 * (Depth - 1)
  <2>1. base \in Nat /\ sp = base + 9
    BY <1>1
  <2> HIDE DEF base
  <2>2. /\ sp' = base /\ DOMAIN reg' = DOMAIN reg /\ reg'["t7"] = reg["t7"]
        /\ \A k \in 1..9 : reg'[Frames!Rescued[k]] = stack[base + k]
    BY <2>1, PopRestores DEF FramesInv
  <2>3. QED BY <2>2 DEF base
<1>4. \A r \in Frames!Saved : reg'[r] = calls[Depth].regs[r]
  <2>1. ASSUME NEW k \in 1..9
        PROVE  reg'[Frames!Rescued[k]] = calls[Depth].regs[Frames!Rescued[k]]
    <3>1. stack[9 * (Depth - 1) + k] = calls[Depth].regs[Frames!Rescued[k]]
      BY <1>1 DEF FrameSaved
    <3>2. QED BY <1>3, <3>1
  <2>2. QED BY <2>1, RescuedIsSaved
<1>5. ShapeInv'
  BY <1>1, <1>2, <1>3 DEF FramesInv, ShapeInv
<1>6. StackInv'
  BY <1>1, <1>2, <1>3, <1>4 DEF FramesInv, StackInv, CallNoted, FrameSaved
<1>7. LengthInv'
  BY <1>1, <1>2, <1>3 DEF FramesInv, LengthInv
<1>8. QED BY <1>5, <1>6, <1>7 DEF FramesInv

(* The place jr $ra goes to, and the words the caller finds on its stack.   *)
LEMMA ReturnKeeps ==
  ASSUME FramesInv, Frames!Return
  PROVE  FramesInv'
<1>1. /\ place[2] = "return" /\ Depth \in Nat /\ Depth # 0 /\ IsSequence(calls)
      /\ sp = 9 * (Depth - 1) /\ reg["ra"] = calls[Depth].regs["ra"]
  BY SequenceDomain, RescuedIsSaved DEF Frames!Return, FramesInv, ShapeInv, StackInv, Depth
<1>2. CallNoted(Depth)
  BY <1>1 DEF FramesInv, StackInv
<1>3. place' = calls[Depth].back /\ reg' = reg /\ sp' = sp /\ stack' = stack
  BY <1>1, <1>2 DEF Frames!Return, CallNoted
<1>4. /\ IsSequence(calls') /\ Depth' = Depth - 1 /\ \A j \in 1..(Depth - 1) : calls'[j] = calls[j]
  BY <1>1, SequenceShortened DEF Frames!Return, Depth
<1>5. /\ place' = IF Depth = 1 THEN <<"main", "call", place'[3]>> ELSE <<place'[1], "body", 0>>
      /\ Depth = 1 => place'[3] \in Nat
  BY <1>2, <1>3 DEF CallNoted
<1>6. ShapeInv'
  BY <1>1, <1>3, <1>4, <1>5 DEF FramesInv, ShapeInv
<1>7. ASSUME NEW j \in 1..(Depth - 1) PROVE CallNoted(j)' /\ FrameSaved(j)'
  <2>1. CallNoted(j) /\ FrameSaved(j)
    BY <1>1 DEF FramesInv, StackInv
  <2>2. QED BY <1>3, <1>4, <2>1 DEF CallNoted, FrameSaved
<1>8. StackInv'
  <2>1. place'[2] = IF Depth = 1 THEN "call" ELSE "body"
    BY <1>5
  <2>2. \A j \in 1..(Depth' - 1) : j \in 1..(Depth - 1)
    BY <1>1, <1>4
  <2>3. QED BY <1>1, <1>3, <1>4, <1>7, <2>1, <2>2 DEF StackInv
<1>9. LengthInv'
  <2>1. CASE Depth = 1
    BY <1>1, <1>3, <1>4, <1>5, <2>1 DEF FramesInv, LengthInv
  <2>2. CASE Depth # 1
    <3>1. 1 \in 1..(Depth - 1) /\ Depth \in 2..Depth /\ \A j \in 2..(Depth - 1) : j \in 2..Depth
      BY <1>1, <2>2
    <3>2. QED BY <1>1, <1>3, <1>4, <1>5, <2>2, <3>1 DEF FramesInv, LengthInv
  <2>3. QED BY <2>1, <2>2
<1>10. QED BY <1>6, <1>8, <1>9 DEF FramesInv

LEMMA NextFrames == FramesInv /\ [Frames!Next]_(Frames!vars) => FramesInv'
<1>1. SUFFICES ASSUME FramesInv, [Frames!Next]_(Frames!vars) PROVE FramesInv'
  OBVIOUS
<1>2. CASE UNCHANGED Frames!vars
  BY <1>1, <1>2
  DEF Frames!vars, FramesInv, ShapeInv, StackInv, LengthInv, CallNoted, FrameSaved, Depth
<1>3. QED
  BY <1>1, <1>2, CallFromMainKeeps, CallFromLoopKeeps, PushKeeps, BodyKeeps, PopKeeps, ReturnKeeps
  DEF Frames!Next

LEMMA FramesInvGivesReturn == FramesInv => Frames!ReturnsToCaller /\ Frames!CallerStateKept /\ Frames!LengthKept
<1>1. SUFFICES ASSUME FramesInv
               PROVE  Frames!ReturnsToCaller /\ Frames!CallerStateKept /\ Frames!LengthKept
  OBVIOUS
<1>2. ASSUME place[2] = "return"
      PROVE  /\ reg["ra"] = calls[Depth].back /\ sp = calls[Depth].sp
             /\ \A r \in Frames!Saved : reg[r] = calls[Depth].regs[r]
  <2>1. Depth \in Nat /\ Depth # 0
    BY <1>1, <1>2, SequenceDomain DEF FramesInv, ShapeInv, Depth
  <2>2. /\ CallNoted(Depth) /\ sp = 9 * (Depth - 1)
        /\ \A r \in Frames!Saved : reg[r] = calls[Depth].regs[r]
    BY <1>1, <1>2, <2>1 DEF FramesInv, StackInv
  <2>3. QED BY <2>2, RescuedIsSaved DEF CallNoted
<1>3. Frames!LengthKept
  BY <1>1 DEF FramesInv, LengthInv, Frames!LengthKept
<1>4. QED BY <1>2, <1>3 DEF Frames!ReturnsToCaller, Frames!CallerStateKept, Frames!Caller, Depth

-------------------------------------------------------------------------------
(* The number theory of the instances is that of this module. *)
LEMMA TheoryOfC ==
  /\ \A n : InC!IsPrime(n) <=> IsPrime(n)
  /\ \A m, n : InC!Coprime(m, n) <=> Coprime(m, n)
  /\ \A m, n : InC!Distance(m, n) = Distance(m, n)
  /\ \A r, m, n : InC!IsClosest(r, m, n) <=> IsClosest(r, m, n)
BY DEF InC!IsPrime, IsPrime, InC!Coprime, Coprime, InC!Divides, Divides, InC!Distance, Distance,
       InC!IsClosest, IsClosest

LEMMA TheoryOfMips ==
  /\ \A n : InMips!IsPrime(n) <=> IsPrime(n)
  /\ \A m, n : InMips!Coprime(m, n) <=> Coprime(m, n)
  /\ \A m, n : InMips!Distance(m, n) = Distance(m, n)
BY DEF InMips!IsPrime, IsPrime, InMips!Coprime, Coprime, InMips!Divides, Divides,
       InMips!Distance, Distance

(* Where a program stands: behind the two calls of getprime, behind totient *)
(* and behind publicExp.                                                    *)
BehindP == pc \notin {"text2int", "p"}
BehindQ == BehindP /\ pc # "q"
BehindTotient == BehindQ /\ pc # "totient"
BehindExponent == BehindTotient /\ pc # "publicExp"

-------------------------------------------------------------------------------
(* The keys of the C program. *)
InTable == p_val <= C_MAX_NUMBERS /\ q_val <= C_MAX_NUMBERS
Sieved == p_val >= 5 \/ q_val >= 5

KeysInv ==
  /\ p_val \in Nat /\ q_val \in Nat
  /\ BehindP => p \in InC!GetPrime(p_val) /\ (InC!Sieves(p_val) => filled)
  /\ BehindQ => q \in InC!GetPrime(q_val) /\ (InC!Sieves(q_val) => filled)
  /\ BehindTotient => /\ ~ InTable => phi \in {0, 1}
                      /\ InTable => phi = (p - 1) * (q - 1) /\ modN # 0
  /\ BehindExponent /\ phi > 2 /\ Sieved => e \in InC!Candidates
  /\ pc = "trap" => ~ (InTable /\ Sieved)

(* What getprime answers: 0 for a number beyond the table, otherwise a      *)
(* prime of the table or its size, and none below 5 for a number from 5 on. *)
LEMMA AnswersOfGetprime ==
  ASSUME NEW n \in Nat, NEW r \in InC!GetPrime(n)
  PROVE  /\ n > C_MAX_NUMBERS => r = 0
         /\ n <= C_MAX_NUMBERS => r \in 2..C_MAX_NUMBERS /\ (r # C_MAX_NUMBERS => IsPrime(r))
         /\ n <= C_MAX_NUMBERS /\ n >= 5 => r >= 5
<1>1. C_MAX_NUMBERS \in Nat /\ C_MAX_NUMBERS > 5
  BY CAssumption
<1>2. n > C_MAX_NUMBERS => r = 0
  BY DEF InC!GetPrime
<1>3. ASSUME n <= C_MAX_NUMBERS
      PROVE  \/ r = C_MAX_NUMBERS
             \/ r \in 2..(C_MAX_NUMBERS - 1) /\ IsClosest(r, n, C_MAX_NUMBERS)
  BY <1>1, <1>3, TheoryOfC DEF InC!GetPrime
<1>4. ASSUME r \in 2..(C_MAX_NUMBERS - 1), IsClosest(r, n, C_MAX_NUMBERS)
      PROVE  IsPrime(r) /\ (n >= 5 => r >= 5)
  <2>1. IsPrime(5) /\ 5 \in 2..(C_MAX_NUMBERS - 1)
    BY <1>1 DEF IsPrime, Divides
  <2>2. Distance(r, n) < Distance(5, n) \/ (Distance(r, n) = Distance(5, n) /\ r <= 5)
    BY <1>4, <2>1 DEF IsClosest
  <2>3. n >= 5 => Distance(5, n) = n - 5 /\ (r < n => Distance(r, n) = n - r)
    BY <1>4 DEF Distance
  <2>4. QED BY <1>4, <2>2, <2>3 DEF IsClosest
<1>5. QED BY <1>1, <1>2, <1>3, <1>4

LEMMA TotientTyped ==
  ASSUME KeysInv, BehindTotient
  PROVE  phi \in Nat /\ (InTable /\ Sieved => phi > 2) /\ (phi > 2 => InTable)
<1>1. CASE ~ InTable
  BY <1>1 DEF KeysInv
<1>2. CASE InTable
  <2>1. /\ p \in 2..C_MAX_NUMBERS /\ q \in 2..C_MAX_NUMBERS /\ (Sieved => p >= 5 \/ q >= 5)
        /\ phi = (p - 1) * (q - 1)
    BY <1>2, AnswersOfGetprime DEF KeysInv, BehindTotient, BehindQ, InTable, Sieved
  <2>2. p - 1 \in Nat /\ q - 1 \in Nat /\ p - 1 >= 1 /\ q - 1 >= 1
        /\ (Sieved => p - 1 >= 4 \/ q - 1 >= 4)
    BY <2>1, CAssumption
  <2>3. \A a, b \in Nat : a >= 1 /\ b >= 1 => a * b \in Nat /\ a * b >= a /\ a * b >= b
    OBVIOUS
  <2>4. QED BY <1>2, <2>1, <2>2, <2>3
<1>3. QED BY <1>1, <1>2

(* With both primes and a filled table the loop of publicExp finds an       *)
(* exponent: a prime divisor of phi - 1, the larger prime, or a number the  *)
(* byte behind the table leaves.                                            *)
LEMMA CandidateExists ==
  ASSUME KeysInv, BehindTotient, InTable, Sieved, phi > 2
  PROVE  InC!Candidates # {}
<1> DEFINE MAX == C_MAX_NUMBERS
<1>1. MAX \in Nat /\ MAX > 5
  BY CAssumption
<1>2. /\ p \in 2..MAX /\ (p # MAX => IsPrime(p))
      /\ q \in 2..MAX /\ (q # MAX => IsPrime(q))
      /\ phi = (p - 1) * (q - 1)
  BY AnswersOfGetprime DEF KeysInv, BehindTotient, BehindQ, InTable
<1>3. phi \in Nat /\ phi = (q - 1) * (p - 1) /\ p - 1 \in 1..(MAX - 1) /\ q - 1 \in 1..(MAX - 1)
  BY <1>1, <1>2
<1>4. filled
  BY DEF KeysInv, BehindTotient, BehindQ, InTable, Sieved, InC!Sieves
<1>5. SUFFICES \E k \in 2..(MAX - 1) : IsPrime(k) /\ k < phi /\ Coprime(k, phi)
  BY <1>4, TheoryOfC DEF InC!Candidates, InC!Primes
<1> HIDE DEF MAX
<1>6. CASE phi <= MAX
  <2>1. PICK k \in 2..(phi - 1) : IsPrime(k) /\ Coprime(k, phi)
    BY <1>3, CoprimePrimeBelow
  <2>2. k \in 2..(MAX - 1) /\ k < phi
    BY <1>1, <1>3, <1>6
  <2>3. QED BY <2>1, <2>2
<1>7. CASE phi > MAX /\ (p = MAX \/ q = MAX)
  <2>1. PICK n \in 1..(MAX - 1) : phi = (MAX - 1) * n
    BY <1>2, <1>3, <1>7
  <2>2. PICK k \in 2..(MAX - 1) : IsPrime(k) /\ Coprime(k, (MAX - 1) * n)
    BY TableAssumption DEF MAX
  <2>3. k < phi
    BY <1>1, <1>3, <1>7
  <2>4. QED BY <2>1, <2>2, <2>3
<1>8. CASE phi > MAX /\ p # MAX /\ q # MAX
  <2>1. PICK r \in {p, q} : p <= r /\ q <= r
    BY <1>1, <1>2
  <2>2. r \in 2..(MAX - 1) /\ IsPrime(r) /\ p - 1 \in 1..(r - 1) /\ q - 1 \in 1..(r - 1)
    BY <1>1, <1>2, <1>8, <2>1
  <2>3. Coprime(r, (p - 1) * (q - 1))
    <3> DEFINE a == p - 1
               b == q - 1
    <3>1. r \in Nat /\ a \in 1..(r - 1) /\ b \in 1..(r - 1)
      BY <1>1, <2>2
    <3> HIDE DEF a, b
    <3>2. Coprime(r, a * b)
      BY <2>2, <3>1, PrimeAndSmallerFactors
    <3>3. QED BY <3>2 DEF a, b
  <2>4. r < phi
    BY <1>1, <1>3, <1>8, <2>2
  <2>5. QED BY <1>2, <2>2, <2>3, <2>4
<1>9. QED BY <1>1, <1>3, <1>6, <1>7, <1>8

LEMMA InitKeys == InC!Init => KeysInv
BY CAssumption DEF InC!Init, KeysInv, BehindP, BehindQ, BehindTotient, BehindExponent

(* Every prime is answered for a number in the table, and no product of two *)
(* answers is cut off.                                                      *)
LEMMA TotientKeeps ==
  ASSUME KeysInv, InC!Totient
  PROVE  KeysInv'
<1> DEFINE n == InC!Times(p, q)
           outOfBound == n < p \/ n < q
<1>1. /\ pc = "totient" /\ pc' = "publicExp"
      /\ modN' = (IF outOfBound THEN 0 ELSE n)
      /\ phi' = (IF outOfBound THEN 0 ELSE ((p - 1) * (q - 1)) % WordSize)
      /\ UNCHANGED <<p_val, q_val, filled, p, q, e>>
  BY DEF InC!Totient, InC!input
<1>2. /\ p_val \in Nat /\ q_val \in Nat /\ p \in InC!GetPrime(p_val) /\ q \in InC!GetPrime(q_val)
  BY <1>1 DEF KeysInv, BehindP, BehindQ
<1>3. /\ C_MAX_NUMBERS \in Nat /\ C_MAX_NUMBERS > 5 /\ C_MAX_NUMBERS * C_MAX_NUMBERS < WordSize
      /\ WordSize \in Nat
  BY CAssumption
<1>4. ASSUME ~ InTable PROVE phi' \in {0, 1}
  <2>1. p = 0 \/ q = 0
    BY <1>2, <1>3, <1>4, AnswersOfGetprime DEF InTable
  <2>2. p \in Nat /\ q \in Nat
    BY <1>2, <1>3, AnswersOfGetprime
  <2>3. p * q = 0
    BY <2>1, <2>2
  <2>4. n = 0
    BY <1>3, <2>3 DEF InC!Times
  <2>5. CASE p # 0 \/ q # 0
    BY <1>1, <2>2, <2>4, <2>5
  <2>6. CASE p = 0 /\ q = 0
    <3>1. (p - 1) * (q - 1) = 1 /\ WordSize > 1
      BY <1>3, <2>6
    <3>2. QED BY <1>1, <1>3, <3>1
  <2>7. QED BY <2>5, <2>6
<1>5. ASSUME InTable PROVE phi' = (p - 1) * (q - 1) /\ modN' # 0
  <2>1. p \in 2..C_MAX_NUMBERS /\ q \in 2..C_MAX_NUMBERS
    BY <1>2, <1>5, AnswersOfGetprime DEF InTable
  <2>2. p * q \in Nat /\ p * q >= p /\ p * q >= q /\ p * q <= C_MAX_NUMBERS * C_MAX_NUMBERS
    <3>1. \A a, b, m \in Nat : a >= 2 /\ b >= 2 /\ a <= m /\ b <= m =>
            a * b \in Nat /\ a * b >= a /\ a * b >= b /\ a * b <= m * m
      OBVIOUS
    <3>2. QED BY <1>3, <2>1, <3>1
  <2>3. (p - 1) * (q - 1) \in Nat /\ (p - 1) * (q - 1) <= p * q
    BY <2>1
  <2>4. n = p * q
    <3>1. p * q \in 0..(WordSize - 1)
      BY <1>3, <2>2
    <3> DEFINE w == p * q
    <3>2. w \in 0..(WordSize - 1) => w % WordSize = w
      BY <1>3
    <3>3. QED BY <3>1, <3>2 DEF InC!Times
  <2>5. ((p - 1) * (q - 1)) % WordSize = (p - 1) * (q - 1)
    <3> DEFINE w == (p - 1) * (q - 1)
    <3>1. w \in 0..(WordSize - 1)
      BY <1>3, <2>2, <2>3
    <3> HIDE DEF w
    <3>2. w % WordSize = w
      BY <1>3, <3>1
    <3>3. QED BY <3>2 DEF w
  <2>6. ~ outOfBound /\ n # 0
    BY <2>1, <2>2, <2>4
  <2>7. QED BY <1>1, <2>5, <2>6
<1>6. QED
  BY <1>1, <1>4, <1>5
  DEF KeysInv, BehindP, BehindQ, BehindTotient, BehindExponent, InTable, InC!Sieves, InC!GetPrime

LEMMA NextKeys == KeysInv /\ InC!Next => KeysInv'
<1>1. SUFFICES ASSUME KeysInv, InC!Next PROVE KeysInv'
  OBVIOUS
<1> USE DEF BehindP, BehindQ, BehindTotient, BehindExponent, InTable, Sieved,
            InC!input, InC!keys, InC!Candidates, InC!Sieves, InC!GetPrime
<1>2. CASE InC!Text2Int
  BY <1>1, <1>2 DEF InC!Text2Int, KeysInv
<1>3. CASE InC!GetP
  BY <1>1, <1>3 DEF InC!GetP, KeysInv
<1>4. CASE InC!GetQ
  BY <1>1, <1>4 DEF InC!GetQ, KeysInv
<1>5. CASE InC!Totient
  BY <1>1, <1>5, TotientKeeps
<1>6. CASE InC!PublicExp
  BY <1>1, <1>6 DEF InC!PublicExp, KeysInv
<1>7. CASE InC!PublicExpFallback
  <2>1. ~ (phi > 2 /\ Sieved)
    BY <1>1, <1>7, CandidateExists, TotientTyped DEF InC!PublicExpFallback
  <2>2. filled => filled'
    BY <1>7 DEF InC!PublicExpFallback
  <2>3. /\ pc = "publicExp" /\ pc' = "inverse"
        /\ UNCHANGED <<p_val, q_val, p, q, phi, modN>>
    BY <1>7 DEF InC!PublicExpFallback
  <2>4. QED BY <1>1, <2>1, <2>2, <2>3 DEF KeysInv
<1>8. CASE InC!Inverse
  BY <1>1, <1>8 DEF InC!Inverse, KeysInv
<1>9. CASE InC!InverseTraps
  <2>1. InTable /\ Sieved => phi > 2
    BY <1>1, <1>9, TotientTyped DEF InC!InverseTraps
  <2>2. InTable /\ Sieved => InC!Coprime(e, phi)
    BY <1>1, <1>9, <2>1 DEF InC!InverseTraps, KeysInv
  <2>3. ~ (InTable /\ Sieved)
    BY <1>9, <2>1, <2>2 DEF InC!InverseTraps
  <2>4. QED BY <1>1, <1>9, <2>3 DEF InC!InverseTraps, KeysInv
<1>10. CASE InC!Encrypt \/ InC!Decrypt \/ InC!Int2Text
  BY <1>1, <1>10 DEF InC!Encrypt, InC!Decrypt, InC!Int2Text, KeysInv
<1>11. CASE InC!EncryptTraps
  BY <1>1, <1>11 DEF InC!EncryptTraps, KeysInv
<1>12. QED
  BY <1>1, <1>2, <1>3, <1>4, <1>5, <1>6, <1>7, <1>8, <1>9, <1>10, <1>11 DEF InC!Next

LEMMA KeysInvGivesCauses == KeysInv => InC!ExponentFound /\ InC!TrapCauses
<1>1. SUFFICES ASSUME KeysInv PROVE InC!ExponentFound /\ InC!TrapCauses
  OBVIOUS
<1>2. InC!TrapCauses
  BY <1>1, CAssumption DEF KeysInv, InTable, Sieved, InC!TrapCauses
<1>3. ASSUME pc \in {"encrypt", "decrypt", "int2text", "done"}, phi > 2, Sieved
      PROVE  e \in 2..(phi - 1) /\ InC!Coprime(e, phi)
  <2>1. BehindExponent /\ BehindTotient
    BY <1>3 DEF BehindExponent, BehindTotient, BehindQ, BehindP
  <2>2. e \in InC!Candidates /\ phi \in Nat
    BY <1>1, <1>3, <2>1, TotientTyped DEF KeysInv
  <2>3. QED BY <2>2 DEF InC!Candidates, InC!Primes
<1>4. QED BY <1>2, <1>3 DEF Sieved, InC!ExponentFound

-------------------------------------------------------------------------------
(* The keys of the MIPS program. *)
MipsAnswers == {0} \cup 2..(MIPS_MAX_NUMBERS - 1)

MipsKeysInv ==
  /\ p_val \in 0..(WordSize - 1) /\ q_val \in 0..(WordSize - 1)
  /\ BehindP => p \in MipsAnswers
  /\ BehindQ => q \in MipsAnswers
  /\ BehindTotient /\ p # 0 /\ q # 0 => phi = (p - 1) * (q - 1)
  /\ BehindExponent /\ p # 0 /\ q # 0 /\ phi > 2 => IsPrime(e) /\ Coprime(e, phi)

LEMMA Sizes ==
  /\ MIPS_MAX_NUMBERS \in Nat /\ MIPS_MAX_NUMBERS >= 3
  /\ WordSize \in Nat /\ WordSize % 2 = 0
  /\ 2 * (MIPS_MAX_NUMBERS * MIPS_MAX_NUMBERS) <= WordSize
<1>1. MIPS_MAX_NUMBERS - 1 > 1
  BY MipsAssumption DEF IsPrime
<1>2. QED BY <1>1, CAssumption, MipsAssumption

(* A table that ends in a prime has a prime closest to any number, and the  *)
(* larger one of two is one of them.                                        *)
LEMMA ClosestExists ==
  ASSUME NEW n \in Nat
  PROVE  \E r \in InMips!Closest(n) : \A s \in InMips!Closest(n) : s <= r
<1> DEFINE T == InMips!TablePrimes
           D == {InMips!Distance(k, n) : k \in T}
           R == InMips!Closest(n)
           B == {MIPS_MAX_NUMBERS - r : r \in R}
<1>1. T \subseteq 2..(MIPS_MAX_NUMBERS - 1) /\ MIPS_MAX_NUMBERS - 1 \in T
  BY Sizes, MipsAssumption, TheoryOfMips DEF InMips!TablePrimes
<1> HIDE DEF T
<1>2. \A k \in T : InMips!Distance(k, n) \in Nat
  BY <1>1, Sizes DEF InMips!Distance
<1>3. PICK m \in D : \A k \in D : m <= k
  <2>1. D \subseteq Nat /\ D # {}
    BY <1>1, <1>2
  <2> HIDE DEF D
  <2>2. QED BY <2>1, LeastElement
<1>4. R # {} /\ R \subseteq T
  BY <1>3 DEF InMips!Closest, T
<1>5. PICK b \in B : \A k \in B : b <= k
  <2>1. \A r \in R : r \in Nat /\ MIPS_MAX_NUMBERS - r \in Nat
    <3> HIDE DEF R
    <3>1. QED BY <1>1, <1>4, Sizes
  <2>2. B \subseteq Nat /\ B # {}
    <3> HIDE DEF R
    <3>1. QED BY <1>4, <2>1
  <2> HIDE DEF B
  <2>3. QED BY <2>2, LeastElement
<1>6. PICK r \in R : b = MIPS_MAX_NUMBERS - r
  OBVIOUS
<1>7. ASSUME NEW s \in R PROVE s <= r
  <2>1. MIPS_MAX_NUMBERS - s \in B
    OBVIOUS
  <2>2. MIPS_MAX_NUMBERS - r <= MIPS_MAX_NUMBERS - s
    BY <1>5, <1>6, <2>1
  <2>3. r \in 2..(MIPS_MAX_NUMBERS - 1) /\ s \in 2..(MIPS_MAX_NUMBERS - 1)
    <3> HIDE DEF R
    <3>1. QED BY <1>1, <1>4, <1>6, <1>7
  <2>4. QED BY <2>2, <2>3, Sizes
<1>8. QED BY <1>7

LEMMA AnswersOfMips ==
  ASSUME NEW n \in 0..(WordSize - 1)
  PROVE  InMips!GetPrime(n) \in MipsAnswers
<1>1. CASE InMips!Signed(n) >= MIPS_MAX_NUMBERS
  BY <1>1 DEF InMips!GetPrime, MipsAnswers
<1>2. CASE ~ (InMips!Signed(n) >= MIPS_MAX_NUMBERS) /\ InMips!Signed(n) <= 2
  BY <1>2, Sizes DEF InMips!GetPrime, MipsAnswers
<1>3. CASE ~ (InMips!Signed(n) >= MIPS_MAX_NUMBERS) /\ ~ (InMips!Signed(n) <= 2) /\ n < 5
  <2>1. InMips!Signed(n) \in Int
    BY Sizes DEF InMips!Signed
  <2>2. MIPS_MAX_NUMBERS > 3
    BY <1>3, <2>1, Sizes
  <2>3. InMips!GetPrime(n) = 3
    BY <1>3 DEF InMips!GetPrime
  <2>4. QED BY <2>2, <2>3, Sizes DEF MipsAnswers
<1>4. CASE ~ (InMips!Signed(n) >= MIPS_MAX_NUMBERS) /\ ~ (InMips!Signed(n) <= 2) /\ ~ (n < 5)
  <2>1. n \in Nat
    BY Sizes
  <2>2. InMips!GetPrime(n) \in InMips!Closest(n)
    BY <1>4, <2>1, ClosestExists DEF InMips!GetPrime
  <2>3. QED BY <2>2 DEF InMips!Closest, InMips!TablePrimes, MipsAnswers
<1>5. QED BY <1>1, <1>2, <1>3, <1>4

(* The least number the loop of publicExp accepts is a prime: of a filled   *)
(* table by the test of primes[i], of an unfilled one because a proper      *)
(* divisor would have been accepted before it.                              *)
LEMMA ExponentOfMips ==
  ASSUME NEW a \in 1..(MIPS_MAX_NUMBERS - 2), NEW b \in 1..(MIPS_MAX_NUMBERS - 2),
         phi = a * b, phi > 2, InMips!PublicExp
  PROVE  /\ IsPrime(e') /\ Coprime(e', phi)
         /\ e' \in InMips!Candidates /\ \A k \in InMips!Candidates : e' <= k
<1> DEFINE MAX == MIPS_MAX_NUMBERS
           S == InMips!Candidates
<1>1. phi \in Nat /\ InMips!Signed(phi) = phi
  <2>1. a * b \in Nat /\ a * b < MAX * MAX
    <3>1. \A m, x, y \in Nat : x < m /\ y < m => x * y \in Nat /\ x * y < m * m
      OBVIOUS
    <3>2. a \in Nat /\ b \in Nat /\ a < MAX /\ b < MAX /\ MAX \in Nat
      BY Sizes
    <3>3. QED BY <3>1, <3>2
  <2>2. phi < WordSize \div 2
    <3> DEFINE h == WordSize \div 2
               w == MAX * MAX
    <3>1. h \in Nat /\ WordSize = 2 * h /\ w \in Nat /\ 2 * w <= WordSize
      BY Sizes
    <3>2. phi < w
      BY <2>1
    <3> HIDE DEF h, w
    <3>3. phi < h
      BY <2>1, <3>1, <3>2
    <3>4. QED BY <3>3 DEF h
  <2>3. QED BY <2>1, <2>2 DEF InMips!Signed
<1>2. \A i : i \in S <=> i \in 2..(MAX - 1) /\ i < phi /\ Coprime(i, phi) /\ (primes0 = 1 \/ IsPrime(i))
  BY <1>1, TheoryOfMips DEF InMips!Candidates, InMips!Marked
<1>3. MAX \in Nat /\ MAX >= 3 /\ IsPrime(MAX - 1)
  BY Sizes, MipsAssumption
<1> HIDE DEF S, MAX
<1>4. S # {}
  <2>1. CASE phi < MAX
    <3>1. PICK r \in 2..(phi - 1) : IsPrime(r) /\ Coprime(r, phi)
      BY <1>1, CoprimePrimeBelow
    <3>2. r \in 2..(MAX - 1) /\ r < phi
      BY <1>1, <1>3, <2>1
    <3>3. QED BY <1>2, <3>1, <3>2
  <2>2. CASE phi >= MAX
    <3>1. Coprime(MAX - 1, a * b)
      <4> DEFINE r == MAX - 1
      <4>1. r \in Nat /\ a \in 1..(r - 1) /\ b \in 1..(r - 1)
        BY <1>3 DEF MAX
      <4>2. IsPrime(r)
        BY <1>3
      <4> HIDE DEF r
      <4>3. Coprime(r, a * b)
        BY <4>1, <4>2, PrimeAndSmallerFactors
      <4>4. QED BY <4>3 DEF r
    <3>2. MAX - 1 \in 2..(MAX - 1) /\ MAX - 1 < phi
      BY <1>1, <1>3, <2>2
    <3>3. QED BY <1>2, <1>3, <3>1, <3>2
  <2>3. QED BY <1>1, <1>3, <2>1, <2>2
<1>5. \E i \in S : \A k \in S : i <= k
  <2>1. S \subseteq Nat
    BY <1>2
  <2>2. QED BY <1>4, <2>1, LeastElement
<1>6. e' \in S /\ \A k \in S : e' <= k
  BY <1>4, <1>5 DEF InMips!PublicExp, S
<1>7. e' \in 2..(MAX - 1) /\ e' < phi /\ Coprime(e', phi) /\ (primes0 = 1 \/ IsPrime(e'))
  BY <1>2, <1>6
<1>8. ASSUME primes0 = 1 PROVE IsPrime(e')
  <2>1. ASSUME NEW k \in 2..(e' - 1), Coprime(k, phi) PROVE FALSE
    <3>1. e' \in Nat /\ e' < MAX /\ e' < phi
      BY <1>3, <1>7
    <3>2. k \in 2..(MAX - 1) /\ k < phi /\ k < e'
      <4>1. \A m \in Nat : k \in 2..(m - 1) /\ m < MAX /\ m < phi =>
              k \in 2..(MAX - 1) /\ k < phi /\ k < m
        BY <1>1, <1>3
      <4>2. QED BY <3>1, <4>1
    <3>3. k \in S
      BY <1>2, <1>8, <2>1, <3>2
    <3>4. e' <= k
      BY <1>6, <3>3
    <3>5. QED BY <3>1, <3>2, <3>4
  <2>2. QED
    <3> DEFINE m == e'
    <3>1. m \in Nat /\ m > 1
      BY <1>3, <1>7
    <3>2. Coprime(m, phi) /\ \A k \in 2..(m - 1) : ~ Coprime(k, phi)
      BY <1>7, <2>1
    <3> HIDE DEF m
    <3>3. IsPrime(m)
      BY <1>1, <3>1, <3>2, LeastCoprimeIsPrime
    <3>4. QED BY <1>7, <3>3 DEF m
<1>9. IsPrime(e')
  BY <1>7, <1>8
<1>10. e' \in InMips!Candidates /\ \A k \in InMips!Candidates : e' <= k
  BY <1>6 DEF S
<1>11. QED BY <1>7, <1>9, <1>10

LEMMA InitMipsKeys == InMips!Init => MipsKeysInv
BY CAssumption, MipsAssumption
DEF InMips!Init, MipsKeysInv, BehindP, BehindQ, BehindTotient, BehindExponent

(* No product of two answers is cut off. *)
LEMMA MipsTotient ==
  ASSUME NEW a \in 2..(MIPS_MAX_NUMBERS - 1), NEW b \in 2..(MIPS_MAX_NUMBERS - 1)
  PROVE  /\ InMips!Multu(a, b) = <<a * b, 0>>
         /\ InMips!Multu(InMips!Word(a - 1), InMips!Word(b - 1)) = <<(a - 1) * (b - 1), 0>>
<1> DEFINE MAX == MIPS_MAX_NUMBERS
<1>1. \A m, x, y \in Nat : x < m /\ y < m => x * y \in Nat /\ x * y < m * m
  OBVIOUS
<1>2. MAX \in Nat /\ MAX * MAX \in Nat /\ MAX * MAX < WordSize /\ MAX <= MAX * MAX /\ WordSize \in Nat
  BY Sizes
<1>3. ASSUME NEW x \in 0..(MAX - 1), NEW y \in 0..(MAX - 1)
      PROVE  InMips!Multu(x, y) = <<x * y, 0>> /\ InMips!Word(x) = x
  <2> DEFINE w == x * y
  <2>1. w \in 0..(WordSize - 1)
    BY <1>1, <1>2
  <2> HIDE DEF w
  <2>2. w % WordSize = w /\ w \div WordSize = 0
    BY <1>2, <2>1
  <2>3. x % WordSize = x
    BY <1>2
  <2>4. QED BY <2>2, <2>3 DEF w, InMips!Multu, InMips!Word
<1>4. a - 1 \in 0..(MAX - 1) /\ b - 1 \in 0..(MAX - 1) /\ a \in 0..(MAX - 1) /\ b \in 0..(MAX - 1)
  BY <1>2
<1>5. QED BY <1>3, <1>4

LEMMA NextMipsKeys == MipsKeysInv /\ InMips!Next => MipsKeysInv'
<1>1. SUFFICES ASSUME MipsKeysInv, InMips!Next PROVE MipsKeysInv'
  OBVIOUS
<1> USE DEF BehindP, BehindQ, BehindTotient, BehindExponent, MipsAnswers,
            InMips!input, InMips!keys, InMips!messages
<1>2. CASE InMips!Text2Int
  BY <1>1, <1>2 DEF InMips!Text2Int, MipsKeysInv
<1>3. CASE InMips!GetP
  <2>1. p' \in MipsAnswers
    BY <1>1, <1>3, AnswersOfMips DEF InMips!GetP, MipsKeysInv
  <2>2. QED BY <1>1, <1>3, <2>1 DEF InMips!GetP, MipsKeysInv
<1>4. CASE InMips!GetQ
  <2>1. q' \in MipsAnswers
    BY <1>1, <1>4, AnswersOfMips DEF InMips!GetQ, MipsKeysInv
  <2>2. QED BY <1>1, <1>4, <2>1 DEF InMips!GetQ, MipsKeysInv
<1>5. CASE InMips!Totient
  <2>1. p # 0 /\ q # 0 => phi' = (p - 1) * (q - 1)
    BY <1>1, <1>5, MipsTotient DEF InMips!Totient, MipsKeysInv
  <2>2. QED BY <1>1, <1>5, <2>1 DEF InMips!Totient, MipsKeysInv
<1>6. CASE InMips!PublicExp
  <2>1. p # 0 /\ q # 0 /\ phi > 2 => IsPrime(e') /\ Coprime(e', phi)
    <3>1. SUFFICES ASSUME p # 0, q # 0, phi > 2 PROVE IsPrime(e') /\ Coprime(e', phi)
      OBVIOUS
    <3> DEFINE a == p - 1
               b == q - 1
    <3>2. /\ a \in 1..(MIPS_MAX_NUMBERS - 2) /\ b \in 1..(MIPS_MAX_NUMBERS - 2) /\ phi = a * b
      BY <1>1, <1>6, <3>1, Sizes DEF InMips!PublicExp, MipsKeysInv
    <3> HIDE DEF a, b
    <3>3. QED BY <1>6, <3>1, <3>2, ExponentOfMips
  <2>2. QED BY <1>1, <1>6, <2>1 DEF InMips!PublicExp, MipsKeysInv, IsPrime, Coprime, Divides
<1>7. CASE InMips!Inverse
  BY <1>1, <1>7 DEF InMips!Inverse, MipsKeysInv, IsPrime, Coprime, Divides
<1>8. CASE InMips!Encrypt
  BY <1>1, <1>8 DEF InMips!Encrypt, MipsKeysInv, IsPrime, Coprime, Divides
<1>9. CASE InMips!Decrypt
  BY <1>1, <1>9 DEF InMips!Decrypt, MipsKeysInv, IsPrime, Coprime, Divides
<1>10. CASE InMips!Int2Text
  BY <1>1, <1>10 DEF InMips!Int2Text, MipsKeysInv, IsPrime, Coprime, Divides
<1>11. QED
  BY <1>1, <1>2, <1>3, <1>4, <1>5, <1>6, <1>7, <1>8, <1>9, <1>10 DEF InMips!Next

LEMMA MipsKeysInvGivesExponent == MipsKeysInv => InMips!ExponentPrime
BY TheoryOfMips DEF MipsKeysInv, BehindP, BehindQ, BehindTotient, BehindExponent, InMips!ExponentPrime

-------------------------------------------------------------------------------
(* The loop of powmod in C. *)
LoopOfC(mod) ==
  CHOOSE power : power =
    [s \in Nat \X Nat \X Nat |->
       IF s[3] = 0 THEN s[1]
       ELSE power[<<IF s[3] % 2 = 1 THEN InC!Times(s[1], s[2]) % mod ELSE s[1],
                    InC!Times(s[2], s[2]) % mod,
                    s[3] \div 2>>]]

(* powmod is its loop, entered with 1.                                      *)
LEMMA PowmodByLoop ==
  ASSUME NEW a, NEW b, NEW mod
  PROVE  InC!Powmod(a, b, mod) = LoopOfC(mod)[<<1, a, b>>]
BY DEF InC!Powmod, LoopOfC

Remainders(mod) == [w \in Nat \X Nat |-> InC!Times(w[1], w[2]) % mod]

(* The loop of powmod in C is a function, and squares.                      *)
LEMMA LoopOfCDef ==
  ASSUME NEW mod \in Nat \ {0}
  PROVE  /\ Remainders(mod) \in [Nat \X Nat -> Nat]
         /\ \A n \in Nat : Squaring(LoopOfC(mod), Nat, n, Remainders(mod))
<1> DEFINE D == Nat \X Nat \X Nat
           mul == Remainders(mod)
           step == [s \in D |-> IF s[3] = 0 THEN s
                                ELSE <<IF s[3] % 2 = 1 THEN mul[<<s[1], s[2]>>] ELSE s[1],
                                       mul[<<s[2], s[2]>>], s[3] \div 2>>]
           Stop == {s \in D : s[3] = 0}
           out == [s \in D |-> s[1]]
           rank == [s \in D |-> s[3]]
           power == LoopOfC(mod)
<1>1. mul \in [Nat \X Nat -> Nat]
  <2>1. \A x, y \in Nat : InC!Times(x, y) % mod \in Nat
    <3>1. \A w \in Nat : w % WordSize \in Nat
      BY CAssumption
    <3>2. \A w \in Nat : w % mod \in Nat
      OBVIOUS
    <3>3. \A x, y \in Nat : x * y \in Nat
      OBVIOUS
    <3>4. QED BY <3>1, <3>2, <3>3 DEF InC!Times
  <2>2. QED BY <2>1 DEF Remainders
<1>2. \A x, y \in Nat : mul[<<x, y>>] = InC!Times(x, y) % mod
  BY DEF Remainders
<1> HIDE DEF mul
<1>3. step \in [D -> D]
  <2>1. \A s \in D : s[1] \in Nat /\ s[2] \in Nat /\ s[3] \in Nat /\ (s[3] # 0 => s[3] \div 2 \in Nat)
    BY Halved
  <2>2. \A s \in D : mul[<<s[1], s[2]>>] \in Nat /\ mul[<<s[2], s[2]>>] \in Nat
    BY <1>1
  <2>3. QED BY <2>1, <2>2
<1>4. out \in [D -> Nat] /\ rank \in [D -> Nat]
  OBVIOUS
<1>5. \A s \in D : s \notin Stop => rank[step[s]] < rank[s]
  <2>1. SUFFICES ASSUME NEW s \in D, s \notin Stop PROVE rank[step[s]] < rank[s]
    OBVIOUS
  <2>2. s[3] \in Nat \ {0} /\ step[s] \in D
    BY <1>3, <2>1
  <2>3. step[s][3] = s[3] \div 2
    BY <2>2
  <2>4. s[3] \div 2 < s[3]
    BY <2>2, Halved
  <2> HIDE DEF step
  <2>5. QED BY <2>2, <2>3, <2>4
<1>6. PICK g : Recurses(g, D, Stop, out, step)
  <2> HIDE DEF step, Stop, out, rank, D
  <2>1. QED BY <1>3, <1>4, <1>5, TailRecursion
<1>7. \A f : [s \in D |-> IF s \in Stop THEN out[s] ELSE f[step[s]]] =
             [s \in D |-> IF s[3] = 0 THEN s[1]
                          ELSE f[<<IF s[3] % 2 = 1 THEN InC!Times(s[1], s[2]) % mod ELSE s[1],
                                   InC!Times(s[2], s[2]) % mod, s[3] \div 2>>]]
  BY <1>2
<1>8. power = [s \in D |-> IF s[3] = 0 THEN s[1]
                           ELSE power[<<IF s[3] % 2 = 1 THEN InC!Times(s[1], s[2]) % mod ELSE s[1],
                                        InC!Times(s[2], s[2]) % mod, s[3] \div 2>>]]
  <2>1. g = [s \in D |-> IF s \in Stop THEN out[s] ELSE g[step[s]]]
    BY <1>6 DEF Recurses
  <2>2. g = [s \in D |-> IF s[3] = 0 THEN s[1]
                        ELSE g[<<IF s[3] % 2 = 1 THEN InC!Times(s[1], s[2]) % mod ELSE s[1],
                                 InC!Times(s[2], s[2]) % mod, s[3] \div 2>>]]
    <3> HIDE DEF D, step, Stop, out
    <3>1. QED BY <1>7, <2>1
  <2>3. QED BY <2>2 DEF LoopOfC
<1>9. ASSUME NEW x \in Nat, NEW y \in Nat, NEW n \in Nat
      PROVE  power[<<x, y, n>>] = IF n = 0 THEN x
               ELSE power[<<IF n % 2 = 1 THEN mul[<<x, y>>] ELSE x, mul[<<y, y>>], n \div 2>>]
  <2>1. <<x, y, n>> \in D
    OBVIOUS
  <2> HIDE DEF power
  <2>2. QED BY <1>2, <1>8, <2>1
<1> HIDE DEF power
<1>10. ASSUME NEW n \in Nat PROVE Squaring(power, Nat, n, mul)
  <2>1. SUFFICES ASSUME NEW x \in Nat, NEW y \in Nat, NEW k \in 0..n
                 PROVE  power[<<x, y, k>>] = IF k = 0 THEN x
                          ELSE power[<<IF k % 2 = 1 THEN mul[<<x, y>>] ELSE x, mul[<<y, y>>], k \div 2>>]
    BY DEF Squaring
  <2>2. k \in Nat
    OBVIOUS
  <2>3. QED BY <1>9, <2>2
<1>11. QED BY <1>1, <1>10 DEF mul, power

(* No product of powmod is cut off while the square of the largest          *)
(* remainder fits in a word.                                                *)
LEMMA PowmodOfC ==
  ASSUME NEW mod \in Nat \ {0, 1}, (mod - 1) * (mod - 1) < WordSize,
         NEW a \in 0..(mod - 1), NEW b \in Nat
  PROVE  /\ InC!Powmod(a, b, mod) \in 0..(mod - 1)
         /\ Alike(InC!Powmod(a, b, mod), Power(a, b), mod)
<1> DEFINE m == mod - 1
           mul == Remainders(mod)
           f == LoopOfC(mod)
           r == f[<<1, a, b>>]
<1>1. m \in Nat /\ WordSize \in Nat /\ m * m \in Nat /\ 1 \in 0..m /\ mod \in Nat \ {0} /\ a \in Nat
  BY CAssumption
<1>2. Squaring(f, Nat, b, mul)
  BY LoopOfCDef
<1> HIDE DEF f
<1>3. Squaring(f, 0..m, b, mul)
  <2>1. \A x \in 0..m : x \in Nat
    OBVIOUS
  <2> HIDE DEF m, mul
  <2>2. QED BY <1>2, <2>1 DEF Squaring
<1>4. ASSUME NEW u \in 0..m, NEW v \in 0..m PROVE mul[<<u, v>>] = (u * v) % mod
  <2> DEFINE w == u * v
  <2>1. u \in Nat /\ v \in Nat /\ u <= m /\ v <= m
    BY <1>1
  <2>2. w \in Nat /\ w <= m * m
    <3>1. \A i, j, k \in Nat : i <= k /\ j <= k => i * j \in Nat /\ i * j <= k * k
      OBVIOUS
    <3> HIDE DEF m
    <3>2. QED BY <1>1, <2>1, <3>1
  <2>3. w < WordSize
    <3> DEFINE mm == m * m
    <3>1. mm \in Nat /\ mm < WordSize /\ w <= mm
      BY <1>1, <2>2
    <3> HIDE DEF mm, w
    <3>2. QED BY <1>1, <2>2, <3>1
  <2>4. mul[<<u, v>>] = (w % WordSize) % mod
    BY <2>1 DEF Remainders, InC!Times
  <2> HIDE DEF w, mul
  <2>5. w % WordSize = w
    BY <1>1, <2>2, <2>3
  <2>6. QED BY <2>4, <2>5 DEF w
<1> HIDE DEF mul
<1>5. r \in 0..m /\ Alike(r, 1 * Power(a, b), mod)
  <2>1. b \in 0..b
    OBVIOUS
  <2>2. \A x, y \in 0..(mod - 1), n \in 0..b :
          f[<<x, y, n>>] \in 0..(mod - 1) /\ Alike(f[<<x, y, n>>], x * Power(y, n), mod)
    BY <1>1, <1>3, <1>4, LoopIsPower
  <2>3. QED BY <1>1, <2>1, <2>2
<1>6. 1 * Power(a, b) = Power(a, b)
  <2>1. Power(a, b) \in Nat
    BY <1>1, PowerDef
  <2>2. QED BY <2>1
<1>7. InC!Powmod(a, b, mod) = r
  BY PowmodByLoop DEF f
<1>8. QED BY <1>5, <1>6, <1>7

-------------------------------------------------------------------------------
(* The message on its way through the C program, for two numbers of the     *)
(* table. A division by zero ends the way.                                  *)
BehindInverse == pc \in {"encrypt", "decrypt", "int2text", "done"}
BehindEncrypt == pc \in {"decrypt", "int2text", "done"}
BehindDecrypt == pc \in {"int2text", "done"}

MessageInv ==
  /\ text \in C_Texts
  /\ pc # "text2int" => val = InC!Map(InC!ToUnsigned, Append(text, 0))
  /\ BehindTotient /\ InTable => modN = p * q
  /\ BehindExponent => e \in Nat
  /\ BehindInverse /\ phi # 1 => d \in Nat /\ (e * d) % phi = 1
  /\ BehindEncrypt => C = [k \in DOMAIN val |-> InC!Powmod(val[k], e, modN)]
  /\ BehindDecrypt => M = [k \in DOMAIN C |-> InC!Powmod(C[k], d, modN)]
  /\ pc = "done" => decrypted = InC!Map(InC!ToChar, M)

(* Nothing has been read yet.                                               *)
LEMMA InitMessage == InC!Init => MessageInv
BY DEF InC!Init, MessageInv, BehindP, BehindQ, BehindTotient, BehindExponent, BehindInverse,
       BehindEncrypt, BehindDecrypt

(* The modulus is the product, whose first check does not reject it.        *)
LEMMA TotientOfC ==
  ASSUME KeysInv, InC!Totient, InTable
  PROVE  modN' = p * q
<1> DEFINE n == p * q
<1>1. /\ WordSize \in Nat /\ C_MAX_NUMBERS \in Nat /\ C_MAX_NUMBERS * C_MAX_NUMBERS < WordSize
      /\ C_MAX_NUMBERS > 5
  BY CAssumption
<1>2. p \in 2..C_MAX_NUMBERS /\ q \in 2..C_MAX_NUMBERS
  BY AnswersOfGetprime DEF InC!Totient, KeysInv, BehindP, BehindQ, InTable
<1>3. n \in Nat /\ n >= p /\ n >= q /\ n <= C_MAX_NUMBERS * C_MAX_NUMBERS
  <2>1. \A a, b, m \in Nat : a >= 2 /\ b >= 2 /\ a <= m /\ b <= m =>
          a * b \in Nat /\ a * b >= a /\ a * b >= b /\ a * b <= m * m
    OBVIOUS
  <2>2. QED BY <1>1, <1>2, <2>1
<1>4. n \in 0..(WordSize - 1)
  <2> DEFINE mm == C_MAX_NUMBERS * C_MAX_NUMBERS
  <2>1. mm \in Nat /\ mm < WordSize /\ n <= mm
    BY <1>1, <1>3
  <2> HIDE DEF mm, n
  <2>2. QED BY <1>1, <1>3, <2>1
<1>5. modN' = IF InC!Times(p, q) < p \/ InC!Times(p, q) < q THEN 0 ELSE InC!Times(p, q)
  BY DEF InC!Totient
<1>6. InC!Times(p, q) = n % WordSize
  BY DEF InC!Times
<1> HIDE DEF n
<1>7. n % WordSize = n
  BY <1>1, <1>4
<1>8. ~ (n < p \/ n < q)
  BY <1>2, <1>3
<1>9. QED BY <1>5, <1>6, <1>7, <1>8 DEF n

(* Every call of main leaves what the calls behind it use.                  *)
LEMMA NextMessage == KeysInv /\ MessageInv /\ InC!Next => MessageInv'
<1>1. SUFFICES ASSUME KeysInv, MessageInv, InC!Next PROVE MessageInv'
  OBVIOUS
<1> USE DEF BehindP, BehindQ, BehindTotient, BehindExponent, BehindInverse, BehindEncrypt,
            BehindDecrypt, InC!input, InC!keys, InTable
<1>2. CASE InC!Text2Int
  BY <1>1, <1>2 DEF InC!Text2Int, MessageInv, InC!Map, InC!ToUnsigned
<1>3. CASE InC!GetP
  BY <1>1, <1>3 DEF InC!GetP, MessageInv, InC!Map, InC!ToUnsigned
<1>4. CASE InC!GetQ
  BY <1>1, <1>4 DEF InC!GetQ, MessageInv, InC!Map, InC!ToUnsigned
<1>5. CASE InC!Totient
  <2>1. InTable' => modN' = p' * q'
    BY <1>1, <1>5, TotientOfC DEF InC!Totient
  <2>2. QED BY <1>1, <1>5, <2>1 DEF InC!Totient, MessageInv, InC!Map, InC!ToUnsigned
<1>6. CASE InC!PublicExp
  <2>1. e' \in Nat
    BY <1>6, CAssumption DEF InC!PublicExp, InC!Candidates, InC!Primes
  <2>2. QED BY <1>1, <1>6, <2>1 DEF InC!PublicExp, MessageInv, InC!Map, InC!ToUnsigned
<1>7. CASE InC!PublicExpFallback
  <2>1. e' \in Nat
    BY <1>7, CAssumption DEF InC!PublicExpFallback, InC!GetPrime
  <2>2. /\ pc = "publicExp" /\ pc' = "inverse"
        /\ UNCHANGED <<text, p_val, q_val, p, q, phi, modN, d, val, C, M, decrypted>>
    BY <1>7 DEF InC!PublicExpFallback
  <2>3. QED BY <1>1, <2>1, <2>2 DEF MessageInv, InC!Map, InC!ToUnsigned
<1>8. CASE InC!Inverse
  <2>1. phi # 1 => d' \in Nat /\ (e * d') % phi = 1
    <3>1. SUFFICES ASSUME phi # 1 PROVE d' \in Nat /\ (e * d') % phi = 1
      OBVIOUS
    <3>2. d' \in 1..(phi - 1) /\ (e * d') % phi = 1
      BY <1>8, <3>1 DEF InC!Inverse
    <3>3. phi \in Nat
      BY <1>1, <1>8, TotientTyped DEF InC!Inverse
    <3>4. QED BY <3>2, <3>3
  <2>2. QED BY <1>1, <1>8, <2>1 DEF InC!Inverse, MessageInv, InC!Map, InC!ToUnsigned
<1>9. CASE InC!InverseTraps
  BY <1>1, <1>9 DEF InC!InverseTraps, MessageInv, InC!Map, InC!ToUnsigned
<1>10. CASE InC!Encrypt
  BY <1>1, <1>10 DEF InC!Encrypt, MessageInv, InC!Map, InC!ToUnsigned
<1>11. CASE InC!EncryptTraps
  BY <1>1, <1>11 DEF InC!EncryptTraps, MessageInv, InC!Map, InC!ToUnsigned
<1>12. CASE InC!Decrypt
  BY <1>1, <1>12 DEF InC!Decrypt, MessageInv, InC!Map, InC!ToUnsigned
<1>13. CASE InC!Int2Text
  BY <1>1, <1>13 DEF InC!Int2Text, MessageInv, InC!Map, InC!ToUnsigned
<1>14. QED
  BY <1>1, <1>2, <1>3, <1>4, <1>5, <1>6, <1>7, <1>8, <1>9, <1>10, <1>11, <1>12, <1>13 DEF InC!Next

(* The product of two different primes is not small, and their totient is   *)
(* not 1.                                                                   *)
LEMMA ModulusOfPrimes ==
  ASSUME NEW r \in Nat, NEW s \in Nat, IsPrime(r), IsPrime(s), r # s
  PROVE  /\ r * s \in Nat /\ r * s >= 6
         /\ (r - 1) * (s - 1) \in Nat /\ (r - 1) * (s - 1) >= 2
<1>1. r >= 2 /\ s >= 2 /\ (r >= 3 \/ s >= 3)
  BY DEF IsPrime
<1>2. \A a, b, i, j \in Nat : i >= a /\ j >= b => i * j \in Nat /\ i * j >= a * b
  OBVIOUS
<1>3. r - 1 \in Nat /\ s - 1 \in Nat
  BY <1>1
<1>4. CASE r >= 3
  BY <1>1, <1>2, <1>3, <1>4
<1>5. CASE s >= 3
  BY <1>1, <1>2, <1>3, <1>5
<1>6. QED BY <1>1, <1>4, <1>5

(* A negative char is too large a number for a modulus whose squares fit.   *)
LEMMA CharOfMessage ==
  ASSUME NEW c \in -CharLimit..(CharLimit - 1), NEW m \in Nat, m >= 6, (m - 1) * (m - 1) < WordSize,
         InC!ToUnsigned(c) < m
  PROVE  /\ InC!ToUnsigned(c) = c /\ c \in 0..(m - 1)
         /\ InC!ToChar(c) = c
<1>1. WordSize \in Nat /\ CharLimit \in Nat \ {0} /\ 2 * CharLimit <= WordSize
  BY CAssumption
<1>2. CASE c < 0
  <2>1. c % WordSize = WordSize + c
    <3>1. ((-1) * WordSize + (WordSize + c)) % WordSize = WordSize + c
      BY <1>1, <1>2, RemainderIsUnique
    <3>2. (-1) * WordSize + (WordSize + c) = c
      BY <1>1
    <3>3. QED BY <3>1, <3>2
  <2>2. m - 1 >= WordSize + c /\ 2 * (WordSize + c) >= WordSize
    BY <1>1, <2>1 DEF InC!ToUnsigned
  <2> DEFINE n == m - 1
  <2>3. n \in Nat /\ n >= 5 /\ 2 * n >= WordSize
    BY <1>1, <2>2
  <2> HIDE DEF n
  <2>4. n * n >= 5 * n
    BY <2>3
  <2>5. n * n >= WordSize
    BY <1>1, <2>3, <2>4
  <2>6. QED BY <1>1, <2>3, <2>5 DEF n
<1>3. CASE c >= 0
  <2>1. c % WordSize = c
    BY <1>1, <1>3
  <2>2. (c + CharLimit) % (2 * CharLimit) = c + CharLimit
    <3> DEFINE a == c + CharLimit
               b == 2 * CharLimit
    <3>1. a \in 0..(b - 1) /\ b \in Nat
      BY <1>1, <1>3
    <3> HIDE DEF a, b
    <3>2. a % b = a
      BY <3>1
    <3>3. QED BY <3>2 DEF a, b
  <2>3. InC!ToChar(c) = c
    BY <1>1, <2>2 DEF InC!ToChar
  <2>4. QED BY <1>3, <2>1, <2>3 DEF InC!ToUnsigned
<1>4. QED BY <1>1, <1>2, <1>3

(* The C program decrypts with usable keys what it encrypted.               *)
LEMMA RoundTripOfC == KeysInv /\ MessageInv => InC!RoundTrip
<1> DEFINE t == Append(text, 0)
<1>1. SUFFICES ASSUME KeysInv, MessageInv, pc = "done", InC!Usable
               PROVE  decrypted = t
  BY DEF InC!RoundTrip
<1> USE DEF BehindP, BehindQ, BehindTotient, BehindExponent, BehindInverse, BehindEncrypt, BehindDecrypt
<1>2. InTable
  <2>1. p # 0 /\ q # 0
    BY <1>1, TheoryOfC DEF InC!Usable, IsPrime
  <2>2. p_val \in Nat /\ q_val \in Nat /\ p \in InC!GetPrime(p_val) /\ q \in InC!GetPrime(q_val)
    BY <1>1 DEF KeysInv
  <2>3. C_MAX_NUMBERS \in Nat
    BY CAssumption
  <2>4. QED BY <2>1, <2>2, <2>3, AnswersOfGetprime DEF InTable
<1>3. /\ p \in Nat /\ q \in Nat /\ IsPrime(p) /\ IsPrime(q) /\ p # q
      /\ modN = p * q /\ phi = (p - 1) * (q - 1) /\ e \in Nat
  <2>1. p \in Nat /\ q \in Nat
    BY <1>1, <1>2, CAssumption, AnswersOfGetprime DEF KeysInv, InTable
  <2>2. IsPrime(p) /\ IsPrime(q) /\ p # q
    BY <1>1, TheoryOfC DEF InC!Usable
  <2>3. QED BY <1>1, <1>2, <2>1, <2>2 DEF KeysInv, MessageInv
<1>4. modN \in Nat /\ modN >= 6 /\ phi # 1 /\ (modN - 1) * (modN - 1) < WordSize
  BY <1>1, <1>3, ModulusOfPrimes DEF InC!Usable
<1>5. d \in Nat /\ (e * d) % ((p - 1) * (q - 1)) = 1
  BY <1>1, <1>3, <1>4 DEF MessageInv
<1>6. /\ val = [k \in DOMAIN t |-> InC!ToUnsigned(t[k])]
      /\ C = [k \in DOMAIN val |-> InC!Powmod(val[k], e, modN)]
      /\ M = [k \in DOMAIN C |-> InC!Powmod(C[k], d, modN)]
      /\ decrypted = [k \in DOMAIN M |-> InC!ToChar(M[k])]
  BY <1>1 DEF MessageInv, InC!Map
<1>7. DOMAIN val = DOMAIN t /\ DOMAIN C = DOMAIN t /\ DOMAIN M = DOMAIN t /\ DOMAIN decrypted = DOMAIN t
  BY <1>6
<1>8. t \in Seq(-CharLimit..(CharLimit - 1))
  BY <1>1, CAssumption DEF MessageInv
<1> HIDE DEF t
<1>9. ASSUME NEW k \in DOMAIN t PROVE decrypted[k] = t[k]
  <2> DEFINE c == t[k]
             x == InC!Powmod(c, e, modN)
             y == InC!Powmod(x, d, modN)
  <2>1. c \in -CharLimit..(CharLimit - 1)
    <3> DEFINE S == -CharLimit..(CharLimit - 1)
    <3>1. t \in Seq(S)
      BY <1>8
    <3> HIDE DEF S
    <3>2. t[k] \in S
      BY <3>1
    <3>3. QED BY <3>2 DEF S
  <2>2. InC!ToUnsigned(c) < modN
    BY <1>1, <1>6, <1>7 DEF InC!Usable
  <2> HIDE DEF c
  <2>3. InC!ToUnsigned(c) = c /\ c \in 0..(modN - 1) /\ InC!ToChar(c) = c
    BY <1>4, <2>1, <2>2, CharOfMessage
  <2>4. modN \in Nat \ {0, 1}
    BY <1>4
  <2>5. x \in 0..(modN - 1) /\ Alike(x, Power(c, e), modN)
    BY <1>3, <1>4, <2>3, <2>4, PowmodOfC
  <2> HIDE DEF x
  <2>6. y \in 0..(modN - 1) /\ Alike(y, Power(x, d), modN)
    BY <1>4, <1>5, <2>4, <2>5, PowmodOfC
  <2> HIDE DEF y
  <2>7. y = c
    BY <1>3, <1>5, <2>3, <2>5, <2>6, MessageRecovered
  <2>8. decrypted[k] = InC!ToChar(y)
    BY <1>6, <1>7, <1>9, <2>3 DEF c, x, y
  <2>9. QED BY <2>3, <2>7, <2>8 DEF c
<1>10. t = [k \in DOMAIN t |-> t[k]] /\ decrypted = [k \in DOMAIN t |-> decrypted[k]]
  <2>1. t = [k \in DOMAIN t |-> t[k]]
    BY <1>8
  <2>2. decrypted = [k \in DOMAIN t |-> decrypted[k]]
    BY <1>6, <1>7
  <2>3. QED BY <2>1, <2>2
<1>11. QED BY <1>9, <1>10

-------------------------------------------------------------------------------
(* The loop of inverse in rsa.s. *)
MipsWords == 0..(WordSize - 1)
EuclidStates == MipsWords \X MipsWords \X Int \X Int \X MipsWords \X MipsWords
EuclidNext(s) ==
  LET div == InMips!Divu(s[1], s[2], s[5], s[6])
      mul == InMips!Mul(div[1], InMips!Word(s[3]))
  IN  <<s[2], div[2], s[4] - div[1] * s[3], s[3], mul[1], mul[2]>>
LoopOfInverse ==
  CHOOSE loop : loop =
    [s \in EuclidStates |-> IF InMips!Signed(s[1]) <= 1 THEN s[4] ELSE loop[EuclidNext(s)]]

(* inverse is its loop, and the correction of a negative result.            *)
LEMMA InverseByLoop ==
  ASSUME NEW a1, NEW a0, NEW l0, NEW h0
  PROVE  InMips!InverseLoop(a1, a0, l0, h0) =
           LET x1 == LoopOfInverse[<<a1, a0, 0, 1, l0, h0>>]
           IN  InMips!Word(IF x1 < 0 THEN x1 + a0 ELSE x1)
BY DEF InMips!InverseLoop, LoopOfInverse, EuclidStates, EuclidNext, MipsWords

(* What the division leaves in LO and HI are words.                         *)
LEMMA DivuTyped ==
  ASSUME NEW a \in MipsWords, NEW b \in MipsWords, NEW l \in MipsWords, NEW h \in MipsWords
  PROVE  LET div == InMips!Divu(a, b, l, h)
         IN  /\ div[1] \in MipsWords /\ div[2] \in MipsWords
             /\ b # 0 /\ InMips!Signed(a) > 1 => div = <<a \div b, a % b>> /\ a % b < b
<1>1. WordSize \in Nat /\ a \in Nat /\ b \in Nat /\ WordSize % 2 = 0
  BY Sizes DEF MipsWords
<1>2. CASE b = 0 \/ (a = WordSize \div 2 /\ b = WordSize - 1)
  <2>1. InMips!Divu(a, b, l, h) = <<l, h>>
    BY <1>2 DEF InMips!Divu
  <2>2. b # 0 => InMips!Signed(a) <= 0
    <3>1. SUFFICES ASSUME b # 0 PROVE InMips!Signed(a) <= 0
      OBVIOUS
    <3>2. a = WordSize \div 2
      BY <1>2, <3>1
    <3>3. InMips!Signed(a) = a - WordSize
      BY <3>2 DEF InMips!Signed
    <3>4. QED BY <1>1, <3>1, <3>2, <3>3
  <2>3. b # 0 => ~ (InMips!Signed(a) > 1)
    BY <1>1, <2>2 DEF InMips!Signed
  <2>4. QED BY <2>1, <2>3
<1>3. CASE ~ (b = 0 \/ (a = WordSize \div 2 /\ b = WordSize - 1))
  <2>1. InMips!Divu(a, b, l, h) = <<a \div b, a % b>>
    BY <1>3 DEF InMips!Divu
  <2>2. a \div b \in Nat /\ a % b \in Nat /\ a % b < b /\ a = b * (a \div b) + (a % b)
    BY <1>1, <1>3, QuotientRemainder
  <2>3. a \div b <= a
    <3> DEFINE i == a \div b
    <3>1. b * i >= i /\ i \in Nat
      BY <1>1, <1>3, <2>2
    <3> HIDE DEF i
    <3>2. QED BY <1>1, <2>2, <3>1 DEF i
  <2>4. QED BY <1>1, <2>1, <2>2, <2>3 DEF MipsWords
<1>4. QED BY <1>2, <1>3

(* A register is a word.                                                    *)
LEMMA WordTyped == \A i \in Int : InMips!Word(i) \in MipsWords
<1>1. WordSize \in Nat \ {0}
  BY Sizes, CAssumption
<1>2. QED BY <1>1 DEF MipsWords, InMips!Word

(* So are the halves of a signed product.                                   *)
LEMMA MulTyped ==
  ASSUME NEW a \in MipsWords, NEW b \in MipsWords
  PROVE  InMips!Mul(a, b)[1] \in MipsWords /\ InMips!Mul(a, b)[2] \in MipsWords
<1> DEFINE u == InMips!Signed(a) * InMips!Signed(b)
<1>1. WordSize \in Nat \ {0}
  BY Sizes, CAssumption
<1>2. InMips!Signed(a) \in Int /\ InMips!Signed(b) \in Int
  BY <1>1 DEF MipsWords, InMips!Signed
<1>3. u \in Int
  BY <1>2
<1>4. InMips!Mul(a, b) = <<u % WordSize, (u \div WordSize) % WordSize>>
  BY DEF InMips!Mul, InMips!Word
<1> HIDE DEF u
<1>5. \A i \in Int : i % WordSize \in MipsWords /\ i \div WordSize \in Int
  BY <1>1 DEF MipsWords
<1>6. QED BY <1>3, <1>4, <1>5

(* The divisor falls until it is 0, and one more round ends the loop. *)
LEMMA LoopOfInverseDef ==
  LoopOfInverse =
    [s \in EuclidStates |-> IF InMips!Signed(s[1]) <= 1 THEN s[4] ELSE LoopOfInverse[EuclidNext(s)]]
<1> DEFINE D == EuclidStates
           step == [s \in D |-> EuclidNext(s)]
           Stop == {s \in D : InMips!Signed(s[1]) <= 1}
           out == [s \in D |-> s[4]]
           rank == [s \in D |-> IF InMips!Signed(s[1]) <= 1 THEN 0 ELSE s[2] + 1]
<1>1. WordSize \in Nat /\ WordSize % 2 = 0
  BY Sizes
<1>2. ASSUME NEW s \in D
      PROVE  /\ s[1] \in MipsWords /\ s[2] \in MipsWords /\ s[3] \in Int /\ s[4] \in Int
             /\ s[5] \in MipsWords /\ s[6] \in MipsWords
  BY DEF EuclidStates
<1>3. ASSUME NEW s \in D PROVE EuclidNext(s) \in D
  <2> DEFINE div == InMips!Divu(s[1], s[2], s[5], s[6])
             mul == InMips!Mul(div[1], InMips!Word(s[3]))
  <2>1. div[1] \in MipsWords /\ div[2] \in MipsWords
    BY <1>2, DivuTyped
  <2>2. mul[1] \in MipsWords /\ mul[2] \in MipsWords
    <3>1. InMips!Word(s[3]) \in MipsWords
      BY <1>2, WordTyped
    <3> HIDE DEF div
    <3>2. QED BY <2>1, <3>1, MulTyped
  <2> HIDE DEF div, mul
  <2>3. div[1] \in Int
    BY <1>1, <2>1 DEF MipsWords
  <2>4. s[4] - div[1] * s[3] \in Int
    BY <1>2, <2>3
  <2>5. <<s[2], div[2], s[4] - div[1] * s[3], s[3], mul[1], mul[2]>> \in D
    BY <1>2, <2>1, <2>2, <2>4 DEF EuclidStates
  <2>6. QED BY <2>5 DEF div, mul, EuclidNext
<1>4. step \in [D -> D] /\ out \in [D -> Int]
  BY <1>2, <1>3
<1>5. rank \in [D -> Nat]
  <2>1. ASSUME NEW s \in D PROVE s[2] + 1 \in Nat
    BY <1>1, <1>2 DEF MipsWords
  <2>2. QED BY <2>1
<1>6. ASSUME NEW s \in D, s \notin Stop PROVE rank[step[s]] < rank[s]
  <2> DEFINE t == EuclidNext(s)
  <2>1. t \in D /\ t[1] = s[2] /\ t[2] = InMips!Divu(s[1], s[2], s[5], s[6])[2]
    BY <1>3 DEF EuclidNext
  <2>2. rank[s] = s[2] + 1 /\ s[2] \in Nat /\ t[2] \in Nat /\ InMips!Signed(s[1]) > 1
    <3>1. ~ (InMips!Signed(s[1]) <= 1)
      BY <1>6
    <3>2. InMips!Signed(s[1]) \in Int
      BY <1>1, <1>2 DEF MipsWords, InMips!Signed
    <3>3. t[2] \in MipsWords /\ s[2] \in MipsWords
      BY <1>2, <2>1
    <3>4. QED BY <1>1, <1>6, <3>1, <3>2, <3>3 DEF MipsWords
  <2>3. s[2] # 0 => t[2] < s[2]
    <3>1. SUFFICES ASSUME s[2] # 0 PROVE t[2] < s[2]
      OBVIOUS
    <3> DEFINE a == s[1]
               b == s[2]
               l == s[5]
               h == s[6]
    <3>2. a \in MipsWords /\ b \in MipsWords /\ l \in MipsWords /\ h \in MipsWords /\ InMips!Signed(a) > 1 /\ b # 0
          /\ t[2] = InMips!Divu(a, b, l, h)[2]
      BY <1>2, <2>1, <2>2, <3>1
    <3> HIDE DEF a, b, l, h, t
    <3>3. InMips!Divu(a, b, l, h)[2] = a % b /\ a % b < b
      BY <3>2, DivuTyped
    <3>4. QED BY <3>2, <3>3 DEF b
  <2>4. s[2] = 0 => rank[t] = 0
    <3>1. InMips!Signed(0) <= 1
      BY <1>1 DEF InMips!Signed
    <3>2. QED BY <2>1, <3>1
  <2>5. rank[t] <= t[2] + 1
    BY <2>1, <2>2
  <2>6. step[s] = t /\ rank[t] \in Nat
    BY <1>5, <2>1
  <2> HIDE DEF rank, step, t
  <2>7. QED BY <2>2, <2>3, <2>4, <2>5, <2>6
<1>7. PICK g : Recurses(g, D, Stop, out, step)
  <2> HIDE DEF step, Stop, out, rank, D
  <2>1. QED BY <1>4, <1>5, <1>6, TailRecursion
<1>8. g = [s \in D |-> IF InMips!Signed(s[1]) <= 1 THEN s[4] ELSE g[EuclidNext(s)]]
  BY <1>7 DEF Recurses
<1>9. QED BY <1>8 DEF LoopOfInverse

(* Below half of the words nothing is negative and every division is the    *)
(* one of Euclid's algorithm.                                               *)
LEMMA LoopOfInverseInverts ==
  ASSUME NEW H \in Nat, 2 * H < WordSize
  PROVE  Inverting(LoopOfInverse, 0..H, MipsWords)
<1> DEFINE f == LoopOfInverse
<1>1. WordSize \in Nat /\ WordSize % 2 = 0
  BY Sizes
<1>2. \A v \in 0..H : v \in MipsWords /\ InMips!Signed(v) = v
  <2>1. SUFFICES ASSUME NEW v \in 0..H PROVE v \in MipsWords /\ InMips!Signed(v) = v
    OBVIOUS
  <2>2. v < WordSize \div 2 /\ v \in Nat
    BY <1>1
  <2>3. QED BY <1>1, <2>2 DEF MipsWords, InMips!Signed
<1>3. SUFFICES ASSUME NEW a \in 0..H, NEW b \in 0..H, NEW l \in MipsWords, NEW h \in MipsWords,
                      NEW s \in Int, NEW t \in Int
               PROVE  /\ a = 1 => f[<<a, b, s, t, l, h>>] = t
                      /\ a > 1 /\ b # 0 => \E i, j \in MipsWords :
                           f[<<a, b, s, t, l, h>>] = f[Divided(a, b, s, t, i, j)]
  BY DEF Inverting
<1> DEFINE w == <<a, b, s, t, l, h>>
<1>4. /\ w[1] = a /\ w[2] = b /\ w[3] = s /\ w[4] = t /\ w[5] = l /\ w[6] = h
      /\ w \in EuclidStates
  BY <1>2 DEF EuclidStates
<1> HIDE DEF w
<1>5. f[w] = IF InMips!Signed(a) <= 1 THEN t ELSE f[EuclidNext(w)]
  BY <1>4, LoopOfInverseDef
<1>6. ASSUME a = 1 PROVE f[w] = t
  <2>1. InMips!Signed(a) <= 1
    BY <1>2, <1>6
  <2>2. QED BY <1>5, <2>1
<1>7. ASSUME a > 1, b # 0
      PROVE  \E i, j \in MipsWords : f[w] = f[Divided(a, b, s, t, i, j)]
  <2>1. InMips!Signed(a) > 1 /\ ~ (InMips!Signed(a) <= 1)
    BY <1>2, <1>7
  <2>2. InMips!Divu(a, b, l, h) = <<a \div b, a % b>>
    BY <1>2, <1>7, <2>1, DivuTyped
  <2> DEFINE mul == InMips!Mul(a \div b, InMips!Word(s))
  <2>3. EuclidNext(w) = Divided(a, b, s, t, mul[1], mul[2])
    BY <1>4, <2>2 DEF EuclidNext, Divided
  <2>4. mul[1] \in MipsWords /\ mul[2] \in MipsWords
    <3>1. a \in MipsWords /\ b \in MipsWords
      BY <1>2
    <3>2. InMips!Divu(a, b, l, h)[1] \in MipsWords
      BY <3>1, DivuTyped
    <3>3. a \div b \in MipsWords
      BY <2>2, <3>2
    <3>4. QED BY <3>3, WordTyped, MulTyped
  <2> HIDE DEF mul
  <2>5. QED BY <1>5, <2>1, <2>3, <2>4
<1>8. QED BY <1>6, <1>7 DEF w

(* inverse in rsa.s finds the inverse, as long as no number is negative.    *)
LEMMA InverseOfMips ==
  ASSUME NEW n \in Nat \ {0, 1}, NEW x \in Nat \ {0}, Coprime(x, n), 2 * n < WordSize, 2 * x < WordSize,
         NEW l \in MipsWords, NEW h \in MipsWords
  PROVE  LET y == InMips!InverseLoop(x, n, l, h)
         IN  y \in 1..(n - 1) /\ (x * y) % n = 1
<1> DEFINE H == IF x <= n THEN n ELSE x
           z == LoopOfInverse[<<x, n, 0, 1, l, h>>]
           y == IF z < 0 THEN z + n ELSE z
<1>1. WordSize \in Nat /\ H \in Nat /\ 2 * H < WordSize /\ x \in 0..H /\ n \in 0..H
  BY Sizes
<1> HIDE DEF H
<1>2. HalfInverse(z, x, n)
  <2>0. 0..H \subseteq MipsWords
    BY <1>1 DEF MipsWords
  <2>1. Inverting(LoopOfInverse, 0..H, MipsWords)
    BY <1>1, LoopOfInverseInverts
  <2>2. EuclidFactors(x, n, 0, 1, x, n)
    BY FirstFactors
  <2>3. \A a, b \in 0..H, i, j \in MipsWords, s, t \in Int :
          EuclidFactors(a, b, s, t, x, n) => HalfInverse(LoopOfInverse[<<a, b, s, t, i, j>>], x, n)
    BY <1>1, <2>0, <2>1, LoopInverts
  <2>4. QED BY <1>1, <2>2, <2>3
<1>3. y \in 1..(n - 1) /\ (x * y) % n = 1
  <2> HIDE DEF z
  <2>1. QED BY <1>2, FactorIsInverse
<1>4. InMips!InverseLoop(x, n, l, h) = InMips!Word(y)
  BY InverseByLoop
<1>5. InMips!Word(y) = y
  <2> HIDE DEF y
  <2>1. y \in Nat /\ y < WordSize
    BY <1>1, <1>3
  <2>2. QED BY <1>1, <2>1 DEF InMips!Word
<1>6. QED BY <1>3, <1>4, <1>5

-------------------------------------------------------------------------------
(* The loop of powmod in rsa.s. *)
MipsReduce(u, v, mod) ==
  InMips!Divu(InMips!Multu(u, v)[1], mod, InMips!Multu(u, v)[1], InMips!Multu(u, v)[2])[2]
LoopOfMips(mod) ==
  CHOOSE loop : loop =
    [s \in MipsWords \X MipsWords \X Nat |->
       IF InMips!Signed(s[3]) <= 0 THEN s[1]
       ELSE loop[<<IF s[3] % 2 = 1 THEN MipsReduce(s[1], s[2], mod) ELSE s[1],
                   MipsReduce(s[2], s[2], mod),
                   s[3] \div 2>>]]

(* powmod in rsa.s is its loop, entered with 1.                             *)
LEMMA MipsPowmodByLoop ==
  ASSUME NEW a, NEW b, NEW mod
  PROVE  InMips!Powmod(a, b, mod) = LoopOfMips(mod)[<<1, a, b>>]
BY DEF InMips!Powmod, LoopOfMips, MipsReduce, MipsWords

(* The loop of powmod in rsa.s is a function, and squares: no number in it  *)
(* is read as a negative one.                                               *)
LEMMA LoopOfMipsDef ==
  ASSUME NEW mod \in Nat \ {0}, 2 * mod <= WordSize, NEW H \in Nat, 2 * H < WordSize
  PROVE  /\ Closed(MipsWords, Remainders(mod))
         /\ Squaring(LoopOfMips(mod), MipsWords, H, Remainders(mod))
<1> DEFINE D == MipsWords \X MipsWords \X Nat
           mul == Remainders(mod)
           step == [s \in D |-> IF s[3] = 0 THEN s
                                ELSE <<IF s[3] % 2 = 1 THEN mul[<<s[1], s[2]>>] ELSE s[1],
                                       mul[<<s[2], s[2]>>], s[3] \div 2>>]
           Stop == {s \in D : InMips!Signed(s[3]) <= 0}
           out == [s \in D |-> s[1]]
           rank == [s \in D |-> s[3]]
           power == LoopOfMips(mod)
<1>0. WordSize \in Nat /\ WordSize % 2 = 0 /\ WordSize >= 18
  BY Sizes
<1>1. ASSUME NEW x \in MipsWords, NEW y \in MipsWords
      PROVE  mul[<<x, y>>] \in MipsWords /\ MipsReduce(x, y, mod) = mul[<<x, y>>]
  <2> DEFINE w == x * y
             r == w % WordSize
             g == w \div WordSize
  <2>1. w \in Nat /\ x \in Nat /\ y \in Nat
    BY <1>0 DEF MipsWords
  <2>2. InMips!Multu(x, y) = <<r, g>> /\ mul[<<x, y>>] = r % mod
    BY <2>1 DEF InMips!Multu, Remainders, InC!Times
  <2> HIDE DEF w, mul
  <2>3. r \in Nat
    BY <1>0, <2>1
  <2> HIDE DEF r, g
  <2>4. r % mod \in 0..(mod - 1)
    BY <2>3
  <2>5. mod # WordSize - 1
    BY <1>0
  <2>6. MipsReduce(x, y, mod) = r % mod
    BY <2>2, <2>5 DEF MipsReduce, InMips!Divu
  <2>7. QED BY <1>0, <2>2, <2>4, <2>6 DEF MipsWords
<1> HIDE DEF mul
<1>2. ASSUME NEW n \in Nat, InMips!Signed(n) > 0 PROVE n # 0
  BY <1>0, <1>2 DEF InMips!Signed
<1>3. step \in [D -> D]
  <2>1. \A s \in D : s[1] \in MipsWords /\ s[2] \in MipsWords /\ s[3] \in Nat
                     /\ (s[3] # 0 => s[3] \div 2 \in Nat)
    BY Halved
  <2>2. \A s \in D : mul[<<s[1], s[2]>>] \in MipsWords /\ mul[<<s[2], s[2]>>] \in MipsWords
    BY <1>1
  <2>3. QED BY <2>1, <2>2
<1>4. out \in [D -> MipsWords] /\ rank \in [D -> Nat]
  OBVIOUS
<1>5. \A s \in D : s \notin Stop => s[3] \in Nat \ {0}
  <2>1. \A n \in Nat : InMips!Signed(n) \in Int
    BY <1>0 DEF InMips!Signed
  <2>2. QED BY <1>2, <2>1
<1>6. \A s \in D : s \notin Stop => rank[step[s]] < rank[s]
  <2>1. SUFFICES ASSUME NEW s \in D, s \notin Stop PROVE rank[step[s]] < rank[s]
    OBVIOUS
  <2>2. s[3] \in Nat \ {0} /\ step[s] \in D
    BY <1>3, <1>5, <2>1
  <2>3. step[s][3] = s[3] \div 2
    BY <2>2
  <2>4. s[3] \div 2 < s[3]
    BY <2>2, Halved
  <2> HIDE DEF step
  <2>5. QED BY <2>2, <2>3, <2>4
<1>7. PICK g : Recurses(g, D, Stop, out, step)
  <2> HIDE DEF step, Stop, out, rank, D
  <2>1. QED BY <1>3, <1>4, <1>6, TailRecursion
<1>8. g = [s \in D |-> IF InMips!Signed(s[3]) <= 0 THEN s[1]
                        ELSE g[<<IF s[3] % 2 = 1 THEN MipsReduce(s[1], s[2], mod) ELSE s[1],
                                 MipsReduce(s[2], s[2], mod), s[3] \div 2>>]]
  <2>1. ASSUME NEW s \in D
        PROVE  (IF s \in Stop THEN out[s] ELSE g[step[s]]) =
               IF InMips!Signed(s[3]) <= 0 THEN s[1]
               ELSE g[<<IF s[3] % 2 = 1 THEN MipsReduce(s[1], s[2], mod) ELSE s[1],
                        MipsReduce(s[2], s[2], mod), s[3] \div 2>>]
    <3>1. s[1] \in MipsWords /\ s[2] \in MipsWords
      OBVIOUS
    <3>2. MipsReduce(s[1], s[2], mod) = mul[<<s[1], s[2]>>] /\ MipsReduce(s[2], s[2], mod) = mul[<<s[2], s[2]>>]
      BY <1>1, <3>1
    <3>3. CASE InMips!Signed(s[3]) <= 0
      BY <3>3
    <3>4. CASE ~ (InMips!Signed(s[3]) <= 0)
      <4>1. s \notin Stop /\ s[3] # 0
        BY <1>5, <3>4
      <4>2. QED BY <3>2, <3>4, <4>1
    <3>5. QED BY <3>3, <3>4
  <2>2. g = [s \in D |-> IF s \in Stop THEN out[s] ELSE g[step[s]]]
    BY <1>7 DEF Recurses
  <2> HIDE DEF D, step, Stop, out
  <2>3. QED BY <2>1, <2>2
<1>9. power = [s \in D |-> IF InMips!Signed(s[3]) <= 0 THEN s[1]
                        ELSE power[<<IF s[3] % 2 = 1 THEN MipsReduce(s[1], s[2], mod) ELSE s[1],
                                     MipsReduce(s[2], s[2], mod), s[3] \div 2>>]]
  BY <1>8 DEF LoopOfMips
<1>10. ASSUME NEW x \in MipsWords, NEW y \in MipsWords, NEW n \in 0..H
      PROVE  power[<<x, y, n>>] = IF n = 0 THEN x
               ELSE power[<<IF n % 2 = 1 THEN mul[<<x, y>>] ELSE x, mul[<<y, y>>], n \div 2>>]
  <2>1. <<x, y, n>> \in D
    OBVIOUS
  <2>2. InMips!Signed(n) <= 0 <=> n = 0
    BY <1>0 DEF InMips!Signed
  <2>3. MipsReduce(x, y, mod) = mul[<<x, y>>] /\ MipsReduce(y, y, mod) = mul[<<y, y>>]
    BY <1>1
  <2> HIDE DEF power
  <2>4. QED BY <1>9, <2>1, <2>2, <2>3
<1> HIDE DEF power
<1>11. Squaring(power, MipsWords, H, mul)
  BY <1>10 DEF Squaring
<1>12. QED BY <1>1, <1>11 DEF mul, power, Closed

(* Both programs compute the same powers, cut off products included.        *)
LEMMA SamePowmod ==
  ASSUME NEW mod \in Nat \ {0}, 2 * mod <= WordSize, NEW a \in MipsWords, NEW b \in Nat, 2 * b < WordSize
  PROVE  InMips!Powmod(a, b, mod) = InC!Powmod(a, b, mod)
<1> DEFINE mul == Remainders(mod)
           f == LoopOfMips(mod)
           g == LoopOfC(mod)
<1>1. Closed(MipsWords, mul)
  BY LoopOfMipsDef
<1>2. Squaring(f, MipsWords, b, mul)
  BY LoopOfMipsDef
<1>3. MipsWords \subseteq Nat /\ 1 \in MipsWords /\ b \in 0..b
  BY Sizes DEF MipsWords
<1>4. Squaring(g, Nat, b, mul)
  BY LoopOfCDef
<1> HIDE DEF f, g, mul
<1>5. Squaring(g, MipsWords, b, mul)
  <2>1. SUFFICES ASSUME NEW x \in MipsWords, NEW y \in MipsWords, NEW n \in 0..b
                 PROVE  g[<<x, y, n>>] = IF n = 0 THEN x
                          ELSE g[<<IF n % 2 = 1 THEN mul[<<x, y>>] ELSE x, mul[<<y, y>>], n \div 2>>]
    BY DEF Squaring
  <2>2. x \in Nat /\ y \in Nat
    BY <1>3
  <2>3. QED BY <1>4, <2>2 DEF Squaring
<1>6. Agreeing(f, g, MipsWords, b)
  BY <1>1, <1>2, <1>5, LoopsAgree
<1>7. f[<<1, a, b>>] = g[<<1, a, b>>]
  BY <1>3, <1>6 DEF Agreeing
<1>8. QED BY <1>7, PowmodByLoop, MipsPowmodByLoop DEF f, g

-------------------------------------------------------------------------------
(* The message on its way through the MIPS program. *)
MipsMessageInv ==
  /\ text \in MIPS_Texts /\ lo \in MipsWords /\ hi \in MipsWords
  /\ pc # "text2int" => val = [InMips!Line EXCEPT ![Len(InMips!Line)] = 0]
  /\ BehindTotient /\ p # 0 /\ q # 0 => modN = p * q
  /\ BehindExponent /\ p # 0 /\ q # 0 => e \in 2..(MIPS_MAX_NUMBERS - 1)
  /\ BehindInverse /\ phi = 1 => d = 1
  /\ BehindInverse /\ p # 0 /\ q # 0 /\ phi > 2 => d \in 1..(phi - 1) /\ (e * d) % phi = 1
  /\ BehindEncrypt => C = [k \in DOMAIN val |-> InMips!Powmod(val[k], e, modN)]
  /\ BehindDecrypt => M = [k \in DOMAIN C |-> InMips!Powmod(C[k], d, modN)]
  /\ pc = "done" => decrypted = [k \in DOMAIN M |-> M[k] % (2 * CharLimit)]

(* Nothing has been read yet.                                               *)
LEMMA InitMipsMessage == InMips!Init => MipsMessageInv
BY Sizes DEF InMips!Init, MipsMessageInv, MipsWords, BehindP, BehindQ, BehindTotient, BehindExponent,
             BehindInverse, BehindEncrypt, BehindDecrypt

(* What the multiplication leaves in LO and HI are words. *)
LEMMA MultuTyped ==
  ASSUME NEW a \in MipsWords, NEW b \in MipsWords
  PROVE  InMips!Multu(a, b)[1] \in MipsWords /\ InMips!Multu(a, b)[2] \in MipsWords
<1> DEFINE w == a * b
           N == WordSize
<1>1. N \in Nat \ {0} /\ a \in 0..(N - 1) /\ b \in 0..(N - 1)
  BY Sizes DEF MipsWords
<1>2. w \in Nat /\ w <= (N - 1) * (N - 1)
  BY <1>1
<1>3. InMips!Multu(a, b) = <<w % N, w \div N>>
  BY DEF InMips!Multu
<1>4. w % N \in 0..(N - 1)
  <2> HIDE DEF w, N
  <2>1. QED BY <1>1, <1>2
<1>5. w \div N \in 0..(N - 1)
  <2> DEFINE g == w \div N
             r == w % N
  <2>1. w = N * g + r /\ r \in Nat /\ g \in Nat
    <3> HIDE DEF w, N
    <3>1. QED BY <1>1, <1>2
  <2>2. (N - 1) * (N - 1) < N * N
    BY <1>1
  <2>3. \A i, j \in Nat : i >= j => N * i >= N * j
    BY <1>1
  <2> HIDE DEF w, N, g, r
  <2>4. ASSUME g >= N PROVE FALSE
    <3>1. N * g >= N * N
      BY <1>1, <2>1, <2>3, <2>4
    <3>2. N * g \in Nat /\ N * N \in Nat /\ (N - 1) * (N - 1) \in Nat
      BY <1>1, <2>1
    <3>3. QED BY <1>2, <2>1, <2>2, <3>1, <3>2
  <2>5. QED BY <1>1, <2>1, <2>4 DEF g
<1>6. QED BY <1>3, <1>4, <1>5 DEF MipsWords

(* The modulus is the product, and LO and HI hold words.                    *)
LEMMA TotientOfMips ==
  ASSUME MipsKeysInv, InMips!Totient
  PROVE  lo' \in MipsWords /\ hi' \in MipsWords /\ (p # 0 /\ q # 0 => modN' = p * q)
<1>1. p \in MipsAnswers /\ q \in MipsAnswers
  BY DEF InMips!Totient, MipsKeysInv, BehindP, BehindQ
<1>2. /\ WordSize \in Nat /\ MIPS_MAX_NUMBERS \in Nat /\ MIPS_MAX_NUMBERS <= WordSize /\ MIPS_MAX_NUMBERS >= 3
  <2>1. \A m \in Nat : m >= 3 => 2 * (m * m) >= m
    OBVIOUS
  <2>2. QED BY <2>1, Sizes
<1>3. \A x \in MipsAnswers : x \in MipsWords /\ InMips!Word(x - 1) \in MipsWords
  BY <1>2 DEF MipsAnswers, MipsWords, InMips!Word
<1> DEFINE ofPhi == InMips!Multu(InMips!Word(p - 1), InMips!Word(q - 1))
           ofN == InMips!Multu(p, q)
           last == IF ofPhi[2] = 0 THEN ofN ELSE ofPhi
<1>4. /\ modN' = IF last[2] = 0 THEN ofN[1] ELSE 0
      /\ lo' = last[1] /\ hi' = last[2]
  BY DEF InMips!Totient
<1>5. lo' \in MipsWords /\ hi' \in MipsWords
  <2>1. ofPhi[1] \in MipsWords /\ ofPhi[2] \in MipsWords
    BY <1>1, <1>3, MultuTyped
  <2>2. ofN[1] \in MipsWords /\ ofN[2] \in MipsWords
    BY <1>1, <1>3, MultuTyped
  <2> HIDE DEF ofPhi, ofN
  <2>3. QED BY <1>4, <2>1, <2>2
<1>6. ASSUME p # 0, q # 0 PROVE modN' = p * q
  <2>1. p \in 2..(MIPS_MAX_NUMBERS - 1) /\ q \in 2..(MIPS_MAX_NUMBERS - 1)
    BY <1>1, <1>6 DEF MipsAnswers
  <2>2. ofN = <<p * q, 0>> /\ ofPhi = <<(p - 1) * (q - 1), 0>>
    BY <2>1, MipsTotient
  <2>3. ofN[1] = p * q /\ ofN[2] = 0 /\ ofPhi[2] = 0
    BY <2>2
  <2> HIDE DEF ofN, ofPhi
  <2>4. QED BY <1>4, <2>3
<1>7. QED BY <1>5, <1>6

(* The totient of two numbers of the table is far from the sign bit. *)
LEMMA SizesOfMips ==
  ASSUME NEW a \in 2..(MIPS_MAX_NUMBERS - 1), NEW b \in 2..(MIPS_MAX_NUMBERS - 1)
  PROVE  /\ a * b \in Nat /\ 2 * (a * b) < WordSize
         /\ (a - 1) * (b - 1) \in Nat \ {0} /\ 2 * ((a - 1) * (b - 1)) < WordSize
<1> DEFINE MAX == MIPS_MAX_NUMBERS
           w == MAX * MAX
<1>1. MAX \in Nat /\ WordSize \in Nat /\ 2 * w <= WordSize
  BY Sizes
<1>2. \A m, x, y \in Nat : x < m /\ y < m /\ x >= 1 /\ y >= 1 => x * y \in Nat \ {0} /\ x * y < m * m
  OBVIOUS
<1>3. a \in Nat /\ b \in Nat /\ a < MAX /\ b < MAX /\ a >= 2 /\ b >= 2
  BY <1>1
<1>4. a * b \in Nat /\ a * b < w
  BY <1>1, <1>2, <1>3
<1>5. (a - 1) * (b - 1) \in Nat \ {0} /\ (a - 1) * (b - 1) < w
  <2>1. a - 1 \in Nat /\ b - 1 \in Nat /\ a - 1 < MAX /\ b - 1 < MAX /\ a - 1 >= 1 /\ b - 1 >= 1
    BY <1>1, <1>3
  <2>2. QED BY <1>1, <1>2, <2>1
<1> DEFINE u == a * b
           v == (a - 1) * (b - 1)
<1>6. w \in Nat
  BY <1>1
<1> HIDE DEF u, v, w
<1>7. u \in Nat /\ v \in Nat \ {0} /\ u < w /\ v < w
  BY <1>4, <1>5 DEF u, v
<1>8. 2 * u < WordSize /\ 2 * v < WordSize
  BY <1>1, <1>6, <1>7
<1>9. QED BY <1>7, <1>8 DEF u, v

(* The exponent is a number of the table, and the least of the candidates.  *)
LEMMA ExponentInTable ==
  ASSUME MipsKeysInv, InMips!PublicExp, p # 0, q # 0
  PROVE  /\ e' \in 2..(MIPS_MAX_NUMBERS - 1)
         /\ phi > 2 => e' \in InMips!Candidates /\ \A k \in InMips!Candidates : e' <= k
         /\ ~ (phi > 2) => e' = 2 /\ InMips!Candidates = {}
<1>1. p \in 2..(MIPS_MAX_NUMBERS - 1) /\ q \in 2..(MIPS_MAX_NUMBERS - 1) /\ phi = (p - 1) * (q - 1)
  BY DEF InMips!PublicExp, MipsKeysInv, BehindP, BehindQ, BehindTotient, MipsAnswers
<1>2. CASE phi > 2
  <2> DEFINE a == p - 1
             b == q - 1
  <2>1. a \in 1..(MIPS_MAX_NUMBERS - 2) /\ b \in 1..(MIPS_MAX_NUMBERS - 2) /\ phi = a * b
    BY <1>1, Sizes
  <2> HIDE DEF a, b
  <2>2. e' \in InMips!Candidates /\ \A k \in InMips!Candidates : e' <= k
    BY <1>2, <2>1, ExponentOfMips
  <2>3. e' \in 2..(MIPS_MAX_NUMBERS - 1)
    BY <2>2 DEF InMips!Candidates
  <2>4. QED BY <1>2, <2>2, <2>3
<1>3. CASE ~ (phi > 2)
  <2>1. phi \in Nat /\ phi <= 2 /\ WordSize \in Nat /\ 2 * phi < WordSize
    BY <1>1, <1>3, SizesOfMips, Sizes
  <2>2. InMips!Signed(phi) = phi
    BY <2>1, Sizes DEF InMips!Signed
  <2>3. InMips!Candidates = {}
    BY <2>1, <2>2, Sizes DEF InMips!Candidates
  <2>4. e' = 2
    BY <1>3, <2>2, <2>3 DEF InMips!PublicExp
  <2>5. QED BY <1>3, <2>3, <2>4, Sizes
<1>4. QED BY <1>2, <1>3

(* The private exponent inverts the public one.                             *)
LEMMA InverseInMips ==
  ASSUME MipsKeysInv, MipsMessageInv, InMips!Inverse, p # 0, q # 0, phi > 2
  PROVE  d' \in 1..(phi - 1) /\ (e * d') % phi = 1
<1>1. /\ p \in 2..(MIPS_MAX_NUMBERS - 1) /\ q \in 2..(MIPS_MAX_NUMBERS - 1) /\ phi = (p - 1) * (q - 1)
      /\ Coprime(e, phi)
  BY DEF InMips!Inverse, MipsKeysInv, BehindP, BehindQ, BehindTotient, BehindExponent, MipsAnswers
<1>2. phi \in Nat \ {0} /\ 2 * phi < WordSize
  BY <1>1, SizesOfMips
<1>3. e \in 2..(MIPS_MAX_NUMBERS - 1) /\ lo \in MipsWords /\ hi \in MipsWords
  BY DEF InMips!Inverse, MipsMessageInv, BehindP, BehindQ, BehindTotient, BehindExponent
<1>4. e \in Nat \ {0} /\ 2 * e < WordSize
  <2>1. \A m \in Nat : m >= 3 => 2 * (m * m) >= 2 * m
    OBVIOUS
  <2>2. QED BY <1>3, <2>1, Sizes
<1>5. d' = InMips!InverseLoop(e, phi, lo, hi)
  BY DEF InMips!Inverse
<1>6. phi \in Nat \ {0, 1}
  BY <1>2
<1>7. QED BY <1>1, <1>2, <1>3, <1>4, <1>5, <1>6, InverseOfMips

(* Every call of main leaves what the calls behind it use.                  *)
LEMMA NextMipsMessage == MipsKeysInv /\ MipsMessageInv /\ InMips!Next => MipsMessageInv'
<1>1. SUFFICES ASSUME MipsKeysInv, MipsMessageInv, InMips!Next PROVE MipsMessageInv'
  OBVIOUS
<1> USE DEF BehindP, BehindQ, BehindTotient, BehindExponent, BehindInverse, BehindEncrypt,
            BehindDecrypt, InMips!input, InMips!keys, InMips!messages
<1>2. CASE InMips!Text2Int
  BY <1>1, <1>2 DEF InMips!Text2Int, MipsMessageInv, InMips!Line
<1>3. CASE InMips!GetP
  BY <1>1, <1>3 DEF InMips!GetP, MipsMessageInv, InMips!Line
<1>4. CASE InMips!GetQ
  BY <1>1, <1>4 DEF InMips!GetQ, MipsMessageInv, InMips!Line
<1>5. CASE InMips!Totient
  <2>1. /\ pc = "totient" /\ pc' = "publicExp"
        /\ UNCHANGED <<text, p, q, e, d, val, C, M, decrypted>>
    BY <1>5 DEF InMips!Totient
  <2>2. lo' \in MipsWords /\ hi' \in MipsWords /\ (p # 0 /\ q # 0 => modN' = p * q)
    BY <1>1, <1>5, TotientOfMips
  <2>3. QED BY <1>1, <2>1, <2>2 DEF MipsMessageInv, InMips!Line
<1>6. CASE InMips!PublicExp
  <2>1. /\ pc = "publicExp" /\ pc' = "inverse"
        /\ UNCHANGED <<text, lo, hi, p, q, phi, modN, d, val, C, M, decrypted>>
    BY <1>6 DEF InMips!PublicExp
  <2>2. p # 0 /\ q # 0 => e' \in 2..(MIPS_MAX_NUMBERS - 1)
    BY <1>1, <1>6, ExponentInTable
  <2>3. QED BY <1>1, <2>1, <2>2 DEF MipsMessageInv, InMips!Line
<1>7. CASE InMips!Inverse
  <2>1. /\ pc = "inverse" /\ pc' = "encrypt"
        /\ UNCHANGED <<text, lo, hi, p, q, phi, modN, e, val, C, M, decrypted>>
    BY <1>7 DEF InMips!Inverse
  <2>2. p # 0 /\ q # 0 /\ phi > 2 => d' \in 1..(phi - 1) /\ (e * d') % phi = 1
    BY <1>1, <1>7, InverseInMips
  <2>3. phi = 1 => d' = 1
    BY <1>7 DEF InMips!Inverse
  <2>4. QED BY <1>1, <2>1, <2>2, <2>3 DEF MipsMessageInv, InMips!Line
<1>8. CASE InMips!Encrypt
  BY <1>1, <1>8 DEF InMips!Encrypt, MipsMessageInv, InMips!Line
<1>9. CASE InMips!Decrypt
  BY <1>1, <1>9 DEF InMips!Decrypt, MipsMessageInv, InMips!Line
<1>10. CASE InMips!Int2Text
  BY <1>1, <1>10 DEF InMips!Int2Text, MipsMessageInv, InMips!Line
<1>11. QED
  BY <1>1, <1>2, <1>3, <1>4, <1>5, <1>6, <1>7, <1>8, <1>9, <1>10 DEF InMips!Next

(* The only totient 2 belongs to the modulus 6. *)
LEMMA TotientAboveTwo ==
  ASSUME NEW r \in Nat, NEW s \in Nat, IsPrime(r), IsPrime(s), r # s, r * s > 6
  PROVE  (r - 1) * (s - 1) > 2
<1>1. r >= 2 /\ s >= 2
  BY DEF IsPrime
<1>2. \A a, b, i, j \in Nat : i >= a /\ j >= b => i * j \in Nat /\ i * j >= a * b
  OBVIOUS
<1>3. r - 1 \in Nat /\ s - 1 \in Nat
  BY <1>1
<1>4. CASE r >= 3 /\ s >= 3
  BY <1>2, <1>3, <1>4
<1>5. CASE r = 2
  <2>1. s >= 4
    BY <1>1, <1>5
  <2>2. QED BY <1>5, <2>1
<1>6. CASE s = 2
  <2>1. r >= 4
    BY <1>1, <1>6
  <2>2. QED BY <1>6, <2>1
<1>7. QED BY <1>1, <1>4, <1>5, <1>6

(* The line of a text that fits, its newline replaced by the terminating 0. *)
LEMMA LineIsText ==
  ASSUME text \in MIPS_Texts, Len(text) + 2 <= BufferSize
  PROVE  /\ [InMips!Line EXCEPT ![Len(InMips!Line)] = 0] = Append(text, 0)
         /\ Append(text, 0) \in Seq(0..(2 * CharLimit - 1))
<1> DEFINE B == 2 * CharLimit
           S == 0..(B - 1)
           u == Append(text, Newline)
           v == Append(text, 0)
           w == [u EXCEPT ![Len(u)] = 0]
           n == Len(text)
<1>1. text \in Seq(S) /\ Newline \in S /\ 0 \in S
  <2>1. text \in Seq((1..(B - 1)) \ {Newline}) /\ Newline \in 1..(B - 1) /\ B \in Nat \ {0}
    BY MipsAssumption, CAssumption
  <2>2. (1..(B - 1)) \ {Newline} \subseteq S
    BY <2>1
  <2>3. QED BY <2>1, <2>2
<1>2. InMips!Line = u
  BY DEF InMips!Line
<1> HIDE DEF S
<1>3. /\ n \in Nat /\ Len(u) = n + 1 /\ DOMAIN u = 1..(n + 1) /\ DOMAIN v = 1..(n + 1)
      /\ u \in Seq(S) /\ v \in Seq(S) /\ u[n + 1] = Newline /\ v[n + 1] = 0
  BY <1>1
<1>4. \A k \in 1..n : u[k] = text[k] /\ v[k] = text[k]
  BY <1>1
<1> HIDE DEF n, u, v
<1>5. v = [k \in 1..(n + 1) |-> v[k]] /\ w = [k \in 1..(n + 1) |-> w[k]]
  <2>1. v = [k \in DOMAIN v |-> v[k]]
    BY <1>3
  <2>2. w = [k \in DOMAIN u |-> w[k]]
    OBVIOUS
  <2> HIDE DEF w
  <2>3. QED BY <1>3, <2>1, <2>2
<1>6. \A k \in 1..(n + 1) : w[k] = v[k]
  <2>1. \A k \in 1..(n + 1) : w[k] = IF k = n + 1 THEN 0 ELSE u[k]
    BY <1>3
  <2>2. \A k \in 1..(n + 1) : k # n + 1 => k \in 1..n
    BY <1>3
  <2> HIDE DEF w
  <2>3. QED BY <1>3, <1>4, <2>1, <2>2
<1> HIDE DEF w
<1>7. w = v
  BY <1>5, <1>6
<1>8. QED BY <1>2, <1>3, <1>7 DEF u, v, w, S

(* The MIPS program decrypts with usable keys what it encrypted.            *)
LEMMA RoundTripOfMips == MipsKeysInv /\ MipsMessageInv => InMips!RoundTrip
<1> DEFINE t == Append(text, 0)
           B == 2 * CharLimit
<1>1. SUFFICES ASSUME MipsKeysInv, MipsMessageInv, pc = "done", InMips!Usable, Len(text) + 2 <= BufferSize
               PROVE  decrypted = t
  BY DEF InMips!RoundTrip
<1> USE DEF BehindP, BehindQ, BehindTotient, BehindExponent, BehindInverse, BehindEncrypt, BehindDecrypt
<1>2. IsPrime(p) /\ IsPrime(q) /\ p # q /\ (modN - 1) * (modN - 1) < WordSize /\ B <= modN
  BY <1>1, TheoryOfMips DEF InMips!Usable
<1>3. p \in 2..(MIPS_MAX_NUMBERS - 1) /\ q \in 2..(MIPS_MAX_NUMBERS - 1) /\ p # 0 /\ q # 0
  <2>1. p # 0 /\ q # 0
    BY <1>2 DEF IsPrime
  <2>2. QED BY <1>1, <2>1, Sizes DEF MipsKeysInv, MipsAnswers
<1>4. modN = p * q /\ phi = (p - 1) * (q - 1)
  BY <1>1, <1>3 DEF MipsKeysInv, MipsMessageInv
<1>5. CharLimit \in Nat /\ CharLimit >= 4 /\ B \in Nat /\ B >= 8 /\ WordSize \in Nat
  BY CAssumption
<1>6. modN \in Nat /\ 2 * modN < WordSize /\ phi \in Nat \ {0} /\ 2 * phi < WordSize
  BY <1>3, <1>4, SizesOfMips
<1>7. modN >= 8 /\ phi > 2
  <2>1. modN >= 8
    BY <1>2, <1>5, <1>6
  <2>2. p \in Nat /\ q \in Nat /\ p * q > 6
    BY <1>3, <1>4, <2>1, Sizes
  <2>3. QED BY <1>2, <1>4, <2>1, <2>2, TotientAboveTwo
<1>8. /\ e \in 2..(MIPS_MAX_NUMBERS - 1)
      /\ d \in 1..(phi - 1) /\ (e * d) % ((p - 1) * (q - 1)) = 1
  BY <1>1, <1>3, <1>4, <1>7 DEF MipsMessageInv
<1>9. e \in Nat /\ d \in Nat /\ 2 * e < WordSize /\ 2 * d < WordSize
  <2>1. \A m \in Nat : m >= 3 => 2 * (m * m) >= 2 * m
    OBVIOUS
  <2>2. e \in Nat /\ 2 * e < WordSize
    BY <1>8, <2>1, Sizes
  <2>3. QED BY <1>5, <1>6, <1>8, <2>2
<1>10. t \in Seq(0..(B - 1)) /\ val = t
  <2>1. text \in MIPS_Texts /\ val = [InMips!Line EXCEPT ![Len(InMips!Line)] = 0]
    BY <1>1 DEF MipsMessageInv
  <2>2. QED BY <1>1, <2>1, LineIsText
<1>11. /\ C = [k \in DOMAIN val |-> InMips!Powmod(val[k], e, modN)]
       /\ M = [k \in DOMAIN C |-> InMips!Powmod(C[k], d, modN)]
       /\ decrypted = [k \in DOMAIN M |-> M[k] % B]
  BY <1>1 DEF MipsMessageInv
<1>12. DOMAIN C = DOMAIN t /\ DOMAIN M = DOMAIN t /\ DOMAIN decrypted = DOMAIN t
  BY <1>10, <1>11
<1> HIDE DEF t, B
<1>13. ASSUME NEW k \in DOMAIN t PROVE decrypted[k] = t[k]
  <2> DEFINE c == t[k]
             x == InMips!Powmod(c, e, modN)
             y == InMips!Powmod(x, d, modN)
  <2>1. c \in 0..(B - 1)
    <3> DEFINE S == 0..(B - 1)
    <3>1. t \in Seq(S)
      BY <1>10
    <3> HIDE DEF S
    <3>2. t[k] \in S
      BY <3>1
    <3>3. QED BY <3>2 DEF S
  <2>2. decrypted[k] = y % B
    BY <1>10, <1>11, <1>12, <1>13
  <2> HIDE DEF c
  <2>3. c \in 0..(modN - 1) /\ 0..(modN - 1) \subseteq MipsWords
    BY <1>2, <1>5, <1>6, <2>1 DEF MipsWords
  <2>4. modN \in Nat \ {0, 1} /\ modN \in Nat \ {0} /\ 2 * modN <= WordSize
    BY <1>5, <1>6, <1>7
  <2>5. x = InC!Powmod(c, e, modN) /\ x \in 0..(modN - 1) /\ Alike(x, Power(c, e), modN)
    <3>1. c \in MipsWords
      BY <2>3
    <3>2. InMips!Powmod(c, e, modN) = InC!Powmod(c, e, modN)
      BY <1>9, <2>4, <3>1, SamePowmod
    <3>3. InC!Powmod(c, e, modN) \in 0..(modN - 1) /\ Alike(InC!Powmod(c, e, modN), Power(c, e), modN)
      BY <1>2, <1>9, <2>3, <2>4, PowmodOfC
    <3>4. QED BY <3>2, <3>3
  <2> HIDE DEF x
  <2>6. y = InC!Powmod(x, d, modN) /\ y \in 0..(modN - 1) /\ Alike(y, Power(x, d), modN)
    <3>1. x \in MipsWords
      BY <2>3, <2>5
    <3>2. InMips!Powmod(x, d, modN) = InC!Powmod(x, d, modN)
      BY <1>9, <2>4, <3>1, SamePowmod
    <3>3. InC!Powmod(x, d, modN) \in 0..(modN - 1) /\ Alike(InC!Powmod(x, d, modN), Power(x, d), modN)
      BY <1>2, <1>9, <2>4, <2>5, PowmodOfC
    <3>4. QED BY <3>2, <3>3
  <2> HIDE DEF y
  <2>7. y = c
    <3>1. p \in Nat /\ q \in Nat
      BY <1>3, Sizes
    <3>2. QED BY <1>2, <1>4, <1>8, <1>9, <2>3, <2>5, <2>6, <3>1, MessageRecovered
  <2>8. c % B = c
    BY <1>5, <2>1
  <2>9. QED BY <2>2, <2>7, <2>8 DEF c
<1>14. t = [k \in DOMAIN t |-> t[k]] /\ decrypted = [k \in DOMAIN t |-> decrypted[k]]
  <2>1. t = [k \in DOMAIN t |-> t[k]]
    BY <1>10
  <2>2. decrypted = [k \in DOMAIN t |-> decrypted[k]]
    BY <1>11, <1>12
  <2>3. QED BY <2>1, <2>2
<1>15. QED BY <1>13, <1>14

-------------------------------------------------------------------------------
(* What the two calls of getprime leave behind in the MIPS program. *)
MipsTableInv ==
  /\ primes0 \in {0, 1}
  /\ BehindP => p = InMips!GetPrime(p_val) /\ (InMips!SievedBy(p_val) => primes0 = 0)
  /\ BehindQ => q = InMips!GetPrime(q_val) /\ (InMips!SievedBy(q_val) => primes0 = 0)

(* The table begins unfilled.                                               *)
LEMMA InitMipsTable == InMips!Init => MipsTableInv
BY DEF InMips!Init, MipsTableInv, BehindP, BehindQ

(* Only getprime writes primes[0], and only ever a 0.                       *)
LEMMA NextMipsTable == MipsTableInv /\ InMips!Next => MipsTableInv'
<1>1. SUFFICES ASSUME MipsTableInv, InMips!Next PROVE MipsTableInv'
  OBVIOUS
<1> USE DEF BehindP, BehindQ, InMips!input, InMips!keys, InMips!messages
<1>2. CASE InMips!GetP
  <2>1. /\ p' = InMips!GetPrime(p_val) /\ primes0' = (IF InMips!SievedBy(p_val) THEN 0 ELSE primes0)
        /\ pc' = "q" /\ p_val' = p_val /\ q_val' = q_val
    BY <1>2 DEF InMips!GetP
  <2>2. InMips!GetPrime(p_val)' = InMips!GetPrime(p_val) /\ InMips!SievedBy(p_val)' = InMips!SievedBy(p_val)
    BY <2>1 DEF InMips!GetPrime, InMips!SievedBy
  <2>3. QED BY <1>1, <2>1, <2>2 DEF MipsTableInv
<1>3. CASE InMips!GetQ
  <2>1. /\ q' = InMips!GetPrime(q_val) /\ primes0' = (IF InMips!SievedBy(q_val) THEN 0 ELSE primes0)
        /\ pc = "q" /\ pc' = "totient" /\ p_val' = p_val /\ q_val' = q_val /\ p' = p
    BY <1>3 DEF InMips!GetQ
  <2>2. /\ InMips!GetPrime(p_val)' = InMips!GetPrime(p_val) /\ InMips!SievedBy(p_val)' = InMips!SievedBy(p_val)
        /\ InMips!GetPrime(q_val)' = InMips!GetPrime(q_val) /\ InMips!SievedBy(q_val)' = InMips!SievedBy(q_val)
    BY <2>1 DEF InMips!GetPrime, InMips!SievedBy
  <2>3. QED BY <1>1, <2>1, <2>2 DEF MipsTableInv
<1>4. CASE \/ InMips!Text2Int \/ InMips!Totient \/ InMips!PublicExp \/ InMips!Inverse
           \/ InMips!Encrypt \/ InMips!Decrypt \/ InMips!Int2Text
  <2>1. /\ UNCHANGED <<p_val, q_val, p, q, primes0>>
        /\ pc \notin {"p", "q"} /\ (pc = "text2int" => pc' = "p")
    BY <1>4 DEF InMips!Text2Int, InMips!Totient, InMips!PublicExp, InMips!Inverse,
                InMips!Encrypt, InMips!Decrypt, InMips!Int2Text
  <2>2. /\ InMips!GetPrime(p_val)' = InMips!GetPrime(p_val) /\ InMips!SievedBy(p_val)' = InMips!SievedBy(p_val)
        /\ InMips!GetPrime(q_val)' = InMips!GetPrime(q_val) /\ InMips!SievedBy(q_val)' = InMips!SievedBy(q_val)
    BY <2>1 DEF InMips!GetPrime, InMips!SievedBy
  <2>3. QED BY <1>1, <2>1, <2>2 DEF MipsTableInv
<1>5. QED BY <1>1, <1>2, <1>3, <1>4 DEF InMips!Next

-------------------------------------------------------------------------------
(* The C program whose steps the MIPS program takes. *)
LEMMA TheoryOfCProgram ==
  /\ \A n : InMips!CProgram!IsPrime(n) <=> IsPrime(n)
  /\ \A m, n : InMips!CProgram!Coprime(m, n) <=> Coprime(m, n)
  /\ \A m, n : InMips!CProgram!Distance(m, n) = Distance(m, n)
BY DEF InMips!CProgram!IsPrime, IsPrime, InMips!CProgram!Coprime, Coprime,
       InMips!CProgram!Divides, Divides, InMips!CProgram!Distance, Distance

(* A number of the table is far from the sign bit.                          *)
LEMMA NumberOfTable ==
  ASSUME NEW n \in Nat, n < MIPS_MAX_NUMBERS
  PROVE  InMips!Signed(n) = n /\ n \in MipsWords /\ 2 * n < WordSize
<1> DEFINE m == MIPS_MAX_NUMBERS
           w == m * m
<1>1. m \in Nat /\ m >= 3 /\ WordSize \in Nat /\ WordSize % 2 = 0 /\ 2 * w <= WordSize
  BY Sizes
<1>2. w \in Nat /\ w >= m
  BY <1>1
<1> HIDE DEF w
<1>3. 2 * n < WordSize
  BY <1>1, <1>2
<1>4. QED BY <1>1, <1>3 DEF InMips!Signed, MipsWords

(* The number C finds is in both tables: a prime as close as the one that   *)
(* is within C's reach, and no tie with it, lies before the end of C's      *)
(* table.                                                                   *)
LEMMA ClosestInBoth ==
  ASSUME NEW n \in Nat, n >= 5, NEW r, InMips!Closest(n) = {r}, WithinReach(n, C_MAX_NUMBERS)
  PROVE  /\ r \in 2..(C_MAX_NUMBERS - 1) /\ IsPrime(r)
         /\ \A k \in 2..(C_MAX_NUMBERS - 1) : IsPrime(k) =>
              \/ Distance(r, n) < Distance(k, n)
              \/ Distance(r, n) = Distance(k, n) /\ r <= k
<1> DEFINE CMAX == C_MAX_NUMBERS
           MAX == MIPS_MAX_NUMBERS
<1>1. MAX \in Nat /\ CMAX \in Nat /\ CMAX > 5 /\ CMAX <= MAX
  BY Sizes, CAssumption, TablesAssumption
<1>2. r \in 2..(MAX - 1) /\ IsPrime(r)
  BY TheoryOfMips DEF InMips!Closest, InMips!TablePrimes
<1>3. ASSUME NEW k \in 2..(MAX - 1), IsPrime(k)
      PROVE  Distance(r, n) <= Distance(k, n) /\ (Distance(r, n) = Distance(k, n) => k = r)
  <2>1. r \in InMips!Closest(n)
    OBVIOUS
  <2>2. Distance(r, n) <= Distance(k, n)
    BY <1>3, <2>1, TheoryOfMips DEF InMips!Closest, InMips!TablePrimes
  <2>3. ASSUME Distance(r, n) = Distance(k, n) PROVE k = r
    <3>1. k \in InMips!Closest(n)
      BY <1>3, <2>1, <2>3, TheoryOfMips DEF InMips!Closest, InMips!TablePrimes
    <3>2. QED BY <3>1
  <2>4. QED BY <2>2, <2>3
<1>4. PICK k \in 2..(CMAX - 1) : IsPrime(k) /\ n + Distance(k, n) <= CMAX
  BY DEF WithinReach
<1> HIDE DEF CMAX, MAX
<1>5. \A i \in 2..(CMAX - 1) : i \in 2..(MAX - 1) /\ i \in Nat
  BY <1>1
<1>6. Distance(r, n) <= Distance(k, n) /\ (Distance(r, n) = Distance(k, n) => k = r)
  BY <1>3, <1>4, <1>5
<1>7. r \in 2..(CMAX - 1)
  <2>1. Distance(r, n) = (IF r < n THEN n - r ELSE r - n) /\ Distance(k, n) \in Nat
    BY <1>1, <1>2 DEF Distance
  <2> DEFINE dr == Distance(r, n)
             dk == Distance(k, n)
  <2>2. dr = (IF r < n THEN n - r ELSE r - n) /\ dk \in Nat /\ dr <= dk /\ (dr = dk => k = r)
        /\ n + dk <= CMAX
    BY <1>4, <1>6, <2>1
  <2> HIDE DEF dr, dk
  <2>3. r < CMAX
    BY <1>1, <1>2, <1>4, <2>2
  <2>4. QED BY <1>1, <1>2, <2>3
<1>8. ASSUME NEW i \in 2..(CMAX - 1), IsPrime(i)
      PROVE  Distance(r, n) < Distance(i, n) \/ (Distance(r, n) = Distance(i, n) /\ r <= i)
  <2>1. Distance(r, n) <= Distance(i, n) /\ (Distance(r, n) = Distance(i, n) => i = r)
    BY <1>3, <1>5, <1>8
  <2>2. Distance(r, n) \in Int /\ Distance(i, n) \in Int /\ r \in Int
    BY <1>1, <1>2, <1>8 DEF Distance
  <2>3. QED BY <2>1, <2>2
<1>9. QED BY <1>2, <1>7, <1>8 DEF CMAX

(* A number within reach is a number of the table.                          *)
LEMMA ReachIsBelow ==
  ASSUME NEW n \in Nat, WithinReach(n, C_MAX_NUMBERS)
  PROVE  n < C_MAX_NUMBERS
<1>1. C_MAX_NUMBERS \in Nat
  BY CAssumption
<1>2. PICK k \in 2..(C_MAX_NUMBERS - 1) : n + Distance(k, n) <= C_MAX_NUMBERS
  BY DEF WithinReach
<1>3. (k < n => Distance(k, n) = n - k) /\ (~ (k < n) => n <= k)
  BY <1>1 DEF Distance
<1>4. QED BY <1>1, <1>2, <1>3

(* Where one prime of the larger table is the closest, and the smaller one  *)
(* has a prime within reach, the two programs find the same one.            *)
LEMMA SameGetPrime ==
  ASSUME NEW n \in Nat,
         n >= 5 => WithinReach(n, C_MAX_NUMBERS) /\ \E r \in InMips!Closest(n) : InMips!Closest(n) = {r}
  PROVE  /\ InMips!GetPrime(n) \in InMips!CProgram!GetPrime(n)
         /\ InMips!GetPrime(n) \in 2..(C_MAX_NUMBERS - 1)
         /\ IsPrime(InMips!GetPrime(n))
         /\ InMips!SievedBy(n) <=> InMips!CProgram!Sieves(n)
         /\ n < 5 => InMips!GetPrime(n) \in {2, 3}
<1> DEFINE CMAX == C_MAX_NUMBERS
           MAX == MIPS_MAX_NUMBERS
           r == InMips!GetPrime(n)
<1>1. MAX \in Nat /\ MAX >= 3 /\ CMAX \in Nat /\ CMAX > 5 /\ CMAX <= MAX
  BY Sizes, CAssumption, TablesAssumption
<1>2. IsPrime(2) /\ IsPrime(3) /\ ~ IsPrime(4)
  <2>1. IsPrime(2) /\ IsPrime(3)
    BY DEF IsPrime, Divides
  <2>2. Divides(2, 4)
    BY DEF Divides
  <2>3. QED BY <2>1, <2>2 DEF IsPrime
<1>3. n < MAX /\ n <= CMAX
  <2>1. CASE n < 5
    BY <1>1, <2>1
  <2>2. CASE n >= 5
    BY <1>1, <2>2, ReachIsBelow
  <2>3. QED BY <2>1, <2>2
<1>4. InMips!Signed(n) = n
  BY <1>3, NumberOfTable
<1>5. InMips!SievedBy(n) <=> InMips!CProgram!Sieves(n)
  BY <1>1, <1>3, <1>4 DEF InMips!SievedBy, InMips!CProgram!Sieves
<1>6. r = IF n <= 2 THEN 2 ELSE IF n < 5 THEN 3
          ELSE CHOOSE s \in InMips!Closest(n) : \A k \in InMips!Closest(n) : k <= s
  BY <1>1, <1>3, <1>4 DEF InMips!GetPrime
<1> HIDE DEF r, CMAX, MAX
<1>7. r \in 2..(CMAX - 1) /\ IsPrime(r) /\ \A k \in 2..(CMAX - 1) :
        IsPrime(k) => \/ Distance(r, n) < Distance(k, n)
                      \/ Distance(r, n) = Distance(k, n) /\ r <= k
  <2>1. CASE n <= 2
    BY <1>1, <1>2, <1>6, <2>1 DEF Distance
  <2>2. CASE n > 2 /\ n < 5
    BY <1>1, <1>2, <1>6, <2>2 DEF Distance
  <2>3. CASE n >= 5
    <3>1. \E s \in InMips!Closest(n) : \A k \in InMips!Closest(n) : k <= s
      BY ClosestExists
    <3>2. r \in InMips!Closest(n)
      BY <1>6, <2>3, <3>1
    <3>3. InMips!Closest(n) = {r}
      BY <2>3, <3>2
    <3>4. QED BY <2>3, <3>3, ClosestInBoth DEF CMAX
  <2>4. QED BY <2>1, <2>2, <2>3
<1>8. InMips!CProgram!IsClosest(r, n, CMAX)
  BY <1>7, TheoryOfCProgram DEF InMips!CProgram!IsClosest
<1>9. r \in InMips!CProgram!GetPrime(n)
  <2>1. ~ (n > CMAX)
    BY <1>1, <1>3
  <2>2. QED BY <1>7, <1>8, <2>1 DEF InMips!CProgram!GetPrime, CMAX
<1>10. n < 5 => r \in {2, 3}
  BY <1>6
<1>11. QED BY <1>5, <1>7, <1>9, <1>10 DEF r, CMAX

-------------------------------------------------------------------------------
MipsRunInv == MipsKeysInv /\ MipsMessageInv /\ MipsTableInv

Mapped == [k \in DOMAIN decrypted |-> InMips!SignedByte(decrypted[k])]

(* What a comparable input says of either number.                           *)
LEMMA ComparableArguments ==
  ASSUME MipsRunInv, InMips!Comparable, NEW n \in {p_val, q_val}
  PROVE  /\ n \in Nat
         /\ n >= 5 => WithinReach(n, C_MAX_NUMBERS) /\ \E r \in InMips!Closest(n) : InMips!Closest(n) = {r}
<1>1. WordSize \in Nat
  BY Sizes
<1>2. InMips!WithinReach(n, C_MAX_NUMBERS) <=> WithinReach(n, C_MAX_NUMBERS)
  BY TheoryOfMips DEF InMips!WithinReach, WithinReach
<1>3. QED BY <1>1, <1>2 DEF MipsRunInv, MipsKeysInv, InMips!Comparable

(* Both numbers of a comparable input have their primes, in either table;   *)
(* on an unfilled table they are the same one.                              *)
LEMMA ComparablePrimes ==
  ASSUME MipsRunInv, InMips!Comparable, BehindQ
  PROVE  /\ p \in 2..(C_MAX_NUMBERS - 1) /\ q \in 2..(C_MAX_NUMBERS - 1)
         /\ IsPrime(p) /\ IsPrime(q)
         /\ p \in 2..(MIPS_MAX_NUMBERS - 1) /\ q \in 2..(MIPS_MAX_NUMBERS - 1)
         /\ {p, q} # {2, 3}
         /\ primes0 # 0 => p = q /\ p \in {2, 3}
<1>1. p = InMips!GetPrime(p_val) /\ q = InMips!GetPrime(q_val)
      /\ (primes0 # 0 => ~ InMips!SievedBy(p_val) /\ ~ InMips!SievedBy(q_val))
  BY DEF MipsRunInv, MipsTableInv, BehindQ
<1>2. /\ p \in 2..(C_MAX_NUMBERS - 1) /\ IsPrime(p)
      /\ InMips!SievedBy(p_val) <=> InMips!CProgram!Sieves(p_val)
      /\ p_val < 5 => p \in {2, 3}
  BY <1>1, ComparableArguments, SameGetPrime
<1>3. /\ q \in 2..(C_MAX_NUMBERS - 1) /\ IsPrime(q)
      /\ InMips!SievedBy(q_val) <=> InMips!CProgram!Sieves(q_val)
      /\ q_val < 5 => q \in {2, 3}
  BY <1>1, ComparableArguments, SameGetPrime
<1>4. {p, q} # {2, 3}
  BY <1>1 DEF InMips!Comparable
<1>5. ASSUME primes0 # 0 PROVE p = q /\ p \in {2, 3}
  <2>1. ~ (p_val >= 5 /\ p_val <= C_MAX_NUMBERS) /\ ~ (q_val >= 5 /\ q_val <= C_MAX_NUMBERS)
    BY <1>1, <1>2, <1>3, <1>5 DEF InMips!CProgram!Sieves
  <2>2. ASSUME NEW n \in {p_val, q_val} PROVE n < 5
    <3>1. n \in Nat /\ (n >= 5 => WithinReach(n, C_MAX_NUMBERS))
      BY <2>2, ComparableArguments
    <3>2. n >= 5 => n < C_MAX_NUMBERS
      BY <3>1, ReachIsBelow
    <3>3. C_MAX_NUMBERS \in Nat
      BY CAssumption
    <3>4. ~ (n >= 5 /\ n <= C_MAX_NUMBERS)
      BY <2>1, <2>2
    <3>5. QED BY <3>1, <3>2, <3>3, <3>4
  <2>3. p \in {2, 3} /\ q \in {2, 3}
    BY <1>2, <1>3, <2>2
  <2>4. QED BY <1>4, <2>3
<1>6. \A i \in 2..(C_MAX_NUMBERS - 1) : i \in 2..(MIPS_MAX_NUMBERS - 1)
  BY Sizes, CAssumption, TablesAssumption
<1>7. QED BY <1>2, <1>3, <1>4, <1>5, <1>6

(* The bytes of a comparable line are the chars of the text.                *)
LEMMA SameText2Int ==
  ASSUME MipsRunInv, InMips!Comparable, InMips!Text2Int
  PROVE  InMips!CProgram!Text2Int
<1> DEFINE t == Append(text, 0)
           B == 2 * CharLimit
<1>1. text \in MIPS_Texts /\ Len(text) + 2 <= BufferSize
  BY DEF MipsRunInv, MipsMessageInv, InMips!Comparable
<1>2. t \in Seq(0..(B - 1)) /\ val' = t
  BY <1>1, LineIsText DEF InMips!Text2Int
<1>3. WordSize \in Nat /\ B \in Nat /\ B <= WordSize
  BY CAssumption
<1> HIDE DEF t, B
<1>4. \A k \in DOMAIN t : InMips!CProgram!ToUnsigned(t[k]) = t[k]
  <2> DEFINE S == 0..(B - 1)
  <2>1. \A c \in S : InMips!CProgram!ToUnsigned(c) = c
    BY <1>3 DEF InMips!CProgram!ToUnsigned
  <2>2. t \in Seq(S)
    BY <1>2
  <2> HIDE DEF S
  <2>3. \A k \in DOMAIN t : t[k] \in S
    BY <2>2
  <2>4. QED BY <2>1, <2>3
<1>5. t = [k \in DOMAIN t |-> t[k]]
  BY <1>2
<1>6. val' = [k \in DOMAIN t |-> InMips!CProgram!ToUnsigned(t[k])]
  BY <1>2, <1>4, <1>5
<1>7. QED
  BY <1>6 DEF InMips!Text2Int, InMips!CProgram!Text2Int, InMips!CProgram!Map, InMips!CProgram!input,
              InMips!input, InMips!CProgram!keys, InMips!keys, t

(* The same prime, and the same table behind it.                            *)
LEMMA SameGetP ==
  ASSUME MipsRunInv, InMips!Comparable, InMips!GetP
  PROVE  InMips!CProgram!GetP
<1>1. /\ InMips!GetPrime(p_val) \in InMips!CProgram!GetPrime(p_val)
      /\ InMips!SievedBy(p_val) <=> InMips!CProgram!Sieves(p_val)
  BY ComparableArguments, SameGetPrime
<1>2. (primes0' = 0) <=> (primes0 = 0 \/ InMips!CProgram!Sieves(p_val))
  BY <1>1 DEF InMips!GetP
<1>3. QED BY <1>1, <1>2 DEF InMips!GetP, InMips!CProgram!GetP, InMips!CProgram!input, InMips!input, InMips!messages

(* The same for the second call.                                            *)
LEMMA SameGetQ ==
  ASSUME MipsRunInv, InMips!Comparable, InMips!GetQ
  PROVE  InMips!CProgram!GetQ
<1>1. /\ InMips!GetPrime(q_val) \in InMips!CProgram!GetPrime(q_val)
      /\ InMips!SievedBy(q_val) <=> InMips!CProgram!Sieves(q_val)
  BY ComparableArguments, SameGetPrime
<1>2. (primes0' = 0) <=> (primes0 = 0 \/ InMips!CProgram!Sieves(q_val))
  BY <1>1 DEF InMips!GetQ
<1>3. QED BY <1>1, <1>2 DEF InMips!GetQ, InMips!CProgram!GetQ, InMips!CProgram!input, InMips!input, InMips!messages

(* Neither program takes the product for one that was cut off.              *)
LEMMA SameTotient ==
  ASSUME MipsRunInv, InMips!Comparable, InMips!Totient
  PROVE  InMips!CProgram!Totient
<1>1. p \in 2..(MIPS_MAX_NUMBERS - 1) /\ q \in 2..(MIPS_MAX_NUMBERS - 1)
  <2>1. BehindQ
    BY DEF InMips!Totient, BehindP, BehindQ
  <2>2. QED BY <2>1, ComparablePrimes
<1> DEFINE n == p * q
           m == (p - 1) * (q - 1)
<1>2. n \in Nat /\ m \in Nat /\ 2 * n < WordSize /\ 2 * m < WordSize /\ WordSize \in Nat
  BY <1>1, SizesOfMips, Sizes
<1>3. InMips!Multu(p, q) = <<n, 0>> /\ InMips!Multu(InMips!Word(p - 1), InMips!Word(q - 1)) = <<m, 0>>
  BY <1>1, MipsTotient
<1>4. n >= p /\ n >= q
  <2>1. \A a, b \in Nat : a >= 2 /\ b >= 2 => a * b >= a /\ a * b >= b
    OBVIOUS
  <2>2. QED BY <1>1, <2>1, Sizes
<1>5. InMips!CProgram!Times(p, q) = n % WordSize
  BY DEF InMips!CProgram!Times
<1> DEFINE goal == (IF n % WordSize < p \/ n % WordSize < q THEN 0 ELSE m % WordSize)
<1>6. phi' = m /\ modN' = n
  <2> HIDE DEF n, m
  <2>1. QED BY <1>3 DEF InMips!Totient
<1>7. InMips!CProgram!Totient <=>
        /\ pc = "totient"
        /\ modN' = IF n % WordSize < p \/ n % WordSize < q THEN 0 ELSE n % WordSize
        /\ phi' = goal
        /\ pc' = "publicExp"
        /\ UNCHANGED <<InMips!CProgram!input, primes0 = 0, p, q, e, d, val, C, M, Mapped>>
  BY DEF InMips!CProgram!Totient, InMips!CProgram!Times, Mapped
<1>8. /\ pc = "totient" /\ pc' = "publicExp"
      /\ UNCHANGED <<InMips!CProgram!input, primes0 = 0, p, q, e, d, val, C, M, Mapped>>
  BY DEF InMips!Totient, InMips!CProgram!input, InMips!input, InMips!messages, Mapped
<1>9. n % WordSize = n /\ m % WordSize = m /\ p \in Int /\ q \in Int
  <2> HIDE DEF n, m
  <2>1. QED BY <1>1, <1>2, Sizes
<1> HIDE DEF n, m
<1>10. QED BY <1>2, <1>4, <1>6, <1>7, <1>8, <1>9, <1>1

(* The totient of a comparable input is 1 or larger than 2.                 *)
LEMMA ComparableTotient ==
  ASSUME MipsRunInv, InMips!Comparable, BehindTotient
  PROVE  /\ phi = (p - 1) * (q - 1) /\ phi \in Nat /\ 2 * phi < WordSize
         /\ modN \in Nat \ {0} /\ 2 * modN <= WordSize
         /\ phi = 1 \/ phi > 2
         /\ phi <= 2 => p = 2 /\ q = 2
<1>1. /\ p \in 2..(MIPS_MAX_NUMBERS - 1) /\ q \in 2..(MIPS_MAX_NUMBERS - 1)
      /\ {p, q} # {2, 3}
  BY ComparablePrimes DEF BehindTotient
<1>2. phi = (p - 1) * (q - 1) /\ modN = p * q
  BY <1>1, Sizes DEF MipsRunInv, MipsKeysInv, MipsMessageInv
<1>3. /\ p * q \in Nat /\ 2 * (p * q) < WordSize /\ WordSize \in Nat
      /\ (p - 1) * (q - 1) \in Nat \ {0} /\ 2 * ((p - 1) * (q - 1)) < WordSize
  BY <1>1, SizesOfMips, Sizes
<1>4. p * q # 0
  <2>1. \A a, b \in Nat : a >= 2 /\ b >= 2 => a * b # 0
    OBVIOUS
  <2>2. QED BY <1>1, <2>1, Sizes
<1>5. ASSUME phi <= 2 PROVE p = 2 /\ q = 2
  <2>1. \A a, b \in Nat : a >= 1 /\ b >= 1 /\ a * b <= 2 => a <= 2 /\ b <= 2 /\ (a = 1 \/ b = 1)
    <3>1. SUFFICES ASSUME NEW a \in Nat, NEW b \in Nat, a >= 1, b >= 1, a * b <= 2
                   PROVE  a <= 2 /\ b <= 2 /\ (a = 1 \/ b = 1)
      OBVIOUS
    <3>2. a * b >= a /\ a * b >= b
      BY <3>1
    <3>3. a >= 2 /\ b >= 2 => a * b >= 4
      BY <3>1
    <3>4. QED BY <3>1, <3>2, <3>3
  <2>2. p - 1 \in Nat /\ q - 1 \in Nat /\ p - 1 >= 1 /\ q - 1 >= 1
    BY <1>1, Sizes
  <2>3. p - 1 <= 2 /\ q - 1 <= 2 /\ (p - 1 = 1 \/ q - 1 = 1)
    BY <1>2, <1>5, <2>1, <2>2
  <2>4. (p = 2 /\ q = 2) \/ {p, q} = {2, 3}
    BY <1>1, <2>3, Sizes
  <2>5. QED BY <1>1, <2>4
<1>6. phi = 1 \/ phi > 2
  BY <1>2, <1>3, <1>5
<1> DEFINE u == p * q
           v == (p - 1) * (q - 1)
<1> HIDE DEF u, v
<1>7. u \in Nat /\ u # 0 /\ 2 * u < WordSize /\ WordSize \in Nat /\ v \in Nat /\ 2 * v < WordSize
      /\ phi = v /\ modN = u
  BY <1>2, <1>3, <1>4 DEF u, v
<1>8. 2 * u <= WordSize
  BY <1>7
<1>9. QED BY <1>5, <1>6, <1>7, <1>8 DEF v

(* The exponent is in the smaller table too: it is not above a prime below  *)
(* a small totient, nor above the larger prime of a large one.              *)
LEMMA ExponentInBoth ==
  ASSUME NEW r \in 2..(C_MAX_NUMBERS - 1), NEW s \in 2..(C_MAX_NUMBERS - 1), IsPrime(r), IsPrime(s),
         phi = (r - 1) * (s - 1), phi \in Nat, phi > 2, InMips!Signed(phi) = phi,
         NEW x \in Nat, \A k \in InMips!Candidates : x <= k
  PROVE  x < C_MAX_NUMBERS
<1> DEFINE CMAX == C_MAX_NUMBERS
           MAX == MIPS_MAX_NUMBERS
<1>1. MAX \in Nat /\ CMAX \in Nat /\ CMAX > 5 /\ CMAX <= MAX
  BY Sizes, CAssumption, TablesAssumption
<1>2. \A k \in 2..(MAX - 1) : k < phi /\ Coprime(k, phi) /\ IsPrime(k) => x <= k
  BY TheoryOfMips DEF InMips!Candidates, InMips!Marked
<1> HIDE DEF CMAX, MAX
<1>3. \A k \in 2..(CMAX - 1) : k \in 2..(MAX - 1) /\ k \in Nat /\ k < CMAX
  BY <1>1
<1>4. CASE phi <= CMAX
  <2>1. PICK k \in 2..(phi - 1) : IsPrime(k) /\ Coprime(k, phi)
    BY CoprimePrimeBelow
  <2>2. k \in 2..(CMAX - 1) /\ k < phi
    BY <1>1, <1>4
  <2>3. x <= k
    BY <1>2, <1>3, <2>1, <2>2
  <2>4. QED BY <1>1, <2>2, <2>3 DEF CMAX
<1>5. CASE phi > CMAX
  <2>1. PICK k \in {r, s} : r <= k /\ s <= k
    BY <1>1 DEF CMAX
  <2>2. k \in 2..(CMAX - 1) /\ IsPrime(k) /\ r - 1 \in 1..(k - 1) /\ s - 1 \in 1..(k - 1)
    BY <1>1, <2>1 DEF CMAX
  <2>3. Coprime(k, phi)
    <3> DEFINE a == r - 1
               b == s - 1
    <3>1. k \in Nat /\ a \in 1..(k - 1) /\ b \in 1..(k - 1) /\ phi = a * b
      BY <1>1, <2>2
    <3> HIDE DEF a, b
    <3>2. QED BY <2>2, <3>1, PrimeAndSmallerFactors
  <2>4. k < phi
    BY <1>1, <1>5, <2>2
  <2>5. x <= k
    BY <1>2, <1>3, <2>2, <2>3, <2>4
  <2>6. QED BY <1>1, <2>2, <2>5 DEF CMAX
<1>6. QED BY <1>1, <1>4, <1>5

(* Once the tables are sieved the loops of publicExp choose the same        *)
(* number; on an unfilled table of C the fallback may answer as the loop of *)
(* MIPS.                                                                    *)
LEMMA SamePublicExp ==
  ASSUME MipsRunInv, InMips!Comparable, InMips!PublicExp
  PROVE  InMips!CProgram!PublicExp \/ InMips!CProgram!PublicExpFallback
<1> DEFINE CMAX == C_MAX_NUMBERS
           MAX == MIPS_MAX_NUMBERS
<1>1. /\ pc = "publicExp" /\ pc' = "inverse" /\ primes0' = primes0
      /\ UNCHANGED <<text, p_val, q_val, p, q, phi, modN, d, val, C, M, decrypted>>
  BY DEF InMips!PublicExp, InMips!input, InMips!messages
<1>2. BehindQ /\ BehindTotient
  BY <1>1 DEF BehindP, BehindQ, BehindTotient
<1>3. /\ p \in 2..(CMAX - 1) /\ q \in 2..(CMAX - 1) /\ IsPrime(p) /\ IsPrime(q)
      /\ p \in 2..(MAX - 1) /\ q \in 2..(MAX - 1)
      /\ primes0 # 0 => p = q /\ p \in {2, 3}
  BY <1>2, ComparablePrimes
<1>4. /\ phi = (p - 1) * (q - 1) /\ phi \in Nat /\ 2 * phi < WordSize
      /\ phi = 1 \/ phi > 2
      /\ phi <= 2 => p = 2 /\ q = 2
  BY <1>2, ComparableTotient
<1>5. InMips!Signed(phi) = phi
  BY <1>4, Sizes DEF InMips!Signed
<1>6. MAX \in Nat /\ CMAX \in Nat /\ CMAX > 5 /\ CMAX <= MAX /\ p # 0 /\ q # 0
  BY <1>3, Sizes, CAssumption, TablesAssumption
<1>7. /\ phi > 2 => e' \in InMips!Candidates /\ \A k \in InMips!Candidates : e' <= k
      /\ ~ (phi > 2) => e' = 2 /\ InMips!Candidates = {}
  BY <1>6, ExponentInTable DEF MipsRunInv
<1>8. ASSUME NEW n \in {2, 3}, e' = n, InMips!CProgram!Candidates = {}
      PROVE  InMips!CProgram!PublicExpFallback
  <2>1. n \in Nat /\ ~ (n >= 5) /\ n < MAX
    BY <1>6, <1>8
  <2>2. InMips!GetPrime(n) = n
    BY <1>6, <1>8, <2>1, NumberOfTable DEF InMips!GetPrime
  <2>3. e' \in InMips!CProgram!GetPrime(n)
    BY <1>8, <2>1, <2>2, SameGetPrime
  <2>4. ~ InMips!CProgram!Sieves(n)
    BY <1>8, <2>1 DEF InMips!CProgram!Sieves
  <2>5. n \in 2..(RandLimit + 1)
    BY <1>8, CAssumption, TablesAssumption
  <2>6. QED BY <1>1, <1>8, <2>3, <2>4, <2>5 DEF InMips!CProgram!PublicExpFallback, InMips!CProgram!input
<1>9. CASE primes0 = 0
  <2>1. \A i : i \in InMips!Candidates <=>
              i \in 2..(MAX - 1) /\ i < phi /\ Coprime(i, phi) /\ IsPrime(i)
    BY <1>5, <1>9, TheoryOfMips DEF InMips!Candidates, InMips!Marked
  <2>2. \A i : i \in InMips!CProgram!Candidates <=>
              i \in 2..(CMAX - 1) /\ i < phi /\ Coprime(i, phi) /\ IsPrime(i)
    BY <1>9, TheoryOfCProgram DEF InMips!CProgram!Candidates, InMips!CProgram!Primes
  <2> HIDE DEF CMAX, MAX
  <2>3. \A i \in 2..(CMAX - 1) : i \in 2..(MAX - 1)
    BY <1>6
  <2>4. InMips!CProgram!Candidates \subseteq InMips!Candidates
    BY <2>1, <2>2, <2>3
  <2>5. CASE phi > 2
    <3>1. e' \in InMips!Candidates /\ \A k \in InMips!Candidates : e' <= k
      BY <1>7, <2>5
    <3>2. e' \in Nat /\ e' >= 2 /\ e' < phi /\ Coprime(e', phi) /\ IsPrime(e')
      BY <1>6, <2>1, <3>1
    <3>3. e' < CMAX
      BY <1>3, <1>4, <1>5, <2>5, <3>1, <3>2, ExponentInBoth DEF CMAX
    <3>4. e' \in InMips!CProgram!Candidates
      BY <1>6, <2>2, <3>2, <3>3
    <3>5. \A k \in InMips!CProgram!Candidates : e' <= k
      BY <2>4, <3>1
    <3>6. QED BY <1>1, <3>4, <3>5 DEF InMips!CProgram!PublicExp, InMips!CProgram!input
  <2>6. CASE ~ (phi > 2)
    <3>1. InMips!CProgram!Candidates = {} /\ e' = 2
      BY <1>7, <2>4, <2>6
    <3>2. QED BY <1>8, <3>1
  <2>7. QED BY <2>5, <2>6
<1>10. CASE primes0 # 0
  <2>1. InMips!CProgram!Candidates = {}
    BY <1>10 DEF InMips!CProgram!Candidates
  <2>2. CASE p = 2
    <3>1. e' = 2
      BY <1>3, <1>4, <1>7, <1>10, <2>2
    <3>2. QED BY <1>8, <2>1, <3>1
  <2>3. CASE p = 3
    <3>1. phi = 4 /\ e' \in InMips!Candidates
      BY <1>3, <1>4, <1>7, <1>10, <2>3
    <3>2. e' \in {2, 3} /\ Coprime(e', 4)
      BY <1>5, <3>1, <1>6, TheoryOfMips DEF InMips!Candidates
    <3>3. ~ Coprime(2, 4)
      BY DEF Coprime, Divides
    <3>4. e' = 3
      BY <3>2, <3>3
    <3>5. QED BY <1>8, <2>1, <3>4
  <2>4. QED BY <1>3, <1>10, <2>2, <2>3
<1>11. QED BY <1>9, <1>10

(* One inverse is the one C promises.                                       *)
LEMMA SameInverse ==
  ASSUME MipsRunInv, InMips!Comparable, InMips!Inverse
  PROVE  InMips!CProgram!Inverse
<1>1. /\ pc = "inverse" /\ pc' = "encrypt" /\ primes0' = primes0
      /\ UNCHANGED <<text, p_val, q_val, p, q, phi, modN, e, val, C, M, decrypted>>
  BY DEF InMips!Inverse, InMips!input, InMips!messages
<1>2. BehindQ /\ BehindTotient /\ BehindExponent
  BY <1>1 DEF BehindP, BehindQ, BehindTotient, BehindExponent
<1>3. p # 0 /\ q # 0
  BY <1>2, ComparablePrimes, Sizes
<1>4. phi = 1 \/ phi > 2
  BY <1>2, ComparableTotient
<1>5. CASE phi = 1
  <2>1. d' = 1
    BY <1>5 DEF InMips!Inverse
  <2>2. QED BY <1>1, <1>5, <2>1 DEF InMips!CProgram!Inverse, InMips!CProgram!input
<1>6. CASE phi > 2 /\ phi # 1
  <2>1. Coprime(e, phi)
    BY <1>2, <1>3, <1>6 DEF MipsRunInv, MipsKeysInv
  <2>2. d' \in 1..(phi - 1) /\ (e * d') % phi = 1
    BY <1>3, <1>6, InverseInMips DEF MipsRunInv
  <2>3. QED BY <1>1, <1>6, <2>1, <2>2, TheoryOfCProgram DEF InMips!CProgram!Inverse, InMips!CProgram!input
<1>7. phi \in Nat
  BY <1>2, ComparableTotient
<1>8. QED BY <1>4, <1>5, <1>6, <1>7

(* What the loop of powmod returns is 1 or a product it made. *)
LEMMA LoopStays ==
  ASSUME NEW S, NEW H \in Nat, NEW mul, Closed(S, mul), NEW f, Squaring(f, S, H, mul),
         NEW x \in S, NEW y \in S, NEW n \in 0..H
  PROVE  f[<<x, y, n>>] \in S
<1> DEFINE R == {k \in Nat : k <= H => \A u, v \in S : f[<<u, v, k>>] \in S}
<1>1. ASSUME NEW k \in Nat, \A j \in 0..(k - 1) : j \in R PROVE k \in R
  <2>1. SUFFICES ASSUME k <= H, NEW u \in S, NEW v \in S PROVE f[<<u, v, k>>] \in S
    OBVIOUS
  <2>2. k \in 0..H
    BY <2>1
  <2>3. CASE k = 0
    <3>1. f[<<u, v, k>>] = u
      BY <2>2, <2>3 DEF Squaring
    <3>2. QED BY <3>1
  <2>4. CASE k # 0
    <3> DEFINE j == k \div 2
               a == IF k % 2 = 1 THEN mul[<<u, v>>] ELSE u
               b == mul[<<v, v>>]
    <3>1. j \in 0..(k - 1) /\ j \in Nat /\ j <= H
      BY <2>2, <2>4, Halved
    <3>2. a \in S /\ b \in S
      BY DEF Closed
    <3>3. f[<<u, v, k>>] = f[<<a, b, j>>]
      BY <2>2, <2>4 DEF Squaring
    <3> HIDE DEF a, b, j
    <3>4. f[<<a, b, j>>] \in S
      BY <1>1, <3>1, <3>2
    <3>5. QED BY <3>3, <3>4
  <2>5. QED BY <2>3, <2>4
<1> HIDE DEF R
<1>2. Nat \subseteq R
  BY <1>1, StrongInduction
<1>3. n \in Nat /\ n <= H /\ n \in R
  BY <1>2
<1>4. QED BY <1>3 DEF R

(* powmod returns a word, whatever its arguments.                           *)
LEMMA PowmodIsWord ==
  ASSUME NEW mod \in Nat \ {0}, 2 * mod <= WordSize, NEW a \in MipsWords, NEW b \in Nat, 2 * b < WordSize
  PROVE  InMips!Powmod(a, b, mod) \in MipsWords
<1> DEFINE mul == Remainders(mod)
           f == LoopOfMips(mod)
<1>1. Closed(MipsWords, mul)
  BY LoopOfMipsDef
<1>2. Squaring(f, MipsWords, b, mul)
  BY LoopOfMipsDef
<1>3. 1 \in MipsWords /\ b \in 0..b
  BY Sizes DEF MipsWords
<1> HIDE DEF f, mul
<1>4. f[<<1, a, b>>] \in MipsWords
  BY <1>1, <1>2, <1>3, LoopStays
<1>5. QED BY <1>4, MipsPowmodByLoop DEF f

(* powmod of one program is powmod of the other. *)
LEMMA PowmodOfCProgram ==
  ASSUME NEW a, NEW b, NEW mod
  PROVE  InMips!CProgram!Powmod(a, b, mod) = InC!Powmod(a, b, mod)
BY DEF InMips!CProgram!Powmod, InC!Powmod, InMips!CProgram!Times, InC!Times

(* The exponents and the modulus are no negative numbers.                   *)
LEMMA ComparableKeys ==
  ASSUME MipsRunInv, InMips!Comparable, BehindInverse
  PROVE  /\ e \in Nat /\ 2 * e < WordSize /\ d \in Nat /\ 2 * d < WordSize
         /\ modN \in Nat \ {0} /\ 2 * modN <= WordSize
<1>1. BehindQ /\ BehindTotient /\ BehindExponent
  BY DEF BehindP, BehindQ, BehindTotient, BehindExponent, BehindInverse
<1>2. p # 0 /\ q # 0
  BY <1>1, ComparablePrimes, Sizes
<1>3. /\ phi \in Nat /\ 2 * phi < WordSize /\ modN \in Nat \ {0} /\ 2 * modN <= WordSize
      /\ phi = 1 \/ phi > 2
  BY <1>1, ComparableTotient
<1>4. e \in 2..(MIPS_MAX_NUMBERS - 1) /\ (phi = 1 => d = 1) /\ (phi > 2 => d \in 1..(phi - 1))
  BY <1>1, <1>2 DEF MipsRunInv, MipsMessageInv
<1>5. e \in Nat /\ 2 * e < WordSize
  BY <1>4, NumberOfTable, Sizes
<1>6. d \in Nat /\ 2 * d < WordSize
  BY <1>3, <1>4, Sizes
<1>7. QED BY <1>3, <1>5, <1>6

(* The message is made of words, before it is encrypted and after it.       *)
LEMMA ComparableMessage ==
  ASSUME MipsRunInv, InMips!Comparable, pc # "text2int"
  PROVE  \A k \in DOMAIN val : val[k] \in MipsWords
<1> DEFINE S == 0..(2 * CharLimit - 1)
<1>1. text \in MIPS_Texts /\ Len(text) + 2 <= BufferSize /\ val = [InMips!Line EXCEPT ![Len(InMips!Line)] = 0]
  BY DEF MipsRunInv, MipsMessageInv, InMips!Comparable
<1>2. val \in Seq(S)
  BY <1>1, LineIsText
<1>3. S \subseteq MipsWords
  BY CAssumption DEF MipsWords
<1> HIDE DEF S
<1>4. \A k \in DOMAIN val : val[k] \in S
  BY <1>2
<1>5. QED BY <1>3, <1>4

LEMMA ComparableCipher ==
  ASSUME MipsRunInv, InMips!Comparable, BehindEncrypt
  PROVE  \A k \in DOMAIN C : C[k] \in MipsWords
<1>1. BehindInverse /\ pc # "text2int"
  BY DEF BehindEncrypt, BehindInverse
<1>2. C = [k \in DOMAIN val |-> InMips!Powmod(val[k], e, modN)]
  BY DEF MipsRunInv, MipsMessageInv
<1>3. ASSUME NEW k \in DOMAIN val PROVE InMips!Powmod(val[k], e, modN) \in MipsWords
  BY <1>1, <1>3, ComparableKeys, ComparableMessage, PowmodIsWord
<1>4. QED BY <1>2, <1>3

(* The same powers; and the modulus is not 0, which would end the C program. *)
LEMMA SameEncrypt ==
  ASSUME MipsRunInv, InMips!Comparable, InMips!Encrypt
  PROVE  InMips!CProgram!Encrypt
<1>1. /\ pc = "encrypt" /\ pc' = "decrypt" /\ primes0' = primes0
      /\ C' = [k \in DOMAIN val |-> InMips!Powmod(val[k], e, modN)]
      /\ UNCHANGED <<text, p_val, q_val, p, q, phi, modN, e, d, val, M, decrypted>>
  BY DEF InMips!Encrypt, InMips!input, InMips!keys
<1>2. BehindInverse /\ pc # "text2int"
  BY <1>1 DEF BehindInverse
<1>3. ASSUME NEW k \in DOMAIN val
      PROVE  InMips!Powmod(val[k], e, modN) = InMips!CProgram!Powmod(val[k], e, modN)
  <2>1. InMips!Powmod(val[k], e, modN) = InC!Powmod(val[k], e, modN)
    BY <1>2, <1>3, ComparableKeys, ComparableMessage, SamePowmod
  <2>2. QED BY <2>1, PowmodOfCProgram
<1>4. C' = [k \in DOMAIN val |-> InMips!CProgram!Powmod(val[k], e, modN)]
  BY <1>1, <1>3
<1>5. modN # 0
  BY <1>2, ComparableKeys
<1>6. QED BY <1>1, <1>4, <1>5
          DEF InMips!CProgram!Encrypt, InMips!CProgram!input, InMips!CProgram!keys

(* The same powers again.                                                   *)
LEMMA SameDecrypt ==
  ASSUME MipsRunInv, InMips!Comparable, InMips!Decrypt
  PROVE  InMips!CProgram!Decrypt
<1>1. /\ pc = "decrypt" /\ pc' = "int2text" /\ primes0' = primes0
      /\ M' = [k \in DOMAIN C |-> InMips!Powmod(C[k], d, modN)]
      /\ UNCHANGED <<text, p_val, q_val, p, q, phi, modN, e, d, val, C, decrypted>>
  BY DEF InMips!Decrypt, InMips!input, InMips!keys
<1>2. BehindInverse /\ BehindEncrypt
  BY <1>1 DEF BehindInverse, BehindEncrypt
<1>3. ASSUME NEW k \in DOMAIN C
      PROVE  InMips!Powmod(C[k], d, modN) = InMips!CProgram!Powmod(C[k], d, modN)
  <2>1. InMips!Powmod(C[k], d, modN) = InC!Powmod(C[k], d, modN)
    BY <1>2, <1>3, ComparableKeys, ComparableCipher, SamePowmod
  <2>2. QED BY <2>1, PowmodOfCProgram
<1>4. M' = [k \in DOMAIN C |-> InMips!CProgram!Powmod(C[k], d, modN)]
  BY <1>1, <1>3
<1>5. QED BY <1>1, <1>4
          DEF InMips!CProgram!Decrypt, InMips!CProgram!input, InMips!CProgram!keys

(* The low byte of a word, read as a signed number, is the char.           *)
LEMMA CharOfWord ==
  ASSUME NEW v \in Nat
  PROVE  InMips!SignedByte(v % (2 * CharLimit)) = InMips!CProgram!ToChar(v)
<1> DEFINE H == CharLimit
           B == 2 * CharLimit
           r == v % B
           g == v \div B
           z == (v + H) % B
<1>1. H \in Nat \ {0} /\ B \in Nat \ {0} /\ B = 2 * H /\ B \div 2 = H
  BY CAssumption
<1>2. InMips!CProgram!ToChar(v) = z - H
  BY <1>1 DEF InMips!CProgram!ToChar
<1>3. InMips!SignedByte(r) = IF r < H THEN r ELSE r - B
  BY <1>1 DEF InMips!SignedByte
<1> HIDE DEF B, H
<1>4. r \in 0..(B - 1) /\ v = g * B + r /\ g \in Nat
  BY <1>1
<1> HIDE DEF r, g
<1>5. z = IF r < H THEN r + H ELSE r - H
  <2>1. CASE r < H
    <3>1. r + H \in 0..(B - 1)
      BY <1>1, <1>4, <2>1
    <3>2. (g * B + (r + H)) % B = r + H
      BY <1>1, <1>4, <3>1, RemainderIsUnique
    <3>3. g * B \in Int /\ r \in Int /\ H \in Int
      BY <1>1, <1>4
    <3> DEFINE u == g * B
    <3> HIDE DEF u
    <3>4. u + (r + H) = v + H
      BY <1>4, <3>3 DEF u
    <3>5. QED BY <2>1, <3>2, <3>4 DEF u
  <2>2. CASE ~ (r < H)
    <3>1. r - H \in 0..(B - 1)
      BY <1>1, <1>4, <2>2
    <3>2. g + 1 \in Int
      BY <1>4
    <3>3. ((g + 1) * B + (r - H)) % B = r - H
      BY <1>1, <3>1, <3>2, RemainderIsUnique
    <3>4. (g + 1) * B + (r - H) = v + H
      <4> DEFINE u == g * B
      <4>1. (g + 1) * B = u + B /\ u \in Int
        BY <1>1, <1>4
      <4> HIDE DEF u
      <4>2. v = u + r
        BY <1>4 DEF u
      <4> DEFINE w == (g + 1) * B
      <4> HIDE DEF w
      <4>3. w + (r - H) = v + H
        BY <1>1, <1>4, <4>1, <4>2 DEF w
      <4>4. QED BY <4>3 DEF w
    <3>5. QED BY <2>2, <3>3, <3>4
  <2>3. QED BY <2>1, <2>2
<1> HIDE DEF z
<1>6. InMips!SignedByte(r) = InMips!CProgram!ToChar(v)
  BY <1>1, <1>2, <1>3, <1>4, <1>5
<1>7. QED BY <1>6 DEF r, B

(* The bytes of one program are the chars of the other.                     *)
LEMMA SameInt2Text ==
  ASSUME MipsRunInv, InMips!Comparable, InMips!Int2Text
  PROVE  InMips!CProgram!Int2Text
<1>1. /\ pc = "int2text" /\ pc' = "done" /\ primes0' = primes0
      /\ decrypted' = [k \in DOMAIN M |-> M[k] % (2 * CharLimit)]
      /\ UNCHANGED <<text, p_val, q_val, p, q, phi, modN, e, d, val, C, M>>
  BY DEF InMips!Int2Text, InMips!input, InMips!keys
<1>2. BehindInverse /\ BehindEncrypt /\ BehindDecrypt
  BY <1>1 DEF BehindInverse, BehindEncrypt, BehindDecrypt
<1>3. \A k \in DOMAIN M : M[k] \in Nat
  <2>1. M = [k \in DOMAIN C |-> InMips!Powmod(C[k], d, modN)]
    BY <1>2 DEF MipsRunInv, MipsMessageInv
  <2>2. ASSUME NEW k \in DOMAIN C PROVE InMips!Powmod(C[k], d, modN) \in MipsWords
    BY <1>2, <2>2, ComparableKeys, ComparableCipher, PowmodIsWord
  <2>3. MipsWords \subseteq Nat
    BY Sizes DEF MipsWords
  <2>4. QED BY <2>1, <2>2, <2>3
<1>4. [k \in DOMAIN decrypted' |-> InMips!SignedByte(decrypted'[k])]
        = [k \in DOMAIN M |-> InMips!CProgram!ToChar(M[k])]
  <2>1. DOMAIN decrypted' = DOMAIN M
    BY <1>1
  <2>2. ASSUME NEW k \in DOMAIN M PROVE InMips!SignedByte(decrypted'[k]) = InMips!CProgram!ToChar(M[k])
    <3>1. decrypted'[k] = M[k] % (2 * CharLimit) /\ M[k] \in Nat
      BY <1>1, <1>3
    <3>2. QED BY <3>1, CharOfWord
  <2>3. QED BY <2>1, <2>2
<1>5. QED BY <1>1, <1>4
          DEF InMips!CProgram!Int2Text, InMips!CProgram!Map, InMips!CProgram!input, InMips!CProgram!keys

(* No bytes are no chars.                                                   *)
LEMMA EmptyMapped == [k \in DOMAIN <<>> |-> InMips!SignedByte(<<>>[k])] = <<>>
OBVIOUS

(* The two programs begin alike.                                            *)
LEMMA SameInit == InMips!Init => InMips!CProgram!Init
<1>1. SUFFICES ASSUME InMips!Init PROVE InMips!CProgram!Init
  OBVIOUS
<1>2. [k \in DOMAIN decrypted |-> InMips!SignedByte(decrypted[k])] = <<>>
  BY <1>1, EmptyMapped DEF InMips!Init
<1>3. QED BY <1>1, <1>2 DEF InMips!Init, InMips!CProgram!Init

(* Every step on a comparable input is a step of C/main.c.                  *)
LEMMA SameNext ==
  ASSUME MipsRunInv, InMips!Comparable, InMips!Next
  PROVE  InMips!CProgram!Next
<1>1. CASE InMips!Text2Int
  BY <1>1, SameText2Int DEF InMips!CProgram!Next
<1>2. CASE InMips!GetP
  BY <1>2, SameGetP DEF InMips!CProgram!Next
<1>3. CASE InMips!GetQ
  BY <1>3, SameGetQ DEF InMips!CProgram!Next
<1>4. CASE InMips!Totient
  BY <1>4, SameTotient DEF InMips!CProgram!Next
<1>5. CASE InMips!PublicExp
  BY <1>5, SamePublicExp DEF InMips!CProgram!Next
<1>6. CASE InMips!Inverse
  BY <1>6, SameInverse DEF InMips!CProgram!Next
<1>7. CASE InMips!Encrypt
  BY <1>7, SameEncrypt DEF InMips!CProgram!Next
<1>8. CASE InMips!Decrypt
  BY <1>8, SameDecrypt DEF InMips!CProgram!Next
<1>9. CASE InMips!Int2Text
  BY <1>9, SameInt2Text DEF InMips!CProgram!Next
<1>10. QED
  BY <1>1, <1>2, <1>3, <1>4, <1>5, <1>6, <1>7, <1>8, <1>9 DEF InMips!Next

-------------------------------------------------------------------------------
ProgramsInv ==
  /\ program \in {"C", "MIPS", "frames"}
  /\ program = "C" => KeysInv /\ MessageInv
  /\ program = "MIPS" => MipsRunInv
  /\ program = "frames" => FramesInv

LEMMA InitPrograms == Init => ProgramsInv
BY InitKeys, InitMessage, InitMipsKeys, InitMipsMessage, InitMipsTable, InitFrames
   DEF Init, ProgramsInv, MipsRunInv

LEMMA NextPrograms == ProgramsInv /\ [Next]_vars => ProgramsInv'
<1>1. SUFFICES ASSUME ProgramsInv, [Next]_vars PROVE ProgramsInv'
  OBVIOUS
<1>2. CASE RunC
  BY <1>1, <1>2, NextKeys, NextMessage DEF ProgramsInv, RunC
<1>3. CASE RunMips
  BY <1>1, <1>3, NextMipsKeys, NextMipsMessage, NextMipsTable DEF ProgramsInv, RunMips, MipsRunInv
<1>4. CASE RunFrames
  BY <1>1, <1>4, NextFrames DEF ProgramsInv, RunFrames
<1>5. CASE UNCHANGED vars
  <2>1. /\ UNCHANGED Frames!vars /\ UNCHANGED main
        /\ program' = program /\ filled' = filled /\ primes0' = primes0 /\ hi' = hi /\ lo' = lo
    BY <1>5 DEF vars, machine, frames, Frames!vars
  <2>2. KeysInv => KeysInv'
    BY <2>1
    DEF main, KeysInv, BehindP, BehindQ, BehindTotient, BehindExponent, InTable, Sieved,
        InC!Candidates, InC!Sieves, InC!GetPrime
  <2>3. MipsKeysInv => MipsKeysInv'
    BY <2>1
    DEF main, MipsKeysInv, BehindP, BehindQ, BehindTotient, BehindExponent, MipsAnswers,
        IsPrime, Coprime, Divides
  <2>4. MessageInv => MessageInv'
    BY <2>1
    DEF main, MessageInv, BehindP, BehindQ, BehindTotient, BehindExponent, BehindInverse,
        BehindEncrypt, BehindDecrypt, InTable, InC!Map, InC!ToUnsigned
  <2>5. MipsMessageInv => MipsMessageInv'
    BY <2>1
    DEF main, MipsMessageInv, BehindP, BehindQ, BehindTotient, BehindExponent, BehindInverse,
        BehindEncrypt, BehindDecrypt, InMips!Line
  <2>6. MipsTableInv => MipsTableInv'
    BY <2>1 DEF main, MipsTableInv, BehindP, BehindQ, InMips!GetPrime, InMips!SievedBy
  <2>7. QED
    BY <1>1, <2>1, <2>2, <2>3, <2>4, <2>5, <2>6, NextFrames DEF ProgramsInv, MipsRunInv
<1>6. QED BY <1>1, <1>2, <1>3, <1>4, <1>5 DEF Next

(* What is known of every state of a run: the keys and the message of the   *)
(* program that runs, or the frames of the MIPS functions.                  *)
THEOREM ProgramsInvariant == Spec => []ProgramsInv
<1>1. QED BY InitPrograms, NextPrograms, PTL DEF Spec

(* On every pair of numbers of which one has the table sieved, publicExp    *)
(* finds an exponent below the totient and coprime to it in C, and a prime  *)
(* one in MIPS, where the table may even be unfilled.                       *)
THEOREM ExponentIsFound == Spec => []ExponentFound
<1>1. ProgramsInv => ExponentFound
  BY KeysInvGivesCauses, MipsKeysInvGivesExponent DEF ProgramsInv, MipsRunInv, ExponentFound
<1>2. QED BY <1>1, ProgramsInvariant, PTL

(* The C program divides by zero only on a number beyond the table, or on   *)
(* a table that neither call of getprime has sieved.                        *)
THEOREM TrapsHaveCauses == Spec => []TrapCauses
<1>1. ProgramsInv => TrapCauses
  BY KeysInvGivesCauses DEF ProgramsInv, TrapCauses
<1>2. QED BY <1>1, ProgramsInvariant, PTL

(* jr $ra goes back behind the jal, however deep the calls are nested and   *)
(* however often the loops of publicExp and encrypt call: the $ra a         *)
(* function pops is the one it pushed.                                      *)
THEOREM FunctionsReturn == Spec => []ReturnsToCaller
<1>1. ProgramsInv => ReturnsToCaller
  BY FramesInvGivesReturn DEF ProgramsInv, ReturnsToCaller
<1>2. QED BY <1>1, ProgramsInvariant, PTL

(* A function leaves $s0-$s7 and $sp as it found them, and the length of    *)
(* the message is still in $t7 when main reads it behind publicExp and      *)
(* inverse, although neither they nor gcd save it.                          *)
THEOREM RegistersAreKept == Spec => []CallerStateKept
<1>1. ProgramsInv => CallerStateKept
  BY FramesInvGivesReturn DEF ProgramsInv, CallerStateKept
<1>2. QED BY <1>1, ProgramsInvariant, PTL

(* With usable keys each program decrypts what it encrypted to what was     *)
(* typed in, the terminating 0 included: for every two different primes of  *)
(* the table, every text of chars or line of bytes and every word size, the *)
(* loops of inverse and powmod undo each other by Fermat's theorem.         *)
THEOREM MessageComesBack == Spec => []RoundTrip
<1>1. ProgramsInv => RoundTrip
  BY RoundTripOfC, RoundTripOfMips DEF ProgramsInv, MipsRunInv, RoundTrip
<1>2. QED BY <1>1, ProgramsInvariant, PTL

(* rsa.s implements C/main.c, as test_rsa asserts: on every comparable      *)
(* input every step of the one, with its table, is a step of the other with *)
(* the smaller table of C, the bytes read as signed chars.                  *)
THEOREM MipsRefinesC == Spec => SameAsC
<1> DEFINE A == program = "MIPS" /\ InMips!Comparable => InMips!CProgram!Init
           B == program = "MIPS" /\ InMips!Comparable => InMips!CProgram!Next
<1>1. Init => A
  BY SameInit DEF Init
<1>2. ProgramsInv /\ [Next]_vars => [B]_vars
  <2>1. SUFFICES ASSUME ProgramsInv, Next, program = "MIPS", InMips!Comparable PROVE InMips!CProgram!Next
    OBVIOUS
  <2>2. InMips!Next
    BY <2>1 DEF Next, RunC, RunMips, RunFrames
  <2>3. QED BY <2>1, <2>2, SameNext DEF ProgramsInv
<1>3. Spec => A /\ [][B]_vars
  <2> HIDE DEF A, B
  <2>1. QED BY <1>1, <1>2, ProgramsInvariant, PTL DEF Spec
<1>4. QED BY <1>3 DEF SameAsC
===============================================================================
