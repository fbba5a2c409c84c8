------------------------------ MODULE RunLoopProofs ------------------------------
(***************************************************************************)
(* Breakpoints survive everything run_spim and the user can do, step n     *)
(* executes n instructions, the handler gets every exception and returns   *)
(* behind it, and calls and addresses are bounded, for every program,      *)
(* interval and number of commands.                                        *)
(***************************************************************************)
EXTENDS RunLoop, TLAPS

(* The breakpoint that has been taken out of memory to be stepped over. *)
TakenOut == IF job.over # 0 /\ job.over \notin broken THEN {job.over} ELSE {}

(* Why the list is right at the prompt: during a command it is what the user *)
(* asked for, but for the breakpoint that is stepped over.                   *)
BkptInv ==
  /\ program \in Programs
  /\ DOMAIN job = {"over", "rest", "asked"}
  /\ bkpts \subseteq broken
  /\ wanted \ lost = bkpts \cup TakenOut
  /\ 0 \notin wanted
  /\ job.over \notin bkpts
  /\ phase = "top" => job.over = 0
  /\ \A a \in broken \ bkpts : Loaded(a).op = "none"

-------------------------------------------------------------------------------
(* What is loaded depends on nothing a command or a step changes. *)
LEMMA OpKept ==
  ASSUME program' = program, NEW a
  PROVE  Loaded(a)'.op = Loaded(a).op
<1>1. CASE a % Word # 0
  <2>1. Loaded(a) = [op |-> "misaligned", to |-> 0] /\ Loaded(a)' = [op |-> "misaligned", to |-> 0]
    BY <1>1, Zenon DEF Loaded
  <2>2. QED BY <2>1
<1>2. CASE a % Word = 0 /\ a \div Word \in DOMAIN program
  <2>1. Loaded(a) = program[a \div Word]
    BY <1>2, Zenon DEF Loaded
  <2>2. a \div Word \in DOMAIN program'
    BY <1>2
  <2>3. Loaded(a)' = program'[a \div Word]
    BY <1>2, <2>2, Zenon DEF Loaded
  <2>4. QED BY <2>1, <2>3
<1>3. CASE a % Word = 0 /\ a \div Word \notin DOMAIN program /\ HandlerOffset(a) \in DOMAIN HandlerText
  <2>1. /\ Loaded(a) = [op |-> HandlerText[HandlerOffset(a)], to |-> EPC]
        /\ Loaded(a)' = [op |-> HandlerText[HandlerOffset(a)], to |-> EPC']
    BY <1>3, Zenon DEF Loaded
  <2>2. QED BY <2>1
<1>4. CASE a % Word = 0 /\ a \div Word \notin DOMAIN program /\ HandlerOffset(a) \notin DOMAIN HandlerText
  <2>1. Loaded(a) = [op |-> "none", to |-> 0] /\ Loaded(a)' = [op |-> "none", to |-> 0]
    BY <1>4, Zenon DEF Loaded
  <2>2. QED BY <2>1
<1>5. QED BY <1>1, <1>2, <1>3, <1>4

(* There is no instruction at address 0. *)
LEMMA NothingAtZero ==
  ASSUME program \in Programs
  PROVE  Loaded(0).op = "none"
<1>0. /\ program \in Seq([op : Ops, to : Nat]) /\ 2 * Len(program) + 2 < EXCEPTION_ADDR
      /\ EXCEPTION_ADDR \in Nat /\ EXCEPTION_ADDR % 2 = 0
  BY RunLoopAssumption DEF Word
<1>1. EXCEPTION_ADDR \in Nat /\ EXCEPTION_ADDR % 2 = 0 /\ EXCEPTION_ADDR > 2 /\ 0 \notin DOMAIN program
  <2>1. Len(program) \in Nat /\ DOMAIN program = 1..Len(program)
    BY <1>0
  <2>2. QED BY <1>0, <2>1
<1>2. 0 % 2 = 0 /\ 0 \div 2 = 0
  OBVIOUS
<1>4. HandlerOffset(0) <= 0
  BY <1>1 DEF HandlerOffset, Word
<1>5. HandlerOffset(0) \notin DOMAIN HandlerText
  BY <1>4 DEF HandlerText
<1>6. QED BY <1>1, <1>2, <1>5 DEF Loaded, Word

LEMMA InitBkptInv == Init => BkptInv
BY DEF Init, BkptInv, TakenOut, Idle

(* A step that leaves the breakpoints and the call of run_program alone. *)
LEMMA Untouched ==
  ASSUME BkptInv, UNCHANGED <<options, points, job>>, phase' # "top" \/ phase = "top"
  PROVE  BkptInv'
<1>1. program' = program
  BY DEF options
<1>2. \A a \in broken \ bkpts : Loaded(a)'.op = "none"
  BY <1>1, OpKept DEF BkptInv
<1>3. QED BY <1>2 DEF BkptInv, TakenOut, options, points

LEMMA NextBkptInv == BkptInv /\ [Next]_vars => BkptInv'
<1>1. SUFFICES ASSUME BkptInv, [Next]_vars PROVE BkptInv'
  OBVIOUS
<1> USE DEF session
<1>2. CASE Poll
  BY <1>1, <1>2, Untouched DEF Poll
<1>3. CASE FetchFault
  BY <1>1, <1>3, Untouched DEF FetchFault, EndIteration
<1>4. CASE LongJump
  <2>1. program' = program /\ broken' = broken /\ bkpts' = bkpts /\ wanted' = wanted
        /\ lost' = lost \cup ({job.over} \cap wanted) /\ job' = Idle
    BY <1>4 DEF LongJump, options
  <2>2. \A a \in broken \ bkpts : Loaded(a)'.op = "none"
    BY <1>1, <2>1, OpKept DEF BkptInv
  <2>3. wanted' \ lost' = bkpts'
    BY <1>1, <2>1 DEF BkptInv, TakenOut
  <2>4. QED BY <1>1, <2>1, <2>2, <2>3 DEF BkptInv, TakenOut, Idle
<1>5. CASE After
  BY <1>1, <1>5, Untouched DEF After, EndIteration
<1>6. CASE Plain \/ Fault \/ Enable \/ Check \/ Bump \/ ClearCause \/ Exit \/ Break
  BY <1>1, <1>6, Untouched DEF Plain, Fault, Enable, Check, Bump, ClearCause, Exit, Break, control
<1>7. CASE Jump \/ Eret
  BY <1>1, <1>7, Untouched DEF Jump, Eret, Executing, JumpTo
<1>8. CASE ReturnFromSlot
  BY <1>1, <1>8, Untouched DEF ReturnFromSlot
<1>9. CASE ReturnFromOver
  <2>1. /\ program' = program /\ wanted' = wanted /\ lost' = lost
        /\ job.over # 0 /\ job'.over = 0 /\ DOMAIN job' = DOMAIN job /\ phase' = "poll"
        /\ bkpts' = IF job.over \in broken THEN bkpts ELSE bkpts \cup {job.over}
        /\ broken' = broken \cup {job.over}
    BY <1>1, <1>9 DEF ReturnFromOver, options, BkptInv
  <2>2. \A a \in broken' \ bkpts' : Loaded(a)'.op = "none"
    BY <1>1, <2>1, OpKept DEF BkptInv
  <2>3. wanted' \ lost' = bkpts' /\ 0 \notin bkpts'
    BY <1>1, <2>1 DEF BkptInv, TakenOut
  <2>4. QED BY <1>1, <2>1, <2>2, <2>3 DEF BkptInv, TakenOut
<1>10. CASE ReturnToTop
  BY <1>1, <1>10, OpKept DEF ReturnToTop, BkptInv, TakenOut, Idle, points, options
<1>11. CASE Run
  BY <1>1, <1>11, Untouched DEF Run
<1>12. ASSUME NEW n, Resume(n) PROVE BkptInv'
  <2> DEFINE at == IF PC = 0 THEN Start ELSE PC
  <2>1. /\ phase = "top" /\ phase' = "poll"
        /\ program' = program /\ wanted' = wanted /\ lost' = lost
        /\ job' = [over |-> IF at \in broken THEN at ELSE 0, rest |-> Minus(n, 1), asked |-> n]
        /\ IF at \in broken /\ at \in bkpts THEN broken' = broken \ {at} /\ bkpts' = bkpts \ {at}
                                            ELSE broken' = broken /\ bkpts' = bkpts
    BY <1>12 DEF Resume, options
  <2>2. at # 0
    BY DEF Start, Word
  <2> HIDE DEF at
  <2>3. \A a \in broken' \ bkpts' : Loaded(a)'.op = "none"
    BY <1>1, <2>1, OpKept DEF BkptInv
  <2>4. wanted \ lost = bkpts /\ bkpts \subseteq broken /\ 0 \notin bkpts
    BY <1>1, <2>1 DEF BkptInv, TakenOut
  <2>5. DOMAIN job' = {"over", "rest", "asked"}
    BY <2>1
  <2>6. CASE at \in bkpts
    <3>1. job'.over = at /\ broken' = broken \ {at} /\ bkpts' = bkpts \ {at}
      BY <2>1, <2>4, <2>6
    <3>2. QED BY <1>1, <2>1, <2>2, <2>3, <2>4, <2>5, <2>6, <3>1 DEF BkptInv, TakenOut
  <2>7. CASE at \notin bkpts
    <3>1. job'.over = (IF at \in broken THEN at ELSE 0) /\ broken' = broken /\ bkpts' = bkpts
      BY <2>1, <2>7
    <3>2. QED BY <1>1, <2>1, <2>2, <2>3, <2>4, <2>5, <2>7, <3>1 DEF BkptInv, TakenOut
  <2>8. QED BY <2>6, <2>7
<1>13. CASE AddBreakpoint
  <2>1. PICK a \in BreakAddrs \ broken :
          /\ broken' = broken \cup {a}
          /\ \/ /\ Loaded(a).op # "none"
                /\ bkpts' = bkpts \cup {a} /\ wanted' = wanted \cup {a} /\ lost' = lost \ {a}
             \/ /\ Loaded(a).op = "none"
                /\ UNCHANGED <<bkpts, wanted, lost>>
    BY <1>13 DEF AddBreakpoint
  <2>2. phase = "top" /\ phase' = phase /\ job' = job /\ program' = program
    BY <1>13 DEF AddBreakpoint, control, options
  <2>3. \A c \in broken' \ bkpts' : Loaded(c)'.op = "none"
    BY <1>1, <2>1, <2>2, OpKept DEF BkptInv
  <2>4. 0 \notin wanted'
    BY <1>1, <2>1, NothingAtZero DEF BkptInv
  <2>5. QED BY <1>1, <2>1, <2>2, <2>3, <2>4 DEF BkptInv, TakenOut
<1>14. CASE DeleteBreakpoint
  <2>1. PICK a \in bkpts \cup lost :
          /\ broken' = broken \ (bkpts \cap {a}) /\ bkpts' = bkpts \ {a}
          /\ wanted' = wanted \ {a} /\ lost' = lost \ {a}
    BY <1>14 DEF DeleteBreakpoint
  <2>2. phase = "top" /\ phase' = phase /\ job' = job /\ program' = program
    BY <1>14 DEF DeleteBreakpoint, control, options
  <2>3. \A c \in broken' \ bkpts' : Loaded(c)'.op = "none"
    BY <1>1, <2>1, <2>2, OpKept DEF BkptInv
  <2>4. QED BY <1>1, <2>1, <2>2, <2>3 DEF BkptInv, TakenOut
<1>15. CASE Tick
  BY <1>1, <1>15, Untouched DEF Tick, control
<1>16. CASE UNCHANGED vars
  BY <1>1, <1>16, Untouched DEF vars, control
<1>17. QED
  BY <1>1, <1>2, <1>3, <1>4, <1>5, <1>6, <1>7, <1>8, <1>9, <1>10, <1>11, <1>12, <1>13, <1>14, <1>15, <1>16
  DEF Next, Simulate, Command, FetchNone, ControlC, Continue, Step

(* Whatever programs, exceptions, interrupts and the user do, at the prompt *)
(* the breakpoints are the ones that were asked for, but for those a jump   *)
(* to the top level cut off, and no instruction is hidden by a break that   *)
(* is not in the list.                                                      *)
THEOREM BreakpointsAreKept == Spec => []BreakpointsKept
<1>1. BkptInv => BreakpointsKept
  BY DEF BkptInv, BreakpointsKept, TakenOut
<1>2. QED
  BY InitBkptInv, NextBkptInv, <1>1, PTL DEF Spec

(* No instruction under a breakpoint is executed, except where a command    *)
(* starts: it is a break that is read there.                                *)
THEOREM BreakpointsStop == Spec => StopsAtBreakpoints
<1> DEFINE Stops == phase = "step" /\ phase' \in {"after", "poll"} /\ PC \in wanted \ lost => job.over = PC
<1>1. BkptInv /\ [Next]_vars => [Stops]_vars
  <2>1. SUFFICES ASSUME BkptInv, [Next]_vars, phase = "step", phase' \in {"after", "poll"},
                        PC \in wanted \ lost, job.over # PC
                 PROVE  FALSE
    OBVIOUS
  <2>2. PC \in broken
    BY <2>1 DEF BkptInv, TakenOut
  <2>3. read_mem_inst(PC).op = "break"
    BY <2>2 DEF read_mem_inst
  <2>4. QED
    BY <2>1, <2>3 DEF Next, Simulate, Command, Poll, FetchFault, FetchNone, After, Plain, Fault, Enable,
      Check, Bump, ClearCause, Jump, Eret, Exit, Break, ReturnFromSlot, ReturnFromOver, ReturnToTop,
      Returning, Executing, LongJump, Run, Continue, Step, Resume, AddBreakpoint, DeleteBreakpoint,
      Tick, ControlC, vars, control
<1>2. QED
  BY InitBkptInv, NextBkptInv, <1>1, PTL DEF Spec, StopsAtBreakpoints

-------------------------------------------------------------------------------
(* Steps.  An instruction is counted where it is executed, and taken from   *)
(* the steps left where the PC is moved on behind it, which may be long     *)
(* after: the instruction in its delay slot comes in between.               *)
Counts == 0..Forever
Calls == [steps : Counts, left : Counts, target : Int]

FramesTyped ==
  /\ program \in Programs /\ mapped_io \in BOOLEAN
  /\ PC \in Int /\ EPC \in Int
  /\ phase \in {"top", "poll", "step", "after", "return"}
  /\ frames \in Seq(Calls) /\ (phase = "top") = (Len(frames) = 0)
  /\ phase = "poll" => Top.left = 0
  /\ phase \in {"step", "after", "return"} => Top.left > 0
  /\ \A i \in 1..(Len(frames) - 1) : frames[i].left > 0

InFlight == IF phase \in {"after", "return"} \/ Len(frames) > 1 THEN 1 ELSE 0
Remaining == frames[1].steps + frames[1].left

StepInv ==
  /\ FramesTyped
  /\ job \in [over : Int, rest : Counts, asked : Counts] /\ count \in Nat
  /\ phase = "top" => job = Idle /\ count = 0
  /\ phase # "top" /\ job.asked # Forever =>
       /\ count + Remaining - InFlight = (IF job.over # 0 THEN 1 ELSE job.asked)
       /\ count >= InFlight
       /\ job.over # 0 => job.rest = job.asked - 1

-------------------------------------------------------------------------------
LEMMA ForeverIsLarge == Forever \in Nat /\ Forever > 1 /\ IO_INTERVAL \in 1..(Forever - 1)
BY RunLoopAssumption DEF Forever

LEMMA FrameTyped ==
  ASSUME NEW n \in Counts, NEW t \in Int
  PROVE  Frame(n, t) \in Calls /\ Frame(n, t).steps = n /\ Frame(n, t).left = 0
BY ForeverIsLarge DEF Frame, Calls, Counts

LEMMA TopTyped ==
  ASSUME frames \in Seq(Calls), Len(frames) > 0
  PROVE  /\ Top \in Calls /\ frames[1] \in Calls /\ Remaining \in Nat
         /\ Len(frames) = 1 \/ (Len(frames) # 1 /\ Len(frames) > 1)
<1>1. Top \in Calls /\ frames[1] \in Calls
  BY DEF Top
<1>2. frames[1].steps \in Nat /\ frames[1].left \in Nat
  BY <1>1, ForeverIsLarge DEF Calls, Counts
<1>3. Remaining \in Nat
  BY <1>2 DEF Remaining
<1>4. Len(frames) = 1 \/ (Len(frames) # 1 /\ Len(frames) > 1)
  <2>1. Len(frames) \in Nat /\ Len(frames) > 0
    OBVIOUS
  <2>2. \A n \in Nat : n > 0 => n = 1 \/ (n # 1 /\ n > 1)
    OBVIOUS
  <2>3. QED BY <2>1, <2>2, Zenon
<1>5. QED BY <1>1, <1>3, <1>4

(* The top frame with other steps. *)
LEMMA TopSet ==
  ASSUME frames \in Seq(Calls), Len(frames) > 0, NEW m \in Counts, NEW n \in Counts, SetTop(m, n)
  PROVE  /\ frames' \in Seq(Calls) /\ Len(frames') = Len(frames) /\ Top'.steps = m /\ Top'.left = n
         /\ \A i \in 1..(Len(frames) - 1) : frames'[i] = frames[i]
<1> DEFINE f == [steps |-> m, left |-> n, target |-> Top.target]
<1>1. f \in Calls
  BY TopTyped DEF Calls
<1>2. frames' = [frames EXCEPT ![Len(frames)] = f]
  BY DEF SetTop
<1> HIDE DEF f
<1>3. /\ frames' \in Seq(Calls) /\ Len(frames') = Len(frames) /\ Top' = f
      /\ \A i \in 1..(Len(frames) - 1) : frames'[i] = frames[i]
  BY <1>1, <1>2 DEF Top
<1>4. QED BY <1>3 DEF f

LEMMA InitStepInv == Init => StepInv
<1>1. SUFFICES ASSUME Init PROVE StepInv
  OBVIOUS
<1>2. frames \in Seq(Calls) /\ Len(frames) = 0
  BY <1>1 DEF Init
<1>3. QED BY <1>1, <1>2, ForeverIsLarge DEF Init, StepInv, FramesTyped, Idle, Counts

(* A step of a command is not for ever, and no more than was asked for.     *)
LEMMA NotForever ==
  ASSUME StepInv, phase # "top", job.asked # Forever
  PROVE  frames[1].steps \in 0..(Forever - 1) /\ frames[1].left \in 0..(Forever - 1)
<1>1. frames \in Seq(Calls) /\ Len(frames) > 0
  BY DEF StepInv, FramesTyped
<1>2. frames[1] \in Calls
  BY <1>1
<1>3. frames[1].steps \in Nat /\ frames[1].left \in Nat
  BY <1>2, ForeverIsLarge DEF Calls, Counts
<1>4. job.asked \in 0..(Forever - 1) /\ count \in Nat /\ InFlight \in {0, 1}
  BY ForeverIsLarge DEF StepInv, Counts, InFlight
<1>5. count + (frames[1].steps + frames[1].left) - InFlight <= Forever - 1 /\ count >= InFlight
  BY <1>4, ForeverIsLarge DEF StepInv, Remaining
<1>6. QED BY <1>3, <1>4, <1>5, ForeverIsLarge

(* What stays as it is where frames and counters do.                         *)
LEMMA StepsUntouched ==
  ASSUME StepInv, UNCHANGED <<program, mapped_io, PC, EPC, phase, frames, job, count>>
  PROVE  StepInv'
BY DEF StepInv, FramesTyped, InFlight, Remaining, Top

LEMMA RecordTyped ==
  ASSUME PC \in Int, EPC \in Int, NEW code, RecordException(code)
  PROVE  EPC' \in Int /\ EXCEPTION_ADDR \in Int
<1>1. EPC' = (IF EXL THEN EPC ELSE RoundDown(IF running_in_delay_slot THEN PC - 2 ELSE PC))
  BY DEF RecordException, Word
<1>2. \A a \in Int : RoundDown(a) \in Int
  BY DEF RoundDown, Word
<1>3. PC - 2 \in Int /\ EXCEPTION_ADDR \in Int
  BY RunLoopAssumption
<1>4. QED BY <1>1, <1>2, <1>3

LEMMA PollSteps ==
  ASSUME StepInv, Poll
  PROVE  StepInv'
<1> DEFINE size == InnerSteps(Top.steps)
<1>1. /\ frames \in Seq(Calls) /\ Len(frames) > 0 /\ phase = "poll" /\ Top.left = 0
      /\ mapped_io \in BOOLEAN /\ Top.steps > 0
  BY DEF Poll, StepInv, FramesTyped
<1>2. Top \in Calls /\ Top.steps \in 1..Forever
  <2>1. Top \in Calls
    BY <1>1, TopTyped
  <2>2. QED BY <1>1, <2>1, ForeverIsLarge DEF Calls, Counts
<1>3. size \in 1..Forever /\ size <= Top.steps
  BY <1>1, <1>2, ForeverIsLarge DEF InnerSteps, Least
<1>4. size \in Counts /\ Minus(Top.steps, size) \in Counts
  BY <1>2, <1>3, ForeverIsLarge DEF Counts, Minus
<1>6. SetTop(Minus(Top.steps, size), size) /\ phase' = "step" /\ UNCHANGED <<program, mapped_io, job, count>>
  BY DEF Poll, session, options
<1>7. PC' \in Int /\ EPC' \in Int
  <2>1. PC \in Int /\ EPC \in Int
    BY DEF StepInv, FramesTyped
  <2>2. CASE RecordException("Int") /\ handle_exception
    BY <2>1, <2>2, RecordTyped DEF handle_exception
  <2>3. CASE UNCHANGED <<EPC, PC>>
    BY <2>1, <2>3
  <2>4. QED BY <2>2, <2>3 DEF Poll
<1> HIDE DEF size
<1>8. /\ frames' \in Seq(Calls) /\ Len(frames') = Len(frames)
      /\ Top'.steps = Minus(Top.steps, size) /\ Top'.left = size
      /\ \A i \in 1..(Len(frames) - 1) : frames'[i] = frames[i]
  BY <1>1, <1>4, <1>6, TopSet
<1>9. FramesTyped'
  BY <1>1, <1>3, <1>6, <1>7, <1>8 DEF StepInv, FramesTyped
<1>10. ASSUME job.asked # Forever PROVE Remaining' = Remaining
  <2>1. CASE Len(frames) > 1
    BY <1>8, <2>1 DEF Remaining
  <2>2. CASE Len(frames) = 1
    <3>1. Top = frames[1] /\ Top' = frames'[1]
      BY <1>8, <2>2 DEF Top
    <3>2. Top.steps \in 1..(Forever - 1)
      BY <1>1, <1>2, <1>10, <3>1, NotForever
    <3>3. Top'.steps + Top'.left = Top.steps
      BY <1>3, <1>8, <3>2, ForeverIsLarge DEF Minus
    <3>4. QED BY <1>1, <1>8, <3>1, <3>2, <3>3 DEF Remaining
  <2>3. QED BY <1>1, <2>1, <2>2, TopTyped
<1>11. InFlight' = InFlight
  BY <1>1, <1>6, <1>8 DEF InFlight
<1>12. QED BY <1>1, <1>6, <1>9, <1>10, <1>11 DEF StepInv

(* The end of an iteration, behind an instruction that ran or could not be   *)
(* read.                                                                     *)
LEMMA EndIterationSteps ==
  ASSUME StepInv, phase \in {"step", "after"}, EndIteration, PC' \in Int, EPC' \in Int,
         UNCHANGED <<program, mapped_io, job>>,
         IF phase = "step" THEN Counted ELSE count' = count
  PROVE  StepInv'
<1>1. /\ frames \in Seq(Calls) /\ Len(frames) > 0 /\ Top.left > 0
  BY DEF StepInv, FramesTyped
<1>2. Top \in Calls /\ Top.left \in 1..Forever /\ Top.steps \in Counts
  <2>1. Top \in Calls
    BY <1>1, TopTyped
  <2>2. QED BY <1>1, <2>1, ForeverIsLarge DEF Calls, Counts
<1>3. Minus(Top.left, 1) \in Counts
  BY <1>2, ForeverIsLarge DEF Counts, Minus
<1>6. SetTop(Top.steps, Minus(Top.left, 1)) /\ phase' = IF Top.left = 1 THEN "poll" ELSE "step"
  BY DEF EndIteration
<1>7. /\ frames' \in Seq(Calls) /\ Len(frames') = Len(frames)
      /\ Top'.steps = Top.steps /\ Top'.left = Minus(Top.left, 1)
      /\ \A i \in 1..(Len(frames) - 1) : frames'[i] = frames[i]
  BY <1>1, <1>2, <1>3, <1>6, TopSet
<1>8. FramesTyped'
  BY <1>1, <1>2, <1>6, <1>7, ForeverIsLarge DEF StepInv, FramesTyped, Minus
<1>9. count' \in Nat
  BY DEF Counted, StepInv
<1>10. ASSUME job.asked # Forever
       PROVE  count' + Remaining' - InFlight' = count + Remaining - InFlight /\ count' >= InFlight'
  <2>1. CASE Len(frames) > 1
    <3>1. count' = count /\ Remaining' = Remaining /\ InFlight' = 1 /\ InFlight = 1
      BY <1>7, <2>1 DEF Counted, Remaining, InFlight
    <3>2. QED BY <1>1, <1>10, <3>1 DEF StepInv, FramesTyped
  <2>2. CASE Len(frames) = 1
    <3>1. Top = frames[1] /\ Top' = frames'[1]
      BY <1>7, <2>2 DEF Top
    <3>2. phase # "top"
      BY DEF StepInv
    <3>3. Top.left \in 1..(Forever - 1) /\ Top.steps \in 0..(Forever - 1)
      BY <1>2, <1>10, <3>1, <3>2, NotForever
    <3>4. Top'.steps + Top'.left = (Top.steps + Top.left) - 1
      BY <1>7, <3>3, ForeverIsLarge DEF Minus
    <3>5. InFlight' = 0 /\ InFlight = (IF phase = "after" THEN 1 ELSE 0)
      BY <1>6, <1>7, <2>2 DEF InFlight
    <3>6. count' = (IF phase = "after" THEN count ELSE count + 1) /\ count \in Nat
      BY <1>10, <2>2 DEF Counted, StepInv
    <3>7. Remaining' = Remaining - 1 /\ Remaining \in Nat
      <4>1. Remaining = Top.steps + Top.left /\ Remaining' = Top'.steps + Top'.left
        BY <3>1 DEF Remaining
      <4>2. Top.steps + Top.left \in Nat
        BY <3>3, ForeverIsLarge
      <4>3. QED BY <3>4, <4>1, <4>2, Zenon
    <3>8. QED BY <1>9, <3>5, <3>6, <3>7
  <2>3. QED BY <1>1, <2>1, <2>2, TopTyped
<1>11. phase # "top" /\ phase' # "top"
  BY <1>6
<1>12. QED BY <1>8, <1>9, <1>10, <1>11 DEF StepInv

(* An instruction that is executed.                                          *)
LEMMA ExecuteSteps ==
  ASSUME StepInv, phase = "step", Counted, phase' \in {"after", "return"}, PC' \in Int, EPC' \in Int,
         UNCHANGED <<program, mapped_io, frames, job>>
  PROVE  StepInv'
<1>1. frames \in Seq(Calls) /\ Len(frames) > 0 /\ count \in Nat /\ Top' = Top /\ Remaining' = Remaining
  BY DEF StepInv, FramesTyped, Top, Remaining
<1>2. FramesTyped'
  BY <1>1 DEF StepInv, FramesTyped
<1>3. InFlight' = 1 /\ InFlight = (IF Len(frames) > 1 THEN 1 ELSE 0)
  BY DEF InFlight
<1>4. count' \in Nat /\ (job.asked # Forever => count' = IF Len(frames) = 1 THEN count + 1 ELSE count)
  BY <1>1 DEF Counted
<1>5. ASSUME job.asked # Forever
      PROVE  count' + Remaining' - InFlight' = count + Remaining - InFlight /\ count' >= InFlight'
  <2>1. Remaining \in Nat
    BY <1>1, TopTyped
  <2>2. count >= InFlight
    BY <1>5 DEF StepInv
  <2>3. CASE Len(frames) = 1
    <3>1. count' = count + 1 /\ count \in Nat
      BY <1>1, <1>4, <1>5, <2>3
    <3>2. InFlight = 0 /\ InFlight' = 1 /\ Remaining' = Remaining
      BY <1>1, <1>3, <2>3
    <3>3. QED BY <2>1, <3>1, <3>2
  <2>4. CASE Len(frames) # 1 /\ Len(frames) > 1
    BY <1>1, <1>3, <1>4, <1>5, <2>1, <2>2, <2>4
  <2>5. QED BY <1>1, <2>3, <2>4, TopTyped
<1>6. QED BY <1>2, <1>4, <1>5 DEF StepInv

(* A jump, whose delay slot is a call of run_spim.                           *)
LEMMA JumpSteps ==
  ASSUME StepInv, phase = "step", Counted, NEW target \in Int, JumpTo(target), EPC' \in Int,
         UNCHANGED <<program, mapped_io, job>>
  PROVE  StepInv'
<1>1. CASE ~delayed_branches
  BY <1>1, ExecuteSteps DEF JumpTo, Word
<1>2. CASE delayed_branches
  <2>1. /\ PC' = PC + Word /\ phase' = "poll" /\ frames' = Append(frames, Frame(1, target))
    BY <1>2 DEF JumpTo
  <2>2. Frame(1, target) \in Calls /\ Frame(1, target).left = 0
    BY FrameTyped, ForeverIsLarge DEF Counts
  <2>3. frames \in Seq(Calls) /\ Len(frames) > 0 /\ count \in Nat /\ PC' \in Int
    BY <2>1 DEF StepInv, FramesTyped, Word
  <2>4. /\ frames' \in Seq(Calls) /\ Len(frames') = Len(frames) + 1 /\ Top' = Frame(1, target)
        /\ \A i \in 1..Len(frames) : frames'[i] = frames[i]
    BY <2>1, <2>2, <2>3 DEF Top
  <2>5. \A i \in 1..Len(frames) : frames[i].left > 0
    BY <2>3 DEF StepInv, FramesTyped, Top
  <2>6. FramesTyped'
    BY <2>1, <2>2, <2>3, <2>4, <2>5 DEF StepInv, FramesTyped
  <2>7. Remaining' = Remaining /\ InFlight' = 1 /\ InFlight = (IF Len(frames) > 1 THEN 1 ELSE 0)
    BY <2>3, <2>4 DEF Remaining, InFlight
  <2>8. count' \in Nat /\ (job.asked # Forever => count' = IF Len(frames) = 1 THEN count + 1 ELSE count)
    BY <2>3 DEF Counted
  <2>9. ASSUME job.asked # Forever
        PROVE  count' + Remaining' - InFlight' = count + Remaining - InFlight /\ count' >= InFlight'
    <3>1. Remaining \in Nat
      BY <2>3, TopTyped
    <3>2. count >= InFlight
      BY <2>9 DEF StepInv
    <3>3. CASE Len(frames) = 1
      <4>1. count' = count + 1 /\ count \in Nat
        BY <2>3, <2>8, <2>9, <3>3
      <4>2. InFlight = 0 /\ InFlight' = 1 /\ Remaining' = Remaining
        BY <2>7, <3>3
      <4>3. QED BY <3>1, <4>1, <4>2
    <3>4. CASE Len(frames) # 1 /\ Len(frames) > 1
      BY <2>3, <2>7, <2>8, <2>9, <3>1, <3>2, <3>4
    <3>5. QED BY <2>3, <3>3, <3>4, TopTyped
  <2>10. QED BY <2>1, <2>6, <2>8, <2>9 DEF StepInv
<1>3. QED BY <1>1, <1>2

(* A jump of a program, or one that is read from memory, has a target.       *)
LEMMA TargetTyped ==
  ASSUME program \in Programs, read_mem_inst(PC).op = "jump"
  PROVE  read_mem_inst(PC).to \in Int
<1>1. program \in Seq([op : Ops, to : Nat])
  BY RunLoopAssumption
<1>2. read_mem_inst(PC) = Loaded(PC)
  BY DEF read_mem_inst
<1>3. CASE PC % Word # 0
  <2>1. Loaded(PC) = [op |-> "misaligned", to |-> 0]
    BY <1>3, Zenon DEF Loaded
  <2>2. QED BY <1>2, <2>1
<1>4. CASE PC % Word = 0 /\ PC \div Word \in DOMAIN program
  <2>1. Loaded(PC) = program[PC \div Word]
    BY <1>4, Zenon DEF Loaded
  <2> DEFINE S == [op : Ops, to : Nat]
             i == PC \div Word
  <2>2. program \in Seq(S) /\ i \in DOMAIN program
    BY <1>1, <1>4
  <2>3. S = [op : Ops, to : Nat]
    OBVIOUS
  <2>4. Loaded(PC) = program[i]
    BY <2>1
  <2> HIDE DEF S, i
  <2>5. program[i] \in S
    BY <2>2
  <2>6. program[i].to \in Nat
    BY <2>3, <2>5
  <2>7. QED BY <1>2, <2>4, <2>6
<1>5. CASE PC % Word = 0 /\ PC \div Word \notin DOMAIN program /\ HandlerOffset(PC) \in DOMAIN HandlerText
  <2>1. Loaded(PC) = [op |-> HandlerText[HandlerOffset(PC)], to |-> EPC]
    BY <1>5, Zenon DEF Loaded
  <2>2. HandlerText[HandlerOffset(PC)] # "jump"
    BY <1>5 DEF HandlerText
  <2>3. QED BY <1>2, <2>1, <2>2
<1>6. CASE PC % Word = 0 /\ PC \div Word \notin DOMAIN program /\ HandlerOffset(PC) \notin DOMAIN HandlerText
  <2>1. Loaded(PC) = [op |-> "none", to |-> 0]
    BY <1>6, Zenon DEF Loaded
  <2>2. QED BY <1>2, <2>1
<1>7. QED BY <1>3, <1>4, <1>5, <1>6

(* The call for a delay slot is over. *)
LEMMA SlotSteps ==
  ASSUME StepInv, ReturnFromSlot
  PROVE  StepInv'
<1>1. /\ frames \in Seq(Calls) /\ Len(frames) > 1 /\ phase' = "after"
      /\ frames' = SubSeq(frames, 1, Len(frames) - 1)
      /\ UNCHANGED <<program, mapped_io, EPC, job, count>>
  BY DEF ReturnFromSlot, StepInv, FramesTyped, session, options, cp0
<1>2. /\ frames' \in Seq(Calls) /\ Len(frames') = Len(frames) - 1
      /\ \A i \in 1..(Len(frames) - 1) : frames'[i] = frames[i]
  BY <1>1
<1>3. Top' = frames[Len(frames) - 1]
  BY <1>1, <1>2 DEF Top
<1>4. PC' \in Int
  <2>1. Top \in Calls /\ PC' = Top.target - 2
    BY <1>1, TopTyped DEF ReturnFromSlot, Word
  <2>2. QED BY <2>1 DEF Calls
<1>5. FramesTyped'
  <2>1. \A i \in 1..(Len(frames) - 1) : frames[i].left > 0
    BY DEF StepInv, FramesTyped
  <2>2. QED BY <1>1, <1>2, <1>3, <1>4, <2>1 DEF StepInv, FramesTyped
<1>6. Remaining' = Remaining /\ InFlight' = 1 /\ InFlight = 1
  BY <1>1, <1>2 DEF Remaining, InFlight
<1>7. phase # "top"
  BY <1>1 DEF StepInv, FramesTyped
<1>8. QED BY <1>1, <1>5, <1>6, <1>7 DEF StepInv

(* A call of run_spim starts with nothing in flight. *)
LEMMA StartSteps ==
  ASSUME FramesTyped, NEW n \in Counts, frames' = <<Frame(n, 0)>>, phase' = "poll", PC' \in Int, EPC' \in Int,
         UNCHANGED <<program, mapped_io>>
  PROVE  FramesTyped' /\ InFlight' = 0 /\ Remaining' = n
<1>1. Frame(n, 0) \in Calls /\ Frame(n, 0).steps = n /\ Frame(n, 0).left = 0
  BY FrameTyped
<1>2. frames' \in Seq(Calls) /\ Len(frames') = 1 /\ frames'[1] = Frame(n, 0)
  BY <1>1
<1>3. Top' = Frame(n, 0)
  BY <1>2 DEF Top
<1>4. FramesTyped'
  BY <1>1, <1>2, <1>3 DEF FramesTyped
<1>5. InFlight' = 0
  BY <1>2 DEF InFlight
<1>6. Remaining' = n + 0
  BY <1>1, <1>2 DEF Remaining
<1>7. QED BY <1>4, <1>5, <1>6, ForeverIsLarge DEF Counts

(* The step over a breakpoint was one of the steps. *)
LEMMA OverSteps ==
  ASSUME StepInv, ReturnFromOver
  PROVE  StepInv'
<1>1. /\ Returning /\ Len(frames) = 1 /\ job.over # 0 /\ phase # "top"
      /\ frames' = <<Frame(job.rest, 0)>> /\ phase' = "poll" /\ job' = [job EXCEPT !.over = 0]
      /\ UNCHANGED <<program, mapped_io, PC, EPC, count>>
  BY DEF ReturnFromOver, Returning, session, options, cp0
<1>2. job \in [over : Int, rest : Counts, asked : Counts] /\ FramesTyped /\ count \in Nat
  BY DEF StepInv
<1>3. job.rest \in Counts /\ job' \in [over : Int, rest : Counts, asked : Counts]
      /\ job'.over = 0 /\ job'.asked = job.asked
  BY <1>1, <1>2
<1>4. FramesTyped' /\ InFlight' = 0 /\ Remaining' = job.rest
  <2>1. PC' \in Int /\ EPC' \in Int
    BY <1>1, <1>2 DEF FramesTyped
  <2>2. QED BY <1>1, <1>2, <1>3, <2>1, StartSteps
<1>5. ASSUME job.asked # Forever PROVE count + job.rest = job.asked
  <2>1. job.rest = job.asked - 1 /\ count + Remaining - InFlight = 1 /\ count >= InFlight
    BY <1>1, <1>5 DEF StepInv
  <2>2. Top = frames[1] /\ frames[1] \in Calls
    BY <1>1, <1>2, TopTyped DEF Top, FramesTyped
  <2>3. frames[1].steps \in Nat /\ frames[1].left \in Nat
    BY <2>2, ForeverIsLarge DEF Calls, Counts
  <2>4. CASE phase = "return"
    <3>1. InFlight = 1 /\ frames[1].left > 0
      BY <1>2, <2>2, <2>4 DEF InFlight, FramesTyped
    <3>2. count + (frames[1].steps + frames[1].left) - 1 = 1 /\ count >= 1
      BY <2>1, <3>1 DEF Remaining
    <3>3. count = 1
      BY <1>2, <2>3, <3>1, <3>2
    <3>4. QED BY <1>3, <2>1, <3>3, ForeverIsLarge DEF Counts
  <2>5. CASE phase = "poll" /\ Top.steps = 0
    <3>1. InFlight = 0 /\ frames[1].left = 0 /\ frames[1].steps = 0
      BY <1>1, <1>2, <2>2, <2>5 DEF InFlight, FramesTyped
    <3>2. count = 1
      BY <1>2, <2>1, <3>1 DEF Remaining
    <3>3. QED BY <1>3, <2>1, <3>2, ForeverIsLarge DEF Counts
  <2>6. QED BY <1>1, <2>4, <2>5 DEF Returning
<1>6. job.rest \in Nat
  BY <1>3, ForeverIsLarge DEF Counts
<1>7. QED BY <1>1, <1>2, <1>3, <1>4, <1>5, <1>6 DEF StepInv

(* Back at the prompt. *)
LEMMA TopSteps ==
  ASSUME StepInv, phase' = "top", frames' = <<>>, job' = Idle, count' = 0,
         UNCHANGED <<program, mapped_io, PC, EPC>>
  PROVE  StepInv'
<1>1. frames' \in Seq(Calls) /\ Len(frames') = 0
  OBVIOUS
<1>2. FramesTyped'
  BY <1>1 DEF StepInv, FramesTyped
<1>3. QED BY <1>2, ForeverIsLarge DEF StepInv, Idle, Counts

(* The commands that start a program. *)
LEMMA RunSteps ==
  ASSUME StepInv, Run
  PROVE  StepInv'
<1>1. /\ phase = "top" /\ phase' = "poll" /\ frames' = <<Frame(Forever, 0)>> /\ PC' = 2
      /\ UNCHANGED <<program, mapped_io, EPC, job, count>>
  BY DEF Run, options, Start, Word
<1>2. FramesTyped /\ EPC \in Int /\ Forever \in Counts /\ job = Idle /\ count = 0
  BY <1>1, ForeverIsLarge DEF StepInv, FramesTyped, Counts
<1>3. FramesTyped'
  BY <1>1, <1>2, StartSteps
<1>4. QED BY <1>1, <1>2, <1>3, ForeverIsLarge DEF StepInv, Idle, Counts

LEMMA ResumeSteps ==
  ASSUME StepInv, NEW n \in 1..Forever, Resume(n)
  PROVE  StepInv'
<1> DEFINE at == IF PC = 0 THEN Start ELSE PC
           over == at \in broken
<1>1. /\ phase = "top" /\ phase' = "poll" /\ PC' = at
      /\ frames' = <<Frame(IF over THEN 1 ELSE n, 0)>>
      /\ job' = [over |-> IF over THEN at ELSE 0, rest |-> Minus(n, 1), asked |-> n]
      /\ UNCHANGED <<program, mapped_io, count>>
  BY DEF Resume, options
<1>2. FramesTyped /\ PC \in Int /\ EPC \in Int /\ count = 0
  BY <1>1 DEF StepInv, FramesTyped
<1>3. at \in Int /\ at # 0
  BY <1>2 DEF Start, Word
<1>4. EPC' \in Int
  <2>1. CASE RecordException("IBE")
    BY <1>2, <2>1, RecordTyped
  <2>2. CASE UNCHANGED EPC
    BY <1>2, <2>2
  <2>3. QED BY <2>1, <2>2 DEF Resume
<1> HIDE DEF at
<1>5. n \in Counts /\ 1 \in Counts /\ Minus(n, 1) \in Counts /\ (n # Forever => Minus(n, 1) = n - 1)
  BY ForeverIsLarge DEF Counts, Minus
<1>6. FramesTyped' /\ InFlight' = 0 /\ Remaining' = (IF over THEN 1 ELSE n)
  BY <1>1, <1>2, <1>3, <1>4, <1>5, StartSteps
<1>7. job' \in [over : Int, rest : Counts, asked : Counts] /\ job'.asked = n /\ job'.rest = Minus(n, 1)
      /\ job'.over = (IF over THEN at ELSE 0)
  BY <1>1, <1>3, <1>5
<1>8. n \in Nat
  BY ForeverIsLarge
<1>9. QED BY <1>1, <1>2, <1>3, <1>5, <1>6, <1>7, <1>8 DEF StepInv

LEMMA NextStepInv == StepInv /\ [Next]_vars => StepInv'
<1>1. SUFFICES ASSUME StepInv, [Next]_vars PROVE StepInv'
  OBVIOUS
<1>2. PC \in Int /\ EPC \in Int /\ program \in Programs
  BY <1>1 DEF StepInv, FramesTyped
<1> USE DEF session, options, cp0, control
<1>3. CASE Poll
  BY <1>1, <1>3, PollSteps
<1>4. CASE FetchFault
  <2>1. PC' \in Int /\ EPC' \in Int
    BY <1>2, <1>4, RecordTyped DEF FetchFault, handle_exception
  <2>2. QED BY <1>1, <1>4, <2>1, EndIterationSteps DEF FetchFault
<1>5. CASE LongJump
  BY <1>1, <1>5, TopSteps DEF LongJump
<1>6. CASE After
  <2>1. PC' \in Int
    <3>1. PC + 2 \in Int /\ EXCEPTION_ADDR \in Int
      BY <1>2, RunLoopAssumption
    <3>2. PC' = PC + 2 \/ PC' = EXCEPTION_ADDR
      BY <1>6 DEF After, handle_exception, Word
    <3>3. QED BY <3>1, <3>2
  <2>2. QED BY <1>1, <1>2, <1>6, <2>1, EndIterationSteps DEF After
<1>7. CASE Fault \/ Break
  <2>1. EPC' \in Int
    BY <1>2, <1>7, RecordTyped DEF Fault, Break
  <2>2. QED BY <1>1, <1>2, <1>7, <2>1, ExecuteSteps DEF Fault, Break, Executing
<1>8. CASE Plain \/ Enable \/ Check \/ ClearCause \/ Exit
  BY <1>1, <1>2, <1>8, ExecuteSteps DEF Plain, Enable, Check, ClearCause, Exit, Executing
<1>9. CASE Bump
  <2>1. EPC' \in Int
    BY <1>2, <1>9 DEF Bump, Word
  <2>2. QED BY <1>1, <1>2, <1>9, <2>1, ExecuteSteps DEF Bump, Executing
<1>10. CASE Jump
  <2>1. read_mem_inst(PC).to \in Int
    BY <1>2, <1>10, TargetTyped DEF Jump, Executing
  <2>2. QED BY <1>1, <1>2, <1>10, <2>1, JumpSteps DEF Jump, Executing
<1>11. CASE Eret
  BY <1>1, <1>2, <1>11, JumpSteps DEF Eret, Executing
<1>12. CASE ReturnFromSlot
  BY <1>1, <1>12, SlotSteps
<1>13. CASE ReturnFromOver
  BY <1>1, <1>13, OverSteps
<1>14. CASE ReturnToTop
  BY <1>1, <1>14, TopSteps DEF ReturnToTop
<1>15. CASE Run
  BY <1>1, <1>15, RunSteps
<1>16. CASE Continue \/ Step
  <2>1. Forever \in 1..Forever /\ 1..MaxSteps \subseteq 1..Forever
    BY RunLoopAssumption DEF Forever
  <2>2. PICK n \in 1..Forever : Resume(n)
    BY <1>16, <2>1 DEF Continue, Step
  <2>3. QED BY <1>1, <2>2, ResumeSteps
<1>17. CASE AddBreakpoint \/ DeleteBreakpoint \/ Tick \/ UNCHANGED vars
  BY <1>1, <1>17, StepsUntouched DEF AddBreakpoint, DeleteBreakpoint, Tick, vars
<1>18. QED
  BY <1>1, <1>3, <1>4, <1>5, <1>6, <1>7, <1>8, <1>9, <1>10, <1>11, <1>12, <1>13, <1>14, <1>15, <1>16, <1>17
  DEF Next, Simulate, Command, FetchNone, ControlC

(* A step n that nothing stops executes n instructions, for every n and     *)
(* every interval between two polls: none is lost or repeated where a       *)
(* breakpoint is stepped over, where an interval ends, or in a delay slot.  *)
THEOREM StepsAreExact == Spec => StepsExact
<1> DEFINE Exact == phase = "poll" /\ phase' = "top" /\ Returning /\ Len(frames) = 1
                      /\ job.over = 0 /\ job.asked # Forever => count = job.asked
<1>1. StepInv /\ [Next]_vars => [Exact]_vars
  <2>1. SUFFICES ASSUME StepInv, phase = "poll", Top.steps = 0, Len(frames) = 1, job.over = 0, job.asked # Forever
                 PROVE  count = job.asked
    BY DEF Returning
  <2>2. Top = frames[1] /\ frames[1].left = 0 /\ InFlight = 0
    BY <2>1 DEF Top, StepInv, FramesTyped, InFlight
  <2>3. count + Remaining - InFlight = job.asked /\ count \in Nat
    BY <2>1 DEF StepInv
  <2>4. QED BY <2>1, <2>2, <2>3 DEF Remaining
<1>2. QED
  BY InitStepInv, NextStepInv, <1>1, PTL DEF Spec, StepsExact

-------------------------------------------------------------------------------
(* Exceptions.  One the handler owes the program a return for is not set     *)
(* aside: the PC is not in the program any more, or is about to leave it.    *)
Owed == EXL /\ ~BD /\ taken.cause \in {"Ov", "IBE", "Int"}
Beyond(a) == a % Word # 0 \/ a >= EXCEPTION_ADDR

(* A call for a delay slot has one instruction, and while it is due whatever *)
(* is raised sets BD; it is not the one that clears BD.                      *)
SlotsOne == \A i \in 2..Len(frames) : frames[i].steps + frames[i].left <= 1
InSlot == Len(frames) > 1 /\ (phase = "step" \/ (phase = "poll" /\ Top.steps > 0))
SlotInv == SlotsOne /\ (InSlot => running_in_delay_slot /\ PC # EXCEPTION_ADDR + 4)

OwedInv ==
  /\ DOMAIN taken = {"cause", "at"}
  /\ Owed => Len(frames) <= 1
  /\ Owed => IF phase = "after" THEN exception_occurred \/ Beyond(PC + 2) ELSE Beyond(PC)

ServedInv == SlotInv /\ OwedInv

LEMMA HandlerBehind ==
  ASSUME program \in Programs
  PROVE  /\ EXCEPTION_ADDR \in Nat /\ EXCEPTION_ADDR % 2 = 0 /\ EXCEPTION_ADDR > 2
         /\ \A a \in Int : a % 2 = 0 /\ a \div 2 \in DOMAIN program => a + 2 < EXCEPTION_ADDR
<1>1. /\ program \in Seq([op : Ops, to : Nat]) /\ 2 * Len(program) + 2 < EXCEPTION_ADDR
      /\ EXCEPTION_ADDR \in Nat /\ EXCEPTION_ADDR % 2 = 0
  BY RunLoopAssumption DEF Word
<1>2. Len(program) \in Nat /\ DOMAIN program = 1..Len(program)
  BY <1>1
<1>3. ASSUME NEW a \in Int, a % 2 = 0, a \div 2 \in DOMAIN program PROVE a + 2 < EXCEPTION_ADDR
  <2>1. a = 2 * (a \div 2) /\ a \div 2 \in 1..Len(program)
    BY <1>2, <1>3
  <2>2. QED BY <1>1, <1>2, <2>1
<1>4. QED BY <1>1, <1>2, <1>3

(* Where the instructions are that change EXL, BD or the PC. *)
LEMMA WhereLoaded ==
  ASSUME program \in Programs, NEW a \in Int
  PROVE  /\ Loaded(a).op = "jump" => a % 2 = 0 /\ a \div 2 \in DOMAIN program
         /\ Loaded(a).op = "clear" => a = EXCEPTION_ADDR + 4
         /\ Loaded(a).op = "eret" => a = EXCEPTION_ADDR + 8
<1>1. CASE a % Word # 0
  <2>1. Loaded(a) = [op |-> "misaligned", to |-> 0]
    BY <1>1, Zenon DEF Loaded
  <2>2. QED BY <2>1
<1>2. CASE a % Word = 0 /\ a \div Word \in DOMAIN program
  <2>1. Loaded(a) = program[a \div Word]
    BY <1>2, Zenon DEF Loaded
  <2> DEFINE S == [op : Ops, to : Nat]
             i == a \div Word
  <2>2. program \in Seq(S) /\ i \in DOMAIN program
    BY <1>2, RunLoopAssumption
  <2>3. S = [op : Ops, to : Nat]
    OBVIOUS
  <2>4. Loaded(a) = program[i]
    BY <2>1
  <2> HIDE DEF S, i
  <2>5. program[i] \in S
    BY <2>2
  <2>6. program[i].op \in Ops
    BY <2>3, <2>5
  <2>7. Loaded(a).op # "clear" /\ Loaded(a).op # "eret"
    BY <2>4, <2>6 DEF Ops
  <2>8. QED BY <1>2, <2>7 DEF Word
<1>3. CASE a % Word = 0 /\ a \div Word \notin DOMAIN program /\ HandlerOffset(a) \in DOMAIN HandlerText
  <2>1. Loaded(a) = [op |-> HandlerText[HandlerOffset(a)], to |-> EPC]
    BY <1>3, Zenon DEF Loaded
  <2>2. HandlerOffset(a) \in 1..5 /\ Loaded(a).op = HandlerText[HandlerOffset(a)]
    BY <1>3, <2>1 DEF HandlerText
  <2>3. /\ Loaded(a).op # "jump"
        /\ Loaded(a).op = "clear" => HandlerOffset(a) = 3
        /\ Loaded(a).op = "eret" => HandlerOffset(a) = 5
    BY <2>2 DEF HandlerText
  <2>4. EXCEPTION_ADDR \in Nat /\ EXCEPTION_ADDR % 2 = 0 /\ a % 2 = 0
    BY <1>3, HandlerBehind DEF Word
  <2>5. /\ HandlerOffset(a) = 3 => a = EXCEPTION_ADDR + 4
        /\ HandlerOffset(a) = 5 => a = EXCEPTION_ADDR + 8
    BY <2>4 DEF HandlerOffset, Word
  <2>6. QED BY <2>3, <2>5
<1>4. CASE a % Word = 0 /\ a \div Word \notin DOMAIN program /\ HandlerOffset(a) \notin DOMAIN HandlerText
  <2>1. Loaded(a) = [op |-> "none", to |-> 0]
    BY <1>4, Zenon DEF Loaded
  <2>2. QED BY <2>1
<1>5. QED BY <1>1, <1>2, <1>3, <1>4

LEMMA WhereRead ==
  ASSUME program \in Programs, PC \in Int
  PROVE  /\ read_mem_inst(PC).op = "jump" => ~Beyond(PC) /\ PC + 2 < EXCEPTION_ADDR
         /\ read_mem_inst(PC).op = "clear" => PC = EXCEPTION_ADDR + 4
         /\ read_mem_inst(PC).op = "eret" => PC = EXCEPTION_ADDR + 8
<1>1. read_mem_inst(PC).op \in {"jump", "clear", "eret"} => read_mem_inst(PC) = Loaded(PC)
  BY DEF read_mem_inst
<1>2. QED BY <1>1, HandlerBehind, WhereLoaded DEF Beyond, Word

(* An exception is owed where it was before, or where nothing nests.         *)
LEMMA Raised ==
  ASSUME NEW code, RecordException(code), DOMAIN taken = {"cause", "at"}
  PROVE  /\ DOMAIN taken' = {"cause", "at"}
         /\ Owed' => Owed \/ (~EXL /\ ~running_in_delay_slot /\ code \in {"Ov", "IBE", "Int"})
<1>1. CASE EXL
  <2>1. taken' = taken /\ (BD' = (BD \/ (running_in_delay_slot /\ ~EXL)))
    BY <1>1 DEF RecordException
  <2>2. QED BY <1>1, <2>1 DEF Owed
<1>2. CASE ~EXL
  <2>1. taken' = [cause |-> code, at |-> PC] /\ (BD' = (BD \/ (running_in_delay_slot /\ ~EXL)))
    BY <1>2 DEF RecordException
  <2>2. QED BY <1>2, <2>1 DEF Owed
<1>3. QED BY <1>1, <1>2

(* The end of an iteration ends the call for a delay slot. *)
LEMMA SlotEnds ==
  ASSUME StepInv, SlotsOne, phase \in {"step", "after"}, EndIteration
  PROVE  /\ Len(frames') = Len(frames) /\ phase' \in {"poll", "step"}
         /\ Len(frames) = 1 \/ (SlotsOne' /\ ~InSlot')
<1>1. frames \in Seq(Calls) /\ Len(frames) > 0 /\ Top.left > 0
  BY DEF StepInv, FramesTyped
<1>2. Top.steps \in Counts /\ Top.left \in 1..Forever
  <2>1. Top \in Calls
    BY <1>1, TopTyped
  <2>2. QED BY <1>1, <2>1, ForeverIsLarge DEF Calls, Counts
<1>3. Minus(Top.left, 1) \in Counts
  BY <1>2, ForeverIsLarge DEF Counts, Minus
<1>4. SetTop(Top.steps, Minus(Top.left, 1)) /\ phase' = IF Top.left = 1 THEN "poll" ELSE "step"
  BY DEF EndIteration
<1>5. /\ frames' \in Seq(Calls) /\ Len(frames') = Len(frames)
      /\ Top'.steps = Top.steps /\ Top'.left = Minus(Top.left, 1)
      /\ \A i \in 1..(Len(frames) - 1) : frames'[i] = frames[i]
  BY <1>1, <1>2, <1>3, <1>4, TopSet
<1>6. CASE Len(frames) # 1 /\ Len(frames) > 1
  <2>1. Len(frames) \in 2..Len(frames) /\ Top = frames[Len(frames)]
    BY <1>1, <1>6 DEF Top
  <2>2. Top.steps + Top.left <= 1
    BY <2>1 DEF SlotsOne
  <2>3. Top.steps = 0 /\ Top.left = 1
    BY <1>2, <2>2, ForeverIsLarge DEF Counts
  <2>4. Top'.steps = 0 /\ Top'.left = 0 /\ phase' = "poll"
    BY <1>4, <1>5, <2>3, ForeverIsLarge DEF Minus
  <2>5. ASSUME NEW i \in 2..Len(frames') PROVE frames'[i].steps + frames'[i].left <= 1
    <3>1. CASE i = Len(frames)
      <4>1. frames'[i] = Top'
        BY <1>5, <3>1 DEF Top
      <4>2. QED BY <2>4, <4>1
    <3>2. CASE i # Len(frames)
      <4>1. i \in 1..(Len(frames) - 1) /\ i \in 2..Len(frames)
        BY <1>1, <1>5, <2>5, <3>2
      <4>2. QED BY <1>5, <4>1 DEF SlotsOne
    <3>3. QED BY <3>1, <3>2
  <2>6. SlotsOne'
    BY <2>5 DEF SlotsOne
  <2>7. ~InSlot'
    BY <2>4 DEF InSlot
  <2>8. QED BY <1>5, <2>4, <2>6, <2>7
<1>7. CASE Len(frames) = 1
  BY <1>4, <1>5, <1>7
<1>8. QED BY <1>1, <1>6, <1>7, TopTyped

LEMMA OneFrame ==
  ASSUME Len(frames') <= 1, Len(frames') \in Nat
  PROVE  SlotInv'
<1>1. 2..Len(frames') = {} /\ ~(Len(frames') > 1)
  OBVIOUS
<1>2. QED BY <1>1 DEF SlotInv, SlotsOne, InSlot

LEMMA InitServedInv == Init => ServedInv
BY DEF Init, ServedInv, SlotInv, OwedInv, SlotsOne, InSlot, Owed

(* Within an iteration neither frames nor PC change. *)
LEMMA SlotStays ==
  ASSUME SlotInv, UNCHANGED frames, phase' \in {"after", "return", "top"}
  PROVE  SlotInv'
BY DEF SlotInv, SlotsOne, InSlot

LEMMA BeyondNext ==
  ASSUME PC \in Int, program \in Programs, Beyond(PC)
  PROVE  Beyond(PC + 2)
<1>1. EXCEPTION_ADDR \in Nat
  BY HandlerBehind
<1>2. QED BY <1>1 DEF Beyond, Word

LEMMA PollServed ==
  ASSUME StepInv, ServedInv, Poll
  PROVE  ServedInv'
<1> DEFINE size == InnerSteps(Top.steps)
<1>1. /\ frames \in Seq(Calls) /\ Len(frames) > 0 /\ phase = "poll" /\ Top.left = 0
      /\ mapped_io \in BOOLEAN /\ Top.steps > 0 /\ phase' = "step"
      /\ SetTop(Minus(Top.steps, size), size)
      /\ running_in_delay_slot' = running_in_delay_slot /\ program \in Programs
  BY DEF Poll, StepInv, FramesTyped
<1>2. Top \in Calls /\ Top.steps \in 1..Forever
  <2>1. Top \in Calls
    BY <1>1, TopTyped
  <2>2. QED BY <1>1, <2>1, ForeverIsLarge DEF Calls, Counts
<1>3. size \in 1..Forever /\ size <= Top.steps
  BY <1>1, <1>2, ForeverIsLarge DEF InnerSteps, Least
<1> HIDE DEF size
<1>4. Minus(Top.steps, size) \in Counts /\ size \in Counts
  BY <1>2, <1>3, ForeverIsLarge DEF Counts, Minus
<1>5. /\ frames' \in Seq(Calls) /\ Len(frames') = Len(frames)
      /\ Top'.steps = Minus(Top.steps, size) /\ Top'.left = size
      /\ \A i \in 1..(Len(frames) - 1) : frames'[i] = frames[i]
  BY <1>1, <1>4, TopSet
<1>6. EXCEPTION_ADDR \in Nat /\ EXCEPTION_ADDR % 2 = 0
  BY <1>1, HandlerBehind
<1>7. \/ RecordException("Int") /\ PC' = EXCEPTION_ADDR
      \/ UNCHANGED <<EXL, BD, taken, PC>>
  BY DEF Poll, handle_exception
<1>8. OwedInv' /\ (PC' = PC \/ PC' = EXCEPTION_ADDR)
  <2>1. Len(frames) > 1 => running_in_delay_slot
    BY <1>1 DEF ServedInv, SlotInv, InSlot
  <2>2. CASE RecordException("Int") /\ PC' = EXCEPTION_ADDR
    <3>1. DOMAIN taken' = {"cause", "at"} /\ (Owed' => Owed \/ ~running_in_delay_slot)
      BY <2>2, Raised DEF ServedInv, OwedInv
    <3>2. Owed' => Len(frames) <= 1
      BY <1>1, <2>1, <3>1, TopTyped DEF ServedInv, OwedInv
    <3>3. Beyond(PC')
      BY <1>6, <2>2 DEF Beyond
    <3>4. QED BY <1>1, <1>5, <2>2, <3>1, <3>2, <3>3 DEF OwedInv
  <2>3. CASE UNCHANGED <<EXL, BD, taken, PC>>
    <3>1. Owed' = Owed
      BY <2>3 DEF Owed
    <3>2. QED BY <1>1, <1>5, <2>3, <3>1 DEF ServedInv, OwedInv, Beyond
  <2>4. QED BY <1>7, <2>2, <2>3
<1>9. CASE Len(frames) # 1 /\ Len(frames) > 1
  <2>1. Len(frames) \in 2..Len(frames) /\ Top = frames[Len(frames)]
    BY <1>1, <1>9 DEF Top
  <2>2. Top.steps + Top.left <= 1
    BY <2>1 DEF ServedInv, SlotInv, SlotsOne
  <2>3. Top.steps = 1 /\ size = 1
    BY <1>1, <1>2, <1>3, <2>2, ForeverIsLarge
  <2>4. Top'.steps = 0 /\ Top'.left = 1
    BY <1>5, <2>3, ForeverIsLarge DEF Minus
  <2>5. ASSUME NEW i \in 2..Len(frames') PROVE frames'[i].steps + frames'[i].left <= 1
    <3>1. CASE i = Len(frames)
      <4>1. frames'[i] = Top'
        BY <1>5, <3>1 DEF Top
      <4>2. QED BY <2>4, <4>1
    <3>2. CASE i # Len(frames)
      <4>1. i \in 1..(Len(frames) - 1) /\ i \in 2..Len(frames)
        BY <1>1, <1>5, <2>5, <3>2
      <4>2. QED BY <1>5, <4>1 DEF ServedInv, SlotInv, SlotsOne
    <3>3. QED BY <3>1, <3>2
  <2>6. running_in_delay_slot /\ PC # EXCEPTION_ADDR + 4
    BY <1>1, <1>9 DEF ServedInv, SlotInv, InSlot
  <2>7. PC' # EXCEPTION_ADDR + 4
    BY <1>6, <1>8, <2>6
  <2>8. QED BY <1>1, <1>8, <2>5, <2>6, <2>7 DEF ServedInv, SlotInv, SlotsOne
<1>10. CASE Len(frames) = 1
  BY <1>5, <1>8, <1>10, OneFrame DEF ServedInv
<1>11. QED BY <1>1, <1>9, <1>10, TopTyped

(* An iteration ends, and the PC is where it was, behind it, or at the       *)
(* handler.                                                                  *)
LEMMA IterationServed ==
  ASSUME StepInv, ServedInv, FetchFault \/ After
  PROVE  ServedInv'
<1>1. /\ program \in Programs /\ PC \in Int /\ phase \in {"step", "after"} /\ EndIteration
      /\ frames \in Seq(Calls) /\ Len(frames) > 0
  BY DEF FetchFault, After, StepInv, FramesTyped
<1>2. SlotInv' /\ Len(frames') = Len(frames) /\ phase' \in {"poll", "step"}
  <2>1. SlotsOne
    BY DEF ServedInv, SlotInv
  <2>2. /\ Len(frames') = Len(frames) /\ phase' \in {"poll", "step"}
        /\ Len(frames) = 1 \/ (SlotsOne' /\ ~InSlot')
    BY <1>1, <2>1, SlotEnds
  <2>3. CASE Len(frames) = 1
    BY <2>2, <2>3, OneFrame
  <2>4. QED BY <2>2, <2>3 DEF SlotInv
<1>3. Beyond(EXCEPTION_ADDR)
  BY <1>1, HandlerBehind DEF Beyond
<1>4. CASE FetchFault
  <2>1. RecordException("IBE") /\ PC' = EXCEPTION_ADDR /\ phase = "step"
    BY <1>4 DEF FetchFault, handle_exception
  <2>2. DOMAIN taken' = {"cause", "at"} /\ (Owed' => Owed \/ ~running_in_delay_slot)
    BY <2>1, Raised DEF ServedInv, OwedInv
  <2>3. Len(frames) > 1 => running_in_delay_slot
    BY <2>1 DEF ServedInv, SlotInv, InSlot
  <2>4. Owed' => Len(frames) <= 1
    BY <1>1, <2>2, <2>3, TopTyped DEF ServedInv, OwedInv
  <2>5. QED BY <1>2, <1>3, <2>1, <2>2, <2>4 DEF ServedInv, OwedInv
<1>5. CASE After
  <2>1. /\ UNCHANGED <<taken, EXL, BD>> /\ phase = "after"
        /\ PC' = EXCEPTION_ADDR \/ (~exception_occurred /\ PC' = PC + 2)
    BY <1>5 DEF After, handle_exception, cp0, Word
  <2>2. Owed' = Owed
    BY <2>1 DEF Owed
  <2>3. Owed => Beyond(PC')
    BY <1>3, <2>1 DEF ServedInv, OwedInv
  <2>4. Beyond(PC)' = Beyond(PC')
    BY DEF Beyond
  <2>5. QED BY <1>2, <2>1, <2>2, <2>3, <2>4 DEF ServedInv, OwedInv
<1>6. QED BY <1>4, <1>5

(* An instruction that is executed, and no jump. *)
LEMMA ExecuteServed ==
  ASSUME StepInv, ServedInv, Plain \/ Enable \/ Check \/ Bump \/ Exit \/ Fault \/ Break \/ ClearCause
  PROVE  ServedInv'
<1>1. /\ program \in Programs /\ PC \in Int /\ phase = "step" /\ phase' \in {"after", "return"}
      /\ PC' = PC /\ frames' = frames /\ frames \in Seq(Calls) /\ Len(frames) > 0
  BY DEF Plain, Enable, Check, Bump, Exit, Fault, Break, ClearCause, Executing, StepInv, FramesTyped
<1>2. SlotInv'
  BY <1>1, SlotStays DEF ServedInv
<1>3. Owed => Beyond(PC) /\ Beyond(PC + 2)
  BY <1>1, BeyondNext DEF ServedInv, OwedInv
<1>4. Beyond(PC)' = Beyond(PC) /\ Beyond(PC + 2)' = Beyond(PC + 2)
  BY <1>1 DEF Beyond
<1>5. Len(frames) > 1 => running_in_delay_slot /\ PC # EXCEPTION_ADDR + 4
  BY <1>1 DEF ServedInv, SlotInv, InSlot
<1>6. CASE Plain \/ Enable \/ Check \/ Bump \/ Exit
  <2>1. UNCHANGED <<taken, EXL, BD>>
    BY <1>6 DEF Plain, Enable, Check, Bump, Exit, cp0
  <2>2. Owed' = Owed
    BY <2>1 DEF Owed
  <2>3. QED BY <1>1, <1>2, <1>3, <1>4, <2>1, <2>2 DEF ServedInv, OwedInv
<1>7. CASE Fault
  <2>1. RecordException("Ov") /\ exception_occurred' /\ phase' = "after"
    BY <1>7 DEF Fault
  <2>2. DOMAIN taken' = {"cause", "at"} /\ (Owed' => Owed \/ ~running_in_delay_slot)
    BY <2>1, Raised DEF ServedInv, OwedInv
  <2>3. Owed' => Len(frames) <= 1
    BY <1>1, <1>5, <2>2, TopTyped DEF ServedInv, OwedInv
  <2>4. QED BY <1>1, <1>2, <2>1, <2>2, <2>3 DEF ServedInv, OwedInv
<1>8. CASE Break
  <2>1. RecordException("Bp") /\ phase' = "return"
    BY <1>8 DEF Break
  <2>2. DOMAIN taken' = {"cause", "at"} /\ (Owed' => Owed)
    BY <2>1, Raised DEF ServedInv, OwedInv
  <2>3. QED BY <1>1, <1>2, <1>3, <1>4, <2>1, <2>2 DEF ServedInv, OwedInv
<1>9. CASE ClearCause
  <2>1. /\ UNCHANGED taken /\ phase' = "after" /\ read_mem_inst(PC).op = "clear"
    BY <1>9 DEF ClearCause, Executing
  <2>2. PC = EXCEPTION_ADDR + 4 /\ EXCEPTION_ADDR \in Nat
    BY <1>1, <2>1, WhereRead, HandlerBehind
  <2>3. Beyond(PC + 2)
    BY <2>2 DEF Beyond
  <2>4. ~(Len(frames) > 1)
    BY <1>5, <2>2
  <2>5. Len(frames) <= 1
    BY <1>1, <2>4, TopTyped
  <2>6. QED BY <1>1, <1>2, <1>4, <2>1, <2>3, <2>5 DEF ServedInv, OwedInv
<1>10. QED BY <1>6, <1>7, <1>8, <1>9

(* A jump is no step of the handler; eret pays what is owed. *)
LEMMA JumpServed ==
  ASSUME StepInv, ServedInv, Jump \/ Eret
  PROVE  ServedInv'
<1>1. /\ program \in Programs /\ PC \in Int /\ phase = "step" /\ UNCHANGED taken
      /\ frames \in Seq(Calls) /\ Len(frames) > 0
  BY DEF Jump, Eret, Executing, StepInv, FramesTyped, cp0
<1>2. EXCEPTION_ADDR \in Nat
  BY <1>1, HandlerBehind
<1>3. PC + 2 # EXCEPTION_ADDR + 4 /\ ~Owed'
  <2>1. CASE Jump
    <3>1. /\ read_mem_inst(PC).op = "jump" /\ UNCHANGED <<taken, EXL, BD>>
      BY <2>1 DEF Jump, Executing, cp0
    <3>2. ~Beyond(PC) /\ PC + 2 < EXCEPTION_ADDR
      BY <1>1, <3>1, WhereRead
    <3>3. ~Owed /\ Owed' = Owed
      BY <1>1, <3>1, <3>2 DEF ServedInv, OwedInv, Owed
    <3>4. QED BY <1>1, <1>2, <3>2, <3>3
  <2>2. CASE Eret
    <3>1. read_mem_inst(PC).op = "eret" /\ EXL' = FALSE
      BY <2>2 DEF Eret, Executing
    <3>2. PC = EXCEPTION_ADDR + 8
      BY <1>1, <3>1, WhereRead
    <3>3. QED BY <1>2, <3>1, <3>2 DEF Owed
  <2>3. QED BY <2>1, <2>2
<1>4. OwedInv'
  BY <1>1, <1>3 DEF ServedInv, OwedInv
<1>5. PICK target : JumpTo(target)
  BY DEF Jump, Eret
<1>6. CASE phase' = "after" /\ frames' = frames
  BY <1>4, <1>6, SlotStays DEF ServedInv
<1>7. CASE running_in_delay_slot' = TRUE /\ PC' = PC + 2 /\ frames' = Append(frames, Frame(1, target))
  <2>1. ASSUME NEW i \in 2..Len(frames') PROVE frames'[i].steps + frames'[i].left <= 1
    <3>1. CASE i = Len(frames) + 1
      <4>1. frames'[i] = Frame(1, target)
        BY <1>1, <1>7, <3>1
      <4>2. QED BY <4>1 DEF Frame
    <3>2. CASE i # Len(frames) + 1
      <4>1. i \in 2..Len(frames) /\ frames'[i] = frames[i]
        BY <1>1, <1>7, <2>1, <3>2
      <4>2. QED BY <4>1 DEF ServedInv, SlotInv, SlotsOne
    <3>3. QED BY <3>1, <3>2
  <2>2. QED BY <1>3, <1>4, <1>7, <2>1 DEF ServedInv, SlotInv, SlotsOne
<1>8. QED BY <1>5, <1>6, <1>7 DEF JumpTo, Word

(* What ends a call of run_spim. *)
LEMMA ReturnServed ==
  ASSUME StepInv, ServedInv, ReturnFromSlot \/ ReturnFromOver \/ ReturnToTop \/ LongJump
  PROVE  ServedInv'
<1>1. CASE ReturnFromSlot
  <2>1. /\ UNCHANGED <<taken, EXL, BD>> /\ Len(frames) > 1 /\ phase' = "after"
        /\ frames' = SubSeq(frames, 1, Len(frames) - 1) /\ frames \in Seq(Calls)
    BY <1>1 DEF ReturnFromSlot, cp0, StepInv, FramesTyped
  <2>2. Len(frames') = Len(frames) - 1 /\ \A i \in 1..(Len(frames) - 1) : frames'[i] = frames[i]
    BY <2>1
  <2>3. ASSUME NEW i \in 2..Len(frames') PROVE frames'[i].steps + frames'[i].left <= 1
    <3>1. i \in 2..Len(frames) /\ i \in 1..(Len(frames) - 1)
      BY <2>1, <2>2, <2>3
    <3>2. QED BY <2>2, <3>1 DEF ServedInv, SlotInv, SlotsOne
  <2>4. ~(Len(frames) <= 1)
    BY <2>1
  <2>5. ~Owed /\ Owed' = Owed
    BY <2>1, <2>4 DEF ServedInv, OwedInv, Owed
  <2>6. QED BY <2>1, <2>3, <2>5 DEF ServedInv, SlotInv, SlotsOne, InSlot, OwedInv
<1>2. CASE ReturnFromOver
  <2>1. /\ UNCHANGED <<taken, EXL, BD, PC>> /\ phase \in {"poll", "return"} /\ phase' = "poll"
        /\ Len(frames') = 1
    BY <1>2 DEF ReturnFromOver, Returning, cp0
  <2>2. Owed' = Owed
    BY <2>1 DEF Owed
  <2>3. Beyond(PC)' = Beyond(PC)
    BY <2>1 DEF Beyond
  <2>4. QED BY <2>1, <2>2, <2>3, OneFrame DEF ServedInv, OwedInv
<1>3. CASE ReturnToTop
  <2>1. /\ UNCHANGED <<taken, BD, PC>> /\ phase \in {"poll", "return"} /\ phase' = "top"
        /\ Len(frames') = 0 /\ (EXL' => EXL)
    BY <1>3 DEF ReturnToTop, Returning
  <2>2. Owed' => Owed
    BY <2>1 DEF Owed
  <2>3. Beyond(PC)' = Beyond(PC)
    BY <2>1 DEF Beyond
  <2>4. QED BY <2>1, <2>2, <2>3, OneFrame DEF ServedInv, OwedInv
<1>4. CASE LongJump
  <2>1. /\ UNCHANGED <<EXL, BD, PC>> /\ phase' = "top" /\ Len(frames') = 0
        /\ taken' = IF phase = "after" THEN [taken EXCEPT !.cause = "cut"] ELSE taken
    BY <1>4 DEF LongJump
  <2>2. DOMAIN taken = {"cause", "at"}
    BY DEF ServedInv, OwedInv
  <2>3. Owed' => Owed /\ phase # "after"
    BY <2>1, <2>2 DEF Owed
  <2>4. Beyond(PC)' = Beyond(PC) /\ DOMAIN taken' = {"cause", "at"}
    BY <2>1, <2>2 DEF Beyond
  <2>5. QED BY <2>1, <2>3, <2>4, OneFrame DEF ServedInv, OwedInv
<1>5. QED BY <1>1, <1>2, <1>3, <1>4

(* A program that is run afresh cuts the handler off, one that is continued  *)
(* goes on with it.                                                          *)
LEMMA CommandServed ==
  ASSUME StepInv, ServedInv, Run \/ (\E n \in 1..Forever : Resume(n))
  PROVE  ServedInv'
<1>1. /\ phase = "top" /\ phase' = "poll" /\ Len(frames') = 1
      /\ DOMAIN taken = {"cause", "at"} /\ program \in Programs /\ PC \in Int
  BY DEF Run, Resume, ServedInv, OwedInv, StepInv, FramesTyped
<1>2. SlotInv'
  BY <1>1, OneFrame
<1>3. CASE Run
  <2>1. UNCHANGED <<EXL, BD>> /\ taken' = IF EXL THEN [taken EXCEPT !.cause = "cut"] ELSE taken
    BY <1>3 DEF Run
  <2>2. ~Owed' /\ DOMAIN taken' = {"cause", "at"}
    BY <1>1, <2>1 DEF Owed
  <2>3. QED BY <1>2, <2>2 DEF ServedInv, OwedInv
<1>4. ASSUME NEW n \in 1..Forever, Resume(n) PROVE ServedInv'
  <2>1. /\ PC' = IF PC = 0 THEN 2 ELSE PC
        /\ IF PC' % 2 # 0 THEN RecordException("IBE") ELSE UNCHANGED <<taken, EXL, BD>>
    BY <1>4 DEF Resume, Start, Word
  <2>2. DOMAIN taken' = {"cause", "at"} /\ (Owed' => Owed \/ PC' % 2 # 0)
    BY <1>1, <2>1, Raised DEF Owed
  <2>3. Owed => Beyond(PC)
    BY <1>1 DEF ServedInv, OwedInv
  <2>4. ~Beyond(0)
    BY <1>1, HandlerBehind DEF Beyond, Word
  <2>5. Owed' => Beyond(PC)'
    BY <2>1, <2>2, <2>3, <2>4 DEF Beyond, Word
  <2>6. QED BY <1>1, <1>2, <2>2, <2>5 DEF ServedInv, OwedInv
<1>5. QED BY <1>3, <1>4

LEMMA NextServedInv == StepInv /\ ServedInv /\ [Next]_vars => ServedInv'
<1>1. SUFFICES ASSUME StepInv, ServedInv, [Next]_vars PROVE ServedInv'
  OBVIOUS
<1>2. CASE Poll
  BY <1>1, <1>2, PollServed
<1>3. CASE FetchFault \/ After
  BY <1>1, <1>3, IterationServed
<1>4. CASE Plain \/ Enable \/ Check \/ Bump \/ Exit \/ Fault \/ Break \/ ClearCause
  BY <1>1, <1>4, ExecuteServed
<1>5. CASE Jump \/ Eret
  BY <1>1, <1>5, JumpServed
<1>6. CASE ReturnFromSlot \/ ReturnFromOver \/ ReturnToTop \/ LongJump
  BY <1>1, <1>6, ReturnServed
<1>7. CASE Run
  BY <1>1, <1>7, CommandServed
<1>8. CASE Continue \/ Step
  <2>1. Forever \in 1..Forever /\ 1..MaxSteps \subseteq 1..Forever
    BY RunLoopAssumption DEF Forever
  <2>2. \E n \in 1..Forever : Resume(n)
    BY <1>8, <2>1 DEF Continue, Step
  <2>3. QED BY <1>1, <2>2, CommandServed
<1>9. CASE AddBreakpoint \/ DeleteBreakpoint \/ Tick \/ UNCHANGED vars
  <2>1. /\ UNCHANGED <<frames, PC, phase, running_in_delay_slot, taken, EXL, BD>>
        /\ phase \in {"top", "step"} \/ UNCHANGED exception_occurred
    BY <1>9 DEF AddBreakpoint, DeleteBreakpoint, Tick, vars, cp0, control, flags
  <2>2. Owed' = Owed /\ SlotInv' = SlotInv
    BY <2>1 DEF Owed, SlotInv, SlotsOne, InSlot, Top
  <2>3. Beyond(PC)' = Beyond(PC) /\ Beyond(PC + 2)' = Beyond(PC + 2)
    BY <2>1 DEF Beyond
  <2>4. QED BY <1>1, <2>1, <2>2, <2>3 DEF ServedInv, OwedInv
<1>10. QED
  BY <1>1, <1>2, <1>3, <1>4, <1>5, <1>6, <1>7, <1>8, <1>9 DEF Next, Simulate, Command, FetchNone, ControlC

(* Every exception gets to the handler, which runs until its eret, whatever *)
(* is stepped over, stopped at, continued or polled: but for exceptions in  *)
(* delay slots and handlers that Ctrl-C or a new run cut off, no            *)
(* instruction of the program is executed while EXL is set.                 *)
THEOREM ExceptionsAreServed == Spec => []ExceptionsServed
<1>1. StepInv /\ ServedInv => ExceptionsServed
  <2>1. SUFFICES ASSUME StepInv, ServedInv, phase = "step", Owed, PC % Word = 0, PC \div Word \in DOMAIN program
                 PROVE  FALSE
    BY DEF ExceptionsServed, Owed
  <2>2. program \in Programs /\ PC \in Int /\ Beyond(PC)
    BY <2>1 DEF StepInv, FramesTyped, ServedInv, OwedInv
  <2>3. PC + 2 < EXCEPTION_ADDR /\ EXCEPTION_ADDR \in Nat
    BY <2>1, <2>2, HandlerBehind DEF Word
  <2>4. QED BY <2>1, <2>2, <2>3 DEF Beyond
<1>2. QED
  BY InitStepInv, NextStepInv, InitServedInv, NextServedInv, <1>1, PTL DEF Spec

-------------------------------------------------------------------------------
(* Addresses.  The PC and EPC stay natural numbers although the PC is set    *)
(* one word in front of a target and EPC to a branch in front of its delay   *)
(* slot: the handler has added a word to EPC before it returns, and no call  *)
(* for a delay slot comes back from below address Word.                      *)
Bumped == PC >= EXCEPTION_ADDR + 4 \/ (phase = "after" /\ PC >= EXCEPTION_ADDR + 2)
LastTarget == 2 * Len(program) + 1

ValuesTyped ==
  /\ delayed_branches \in BOOLEAN /\ EXL \in BOOLEAN /\ IE \in BOOLEAN /\ BD \in BOOLEAN
  /\ pending \in BOOLEAN /\ exception_occurred \in BOOLEAN /\ running_in_delay_slot \in BOOLEAN
  /\ broken \subseteq BreakAddrs /\ job.over \in BreakAddrs \cup {0}

IntervalsKept == mapped_io => \A i \in 1..Len(frames) : frames[i].left <= IO_INTERVAL

PlaceInv ==
  /\ PC >= 0 /\ EPC >= 0 /\ EPC % 2 = 0
  /\ running_in_delay_slot => PC >= 2
  /\ Bumped => EPC >= 2
  /\ PC % 2 # 0 => (IF phase = "after" THEN PC + 2 ELSE PC) <= LastTarget

(* A jump in the delay slot of another one is one instruction behind it, so *)
(* that calls nest no deeper than the program is long.                      *)
SlotPlace ==
  \/ 2 * Len(frames) <= PC /\ PC <= LastTarget + 1
  \/ PC = EXCEPTION_ADDR \/ PC = EXCEPTION_ADDR + 10

(* Where a call for a delay slot comes back to. *)
Targets ==
  \A i \in 2..Len(frames) :
    frames[i].target >= 2 /\ (frames[i].target > LastTarget => frames[i].target % 2 = 0 /\ EPC >= 2)

CallsInv ==
  /\ Len(frames) <= Len(program) + 2
  /\ InSlot => SlotPlace
  /\ Targets

(* Without delayed branches there is one call, and an exception is waiting  *)
(* for the handler only behind the instruction that raised it.               *)
SequentialInv ==
  ~delayed_branches =>
    /\ ~running_in_delay_slot /\ ~BD /\ Len(frames) <= 1
    /\ exception_occurred => phase \in {"after", "return", "top"}
    /\ exception_occurred /\ phase = "after" => EXL /\ PC < EXCEPTION_ADDR

(* EPC is then the instruction that faulted until the handler has added a    *)
(* word, and the one behind it from then on, for as long as no exception is  *)
(* raised with EXL cleared.                                                  *)
Faulted == handled.state \in {"kept", "open"}
EPCKept == EXL \/ PC >= EXCEPTION_ADDR => EPC = RoundDown(handled.at) + (IF Bumped THEN 2 ELSE 0)
ReturnInv ==
  ~delayed_branches /\ Faulted =>
    /\ handled.at \in Int /\ RoundDown(handled.at) + 2 < EXCEPTION_ADDR
    /\ phase = "after" /\ PC < EXCEPTION_ADDR /\ ~exception_occurred => PC + 2 < EXCEPTION_ADDR
    /\ EPCKept

(* Only the debugger's breakpoint clears EXL under a handler. *)
KeptInv == handled.state = "kept" => EXL

AddressInv == PlaceInv /\ CallsInv /\ SequentialInv /\ ReturnInv /\ KeptInv

-------------------------------------------------------------------------------
LEMMA Bases ==
  ASSUME program \in Programs
  PROVE  /\ Len(program) \in Nat /\ DOMAIN program = 1..Len(program)
         /\ EXCEPTION_ADDR \in Nat /\ EXCEPTION_ADDR % 2 = 0 /\ 2 * Len(program) + 2 < EXCEPTION_ADDR
<1>1. /\ program \in Seq([op : Ops, to : Nat]) /\ 2 * Len(program) + 2 < EXCEPTION_ADDR
      /\ EXCEPTION_ADDR \in Nat /\ EXCEPTION_ADDR % 2 = 0
  BY RunLoopAssumption DEF Word
<1>2. Len(program) \in Nat /\ DOMAIN program = 1..Len(program)
  BY <1>1
<1>3. QED BY <1>1, <1>2

LEMMA Rounded ==
  ASSUME NEW a \in Int
  PROVE  /\ RoundDown(a) \in Int /\ RoundDown(a) % 2 = 0
         /\ RoundDown(a) = (IF a % 2 = 0 THEN a ELSE a - 1)
BY DEF RoundDown, Word

(* An instruction of the program, by its address. *)
InProgram(a) == a % 2 = 0 /\ 2 <= a /\ a <= 2 * Len(program)

(* Where every instruction is that is executed. *)
LEMMA WhereRuns ==
  ASSUME program \in Programs, PC \in Int
  PROVE  LET i == read_mem_inst(PC)
         IN  /\ i.op \in {"plain", "fault", "exit", "jump"} => InProgram(PC)
             /\ i.op = "jump" => i.to \in 2..LastTarget
             /\ i.op = "enable" => InProgram(PC) \/ PC = EXCEPTION_ADDR + 6
             /\ i.op = "check" => PC = EXCEPTION_ADDR
             /\ i.op = "bump" => PC = EXCEPTION_ADDR + 2
             /\ i.op = "clear" => PC = EXCEPTION_ADDR + 4
             /\ i.op = "eret" => PC = EXCEPTION_ADDR + 8
             /\ i.op = "misaligned" => PC % 2 # 0
<1> DEFINE i == read_mem_inst(PC)
           Placed ==
             /\ i.op \in {"plain", "fault", "exit", "jump"} => InProgram(PC)
             /\ i.op = "jump" => i.to \in 2..LastTarget
             /\ i.op = "enable" => InProgram(PC) \/ PC = EXCEPTION_ADDR + 6
             /\ i.op = "check" => PC = EXCEPTION_ADDR
             /\ i.op = "bump" => PC = EXCEPTION_ADDR + 2
             /\ i.op = "clear" => PC = EXCEPTION_ADDR + 4
             /\ i.op = "eret" => PC = EXCEPTION_ADDR + 8
             /\ i.op = "misaligned" => PC % 2 # 0
<1>1. i = [op |-> "break", to |-> 0] \/ i = Loaded(PC)
  BY DEF read_mem_inst
<1>0. SUFFICES Placed
  OBVIOUS
<1> HIDE DEF i
<1>2. CASE i = [op |-> "break", to |-> 0]
  BY <1>2
<1>3. CASE i = Loaded(PC) /\ PC % Word # 0
  <2>1. i = [op |-> "misaligned", to |-> 0]
    BY <1>3, Zenon DEF Loaded
  <2>2. QED BY <1>3, <2>1 DEF Word
<1>4. CASE i = Loaded(PC) /\ PC % Word = 0 /\ PC \div Word \in DOMAIN program
  <2>1. i = program[PC \div Word]
    BY <1>4, Zenon DEF Loaded
  <2> DEFINE S == [op : Ops, to : Nat]
             n == PC \div Word
  <2>2. /\ program \in Seq(S) /\ n \in DOMAIN program
        /\ \A m \in DOMAIN program : program[m].op = "jump" => program[m].to \in 2..(2 * Len(program) + 1)
    BY <1>4, RunLoopAssumption DEF Word
  <2>3. InProgram(PC)
    <3>1. PC % 2 = 0 /\ PC \div 2 \in 1..Len(program) /\ Len(program) \in Nat
      BY <1>4, Bases DEF Word
    <3>2. QED BY <3>1 DEF InProgram
  <2>4. S = [op : Ops, to : Nat] /\ i = program[n]
    BY <2>1
  <2> HIDE DEF S, n
  <2>5. program[n] \in S
    BY <2>2
  <2>6. i.op \in Ops
    BY <2>4, <2>5
  <2>7. i.op = "jump" => i.to \in 2..LastTarget
    BY <2>2, <2>4 DEF LastTarget
  <2>8. QED BY <2>3, <2>6, <2>7 DEF Ops
<1>5. CASE i = Loaded(PC) /\ PC % Word = 0 /\ PC \div Word \notin DOMAIN program /\ HandlerOffset(PC) \in DOMAIN HandlerText
  <2>1. i = [op |-> HandlerText[HandlerOffset(PC)], to |-> EPC]
    BY <1>5, Zenon DEF Loaded
  <2>2. HandlerOffset(PC) \in 1..5 /\ i.op = HandlerText[HandlerOffset(PC)]
    BY <1>5, <2>1 DEF HandlerText
  <2>3. \/ HandlerOffset(PC) = 1 /\ i.op = "check"
        \/ HandlerOffset(PC) = 2 /\ i.op = "bump"
        \/ HandlerOffset(PC) = 3 /\ i.op = "clear"
        \/ HandlerOffset(PC) = 4 /\ i.op = "enable"
        \/ HandlerOffset(PC) = 5 /\ i.op = "eret"
    BY <2>2 DEF HandlerText
  <2>4. EXCEPTION_ADDR \in Nat /\ EXCEPTION_ADDR % 2 = 0 /\ PC % 2 = 0
    BY <1>5, Bases DEF Word
  <2>5. HandlerOffset(PC) \in 1..5 => PC = EXCEPTION_ADDR + 2 * (HandlerOffset(PC) - 1)
    BY <2>4 DEF HandlerOffset, Word
  <2>6. QED BY <2>3, <2>4, <2>5
<1>6. CASE i = Loaded(PC) /\ PC % Word = 0 /\ PC \div Word \notin DOMAIN program /\ HandlerOffset(PC) \notin DOMAIN HandlerText
  <2>1. i = [op |-> "none", to |-> 0]
    BY <1>6, Zenon DEF Loaded
  <2>2. QED BY <2>1
<1>7. QED BY <1>1, <1>2, <1>3, <1>4, <1>5, <1>6

(* What an exception leaves in EPC. *)
LEMMA RecordPlace ==
  ASSUME PC \in Int, EPC \in Int, PlaceInv, NEW code, RecordException(code)
  PROVE  /\ EPC' \in Int /\ EPC' >= 0 /\ EPC' % 2 = 0
         /\ EXL => EPC' = EPC
         /\ EXL \/ PC >= 4 => EPC' = EPC \/ EPC' >= 2
         /\ ~EXL /\ ~running_in_delay_slot => EPC' = RoundDown(PC)
<1>1. EPC' = (IF EXL THEN EPC ELSE RoundDown(IF running_in_delay_slot THEN PC - 2 ELSE PC))
  BY DEF RecordException, Word
<1>2. CASE EXL
  BY <1>1, <1>2 DEF PlaceInv
<1>3. CASE ~EXL /\ running_in_delay_slot
  <2>1. EPC' = RoundDown(PC - 2) /\ PC - 2 \in Int /\ PC >= 2
    BY <1>1, <1>3 DEF PlaceInv
  <2>2. /\ RoundDown(PC - 2) \in Int /\ RoundDown(PC - 2) % 2 = 0
        /\ RoundDown(PC - 2) = (IF (PC - 2) % 2 = 0 THEN PC - 2 ELSE PC - 3)
    BY <2>1, Rounded
  <2>3. QED BY <1>3, <2>1, <2>2
<1>4. CASE ~EXL /\ ~running_in_delay_slot
  <2>1. EPC' = RoundDown(PC) /\ PC >= 0
    BY <1>1, <1>4 DEF PlaceInv
  <2>2. QED BY <1>4, <2>1, Rounded
<1>5. QED BY <1>2, <1>3, <1>4

-------------------------------------------------------------------------------
(* The values of the variables. *)
LEMMA RecordValues ==
  ASSUME ValuesTyped, NEW code, RecordException(code)
  PROVE  EXL' \in BOOLEAN /\ BD' \in BOOLEAN
BY DEF ValuesTyped, RecordException

LEMMA InitValues == Init => ValuesTyped /\ IntervalsKept
<1>1. SUFFICES ASSUME Init PROVE ValuesTyped /\ IntervalsKept
  OBVIOUS
<1>2. ValuesTyped
  BY <1>1 DEF Init, ValuesTyped, Idle
<1>3. 1..Len(frames) = {}
  BY <1>1 DEF Init
<1>4. QED BY <1>2, <1>3 DEF IntervalsKept

LEMMA NextValues == StepInv /\ BkptInv /\ ValuesTyped /\ [Next]_vars => ValuesTyped'
<1>1. SUFFICES ASSUME StepInv, BkptInv, ValuesTyped, [Next]_vars PROVE ValuesTyped'
  OBVIOUS
<1> USE DEF session, options, cp0, flags, control, points
<1>2. mapped_io \in BOOLEAN /\ DOMAIN job = {"over", "rest", "asked"} /\ bkpts \subseteq broken
  BY <1>1 DEF StepInv, FramesTyped, BkptInv
<1>3. CASE Poll
  <2>1. /\ UNCHANGED <<delayed_branches, IE, running_in_delay_slot, broken, job>>
        /\ pending' \in {pending, pending \/ mapped_io}
        /\ \/ RecordException("Int") /\ handle_exception
           \/ UNCHANGED <<EXL, BD, exception_occurred>>
    BY <1>3 DEF Poll
  <2>2. pending' \in BOOLEAN
    BY <1>1, <1>2, <2>1 DEF ValuesTyped
  <2>3. EXL' \in BOOLEAN /\ BD' \in BOOLEAN /\ exception_occurred' \in BOOLEAN
    BY <1>1, <2>1, RecordValues DEF handle_exception, ValuesTyped
  <2>4. QED BY <1>1, <2>1, <2>2, <2>3 DEF ValuesTyped
<1>4. CASE FetchFault
  <2>1. EXL' \in BOOLEAN /\ BD' \in BOOLEAN /\ exception_occurred' \in BOOLEAN
    BY <1>1, <1>4, RecordValues DEF FetchFault, handle_exception
  <2>2. UNCHANGED <<delayed_branches, IE, pending, running_in_delay_slot, broken, job>>
    BY <1>4 DEF FetchFault
  <2>3. QED BY <1>1, <2>1, <2>2 DEF ValuesTyped
<1>5. CASE LongJump
  BY <1>1, <1>5 DEF LongJump, ValuesTyped, Idle
<1>6. CASE After
  BY <1>1, <1>6 DEF After, handle_exception, ValuesTyped
<1>7. CASE Fault \/ Break
  <2>1. EXL' \in BOOLEAN /\ BD' \in BOOLEAN /\ exception_occurred' \in BOOLEAN
    BY <1>1, <1>7, RecordValues DEF Fault, Break
  <2>2. UNCHANGED <<delayed_branches, IE, pending, running_in_delay_slot, broken, job>>
    BY <1>7 DEF Fault, Break
  <2>3. QED BY <1>1, <2>1, <2>2 DEF ValuesTyped
<1>8. CASE Plain \/ Enable \/ Check \/ Bump \/ ClearCause \/ Exit
  BY <1>1, <1>8 DEF Plain, Enable, Check, Bump, ClearCause, Exit, ValuesTyped
<1>9. CASE Jump \/ Eret
  BY <1>1, <1>9 DEF Jump, Eret, JumpTo, ValuesTyped
<1>10. CASE ReturnFromSlot
  BY <1>1, <1>10 DEF ReturnFromSlot, ValuesTyped
<1>11. CASE ReturnFromOver
  <2>1. /\ job' = [job EXCEPT !.over = 0] /\ broken' = broken \cup {job.over} /\ job.over # 0
        /\ exception_occurred' = FALSE
        /\ UNCHANGED <<delayed_branches, EXL, IE, BD, pending, running_in_delay_slot>>
    BY <1>11 DEF ReturnFromOver
  <2>2. job'.over = 0
    BY <1>2, <2>1
  <2>3. QED BY <1>1, <2>1, <2>2 DEF ValuesTyped
<1>12. CASE ReturnToTop
  BY <1>1, <1>12 DEF ReturnToTop, ValuesTyped, Idle
<1>13. CASE Run
  BY <1>1, <1>13 DEF Run, ValuesTyped
<1>14. ASSUME NEW n, Resume(n) PROVE ValuesTyped'
  <2> DEFINE at == IF PC = 0 THEN Start ELSE PC
  <2>1. /\ job' = [over |-> IF at \in broken THEN at ELSE 0, rest |-> Minus(n, 1), asked |-> n]
        /\ broken' = broken \/ broken' = broken \ {at}
        /\ exception_occurred' = FALSE
        /\ UNCHANGED <<delayed_branches, IE, pending, running_in_delay_slot>>
        /\ RecordException("IBE") \/ UNCHANGED <<EXL, BD>>
    BY <1>14 DEF Resume
  <2>2. EXL' \in BOOLEAN /\ BD' \in BOOLEAN
    BY <1>1, <2>1, RecordValues DEF ValuesTyped
  <2> HIDE DEF at
  <2>3. job'.over = (IF at \in broken THEN at ELSE 0)
    BY <2>1
  <2>4. QED BY <1>1, <2>1, <2>2, <2>3 DEF ValuesTyped
<1>15. CASE AddBreakpoint
  BY <1>1, <1>15 DEF AddBreakpoint, ValuesTyped
<1>16. CASE DeleteBreakpoint
  BY <1>1, <1>16 DEF DeleteBreakpoint, ValuesTyped
<1>17. CASE Tick \/ UNCHANGED vars
  BY <1>1, <1>17 DEF Tick, vars, ValuesTyped
<1>18. QED
  BY <1>1, <1>3, <1>4, <1>5, <1>6, <1>7, <1>8, <1>9, <1>10, <1>11, <1>12, <1>13, <1>14, <1>15, <1>16, <1>17
  DEF Next, Simulate, Command, FetchNone, ControlC, Continue, Step

(* The frames of a call that is not the last one are kept, and the others    *)
(* are set from the interval.                                                *)
LEMMA TopSetInterval ==
  ASSUME frames \in Seq(Calls), Len(frames) > 0, IntervalsKept, mapped_io' = mapped_io,
         NEW m \in Counts, NEW n \in Counts, SetTop(m, n), mapped_io => n <= IO_INTERVAL
  PROVE  IntervalsKept'
<1>1. /\ frames' \in Seq(Calls) /\ Len(frames') = Len(frames) /\ Top'.left = n
      /\ \A i \in 1..(Len(frames) - 1) : frames'[i] = frames[i]
  BY TopSet
<1>2. ASSUME mapped_io, NEW i \in 1..Len(frames') PROVE frames'[i].left <= IO_INTERVAL
  <2>1. CASE i = Len(frames)
    BY <1>1, <1>2, <2>1 DEF Top
  <2>2. CASE i # Len(frames)
    <3>1. i \in 1..(Len(frames) - 1) /\ i \in 1..Len(frames)
      BY <1>1, <1>2, <2>2
    <3>2. QED BY <1>1, <1>2, <3>1 DEF IntervalsKept
  <2>3. QED BY <2>1, <2>2
<1>3. QED BY <1>2 DEF IntervalsKept

LEMMA NextIntervals == StepInv /\ IntervalsKept /\ [Next]_vars => IntervalsKept'
<1>1. SUFFICES ASSUME StepInv, IntervalsKept, [Next]_vars PROVE IntervalsKept'
  OBVIOUS
<1> USE DEF session, options, control
<1>2. frames \in Seq(Calls) /\ mapped_io \in BOOLEAN
  BY <1>1 DEF StepInv, FramesTyped
<1>3. Len(frames) > 0 => Top.steps \in Counts /\ Top.left \in Counts
  BY <1>2, TopTyped DEF Calls
<1>4. CASE Poll
  <2> DEFINE size == InnerSteps(Top.steps)
  <2>1. /\ Len(frames) > 0 /\ mapped_io' = mapped_io /\ Top.steps > 0
        /\ SetTop(Minus(Top.steps, size), size)
    BY <1>1, <1>4 DEF Poll, StepInv, FramesTyped
  <2>2. Top.steps \in 1..Forever
    BY <1>3, <2>1, ForeverIsLarge DEF Counts
  <2>3. size \in 1..Forever /\ size <= Top.steps /\ (mapped_io => size <= IO_INTERVAL)
    BY <1>2, <2>2, ForeverIsLarge DEF InnerSteps, Least
  <2> HIDE DEF size
  <2>4. Minus(Top.steps, size) \in Counts /\ size \in Counts
    BY <2>2, <2>3, ForeverIsLarge DEF Counts, Minus
  <2>5. QED BY <1>1, <1>2, <2>1, <2>3, <2>4, TopSetInterval
<1>5. CASE FetchFault \/ After
  <2>1. /\ SetTop(Top.steps, Minus(Top.left, 1)) /\ phase \in {"step", "after"} /\ mapped_io' = mapped_io
    BY <1>5 DEF FetchFault, After, EndIteration
  <2>2. Len(frames) > 0 /\ Top.left \in 1..Forever /\ Top.steps \in Counts
    <3>1. Len(frames) > 0 /\ Top.left > 0
      BY <1>1, <2>1 DEF StepInv, FramesTyped
    <3>2. QED BY <1>2, <1>3, <2>1, <3>1, ForeverIsLarge DEF Counts
  <2>3. mapped_io => Top.left <= IO_INTERVAL
    <3>1. Len(frames) \in 1..Len(frames)
      BY <1>2, <2>2
    <3>2. QED BY <1>1, <3>1 DEF IntervalsKept, Top
  <2>4. Minus(Top.left, 1) \in Counts /\ (mapped_io => Minus(Top.left, 1) <= IO_INTERVAL)
    BY <2>2, <2>3, ForeverIsLarge DEF Counts, Minus
  <2>5. QED BY <1>1, <1>2, <2>1, <2>2, <2>4, TopSetInterval
<1>6. CASE LongJump \/ ReturnToTop
  <2>1. Len(frames') = 0
    BY <1>6 DEF LongJump, ReturnToTop
  <2>2. 1..Len(frames') = {}
    BY <2>1
  <2>3. QED BY <2>2 DEF IntervalsKept
<1>7. CASE UNCHANGED <<mapped_io, frames>>
  BY <1>1, <1>7 DEF IntervalsKept
<1>8. ASSUME NEW t, mapped_io' = mapped_io, frames' = Append(frames, Frame(1, t))
      PROVE  IntervalsKept'
  <2>1. ASSUME mapped_io, NEW i \in 1..Len(frames') PROVE frames'[i].left <= IO_INTERVAL
    <3>1. CASE i = Len(frames) + 1
      <4>1. frames'[i] = Frame(1, t)
        BY <1>2, <1>8, <3>1
      <4>2. QED BY <4>1, ForeverIsLarge DEF Frame
    <3>2. CASE i # Len(frames) + 1
      <4>1. i \in 1..Len(frames) /\ frames'[i] = frames[i]
        BY <1>2, <1>8, <2>1, <3>2
      <4>2. QED BY <1>1, <2>1, <4>1 DEF IntervalsKept
    <3>3. QED BY <3>1, <3>2
  <2>2. QED BY <1>8, <2>1 DEF IntervalsKept
<1>9. CASE ReturnFromSlot
  <2>1. /\ frames' = SubSeq(frames, 1, Len(frames) - 1) /\ Len(frames) > 1 /\ mapped_io' = mapped_io
    BY <1>9 DEF ReturnFromSlot
  <2>2. Len(frames') = Len(frames) - 1 /\ \A i \in 1..(Len(frames) - 1) : frames'[i] = frames[i]
    BY <1>2, <2>1
  <2>3. 1..Len(frames') \subseteq 1..Len(frames)
    BY <1>2, <2>1, <2>2
  <2>4. QED BY <1>1, <2>1, <2>2, <2>3 DEF IntervalsKept
<1>10. ASSUME NEW n, frames' = <<Frame(n, 0)>> PROVE IntervalsKept'
  <2>1. Len(frames') = 1 /\ frames'[1] = Frame(n, 0)
    BY <1>10
  <2>2. frames'[1].left <= IO_INTERVAL
    BY <2>1, ForeverIsLarge DEF Frame
  <2>3. QED BY <2>1, <2>2 DEF IntervalsKept
<1>11. CASE Jump \/ Eret
  BY <1>7, <1>8, <1>11 DEF Jump, Eret, JumpTo
<1>12. CASE ReturnFromOver \/ Run \/ (\E n : Resume(n))
  BY <1>10, <1>12 DEF ReturnFromOver, Run, Resume
<1>13. CASE Plain \/ Enable \/ Check \/ Bump \/ ClearCause \/ Exit \/ Fault \/ Break
  BY <1>7, <1>13 DEF Plain, Enable, Check, Bump, ClearCause, Exit, Fault, Break
<1>14. CASE AddBreakpoint \/ DeleteBreakpoint \/ Tick \/ UNCHANGED vars
  BY <1>7, <1>14 DEF AddBreakpoint, DeleteBreakpoint, Tick, vars
<1>15. QED
  BY <1>1, <1>4, <1>5, <1>6, <1>9, <1>11, <1>12, <1>13, <1>14
  DEF Next, Simulate, Command, FetchNone, ControlC, Continue, Step

-------------------------------------------------------------------------------
(* The PC and EPC. *)
LEMMA NextPlace == StepInv /\ AddressInv /\ [Next]_vars => PlaceInv'
<1>1. SUFFICES ASSUME StepInv, AddressInv, [Next]_vars PROVE PlaceInv'
  OBVIOUS
<1> DEFINE E == EXCEPTION_ADDR
           L == Len(program)
<1>2. /\ PC \in Int /\ EPC \in Int /\ program \in Programs /\ PlaceInv
      /\ frames \in Seq(Calls) /\ (phase = "top") = (Len(frames) = 0)
  BY <1>1 DEF StepInv, FramesTyped, AddressInv
<1>3. L \in Nat /\ E \in Nat /\ E % 2 = 0 /\ 2 * L + 2 < E
  BY <1>2, Bases
<1>4. program' = program
  BY <1>1 DEF Next, Simulate, Command, Poll, FetchFault, FetchNone, After, Plain, Fault, Enable,
    Check, Bump, ClearCause, Jump, Eret, Exit, Break, ReturnFromSlot, ReturnFromOver, ReturnToTop,
    LongJump, Run, Continue, Step, Resume, AddBreakpoint, DeleteBreakpoint,
    Tick, ControlC, vars, session, options
<1>5. LastTarget = 2 * L + 1 /\ LastTarget' = 2 * L + 1
  BY <1>4 DEF LastTarget
<1> HIDE DEF E, L
<1>6. PC >= 0 /\ EPC >= 0 /\ EPC % 2 = 0 /\ (running_in_delay_slot => PC >= 2)
      /\ (PC >= E + 4 \/ (phase = "after" /\ PC >= E + 2) => EPC >= 2)
      /\ (PC % 2 # 0 => (IF phase = "after" THEN PC + 2 ELSE PC) <= 2 * L + 1)
  BY <1>2, <1>5 DEF PlaceInv, Bumped, E
<1>7. PlaceInv' = (/\ PC' >= 0 /\ EPC' >= 0 /\ EPC' % 2 = 0 /\ (running_in_delay_slot' => PC' >= 2)
                   /\ (PC' >= E + 4 \/ (phase' = "after" /\ PC' >= E + 2) => EPC' >= 2)
                   /\ (PC' % 2 # 0 => (IF phase' = "after" THEN PC' + 2 ELSE PC') <= 2 * L + 1))
  BY <1>5 DEF PlaceInv, Bumped, E
<1>8. ASSUME PC' = E, running_in_delay_slot' \in {running_in_delay_slot, FALSE}, phase' # "after",
             \/ EPC' = EPC
             \/ \E code : RecordException(code)
      PROVE  PlaceInv'
  <2>1. EPC' >= 0 /\ EPC' % 2 = 0
    BY <1>2, <1>6, <1>8, RecordPlace
  <2>2. QED BY <1>3, <1>7, <1>8, <2>1
<1>9. ASSUME UNCHANGED <<PC, EPC, running_in_delay_slot>>, phase' # "after"
      PROVE  PlaceInv'
  BY <1>2, <1>3, <1>6, <1>7, <1>9
<1> USE DEF session, options, cp0, flags, control, points
<1>10. CASE Poll
  <2>1. running_in_delay_slot' = running_in_delay_slot /\ phase' = "step"
        /\ (\/ RecordException("Int") /\ handle_exception
            \/ UNCHANGED <<EPC, PC>>)
    BY <1>10 DEF Poll
  <2>2. QED BY <1>8, <1>9, <2>1 DEF handle_exception, E
<1>11. CASE FetchFault
  <2>1. running_in_delay_slot' = running_in_delay_slot /\ phase' # "after"
        /\ RecordException("IBE") /\ handle_exception
    BY <1>11 DEF FetchFault, EndIteration
  <2>2. QED BY <1>8, <2>1 DEF handle_exception, E
<1>12. CASE After
  <2>1. running_in_delay_slot' = running_in_delay_slot /\ phase' # "after" /\ EPC' = EPC /\ phase = "after"
        /\ (PC' = E \/ PC' = PC + 2)
    BY <1>12 DEF After, EndIteration, handle_exception, Word, E
  <2>2. CASE PC' = PC + 2
    BY <1>2, <1>3, <1>6, <1>7, <2>1, <2>2
  <2>3. QED BY <1>8, <2>1, <2>2
<1>13. CASE LongJump \/ ReturnFromOver \/ ReturnToTop \/ Exit
  <2>1. UNCHANGED <<PC, EPC, running_in_delay_slot>> /\ phase' # "after"
    BY <1>13 DEF LongJump, ReturnFromOver, ReturnToTop, Exit
  <2>2. QED BY <1>9, <2>1
<1>14. CASE Fault \/ Break
  <2>1. PC' = PC /\ running_in_delay_slot' = running_in_delay_slot /\ (\E code : RecordException(code))
    BY <1>14 DEF Fault, Break
  <2>2. EPC' \in Int /\ EPC' >= 0 /\ EPC' % 2 = 0 /\ (PC >= 4 => EPC' = EPC \/ EPC' >= 2)
    BY <1>2, <2>1, RecordPlace
  <2>3. phase = "step" /\ (phase' = "return" \/ (phase' = "after" /\ InProgram(PC)))
    BY <1>2, <1>14, WhereRuns DEF Fault, Break, Executing
  <2>4. phase' = "return" \/ (phase' = "after" /\ PC % 2 = 0 /\ PC <= 2 * L)
    BY <2>3 DEF InProgram, L
  <2>5. PC' >= E + 4 \/ (phase' = "after" /\ PC' >= E + 2) => EPC' >= 2
    <3>1. E > 2 /\ (PC >= E + 4 => EPC >= 2 /\ PC >= 4)
      BY <1>2, <1>3, <1>6
    <3>2. PC' >= E + 4 => EPC' >= 2
      BY <2>1, <2>2, <3>1
    <3>3. phase' = "after" => ~(PC' >= E + 2)
      BY <1>2, <1>3, <2>1, <2>4
    <3>4. QED BY <3>2, <3>3
  <2>6. PC' % 2 # 0 => (IF phase' = "after" THEN PC' + 2 ELSE PC') <= 2 * L + 1
    BY <1>6, <2>1, <2>3, <2>4
  <2>7. PC' >= 0 /\ (running_in_delay_slot' => PC' >= 2)
    BY <1>6, <2>1
  <2>8. QED BY <1>7, <2>2, <2>5, <2>6, <2>7
<1>15. CASE Plain \/ Enable \/ Check \/ ClearCause \/ Bump
  <2>1. /\ PC' = PC /\ running_in_delay_slot' = running_in_delay_slot /\ phase' \in {"after", "return"}
        /\ phase = "step" /\ read_mem_inst(PC).op \in {"plain", "enable", "check", "clear", "bump"}
        /\ IF read_mem_inst(PC).op = "bump" THEN EPC' = EPC + 2 ELSE EPC' = EPC
    BY <1>15 DEF Plain, Enable, Check, ClearCause, Bump, Executing, Word
  <2>2. \/ PC % 2 = 0 /\ PC <= 2 * L /\ EPC' = EPC
        \/ PC \in {E, E + 4, E + 6} /\ EPC' = EPC
        \/ PC = E + 2 /\ EPC' = EPC + 2
    BY <1>2, <2>1, WhereRuns DEF InProgram, L, E
  <2>3. QED BY <1>2, <1>3, <1>6, <1>7, <2>1, <2>2
<1>16. CASE Jump \/ Eret
  <2>1. /\ EPC' = EPC /\ phase = "step"
        /\ \/ \E t \in 2..(2 * L + 1) : JumpTo(t) /\ PC <= 2 * L
           \/ JumpTo(EPC) /\ PC = E + 8
        /\ PC % 2 = 0
    BY <1>2, <1>3, <1>5, <1>16, WhereRuns DEF Jump, Eret, Executing, InProgram, L, E
  <2>2. PICK t \in Int : /\ JumpTo(t) /\ t >= 2
                         /\ \/ PC <= 2 * L /\ t <= 2 * L + 1
                            \/ PC = E + 8 /\ EPC >= 2 /\ t = EPC
    BY <1>2, <1>3, <1>6, <2>1
  <2>3. CASE ~delayed_branches
    <3>1. PC' = t - 2 /\ phase' = "after" /\ running_in_delay_slot' = running_in_delay_slot
      BY <2>2, <2>3 DEF JumpTo, Word
    <3>2. ~running_in_delay_slot
      BY <1>1, <2>3 DEF AddressInv, SequentialInv
    <3>3. QED BY <1>2, <1>3, <1>6, <1>7, <2>1, <2>2, <3>1, <3>2
  <2>4. CASE delayed_branches
    <3>1. PC' = PC + 2 /\ phase' = "poll"
      BY <2>2, <2>4 DEF JumpTo, Word
    <3>2. QED BY <1>2, <1>3, <1>6, <1>7, <2>1, <2>2, <3>1
  <2>5. QED BY <2>3, <2>4
<1>17. CASE ReturnFromSlot
  <2>1. /\ PC' = Top.target - 2 /\ phase' = "after" /\ EPC' = EPC /\ running_in_delay_slot' = FALSE
        /\ Len(frames) > 1
    BY <1>17 DEF ReturnFromSlot, Word
  <2>2. Top.target \in Int /\ Top = frames[Len(frames)] /\ Len(frames) \in 2..Len(frames)
    BY <1>2, <2>1, TopTyped DEF Calls, Top
  <2>3. Top.target >= 2 /\ (Top.target > 2 * L + 1 => Top.target % 2 = 0 /\ EPC >= 2)
    BY <1>1, <1>5, <2>2 DEF AddressInv, CallsInv, Targets
  <2>4. QED BY <1>2, <1>3, <1>6, <1>7, <2>1, <2>2, <2>3
<1>18. CASE Run
  <2>1. PC' = 2 /\ phase' = "poll" /\ EPC' = EPC
    BY <1>18 DEF Run, Start, Word
  <2>2. QED BY <1>2, <1>3, <1>6, <1>7, <2>1
<1>19. ASSUME NEW n, Resume(n) PROVE PlaceInv'
  <2>1. /\ PC' = (IF PC = 0 THEN 2 ELSE PC) /\ phase = "top" /\ phase' = "poll"
        /\ running_in_delay_slot' = running_in_delay_slot
        /\ IF PC' % 2 # 0 THEN RecordException("IBE") ELSE EPC' = EPC
    BY <1>19 DEF Resume, Start, Word
  <2>2. CASE PC' % 2 # 0
    <3>1. PC' = PC
      BY <1>2, <2>1, <2>2
    <3>2. EPC' \in Int /\ EPC' >= 0 /\ EPC' % 2 = 0
      BY <1>2, <2>1, <2>2, RecordPlace
    <3>3. PC % 2 # 0 /\ phase # "after" /\ phase' # "after" /\ PC <= 2 * L + 1
      BY <1>6, <2>1, <2>2, <3>1
    <3>4. ~(PC >= E + 4)
      BY <1>2, <1>3, <3>3
    <3>5. running_in_delay_slot' = running_in_delay_slot
      BY <2>1
    <3>6. QED BY <1>6, <1>7, <3>1, <3>2, <3>3, <3>4, <3>5
  <2>3. CASE PC' % 2 = 0
    <3>1. EPC' = EPC
      BY <2>1, <2>3
    <3>2. QED BY <1>2, <1>3, <1>6, <1>7, <2>1, <2>3, <3>1
  <2>4. PC' \in Int /\ (PC' % 2 = 0 \/ PC' % 2 # 0)
    BY <1>2, <2>1
  <2>5. QED BY <2>2, <2>3, <2>4
<1>20. CASE AddBreakpoint \/ DeleteBreakpoint \/ Tick \/ UNCHANGED vars
  <2>1. UNCHANGED <<PC, EPC, running_in_delay_slot, phase>>
    BY <1>20 DEF AddBreakpoint, DeleteBreakpoint, Tick, vars
  <2>2. QED BY <1>2, <1>3, <1>6, <1>7, <2>1
<1>21. QED
  BY <1>1, <1>10, <1>11, <1>12, <1>13, <1>14, <1>15, <1>16, <1>17, <1>18, <1>19, <1>20
  DEF Next, Simulate, Command, FetchNone, ControlC, Continue, Step

-------------------------------------------------------------------------------
(* The nested calls. *)
LEMMA TargetsSet ==
  ASSUME frames \in Seq(Calls), Len(frames) > 0, NEW m, NEW n, SetTop(m, n)
  PROVE  Len(frames') = Len(frames) /\ \A i \in 1..Len(frames) : frames'[i].target = frames[i].target
<1> DEFINE f == [steps |-> m, left |-> n, target |-> Top.target]
<1>1. frames' = [frames EXCEPT ![Len(frames)] = f] /\ f.target = frames[Len(frames)].target
  BY DEF SetTop, Top
<1> HIDE DEF f
<1>2. Len(frames') = Len(frames)
  BY <1>1
<1>3. ASSUME NEW i \in 1..Len(frames) PROVE frames'[i].target = frames[i].target
  <2>1. CASE i = Len(frames)
    <3>1. frames'[i] = f
      BY <1>1, <2>1
    <3>2. QED BY <1>1, <2>1, <3>1
  <2>2. CASE i # Len(frames)
    BY <1>1, <2>2
  <2>3. QED BY <2>1, <2>2
<1>4. QED BY <1>2, <1>3

LEMMA TargetsKept ==
  ASSUME Targets, EPC \in Int, EPC' \in Int, program' = program, Len(frames) \in Nat, Len(frames') \in Nat,
         Len(frames') <= Len(frames), \A i \in 2..Len(frames') : frames'[i].target = frames[i].target,
         Len(frames') <= 1 \/ EPC' = EPC \/ EPC' >= 2
  PROVE  Targets'
<1>1. LastTarget' = LastTarget
  BY DEF LastTarget
<1>2. ASSUME NEW i \in 2..Len(frames')
      PROVE  frames'[i].target >= 2 /\ (frames'[i].target > LastTarget => frames'[i].target % 2 = 0 /\ EPC' >= 2)
  <2>1. i \in 2..Len(frames) /\ ~(Len(frames') <= 1)
    BY <1>2
  <2>2. frames[i].target >= 2 /\ (frames[i].target > LastTarget => frames[i].target % 2 = 0 /\ EPC >= 2)
    BY <2>1 DEF Targets
  <2>3. QED BY <1>2, <2>1, <2>2
<1>3. QED BY <1>1, <1>2 DEF Targets

(* In a delay slot the PC is behind a jump of the program, or in the handler. *)
LEMMA SlotIsHigh ==
  ASSUME program \in Programs, PC \in Int, frames \in Seq(Calls), CallsInv, InSlot
  PROVE  PC >= 4
<1>1. Len(frames) \in Nat /\ Len(frames) > 1 /\ SlotPlace
  BY DEF CallsInv, InSlot
<1>2. Len(program) \in Nat /\ EXCEPTION_ADDR \in Nat /\ EXCEPTION_ADDR % 2 = 0 /\ 2 * Len(program) + 2 < EXCEPTION_ADDR
  BY Bases
<1>3. EXCEPTION_ADDR >= 4
  BY <1>2
<1>4. 2 * Len(frames) <= PC \/ PC = EXCEPTION_ADDR \/ PC = EXCEPTION_ADDR + 10
  BY <1>1, Zenon DEF SlotPlace
<1>5. QED BY <1>1, <1>2, <1>3, <1>4

LEMMA OneCall ==
  ASSUME program' \in Programs, Len(frames') \in Nat, Len(frames') <= 1
  PROVE  CallsInv'
<1>1. Len(program)' \in Nat
  BY RunLoopAssumption
<1>2. 2..Len(frames)' = {} /\ ~(Len(frames)' > 1)
  OBVIOUS
<1>3. Targets' /\ ~InSlot'
  BY <1>2 DEF Targets, InSlot
<1>4. Len(frames)' <= Len(program)' + 2
  BY <1>1
<1>5. QED BY <1>3, <1>4 DEF CallsInv

(* Where frames only lose something, and a delay slot is not begun. *)
LEMMA CallsKept ==
  ASSUME StepInv, CallsInv, EPC' \in Int, program' = program, Len(frames') \in Nat,
         Len(frames') <= Len(frames), \A i \in 2..Len(frames') : frames'[i].target = frames[i].target,
         Len(frames') <= 1 \/ EPC' = EPC \/ EPC' >= 2,
         InSlot' => SlotPlace'
  PROVE  CallsInv'
<1>1. EPC \in Int /\ frames \in Seq(Calls) /\ program \in Programs
  BY DEF StepInv, FramesTyped
<1>2. Len(frames) \in Nat /\ Len(program) \in Nat
  BY <1>1, Bases
<1>3. Targets'
  BY <1>1, <1>2, TargetsKept DEF CallsInv
<1>4. Len(frames') <= Len(program') + 2
  BY <1>2 DEF CallsInv
<1>5. QED BY <1>3, <1>4 DEF CallsInv

LEMMA PollCalls ==
  ASSUME StepInv, PlaceInv, CallsInv, Poll
  PROVE  CallsInv'
<1>1. /\ PC \in Int /\ EPC \in Int /\ program \in Programs /\ frames \in Seq(Calls) /\ Len(frames) > 0
      /\ phase = "poll" /\ Top.steps > 0 /\ program' = program
      /\ \E m, n : SetTop(m, n)
      /\ \/ RecordException("Int") /\ PC' = EXCEPTION_ADDR
         \/ PC' = PC /\ EPC' = EPC
  BY DEF Poll, StepInv, FramesTyped, session, options, handle_exception
<1>2. Len(frames') = Len(frames) /\ \A i \in 1..Len(frames) : frames'[i].target = frames[i].target
  BY <1>1, TargetsSet
<1>3. \A i \in 2..Len(frames') : frames'[i].target = frames[i].target
  BY <1>1, <1>2
<1>4. Len(frames) > 1 => InSlot /\ SlotPlace /\ PC >= 4
  BY <1>1, SlotIsHigh DEF InSlot, CallsInv
<1>5. EPC' \in Int /\ (Len(frames') <= 1 \/ EPC' = EPC \/ EPC' >= 2)
  <2>1. CASE PC' = PC /\ EPC' = EPC
    BY <1>1, <2>1
  <2>2. CASE RecordException("Int") /\ PC' = EXCEPTION_ADDR
    <3>1. EPC' \in Int /\ (PC >= 4 => EPC' = EPC \/ EPC' >= 2)
      BY <1>1, <2>2, RecordPlace
    <3>2. QED BY <1>1, <1>2, <1>4, <3>1, TopTyped
  <2>3. QED BY <1>1, <2>1, <2>2
<1>6. LastTarget' = LastTarget
  BY <1>1 DEF LastTarget
<1>7. ASSUME InSlot' PROVE SlotPlace'
  <2>1. Len(frames) > 1
    BY <1>2, <1>7 DEF InSlot
  <2>2. SlotPlace
    BY <1>4, <2>1
  <2>3. QED BY <1>1, <1>2, <1>6, <2>2 DEF SlotPlace
<1>8. QED BY <1>1, <1>2, <1>3, <1>5, <1>7, CallsKept

LEMMA IterationCalls ==
  ASSUME StepInv, ServedInv, PlaceInv, CallsInv, FetchFault \/ After
  PROVE  CallsInv'
<1>1. /\ PC \in Int /\ EPC \in Int /\ program \in Programs /\ frames \in Seq(Calls) /\ Len(frames) > 0
      /\ phase \in {"step", "after"} /\ EndIteration /\ program' = program
      /\ EPC' = EPC \/ (phase = "step" /\ RecordException("IBE"))
  BY DEF FetchFault, After, StepInv, FramesTyped, session, options, cp0
<1>2. Len(frames') = Len(frames) /\ \A i \in 1..Len(frames) : frames'[i].target = frames[i].target
  BY <1>1, TargetsSet DEF EndIteration
<1>3. \A i \in 2..Len(frames') : frames'[i].target = frames[i].target
  BY <1>1, <1>2
<1>4. Len(frames) = 1 \/ ~InSlot'
  BY <1>1, SlotEnds DEF ServedInv, SlotInv
<1>5. ~InSlot'
  BY <1>2, <1>4 DEF InSlot
<1>6. EPC' \in Int /\ (Len(frames') <= 1 \/ EPC' = EPC \/ EPC' >= 2)
  <2>1. CASE EPC' = EPC
    BY <1>1, <2>1
  <2>2. CASE phase = "step" /\ RecordException("IBE")
    <3>1. EPC' \in Int /\ (PC >= 4 => EPC' = EPC \/ EPC' >= 2)
      BY <1>1, <2>2, RecordPlace
    <3>2. Len(frames) > 1 => PC >= 4
      BY <1>1, <2>2, SlotIsHigh DEF InSlot
    <3>3. QED BY <1>1, <1>2, <3>1, <3>2, TopTyped
  <2>3. QED BY <1>1, <2>1, <2>2
<1>7. QED BY <1>1, <1>2, <1>3, <1>5, <1>6, CallsKept

LEMMA ExecuteCalls ==
  ASSUME StepInv, PlaceInv, CallsInv, Plain \/ Enable \/ Check \/ Bump \/ Exit \/ Fault \/ Break \/ ClearCause
  PROVE  CallsInv'
<1>1. /\ PC \in Int /\ EPC \in Int /\ program \in Programs /\ frames \in Seq(Calls) /\ Len(frames) > 0
      /\ phase = "step" /\ phase' \in {"after", "return"} /\ program' = program /\ frames' = frames
      /\ EPC' = EPC \/ EPC' = EPC + 2 \/ (\E code : RecordException(code))
  BY DEF Plain, Enable, Check, Bump, Exit, Fault, Break, ClearCause, Executing, StepInv, FramesTyped,
    session, options, cp0, Word
<1>2. ~InSlot'
  BY <1>1 DEF InSlot
<1>3. EPC' \in Int /\ (Len(frames') <= 1 \/ EPC' = EPC \/ EPC' >= 2)
  <2>1. CASE EPC' = EPC
    BY <1>1, <2>1
  <2>2. CASE EPC' = EPC + 2
    BY <1>1, <2>2 DEF PlaceInv
  <2>3. CASE \E code : RecordException(code)
    <3>1. EPC' \in Int /\ (PC >= 4 => EPC' = EPC \/ EPC' >= 2)
      BY <1>1, <2>3, RecordPlace
    <3>2. Len(frames) > 1 => PC >= 4
      BY <1>1, SlotIsHigh DEF InSlot
    <3>3. QED BY <1>1, <3>1, <3>2, TopTyped
  <2>4. QED BY <1>1, <2>1, <2>2, <2>3
<1>4. QED BY <1>1, <1>2, <1>3, CallsKept

(* A jump in a delay slot is in the program, behind the jumps around it; the *)
(* handler returns from no delay slot.                                       *)
LEMMA JumpCalls ==
  ASSUME StepInv, PlaceInv, CallsInv, Jump \/ Eret
  PROVE  CallsInv'
<1> DEFINE E == EXCEPTION_ADDR
           L == Len(program)
<1>1. /\ PC \in Int /\ EPC \in Int /\ program \in Programs /\ frames \in Seq(Calls) /\ Len(frames) > 0
      /\ phase = "step" /\ program' = program /\ EPC' = EPC
  BY DEF Jump, Eret, Executing, StepInv, FramesTyped, session, options, cp0
<1>2. L \in Nat /\ E \in Nat /\ E % 2 = 0 /\ 2 * L + 2 < E /\ Len(frames) \in Nat
  BY <1>1, Bases
<1>3. LastTarget = 2 * L + 1 /\ LastTarget' = 2 * L + 1
  BY <1>1 DEF LastTarget
<1>4. PICK t \in Int : /\ JumpTo(t)
                       /\ \/ 2 <= PC /\ PC <= 2 * L /\ t >= 2 /\ t <= 2 * L + 1
                          \/ PC = E + 8 /\ t = EPC
  <2>1. CASE Jump
    <3>1. InProgram(PC) /\ read_mem_inst(PC).to \in 2..(2 * L + 1) /\ JumpTo(read_mem_inst(PC).to)
      BY <1>1, <1>3, <2>1, WhereRuns DEF Jump, Executing
    <3>2. QED BY <1>2, <3>1 DEF InProgram
  <2>2. CASE Eret
    BY <1>1, <2>2, WhereRuns DEF Eret, Executing
  <2>3. QED BY <2>1, <2>2
<1>5. PC = E + 8 => EPC >= 2 /\ EPC % 2 = 0
  <2>1. PC = E + 8 => Bumped
    BY <1>2 DEF Bumped
  <2>2. QED BY <2>1 DEF PlaceInv
<1>6. Len(frames) > 1 => \/ 2 * Len(frames) <= PC /\ PC <= 2 * L + 2
                         \/ PC = E \/ PC = E + 10
  BY <1>1, <1>3 DEF InSlot, CallsInv, SlotPlace
<1> HIDE DEF E, L
<1>7. \/ 2 * Len(frames) <= PC /\ PC <= 2 * L /\ t >= 2 /\ t <= 2 * L + 1
      \/ PC = E + 8 /\ t = EPC /\ Len(frames) = 1
  <2>1. Len(frames) = 1 \/ Len(frames) > 1
    BY <1>1, TopTyped
  <2>2. QED BY <1>1, <1>2, <1>4, <1>6, <2>1
<1>8. CASE phase' = "after" /\ frames' = frames
  <2>1. ~InSlot'
    BY <1>8 DEF InSlot
  <2>2. QED BY <1>1, <1>2, <1>8, <2>1, CallsKept
<1>9. CASE PC' = PC + 2 /\ frames' = Append(frames, Frame(1, t))
  <2>1. /\ Len(frames') = Len(frames) + 1 /\ frames'[Len(frames) + 1] = Frame(1, t)
        /\ \A i \in 1..Len(frames) : frames'[i] = frames[i]
    BY <1>1, <1>9
  <2>2. Frame(1, t).target = t
    BY DEF Frame
  <2>3. Len(frames') <= Len(program') + 2
    <3>1. Len(program') = L
      BY <1>1 DEF L
    <3>2. Len(frames) <= L \/ Len(frames) = 1
      BY <1>1, <1>2, <1>7
    <3>3. QED BY <1>2, <2>1, <3>1, <3>2
  <2>4. SlotPlace'
    <3>1. (2 * Len(frames') <= PC' /\ PC' <= LastTarget' + 1) \/ PC' = E + 10
      BY <1>1, <1>2, <1>3, <1>7, <1>9, <2>1
    <3>2. QED BY <3>1 DEF SlotPlace, E
  <2>5. ASSUME NEW i \in 2..Len(frames')
        PROVE  frames'[i].target >= 2 /\ (frames'[i].target > 2 * L + 1 => frames'[i].target % 2 = 0 /\ EPC >= 2)
    <3>1. CASE i = Len(frames) + 1
      <4>1. frames'[i].target = t
        BY <2>1, <2>2, <3>1
      <4>2. QED BY <1>1, <1>2, <1>5, <1>7, <4>1
    <3>2. CASE i # Len(frames) + 1
      <4>1. i \in 2..Len(frames) /\ i \in 1..Len(frames)
        BY <1>2, <2>1, <2>5, <3>2
      <4>2. QED BY <1>3, <2>1, <4>1 DEF CallsInv, Targets
    <3>3. QED BY <3>1, <3>2
  <2>6. Targets'
    BY <1>1, <1>3, <2>5 DEF Targets
  <2>7. QED BY <2>3, <2>4, <2>6 DEF CallsInv
<1>10. QED BY <1>4, <1>8, <1>9 DEF JumpTo, Word

LEMMA NextCalls == StepInv /\ ServedInv /\ AddressInv /\ [Next]_vars => CallsInv'
<1>1. SUFFICES ASSUME StepInv, ServedInv, AddressInv, [Next]_vars PROVE CallsInv'
  OBVIOUS
<1>2. /\ PC \in Int /\ EPC \in Int /\ program \in Programs /\ frames \in Seq(Calls)
      /\ PlaceInv /\ CallsInv
  BY <1>1 DEF StepInv, FramesTyped, AddressInv
<1> USE DEF session, options, cp0, control
<1>3. CASE Poll
  BY <1>1, <1>2, <1>3, PollCalls
<1>4. CASE FetchFault \/ After
  BY <1>1, <1>2, <1>4, IterationCalls
<1>5. CASE Plain \/ Enable \/ Check \/ Bump \/ Exit \/ Fault \/ Break \/ ClearCause
  BY <1>1, <1>2, <1>5, ExecuteCalls
<1>6. CASE Jump \/ Eret
  BY <1>1, <1>2, <1>6, JumpCalls
<1>7. CASE ReturnFromSlot
  <2>1. /\ frames' = SubSeq(frames, 1, Len(frames) - 1) /\ Len(frames) > 1 /\ phase' = "after"
        /\ program' = program /\ EPC' = EPC
    BY <1>7 DEF ReturnFromSlot
  <2>2. Len(frames') = Len(frames) - 1 /\ \A i \in 1..(Len(frames) - 1) : frames'[i] = frames[i]
    BY <1>2, <2>1
  <2>3. Len(frames') \in Nat /\ Len(frames') <= Len(frames) /\ \A i \in 2..Len(frames') : frames'[i] = frames[i]
    BY <1>2, <2>1, <2>2
  <2>4. ~InSlot'
    BY <2>1 DEF InSlot
  <2>5. QED BY <1>1, <1>2, <2>1, <2>3, <2>4, CallsKept
<1>8. CASE ReturnFromOver \/ ReturnToTop \/ LongJump \/ Run \/ (\E n : Resume(n))
  <2>1. program' = program /\ (frames' = <<>> \/ \E f : frames' = <<f>>)
    BY <1>8 DEF ReturnFromOver, ReturnToTop, LongJump, Run, Resume
  <2>2. Len(frames') \in Nat /\ Len(frames') <= 1
    <3>1. CASE frames' = <<>>
      BY <3>1
    <3>2. ASSUME NEW f, frames' = <<f>> PROVE Len(frames') \in Nat /\ Len(frames') <= 1
      BY <3>2
    <3>3. QED BY <2>1, <3>1, <3>2
  <2>3. QED BY <1>2, <2>1, <2>2, OneCall
<1>9. CASE AddBreakpoint \/ DeleteBreakpoint \/ Tick \/ UNCHANGED vars
  <2>1. UNCHANGED <<program, frames, PC, EPC, phase>>
    BY <1>9 DEF AddBreakpoint, DeleteBreakpoint, Tick, vars
  <2>2. CallsInv' = CallsInv
    BY <2>1 DEF CallsInv, InSlot, SlotPlace, Targets, LastTarget, Top
  <2>3. QED BY <1>2, <2>2
<1>10. QED
  BY <1>1, <1>3, <1>4, <1>5, <1>6, <1>7, <1>8, <1>9
  DEF Next, Simulate, Command, FetchNone, ControlC, Continue, Step

-------------------------------------------------------------------------------
(* Without delayed branches. *)
LEMMA DelayKept == [Next]_vars => delayed_branches' = delayed_branches /\ program' = program
BY DEF Next, Simulate, Command, Poll, FetchFault, FetchNone, After, Plain, Fault, Enable,
  Check, Bump, ClearCause, Jump, Eret, Exit, Break, ReturnFromSlot, ReturnFromOver, ReturnToTop,
  LongJump, Run, Continue, Step, Resume, AddBreakpoint, DeleteBreakpoint,
  Tick, ControlC, vars, session, options

LEMMA NextSequential == StepInv /\ SequentialInv /\ [Next]_vars => SequentialInv'
<1>1. SUFFICES ASSUME StepInv, SequentialInv, [Next]_vars, ~delayed_branches PROVE SequentialInv'
  BY DelayKept DEF SequentialInv
<1>2. /\ PC \in Int /\ program \in Programs /\ frames \in Seq(Calls)
      /\ ~running_in_delay_slot /\ ~BD /\ Len(frames) <= 1
      /\ exception_occurred => phase \in {"after", "return", "top"}
  BY <1>1 DEF StepInv, FramesTyped, SequentialInv
<1>3. \A code : RecordException(code) => ~BD' /\ EXL'
  BY <1>2 DEF RecordException
<1> USE DEF session, options, cp0, flags, control
<1>4. ASSUME ~exception_occurred', ~running_in_delay_slot', ~BD', Len(frames') <= 1
      PROVE  SequentialInv'
  BY <1>4 DEF SequentialInv
<1>5. CASE Poll
  <2>1. Len(frames') = Len(frames)
    BY <1>1, <1>2, <1>5, TargetsSet DEF Poll, StepInv, FramesTyped
  <2>2. ~exception_occurred' /\ ~running_in_delay_slot' /\ ~BD'
    BY <1>2, <1>3, <1>5 DEF Poll, handle_exception
  <2>3. QED BY <1>2, <1>4, <2>1, <2>2
<1>6. CASE FetchFault \/ After
  <2>1. Len(frames') = Len(frames)
    BY <1>1, <1>2, <1>6, TargetsSet DEF FetchFault, After, EndIteration, StepInv, FramesTyped
  <2>2. ~exception_occurred' /\ ~running_in_delay_slot' /\ ~BD'
    BY <1>2, <1>3, <1>6 DEF FetchFault, After, handle_exception
  <2>3. QED BY <1>2, <1>4, <2>1, <2>2
<1>7. CASE Plain \/ Enable \/ Check \/ Bump \/ ClearCause \/ Exit
  <2>1. ~exception_occurred' /\ ~running_in_delay_slot' /\ ~BD' /\ frames' = frames
    BY <1>2, <1>7 DEF Plain, Enable, Check, Bump, ClearCause, Exit, Executing
  <2>2. QED BY <1>2, <1>4, <2>1
<1>8. CASE Fault \/ Break
  <2>1. /\ ~BD' /\ EXL' /\ PC' = PC /\ frames' = frames /\ ~running_in_delay_slot'
        /\ phase' = "return" \/ (phase' = "after" /\ InProgram(PC))
    BY <1>2, <1>3, <1>8, WhereRuns DEF Fault, Break, Executing
  <2>2. InProgram(PC) => PC < EXCEPTION_ADDR
    BY <1>2, Bases DEF InProgram
  <2>3. QED BY <1>2, <2>1, <2>2 DEF SequentialInv
<1>9. CASE Jump \/ Eret
  <2>1. ~exception_occurred' /\ ~running_in_delay_slot' /\ ~BD' /\ frames' = frames
    BY <1>1, <1>2, <1>9 DEF Jump, Eret, Executing, JumpTo
  <2>2. QED BY <1>2, <1>4, <2>1
<1>10. CASE ReturnFromSlot
  <2>1. Len(frames) > 1 /\ Len(frames) \in Nat
    BY <1>2, <1>10 DEF ReturnFromSlot
  <2>2. QED BY <1>2, <2>1
<1>11. CASE ReturnFromOver \/ Run \/ (\E n : Resume(n))
  <2>1. ~exception_occurred' /\ ~running_in_delay_slot' /\ ~BD'
    BY <1>2, <1>3, <1>11 DEF ReturnFromOver, Run, Resume
  <2>2. PICK f : frames' = <<f>>
    BY <1>11 DEF ReturnFromOver, Run, Resume
  <2>3. Len(frames') = 1
    BY <2>2
  <2>4. QED BY <1>4, <2>1, <2>3
<1>12. CASE ReturnToTop \/ LongJump
  <2>1. phase' = "top" /\ frames' = <<>> /\ ~running_in_delay_slot' /\ ~BD'
    BY <1>2, <1>12 DEF ReturnToTop, LongJump
  <2>2. Len(frames') = 0
    BY <2>1
  <2>3. QED BY <2>1, <2>2 DEF SequentialInv
<1>13. CASE AddBreakpoint \/ DeleteBreakpoint
  <2>1. phase' = "top" /\ frames' = frames /\ ~running_in_delay_slot' /\ ~BD'
    BY <1>2, <1>13 DEF AddBreakpoint, DeleteBreakpoint
  <2>2. QED BY <1>2, <2>1 DEF SequentialInv
<1>14. CASE Tick \/ UNCHANGED vars
  BY <1>1, <1>14 DEF Tick, vars, SequentialInv
<1>15. QED
  BY <1>1, <1>5, <1>6, <1>7, <1>8, <1>9, <1>10, <1>11, <1>12, <1>13, <1>14
  DEF Next, Simulate, Command, FetchNone, ControlC, Continue, Step

(* An exception that sets EPC is handled by itself only if it is a fault.    *)
LEMMA HandlingKept ==
  ASSUME NEW code, handled' = Handling(code), Faulted', handled.state # "kept"
  PROVE  code \in {"Ov", "IBE"} /\ handled'.at = PC
<1>1. CASE code \in {"Ov", "IBE"}
  <2>1. handled' = [state |-> "kept", at |-> PC]
    BY <1>1 DEF Handling
  <2>2. QED BY <1>1, <2>1
<1>2. CASE code \notin {"Ov", "IBE"}
  <2>1. CASE handled.state = "open"
    <3>1. handled' = [state |-> "lost", at |-> handled.at]
      BY <1>2, <2>1 DEF Handling
    <3>2. handled'.state = "lost"
      BY <3>1
    <3>3. QED BY <3>2 DEF Faulted
  <2>2. CASE handled.state # "open"
    <3>1. handled' = handled
      BY <1>2, <2>2 DEF Handling
    <3>2. handled'.state \notin {"kept", "open"}
      BY <2>2, <3>1
    <3>3. QED BY <3>2 DEF Faulted
  <2>3. QED BY <2>1, <2>2
<1>3. QED BY <1>1, <1>2

(* EXL is set with every fault that is to be handled, and only eret, which   *)
(* ends its handling, and ReturnToTop, which opens it, clear EXL.            *)
LEMMA NextKept == StepInv /\ KeptInv /\ [Next]_vars => KeptInv'
<1>1. SUFFICES ASSUME StepInv, KeptInv, [Next]_vars PROVE KeptInv'
  OBVIOUS
<1> USE DEF session, options, cp0, flags, control, points
<1>2. ASSUME NEW code, RecordException(code) PROVE KeptInv'
  BY <1>2 DEF RecordException, KeptInv
<1>3. ASSUME UNCHANGED <<EXL, handled>> PROVE KeptInv'
  BY <1>1, <1>3 DEF KeptInv
<1>4. ASSUME handled' = NoFault PROVE KeptInv'
  BY <1>4 DEF NoFault, KeptInv
<1>5. CASE Poll \/ FetchFault \/ Fault \/ Break \/ (\E n : Resume(n))
  <2>1. (\E code : RecordException(code)) \/ UNCHANGED <<EXL, handled>>
    BY <1>5 DEF Poll, FetchFault, Fault, Break, Resume
  <2>2. QED BY <1>2, <1>3, <2>1
<1>6. CASE Eret \/ LongJump \/ Run
  <2>1. handled' = NoFault \/ UNCHANGED <<EXL, handled>>
    BY <1>6 DEF Eret, LongJump, Run
  <2>2. QED BY <1>3, <1>4, <2>1
<1>7. CASE ReturnToTop
  <2>1. CASE handled' = [state |-> "open", at |-> handled.at]
    BY <2>1 DEF KeptInv
  <2>2. CASE handled' = handled /\ (handled.state # "kept" \/ EXL' = EXL)
    BY <1>1, <2>2 DEF KeptInv
  <2>3. QED BY <1>7, <2>1, <2>2 DEF ReturnToTop
<1>8. CASE After \/ Plain \/ Enable \/ Check \/ Bump \/ ClearCause \/ Jump \/ Exit
  BY <1>3, <1>8 DEF After, Plain, Enable, Check, Bump, ClearCause, Jump, Exit
<1>9. CASE ReturnFromSlot \/ ReturnFromOver \/ AddBreakpoint \/ DeleteBreakpoint \/ Tick \/ UNCHANGED vars
  BY <1>3, <1>9 DEF ReturnFromSlot, ReturnFromOver, AddBreakpoint, DeleteBreakpoint, Tick, vars
<1>10. QED
  BY <1>1, <1>5, <1>6, <1>7, <1>8, <1>9 DEF Next, Simulate, Command, FetchNone, ControlC, Continue, Step

LEMMA NextReturn == StepInv /\ AddressInv /\ [Next]_vars => ReturnInv'
<1>1. SUFFICES ASSUME StepInv, AddressInv, [Next]_vars, ~delayed_branches, Faulted'
               PROVE  ReturnInv'
  BY DelayKept DEF ReturnInv
<1> DEFINE E == EXCEPTION_ADDR
           L == Len(program)
           Behind == PC >= E + 4 \/ (phase = "after" /\ PC >= E + 2)
           at == RoundDown(handled.at)
<1>2. /\ PC \in Int /\ EPC \in Int /\ program \in Programs /\ frames \in Seq(Calls)
      /\ PC >= 0 /\ EPC >= 0 /\ (Behind => EPC >= 2)
      /\ PC % 2 # 0 => (IF phase = "after" THEN PC + 2 ELSE PC) <= 2 * L + 1
  BY <1>1 DEF StepInv, FramesTyped, AddressInv, PlaceInv, Bumped, LastTarget
<1>3. L \in Nat /\ E \in Nat /\ E % 2 = 0 /\ 2 * L + 2 < E
  BY <1>2, Bases
<1>4. /\ ~running_in_delay_slot /\ Len(frames) <= 1
      /\ exception_occurred => phase \in {"after", "return", "top"}
      /\ exception_occurred /\ phase = "after" => EXL /\ PC < E
  BY <1>1 DEF AddressInv, SequentialInv
<1>5. Faulted => /\ handled.at \in Int /\ at \in Int /\ at + 2 < E
                 /\ phase = "after" /\ PC < E /\ ~exception_occurred => PC + 2 < E
                 /\ EXL \/ PC >= E => EPC = at + (IF Behind THEN 2 ELSE 0)
  BY <1>1, Rounded DEF AddressInv, ReturnInv, EPCKept, Bumped
<1>6. ReturnInv' = (/\ handled'.at \in Int /\ at' + 2 < E
                    /\ phase' = "after" /\ PC' < E /\ ~exception_occurred' => PC' + 2 < E
                    /\ EXL' \/ PC' >= E => EPC' = at' + (IF Behind' THEN 2 ELSE 0))
  <2>1. ~delayed_branches' /\ Faulted'
    BY <1>1, DelayKept
  <2>2. QED BY <2>1, Zenon DEF ReturnInv, EPCKept, Bumped
<1>7. Behind' = (PC' >= E + 4 \/ (phase' = "after" /\ PC' >= E + 2))
  OBVIOUS
<1> HIDE DEF E, L, Behind
<1> USE DEF session, options, cp0, flags, control, points
(* The exception of before is the one of now. *)
<1>8. ASSUME handled' = handled
      PROVE  /\ Faulted /\ at' = at /\ handled'.at \in Int /\ at' \in Int /\ at' + 2 < E
             /\ phase = "after" /\ PC < E /\ ~exception_occurred => PC + 2 < E
             /\ EXL \/ PC >= E => EPC = at' + (IF Behind THEN 2 ELSE 0)
  <2>1. Faulted /\ at' = at
    BY <1>1, <1>8 DEF Faulted
  <2>2. QED BY <1>5, <1>8, <2>1
<1>9. ASSUME UNCHANGED <<handled, PC, EPC>>, EXL' => EXL, phase # "after", phase' # "after"
      PROVE  ReturnInv'
  <2>1. Behind' = Behind
    BY <1>9 DEF Behind, E
  <2>2. QED BY <1>6, <1>8, <1>9, <2>1
<1>kept. ~EXL => handled.state # "kept"
  BY <1>1 DEF AddressInv, KeptInv
(* An exception that is raised outside of the handler. *)
<1>10. ASSUME NEW code, RecordException(code), ~EXL, PC < E
       PROVE  /\ code \in {"Ov", "IBE"} /\ handled'.at = PC /\ at' \in Int
              /\ at' = (IF PC % 2 = 0 THEN PC ELSE PC - 1) /\ EPC' = at'
  <2>1. handled' = Handling(code) /\ EPC' = RoundDown(PC)
    BY <1>4, <1>10 DEF RecordException
  <2>2. code \in {"Ov", "IBE"} /\ handled'.at = PC
    BY <1>1, <1>10, <1>kept, <2>1, HandlingKept
  <2>3. at' = RoundDown(PC)
    BY <2>2 DEF RoundDown
  <2>4. QED BY <1>2, <2>1, <2>2, <2>3, Rounded
<1>11. ASSUME NEW code, RecordException(code), EXL
       PROVE  handled' = handled /\ EPC' = EPC /\ EXL'
  BY <1>11 DEF RecordException
<1>12. CASE Poll
  <2>1. phase = "poll" /\ phase' = "step"
        /\ (\/ RecordException("Int") /\ ~EXL
            \/ UNCHANGED <<EPC, EXL, handled, PC>>)
    BY <1>12 DEF Poll
  <2>2. CASE RecordException("Int") /\ ~EXL
    <3>1. handled' = Handling("Int")
      BY <2>2 DEF RecordException
    <3>2. QED BY <1>1, <1>kept, <2>2, <3>1, HandlingKept
  <2>3. QED BY <1>9, <2>1, <2>2
<1>13. CASE FetchFault
  <2>1. /\ RecordException("IBE") /\ PC' = E /\ phase = "step" /\ phase' # "after"
        /\ PC % 2 # 0
    BY <1>2, <1>13, WhereRuns DEF FetchFault, EndIteration, handle_exception, E
  <2>2. PC <= 2 * L + 1 /\ ~Behind' /\ ~Behind
    BY <1>2, <1>3, <1>7, <2>1 DEF Behind
  <2>3. CASE EXL
    <3>1. handled' = handled /\ EPC' = EPC
      BY <1>11, <2>1, <2>3
    <3>2. QED BY <1>6, <1>8, <2>1, <2>2, <2>3, <3>1
  <2>4. CASE ~EXL
    <3>1. handled'.at = PC /\ at' = PC - 1 /\ EPC' = at'
      BY <1>2, <1>3, <1>10, <2>1, <2>2, <2>4
    <3>2. QED BY <1>2, <1>3, <1>6, <2>1, <2>2, <3>1
  <2>5. QED BY <2>3, <2>4
<1>14. CASE After
  <2>1. /\ UNCHANGED <<handled, EPC, EXL>> /\ phase = "after" /\ phase' # "after"
        /\ \/ exception_occurred /\ PC' = E
           \/ ~exception_occurred /\ PC' = PC + 2
    BY <1>14 DEF After, EndIteration, handle_exception, Word, E
  <2>2. CASE exception_occurred /\ PC' = E
    <3>1. ~Behind' /\ ~Behind /\ EXL
      BY <1>2, <1>3, <1>4, <1>7, <2>1, <2>2 DEF Behind
    <3>2. QED BY <1>6, <1>8, <2>1, <2>2, <3>1
  <2>3. CASE ~exception_occurred /\ PC' = PC + 2
    <3>1. Behind' = Behind
      BY <1>2, <1>3, <1>7, <2>1, <2>3 DEF Behind
    <3>2. PC' >= E => PC >= E
      BY <1>2, <1>3, <1>8, <2>1, <2>3
    <3>3. QED BY <1>6, <1>8, <2>1, <2>3, <3>1, <3>2
  <2>4. QED BY <2>1, <2>2, <2>3
<1>15. CASE Fault \/ Break
  <2>1. /\ PC' = PC /\ phase = "step" /\ exception_occurred'
        /\ \/ RecordException("Ov") /\ phase' = "after" /\ PC % 2 = 0 /\ PC <= 2 * L
           \/ RecordException("Bp") /\ phase' = "return"
    BY <1>2, <1>15, WhereRuns DEF Fault, Break, Executing, InProgram, L
  <2>2. CASE EXL
    <3>1. handled' = handled /\ EPC' = EPC
      BY <1>11, <2>1, <2>2
    <3>2. Behind' = Behind
      BY <1>2, <1>3, <1>7, <2>1 DEF Behind
    <3>3. QED BY <1>6, <1>8, <2>1, <2>2, <3>1, <3>2
  <2>3. CASE ~EXL /\ RecordException("Bp")
    <3>1. handled' = Handling("Bp")
      BY <2>3 DEF RecordException
    <3>2. QED BY <1>1, <1>kept, <2>3, <3>1, HandlingKept
  <2>4. CASE ~EXL /\ RecordException("Ov") /\ phase' = "after" /\ PC % 2 = 0 /\ PC <= 2 * L
    <3>1. PC < E /\ PC + 2 < E
      BY <1>2, <1>3, <2>4
    <3>2. handled'.at = PC /\ at' = PC /\ EPC' = at'
      BY <1>10, <2>4, <3>1
    <3>3. ~Behind'
      <4>1. PC' < E /\ PC' \in Int
        BY <1>2, <2>1, <3>1
      <4>2. QED BY <1>3, <1>7, <4>1 DEF Behind
    <3>4. QED BY <1>2, <1>3, <1>6, <2>1, <3>1, <3>2, <3>3
  <2>5. QED BY <2>1, <2>2, <2>3, <2>4
<1>16. CASE Plain \/ Enable \/ Check \/ ClearCause \/ Bump \/ Exit
  <2>1. /\ PC' = PC /\ phase' \in {"after", "return"} /\ UNCHANGED <<handled, EXL>> /\ phase = "step"
        /\ read_mem_inst(PC).op \in {"plain", "exit", "enable", "check", "clear", "bump"}
        /\ IF read_mem_inst(PC).op = "bump" THEN EPC' = EPC + 2 /\ phase' = "after" ELSE EPC' = EPC
    BY <1>16 DEF Plain, Enable, Check, ClearCause, Bump, Exit, Executing, Word
  <2>2. \/ PC <= 2 * L /\ EPC' = EPC
        \/ PC \in {E, E + 4, E + 6} /\ EPC' = EPC
        \/ PC = E + 2 /\ EPC' = EPC + 2 /\ phase' = "after"
    BY <1>2, <2>1, WhereRuns DEF InProgram, L, E
  <2>3. \/ EPC' = EPC /\ Behind' = Behind
        \/ PC = E + 2 /\ EPC' = EPC + 2 /\ Behind' /\ ~Behind
    BY <1>2, <1>3, <1>7, <2>1, <2>2 DEF Behind
  <2>4. EXL' \/ PC' >= E => EPC' = at' + (IF Behind' THEN 2 ELSE 0)
    <3>1. CASE EPC' = EPC /\ Behind' = Behind
      BY <1>8, <2>1, <3>1
    <3>2. CASE PC = E + 2 /\ EPC' = EPC + 2 /\ Behind' /\ ~Behind
      BY <1>2, <1>3, <1>8, <2>1, <3>2
    <3>3. QED BY <2>3, <3>1, <3>2
  <2>5. PC' < E => PC' + 2 < E
    BY <1>2, <1>3, <2>1, <2>2
  <2>6. QED BY <1>6, <1>8, <2>1, <2>4, <2>5
<1>17. CASE Jump
  <2>1. /\ UNCHANGED <<handled, EPC, EXL>> /\ phase = "step" /\ phase' = "after" /\ PC' = read_mem_inst(PC).to - 2
        /\ PC <= 2 * L /\ read_mem_inst(PC).to \in 2..(2 * L + 1)
    BY <1>1, <1>2, <1>17, WhereRuns DEF Jump, JumpTo, Executing, InProgram, LastTarget, Word, L
  <2>2. PC' \in Int /\ PC' + 2 < E /\ PC' < E /\ PC < E
    BY <1>2, <1>3, <2>1
  <2>3. ~Behind' /\ ~Behind
    BY <1>2, <1>3, <1>7, <2>1, <2>2 DEF Behind
  <2>4. ~(PC' >= E)
    BY <1>3, <2>2
  <2>5. QED BY <1>6, <1>8, <2>1, <2>2, <2>3, <2>4
<1>18. CASE Eret
  <2>1. handled'.state = "none"
    BY <1>18 DEF Eret, NoFault
  <2>2. QED BY <1>1, <2>1 DEF Faulted
<1>19. CASE ReturnFromSlot
  <2>1. Len(frames) > 1 /\ Len(frames) \in Nat
    BY <1>2, <1>19 DEF ReturnFromSlot
  <2>2. QED BY <1>4, <2>1
<1>20. CASE ReturnFromOver \/ ReturnToTop
  <2>1. UNCHANGED <<PC, EPC>> /\ (EXL' => EXL) /\ phase # "after" /\ phase' # "after"
        /\ \/ handled' = handled
           \/ handled' = [state |-> "open", at |-> handled.at] /\ handled.state = "kept"
    <3>1. CASE ReturnFromOver
      BY <3>1 DEF ReturnFromOver, Returning
    <3>2. CASE ReturnToTop
      BY <3>2 DEF ReturnToTop, Returning
    <3>3. QED BY <1>20, <3>1, <3>2
  <2>2. CASE handled' = [state |-> "open", at |-> handled.at] /\ handled.state = "kept"
    <3>1. Faulted /\ handled'.at = handled.at
      BY <2>2 DEF Faulted
    <3>2. at' = at /\ Behind' = Behind
      BY <2>1, <3>1 DEF RoundDown, Behind, E
    <3>3. QED BY <1>5, <1>6, <2>1, <3>1, <3>2
  <2>3. QED BY <1>9, <2>1, <2>2
<1>21. CASE LongJump
  <2>1. /\ UNCHANGED <<PC, EPC, EXL>> /\ phase' = "top"
        /\ handled' = IF phase = "after" THEN NoFault ELSE handled
    BY <1>21 DEF LongJump
  <2>2. CASE phase = "after"
    <3>1. handled'.state = "none"
      BY <2>1, <2>2 DEF NoFault
    <3>2. QED BY <1>1, <3>1 DEF Faulted
  <2>3. QED BY <1>9, <2>1, <2>2
<1>22. CASE Run
  <2>1. handled'.state = "none"
    BY <1>22 DEF Run, NoFault
  <2>2. QED BY <1>1, <2>1 DEF Faulted
<1>23. ASSUME NEW n, Resume(n) PROVE ReturnInv'
  <2>1. /\ PC' = (IF PC = 0 THEN 2 ELSE PC) /\ phase = "top" /\ phase' = "poll"
        /\ IF PC' % 2 # 0 THEN RecordException("IBE") ELSE UNCHANGED <<EPC, EXL, handled>>
    BY <1>23 DEF Resume, Start, Word
  <2>2. Behind' = Behind
    BY <1>2, <1>3, <1>7, <2>1 DEF Behind
  <2>3. (PC' >= E) = (PC >= E)
    BY <1>2, <1>3, <2>1
  <2>4. CASE PC' % 2 = 0
    <3>1. UNCHANGED <<EPC, EXL, handled>>
      BY <2>1, <2>4
    <3>2. QED BY <1>6, <1>8, <2>1, <2>2, <2>3, <3>1
  <2>5. CASE PC' % 2 # 0 /\ EXL
    <3>1. handled' = handled /\ EPC' = EPC
      BY <1>11, <2>1, <2>5
    <3>2. QED BY <1>6, <1>8, <2>1, <2>2, <2>3, <2>5, <3>1
  <2>6. CASE PC' % 2 # 0 /\ ~EXL
    <3>1. PC' = PC /\ PC % 2 # 0
      BY <1>2, <2>1, <2>6
    <3>2. PC <= 2 * L + 1
      BY <1>2, <2>1, <3>1
    <3>3. ~Behind
      BY <1>2, <1>3, <2>1, <3>2 DEF Behind
    <3>4. handled'.at = PC /\ at' = PC - 1 /\ EPC' = at' /\ PC < E
      BY <1>2, <1>3, <1>10, <2>1, <2>6, <3>1, <3>2
    <3>5. QED BY <1>2, <1>3, <1>6, <2>1, <2>2, <3>2, <3>3, <3>4
  <2>7. PC' \in Int /\ (PC' % 2 = 0 \/ PC' % 2 # 0)
    BY <1>2, <2>1
  <2>8. QED BY <2>4, <2>5, <2>6, <2>7
<1>24. CASE AddBreakpoint \/ DeleteBreakpoint
  <2>1. UNCHANGED <<handled, PC, EPC, EXL>> /\ phase # "after" /\ phase' # "after"
    BY <1>24 DEF AddBreakpoint, DeleteBreakpoint
  <2>2. QED BY <1>9, <2>1
<1>25. CASE Tick \/ UNCHANGED vars
  <2>1. UNCHANGED <<handled, PC, EPC, EXL, phase, exception_occurred>>
    BY <1>25 DEF Tick, vars
  <2>2. Behind' = Behind
    BY <2>1 DEF Behind, E
  <2>3. QED BY <1>6, <1>8, <2>1, <2>2
<1>26. QED
  BY <1>1, <1>12, <1>13, <1>14, <1>15, <1>16, <1>17, <1>18, <1>19, <1>20, <1>21, <1>22, <1>23, <1>24, <1>25
  DEF Next, Simulate, Command, FetchNone, ControlC, Continue, Step

LEMMA InitAddressInv == Init => AddressInv
<1>1. SUFFICES ASSUME Init PROVE AddressInv
  OBVIOUS
<1>2. /\ program \in Programs /\ PC = 0 /\ EPC = 0 /\ ~running_in_delay_slot /\ ~BD
      /\ phase = "top" /\ ~exception_occurred /\ Len(frames) = 0 /\ handled.state = "none"
  BY <1>1 DEF Init, NoFault
<1>3. PlaceInv
  <2>1. EXCEPTION_ADDR \in Nat
    BY <1>2, Bases
  <2>2. QED BY <1>2, <2>1 DEF PlaceInv, Bumped
<1>4. CallsInv
  <2>1. Len(program) \in Nat /\ 2..Len(frames) = {} /\ ~InSlot
    BY <1>2, Bases DEF InSlot
  <2>2. QED BY <1>2, <2>1 DEF CallsInv, Targets
<1>5. SequentialInv /\ ReturnInv /\ KeptInv
  BY <1>2 DEF SequentialInv, ReturnInv, KeptInv, Faulted
<1>6. QED BY <1>3, <1>4, <1>5 DEF AddressInv

LEMMA NextAddressInv == StepInv /\ ServedInv /\ AddressInv /\ [Next]_vars => AddressInv'
BY NextPlace, NextCalls, NextSequential, NextReturn, NextKept DEF AddressInv

(* The variables keep their types, and the calls of run_spim nest no deeper *)
(* than a row of jumps, each in the delay slot of the one before, is long,  *)
(* for every program: the stack the recursion of run_spim takes is bounded, *)
(* no register goes below address 0, and no inner loop outruns the interval *)
(* between two polls.                                                       *)
THEOREM ValuesAreTyped == Spec => []TypeOK
<1>1. StepInv /\ BkptInv /\ ValuesTyped /\ IntervalsKept /\ AddressInv => TypeOK
  <2>1. SUFFICES ASSUME StepInv, BkptInv, ValuesTyped, IntervalsKept, AddressInv PROVE TypeOK
    OBVIOUS
  <2>2. frames \in Seq(Calls) /\ (phase = "top") = (Len(frames) = 0)
    BY <2>1 DEF StepInv, FramesTyped
  <2>3. (phase = "top") = (frames = <<>>) /\ DOMAIN frames = 1..Len(frames)
    BY <2>2
  <2>4. PC \in Nat /\ EPC \in Nat /\ EPC % Word = 0
    BY <2>1 DEF StepInv, FramesTyped, AddressInv, PlaceInv, Word
  <2>5. ASSUME NEW i \in DOMAIN frames
        PROVE  frames[i].steps \in 0..Forever /\ frames[i].left \in 0..Forever
    <3>1. frames[i] \in Calls
      BY <2>2, <2>5
    <3>2. QED BY <3>1 DEF Calls, Counts
  <2>6. \A i \in DOMAIN frames : mapped_io => frames[i].left <= IO_INTERVAL
    BY <2>1, <2>3 DEF IntervalsKept
  <2>7. mapped_io \in BOOLEAN /\ program \in Programs /\ phase \in {"top", "poll", "step", "after", "return"}
    BY <2>1 DEF StepInv, FramesTyped
  <2>8. bkpts \subseteq broken /\ Len(frames) <= Len(program) + 2
    BY <2>1 DEF BkptInv, AddressInv, CallsInv
  <2>9. QED BY <2>1, <2>3, <2>4, <2>5, <2>6, <2>7, <2>8 DEF TypeOK, ValuesTyped
<1>2. QED
  BY InitBkptInv, NextBkptInv, InitStepInv, NextStepInv, InitServedInv, NextServedInv, InitValues, NextValues,
    NextIntervals, InitAddressInv, NextAddressInv, <1>1, PTL DEF Spec

(* Without delayed branches the handler's eret continues behind the          *)
(* instruction that faulted, whatever is raised while EXL is set, wherever   *)
(* the user stops, steps or interrupts between two instructions, for as long *)
(* as EPC is the fault's: a breakpoint inside the handler, which clears EXL, *)
(* does not move it, but the next exception before the eret does.            *)
THEOREM ReturnsBehindFaults == Spec => ReturnBehindFault
<1> DEFINE Behind == Resuming /\ handled.state \in {"kept", "open"} => PC' + Word = RoundDown(handled.at) + Word
<1>1. StepInv /\ AddressInv /\ [Next]_vars => [Behind]_vars
  <2>1. SUFFICES ASSUME StepInv, AddressInv, [Next]_vars, Resuming, handled.state \in {"kept", "open"}
                 PROVE  PC' + Word = RoundDown(handled.at) + Word
    OBVIOUS
  <2>2. Eret
    BY <2>1 DEF Resuming, Next, Simulate, Command, Poll, FetchFault, FetchNone, After, Plain, Fault, Enable,
      Check, Bump, ClearCause, Jump, Exit, Break, ReturnFromSlot, ReturnFromOver, ReturnToTop,
      Returning, Executing, LongJump, Run, Continue, Step, Resume, AddBreakpoint, DeleteBreakpoint,
      Tick, ControlC, vars, control
  <2>3. PC' = EPC - 2 /\ ~delayed_branches
    BY <2>1, <2>2 DEF Eret, JumpTo, Resuming, Word
  <2>4. /\ PC \in Int /\ EPC \in Int /\ program \in Programs /\ read_mem_inst(PC).op = "eret"
    BY <2>1 DEF StepInv, FramesTyped, Resuming
  <2>5. EXCEPTION_ADDR \in Nat /\ PC = EXCEPTION_ADDR + 8
    BY <2>4, Bases, WhereRuns
  <2>6. handled.at \in Int /\ EPCKept
    BY <2>1, <2>3 DEF AddressInv, ReturnInv, Faulted
  <2>7. EPC = RoundDown(handled.at) + 2 /\ RoundDown(handled.at) \in Int
    BY <2>5, <2>6, Rounded DEF EPCKept, Bumped
  <2>8. QED BY <2>3, <2>4, <2>7 DEF Word
<1>2. QED
  BY InitStepInv, NextStepInv, InitServedInv, NextServedInv, InitAddressInv, NextAddressInv, <1>1, PTL
  DEF Spec, ReturnBehindFault
===============================================================================
