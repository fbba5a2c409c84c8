-------------------------------- MODULE RunLoop --------------------------------
(* The simulator's control: the commands run, continue, step, breakpoint and  *)
(* delete (spim.c), run_program with its breakpoints (spim-utils.c), the loop *)
(* of run_spim with interrupts, exceptions and delayed branches (run.c), and  *)
(* the exception handler the programs are loaded with (exceptions.s).         *)
(*                                                                            *)
(* Addresses are even numbers (Word = 2); odd ones are misaligned.  A program *)
(* is a sequence of instructions at Word, 2 * Word, ...; of an instruction    *)
(* only its effect on the control is kept.  "jump" is a taken branch or jr.   *)
EXTENDS Integers, Sequences, FiniteSets

CONSTANTS Programs,        \* programs: sequences of [op |-> ..., to |-> address]
          EXCEPTION_ADDR,  \* where the handler is loaded
          IO_INTERVAL,     \* instructions between two polls of the devices
          MaxSteps,        \* bound: largest argument of the command step
          MaxCommands,     \* bound: how often run, continue or step is given
          BreakAddrs       \* bound: addresses at which breakpoints are set

Word == 2
RoundDown(a) == a - (a % Word)
Start == Word              \* starting_address ()
Forever == MaxSteps + 1    \* DEFAULT_RUN_STEPS, which no run uses up

Ops == {"plain", "fault", "enable", "exit", "jump"}

ASSUME RunLoopAssumption ==
  /\ MaxSteps \in Nat /\ IO_INTERVAL \in 1..MaxSteps /\ MaxCommands \in Nat
  /\ EXCEPTION_ADDR \in Nat /\ EXCEPTION_ADDR % Word = 0
  /\ \A p \in Programs :
       /\ p \in Seq([op : Ops, to : Nat]) /\ Word * Len(p) + Word < EXCEPTION_ADDR
       /\ \A i \in DOMAIN p : p[i].op = "jump" => p[i].to \in Word..(Word * Len(p) + 1)

VARIABLES delayed_branches, mapped_io,  \* the options -delayed_branches, -mapped_io
          program,                      \* the instructions loaded
          broken,                       \* addresses that hold break_inst
          bkpts,                        \* the list of breakpoints
          PC, EPC, EXL, IE, BD, ExCode, \* CP0 registers, field by field
          pending,                      \* an IP bit of Cause
          exception_occurred, running_in_delay_slot,
          phase,                        \* where the simulator is
          frames,                       \* the nested calls of run_spim
          job                           \* the call of run_program

(* What is observed, and decides no step: the exception EPC was set for, the  *)
(* fault the handler has still to return from, with EPC its own ("kept"), the *)
(* same with EXL cleared by a debugger's breakpoint ("open"), or EPC taken by *)
(* a later exception since ("lost"), the breakpoints the user has asked for,  *)
(* those a jump to the top level has dropped, the instructions the current    *)
(* command has executed, and the number of commands (a bound).                *)
VARIABLES taken, handled, wanted, lost, count, commands

options == <<delayed_branches, mapped_io, program>>
points == <<broken, bkpts, wanted, lost>>
cp0 == <<EPC, EXL, IE, BD, ExCode, pending, taken, handled>>
flags == <<exception_occurred, running_in_delay_slot>>
control == <<phase, frames, job, count>>
session == <<options, commands>>
vars == <<session, points, PC, cp0, flags, control>>

--------------------------------------------------------------------------------
(* Memory                                                                     *)

HandlerText == <<"check", "bump", "clear", "enable", "eret">>
HandlerOffset(a) == (a - EXCEPTION_ADDR) \div Word + 1

(* The instruction loaded at a, and the one read there.                       *)
Loaded(a) ==
  LET i == a \div Word IN
  CASE a % Word # 0 -> [op |-> "misaligned", to |-> 0]
    [] a % Word = 0 /\ i \in DOMAIN program -> program[i]
    [] a % Word = 0 /\ i \notin DOMAIN program /\ HandlerOffset(a) \in DOMAIN HandlerText ->
         [op |-> HandlerText[HandlerOffset(a)], to |-> EPC]
    [] OTHER -> [op |-> "none", to |-> 0]

read_mem_inst(a) == IF a \in broken THEN [op |-> "break", to |-> 0] ELSE Loaded(a)

(* An exception for which EPC is set: a fault is the one to be handled, and   *)
(* anything else takes EPC from a fault whose handler has been opened.        *)
NoFault == [state |-> "none", at |-> 0]
Handling(code) ==
  CASE code \in {"Ov", "IBE"} -> [state |-> "kept", at |-> PC]
    [] code \notin {"Ov", "IBE"} /\ handled.state = "open" -> [state |-> "lost", at |-> handled.at]
    [] OTHER -> handled

(* raise_exception: EPC and BD keep the first of nested exceptions.           *)
RecordExceptionAlways(code) ==
  /\ EPC' = RoundDown(IF running_in_delay_slot THEN PC - Word ELSE PC)
  /\ BD' = (BD \/ (running_in_delay_slot /\ ~EXL))
  /\ taken' = IF EXL THEN taken ELSE [cause |-> code, at |-> PC]
  /\ handled' = IF EXL THEN handled ELSE Handling(code)
  /\ ExCode' = code /\ EXL' = TRUE

RecordException(code) ==
  /\ EPC' = IF EXL THEN EPC ELSE RoundDown(IF running_in_delay_slot THEN PC - Word ELSE PC)
  /\ BD' = (BD \/ (running_in_delay_slot /\ ~EXL))
  /\ taken' = IF EXL THEN taken ELSE [cause |-> code, at |-> PC]
  /\ handled' = IF EXL THEN handled ELSE Handling(code)
  /\ ExCode' = code /\ EXL' = TRUE

handle_exception == PC' = EXCEPTION_ADDR /\ exception_occurred' = FALSE

--------------------------------------------------------------------------------
(* run_spim.  A frame holds the steps left behind the current inner loop, the *)
(* steps left in it, and the target of the jump the caller is executing.      *)

Frame(steps, target) == [steps |-> steps, left |-> 0, target |-> target]
Top == frames[Len(frames)]
Minus(n, k) == IF n = Forever THEN Forever ELSE n - k
Least(m, n) == IF m < n THEN m ELSE n
SetTop(steps, left) ==
  frames' = [frames EXCEPT ![Len(frames)] = [steps |-> steps, left |-> left, target |-> Top.target]]

(* The head of the outer loop: the devices are polled, perhaps one of them    *)
(* raises its IP bit, and an interrupt that may be taken is taken.            *)
InnerStepsWhole(steps) == steps
InnerSteps(steps) == IF mapped_io THEN Least(IO_INTERVAL, steps) ELSE steps

Poll ==
  /\ phase = "poll" /\ Top.steps > 0
  /\ LET size == InnerSteps(Top.steps)
     IN  SetTop(Minus(Top.steps, size), size)
  /\ phase' = "step"
  /\ \E ip \in {pending, pending \/ mapped_io} :
       /\ pending' = ip
       /\ \/ /\ IE /\ ~EXL /\ ip
             /\ RecordException("Int") /\ handle_exception
          \/ /\ ~(IE /\ ~EXL /\ ip)
             /\ UNCHANGED <<EPC, EXL, BD, ExCode, taken, handled, PC, exception_occurred>>
  /\ UNCHANGED <<session, points, IE, running_in_delay_slot, job, count>>

(* The timer expires in front of an instruction: bump_CP0_timer.              *)
Tick ==
  /\ phase = "step" /\ ~pending
  /\ pending' = TRUE
  /\ UNCHANGED <<session, points, PC, EPC, EXL, IE, BD, ExCode, taken, handled, flags, control>>

EndIteration ==
  /\ SetTop(Top.steps, Minus(Top.left, 1))
  /\ phase' = IF Top.left = 1 THEN "poll" ELSE "step"

Counted == count' = IF Len(frames) = 1 /\ job.asked # Forever THEN count + 1 ELSE count

(* No instruction can be read at the PC: the handler is entered at once.      *)
FetchFault ==
  /\ phase = "step" /\ read_mem_inst(PC).op = "misaligned"
  /\ RecordException("IBE") /\ handle_exception
  /\ EndIteration /\ Counted
  /\ UNCHANGED <<session, points, IE, pending, running_in_delay_slot, job>>

(* longjmp to the top level: all calls are gone and nothing they had still to *)
(* do is done.  run_error calls it, and so does Ctrl-C: a signal may come     *)
(* anywhere, even between an instruction and the bump of the PC; with         *)
(* memory-mapped I/O it is a character the poll reads.                        *)
Idle == [over |-> 0, rest |-> 0, asked |-> Forever]
LongJump ==
  /\ phase' = "top" /\ frames' = <<>> /\ job' = Idle /\ count' = 0
  /\ lost' = lost \cup ({job.over} \cap wanted)
  /\ taken' = IF phase = "after" THEN [taken EXCEPT !.cause = "cut"] ELSE taken
  /\ handled' = IF phase = "after" THEN NoFault ELSE handled
  /\ UNCHANGED <<session, broken, bkpts, wanted, PC, EPC, EXL, IE, BD, ExCode, pending,
                 flags>>

FetchNone == phase = "step" /\ read_mem_inst(PC).op = "none" /\ LongJump
ControlC ==
  /\ IF mapped_io THEN phase = "poll" /\ Top.steps > 0 ELSE phase # "top"
  /\ LongJump

Executing(op) == phase = "step" /\ read_mem_inst(PC).op = op /\ Counted

(* Instructions that end like any other: the bump of the PC follows.          *)
Plain == Executing("plain") /\ phase' = "after"
         /\ UNCHANGED <<session, points, PC, cp0, flags, frames, job>>

Fault ==
  /\ Executing("fault") /\ phase' = "after"
  /\ RecordException("Ov") /\ exception_occurred' = TRUE
  /\ UNCHANGED <<session, points, PC, IE, pending, running_in_delay_slot, frames, job>>

Enable ==
  /\ Executing("enable") /\ phase' = "after" /\ IE' = TRUE
  /\ UNCHANGED <<session, points, PC, EPC, EXL, BD, ExCode, pending, taken, handled, flags,
                 frames, job>>

(* The handler: it leaves the program if the PC was bad, skips an instruction *)
(* and clears the Cause register, pending interrupts included.                *)
CauseIs(code) == ExCode = code /\ ~pending /\ ~BD

Check ==
  /\ Executing("check")
  /\ phase' = IF CauseIs("IBE") /\ EPC % Word # 0 THEN "return" ELSE "after"
  /\ UNCHANGED <<session, points, PC, cp0, flags, frames, job>>

BumpNothing ==
  /\ Executing("bump") /\ phase' = "after"
  /\ UNCHANGED <<session, points, PC, cp0, flags, frames, job>>

Bump ==
  /\ Executing("bump") /\ phase' = "after" /\ EPC' = EPC + Word
  /\ UNCHANGED <<session, points, PC, EXL, IE, BD, ExCode, pending, taken, handled, flags,
                 frames, job>>

ClearCause ==
  /\ Executing("clear") /\ phase' = "after"
  /\ ExCode' = "Int" /\ BD' = FALSE /\ pending' = FALSE
  /\ UNCHANGED <<session, points, PC, EPC, EXL, IE, taken, handled, flags, frames, job>>

(* A taken branch, or jr: with delayed branches the next instruction is run   *)
(* by a call of run_spim of its own, and the jump happens when it returns.    *)
JumpTo(target) ==
  \/ /\ ~delayed_branches
     /\ PC' = target - Word /\ phase' = "after"
     /\ UNCHANGED <<running_in_delay_slot, frames>>
  \/ /\ delayed_branches
     /\ running_in_delay_slot' = TRUE
     /\ PC' = PC + Word /\ phase' = "poll"
     /\ frames' = Append(frames, Frame(1, target))

Jump ==
  /\ Executing("jump") /\ JumpTo(read_mem_inst(PC).to)
  /\ UNCHANGED <<session, points, cp0, exception_occurred, job>>

EretKeepingEXL ==
  /\ Executing("eret") /\ JumpTo(EPC)
  /\ UNCHANGED <<session, points, cp0, exception_occurred, job>>

Eret ==
  /\ Executing("eret") /\ JumpTo(EPC) /\ EXL' = FALSE /\ handled' = NoFault
  /\ UNCHANGED <<session, points, EPC, IE, BD, ExCode, pending, taken, exception_occurred, job>>

(* The two instructions run_spim returns at: the exit system call and the     *)
(* debugger's break.  The PC stays at them.                                   *)
Exit == Executing("exit") /\ phase' = "return"
        /\ UNCHANGED <<session, points, PC, cp0, flags, frames, job>>

Break ==
  /\ Executing("break") /\ phase' = "return"
  /\ RecordException("Bp") /\ exception_occurred' = TRUE
  /\ UNCHANGED <<session, points, PC, IE, pending, running_in_delay_slot, frames, job>>

(* Mutant: the exception is only seen where the inner loop ends. *)
AfterInnerLoop ==
  /\ phase = "after" /\ EndIteration
  /\ \/ exception_occurred /\ Top.left = 1 /\ handle_exception
     \/ ~(exception_occurred /\ Top.left = 1) /\ PC' = PC + Word /\ UNCHANGED exception_occurred
  /\ UNCHANGED <<session, points, cp0, running_in_delay_slot, job, count>>

(* After an instruction: the PC moves on, or to the handler.                  *)
After ==
  /\ phase = "after" /\ EndIteration
  /\ \/ exception_occurred /\ handle_exception
     \/ ~exception_occurred /\ PC' = PC + Word /\ UNCHANGED exception_occurred
  /\ UNCHANGED <<session, points, cp0, running_in_delay_slot, job, count>>

--------------------------------------------------------------------------------
(* run_program and what becomes of a run_spim that is over.                   *)

Returning == phase = "return" \/ (phase = "poll" /\ Top.steps = 0)

(* The call that ran a delay slot: the jump is taken, whatever happened.      *)
ReturnFromSlot ==
  /\ Returning /\ Len(frames) > 1
  /\ running_in_delay_slot' = FALSE
  /\ PC' = Top.target - Word /\ phase' = "after"
  /\ frames' = SubSeq(frames, 1, Len(frames) - 1)
  /\ UNCHANGED <<session, points, cp0, exception_occurred, job, count>>

(* The call that stepped over a breakpoint: add_breakpoint puts it back, and  *)
(* the rest of the steps is run.                                              *)
ReturnForgetting ==
  /\ Returning /\ Len(frames) = 1 /\ job.over # 0
  /\ exception_occurred' = FALSE
  /\ frames' = <<Frame(job.rest, 0)>> /\ phase' = "poll"
  /\ job' = [job EXCEPT !.over = 0]
  /\ UNCHANGED <<session, points, PC, cp0, running_in_delay_slot, count>>

ReturnFromOver ==
  /\ Returning /\ Len(frames) = 1 /\ job.over # 0
  /\ bkpts' = IF job.over \in broken THEN bkpts ELSE bkpts \cup {job.over}
  /\ broken' = broken \cup {job.over}
  /\ exception_occurred' = FALSE
  /\ frames' = <<Frame(job.rest, 0)>> /\ phase' = "poll"
  /\ job' = [job EXCEPT !.over = 0]
  /\ UNCHANGED <<session, wanted, lost, PC, cp0, running_in_delay_slot, count>>

(* The last call: back to the prompt.  At a breakpoint EXL is cleared.        *)
ReturnToTop ==
  /\ Returning /\ Len(frames) = 1 /\ job.over = 0
  /\ \/ /\ exception_occurred /\ ExCode = "Bp"
        /\ EXL' = FALSE
        /\ handled' = IF handled.state = "kept" THEN [state |-> "open", at |-> handled.at] ELSE handled
     \/ ~(exception_occurred /\ ExCode = "Bp") /\ UNCHANGED <<EXL, handled>>
  /\ phase' = "top" /\ frames' = <<>> /\ job' = Idle /\ count' = 0
  /\ UNCHANGED <<session, points, PC, EPC, IE, BD, ExCode, pending, taken, flags>>

--------------------------------------------------------------------------------
(* The commands.                                                              *)

Counting == commands < MaxCommands /\ commands' = commands + 1

(* The CP0 registers are not reset: a program left inside the handler starts  *)
(* again with EXL set.                                                        *)
Run ==
  /\ phase = "top" /\ phase' = "poll" /\ Counting
  /\ PC' = Start /\ exception_occurred' = FALSE
  /\ frames' = <<Frame(Forever, 0)>>
  /\ taken' = IF EXL THEN [taken EXCEPT !.cause = "cut"] ELSE taken
  /\ handled' = NoFault
  /\ UNCHANGED <<options, points, EPC, EXL, IE, BD, ExCode, pending,
                 running_in_delay_slot, job, count>>

(* continue and step: a breakpoint at the PC is taken out for one step.       *)
(* Looking for it at a misaligned PC raises an exception that is forgotten,   *)
(* but for what it leaves in the CP0 registers.                               *)
ResumeOneMore(n) ==
  LET at == IF PC = 0 THEN Start ELSE PC
      over == at \in broken
  IN  /\ phase = "top" /\ phase' = "poll" /\ Counting
      /\ PC' = at /\ exception_occurred' = FALSE
      /\ frames' = <<Frame(IF over THEN 1 ELSE n, 0)>>
      /\ job' = [over |-> IF over THEN at ELSE 0, rest |-> n, asked |-> n]
      /\ IF over /\ at \in bkpts THEN broken' = broken \ {at} /\ bkpts' = bkpts \ {at}
                                 ELSE UNCHANGED <<broken, bkpts>>
      /\ UNCHANGED <<options, wanted, lost, cp0, running_in_delay_slot, count>>

Resume(n) ==
  LET at == IF PC = 0 THEN Start ELSE PC
      over == at \in broken
  IN  /\ phase = "top" /\ phase' = "poll" /\ Counting
      /\ PC' = at /\ exception_occurred' = FALSE
      /\ frames' = <<Frame(IF over THEN 1 ELSE n, 0)>>
      /\ job' = [over |-> IF over THEN at ELSE 0, rest |-> Minus(n, 1), asked |-> n]
      /\ IF over /\ at \in bkpts THEN broken' = broken \ {at} /\ bkpts' = bkpts \ {at}
                                 ELSE UNCHANGED <<broken, bkpts>>
      /\ IF at % Word # 0 THEN RecordException("IBE")
                          ELSE UNCHANGED <<EPC, EXL, BD, ExCode, taken, handled>>
      /\ UNCHANGED <<options, wanted, lost, IE, pending, running_in_delay_slot, count>>

Continue == PC # 0 /\ Resume(Forever)
Step == \E n \in 1..MaxSteps : Resume(n)

(* add_breakpoint: set_breakpoint writes the break instruction before it      *)
(* finds out that there was no instruction to remember.                       *)
AddBreakpointTwice ==
  /\ phase = "top"
  /\ \E a \in BreakAddrs :
       /\ broken' = broken \cup {a} /\ bkpts' = bkpts \cup {a}
       /\ wanted' = IF Loaded(a).op = "none" THEN wanted ELSE wanted \cup {a}
       /\ lost' = lost \ {a}
  /\ exception_occurred' = FALSE
  /\ UNCHANGED <<session, PC, cp0, running_in_delay_slot, control>>

AddBreakpoint ==
  /\ phase = "top"
  /\ \E a \in BreakAddrs \ broken :
       /\ broken' = broken \cup {a}
       /\ \/ /\ Loaded(a).op # "none"
             /\ bkpts' = bkpts \cup {a} /\ wanted' = wanted \cup {a} /\ lost' = lost \ {a}
          \/ /\ Loaded(a).op = "none"
             /\ UNCHANGED <<bkpts, wanted, lost>>
  /\ exception_occurred' = FALSE
  /\ UNCHANGED <<session, PC, cp0, running_in_delay_slot, control>>

DeleteBreakpoint ==
  /\ phase = "top"
  /\ \E a \in bkpts \cup lost :
       /\ broken' = broken \ (bkpts \cap {a}) /\ bkpts' = bkpts \ {a}
       /\ wanted' = wanted \ {a} /\ lost' = lost \ {a}
  /\ UNCHANGED <<session, PC, cp0, flags, control>>

--------------------------------------------------------------------------------
Init ==
  /\ delayed_branches \in BOOLEAN /\ mapped_io \in BOOLEAN /\ program \in Programs
  /\ broken = {} /\ bkpts = {} /\ wanted = {} /\ lost = {}
  /\ PC = 0 /\ EPC = 0 /\ EXL = FALSE /\ IE = FALSE /\ BD = FALSE
  /\ ExCode = "Int" /\ pending = FALSE /\ taken = [cause |-> "none", at |-> 0]
  /\ handled = NoFault
  /\ exception_occurred = FALSE /\ running_in_delay_slot = FALSE
  /\ phase = "top" /\ frames = <<>> /\ job = Idle /\ count = 0 /\ commands = 0

Simulate ==
  \/ Poll \/ FetchFault \/ FetchNone \/ After
  \/ Plain \/ Fault \/ Enable \/ Check \/ Bump \/ ClearCause \/ Jump \/ Eret \/ Exit \/ Break
  \/ ReturnFromSlot \/ ReturnFromOver \/ ReturnToTop
Command == Run \/ Continue \/ Step \/ AddBreakpoint \/ DeleteBreakpoint

Next == Simulate \/ Command \/ Tick \/ ControlC
Spec == Init /\ [][Next]_vars /\ WF_vars(Simulate)

--------------------------------------------------------------------------------
(* The values the variables may take; the depth of the calls of run_spim is   *)
(* bounded by the length of a row of jumps in one another's delay slots.      *)
TypeOK ==
  /\ delayed_branches \in BOOLEAN /\ mapped_io \in BOOLEAN /\ program \in Programs
  /\ bkpts \subseteq broken /\ broken \subseteq BreakAddrs
  /\ PC \in Nat /\ EPC \in Nat /\ EPC % Word = 0
  /\ EXL \in BOOLEAN /\ IE \in BOOLEAN /\ BD \in BOOLEAN /\ pending \in BOOLEAN
  /\ exception_occurred \in BOOLEAN /\ running_in_delay_slot \in BOOLEAN
  /\ phase \in {"top", "poll", "step", "after", "return"}
  /\ (phase = "top") = (frames = <<>>) /\ Len(frames) <= Len(program) + 2
  /\ \A i \in DOMAIN frames :
       /\ frames[i].steps \in 0..Forever /\ frames[i].left \in 0..Forever
       /\ mapped_io => frames[i].left <= IO_INTERVAL

Resuming == phase = "step" /\ read_mem_inst(PC).op = "eret" /\ phase' = "after"

(* The handler returns behind the instruction whose exception it handled,     *)
(* whatever is raised while EXL is set and wherever the user stops, steps and *)
(* continues.  Excepted are a handler that Ctrl-C cuts off between an         *)
(* instruction and the bump of the PC, a program run afresh, and a fault      *)
(* whose EPC is lost in the one way there is: a debugger's breakpoint inside  *)
(* the handler clears EXL (spim-utils.c:364) although the handler is still to *)
(* return, and the next breakpoint or interrupt before its eret sets EPC.     *)
ReturnBehindFault ==
  [][Resuming /\ handled.state \in {"kept", "open"} => PC' + Word = RoundDown(handled.at) + Word]_vars

(* An interrupt is taken in front of an instruction, and the handler is to    *)
(* return to it: "Don't skip instruction at EPC since it has not executed."   *)
ReturnToInterrupted ==
  [][Resuming /\ taken.cause = "Int" => PC' + Word = taken.at]_vars

(* With memory-mapped I/O the loop of run_spim does not leave an interrupt    *)
(* that may be taken waiting: it is taken, wiped out by the handler, or the   *)
(* run is over.                                                               *)
InterruptNotDeferred ==
  (phase # "top" /\ mapped_io /\ IE /\ ~EXL /\ pending)
    ~> (EXL \/ ~pending \/ phase = "top")

(* Without delayed branches the handler, once entered, gets to its eret: EXL  *)
(* does not stay set, which would shut out every later interrupt.             *)
HandlerEnds ==
  (~delayed_branches /\ phase # "top" /\ PC = EXCEPTION_ADDR /\ EXL)
    ~> (~EXL \/ phase = "top")

(* While EXL is set it is the handler that runs, and no instruction of the    *)
(* program: every exception gets to it, whatever was stepped over, stopped,   *)
(* continued or polled when it was raised.  Excepted are an exception in a    *)
(* delay slot, whose handler the jump overwrites (run.c:133) and which leaves *)
(* BD set, and one after which Ctrl-C or a new run cut the handler off.       *)
ExceptionsServed ==
  phase = "step" /\ EXL /\ ~BD /\ taken.cause \in {"Ov", "IBE", "Int"} =>
    PC % Word # 0 \/ PC \div Word \notin DOMAIN program

(* At the prompt the breakpoints are the ones the user has asked for, but for *)
(* those whose stepping over was cut off by Ctrl-C or a run-time error; and   *)
(* an address that holds a break is in the list if an instruction is there.   *)
BreakpointsKept ==
  phase = "top" => /\ bkpts = wanted \ lost
                   /\ \A a \in broken : a \in bkpts \/ Loaded(a).op = "none"

(* No instruction under a breakpoint is executed, except the one the command  *)
(* starts at.                                                                 *)
StopsAtBreakpoints ==
  [][phase = "step" /\ phase' \in {"after", "poll"} /\ PC \in wanted \ lost
       => job.over = PC]_vars

(* step n that is not stopped executes n instructions: the one at which a     *)
(* breakpoint was, and the ones of all inner loops.                           *)
StepsExact ==
  [][phase = "poll" /\ phase' = "top" /\ Returning /\ Len(frames) = 1
        /\ job.over = 0 /\ job.asked # Forever
       => count = job.asked]_vars
================================================================================
