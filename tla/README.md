# A TLA+ verification of MIPS-RSA

The repository holds four programs that belong together:

* `C/`: a textbook RSA in C. It takes two numbers and a text, turns the numbers into
  primes with a sieve, computes the keys, encrypts the text char by char and decrypts
  it again.
* `mips/`: the same program in MIPS assembly, one function per file.
* `test/generate_mips.py`: a "linker" that concatenates the assembly files a program
  includes and replaces `#PUSH_REGISTERS` and `#POP_REGISTERS` by the code that saves
  registers, and `test/test.py`, which compares functions of both programs with fixed values.
* `spim-src/`: the SPIM simulator the assembly program runs on: an assembler, a
  memory, a processor with exceptions and delay slots, a memory-mapped console and a
  command shell with breakpoints.

This directory models them in TLA+. TLC checks the models on small instances and TLAPS
proves the theorems listed below for every value of the constants. `PROJECT.json` is
the index: components, runs, mutants of the code for every property, the map from
definitions to source lines, findings, hazards and theorems.
Line numbers count newlines only; some files of the simulator hold form feeds, which other tools count too.

To check one model: `tlc -config MC_Console.cfg MC_Console`. To check one proof:
`tlapm ConsoleProofs.tla`.

## 1. Inventory

### The RSA programs

| component | state | operations | what is hard | what makes it correct |
|---|---|---|---|---|
| prime table (`C/RSA.c` 14-70, 172-200) | the static array `primes`, filled by the first sieve, shared by all calls | `getprime`, `findClosest`; read by `publicExp` | the search runs to the very end of the table; the early return for small arguments skips the sieve | a sieved table marks the primes exactly, the answer is the closest prime, every index is inside the table |
| `GCD`, `inverse`, `powmod` (`C/RSA.c` 110-170) | locals | three loops | arithmetic modulo 2^32, mixed signs, division by zero | gcd, inverse, power; no overflow; the loops end |
| RSA in C (`C/main.c`) | the keys `p q modN phi e d` and four arrays | `text2int`, key generation, `crypt` twice, `int2text` | every failure is a return value nobody tests | the text comes back whenever the keys are usable |
| RSA in MIPS (`mips/*.s`) | `$s0-$s7`, HI and LO, table of bytes on the data segment, heap arrays | the same | signed tests, ties, table of all ones, division by zero that does nothing | the same, and the same output as the C program |
| call convention (`test/generate_mips.py`, all `.s`) | saved registers on a stack that grows upwards | push, body, pop, nested `jal` | `main` keeps a length in `$t7`, which nobody saves | every function returns behind its `jal` with the caller's registers |

The C program is one thread without callbacks; its hazards are numeric limits, the table
that outlives the calls, and untested failures. The assembly program is compared to it.

### The simulator

| component | state | operations | what is hard | what makes it correct |
|---|---|---|---|---|
| run loop (`CPU/run.c`, `CPU/spim-utils.c`) | PC, CP0 registers, flags, list of breakpoints, the nesting of `run_spim` | execute, poll, timer tick, exception, delay slot; `run`, `continue`, `step`, `breakpoint`, `delete`, Ctrl-C | Ctrl-C leaves by `longjmp` from anywhere; a breakpoint is taken out and put back around one step; exceptions in delay slots | breakpoints are kept, steps are exact, EPC is the first fault, interrupts are taken |
| exception handler (`CPU/exceptions.s`) | EPC, Cause, Status | reads Cause, fixes EPC, `eret` | it serves faults, breakpoints and interrupts with one path | it ends, and returns to the right instruction |
| console (`CPU/mem.c` 540-760) | four registers, two timers, two interrupt bits | poll, read and write of each register | programs act on a READY bit they have read earlier; the enable bits change while something is pending | interrupts match readiness, no tested transfer is lost, intervals are kept |
| memory (`CPU/mem.c` 60-540) | text, data, stack, kernel data: arrays with moving ends | byte, half and word accesses, growth | an access below the stack replaces the array under the running instruction | what is read is what was last written; no address that worked is refused later |
| symbol table, directives (`CPU/sym-tbl.c`, `CPU/data.c`, `CPU/parser.y`) | labels, uses waiting for them, list of local labels, labels of the current line, data pointer | define, use, align, store, `.globl`, end of file | alignment moves labels that are recorded already; two sources of labels for one name | every use gets its label's final address; files do not see one another's labels |
| pseudo-instructions, encoding (`CPU/parser.y`, `CPU/inst.c`) | none beyond the text segment | expansion, encode, decode | `$at`, register aliasing, splitting constants, fields patched later | an expansion computes what its name says and changes nothing else |
| instruction semantics (`CPU/run.c` 300-1640) | registers, HI, LO, delayed loads | one case per opcode | overflow tests, multiplication by halves, unaligned accesses | results equal a wide-integer definition |
| command shell (`spim/spim.c`, `CPU/spim-utils.c` 130-330, the buffers of `spim/lex.yy.c`) | `argv` and what `main` made of it, stack of scanner buffers, `redo`, `prev_cmd`, `prev_token` and the static variables of the commands, terminal modes, the program's first stack | `main`, one action per command of `parse_spim_command`, the end of the input, ^C, `run_error`, switches of the terminal | what a command leaves unread is the next command; a blank line repeats from variables that other commands share; many ways out of a program, two of which do not give the terminal back | a line does what the help text says of it, once; the terminal is given back; a program finds its arguments |
| system calls (`CPU/syscall.c`) | host files | `syscall` | I/O | modelled as far as they move the end of the data segment (`Memory`), end a run (`RunLoop`), or use the terminal and the input (`Shell`) |
| display, string streams | none | formatting | nothing a property could be about | not modelled |

How they meet: `run_spim` reads instructions and data through the memory; accesses to
`MM_IO` addresses go to the console; once per `IO_INTERVAL` instructions it polls the
console, whose interrupts it takes as exceptions; the exception handler is itself
code in memory, assembled by the parser from `exceptions.s`; breakpoints are
instructions written over the text segment. The shell and the assembler read through one
scanner: a file that is loaded has its buffer above the terminal's until it is parsed.
While a program runs, the shell lends it the terminal and takes it back for every message,
and every way out of the program ends in the shell's loop.

Concurrency in this code is of three kinds: signals (Ctrl-C) that arrive between any two
steps, devices and a timer that act at every poll, and the order in which a user or a
source file issues commands. There is no second thread and nothing is persistent, so
there are no crashes and restarts to recover from, no lost or repeated messages.

The `hazards` in `PROJECT.json` name each place where one of these bites, with the
property that watches it.

## 2. Modules

| module | models | EXTENDS or uses |
|---|---|---|
| `Divisibility` | reference definitions (divides, greatest common divisor, prime) | |
| `Arguments`, `TableArguments` | constants: bounds on the arguments of the functions and of the prime table | |
| `Gcd`, `ModInverse`, `PowMod` | `GCD`, `inverse`, `powmod`, one loop iteration per step | `Divisibility` |
| `PrimeTable` | `getprime` and `findClosest` on the static table, several calls | `Divisibility` |
| `RSAFunctions` | a call of any of the four, on its own frame; the static table stays | instances of the four |
| `RSA` | `main.c`, one action per call of `main` | |
| `MipsRSA` | `rsa.s` and its functions, one action per `jal`; refines `RSA` | `INSTANCE RSA` |
| `CallConvention` | the code the linker inserts, along the calls of `rsa.s` | |
| `Programs` | one run of the C program, the MIPS program, or the frames of its functions | instances of the three |
| `RunLoop` | `run_spim`, `run_program`, the exception handler, the commands | |
| `Console` | receiver and transmitter | |
| `FlatMemory` | the abstract memory: one array of bytes | |
| `Memory` | the segments of `mem.c`; refines `FlatMemory` | `INSTANCE FlatMemory` |
| `Assembler` | symbol table, data segment and labels of the line | |
| `Multiply` | the multiplication by half words of `run.c`, for any even width | |
| `Instructions` | one iteration of `run_spim` for every integer instruction | `Multiply` |
| `PseudoInstructions` | the instructions the parser stores for a line: expansions of `parser.y`, splitting of constants of `inst.c` | `Instructions` |
| `Encoding` | `inst_encode` and `inst_decode` with the opcodes of `op.h` | `PseudoInstructions` |
| `Machine` | a line assembled, stored or written as words, and executed, and what it means | `Encoding` |
| `RunStack` | the stack a program starts with: `initialize_run_stack` and what it copies | |
| `Shell` | command line, prompt, commands, scanner buffers, terminal | `RunStack` |
| `MC_*` | instances for TLC: small sets, symmetry | the module they instantiate |
| `*Proofs` | theorems | the module they prove about, `TLAPS` |

### How state and actions correspond to the code

**RSAFunctions, Gcd, ModInverse, PowMod.** The frame variables are parameters and locals
of the C functions; each loop iteration is one step, in the order of the
assignments. Word sizes are constants: `IntLimit` is 2^31 and `WordSize` 2^32 in the
code, and unsigned arithmetic is taken modulo `WordSize`. `pc = "trap"` is the
division by zero.

**PrimeTable.** `primes` is the static array, `beyond` the byte behind it (either value:
it belongs to some other variable), `lo` and `hi` the pair `i[2]` of `findClosest`.
A `Call` is `CallOutOfRange`, `CallSmall` or `CallSieve`, `Run` a step of one; the sieve crosses out the
multiples of one number per step; `Widen` is one iteration of the search.

**RSA.** `filled` says whether the table has been sieved; the table itself is the
result that `PrimeTable` establishes. Failures are the values the functions return
(0, or an arbitrary number for `rand`). Ghosts: none.

**MipsRSA.** The same, with what differs in the assembly code: `primes[0]` is the flag "not
sieved", and the table is all ones until then; words are compared as signed where
the code does (`Signed`); `Divu` leaves HI and LO alone on a zero divisor, as the
simulator does; `Mul` leaves the signed product in HI and LO; `SignedByte` and `Word` are the widths of `lb`, `sw`. The input line
is cut at a buffer and loses its last byte as if it were a newline.

**CallConvention.** `reg` holds `$s0-$s7`, `$ra`, `$t7` with the name of who wrote
them last; `stack` holds the words above the initial `$sp`, stale ones included. A
function's `Body` overwrites what its text writes; `Push` and `Pop` are the inserted code.

**Programs.** `program` chooses one of the three modules above, whose variables the others leave
alone; their properties are checked through it, under the same names.

**RunLoop.** `frames` is the nesting of `run_spim` (a delayed branch calls it for the slot)
with the three counters of its loops; `job` is the call of `run_program` that is under
way; `phase` says what comes next in an iteration of the inner loop: poll, fetch,
execute, bump the PC, return. CP0 is kept field by field. The program is a
constant sequence of abstract instructions: plain, fault, enable interrupts, jump, exit;
the handler's instructions are read off `exceptions.s`. A word is two addresses
long, so that an odd address is misaligned. Ghosts: `taken` (cause and address of
the exception EPC was last set for), `handled` (the fault the handler has still to return from, and
what has become of its EPC: `kept`, `open` once a debugger's breakpoint in the handler has cleared EXL, `lost`
when a later exception has then taken EPC), `wanted` and `count` (steps asked for and executed),
`lost` (breakpoints that a longjmp or a failed command lost), `commands`.

**Console.** The registers of the two devices, bit by bit. Time is counted in polls, as in
the code. `polite` says whether the program tests READY before it uses a buffer;
the registers may be used in every order by one that does not. Ghosts: `age`, `quiet`
(polls since the last char in or out), `recv_wiped`, `trans_wiped` (the handler
has cleared Cause while an interrupt was pending).

**Memory.** Bytes are kept in address order; the host's byte order is abstracted. Segments
are functions from offsets to bytes, and the moving ends are the code's variables.
`answer` is the last operation and what it returned, raised or wrote. New bytes
of a reallocated array hold one junk value. Kernel text, which programs only execute,
counts as out of range; the values of the console's registers are in `Console`.

**Assembler.** `asm` is a record of the static variables of the three files. One action
is one line of source: a label, `name = value`, `.byte`, `.word`, `.align`, `.space`,
`.data`/`.text`, `.globl`, `.extern`, `.comm`, `.lcomm`, or an instruction with a label
(a jump); `EndOfFile` and `FlushLabel` are `flush_local_labels`, one list element per
step. A word is two bytes. Ghosts: `refs` (words assembled for a symbol, and its
label), `placed` (where the first thing behind a label went), `again` (labels recorded
although they had an address), `late` (labels declared `.globl` or `.extern` after they were
defined or used, and the places of uses that strayed from the text into the data). A byte has `BYTE` values, so that a word
holds every address up to `MaxAddr`; `MaxAddr` and `MaxLines` are bounds of the model, the first large
enough for what the lines of the second can store.

**Multiply, Instructions.** Widths are parameters: a word is `HALF * HALF`, four bytes of
`BYTE`, `Bits` bits. `Regs` is `R` as the switch sees it: register 0 reset, the delayed load
arrived (`DO_DELAYED_UPDATE`); `load1`, `load2` are the two static slots. An action is one group
of opcodes that share a case or a formula; it writes registers, HI and LO, memory, PC and slots.
`RAISE_EXCEPTION` ends the execution with `raised` set, where `RunLoop` takes over. Loads
and stores combine bytes in the byte order of the build. `code` is the text segment; a branch
field is a distance in instructions, or `Label`.

**PseudoInstructions, Encoding, Machine.** `Expansion` maps a line to the sequence of instructions
that the grammar's action stores; its operators bear the names of the functions of `parser.y` and `inst.c`.
`known` says whether a symbol was defined when the line was read: if not, two or
three instructions are stored and their fields patched later (`AdjustedUpper`).
A word of `Encoding` is a record of its bit fields; `op_h` is the table of `op.h` (type, upper six bits,
continuation), `FieldsOf` what the cases of the two `switch` statements put together and take
apart, type by type. `Machine` puts one line into memory, as the parser stores it or as a
program writes it that holds the same instructions as words (`Written`), with any operands, lets `Execute` run it to its end and
compares with a meaning that does not look at expansions: integers for arithmetic, sets of
bits for logic and shifts, pairs of register byte and address for loads and stores. Ghosts:
`line`, `start` (state before the line). The actions of the grammar are mapped to `spim/parser_yacc.c`,
the generated parser the repository compiles, which holds them verbatim.

**Shell.** A line is a sequence of tokens that ends with `NL`; a word says of which command names
it is a prefix, and its length, which is all `str_prefix` tells apart. `buffers` is the stack
of the scanner (`push_scanner`, `pop_scanner`); `YY_INPUT` fills an interactive buffer with a line and any
other with all there is; `read_token` and `flush_to_newline` take tokens from it. `Behind` is what a
command has read when it is done. There is one action per case of `parse_spim_command`, one
for `main` per way it goes on (`TopLevel`, `WriteCode`, `RunFile`, `CannotReadHandler`), and, while a
program runs, `SwitchOut` and `SwitchIn` (a message between `console_to_spim` and
`console_to_program`), `TakeInput` (a system call reads a line), `Ends`, `LongJump` (^C or
`run_error`), `Killed` (^C while `main` runs the file it was called with) and `FatalError`. Lending the
terminal is two steps, as in the code: `console_to_program` changes it (`spim.c:1143`), `Lent` sets the flag
`console_state_saved` (`1145`), and between them a ^C may come (`LongJumpUnnoted`, `Killed`). What the program
computes is left to the other modules: it stops at any of the addresses in `Stops`. `status =
"undefined"` is a null pointer dereferenced, `"aborted"` the exit of `fatal_error`. Ghosts: `heard` (lines begun at the prompt), `effects`
(what was done), `slipped` (a signal has come between terminal and flag).

**RunStack.** A byte of the stack is a character or the k-th byte of a word, so that a word can be
read only where its four bytes are together. `initialize_run_stack` is the function, `ArgumentsOnStack`
what a program that starts as `exceptions.s` does finds behind `$sp`.

## 3. Runs

| run | question | bounds, and why they are enough |
|---|---|---|
| `functions` | do the four functions return what they promise? | gcd of 0..24, totients to 40, exponents to 60, 8-bit words for powmod: signs of both cofactors, every remainder sequence up to six divisions, moduli on both sides of the wrap-around (16); a table of 28 holds gaps of 2 and 4, ties, and composites behind the last prime whose search reaches the end; two calls of `getprime` cover "sieved before" and "not sieved" |
| `primetable_bounds` | is every index inside the table? | the real 1200 entries. **Violated** |
| `programs` | does the message come back, what kills the program, is the output the same in C and MIPS, does every function return to its caller with its registers? | all pairs of arguments 0..17 around a table of 16 in C, and of 0..19 and -1 around one of 18 in MIPS, as the code's tables of 1200 and 1500 differ: equal primes, moduli smaller than a char, squares beyond the 14-bit word, exponent tables of zeros and ties all occur; chars of 4 bits with either sign, a line buffer of five bytes, so that lines that fill it occur; three iterations of each loop of calls: the second sees the stale words of the first |
| `runloop` | are breakpoints, steps, faults and interrupts right? | five programs of two and three instructions chosen to hold a fault in the middle, in a slot and in a loop, jumps in slots, jumps to bad addresses; two commands, three steps, polls every two instructions: enough for a breakpoint to be added, met, stepped over, interrupted and met again |
| `runloop_interrupt` | does an interrupted program go on where it was? | as above. **Violated** |
| `console` | do registers, timers and interrupts agree? | intervals of 2: a timer can be restarted while it runs; three chars typed: one may be overwritten; two sent: the second may meet a busy device |
| `memory` | is the memory one flat array? | addresses at both ends of every segment and in every gap; growth from one to two words and to the limits; two writes, so that one may destroy another |
| `memory_kernel` | does growth of kernel data keep it? | as above. **Violated** |
| `assembler` | do references hold their label's final address? | five lines, two files, two names (symmetric): a use, an intervening directive, a definition, an alignment behind it, and one more file; the data segment has four bytes behind the small data and grows by four, so that lines reach its end, and small data has room for one item |
| `machine` | does every line of integer code do what its name says? | words of 8 bits, bytes of 2, immediate fields of 4, the proportions of the code. Every operation with distinct, equal and zero registers, stored and as words; 12 operand values and 12 constants around 0, the limits of a field (7, 8, 15, 16), the sign (127, 128, 129) and the end of the range, and one whose square carries in the second of the two middle sums; addresses at, in and around two words of memory, in every alignment; symbols known and unknown, both byte orders, loads delayed or not |
| `shell` | do commands do what the help text says, does the terminal come back, do programs find their arguments? | every pair of 32 lines (each command, each kind of argument, a missing one, one of the wrong kind, abbreviations of several commands, a blank line), three lines of those that leave most behind, typed and piped; fifteen command lines that prompt, load, run, dump, and fail to find a file, with arguments of 0 to 4 characters, so that every alignment of the strings occurs. A line depends on earlier ones through what the last command left unread and through the static variables a second-last one set |
| `shell_continue` | the same, with `continue` among the lines | as above. **Violated** |

Deadlock is not checked in the runs whose program ends (`CHECK_DEADLOCK FALSE`: a call
returns, the message is printed, the source ends, the line has been executed, the shell has exited, or the
simulator dies of a null pointer in `memory` and `shell`). `console` does check it: the devices go on for ever.

### What the properties say

* `GCDCorrect`, `InverseCorrect`, `PowerCorrect`: results against definitions;
  `CofactorsTied`, `ProductsExact`: the reason why (no intermediate value leaves its type).
  `InverseCorrect` also says that division by zero means that no inverse exists. `Returns`: every
  call ends.
* `ExactOrUnfilled`, `ClosestPrime`: the table is untouched or exact; the answer is the
  closest prime, the smaller of two.
* `RoundTrip`: usable keys (distinct primes, modulus above every char, square of the modulus
  in a word) decrypt what they encrypted. `ExponentFound`: `e` is coprime to
  the totient (in C if the table was sieved, in MIPS always). `TrapCauses`: the only ways to die. `SameAsC`: each MIPS
  step is a step of the C program, `RSA` with the table of C (`C_MAX_NUMBERS`) beside `MipsRSA` with its own, on
  comparable inputs (`Comparable`): the search for the prime stays inside C's table, the smaller one
  (`WithinReach`), there is one closest prime, and the primes are not 2 and 3.
* `ReturnsToCaller`, `CallerStateKept`: the call convention, and that the length `main` keeps in
  `$t7` survives all the same.
* `BreakpointsKept`: outside a step over one, exactly the listed addresses hold break
  instructions, except for the losses listed below. `StopsAtBreakpoints`: none is passed.
  `StepsExact`: `step n` that nothing stops executes n instructions, the one under a
  breakpoint included. `ReturnBehindFault`: the handler returns behind the instruction
  whose fault it serves, whatever is raised while EXL is set and through breakpoints and steps in the
  handler. Excepted are a Ctrl-C between an instruction of the handler and the bump of the PC, a program run afresh,
  and an EPC that is lost in the one way there is: a debugger's breakpoint in the handler clears EXL, and another exception comes
  before the `eret`. Without the last exception (`handled.state = "lost"`) it is violated. `ExceptionsServed`: while EXL is set
  it is the handler that runs, except after an exception in a delay slot or a handler cut
  off by Ctrl-C or `run`. `InterruptNotDeferred`,
  `HandlerEnds`: liveness of interrupts and handler.
* `InterruptsExact`: a device interrupts exactly when it is ready, enabled and not wiped.
  `TestedTransfers`: a program that tests READY reads no char twice and none out of
  order, and everything it writes is printed, in order. `IntervalsKept`: chars are not replaced,
  and not printed, faster than the intervals. `DevicesGoOn`: busy devices become ready.
* `ImplementsFlatMemory`: refinement of `FlatMemory`; `TypeOK`: limits, alignment.
* `UsesResolved`: every word assembled for a symbol holds its label's address once that is
  known, with the exceptions listed in the module; `LabelsPlaced`: a label points to what
  follows it; `FlushEnds`: the list of local labels ends; `FilesApart`: at the end of a
  file exactly its local labels disappear.

* `CommandsMeant`: the effects of a session are those the help text gives its lines, in order,
  and a blank line repeats the last one at the next place; no rest of a line is read as a
  command, and no line is skipped or swallowed by the one before. It speaks of sessions of lines that the help text
  gives a meaning to, in which blank lines follow commands that are repeated as a whole; what the others do is in
  section 5. `HelpText` of `MC_Shell` leaves out `continue` and a bare `print_all_regs`, for which it is false. `TerminalRestored`:
  the user has the terminal whenever the shell prompts, prints or has exited, be it behind the program's end, an error, ^C or the
  end of the input. It excepts `fatal_error` and a signal between the change of the terminal and the flag (`slipped`), and is violated without
  either exception.
  `ArgumentsPassed`: argc, argv and envp are on the stack and in the registers, however often the
  world was initialized.
* `ResultsMeant`: registers, HI and LO after a line. `ControlMeant`: it raises an exception exactly
  if it overflows, divides by zero or traps, and branches exactly if its relation holds.
  `TransfersMeant`: bytes of registers and memory after loads and stores, and when they fault.
  `OthersKept`: nothing but destination and `$at` changes. Each states its exceptions;
  every one of them is needed.

Every property of a passing run has a mutant in `PROJECT.json`: the definition a plausible bug
would change, in its changed form, with which TLC finds the property violated.

### Fairness

* `RunLoop`: `WF_vars(Simulate)`. The simulator is a single thread in a loop: while a
  program runs, its next step is taken. Commands, Ctrl-C and ticks are unfair: they may
  never come.
* `Console`: `WF_vars(Check)`. `run_spim` polls at the start of every interval.
* `RSAFunctions`: weak fairness of the steps of a call, not of making one. One thread
  executes them.
* The others assume none: they state safety only.

### Findings

1. `C/RSA.c:187` lets the upper index of the closest-prime search reach `MAX_NUMBERS`, one behind
   the table of `RSA.h:13` (`primetable_bounds`).
2. `CPU/exceptions.s:146` adds 4 to EPC for interrupts too, although its comment
   (line 138) and `run.c:221-223` say EPC is the instruction to return to: one instruction is
   skipped per interrupt (`runloop_interrupt`).
3. `CPU/mem.c:288` clears the wrong quarter of the kernel data segment when it grows:
   assembled data is lost and new bytes are not zero (`memory_kernel`).
4. `spim/spim.c:486`: `continue` is the only command that runs a program without flushing its line. Its newline
   is read afterwards as a blank line, which the help text (`spim.c:643`) says
   reexecutes the previous command: the program is continued twice (`shell_continue`).

## 4. Proofs

| theorem | says | argument |
|---|---|---|
| `RSAFunctionsProofs!GCDIsCorrect` | `GCDCorrect`: whatever `GCD` returns is the greatest common divisor | the two parameters keep the common divisors of the arguments (`CommonDivisorsKept`), and no subtraction wraps |
| `RSAFunctionsProofs!InverseNeverOverflows`, `InverseIsCorrect` | `CofactorsTied`, `InverseCorrect`: `inverse` returns the inverse, and divides by zero only if there is none | opposite signs, and \|x0\| e + \|x1\| phi stays the totient, so nothing overflows (`CofactorsTied`); each remainder is its cofactor times the exponent, modulo the totient (`CofactorsOfE`); the common divisors stay (`SameDivisors`) |
| `RSAFunctionsProofs!PowmodIsExact` | `ProductsExact`: products fit, `x` and `y` stay residues | products of two residues are below the square of the modulus |
| `RSAFunctionsProofs!PowmodIsCorrect` | `PowerCorrect`: the result is the power of the recursive definition | `PowerInv`: `x` times `y` to the exponent that is left is the power asked for; that the recursive function exists, and has the power of the square at half the exponent, is by `Induction` |
| `RSAFunctionsProofs!LoopsKeepCongruences` | what the loops of `inverse` and `powmod` keep, as their modules state it | from the same invariants |
| `RSAFunctionsProofs!TableIsExact`, `GetprimeIsCorrect` | `ExactOrUnfilled`, `ClosestPrime`: the sieved table is exact, the answers are closest primes, over any sequence of calls | `TableSifted`: after the outer loop reached `i`, exactly the numbers with a divisor below `i` are crossed out; `SearchInv`: no prime lies strictly between `lo` and `hi` |
| `ProgramsProofs!ExponentIsFound` | `ExponentFound`, for every size of both tables and all numbers | in C, `CandidateExists`: a small totient has a prime below it that does not divide it; otherwise the larger of `p` and `q` is coprime to the totient by Euclid's lemma, unless it is the byte behind the table, where `TableAssumption` helps. In MIPS: the smallest number above 1 coprime to the totient is prime, so it is found whether the table is sieved or all ones (`ExponentOfMips`) |
| `ProgramsProofs!TrapsHaveCauses` | `TrapCauses` | `KeysInv`: with both numbers in the table the modulus is not 0; with the table sieved the exponent has an inverse |
| `ProgramsProofs!MessageComesBack` | `RoundTrip`: both programs decrypt what they encrypted, for all usable primes of the table, texts and word sizes | by Fermat's theorem (`Fermat`, `PowerOfPrime`) the power of the power is the char, modulo each prime and so modulo the modulus (`DecryptedIsMessage`). The loops of `powmod` and `inverse` compute powers and inverses for every input (`LoopIsPower`, `LoopInverts`, `FactorIsInverse`). `MessageInv` and `MipsMessageInv` follow the message: what each step has made of the chars it has reached, and that no product leaves its word |
| `ProgramsProofs!MipsRefinesC` | `SameAsC`: `rsa.s` implements `C/main.c` on comparable inputs (seven-bit chars that fit in the buffer, numbers within reach of C's table with one closest prime, primes that are not 2 and 3), for a table of C of any size and one of MIPS that is at least as large | the tables have the same closest prime within reach of the smaller one; one lemma per function that both programs have (`SameGetPrime`, `SamePublicExp`, `SameInverse`, `SamePowmod`); where the two loops differ, both are what the arithmetic says (`InverseOfMips`, `LoopIsPower`). `MipsTableInv`: `p` and `q` are the answers of `getprime`, and `primes[0]` is 0 once a call has sieved the table |
| `ProgramsProofs!FunctionsReturn`, `RegistersAreKept` | `ReturnsToCaller`, `CallerStateKept`, for any number of iterations of the loops | `StackInv`: each active call but the innermost has its nine words on the stack, where `#POP_REGISTERS` looks for them; `LengthInv`: from the call of `publicExp` to the return of `inverse` only functions run that leave `$t7` alone |
| `ConsoleProofs!ConsoleIsTyped`, `InterruptsAreExact`, `IntervalsAreKept` | types, interrupts, intervals | the last needs `RecvAge` and `TransAge`: timer plus polls since the last char make at least the interval |
| `ConsoleProofs!TestedTransfersAreSafe` | `TestedTransfers`, for any number of characters | `TransferInv`: what waits unread is above the buffer's character and in order; what the program has seen of READY still holds; a ready receiver holds a character above all received |
| `MemoryProofs!MemoryIsTyped` | ends within limits, aligned, arrays as long as they say | one part per segment, one step per action |
| `MemoryProofs!MemoryIsFlat` | `Memory` implements `FlatMemory` | every action maps to a read, write, refusal, growth, reset or stutter; lemma `Image` says how a patch of a segment appears in the flat array |
| `ArithmeticProofs!UnsignedIsExact` | `unsigned_multiply` leaves the product in HI and LO, for every even half width | `CarryFound`: a sum that has left the word is smaller than its summands; so both carries are counted, and HI is below the word because the product is below its square |
| `ArithmeticProofs!SignedIsExact` | `signed_multiply` leaves the product in two's complement | magnitudes of words are words; `PairNegated`: complement and increment negate the double word |
| `ArithmeticProofs!AccumulatedIsExact`, `ReducedIsExact` | `madd`, `maddu`, `msub`, `msubu` add and subtract double words modulo the square of the word | `CarryFound` again: the carry or borrow of LO is counted once in HI |
| `RunLoopProofs!BreakpointsAreKept` | at the prompt the breakpoints are the ones that were asked for, but for the losses, and no break hides an instruction unlisted | `BkptInv`: while a command runs, the list is what was asked for but for the breakpoint that is being stepped over; what is loaded (`OpKept`) depends on nothing a step changes |
| `RunLoopProofs!BreakpointsStop` | no instruction under a breakpoint is executed but the one a command starts at | the same invariant: at a listed address it is a break that is read |
| `RunLoopProofs!StepsAreExact` | `step n` that nothing stops executes n instructions, for any program, n and poll interval | `StepInv`: executed, plus left over all frames and intervals (`Remaining`), minus the one in flight is what was asked for; one lemma per way an iteration ends |
| `RunLoopProofs!ExceptionsAreServed` | while EXL is set for a fault, a bad fetch or an interrupt, the handler runs and not the program, with the exceptions the property names | `OwedInv`: the PC is, or will be behind this instruction, beyond the program, and only one call of `run_spim` is active; it needs `SlotInv`: a call for a delay slot has one instruction, which sets BD if it raises, and is not the one that clears BD |
| `RunLoopProofs!ReturnsBehindFaults` | `ReturnBehindFault`, without delayed branches: the handler's `eret` continues behind the faulting instruction, with the exceptions the property names | `ReturnInv`: until EPC is lost, while EXL is set or the PC is in the handler, EPC is the instruction that faulted, and one word more once the handler has added it; it needs that nothing but a breakpoint clears EXL before the `eret` (`KeptInv`), where each instruction is (`WhereRuns`) and that an exception waits only behind the instruction that raised it (`SequentialInv`) |
| `RunLoopProofs!ValuesAreTyped` | `TypeOK`: no address below 0, the calls of `run_spim` nest no deeper than the program is long, no inner loop outruns the poll interval | `CallsInv`: a jump in a delay slot is behind the jumps around it, so depth is bounded by the PC (`SlotPlace`), and the handler returns from no slot; `PlaceInv`: EPC is at least a word when the handler returns, wherever a slot's call sends the PC |
| `AssemblerProofs!ReferencesResolved` | `UsesResolved`, for any names, lines and files, and segments of any even size | `ValueInv`: what was assembled for a label holds its address, or the label waits for its place (`Pending`) and has no address yet or still is of the line. It needs that no other use and nothing strayed reaches into the place (`RefInv`), which needs that uses lie behind the data pointer (`UsesInv`), and that a label of the line is where the next thing goes (`LineInv`), so that resolving at the end of the line stores the address that alignment has left |
| `AssemblerProofs!LabelsStayPlaced` | `LabelsPlaced` | a label behind which something was stored is of no line any more, and only lines move labels that have an address (`PlacedInv`) |
| `AssemblerProofs!FlushingEnds` | `FlushEnds` | `ListEnds`: a label that is put in front of the list is not on it (`PushedKeeps`), unless it is recorded again, and then the list is a ring (`PushedTwice`) |
| `AssemblerProofs!FilesStayApart` | `FilesApart` | `ListInv`: the list, and while it is flushed what is left of it, holds labels with an address, in the table, that were local when they were recorded; and, if it ends, all of the table's that are local and have an address |
| `ShellProofs!TerminalIsRestored` | `TerminalRestored`, for any session and every way out of a program but the two it excepts | `TerminalInv`: unless a signal has slipped between them, the terminal is raw exactly while the flag `console_state_saved` is set or about to be, and what is saved then is the user's state |
| `ShellProofs!ArgumentsArePassed` | `ArgumentsPassed`, for any command line and environment that fit on the stack | `ArgumentsBuilt`: what is copied lies above the stack pointer and stays there (`StringKept`, `WordKept`), the vectors hold the addresses of the strings in order, and alignment keeps them apart from the strings; `ArgumentsInv` adds that stack and options are the ones of the command line |
| `ShellProofs!EveryLineMeant` | `CommandsMeant`, for every session, every set of files and every help text without the two lines that do not read themselves (`ReadsItsLine`: `continue`, bare `print_all_regs`) | `CommandInv`: as long as the lines heard are plain ones, the scanner is at the beginning of a line whenever spim prompts, what was done is what was said, and what a blank line will repeat is in `prev_cmd`, `prev_token`, the static variables and the scanner's last value (`Ready`). One lemma says where the scanner is behind a line of the help text (`MeaningScanned`), one per command what it does with the line (`RunAnswered`, `PrintAnswered`, ...) and with a blank one (`RunRedone`, `PrintRedone`, ...); that a session's meaning grows by one line is got from the fold with `Induction` (`SaidByMore`) |

`ArithmeticProofs` holds the number theory the others rest on: divisors, remainders, congruences, the least
divisor above 1 is prime, a prime that divides a product divides a factor; and behind the products of the simulator
powers of sums and products, Fermat's theorem (multiplying by a number that the prime does not divide permutes the residues, whose
product it keeps, `AllValuesTaken`), and what the loops of `powmod` and of `inverse`, as tail
recursions, return for every input (`TailRecursion`). It also holds the two forms of
induction that the proofs use, `Induction` and `LeastElement`: both speak of a set of natural numbers and not of
a predicate, so that the provers can use them, and follow from `WellFoundedInduction`. With `Induction` the
proofs get at recursive functions (the power of `PowMod`, the loops of the RSA programs) and at folds: `StringsFolded`,
`AddressesFolded`, `LinesFolded` and `ScannersFolded` of
`ShellProofs` say of `FoldLeft` and `FoldRight`, for the operators `RunStack` and `Shell` fold with, that the result
is that of one element after the other.

Assumptions, each named in the module that declares the constants: `ArgsAssumption`,
`InverseAssumption`, `PowModAssumption` (gcd's arguments are
naturals; totients and positive exponents fit in an int; powmod's arguments fit in a word), `PrimeTableAssumption` (a table of more than five
numbers), `HalfAssumption` and `InstructionAssumption` (half a word has an even number of values;
a word has two halves, four bytes and `Bits` bits), `ConsoleAssumption` (intervals are positive), `MemoryAssumption`
(aligned, disjoint segments, in the order of `mem.h`, with room for the growth of the stack) and
`PayloadAssumption` (what is written are bytes), `RunLoopAssumption` (an interval between polls is at least one
instruction and not longer than `MaxSteps`, the largest `step`; the handler lies behind the programs), `CAssumption` and `MipsAssumption` of
`Programs` (the square of a table's size fits in a word; for the signed words of MIPS in half of one; the last number
of the table of MIPS is prime, as 1499 is; a char has at least eight values, so that the modulus of usable primes is not that of 2 and 3, whose
totient of 2 leaves no exponent below it), `TableAssumption` (for any number
in the table there is a prime in it that divides neither this number nor the last one of the table: for the code's 1200 one of 2, 3, 5, 7 and 13,
as none divides 1199 and their product exceeds 1200; TLC evaluates it for 16), `TablesAssumption` (C's table is not larger than that of MIPS, and the
fallback of C draws from more than one number: what the two programs have in common), `StackAssumption` of `RunStack` (strings contain no 0) and
`ShellAssumption` (the environment and the words a command line passes on fit on the stack: otherwise `expand_stack` reports
an error and the shell goes on), `InputAssumption` (an input consists of whole lines, and files define labels at
addresses) and `MeaningAssumption` (what `Meaning` gives a line is what the help text tells of such a line, `Told`). `AssemblerAssumption` says that
the segments begin and end at even addresses, text below data, that an address fits in a word, and that the bounds leave room: a line takes at most
`ItemSize + 2` bytes of data, so that `MaxLines` lines stay below `MaxAddr`. TLC evaluates all of them in the runs.

Only model-checked:

* all liveness, which is out of the prover's reach;
* `ResultsMeant`, `ControlMeant`, `TransfersMeant`, `OthersKept`: `Machine` uses the bitwise operators, which no module with a theorem can reach;
  its multiplication is a module of its own, and proved.

## 5. What the code also does

Behaviour met while modelling that a reader of the code should know. "Exempt" means that
the property named in parentheses states it as an exception; removing the exception
makes TLC find it.

*RSA.* Chars above 127 become 2^32-k in C (`main.c:12`) and are positive in MIPS. `powmod` wraps
for a modulus above 2^16. Equal primes lose the message. Arguments beyond the table end in
a division by zero in C and in some number in MIPS. The tables differ, 1200 in C (`RSA.h:13`) and 1500 in MIPS: for numbers from 1197 to 1499 C returns 0, or
another prime than MIPS, which goes on (`SameAsC`, exempt). On a tie C takes the smaller prime
and MIPS the larger (`test.py:89` against `RSA.c:175`). A line that fills the 14100 bytes of
the MIPS buffer loses its last char (`RoundTrip`, exempt). `gcd.s:24` returns without
popping registers if its first argument is 0; `rsa.s` never calls it so.

*Run loop.* Ctrl-C between an instruction and the bump of the PC executes it twice; during a step
over a breakpoint it loses the breakpoint (`BreakpointsKept`, exempt). A breakpoint
at an address without an instruction leaves a break behind (`inst.c:1038`, exempt). `run_program` clears EXL behind every
breakpoint, also behind one inside the handler (`spim-utils.c:364`): the next one or an interrupt then overwrites EPC, and the handler's `eret` returns
into the handler instead of behind the fault (`exceptions.s:142`; `ReturnBehindFault`, exempt). An exception in a delay slot is overwritten by the jump
(`run.c:133`). `eret` in delayed mode executes a slot that is not there. `running_in_delay_slot`
survives a longjmp. `exit` in a slot or while stepping over a breakpoint is ignored.
`run` does not reset CP0. Without `-mapped_io` interrupts are polled only at the start of
a run. The handler clears all pending bits, and its mask 0x3c truncates codes above 15.

*Memory.* Doubling the stack is refused at the limit even if the access itself would fit.
A byte or half access to a text word without an instruction dereferences a null pointer.
`lb` and `lh` from the text segment are not sign-extended. A faulting load still writes 0
to its register.

*Instructions.* `div` and `divu` by zero, and of 0x80000000 by 0xffffffff even unsigned, leave HI and LO
as they were (`run.c:491`, `503`). A branch-likely that is not taken skips the next instruction
although there are no delay slots (`run.c:127`). A load that faults writes 0. A
delayed load to `$0` is seen by one instruction. The target of a branch is the sign extension of
16 bits of a byte offset: labels more than 32K away are reached wrongly or refused.

*Expansions.* (All exempt in `Machine`.) `ulw`, `ulh`, `ulhu` and `ld` into their own base read the second
part from the wrong address; `ush` of its own base stores the second byte at the wrong
one. `ush` stores the lower byte first in big-endian builds too, and if its second byte faults it
leaves the source rotated (`parser.y:764`). `bgt` and `ble` with 0x7fffffff compare with
0x80000000 (`parser.y:1337`, `1399`); `sub` with 0x80000000 adds it, and overflows in the wrong
cases (`parser.y:1052`). `la` of an offset and a register uses `addi` and may overflow. `mulo` and
`abs` write their destination before they raise. `ulw` with delayed loads loses what its
first half fetched. Expansions with inner branches do not leave room for delay slots: with
`-delayed_branches` they compute something else.

*Encoding.* `inst_decode` masks the target of a jump with `0x2ffffff`, so that a jump beyond 64 MB of
its segment loses bit 24 (`inst.c:1557`). It reads only bit 16 of a branch on a
coprocessor's condition and only six bits of opcode 0: `bc1fl` comes back as `bc1f`, `movt` as `movf`,
`rotr` as `srl`; opcode 0x7c is in none of its classes (`inst.c:1453`).

*Assembler.* A second definition is refused but the label still moves with the line's
alignment (`UsesResolved`, `LabelsPlaced`, exempt). `.globl` behind the definition leaves a global label in the local list (`FilesApart`,
exempt). A name given to `.lcomm` twice within the small data makes the list a ring and the
flush endless (`FlushEnds`, exempt). `.extern` behind a use sets an address without resolving the use (`UsesResolved`, exempt).
A forward `.word sym+4` loses the offset, and of a forward `.word sym:3` only the first word is
resolved; a forward `.byte sym` is patched as a word. A forward `.word sym` in the
text segment later overwrites a word of data (`parser.y:2614`; `UsesResolved`, exempt). Any line between a label and
its datum ends the label's alignment with it. A word at `data_top` is dropped. An undefined
use stays in the table and may be resolved by another file's local label.

*Shell.* `read` of a file that cannot be opened pops a buffer that was never pushed: the terminal's, and
the next token crashes (`spim.c:446`). `print`, `read` and `breakpoint` without an argument, and `print_all_regs` without `hex`, read the
newline as one, and then flush the next line (`spim.c:573-583`), although the help text lists `print_all_regs` without an
argument (`spim.c:629`): the command that follows it is never executed. A blank line after `read`, `breakpoint` or `delete` uses the
token kind of the last `print`. After `print` of an unknown label it prints the memory at 4. `dump "f"`
leaves its newline, which dumps again. Each of these is outside `CommandsMeant` (`Plain`): its line has no meaning in the
help text, or is a blank line behind a command that a blank line does not repeat as a whole. `reinitialize` empties the
scanner's buffer, and with it all the input of a pipe. `spim f a` loads `a`: an argument that is no
option is taken for the option `-file` and its successor for the file. `-assemble` without program arguments names its output after
a null pointer. Looking up a symbol creates it. `initialize_run_stack` leaves `$a1`, `$a2` alone if
their vectors are empty. ^C while `main` runs the file of the command line kills the simulator, as nothing catches it. `fatal_error` (`spim.c:1007`) exits without
`console_to_spim`: under `-mapped_io` a program that executes a word no instruction decodes to (`run.c:1632`) leaves the terminal raw. It also takes its
argument for the format. A signal between the change of the terminal and the flag (`spim.c:1143-1145`) leaves it raw at the prompt, and the next
program has raw saved as the user's mode (both `TerminalRestored`, exempt).

## 6. What is not modelled

* Floating point: it is the host's. Display, string streams, the printing of instructions and
  symbols: formatting only.
* The contents of files: what `dump` and `-assemble` write, and the host's files behind the `open`, `read`,
  `write` and `close` system calls. The numbers and strings system calls convert.
* The grammar itself and the tables generated from it: `Shell` starts from tokens,
  `Assembler` and `PseudoInstructions` from lines.
* In `Instructions` and `PseudoInstructions`: floating point, coprocessor moves, TLB and cache
  instructions, `syscall`; delayed branches and what follows an exception (`RunLoop`);
  accesses to text, stack and devices (`Memory`, `Console`); symbols relative to `$gp`; the
  16-bit branch displacement (branches go where their label is); trap
  immediates beyond 16 bits, which end in `fatal_error`; division by a constant 0, which is an error message.
* In `Assembler`: `.byte`/`.half` with a symbol, `sym+4`, `sym:3`, jumps in the data segment,
  `.space` in the text segment, the kernel segments. Branches and `lui` pairs, which are
  resolved the same way through other fields.
* In `Memory`: the overflow of `ROUND_UP` for an `sbrk` near 2^31.
* In `CallConvention`: reading and concatenating the files; it runs once, on text.
* In `Shell`: ^C while the shell prompts, parses a command or reads a file (it is modelled while a program runs); `fatal_error` at the prompt, from
  printing an instruction that does not exist, from `.err` in a file that is read, or out of memory; an input that ends within a line, and tokens that are numbers the scanner cannot convert.

## 7. What could come next

1. `Expansions` under `-delayed_branches`: `Machine` with the delay slots of `RunLoop`, stating
   which lines survive.
2. `Encoding` with the types of floating point and coprocessor instructions, and the proof that
   decoding an encoded instruction gives it back.

The order follows what other parts rest on, and proofs follow the runs: TLC has to agree first.
