---------------------------------- MODULE Shell ----------------------------------
(***************************************************************************)
(* The simulator as a user meets it: the command line, the prompt and its  *)
(* commands (spim.c), the buffers the scanner reads them from (lex.yy.c),  *)
(* the terminal a program borrows, and the arguments it finds on its stack *)
(* (spim-utils.c).  What a program does is RunLoop's and Machine's matter: *)
(* here it runs, prints, reads a line, and returns, fails or is            *)
(* interrupted.                                                            *)
(*                                                                         *)
(* A line is a sequence of tokens [t |-> kind, v |-> value] that ends with *)
(* NL.  A word also says of which commands it is a prefix, and its length. *)
(***************************************************************************)
EXTENDS RunStack, FiniteSets

CONSTANTS
  Uses,           \* [args, lines]: the arguments of main, the lines a user types or pipes into spim
  Existing,       \* the files that can be read
  Labels,         \* what a file defines: file -> {<<name, address>>}
  Text,           \* the addresses at which a file has instructions
  Stops,          \* addresses at which a program may end, not 0
  Meaning         \* what the help text says of a line: line -> effect

NL == [t |-> "NL", v |-> ""]
End == [t |-> "EOF", v |-> ""]
Cut == <<End>>   \* heard when a program is interrupted
HANDLER == "exceptions.s"
DEFAULT_RUN_LOCATION == "__start"
RegisterNames == {"pc", "hi", "lo", "cause", "epc", "status", "badvaddr", "fpcond"}

VARIABLES
  argv, interactive,      \* how spim was called; whether its input is a terminal
  settings,               \* what main made of argv
  status,                 \* where spim is: see Statuses
  typed, buffers,         \* the input: lines not yet read, the scanner's buffers
  yytoken, yylval,        \* the last token at the prompt, and the last value
  redo, prev_cmd, prev_token, static,   \* the memory of parse_spim_command
  files, PC, bkpts, regs, stack,        \* the simulated machine
  terminal, saved_console_state, console_state_saved,
  job                     \* the command whose program runs

(* What is observed: the lines begun at the prompt, what was done, and       *)
(* whether a signal has come before it was noted that the terminal is lent.  *)
VARIABLES heard, effects, slipped

(* "starting" and "switching" are the moment in console_to_program in which  *)
(* the terminal is lent and that is not noted yet; "switched" is a program   *)
(* for which spim prints or reads; "aborted" is the exit of fatal_error.     *)
Statuses == {"start", "prompt", "starting", "running", "switched", "switching", "exited", "aborted", "undefined"}

call == <<argv, interactive, settings>>
input == <<typed, buffers, yytoken, yylval, heard>>
memory == <<redo, prev_cmd, prev_token, static>>
world == <<files, PC, bkpts, regs, stack>>
console == <<terminal, saved_console_state, console_state_saved, slipped>>
vars == <<call, status, input, memory, world, console, job, effects>>

-----------------------------------------------------------------------------
(* The command line.  Options that only set a flag of the assembler or of    *)
(* the processor change nothing here.                                        *)
Defaults == [exception_file_name |-> HANDLER, load_exception_handler |-> TRUE, mapped_io |-> FALSE,
             assemble |-> FALSE, dump_user |-> FALSE, dump_all |-> FALSE,
             file |-> "none", program_argv |-> <<>>, next |-> 1]
Sizes == {"-stext", "-sdata", "-ldata", "-sstack", "-lstack", "-sktext", "-skdata", "-lkdata"}

Set(s, arg) ==
  CASE arg \in {"-exception", "-trap"} -> [s EXCEPT !.load_exception_handler = TRUE]
    [] arg \in {"-noexception", "-notrap"} -> [s EXCEPT !.load_exception_handler = FALSE]
    [] arg = "-mapped_io" -> [s EXCEPT !.mapped_io = TRUE]
    [] arg = "-nomapped_io" -> [s EXCEPT !.mapped_io = FALSE]
    [] arg = "-assemble" -> [s EXCEPT !.assemble = TRUE]
    [] arg = "-dump" -> [s EXCEPT !.dump_user = TRUE]
    [] arg = "-full_dump" -> [s EXCEPT !.dump_all = TRUE]
    [] OTHER -> s

(* A word, which is not an option, is taken like -file: the file is the      *)
(* argument behind it, and everything behind it goes to the program.         *)
Argument(args, s, k) ==
  LET n == Len(args)
      follower == IF k < n THEN args[k + 1] ELSE "NULL"
  IN  CASE k < s.next -> s
        [] k = s.next /\ ((args[k] = "-file" /\ k < n) \/ args[k] \in DOMAIN Chars) ->
             [s EXCEPT !.program_argv = SubSeq(args, k + 1, n), !.file = follower, !.next = n + 1]
        [] k = s.next /\ args[k] \in Sizes -> [s EXCEPT !.next = k + 2]
        [] k = s.next /\ args[k] \in {"-exception_file", "-trap_file"} ->
             [s EXCEPT !.exception_file_name = follower, !.load_exception_handler = TRUE, !.next = k + 2]
        [] OTHER -> [Set(s, args[k]) EXCEPT !.next = k + 1]

Parsed(args) == FoldLeft(LAMBDA s, k : Argument(args, s, k), Defaults, [k \in DOMAIN args |-> k])
Options == Parsed(argv)

Handler(set) ==
  IF set.load_exception_handler /\ set.exception_file_name # "NULL" THEN <<set.exception_file_name>> ELSE <<>>

-----------------------------------------------------------------------------
(* The scanner.  An interactive buffer is filled by a line, another one by   *)
(* everything there is.                                                      *)
Emptied(file) == [file |-> file, unread |-> <<>>]
YYIn(bufs) == IF bufs = <<>> THEN "none" ELSE Last(bufs).file
push_scanner(bufs, file) == Append(bufs, Emptied(file))
pop_scanner(bufs) == IF bufs = <<>> THEN bufs ELSE Front(bufs)

(* The buffer of the file that is read already is emptied, not pushed.       *)
initialize_scanner(bufs, file) ==
  IF YYIn(bufs) # file THEN push_scanner(bufs, file)
  ELSE Append(Front(bufs), Emptied(file))

YY_INPUT(s) ==
  IF interactive THEN [s EXCEPT !.unread = Head(s.typed), !.typed = Tail(s.typed)]
  ELSE [s EXCEPT !.unread = FlattenSeq(s.typed), !.typed = <<>>]
Filled(s) == IF s.unread = <<>> /\ s.typed # <<>> THEN YY_INPUT(s) ELSE s

(* NL sets no value.                                                         *)
Value(tokens, old) ==
  LET valued == {k \in DOMAIN tokens : tokens[k].t # "NL"}
  IN  IF valued = {} THEN old ELSE tokens[Max(valued)].v

read_token(s) ==
  LET f == Filled(s)
  IN  IF f.unread = <<>> THEN [f EXCEPT !.token = End]
      ELSE [f EXCEPT !.unread = Tail(@), !.token = Head(f.unread),
                     !.value = Value(<<Head(f.unread)>>, f.value)]

(* The line that is read next, up to its NL.                                 *)
Line(s) ==
  LET f == Filled(s).unread
      newline == CHOOSE k \in DOMAIN f : f[k] = NL /\ \A j \in 1..(k - 1) : f[j] # NL
  IN  IF f = <<>> THEN <<>> ELSE SubSeq(f, 1, newline)

flush_to_newline(s) ==
  LET line == Line(s)
      f == Filled(s)
  IN  IF line = <<>> THEN [f EXCEPT !.token = End]
      ELSE [f EXCEPT !.unread = SubSeq(@, Len(line) + 1, Len(@)), !.token = NL, !.value = Value(line, f.value)]

Terminal == [unread |-> Last(buffers).unread, typed |-> typed, token |-> yytoken, value |-> yylval]

(* Whether the scanner reads what the user types.                            *)
AtTerminal == YYIn(buffers) = "terminal"

-----------------------------------------------------------------------------
(* The machine.                                                              *)
find_symbol_address(name) ==
  LET defined == {def \in UNION {Labels[f] : f \in Range(files)} : def[1] = name}
  IN  IF defined = {} THEN 0 ELSE (CHOOSE def \in defined : TRUE)[2]
starting_address == find_symbol_address(DEFAULT_RUN_LOCATION)

ClearedRegisters == [sp |-> STACK_TOP - 4, a0 |-> 0, a1 |-> 0, a2 |-> 0]

(* The environment and what any command line passes on fit on the stack:    *)
(* beyond its limit expand_stack reports an error and nothing is passed.    *)
ASSUME ShellAssumption ==
  \A use \in Uses :
    LET given == Parsed(use.args).program_argv
    IN  given \in Seq(DOMAIN Chars) /\ initialize_run_stack(given, ClearedRegisters, Unused).regs.sp >= 0

(* An input ends with a line, and what can be read defines labels.           *)
IsLine(line) ==
  /\ line \in Seq(Range(line)) /\ line # <<>> /\ Last(line) = NL
  /\ \A k \in 1..(Len(line) - 1) : line[k].t \notin {"NL", "EOF"}

ASSUME InputAssumption ==
  /\ \A use \in Uses : use.lines \in Seq(Range(use.lines)) /\ \A line \in Range(use.lines) : IsLine(line)
  /\ DOMAIN Labels = Existing
  /\ \A f \in Existing : \A def \in Labels[f] : def[2] \in Nat

(* initialize_world and, behind it, initialize_run_stack.                    *)
initialize_world(set) ==
  LET started == initialize_run_stack(set.program_argv, ClearedRegisters, Unused)
  IN  /\ files' = Handler(set)
      /\ PC' = 0 /\ bkpts' = {}
      /\ regs' = started.regs /\ stack' = started.mem
ScannerOfWorld(bufs, set) ==
  FoldLeft(initialize_scanner, bufs, Append(Handler(set), "terminal"))

(* The terminal's mode is saved and changed; what is changed is noted behind *)
(* that (Lent).                                                              *)
console_to_program(set, moment) ==
  IF set.mapped_io /\ ~console_state_saved
  THEN /\ saved_console_state' = terminal /\ terminal' = "raw" /\ status' = moment
       /\ UNCHANGED <<console_state_saved, slipped>>
  ELSE status' = "running" /\ UNCHANGED console
console_to_spim ==
  /\ terminal' = IF settings.mapped_io /\ console_state_saved THEN saved_console_state ELSE terminal
  /\ console_state_saved' = FALSE
  /\ UNCHANGED <<saved_console_state, slipped>>

(* set_breakpoint returns nothing where a break already is or no instruction. *)
add_breakpoint(addr) ==
  bkpts' = IF \E f \in Range(files) : addr \in Text[f] THEN bkpts \cup {addr} ELSE bkpts
delete_breakpoint(addr) == bkpts' = bkpts \ {addr}

Did(effect) == effects' = Append(effects, effect)

-----------------------------------------------------------------------------
(* main.                                                                     *)
Init ==
  /\ \E use \in Uses : argv = use.args /\ typed = use.lines
  /\ interactive \in BOOLEAN
  /\ settings = Defaults /\ status = "start"
  /\ buffers = <<>> /\ yytoken = NL /\ yylval = 0
  /\ redo = FALSE /\ prev_cmd = "NOP" /\ prev_token = "none"
  /\ static = [addr |-> 0, steps |-> 0, loc |-> 0, bkpt |-> 0]
  /\ files = <<>> /\ PC = 0 /\ bkpts = {}
  /\ regs = ClearedRegisters /\ stack = Unused
  /\ terminal = "user" /\ saved_console_state = "none" /\ console_state_saved = FALSE
  /\ slipped = FALSE
  /\ job = "none" /\ heard = <<>> /\ effects = <<>>

ReadHandler(set) == Range(Handler(set)) \subseteq Existing

(* Without a file that could be read: the second initialization of the world *)
(* follows the first one.                                                    *)
TopLevel ==
  /\ status = "start" /\ Options.file \notin Existing /\ ReadHandler(Options)
  /\ settings' = Options
  /\ initialize_world(Options)
  /\ LET once == ScannerOfWorld(<<>>, Options)
     IN  buffers' = IF Options.file = "none" THEN once ELSE ScannerOfWorld(once, Options)
  /\ status' = "prompt"
  /\ UNCHANGED <<argv, interactive, typed, yytoken, yylval, heard, memory, console, job, effects>>

FileLoaded ==
  /\ status = "start" /\ Options.file \in Existing /\ ReadHandler(Options)
  /\ settings' = Options
  /\ buffers' = push_scanner(ScannerOfWorld(<<>>, Options), Options.file)
  /\ files' = Append(Handler(Options), Options.file)
  /\ LET started == initialize_run_stack(Options.program_argv, ClearedRegisters, Unused)
     IN  regs' = started.regs /\ stack' = started.mem
  /\ UNCHANGED <<argv, interactive, typed, yytoken, yylval, heard, memory, PC, bkpts>>

(* The code is written to a file that is named for program_argv[0].          *)
WriteCode ==
  /\ FileLoaded /\ (Options.assemble \/ Options.dump_user \/ Options.dump_all)
  /\ Did(IF Options.assemble THEN <<"assemble">> ELSE <<"dump", IF Options.dump_user THEN "user" ELSE "all">>)
  /\ status' = IF Options.assemble /\ Options.program_argv = <<>> THEN "undefined" ELSE "exited"
  /\ UNCHANGED <<console, job>>

(* The program runs from the start or, where there is none, fails at once.   *)
RunFile ==
  /\ FileLoaded /\ ~(Options.assemble \/ Options.dump_user \/ Options.dump_all)
  /\ console_to_program(Options, "starting") /\ job' = "file" /\ Did(<<"run", "file">>)

CannotReadHandler ==
  /\ status = "start" /\ ~ReadHandler(Options)
  /\ status' = "exited"
  /\ UNCHANGED <<call, input, memory, world, console, job, effects>>
-----------------------------------------------------------------------------
(* The prompt: read_assembly_command.                                        *)
str_prefix(tok, word, min_match) == word \in tok.of /\ tok.n >= min_match

Commands ==
  <<<<"exit", 2, "EXIT">>, <<"quit", 2, "EXIT">>, <<"print", 1, "PRINT">>,
    <<"print_symbols", 7, "PRINT_SYM">>, <<"print_all_regs", 7, "PRINT_ALL_REGS">>,
    <<"run", 2, "RUN">>, <<"read", 2, "READ">>, <<"load", 2, "READ">>,
    <<"reinitialize", 6, "REINITIALIZE">>, <<"step", 1, "STEP">>, <<"help", 1, "HELP">>,
    <<"continue", 1, "CONTINUE">>, <<"breakpoint", 2, "SET_BKPT">>, <<"delete", 1, "DELETE_BKPT">>,
    <<"list", 2, "LIST_BKPT">>, <<"dumpnative", 5, "DUMPNATIVE_TEXT">>, <<"dump", 4, "DUMP_TEXT">>,
    <<"?", 1, "HELP">>, <<".", 1, "ASM">>>>

read_assembly_command(tok) ==
  LET matching == {k \in DOMAIN Commands : str_prefix(tok, Commands[k][1], Commands[k][2])}
  IN  CASE tok = NL -> "REDO"
        [] tok.t = "EOF" -> "EOF"
        [] tok.t = "ID" /\ matching # {} -> Commands[Min(matching)][3]
        [] OTHER -> "UNKNOWN"

(* The scanner behind the command word, and the command.                     *)
Opened == IF redo THEN Terminal ELSE read_token(Terminal)
Command == IF redo THEN prev_cmd ELSE read_assembly_command(Opened.token)

(* The argument of a command that asks for a token, and the scanner behind   *)
(* the line: a command without an argument has read its NL as the argument.  *)
Token == IF redo THEN [t |-> prev_token] ELSE read_token(Opened).token
BehindToken == IF redo THEN Terminal ELSE read_token(Opened)
BehindLine == IF redo THEN Terminal ELSE flush_to_newline(BehindToken)
BehindCommand == IF redo THEN Terminal ELSE flush_to_newline(Opened)

(* Mutant: get_opt_int flushes whatever it has read. *)
BehindOptIntFlushed == BehindLine

BehindOptInt == IF redo \/ Token # NL THEN BehindLine ELSE BehindToken

(* What a command reads before it is done.  A redo reads nothing, but for    *)
(* the line that . assembles and the one that reinitialize flushes.          *)
Behind ==
  CASE Command \in {"EXIT", "CONTINUE", "REDO", "NOP", "EOF"} -> Opened
    [] Command \in {"RUN", "STEP"} -> BehindOptInt
    [] Command \in {"DUMP_TEXT", "DUMPNATIVE_TEXT"} -> BehindToken
    [] Command \in {"HELP", "PRINT_SYM", "LIST_BKPT"} -> BehindCommand
    [] Command \in {"ASM", "REINITIALIZE", "UNKNOWN"} -> flush_to_newline(Opened)
    [] OTHER -> BehindLine

(* A line is heard where it begins, not where a command left some of it.  A  *)
(* command that has read its NL as the argument flushes the next line, which *)
(* somebody has typed too.                                                   *)
Begun == IF redo \/ yytoken # NL THEN <<>> ELSE <<Line(Terminal)>>
Swallowed ==
  IF ~redo /\ Token = NL /\ Behind = BehindLine THEN <<Line(BehindToken)>> ELSE <<>>
Heard == heard' = heard \o Begun \o Swallowed
Scanned(s) ==
  /\ buffers' = Append(Front(buffers), [file |-> "terminal", unread |-> s.unread])
  /\ typed' = s.typed /\ yytoken' = s.token /\ yylval' = s.value
  /\ Heard

Gives(cmd) == status = "prompt" /\ AtTerminal /\ Command = cmd /\ Behind.token # End
Prompts(prev) == status' = "prompt" /\ redo' = FALSE /\ prev_cmd' = prev

(* read_token at the end of the input, for whatever command.                 *)
EndOfInput ==
  /\ status = "prompt" /\ AtTerminal /\ Behind.token = End
  /\ Scanned(Behind) /\ console_to_spim /\ status' = "exited"
  /\ UNCHANGED <<call, memory, world, job, effects>>

(* The buffer that is read is not the terminal's: its file is closed, or     *)
(* there is no buffer.                                                       *)
Crash ==
  /\ status = "prompt" /\ ~AtTerminal
  /\ status' = "undefined"
  /\ UNCHANGED <<call, input, memory, world, console, job, effects>>

-----------------------------------------------------------------------------
(* The commands: the cases of parse_spim_command.                            *)
Exit ==
  /\ Gives("EXIT") /\ Scanned(Opened)
  /\ console_to_spim /\ status' = "exited"
  /\ UNCHANGED <<call, memory, world, job, effects>>

(* A file that is read has its own buffer while it is parsed, and leaves the *)
(* scanner a value.  One that is not has none, and the terminal's is popped. *)
Read ==
  /\ Gives("READ") /\ Prompts("READ")
  /\ LET name == BehindLine.value IN
     \/ /\ Token.t # "STR"
        /\ Scanned(BehindLine) /\ UNCHANGED <<files, effects>>
     \/ /\ Token.t = "STR" /\ name \in Existing
        /\ Scanned([BehindLine EXCEPT !.value = "of the file"])
        /\ files' = Append(files, name) /\ Did(<<"read", name>>)
     \/ /\ Token.t = "STR" /\ name \notin Existing
        /\ buffers' = pop_scanner(buffers)
        /\ typed' = BehindLine.typed /\ yytoken' = NL /\ yylval' = name
        /\ Heard
        /\ UNCHANGED <<files, effects>>
  /\ UNCHANGED <<call, prev_token, static, PC, bkpts, regs, stack, console, job>>

(* get_opt_int: the value is the one the rest of the line left.              *)
OptInt == IF Token.t = "INT" THEN BehindLine.value ELSE 0

Starts(cmd) == console_to_program(settings, "starting") /\ job' = cmd /\ UNCHANGED <<redo, prev_cmd>>
DoesNotStart(cmd) == Prompts(cmd) /\ UNCHANGED <<console, job>>

Run ==
  /\ Gives("RUN") /\ Scanned(BehindOptInt)
  /\ LET given == IF redo THEN static.addr ELSE OptInt
         addr == IF given = 0 THEN starting_address ELSE given
         started == initialize_run_stack(settings.program_argv, regs, stack)
     IN  /\ static' = [static EXCEPT !.addr = addr]
         /\ regs' = started.regs /\ stack' = started.mem
         /\ IF addr = 0 THEN DoesNotStart("RUN") ELSE Starts("RUN")
         /\ Did(<<"run", IF addr = starting_address THEN "start" ELSE addr>>)
  /\ UNCHANGED <<call, prev_token, files, PC, bkpts>>

(* The rest of the line is not read. *)
Continue ==
  /\ Gives("CONTINUE") /\ Scanned(Opened)
  /\ IF PC = 0 THEN DoesNotStart("CONTINUE") ELSE Starts("CONTINUE")
  /\ Did(<<"continue">>)
  /\ UNCHANGED <<call, prev_token, static, world>>

Step ==
  /\ Gives("STEP") /\ Scanned(BehindOptInt)
  /\ LET given == IF redo THEN static.steps ELSE OptInt
         steps == IF given = 0 THEN 1 ELSE given
     IN  /\ static' = [static EXCEPT !.steps = steps]
         /\ IF PC = 0 /\ starting_address = 0 THEN DoesNotStart("STEP") ELSE Starts("STEP")
         /\ Did(<<"step", steps>>)
  /\ UNCHANGED <<call, prev_token, world>>

(* Mutant: every redo goes one word ahead, registers too. *)
StrideByWord == [REG |-> 4, FP_REG |-> 4, INT |-> 4, ID |-> 4]

(* What a redo adds to the place printed, by the kind of token. *)
Stride == [REG |-> 1, FP_REG |-> 2, INT |-> 4, ID |-> 4]

PrintPlace ==
  /\ Gives("PRINT") /\ Scanned(BehindLine) /\ Prompts("PRINT")
  /\ LET value == BehindToken.value
         name == Token.t = "ID" /\ value \in RegisterNames
         place == IF redo THEN static.loc + Stride[Token.t]
                  ELSE IF Token.t = "ID" THEN find_symbol_address(value) ELSE value
     IN  /\ static' = IF Token.t \notin DOMAIN Stride \/ name THEN static ELSE [static EXCEPT !.loc = place]
         /\ CASE name -> Did(<<"name", value>>)
              [] Token.t = "ID" /\ ~name -> Did(<<"symbol", value, place - find_symbol_address(value)>>)
              [] Token.t \in DOMAIN Stride \ {"ID"} -> Did(<<Token.t, place>>)
              [] OTHER -> UNCHANGED effects
  /\ prev_token' = Token.t
  /\ UNCHANGED <<call, world, console, job>>

PrintSymbols ==
  /\ Gives("PRINT_SYM") /\ Scanned(BehindCommand) /\ Prompts("NOP")
  /\ Did(<<"symbols">>)
  /\ UNCHANGED <<call, prev_token, static, world, console, job>>

PrintAllRegs ==
  /\ Gives("PRINT_ALL_REGS") /\ Scanned(BehindLine) /\ Prompts("NOP")
  /\ Did(<<"regs", Token.t = "ID" /\ BehindToken.value = "hex">>)
  /\ UNCHANGED <<call, prev_token, static, world, console, job>>

(* The buffers of the scanner are left below the new ones, with what they    *)
(* have not read.                                                            *)
Reinitialize ==
  /\ Gives("REINITIALIZE") /\ Prompts("NOP")
  /\ LET s == flush_to_newline(Opened)
         behind == Append(Front(buffers), [file |-> "terminal", unread |-> s.unread])
     IN  /\ buffers' = ScannerOfWorld(behind, settings)
         /\ typed' = s.typed /\ yytoken' = s.token /\ yylval' = s.value
         /\ Heard
  /\ initialize_world(settings)
  /\ Did(<<"reinitialize">>)
  /\ UNCHANGED <<call, prev_token, static, console, job>>

(* The parser takes the line; a redo takes the next one.                     *)
Assemble ==
  /\ Gives("ASM") /\ Scanned(Behind) /\ Prompts("ASM")
  /\ Did(<<"asm", Behind.value>>)
  /\ UNCHANGED <<call, prev_token, static, world, console, job>>

Redo ==
  /\ Gives("REDO") /\ Scanned(Opened)
  /\ redo' = TRUE
  /\ UNCHANGED <<call, status, prev_cmd, prev_token, static, world, console, job, effects>>

Nop ==
  /\ Gives("NOP") /\ Scanned(Opened) /\ Prompts("NOP")
  /\ UNCHANGED <<call, prev_token, static, world, console, job, effects>>

Help ==
  /\ Gives("HELP") /\ Scanned(BehindCommand) /\ Prompts("HELP")
  /\ Did(<<"help">>)
  /\ UNCHANGED <<call, prev_token, static, world, console, job>>

(* The value is read behind the line; without one, the address of the        *)
(* command before is used.                                                   *)
Breakpoint(cmd, effect) ==
  /\ Gives(cmd) /\ Scanned(BehindLine) /\ Prompts(cmd)
  /\ LET value == BehindLine.value
         addr == CASE Token.t \in {"INT", "ID"} /\ redo -> static.bkpt + 4
                   [] Token.t = "INT" /\ ~redo -> value
                   [] Token.t = "ID" /\ ~redo -> find_symbol_address(value)
                   [] OTHER -> static.bkpt
     IN  /\ static' = [static EXCEPT !.bkpt = addr]
         /\ IF cmd = "SET_BKPT" THEN add_breakpoint(addr) ELSE delete_breakpoint(addr)
         /\ Did(<<effect, addr>>)
  /\ UNCHANGED <<call, prev_token, files, PC, regs, stack, console, job>>
SetBreakpoint == Breakpoint("SET_BKPT", "breakpoint")
DeleteBreakpoint == Breakpoint("DELETE_BKPT", "delete")

ListBreakpoints ==
  /\ Gives("LIST_BKPT") /\ Scanned(BehindCommand) /\ Prompts("LIST_BKPT")
  /\ Did(<<"list">>)
  /\ UNCHANGED <<call, prev_token, static, world, console, job>>

(* A name leaves its NL unread, anything else the rest of its line.  Where   *)
(* the file does not open the command is not the previous one.               *)
Dump(cmd, effect) ==
  /\ Gives(cmd) /\ Scanned(BehindToken)
  /\ IF Token.t \in {"STR", "NL"}
     THEN /\ Did(<<effect, IF Token.t = "STR" THEN BehindToken.value ELSE "spim.dump">>)
          /\ Prompts(cmd) \/ Prompts(prev_cmd)
     ELSE Prompts(prev_cmd) /\ UNCHANGED effects
  /\ UNCHANGED <<call, prev_token, static, world, console, job>>
DumpText == Dump("DUMP_TEXT", "dump")
DumpNativeText == Dump("DUMPNATIVE_TEXT", "dumpnative")

Unknown ==
  /\ Gives("UNKNOWN") /\ Scanned(Behind) /\ Prompts(prev_cmd)
  /\ UNCHANGED <<call, prev_token, static, world, console, job, effects>>

-----------------------------------------------------------------------------
(* While a program runs.  That it has the terminal is noted.                 *)
Lent ==
  /\ status \in {"starting", "switching"}
  /\ console_state_saved' = TRUE /\ status' = "running"
  /\ UNCHANGED <<call, input, memory, world, terminal, saved_console_state, slipped, job, effects>>

(* To print or to read, spim takes the terminal back.                        *)
SwitchOut ==
  /\ status = "running" /\ console_state_saved
  /\ console_to_spim /\ status' = "switched"
  /\ UNCHANGED <<call, input, memory, world, job, effects>>
SwitchIn ==
  /\ status = "switched"
  /\ console_to_program(settings, "switching")
  /\ UNCHANGED <<call, input, memory, world, job, effects>>

(* read_input reads the file itself, behind what the scanner has read.       *)
TakeInput ==
  /\ status = "switched" \/ (status = "running" /\ ~console_state_saved)
  /\ typed # <<>> /\ typed' = Tail(typed)
  /\ UNCHANGED <<call, status, buffers, yytoken, yylval, heard, memory, world, console, job, effects>>

(* A program leaves its own values behind, in registers and on the stack.    *)
LeftBehind ==
  /\ PC' \in Stops
  /\ regs' = [sp |-> 0, a0 |-> -1, a1 |-> -1, a2 |-> -1]
  /\ stack' = Unused
  /\ UNCHANGED <<files, bkpts>>

Over == status' = IF job = "file" THEN "exited" ELSE "prompt"

Ends ==
  /\ status = "running"
  /\ Over /\ LeftBehind /\ console_to_spim
  /\ redo' = FALSE /\ prev_cmd' = IF job = "file" THEN prev_cmd ELSE job
  /\ job' = "none"
  /\ UNCHANGED <<call, input, prev_token, static, effects>>

(* Mutant: the program's terminal is kept. *)
LongJumpRaw ==
  /\ status \in {"running", "switched"}
  /\ Over /\ LeftBehind
  /\ redo' = FALSE /\ job' = "none"
  /\ heard' = Append(heard, Cut)
  /\ UNCHANGED <<call, typed, buffers, yytoken, yylval, prev_cmd, prev_token, static, console, effects>>

(* run_error, and the ^C of a user, which comes as a signal or, to a program *)
(* that has the terminal, as a character.  prev_cmd stays.                   *)
LongJump ==
  /\ status \in {"running", "switched"}
  /\ Over /\ LeftBehind /\ console_to_spim
  /\ redo' = FALSE /\ job' = "none"
  /\ heard' = Append(heard, Cut)
  /\ UNCHANGED <<call, typed, buffers, yytoken, yylval, prev_cmd, prev_token, static, effects>>

(* The signal of a ^C typed just before the terminal was lent: nothing is    *)
(* noted that console_to_spim could undo, and the next console_to_program    *)
(* saves the program's mode as the user's.                                   *)
LongJumpUnnoted ==
  /\ status \in {"starting", "switching"} /\ job # "file"
  /\ status' = "prompt" /\ slipped' = TRUE
  /\ IF status = "switching" THEN LeftBehind ELSE UNCHANGED world
  /\ redo' = FALSE /\ job' = "none"
  /\ heard' = Append(heard, Cut)
  /\ UNCHANGED <<call, typed, buffers, yytoken, yylval, prev_cmd, prev_token, static, effects,
                 terminal, saved_console_state, console_state_saved>>

(* Without top_level nothing catches the signal; the terminal of a program   *)
(* does not send it, but one typed just before may still come.               *)
Killed ==
  /\ job = "file"
  /\ \/ status \in {"running", "switched"} /\ terminal = "user" /\ UNCHANGED slipped
     \/ status \in {"starting", "switching"} /\ slipped' = TRUE
  /\ status' = "exited"
  /\ UNCHANGED <<call, input, memory, world, terminal, saved_console_state, console_state_saved,
                 job, effects>>

(* A word that no instruction decodes to (run.c:1632) or a segment that      *)
(* cannot grow: spim exits, or fails where fatal_error takes its argument    *)
(* for the format, and the terminal stays as it is.                          *)
FatalError ==
  /\ status = "running"
  /\ status' = "aborted"
  /\ UNCHANGED <<call, input, memory, world, console, job, effects>>

Main == TopLevel \/ WriteCode \/ RunFile \/ CannotReadHandler
Prompt ==
  \/ Exit \/ Read \/ Run \/ Continue \/ Step \/ PrintPlace \/ PrintSymbols \/ PrintAllRegs
  \/ Reinitialize \/ Assemble \/ Redo \/ Nop \/ Help \/ SetBreakpoint \/ DeleteBreakpoint
  \/ ListBreakpoints \/ DumpText \/ DumpNativeText \/ Unknown \/ EndOfInput \/ Crash
Program ==
  \/ Lent \/ SwitchOut \/ SwitchIn \/ TakeInput \/ Ends \/ LongJump \/ LongJumpUnnoted \/ Killed \/ FatalError

Next == Main \/ Prompt \/ Program
Spec == Init /\ [][Next]_vars

-----------------------------------------------------------------------------
(* What the help text makes of the lines heard.  A blank line repeats what   *)
(* was done last, a print at the next place; it repeats nothing behind the   *)
(* commands that set prev_cmd to NOP_CMD.                                    *)
Again(effect) ==
  CASE effect[1] = "REG" -> [effect EXCEPT ![2] = @ + 1]
    [] effect[1] = "FP_REG" -> [effect EXCEPT ![2] = @ + 2]
    [] effect[1] = "INT" -> [effect EXCEPT ![2] = @ + 4]
    [] effect[1] = "symbol" -> [effect EXCEPT ![3] = @ + 4]
    [] OTHER -> effect
Final == {"symbols", "regs", "reinitialize"}

(* The help text (spim.c:605-649): a command, its argument if it takes one,  *)
(* and what they do.  run of the start address itself is a run of the start. *)
Told(line, effect) ==
  LET cmd == read_assembly_command(line[1])
      arg == line[2]
      bare == Len(line) = 2
      one == Len(line) = 3
  IN  \/ bare /\ cmd = "RUN" /\ effect = <<"run", "start">>
      \/ /\ one /\ cmd = "RUN" /\ arg.t = "INT" /\ arg.v # 0 /\ effect = <<"run", arg.v>>
         /\ \A f \in Existing : \A def \in Labels[f] : def[1] = DEFAULT_RUN_LOCATION => def[2] # arg.v
      \/ bare /\ cmd = "STEP" /\ effect = <<"step", 1>>
      \/ one /\ cmd = "STEP" /\ arg.t = "INT" /\ arg.v # 0 /\ effect = <<"step", arg.v>>
      \/ bare /\ cmd = "CONTINUE" /\ effect = <<"continue">>
      \/ /\ Len(line) >= 3 /\ cmd = "PRINT" /\ arg.t \in {"REG", "FP_REG", "INT"} /\ arg.v \in Int
         /\ effect = <<arg.t, arg.v>>
      \/ /\ one /\ cmd = "PRINT" /\ arg.t = "ID"
         /\ effect = IF arg.v \in RegisterNames THEN <<"name", arg.v>> ELSE <<"symbol", arg.v, 0>>
      \/ bare /\ cmd = "PRINT_SYM" /\ effect = <<"symbols">>
      \/ bare /\ cmd = "PRINT_ALL_REGS" /\ effect = <<"regs", FALSE>>
      \/ one /\ cmd = "PRINT_ALL_REGS" /\ arg.t = "ID" /\ arg.v = "hex" /\ effect = <<"regs", TRUE>>
      \/ bare /\ cmd = "REINITIALIZE" /\ effect = <<"reinitialize">>
      \/ bare /\ cmd = "HELP" /\ effect = <<"help">>
      \/ bare /\ cmd = "LIST_BKPT" /\ effect = <<"list">>
      \/ one /\ cmd = "SET_BKPT" /\ arg.t = "INT" /\ effect = <<"breakpoint", arg.v>>
      \/ one /\ cmd = "DELETE_BKPT" /\ arg.t = "INT" /\ effect = <<"delete", arg.v>>
      \/ one /\ cmd = "READ" /\ arg.t = "STR" /\ arg.v \in Existing /\ effect = <<"read", arg.v>>
      \/ Len(line) >= 3 /\ cmd = "ASM" /\ effect = <<"asm", line[Len(line) - 1].v>>
      \/ bare /\ cmd = "DUMP_TEXT" /\ effect = <<"dump", "spim.dump">>
      \/ bare /\ cmd = "DUMPNATIVE_TEXT" /\ effect = <<"dumpnative", "spim.dump">>

ASSUME MeaningAssumption ==
  \A line \in DOMAIN Meaning : IsLine(line) /\ Len(line) >= 2 /\ Told(line, Meaning[line])

Understood(s, line) ==
  CASE line = Cut \/ (line = <<NL>> /\ s.last = <<>>) -> s
    [] line = <<NL>> /\ s.last # <<>> -> [last |-> Again(s.last), did |-> Append(s.did, Again(s.last))]
    [] OTHER -> [last |-> IF Meaning[line][1] \in Final THEN <<>> ELSE Meaning[line],
                 did |-> Append(s.did, Meaning[line])]
Said == FoldLeft(Understood, [last |-> <<>>, did |-> <<>>], heard).did

(* Lines with a meaning, and blank lines where the command before is one     *)
(* that a blank line repeats, and was not interrupted.                       *)
NotRepeated == {"read", "asm", "breakpoint", "delete", "dump", "dumpnative"}
Plain ==
  /\ Range(heard) \subseteq DOMAIN Meaning \cup {<<NL>>, Cut}
  /\ \A k \in DOMAIN heard :
       LET before == {j \in 1..(k - 1) : heard[j] # <<NL>>}
           line == heard[Max(before)]
       IN  heard[k] = <<NL>> /\ before # {} => line # Cut /\ Meaning[line][1] \notin NotRepeated

(* Every line typed at the prompt does what the help text says of it, once,  *)
(* in the order of the lines, and whatever the commands before it left in    *)
(* the scanner, in prev_cmd, prev_token and the static variables: no         *)
(* argument of an earlier line is used, no rest of a line is read as a       *)
(* command, no line is skipped (parse_spim_command, spim.c).                 *)
CommandsMeant == (status = "prompt" /\ ~redo /\ AtTerminal /\ Plain) => effects = Said

(* A program that runs from its start finds argc, argv and envp on its stack *)
(* and in its registers, however often the world was initialized and other   *)
(* programs ran before (initialize_run_stack, spim-utils.c).                 *)
ArgumentsPassed ==
  (status \in {"running", "switched"} /\ job \in {"RUN", "file"})
    => ArgumentsOnStack(settings.program_argv, regs, stack)

(* The user has the terminal back whenever spim prompts, prints or reads for *)
(* the program, or has exited: behind the program's end, an error, ^C and    *)
(* the end of the input (console_to_spim, spim.c).  Two ways out leave it to *)
(* the program: fatal_error, which exits without console_to_spim             *)
(* (spim.c:1007), and a signal between tcsetattr and the flag that says so   *)
(* (spim.c:1143-1145), which no later console_to_spim makes good.            *)
TerminalRestored ==
  (status \in {"prompt", "switched", "exited"}) => terminal = "user" \/ slipped
===============================================================================
