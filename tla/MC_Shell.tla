-------------------------------- MODULE MC_Shell --------------------------------
(* Sessions of one and two lines, and of three of the lines that tell most    *)
(* of one another, typed and piped, under command lines that run a program,   *)
(* and ones that prompt.                                                      *)
EXTENDS Shell

Word(of, n) == [t |-> "ID", v |-> "a word", of |-> of, n |-> n]
Label(v) == [t |-> "ID", v |-> v, of |-> {}, n |-> 4]
File(v) == [t |-> "STR", v |-> v]
Reg(v) == [t |-> "REG", v |-> v]
Number(v) == [t |-> "INT", v |-> v]

\* p, ru, print_a, ...: abbreviations, of several commands where they are.
P == Word({"print", "print_symbols", "print_all_regs"}, 1)
PrintR == <<P, Reg(8), NL>>
PrintF == <<Word({"print"}, 5), [t |-> "FP_REG", v |-> 2], NL>>
PrintM == <<P, Number(40), Number(7), NL>>
PrintL == <<P, Label("main"), NL>>
PrintX == <<P, Label("nowhere"), NL>>
PrintPC == <<P, Label("pc"), NL>>
PrintBare == <<P, NL>>
Symbols == <<Word({"print_symbols"}, 7), NL>>
AllRegs == <<Word({"print_all_regs"}, 7), NL>>
AllHex == <<Word({"print_all_regs"}, 7), Label("hex"), NL>>
RunStart == <<Word({"run"}, 2), NL>>
RunAt == <<Word({"run"}, 2), Number(64), NL>>
Step1 == <<Word({"step"}, 1), NL>>
Step3 == <<Word({"step"}, 4), Number(3), NL>>
Cont == <<Word({"continue"}, 1), NL>>
Break4 == <<Word({"breakpoint"}, 2), Number(4), NL>>
BreakL == <<Word({"breakpoint"}, 2), Label("main"), NL>>
BreakNone == <<Word({"breakpoint"}, 2), Reg(8), NL>>
Delete4 == <<Word({"delete"}, 1), Number(4), NL>>
List == <<Word({"list"}, 2), NL>>
Reinit == <<Word({"reinitialize"}, 6), NL>>
ReadF == <<Word({"read"}, 2), File("f"), NL>>
ReadNone == <<Word({"load"}, 2), File("absent"), NL>>
ReadBare == <<Word({"load"}, 2), NL>>
Asm == <<Word({"."}, 1), Label("nop"), NL>>
DumpF == <<Word({"dump", "dumpnative"}, 4), File("f"), NL>>
DumpN == <<Word({"dumpnative"}, 5), NL>>
DumpR == <<Word({"dump", "dumpnative"}, 4), Reg(8), Reg(9), NL>>
HelpQ == <<Word({"?"}, 1), NL>>
Short == <<Word({"run", "read", "reinitialize"}, 1), Number(1), NL>>
Quit == <<Word({"quit"}, 2), NL>>
Blank == <<NL>>

(* Of the lines the help text speaks of, continue and print_all_regs without *)
(* hex are left out: they read too little and too much.                      *)
HelpText ==
  PrintR :> <<"REG", 8>> @@ PrintF :> <<"FP_REG", 2>> @@ PrintM :> <<"INT", 40>> @@
  PrintL :> <<"symbol", "main", 0>> @@ PrintX :> <<"symbol", "nowhere", 0>> @@ PrintPC :> <<"name", "pc">> @@
  Symbols :> <<"symbols">> @@ AllHex :> <<"regs", TRUE>> @@
  RunStart :> <<"run", "start">> @@ RunAt :> <<"run", 64>> @@
  Step1 :> <<"step", 1>> @@ Step3 :> <<"step", 3>> @@
  Break4 :> <<"breakpoint", 4>> @@ Delete4 :> <<"delete", 4>> @@ List :> <<"list">> @@
  Reinit :> <<"reinitialize">> @@ ReadF :> <<"read", "f">> @@ Asm :> <<"asm", "nop">> @@
  DumpN :> <<"dumpnative", "spim.dump">> @@ HelpQ :> <<"help">>
WithContinue == HelpText @@ Cont :> <<"continue">>

Lines == {PrintR, PrintF, PrintM, PrintL, PrintX, PrintPC, PrintBare, Symbols, AllRegs, AllHex, RunStart, RunAt,
          Step1, Step3, Cont, Break4, BreakL, BreakNone, Delete4, List, Reinit, ReadF, ReadNone, ReadBare, Asm,
          DumpF, DumpN, DumpR, HelpQ, Short, Quit, Blank}
Often == {PrintR, PrintL, RunStart, Cont, Reinit, Blank}
Alone == {<<>>} \cup {<<a>> : a \in Lines}
Pairs == {<<a, b>> : a, b \in Lines}
Triples == {<<a, b, c>> : a, b, c \in Often}
             \cup {<<a, Blank, b>> : a, b \in {PrintPC, Step3, AllRegs, Break4, ReadF, RunAt, RunStart}}

Prompting == {<<"-mapped_io">>, <<"-nomapped_io", "-file", "absent", "a", "">>, <<"f", "absent", "abc">>,
              <<"-exception", "-file">>}
Handlerless == {<<"-noexception">>, <<"-bare", "-exception_file">>}
Loading == {<<"-file", "f">>, <<"-assemble", "-file", "f">>, <<"-assemble", "-file", "f", "a">>, <<"abcd", "f">>,
            <<"-mapped_io", "-stext", "5", "-file", "f", "abc", "">>, <<"-full_dump", "a", "f">>,
            <<"-exception_file", "absent">>}
AllUses ==
  [args : {<<"-mapped_io">>}, lines : Pairs \cup Triples]
    \cup [args : Prompting \cup Handlerless, lines : {<<a, b>> : a, b \in Often}]
    \cup [args : Prompting \cup Handlerless \cup Loading, lines : Alone]
ContinueUses == [args : {<<>>}, lines : {<<RunStart, Cont, List>>}]

Letters == [w \in {"f", "absent", "a", "abc", "", "abcd", "5", "E=1"} |->
             CASE w = "" -> <<>>
               [] w = "5" -> <<5>>
               [] w = "f" -> <<15>>
               [] w = "a" -> <<10>>
               [] w = "abc" -> <<10, 11, 12>>
               [] w = "E=1" -> <<14, 61, 1>>
               [] w = "abcd" -> <<10, 11, 12, 13>>
               [] w = "absent" -> <<10, 11, 50, 14, 51, 52>>]
OneString == <<"E=1">>
Files == {"exceptions.s", "f"}
Defined == [f \in Files |-> IF f = "f" THEN {<<"main", 4>>} ELSE {<<"__start", 8>>}]
Code == [f \in Files |-> IF f = "f" THEN {4} ELSE {8}]
================================================================================
