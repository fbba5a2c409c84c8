------------------------------- MODULE ShellProofs -------------------------------
(***************************************************************************)
(* Proofs about the shell, for every command line, session and program:    *)
(* the user has the terminal back where spim prompts, prints and exits, but *)
(* behind fatal_error and a signal that came too early; a program           *)
(* that is run from its start finds its arguments on its stack, and every  *)
(* line of the prompt, blank ones too, does what the help text says of it. *)
(***************************************************************************)
EXTENDS Shell, ArithmeticProofs

Lending == {"starting", "switching"}
Live == Lending \cup {"running", "switched"}

(* Unless a signal has come between the two steps of console_to_program, the *)
(* terminal is the program's exactly while its state is saved or about to be *)
(* noted as saved, and then what is saved is the user's, and the program     *)
(* runs or was aborted.  That spim's memory of the terminal is right is what *)
(* makes console_to_spim right, and what keeps a second console_to_program   *)
(* from saving the program's state.                                          *)
Tracked ==
  /\ terminal = IF console_state_saved \/ status \in Lending THEN "raw" ELSE "user"
  /\ console_state_saved => status \in {"running", "aborted"}
  /\ console_state_saved \/ status \in Lending => saved_console_state = "user" /\ settings.mapped_io
TerminalInv == ~slipped => Tracked

LEMMA InitTerminal == Init => TerminalInv
BY DEF Init, TerminalInv, Tracked, Lending

(* The two ways the terminal changes hands. *)
LEMMA TerminalGiven ==
  ASSUME TerminalInv, NEW set, NEW moment \in Lending, console_to_program(set, moment), set = settings',
         status \notin Lending \cup {"running", "aborted"}
  PROVE  TerminalInv'
BY DEF TerminalInv, Tracked, Lending, console_to_program, console

LEMMA TerminalTaken ==
  ASSUME TerminalInv, console_to_spim, status \notin Lending, status' \notin Lending
  PROVE  TerminalInv'
BY DEF TerminalInv, Tracked, console_to_spim

(* Nobody at the prompt has the terminal to lose. *)
LEMMA TerminalLeft ==
  ASSUME TerminalInv, UNCHANGED console, status \notin Lending \cup {"running", "aborted"},
         status' \notin Lending
  PROVE  TerminalInv'
BY DEF TerminalInv, Tracked, console

LEMMA MainTerminal ==
  ASSUME TerminalInv, Main
  PROVE  TerminalInv'
<1>1. status = "start"
  BY DEF Main, TopLevel, WriteCode, RunFile, CannotReadHandler, FileLoaded
<1>2. CASE TopLevel
  BY <1>1, <1>2, TerminalLeft DEF TopLevel, Lending
<1>3. CASE WriteCode
  BY <1>1, <1>3, TerminalLeft DEF WriteCode, Lending
<1>4. CASE RunFile
  <2>1. console_to_program(Options, "starting") /\ settings' = Options
    BY <1>4 DEF RunFile, FileLoaded
  <2>2. "starting" \in Lending /\ status \notin Lending \cup {"running", "aborted"}
    BY <1>1 DEF Lending
  <2>3. QED BY <2>1, <2>2, TerminalGiven
<1>5. CASE CannotReadHandler
  BY <1>1, <1>5, TerminalLeft DEF CannotReadHandler, Lending
<1>6. QED BY <1>2, <1>3, <1>4, <1>5 DEF Main

LEMMA StartsTerminal ==
  ASSUME TerminalInv, NEW cmd, status = "prompt", UNCHANGED call, Starts(cmd) \/ DoesNotStart(cmd)
  PROVE  TerminalInv'
<1>1. settings' = settings /\ "starting" \in Lending /\ status \notin Lending \cup {"running", "aborted"}
  BY DEF call, Lending
<1>2. CASE Starts(cmd)
  BY <1>1, <1>2, TerminalGiven DEF Starts
<1>3. CASE DoesNotStart(cmd)
  BY <1>1, <1>3, TerminalLeft DEF DoesNotStart, Prompts, Lending
<1>4. QED BY <1>2, <1>3

LEMMA AtPrompt ==
  ASSUME Prompt
  PROVE  status = "prompt"
<1> USE DEF Gives
<1>1. CASE Exit \/ Read \/ Run \/ Continue \/ Step \/ PrintPlace \/ PrintSymbols \/ PrintAllRegs
  BY <1>1 DEF Exit, Read, Run, Continue, Step, PrintPlace, PrintSymbols, PrintAllRegs
<1>2. CASE Reinitialize \/ Assemble \/ Redo \/ Nop \/ Help \/ SetBreakpoint \/ DeleteBreakpoint
  BY <1>2 DEF Reinitialize, Assemble, Redo, Nop, Help, SetBreakpoint, DeleteBreakpoint, Breakpoint
<1>3. CASE ListBreakpoints \/ DumpText \/ DumpNativeText \/ Unknown \/ EndOfInput \/ Crash
  BY <1>3 DEF ListBreakpoints, DumpText, DumpNativeText, Dump, Unknown, EndOfInput, Crash
<1>4. QED BY <1>1, <1>2, <1>3 DEF Prompt

LEMMA PromptTerminal ==
  ASSUME TerminalInv, Prompt
  PROVE  TerminalInv'
<1>1. status = "prompt"
  BY AtPrompt
<1>2. CASE Exit \/ EndOfInput
  BY <1>1, <1>2, TerminalTaken DEF Exit, EndOfInput, Lending
<1>3. CASE Run
  <2>1. UNCHANGED call /\ (Starts("RUN") \/ DoesNotStart("RUN"))
    BY <1>3 DEF Run
  <2>2. QED BY <1>1, <2>1, StartsTerminal
<1>4. CASE Continue
  <2>1. UNCHANGED call /\ (Starts("CONTINUE") \/ DoesNotStart("CONTINUE"))
    BY <1>4 DEF Continue
  <2>2. QED BY <1>1, <2>1, StartsTerminal
<1>5. CASE Step
  <2>1. UNCHANGED call /\ (Starts("STEP") \/ DoesNotStart("STEP"))
    BY <1>5 DEF Step
  <2>2. QED BY <1>1, <2>1, StartsTerminal
<1>6. CASE Read \/ PrintPlace \/ PrintSymbols \/ PrintAllRegs \/ Reinitialize \/ Assemble \/ Redo \/ Nop
  <2>1. UNCHANGED console /\ status' = "prompt"
    BY <1>1, <1>6 DEF Read, PrintPlace, PrintSymbols, PrintAllRegs, Reinitialize, Assemble, Redo, Nop, Prompts
  <2>2. QED BY <1>1, <2>1, TerminalLeft DEF Lending
<1>7. CASE Help \/ SetBreakpoint \/ DeleteBreakpoint \/ ListBreakpoints \/ DumpText
           \/ DumpNativeText \/ Unknown \/ Crash
  <2>1. UNCHANGED console /\ status' \in {"prompt", "undefined"}
    BY <1>7 DEF Prompts, Help, SetBreakpoint, DeleteBreakpoint, Breakpoint, ListBreakpoints, DumpText,
                DumpNativeText, Dump, Unknown, Crash
  <2>2. QED BY <1>1, <2>1, TerminalLeft DEF Lending
<1>8. QED BY <1>2, <1>3, <1>4, <1>5, <1>6, <1>7 DEF Prompt

LEMMA ProgramTerminal ==
  ASSUME TerminalInv, Program
  PROVE  TerminalInv'
<1>1. CASE SwitchOut \/ Ends \/ LongJump
  <2>1. console_to_spim /\ status \in {"running", "switched"} /\ status' \in {"switched", "prompt", "exited"}
    BY <1>1 DEF SwitchOut, Ends, LongJump, Over
  <2>2. QED BY <2>1, TerminalTaken DEF Lending
<1>2. CASE SwitchIn
  <2>1. console_to_program(settings, "switching") /\ settings' = settings /\ status = "switched"
    BY <1>2 DEF SwitchIn, call
  <2>2. "switching" \in Lending /\ status \notin Lending \cup {"running", "aborted"}
    BY <2>1 DEF Lending
  <2>3. QED BY <2>1, <2>2, TerminalGiven
<1>3. CASE TakeInput \/ FatalError
  <2>1. /\ UNCHANGED <<console, settings>> /\ status \in {"running", "switched"}
        /\ status' = status \/ (status = "running" /\ status' = "aborted")
    BY <1>3 DEF TakeInput, FatalError, call
  <2>2. QED BY <2>1 DEF console, TerminalInv, Tracked, Lending
<1>4. CASE Lent
  <2>1. /\ UNCHANGED <<terminal, saved_console_state, slipped, settings>> /\ console_state_saved'
        /\ status \in Lending /\ status' = "running"
    BY <1>4 DEF Lent, call, Lending
  <2>2. QED BY <2>1 DEF TerminalInv, Tracked, Lending
<1>5. CASE LongJumpUnnoted
  BY <1>5 DEF LongJumpUnnoted, TerminalInv
<1>6. CASE Killed
  <2>1. CASE status \in {"running", "switched"} /\ terminal = "user" /\ slipped' = slipped
    <3>1. UNCHANGED <<terminal, saved_console_state, console_state_saved, settings>> /\ status' = "exited"
      BY <1>6 DEF Killed, call
    <3>2. QED BY <2>1, <3>1 DEF TerminalInv, Tracked, Lending
  <2>2. CASE slipped'
    BY <2>2 DEF TerminalInv
  <2>3. QED BY <1>6, <2>1, <2>2 DEF Killed
<1>7. QED BY <1>1, <1>2, <1>3, <1>4, <1>5, <1>6 DEF Program

(* What spim remembers of the terminal is true in every state. *)
THEOREM TerminalIsTracked == Spec => []TerminalInv
<1>1. TerminalInv /\ [Next]_vars => TerminalInv'
  <2>1. SUFFICES ASSUME TerminalInv, [Next]_vars PROVE TerminalInv'
    OBVIOUS
  <2>2. CASE UNCHANGED vars
    BY <2>1, <2>2 DEF vars, call, console, TerminalInv, Tracked
  <2>3. QED BY <2>1, <2>2, MainTerminal, PromptTerminal, ProgramTerminal DEF Next
<1>2. QED BY <1>1, InitTerminal, PTL DEF Spec

(* The user has the terminal back whenever spim prompts, prints, reads for  *)
(* the program or has exited, behind whatever but fatal_error and a signal  *)
(* between the change of the terminal and the flag that notes it.           *)
THEOREM TerminalIsRestored == Spec => []TerminalRestored
<1>1. TerminalInv => TerminalRestored
  BY DEF TerminalInv, Tracked, TerminalRestored, Lending
<1>2. QED BY <1>1, TerminalIsTracked, PTL

-------------------------------------------------------------------------------
(* The folds of initialize_run_stack are taken one element at a time, so     *)
(* that what holds behind each of them can be shown by induction.            *)

(* The greatest element of a set of indices that holds the greatest index. *)
LEMMA MaxIsLast ==
  ASSUME NEW k \in Nat, NEW s, s \subseteq 1..k, k \in s
  PROVE  Max(s) = k
<1>1. \A y \in s : k >= y
  OBVIOUS
<1>2. \E x \in s : \A y \in s : x >= y
  BY <1>1
<1>3. Max(s) \in s /\ \A y \in s : Max(s) >= y
  BY <1>2 DEF Max
<1>4. Max(s) \in 1..k /\ Max(s) >= k
  BY <1>3
<1>5. QED
  <2> DEFINE m == Max(s)
  <2>1. m \in 1..k /\ m >= k
    BY <1>4
  <2> HIDE DEF m
  <2>2. m = k
    BY <2>1
  <2>3. QED BY <2>2 DEF m

(* st[k] is the stack behind the first k of n words. *)
CopiedOneByOne(st, base, words, n) ==
  /\ st[0] = base
  /\ st[n] = FoldLeft(copy_str_to_stack, base, words)
  /\ \A k \in 1..n : st[k] = copy_str_to_stack(st[k - 1], words[k])

LEMMA StringsFolded ==
  ASSUME NEW base, NEW words, NEW n \in Nat, DOMAIN words = 1..n
  PROVE  \E st : CopiedOneByOne(st, base, words, n)
<1> DEFINE Copied(f, s) == IF s = {} THEN base ELSE copy_str_to_stack(f[s \ {Max(s)}], words[Max(s)])
           Folded(f, k) == f = [s \in SUBSET (1..k) |-> Copied(f, s)]
           K == {k \in Nat : \E f : Folded(f, k)}
<1>1. 0 \in K
  <2> DEFINE f == [s \in SUBSET (1..0) |-> base]
  <2>1. \A s \in SUBSET (1..0) : Copied(f, s) = base
    OBVIOUS
  <2>2. Folded(f, 0)
    <3> HIDE DEF Copied
    <3>1. QED BY <2>1
  <2>3. QED BY <2>2
<1>2. ASSUME NEW k \in Nat, k \in K PROVE k + 1 \in K
  <2>1. PICK f : Folded(f, k)
    BY <1>2
  <2> DEFINE g == [s \in SUBSET (1..(k + 1)) |->
                     IF k + 1 \in s THEN copy_str_to_stack(f[s \ {k + 1}], words[k + 1]) ELSE f[s]]
  <2>2. ASSUME NEW s \in SUBSET (1..(k + 1)) PROVE g[s] = Copied(g, s)
    <3>1. CASE k + 1 \in s
      <4>1. Max(s) = k + 1
        <5>1. k + 1 \in Nat /\ s \subseteq 1..(k + 1)
          OBVIOUS
        <5>2. QED BY <3>1, <5>1, MaxIsLast
      <4>2. s \ {k + 1} \in SUBSET (1..(k + 1)) /\ k + 1 \notin s \ {k + 1} /\ s # {}
        BY <3>1
      <4>3. g[s \ {k + 1}] = f[s \ {k + 1}]
        BY <4>2
      <4>4. g[s] = copy_str_to_stack(f[s \ {k + 1}], words[k + 1])
        BY <3>1
      <4> HIDE DEF g
      <4>5. QED BY <4>1, <4>2, <4>3, <4>4
    <3>2. CASE k + 1 \notin s
      <4>1. s \in SUBSET (1..k) /\ g[s] = f[s]
        BY <3>2
      <4>2. f[s] = Copied(f, s)
        BY <2>1, <4>1
      <4>3. s \ {Max(s)} \in SUBSET (1..(k + 1)) /\ k + 1 \notin s \ {Max(s)}
        BY <3>2
      <4>4. g[s \ {Max(s)}] = f[s \ {Max(s)}]
        BY <4>3
      <4> HIDE DEF g
      <4>5. QED BY <4>1, <4>2, <4>4
    <3>3. QED BY <3>1, <3>2
  <2>3. g = [s \in SUBSET (1..(k + 1)) |-> g[s]]
    OBVIOUS
  <2>4. Folded(g, k + 1)
    <3> HIDE DEF g, Copied
    <3>1. QED BY <2>2, <2>3
  <2>5. QED
    <3> HIDE DEF g, Folded
    <3>1. QED BY <2>4
<1>3. n \in K
  <2> HIDE DEF K
  <2>1. QED BY <1>1, <1>2, Induction
<1>4. \E f : Folded(f, n)
  BY <1>3
<1> DEFINE iter == CHOOSE f : Folded(f, n)
<1>5. Folded(iter, n)
  <2> HIDE DEF Folded
  <2>1. QED BY <1>4
<1>6. FoldLeft(copy_str_to_stack, base, words) = iter[1..n]
  BY Zenon DEF FoldLeft, MapThenFoldSet
<1> HIDE DEF iter
<1> DEFINE st == [k \in 0..n |-> iter[1..k]]
<1>7. st[0] = base
  <2>1. 1..0 = {} /\ {} \in SUBSET (1..n) /\ 0 \in 0..n
    OBVIOUS
  <2>2. QED BY <1>5, <2>1
<1>8. ASSUME NEW k \in 1..n PROVE st[k] = copy_str_to_stack(st[k - 1], words[k])
  <2>1. Max(1..k) = k /\ 1..k # {} /\ 1..k \in SUBSET (1..n) /\ (1..k) \ {k} = 1..(k - 1)
    BY MaxIsLast
  <2>2. iter[1..k] = copy_str_to_stack(iter[1..(k - 1)], words[k])
    BY <1>5, <2>1
  <2>3. QED BY <2>2
<1>9. st[n] = iter[1..n]
  OBVIOUS
<1> HIDE DEF st
<1>10. CopiedOneByOne(st, base, words, n)
  BY <1>6, <1>7, <1>8, <1>9 DEF CopiedOneByOne
<1>11. QED BY <1>10

(* The least element of a set of indices that holds the least index. *)
LEMMA MinIsFirst ==
  ASSUME NEW m \in Nat, NEW k \in 1..m, NEW s \in SUBSET (k..m), k \in s
  PROVE  Min(s) = k
<1>1. \A y \in s : k <= y
  OBVIOUS
<1>2. \E x \in s : \A y \in s : x <= y
  BY <1>1
<1>3. Min(s) \in s /\ \A y \in s : Min(s) <= y
  BY <1>2 DEF Min
<1>4. Min(s) \in k..m /\ Min(s) <= k
  BY <1>3
<1>5. QED
  <2> DEFINE x == Min(s)
  <2>1. x \in k..m /\ x <= k
    BY <1>4
  <2> HIDE DEF x
  <2>2. x = k
    BY <2>1
  <2>3. QED BY <2>2 DEF x

(* st[k] is the stack behind the last k of n addresses: a fold from the       *)
(* right takes the last one first.                                           *)
AddressesPushed(addrs, base) == FoldRight(LAMBDA addr, rest : copy_int_to_stack(rest, addr), addrs, base)
PushedOneByOne(st, base, addrs, n) ==
  /\ st[0] = base
  /\ st[n] = AddressesPushed(addrs, base)
  /\ \A k \in 1..n : st[k] = copy_int_to_stack(st[k - 1], addrs[n + 1 - k])

LEMMA AddressesFolded ==
  ASSUME NEW base, NEW addrs, NEW n \in Nat, DOMAIN addrs = 1..n
  PROVE  \E st : PushedOneByOne(st, base, addrs, n)
<1> DEFINE Copied(f, s) == IF s = {} THEN base ELSE copy_int_to_stack(f[s \ {Min(s)}], addrs[Min(s)])
           Folded(f, k) == f = [s \in SUBSET ((n + 1 - k)..n) |-> Copied(f, s)]
           K == {k \in Nat : k <= n => \E f : Folded(f, k)}
<1>1. 0 \in K
  <2> DEFINE f == [s \in SUBSET ((n + 1 - 0)..n) |-> base]
  <2>1. \A s \in SUBSET ((n + 1 - 0)..n) : Copied(f, s) = base
    <3>1. (n + 1 - 0)..n = {}
      OBVIOUS
    <3>2. QED BY <3>1
  <2>2. Folded(f, 0)
    <3> HIDE DEF Copied
    <3>1. QED BY <2>1
  <2>3. QED BY <2>2
<1>2. ASSUME NEW k \in Nat, k \in K PROVE k + 1 \in K
  <2>1. SUFFICES ASSUME k + 1 <= n PROVE \E g : Folded(g, k + 1)
    <3> HIDE DEF Folded
    <3>1. QED OBVIOUS
  <2>2. PICK f : Folded(f, k)
    <3> HIDE DEF Folded
    <3>1. QED BY <1>2, <2>1
  <2> DEFINE j == n - k
             g == [s \in SUBSET (j..n) |->
                     IF j \in s THEN copy_int_to_stack(f[s \ {j}], addrs[j]) ELSE f[s]]
  <2>3. j \in 1..n /\ n + 1 - (k + 1) = j /\ n + 1 - k = j + 1
    BY <2>1
  <2>4. f = [s \in SUBSET ((j + 1)..n) |-> Copied(f, s)]
    BY <2>2, <2>3
  <2> HIDE DEF j
  <2>5. ASSUME NEW s \in SUBSET (j..n) PROVE g[s] = Copied(g, s)
    <3>1. CASE j \in s
      <4>1. Min(s) = j
        BY <2>3, <3>1, MinIsFirst
      <4>2. s \ {j} \in SUBSET (j..n) /\ j \notin s \ {j} /\ s # {}
        BY <3>1
      <4>3. g[s \ {j}] = f[s \ {j}]
        BY <4>2
      <4>4. g[s] = copy_int_to_stack(f[s \ {j}], addrs[j])
        BY <3>1
      <4> HIDE DEF g
      <4>5. QED BY <4>1, <4>2, <4>3, <4>4
    <3>2. CASE j \notin s
      <4>1. s \in SUBSET ((j + 1)..n)
        BY <2>3, <3>2
      <4>2. f[s] = Copied(f, s) /\ g[s] = f[s]
        BY <2>4, <3>2, <4>1
      <4>3. s \ {Min(s)} \in SUBSET (j..n) /\ j \notin s \ {Min(s)}
        BY <3>2
      <4>4. g[s \ {Min(s)}] = f[s \ {Min(s)}]
        BY <4>3
      <4> HIDE DEF g
      <4>5. QED BY <4>2, <4>4
    <3>3. QED BY <3>1, <3>2
  <2>6. g = [s \in SUBSET (j..n) |-> g[s]]
    OBVIOUS
  <2>7. Folded(g, k + 1)
    <3> HIDE DEF g, Copied
    <3>1. QED BY <2>3, <2>5, <2>6
  <2>8. QED
    <3> HIDE DEF g, Folded
    <3>1. QED BY <2>7
<1>3. n \in K
  <2> HIDE DEF K
  <2>1. QED BY <1>1, <1>2, Induction
<1> DEFINE iter == CHOOSE f : f = [s \in SUBSET (1..n) |-> Copied(f, s)]
<1>4. iter = [s \in SUBSET (1..n) |-> Copied(iter, s)]
  <2>1. n + 1 - n = 1
    OBVIOUS
  <2>2. \E f : Folded(f, n)
    <3> HIDE DEF Folded
    <3>1. QED BY <1>3
  <2>3. \E f : f = [s \in SUBSET (1..n) |-> Copied(f, s)]
    <3> HIDE DEF Copied
    <3>1. QED BY <2>1, <2>2
  <2>4. QED
    <3> HIDE DEF Copied
    <3>1. QED BY <2>3
<1>5. AddressesPushed(addrs, base) = iter[1..n]
  BY Zenon DEF AddressesPushed, FoldRight, MapThenFoldSet
<1> HIDE DEF iter
<1> DEFINE st == [k \in 0..n |-> iter[(n + 1 - k)..n]]
<1>6. st[0] = base
  <2>1. (n + 1 - 0)..n = {} /\ {} \in SUBSET (1..n) /\ 0 \in 0..n
    OBVIOUS
  <2>2. QED BY <1>4, <2>1
<1>7. ASSUME NEW k \in 1..n PROVE st[k] = copy_int_to_stack(st[k - 1], addrs[n + 1 - k])
  <2> DEFINE j == n + 1 - k
  <2>1. j \in 1..n /\ n + 1 - (k - 1) = j + 1
    OBVIOUS
  <2> HIDE DEF j
  <2>2. j \in j..n /\ j..n \in SUBSET (1..n) /\ (j..n) \ {j} = (j + 1)..n
    <3>1. j \in j..n
      BY <2>1
    <3>2. j..n \subseteq 1..n
      BY <2>1
    <3>3. (j..n) \ {j} = (j + 1)..n
      BY <2>1
    <3>4. QED BY <3>1, <3>2, <3>3
  <2>3. Min(j..n) = j
    BY <2>1, <2>2, MinIsFirst
  <2>4. iter[j..n] = copy_int_to_stack(iter[(j + 1)..n], addrs[j])
    BY <1>4, <2>2, <2>3
  <2>5. QED BY <2>1, <2>4 DEF j
<1>8. st[n] = iter[1..n]
  <2>1. n + 1 - n = 1
    OBVIOUS
  <2>2. QED BY <2>1
<1> HIDE DEF st
<1>9. PushedOneByOne(st, base, addrs, n)
  BY <1>5, <1>6, <1>7, <1>8 DEF PushedOneByOne
<1>10. QED BY <1>9
-------------------------------------------------------------------------------
(* The stack a program finds. *)
Memory == 0..(STACK_TOP - 1)
StringSize(w) == Len(Chars[w]) + 1

LEMMA StackTop == STACK_TOP \in Nat
BY StackAssumption

(* A string is one byte longer than the characters of its word. *)
LEMMA StringLength ==
  ASSUME NEW w \in DOMAIN Chars
  PROVE  /\ StringSize(w) \in Nat \ {0}
         /\ Len(String(w)) = StringSize(w) /\ DOMAIN String(w) = 1..StringSize(w)
<1> DEFINE n == Len(Chars[w]) + 1
           chars == Chars[w]
           s == [k \in 1..n |-> IF k > Len(chars) THEN <<0>> ELSE <<chars[k]>>]
<1>1. n \in Nat \ {0} /\ String(w) = s
  BY StackAssumption DEF String
<1> HIDE DEF n, chars
<1>2. s \in [1..n -> {s[k] : k \in 1..n}]
  OBVIOUS
<1>3. s \in Seq({s[k] : k \in 1..n}) /\ DOMAIN s = 1..n
  <2> HIDE DEF s
  <2>1. QED BY <1>1, <1>2
<1>4. Len(s) = n
  <2> HIDE DEF s
  <2>1. QED BY <1>1, <1>3
<1>5. QED BY <1>1, <1>3, <1>4 DEF StringSize, n

(* A string is copied below everything that was copied before.              *)
LEMMA StringCopied ==
  ASSUME NEW s, NEW w \in DOMAIN Chars, NEW low \in Int, s.sp \in Int, s.sp < STACK_TOP,
         DOMAIN s.mem = Memory, low = s.sp - StringSize(w), low >= -1
  PROVE  LET t == copy_str_to_stack(s, w)
         IN  /\ t = [sp |-> low, mem |-> t.mem, addrs |-> Append(s.addrs, low + 1)]
             /\ DOMAIN t.mem = Memory
             /\ \A x \in Memory : x > s.sp => t.mem[x] = s.mem[x]
             /\ IsString(t.mem, low + 1, w)
<1> DEFINE t == copy_str_to_stack(s, w)
           mem == [x \in DOMAIN s.mem |-> IF x \in (low + 1)..s.sp THEN String(w)[x - low] ELSE s.mem[x]]
<1>1. t = [sp |-> low, mem |-> mem, addrs |-> Append(s.addrs, low + 1)]
  BY StringLength DEF copy_str_to_stack
<1>2. DOMAIN mem = Memory /\ \A x \in Memory : x > s.sp => mem[x] = s.mem[x]
  BY DEF Memory
<1>3. ASSUME NEW k \in DOMAIN String(w)
      PROVE  (low + 1) + k - 1 \in DOMAIN mem /\ mem[(low + 1) + k - 1] = String(w)[k]
  <2>1. k \in 1..StringSize(w) /\ StringSize(w) \in Nat
    BY StringLength
  <2>2. (low + 1) + k - 1 = low + k /\ low + k \in (low + 1)..s.sp /\ (low + k) - low = k
    BY <2>1
  <2>3. low + k \in Memory
    <3>1. STACK_TOP \in Nat /\ low + k \in Int /\ low + k <= s.sp /\ low + k >= low + 1
      BY <2>1, <2>2, StackAssumption
    <3>2. QED BY <3>1 DEF Memory
  <2> HIDE DEF mem
  <2>4. mem[low + k] = String(w)[k]
    BY <2>2, <2>3 DEF mem
  <2>5. QED BY <1>2, <2>2, <2>3, <2>4
<1>4. IsString(mem, low + 1, w)
  <2> HIDE DEF mem
  <2>1. QED BY <1>3 DEF IsString
<1> HIDE DEF mem, t
<1>5. t.mem = mem /\ t = [sp |-> low, mem |-> t.mem, addrs |-> Append(s.addrs, low + 1)]
  BY <1>1
<1>6. QED BY <1>2, <1>4, <1>5 DEF t

(* A string stays where nothing from its address upwards is written. *)
LEMMA StringKept ==
  ASSUME NEW mem, NEW after, NEW addr \in Int, NEW w \in DOMAIN Chars, IsString(mem, addr, w),
         DOMAIN mem = Memory, DOMAIN after = Memory,
         \A x \in Memory : x >= addr => after[x] = mem[x]
  PROVE  IsString(after, addr, w)
<1>1. ASSUME NEW k \in DOMAIN String(w)
      PROVE  addr + k - 1 \in DOMAIN after /\ after[addr + k - 1] = String(w)[k]
  <2>1. k \in 1..StringSize(w) /\ StringSize(w) \in Nat
    BY StringLength
  <2>2. addr + k - 1 >= addr
    BY <2>1
  <2>3. addr + k - 1 \in DOMAIN mem /\ mem[addr + k - 1] = String(w)[k]
    BY DEF IsString
  <2>4. QED BY <2>2, <2>3
<1>2. QED BY <1>1 DEF IsString

(* The first k of the words are on the stack. *)
StringsIn(s, words, k) ==
  /\ s = [sp |-> s.sp, mem |-> s.mem, addrs |-> s.addrs]
  /\ s.sp \in -1..(STACK_TOP - 1) /\ DOMAIN s.mem = Memory
  /\ s.addrs \in Seq(Memory) /\ Len(s.addrs) = k
  /\ \A j \in 1..k : s.addrs[j] > s.sp /\ IsString(s.mem, s.addrs[j], words[j])

(* copy_str_to_stack adds a string and disturbs none of those above it. *)
LEMMA StringAdded ==
  ASSUME NEW words, NEW n \in Nat, DOMAIN words = 1..n, \A k \in 1..n : words[k] \in DOMAIN Chars,
         NEW k \in 1..n, NEW s, StringsIn(s, words, k - 1), NEW t, t = copy_str_to_stack(s, words[k]),
         t.sp >= -1
  PROVE  StringsIn(t, words, k)
<1> DEFINE w == words[k]
           low == s.sp - StringSize(w)
<1>1. w \in DOMAIN Chars /\ s.sp \in Int /\ s.sp < STACK_TOP /\ DOMAIN s.mem = Memory
  BY StackAssumption DEF StringsIn
<1>2. low \in Int /\ low < s.sp /\ t.sp = low
  BY <1>1, StringLength DEF copy_str_to_stack
<1> HIDE DEF w
<1>3. /\ t = [sp |-> low, mem |-> t.mem, addrs |-> Append(s.addrs, low + 1)]
      /\ DOMAIN t.mem = Memory
      /\ \A x \in Memory : x > s.sp => t.mem[x] = s.mem[x]
      /\ IsString(t.mem, low + 1, w)
  BY <1>1, <1>2, StringCopied DEF w
<1> HIDE DEF low
<1>4. low + 1 \in Memory /\ t.sp \in -1..(STACK_TOP - 1)
  <2>1. low >= -1
    BY <1>2
  <2>2. QED BY <1>1, <1>2, <2>1, StackTop DEF Memory
<1>5. /\ t.addrs = Append(s.addrs, low + 1)
      /\ s.addrs \in Seq(Memory) /\ Len(s.addrs) = k - 1
  BY <1>3 DEF StringsIn
<1>6. /\ t.addrs \in Seq(Memory) /\ Len(t.addrs) = k /\ t.addrs[k] = low + 1
      /\ \A j \in 1..(k - 1) : t.addrs[j] = s.addrs[j]
  BY <1>4, <1>5
<1>7. ASSUME NEW j \in 1..k
      PROVE  t.addrs[j] > t.sp /\ IsString(t.mem, t.addrs[j], words[j])
  <2>1. CASE j = k
    BY <1>2, <1>3, <1>6, <2>1 DEF w
  <2>2. CASE j \in 1..(k - 1)
    <3>1. /\ s.addrs[j] > s.sp /\ IsString(s.mem, s.addrs[j], words[j]) /\ t.addrs[j] = s.addrs[j]
          /\ s.addrs[j] \in Int
      <4>1. s.addrs[j] > s.sp /\ IsString(s.mem, s.addrs[j], words[j])
        BY <2>2 DEF StringsIn
      <4>2. s.addrs[j] \in Memory
        BY <1>5, <2>2
      <4>3. s.addrs[j] \in Int
        BY <4>2 DEF Memory
      <4>4. QED BY <1>6, <2>2, <4>1, <4>3
    <3>2. \A x \in Memory : x >= s.addrs[j] => t.mem[x] = s.mem[x]
      BY <1>1, <1>3, <3>1 DEF Memory
    <3>3. IsString(t.mem, s.addrs[j], words[j])
      BY <1>1, <1>3, <3>1, <3>2, StringKept
    <3>4. QED BY <1>1, <1>2, <3>1, <3>3
  <2>3. QED BY <2>1, <2>2
<1>8. t = [sp |-> t.sp, mem |-> t.mem, addrs |-> t.addrs]
  BY <1>3
<1>9. QED BY <1>3, <1>4, <1>6, <1>7, <1>8 DEF StringsIn

(* The stack pointer falls with every string, by an amount that does not    *)
(* depend on what is in memory.                                             *)
LEMMA PointersFall ==
  ASSUME NEW words, NEW n \in Nat, \A k \in 1..n : words[k] \in DOMAIN Chars, NEW st,
         st[0].sp \in Int, \A k \in 1..n : st[k] = copy_str_to_stack(st[k - 1], words[k])
  PROVE  \A k \in 0..n : st[k].sp \in Int /\ st[n].sp \in Int /\ st[n].sp <= st[k].sp
<1> DEFINE K == {k \in Nat : k <= n => st[k].sp \in Int /\ \A j \in 0..k : st[j].sp \in Int /\ st[k].sp <= st[j].sp}
<1>1. 0 \in K
  OBVIOUS
<1>2. ASSUME NEW k \in Nat, k \in K PROVE k + 1 \in K
  <2>1. SUFFICES ASSUME k + 1 <= n
                 PROVE  /\ st[k + 1].sp \in Int
                        /\ \A j \in 0..(k + 1) : st[j].sp \in Int /\ st[k + 1].sp <= st[j].sp
    OBVIOUS
  <2>2. k + 1 \in 1..n /\ (k + 1) - 1 = k
    BY <2>1
  <2>3. st[k + 1] = copy_str_to_stack(st[k], words[k + 1]) /\ words[k + 1] \in DOMAIN Chars
    BY <2>2
  <2>4. st[k + 1].sp = st[k].sp - StringSize(words[k + 1]) /\ StringSize(words[k + 1]) \in Nat
    BY <2>3, StringLength DEF copy_str_to_stack
  <2>5. st[k].sp \in Int /\ \A j \in 0..k : st[j].sp \in Int /\ st[k].sp <= st[j].sp
    BY <1>2, <2>1
  <2>6. st[k + 1].sp \in Int /\ st[k + 1].sp <= st[k].sp
    BY <2>4, <2>5
  <2>7. QED BY <2>5, <2>6
<1>3. Nat \subseteq K
  <2> HIDE DEF K
  <2>1. QED BY <1>1, <1>2, Induction
<1>4. QED BY <1>3

(* Two memories leave the same pointer behind the same strings. *)
LEMMA PointersAgree ==
  ASSUME NEW words, NEW n \in Nat, NEW base, NEW other, base.sp = other.sp,
         NEW st, NEW ut, CopiedOneByOne(st, base, words, n), CopiedOneByOne(ut, other, words, n)
  PROVE  st[n].sp = ut[n].sp
<1> DEFINE K == {k \in Nat : k <= n => st[k].sp = ut[k].sp}
<1>1. 0 \in K
  BY DEF CopiedOneByOne
<1>2. ASSUME NEW k \in Nat, k \in K PROVE k + 1 \in K
  <2>1. SUFFICES ASSUME k + 1 <= n PROVE st[k + 1].sp = ut[k + 1].sp
    OBVIOUS
  <2>2. k + 1 \in 1..n /\ (k + 1) - 1 = k /\ st[k].sp = ut[k].sp
    BY <1>2, <2>1
  <2>3. st[k + 1] = copy_str_to_stack(st[k], words[k + 1]) /\ ut[k + 1] = copy_str_to_stack(ut[k], words[k + 1])
    BY <2>2 DEF CopiedOneByOne
  <2>4. QED BY <2>2, <2>3 DEF copy_str_to_stack
<1>3. n \in K
  <2> HIDE DEF K
  <2>1. QED BY <1>1, <1>2, Induction
<1>4. QED BY <1>3

(* Where they fit, all of the strings are on the stack. *)
LEMMA StringsPlaced ==
  ASSUME NEW words, NEW n \in Nat, DOMAIN words = 1..n, \A k \in 1..n : words[k] \in DOMAIN Chars,
         NEW mem, DOMAIN mem = Memory, NEW st, st[0] = [sp |-> STACK_TOP - 1, mem |-> mem, addrs |-> <<>>],
         \A k \in 1..n : st[k] = copy_str_to_stack(st[k - 1], words[k]), st[n].sp >= -1
  PROVE  StringsIn(st[n], words, n)
<1> DEFINE K == {k \in Nat : k <= n => StringsIn(st[k], words, k)}
<1>1. \A k \in 0..n : st[k].sp \in Int /\ st[k].sp >= -1
  <2>1. st[0].sp \in Int
    BY StackAssumption
  <2>2. \A k \in 0..n : st[k].sp \in Int /\ st[n].sp \in Int /\ st[n].sp <= st[k].sp
    BY <2>1, PointersFall
  <2>3. QED BY <2>2
<1>2. 0 \in K
  <2>1. st[0].sp = STACK_TOP - 1 /\ st[0].mem = mem /\ st[0].addrs = <<>>
    OBVIOUS
  <2>2. StringsIn(st[0], words, 0)
    BY <2>1, StackAssumption DEF StringsIn
  <2>3. QED BY <2>2
<1>3. ASSUME NEW k \in Nat, k \in K PROVE k + 1 \in K
  <2>1. SUFFICES ASSUME k + 1 <= n PROVE StringsIn(st[k + 1], words, k + 1)
    OBVIOUS
  <2>2. k + 1 \in 1..n /\ (k + 1) - 1 = k /\ st[k + 1].sp >= -1 /\ StringsIn(st[k], words, (k + 1) - 1)
    BY <1>1, <1>3, <2>1
  <2>3. st[k + 1] = copy_str_to_stack(st[k], words[k + 1])
    BY <2>2
  <2>4. QED BY <2>2, <2>3, StringAdded
<1>4. n \in K
  <2> HIDE DEF K
  <2>1. QED BY <1>2, <1>3, Induction
<1>5. QED BY <1>4

-------------------------------------------------------------------------------
(* The vectors of pointers. *)
LEMMA WordWritten ==
  ASSUME NEW mem, DOMAIN mem = Memory, NEW addr \in Int, NEW n
  PROVE  LET after == WithWord(mem, addr, n)
         IN  /\ DOMAIN after = Memory
             /\ \A x \in Memory : x < addr \/ x > addr + 3 => after[x] = mem[x]
             /\ addr >= 0 /\ addr + 3 < STACK_TOP => IsWord(after, addr, n)
<1> DEFINE after == WithWord(mem, addr, n)
<1>1. after = [x \in Memory |-> IF x \in addr..(addr + 3) THEN <<n, x - addr>> ELSE mem[x]]
  BY DEF WithWord
<1> HIDE DEF after
<1>2. DOMAIN after = Memory
  BY <1>1
<1>3. ASSUME NEW x \in Memory, x < addr \/ x > addr + 3 PROVE after[x] = mem[x]
  <2>1. x \notin addr..(addr + 3)
    BY <1>3 DEF Memory
  <2>2. QED BY <1>1, <2>1
<1>4. ASSUME addr >= 0, addr + 3 < STACK_TOP, NEW k \in 0..3
      PROVE  addr + k \in Memory /\ after[addr + k] = <<n, k>>
  <2>1. STACK_TOP \in Nat /\ addr + k \in addr..(addr + 3) /\ (addr + k) - addr = k
    BY StackAssumption
  <2>2. addr + k \in Memory
    BY <1>4, <2>1 DEF Memory
  <2>3. QED BY <1>1, <2>1, <2>2
<1>5. QED BY <1>2, <1>3, <1>4 DEF after, IsWord

LEMMA WordKept ==
  ASSUME NEW mem, NEW after, NEW addr \in Int, NEW n, IsWord(mem, addr, n),
         DOMAIN mem = Memory, DOMAIN after = Memory,
         \A x \in addr..(addr + 3) : x \in Memory => after[x] = mem[x]
  PROVE  IsWord(after, addr, n)
<1>1. \A k \in 0..3 : addr + k \in addr..(addr + 3)
  OBVIOUS
<1>2. QED BY <1>1 DEF IsWord

(* t is s with the k addresses addrs[n + 1 - k..n], and a 0 behind them, on *)
(* the stack.                                                               *)
VectorOn(s, t, addrs, n, k) ==
  /\ t = [sp |-> s.sp - 4 * (k + 1), mem |-> t.mem, addrs |-> s.addrs]
  /\ DOMAIN t.mem = Memory
  /\ \A x \in Memory : x > s.sp + 3 => t.mem[x] = s.mem[x]
  /\ s.sp - 4 * k >= 0 =>
       /\ IsWord(t.mem, s.sp, 0)
       /\ \A i \in 1..k : IsWord(t.mem, s.sp - 4 * i, addrs[n + 1 - i])

(* copy_int_to_stack, without its EXCEPT. *)
LEMMA WordPushed ==
  ASSUME NEW s, NEW n, s = [sp |-> s.sp, mem |-> s.mem, addrs |-> s.addrs]
  PROVE  copy_int_to_stack(s, n) = [sp |-> s.sp - 4, mem |-> WithWord(s.mem, s.sp, n), addrs |-> s.addrs]
<1>1. copy_int_to_stack(s, n) = [s EXCEPT !.sp = s.sp - 4, !.mem = WithWord(s.mem, s.sp, n)]
  BY DEF copy_int_to_stack
<1>2. QED BY <1>1

(* One more address, below those that are pushed already. *)
LEMMA AddressPushed ==
  ASSUME NEW s, s.sp \in Int, s.sp + 3 < STACK_TOP, NEW addrs, NEW n \in Nat, NEW k \in 1..n,
         NEW t, VectorOn(s, t, addrs, n, k - 1),
         NEW u, u = copy_int_to_stack(t, addrs[n + 1 - k])
  PROVE  VectorOn(s, u, addrs, n, k)
<1> DEFINE a == s.sp
           b == a - 4 * k
           after == WithWord(t.mem, b, addrs[n + 1 - k])
<1>1. t = [sp |-> a - 4 * ((k - 1) + 1), mem |-> t.mem, addrs |-> s.addrs] /\ DOMAIN t.mem = Memory
  BY DEF VectorOn
<1>2. t.sp = b /\ t.addrs = s.addrs /\ a \in Int /\ b \in Int /\ b + 3 < a
  BY <1>1
<1>3. t = [sp |-> t.sp, mem |-> t.mem, addrs |-> t.addrs]
  BY <1>1
<1>4. u = [sp |-> b - 4, mem |-> after, addrs |-> s.addrs]
  BY <1>2, <1>3, WordPushed
<1>5. b - 4 = a - 4 * (k + 1)
  OBVIOUS
<1>6. /\ DOMAIN after = Memory
      /\ \A x \in Memory : x < b \/ x > b + 3 => after[x] = t.mem[x]
      /\ b >= 0 /\ b + 3 < STACK_TOP => IsWord(after, b, addrs[n + 1 - k])
  BY <1>1, <1>2, WordWritten
<1> HIDE DEF after
<1>7. u.mem = after /\ u = [sp |-> a - 4 * (k + 1), mem |-> u.mem, addrs |-> s.addrs]
  BY <1>4, <1>5
<1>8. ASSUME NEW x \in Memory, x > a + 3 PROVE after[x] = s.mem[x]
  <2>1. t.mem[x] = s.mem[x]
    BY <1>8 DEF VectorOn
  <2>2. x > b + 3
    BY <1>2, <1>8 DEF Memory
  <2>3. QED BY <1>6, <2>1, <2>2
<1>9. ASSUME a - 4 * k >= 0
      PROVE  IsWord(after, a, 0) /\ \A i \in 1..k : IsWord(after, a - 4 * i, addrs[n + 1 - i])
  <2>1. STACK_TOP \in Int /\ b >= 0 /\ b + 3 < STACK_TOP /\ a - 4 * (k - 1) >= 0
    <3>1. a \in Int /\ b \in Int /\ b = a - 4 * k /\ a - 4 * k >= 0 /\ a + 3 < STACK_TOP
      BY <1>2, <1>9
    <3> HIDE DEF b
    <3>2. QED BY <1>2, <3>1, StackTop
  <2>2. IsWord(t.mem, a, 0) /\ \A i \in 1..(k - 1) : IsWord(t.mem, a - 4 * i, addrs[n + 1 - i])
    BY <2>1 DEF VectorOn
  <2>3. ASSUME NEW c \in Int, c > b + 3, NEW v, IsWord(t.mem, c, v) PROVE IsWord(after, c, v)
    <3>1. \A x \in c..(c + 3) : x \in Memory => after[x] = t.mem[x]
      BY <1>2, <1>6, <2>3
    <3>2. QED BY <1>1, <1>6, <2>3, <3>1, WordKept
  <2>4. ASSUME NEW i \in 1..k PROVE IsWord(after, a - 4 * i, addrs[n + 1 - i])
    <3>1. CASE i = k
      BY <1>6, <2>1, <3>1
    <3>2. CASE i \in 1..(k - 1)
      <4>1. a - 4 * i \in Int /\ a - 4 * i > b + 3
        BY <1>2, <3>2
      <4>2. QED BY <2>2, <2>3, <3>2, <4>1
    <3>3. QED BY <3>1, <3>2
  <2>5. QED BY <1>2, <2>2, <2>3, <2>4
<1>10. QED BY <1>6, <1>7, <1>8, <1>9 DEF VectorOn

(* All of the addresses are pushed, the last one first. *)
LEMMA AllPushed ==
  ASSUME NEW s, s = [sp |-> s.sp, mem |-> s.mem, addrs |-> s.addrs], s.sp \in Int, s.sp + 3 < STACK_TOP,
         DOMAIN s.mem = Memory, NEW addrs, NEW n \in Nat, DOMAIN addrs = 1..n,
         NEW base, base = copy_int_to_stack(s, 0)
  PROVE  VectorOn(s, AddressesPushed(addrs, base), addrs, n, n)
<1>1. PICK st : PushedOneByOne(st, base, addrs, n)
  BY AddressesFolded
<1> DEFINE K == {k \in Nat : k <= n => VectorOn(s, st[k], addrs, n, k)}
<1>3. 0 \in K
  <2> DEFINE after == WithWord(s.mem, s.sp, 0)
  <2>1. st[0] = [sp |-> s.sp - 4, mem |-> after, addrs |-> s.addrs]
    BY <1>1, WordPushed DEF PushedOneByOne
  <2>2. /\ DOMAIN after = Memory
        /\ \A x \in Memory : x < s.sp \/ x > s.sp + 3 => after[x] = s.mem[x]
        /\ s.sp >= 0 /\ s.sp + 3 < STACK_TOP => IsWord(after, s.sp, 0)
    BY WordWritten
  <2> HIDE DEF after
  <2>3. s.sp - 4 * (0 + 1) = s.sp - 4 /\ s.sp - 4 * 0 = s.sp
    OBVIOUS
  <2>4. VectorOn(s, st[0], addrs, n, 0)
    BY <2>1, <2>2, <2>3 DEF VectorOn
  <2>5. QED BY <2>4
<1>4. ASSUME NEW k \in Nat, k \in K PROVE k + 1 \in K
  <2>1. SUFFICES ASSUME k + 1 <= n PROVE VectorOn(s, st[k + 1], addrs, n, k + 1)
    OBVIOUS
  <2>2. k + 1 \in 1..n /\ (k + 1) - 1 = k /\ VectorOn(s, st[k], addrs, n, (k + 1) - 1)
    BY <1>4, <2>1
  <2>3. st[k + 1] = copy_int_to_stack(st[k], addrs[n + 1 - (k + 1)])
    BY <1>1, <2>2 DEF PushedOneByOne
  <2>4. QED BY <2>2, <2>3, AddressPushed
<1>5. n \in K
  <2> HIDE DEF K
  <2>1. QED BY <1>3, <1>4, Induction
<1>6. QED BY <1>1, <1>5 DEF PushedOneByOne


(* A vector is its addresses, in their order, and a 0. *)
LEMMA VectorPushed ==
  ASSUME NEW s, s = [sp |-> s.sp, mem |-> s.mem, addrs |-> s.addrs], s.sp \in Int, s.sp + 3 < STACK_TOP,
         DOMAIN s.mem = Memory, NEW from \in Nat, NEW to \in Nat, NEW n \in Nat,
         DOMAIN SubSeq(s.addrs, from, to) = 1..n
  PROVE  VectorOn(s, Vector(s, from, to), SubSeq(s.addrs, from, to), n, n)
<1> DEFINE addrs == SubSeq(s.addrs, from, to)
           base == copy_int_to_stack(s, 0)
<1>1. Vector(s, from, to) = AddressesPushed(addrs, base)
  BY Zenon DEF Vector, AddressesPushed
<1> HIDE DEF addrs, base
<1>2. VectorOn(s, AddressesPushed(addrs, base), addrs, n, n)
  BY AllPushed DEF addrs, base
<1>3. QED BY <1>1, <1>2 DEF addrs

-------------------------------------------------------------------------------
(* The whole of initialize_run_stack. *)
Bottom(mem) == [sp |-> STACK_TOP - 1, mem |-> mem, addrs |-> <<>>]
Strings(given, mem) == FoldLeft(copy_str_to_stack, Bottom(mem), Environ \o given)

(* The environment's strings come before the arguments. *)
LEMMA WordsJoined ==
  ASSUME NEW given \in Seq(DOMAIN Chars)
  PROVE  LET e == Len(Environ)
             c == Len(given)
             words == Environ \o given
         IN  /\ e \in Nat /\ c \in Nat /\ DOMAIN words = 1..(e + c)
             /\ \A k \in 1..(e + c) : words[k] \in DOMAIN Chars
             /\ \A k \in 1..e : words[k] = Environ[k]
             /\ \A k \in 1..c : words[e + k] = given[k]
BY StackAssumption

(* What does not depend on there being room: the addresses are as many as   *)
(* the strings.                                                             *)
LEMMA AddressesCounted ==
  ASSUME NEW words, NEW n \in Nat, \A k \in 1..n : words[k] \in DOMAIN Chars, NEW st,
         NEW mem, DOMAIN mem = Memory, st[0] = Bottom(mem),
         \A k \in 1..n : st[k] = copy_str_to_stack(st[k - 1], words[k])
  PROVE  /\ st[n] = [sp |-> st[n].sp, mem |-> st[n].mem, addrs |-> st[n].addrs]
         /\ st[n].sp \in Int /\ st[n].sp < STACK_TOP /\ DOMAIN st[n].mem = Memory
         /\ st[n].addrs \in Seq(Int) /\ Len(st[n].addrs) = n
<1> DEFINE Shape(s, k) == /\ s = [sp |-> s.sp, mem |-> s.mem, addrs |-> s.addrs]
                          /\ s.sp \in Int /\ s.sp < STACK_TOP /\ DOMAIN s.mem = Memory
                          /\ s.addrs \in Seq(Int) /\ Len(s.addrs) = k
           K == {k \in Nat : k <= n => Shape(st[k], k)}
<1>1. 0 \in K
  <2>1. st[0].sp = STACK_TOP - 1 /\ st[0].mem = mem /\ st[0].addrs = <<>>
    BY DEF Bottom
  <2>2. Shape(st[0], 0)
    BY <2>1, StackAssumption DEF Bottom
  <2>3. QED BY <2>2
<1>2. ASSUME NEW k \in Nat, k \in K PROVE k + 1 \in K
  <2>1. SUFFICES ASSUME k + 1 <= n PROVE Shape(st[k + 1], k + 1)
    <3> HIDE DEF Shape
    <3>1. QED OBVIOUS
  <2>2. k + 1 \in 1..n /\ (k + 1) - 1 = k
    BY <2>1
  <2>3. Shape(st[k], k)
    BY <1>2, <2>1
  <2> DEFINE s == st[k]
             w == words[k + 1]
             low == s.sp - Len(String(w))
  <2>4. st[k + 1] = copy_str_to_stack(s, w) /\ w \in DOMAIN Chars
    BY <2>2
  <2>5. Len(String(w)) \in Nat
    BY <2>4, StringLength
  <2>6. /\ st[k + 1] = [sp |-> low,
                        mem |-> [x \in DOMAIN s.mem |-> IF x \in (low + 1)..s.sp THEN String(w)[x - low] ELSE s.mem[x]],
                        addrs |-> Append(s.addrs, low + 1)]
    BY <2>4 DEF copy_str_to_stack
  <2>7. low \in Int /\ low < STACK_TOP
    BY <2>3, <2>5, StackAssumption
  <2>8. QED
    <3> HIDE DEF s, w, low
    <3>1. s.addrs \in Seq(Int) /\ Len(s.addrs) = k /\ DOMAIN s.mem = Memory
      BY <2>3 DEF s
    <3>2. Append(s.addrs, low + 1) \in Seq(Int) /\ Len(Append(s.addrs, low + 1)) = k + 1
      BY <2>7, <3>1
    <3>3. QED BY <2>6, <2>7, <3>1, <3>2
<1>3. n \in K
  <2> HIDE DEF K
  <2>1. QED BY <1>1, <1>2, Induction
<1>4. QED BY <1>3

(* The state behind all of the strings, with room for them and without. *)
LEMMA StringsShaped ==
  ASSUME NEW given \in Seq(DOMAIN Chars), NEW mem, DOMAIN mem = Memory
  PROVE  LET s == Strings(given, mem)
         IN  /\ s = [sp |-> s.sp, mem |-> s.mem, addrs |-> s.addrs]
             /\ s.sp \in Int /\ s.sp < STACK_TOP /\ DOMAIN s.mem = Memory
             /\ s.addrs \in Seq(Int) /\ Len(s.addrs) = Len(Environ) + Len(given)
             /\ s.sp >= -1 => StringsIn(s, Environ \o given, Len(Environ) + Len(given))
<1> DEFINE n == Len(Environ) + Len(given)
           words == Environ \o given
<1>1. n \in Nat /\ DOMAIN words = 1..n /\ \A k \in 1..n : words[k] \in DOMAIN Chars
  BY WordsJoined
<1> HIDE DEF n, words
<1>2. PICK st : CopiedOneByOne(st, Bottom(mem), words, n)
  BY <1>1, StringsFolded
<1>3. /\ st[0] = Bottom(mem) /\ st[n] = Strings(given, mem)
      /\ \A k \in 1..n : st[k] = copy_str_to_stack(st[k - 1], words[k])
  BY <1>2 DEF CopiedOneByOne, Strings, words
<1>4. /\ st[n] = [sp |-> st[n].sp, mem |-> st[n].mem, addrs |-> st[n].addrs]
      /\ st[n].sp \in Int /\ st[n].sp < STACK_TOP /\ DOMAIN st[n].mem = Memory
      /\ st[n].addrs \in Seq(Int) /\ Len(st[n].addrs) = n
  BY <1>1, <1>3, AddressesCounted
<1>5. st[n].sp >= -1 => StringsIn(st[n], words, n)
  BY <1>1, <1>3, StringsPlaced DEF Bottom
<1>6. QED BY <1>3, <1>4, <1>5 DEF n, words

(* The strings leave the pointer where it was in any other memory. *)
LEMMA StringsPointer ==
  ASSUME NEW given \in Seq(DOMAIN Chars), NEW mem, NEW other
  PROVE  Strings(given, mem).sp = Strings(given, other).sp
<1> DEFINE n == Len(Environ) + Len(given)
           words == Environ \o given
<1>1. n \in Nat /\ DOMAIN words = 1..n
  BY WordsJoined
<1> HIDE DEF n, words
<1>2. PICK st : CopiedOneByOne(st, Bottom(mem), words, n)
  BY <1>1, StringsFolded
<1>3. PICK ut : CopiedOneByOne(ut, Bottom(other), words, n)
  BY <1>1, StringsFolded
<1>4. Bottom(mem).sp = Bottom(other).sp
  BY DEF Bottom
<1>5. st[n].sp = ut[n].sp
  BY <1>1, <1>2, <1>3, <1>4, PointersAgree
<1>6. st[n] = Strings(given, mem) /\ ut[n] = Strings(given, other)
  BY <1>2, <1>3 DEF CopiedOneByOne, Strings, words
<1>7. QED BY <1>5, <1>6

(* The aligned pointer leaves the word of the last string alone. *)
LEMMA AlignedDown ==
  ASSUME NEW sp \in Int
  PROVE  Aligned(sp) \in Int /\ Aligned(sp) % 4 = 0 /\ Aligned(sp) + 3 < sp
<1> DEFINE free == sp - (sp % 4) - 4
<1>1. free \in Int /\ free + 4 <= sp
  OBVIOUS
<1> HIDE DEF free
<1>2. free % 8 \in 0..7 /\ (free - (free % 8)) % 4 = 0
  BY <1>1
<1>3. QED BY <1>1, <1>2 DEF Aligned, free

(* The two vectors, the environment's and below it the arguments'. *)
Laid(given, mem) == [Strings(given, mem) EXCEPT !.sp = Aligned(@)]
Env(given, mem) == Vector(Laid(given, mem), 1, Len(Environ))
Args(given, mem) == Vector(Env(given, mem), Len(Environ) + 1, Len(Environ) + Len(given))
EnvAddrs(given, mem) == SubSeq(Strings(given, mem).addrs, 1, Len(Environ))
ArgAddrs(given, mem) == SubSeq(Strings(given, mem).addrs, Len(Environ) + 1, Len(Environ) + Len(given))

(* The addresses are the environment's, and behind them the arguments'. *)
LEMMA AddressesSplit ==
  ASSUME NEW given \in Seq(DOMAIN Chars), NEW mem, DOMAIN mem = Memory
  PROVE  LET e == Len(Environ)
             c == Len(given)
             addrs == Strings(given, mem).addrs
         IN  /\ DOMAIN EnvAddrs(given, mem) = 1..e /\ DOMAIN ArgAddrs(given, mem) = 1..c
             /\ \A k \in 1..e : EnvAddrs(given, mem)[k] = addrs[k]
             /\ \A k \in 1..c : ArgAddrs(given, mem)[k] = addrs[e + k]
<1> DEFINE e == Len(Environ)
           c == Len(given)
           addrs == Strings(given, mem).addrs
<1>1. e \in Nat /\ c \in Nat
  BY WordsJoined
<1>2. addrs \in Seq(Int) /\ Len(addrs) = e + c
  BY StringsShaped
<1>3. EnvAddrs(given, mem) = SubSeq(addrs, 1, e) /\ ArgAddrs(given, mem) = SubSeq(addrs, e + 1, e + c)
  BY DEF EnvAddrs, ArgAddrs
<1> HIDE DEF e, c, addrs
<1>4. DOMAIN SubSeq(addrs, 1, e) = 1..e /\ \A k \in 1..e : SubSeq(addrs, 1, e)[k] = addrs[k]
  BY <1>1, <1>2
<1>5. DOMAIN SubSeq(addrs, e + 1, e + c) = 1..c /\ \A k \in 1..c : SubSeq(addrs, e + 1, e + c)[k] = addrs[e + k]
  <2>1. (e + c) - (e + 1) + 1 = c
    BY <1>1
  <2>2. \A k \in 1..c : (e + 1) + k - 1 = e + k
    BY <1>1
  <2>3. QED BY <1>1, <1>2, <2>1, <2>2
<1>6. QED BY <1>3, <1>4, <1>5 DEF e, c, addrs

LEMMA VectorsPushed ==
  ASSUME NEW given \in Seq(DOMAIN Chars), NEW mem, DOMAIN mem = Memory
  PROVE  LET laid == Laid(given, mem)
             env == Env(given, mem)
         IN  /\ laid = [sp |-> Aligned(Strings(given, mem).sp), mem |-> Strings(given, mem).mem,
                        addrs |-> Strings(given, mem).addrs]
             /\ laid.sp \in Int /\ laid.sp % 4 = 0 /\ laid.sp + 3 < Strings(given, mem).sp
             /\ VectorOn(laid, env, EnvAddrs(given, mem), Len(Environ), Len(Environ))
             /\ VectorOn(env, Args(given, mem), ArgAddrs(given, mem), Len(given), Len(given))
<1> DEFINE s == Strings(given, mem)
           e == Len(Environ)
           c == Len(given)
           laid == Laid(given, mem)
           env == Env(given, mem)
<1>1. /\ s = [sp |-> s.sp, mem |-> s.mem, addrs |-> s.addrs] /\ s.sp \in Int /\ s.sp < STACK_TOP
      /\ DOMAIN s.mem = Memory
  BY StringsShaped
<1>2. e \in Nat /\ c \in Nat /\ STACK_TOP \in Nat
  BY WordsJoined, StackAssumption
<1>3. /\ laid = [sp |-> Aligned(s.sp), mem |-> s.mem, addrs |-> s.addrs]
      /\ laid.sp \in Int /\ laid.sp % 4 = 0 /\ laid.sp + 3 < s.sp
  <2>1. laid = [s EXCEPT !.sp = Aligned(s.sp)]
    BY DEF Laid
  <2> HIDE DEF laid, s
  <2>2. laid = [sp |-> Aligned(s.sp), mem |-> s.mem, addrs |-> s.addrs]
    BY <1>1, <2>1
  <2>3. QED BY <1>1, <2>2, AlignedDown
<1>4. /\ DOMAIN SubSeq(s.addrs, 1, e) = 1..e
      /\ DOMAIN SubSeq(s.addrs, e + 1, e + c) = 1..c
  BY AddressesSplit DEF EnvAddrs, ArgAddrs
<1>5. VectorOn(laid, env, SubSeq(s.addrs, 1, e), e, e)
  <2>1. env = Vector(laid, 1, e)
    BY DEF Env
  <2> HIDE DEF laid, env, s, e
  <2>2. /\ laid = [sp |-> laid.sp, mem |-> laid.mem, addrs |-> laid.addrs] /\ laid.sp + 3 < STACK_TOP
        /\ DOMAIN laid.mem = Memory /\ laid.addrs = s.addrs
    BY <1>1, <1>2, <1>3
  <2>3. VectorOn(laid, Vector(laid, 1, e), SubSeq(laid.addrs, 1, e), e, e)
    BY <1>2, <1>3, <1>4, <2>2, VectorPushed
  <2>4. QED BY <2>1, <2>2, <2>3
<1>6. VectorOn(env, Args(given, mem), SubSeq(s.addrs, e + 1, e + c), c, c)
  <2>1. Args(given, mem) = Vector(env, e + 1, e + c)
    BY DEF Args
  <2> HIDE DEF laid, env, s, e, c
  <2>2. env = [sp |-> laid.sp - 4 * (e + 1), mem |-> env.mem, addrs |-> laid.addrs] /\ DOMAIN env.mem = Memory
    BY <1>5 DEF VectorOn
  <2>3. /\ env = [sp |-> env.sp, mem |-> env.mem, addrs |-> env.addrs] /\ env.addrs = s.addrs
        /\ env.sp = laid.sp - 4 * (e + 1)
    BY <1>3, <2>2
  <2>4. env.sp \in Int /\ env.sp + 3 < STACK_TOP
    BY <1>1, <1>2, <1>3, <2>3
  <2>5. VectorOn(env, Vector(env, e + 1, e + c), SubSeq(env.addrs, e + 1, e + c), c, c)
    <3>1. e + 1 \in Nat /\ e + c \in Nat
      BY <1>2
    <3>2. DOMAIN SubSeq(env.addrs, e + 1, e + c) = 1..c
      BY <1>4, <2>3
    <3>3. QED BY <1>2, <2>2, <2>3, <2>4, <3>1, <3>2, VectorPushed
  <2>6. QED BY <2>1, <2>3, <2>5
<1>7. QED BY <1>3, <1>5, <1>6 DEF EnvAddrs, ArgAddrs

(* Where the pointer ends does not depend on what was in memory. *)
PointerOf(given) == Aligned(Strings(given, Unused).sp) - 4 * (Len(Environ) + 1) - 4 * (Len(given) + 1)

LEMMA PointerBuilt ==
  ASSUME NEW given \in Seq(DOMAIN Chars), NEW mem, DOMAIN mem = Memory
  PROVE  Args(given, mem).sp = PointerOf(given) /\ Env(given, mem).sp = PointerOf(given) + 4 * (Len(given) + 1)
<1> DEFINE e == Len(Environ)
           c == Len(given)
           a == Aligned(Strings(given, Unused).sp)
<1>1. e \in Nat /\ c \in Nat
  BY WordsJoined
<1>2. Laid(given, mem).sp = a /\ a \in Int
  BY VectorsPushed, StringsPointer
<1>3. Env(given, mem).sp = a - 4 * (e + 1) /\ Args(given, mem).sp = Env(given, mem).sp - 4 * (c + 1)
  BY <1>2, VectorsPushed DEF VectorOn
<1>4. PointerOf(given) = a - 4 * (e + 1) - 4 * (c + 1)
  BY DEF PointerOf
<1> HIDE DEF e, c, a
<1>5. QED BY <1>1, <1>2, <1>3, <1>4 DEF c

(* initialize_run_stack, by its two vectors. *)
LEMMA RunStackUnfolded ==
  ASSUME NEW given \in Seq(DOMAIN Chars), NEW held, NEW mem, DOMAIN mem = Memory
  PROVE  LET args == Args(given, mem)
             after == initialize_run_stack(given, held, mem)
         IN  /\ after.mem = WithWord(args.mem, args.sp, Len(given))
             /\ after.regs.sp = args.sp /\ after.regs.a0 = Len(given)
             /\ given # <<>> => after.regs.a1 = args.sp + 4
             /\ Environ # <<>> => after.regs.a2 = Env(given, mem).sp + 4
<1> DEFINE s == Strings(given, mem)
<1>1. Len(s.addrs) = Len(Environ) + Len(given)
  BY StringsShaped
<1>2. s = FoldLeft(copy_str_to_stack, [sp |-> STACK_TOP - 1, mem |-> mem, addrs |-> <<>>], Environ \o given)
  BY DEF Strings, Bottom
<1>3. /\ Env(given, mem) = Vector([s EXCEPT !.sp = Aligned(@)], 1, Len(Environ))
      /\ Args(given, mem) = Vector(Env(given, mem), Len(Environ) + 1, Len(s.addrs))
  BY <1>1 DEF Env, Args, Laid
<1> HIDE DEF s
<1>4. initialize_run_stack(given, held, mem)
        = [regs |-> [sp |-> Args(given, mem).sp, a0 |-> Len(given),
                     a1 |-> IF given = <<>> THEN held.a1 ELSE Args(given, mem).sp + 4,
                     a2 |-> IF Environ = <<>> THEN held.a2 ELSE Env(given, mem).sp + 4],
           mem |-> WithWord(Args(given, mem).mem, Args(given, mem).sp, Len(given))]
  BY <1>2, <1>3, Zenon DEF initialize_run_stack
<1>5. QED BY <1>4

(* Where there is room, a program finds argc, argv and envp. *)
LEMMA ArgumentsBuilt ==
  ASSUME NEW given \in Seq(DOMAIN Chars), NEW held, NEW mem, DOMAIN mem = Memory, PointerOf(given) >= 0
  PROVE  LET started == initialize_run_stack(given, held, mem)
         IN  DOMAIN started.mem = Memory /\ ArgumentsOnStack(given, started.regs, started.mem)
<1> DEFINE s == Strings(given, mem)
           e == Len(Environ)
           c == Len(given)
           env == Env(given, mem)
           args == Args(given, mem)
           a == Laid(given, mem).sp
           p == PointerOf(given)
           after == WithWord(args.mem, args.sp, c)
<1>1. e \in Nat /\ c \in Nat /\ STACK_TOP \in Nat
  BY WordsJoined, StackAssumption
<1>2. /\ a \in Int /\ a % 4 = 0 /\ a + 3 < s.sp /\ Laid(given, mem).mem = s.mem
      /\ VectorOn(Laid(given, mem), env, EnvAddrs(given, mem), e, e)
      /\ VectorOn(env, args, ArgAddrs(given, mem), c, c)
  BY VectorsPushed
<1>3. args.sp = p /\ env.sp = p + 4 * (c + 1) /\ env.sp = a - 4 * (e + 1)
  <2>1. env.sp = a - 4 * (e + 1)
    BY <1>2 DEF VectorOn
  <2>2. QED BY <2>1, PointerBuilt
<1>4. s.sp \in Int /\ s.sp < STACK_TOP
  BY StringsShaped
<1> HIDE DEF a, p
<1>5. p \in Int /\ p = a - 4 * (e + 1) - 4 * (c + 1) /\ p + 3 < STACK_TOP /\ p % 4 = 0 /\ p >= 0
  <2> HIDE DEF e, c, s
  <2>1. env.sp = a - 4 * (e + 1) /\ p = a - 4 * (e + 1) - 4 * (c + 1) /\ p \in Int
    <3>1. PointerOf(given) \in Int
      <4>1. Strings(given, Unused).sp \in Int
        BY StringsShaped, StringsPointer
      <4>2. Aligned(Strings(given, Unused).sp) \in Int
        BY <4>1, AlignedDown
      <4>3. QED BY <1>1, <4>2 DEF PointerOf, e, c
    <3>2. QED BY <1>1, <1>2, <1>3, <3>1 DEF p
  <2>2. p = a - 4 * (e + c + 2) /\ e + c + 2 \in Nat
    BY <1>1, <1>2, <2>1
  <2>3. p % 4 = 0
    BY <1>2, <2>2
  <2>4. p >= 0
    BY DEF p
  <2>5. QED BY <1>1, <1>2, <1>4, <2>1, <2>2, <2>3, <2>4
<1>6. StringsIn(s, Environ \o given, e + c)
  <2>1. s.sp >= -1
    BY <1>1, <1>2, <1>4, <1>5
  <2>2. QED BY <2>1, StringsShaped
<1>7. /\ DOMAIN env.mem = Memory
      /\ \A x \in Memory : x > a + 3 => env.mem[x] = s.mem[x]
      /\ IsWord(env.mem, a, 0)
      /\ \A i \in 1..e : IsWord(env.mem, a - 4 * i, EnvAddrs(given, mem)[e + 1 - i])
  <2>1. a - 4 * e >= 0
    BY <1>1, <1>2, <1>5
  <2>2. QED BY <1>2, <2>1 DEF VectorOn, a
<1> DEFINE b == env.sp
<1>8. /\ b \in Int /\ b = p + 4 * (c + 1) /\ b = a - 4 * (e + 1)
      /\ DOMAIN args.mem = Memory
      /\ \A x \in Memory : x > b + 3 => args.mem[x] = env.mem[x]
      /\ IsWord(args.mem, b, 0)
      /\ \A i \in 1..c : IsWord(args.mem, b - 4 * i, ArgAddrs(given, mem)[c + 1 - i])
  <2>1. b - 4 * c >= 0 /\ b \in Int
    BY <1>1, <1>3, <1>5
  <2>2. QED BY <1>2, <1>3, <2>1 DEF VectorOn
<1>9. /\ DOMAIN after = Memory /\ IsWord(after, p, c)
      /\ \A x \in Memory : x > p + 3 => after[x] = args.mem[x]
  BY <1>3, <1>5, <1>8, WordWritten
<1> HIDE DEF s, e, c, env, args, after, b
<1>10. ASSUME NEW x \in Memory, x > b + 3 PROVE after[x] = env.mem[x]
  <2>1. x \in Int /\ b >= p
    BY <1>1, <1>5, <1>8 DEF Memory
  <2>2. x > p + 3
    BY <1>5, <1>8, <1>10, <2>1
  <2>3. QED BY <1>8, <1>9, <1>10, <2>2
<1>11. ASSUME NEW x \in Memory, x > a + 3 PROVE after[x] = s.mem[x]
  <2>1. x \in Int /\ a >= b
    BY <1>1, <1>2, <1>8 DEF Memory
  <2>2. x > b + 3
    BY <1>2, <1>8, <1>11, <2>1
  <2>3. QED BY <1>7, <1>10, <1>11, <2>2
<1>12. ASSUME NEW k \in 1..(e + c)
       PROVE  s.addrs[k] \in DOMAIN after /\ IsString(after, s.addrs[k], (Environ \o given)[k])
  <2>1. /\ s.addrs[k] \in Memory /\ s.addrs[k] > s.sp /\ IsString(s.mem, s.addrs[k], (Environ \o given)[k])
        /\ DOMAIN s.mem = Memory
    <3>1. s.addrs \in Seq(Memory) /\ Len(s.addrs) = e + c /\ DOMAIN s.mem = Memory
      BY <1>6 DEF StringsIn
    <3>2. s.addrs[k] \in Memory
      BY <1>1, <3>1
    <3>3. s.addrs[k] > s.sp /\ IsString(s.mem, s.addrs[k], (Environ \o given)[k])
      BY <1>6, Zenon DEF StringsIn
    <3>4. QED BY <3>1, <3>2, <3>3
  <2>2. s.addrs[k] \in Int
    BY <1>1, <2>1 DEF Memory
  <2>3. \A x \in Memory : x >= s.addrs[k] => after[x] = s.mem[x]
    BY <1>1, <1>2, <1>4, <1>11, <2>1, <2>2 DEF Memory
  <2>4. (Environ \o given)[k] \in DOMAIN Chars
    BY WordsJoined DEF e, c
  <2>5. QED BY <1>9, <2>1, <2>2, <2>3, <2>4, StringKept
<1>13. IsVector(after, p + 4, given)
  <2>1. ASSUME NEW k \in 1..c
        PROVE  \E q \in DOMAIN after : IsWord(after, p + 4 + 4 * (k - 1), q) /\ IsString(after, q, given[k])
    <3> DEFINE at == b - 4 * (c + 1 - k)
    <3>1. c + 1 - k \in 1..c /\ c + 1 - (c + 1 - k) = k
      BY <1>1
    <3>2. at = p + 4 + 4 * (k - 1) /\ at \in Int /\ at > p + 3
      <4>1. k \in Int /\ k >= 1 /\ c \in Int /\ p \in Int /\ b = p + 4 * (c + 1)
        BY <1>1, <1>5, <1>8
      <4>2. at = p + 4 + 4 * (k - 1)
        BY <4>1
      <4>3. QED BY <4>1, <4>2
    <3>3. IsWord(args.mem, at, ArgAddrs(given, mem)[k])
      BY <1>8, <3>1
    <3> HIDE DEF at
    <3>4. \A x \in at..(at + 3) : x \in Memory => after[x] = args.mem[x]
      BY <1>5, <1>9, <3>2
    <3>5. IsWord(after, at, ArgAddrs(given, mem)[k])
      BY <1>8, <1>9, <3>2, <3>3, <3>4, WordKept
    <3>6. ArgAddrs(given, mem)[k] = s.addrs[e + k] /\ (Environ \o given)[e + k] = given[k]
      BY AddressesSplit, WordsJoined DEF s, e, c
    <3>7. e + k \in 1..(e + c)
      BY <1>1
    <3>8. s.addrs[e + k] \in DOMAIN after /\ IsString(after, s.addrs[e + k], given[k])
      BY <1>12, <3>6, <3>7
    <3>9. QED BY <3>2, <3>5, <3>6, <3>8
  <2>2. IsWord(after, p + 4 + 4 * c, 0)
    <3>1. b = p + 4 + 4 * c /\ b > p + 3
      <4>1. p \in Int /\ c \in Nat /\ b = p + 4 * (c + 1)
        BY <1>1, <1>5, <1>8
      <4>2. QED BY <4>1
    <3>2. \A x \in b..(b + 3) : x \in Memory => after[x] = args.mem[x]
      BY <1>5, <1>8, <1>9, <3>1
    <3>3. IsWord(after, b, 0)
      BY <1>8, <1>9, <3>2, WordKept
    <3>4. QED BY <3>1, <3>3
  <2>3. QED BY <2>1, <2>2 DEF IsVector, c
<1>14. IsVector(after, p + 4 + 4 * c + 4, Environ)
  <2>1. ASSUME NEW k \in 1..e
        PROVE  \E q \in DOMAIN after :
                 IsWord(after, p + 4 + 4 * c + 4 + 4 * (k - 1), q) /\ IsString(after, q, Environ[k])
    <3> DEFINE at == a - 4 * (e + 1 - k)
    <3>1. e + 1 - k \in 1..e /\ e + 1 - (e + 1 - k) = k
      BY <1>1
    <3>2. at = p + 4 + 4 * c + 4 + 4 * (k - 1) /\ at \in Int /\ at > b + 3
      <4>1. /\ k \in Int /\ k <= e /\ k >= 1 /\ p \in Int /\ a \in Int /\ c \in Nat /\ e \in Nat
            /\ b = p + 4 * (c + 1) /\ b = a - 4 * (e + 1)
        BY <1>1, <1>2, <1>5, <1>8
      <4>2. QED BY <4>1
    <3>3. IsWord(env.mem, at, EnvAddrs(given, mem)[k])
      BY <1>7, <3>1
    <3> HIDE DEF at
    <3>4. \A x \in at..(at + 3) : x \in Memory => after[x] = env.mem[x]
      BY <1>8, <1>10, <3>2
    <3>5. IsWord(after, at, EnvAddrs(given, mem)[k])
      BY <1>7, <1>9, <3>2, <3>3, <3>4, WordKept
    <3>6. EnvAddrs(given, mem)[k] = s.addrs[k] /\ (Environ \o given)[k] = Environ[k]
      BY AddressesSplit, WordsJoined DEF s, e, c
    <3>7. k \in 1..(e + c)
      BY <1>1
    <3>8. s.addrs[k] \in DOMAIN after /\ IsString(after, s.addrs[k], Environ[k])
      BY <1>12, <3>6, <3>7
    <3>9. QED BY <3>2, <3>5, <3>6, <3>8
  <2>2. IsWord(after, p + 4 + 4 * c + 4 + 4 * e, 0)
    <3>1. a = p + 4 + 4 * c + 4 + 4 * e /\ a > b + 3
      <4>1. /\ p \in Int /\ a \in Int /\ c \in Nat /\ e \in Nat
            /\ b = p + 4 * (c + 1) /\ b = a - 4 * (e + 1)
        BY <1>1, <1>2, <1>5, <1>8
      <4>2. QED BY <4>1
    <3>2. \A x \in a..(a + 3) : x \in Memory => after[x] = env.mem[x]
      BY <1>2, <1>8, <1>10, <3>1
    <3>3. IsWord(after, a, 0)
      BY <1>2, <1>7, <1>9, <3>2, WordKept
    <3>4. QED BY <3>1, <3>3
  <2>3. QED BY <2>1, <2>2 DEF IsVector, e
<1>15. b + 4 = p + 4 + 4 * c + 4
  <2>1. p \in Int /\ c \in Nat /\ b = p + 4 * (c + 1)
    BY <1>1, <1>5, <1>8
  <2>2. QED BY <2>1
<1> DEFINE started == initialize_run_stack(given, held, mem)
<1>16. /\ started.mem = after /\ started.regs.sp = p /\ started.regs.a0 = c
       /\ given # <<>> => started.regs.a1 = p + 4
       /\ Environ # <<>> => started.regs.a2 = p + 4 + 4 * c + 4
  BY <1>3, <1>15, RunStackUnfolded DEF after, args, env, c, b
<1> HIDE DEF started
<1>17. ArgumentsOnStack(given, started.regs, started.mem)
  BY <1>5, <1>9, <1>13, <1>14, <1>16 DEF ArgumentsOnStack, c
<1>18. QED BY <1>9, <1>16, <1>17 DEF started

-------------------------------------------------------------------------------
(* The arguments of a program. *)
(* spim is at the prompt or runs a program under the settings its command   *)
(* line made, and the stack is all there; a program that was run from the   *)
(* start has its arguments before it has ended.                             *)
ArgumentsInv ==
  /\ \E use \in Uses : argv = use.args
  /\ status \in {"prompt"} \cup Live => settings = Options /\ DOMAIN stack = Memory
  /\ status \in Live /\ job \in {"RUN", "file"} => ArgumentsOnStack(settings.program_argv, regs, stack)

(* There is room under every command line. *)
LEMMA ArgumentsFit ==
  ASSUME ArgumentsInv
  PROVE  Options.program_argv \in Seq(DOMAIN Chars) /\ PointerOf(Options.program_argv) >= 0
<1> DEFINE given == Options.program_argv
<1>1. given \in Seq(DOMAIN Chars) /\ initialize_run_stack(given, ClearedRegisters, Unused).regs.sp >= 0
  BY ShellAssumption DEF ArgumentsInv, Options
<1> HIDE DEF given
<1>2. DOMAIN Unused = Memory
  BY DEF Unused, Memory
<1>3. initialize_run_stack(given, ClearedRegisters, Unused).regs.sp = PointerOf(given)
  BY <1>1, <1>2, RunStackUnfolded, PointerBuilt
<1>4. QED BY <1>1, <1>3 DEF given

(* Whatever is in the registers and on the stack, run and reinitialize pass *)
(* the arguments.                                                           *)
LEMMA ArgumentsGiven ==
  ASSUME ArgumentsInv, NEW r, NEW mem, DOMAIN mem = Memory,
         NEW started, started = initialize_run_stack(Options.program_argv, r, mem)
  PROVE  DOMAIN started.mem = Memory /\ ArgumentsOnStack(Options.program_argv, started.regs, started.mem)
BY ArgumentsFit, ArgumentsBuilt

LEMMA UnusedIsMemory == DOMAIN Unused = Memory
BY DEF Unused, Memory

LEMMA InitArguments == Init => ArgumentsInv
BY DEF Init, ArgumentsInv, Live, Lending

LEMMA MainArguments ==
  ASSUME ArgumentsInv, Main
  PROVE  ArgumentsInv'
<1> DEFINE started == initialize_run_stack(Options.program_argv, ClearedRegisters, Unused)
<1>1. DOMAIN started.mem = Memory /\ ArgumentsOnStack(Options.program_argv, started.regs, started.mem)
  BY ArgumentsGiven, UnusedIsMemory
<1> HIDE DEF started
<1>2. CASE TopLevel
  <2>1. argv' = argv /\ settings' = Options /\ stack' = started.mem /\ status' = "prompt"
    BY <1>2 DEF TopLevel, initialize_world, started
  <2>2. QED BY <1>1, <2>1 DEF ArgumentsInv, Live, Lending, Options
<1>3. CASE WriteCode
  <2>1. argv' = argv /\ status' \notin {"prompt"} \cup Live
    BY <1>3 DEF WriteCode, FileLoaded, Live, Lending
  <2>2. QED BY <2>1 DEF ArgumentsInv, Live, Lending
<1>4. CASE RunFile
  <2>1. argv' = argv /\ settings' = Options /\ stack' = started.mem /\ regs' = started.regs
    BY <1>4 DEF RunFile, FileLoaded, started
  <2>2. Options' = Options
    BY <2>1 DEF Options
  <2>3. ArgumentsOnStack(settings.program_argv, regs, stack)'
    BY <1>1, <2>1 DEF ArgumentsOnStack, IsVector, IsWord, IsString
  <2>4. QED BY <1>1, <2>1, <2>2, <2>3 DEF ArgumentsInv, Live, Lending
<1>5. CASE CannotReadHandler
  <2>1. argv' = argv /\ status' \notin {"prompt"} \cup Live
    BY <1>5 DEF CannotReadHandler, call, Live, Lending
  <2>2. QED BY <2>1 DEF ArgumentsInv, Live, Lending
<1>6. QED BY <1>2, <1>3, <1>4, <1>5 DEF Main

(* At the prompt nothing has its arguments to lose. *)
LEMMA ArgumentsAwaited ==
  ASSUME ArgumentsInv, status = "prompt", UNCHANGED <<argv, settings>>, DOMAIN stack' = Memory,
         status' \in {"prompt", "exited", "undefined"} \/ (status' \in Live /\ job' \notin {"RUN", "file"})
  PROVE  ArgumentsInv'
<1>1. Options' = Options
  BY DEF Options
<1>2. QED BY <1>1 DEF ArgumentsInv, Live, Lending

LEMMA PromptArguments ==
  ASSUME ArgumentsInv, Prompt
  PROVE  ArgumentsInv'
<1>1. status = "prompt"
  BY AtPrompt
<1>2. settings = Options /\ DOMAIN stack = Memory
  BY <1>1 DEF ArgumentsInv
<1>3. CASE Run
  <2> DEFINE started == initialize_run_stack(settings.program_argv, regs, stack)
  <2>1. DOMAIN started.mem = Memory /\ ArgumentsOnStack(Options.program_argv, started.regs, started.mem)
    BY <1>2, ArgumentsGiven
  <2>2. UNCHANGED <<argv, settings>> /\ regs' = started.regs /\ stack' = started.mem
    BY <1>3 DEF Run, call
  <2> HIDE DEF started
  <2>3. Options' = Options
    BY <2>2 DEF Options
  <2>4. ArgumentsOnStack(settings.program_argv, regs, stack)'
    BY <1>2, <2>1, <2>2 DEF ArgumentsOnStack, IsVector, IsWord, IsString
  <2>5. QED BY <1>2, <2>1, <2>2, <2>3, <2>4 DEF ArgumentsInv, Live, Lending
<1>4. CASE Reinitialize
  <2> DEFINE started == initialize_run_stack(settings.program_argv, ClearedRegisters, Unused)
  <2>1. DOMAIN started.mem = Memory
    BY <1>2, ArgumentsGiven, UnusedIsMemory
  <2>2. UNCHANGED <<argv, settings>> /\ stack' = started.mem /\ status' = "prompt"
    BY <1>4 DEF Reinitialize, initialize_world, Prompts, call
  <2> HIDE DEF started
  <2>3. QED BY <1>1, <2>1, <2>2, ArgumentsAwaited
<1>5. CASE Continue \/ Step
  <2>1. UNCHANGED <<argv, settings, stack>>
    BY <1>5 DEF Continue, Step, call, world
  <2>2. status' = "prompt" \/ (status' \in Live /\ job' \in {"CONTINUE", "STEP"})
    BY <1>5 DEF Continue, Step, Starts, DoesNotStart, Prompts, console_to_program, Live, Lending
  <2>3. QED BY <1>1, <1>2, <2>1, <2>2, ArgumentsAwaited
<1>6. CASE Read \/ PrintPlace \/ PrintSymbols \/ PrintAllRegs \/ Assemble \/ Redo \/ Nop \/ Exit
  <2>1. UNCHANGED <<argv, settings, stack>> /\ status' \in {"prompt", "exited"}
    BY <1>1, <1>6 DEF Read, PrintPlace, PrintSymbols, PrintAllRegs, Assemble, Redo, Nop, Exit, Prompts, call, world
  <2>2. QED BY <1>1, <1>2, <2>1, ArgumentsAwaited
<1>7. CASE Help \/ SetBreakpoint \/ DeleteBreakpoint \/ ListBreakpoints \/ DumpText
           \/ DumpNativeText \/ Unknown \/ EndOfInput \/ Crash
  <2>1. UNCHANGED <<argv, settings, stack>> /\ status' \in {"prompt", "exited", "undefined"}
    BY <1>7 DEF Help, SetBreakpoint, DeleteBreakpoint, Breakpoint, ListBreakpoints, DumpText,
                DumpNativeText, Dump, Unknown, EndOfInput, Crash, Prompts, call, world
  <2>2. QED BY <1>1, <1>2, <2>1, ArgumentsAwaited
<1>8. QED BY <1>3, <1>4, <1>5, <1>6, <1>7 DEF Prompt

LEMMA ProgramArguments ==
  ASSUME ArgumentsInv, Program
  PROVE  ArgumentsInv'
<1>1. CASE Lent \/ SwitchOut \/ SwitchIn \/ TakeInput
  <2>1. status \in Live /\ status' \in Live /\ UNCHANGED <<argv, settings, regs, stack, job>>
    BY <1>1 DEF Lent, SwitchOut, SwitchIn, TakeInput, console_to_program, call, world, Live, Lending
  <2>2. Options' = Options
    BY <2>1 DEF Options
  <2>3. (job \in {"RUN", "file"} => ArgumentsOnStack(settings.program_argv, regs, stack))'
    BY <2>1 DEF ArgumentsInv, ArgumentsOnStack, IsVector, IsWord, IsString
  <2>4. QED BY <2>1, <2>2, <2>3 DEF ArgumentsInv
<1>2. CASE Ends \/ LongJump \/ LongJumpUnnoted
  <2>1. /\ status \in Live /\ status' \in {"prompt", "exited"}
        /\ UNCHANGED <<argv, settings>> /\ stack' \in {stack, Unused}
    BY <1>2 DEF Ends, LongJump, LongJumpUnnoted, Over, LeftBehind, call, world, Live, Lending
  <2>2. Options' = Options
    BY <2>1 DEF Options
  <2>3. QED BY <2>1, <2>2, UnusedIsMemory DEF ArgumentsInv, Live, Lending
<1>3. CASE Killed \/ FatalError
  <2>1. argv' = argv /\ status' \in {"exited", "aborted"}
    BY <1>3 DEF Killed, FatalError, call
  <2>2. QED BY <2>1 DEF ArgumentsInv, Live, Lending
<1>4. QED BY <1>1, <1>2, <1>3 DEF Program

(* A program that runs from its start finds argc, argv and envp, whatever   *)
(* the command line and the environment are, however often the world was    *)
(* initialized and whatever earlier programs left in registers and stack.   *)
THEOREM ArgumentsArePassed == Spec => []ArgumentsPassed
<1>1. ArgumentsInv /\ [Next]_vars => ArgumentsInv'
  <2>1. SUFFICES ASSUME ArgumentsInv, [Next]_vars PROVE ArgumentsInv'
    OBVIOUS
  <2>2. CASE UNCHANGED vars
    <3>1. UNCHANGED <<argv, settings, status, regs, stack, job>>
      BY <2>2 DEF vars, call, world
    <3>2. Options' = Options
      BY <3>1 DEF Options
    <3>3. (status \in Live /\ job \in {"RUN", "file"} => ArgumentsOnStack(settings.program_argv, regs, stack))'
      BY <2>1, <3>1 DEF ArgumentsInv, ArgumentsOnStack, IsVector, IsWord, IsString
    <3>4. QED BY <2>1, <3>1, <3>2, <3>3 DEF ArgumentsInv
  <2>3. QED BY <2>1, <2>2, MainArguments, PromptArguments, ProgramArguments DEF Next
<1>2. ArgumentsInv => ArgumentsPassed
  BY DEF ArgumentsInv, ArgumentsPassed, Live
<1>3. QED BY <1>1, <1>2, InitArguments, PTL DEF Spec

-------------------------------------------------------------------------------
(* The lines of a session.  While every line is one the help text speaks of, *)
(* the scanner is at the beginning of a line whenever spim prompts, and what *)
(* a blank line will repeat is in prev_cmd, prev_token, the static variables *)
(* and the scanner's last value.                                             *)
Tokens == UNION {Range(line) : line \in UNION {Range(use.lines) : use \in Uses}}
Lines == {line \in Seq(Tokens) : line # <<>> /\ Last(line) = NL}
Unread == {<<>>} \cup Lines
Buffers == [file : Existing \cup {"terminal"}, unread : Unread]
IsSequence(s) == s \in Seq({s[k] : k \in DOMAIN s})

Nothing == [last |-> <<>>, did |-> <<>>]
SaidBy(h) == FoldLeft(Understood, Nothing, h)

(* Whether a blank line behind h repeats the whole of the command before. *)
Repeatable(h) ==
  LET before == {k \in 1..Len(h) : h[k] # <<NL>>}
  IN  before # {} => h[Max(before)] # Cut /\ Meaning[h[Max(before)]][1] \notin NotRepeated

(* What a redo of cmd does is what was done last, again: s are the static      *)
(* variables, tok and val the last token's kind and value, fs the files.     *)
AddressIn(fs, name) ==
  LET defined == {def \in UNION {Labels[f] : f \in Range(fs)} : def[1] = name}
  IN  IF defined = {} THEN 0 ELSE (CHOOSE def \in defined : TRUE)[2]
Start(fs) == AddressIn(fs, DEFAULT_RUN_LOCATION)

Ready(last, cmd, s, tok, val, fs) ==
  \/ last = <<>> /\ cmd = "NOP"
  \/ /\ cmd = "RUN" /\ last = <<"run", IF s.addr = Start(fs) THEN "start" ELSE s.addr>>
     /\ s.addr = 0 => Start(fs) = 0
  \/ cmd = "STEP" /\ last = <<"step", s.steps>> /\ s.steps # 0
  \/ /\ cmd = "PRINT" /\ tok \in {"REG", "FP_REG", "INT"}
     /\ last = <<tok, s.loc>> /\ s.loc \in Int
  \/ /\ cmd = "PRINT" /\ tok = "ID" /\ val \in RegisterNames
     /\ last = <<"name", val>>
  \/ /\ cmd = "PRINT" /\ tok = "ID" /\ val \notin RegisterNames
     /\ last = <<"symbol", val, s.loc - AddressIn(fs, val)>> /\ s.loc \in Int
  \/ cmd = "HELP" /\ last = <<"help">>
  \/ cmd = "LIST_BKPT" /\ last = <<"list">>

Followed(h, cmd) ==
  /\ effects = SaidBy(h).did
  /\ Repeatable(h) => Ready(SaidBy(h).last, cmd, static, prev_token, yylval, files)

InputInv ==
  /\ typed \in Seq(Lines) /\ yytoken = NL
  /\ DOMAIN static = {"addr", "steps", "loc", "bkpt"}
  /\ status = "start" => heard = <<>> /\ effects = <<>> /\ ~redo /\ prev_cmd = "NOP"
  /\ status \in {"start", "prompt"} => job = "none"
  /\ status \in Statuses

SessionInv ==
  /\ buffers \in Seq(Buffers) /\ AtTerminal
  /\ files \in Seq(Existing) /\ ReadHandler(settings)
  /\ status = "prompt" /\ ~redo => Followed(heard, prev_cmd)
  /\ status = "prompt" /\ redo =>
       \E h \in {Front(heard)} : IsSequence(h) /\ heard = Append(h, <<NL>>) /\ Followed(h, prev_cmd)
  /\ status # "prompt" => job \in {"RUN", "STEP"} /\ Followed(heard, job)

Gone == {"exited", "aborted", "undefined"}
CommandInv ==
  /\ IsSequence(heard)
  /\ Plain /\ status \notin Gone => InputInv
  /\ Plain /\ status \in {"prompt"} \cup Live /\ job # "file" => SessionInv

(* st[k] is what the first k of n lines say. *)
UnderstoodOneByOne(st, base, items, n) ==
  /\ st[0] = base
  /\ st[n] = FoldLeft(Understood, base, items)
  /\ \A k \in 1..n : st[k] = Understood(st[k - 1], items[k])

LEMMA LinesFolded ==
  ASSUME NEW base, NEW items, NEW n \in Nat, DOMAIN items = 1..n
  PROVE  \E st : UnderstoodOneByOne(st, base, items, n)
<1> DEFINE Copied(f, s) == IF s = {} THEN base ELSE Understood(f[s \ {Max(s)}], items[Max(s)])
           Folded(f, k) == f = [s \in SUBSET (1..k) |-> Copied(f, s)]
           K == {k \in Nat : \E f : Folded(f, k)}
<1>1. 0 \in K
  <2> DEFINE f == [s \in SUBSET (1..0) |-> base]
  <2>1. \A s \in SUBSET (1..0) : Copied(f, s) = base
    OBVIOUS
  <2>2. Folded(f, 0)
    <3> HIDE DEF Copied
    <3>1. QED BY <2>1
  <2>3. QED BY <2>2
<1>2. ASSUME NEW k \in Nat, k \in K PROVE k + 1 \in K
  <2>1. PICK f : Folded(f, k)
    BY <1>2
  <2> DEFINE g == [s \in SUBSET (1..(k + 1)) |->
                     IF k + 1 \in s THEN Understood(f[s \ {k + 1}], items[k + 1]) ELSE f[s]]
  <2>2. ASSUME NEW s \in SUBSET (1..(k + 1)) PROVE g[s] = Copied(g, s)
    <3>1. CASE k + 1 \in s
      <4>1. Max(s) = k + 1
        <5>1. k + 1 \in Nat /\ s \subseteq 1..(k + 1)
          OBVIOUS
        <5>2. QED BY <3>1, <5>1, MaxIsLast
      <4>2. s \ {k + 1} \in SUBSET (1..(k + 1)) /\ k + 1 \notin s \ {k + 1} /\ s # {}
        BY <3>1
      <4>3. g[s \ {k + 1}] = f[s \ {k + 1}]
        BY <4>2
      <4>4. g[s] = Understood(f[s \ {k + 1}], items[k + 1])
        BY <3>1
      <4> HIDE DEF g
      <4>5. QED BY <4>1, <4>2, <4>3, <4>4
    <3>2. CASE k + 1 \notin s
      <4>1. s \in SUBSET (1..k) /\ g[s] = f[s]
        BY <3>2
      <4>2. f[s] = Copied(f, s)
        BY <2>1, <4>1
      <4>3. s \ {Max(s)} \in SUBSET (1..(k + 1)) /\ k + 1 \notin s \ {Max(s)}
        BY <3>2
      <4>4. g[s \ {Max(s)}] = f[s \ {Max(s)}]
        BY <4>3
      <4> HIDE DEF g
      <4>5. QED BY <4>1, <4>2, <4>4
    <3>3. QED BY <3>1, <3>2
  <2>3. g = [s \in SUBSET (1..(k + 1)) |-> g[s]]
    OBVIOUS
  <2>4. Folded(g, k + 1)
    <3> HIDE DEF g, Copied
    <3>1. QED BY <2>2, <2>3
  <2>5. QED
    <3> HIDE DEF g, Folded
    <3>1. QED BY <2>4
<1>3. n \in K
  <2> HIDE DEF K
  <2>1. QED BY <1>1, <1>2, Induction
<1>4. \E f : Folded(f, n)
  BY <1>3
<1> DEFINE iter == CHOOSE f : Folded(f, n)
<1>5. Folded(iter, n)
  <2> HIDE DEF Folded
  <2>1. QED BY <1>4
<1>6. FoldLeft(Understood, base, items) = iter[1..n]
  BY Zenon DEF FoldLeft, MapThenFoldSet
<1> HIDE DEF iter
<1> DEFINE st == [k \in 0..n |-> iter[1..k]]
<1>7. st[0] = base
  <2>1. 1..0 = {} /\ {} \in SUBSET (1..n) /\ 0 \in 0..n
    OBVIOUS
  <2>2. QED BY <1>5, <2>1
<1>8. ASSUME NEW k \in 1..n PROVE st[k] = Understood(st[k - 1], items[k])
  <2>1. Max(1..k) = k /\ 1..k # {} /\ 1..k \in SUBSET (1..n) /\ (1..k) \ {k} = 1..(k - 1)
    BY MaxIsLast
  <2>2. iter[1..k] = Understood(iter[1..(k - 1)], items[k])
    BY <1>5, <2>1
  <2>3. QED BY <2>2
<1>9. st[n] = iter[1..n]
  OBVIOUS
<1> HIDE DEF st
<1>10. UnderstoodOneByOne(st, base, items, n)
  BY <1>6, <1>7, <1>8, <1>9 DEF UnderstoodOneByOne
<1>11. QED BY <1>10

(* st[k] are the buffers behind the first k of n files. *)
InitializedOneByOne(st, base, items, n) ==
  /\ st[0] = base
  /\ st[n] = FoldLeft(initialize_scanner, base, items)
  /\ \A k \in 1..n : st[k] = initialize_scanner(st[k - 1], items[k])

LEMMA ScannersFolded ==
  ASSUME NEW base, NEW items, NEW n \in Nat, DOMAIN items = 1..n
  PROVE  \E st : InitializedOneByOne(st, base, items, n)
<1> DEFINE Copied(f, s) == IF s = {} THEN base ELSE initialize_scanner(f[s \ {Max(s)}], items[Max(s)])
           Folded(f, k) == f = [s \in SUBSET (1..k) |-> Copied(f, s)]
           K == {k \in Nat : \E f : Folded(f, k)}
<1>1. 0 \in K
  <2> DEFINE f == [s \in SUBSET (1..0) |-> base]
  <2>1. \A s \in SUBSET (1..0) : Copied(f, s) = base
    OBVIOUS
  <2>2. Folded(f, 0)
    <3> HIDE DEF Copied
    <3>1. QED BY <2>1
  <2>3. QED BY <2>2
<1>2. ASSUME NEW k \in Nat, k \in K PROVE k + 1 \in K
  <2>1. PICK f : Folded(f, k)
    BY <1>2
  <2> DEFINE g == [s \in SUBSET (1..(k + 1)) |->
                     IF k + 1 \in s THEN initialize_scanner(f[s \ {k + 1}], items[k + 1]) ELSE f[s]]
  <2>2. ASSUME NEW s \in SUBSET (1..(k + 1)) PROVE g[s] = Copied(g, s)
    <3>1. CASE k + 1 \in s
      <4>1. Max(s) = k + 1
        <5>1. k + 1 \in Nat /\ s \subseteq 1..(k + 1)
          OBVIOUS
        <5>2. QED BY <3>1, <5>1, MaxIsLast
      <4>2. s \ {k + 1} \in SUBSET (1..(k + 1)) /\ k + 1 \notin s \ {k + 1} /\ s # {}
        BY <3>1
      <4>3. g[s \ {k + 1}] = f[s \ {k + 1}]
        BY <4>2
      <4>4. g[s] = initialize_scanner(f[s \ {k + 1}], items[k + 1])
        BY <3>1
      <4> HIDE DEF g
      <4>5. QED BY <4>1, <4>2, <4>3, <4>4
    <3>2. CASE k + 1 \notin s
      <4>1. s \in SUBSET (1..k) /\ g[s] = f[s]
        BY <3>2
      <4>2. f[s] = Copied(f, s)
        BY <2>1, <4>1
      <4>3. s \ {Max(s)} \in SUBSET (1..(k + 1)) /\ k + 1 \notin s \ {Max(s)}
        BY <3>2
      <4>4. g[s \ {Max(s)}] = f[s \ {Max(s)}]
        BY <4>3
      <4> HIDE DEF g
      <4>5. QED BY <4>1, <4>2, <4>4
    <3>3. QED BY <3>1, <3>2
  <2>3. g = [s \in SUBSET (1..(k + 1)) |-> g[s]]
    OBVIOUS
  <2>4. Folded(g, k + 1)
    <3> HIDE DEF g, Copied
    <3>1. QED BY <2>2, <2>3
  <2>5. QED
    <3> HIDE DEF g, Folded
    <3>1. QED BY <2>4
<1>3. n \in K
  <2> HIDE DEF K
  <2>1. QED BY <1>1, <1>2, Induction
<1>4. \E f : Folded(f, n)
  BY <1>3
<1> DEFINE iter == CHOOSE f : Folded(f, n)
<1>5. Folded(iter, n)
  <2> HIDE DEF Folded
  <2>1. QED BY <1>4
<1>6. FoldLeft(initialize_scanner, base, items) = iter[1..n]
  BY Zenon DEF FoldLeft, MapThenFoldSet
<1> HIDE DEF iter
<1> DEFINE st == [k \in 0..n |-> iter[1..k]]
<1>7. st[0] = base
  <2>1. 1..0 = {} /\ {} \in SUBSET (1..n) /\ 0 \in 0..n
    OBVIOUS
  <2>2. QED BY <1>5, <2>1
<1>8. ASSUME NEW k \in 1..n PROVE st[k] = initialize_scanner(st[k - 1], items[k])
  <2>1. Max(1..k) = k /\ 1..k # {} /\ 1..k \in SUBSET (1..n) /\ (1..k) \ {k} = 1..(k - 1)
    BY MaxIsLast
  <2>2. iter[1..k] = initialize_scanner(iter[1..(k - 1)], items[k])
    BY <1>5, <2>1
  <2>3. QED BY <2>2
<1>9. st[n] = iter[1..n]
  OBVIOUS
<1> HIDE DEF st
<1>10. InitializedOneByOne(st, base, items, n)
  BY <1>6, <1>7, <1>8, <1>9 DEF InitializedOneByOne
<1>11. QED BY <1>10

(* A sequence with one more element. *)
LEMMA Longer ==
  ASSUME NEW h, IsSequence(h), NEW x
  PROVE  /\ IsSequence(Append(h, x)) /\ Len(h) \in Nat
         /\ Len(Append(h, x)) = Len(h) + 1 /\ DOMAIN h = 1..Len(h)
         /\ DOMAIN Append(h, x) = 1..(Len(h) + 1)
         /\ Append(h, x)[Len(h) + 1] = x
         /\ \A k \in 1..Len(h) : Append(h, x)[k] = h[k]
         /\ h \o <<x>> = Append(h, x) /\ h \o <<>> = h
<1> DEFINE S == {h[k] : k \in DOMAIN h} \cup {x}
           a == Append(h, x)
<1>1. h \in Seq(S) /\ x \in S
  BY DEF IsSequence
<1>2. /\ a \in Seq(S) /\ Len(h) \in Nat /\ Len(a) = Len(h) + 1 /\ DOMAIN h = 1..Len(h)
      /\ DOMAIN a = 1..(Len(h) + 1)
      /\ a[Len(h) + 1] = x /\ \A k \in 1..Len(h) : a[k] = h[k]
      /\ h \o <<x>> = a /\ h \o <<>> = h
  <2> HIDE DEF S
  <2>1. QED BY <1>1
<1>3. a \in Seq({a[k] : k \in DOMAIN a})
  <2>1. \A k \in 1..Len(a) : a[k] \in {a[j] : j \in DOMAIN a}
    BY <1>2
  <2> HIDE DEF a, S
  <2>2. QED BY <1>2, <2>1
<1>4. QED BY <1>2, <1>3 DEF IsSequence

LEMMA EmptySequence == IsSequence(<<>>)
BY DEF IsSequence

(* What is said by one more line. *)
LEMMA SaidByMore ==
  ASSUME NEW h, IsSequence(h), NEW x
  PROVE  SaidBy(Append(h, x)) = Understood(SaidBy(h), x)
<1> DEFINE n == Len(h)
           a == Append(h, x)
<1>1. /\ n \in Nat /\ DOMAIN h = 1..n /\ DOMAIN a = 1..(n + 1) /\ a[n + 1] = x
      /\ \A k \in 1..n : a[k] = h[k]
  BY Longer
<1> HIDE DEF n, a
<1>2. PICK s : UnderstoodOneByOne(s, Nothing, h, n)
  BY <1>1, LinesFolded
<1>3. PICK t : UnderstoodOneByOne(t, Nothing, a, n + 1)
  <2>1. n + 1 \in Nat
    BY <1>1
  <2>2. QED BY <1>1, <2>1, LinesFolded
<1> DEFINE K == {k \in Nat : k <= n => t[k] = s[k]}
<1>4. 0 \in K
  BY <1>2, <1>3 DEF UnderstoodOneByOne
<1>5. ASSUME NEW k \in Nat, k \in K PROVE k + 1 \in K
  <2>1. SUFFICES ASSUME k + 1 <= n PROVE t[k + 1] = s[k + 1]
    OBVIOUS
  <2>2. k + 1 \in 1..n /\ k + 1 \in 1..(n + 1) /\ (k + 1) - 1 = k /\ t[k] = s[k] /\ a[k + 1] = h[k + 1]
    BY <1>1, <1>5, <2>1
  <2>3. s[k + 1] = Understood(s[k], h[k + 1])
    BY <1>2, <2>2 DEF UnderstoodOneByOne
  <2>4. t[k + 1] = Understood(t[k], a[k + 1])
    BY <1>3, <2>2 DEF UnderstoodOneByOne
  <2>5. QED BY <2>2, <2>3, <2>4
<1>6. t[n] = s[n]
  <2> HIDE DEF K
  <2>1. n \in K
    BY <1>1, <1>4, <1>5, Induction
  <2>2. QED BY <1>1, <2>1 DEF K
<1>7. t[n + 1] = Understood(t[n], x)
  <2>1. n + 1 \in 1..(n + 1) /\ (n + 1) - 1 = n
    BY <1>1
  <2>2. QED BY <1>1, <1>3, <2>1 DEF UnderstoodOneByOne
<1>8. SaidBy(h) = s[n] /\ SaidBy(a) = t[n + 1]
  BY <1>2, <1>3 DEF UnderstoodOneByOne, SaidBy
<1>9. QED BY <1>6, <1>7, <1>8 DEF a

LEMMA NothingSaid == SaidBy(<<>>) = Nothing
<1>1. DOMAIN <<>> = 1..0 /\ 0 \in Nat
  OBVIOUS
<1>2. PICK s : UnderstoodOneByOne(s, Nothing, <<>>, 0)
  BY <1>1, LinesFolded
<1>3. QED BY <1>2 DEF UnderstoodOneByOne, SaidBy

(* The three kinds of lines. *)
LEMMA BlankUnderstood ==
  ASSUME NEW s
  PROVE  /\ s.last = <<>> => Understood(s, <<NL>>) = s
         /\ s.last # <<>> => Understood(s, <<NL>>) = [last |-> Again(s.last), did |-> Append(s.did, Again(s.last))]
<1>1. <<NL>> # Cut
  BY DEF NL, Cut, End
<1>2. QED BY <1>1 DEF Understood

LEMMA CutUnderstood ==
  ASSUME NEW s
  PROVE  Understood(s, Cut) = s
<1>1. <<NL>> # Cut
  BY DEF NL, Cut, End
<1>2. QED BY <1>1 DEF Understood

LEMMA LineUnderstood ==
  ASSUME NEW s, NEW line \in DOMAIN Meaning
  PROVE  /\ line # Cut /\ line # <<NL>>
         /\ Understood(s, line) = [last |-> IF Meaning[line][1] \in Final THEN <<>> ELSE Meaning[line],
                                   did |-> Append(s.did, Meaning[line])]
<1>1. Len(line) >= 2 /\ Len(line) \in Nat
  BY MeaningAssumption DEF IsLine
<1>2. Len(<<NL>>) = 1 /\ Len(Cut) = 1
  BY DEF Cut
<1>3. line # Cut /\ line # <<NL>>
  <2>1. Len(line) # 1
    <3> DEFINE n == Len(line)
    <3>1. n >= 2 /\ n \in Nat
      BY <1>1
    <3> HIDE DEF n
    <3>2. n # 1
      BY <3>1
    <3>3. QED BY <3>2 DEF n
  <2>2. QED BY <1>2, <2>1, Zenon
<1>4. QED BY <1>3 DEF Understood

-------------------------------------------------------------------------------
(* What a blank line may repeat. *)
LEMMA GreatestIndex ==
  ASSUME NEW n \in Nat, NEW s, s \subseteq 1..n, s # {}
  PROVE  Max(s) \in s /\ \A k \in s : k <= Max(s)
<1> DEFINE T == {m \in Nat : \A k \in s : k <= m}
<1>1. n \in T /\ T \subseteq Nat /\ T # {}
  OBVIOUS
<1>2. PICK m \in T : \A k \in T : m <= k
  BY <1>1, LeastElement
<1>3. m \in s
  <2>1. SUFFICES ASSUME m \notin s PROVE FALSE
    OBVIOUS
  <2>2. \A k \in s : k \in Nat /\ k <= m /\ k # m /\ k > 0
    BY <1>2, <2>1
  <2>3. m > 0
    <3>1. PICK k \in s : TRUE
      OBVIOUS
    <3>2. k \in Nat /\ k <= m /\ k > 0 /\ m \in Nat
      BY <1>2, <2>2
    <3>3. QED BY <3>2
  <2>4. m - 1 \in T
    BY <2>2, <2>3, <1>2
  <2>5. QED BY <1>2, <2>4
<1>4. \E x \in s : \A y \in s : x >= y
  BY <1>2, <1>3
<1>5. Max(s) \in s /\ \A y \in s : Max(s) >= y
  BY <1>4 DEF Max
<1>6. QED
  <2> DEFINE M == Max(s)
  <2>1. M \in s /\ \A y \in s : M >= y
    BY <1>5
  <2> HIDE DEF M
  <2>2. \A k \in s : k <= M
    BY <2>1
  <2>3. QED BY <2>1, <2>2 DEF M

LEMMA RepeatableLine ==
  ASSUME NEW h, IsSequence(h), NEW x, x # <<NL>>
  PROVE  Repeatable(Append(h, x)) <=> x # Cut /\ Meaning[x][1] \notin NotRepeated
<1> DEFINE a == Append(h, x)
           n == Len(h)
           s == {k \in 1..Len(a) : a[k] # <<NL>>}
<1>1. n \in Nat /\ Len(a) = n + 1 /\ a[n + 1] = x
  BY Longer
<1>2. n + 1 \in s /\ s \subseteq 1..(n + 1) /\ n + 1 \in Nat /\ s # {}
  <2>1. n + 1 \in 1..Len(a) /\ a[n + 1] # <<NL>> /\ 1..Len(a) = 1..(n + 1) /\ n + 1 \in Nat
    <3> HIDE DEF a, n
    <3>1. QED BY <1>1
  <2> HIDE DEF a, n
  <2>2. QED BY <2>1
<1>3. Max(s) = n + 1
  <2> HIDE DEF s, n
  <2>1. QED BY <1>2, MaxIsLast
<1>4. Repeatable(a) <=> (s # {} => a[Max(s)] # Cut /\ Meaning[a[Max(s)]][1] \notin NotRepeated)
  BY DEF Repeatable
<1> HIDE DEF a, n, s
<1>5. QED BY <1>1, <1>2, <1>3, <1>4 DEF a

LEMMA RepeatableBlank ==
  ASSUME NEW h, IsSequence(h)
  PROVE  Repeatable(Append(h, <<NL>>)) <=> Repeatable(h)
<1> DEFINE a == Append(h, <<NL>>)
           n == Len(h)
           s == {k \in 1..Len(a) : a[k] # <<NL>>}
           t == {k \in 1..n : h[k] # <<NL>>}
<1>1. n \in Nat /\ Len(a) = n + 1 /\ a[n + 1] = <<NL>> /\ \A k \in 1..n : a[k] = h[k]
  BY Longer
<1>2. s = t /\ t \subseteq 1..n
  <2> HIDE DEF a, n
  <2>1. QED BY <1>1
<1>3. t # {} => Max(t) \in t
  <2> HIDE DEF t, n
  <2>1. QED BY <1>1, <1>2, GreatestIndex
<1>4. t # {} => a[Max(t)] = h[Max(t)]
  <2>1. t # {} => Max(t) \in 1..n
    <3> HIDE DEF n, t
    <3>1. QED BY <1>2, <1>3
  <2> HIDE DEF n, t, a
  <2>2. QED BY <1>1, <2>1
<1>5. Repeatable(a) <=> (s # {} => a[Max(s)] # Cut /\ Meaning[a[Max(s)]][1] \notin NotRepeated)
  BY DEF Repeatable
<1>6. Repeatable(h) <=> (t # {} => h[Max(t)] # Cut /\ Meaning[h[Max(t)]][1] \notin NotRepeated)
  BY DEF Repeatable
<1> HIDE DEF a, n, s, t
<1>7. QED BY <1>2, <1>4, <1>5, <1>6 DEF a

(* Plain, of any lines. *)
PlainLines(h) ==
  /\ Range(h) \subseteq DOMAIN Meaning \cup {<<NL>>, Cut}
  /\ \A k \in DOMAIN h :
       LET before == {j \in 1..(k - 1) : h[j] # <<NL>>}
           line == h[Max(before)]
       IN  h[k] = <<NL>> /\ before # {} => line # Cut /\ Meaning[line][1] \notin NotRepeated

LEMMA PlainIsPlain == Plain <=> PlainLines(heard)
BY DEF Plain, PlainLines

LEMMA PlainShorter ==
  ASSUME NEW h, IsSequence(h), NEW x, PlainLines(Append(h, x))
  PROVE  /\ PlainLines(h) /\ x \in DOMAIN Meaning \cup {<<NL>>, Cut}
         /\ x = <<NL>> => Repeatable(h)
<1> DEFINE a == Append(h, x)
           n == Len(h)
           s(k) == {j \in 1..(k - 1) : a[j] # <<NL>>}
           t(k) == {j \in 1..(k - 1) : h[j] # <<NL>>}
           Covers(f, m) == f[m] # Cut /\ Meaning[f[m]][1] \notin NotRepeated
<1>1. /\ n \in Nat /\ DOMAIN h = 1..n /\ DOMAIN a = 1..(n + 1) /\ a[n + 1] = x
      /\ \A k \in 1..n : a[k] = h[k]
  BY Longer
<1>2. ASSUME NEW k \in 1..(n + 1) PROVE s(k) = t(k) /\ (t(k) # {} => a[Max(t(k))] = h[Max(t(k))])
  <2> DEFINE tk == t(k)
  <2>1. s(k) = tk /\ tk \subseteq 1..n
    <3> HIDE DEF a, n
    <3>1. QED BY <1>1
  <2>2. tk # {} => Max(tk) \in tk
    <3> HIDE DEF tk, n
    <3>1. QED BY <1>1, <2>1, GreatestIndex
  <2>3. tk # {} => Max(tk) \in 1..n
    <3> HIDE DEF tk, n
    <3>1. QED BY <2>1, <2>2
  <2> HIDE DEF tk, n, a
  <2>4. tk # {} => a[Max(tk)] = h[Max(tk)]
    BY <1>1, <2>3
  <2>5. QED BY <2>1, <2>4 DEF tk, a, n
<1>3. Range(a) \subseteq DOMAIN Meaning \cup {<<NL>>, Cut}
  BY DEF PlainLines
<1>4. \A k \in DOMAIN a : a[k] = <<NL>> /\ s(k) # {} => Covers(a, Max(s(k)))
  BY DEF PlainLines
<1>5. x \in Range(a) /\ Range(h) \subseteq Range(a)
  <2> HIDE DEF a, n
  <2>1. n + 1 \in 1..(n + 1) /\ \A k \in 1..n : k \in 1..(n + 1)
    BY <1>1
  <2>2. QED BY <1>1, <2>1 DEF Range
<1>6. ASSUME NEW k \in DOMAIN h, h[k] = <<NL>>, t(k) # {} PROVE Covers(h, Max(t(k)))
  <2> HIDE DEF a, n, s, t
  <2>1. k \in 1..(n + 1) /\ a[k] = <<NL>> /\ k \in DOMAIN a
    BY <1>1, <1>6
  <2>2. s(k) = t(k) /\ a[Max(t(k))] = h[Max(t(k))]
    BY <1>2, <1>6, <2>1
  <2>3. Covers(a, Max(t(k)))
    BY <1>4, <1>6, <2>1, <2>2
  <2>4. QED BY <2>2, <2>3
<1>7. PlainLines(h)
  BY <1>3, <1>5, <1>6 DEF PlainLines
<1>8. ASSUME x = <<NL>> PROVE Repeatable(h)
  <2>1. n + 1 \in 1..(n + 1) /\ n + 1 \in DOMAIN a /\ a[n + 1] = <<NL>> /\ (n + 1) - 1 = n
    <3> HIDE DEF a, n
    <3>1. QED BY <1>1, <1>8
  <2> HIDE DEF a, s, Covers
  <2>2. t(n + 1) # {} => Covers(h, Max(t(n + 1)))
    <3> HIDE DEF n, t
    <3>1. s(n + 1) = t(n + 1) /\ (t(n + 1) # {} => a[Max(t(n + 1))] = h[Max(t(n + 1))])
      BY <1>2, <2>1
    <3>2. t(n + 1) # {} => Covers(a, Max(t(n + 1)))
      BY <1>4, <2>1, <3>1
    <3>3. QED BY <3>1, <3>2 DEF Covers
  <2>3. t(n + 1) = {j \in 1..Len(h) : h[j] # <<NL>>}
    BY <2>1
  <2> HIDE DEF t
  <2>4. QED BY <2>2, <2>3 DEF Repeatable, Covers
<1>9. QED BY <1>3, <1>5, <1>7, <1>8

(* The scanner's state, its fields spelled out. *)
St(u, ty, tok, val) == [unread |-> u, typed |-> ty, token |-> tok, value |-> val]

(* All that was typed, one line behind the other, ends with a line. *)
LEMMA FlattenedIsUnread ==
  ASSUME NEW ls \in Seq(Lines), ls # <<>>
  PROVE  FlattenSeq(ls) \in Lines
<1> DEFINE n == Len(ls)
           Rest(f, i) == IF i = 1 THEN ls[i] ELSE f[i - 1] \o ls[i]
           Flat(f, k) == f = [i \in 1..k |-> Rest(f, i)]
           K == {k \in Nat : k <= n => \E f : Flat(f, k)}
<1>1. n \in Nat /\ n > 0 /\ \A i \in 1..n : ls[i] \in Lines
  OBVIOUS
<1>2. 0 \in K
  <2> DEFINE f == [i \in 1..0 |-> ls[i]]
  <2>1. Flat(f, 0)
    OBVIOUS
  <2> HIDE DEF Flat, f, n
  <2>2. QED BY <2>1
<1>3. ASSUME NEW k \in Nat, k \in K PROVE k + 1 \in K
  <2>1. SUFFICES ASSUME k + 1 <= n PROVE \E g : Flat(g, k + 1)
    <3> HIDE DEF Flat, n
    <3>1. QED OBVIOUS
  <2>2. PICK f : Flat(f, k)
    <3> HIDE DEF Flat
    <3>1. k <= n
      BY <1>1, <2>1
    <3>2. QED BY <1>3, <3>1
  <2> DEFINE g == [i \in 1..(k + 1) |-> IF i = k + 1 THEN Rest(f, i) ELSE f[i]]
  <2>3. ASSUME NEW i \in 1..(k + 1) PROVE g[i] = Rest(g, i)
    <3>1. CASE i = 1 /\ i = k + 1
      BY <3>1
    <3>2. CASE i = 1 /\ i # k + 1
      <4>1. i \in 1..k
        BY <3>2
      <4>2. f[i] = Rest(f, i)
        BY <2>2, <4>1
      <4>3. QED BY <3>2, <4>2
    <3>3. CASE i # 1 /\ i = k + 1
      <4>1. i - 1 \in 1..(k + 1) /\ i - 1 # k + 1
        BY <3>3
      <4>2. g[i - 1] = f[i - 1] /\ g[i] = Rest(f, i)
        BY <3>3, <4>1
      <4> HIDE DEF g
      <4>3. QED BY <3>3, <4>2
    <3>4. CASE i # 1 /\ i # k + 1
      <4>1. i \in 1..k /\ i - 1 \in 1..(k + 1) /\ i - 1 # k + 1
        BY <3>4
      <4>2. f[i] = Rest(f, i)
        BY <2>2, <4>1
      <4>3. g[i - 1] = f[i - 1] /\ g[i] = f[i]
        BY <3>4, <4>1
      <4> HIDE DEF g
      <4>4. QED BY <3>4, <4>2, <4>3
    <3>5. QED BY <3>1, <3>2, <3>3, <3>4
  <2>4. g = [i \in 1..(k + 1) |-> g[i]]
    OBVIOUS
  <2>5. Flat(g, k + 1)
    <3> HIDE DEF g, Rest
    <3>1. QED BY <2>3, <2>4
  <2>6. QED
    <3> HIDE DEF g, Flat
    <3>1. QED BY <2>5
<1>4. \E f : Flat(f, n)
  <2>1. n \in K
    <3> HIDE DEF K, n
    <3>1. QED BY <1>1, <1>2, <1>3, Induction
  <2> HIDE DEF Flat, n
  <2>2. QED BY <1>1, <2>1
<1> DEFINE flatten == CHOOSE f : Flat(f, n)
<1>5. Flat(flatten, n)
  <2> HIDE DEF Flat
  <2>1. QED BY <1>4
<1>6. FlattenSeq(ls) = flatten[n]
  <2>1. n # 0
    BY <1>1
  <2>2. QED BY <2>1, Zenon DEF FlattenSeq
<1> HIDE DEF flatten
<1> DEFINE J == {k \in Nat : k + 1 <= n => flatten[k + 1] \in Lines}
<1>7. 0 \in J
  <2>1. 1 \in 1..n /\ flatten[1] = ls[1]
    BY <1>1, <1>5
  <2> HIDE DEF n
  <2>2. QED BY <1>1, <2>1
<1>8. ASSUME NEW k \in Nat, k \in J PROVE k + 1 \in J
  <2>1. SUFFICES ASSUME (k + 1) + 1 <= n PROVE flatten[(k + 1) + 1] \in Lines
    OBVIOUS
  <2>2. (k + 1) + 1 \in 1..n /\ (k + 1) + 1 # 1 /\ ((k + 1) + 1) - 1 = k + 1 /\ k + 1 <= n
    BY <1>1, <2>1
  <2>3. flatten[(k + 1) + 1] = flatten[k + 1] \o ls[(k + 1) + 1]
    BY <1>5, <2>2
  <2>4. flatten[k + 1] \in Lines /\ ls[(k + 1) + 1] \in Lines
    BY <1>1, <1>8, <2>2
  <2>5. ASSUME NEW a \in Lines, NEW b \in Lines PROVE a \o b \in Lines
    <3>1. a \in Seq(Tokens) /\ b \in Seq(Tokens) /\ b # <<>> /\ b[Len(b)] = NL
      BY DEF Lines, Last
    <3>2. Len(b) \in Nat /\ Len(b) > 0 /\ Len(a) \in Nat
      BY <3>1
    <3>3. a \o b \in Seq(Tokens) /\ Len(a \o b) = Len(a) + Len(b) /\ (a \o b)[Len(a) + Len(b)] = b[Len(b)]
      BY <3>1, <3>2
    <3>4. a \o b # <<>>
      BY <3>2, <3>3
    <3>5. QED BY <3>1, <3>3, <3>4 DEF Lines, Last
  <2>6. QED BY <2>3, <2>4, <2>5
<1>9. n - 1 \in J
  <2> HIDE DEF J, n
  <2>1. n - 1 \in Nat
    BY <1>1
  <2>2. QED BY <1>7, <1>8, <2>1, Induction
<1>10. flatten[n] \in Lines
  <2> HIDE DEF n
  <2>1. (n - 1) + 1 = n /\ n <= n
    BY <1>1
  <2>2. QED BY <1>9, <2>1
<1>11. QED BY <1>6, <1>10

(* A buffer that is empty is filled, if anything is left to fill it with. *)
LEMMA FilledBuffer ==
  ASSUME NEW u \in Unread, NEW ty \in Seq(Lines), NEW tok, NEW val
  PROVE  \E fu \in Unread, fty \in Seq(Lines) :
           /\ Filled(St(u, ty, tok, val)) = St(fu, fty, tok, val)
           /\ u # <<>> => fu = u /\ fty = ty
           /\ fu = <<>> => fty = <<>>
           /\ u = <<>> /\ fu # <<>> => Len(fty) < Len(ty)
<1> DEFINE s == St(u, ty, tok, val)
<1>1. s.unread = u /\ s.typed = ty
  BY DEF St
<1>2. CASE u # <<>> \/ ty = <<>>
  <2>1. Filled(s) = s
    BY <1>1, <1>2 DEF Filled
  <2>2. QED BY <1>2, <2>1
<1>3. CASE u = <<>> /\ ty # <<>> /\ interactive
  <2>1. Filled(s) = [[s EXCEPT !.unread = Head(s.typed)] EXCEPT !.typed = Tail(s.typed)]
    BY <1>1, <1>3 DEF Filled, YY_INPUT
  <2>2. Filled(s) = St(Head(ty), Tail(ty), tok, val)
    BY <1>1, <2>1 DEF St
  <2>3. Head(ty) \in Lines /\ Tail(ty) \in Seq(Lines) /\ Len(Tail(ty)) < Len(ty)
    BY <1>3
  <2>4. Head(ty) \in Unread /\ Head(ty) # <<>>
    BY <2>3 DEF Unread, Lines
  <2>5. QED BY <1>3, <2>2, <2>3, <2>4
<1>4. CASE u = <<>> /\ ty # <<>> /\ ~ interactive
  <2>1. Filled(s) = [[s EXCEPT !.unread = FlattenSeq(s.typed)] EXCEPT !.typed = <<>>]
    BY <1>1, <1>4 DEF Filled, YY_INPUT
  <2>2. Filled(s) = St(FlattenSeq(ty), <<>>, tok, val)
    BY <1>1, <2>1 DEF St
  <2>3. FlattenSeq(ty) \in Lines
    BY <1>4, FlattenedIsUnread
  <2>4. FlattenSeq(ty) \in Unread /\ FlattenSeq(ty) # <<>> /\ <<>> \in Seq(Lines) /\ Len(<<>>) < Len(ty)
    BY <1>4, <2>3 DEF Unread, Lines
  <2>5. QED BY <1>4, <2>2, <2>4
<1>5. QED BY <1>2, <1>3, <1>4

LEMMA FilledLine ==
  ASSUME NEW u \in Lines, NEW ty, NEW tok, NEW val
  PROVE  Filled(St(u, ty, tok, val)) = St(u, ty, tok, val)
<1>1. u # <<>>
  BY DEF Lines
<1>2. QED BY <1>1 DEF Filled, St

(* The next token of a buffer that is not empty. *)
LEMMA TokenRead ==
  ASSUME NEW s, NEW u \in Lines, NEW ty, NEW tok, NEW val, Filled(s) = St(u, ty, tok, val)
  PROVE  read_token(s) = St(Tail(u), ty, u[1], IF u[1].t = "NL" THEN val ELSE u[1].v)
<1>1. u # <<>> /\ Head(u) = u[1]
  BY DEF Lines
<1> DEFINE v == Value(<<Head(u)>>, val)
           f == St(u, ty, tok, val)
<1>2. v = IF u[1].t = "NL" THEN val ELSE u[1].v
  <2> DEFINE x == u[1]
             l == <<x>>
             S == {k \in DOMAIN l : l[k].t # "NL"}
  <2>1. v = IF S = {} THEN val ELSE l[Max(S)].v
    BY <1>1 DEF Value
  <2>2. DOMAIN l = 1..1 /\ l[1] = x
    OBVIOUS
  <2> HIDE DEF x, l, v
  <2>3. CASE x.t = "NL"
    <3>1. S = {}
      BY <2>2, <2>3
    <3>2. QED BY <2>1, <2>3, <3>1 DEF x
  <2>4. CASE x.t # "NL"
    <3>1. 1 \in S /\ S \subseteq 1..1 /\ S # {} /\ 1 \in Nat
      BY <2>2, <2>4
    <3> HIDE DEF S
    <3>2. Max(S) = 1
      BY <3>1, MaxIsLast
    <3>3. QED BY <2>1, <2>2, <2>4, <3>1, <3>2 DEF x
  <2>5. QED BY <2>3, <2>4
<1>3. f.unread = u /\ f.value = val
  BY DEF St
<1>4. read_token(s) = [f EXCEPT !.unread = Tail(@), !.token = Head(u), !.value = v]
  <2> DEFINE g == Filled(s)
             h == Head(g.unread)
             w == Value(<<h>>, g.value)
  <2>1. g = f
    OBVIOUS
  <2> HIDE DEF f
  <2>2. g.unread # <<>> /\ h = Head(u) /\ w = v
    BY <1>1, <1>3, <2>1
  <2>3. read_token(s) = [g EXCEPT !.unread = Tail(@), !.token = h, !.value = w]
    BY <2>2, Zenon DEF read_token
  <2> HIDE DEF g, h, w, v
  <2>4. QED BY <2>1, <2>2, <2>3, Zenon
<1>5. [f EXCEPT !.unread = Tail(@), !.token = Head(u), !.value = v] = St(Tail(u), ty, Head(u), v)
  <2> DEFINE x == Tail(u)
             h == Head(u)
             b == St(x, ty, tok, val)
             c == St(x, ty, h, val)
  <2> HIDE DEF v
  <2>1. [f EXCEPT !.unread = x] = b
    <3> HIDE DEF x
    <3>1. QED BY DEF St
  <2>2. [b EXCEPT !.token = h] = c
    <3> HIDE DEF x, h
    <3>1. QED BY DEF St
  <2>3. [c EXCEPT !.value = v] = St(x, ty, h, v)
    <3> HIDE DEF x, h
    <3>1. QED BY DEF St
  <2> HIDE DEF f, b, c
  <2>4. QED BY <1>3, <2>1, <2>2, <2>3, Zenon
<1>6. QED BY <1>1, <1>2, <1>4, <1>5

LEMMA NoTokenRead ==
  ASSUME NEW s, NEW ty, NEW tok, NEW val, Filled(s) = St(<<>>, ty, tok, val)
  PROVE  /\ read_token(s).token = End
         /\ Line(s) = <<>>
         /\ flush_to_newline(s).token = End
<1>1. Filled(s).unread = <<>>
  BY DEF St
<1>2. Line(s) = <<>>
  BY <1>1 DEF Line
<1>3. Filled(s) = [Filled(s) EXCEPT !.token = tok]
  BY DEF St
<1>4. [Filled(s) EXCEPT !.token = End].token = End
  BY DEF St
<1>5. QED BY <1>1, <1>2, <1>4 DEF read_token, flush_to_newline

(* Only NL ends a line. *)
LEMMA TokenKinds ==
  ASSUME NEW tok \in Tokens
  PROVE  tok = NL \/ tok.t \notin {"NL", "EOF"}
<1>1. PICK use \in Uses : \E line \in Range(use.lines) : tok \in Range(line)
  BY DEF Tokens
<1>2. PICK line : IsLine(line) /\ tok \in Range(line)
  BY <1>1, InputAssumption
<1>3. PICK k \in DOMAIN line : tok = line[k]
  BY <1>2 DEF Range
<1>4. Len(line) \in Nat /\ k \in 1..Len(line) /\ (k \in 1..(Len(line) - 1) \/ k = Len(line))
  <2>1. line \in Seq(Range(line))
    BY <1>2 DEF IsLine
  <2> DEFINE n == Len(line)
  <2>2. n \in Nat /\ k \in 1..n
    BY <2>1, <1>3
  <2> HIDE DEF n
  <2>3. k \in 1..(n - 1) \/ k = n
    BY <2>2
  <2>4. QED BY <2>2, <2>3 DEF n
<1>5. QED BY <1>2, <1>3, <1>4 DEF IsLine, Last

LEMMA FirstNewline ==
  ASSUME NEW w \in Lines
  PROVE  \E m \in 1..Len(w) : w[m] = NL /\ \A j \in 1..(m - 1) : w[j] # NL
<1> DEFINE n == Len(w)
           S == {m \in 1..n : w[m] = NL}
<1>1. n \in Nat /\ n >= 1 /\ w[n] = NL
  BY DEF Lines, Last
<1> HIDE DEF n
<1>2. n \in S
  BY <1>1
<1>3. PICK m \in S : \A k \in S : m <= k
  <2>1. S \subseteq Nat
    BY <1>1
  <2>2. QED BY <1>2, <2>1, LeastElement
<1>4. ASSUME NEW j \in 1..(m - 1), w[j] = NL PROVE FALSE
  <2>1. j \in 1..n /\ ~(m <= j)
    BY <1>1, <1>3
  <2>2. QED BY <1>3, <1>4, <2>1
<1>5. QED BY <1>3, <1>4 DEF n

(* The line a buffer begins with, and what is read of it. *)
LEMMA LineRead ==
  ASSUME NEW s, NEW w \in Lines, NEW ty, NEW tok, NEW val, Filled(s) = St(w, ty, tok, val),
         NEW m \in 1..Len(w), w[m] = NL, \A j \in 1..(m - 1) : w[j] # NL
  PROVE  /\ Line(s) = SubSeq(w, 1, m)
         /\ SubSeq(w, m + 1, Len(w)) \in Unread
         /\ flush_to_newline(s)
              = St(SubSeq(w, m + 1, Len(w)), ty, NL, IF m = 1 THEN val ELSE w[m - 1].v)
<1> DEFINE n == Len(w)
           line == SubSeq(w, 1, m)
           rest == SubSeq(w, m + 1, n)
<1>1. w \in Seq(Tokens) /\ w # <<>> /\ n \in Nat /\ n >= 1 /\ w[n] = NL /\ DOMAIN w = 1..n /\ m \in 1..n
  BY DEF Lines, Last
<1>2. Line(s) = line
  <2> DEFINE new == CHOOSE k \in DOMAIN w : w[k] = NL /\ \A j \in 1..(k - 1) : w[j] # NL
  <2>1. Filled(s).unread = w
    BY DEF St
  <2>2. Line(s) = SubSeq(w, 1, new)
    BY <1>1, <2>1, Zenon DEF Line
  <2>3. new \in 1..n /\ w[new] = NL /\ \A j \in 1..(new - 1) : w[j] # NL
    BY <1>1
  <2> HIDE DEF new, n
  <2>4. ~(new < m)
    <3>1. SUFFICES ASSUME new < m PROVE FALSE
      OBVIOUS
    <3>2. new \in 1..(m - 1)
      BY <1>1, <2>3, <3>1
    <3>3. QED BY <2>3, <3>2
  <2>5. ~(m < new)
    <3>1. SUFFICES ASSUME m < new PROVE FALSE
      OBVIOUS
    <3>2. m \in 1..(new - 1)
      BY <1>1, <2>3, <3>1
    <3>3. QED BY <2>3, <3>2
  <2>6. new = m
    BY <1>1, <2>3, <2>4, <2>5
  <2>7. QED BY <2>2, <2>6
<1>3. rest \in Unread
  <2>1. CASE m = n
    <3>1. rest = <<>>
      BY <1>1, <2>1
    <3>2. QED BY <3>1 DEF Unread
  <2>2. CASE m # n
    <3>1. rest \in Seq(Tokens) /\ Len(rest) = n - m /\ \A k \in 1..(n - m) : rest[k] = w[m + k]
      <4> HIDE DEF n
      <4>1. m + 1 \in Nat /\ m + 1 <= n /\ m + 1 >= 1
        BY <1>1, <2>2
      <4>2. \A k \in (m + 1)..n : w[k] \in Tokens
        BY <1>1, <4>1 DEF n
      <4>3. rest = [k \in 1..(n - m) |-> w[m + k]]
        <5>1. SubSeq(w, m + 1, n) = [k \in 1..((n - (m + 1)) + 1) |-> w[(k + (m + 1)) - 1]]
          BY <1>1, <4>1
        <5>2. (n - (m + 1)) + 1 = n - m /\ \A k \in 1..(n - m) : (k + (m + 1)) - 1 = m + k
          BY <1>1, <4>1
        <5>3. QED BY <5>1, <5>2
      <4>4. n - m \in Nat /\ \A k \in 1..(n - m) : m + k \in (m + 1)..n
        BY <1>1, <4>1
      <4> HIDE DEF rest
      <4>5. QED BY <4>2, <4>3, <4>4
    <3> HIDE DEF n, rest
    <3>2. n - m \in 1..(n - m) /\ m + (n - m) = n
      BY <1>1, <2>2
    <3>3. rest[n - m] = NL
      BY <1>1, <3>1, <3>2
    <3>4. rest # <<>> /\ rest[Len(rest)] = NL
      BY <1>1, <2>2, <3>1, <3>3
    <3>5. QED BY <3>1, <3>4 DEF Unread, Lines, Last
  <2>3. QED BY <2>1, <2>2
<1>4. line \in Seq(Tokens) /\ Len(line) = m /\ DOMAIN line = 1..m /\ \A k \in 1..m : line[k] = w[k]
  BY <1>1
<1> DEFINE v == Value(line, val)
<1>5. v = IF m = 1 THEN val ELSE w[m - 1].v
  <2> DEFINE S == {k \in DOMAIN line : line[k].t # "NL"}
  <2>1. v = IF S = {} THEN val ELSE line[Max(S)].v
    BY DEF Value
  <2>2. m \in Nat /\ m >= 1
    BY <1>1
  <2> HIDE DEF line, v, n
  <2>3. ASSUME NEW k \in 1..(m - 1) PROVE k \in 1..m /\ line[k].t # "NL"
    <3>1. k \in 1..m /\ k \in 1..n
      BY <1>1
    <3>2. w[k] \in Tokens /\ w[k] # NL /\ line[k] = w[k]
      BY <1>1, <1>4, <3>1
    <3>3. QED BY <3>1, <3>2, TokenKinds
  <2>4. line[m].t = "NL"
    <3>1. m \in 1..m
      BY <2>2
    <3>2. line[m] = NL
      BY <1>4, <3>1
    <3>3. NL.t = "NL"
      BY DEF NL
    <3>4. QED BY <3>2, <3>3
  <2>5. S = 1..(m - 1)
    BY <1>4, <2>2, <2>3, <2>4
  <2> HIDE DEF S
  <2>6. CASE m = 1
    BY <2>1, <2>5, <2>6
  <2>7. CASE m # 1
    <3>1. m - 1 \in Nat /\ m - 1 \in S /\ S \subseteq 1..(m - 1) /\ m - 1 \in 1..m
      BY <2>2, <2>5, <2>7
    <3>2. Max(S) = m - 1
      BY <3>1, MaxIsLast
    <3>3. line[m - 1] = w[m - 1]
      BY <1>4, <3>1
    <3>4. QED BY <2>1, <2>7, <3>1, <3>2, <3>3
  <2>8. QED BY <2>6, <2>7
<1>6. flush_to_newline(s) = St(rest, ty, NL, v)
  <2> DEFINE f == St(w, ty, tok, val)
             b == St(rest, ty, tok, val)
             c == St(rest, ty, NL, val)
             g == Filled(s)
  <2>1. g = f /\ f.unread = w /\ f.value = val
    BY DEF St
  <2>2. line # <<>>
    <3> HIDE DEF line
    <3>1. QED BY <1>4
  <2>3. Line(s) # <<>> /\ Len(Line(s)) = m /\ Len(g.unread) = n /\ Value(Line(s), g.value) = v
    BY <1>2, <1>4, <2>1, <2>2
  <2>4. [f EXCEPT !.unread = rest] = b
    <3> HIDE DEF rest
    <3>1. QED BY DEF St
  <2>5. [b EXCEPT !.token = NL] = c
    <3> HIDE DEF rest
    <3>1. QED BY DEF St
  <2>6. [c EXCEPT !.value = v] = St(rest, ty, NL, v)
    <3> HIDE DEF rest, v
    <3>1. QED BY DEF St
  <2> DEFINE l == Line(s)
             r == SubSeq(g.unread, Len(l) + 1, Len(g.unread))
             x == Value(l, g.value)
  <2>7. flush_to_newline(s) = [g EXCEPT !.unread = r, !.token = NL, !.value = x]
    BY <2>3, Zenon DEF flush_to_newline
  <2>8. r = rest /\ x = v
    BY <2>1, <2>3
  <2> HIDE DEF f, b, c, g, r, x, rest, v
  <2>9. QED BY <2>1, <2>4, <2>5, <2>6, <2>7, <2>8, Zenon
<1>7. QED BY <1>2, <1>3, <1>5, <1>6

(* Reading on never comes back to where it began. *)
LEMMA ReadingMoves ==
  ASSUME NEW u \in Unread, NEW ty \in Seq(Lines), NEW tok, NEW val, NEW v
  PROVE  flush_to_newline(St(u, ty, tok, val)) # St(u, ty, NL, v)
<1> DEFINE s == St(u, ty, tok, val)
<1>1. PICK fu \in Unread, fty \in Seq(Lines) :
         /\ Filled(s) = St(fu, fty, tok, val)
         /\ u # <<>> => fu = u /\ fty = ty
         /\ u = <<>> /\ fu # <<>> => Len(fty) < Len(ty)
  BY FilledBuffer
<1> HIDE DEF s
<1>2. CASE fu = <<>>
  <2>1. flush_to_newline(s).token = End
    BY <1>1, <1>2, NoTokenRead
  <2>2. St(u, ty, NL, v).token = NL /\ NL # End
    BY DEF St, NL, End
  <2>3. QED BY <2>1, <2>2 DEF s
<1>3. CASE fu # <<>>
  <2>1. fu \in Lines
    BY <1>3 DEF Unread
  <2>2. PICK m \in 1..Len(fu) : fu[m] = NL /\ \A j \in 1..(m - 1) : fu[j] # NL
    BY <2>1, FirstNewline
  <2> DEFINE rest == SubSeq(fu, m + 1, Len(fu))
             x == IF m = 1 THEN val ELSE fu[m - 1].v
  <2>3. flush_to_newline(s) = St(rest, fty, NL, x)
    BY <1>1, <2>1, <2>2, LineRead
  <2>4. fu \in Seq(Tokens) /\ Len(fu) \in Nat /\ Len(rest) < Len(fu)
    BY <2>1 DEF Lines
  <2> HIDE DEF rest, x
  <2>5. St(rest, fty, NL, x).unread = rest /\ St(rest, fty, NL, x).typed = fty
    BY DEF St
  <2>6. St(u, ty, NL, v).unread = u /\ St(u, ty, NL, v).typed = ty
    BY DEF St
  <2>7. rest = u /\ fty = ty => FALSE
    BY <1>1, <1>3, <2>4
  <2>8. QED BY <2>3, <2>5, <2>6, <2>7 DEF s
<1>4. QED BY <1>2, <1>3

(* What is behind the first token, and behind the next ones. *)
LEMMA SequenceTail ==
  ASSUME NEW T, NEW x \in Seq(T), NEW n, n = Len(x), n >= 1
  PROVE  /\ n \in Nat /\ Tail(x) \in Seq(T) /\ Len(Tail(x)) = n - 1
         /\ \A k \in 1..(n - 1) : Tail(x)[k] = x[k + 1]
         /\ Tail(x) = SubSeq(x, 2, n)
         /\ \A k \in 1..n : SubSeq(Tail(x), k, n - 1) = SubSeq(x, k + 1, n)
<1>1. n \in Nat /\ x # <<>>
  OBVIOUS
<1>2. Tail(x) \in Seq(T) /\ Len(Tail(x)) = n - 1 /\ \A k \in 1..(n - 1) : Tail(x)[k] = x[k + 1]
  BY <1>1
<1>3. \A k \in Nat, l \in Nat : SubSeq(x, k, l) = [i \in 1..((l - k) + 1) |-> x[(i + k) - 1]]
  OBVIOUS
<1> DEFINE t == Tail(x)
<1>4. t = [i \in 1..(n - 1) |-> x[i + 1]]
  <2> HIDE DEF t
  <2>1. t \in Seq(T) /\ Len(t) = n - 1 /\ \A k \in 1..(n - 1) : t[k] = x[k + 1]
    BY <1>2 DEF t
  <2>2. t = [i \in 1..(n - 1) |-> t[i]]
    BY <2>1
  <2>3. QED BY <2>1, <2>2
<1>5. \A k \in Nat, l \in Nat : SubSeq(t, k, l) = [i \in 1..((l - k) + 1) |-> t[(i + k) - 1]]
  <2> HIDE DEF t
  <2>1. QED OBVIOUS
<1>6. t = SubSeq(x, 2, n)
  <2>1. (n - 2) + 1 = n - 1 /\ \A i \in 1..(n - 1) : (i + 2) - 1 = i + 1
    BY <1>1
  <2>2. SubSeq(x, 2, n) = [i \in 1..((n - 2) + 1) |-> x[(i + 2) - 1]]
    BY <1>1, <1>3
  <2>3. QED BY <1>4, <2>1, <2>2
<1>7. ASSUME NEW k \in 1..n PROVE SubSeq(t, k, n - 1) = SubSeq(x, k + 1, n)
  <2>1. k \in Nat /\ n - 1 \in Nat /\ k + 1 \in Nat /\ ((n - 1) - k) + 1 = n - k /\ (n - (k + 1)) + 1 = n - k
    BY <1>1
  <2>2. \A i \in 1..(n - k) : (i + k) - 1 \in 1..(n - 1) /\ ((i + k) - 1) + 1 = (i + (k + 1)) - 1
    BY <1>1
  <2>3. SubSeq(t, k, n - 1) = [i \in 1..(n - k) |-> t[(i + k) - 1]]
    BY <1>5, <2>1
  <2>4. SubSeq(x, k + 1, n) = [i \in 1..(n - k) |-> x[(i + (k + 1)) - 1]]
    BY <1>1, <1>3, <2>1
  <2> HIDE DEF t
  <2>5. \A i \in 1..(n - k) : t[(i + k) - 1] = x[(i + (k + 1)) - 1]
    BY <1>4, <2>2
  <2>6. QED BY <2>3, <2>4, <2>5
<1>8. QED BY <1>1, <1>2, <1>6, <1>7

LEMMA LineTail ==
  ASSUME NEW x \in Lines, NEW n, n = Len(x), x[1] # NL
  PROVE  /\ n \in Nat /\ n >= 2
         /\ Tail(x) \in Lines /\ Len(Tail(x)) = n - 1
         /\ \A k \in 1..(n - 1) : Tail(x)[k] = x[k + 1]
<1>1. x \in Seq(Tokens) /\ x # <<>> /\ x[n] = NL
  BY DEF Lines, Last
<1>2. n \in Nat /\ n >= 1
  BY <1>1
<1>3. n >= 2
  BY <1>1, <1>2
<1>4. /\ Tail(x) \in Seq(Tokens) /\ Len(Tail(x)) = n - 1
      /\ \A k \in 1..(n - 1) : Tail(x)[k] = x[k + 1]
  BY <1>1, <1>2, SequenceTail
<1>5. n - 1 \in 1..(n - 1) /\ (n - 1) + 1 = n
  BY <1>2, <1>3
<1>6. Tail(x)[n - 1] = NL
  BY <1>1, <1>4, <1>5
<1>7. Tail(x) # <<>>
  <2> DEFINE t == Tail(x)
  <2> HIDE DEF t
  <2>1. Len(t) >= 1
    BY <1>2, <1>3, <1>4 DEF t
  <2>2. t # <<>>
    BY <2>1
  <2>3. QED BY <2>2 DEF t
<1>8. QED BY <1>2, <1>3, <1>4, <1>6, <1>7 DEF Lines, Last

(* The scanner at the prompt. *)
LEMMA TerminalScanned ==
  ASSUME buffers \in Seq(Buffers), AtTerminal
  PROVE  /\ Terminal = St(Last(buffers).unread, typed, yytoken, yylval)
         /\ Last(buffers).unread \in Unread /\ buffers # <<>>
<1>1. buffers # <<>>
  BY DEF AtTerminal, YYIn
<1>2. Last(buffers) \in Buffers
  BY <1>1 DEF Last
<1>3. QED BY <1>1, <1>2 DEF Terminal, St, Buffers

(* A command that is read begins with a token. *)
LEMMA PromptRead ==
  ASSUME buffers \in Seq(Buffers), AtTerminal, typed \in Seq(Lines), ~redo, Behind.token # End
  PROVE  \E w \in Lines, ty \in Seq(Lines) : Filled(Terminal) = St(w, ty, yytoken, yylval)
<1>1. PICK fu \in Unread, fty \in Seq(Lines) : Filled(Terminal) = St(fu, fty, yytoken, yylval)
  BY TerminalScanned, FilledBuffer
<1>2. CASE fu = <<>>
  <2>1. Opened.token = End
    BY <1>1, <1>2, NoTokenRead DEF Opened
  <2>2. End # NL /\ End.t = "EOF"
    BY DEF End, NL
  <2>3. Command = "EOF"
    BY <2>1, <2>2, Zenon DEF Command, read_assembly_command
  <2>4. Behind = Opened
    BY <2>3 DEF Behind
  <2>5. QED BY <2>1, <2>4
<1>3. QED BY <1>1, <1>2 DEF Unread

(* The scanner behind the tokens of a line that the help text speaks of. *)
LineScanned(line, rest, ty) ==
  /\ line \in DOMAIN Meaning /\ IsLine(line) /\ Len(line) \in Nat /\ Len(line) >= 2
  /\ Told(line, Meaning[line])
  /\ Begun = <<line>>
  /\ Command = read_assembly_command(line[1]) /\ Token = line[2]
  /\ BehindCommand = flush_to_newline(Opened)
  /\ BehindCommand = St(rest, ty, NL, line[Len(line) - 1].v)
  /\ Len(line) = 2 => /\ line[2] = NL /\ BehindToken = BehindCommand
                      /\ BehindLine # BehindCommand
  /\ Len(line) > 2 => /\ line[2] # NL /\ line[2].t # "NL" /\ BehindToken.value = line[2].v
                      /\ BehindLine = BehindCommand

LEMMA MeaningScanned ==
  ASSUME NEW w \in Lines, NEW ty \in Seq(Lines), Filled(Terminal) = St(w, ty, NL, yylval),
         ~redo, yytoken = NL, Line(Terminal) \in DOMAIN Meaning
  PROVE  \E rest \in Unread : LineScanned(Line(Terminal), rest, ty)
<1> DEFINE line == Line(Terminal)
           n == Len(w)
<1>1. PICK m \in 1..n : w[m] = NL /\ \A j \in 1..(m - 1) : w[j] # NL
  BY FirstNewline
<1> DEFINE rest == SubSeq(w, m + 1, n)
<1>2. line = SubSeq(w, 1, m) /\ rest \in Unread
  BY <1>1, LineRead
<1>3. w \in Seq(Tokens) /\ n \in Nat /\ n >= 1 /\ m \in 1..n
  BY DEF Lines
<1>4. Len(line) = m /\ \A k \in 1..m : line[k] = w[k]
  BY <1>2, <1>3
<1>5. IsLine(line) /\ m >= 2 /\ Told(line, Meaning[line]) /\ line \in DOMAIN Meaning
  BY <1>4, MeaningAssumption
<1> DEFINE t == Tail(w)
           tt == Tail(t)
<1> HIDE DEF line, n
<1>6. ASSUME NEW k \in 1..(m - 1) PROVE w[k] # NL /\ w[k].t \notin {"NL", "EOF"} /\ w[k] = line[k]
  <2>1. k \in 1..n /\ k \in 1..m
    BY <1>3
  <2>2. w[k] \in Tokens
    BY <1>3, <2>1 DEF n
  <2>3. QED BY <1>1, <1>4, <2>1, <2>2, TokenKinds
<1>7. 1 \in 1..(m - 1) /\ 2 \in 1..m /\ m - 1 \in 1..(m - 1) /\ m - 1 \in 1..m /\ 1 \in 1..m
  BY <1>3, <1>5
<1>8. t \in Lines /\ Len(t) = n - 1 /\ (\A k \in 1..(n - 1) : t[k] = w[k + 1]) /\ n >= 2
  BY <1>6, <1>7, LineTail DEF n
<1>9. Opened = St(t, ty, line[1], line[1].v)
  <2>1. read_token(Terminal) = St(t, ty, w[1], IF w[1].t = "NL" THEN yylval ELSE w[1].v)
    BY TokenRead
  <2> HIDE DEF t
  <2>2. w[1].t # "NL" /\ w[1] = line[1]
    BY <1>6, <1>7
  <2>3. QED BY <2>1, <2>2 DEF Opened
<1> HIDE DEF t
<1>10. Filled(Opened) = St(t, ty, line[1], line[1].v)
  BY <1>8, <1>9, FilledLine
<1>11. m - 1 \in 1..(n - 1) /\ t[m - 1] = NL /\ \A j \in 1..((m - 1) - 1) : t[j] # NL
  <2>1. m - 1 \in 1..(n - 1) /\ (m - 1) + 1 = m
    BY <1>3, <1>5
  <2>2. t[m - 1] = NL
    BY <1>1, <1>8, <2>1
  <2>3. ASSUME NEW j \in 1..((m - 1) - 1) PROVE t[j] # NL
    <3>1. j \in 1..(n - 1) /\ j + 1 \in 1..(m - 1)
      BY <1>3, <1>5
    <3>2. QED BY <1>6, <1>8, <3>1
  <2>4. QED BY <2>1, <2>2, <2>3
<1>12. flush_to_newline(Opened)
         = St(SubSeq(t, (m - 1) + 1, n - 1), ty, NL, IF m - 1 = 1 THEN line[1].v ELSE t[(m - 1) - 1].v)
  <2> DEFINE k == m - 1
  <2> HIDE DEF rest, tt
  <2>1. k \in 1..Len(t) /\ t[k] = NL /\ \A j \in 1..(k - 1) : t[j] # NL
    BY <1>8, <1>11
  <2> HIDE DEF k
  <2>2. flush_to_newline(Opened)
          = St(SubSeq(t, k + 1, Len(t)), ty, NL, IF k = 1 THEN line[1].v ELSE t[k - 1].v)
    BY <1>8, <1>10, <2>1, LineRead
  <2>3. QED BY <1>8, <2>2 DEF k
<1>13. SubSeq(t, (m - 1) + 1, n - 1) = rest
  <2>1. (m - 1) + 1 = m /\ m \in 1..n
    BY <1>3
  <2>2. SubSeq(t, m, n - 1) = SubSeq(w, m + 1, n)
    BY <1>3, <2>1, SequenceTail DEF n, t
  <2>3. QED BY <2>1, <2>2
<1> HIDE DEF rest
<1>14. (IF m - 1 = 1 THEN line[1].v ELSE t[(m - 1) - 1].v) = line[m - 1].v
  <2>1. CASE m = 2
    BY <2>1
  <2>2. CASE m # 2
    <3>1. (m - 1) - 1 \in 1..(n - 1) /\ ((m - 1) - 1) + 1 = m - 1 /\ m - 1 # 1
      BY <1>3, <1>5, <2>2
    <3>2. t[(m - 1) - 1] = line[m - 1]
      BY <1>6, <1>7, <1>8, <3>1
    <3>3. QED BY <3>1, <3>2
  <2>3. QED BY <2>1, <2>2
<1>15. BehindCommand = flush_to_newline(Opened) /\ BehindCommand = St(rest, ty, NL, line[m - 1].v)
  BY <1>12, <1>13, <1>14 DEF BehindCommand
<1>16. read_token(Opened) = St(tt, ty, t[1], IF t[1].t = "NL" THEN line[1].v ELSE t[1].v)
  BY <1>8, <1>10, TokenRead
<1>17. t[1] = line[2]
  <2>1. 1 \in 1..(n - 1) /\ 1 + 1 = 2
    BY <1>3, <1>8
  <2>2. QED BY <1>4, <1>7, <1>8, <2>1
<1>18. Token = line[2]
  <2>1. read_token(Opened).token = t[1]
    BY <1>16 DEF St
  <2>2. QED BY <1>17, <2>1 DEF Token
<1>19. ASSUME m = 2 PROVE line[2] = NL /\ BehindToken = BehindCommand /\ BehindLine # BehindCommand
  <2>1. line[2] = NL
    BY <1>1, <1>4, <1>7, <1>19
  <2>2. NL.t = "NL"
    BY DEF NL
  <2>3. tt = rest
    <3>1. t \in Seq(Tokens) /\ n - 1 >= 1
      BY <1>3, <1>8 DEF Lines
    <3>2. tt = SubSeq(t, 2, n - 1)
      BY <1>8, <3>1, SequenceTail
    <3>3. (m - 1) + 1 = 2
      BY <1>19
    <3>4. QED BY <1>13, <3>2, <3>3
  <2>4. read_token(Opened) = St(rest, ty, NL, line[1].v)
    BY <1>16, <1>17, <2>1, <2>2, <2>3
  <2>5. BehindToken = St(rest, ty, NL, line[1].v)
    BY <2>4 DEF BehindToken
  <2>6. line[m - 1] = line[1]
    BY <1>19
  <2>7. BehindToken = BehindCommand
    BY <1>15, <2>5, <2>6
  <2>8. flush_to_newline(St(rest, ty, NL, line[1].v)) # St(rest, ty, NL, line[1].v)
    BY <1>2, ReadingMoves
  <2>9. BehindLine # BehindCommand
    BY <2>5, <2>7, <2>8 DEF BehindLine
  <2>10. QED BY <2>1, <2>7, <2>9
<1>20. ASSUME m > 2
       PROVE  /\ line[2] # NL /\ line[2].t # "NL" /\ BehindToken.value = line[2].v
              /\ BehindLine = BehindCommand
  <2>1. 2 \in 1..(m - 1)
    BY <1>3, <1>20
  <2>2. line[2] # NL /\ line[2].t # "NL"
    BY <1>6, <2>1
  <2>3. BehindToken = St(tt, ty, line[2], line[2].v)
    BY <1>16, <1>17, <2>2 DEF BehindToken
  <2>4. tt \in Lines /\ Len(tt) = (n - 1) - 1 /\ \A k \in 1..((n - 1) - 1) : tt[k] = t[k + 1]
    BY <1>8, <1>17, <2>2, LineTail
  <2>5. SubSeq(tt, (m - 2) + 1, (n - 1) - 1) = rest
    <3>1. t \in Seq(Tokens) /\ n - 1 >= 1 /\ (m - 1) \in 1..(n - 1) /\ (m - 2) + 1 = m - 1
      BY <1>3, <1>5, <1>8 DEF Lines
    <3>2. SubSeq(tt, m - 1, (n - 1) - 1) = SubSeq(t, (m - 1) + 1, n - 1)
      BY <1>8, <3>1, SequenceTail
    <3>3. QED BY <1>13, <3>1, <3>2
  <2> HIDE DEF tt
  <2>6. Filled(BehindToken) = St(tt, ty, line[2], line[2].v)
    BY <2>3, <2>4, FilledLine
  <2>7. ASSUME NEW k \in 1..(m - 2) PROVE tt[k] = w[k + 2]
    <3>1. k \in 1..((n - 1) - 1) /\ k + 1 \in 1..(n - 1) /\ (k + 1) + 1 = k + 2
      BY <1>3, <1>5
    <3>2. QED BY <1>8, <2>4, <3>1
  <2>8. m - 2 \in 1..((n - 1) - 1) /\ tt[m - 2] = NL /\ \A j \in 1..((m - 2) - 1) : tt[j] # NL
    <3>1. m - 2 \in 1..((n - 1) - 1) /\ m - 2 \in 1..(m - 2) /\ (m - 2) + 2 = m
      BY <1>3, <1>20
    <3>2. tt[m - 2] = NL
      BY <1>1, <2>7, <3>1
    <3>3. ASSUME NEW j \in 1..((m - 2) - 1) PROVE tt[j] # NL
      <4>1. j \in 1..(m - 2) /\ j + 2 \in 1..(m - 1)
        BY <1>3, <1>5
      <4>2. QED BY <1>6, <2>7, <4>1
    <3>4. QED BY <3>1, <3>2, <3>3
  <2>9. flush_to_newline(BehindToken)
          = St(SubSeq(tt, (m - 2) + 1, (n - 1) - 1), ty, NL, IF m - 2 = 1 THEN line[2].v ELSE tt[(m - 2) - 1].v)
    BY <2>4, <2>6, <2>8, LineRead
  <2>10. (IF m - 2 = 1 THEN line[2].v ELSE tt[(m - 2) - 1].v) = line[m - 1].v
    <3>1. CASE m = 3
      BY <3>1
    <3>2. CASE m # 3
      <4>1. (m - 2) - 1 \in 1..(m - 2) /\ ((m - 2) - 1) + 2 = m - 1 /\ m - 2 # 1
        BY <1>3, <1>20, <3>2
      <4>2. tt[(m - 2) - 1] = line[m - 1]
        BY <1>6, <1>7, <2>7, <4>1
      <4>3. QED BY <4>1, <4>2
    <3>3. QED BY <3>1, <3>2
  <2>11. BehindLine = BehindCommand
    BY <1>15, <2>5, <2>9, <2>10 DEF BehindLine
  <2>12. BehindToken.value = line[2].v
    BY <2>3 DEF St
  <2>13. QED BY <2>2, <2>11, <2>12
<1>21. Begun = <<line>>
  BY DEF Begun, line
<1>22. Command = read_assembly_command(line[1])
  <2>1. Opened.token = line[1]
    BY <1>9 DEF St
  <2>2. QED BY <2>1 DEF Command
<1>23. m = Len(line) /\ m \in Nat
  BY <1>3, <1>4
<1>24. LineScanned(line, rest, ty)
  BY <1>5, <1>15, <1>18, <1>19, <1>20, <1>21, <1>22, <1>23 DEF LineScanned
<1>25. QED BY <1>2, <1>24 DEF line

LEMMA ReadingMovesTwice ==
  ASSUME NEW u \in Unread, NEW ty \in Seq(Lines), NEW tok, NEW val, NEW v,
         read_token(St(u, ty, tok, val)).token = NL
  PROVE  flush_to_newline(read_token(St(u, ty, tok, val))) # St(u, ty, NL, v)
<1> DEFINE s == St(u, ty, tok, val)
           r == read_token(s)
           s2 == St(u, ty, NL, v)
<1>1. PICK fu \in Unread, fty \in Seq(Lines) :
         /\ Filled(s) = St(fu, fty, tok, val)
         /\ u # <<>> => fu = u /\ fty = ty
         /\ u = <<>> /\ fu # <<>> => Len(fty) < Len(ty)
  BY FilledBuffer
<1> HIDE DEF s
<1>2. NL # End /\ NL.t = "NL" /\ s2.token = NL /\ s2.unread = u /\ s2.typed = ty
  BY DEF NL, End, St
<1>3. fu \in Lines
  <2>1. CASE fu = <<>>
    <3>1. r.token = End
      BY <1>1, <2>1, NoTokenRead
    <3>2. QED BY <1>2, <3>1 DEF s
  <2>2. QED BY <2>1 DEF Unread
<1> DEFINE x == IF fu[1].t = "NL" THEN val ELSE fu[1].v
           tu == Tail(fu)
<1>4. r = St(tu, fty, fu[1], x)
  BY <1>1, <1>3, TokenRead
<1>5. fu \in Seq(Tokens) /\ Len(fu) \in Nat /\ Len(fu) >= 1 /\ fu # <<>>
  BY <1>3 DEF Lines
<1>6. tu \in Unread /\ Len(tu) = Len(fu) - 1
  <2>1. tu \in Seq(Tokens) /\ Len(tu) = Len(fu) - 1
    BY <1>5, SequenceTail
  <2>2. CASE tu = <<>>
    BY <2>1, <2>2 DEF Unread
  <2>3. CASE tu # <<>>
    <3>1. tu \in Seq(Tokens) /\ Len(tu) # 0
      BY <2>1, <2>3
    <3>2. Len(fu) - 1 \in 1..(Len(fu) - 1) /\ (Len(fu) - 1) + 1 = Len(fu)
      <4> DEFINE n == Len(fu)
      <4>1. n \in Nat /\ n # 1 /\ n >= 1
        BY <1>5, <2>1, <3>1
      <4> HIDE DEF n
      <4>2. n - 1 \in 1..(n - 1) /\ (n - 1) + 1 = n
        BY <4>1
      <4>3. QED BY <4>2 DEF n
    <3>3. tu[Len(fu) - 1] = fu[Len(fu)]
      BY <1>5, <3>2, SequenceTail
    <3>4. fu[Len(fu)] = NL
      BY <1>3 DEF Lines, Last
    <3> HIDE DEF tu
    <3>5. Last(tu) = NL
      BY <2>1, <3>3, <3>4 DEF Last
    <3>6. QED BY <2>1, <2>3, <3>5 DEF Unread, Lines
  <2>4. QED BY <2>2, <2>3
<1> HIDE DEF tu, x
<1>7. PICK gu \in Unread, gty \in Seq(Lines) :
         /\ Filled(r) = St(gu, gty, fu[1], x)
         /\ tu # <<>> => gu = tu /\ gty = fty
         /\ tu = <<>> /\ gu # <<>> => Len(gty) < Len(fty)
  BY <1>4, <1>6, FilledBuffer
<1> HIDE DEF r, s2
<1>8. CASE gu = <<>>
  <2>1. flush_to_newline(r).token = End
    BY <1>7, <1>8, NoTokenRead
  <2>2. QED BY <1>2, <2>1 DEF r, s, s2
<1>9. CASE gu # <<>>
  <2>1. gu \in Lines
    BY <1>9 DEF Unread
  <2>2. PICK m \in 1..Len(gu) : gu[m] = NL /\ \A j \in 1..(m - 1) : gu[j] # NL
    BY <2>1, FirstNewline
  <2> DEFINE rest == SubSeq(gu, m + 1, Len(gu))
             y == IF m = 1 THEN x ELSE gu[m - 1].v
  <2>3. flush_to_newline(r) = St(rest, gty, NL, y)
    BY <1>7, <2>1, <2>2, LineRead
  <2>4. gu \in Seq(Tokens) /\ Len(gu) \in Nat /\ Len(rest) < Len(gu)
    BY <2>1 DEF Lines
  <2> HIDE DEF rest, y
  <2>5. St(rest, gty, NL, y).unread = rest /\ St(rest, gty, NL, y).typed = gty
    BY DEF St
  <2>6. Len(ty) \in Nat /\ Len(fty) \in Nat /\ Len(gty) \in Nat /\ Len(u) \in Nat
    <3>1. u \in Seq(Tokens)
      <4>1. <<>> \in Seq(Tokens)
        OBVIOUS
      <4>2. QED BY <4>1 DEF Unread, Lines
    <3>2. QED BY <3>1
  <2>7. ASSUME rest = u, gty = ty PROVE FALSE
    <3>1. CASE u # <<>> /\ tu # <<>>
      <4>1. Len(u) < Len(u)
        BY <1>1, <1>5, <1>6, <1>7, <2>4, <2>6, <2>7, <3>1
      <4>2. QED BY <2>6, <4>1
    <3>2. CASE u # <<>> /\ tu = <<>>
      <4>1. Len(ty) < Len(ty)
        BY <1>1, <1>7, <1>9, <2>7, <3>2
      <4>2. QED BY <2>6, <4>1
    <3>3. CASE u = <<>>
      <4>1. Len(fty) < Len(ty)
        BY <1>1, <1>5, <3>3
      <4>2. gty = fty \/ Len(gty) < Len(fty)
        BY <1>7, <1>9
      <4>3. QED BY <2>6, <2>7, <4>1, <4>2
    <3>4. QED BY <3>1, <3>2, <3>3
  <2>8. QED BY <1>2, <2>3, <2>5, <2>7 DEF r, s, s2
<1>10. QED BY <1>8, <1>9

(* The scanner behind a blank line. *)
LEMMA BlankScanned ==
  ASSUME NEW w \in Lines, NEW ty \in Seq(Lines), Filled(Terminal) = St(w, ty, NL, yylval),
         ~redo, yytoken = NL, Line(Terminal) = <<NL>>
  PROVE  /\ Command = "REDO" /\ Begun = <<<<NL>>>> /\ Swallowed = <<>>
         /\ \E rest \in Unread : Opened = St(rest, ty, NL, yylval)
<1> DEFINE n == Len(w)
<1>1. PICK m \in 1..n : w[m] = NL /\ \A j \in 1..(m - 1) : w[j] # NL
  BY FirstNewline
<1> DEFINE rest == SubSeq(w, m + 1, n)
<1>2. Line(Terminal) = SubSeq(w, 1, m) /\ rest \in Unread
  BY <1>1, LineRead
<1>3. w \in Seq(Tokens) /\ n \in Nat /\ n >= 1 /\ m \in 1..n
  BY DEF Lines
<1>4. m = 1
  <2>1. Len(SubSeq(w, 1, m)) = m
    BY <1>3
  <2>2. Len(<<NL>>) = 1
    OBVIOUS
  <2>3. QED BY <1>2, <2>1, <2>2
<1>5. Tail(w) = rest
  BY <1>3, <1>4, SequenceTail
<1>6. w[1] = NL /\ NL.t = "NL"
  BY <1>1, <1>4 DEF NL
<1>7. read_token(Terminal) = St(rest, ty, NL, yylval)
  <2>1. read_token(Terminal) = St(Tail(w), ty, w[1], IF w[1].t = "NL" THEN yylval ELSE w[1].v)
    BY TokenRead
  <2>2. QED BY <1>5, <1>6, <2>1
<1> HIDE DEF rest
<1>8. Opened = St(rest, ty, NL, yylval)
  BY <1>7 DEF Opened
<1>9. Command = "REDO"
  <2>1. Opened.token = NL
    BY <1>8 DEF St
  <2>2. NL.t # "EOF" /\ NL.t # "ID"
    BY DEF NL
  <2>3. read_assembly_command(NL) = "REDO"
    BY <2>2 DEF read_assembly_command
  <2>4. QED BY <2>1, <2>3 DEF Command
<1>10. Behind = Opened
  BY <1>9 DEF Behind
<1>11. Token = NL => BehindLine # Opened
  <2>1. SUFFICES ASSUME Token = NL PROVE BehindLine # Opened
    OBVIOUS
  <2>2. read_token(St(rest, ty, NL, yylval)).token = NL
    BY <1>8, <2>1 DEF Token
  <2>3. flush_to_newline(read_token(St(rest, ty, NL, yylval))) # St(rest, ty, NL, yylval)
    BY <1>2, <2>2, ReadingMovesTwice
  <2>4. QED BY <1>8, <2>3 DEF BehindLine, BehindToken
<1>12. Swallowed = <<>>
  BY <1>10, <1>11 DEF Swallowed
<1>13. Begun = <<<<NL>>>>
  BY DEF Begun
<1>14. QED BY <1>2, <1>8, <1>9, <1>12, <1>13

(* What is heard remains a sequence. *)
LEMMA SequenceHeard ==
  ASSUME IsSequence(heard), Heard
  PROVE  IsSequence(heard')
<1>1. Begun = <<>> \/ \E x : Begun = <<x>>
  BY DEF Begun
<1>2. Swallowed = <<>> \/ \E x : Swallowed = <<x>>
  BY DEF Swallowed
<1>3. heard' = heard \o Begun \o Swallowed
  BY DEF Heard
<1>4. ASSUME NEW h, IsSequence(h), NEW more, more = <<>> \/ \E x : more = <<x>>
      PROVE  IsSequence(h \o more)
  <2>1. CASE more = <<>>
    BY <1>4, <2>1, Longer
  <2>2. ASSUME NEW x, more = <<x>> PROVE IsSequence(h \o more)
    <3>1. h \o <<x>> = Append(h, x) /\ IsSequence(Append(h, x))
      BY <1>4, Longer
    <3>2. QED BY <2>2, <3>1
  <2>3. QED BY <1>4, <2>1, <2>2
<1>5. IsSequence(heard \o Begun)
  BY <1>1, <1>4
<1>6. IsSequence((heard \o Begun) \o Swallowed)
  BY <1>2, <1>4, <1>5
<1>7. QED BY <1>3, <1>6

(* The buffer of the terminal. *)
LEMMA FrontKept ==
  ASSUME NEW T, NEW b \in Seq(T)
  PROVE  Front(b) \in Seq(T)
<1> DEFINE n == Len(b)
<1>1. n \in Nat /\ \A k \in 1..n : b[k] \in T
  OBVIOUS
<1>2. Front(b) = SubSeq(b, 1, n - 1)
  BY DEF Front
<1>3. CASE n = 0
  <2>1. b = <<>>
    BY <1>3
  <2>2. SubSeq(<<>>, 1, 0 - 1) = <<>>
    OBVIOUS
  <2>3. QED BY <1>2, <1>3, <2>1, <2>2
<1>4. CASE n # 0
  <2>1. n - 1 \in Nat /\ n - 1 <= n
    BY <1>1, <1>4
  <2> HIDE DEF n
  <2>2. \A k \in 1..(n - 1) : b[k] \in T
    BY <1>1
  <2>3. SubSeq(b, 1, n - 1) \in Seq(T)
    BY <2>1, <2>2
  <2>4. QED BY <1>2, <2>3
<1>5. QED BY <1>3, <1>4

LEMMA LastPushed ==
  ASSUME NEW T, NEW b \in Seq(T), NEW x \in T
  PROVE  Append(b, x) \in Seq(T) /\ Append(b, x) # <<>> /\ Last(Append(b, x)) = x
BY DEF Last

LEMMA FrontOfAppend ==
  ASSUME NEW h, IsSequence(h), NEW x
  PROVE  Front(Append(h, x)) = h
<1> DEFINE a == Append(h, x)
           n == Len(h)
<1>1. /\ n \in Nat /\ IsSequence(a) /\ Len(a) = n + 1 /\ DOMAIN h = 1..n
      /\ \A k \in 1..n : a[k] = h[k]
  BY Longer
<1>2. Front(a) = SubSeq(a, 1, n)
  BY <1>1 DEF Front
<1>3. h = [k \in 1..n |-> h[k]]
  BY <1>1 DEF IsSequence
<1> HIDE DEF a, n
<1>4. SubSeq(a, 1, n) = [k \in 1..n |-> a[k]]
  <2>1. (n - 1) + 1 = n /\ \A k \in 1..n : (k + 1) - 1 = k
    BY <1>1
  <2>2. SubSeq(a, 1, n) = [k \in 1..((n - 1) + 1) |-> a[(k + 1) - 1]]
    BY <1>1 DEF IsSequence
  <2>3. QED BY <2>1, <2>2
<1>5. QED BY <1>1, <1>2, <1>3, <1>4 DEF a

LEMMA TerminalKept ==
  ASSUME buffers \in Seq(Buffers), NEW rest \in Unread
  PROVE  LET new == Append(Front(buffers), [file |-> "terminal", unread |-> rest])
         IN  new \in Seq(Buffers) /\ YYIn(new) = "terminal"
<1> DEFINE x == [file |-> "terminal", unread |-> rest]
<1>1. x \in Buffers /\ x.file = "terminal"
  BY DEF Buffers
<1> HIDE DEF x
<1>2. /\ Append(Front(buffers), x) \in Seq(Buffers) /\ Append(Front(buffers), x) # <<>>
      /\ Last(Append(Front(buffers), x)) = x
  BY <1>1, FrontKept, LastPushed
<1>3. QED BY <1>1, <1>2 DEF YYIn, x

LEMMA ScannerInitialized ==
  ASSUME NEW bufs \in Seq(Buffers), NEW file \in Existing \cup {"terminal"}
  PROVE  /\ initialize_scanner(bufs, file) \in Seq(Buffers)
         /\ YYIn(initialize_scanner(bufs, file)) = file
<1> DEFINE x == Emptied(file)
<1>1. x \in Buffers /\ x.file = file
  BY DEF Buffers, Emptied, Unread
<1> HIDE DEF x
<1>2. \A b \in Seq(Buffers) : /\ Append(b, x) \in Seq(Buffers) /\ Append(b, x) # <<>>
                              /\ Last(Append(b, x)) = x
  BY <1>1, LastPushed
<1>3. \A b \in Seq(Buffers) : Append(b, x) \in Seq(Buffers) /\ YYIn(Append(b, x)) = file
  BY <1>1, <1>2 DEF YYIn
<1>4. initialize_scanner(bufs, file) = Append(bufs, x) \/ initialize_scanner(bufs, file) = Append(Front(bufs), x)
  BY DEF initialize_scanner, push_scanner, x
<1>5. QED BY <1>3, <1>4, FrontKept

LEMMA WorldScanned ==
  ASSUME NEW bufs \in Seq(Buffers), NEW set, ReadHandler(set)
  PROVE  /\ ScannerOfWorld(bufs, set) \in Seq(Buffers) /\ YYIn(ScannerOfWorld(bufs, set)) = "terminal"
         /\ Handler(set) \in Seq(Existing)
<1>1. Handler(set) = <<>> \/ \E name : Handler(set) = <<name>>
  BY DEF Handler
<1>2. Handler(set) = <<>> \/ \E name \in Existing : Handler(set) = <<name>>
  <2>1. ASSUME NEW name, Handler(set) = <<name>> PROVE name \in Existing
    <3>1. name \in Range(<<name>>)
      <4>1. 1 \in DOMAIN <<name>> /\ <<name>>[1] = name
        OBVIOUS
      <4>2. QED BY <4>1, Zenon DEF Range
    <3>2. QED BY <2>1, <3>1 DEF ReadHandler
  <2>2. QED BY <1>1, <2>1
<1> DEFINE items == Append(Handler(set), "terminal")
<1>3. CASE Handler(set) = <<>>
  <2>1. DOMAIN items = 1..1 /\ 1 \in Nat /\ items[1] = "terminal"
    BY <1>3
  <2> HIDE DEF items
  <2>2. PICK st : InitializedOneByOne(st, bufs, items, 1)
    BY <2>1, ScannersFolded
  <2>3. st[1] = ScannerOfWorld(bufs, set)
    BY <2>2, Zenon DEF InitializedOneByOne, ScannerOfWorld, items
  <2>4. st[0] = bufs /\ \A k \in 1..1 : st[k] = initialize_scanner(st[k - 1], items[k])
    BY <2>2, Zenon DEF InitializedOneByOne
  <2>5. st[1] = initialize_scanner(bufs, "terminal")
    BY <2>1, <2>4
  <2>6. QED BY <1>3, <2>3, <2>5, ScannerInitialized
<1>4. ASSUME NEW name \in Existing, Handler(set) = <<name>>
      PROVE  /\ ScannerOfWorld(bufs, set) \in Seq(Buffers) /\ YYIn(ScannerOfWorld(bufs, set)) = "terminal"
             /\ Handler(set) \in Seq(Existing)
  <2>1. DOMAIN items = 1..2 /\ 2 \in Nat /\ items[1] = name /\ items[2] = "terminal"
    BY <1>4
  <2> HIDE DEF items
  <2>2. PICK st : InitializedOneByOne(st, bufs, items, 2)
    BY <2>1, ScannersFolded
  <2>3. st[2] = ScannerOfWorld(bufs, set)
    BY <2>2, Zenon DEF InitializedOneByOne, ScannerOfWorld, items
  <2>4. st[0] = bufs /\ \A k \in 1..2 : st[k] = initialize_scanner(st[k - 1], items[k])
    BY <2>2, Zenon DEF InitializedOneByOne
  <2>5. st[1] = initialize_scanner(bufs, name) /\ st[2] = initialize_scanner(st[1], "terminal")
    BY <2>1, <2>4
  <2>6. st[1] \in Seq(Buffers)
    BY <2>5, ScannerInitialized
  <2>7. QED BY <1>4, <2>3, <2>5, <2>6, ScannerInitialized
<1>5. QED BY <1>2, <1>3, <1>4

LEMMA AddressFound ==
  ASSUME NEW fs \in Seq(Existing), NEW name
  PROVE  /\ AddressIn(fs, name) \in Nat
         /\ \A a : a # 0 /\ (\A f \in Existing : \A def \in Labels[f] : def[1] = name => def[2] # a)
              => AddressIn(fs, name) # a
<1> DEFINE defined == {def \in UNION {Labels[f] : f \in Range(fs)} : def[1] = name}
<1>1. Range(fs) \subseteq Existing
  BY DEF Range
<1>2. ASSUME NEW def \in defined PROVE def[1] = name /\ \E f \in Existing : def \in Labels[f]
  BY <1>1
<1> DEFINE found == CHOOSE def \in defined : TRUE
<1>3. AddressIn(fs, name) = IF defined = {} THEN 0 ELSE found[2]
  BY Zenon DEF AddressIn
<1>4. defined # {} => found \in defined
  OBVIOUS
<1> HIDE DEF defined, found
<1>5. CASE defined = {}
  BY <1>3, <1>5
<1>6. CASE defined # {}
  <2>1. found[1] = name /\ (\E f \in Existing : found \in Labels[f]) /\ AddressIn(fs, name) = found[2]
    BY <1>2, <1>3, <1>4, <1>6
  <2>2. found[2] \in Nat
    BY <2>1, InputAssumption
  <2>3. QED BY <2>1, <2>2
<1>7. QED BY <1>5, <1>6

LEMMA AddressOfSymbol ==
  /\ \A name : find_symbol_address(name) = AddressIn(files, name)
  /\ starting_address = Start(files)
BY Zenon DEF find_symbol_address, AddressIn, starting_address, Start

(* A command that reads its line, and no more. *)
LEMMA LineConsumed ==
  ASSUME NEW line, NEW rest \in Unread, NEW ty \in Seq(Lines), LineScanned(line, rest, ty),
         buffers \in Seq(Buffers), IsSequence(heard), Behind = BehindCommand,
         NEW v, NEW s, s.unread = rest, s.typed = ty, s.token = NL, s.value = v, Scanned(s)
  PROVE  /\ buffers' \in Seq(Buffers) /\ AtTerminal' /\ typed' = ty /\ yytoken' = NL
         /\ yylval' = v /\ heard' = Append(heard, line)
<1>1. Swallowed = <<>>
  <2>1. CASE Len(line) = 2
    BY <2>1 DEF LineScanned, Swallowed
  <2>2. CASE Len(line) # 2
    <3>1. Len(line) > 2
      <4> DEFINE n == Len(line)
      <4>1. n \in Nat /\ n >= 2 /\ n # 2
        BY <2>2 DEF LineScanned
      <4> HIDE DEF n
      <4>2. n > 2
        BY <4>1
      <4>3. QED BY <4>2 DEF n
    <3>2. Token # NL
      BY <3>1 DEF LineScanned
    <3>3. QED BY <3>2 DEF Swallowed
  <2>3. QED BY <2>1, <2>2
<1>2. heard' = (heard \o <<line>>) \o <<>>
  BY <1>1 DEF Scanned, Heard, LineScanned
<1>3. heard \o <<line>> = Append(heard, line) /\ IsSequence(Append(heard, line))
  BY Longer
<1>4. heard' = Append(heard, line)
  BY <1>2, <1>3, Longer
<1>5. buffers' = Append(Front(buffers), [file |-> "terminal", unread |-> rest])
  BY DEF Scanned
<1>6. buffers' \in Seq(Buffers) /\ YYIn(buffers') = "terminal"
  BY <1>5, TerminalKept
<1>7. QED BY <1>4, <1>6 DEF Scanned, AtTerminal

(* The same for the scanner behind the line as it is. *)
LEMMA LineTaken ==
  ASSUME NEW line, NEW rest \in Unread, NEW ty \in Seq(Lines), LineScanned(line, rest, ty),
         buffers \in Seq(Buffers), IsSequence(heard), Behind = BehindCommand, Scanned(BehindCommand)
  PROVE  /\ buffers' \in Seq(Buffers) /\ AtTerminal' /\ typed' \in Seq(Lines) /\ yytoken' = NL
         /\ yylval' = line[Len(line) - 1].v /\ heard' = Append(heard, line)
<1> DEFINE v == line[Len(line) - 1].v
           s == BehindCommand
<1>1. s = St(rest, ty, NL, v)
  BY DEF LineScanned
<1> HIDE DEF v, s
<1>2. s.unread = rest /\ s.typed = ty /\ s.token = NL /\ s.value = v
  BY <1>1 DEF St
<1>3. Scanned(s)
  BY DEF s
<1>4. QED BY <1>2, <1>3, LineConsumed DEF v

(* What the commands promise of a line that the help text speaks of. *)
LineAnswered(line, cmd) ==
  /\ heard' = Append(heard, line) /\ effects' = Append(effects, Meaning[line])
  /\ typed' \in Seq(Lines) /\ yytoken' = NL /\ ~redo'
  /\ buffers' \in Seq(Buffers) /\ AtTerminal' /\ files' \in Seq(Existing) /\ settings' = settings
  /\ DOMAIN static' = DOMAIN static
  /\ Meaning[line][1] \notin NotRepeated
       => Ready(IF Meaning[line][1] \in Final THEN <<>> ELSE Meaning[line],
                cmd, static', prev_token', yylval', files')
  /\ \/ status' = "prompt" /\ job' = job /\ (prev_cmd' = cmd \/ Meaning[line][1] \in NotRepeated)
     \/ status' \in Live /\ job' = cmd /\ cmd \in {"RUN", "STEP"}

LEMMA LineSaid ==
  ASSUME IsSequence(heard), NEW line \in DOMAIN Meaning, NEW cmd, LineAnswered(line, cmd),
         effects = SaidBy(heard).did
  PROVE  /\ IsSequence(heard') /\ effects' = SaidBy(heard').did
         /\ Repeatable(heard') => Ready(SaidBy(heard').last, cmd, static', prev_token', yylval', files')
         /\ Repeatable(heard') => Meaning[line][1] \notin NotRepeated
<1> DEFINE more == Append(heard, line)
<1>1. heard' = more
  BY DEF LineAnswered
<1>2. IsSequence(more)
  BY Longer
<1>3. SaidBy(more) = Understood(SaidBy(heard), line)
  BY SaidByMore
<1>4. /\ line # <<NL>>
      /\ Understood(SaidBy(heard), line)
           = [last |-> IF Meaning[line][1] \in Final THEN <<>> ELSE Meaning[line],
              did |-> Append(SaidBy(heard).did, Meaning[line])]
  BY LineUnderstood
<1>5. Repeatable(more) => Meaning[line][1] \notin NotRepeated
  BY <1>4, RepeatableLine
<1> HIDE DEF more
<1>6. /\ SaidBy(more).last = IF Meaning[line][1] \in Final THEN <<>> ELSE Meaning[line]
      /\ SaidBy(more).did = Append(SaidBy(heard).did, Meaning[line])
  BY <1>3, <1>4
<1>7. QED BY <1>1, <1>2, <1>5, <1>6 DEF LineAnswered

(* The commands without an argument. *)
LEMMA PlainCommandAnswered ==
  ASSUME NEW line, NEW rest \in Unread, NEW ty \in Seq(Lines), LineScanned(line, rest, ty),
         IsSequence(heard), InputInv, SessionInv, status = "prompt", ~redo,
         Help \/ ListBreakpoints \/ PrintSymbols
  PROVE  \E cmd : LineAnswered(line, cmd)
<1>1. Behind = BehindCommand
  BY DEF Help, ListBreakpoints, PrintSymbols, Gives, Behind
<1>2. Scanned(BehindCommand)
  BY DEF Help, ListBreakpoints, PrintSymbols
<1>3. /\ buffers' \in Seq(Buffers) /\ AtTerminal' /\ typed' \in Seq(Lines) /\ yytoken' = NL
      /\ heard' = Append(heard, line)
  BY <1>1, <1>2, LineTaken DEF SessionInv
<1>4. files' = files /\ static' = static /\ settings' = settings /\ job' = job /\ ~redo' /\ status' = "prompt"
  BY DEF Help, ListBreakpoints, PrintSymbols, Prompts, world, call
<1>5. files \in Seq(Existing)
  BY DEF SessionInv
<1>6. CASE Help
  <2>1. Meaning[line] = <<"help">>
    BY <1>6 DEF Help, Gives, LineScanned, Told
  <2>2. effects' = Append(effects, Meaning[line]) /\ prev_cmd' = "HELP"
    BY <1>6, <2>1 DEF Help, Did, Prompts
  <2>3. Meaning[line][1] = "help"
    BY <2>1
  <2>4. Meaning[line][1] \notin Final
    BY <2>3 DEF Final
  <2>5. Ready(IF Meaning[line][1] \in Final THEN <<>> ELSE Meaning[line], "HELP", static', prev_token', yylval', files')
    BY <2>1, <2>4 DEF Ready
  <2>6. LineAnswered(line, "HELP")
    BY <1>3, <1>4, <1>5, <2>2, <2>5 DEF LineAnswered
  <2>7. QED BY <2>6
<1>7. CASE ListBreakpoints
  <2>1. Meaning[line] = <<"list">>
    BY <1>7 DEF ListBreakpoints, Gives, LineScanned, Told
  <2>2. effects' = Append(effects, Meaning[line]) /\ prev_cmd' = "LIST_BKPT"
    BY <1>7, <2>1 DEF ListBreakpoints, Did, Prompts
  <2>3. Meaning[line][1] = "list"
    BY <2>1
  <2>4. Meaning[line][1] \notin Final
    BY <2>3 DEF Final
  <2>5. Ready(IF Meaning[line][1] \in Final THEN <<>> ELSE Meaning[line],
              "LIST_BKPT", static', prev_token', yylval', files')
    BY <2>1, <2>4 DEF Ready
  <2>6. LineAnswered(line, "LIST_BKPT")
    BY <1>3, <1>4, <1>5, <2>2, <2>5 DEF LineAnswered
  <2>7. QED BY <2>6
<1>8. CASE PrintSymbols
  <2>1. Meaning[line] = <<"symbols">>
    BY <1>8 DEF PrintSymbols, Gives, LineScanned, Told
  <2>2. effects' = Append(effects, Meaning[line]) /\ prev_cmd' = "NOP"
    BY <1>8, <2>1 DEF PrintSymbols, Did, Prompts
  <2>3. Meaning[line][1] = "symbols"
    BY <2>1
  <2>4. Meaning[line][1] \in Final
    BY <2>3 DEF Final
  <2>5. Ready(IF Meaning[line][1] \in Final THEN <<>> ELSE Meaning[line], "NOP", static', prev_token', yylval', files')
    BY <2>4 DEF Ready
  <2>6. LineAnswered(line, "NOP")
    BY <1>3, <1>4, <1>5, <2>2, <2>5 DEF LineAnswered
  <2>7. QED BY <2>6
<1>9. QED BY <1>6, <1>7, <1>8

(* A line with one argument, or none, for a command that may have one. *)
LEMMA OptionalArgument ==
  ASSUME NEW line, NEW rest, NEW ty, LineScanned(line, rest, ty), ~redo,
         Len(line) = 2 \/ (Len(line) = 3 /\ line[2].t = "INT")
  PROVE  /\ BehindOptInt = BehindCommand
         /\ OptInt = IF Len(line) = 2 THEN 0 ELSE line[2].v
<1>1. CASE Len(line) = 2
  <2>1. Token = NL /\ BehindToken = BehindCommand
    BY <1>1 DEF LineScanned
  <2>2. NL.t # "INT"
    BY DEF NL
  <2>3. QED BY <1>1, <2>1, <2>2 DEF BehindOptInt, OptInt
<1>2. CASE Len(line) = 3 /\ line[2].t = "INT"
  <2>1. Token # NL /\ Token = line[2] /\ BehindLine = BehindCommand
    BY <1>2 DEF LineScanned
  <2>2. BehindCommand = St(rest, ty, NL, line[2].v)
    <3>1. Len(line) - 1 = 2
      BY <1>2
    <3>2. QED BY <3>1 DEF LineScanned
  <2>3. BehindLine.value = line[2].v
    BY <2>1, <2>2 DEF St
  <2>4. QED BY <1>2, <2>1, <2>3 DEF BehindOptInt, OptInt
<1>3. QED BY <1>1, <1>2

LEMMA RunAnswered ==
  ASSUME NEW line, NEW rest \in Unread, NEW ty \in Seq(Lines), LineScanned(line, rest, ty),
         IsSequence(heard), InputInv, SessionInv, status = "prompt", ~redo, Run
  PROVE  LineAnswered(line, "RUN")
<1>1. Command = "RUN"
  BY DEF Run, Gives
<1>2. \/ Len(line) = 2 /\ Meaning[line] = <<"run", "start">>
      \/ /\ Len(line) = 3 /\ line[2].t = "INT" /\ line[2].v # 0 /\ Meaning[line] = <<"run", line[2].v>>
         /\ \A f \in Existing : \A def \in Labels[f] : def[1] = DEFAULT_RUN_LOCATION => def[2] # line[2].v
  BY <1>1 DEF LineScanned, Told
<1>3. BehindOptInt = BehindCommand /\ OptInt = IF Len(line) = 2 THEN 0 ELSE line[2].v
  BY <1>2, OptionalArgument
<1>4. Behind = BehindCommand /\ Scanned(BehindCommand)
  BY <1>1, <1>3 DEF Behind, Run
<1>5. /\ buffers' \in Seq(Buffers) /\ AtTerminal' /\ typed' \in Seq(Lines) /\ yytoken' = NL
      /\ heard' = Append(heard, line)
  BY <1>4, LineTaken DEF SessionInv
<1> DEFINE start == Start(files)
           addr == IF OptInt = 0 THEN start ELSE OptInt
<1>6. /\ static' = [static EXCEPT !.addr = addr]
      /\ effects' = Append(effects, <<"run", IF addr = start THEN "start" ELSE addr>>)
      /\ addr = 0 => DoesNotStart("RUN")
      /\ addr # 0 => Starts("RUN")
      /\ files' = files /\ settings' = settings
  BY AddressOfSymbol DEF Run, Did, call
<1>7. files \in Seq(Existing) /\ "addr" \in DOMAIN static
  BY DEF SessionInv, InputInv
<1>8. \/ OptInt = 0 /\ Meaning[line] = <<"run", "start">>
      \/ /\ OptInt # 0 /\ Meaning[line] = <<"run", OptInt>>
         /\ \A f \in Existing : \A def \in Labels[f] : def[1] = DEFAULT_RUN_LOCATION => def[2] # OptInt
  <2>1. CASE Len(line) = 2 /\ Meaning[line] = <<"run", "start">>
    <3>1. OptInt = 0
      BY <1>3, <2>1
    <3>2. QED BY <2>1, <3>1
  <2>2. CASE /\ Len(line) = 3 /\ line[2].v # 0 /\ Meaning[line] = <<"run", line[2].v>>
             /\ \A f \in Existing : \A def \in Labels[f] : def[1] = DEFAULT_RUN_LOCATION => def[2] # line[2].v
    <3>1. OptInt = line[2].v
      BY <1>3, <2>2
    <3>2. QED BY <2>2, <3>1
  <2>3. QED BY <1>2, <2>1, <2>2
<1>9. OptInt # 0 => OptInt # start
  BY <1>7, <1>8, AddressFound DEF Start
<1>10. Meaning[line] = <<"run", IF addr = start THEN "start" ELSE addr>>
  <2> HIDE DEF start
  <2>1. CASE OptInt = 0
    BY <1>8, <2>1
  <2>2. CASE OptInt # 0
    BY <1>8, <1>9, <2>2
  <2>3. QED BY <2>1, <2>2
<1> HIDE DEF start
<1>11. static'.addr = addr /\ DOMAIN static' = DOMAIN static
  BY <1>6, <1>7
<1>12. addr = 0 => start = 0
  BY <1>6
<1> HIDE DEF addr
<1>13. Meaning[line][1] = "run"
  BY <1>10
<1>14. Meaning[line][1] \notin Final
  BY <1>13 DEF Final
<1>15. Ready(Meaning[line], "RUN", static', prev_token', yylval', files')
  BY <1>6, <1>10, <1>11, <1>12 DEF Ready, start
<1>16. \/ status' = "prompt" /\ job' = job /\ prev_cmd' = "RUN" /\ ~redo'
       \/ status' \in Live /\ job' = "RUN" /\ ~redo'
  BY <1>6 DEF DoesNotStart, Starts, Prompts, console_to_program, Live, Lending
<1>17. QED BY <1>5, <1>6, <1>7, <1>10, <1>11, <1>14, <1>15, <1>16 DEF LineAnswered

LEMMA StepAnswered ==
  ASSUME NEW line, NEW rest \in Unread, NEW ty \in Seq(Lines), LineScanned(line, rest, ty),
         IsSequence(heard), InputInv, SessionInv, status = "prompt", ~redo, Step
  PROVE  LineAnswered(line, "STEP")
<1>1. Command = "STEP"
  BY DEF Step, Gives
<1>2. \/ Len(line) = 2 /\ Meaning[line] = <<"step", 1>>
      \/ Len(line) = 3 /\ line[2].t = "INT" /\ line[2].v # 0 /\ Meaning[line] = <<"step", line[2].v>>
  BY <1>1 DEF LineScanned, Told
<1>3. BehindOptInt = BehindCommand /\ OptInt = IF Len(line) = 2 THEN 0 ELSE line[2].v
  BY <1>2, OptionalArgument
<1>4. Behind = BehindCommand /\ Scanned(BehindCommand)
  BY <1>1, <1>3 DEF Behind, Step
<1>5. /\ buffers' \in Seq(Buffers) /\ AtTerminal' /\ typed' \in Seq(Lines) /\ yytoken' = NL
      /\ heard' = Append(heard, line)
  BY <1>4, LineTaken DEF SessionInv
<1> DEFINE steps == IF OptInt = 0 THEN 1 ELSE OptInt
<1>6. /\ static' = [static EXCEPT !.steps = steps] /\ effects' = Append(effects, <<"step", steps>>)
      /\ DoesNotStart("STEP") \/ Starts("STEP")
      /\ files' = files /\ settings' = settings
  BY DEF Step, Did, call, world
<1>7. files \in Seq(Existing) /\ "steps" \in DOMAIN static
  BY DEF SessionInv, InputInv
<1>8. Meaning[line] = <<"step", steps>> /\ steps # 0
  <2>1. CASE Len(line) = 2 /\ Meaning[line] = <<"step", 1>>
    <3>1. OptInt = 0
      BY <1>3, <2>1
    <3>2. QED BY <2>1, <3>1
  <2>2. CASE Len(line) = 3 /\ line[2].v # 0 /\ Meaning[line] = <<"step", line[2].v>>
    <3>1. OptInt = line[2].v
      BY <1>3, <2>2
    <3>2. QED BY <2>2, <3>1
  <2>3. QED BY <1>2, <2>1, <2>2
<1> HIDE DEF steps
<1>9. static'.steps = steps /\ DOMAIN static' = DOMAIN static
  BY <1>6, <1>7
<1>10. Meaning[line][1] = "step"
  BY <1>8
<1>11. Meaning[line][1] \notin Final
  BY <1>10 DEF Final
<1>12. Ready(Meaning[line], "STEP", static', prev_token', yylval', files')
  BY <1>8, <1>9 DEF Ready
<1>13. \/ status' = "prompt" /\ job' = job /\ prev_cmd' = "STEP" /\ ~redo'
       \/ status' \in Live /\ job' = "STEP" /\ ~redo'
  BY <1>6 DEF DoesNotStart, Starts, Prompts, console_to_program, Live, Lending
<1>14. QED BY <1>5, <1>6, <1>7, <1>8, <1>9, <1>11, <1>12, <1>13 DEF LineAnswered

(* A line with an argument, for a command that wants one. *)
LEMMA WantedArgument ==
  ASSUME NEW line, NEW rest, NEW ty, LineScanned(line, rest, ty), ~redo, Len(line) = 3 \/ Len(line) > 2
  PROVE  BehindLine = BehindCommand /\ Token = line[2] /\ BehindToken.value = line[2].v
BY DEF LineScanned

LEMMA LastArgument ==
  ASSUME NEW line, NEW rest, NEW ty, LineScanned(line, rest, ty), ~redo, Len(line) = 3
  PROVE  BehindCommand.value = line[2].v
<1> DEFINE v == line[Len(line) - 1].v
<1>1. BehindCommand = St(rest, ty, NL, v)
  BY DEF LineScanned
<1>2. v = line[2].v
  OBVIOUS
<1> HIDE DEF v
<1>3. QED BY <1>1, <1>2 DEF St

LEMMA PrintAnswered ==
  ASSUME NEW line, NEW rest \in Unread, NEW ty \in Seq(Lines), LineScanned(line, rest, ty),
         IsSequence(heard), InputInv, SessionInv, status = "prompt", ~redo, PrintPlace
  PROVE  LineAnswered(line, "PRINT")
<1>1. Command = "PRINT"
  BY DEF PrintPlace, Gives
<1> DEFINE arg == line[2]
<1>2. \/ /\ Len(line) >= 3 /\ arg.t \in {"REG", "FP_REG", "INT"} /\ arg.v \in Int
         /\ Meaning[line] = <<arg.t, arg.v>>
      \/ /\ Len(line) = 3 /\ arg.t = "ID"
         /\ Meaning[line] = IF arg.v \in RegisterNames THEN <<"name", arg.v>> ELSE <<"symbol", arg.v, 0>>
  BY <1>1 DEF LineScanned, Told
<1>3. Len(line) > 2
  <2> DEFINE n == Len(line)
  <2>1. (n >= 3 \/ n = 3) /\ n \in Nat
    BY <1>2, Zenon DEF LineScanned
  <2> HIDE DEF n
  <2>2. n > 2
    BY <2>1
  <2>3. QED BY <2>2 DEF n
<1>4. /\ Token = arg /\ BehindToken.value = arg.v /\ BehindLine = BehindCommand
      /\ Len(line) = 3 => BehindCommand.value = arg.v
  BY <1>3, WantedArgument, LastArgument
<1>5. Behind = BehindCommand /\ Scanned(BehindCommand)
  BY <1>1, <1>4 DEF Behind, PrintPlace
<1>6. /\ buffers' \in Seq(Buffers) /\ AtTerminal' /\ typed' \in Seq(Lines) /\ yytoken' = NL
      /\ heard' = Append(heard, line)
  BY <1>5, LineTaken DEF SessionInv
<1>15. yylval' = BehindCommand.value
  BY <1>5 DEF Scanned
<1> HIDE DEF arg
<1> DEFINE named == arg.t = "ID" /\ arg.v \in RegisterNames
           place == IF arg.t = "ID" THEN AddressIn(files, arg.v) ELSE arg.v
<1>7. arg.t \in {"REG", "FP_REG", "INT", "ID"} /\ DOMAIN Stride = {"REG", "FP_REG", "INT", "ID"}
  BY <1>2 DEF Stride
<1>8. /\ static' = IF named THEN static ELSE [static EXCEPT !.loc = place]
      /\ named => effects' = Append(effects, <<"name", arg.v>>)
      /\ arg.t = "ID" /\ ~named => effects' = Append(effects, <<"symbol", arg.v, place - AddressIn(files, arg.v)>>)
      /\ arg.t # "ID" => effects' = Append(effects, <<arg.t, place>>)
  <2> DEFINE value == BehindToken.value
             name == Token.t = "ID" /\ value \in RegisterNames
             at == IF redo THEN static.loc + Stride[Token.t]
                   ELSE IF Token.t = "ID" THEN find_symbol_address(value) ELSE value
  <2>1. /\ static' = IF Token.t \notin DOMAIN Stride \/ name THEN static ELSE [static EXCEPT !.loc = at]
        /\ CASE name -> Did(<<"name", value>>)
             [] Token.t = "ID" /\ ~name -> Did(<<"symbol", value, at - find_symbol_address(value)>>)
             [] Token.t \in DOMAIN Stride \ {"ID"} -> Did(<<Token.t, at>>)
             [] OTHER -> UNCHANGED effects
    BY Zenon DEF PrintPlace
  <2>2. value = arg.v /\ (name <=> named) /\ at = place /\ find_symbol_address(value) = AddressIn(files, arg.v)
    BY <1>4, AddressOfSymbol
  <2> HIDE DEF value, name, at, place, named
  <2>3. static' = IF named THEN static ELSE [static EXCEPT !.loc = place]
    BY <1>4, <1>7, <2>1, <2>2
  <2>4. name => Did(<<"name", value>>)
    BY <2>1 DEF name
  <2>5. Token.t = "ID" /\ ~name => Did(<<"symbol", value, at - find_symbol_address(value)>>)
    BY <2>1
  <2>6. Token.t \in DOMAIN Stride \ {"ID"} => Did(<<Token.t, at>>)
    BY <2>1 DEF name
  <2>7. QED BY <1>4, <1>7, <2>2, <2>3, <2>4, <2>5, <2>6 DEF Did
<1>9. /\ prev_token' = arg.t /\ files' = files /\ settings' = settings /\ job' = job /\ ~redo'
      /\ status' = "prompt" /\ prev_cmd' = "PRINT"
  BY <1>4 DEF PrintPlace, world, call, Prompts
<1>10. files \in Seq(Existing) /\ "loc" \in DOMAIN static
  BY DEF SessionInv, InputInv
<1>11. DOMAIN static' = DOMAIN static /\ (~named => static'.loc = place)
  BY <1>8, <1>10
<1>12. CASE arg.t # "ID"
  <2>1. /\ Meaning[line] = <<arg.t, arg.v>> /\ arg.v \in Int /\ place = arg.v
        /\ ~named /\ arg.t \in {"REG", "FP_REG", "INT"}
    BY <1>2, <1>12
  <2>2. effects' = Append(effects, Meaning[line])
    BY <1>8, <1>12, <2>1
  <2>3. Meaning[line][1] = arg.t
    BY <2>1
  <2>4. Meaning[line][1] \notin Final
    BY <2>1, <2>3 DEF Final
  <2>5. Ready(Meaning[line], "PRINT", static', prev_token', yylval', files')
    BY <1>9, <1>11, <2>1 DEF Ready
  <2>6. QED BY <1>6, <1>9, <1>10, <1>11, <2>2, <2>4, <2>5 DEF LineAnswered
<1>13. CASE arg.t = "ID"
  <2>1. /\ Len(line) = 3
        /\ Meaning[line] = IF arg.v \in RegisterNames THEN <<"name", arg.v>> ELSE <<"symbol", arg.v, 0>>
    BY <1>2, <1>13
  <2>2. yylval' = arg.v
    BY <1>4, <1>15, <2>1
  <2>3. CASE arg.v \in RegisterNames
    <3>1. effects' = Append(effects, Meaning[line]) /\ Meaning[line] = <<"name", arg.v>>
      BY <1>8, <1>13, <2>1, <2>3
    <3>2. Meaning[line][1] = "name"
      BY <3>1
    <3>3. Meaning[line][1] \notin Final
      BY <3>2 DEF Final
    <3>4. Ready(Meaning[line], "PRINT", static', prev_token', yylval', files')
      BY <1>9, <1>13, <2>2, <2>3, <3>1 DEF Ready
    <3>5. QED BY <1>6, <1>9, <1>10, <1>11, <3>1, <3>3, <3>4 DEF LineAnswered
  <2>4. CASE arg.v \notin RegisterNames
    <3>1. place = AddressIn(files, arg.v) /\ place \in Nat
      BY <1>10, <1>13, AddressFound
    <3>2. place - AddressIn(files, arg.v) = 0
      BY <3>1
    <3>3. effects' = Append(effects, Meaning[line]) /\ Meaning[line] = <<"symbol", arg.v, 0>>
      BY <1>8, <1>13, <2>1, <2>4, <3>2
    <3>4. Meaning[line][1] = "symbol"
      BY <3>3
    <3>5. Meaning[line][1] \notin Final
      BY <3>4 DEF Final
    <3>6. Ready(Meaning[line], "PRINT", static', prev_token', yylval', files')
      BY <1>9, <1>11, <1>13, <2>2, <2>4, <3>1, <3>2, <3>3 DEF Ready
    <3>7. QED BY <1>6, <1>9, <1>10, <1>11, <3>3, <3>5, <3>6 DEF LineAnswered
  <2>5. QED BY <2>3, <2>4
<1>14. QED BY <1>12, <1>13

LEMMA PrintAllRegsAnswered ==
  ASSUME NEW line, NEW rest \in Unread, NEW ty \in Seq(Lines), LineScanned(line, rest, ty),
         IsSequence(heard), InputInv, SessionInv, status = "prompt", ~redo, PrintAllRegs,
         Meaning[line] # <<"regs", FALSE>>
  PROVE  LineAnswered(line, "NOP")
<1>1. Command = "PRINT_ALL_REGS"
  BY DEF PrintAllRegs, Gives
<1>2. Len(line) = 3 /\ line[2].t = "ID" /\ line[2].v = "hex" /\ Meaning[line] = <<"regs", TRUE>>
  BY <1>1 DEF LineScanned, Told
<1>3. Token = line[2] /\ BehindToken.value = line[2].v /\ BehindLine = BehindCommand
  BY <1>2, WantedArgument
<1>4. Behind = BehindCommand /\ Scanned(BehindCommand)
  BY <1>1, <1>3 DEF Behind, PrintAllRegs
<1>5. /\ buffers' \in Seq(Buffers) /\ AtTerminal' /\ typed' \in Seq(Lines) /\ yytoken' = NL
      /\ heard' = Append(heard, line)
  BY <1>4, LineTaken DEF SessionInv
<1>6. effects' = Append(effects, Meaning[line])
  <2>1. (Token.t = "ID" /\ BehindToken.value = "hex") = TRUE
    BY <1>2, <1>3
  <2>2. effects' = Append(effects, <<"regs", Token.t = "ID" /\ BehindToken.value = "hex">>)
    BY DEF PrintAllRegs, Did
  <2>3. QED BY <1>2, <2>1, <2>2, Zenon
<1>7. /\ files' = files /\ settings' = settings /\ job' = job /\ ~redo' /\ static' = static
      /\ status' = "prompt" /\ prev_cmd' = "NOP"
  BY DEF PrintAllRegs, world, call, Prompts
<1>8. Meaning[line][1] = "regs"
  BY <1>2
<1>9. Meaning[line][1] \in Final
  BY <1>8 DEF Final
<1>10. Ready(<<>>, "NOP", static', prev_token', yylval', files')
  BY DEF Ready
<1>11. QED BY <1>5, <1>6, <1>7, <1>9, <1>10 DEF LineAnswered, SessionInv

LEMMA ReinitializeAnswered ==
  ASSUME NEW line, NEW rest \in Unread, NEW ty \in Seq(Lines), LineScanned(line, rest, ty),
         IsSequence(heard), InputInv, SessionInv, status = "prompt", ~redo, Reinitialize
  PROVE  LineAnswered(line, "NOP")
<1>1. Command = "REINITIALIZE"
  BY DEF Reinitialize, Gives
<1>2. Meaning[line] = <<"reinitialize">>
  BY <1>1 DEF LineScanned, Told
<1> DEFINE s == flush_to_newline(Opened)
           behind == Append(Front(buffers), [file |-> "terminal", unread |-> s.unread])
<1>3. s = BehindCommand /\ Behind = BehindCommand
  BY <1>1 DEF LineScanned, Behind
<1>4. /\ buffers' = ScannerOfWorld(behind, settings)
      /\ typed' = s.typed /\ yytoken' = s.token /\ yylval' = s.value /\ Heard
  BY DEF Reinitialize
<1> DEFINE v == line[Len(line) - 1].v
<1>5. s = St(rest, ty, NL, v)
  BY <1>3 DEF LineScanned
<1> HIDE DEF s, v
<1>6. s.unread = rest /\ s.typed = ty /\ s.token = NL /\ s.value = v
  BY <1>5 DEF St
<1>7. heard' = Append(heard, line)
  <2>1. Swallowed = <<>>
    <3>1. CASE Len(line) = 2
      BY <1>3, <3>1 DEF LineScanned, Swallowed
    <3>2. CASE Len(line) > 2
      <4>1. Token # NL
        BY <3>2 DEF LineScanned
      <4>2. QED BY <4>1 DEF Swallowed
    <3>3. Len(line) = 2 \/ Len(line) > 2
      BY <1>1 DEF LineScanned, Told
    <3>4. QED BY <3>1, <3>2, <3>3
  <2>2. heard' = (heard \o <<line>>) \o <<>>
    BY <1>4, <2>1 DEF Heard, LineScanned
  <2>3. heard \o <<line>> = Append(heard, line) /\ IsSequence(Append(heard, line))
    BY Longer
  <2>4. QED BY <2>2, <2>3, Longer
<1>8. behind \in Seq(Buffers)
  BY <1>6, TerminalKept DEF SessionInv
<1> HIDE DEF behind
<1>9. /\ ScannerOfWorld(behind, settings) \in Seq(Buffers) /\ YYIn(ScannerOfWorld(behind, settings)) = "terminal"
      /\ Handler(settings) \in Seq(Existing)
  BY <1>8, WorldScanned DEF SessionInv
<1>10. buffers' \in Seq(Buffers) /\ AtTerminal'
  BY <1>4, <1>9 DEF AtTerminal
<1>11. /\ files' = Handler(settings) /\ settings' = settings /\ job' = job /\ ~redo' /\ static' = static
       /\ status' = "prompt" /\ prev_cmd' = "NOP"
  BY DEF Reinitialize, call, Prompts, initialize_world
<1>12. effects' = Append(effects, Meaning[line])
  BY <1>2 DEF Reinitialize, Did
<1>13. Meaning[line][1] = "reinitialize"
  BY <1>2
<1>14. Meaning[line][1] \in Final
  BY <1>13 DEF Final
<1>15. Ready(<<>>, "NOP", static', prev_token', yylval', files')
  BY DEF Ready
<1>16. QED BY <1>4, <1>6, <1>7, <1>9, <1>10, <1>11, <1>12, <1>14, <1>15 DEF LineAnswered

(* The commands that a blank line does not repeat as a whole. *)
LEMMA UnrepeatedAnswered ==
  ASSUME NEW line, NEW rest \in Unread, NEW ty \in Seq(Lines), LineScanned(line, rest, ty),
         IsSequence(heard), InputInv, SessionInv, status = "prompt", ~redo,
         Assemble \/ SetBreakpoint \/ DeleteBreakpoint \/ DumpText \/ DumpNativeText
  PROVE  LineAnswered(line, "none")
<1>1. files \in Seq(Existing) /\ "bkpt" \in DOMAIN static /\ buffers \in Seq(Buffers)
  BY DEF SessionInv, InputInv
<1>2. CASE Assemble
  <2>1. Command = "ASM"
    BY <1>2 DEF Assemble, Gives
  <2>2. Meaning[line] = <<"asm", line[Len(line) - 1].v>>
    BY <2>1 DEF LineScanned, Told
  <2>3. Behind = BehindCommand
    BY <2>1 DEF LineScanned, Behind
  <2>4. /\ buffers' \in Seq(Buffers) /\ AtTerminal' /\ typed' \in Seq(Lines) /\ yytoken' = NL
        /\ heard' = Append(heard, line)
    BY <1>1, <1>2, <2>3, LineTaken DEF Assemble
  <2>5. Behind.value = line[Len(line) - 1].v
    <3> DEFINE v == line[Len(line) - 1].v
    <3>1. Behind = St(rest, ty, NL, v)
      BY <2>3 DEF LineScanned
    <3> HIDE DEF v
    <3>2. Behind.value = v
      BY <3>1 DEF St
    <3>3. QED BY <3>2 DEF v
  <2>6. effects' = Append(effects, Meaning[line]) /\ Meaning[line][1] = "asm"
    BY <1>2, <2>2, <2>5 DEF Assemble, Did
  <2>7. Meaning[line][1] \in NotRepeated
    BY <2>6 DEF NotRepeated
  <2>8. /\ files' = files /\ settings' = settings /\ job' = job /\ ~redo' /\ static' = static
        /\ status' = "prompt"
    BY <1>2 DEF Assemble, world, call, Prompts
  <2>9. QED BY <1>1, <2>4, <2>6, <2>7, <2>8 DEF LineAnswered
<1>3. ASSUME NEW cmd \in {"SET_BKPT", "DELETE_BKPT"}, NEW effect, Breakpoint(cmd, effect),
             cmd = "SET_BKPT" => effect = "breakpoint", cmd = "DELETE_BKPT" => effect = "delete"
      PROVE  LineAnswered(line, "none")
  <2>1. Command = cmd
    BY <1>3 DEF Breakpoint, Gives
  <2>2. Len(line) = 3 /\ line[2].t = "INT" /\ Meaning[line] = <<effect, line[2].v>>
    BY <1>3, <2>1 DEF LineScanned, Told
  <2>3. Token = line[2] /\ BehindLine.value = line[2].v /\ BehindLine = BehindCommand
    BY <2>2, WantedArgument, LastArgument
  <2>4. Behind = BehindCommand /\ Scanned(BehindCommand)
    BY <1>3, <2>1, <2>3 DEF Behind, Breakpoint
  <2>5. /\ buffers' \in Seq(Buffers) /\ AtTerminal' /\ typed' \in Seq(Lines) /\ yytoken' = NL
        /\ heard' = Append(heard, line)
    BY <1>1, <2>4, LineTaken
  <2> DEFINE value == BehindLine.value
             addr == CASE Token.t \in {"INT", "ID"} /\ redo -> static.bkpt + 4
                       [] Token.t = "INT" /\ ~redo -> value
                       [] Token.t = "ID" /\ ~redo -> find_symbol_address(value)
                       [] OTHER -> static.bkpt
  <2>6. static' = [static EXCEPT !.bkpt = addr] /\ effects' = Append(effects, <<effect, addr>>)
    BY <1>3, Zenon DEF Breakpoint, Did
  <2>7. addr = line[2].v
    BY <2>2, <2>3
  <2> HIDE DEF addr
  <2>8. /\ files' = files /\ settings' = settings /\ job' = job /\ ~redo' /\ DOMAIN static' = DOMAIN static
        /\ status' = "prompt"
    BY <1>3, <2>6 DEF Breakpoint, call, Prompts
  <2>9. effects' = Append(effects, Meaning[line]) /\ Meaning[line][1] = effect
    BY <2>2, <2>6, <2>7
  <2>10. Meaning[line][1] \in NotRepeated
    BY <1>3, <2>9 DEF NotRepeated
  <2>11. QED BY <1>1, <2>5, <2>8, <2>9, <2>10 DEF LineAnswered
<1>4. ASSUME NEW cmd \in {"DUMP_TEXT", "DUMPNATIVE_TEXT"}, NEW effect, Dump(cmd, effect),
             cmd = "DUMP_TEXT" => effect = "dump", cmd = "DUMPNATIVE_TEXT" => effect = "dumpnative"
      PROVE  LineAnswered(line, "none")
  <2>1. Command = cmd
    BY <1>4 DEF Dump, Gives
  <2>2. Len(line) = 2 /\ Meaning[line] = <<effect, "spim.dump">>
    BY <1>4, <2>1 DEF LineScanned, Told
  <2>3. Token = NL /\ BehindToken = BehindCommand
    BY <2>2 DEF LineScanned
  <2>4. Behind = BehindCommand /\ Scanned(BehindCommand)
    BY <1>4, <2>1, <2>3 DEF Behind, Dump
  <2>5. /\ buffers' \in Seq(Buffers) /\ AtTerminal' /\ typed' \in Seq(Lines) /\ yytoken' = NL
        /\ heard' = Append(heard, line)
    BY <1>1, <2>4, LineTaken
  <2>6. Token.t = "NL"
    BY <2>3 DEF NL
  <2>7. effects' = Append(effects, <<effect, "spim.dump">>) /\ (Prompts(cmd) \/ Prompts(prev_cmd))
    BY <1>4, <2>6 DEF Dump, Did
  <2>8. /\ files' = files /\ settings' = settings /\ job' = job /\ ~redo' /\ static' = static
        /\ status' = "prompt"
    BY <1>4, <2>7 DEF Dump, world, call, Prompts
  <2>9. effects' = Append(effects, Meaning[line]) /\ Meaning[line][1] = effect
    BY <2>2, <2>7
  <2>10. Meaning[line][1] \in NotRepeated
    BY <1>4, <2>9 DEF NotRepeated
  <2>11. QED BY <1>1, <2>5, <2>8, <2>9, <2>10 DEF LineAnswered
<1>5. CASE SetBreakpoint
  BY <1>3, <1>5 DEF SetBreakpoint
<1>6. CASE DeleteBreakpoint
  BY <1>3, <1>6 DEF DeleteBreakpoint
<1>7. CASE DumpText
  BY <1>4, <1>7 DEF DumpText
<1>8. CASE DumpNativeText
  BY <1>4, <1>8 DEF DumpNativeText
<1>9. QED BY <1>2, <1>5, <1>6, <1>7, <1>8

LEMMA ReadAnswered ==
  ASSUME NEW line, NEW rest \in Unread, NEW ty \in Seq(Lines), LineScanned(line, rest, ty),
         IsSequence(heard), InputInv, SessionInv, status = "prompt", ~redo, Read
  PROVE  LineAnswered(line, "none")
<1>1. files \in Seq(Existing) /\ buffers \in Seq(Buffers)
  BY DEF SessionInv
<1>2. Command = "READ"
  BY DEF Read, Gives
<1>3. Len(line) = 3 /\ line[2].t = "STR" /\ line[2].v \in Existing /\ Meaning[line] = <<"read", line[2].v>>
  BY <1>2 DEF LineScanned, Told
<1> DEFINE name == BehindLine.value
           s == [BehindLine EXCEPT !.value = "of the file"]
<1>4. /\ Token = line[2] /\ name = line[2].v /\ BehindLine = BehindCommand
      /\ BehindLine = St(rest, ty, NL, line[Len(line) - 1].v)
  <2>1. Token = line[2] /\ BehindLine = BehindCommand /\ BehindCommand.value = line[2].v
    BY <1>3, WantedArgument, LastArgument
  <2>2. QED BY <2>1 DEF LineScanned
<1>5. Behind = BehindCommand
  BY <1>2, <1>4 DEF Behind
<1>6. Scanned(s) /\ files' = Append(files, name) /\ effects' = Append(effects, <<"read", name>>)
  <2>1. Token.t = "STR" /\ name \in Existing
    BY <1>3, <1>4
  <2>2. QED BY <2>1 DEF Read, Did
<1>7. s.unread = rest /\ s.typed = ty /\ s.token = NL /\ s.value = "of the file"
  <2> DEFINE v == line[Len(line) - 1].v
  <2> HIDE DEF v
  <2>1. BehindLine = St(rest, ty, NL, v)
    BY <1>4 DEF v
  <2>2. s = [St(rest, ty, NL, v) EXCEPT !.value = "of the file"]
    BY <2>1
  <2>3. QED BY <2>2 DEF St
<1> HIDE DEF s
<1>8. /\ buffers' \in Seq(Buffers) /\ AtTerminal' /\ typed' = ty /\ yytoken' = NL
      /\ heard' = Append(heard, line)
  BY <1>1, <1>5, <1>6, <1>7, LineConsumed
<1>9. files' \in Seq(Existing)
  BY <1>1, <1>3, <1>4, <1>6
<1>10. effects' = Append(effects, Meaning[line]) /\ Meaning[line][1] = "read"
  BY <1>3, <1>4, <1>6
<1>11. Meaning[line][1] \in NotRepeated
  BY <1>10 DEF NotRepeated
<1>12. settings' = settings /\ job' = job /\ ~redo' /\ static' = static /\ status' = "prompt"
  BY DEF Read, call, Prompts
<1>13. QED BY <1>8, <1>9, <1>10, <1>11, <1>12 DEF LineAnswered

(* What every command leaves that the prompt answers. *)
Answered(cmd) ==
  /\ IsSequence(heard') /\ effects' = SaidBy(heard').did
  /\ Repeatable(heard') => Ready(SaidBy(heard').last, cmd, static', prev_token', yylval', files')
  /\ typed' \in Seq(Lines) /\ yytoken' = NL
  /\ buffers' \in Seq(Buffers) /\ AtTerminal' /\ files' \in Seq(Existing) /\ settings' = settings
  /\ DOMAIN static' = DOMAIN static
  /\ \/ status' = "prompt" /\ ~redo' /\ job' = job /\ (prev_cmd' = cmd \/ ~Repeatable(heard'))
     \/ status' \in Live /\ job' = cmd /\ cmd \in {"RUN", "STEP"}

(* A redo is the command before, and reads nothing. *)
LEMMA RedoScanned ==
  ASSUME redo, status = "prompt", InputInv, SessionInv, IsSequence(heard), Plain
  PROVE  LET h == Front(heard)
         IN  /\ IsSequence(h) /\ heard = Append(h, <<NL>>)
             /\ effects = SaidBy(h).did /\ Repeatable(heard)
             /\ Ready(SaidBy(h).last, prev_cmd, static, prev_token, yylval, files)
             /\ SaidBy(heard) = Understood(SaidBy(h), <<NL>>)
<1> DEFINE h == Front(heard)
<1>1. IsSequence(h) /\ heard = Append(h, <<NL>>) /\ Followed(h, prev_cmd)
  BY DEF SessionInv
<1> HIDE DEF h
<1>2. PlainLines(Append(h, <<NL>>))
  BY <1>1, PlainIsPlain
<1>3. Repeatable(h) /\ Repeatable(Append(h, <<NL>>))
  BY <1>1, <1>2, PlainShorter, RepeatableBlank
<1>4. SaidBy(Append(h, <<NL>>)) = Understood(SaidBy(h), <<NL>>)
  BY <1>1, SaidByMore
<1>5. QED BY <1>1, <1>3, <1>4 DEF Followed, h

LEMMA RedoTaken ==
  ASSUME redo, InputInv, SessionInv, IsSequence(heard), Scanned(Terminal)
  PROVE  /\ buffers' \in Seq(Buffers) /\ AtTerminal' /\ typed' \in Seq(Lines) /\ yytoken' = NL
         /\ yylval' = yylval /\ heard' = heard
<1>1. Begun = <<>> /\ Swallowed = <<>>
  BY DEF Begun, Swallowed
<1>2. heard' = (heard \o <<>>) \o <<>>
  BY <1>1 DEF Scanned, Heard
<1>3. heard \o <<>> = heard
  BY Longer
<1> DEFINE u == Last(buffers).unread
<1>4. Terminal = St(u, typed, yytoken, yylval) /\ u \in Unread
  BY TerminalScanned DEF SessionInv
<1> HIDE DEF u
<1>5. Terminal.unread = u /\ Terminal.typed = typed /\ Terminal.token = yytoken /\ Terminal.value = yylval
  BY <1>4 DEF St
<1>6. buffers' = Append(Front(buffers), [file |-> "terminal", unread |-> u])
  BY <1>5 DEF Scanned
<1>7. buffers' \in Seq(Buffers) /\ YYIn(buffers') = "terminal"
  BY <1>4, <1>6, TerminalKept DEF SessionInv
<1>8. QED BY <1>2, <1>3, <1>5, <1>7 DEF Scanned, AtTerminal, InputInv

(* What is said by a blank line, by what was done last. *)
LEMMA BlankSaid ==
  ASSUME redo, status = "prompt", InputInv, SessionInv, IsSequence(heard), Plain,
         NEW last, last = SaidBy(Front(heard)).last, last # <<>>, NEW next, Again(last) = next
  PROVE  SaidBy(heard).last = next /\ SaidBy(heard).did = Append(effects, next)
<1>1. /\ SaidBy(heard) = Understood(SaidBy(Front(heard)), <<NL>>)
      /\ effects = SaidBy(Front(heard)).did
  BY RedoScanned
<1>2. SaidBy(heard) = [last |-> next, did |-> Append(effects, next)]
  BY <1>1, BlankUnderstood
<1>3. QED BY <1>2

LEMMA QuietRedone ==
  ASSUME redo, status = "prompt", InputInv, SessionInv, IsSequence(heard), Plain,
         Nop \/ Help \/ ListBreakpoints
  PROVE  \E cmd : Answered(cmd)
<1> DEFINE last == SaidBy(Front(heard)).last
<1>1. Command = prev_cmd /\ Opened = Terminal /\ BehindCommand = Terminal
  BY DEF Command, Opened, BehindCommand
<1>2. Scanned(Terminal)
  BY <1>1 DEF Nop, Help, ListBreakpoints
<1>3. /\ buffers' \in Seq(Buffers) /\ AtTerminal' /\ typed' \in Seq(Lines) /\ yytoken' = NL /\ heard' = heard
  BY <1>2, RedoTaken
<1>4. /\ files' = files /\ static' = static /\ settings' = settings /\ job' = job /\ ~redo' /\ status' = "prompt"
      /\ files \in Seq(Existing)
  BY DEF Nop, Help, ListBreakpoints, Prompts, world, call, SessionInv
<1>5. /\ effects = SaidBy(Front(heard)).did /\ Repeatable(heard)
      /\ Ready(last, prev_cmd, static, prev_token, yylval, files)
      /\ SaidBy(heard) = Understood(SaidBy(Front(heard)), <<NL>>)
  BY RedoScanned
<1> HIDE DEF last
<1>6. CASE Nop
  <2>1. prev_cmd = "NOP" /\ effects' = effects /\ prev_cmd' = "NOP"
    BY <1>1, <1>6 DEF Nop, Gives, Prompts
  <2>2. last = <<>>
    BY <1>5, <2>1 DEF Ready
  <2>3. SaidBy(heard) = SaidBy(Front(heard))
    BY <1>5, <2>2, BlankUnderstood DEF last
  <2>4. effects' = SaidBy(heard).did /\ SaidBy(heard).last = <<>>
    BY <1>5, <2>1, <2>2, <2>3 DEF last
  <2>5. Ready(SaidBy(heard).last, "NOP", static', prev_token', yylval', files')
    BY <2>4 DEF Ready
  <2>6. Answered("NOP")
    BY <1>3, <1>4, <2>1, <2>4, <2>5 DEF Answered
  <2>7. QED BY <2>6
<1>7. CASE Help
  <2>1. prev_cmd = "HELP" /\ effects' = Append(effects, <<"help">>) /\ prev_cmd' = "HELP"
    BY <1>1, <1>7 DEF Help, Gives, Prompts, Did
  <2>2. last = <<"help">>
    BY <1>5, <2>1 DEF Ready
  <2>3. Again(last) = <<"help">> /\ last # <<>>
    BY <2>2 DEF Again
  <2>4. effects' = SaidBy(heard).did /\ SaidBy(heard).last = <<"help">>
    BY <2>1, <2>3, BlankSaid DEF last
  <2>5. Ready(SaidBy(heard).last, "HELP", static', prev_token', yylval', files')
    BY <2>4 DEF Ready
  <2>6. Answered("HELP")
    BY <1>3, <1>4, <2>1, <2>4, <2>5 DEF Answered
  <2>7. QED BY <2>6
<1>8. CASE ListBreakpoints
  <2>1. prev_cmd = "LIST_BKPT" /\ effects' = Append(effects, <<"list">>) /\ prev_cmd' = "LIST_BKPT"
    BY <1>1, <1>8 DEF ListBreakpoints, Gives, Prompts, Did
  <2>2. last = <<"list">>
    BY <1>5, <2>1 DEF Ready
  <2>3. Again(last) = <<"list">> /\ last # <<>>
    BY <2>2 DEF Again
  <2>4. effects' = SaidBy(heard).did /\ SaidBy(heard).last = <<"list">>
    BY <2>1, <2>3, BlankSaid DEF last
  <2>5. Ready(SaidBy(heard).last, "LIST_BKPT", static', prev_token', yylval', files')
    BY <2>4 DEF Ready
  <2>6. Answered("LIST_BKPT")
    BY <1>3, <1>4, <2>1, <2>4, <2>5 DEF Answered
  <2>7. QED BY <2>6
<1>9. QED BY <1>6, <1>7, <1>8

LEMMA RunRedone ==
  ASSUME redo, status = "prompt", InputInv, SessionInv, IsSequence(heard), Plain, Run
  PROVE  Answered("RUN")
<1> DEFINE last == SaidBy(Front(heard)).last
           start == Start(files)
           given == static.addr
           addr == IF given = 0 THEN start ELSE given
<1>1. prev_cmd = "RUN" /\ Scanned(Terminal)
  BY DEF Run, Gives, Command, BehindOptInt, BehindLine
<1>2. /\ buffers' \in Seq(Buffers) /\ AtTerminal' /\ typed' \in Seq(Lines) /\ yytoken' = NL /\ heard' = heard
  BY <1>1, RedoTaken
<1>3. /\ static' = [static EXCEPT !.addr = addr]
      /\ effects' = Append(effects, <<"run", IF addr = start THEN "start" ELSE addr>>)
      /\ addr = 0 => DoesNotStart("RUN")
      /\ addr # 0 => Starts("RUN")
      /\ files' = files /\ settings' = settings
  <2>1. starting_address = start
    BY AddressOfSymbol
  <2>2. (IF redo THEN static.addr ELSE OptInt) = given
    OBVIOUS
  <2> HIDE DEF start, given
  <2>3. QED BY <2>1, <2>2 DEF Run, Did, call
<1>4. Repeatable(heard) /\ Ready(last, prev_cmd, static, prev_token, yylval, files)
  BY RedoScanned
<1> HIDE DEF last
<1>5. last = <<"run", IF given = start THEN "start" ELSE given>> /\ (given = 0 => start = 0)
  BY <1>1, <1>4 DEF Ready
<1>6. addr = given
  BY <1>5
<1> HIDE DEF addr, start
<1>7. effects' = Append(effects, last)
  BY <1>3, <1>5, <1>6
<1>8. last[1] = "run" /\ last # <<>>
  BY <1>5
<1>9. Again(last) = last
  BY <1>8 DEF Again
<1>10. effects' = SaidBy(heard).did /\ SaidBy(heard).last = last
  BY <1>7, <1>8, <1>9, BlankSaid DEF last
<1>11. static'.addr = given /\ DOMAIN static' = DOMAIN static
  BY <1>3, <1>6 DEF InputInv
<1> HIDE DEF given
<1>12. Ready(last, "RUN", static', prev_token', yylval', files')
  BY <1>3, <1>5, <1>11 DEF Ready, start
<1>13. \/ status' = "prompt" /\ job' = job /\ prev_cmd' = "RUN" /\ ~redo'
       \/ status' \in Live /\ job' = "RUN"
  BY <1>3 DEF DoesNotStart, Starts, Prompts, console_to_program, Live, Lending
<1>14. QED BY <1>2, <1>3, <1>10, <1>11, <1>12, <1>13 DEF Answered, SessionInv

LEMMA StepRedone ==
  ASSUME redo, status = "prompt", InputInv, SessionInv, IsSequence(heard), Plain, Step
  PROVE  Answered("STEP")
<1> DEFINE last == SaidBy(Front(heard)).last
           given == static.steps
           steps == IF given = 0 THEN 1 ELSE given
<1>1. prev_cmd = "STEP" /\ Scanned(Terminal)
  BY DEF Step, Gives, Command, BehindOptInt, BehindLine
<1>2. /\ buffers' \in Seq(Buffers) /\ AtTerminal' /\ typed' \in Seq(Lines) /\ yytoken' = NL /\ heard' = heard
  BY <1>1, RedoTaken
<1>3. /\ static' = [static EXCEPT !.steps = steps] /\ effects' = Append(effects, <<"step", steps>>)
      /\ DoesNotStart("STEP") \/ Starts("STEP")
      /\ files' = files /\ settings' = settings
  <2>1. (IF redo THEN static.steps ELSE OptInt) = given
    OBVIOUS
  <2> HIDE DEF given
  <2>2. QED BY <2>1 DEF Step, Did, call, world
<1>4. Repeatable(heard) /\ Ready(last, prev_cmd, static, prev_token, yylval, files)
  BY RedoScanned
<1> HIDE DEF last
<1>5. last = <<"step", given>> /\ given # 0
  BY <1>1, <1>4 DEF Ready
<1>6. steps = given
  BY <1>5
<1> HIDE DEF steps
<1>7. effects' = Append(effects, last)
  BY <1>3, <1>5, <1>6
<1>8. last[1] = "step" /\ last # <<>>
  BY <1>5
<1>9. Again(last) = last
  BY <1>8 DEF Again
<1>10. effects' = SaidBy(heard).did /\ SaidBy(heard).last = last
  BY <1>7, <1>8, <1>9, BlankSaid DEF last
<1>11. static'.steps = given /\ DOMAIN static' = DOMAIN static
  BY <1>3, <1>6 DEF InputInv
<1> HIDE DEF given
<1>12. Ready(last, "STEP", static', prev_token', yylval', files')
  BY <1>5, <1>11 DEF Ready
<1>13. \/ status' = "prompt" /\ job' = job /\ prev_cmd' = "STEP" /\ ~redo'
       \/ status' \in Live /\ job' = "STEP"
  BY <1>3 DEF DoesNotStart, Starts, Prompts, console_to_program, Live, Lending
<1>14. QED BY <1>2, <1>3, <1>10, <1>11, <1>12, <1>13 DEF Answered, SessionInv

(* A print at the next place. *)
LEMMA NextPlace ==
  /\ \A k \in Int : /\ Again(<<"REG", k>>) = <<"REG", k + 1>>
                    /\ Again(<<"FP_REG", k>>) = <<"FP_REG", k + 2>>
                    /\ Again(<<"INT", k>>) = <<"INT", k + 4>>
  /\ \A name : Again(<<"name", name>>) = <<"name", name>>
  /\ \A name : \A k \in Int : Again(<<"symbol", name, k>>) = <<"symbol", name, k + 4>>
BY DEF Again

LEMMA PrintRedone ==
  ASSUME redo, status = "prompt", InputInv, SessionInv, IsSequence(heard), Plain, PrintPlace
  PROVE  Answered("PRINT")
<1> DEFINE last == SaidBy(Front(heard)).last
           tok == prev_token
           val == yylval
           named == tok = "ID" /\ val \in RegisterNames
           place == static.loc + Stride[tok]
           at == AddressIn(files, val)
<1>1. prev_cmd = "PRINT" /\ Scanned(Terminal)
  BY DEF PrintPlace, Gives, Command, BehindLine
<1>2. /\ buffers' \in Seq(Buffers) /\ AtTerminal' /\ typed' \in Seq(Lines) /\ yytoken' = NL /\ heard' = heard
      /\ yylval' = val
  BY <1>1, RedoTaken
<1>3. Repeatable(heard) /\ Ready(last, prev_cmd, static, tok, val, files)
  BY RedoScanned
<1> HIDE DEF last
<1>4. \/ tok \in {"REG", "FP_REG", "INT"} /\ last = <<tok, static.loc>> /\ static.loc \in Int
      \/ tok = "ID" /\ val \in RegisterNames /\ last = <<"name", val>>
      \/ tok = "ID" /\ val \notin RegisterNames /\ last = <<"symbol", val, static.loc - at>> /\ static.loc \in Int
  BY <1>1, <1>3 DEF Ready
<1>5. DOMAIN Stride = {"REG", "FP_REG", "INT", "ID"} /\ tok \in DOMAIN Stride
      /\ Stride["REG"] = 1 /\ Stride["FP_REG"] = 2 /\ Stride["INT"] = 4 /\ Stride["ID"] = 4
  BY <1>4 DEF Stride
<1>6. Token.t = tok /\ BehindToken.value = val
  BY DEF Token, BehindToken, Terminal
<1>7. /\ static' = IF named THEN static ELSE [static EXCEPT !.loc = place]
      /\ named => effects' = Append(effects, <<"name", val>>)
      /\ tok = "ID" /\ ~named => effects' = Append(effects, <<"symbol", val, place - at>>)
      /\ tok # "ID" => effects' = Append(effects, <<tok, place>>)
  <2> DEFINE value == BehindToken.value
             name == Token.t = "ID" /\ value \in RegisterNames
             there == IF redo THEN static.loc + Stride[Token.t]
                      ELSE IF Token.t = "ID" THEN find_symbol_address(value) ELSE value
  <2>1. /\ static' = IF Token.t \notin DOMAIN Stride \/ name THEN static ELSE [static EXCEPT !.loc = there]
        /\ CASE name -> Did(<<"name", value>>)
             [] Token.t = "ID" /\ ~name -> Did(<<"symbol", value, there - find_symbol_address(value)>>)
             [] Token.t \in DOMAIN Stride \ {"ID"} -> Did(<<Token.t, there>>)
             [] OTHER -> UNCHANGED effects
    BY Zenon DEF PrintPlace
  <2>2. value = val /\ (name <=> named) /\ there = place /\ find_symbol_address(value) = at
    BY <1>6, AddressOfSymbol
  <2> HIDE DEF value, name, there, place, named, at
  <2>3. static' = IF named THEN static ELSE [static EXCEPT !.loc = place]
    BY <1>5, <1>6, <2>1, <2>2
  <2>4. name => Did(<<"name", value>>)
    BY <2>1 DEF name
  <2>5. Token.t = "ID" /\ ~name => Did(<<"symbol", value, there - find_symbol_address(value)>>)
    BY <2>1
  <2>6. Token.t \in DOMAIN Stride \ {"ID"} => Did(<<Token.t, there>>)
    BY <2>1 DEF name
  <2>7. QED BY <1>5, <1>6, <2>2, <2>3, <2>4, <2>5, <2>6 DEF Did
<1>8. /\ prev_token' = tok /\ files' = files /\ settings' = settings /\ job' = job /\ ~redo'
      /\ status' = "prompt" /\ prev_cmd' = "PRINT"
  BY <1>6 DEF PrintPlace, world, call, Prompts
<1>9. files \in Seq(Existing) /\ "loc" \in DOMAIN static
  BY DEF SessionInv, InputInv
<1>10. DOMAIN static' = DOMAIN static /\ (~named => static'.loc = place)
  BY <1>7, <1>9
<1>11. ASSUME NEW next, Again(last) = next, last # <<>>, effects' = Append(effects, next),
              Ready(next, "PRINT", static', prev_token', yylval', files')
       PROVE  Answered("PRINT")
  <2>1. effects' = SaidBy(heard).did /\ SaidBy(heard).last = next
    BY <1>11, BlankSaid DEF last
  <2>2. QED BY <1>2, <1>8, <1>9, <1>10, <1>11, <2>1 DEF Answered
<1>12. CASE tok # "ID"
  <2>1. tok \in {"REG", "FP_REG", "INT"} /\ last = <<tok, static.loc>> /\ static.loc \in Int /\ ~named
    BY <1>4, <1>12
  <2>2. Again(last) = <<tok, place>> /\ place \in Int
    <3> DEFINE loc == static.loc
    <3>1. loc \in Int /\ last = <<tok, loc>> /\ place = loc + Stride[tok]
      BY <2>1
    <3> HIDE DEF loc, place
    <3>2. CASE tok = "REG"
      <4>1. place = loc + 1 /\ place \in Int
        BY <1>5, <3>1, <3>2
      <4>2. Again(<<"REG", loc>>) = <<"REG", loc + 1>>
        BY <3>1, NextPlace
      <4>3. last = <<"REG", loc>>
        BY <3>1, <3>2
      <4>4. QED BY <3>2, <4>1, <4>2, <4>3
    <3>3. CASE tok = "FP_REG"
      <4>1. place = loc + 2 /\ place \in Int
        BY <1>5, <3>1, <3>3
      <4>2. Again(<<"FP_REG", loc>>) = <<"FP_REG", loc + 2>>
        BY <3>1, NextPlace
      <4>3. last = <<"FP_REG", loc>>
        BY <3>1, <3>3
      <4>4. QED BY <3>3, <4>1, <4>2, <4>3
    <3>4. CASE tok = "INT"
      <4>1. place = loc + 4 /\ place \in Int
        BY <1>5, <3>1, <3>4
      <4>2. Again(<<"INT", loc>>) = <<"INT", loc + 4>>
        BY <3>1, NextPlace
      <4>3. last = <<"INT", loc>>
        BY <3>1, <3>4
      <4>4. QED BY <3>4, <4>1, <4>2, <4>3
    <3>5. QED BY <2>1, <3>2, <3>3, <3>4
  <2> HIDE DEF place
  <2>3. Ready(<<tok, place>>, "PRINT", static', prev_token', yylval', files')
    BY <1>8, <1>10, <2>1, <2>2 DEF Ready
  <2>4. last # <<>> /\ effects' = Append(effects, <<tok, place>>)
    BY <1>7, <1>12, <2>1
  <2>5. QED BY <1>11, <2>2, <2>3, <2>4
<1>13. CASE named
  <2>1. last = <<"name", val>>
    BY <1>4, <1>13
  <2>2. Again(last) = last /\ last # <<>>
    BY <2>1, NextPlace
  <2>3. Ready(last, "PRINT", static', prev_token', yylval', files')
    BY <1>2, <1>8, <1>13, <2>1 DEF Ready
  <2>4. effects' = Append(effects, last)
    BY <1>7, <1>13, <2>1
  <2>5. QED BY <1>11, <2>2, <2>3, <2>4
<1>14. CASE tok = "ID" /\ ~named
  <2>1. last = <<"symbol", val, static.loc - at>> /\ static.loc \in Int
    BY <1>4, <1>14
  <2>2. at \in Nat
    BY <1>9, AddressFound
  <2> HIDE DEF at
  <2>3. place = static.loc + 4 /\ place \in Int
    BY <1>5, <1>14, <2>1
  <2>4. static.loc - at \in Int /\ (static.loc - at) + 4 = place - at
    BY <2>1, <2>2, <2>3
  <2>5. Again(last) = <<"symbol", val, place - at>>
    BY <2>1, <2>4, NextPlace
  <2> HIDE DEF place
  <2>6. Ready(<<"symbol", val, place - at>>, "PRINT", static', prev_token', yylval', files')
    BY <1>2, <1>8, <1>10, <1>14, <2>3 DEF Ready, at
  <2>7. last # <<>> /\ effects' = Append(effects, <<"symbol", val, place - at>>)
    BY <1>7, <1>14, <2>1
  <2>8. QED BY <1>11, <2>5, <2>6, <2>7
<1>15. QED BY <1>12, <1>13, <1>14

(* What is heard is only ever added to. *)
LEMMA PlainBefore ==
  ASSUME IsSequence(heard), Heard, PlainLines(heard')
  PROVE  /\ PlainLines(heard)
         /\ \A x : Begun = <<x>> => PlainLines(Append(heard, x))
<1>1. (Begun = <<>> \/ \E x : Begun = <<x>>) /\ (Swallowed = <<>> \/ \E y : Swallowed = <<y>>)
  BY DEF Begun, Swallowed
<1>2. ASSUME NEW h, IsSequence(h), NEW more, more = <<>> \/ \E y : more = <<y>>, PlainLines(h \o more)
      PROVE  PlainLines(h)
  <2>1. CASE more = <<>>
    BY <1>2, <2>1, Longer
  <2>2. CASE \E y : more = <<y>>
    <3>1. PICK y : more = <<y>>
      BY <2>2
    <3>2. PlainLines(Append(h, y))
      BY <1>2, <3>1, Longer
    <3>3. QED BY <1>2, <3>2, PlainShorter
  <2>3. QED BY <1>2, <2>1, <2>2
<1>3. PlainLines((heard \o Begun) \o Swallowed)
  BY DEF Heard
<1>4. IsSequence(heard \o Begun) /\ (\A x : Begun = <<x>> => heard \o Begun = Append(heard, x))
  <2>1. ASSUME NEW x, Begun = <<x>>
        PROVE  heard \o Begun = Append(heard, x) /\ IsSequence(Append(heard, x))
    <3>1. heard \o <<x>> = Append(heard, x) /\ IsSequence(Append(heard, x))
      BY Longer
    <3>2. QED BY <2>1, <3>1
  <2>2. ASSUME Begun = <<>>
        PROVE  heard \o Begun = heard
    BY <2>2, Longer
  <2>3. QED BY <1>1, <2>1, <2>2
<1>5. PlainLines(heard \o Begun)
  BY <1>1, <1>2, <1>3, <1>4
<1>6. PlainLines(heard)
  BY <1>1, <1>2, <1>5
<1>7. ASSUME NEW x, Begun = <<x>>
      PROVE  PlainLines(Append(heard, x))
  <2>1. heard \o Begun = Append(heard, x)
    BY <1>4, <1>7
  <2>2. QED BY <1>5, <2>1
<1>8. QED BY <1>6, <1>7

LEMMA PlainOfNext == Plain' <=> PlainLines(heard')
BY PlainIsPlain DEF Plain, PlainLines

(* Every command hears the line that it begins with. *)
LEMMA CommandsHear ==
  ASSUME Prompt, ~Crash
  PROVE  Heard
BY DEF Prompt, Exit, Read, Run, Continue, Step, PrintPlace, PrintSymbols, PrintAllRegs, Reinitialize,
       Assemble, Redo, Nop, Help, SetBreakpoint, DeleteBreakpoint, Breakpoint, ListBreakpoints, DumpText,
       DumpNativeText, Dump, Unknown, EndOfInput, Scanned

(* The actions of the prompt, by their command. *)
Does(cmd) ==
  /\ cmd = "EXIT" => Exit
  /\ cmd = "READ" => Read
  /\ cmd = "RUN" => Run
  /\ cmd = "CONTINUE" => Continue
  /\ cmd = "STEP" => Step
  /\ cmd = "PRINT" => PrintPlace
  /\ cmd = "PRINT_SYM" => PrintSymbols
  /\ cmd = "PRINT_ALL_REGS" => PrintAllRegs
  /\ cmd = "REINITIALIZE" => Reinitialize
  /\ cmd = "ASM" => Assemble
  /\ cmd = "REDO" => Redo
  /\ cmd = "NOP" => Nop
  /\ cmd = "HELP" => Help
  /\ cmd = "LIST_BKPT" => ListBreakpoints
  /\ cmd = "SET_BKPT" => SetBreakpoint
  /\ cmd = "DELETE_BKPT" => DeleteBreakpoint
  /\ cmd = "DUMP_TEXT" => DumpText
  /\ cmd = "DUMPNATIVE_TEXT" => DumpNativeText
AllCommands ==
  {"EXIT", "READ", "RUN", "CONTINUE", "STEP", "PRINT", "PRINT_SYM", "PRINT_ALL_REGS", "REINITIALIZE", "ASM",
   "REDO", "NOP", "HELP", "LIST_BKPT", "SET_BKPT", "DELETE_BKPT", "DUMP_TEXT", "DUMPNATIVE_TEXT", "UNKNOWN"}

LEMMA CommandDone ==
  ASSUME Prompt, ~Crash, ~EndOfInput
  PROVE  Does(Command) /\ Command \in AllCommands /\ AtTerminal /\ Behind.token # End
<1>1. ASSUME NEW cmd, Gives(cmd)
      PROVE  Command = cmd /\ AtTerminal /\ Behind.token # End
  BY <1>1 DEF Gives
<1> HIDE DEF Gives
<1>2. CASE Exit
  BY <1>1, <1>2 DEF Exit, Does, AllCommands
<1>3. CASE Read
  <2>1. Gives("READ")
    BY <1>3, Zenon DEF Read
  <2>2. QED BY <1>1, <1>3, <2>1 DEF Does, AllCommands
<1>4. CASE Run
  BY <1>1, <1>4 DEF Run, Does, AllCommands
<1>5. CASE Continue
  BY <1>1, <1>5 DEF Continue, Does, AllCommands
<1>6. CASE Step
  BY <1>1, <1>6 DEF Step, Does, AllCommands
<1>7. CASE PrintPlace
  <2>1. Gives("PRINT")
    BY <1>7, Zenon DEF PrintPlace
  <2>2. QED BY <1>1, <1>7, <2>1 DEF Does, AllCommands
<1>8. CASE PrintSymbols
  BY <1>1, <1>8 DEF PrintSymbols, Does, AllCommands
<1>9. CASE PrintAllRegs
  BY <1>1, <1>9 DEF PrintAllRegs, Does, AllCommands
<1>10. CASE Reinitialize
  <2>1. Gives("REINITIALIZE")
    BY <1>10, Zenon DEF Reinitialize
  <2>2. QED BY <1>1, <1>10, <2>1 DEF Does, AllCommands
<1>11. CASE Assemble
  BY <1>1, <1>11 DEF Assemble, Does, AllCommands
<1>12. CASE Redo
  BY <1>1, <1>12 DEF Redo, Does, AllCommands
<1>13. CASE Nop
  BY <1>1, <1>13 DEF Nop, Does, AllCommands
<1>14. CASE Help
  BY <1>1, <1>14 DEF Help, Does, AllCommands
<1>15. CASE SetBreakpoint
  <2>1. Gives("SET_BKPT")
    BY <1>15, Zenon DEF SetBreakpoint, Breakpoint
  <2>2. QED BY <1>1, <1>15, <2>1 DEF Does, AllCommands
<1>16. CASE DeleteBreakpoint
  <2>1. Gives("DELETE_BKPT")
    BY <1>16, Zenon DEF DeleteBreakpoint, Breakpoint
  <2>2. QED BY <1>1, <1>16, <2>1 DEF Does, AllCommands
<1>17. CASE ListBreakpoints
  BY <1>1, <1>17 DEF ListBreakpoints, Does, AllCommands
<1>18. CASE DumpText
  <2>1. Gives("DUMP_TEXT")
    BY <1>18 DEF DumpText, Dump
  <2>2. QED BY <1>1, <1>18, <2>1 DEF Does, AllCommands
<1>19. CASE DumpNativeText
  <2>1. Gives("DUMPNATIVE_TEXT")
    BY <1>19 DEF DumpNativeText, Dump
  <2>2. QED BY <1>1, <1>19, <2>1 DEF Does, AllCommands
<1>20. CASE Unknown
  BY <1>1, <1>20 DEF Unknown, Does, AllCommands
<1>21. QED
  BY <1>2, <1>3, <1>4, <1>5, <1>6, <1>7, <1>8, <1>9, <1>10, <1>11, <1>12, <1>13, <1>14, <1>15, <1>16,
     <1>17, <1>18, <1>19, <1>20 DEF Prompt

(* A blank line repeats the command before, or nothing. *)
LEMMA RedoAnswered ==
  ASSUME redo, status = "prompt", InputInv, SessionInv, IsSequence(heard), Plain,
         Prompt, ~Crash, ~EndOfInput
  PROVE  \E cmd : Answered(cmd)
<1>1. Does(Command) /\ Command = prev_cmd
  BY CommandDone DEF Command
<1>2. Ready(SaidBy(Front(heard)).last, prev_cmd, static, prev_token, yylval, files)
  BY RedoScanned
<1>3. prev_cmd \in {"NOP", "RUN", "STEP", "PRINT", "HELP", "LIST_BKPT"}
  BY <1>2 DEF Ready
<1>4. CASE prev_cmd \in {"NOP", "HELP", "LIST_BKPT"}
  <2>1. Nop \/ Help \/ ListBreakpoints
    BY <1>1, <1>4 DEF Does
  <2>2. QED BY <2>1, QuietRedone
<1>5. CASE prev_cmd = "RUN"
  <2>1. Run
    BY <1>1, <1>5 DEF Does
  <2>2. QED BY <2>1, RunRedone
<1>6. CASE prev_cmd = "STEP"
  <2>1. Step
    BY <1>1, <1>6 DEF Does
  <2>2. QED BY <2>1, StepRedone
<1>7. CASE prev_cmd = "PRINT"
  <2>1. PrintPlace
    BY <1>1, <1>7 DEF Does
  <2>2. QED BY <2>1, PrintRedone
<1>8. QED BY <1>3, <1>4, <1>5, <1>6, <1>7

(* The commands that read their own line and nothing else: continue leaves   *)
(* the rest of its line, print_all_regs without hex takes the next one.      *)
ReadsItsLine(line) == Meaning[line] \notin {<<"continue">>, <<"regs", FALSE>>}

LEMMA MeaningAnswered ==
  ASSUME NEW line, NEW rest \in Unread, NEW ty \in Seq(Lines), LineScanned(line, rest, ty),
         ReadsItsLine(line), IsSequence(heard), InputInv, SessionInv, status = "prompt", ~redo,
         Does(Command), Command \in AllCommands, Command # "EXIT"
  PROVE  \E cmd : Answered(cmd)
<1>1. Told(line, Meaning[line]) /\ Command = read_assembly_command(line[1]) /\ line \in DOMAIN Meaning
  BY DEF LineScanned
<1>2. Command \notin {"REDO", "NOP", "UNKNOWN"} /\ (Command = "CONTINUE" => Meaning[line] = <<"continue">>)
  BY <1>1 DEF Told
<1>3. Command # "CONTINUE"
  BY <1>2 DEF ReadsItsLine
<1>4. \E cmd : LineAnswered(line, cmd)
  <2>1. CASE Command = "RUN"
    <3>1. Run
      BY <2>1 DEF Does
    <3>2. LineAnswered(line, "RUN")
      BY <3>1, RunAnswered
    <3>3. QED BY <3>2
  <2>2. CASE Command = "STEP"
    <3>1. Step
      BY <2>2 DEF Does
    <3>2. LineAnswered(line, "STEP")
      BY <3>1, StepAnswered
    <3>3. QED BY <3>2
  <2>3. CASE Command = "PRINT"
    <3>1. PrintPlace
      BY <2>3 DEF Does
    <3>2. LineAnswered(line, "PRINT")
      BY <3>1, PrintAnswered
    <3>3. QED BY <3>2
  <2>4. CASE Command \in {"PRINT_SYM", "HELP", "LIST_BKPT"}
    <3>1. Help \/ ListBreakpoints \/ PrintSymbols
      BY <2>4 DEF Does
    <3>2. QED BY <3>1, PlainCommandAnswered
  <2>5. CASE Command = "PRINT_ALL_REGS"
    <3>1. PrintAllRegs
      BY <2>5 DEF Does
    <3>2. Meaning[line] # <<"regs", FALSE>>
      BY DEF ReadsItsLine
    <3>3. LineAnswered(line, "NOP")
      BY <3>1, <3>2, PrintAllRegsAnswered
    <3>4. QED BY <3>3
  <2>6. CASE Command = "REINITIALIZE"
    <3>1. Reinitialize
      BY <2>6 DEF Does
    <3>2. LineAnswered(line, "NOP")
      BY <3>1, ReinitializeAnswered
    <3>3. QED BY <3>2
  <2>7. CASE Command \in {"ASM", "SET_BKPT", "DELETE_BKPT", "DUMP_TEXT", "DUMPNATIVE_TEXT"}
    <3>1. Assemble \/ SetBreakpoint \/ DeleteBreakpoint \/ DumpText \/ DumpNativeText
      BY <2>7 DEF Does
    <3>2. LineAnswered(line, "none")
      BY <3>1, UnrepeatedAnswered
    <3>3. QED BY <3>2
  <2>8. CASE Command = "READ"
    <3>1. Read
      BY <2>8 DEF Does
    <3>2. LineAnswered(line, "none")
      BY <3>1, ReadAnswered
    <3>3. QED BY <3>2
  <2>9. QED BY <1>2, <1>3, <2>1, <2>2, <2>3, <2>4, <2>5, <2>6, <2>7, <2>8 DEF AllCommands
<1>5. PICK cmd : LineAnswered(line, cmd)
  BY <1>4
<1>6. effects = SaidBy(heard).did
  BY DEF SessionInv, Followed
<1>7. /\ IsSequence(heard') /\ effects' = SaidBy(heard').did
      /\ Repeatable(heard') => Ready(SaidBy(heard').last, cmd, static', prev_token', yylval', files')
      /\ Repeatable(heard') => Meaning[line][1] \notin NotRepeated
  BY <1>1, <1>5, <1>6, LineSaid
<1>8. Answered(cmd)
  BY <1>5, <1>7 DEF LineAnswered, Answered
<1>9. QED BY <1>8

(* A blank line makes the next prompt a redo. *)
LEMMA BlankAnswered ==
  ASSUME NEW w \in Lines, NEW ty \in Seq(Lines), Filled(Terminal) = St(w, ty, NL, yylval),
         ~redo, yytoken = NL, Line(Terminal) = <<NL>>, status = "prompt",
         IsSequence(heard), InputInv, SessionInv, Redo
  PROVE  /\ IsSequence(heard') /\ redo' /\ status' = "prompt" /\ job' = job
         /\ InputInv' /\ SessionInv'
<1>1. PICK rest \in Unread : Opened = St(rest, ty, NL, yylval)
  BY BlankScanned
<1>2. Begun = <<<<NL>>>> /\ Swallowed = <<>>
  BY BlankScanned
<1>3. Scanned(Opened)
  BY DEF Redo
<1>4. Opened.unread = rest /\ Opened.typed = ty /\ Opened.token = NL /\ Opened.value = yylval
  BY <1>1 DEF St
<1> DEFINE more == Append(heard, <<NL>>)
<1>5. heard' = more /\ IsSequence(more) /\ Front(more) = heard
  <2>1. heard' = (heard \o <<<<NL>>>>) \o <<>>
    BY <1>2, <1>3 DEF Scanned, Heard
  <2>2. heard \o <<<<NL>>>> = more /\ IsSequence(more) /\ more \o <<>> = more
    BY Longer
  <2>3. QED BY <2>1, <2>2, FrontOfAppend
<1>6. buffers' = Append(Front(buffers), [file |-> "terminal", unread |-> rest])
  BY <1>3, <1>4 DEF Scanned
<1>7. buffers' \in Seq(Buffers) /\ YYIn(buffers') = "terminal"
  BY <1>6, TerminalKept DEF SessionInv
<1>8. typed' = ty /\ yytoken' = NL /\ yylval' = yylval
  BY <1>3, <1>4 DEF Scanned
<1>9. /\ redo' /\ status' = status /\ job' = job /\ settings' = settings /\ prev_cmd' = prev_cmd
      /\ prev_token' = prev_token /\ static' = static /\ files' = files /\ effects' = effects
  BY DEF Redo, call, world
<1>10. InputInv'
  BY <1>8, <1>9 DEF InputInv
<1>11. Followed(heard, prev_cmd)
  BY DEF SessionInv
<1>12. /\ effects' = SaidBy(heard).did
       /\ Repeatable(heard) => Ready(SaidBy(heard).last, prev_cmd', static', prev_token', yylval', files')
  BY <1>8, <1>9, <1>11 DEF Followed
<1>13. SessionInv'
  <2>1. \E h \in {Front(heard')} : IsSequence(h) /\ heard' = Append(h, <<NL>>)
             /\ effects' = SaidBy(h).did
             /\ (Repeatable(h) => Ready(SaidBy(h).last, prev_cmd', static', prev_token', yylval', files'))
    BY <1>5, <1>12
  <2>2. QED BY <1>7, <1>9, <2>1 DEF SessionInv, AtTerminal, Followed
<1>14. QED BY <1>5, <1>9, <1>10, <1>13

LEMMA AnsweredKept ==
  ASSUME NEW cmd, Answered(cmd), InputInv, SessionInv, status = "prompt"
  PROVE  InputInv' /\ SessionInv'
<1>1. /\ effects' = SaidBy(heard').did
      /\ Repeatable(heard') => Ready(SaidBy(heard').last, cmd, static', prev_token', yylval', files')
      /\ typed' \in Seq(Lines) /\ yytoken' = NL
      /\ buffers' \in Seq(Buffers) /\ AtTerminal' /\ files' \in Seq(Existing) /\ settings' = settings
      /\ DOMAIN static' = DOMAIN static
      /\ \/ status' = "prompt" /\ ~redo' /\ job' = job /\ (prev_cmd' = cmd \/ ~Repeatable(heard'))
         \/ status' \in Live /\ job' = cmd /\ cmd \in {"RUN", "STEP"}
  BY DEF Answered
<1>2. InputInv'
  BY <1>1 DEF InputInv, Live, Lending, Statuses
<1>3. ReadHandler(settings')
  BY <1>1 DEF SessionInv
<1>4. CASE status' = "prompt" /\ ~redo' /\ (prev_cmd' = cmd \/ ~Repeatable(heard'))
  <2>1. Repeatable(heard') => Ready(SaidBy(heard').last, prev_cmd', static', prev_token', yylval', files')
    BY <1>1, <1>4
  <2>2. SessionInv'
    BY <1>1, <1>3, <1>4, <2>1 DEF SessionInv, Followed
  <2>3. QED BY <1>2, <2>2
<1>5. CASE status' \in Live /\ job' = cmd /\ cmd \in {"RUN", "STEP"}
  <2>1. SessionInv'
    BY <1>1, <1>3, <1>5 DEF SessionInv, Followed, Live, Lending
  <2>2. QED BY <1>2, <2>1
<1>6. QED BY <1>1, <1>4, <1>5

LEMMA LineNotCut ==
  ASSUME NEW w \in Lines, NEW ty, NEW tok, NEW val, NEW s, Filled(s) = St(w, ty, tok, val)
  PROVE  Line(s) # Cut
<1> DEFINE n == Len(w)
<1>1. PICK m \in 1..n : w[m] = NL /\ \A j \in 1..(m - 1) : w[j] # NL
  BY FirstNewline
<1>2. Line(s) = SubSeq(w, 1, m)
  BY <1>1, LineRead
<1>3. w \in Seq(Tokens) /\ n \in Nat
  BY DEF Lines
<1> HIDE DEF n
<1>4. ASSUME SubSeq(w, 1, m) = Cut
      PROVE  FALSE
  <2>1. Len(SubSeq(w, 1, m)) = m /\ SubSeq(w, 1, m)[m] = w[m]
    BY <1>1, <1>3 DEF n
  <2>2. Len(Cut) = 1 /\ Cut[1] = End
    BY DEF Cut
  <2>3. w[m] = End
    BY <1>4, <2>1, <2>2
  <2>4. NL.t # End.t
    BY DEF NL, End
  <2>5. QED BY <1>1, <2>3, <2>4
<1>5. QED BY <1>2, <1>4

LEMMA PromptAtPrompt ==
  ASSUME Prompt
  PROVE  status = "prompt" /\ (Crash \/ Exit \/ EndOfInput => status' \in {"exited", "undefined"})
BY DEF Prompt, Exit, Read, Run, Continue, Step, PrintPlace, PrintSymbols, PrintAllRegs, Reinitialize,
       Assemble, Redo, Nop, Help, SetBreakpoint, DeleteBreakpoint, Breakpoint, ListBreakpoints, DumpText,
       DumpNativeText, Dump, Unknown, EndOfInput, Crash, Gives

LEMMA PromptKept ==
  ASSUME CommandInv, Prompt, \A line \in DOMAIN Meaning : ReadsItsLine(line)
  PROVE  CommandInv'
<1>1. status = "prompt" /\ (Crash \/ Exit \/ EndOfInput => status' \in {"exited", "undefined"})
  BY PromptAtPrompt
<1>2. IsSequence(heard)
  BY DEF CommandInv
<1>3. IsSequence(heard') /\ (Plain' => Plain)
  <2>1. CASE Crash
    <3>1. heard' = heard
      BY <2>1 DEF Crash, input
    <3>2. PlainLines(heard') <=> PlainLines(heard)
      BY <3>1
    <3>3. QED BY <1>2, <3>1, <3>2, PlainOfNext, PlainIsPlain
  <2>2. CASE ~Crash
    <3>1. Heard
      BY <2>2, CommandsHear
    <3>2. IsSequence(heard')
      BY <1>2, <3>1, SequenceHeard
    <3>3. PlainLines(heard') => PlainLines(heard)
      BY <1>2, <3>1, PlainBefore
    <3>4. QED BY <3>2, <3>3, PlainOfNext, PlainIsPlain
  <2>3. QED BY <2>1, <2>2
<1>4. ASSUME Plain', status' \notin Gone
      PROVE  InputInv' /\ SessionInv'
  <2>1. ~Crash /\ ~EndOfInput /\ ~Exit
    BY <1>1, <1>4 DEF Gone
  <2>2. Plain /\ PlainLines(heard')
    BY <1>3, <1>4, PlainOfNext
  <2>3. InputInv
    BY <1>1, <2>2 DEF CommandInv, Gone
  <2>4. job = "none"
    BY <1>1, <2>3 DEF InputInv
  <2>5. SessionInv
    BY <1>1, <2>2, <2>4 DEF CommandInv
  <2>6. Does(Command) /\ Command \in AllCommands /\ AtTerminal /\ Behind.token # End
    BY <2>1, CommandDone
  <2>7. CASE redo
    <3>1. PICK cmd : Answered(cmd)
      BY <1>1, <1>2, <2>1, <2>2, <2>3, <2>5, <2>7, RedoAnswered
    <3>2. QED BY <1>1, <2>3, <2>5, <3>1, AnsweredKept
  <2>8. CASE ~redo
    <3>1. buffers \in Seq(Buffers) /\ typed \in Seq(Lines) /\ yytoken = NL
      BY <2>3, <2>5 DEF InputInv, SessionInv
    <3>2. \E w \in Lines : \E ty \in Seq(Lines) : Filled(Terminal) = St(w, ty, yytoken, yylval)
      BY <2>6, <2>8, <3>1, PromptRead
    <3>3. PICK w \in Lines : \E ty \in Seq(Lines) : Filled(Terminal) = St(w, ty, yytoken, yylval)
      BY <3>2
    <3>4. PICK ty \in Seq(Lines) : Filled(Terminal) = St(w, ty, NL, yylval)
      BY <3>1, <3>3
    <3> DEFINE line == Line(Terminal)
    <3>5. Begun = <<line>>
      BY <2>8, <3>1 DEF Begun
    <3>6. Heard
      BY <2>1, CommandsHear
    <3>7. PlainLines(Append(heard, line))
      BY <1>2, <2>2, <3>5, <3>6, PlainBefore
    <3>8. line \in DOMAIN Meaning \cup {<<NL>>, Cut}
      BY <1>2, <3>7, PlainShorter
    <3>9. line # Cut
      BY <3>4, LineNotCut
    <3>10. CASE line = <<NL>>
      <4>1. Command = "REDO"
        BY <2>8, <3>1, <3>4, <3>10, BlankScanned
      <4>2. Redo
        BY <2>6, <4>1 DEF Does
      <4>3. QED BY <1>1, <1>2, <2>3, <2>5, <2>8, <3>1, <3>4, <3>10, <4>2, BlankAnswered
    <3>11. CASE line \in DOMAIN Meaning
      <4>1. PICK rest \in Unread : LineScanned(line, rest, ty)
        BY <2>8, <3>1, <3>4, <3>11, MeaningScanned
      <4>2. Command # "EXIT"
        <5>1. Told(line, Meaning[line]) /\ Command = read_assembly_command(line[1])
          BY <4>1 DEF LineScanned
        <5>2. QED BY <5>1 DEF Told
      <4>3. PICK cmd : Answered(cmd)
        BY <1>1, <1>2, <2>3, <2>5, <2>6, <2>8, <3>11, <4>1, <4>2, MeaningAnswered
      <4>4. QED BY <1>1, <2>3, <2>5, <4>3, AnsweredKept
    <3>12. QED BY <3>8, <3>9, <3>10, <3>11
  <2>9. QED BY <2>7, <2>8
<1>5. QED BY <1>3, <1>4 DEF CommandInv, Gone, Live, Lending

LEMMA CommandInit ==
  ASSUME Init
  PROVE  CommandInv
<1>1. PICK use \in Uses : typed = use.lines
  BY DEF Init
<1>2. use.lines \in Seq(Range(use.lines)) /\ \A line \in Range(use.lines) : IsLine(line)
  BY InputAssumption
<1>3. Range(use.lines) \subseteq Lines
  <2>1. ASSUME NEW line \in Range(use.lines)
        PROVE  line \in Lines
    <3>1. line \in Seq(Range(line)) /\ line # <<>> /\ Last(line) = NL
      BY <1>2 DEF IsLine
    <3>2. Range(line) \subseteq Tokens
      BY DEF Tokens
    <3>3. line \in Seq(Tokens)
      BY <3>1, <3>2
    <3>4. QED BY <3>1, <3>3 DEF Lines
  <2>2. QED BY <2>1
<1>4. typed \in Seq(Lines)
  BY <1>1, <1>2, <1>3
<1>5. status = "start" /\ heard = <<>> /\ effects = <<>> /\ ~redo /\ prev_cmd = "NOP" /\ job = "none" /\ yytoken = NL
  BY DEF Init
<1>6. DOMAIN static = {"addr", "steps", "loc", "bkpt"}
  BY DEF Init
<1>7. QED BY <1>4, <1>5, <1>6, EmptySequence DEF CommandInv, InputInv, Statuses, Gone, Live, Lending

(* Nothing is heard before the first prompt. *)
LEMMA MainKept ==
  ASSUME CommandInv, Main
  PROVE  CommandInv'
<1>1. heard' = heard /\ status = "start"
  BY DEF Main, TopLevel, FileLoaded, WriteCode, RunFile, CannotReadHandler, input
<1>2. IsSequence(heard') /\ (Plain' => Plain)
  <2>1. PlainLines(heard') <=> PlainLines(heard)
    BY <1>1
  <2>2. QED BY <1>1, <2>1, PlainOfNext, PlainIsPlain DEF CommandInv
<1>3. ASSUME Plain', status' \notin Gone
      PROVE  InputInv' /\ (job' # "file" => SessionInv')
  <2>1. InputInv
    BY <1>1, <1>2, <1>3 DEF CommandInv, Gone
  <2>2. TopLevel \/ RunFile
    BY <1>3 DEF Main, WriteCode, CannotReadHandler, Gone
  <2>3. typed' = typed /\ yytoken' = yytoken /\ static' = static /\ redo' = redo /\ prev_cmd' = prev_cmd
    BY <2>2 DEF TopLevel, RunFile, FileLoaded, memory
  <2>4. CASE RunFile
    <3>1. status' \in Live /\ job' = "file"
      BY <2>4 DEF RunFile, console_to_program, Live, Lending
    <3>2. QED BY <2>1, <2>3, <3>1 DEF InputInv, Live, Lending, Statuses
  <2>5. CASE TopLevel
    <3>1. /\ status' = "prompt" /\ job' = job /\ effects' = effects /\ settings' = Options
          /\ ReadHandler(Options) /\ files' = Handler(Options)
          /\ buffers' = IF Options.file = "none" THEN ScannerOfWorld(<<>>, Options)
                        ELSE ScannerOfWorld(ScannerOfWorld(<<>>, Options), Options)
      <4>1. buffers' = IF Options.file = "none" THEN ScannerOfWorld(<<>>, Options)
                       ELSE ScannerOfWorld(ScannerOfWorld(<<>>, Options), Options)
        BY <2>5, Zenon DEF TopLevel
      <4>2. /\ status' = "prompt" /\ settings' = Options /\ ReadHandler(Options)
            /\ job' = job /\ effects' = effects
        BY <2>5 DEF TopLevel
      <4>3. files' = Handler(Options)
        <5>1. initialize_world(Options)
          BY <2>5 DEF TopLevel
        <5>2. QED BY <5>1, Zenon DEF initialize_world
      <4>4. QED BY <4>1, <4>2, <4>3
    <3>2. heard = <<>> /\ effects = <<>> /\ ~redo /\ prev_cmd = "NOP" /\ job = "none"
      BY <1>1, <2>1 DEF InputInv
    <3>3. InputInv'
      BY <2>1, <2>3, <3>1, <3>2 DEF InputInv, Statuses
    <3> DEFINE once == ScannerOfWorld(<<>>, Options)
    <3>4. once \in Seq(Buffers) /\ YYIn(once) = "terminal" /\ Handler(Options) \in Seq(Existing)
      <4>1. \A bufs : bufs = <<>> => bufs \in Seq(Buffers)
        OBVIOUS
      <4>2. ReadHandler(Options)
        BY <3>1
      <4>3. QED BY <4>1, <4>2, WorldScanned
    <3> HIDE DEF once
    <3>5. ScannerOfWorld(once, Options) \in Seq(Buffers) /\ YYIn(ScannerOfWorld(once, Options)) = "terminal"
      BY <3>1, <3>4, WorldScanned
    <3>6. buffers' = IF Options.file = "none" THEN once ELSE ScannerOfWorld(once, Options)
      BY <3>1 DEF once
    <3>7. buffers' \in Seq(Buffers) /\ AtTerminal'
      BY <3>4, <3>5, <3>6 DEF AtTerminal
    <3>8. /\ effects' = SaidBy(heard').did /\ ~redo' /\ ReadHandler(settings') /\ files' \in Seq(Existing)
          /\ Ready(SaidBy(heard').last, prev_cmd', static', prev_token', yylval', files')
      <4>1. SaidBy(heard') = [last |-> <<>>, did |-> <<>>]
        BY <1>1, <3>2, NothingSaid DEF Nothing
      <4>2. SaidBy(heard').last = <<>> /\ SaidBy(heard').did = <<>>
        BY <4>1
      <4>3. Ready(SaidBy(heard').last, prev_cmd', static', prev_token', yylval', files')
        BY <2>3, <3>2, <4>2 DEF Ready
      <4>4. QED BY <2>3, <3>1, <3>2, <3>4, <4>2, <4>3
    <3>9. SessionInv'
      BY <3>1, <3>7, <3>8 DEF SessionInv, Followed
    <3>10. QED BY <3>3, <3>9
  <2>6. QED BY <2>2, <2>4, <2>5
<1>4. QED BY <1>2, <1>3 DEF CommandInv, Gone, Live, Lending

LEMMA ProgramKept ==
  ASSUME CommandInv, Program
  PROVE  CommandInv'
<1>1. IsSequence(heard)
  BY DEF CommandInv
<1>2. CASE Killed \/ FatalError
  <2>1. heard' = heard /\ status' \in {"exited", "aborted"}
    BY <1>2 DEF Killed, FatalError, input
  <2>2. QED BY <1>1, <2>1 DEF CommandInv, Gone, Live, Lending
<1>3. CASE Lent \/ SwitchOut \/ SwitchIn
  <2>1. /\ typed' = typed /\ buffers' = buffers /\ yytoken' = yytoken /\ yylval' = yylval /\ heard' = heard
        /\ settings' = settings /\ redo' = redo /\ prev_cmd' = prev_cmd /\ prev_token' = prev_token
        /\ static' = static /\ files' = files /\ job' = job /\ effects' = effects
        /\ status \in Live /\ status' \in Live
    BY <1>3 DEF Lent, SwitchOut, SwitchIn, console_to_program, input, call, memory, world, Live, Lending
  <2>2. Plain' <=> Plain
    BY <2>1 DEF Plain
  <2>3. InputInv => InputInv'
    BY <2>1 DEF InputInv, Live, Lending, Statuses
  <2>4. SessionInv => SessionInv'
    BY <2>1 DEF SessionInv, AtTerminal, Followed, Live, Lending
  <2>5. QED BY <1>1, <2>1, <2>2, <2>3, <2>4 DEF CommandInv, Gone, Live, Lending
<1>4. CASE TakeInput
  <2>1. /\ buffers' = buffers /\ yytoken' = yytoken /\ yylval' = yylval /\ heard' = heard
        /\ settings' = settings /\ redo' = redo /\ prev_cmd' = prev_cmd /\ prev_token' = prev_token
        /\ static' = static /\ files' = files /\ job' = job /\ effects' = effects
        /\ status \in {"running", "switched"} /\ status' = status
        /\ typed # <<>> /\ typed' = Tail(typed)
    BY <1>4 DEF TakeInput, call, memory, world
  <2>2. Plain' <=> Plain
    BY <2>1 DEF Plain
  <2>3. InputInv => InputInv'
    <3>1. typed \in Seq(Lines) => Tail(typed) \in Seq(Lines)
      BY <2>1
    <3>2. QED BY <2>1, <3>1 DEF InputInv
  <2>4. SessionInv => SessionInv'
    BY <2>1 DEF SessionInv, AtTerminal, Followed
  <2>5. QED BY <1>1, <2>1, <2>2, <2>3, <2>4 DEF CommandInv
<1>5. CASE Ends
  <2>1. /\ typed' = typed /\ buffers' = buffers /\ yytoken' = yytoken /\ yylval' = yylval /\ heard' = heard
        /\ settings' = settings /\ prev_token' = prev_token /\ static' = static /\ files' = files
        /\ effects' = effects /\ redo' = FALSE /\ status = "running" /\ job' = "none"
        /\ status' = (IF job = "file" THEN "exited" ELSE "prompt")
        /\ prev_cmd' = (IF job = "file" THEN prev_cmd ELSE job)
    BY <1>5 DEF Ends, Over, LeftBehind, input, call
  <2>2. Plain' <=> Plain
    BY <2>1 DEF Plain
  <2>3. CASE job = "file"
    BY <1>1, <2>1, <2>3 DEF CommandInv, Gone, Live, Lending
  <2>4. CASE job # "file"
    <3>1. status' = "prompt" /\ prev_cmd' = job
      BY <2>1, <2>4
    <3>2. InputInv => InputInv'
      BY <2>1, <3>1 DEF InputInv, Statuses
    <3>3. SessionInv => SessionInv'
      BY <2>1, <3>1 DEF SessionInv, AtTerminal, Followed
    <3>4. QED BY <1>1, <2>1, <2>2, <2>4, <3>2, <3>3 DEF CommandInv, Gone, Live, Lending
  <2>5. QED BY <2>3, <2>4
<1>6. CASE LongJump \/ LongJumpUnnoted
  <2>1. /\ typed' = typed /\ buffers' = buffers /\ yytoken' = yytoken /\ yylval' = yylval /\ heard' = Append(heard, Cut)
        /\ settings' = settings /\ prev_token' = prev_token /\ static' = static /\ files' = files
        /\ effects' = effects /\ redo' = FALSE /\ status \in Live /\ job' = "none"
        /\ status' = (IF job = "file" THEN "exited" ELSE "prompt")
    BY <1>6 DEF LongJump, LongJumpUnnoted, Over, LeftBehind, call, world, Live, Lending
  <2>2. IsSequence(heard')
    BY <1>1, <2>1, Longer
  <2>3. Plain' => Plain
    BY <1>1, <2>1, PlainOfNext, PlainIsPlain, PlainShorter
  <2>4. CASE job = "file"
    BY <2>1, <2>2, <2>4 DEF CommandInv, Gone, Live, Lending
  <2>5. CASE job # "file"
    <3>1. status' = "prompt"
      BY <2>1, <2>5
    <3>2. InputInv => InputInv'
      BY <2>1, <3>1 DEF InputInv, Statuses
    <3>3. SaidBy(heard') = SaidBy(heard)
      BY <1>1, <2>1, SaidByMore, CutUnderstood
    <3>4. ~Repeatable(heard')
      <4>1. Cut # <<NL>>
        BY DEF Cut, NL, End
      <4>2. QED BY <1>1, <2>1, <4>1, RepeatableLine
    <3>5. SessionInv => SessionInv'
      BY <2>1, <3>1, <3>3, <3>4 DEF SessionInv, AtTerminal, Followed, Live, Lending
    <3>6. QED BY <2>1, <2>2, <2>3, <2>5, <3>2, <3>5 DEF CommandInv, Gone, Live, Lending
  <2>6. QED BY <2>4, <2>5
<1>7. QED BY <1>2, <1>3, <1>4, <1>5, <1>6 DEF Program

LEMMA CommandStutters ==
  ASSUME CommandInv, UNCHANGED vars
  PROVE  CommandInv'
<1>1. /\ typed' = typed /\ buffers' = buffers /\ yytoken' = yytoken /\ yylval' = yylval /\ heard' = heard
      /\ settings' = settings /\ redo' = redo /\ prev_cmd' = prev_cmd /\ prev_token' = prev_token
      /\ static' = static /\ files' = files /\ job' = job /\ effects' = effects /\ status' = status
  BY DEF vars, input, call, memory, world
<1>2. Plain' <=> Plain
  BY <1>1 DEF Plain
<1>3. InputInv => InputInv'
  BY <1>1 DEF InputInv
<1>4. SessionInv => SessionInv'
  BY <1>1 DEF SessionInv, AtTerminal, Followed
<1>5. QED BY <1>1, <1>2, <1>3, <1>4 DEF CommandInv

(* The inductive invariant says more than the property. *)
LEMMA CommandInvMeant ==
  ASSUME CommandInv
  PROVE  CommandsMeant
<1>1. Said = SaidBy(heard).did
  BY Zenon DEF Said, SaidBy, Nothing
<1>2. ASSUME status = "prompt", ~redo, Plain
      PROVE  effects = Said
  <2>1. InputInv
    BY <1>2 DEF CommandInv, Gone
  <2>2. job # "file"
    BY <1>2, <2>1 DEF InputInv
  <2>3. SessionInv
    BY <1>2, <2>2 DEF CommandInv
  <2>4. QED BY <1>1, <1>2, <2>3 DEF SessionInv, Followed
<1>3. QED BY <1>2 DEF CommandsMeant

(* Every line the help text speaks of does what it says, once and in order, *)
(* and every blank line what was done last, again: for every help text whose *)
(* commands read their line, every session, and every set of files.          *)
THEOREM EveryLineMeant ==
  ASSUME \A line \in DOMAIN Meaning : ReadsItsLine(line)
  PROVE  Spec => []CommandsMeant
<1>1. Init => CommandInv
  BY CommandInit
<1>2. CommandInv /\ [Next]_vars => CommandInv'
  BY PromptKept, MainKept, ProgramKept, CommandStutters DEF Next
<1>3. CommandInv => CommandsMeant
  BY CommandInvMeant
<1>4. QED BY <1>1, <1>2, <1>3, PTL DEF Spec
===============================================================================
