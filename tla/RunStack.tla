-------------------------------- MODULE RunStack --------------------------------
(***************************************************************************)
(* The stack a program finds when it starts: the strings of its            *)
(* environment and arguments, the two vectors that point to them, and the  *)
(* number of arguments, in registers and in memory.                        *)
(*                                                                         *)
(* A byte of the stack is <<c>>, the character c, or <<n, k>>, the k-th    *)
(* byte of the word n, or <<>>.  A word can be read only where its four    *)
(* bytes are together.                                                     *)
(***************************************************************************)
EXTENDS Integers, Sequences, SequencesExt

CONSTANTS
  STACK_TOP,   \* 0x80000000 in the code
  Chars,       \* the characters of every word of the command line and the environment
  Environ      \* the strings of the environment, in order

ASSUME StackAssumption ==
  /\ STACK_TOP \in Nat /\ STACK_TOP % 8 = 0
  /\ \A w \in DOMAIN Chars : Chars[w] \in Seq(Nat \ {0})
  /\ Environ \in Seq(DOMAIN Chars)

Unused == [x \in 0..(STACK_TOP - 1) |-> <<>>]

String(w) == [k \in 1..(Len(Chars[w]) + 1) |-> IF k > Len(Chars[w]) THEN <<0>> ELSE <<Chars[w][k]>>]

(* Mutant: the string loses its terminating 0. *)
copy_str_to_stack_without_null(s, w) ==
  LET low == s.sp - Len(Chars[w])
  IN  [sp |-> low,
       mem |-> [x \in DOMAIN s.mem |-> IF x \in (low + 1)..s.sp THEN String(w)[x - low] ELSE s.mem[x]],
       addrs |-> Append(s.addrs, low + 1)]

(* From the last character, its 0, downwards. *)
copy_str_to_stack(s, w) ==
  LET string == String(w)
      low == s.sp - Len(string)
  IN  [sp |-> low,
       mem |-> [x \in DOMAIN s.mem |-> IF x \in (low + 1)..s.sp THEN string[x - low] ELSE s.mem[x]],
       addrs |-> Append(s.addrs, low + 1)]

WithWord(mem, addr, n) == [x \in DOMAIN mem |-> IF x \in addr..(addr + 3) THEN <<n, x - addr>> ELSE mem[x]]

copy_int_to_stack(s, n) == [s EXCEPT !.sp = @ - 4, !.mem = WithWord(s.mem, s.sp, n)]

(* A vector of the addresses addrs[from..to], ended by a 0.                  *)
Vector(s, from, to) ==
  FoldRight(LAMBDA addr, rest : copy_int_to_stack(rest, addr), SubSeq(s.addrs, from, to), copy_int_to_stack(s, 0))

(* Mutant: the strings' last word is not left before the vectors begin. *)
AlignedDownOnly(sp) == sp - (sp % 8)

Aligned(sp) == LET free == sp - (sp % 4) - 4 IN free - (free % 8)

(* R[REG_A1] and R[REG_A2] are set by the loops that push a pointer, so that *)
(* an empty vector leaves them as they were.                                 *)
initialize_run_stack(argv, regs, mem) ==
  LET strings == FoldLeft(copy_str_to_stack, [sp |-> STACK_TOP - 1, mem |-> mem, addrs |-> <<>>], Environ \o argv)
      env_j == Len(Environ)
      j == Len(strings.addrs)
      env == Vector([strings EXCEPT !.sp = Aligned(@)], 1, env_j)
      args == Vector(env, env_j + 1, j)
  IN  [regs |-> [sp |-> args.sp, a0 |-> Len(argv),
                 a1 |-> IF argv = <<>> THEN regs.a1 ELSE args.sp + 4,
                 a2 |-> IF Environ = <<>> THEN regs.a2 ELSE env.sp + 4],
       mem |-> WithWord(args.mem, args.sp, Len(argv))]

-----------------------------------------------------------------------------
(* What a program reads, starting from $sp as __start does (exceptions.s).   *)
IsWord(mem, addr, n) == \A k \in 0..3 : addr + k \in DOMAIN mem /\ mem[addr + k] = <<n, k>>
IsString(mem, addr, w) ==
  \A k \in DOMAIN String(w) : addr + k - 1 \in DOMAIN mem /\ mem[addr + k - 1] = String(w)[k]
IsVector(mem, addr, words) ==
  /\ \A k \in 1..Len(words) :
       \E p \in DOMAIN mem : IsWord(mem, addr + 4 * (k - 1), p) /\ IsString(mem, p, words[k])
  /\ IsWord(mem, addr + 4 * Len(words), 0)

(* argc, argv and envp as main(argc, argv, envp) gets them. *)
ArgumentsOnStack(argv, regs, mem) ==
  LET argc == Len(argv)
  IN  /\ regs.sp % 4 = 0
      /\ IsWord(mem, regs.sp, argc)
      /\ IsVector(mem, regs.sp + 4, argv)
      /\ IsVector(mem, regs.sp + 4 + 4 * argc + 4, Environ)
      /\ regs.a0 = argc
      /\ argv # <<>> => regs.a1 = regs.sp + 4
      /\ Environ # <<>> => regs.a2 = regs.sp + 4 + 4 * argc + 4
===============================================================================
