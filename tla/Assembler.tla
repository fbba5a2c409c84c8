-------------------------------- MODULE Assembler --------------------------------
(***************************************************************************)
(* How the simulator assembles the lines of one file after the other: the  *)
(* symbol table of sym-tbl.c with its forward references, the data segment *)
(* data.c fills, and the list of labels of the current line that the       *)
(* parser keeps between the two.  One action per kind of line.             *)
(*                                                                         *)
(* A word is two bytes.  Only the user's segments are there, data          *)
(* directives store constants or the address of a label, and the only      *)
(* instruction is a jump to a label, which needs no second word.           *)
(***************************************************************************)
EXTENDS Integers, Sequences

CONSTANTS
  Names,          \* the identifiers of the program
  TEXT_BOT,       \* where the text segment begins
  DATA_BOT,       \* where the small data begin that $gp points to
  GpSize,         \* 64K: the size of the small data segment
  DataSize,       \* bytes of the data segment, small data included, at the start
  CHUNK,          \* 64K: the data segment grows in multiples of it
  MaxAddr,        \* bound on the addresses of the data segment
  BYTE,           \* how many values a byte has
  ItemSize,       \* the size .comm, .lcomm and .extern are given
  MaxLines,       \* bound on the lines of all files together
  MaxFiles        \* bound on the files that are read

ASSUME AssemblerAssumption ==
  /\ {TEXT_BOT, DATA_BOT, GpSize, DataSize, CHUNK, MaxAddr, BYTE, ItemSize} \subseteq Nat \ {0}
  /\ {MaxLines, MaxFiles} \subseteq Nat
  /\ \A size \in {TEXT_BOT, DATA_BOT, GpSize, DataSize, CHUNK} : size % 2 = 0
  /\ TEXT_BOT + 2 * MaxLines <= DATA_BOT
  /\ GpSize < DataSize /\ DATA_BOT + DataSize <= MaxAddr /\ MaxAddr < BYTE * BYTE
  /\ DATA_BOT + GpSize + MaxLines * (ItemSize + 2) <= MaxAddr   \* what the lines can fill

VARIABLES
  asm,            \* the static variables of the three files, see Start
  flushing,       \* l of flush_local_labels, while it runs
  pc,             \* "line", "flush" or "end"
  lines, files,   \* counters for the bounds
  refs,           \* ghost: the words assembled for a symbol, and its label
  placed,         \* ghost: label |-> where the first thing behind it went, or 0
  again,          \* ghost: labels recorded when they had an address already
  late            \* ghost: what came too late, see Globl, Extern and Word

ghosts == <<refs, placed, again, late>>
vars == <<asm, flushing, pc, lines, files, ghosts>>

WORD == 2
Bytes == DATA_BOT..MaxAddr
DataBegin == DATA_BOT + GpSize
Equate == 3                     \* the value of every  name = value

(* What reading no line at all leaves: initialize_symbol_table, the         *)
(* segments' beginnings, and initialize_parser.                             *)
Start ==
  [table   |-> [n \in Names |-> 0],       \* label_hash_table: name |-> label
   labels  |-> <<>>,                      \* every label ever made
   locals  |-> 0,                         \* local_labels
   line    |-> {},                        \* this_line_labels
   text    |-> TRUE,                      \* text_dir, and ~ data_dir
   auto    |-> TRUE,                      \* auto_alignment
   dataPc  |-> DataBegin,                 \* next_data_pc
   dataTop |-> DATA_BOT + DataSize,       \* data_top
   gpItem  |-> DATA_BOT,                  \* next_gp_item_addr
   data    |-> [a \in Bytes |-> 0],       \* data_seg, byte by byte
   insts   |-> <<>>]                      \* the jumps of text_seg, by target

TextPc(s) == TEXT_BOT + WORD * Len(s.insts)
Pc(s) == IF s.text THEN TextPc(s) ELSE s.dataPc

-------------------------------------------------------------------------------
(* The symbol table.  A label is a record; its uses are the places that     *)
(* wait for its address.                                                    *)
Label(n) == [name |-> n, addr |-> 0, global |-> FALSE, gp |-> FALSE, uses |-> {}, next |-> 0]

(* lookup_label: afterwards the table has the name. *)
Looked(s, n) ==
  IF s.table[n] # 0 THEN s
  ELSE [s EXCEPT !.labels = Append(@, Label(n)), !.table[n] = Len(s.labels) + 1]

Aligned(a) == a % WORD = 0
ByteOf(value, a) == IF Aligned(a) THEN value % BYTE ELSE value \div BYTE
WordAt(s, a) == s.data[a] + BYTE * s.data[a + 1]

(* set_mem_word for every address words is defined for: an unaligned one,   *)
(* or one outside the segment, raises an exception that nobody looks at.    *)
SetWords(s, words) ==
  LET good == {a \in DOMAIN words : Aligned(a) /\ a >= DATA_BOT /\ a < s.dataTop}
      begin(a) == a - (a % WORD)
  IN  [s EXCEPT !.data = [a \in Bytes |->
         IF begin(a) \in good THEN ByteOf(words[begin(a)], a) ELSE @[a]]]

(* resolve_label_uses for labels ls: every use gets the address of its      *)
(* label, and is forgotten.                                                 *)
Resolved(s, ls) ==
  LET uses == UNION {s.labels[l].uses : l \in ls}
      addr(u) == s.labels[CHOOSE l \in ls : u \in s.labels[l].uses].addr
      words == [a \in {u[2] : u \in {v \in uses : v[1] = "data"}} |-> addr(<<"data", a>>)]
  IN  [SetWords(s, words) EXCEPT
         !.insts = [k \in DOMAIN @ |-> IF <<"text", k>> \in uses THEN addr(<<"text", k>>) ELSE @[k]],
         !.labels = [l \in DOMAIN @ |-> IF l \in ls THEN [@[l] EXCEPT !.uses = {}] ELSE @[l]]]

(* Mutant: the labels are dropped as they are. *)
ClearedUnresolved(s) == [s EXCEPT !.line = {}]

(* clear_labels: the line is over, its labels have their final address. *)
Cleared(s) == [Resolved(s, s.line) EXCEPT !.line = {}]

(* Mutant: nothing is refused. *)
RefusesNothing(s, l) == FALSE

(* "Label is defined for the second time": a label that has an address,     *)
(* unless it is one of the small data.                                      *)
Refused(s, l) == ~ s.labels[l].gp /\ s.labels[l].addr # 0

(* Mutant: every label is a local one. *)
AlwaysLocal(s, l) == TRUE

IsLocal(s, l) == ~ s.labels[l].global

(* record_label.  The error for a refused label clears those of the line.   *)
Recorded(s, n, addr, resolveUses) ==
  LET t == Looked(s, n)
      l == t.table[n]
      u == IF t.labels[l].gp THEN t ELSE [t EXCEPT !.labels[l].addr = addr]
      v == IF resolveUses THEN Resolved(u, {l}) ELSE u
  IN  IF Refused(t, l) THEN Cleared(t)
      ELSE IF IsLocal(v, l) THEN [v EXCEPT !.labels[l].next = v.locals, !.locals = l]
      ELSE v

-------------------------------------------------------------------------------
(* The data segment.                                                        *)

(* fix_current_label_address: the labels of the line move along. *)
Fixed(s, addr) ==
  Cleared([s EXCEPT !.labels =
             [l \in DOMAIN @ |-> IF l \in s.line THEN [@[l] EXCEPT !.addr = addr] ELSE @[l]]])

(* Mutant: the labels of the line stay where they are. *)
AlignedDataOnly(s) == [s EXCEPT !.dataPc = @ + (@ % WORD)]

(* align_data(1). *)
AlignedData(s) ==
  LET addr == s.dataPc + (s.dataPc % WORD)
  IN  Fixed([s EXCEPT !.dataPc = addr], addr)

(* set_data_alignment(1). *)
AutoAligned(s) == IF s.auto THEN AlignedData(s) ELSE s

(* increment_data_pc, which expands the segment by the smallest number of   *)
(* chunks that leaves a byte behind the last one.                           *)
RoundUp(v, c) == ((v + c - 1) \div c) * c
Incremented(s, delta) ==
  LET addr == s.dataPc + delta
  IN  [s EXCEPT !.dataPc = addr,
                !.dataTop = IF @ <= addr THEN @ + RoundUp(addr - @ + 1, CHUNK) ELSE @]

(* store_byte and, for a word at an odd address, store_half. *)
StoredByte(s, value) ==
  Incremented([s EXCEPT !.data[s.dataPc] = IF s.dataPc < s.dataTop THEN value ELSE @], 1)
StoredWord(s, value) ==
  IF Aligned(s.dataPc) THEN Incremented(SetWords(s, [a \in {s.dataPc} |-> value]), WORD)
  ELSE StoredByte(StoredByte(s, value % BYTE), value \div BYTE)

(* As many zero bytes, one after the other. *)
StoredZeros(s, size) ==
  Incremented([s EXCEPT !.data = [a \in Bytes |-> IF a - s.dataPc \in 0..size - 1 THEN 0 ELSE @[a]]],
              size)

(* There is room for one more small datum. *)
GpRoom(s) == s.gpItem + ItemSize < DataBegin

-------------------------------------------------------------------------------
Init ==
  /\ asm = Start
  /\ flushing = 0 /\ pc = "line"
  /\ lines = 0 /\ files = 0
  /\ refs = {} /\ placed = {} /\ again = {} /\ late = {}

(* A line has been parsed and leaves the assembler in state s. *)
Line(s) ==
  /\ pc = "line" /\ lines < MaxLines
  /\ asm' = s
  /\ lines' = lines + 1
  /\ UNCHANGED <<flushing, pc, files>>

(* Ghosts: n is recorded although it has an address; the labels of the line *)
(* are those of what is stored at addr.                                     *)
Again(n) == again' = again \cup {l \in {asm.table[n]} \ {0} : asm.labels[l].addr # 0}
Place(addr) == placed' = placed \cup {<<l, addr>> : l \in asm.line}

(* name:   Nothing else is on the line, or it follows as the next one.      *)
Define(n) ==
  /\ LET s == Recorded(asm, n, Pc(asm), FALSE)
     IN  Line([s EXCEPT !.line = @ \cup {s.table[n]}])
  /\ Again(n)
  /\ UNCHANGED <<refs, placed, late>>

(* name = value *)
Assign(n) ==
  /\ Line(Cleared(Recorded(asm, n, Equate, TRUE)))
  /\ Again(n)
  /\ UNCHANGED <<refs, placed, late>>

(* .byte 1   In the text it is stored all the same, and then an error.      *)
Byte ==
  /\ Line(Cleared(StoredByte(asm, 1)))
  /\ IF asm.text THEN UNCHANGED placed ELSE Place(asm.dataPc)
  /\ UNCHANGED <<refs, again, late>>

(* .word name   In the text it becomes an instruction; a label that has no  *)
(* address yet gets a use at the data pointer all the same.                 *)
Word(n) ==
  LET s == Looked(IF asm.text THEN asm ELSE AutoAligned(asm), n)
      l == s.table[n]
      addr == s.labels[l].addr
      use == IF addr # 0 THEN s ELSE [s EXCEPT !.labels[l].uses = @ \cup {<<"data", s.dataPc>>}]
  IN  \/ /\ ~ asm.text
         /\ Line(Cleared(StoredWord(use, addr)))
         /\ Place(s.dataPc)
         /\ refs' = IF IF addr # 0 THEN s.dataPc < s.dataTop ELSE Aligned(s.dataPc)
                    THEN refs \cup {<<"data", s.dataPc, l>>} ELSE refs
         /\ UNCHANGED <<again, late>>
      \/ /\ asm.text
         /\ Line(Cleared([use EXCEPT !.insts = Append(@, 0)]))
         /\ Place(TextPc(asm))
         /\ late' = IF addr # 0 THEN late ELSE late \cup {<<"stray", s.dataPc>>}
         /\ UNCHANGED <<refs, again>>

(* .align 1 *)
Align ==
  /\ Line(Cleared(AlignedData(asm)))
  /\ UNCHANGED ghosts

(* .align 0 *)
AlignOff ==
  /\ Line(Cleared([asm EXCEPT !.auto = FALSE]))
  /\ UNCHANGED ghosts

(* .space 1, in the data segment. *)
Space ==
  /\ ~ asm.text
  /\ Line(Cleared(Incremented(asm, 1)))
  /\ UNCHANGED ghosts

(* .data and .text *)
Segment(text) ==
  /\ Line(Cleared([asm EXCEPT !.text = text, !.auto = TRUE]))
  /\ UNCHANGED ghosts

(* .globl name   A label that is among the local ones stays there.          *)
Globl(n) ==
  /\ LET s == Looked(asm, n)
         l == s.table[n]
     IN  /\ Line(Cleared([s EXCEPT !.labels[l].global = TRUE]))
         /\ late' = late \cup {<<"global", k>> : k \in {j \in {l} : s.labels[j].addr # 0}}
  /\ UNCHANGED <<refs, placed, again>>

(* .extern name size   The uses of the label are not resolved. *)
Extern(n) ==
  /\ LET s == Looked(asm, n)
         l == s.table[n]
         t == [s EXCEPT !.labels[l].global = TRUE]
         small == ~ s.labels[l].gp /\ GpRoom(s)
     IN  /\ Line(Cleared(IF small
                        THEN [t EXCEPT !.labels[l] = [@ EXCEPT !.gp = TRUE, !.addr = s.gpItem],
                                       !.gpItem = @ + ItemSize]
                        ELSE t))
         /\ late' = late
              \cup {<<"global", k>> : k \in {j \in {l} : s.labels[j].addr # 0}}
              \cup {<<"extern", k>> : k \in {j \in {l} :
                       small /\ (s.labels[j].addr # 0 \/ s.labels[j].uses # {})}}
  /\ UNCHANGED <<refs, placed, again>>

(* .comm name size *)
Comm(n) ==
  /\ LET s == AlignedData(asm)
         t == Looked(s, n)
         u == IF t.labels[t.table[n]].addr = 0 THEN Recorded(t, n, t.dataPc, TRUE) ELSE t
     IN  Line(Cleared(Incremented(u, ItemSize)))
  /\ UNCHANGED ghosts

(* .lcomm name size   A small datum, or zeros at the data pointer.          *)
Lcomm(n) ==
  /\ LET s == Recorded(asm, n, IF GpRoom(asm) THEN asm.gpItem ELSE asm.dataPc, TRUE)
     IN  Line(Cleared(IF GpRoom(asm)
                      THEN [s EXCEPT !.labels[s.table[n]].gp = TRUE, !.gpItem = @ + ItemSize]
                      ELSE StoredZeros(s, ItemSize)))
  /\ Again(n)
  /\ UNCHANGED <<refs, placed, late>>

(* j name   In the text segment. *)
Jump(n) ==
  /\ asm.text
  /\ LET s == Looked(asm, n)
         l == s.table[n]
         addr == s.labels[l].addr
         k == Len(s.insts) + 1
         t == IF addr # 0 THEN s ELSE [s EXCEPT !.labels[l].uses = @ \cup {<<"text", k>>}]
     IN  /\ Line(Cleared([t EXCEPT !.insts = Append(@, addr)]))
         /\ refs' = refs \cup {<<"text", k, l>>}
  /\ Place(TextPc(asm))
  /\ UNCHANGED <<again, late>>

(* The end of a file: flush_local_labels begins.                            *)
EndOfFile ==
  /\ pc = "line"
  /\ asm' = Cleared(asm)
  /\ flushing' = asm.locals
  /\ pc' = "flush"
  /\ UNCHANGED <<lines, files, ghosts>>

(* One local label is taken out of the table: the one that has its name.    *)
FlushLabel ==
  /\ pc = "flush" /\ flushing # 0
  /\ asm' = [asm EXCEPT !.table[asm.labels[flushing].name] = 0]
  /\ flushing' = asm.labels[flushing].next
  /\ UNCHANGED <<pc, lines, files, ghosts>>

(* end_of_assembly_file, and initialize_parser for the next one.            *)
NextFile ==
  /\ pc = "flush" /\ flushing = 0
  /\ asm' = [asm EXCEPT !.locals = 0, !.auto = TRUE, !.text = TRUE]
  /\ files' = files + 1
  /\ pc' = IF files' < MaxFiles THEN "line" ELSE "end"
  /\ UNCHANGED <<flushing, lines, ghosts>>

ReadLine ==
  \/ \E n \in Names :
       Define(n) \/ Assign(n) \/ Word(n) \/ Globl(n) \/ Extern(n) \/ Comm(n) \/ Lcomm(n) \/ Jump(n)
  \/ Byte \/ Align \/ AlignOff \/ Space
  \/ \E text \in BOOLEAN : Segment(text)

Next == ReadLine \/ EndOfFile \/ FlushLabel \/ NextFile

Spec == Init /\ [][Next]_vars

-------------------------------------------------------------------------------
(* Labels that are recorded again or moved by .extern, words hit by a use   *)
(* strayed from the text, and what was assembled in place r.                *)
Moved(l) == l \in again \/ <<"extern", l>> \in late
Strayed(r) == r[1] = "data" /\ <<"stray", r[2] - (r[2] % WORD)>> \in late
ValueAt(s, r) == IF r[1] = "text" THEN s.insts[r[2]] ELSE WordAt(s, r[2])

(* Whatever was assembled for a symbol, before its definition or after it,  *)
(* holds the address the label ends up with: forward references are patched *)
(* once, with the address the alignment of the line has left.  It fails for *)
(* a label that is recorded again (reported, but its address still moves),  *)
(* one that .extern moves, and words hit by a use strayed from the text.    *)
UsesResolved ==
  \A r \in refs :
    LET l == r[3]
        addr == asm.labels[l].addr
    IN  addr # 0 /\ l \notin asm.line /\ ~ Moved(l) /\ ~ Strayed(r) => addr = ValueAt(asm, r)

(* A label is the address of what follows it on its line, also when that is *)
(* aligned first, and stays so through all later lines and files.           *)
LabelsPlaced ==
  \A k \in placed : asm.labels[k[1]].addr = k[2] \/ Moved(k[1])

(* "At the end of a file, we flush the hash table of all non-global labels  *)
(* so they can't be seen in other files": none that has an address is left, *)
(* and no step takes a label away that was global when it was recorded.     *)
FilesApart ==
  [][/\ files' # files =>
          \A n \in Names : LET l == asm'.table[n]
                           IN  l # 0 /\ asm.labels[l].addr # 0 => asm.labels[l].global
     /\ \A n \in Names : LET l == asm.table[n]
                          IN  l # 0 /\ asm.labels[l].global /\ <<"global", l>> \notin late
                                => asm'.table[n] = l
    ]_vars

(* l, or the end 0, is on the list of local labels from label k on.         *)
Reaches(labels, k, l) ==
  \A S \in SUBSET (0..Len(labels)) :
    k \in S /\ (\A j \in S \ {0} : labels[j].next \in S) => l \in S

(* The loop of flush_local_labels ends: the list of local labels does.  A   *)
(* label of the small data that is recorded twice closes it to a ring.      *)
FlushEnds == Reaches(asm.labels, asm.locals, 0) \/ \E l \in again : asm.labels[l].gp
===============================================================================
