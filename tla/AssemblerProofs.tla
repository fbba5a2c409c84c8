------------------------------ MODULE AssemblerProofs ------------------------------
(***************************************************************************)
(* References hold the address of their label, labels stay where they were *)
(* placed, and flushing ends and keeps the files apart: for any names, any  *)
(* number of lines and files, and segments of any size.                    *)
(*                                                                         *)
(* What the lines do is built from a few functions on the assembler's      *)
(* state s; the parts of the invariant are predicates of such a state and  *)
(* of the ghosts R (refs), P (placed), A (again) and L (late), and each    *)
(* function has a lemma saying that it keeps them.                         *)
(***************************************************************************)
EXTENDS Assembler, TLAPS

-------------------------------------------------------------------------------
(* The invariant.                                                           *)

Places == {"data", "text"} \X Nat
LabelType ==
  [name: Names, addr: 0..MaxAddr, global: BOOLEAN, gp: BOOLEAN, uses: SUBSET Places, next: Nat]
Asm ==
  [table: [Names -> Nat], labels: Seq(LabelType), locals: Nat, line: SUBSET Nat,
   text: BOOLEAN, auto: BOOLEAN, dataPc: Nat, dataTop: Nat, gpItem: Nat,
   data: [Bytes -> Nat], insts: Seq(0..MaxAddr)]

(* Names stand for their labels, and the list and the line hold labels.     *)
TableInv(s) ==
  /\ \A n \in Names : s.table[n] # 0 => /\ s.table[n] \in DOMAIN s.labels
                                        /\ s.labels[s.table[n]].name = n
  /\ s.locals \in 0..Len(s.labels)
  /\ \A l \in DOMAIN s.labels : s.labels[l].next \in 0..Len(s.labels)
  /\ s.line \subseteq DOMAIN s.labels
  /\ \A l \in DOMAIN s.labels : s.labels[l].gp \/ l \in s.line => s.labels[l].addr # 0

(* The data pointer stays in the segment, whose size is even.               *)
SegmentInv(s) ==
  /\ DataBegin <= s.dataPc /\ s.dataPc <= s.dataTop /\ s.dataPc <= MaxAddr
  /\ s.dataTop % WORD = 0
  /\ DATA_BOT <= s.gpItem /\ s.gpItem <= DataBegin

(* A use is of a word or a jump that is there already, but for those that   *)
(* strayed from the text, which are of the place where data goes next.      *)
UsesInv(s, L) ==
  /\ \A l \in DOMAIN s.labels : \A u \in s.labels[l].uses :
       IF u[1] = "data" THEN <<"stray", u[2]>> \in L \/ u[2] + WORD <= s.dataPc
       ELSE u[2] \in DOMAIN s.insts
  /\ \A e \in L : e[1] = "stray" => e[2] \in Nat /\ e[2] <= s.dataPc

(* No use of another label, and nothing strayed that would not be noticed,  *)
(* reaches into what was assembled for a label.                             *)
RefInv(s, r, L) ==
  /\ r[3] \in DOMAIN s.labels
  /\ \/ /\ r[1] = "text" /\ r[2] \in DOMAIN s.insts
        /\ \A l \in DOMAIN s.labels : <<"text", r[2]>> \in s.labels[l].uses => l = r[3]
     \/ /\ r[1] = "data" /\ r[2] \in Nat /\ DataBegin <= r[2] /\ r[2] + WORD <= s.dataPc
        /\ \A e \in L : e[1] = "stray" => e[2] <= r[2] \/ r[2] + WORD <= e[2]
        /\ \A l \in DOMAIN s.labels : \A u \in s.labels[l].uses :
             \/ u[1] # "data" \/ <<"stray", u[2]>> \in L
             \/ u[2] = r[2] /\ l = r[3]
             \/ u[2] + WORD <= r[2] \/ r[2] + WORD <= u[2]

MovedIn(l, A, L) == l \in A \/ <<"extern", l>> \in L
StrayedIn(r, L) == r[1] = "data" /\ <<"stray", r[2] - (r[2] % WORD)>> \in L

Pending(s, r) ==
  <<r[1], r[2]>> \in s.labels[r[3]].uses /\ (r[1] = "data" => Aligned(r[2]))

(* What was assembled for a label holds its address, or is among the uses   *)
(* that will be resolved.                                                   *)
ValueInv(s, r, A, L) ==
  LET addr == s.labels[r[3]].addr
  IN  \/ MovedIn(r[3], A, L) \/ StrayedIn(r, L)
      \/ (addr = 0 \/ r[3] \in s.line) /\ Pending(s, r)
      \/ addr # 0 /\ ValueAt(s, r) = addr

PlacedInv(s, P, A, L) ==
  \A k \in P : /\ k[1] \in DOMAIN s.labels /\ k[2] # 0
               /\ \/ MovedIn(k[1], A, L)
                  \/ s.labels[k[1]].addr = k[2] /\ k[1] \notin s.line

Good(s, R, P, A, L) ==
  /\ s \in Asm /\ TableInv(s) /\ SegmentInv(s) /\ UsesInv(s, L)
  /\ \A r \in R : RefInv(s, r, L) /\ ValueInv(s, r, A, L)
  /\ PlacedInv(s, P, A, L)

(* The labels of the line are where the next thing goes, so far, and the     *)
(* places that wait for them still do.                                      *)
LineInv(s, R, A, L) ==
  /\ \A l \in s.line : MovedIn(l, A, L) \/ s.labels[l].addr = Pc(s)
  /\ \A r \in R : r[3] \in s.line =>
       MovedIn(r[3], A, L) \/ StrayedIn(r, L) \/ Pending(s, r)

(* The list from h on: labels that have an address, in the table, which     *)
(* were local when they were recorded.  If the list ends, all those of the  *)
(* table are there.                                                         *)
ListInv(s, h, L, inTable) ==
  /\ h \in 0..Len(s.labels)
  /\ \A k \in DOMAIN s.labels : Reaches(s.labels, h, k) =>
       /\ s.labels[k].addr # 0
       /\ s.labels[k].global => <<"global", k>> \in L
       /\ s.table[s.labels[k].name] = k \/ (~ inTable /\ s.table[s.labels[k].name] = 0)
  /\ Reaches(s.labels, h, 0) =>
       \A n \in Names : LET k == s.table[n]
                        IN  k # 0 /\ s.labels[k].addr # 0 /\ ~ s.labels[k].global
                              => Reaches(s.labels, h, k)

ListEnds(s, A) ==
  Reaches(s.labels, s.locals, 0) \/ \E l \in A \cap DOMAIN s.labels : s.labels[l].gp

ListHead == IF pc = "flush" THEN flushing ELSE asm.locals

(* A line stores at most a word behind an alignment, or an item behind one. *)
RoomInv ==
  /\ lines \in 0..MaxLines
  /\ Len(asm.insts) <= lines
  /\ asm.dataPc + (MaxLines - lines) * (ItemSize + 2) <= MaxAddr

IInv ==
  /\ RoomInv
  /\ Good(asm, refs, placed, again, late)
  /\ LineInv(asm, refs, again, late)
  /\ ListInv(asm, ListHead, late, pc # "flush")
  /\ ListEnds(asm, again)
  /\ pc \in {"line", "flush", "end"} /\ (pc # "line" => asm.line = {})

-------------------------------------------------------------------------------
(* Numbers.                                                                 *)

LEMMA Sizes ==
  /\ BYTE \in Nat \ {0} /\ CHUNK \in Nat \ {0} /\ ItemSize \in Nat \ {0} /\ MaxLines \in Nat
  /\ MaxFiles \in Nat /\ TEXT_BOT \in Nat \ {0} /\ DATA_BOT \in Nat \ {0} /\ MaxAddr \in Nat
  /\ GpSize \in Nat \ {0} /\ DataSize \in Nat \ {0} /\ DataBegin \in Nat
  /\ TEXT_BOT % 2 = 0 /\ DATA_BOT % 2 = 0 /\ GpSize % 2 = 0 /\ DataSize % 2 = 0 /\ CHUNK % 2 = 0
  /\ TEXT_BOT + 2 * MaxLines <= DATA_BOT /\ DataBegin = DATA_BOT + GpSize
  /\ GpSize < DataSize /\ DATA_BOT + DataSize <= MaxAddr /\ MaxAddr < BYTE * BYTE
  /\ DataBegin + MaxLines * (ItemSize + 2) <= MaxAddr
  /\ Bytes = DATA_BOT..MaxAddr
  BY AssemblerAssumption DEF DataBegin, Bytes

LEMMA BytesOfWord ==
  ASSUME NEW v \in Nat
  PROVE  /\ v % BYTE \in Nat /\ v \div BYTE \in Nat
         /\ (v % BYTE) + BYTE * (v \div BYTE) = v
  BY Sizes

LEMMA EvenNumbers ==
  ASSUME NEW a \in Nat, a % 2 = 0
  PROVE  a - (a % 2) = a /\ (a + 1) - ((a + 1) % 2) = a /\ (a + 1) % 2 # 0
<1>1. (a + 1) % 2 = 1
  OBVIOUS
<1>2. QED BY <1>1

(* A segment grows to an even size above the address.                       *)
LEMMA RoundedUp ==
  ASSUME NEW v \in Nat \ {0}
  PROVE  /\ RoundUp(v, CHUNK) \in Nat /\ v <= RoundUp(v, CHUNK) /\ RoundUp(v, CHUNK) % 2 = 0
<1>1. CHUNK \in Nat \ {0} /\ CHUNK % 2 = 0
  BY Sizes
<1> DEFINE q == (v + CHUNK - 1) \div CHUNK
           h == CHUNK \div 2
<1>2. q \in Nat /\ (v + CHUNK - 1) = CHUNK * q + ((v + CHUNK - 1) % CHUNK)
      /\ (v + CHUNK - 1) % CHUNK \in 0..CHUNK - 1
  BY <1>1
<1>3. CHUNK = 2 * h /\ h \in Nat
  BY <1>1
<1>4. q * CHUNK = CHUNK * q /\ q * CHUNK \in Nat
  BY <1>1, <1>2
<1>5. v <= q * CHUNK
  BY <1>1, <1>2, <1>4
<1>6. q * h \in Nat /\ q * CHUNK = 2 * (q * h)
  BY <1>2, <1>3
<1>7. (q * CHUNK) % 2 = 0
  <2> HIDE DEF q, h
  <2>1. \A w \in Nat : (2 * w) % 2 = 0
    OBVIOUS
  <2>2. QED BY <2>1, <1>6
<1>8. QED BY <1>4, <1>5, <1>7 DEF RoundUp

-------------------------------------------------------------------------------
(* The list of local labels.                                                *)

NextIn(labels) == \A l \in DOMAIN labels : labels[l].next \in 0..Len(labels)

LEMMA ReachesSelf ==
  ASSUME NEW labels, NEW k
  PROVE  Reaches(labels, k, k)
  BY DEF Reaches

LEMMA EndReaches ==
  ASSUME NEW labels \in Seq(LabelType), NEW k, Reaches(labels, 0, k)
  PROVE  k = 0
<1>1. {0} \in SUBSET (0..Len(labels))
  OBVIOUS
<1>2. QED BY <1>1 DEF Reaches

LEMMA ReachesBehind ==
  ASSUME NEW labels \in Seq(LabelType), NEW h \in DOMAIN labels, NEW k, k # h,
         Reaches(labels, h, k)
  PROVE  Reaches(labels, labels[h].next, k)
<1>1. SUFFICES ASSUME NEW S \in SUBSET (0..Len(labels)), labels[h].next \in S,
                      \A j \in S \ {0} : labels[j].next \in S
               PROVE  k \in S
  BY DEF Reaches
<1>2. S \cup {h} \in SUBSET (0..Len(labels))
  <2>1. h \in 0..Len(labels)
    OBVIOUS
  <2>2. QED BY <2>1
<1>3. \A j \in (S \cup {h}) \ {0} : labels[j].next \in S \cup {h}
  BY <1>1
<1>4. k \in S \cup {h}
  BY <1>2, <1>3 DEF Reaches
<1>5. QED BY <1>4

(* What the list holds depends on the labels' next alone; labels behind     *)
(* those of the list do not change it.                                      *)
LEMMA SameList ==
  ASSUME NEW labels \in Seq(LabelType), NEW more \in Seq(LabelType), NextIn(labels),
         Len(labels) <= Len(more), \A l \in DOMAIN labels : more[l].next = labels[l].next,
         NEW h \in 0..Len(labels), NEW k
  PROVE  Reaches(more, h, k) <=> Reaches(labels, h, k)
<1>1. ASSUME Reaches(more, h, k) PROVE Reaches(labels, h, k)
  <2>1. SUFFICES ASSUME NEW S \in SUBSET (0..Len(labels)), h \in S,
                        \A j \in S \ {0} : labels[j].next \in S
                 PROVE  k \in S
    BY DEF Reaches
  <2>2. S \in SUBSET (0..Len(more))
    OBVIOUS
  <2>3. \A j \in S \ {0} : j \in DOMAIN labels /\ more[j].next \in S
    BY <2>1
  <2>4. QED BY <1>1, <2>1, <2>2, <2>3 DEF Reaches
<1>2. ASSUME Reaches(labels, h, k) PROVE Reaches(more, h, k)
  <2>1. SUFFICES ASSUME NEW S \in SUBSET (0..Len(more)), h \in S,
                        \A j \in S \ {0} : more[j].next \in S
                 PROVE  k \in S
    BY DEF Reaches
  <2> DEFINE T == S \cap (0..Len(labels))
  <2>2. T \in SUBSET (0..Len(labels)) /\ h \in T
    BY <2>1
  <2>3. ASSUME NEW j \in T \ {0} PROVE labels[j].next \in T
    <3>1. j \in DOMAIN labels
      OBVIOUS
    <3>2. QED BY <2>1, <3>1 DEF NextIn
  <2>4. k \in T
    BY <1>2, <2>2, <2>3 DEF Reaches
  <2>5. QED BY <2>4
<1>3. QED BY <1>1, <1>2

(* A label l put in front of the list from h: nothing else is new, ...      *)
Pushed(labels, more, h, l) ==
  /\ labels \in Seq(LabelType) /\ more \in Seq(LabelType) /\ Len(more) = Len(labels)
  /\ l \in DOMAIN labels /\ h \in 0..Len(labels) /\ more[l].next = h
  /\ \A j \in DOMAIN labels : j # l => more[j].next = labels[j].next

LEMMA PushedOnly ==
  ASSUME NEW labels, NEW more, NEW h, NEW l, Pushed(labels, more, h, l), NextIn(labels),
         NEW k, Reaches(more, l, k)
  PROVE  k = l \/ Reaches(labels, h, k)
<1>1. SUFFICES ASSUME NEW S \in SUBSET (0..Len(labels)), h \in S,
                      \A j \in S \ {0} : labels[j].next \in S
               PROVE  k \in S \cup {l}
  BY DEF Reaches
<1>2. S \cup {l} \in SUBSET (0..Len(more))
  <2>1. labels \in Seq(LabelType) /\ Len(more) = Len(labels) /\ l \in DOMAIN labels
    BY DEF Pushed
  <2>2. l \in 0..Len(labels)
    BY <2>1
  <2>3. QED BY <2>1, <2>2
<1>3. ASSUME NEW j \in (S \cup {l}) \ {0} PROVE more[j].next \in S \cup {l}
  BY <1>1, <1>3 DEF Pushed
<1>4. QED BY <1>2, <1>3 DEF Reaches

(* ... and nothing is lost, unless l was on the list already: ...           *)
LEMMA PushedKeeps ==
  ASSUME NEW labels, NEW more, NEW h, NEW l, Pushed(labels, more, h, l),
         ~ Reaches(labels, h, l), NEW k, Reaches(labels, h, k)
  PROVE  Reaches(more, l, k)
<1>1. PICK T \in SUBSET (0..Len(labels)) :
        h \in T /\ (\A j \in T \ {0} : labels[j].next \in T) /\ l \notin T
  BY DEF Reaches
<1>2. SUFFICES ASSUME NEW S \in SUBSET (0..Len(more)), l \in S,
                      \A j \in S \ {0} : more[j].next \in S
               PROVE  k \in S
  BY DEF Reaches
<1>3. l # 0 /\ h \in S
  BY <1>2 DEF Pushed
<1>4. S \cap T \in SUBSET (0..Len(labels)) /\ h \in S \cap T
  BY <1>1, <1>3
<1>5. ASSUME NEW j \in (S \cap T) \ {0} PROVE labels[j].next \in S \cap T
  <2>1. j \in DOMAIN labels /\ j # l
    BY <1>1 DEF Pushed
  <2>2. QED BY <1>1, <1>2, <2>1 DEF Pushed
<1>6. QED BY <1>4, <1>5 DEF Reaches

(* ... then the list has become a ring.                                     *)
LEMMA PushedTwice ==
  ASSUME NEW labels, NEW more, NEW h, NEW l, Pushed(labels, more, h, l), NextIn(labels),
         Reaches(labels, h, l)
  PROVE  ~ Reaches(more, l, 0)
<1> DEFINE S == {k \in DOMAIN labels : Reaches(labels, k, l)}
<1>1. labels \in Seq(LabelType) /\ l \in DOMAIN labels /\ l # 0 /\ h \in 0..Len(labels)
  BY DEF Pushed
<1>2. l \in S /\ 0 \notin S /\ S \in SUBSET (0..Len(more))
  BY <1>1, ReachesSelf DEF Pushed
<1>3. h \in S
  <2>1. h # 0
    BY <1>1, EndReaches
  <2>2. QED BY <1>1, <2>1
<1>4. ASSUME NEW j \in S \ {0} PROVE more[j].next \in S
  <2>1. CASE j = l
    BY <1>3, <2>1 DEF Pushed
  <2>2. CASE j # l
    <3>1. Reaches(labels, labels[j].next, l) /\ labels[j].next \in 0..Len(labels)
      BY <1>1, <2>2, ReachesBehind DEF NextIn
    <3>2. labels[j].next # 0
      BY <1>1, <3>1, EndReaches
    <3>3. labels[j].next \in S
      BY <1>1, <3>1, <3>2
    <3>4. QED BY <2>2, <3>3 DEF Pushed
  <2>3. QED BY <2>1, <2>2
<1>5. QED BY <1>2, <1>4 DEF Reaches

-------------------------------------------------------------------------------
(* lookup_label.                                                            *)

(* Two states that differ at most in the symbol table.                      *)
SameSegments(s, t) ==
  /\ t.text = s.text /\ t.auto = s.auto /\ t.dataPc = s.dataPc /\ t.dataTop = s.dataTop
  /\ t.gpItem = s.gpItem /\ t.data = s.data /\ t.insts = s.insts

LEMMA LookedIs ==
  ASSUME NEW s \in Asm, TableInv(s), NEW n \in Names, NEW t, t = Looked(s, n)
  PROVE  /\ t \in Asm /\ SameSegments(s, t) /\ t.locals = s.locals /\ t.line = s.line
         /\ t.table[n] \in DOMAIN t.labels /\ t.labels[t.table[n]].name = n
         /\ \A m \in Names : m # n => t.table[m] = s.table[m]
         /\ s.table[n] # 0 => t = s
         /\ Len(s.labels) <= Len(t.labels)
         /\ \A l \in DOMAIN s.labels : l \in DOMAIN t.labels /\ t.labels[l] = s.labels[l]
         /\ \A l \in DOMAIN t.labels :
              l \in DOMAIN s.labels \/ (l = t.table[n] /\ t.labels[l] = Label(n))
         /\ s.table[n] = 0 => t.table[n] \notin DOMAIN s.labels
<1>1. CASE s.table[n] # 0
  <2>1. t = s
    BY <1>1 DEF Looked
  <2>2. s.table[n] \in DOMAIN s.labels /\ s.labels[s.table[n]].name = n
    BY <1>1 DEF TableInv
  <2>3. Len(s.labels) \in Nat
    BY DEF Asm
  <2>4. QED BY <1>1, <2>1, <2>2, <2>3 DEF SameSegments
<1>2. CASE s.table[n] = 0
  <2>1. t = [s EXCEPT !.labels = Append(s.labels, Label(n)), !.table[n] = Len(s.labels) + 1]
    BY <1>2 DEF Looked
  <2>2. Label(n) \in LabelType
    BY Sizes DEF Label, LabelType
  <2>3. /\ s.labels \in Seq(LabelType) /\ Append(s.labels, Label(n)) \in Seq(LabelType)
        /\ Len(Append(s.labels, Label(n))) = Len(s.labels) + 1
        /\ \A l \in DOMAIN s.labels : Append(s.labels, Label(n))[l] = s.labels[l]
        /\ Append(s.labels, Label(n))[Len(s.labels) + 1] = Label(n)
        /\ DOMAIN s.labels = 1..Len(s.labels)
        /\ DOMAIN Append(s.labels, Label(n)) = 1..(Len(s.labels) + 1)
        /\ Len(s.labels) \in Nat
    BY <2>2 DEF Asm
  <2>4. t \in Asm /\ t.labels = Append(s.labels, Label(n))
        /\ t.table = [s.table EXCEPT ![n] = Len(s.labels) + 1]
    <3> DEFINE labels == Append(s.labels, Label(n))
               table == [s.table EXCEPT ![n] = Len(s.labels) + 1]
    <3>1. labels \in Seq(LabelType) /\ table \in [Names -> Nat]
      BY <2>3 DEF Asm
    <3>2. t = [s EXCEPT !.labels = labels, !.table = table]
      BY <2>1 DEF Asm
    <3> HIDE DEF labels, table
    <3>3. t \in Asm /\ t.labels = labels /\ t.table = table
      BY <3>1, <3>2 DEF Asm
    <3>4. QED BY <3>3 DEF labels, table
  <2>5. SameSegments(s, t) /\ t.locals = s.locals /\ t.line = s.line
    BY <2>1 DEF SameSegments, Asm
  <2>6. t.table[n] = Len(s.labels) + 1 /\ \A m \in Names : m # n => t.table[m] = s.table[m]
    BY <2>4 DEF Asm
  <2>7. Label(n).name = n
    BY DEF Label
  <2>8. QED BY <1>2, <2>3, <2>4, <2>5, <2>6, <2>7
<1>3. QED BY <1>1, <1>2

LEMMA LookedGood ==
  ASSUME NEW s, NEW R, NEW P, NEW A, NEW L, Good(s, R, P, A, L), NEW n \in Names
  PROVE  Good(Looked(s, n), R, P, A, L)
<1> DEFINE t == Looked(s, n)
<1>0. s \in Asm /\ TableInv(s) /\ SegmentInv(s) /\ UsesInv(s, L) /\ PlacedInv(s, P, A, L)
      /\ \A r \in R : RefInv(s, r, L) /\ ValueInv(s, r, A, L)
  BY DEF Good
<1>1. /\ t \in Asm /\ SameSegments(s, t) /\ t.locals = s.locals /\ t.line = s.line
      /\ t.table[n] \in DOMAIN t.labels /\ t.labels[t.table[n]].name = n
      /\ \A m \in Names : m # n => t.table[m] = s.table[m]
      /\ s.table[n] # 0 => t = s
      /\ Len(s.labels) <= Len(t.labels)
      /\ \A l \in DOMAIN s.labels : l \in DOMAIN t.labels /\ t.labels[l] = s.labels[l]
      /\ \A l \in DOMAIN t.labels :
           l \in DOMAIN s.labels \/ (l = t.table[n] /\ t.labels[l] = Label(n))
      /\ s.table[n] = 0 => t.table[n] \notin DOMAIN s.labels
  BY <1>0, LookedIs
<1>2. Len(s.labels) \in Nat /\ Len(t.labels) \in Nat
  BY <1>0, <1>1 DEF Asm
<1>3. Label(n).addr = 0 /\ Label(n).gp = FALSE /\ Label(n).next = 0 /\ Label(n).uses = {}
  BY DEF Label
<1> HIDE DEF t
<1>4. TableInv(t)
  <2>1. \A m \in Names : t.table[m] # 0 => /\ t.table[m] \in DOMAIN t.labels
                                           /\ t.labels[t.table[m]].name = m
    <3>1. ASSUME NEW m \in Names, t.table[m] # 0, m # n
          PROVE  t.table[m] \in DOMAIN t.labels /\ t.labels[t.table[m]].name = m
      BY <1>0, <1>1, <3>1 DEF TableInv
    <3>2. QED BY <1>1, <3>1
  <2>2. t.locals \in 0..Len(t.labels) /\ t.line \subseteq DOMAIN t.labels
    BY <1>0, <1>1, <1>2 DEF TableInv
  <2>3. ASSUME NEW l \in DOMAIN t.labels
        PROVE  /\ t.labels[l].next \in 0..Len(t.labels)
               /\ t.labels[l].gp \/ l \in t.line => t.labels[l].addr # 0
    <3>1. CASE l \in DOMAIN s.labels
      <4>1. /\ s.labels[l].next \in 0..Len(s.labels)
            /\ s.labels[l].gp \/ l \in s.line => s.labels[l].addr # 0
        BY <1>0, <3>1 DEF TableInv
      <4>2. QED BY <1>1, <1>2, <3>1, <4>1
    <3>2. CASE l \notin DOMAIN s.labels
      <4>1. t.labels[l] = Label(n) /\ l \notin s.line
        BY <1>0, <1>1, <3>2 DEF TableInv
      <4>2. QED BY <1>1, <1>2, <1>3, <4>1
    <3>3. QED BY <3>1, <3>2
  <2>4. QED BY <2>1, <2>2, <2>3 DEF TableInv
<1>5. SegmentInv(t)
  BY <1>0, <1>1 DEF SegmentInv, SameSegments
<1>6. ASSUME NEW l \in DOMAIN t.labels, NEW u \in t.labels[l].uses
      PROVE  l \in DOMAIN s.labels /\ u \in s.labels[l].uses
  BY <1>1, <1>3, <1>6
<1>7. UsesInv(t, L)
  BY <1>0, <1>1, <1>6 DEF UsesInv, SameSegments
<1>8. ASSUME NEW r \in R PROVE RefInv(t, r, L) /\ ValueInv(t, r, A, L)
  <2>1. RefInv(s, r, L) /\ ValueInv(s, r, A, L)
    BY <1>0, <1>8
  <2>2. RefInv(t, r, L)
    BY <1>1, <1>6, <2>1 DEF RefInv, SameSegments
  <2>3. r[3] \in DOMAIN s.labels /\ t.labels[r[3]] = s.labels[r[3]]
    BY <1>1, <2>1 DEF RefInv
  <2>4. ValueAt(t, r) = ValueAt(s, r)
    BY <1>1 DEF SameSegments, ValueAt, WordAt
  <2>5. ValueInv(t, r, A, L)
    BY <1>1, <2>1, <2>3, <2>4 DEF ValueInv, Pending
  <2>6. QED BY <2>2, <2>5
<1>9. PlacedInv(t, P, A, L)
  BY <1>0, <1>1 DEF PlacedInv
<1>10. QED BY <1>1, <1>4, <1>5, <1>7, <1>8, <1>9 DEF Good, t

-------------------------------------------------------------------------------
(* resolve_label_uses: a place that one label waits for gets its address.   *)

WaitsFor(s, ls, u, l) ==
  /\ l \in ls /\ u \in s.labels[l].uses
  /\ \A k \in ls : u \in s.labels[k].uses => k = l
Unused(s, ls, u) == \A l \in ls : u \notin s.labels[l].uses

LEMMA LabelFields ==
  ASSUME NEW s \in Asm, NEW l \in DOMAIN s.labels
  PROVE  /\ s.labels[l] \in LabelType /\ s.labels[l].addr \in 0..MaxAddr
         /\ s.labels[l].uses \subseteq Places
<1>1. s.labels[l] \in LabelType
  BY DEF Asm
<1>2. QED BY <1>1 DEF LabelType

LEMMA SequenceOf ==
  ASSUME NEW T, NEW n \in Nat, NEW f \in [1..n -> T]
  PROVE  f \in Seq(T) /\ Len(f) = n
  OBVIOUS

LEMMA ElementOf ==
  ASSUME NEW T, NEW q \in Seq(T), NEW k \in DOMAIN q
  PROVE  q[k] \in T
  OBVIOUS

LEMMA SetWordsIs ==
  ASSUME NEW s \in Asm, NEW words, \A a \in DOMAIN words : words[a] \in Nat,
         NEW t, t = SetWords(s, words)
  PROVE  /\ t = [s EXCEPT !.data = t.data] /\ t.data \in [Bytes -> Nat]
         /\ \A a \in Bytes : LET w == a - (a % WORD) IN
              /\ w \notin DOMAIN words => t.data[a] = s.data[a]
              /\ w \in DOMAIN words /\ w % 2 = 0 /\ w >= DATA_BOT /\ w < s.dataTop
                   => t.data[a] = ByteOf(words[w], a)
<1> DEFINE good == {a \in DOMAIN words : Aligned(a) /\ a >= DATA_BOT /\ a < s.dataTop}
           begin(a) == a - (a % WORD)
           data == [a \in Bytes |->
                      IF begin(a) \in good THEN ByteOf(words[begin(a)], a) ELSE s.data[a]]
<1>1. t = [s EXCEPT !.data = data]
  BY DEF SetWords
<1>2. ASSUME NEW a \in Bytes PROVE data[a] \in Nat
  <2>1. CASE begin(a) \in good
    <3>1. words[begin(a)] \in Nat
      BY <2>1
    <3>2. ByteOf(words[begin(a)], a) \in Nat
      BY <3>1, BytesOfWord DEF ByteOf
    <3>3. QED BY <2>1, <3>2
  <2>2. CASE begin(a) \notin good
    BY <2>2 DEF Asm
  <2>3. QED BY <2>1, <2>2
<1>3. data \in [Bytes -> Nat]
  BY <1>2
<1>4. t.data = data
  BY <1>1 DEF Asm
<1>5. ASSUME NEW a \in Bytes
      PROVE  /\ begin(a) \notin DOMAIN words => data[a] = s.data[a]
             /\ begin(a) \in DOMAIN words /\ begin(a) % 2 = 0 /\ begin(a) >= DATA_BOT
                  /\ begin(a) < s.dataTop => data[a] = ByteOf(words[begin(a)], a)
  BY DEF Aligned, WORD
<1>6. QED
  <2> HIDE DEF data
  <2>1. QED BY <1>1, <1>3, <1>4, <1>5

(* Labels ls of state s are resolved in state t, which may differ in its line. *)
Resolves(s, ls, t) ==
  /\ t \in Asm /\ t.table = s.table /\ t.locals = s.locals
  /\ t.text = s.text /\ t.auto = s.auto /\ t.dataPc = s.dataPc /\ t.dataTop = s.dataTop
  /\ t.gpItem = s.gpItem
  /\ Len(t.labels) = Len(s.labels) /\ DOMAIN t.labels = DOMAIN s.labels
  /\ Len(t.insts) = Len(s.insts) /\ DOMAIN t.insts = DOMAIN s.insts
  /\ \A l \in DOMAIN s.labels :
       /\ t.labels[l].uses = IF l \in ls THEN {} ELSE s.labels[l].uses
       /\ t.labels[l].name = s.labels[l].name /\ t.labels[l].addr = s.labels[l].addr
       /\ t.labels[l].global = s.labels[l].global /\ t.labels[l].gp = s.labels[l].gp
       /\ t.labels[l].next = s.labels[l].next
  /\ \A k \in DOMAIN s.insts :
       /\ Unused(s, ls, <<"text", k>>) => t.insts[k] = s.insts[k]
       /\ \A l : WaitsFor(s, ls, <<"text", k>>, l) => t.insts[k] = s.labels[l].addr
  /\ \A a \in Bytes : LET w == a - (a % WORD) IN
       /\ Unused(s, ls, <<"data", w>>) => t.data[a] = s.data[a]
       /\ \A l : WaitsFor(s, ls, <<"data", w>>, l)
                   /\ w % 2 = 0 /\ w >= DATA_BOT /\ w < s.dataTop
                 => t.data[a] = ByteOf(s.labels[l].addr, a)

LEMMA ResolvedIs ==
  ASSUME NEW s \in Asm, NEW ls, ls \subseteq DOMAIN s.labels, NEW t, t = Resolved(s, ls)
  PROVE  Resolves(s, ls, t) /\ t.line = s.line
<1> DEFINE uses == UNION {s.labels[l].uses : l \in ls}
           addr(u) == s.labels[CHOOSE l \in ls : u \in s.labels[l].uses].addr
           words == [a \in {u[2] : u \in {v \in uses : v[1] = "data"}} |-> addr(<<"data", a>>)]
           r == SetWords(s, words)
           instsOf(q) == [k \in DOMAIN q |->
                            IF <<"text", k>> \in uses THEN addr(<<"text", k>>) ELSE q[k]]
           labelsOf(q) == [l \in DOMAIN q |->
                             IF l \in ls THEN [q[l] EXCEPT !.uses = {}] ELSE q[l]]
           insts == instsOf(s.insts)
           labels == labelsOf(s.labels)
<1>1. ASSUME NEW l \in DOMAIN s.labels
      PROVE  s.labels[l] \in LabelType /\ s.labels[l].addr \in 0..MaxAddr
             /\ s.labels[l].uses \subseteq Places
  BY LabelFields
<1>2. ASSUME NEW u \in uses PROVE addr(u) \in 0..MaxAddr
  <2>1. (CHOOSE l \in ls : u \in s.labels[l].uses) \in ls
    OBVIOUS
  <2>2. QED BY <1>1, <2>1
<1>3. ASSUME NEW u, Unused(s, ls, u) PROVE u \notin uses
  BY <1>3 DEF Unused
<1>4. ASSUME NEW u, NEW l, WaitsFor(s, ls, u, l) PROVE u \in uses /\ addr(u) = s.labels[l].addr
  <2>1. l \in ls /\ u \in s.labels[l].uses /\ \A k \in ls : u \in s.labels[k].uses => k = l
    BY <1>4 DEF WaitsFor
  <2>2. (CHOOSE k \in ls : u \in s.labels[k].uses) = l
    BY <2>1
  <2>3. QED BY <2>1, <2>2
<1>5. ASSUME NEW u \in uses PROVE u = <<u[1], u[2]>>
  BY <1>1 DEF Places
<1> HIDE DEF uses, addr
<1>6. \A a : a \in DOMAIN words <=> <<"data", a>> \in uses
  <2>1. ASSUME NEW a, <<"data", a>> \in uses PROVE a \in DOMAIN words
    <3>1. <<"data", a>>[1] = "data" /\ <<"data", a>>[2] = a
      OBVIOUS
    <3>2. QED BY <2>1, <3>1
  <2>2. ASSUME NEW a \in DOMAIN words PROVE <<"data", a>> \in uses
    BY <1>5
  <2>3. QED BY <2>1, <2>2
<1>7. \A a \in DOMAIN words : words[a] = addr(<<"data", a>>)
  OBVIOUS
<1>7a. \A a \in DOMAIN words : words[a] \in Nat
  <2> HIDE DEF words
  <2>1. 0..MaxAddr \subseteq Nat
    BY Sizes
  <2>2. QED BY <1>2, <1>6, <1>7, <2>1
<1> HIDE DEF words
<1>8. /\ r = [s EXCEPT !.data = r.data] /\ r.data \in [Bytes -> Nat]
      /\ \A a \in Bytes : LET w == a - (a % WORD) IN
           /\ w \notin DOMAIN words => r.data[a] = s.data[a]
           /\ w \in DOMAIN words /\ w % 2 = 0 /\ w >= DATA_BOT /\ w < s.dataTop
                => r.data[a] = ByteOf(words[w], a)
  <2> HIDE DEF words
  <2>1. r = SetWords(s, words)
    OBVIOUS
  <2> HIDE DEF r
  <2>2. QED BY <1>7a, <2>1, SetWordsIs
<1>9. t = [r EXCEPT !.insts = instsOf(r.insts), !.labels = labelsOf(r.labels)]
  BY DEF Resolved, uses, addr, words
<1> HIDE DEF r
<1>10. r.insts = s.insts /\ r.labels = s.labels /\ r \in Asm
  BY <1>8 DEF Asm
<1>11. t = [r EXCEPT !.insts = insts, !.labels = labels]
  <2> HIDE DEF instsOf, labelsOf
  <2>1. r.insts = s.insts /\ r.labels = s.labels
    BY <1>10
  <2>2. QED BY <1>9, <2>1
<1>12. insts \in Seq(0..MaxAddr) /\ Len(insts) = Len(s.insts)
  <2>0. \A k \in DOMAIN s.insts : s.insts[k] \in 0..MaxAddr
    <3>1. s.insts \in Seq(0..MaxAddr)
      BY DEF Asm
    <3>2. QED BY <3>1, ElementOf
  <2>1. ASSUME NEW k \in DOMAIN s.insts PROVE insts[k] \in 0..MaxAddr
    <3>1. CASE <<"text", k>> \in uses
      <4>1. insts[k] = addr(<<"text", k>>)
        BY <3>1
      <4>2. addr(<<"text", k>>) \in 0..MaxAddr
        BY <1>2, <3>1
      <4>3. QED
        <5> HIDE DEF insts
        <5>1. QED BY <4>1, <4>2
    <3>2. CASE <<"text", k>> \notin uses
      BY <2>0, <3>2
    <3>3. QED BY <3>1, <3>2
  <2>2. s.insts \in Seq(0..MaxAddr) /\ DOMAIN s.insts = 1..Len(s.insts) /\ Len(s.insts) \in Nat
    BY DEF Asm
  <2>3. insts \in [1..Len(s.insts) -> 0..MaxAddr]
    BY <2>1, <2>2
  <2> HIDE DEF insts
  <2>4. QED BY <2>2, <2>3, SequenceOf
<1>13. labels \in Seq(LabelType) /\ Len(labels) = Len(s.labels)
  <2>1. \A l \in DOMAIN s.labels : labels[l] \in LabelType
    BY <1>1 DEF LabelType
  <2>2. s.labels \in Seq(LabelType) /\ DOMAIN s.labels = 1..Len(s.labels) /\ Len(s.labels) \in Nat
    BY DEF Asm
  <2>3. labels \in [1..Len(s.labels) -> LabelType]
    BY <2>1, <2>2
  <2> HIDE DEF labels
  <2>4. QED BY <2>2, <2>3, SequenceOf
<1>14. \A l \in DOMAIN s.labels :
         labels[l] = IF l \in ls THEN [s.labels[l] EXCEPT !.uses = {}] ELSE s.labels[l]
  OBVIOUS
<1>15. \A k \in DOMAIN s.insts :
         /\ Unused(s, ls, <<"text", k>>) => insts[k] = s.insts[k]
         /\ \A l : WaitsFor(s, ls, <<"text", k>>, l) => insts[k] = s.labels[l].addr
  BY <1>3, <1>4
<1> HIDE DEF insts, labels
<1>16. t.data = r.data /\ t.insts = insts /\ t.labels = labels
       /\ t = [s EXCEPT !.data = t.data, !.insts = insts, !.labels = labels]
  BY <1>8, <1>10, <1>11 DEF Asm
<1>17. \A a \in Bytes : LET w == a - (a % WORD) IN
         /\ Unused(s, ls, <<"data", w>>) => t.data[a] = s.data[a]
         /\ \A l : WaitsFor(s, ls, <<"data", w>>, l)
                     /\ w % 2 = 0 /\ w >= DATA_BOT /\ w < s.dataTop
                   => t.data[a] = ByteOf(s.labels[l].addr, a)
  BY <1>3, <1>4, <1>6, <1>7, <1>8, <1>16
<1>18. /\ t \in Asm /\ t.table = s.table /\ t.locals = s.locals /\ t.line = s.line
       /\ t.text = s.text /\ t.auto = s.auto /\ t.dataPc = s.dataPc /\ t.dataTop = s.dataTop
       /\ t.gpItem = s.gpItem
  BY <1>8, <1>12, <1>13, <1>16 DEF Asm
<1>19. /\ DOMAIN labels = 1..Len(labels) /\ DOMAIN s.labels = 1..Len(s.labels)
       /\ DOMAIN insts = 1..Len(insts) /\ DOMAIN s.insts = 1..Len(s.insts)
  BY <1>12, <1>13 DEF Asm
<1>20. ASSUME NEW l \in DOMAIN s.labels
       PROVE  /\ labels[l].uses = IF l \in ls THEN {} ELSE s.labels[l].uses
              /\ labels[l].name = s.labels[l].name /\ labels[l].addr = s.labels[l].addr
              /\ labels[l].global = s.labels[l].global /\ labels[l].gp = s.labels[l].gp
              /\ labels[l].next = s.labels[l].next
  BY <1>1, <1>14 DEF LabelType
<1>21. QED BY <1>12, <1>13, <1>15, <1>16, <1>17, <1>18, <1>19, <1>20 DEF Resolves

(* Labels of the line that are resolved, and are not on the line any more.  *)
LEMMA ResolvedGood ==
  ASSUME NEW s, NEW R, NEW P, NEW A, NEW L, Good(s, R, P, A, L),
         NEW ls, ls \subseteq s.line, NEW t, Resolves(s, ls, t), t.line = s.line \ ls
  PROVE  Good(t, R, P, A, L)
<1>0. s \in Asm /\ TableInv(s) /\ SegmentInv(s) /\ UsesInv(s, L) /\ PlacedInv(s, P, A, L)
      /\ \A r \in R : RefInv(s, r, L) /\ ValueInv(s, r, A, L)
  BY DEF Good
<1>1. ls \subseteq DOMAIN s.labels
  BY <1>0 DEF TableInv
<1>2. /\ t \in Asm /\ t.table = s.table /\ t.locals = s.locals /\ t.line = s.line \ ls
      /\ t.text = s.text /\ t.auto = s.auto /\ t.dataPc = s.dataPc /\ t.dataTop = s.dataTop
      /\ t.gpItem = s.gpItem
      /\ Len(t.labels) = Len(s.labels) /\ DOMAIN t.labels = DOMAIN s.labels
      /\ Len(t.insts) = Len(s.insts) /\ DOMAIN t.insts = DOMAIN s.insts
  BY DEF Resolves
<1>3. \A l \in DOMAIN s.labels :
        /\ t.labels[l].uses = IF l \in ls THEN {} ELSE s.labels[l].uses
        /\ t.labels[l].name = s.labels[l].name /\ t.labels[l].addr = s.labels[l].addr
        /\ t.labels[l].global = s.labels[l].global /\ t.labels[l].gp = s.labels[l].gp
        /\ t.labels[l].next = s.labels[l].next
  BY DEF Resolves
<1>4. \A k \in DOMAIN s.insts :
        /\ Unused(s, ls, <<"text", k>>) => t.insts[k] = s.insts[k]
        /\ \A l : WaitsFor(s, ls, <<"text", k>>, l) => t.insts[k] = s.labels[l].addr
  BY DEF Resolves
<1>5. \A a \in Bytes : LET w == a - (a % WORD) IN
        /\ Unused(s, ls, <<"data", w>>) => t.data[a] = s.data[a]
        /\ \A l : WaitsFor(s, ls, <<"data", w>>, l)
                    /\ w % 2 = 0 /\ w >= DATA_BOT /\ w < s.dataTop
                  => t.data[a] = ByteOf(s.labels[l].addr, a)
  BY DEF Resolves
<1>6. TableInv(t)
  <2>1. \A n \in Names : t.table[n] # 0 => /\ t.table[n] \in DOMAIN t.labels
                                           /\ t.labels[t.table[n]].name = n
    BY <1>0, <1>2, <1>3 DEF TableInv
  <2>2. t.locals \in 0..Len(t.labels) /\ t.line \subseteq DOMAIN t.labels
    BY <1>0, <1>2 DEF TableInv
  <2>3. \A l \in DOMAIN t.labels :
          /\ t.labels[l].next \in 0..Len(t.labels)
          /\ t.labels[l].gp \/ l \in t.line => t.labels[l].addr # 0
    BY <1>0, <1>2, <1>3 DEF TableInv
  <2>4. QED BY <2>1, <2>2, <2>3 DEF TableInv
<1>7. SegmentInv(t)
  BY <1>0, <1>2 DEF SegmentInv
<1>8. UsesInv(t, L)
  BY <1>0, <1>2, <1>3 DEF UsesInv
<1>9. PlacedInv(t, P, A, L)
  BY <1>0, <1>2, <1>3 DEF PlacedInv
<1>10. ASSUME NEW r \in R PROVE RefInv(t, r, L) /\ ValueInv(t, r, A, L)
  <2>1. RefInv(s, r, L) /\ ValueInv(s, r, A, L) /\ r[3] \in DOMAIN s.labels
    BY <1>0, <1>10 DEF RefInv
  <2>2. RefInv(t, r, L)
    <3>1. \A l \in DOMAIN t.labels : l \in DOMAIN s.labels /\ t.labels[l].uses \subseteq s.labels[l].uses
      BY <1>2, <1>3
    <3>2. r[3] \in DOMAIN t.labels /\ t.dataPc = s.dataPc /\ DOMAIN t.insts = DOMAIN s.insts
      BY <1>2, <2>1
    <3>3. QED BY <2>1, <3>1, <3>2 DEF RefInv
  <2>3. SUFFICES ASSUME ~ MovedIn(r[3], A, L), ~ StrayedIn(r, L) PROVE ValueInv(t, r, A, L)
    BY <2>2 DEF ValueInv
  <2> DEFINE l == r[3]
             addr == s.labels[l].addr
  <2>4. CASE r[1] = "text"
    <3>1. r[2] \in DOMAIN s.insts /\ ValueAt(s, r) = s.insts[r[2]] /\ ValueAt(t, r) = t.insts[r[2]]
          /\ \A k \in DOMAIN s.labels : <<"text", r[2]>> \in s.labels[k].uses => k = l
      BY <2>1, <2>4 DEF RefInv, ValueAt
    <3>2. CASE l \in ls
      <4>1. addr # 0
        BY <1>0, <3>2 DEF TableInv
      <4>2. t.insts[r[2]] = addr
        <5>1. CASE <<"text", r[2]>> \in s.labels[l].uses
          <6>1. WaitsFor(s, ls, <<"text", r[2]>>, l)
            BY <1>1, <3>1, <3>2, <5>1 DEF WaitsFor
          <6>2. QED BY <1>4, <3>1, <6>1
        <5>2. CASE <<"text", r[2]>> \notin s.labels[l].uses
          <6>1. Unused(s, ls, <<"text", r[2]>>)
            BY <1>1, <3>1, <5>2 DEF Unused
          <6>2. s.insts[r[2]] = addr
            BY <2>1, <2>3, <2>4, <3>1, <5>2 DEF ValueInv, Pending
          <6>3. QED BY <1>4, <3>1, <6>1, <6>2
        <5>3. QED BY <5>1, <5>2
      <4>3. QED BY <1>2, <1>3, <2>1, <3>1, <3>2, <4>1, <4>2 DEF ValueInv
    <3>3. CASE l \notin ls
      <4>1. Unused(s, ls, <<"text", r[2]>>)
        BY <1>1, <3>1, <3>3 DEF Unused
      <4>2. t.insts[r[2]] = s.insts[r[2]]
        BY <1>4, <3>1, <4>1
      <4>3. QED BY <1>2, <1>3, <2>1, <2>3, <3>1, <3>3, <4>2 DEF ValueInv, Pending
    <3>4. QED BY <3>2, <3>3
  <2>5. CASE r[1] = "data"
    <3> DEFINE a == r[2]
    <3>1. /\ a \in Nat /\ DataBegin <= a /\ a + 2 <= s.dataPc
          /\ \A e \in L : e[1] = "stray" => e[2] <= a \/ a + 2 <= e[2]
          /\ \A k \in DOMAIN s.labels : \A u \in s.labels[k].uses :
               \/ u[1] # "data" \/ <<"stray", u[2]>> \in L
               \/ u[2] = a /\ k = l
               \/ u[2] + 2 <= a \/ a + 2 <= u[2]
      BY <2>1, <2>5 DEF RefInv, WORD
    <3>2. s.dataPc \in Nat /\ s.dataTop \in Nat /\ s.dataPc <= s.dataTop /\ s.dataPc <= MaxAddr
      BY <1>0 DEF Asm, SegmentInv
    <3>3. DATA_BOT <= a /\ a < s.dataTop /\ a \in Bytes /\ a + 1 \in Bytes
      <4>1. DATA_BOT \in Nat /\ DATA_BOT <= DataBegin /\ DataBegin \in Nat /\ MaxAddr \in Nat
            /\ Bytes = DATA_BOT..MaxAddr
        BY Sizes
      <4>2. QED BY <3>1, <3>2, <4>1
    <3>4. <<"stray", a - (a % 2)>> \notin L
      BY <2>3, <2>5 DEF StrayedIn, WORD
    <3>5. ASSUME NEW w \in Nat, w % 2 = 0, a <= w + 1, w <= a + 1, NEW k \in DOMAIN s.labels,
                 <<"data", w>> \in s.labels[k].uses
          PROVE  w = a /\ k = l
      <4>1. \/ <<"stray", w>> \in L \/ (w = a /\ k = l) \/ w + 2 <= a \/ a + 2 <= w
        <5>1. <<"data", w>>[1] = "data" /\ <<"data", w>>[2] = w
          OBVIOUS
        <5>2. QED BY <3>1, <3>5, <5>1
      <4>2. ASSUME <<"stray", w>> \in L PROVE FALSE
        <5>1. <<"stray", w>>[1] = "stray" /\ <<"stray", w>>[2] = w
          OBVIOUS
        <5>2. w <= a \/ a + 2 <= w
          BY <3>1, <4>2, <5>1
        <5>3. w = a - (a % 2)
          BY <3>1, <3>5, <5>2
        <5>4. QED BY <3>4, <4>2, <5>3
      <4>3. QED BY <3>1, <3>5, <4>1, <4>2
    <3>6. ValueAt(s, r) = s.data[a] + BYTE * s.data[a + 1]
          /\ ValueAt(t, r) = t.data[a] + BYTE * t.data[a + 1]
      BY <2>5 DEF ValueAt, WordAt
    <3> DEFINE v == a - (a % 2)
               w == (a + 1) - ((a + 1) % 2)
    <3>7. v \in Nat /\ v % 2 = 0 /\ a <= v + 1 /\ v <= a + 1
          /\ w \in Nat /\ w % 2 = 0 /\ a <= w + 1 /\ w <= a + 1
      BY <3>1
    <3>8. CASE l \in ls
      <4>1. addr # 0 /\ addr \in Nat
        <5>1. addr \in 0..MaxAddr /\ MaxAddr \in Nat
          BY <1>0, <2>1, LabelFields, Sizes
        <5>2. QED BY <1>0, <3>8, <5>1 DEF TableInv
      <4>2. CASE Unused(s, ls, <<"data", v>>) /\ Unused(s, ls, <<"data", w>>)
        <5>1. ~ Pending(s, r)
          <6>1. SUFFICES ASSUME a % 2 = 0, <<"data", a>> \in s.labels[l].uses PROVE FALSE
            BY <2>5 DEF Pending, Aligned, WORD
          <6>2. v = a
            BY <3>1, <6>1
          <6>3. QED BY <3>8, <4>2, <6>1, <6>2 DEF Unused
        <5>2. ValueAt(s, r) = addr
          BY <2>1, <2>3, <5>1 DEF ValueInv
        <5>3. t.data[a] = s.data[a] /\ t.data[a + 1] = s.data[a + 1]
          BY <1>5, <3>3, <4>2 DEF WORD
        <5>4. QED BY <1>2, <1>3, <2>1, <3>6, <4>1, <5>2, <5>3 DEF ValueInv
      <4>3. CASE ~ (Unused(s, ls, <<"data", v>>) /\ Unused(s, ls, <<"data", w>>))
        <5>1. <<"data", a>> \in s.labels[l].uses /\ (v = a \/ w = a)
          BY <1>1, <3>5, <3>7, <4>3 DEF Unused
        <5>2. a % 2 = 0
          BY <3>7, <5>1
        <5>3. WaitsFor(s, ls, <<"data", a>>, l)
          BY <1>1, <3>1, <3>5, <3>8, <5>1, <5>2 DEF WaitsFor
        <5>4. a - (a % 2) = a /\ (a + 1) - ((a + 1) % 2) = a /\ (a + 1) % 2 = 1
          BY <3>1, <5>2
        <5>5. t.data[a] = ByteOf(addr, a) /\ t.data[a + 1] = ByteOf(addr, a + 1)
          BY <1>5, <3>3, <5>2, <5>3, <5>4 DEF WORD
        <5>6. ByteOf(addr, a) = addr % BYTE /\ ByteOf(addr, a + 1) = addr \div BYTE
          BY <5>2, <5>4 DEF ByteOf, Aligned, WORD
        <5>7. ValueAt(t, r) = addr
          BY <3>6, <4>1, <5>5, <5>6, BytesOfWord
        <5>8. QED BY <1>2, <1>3, <2>1, <4>1, <5>7 DEF ValueInv
      <4>4. QED BY <4>2, <4>3
    <3>9. CASE l \notin ls
      <4>1. Unused(s, ls, <<"data", v>>) /\ Unused(s, ls, <<"data", w>>)
        BY <1>1, <3>5, <3>7, <3>9 DEF Unused
      <4>2. t.data[a] = s.data[a] /\ t.data[a + 1] = s.data[a + 1]
        BY <1>5, <3>3, <4>1 DEF WORD
      <4>3. ValueAt(t, r) = ValueAt(s, r)
        BY <3>6, <4>2
      <4>4. QED BY <1>2, <1>3, <2>1, <2>3, <3>9, <4>3 DEF ValueInv, Pending
    <3>10. QED BY <3>8, <3>9
  <2>6. QED BY <2>1, <2>4, <2>5 DEF RefInv
<1>11. QED BY <1>2, <1>6, <1>7, <1>8, <1>9, <1>10 DEF Good

LEMMA ClearedIs ==
  ASSUME NEW s \in Asm, TableInv(s), NEW t, t = Cleared(s)
  PROVE  Resolves(s, s.line, t) /\ t.line = {}
<1> DEFINE q == Resolved(s, s.line)
<1>1. Resolves(s, s.line, q)
  BY ResolvedIs DEF TableInv
<1>2. t = [q EXCEPT !.line = {}]
  BY DEF Cleared
<1> HIDE DEF q
<1>3. q \in Asm
  BY <1>1 DEF Resolves
<1>4. /\ t \in Asm /\ t.table = q.table /\ t.locals = q.locals /\ t.line = {}
      /\ t.text = q.text /\ t.auto = q.auto /\ t.dataPc = q.dataPc /\ t.dataTop = q.dataTop
      /\ t.gpItem = q.gpItem /\ t.data = q.data /\ t.insts = q.insts /\ t.labels = q.labels
  BY <1>2, <1>3 DEF Asm
<1>5. QED BY <1>1, <1>4 DEF Resolves

LEMMA ClearedGood ==
  ASSUME NEW s, NEW R, NEW P, NEW A, NEW L, Good(s, R, P, A, L)
  PROVE  Good(Cleared(s), R, P, A, L)
<1>1. s \in Asm /\ TableInv(s)
  BY DEF Good
<1>2. Resolves(s, s.line, Cleared(s)) /\ Cleared(s).line = {}
  BY <1>1, ClearedIs
<1>3. QED BY <1>2, ResolvedGood

-------------------------------------------------------------------------------
(* record_label.                                                            *)

LEMMA LabelChanged ==
  ASSUME NEW s \in Asm, NEW l \in DOMAIN s.labels, NEW b \in LabelType,
         NEW t, t = [s EXCEPT !.labels[l] = b]
  PROVE  /\ t \in Asm /\ SameSegments(s, t) /\ t.table = s.table /\ t.locals = s.locals
         /\ t.line = s.line /\ Len(t.labels) = Len(s.labels) /\ DOMAIN t.labels = DOMAIN s.labels
         /\ t.labels[l] = b /\ \A k \in DOMAIN s.labels : k # l => t.labels[k] = s.labels[k]
<1> DEFINE labels == [s.labels EXCEPT ![l] = b]
<1>1. s.labels \in Seq(LabelType) /\ DOMAIN s.labels = 1..Len(s.labels) /\ Len(s.labels) \in Nat
  BY DEF Asm
<1>2. labels \in Seq(LabelType) /\ Len(labels) = Len(s.labels) /\ DOMAIN labels = DOMAIN s.labels
      /\ labels[l] = b /\ \A k \in DOMAIN s.labels : k # l => labels[k] = s.labels[k]
  BY <1>1
<1>3. t = [s EXCEPT !.labels = labels]
  OBVIOUS
<1> HIDE DEF labels
<1>4. t \in Asm /\ SameSegments(s, t) /\ t.table = s.table /\ t.locals = s.locals
      /\ t.line = s.line /\ t.labels = labels
  BY <1>2, <1>3 DEF Asm, SameSegments
<1>5. QED BY <1>2, <1>4

(* Label l gets an address, other attributes or another place on the list;  *)
(* the line may get label l.                                                *)
Changes(s, l, t) ==
  /\ t \in Asm /\ SameSegments(s, t) /\ t.table = s.table
  /\ l \in DOMAIN s.labels
  /\ Len(t.labels) = Len(s.labels) /\ DOMAIN t.labels = DOMAIN s.labels
  /\ \A k \in DOMAIN s.labels : k # l => t.labels[k] = s.labels[k]
  /\ t.labels[l].name = s.labels[l].name /\ t.labels[l].uses = s.labels[l].uses
  /\ t.labels[l].next \in 0..Len(s.labels) /\ t.locals \in 0..Len(s.labels)
  /\ t.line \in {s.line, s.line \cup {l}}
  /\ t.labels[l].gp \/ l \in t.line => t.labels[l].addr # 0

LEMMA ChangedGood ==
  ASSUME NEW s, NEW R, NEW P, NEW A, NEW L, Good(s, R, P, A, L), NEW l, NEW t, Changes(s, l, t),
         \/ t.labels[l].addr = s.labels[l].addr /\ t.line = s.line
         \/ MovedIn(l, A, L)
         \/ /\ s.labels[l].addr = 0 /\ t.labels[l].addr # 0
            /\ l \in t.line \/ s.labels[l].uses = {}
  PROVE  Good(t, R, P, A, L)
<1>0. s \in Asm /\ TableInv(s) /\ SegmentInv(s) /\ UsesInv(s, L) /\ PlacedInv(s, P, A, L)
      /\ \A r \in R : RefInv(s, r, L) /\ ValueInv(s, r, A, L)
  BY DEF Good
<1>1. /\ t \in Asm /\ SameSegments(s, t) /\ t.table = s.table /\ l \in DOMAIN s.labels
      /\ Len(t.labels) = Len(s.labels) /\ DOMAIN t.labels = DOMAIN s.labels
      /\ t.line \in {s.line, s.line \cup {l}}
  BY DEF Changes
<1>2. /\ \A k \in DOMAIN s.labels : k # l => t.labels[k] = s.labels[k]
      /\ t.labels[l].name = s.labels[l].name /\ t.labels[l].uses = s.labels[l].uses
      /\ t.labels[l].next \in 0..Len(s.labels) /\ t.locals \in 0..Len(s.labels)
      /\ t.labels[l].gp \/ l \in t.line => t.labels[l].addr # 0
  BY DEF Changes
<1>3. \A k \in DOMAIN s.labels : t.labels[k].uses = s.labels[k].uses
  BY <1>2
<1>4. TableInv(t)
  <2>1. \A n \in Names : t.table[n] # 0 => /\ t.table[n] \in DOMAIN t.labels
                                           /\ t.labels[t.table[n]].name = n
    BY <1>0, <1>1, <1>2 DEF TableInv
  <2>2. t.locals \in 0..Len(t.labels) /\ t.line \subseteq DOMAIN t.labels
    BY <1>0, <1>1, <1>2 DEF TableInv
  <2>3. ASSUME NEW k \in DOMAIN t.labels
        PROVE  /\ t.labels[k].next \in 0..Len(t.labels)
               /\ t.labels[k].gp \/ k \in t.line => t.labels[k].addr # 0
    BY <1>0, <1>1, <1>2 DEF TableInv
  <2>4. QED BY <2>1, <2>2, <2>3 DEF TableInv
<1>5. SegmentInv(t)
  BY <1>0, <1>1 DEF SegmentInv, SameSegments
<1>6. UsesInv(t, L)
  BY <1>0, <1>1, <1>3 DEF UsesInv, SameSegments
<1>7. PlacedInv(t, P, A, L)
  <2>1. SUFFICES ASSUME NEW k \in P, ~ MovedIn(k[1], A, L)
                 PROVE  /\ k[1] \in DOMAIN t.labels
                        /\ t.labels[k[1]].addr = k[2] /\ k[1] \notin t.line
    BY <1>0, <1>1 DEF PlacedInv
  <2>2. k[1] \in DOMAIN s.labels /\ k[2] # 0 /\ s.labels[k[1]].addr = k[2] /\ k[1] \notin s.line
    BY <1>0, <2>1 DEF PlacedInv
  <2>3. CASE k[1] = l
    BY <1>1, <2>1, <2>2, <2>3
  <2>4. CASE k[1] # l
    BY <1>1, <1>2, <2>2, <2>4
  <2>5. QED BY <2>3, <2>4
<1>8. ASSUME NEW r \in R PROVE RefInv(t, r, L) /\ ValueInv(t, r, A, L)
  <2>1. RefInv(s, r, L) /\ ValueInv(s, r, A, L) /\ r[3] \in DOMAIN s.labels
    BY <1>0, <1>8 DEF RefInv
  <2>2. RefInv(t, r, L)
    BY <1>1, <1>3, <2>1 DEF RefInv, SameSegments
  <2>3. ValueAt(t, r) = ValueAt(s, r)
    BY <1>1 DEF SameSegments, ValueAt, WordAt
  <2>4. CASE r[3] = l
    <3>1. SUFFICES ASSUME ~ MovedIn(l, A, L), ~ StrayedIn(r, L) PROVE ValueInv(t, r, A, L)
      BY <2>2, <2>4 DEF ValueInv, Pending
    <3>2. CASE t.labels[l].addr = s.labels[l].addr /\ t.line = s.line
      BY <1>3, <2>1, <2>3, <2>4, <3>2 DEF ValueInv, Pending
    <3>3. CASE s.labels[l].addr = 0 /\ t.labels[l].addr # 0 /\ (l \in t.line \/ s.labels[l].uses = {})
      BY <1>2, <2>1, <2>4, <3>1, <3>3 DEF ValueInv, Pending
    <3>4. QED BY <3>1, <3>2, <3>3
  <2>5. CASE r[3] # l
    BY <1>1, <1>2, <2>1, <2>2, <2>3, <2>5 DEF ValueInv, Pending
  <2>6. QED BY <2>2, <2>4, <2>5
<1>9. QED BY <1>1, <1>4, <1>5, <1>6, <1>7, <1>8 DEF Good

(* The steps of record_label: the label gets its address, ...               *)
Alike(s, l, t) ==
  /\ t \in Asm /\ SameSegments(s, t) /\ t.table = s.table /\ t.line = s.line
  /\ l \in DOMAIN s.labels
  /\ Len(t.labels) = Len(s.labels) /\ DOMAIN t.labels = DOMAIN s.labels
  /\ \A k \in DOMAIN s.labels : k # l => t.labels[k] = s.labels[k]
  /\ t.labels[l].name = s.labels[l].name /\ t.labels[l].uses = s.labels[l].uses
  /\ t.labels[l].gp = s.labels[l].gp /\ t.labels[l].global = s.labels[l].global
AddressSet(s, l, addr, t) ==
  /\ Alike(s, l, t) /\ t.locals = s.locals /\ t.labels[l].next = s.labels[l].next
  /\ t.labels[l].addr = IF s.labels[l].gp THEN s.labels[l].addr ELSE addr

(* ... and is put on the list if it is a local one.                         *)
Listed(s, l, t) ==
  /\ Alike(s, l, t) /\ t.labels[l].addr = s.labels[l].addr
  /\ IF s.labels[l].global THEN t.locals = s.locals /\ t.labels[l].next = s.labels[l].next
                           ELSE t.locals = l /\ t.labels[l].next = s.locals

LEMMA AddressIsSet ==
  ASSUME NEW s \in Asm, NEW l \in DOMAIN s.labels, NEW addr \in 0..MaxAddr,
         NEW t, t = IF s.labels[l].gp THEN s ELSE [s EXCEPT !.labels[l].addr = addr]
  PROVE  AddressSet(s, l, addr, t)
<1>1. CASE s.labels[l].gp
  BY <1>1 DEF AddressSet, Alike, SameSegments
<1>2. CASE ~ s.labels[l].gp
  <2> DEFINE b == [s.labels[l] EXCEPT !.addr = addr]
             q == [s EXCEPT !.labels[l] = b]
  <2>1. s.labels[l] \in LabelType
    BY LabelFields
  <2>2. b \in LabelType /\ b.addr = addr /\ b.name = s.labels[l].name /\ b.uses = s.labels[l].uses
        /\ b.gp = s.labels[l].gp /\ b.global = s.labels[l].global /\ b.next = s.labels[l].next
    BY <2>1 DEF LabelType
  <2>3. t = q
    BY <1>2
  <2> HIDE DEF b
  <2>4. /\ q \in Asm /\ SameSegments(s, q) /\ q.table = s.table /\ q.locals = s.locals
        /\ q.line = s.line /\ Len(q.labels) = Len(s.labels) /\ DOMAIN q.labels = DOMAIN s.labels
        /\ q.labels[l] = b /\ \A k \in DOMAIN s.labels : k # l => q.labels[k] = s.labels[k]
    BY <2>2, LabelChanged
  <2> HIDE DEF q
  <2>5. QED BY <1>2, <2>2, <2>3, <2>4 DEF AddressSet, Alike
<1>3. QED BY <1>1, <1>2

LEMMA IsListed ==
  ASSUME NEW s \in Asm, NEW l \in DOMAIN s.labels,
         NEW t, t = IF IsLocal(s, l) THEN [s EXCEPT !.labels[l].next = s.locals, !.locals = l] ELSE s
  PROVE  Listed(s, l, t)
<1>1. CASE s.labels[l].global
  BY <1>1 DEF Listed, Alike, SameSegments, IsLocal
<1>2. CASE ~ s.labels[l].global
  <2> DEFINE b == [s.labels[l] EXCEPT !.next = s.locals]
             q == [s EXCEPT !.labels[l] = b]
  <2>1. s.labels[l] \in LabelType /\ s.locals \in Nat /\ l \in Nat
    BY LabelFields DEF Asm
  <2>2. b \in LabelType /\ b.next = s.locals /\ b.name = s.labels[l].name
        /\ b.uses = s.labels[l].uses /\ b.gp = s.labels[l].gp /\ b.global = s.labels[l].global
        /\ b.addr = s.labels[l].addr
    BY <2>1 DEF LabelType
  <2>3. t = [q EXCEPT !.locals = l]
    BY <1>2 DEF IsLocal
  <2> HIDE DEF b
  <2>4. /\ q \in Asm /\ SameSegments(s, q) /\ q.table = s.table /\ q.locals = s.locals
        /\ q.line = s.line /\ Len(q.labels) = Len(s.labels) /\ DOMAIN q.labels = DOMAIN s.labels
        /\ q.labels[l] = b /\ \A k \in DOMAIN s.labels : k # l => q.labels[k] = s.labels[k]
    BY <2>2, LabelChanged
  <2> HIDE DEF q
  <2>5. /\ t \in Asm /\ SameSegments(q, t) /\ t.table = q.table /\ t.locals = l
        /\ t.line = q.line /\ t.labels = q.labels
    BY <2>1, <2>3, <2>4 DEF Asm, SameSegments
  <2>6. SameSegments(s, t)
    BY <2>4, <2>5 DEF SameSegments
  <2>7. QED BY <1>2, <2>2, <2>4, <2>5, <2>6 DEF Listed, Alike
<1>3. QED BY <1>1, <1>2

RecordedSteps(s, l, addr, resolve, t) ==
  \/ Refused(s, l) /\ t = Cleared(s)
  \/ \E u, v : /\ ~ Refused(s, l)
               /\ AddressSet(s, l, addr, u)
               /\ IF resolve THEN Resolves(u, {l}, v) /\ v.line = u.line ELSE v = u
               /\ Listed(v, l, t)

LEMMA RecordedIs ==
  ASSUME NEW s \in Asm, TableInv(s), NEW n \in Names, NEW addr \in 0..MaxAddr,
         NEW resolve \in BOOLEAN, NEW t, t = Looked(s, n), NEW l, l = t.table[n],
         NEW x, x = Recorded(s, n, addr, resolve)
  PROVE  RecordedSteps(t, l, addr, resolve, x)
<1> DEFINE q == Looked(s, n)
           k == q.table[n]
           u == IF q.labels[k].gp THEN q ELSE [q EXCEPT !.labels[k].addr = addr]
           v == IF resolve THEN Resolved(u, {k}) ELSE u
<1>1. x = IF Refused(q, k) THEN Cleared(q)
          ELSE IF IsLocal(v, k) THEN [v EXCEPT !.labels[k].next = v.locals, !.locals = k]
          ELSE v
  BY DEF Recorded
<1>2. q = t /\ k = l /\ t \in Asm /\ l \in DOMAIN t.labels
  BY LookedIs
<1> HIDE DEF q, k
<1>3. AddressSet(q, k, addr, u)
  BY <1>2, AddressIsSet
<1> HIDE DEF u
<1>4. u \in Asm /\ {k} \subseteq DOMAIN u.labels
  BY <1>3 DEF AddressSet, Alike
<1>5. IF resolve THEN Resolves(u, {k}, v) /\ v.line = u.line ELSE v = u
  BY <1>4, ResolvedIs
<1> HIDE DEF v
<1>6. v \in Asm /\ k \in DOMAIN v.labels
  BY <1>4, <1>5 DEF Resolves
<1>7. CASE ~ Refused(q, k)
  <2>1. x = IF IsLocal(v, k) THEN [v EXCEPT !.labels[k].next = v.locals, !.locals = k] ELSE v
    BY <1>1, <1>7
  <2>2. Listed(v, k, x)
    BY <1>6, <2>1, IsListed
  <2>3. RecordedSteps(q, k, addr, resolve, x)
    BY <1>3, <1>5, <1>7, <2>2 DEF RecordedSteps
  <2>4. QED BY <1>2, <2>3
<1>8. CASE Refused(q, k)
  BY <1>1, <1>2, <1>8 DEF RecordedSteps
<1>9. QED BY <1>7, <1>8

(* Labels that are recorded although they have an address are in A.         *)
Repeats(s, n, A) == s.table[n] # 0 /\ s.labels[s.table[n]].addr # 0 => s.table[n] \in A

LEMMA RepeatsLooked ==
  ASSUME NEW s \in Asm, TableInv(s), NEW n \in Names, NEW A, Repeats(s, n, A),
         NEW t, t = Looked(s, n)
  PROVE  t.labels[t.table[n]].addr # 0 => t.table[n] \in A
<1>1. CASE s.table[n] # 0
  BY <1>1, LookedIs DEF Repeats
<1>2. CASE s.table[n] = 0
  <2>1. t.table[n] \notin DOMAIN s.labels /\ t.table[n] \in DOMAIN t.labels
        /\ t.labels[t.table[n]] = Label(n)
    BY <1>2, LookedIs
  <2>2. QED BY <2>1 DEF Label
<1>3. QED BY <1>1, <1>2

LEMMA RecordedGood ==
  ASSUME NEW s, NEW R, NEW P, NEW A, NEW L, Good(s, R, P, A, L), NEW n \in Names,
         Repeats(s, n, A), NEW addr \in 1..MaxAddr
  PROVE  Good(Recorded(s, n, addr, TRUE), R, P, A, L)
<1> DEFINE t == Looked(s, n)
           l == t.table[n]
           x == Recorded(s, n, addr, TRUE)
<1>1. s \in Asm /\ TableInv(s) /\ Good(t, R, P, A, L)
  BY LookedGood DEF Good
<1>2. t \in Asm /\ TableInv(t) /\ l \in DOMAIN t.labels /\ (t.labels[l].addr # 0 => l \in A)
  BY <1>1, LookedIs, RepeatsLooked DEF Good
<1>3. \/ Refused(t, l) /\ x = Cleared(t)
      \/ \E u, v : /\ ~ Refused(t, l)
                   /\ AddressSet(t, l, addr, u)
                   /\ Resolves(u, {l}, v) /\ v.line = u.line
                   /\ Listed(v, l, x)
  <2>1. addr \in 0..MaxAddr /\ TRUE \in BOOLEAN
    OBVIOUS
  <2> HIDE DEF t, l, x
  <2>2. t = Looked(s, n) /\ l = t.table[n] /\ x = Recorded(s, n, addr, TRUE)
    BY DEF t, l, x
  <2>3. RecordedSteps(t, l, addr, TRUE, x)
    BY <1>1, <2>1, <2>2, RecordedIs
  <2>4. QED BY <2>3 DEF RecordedSteps
<1> HIDE DEF t, l, x
<1>4. CASE Refused(t, l) /\ x = Cleared(t)
  BY <1>1, <1>4, ClearedGood DEF x
<1>5. ASSUME NEW u, NEW v, ~ Refused(t, l), AddressSet(t, l, addr, u), Resolves(u, {l}, v),
             v.line = u.line, Listed(v, l, x)
      PROVE  Good(x, R, P, A, L)
  <2> DEFINE w == [u EXCEPT !.line = t.line \cup {l}]
             q == [v EXCEPT !.line = (t.line \cup {l}) \ {l}]
  <2>1. u \in Asm /\ v \in Asm /\ u.line = t.line /\ l \in Nat /\ t.line \subseteq Nat
    <3>1. u \in Asm /\ v \in Asm /\ u.line = t.line
      BY <1>5 DEF AddressSet, Alike, Resolves
    <3>2. t.labels \in Seq(LabelType) /\ t.line \subseteq Nat
      BY <1>2 DEF Asm
    <3>3. QED BY <1>2, <3>1, <3>2
  <2>2. /\ w \in Asm /\ SameSegments(u, w) /\ w.table = u.table /\ w.locals = u.locals
        /\ w.labels = u.labels /\ w.line = t.line \cup {l}
    BY <2>1 DEF Asm, SameSegments
  <2>3. /\ q \in Asm /\ SameSegments(v, q) /\ q.table = v.table /\ q.locals = v.locals
        /\ q.labels = v.labels /\ q.line = w.line \ {l}
    BY <2>1, <2>2 DEF Asm, SameSegments
  <2> HIDE DEF w, q
  <2>4. u.labels[l].addr # 0 /\ (t.labels[l].addr # 0 => l \in A)
    BY <1>2, <1>5 DEF AddressSet, TableInv
  <2>5. Changes(t, l, w)
    <3>1. t.labels[l].next \in 0..Len(t.labels) /\ t.locals \in 0..Len(t.labels)
      BY <1>2 DEF TableInv
    <3>2. SameSegments(t, w) /\ w.table = t.table
      BY <1>5, <2>2 DEF AddressSet, Alike, SameSegments
    <3>3. QED BY <1>5, <2>2, <2>4, <3>1, <3>2 DEF AddressSet, Alike, Changes
  <2>6. Good(w, R, P, A, L)
    BY <1>1, <2>2, <2>4, <2>5, ChangedGood DEF MovedIn
  <2>7. Resolves(w, {l}, q)
    BY <1>5, <2>2, <2>3 DEF Resolves, SameSegments, Unused, WaitsFor
  <2>8. Good(q, R, P, A, L)
    BY <2>2, <2>3, <2>6, <2>7, ResolvedGood
  <2>9. Changes(q, l, x)
    <3>1. q.locals \in 0..Len(q.labels) /\ q.labels[l].next \in 0..Len(q.labels)
          /\ l \in DOMAIN q.labels
      <4>1. l \in DOMAIN q.labels
        BY <1>5, <2>3 DEF Listed, Alike
      <4>2. QED BY <2>8, <4>1 DEF Good, TableInv
    <3>2. x.line = q.line \/ x.line = q.line \cup {l}
      BY <1>5, <2>1, <2>2, <2>3 DEF Listed, Alike
    <3>3. SameSegments(q, x) /\ x.table = q.table
      BY <1>5, <2>3 DEF Listed, Alike, SameSegments
    <3>4. x.labels[l].addr # 0
      BY <1>2, <1>5, <2>4 DEF Listed, Resolves, AddressSet, Alike
    <3>5. l \in 0..Len(q.labels)
      BY <2>3, <3>1 DEF Asm
    <3>6. QED BY <1>5, <2>3, <3>1, <3>2, <3>3, <3>4, <3>5 DEF Listed, Alike, Changes
  <2>10. x.labels[l].addr = q.labels[l].addr
    BY <1>5, <2>3 DEF Listed
  <2>11. x.line = q.line \/ l \in A
    <3>1. x.line = t.line
      BY <1>5, <2>1 DEF Listed, Alike
    <3>2. CASE l \in t.line
      BY <1>2, <3>2 DEF TableInv
    <3>3. CASE l \notin t.line
      BY <2>2, <2>3, <3>1, <3>3
    <3>4. QED BY <3>2, <3>3
  <2>12. QED BY <2>8, <2>9, <2>10, <2>11, ChangedGood DEF MovedIn
<1>6. QED BY <1>3, <1>4, <1>5 DEF x

(* name:   The label is recorded and is one of the line.                    *)
Joined(s, l, t) ==
  /\ t \in Asm /\ SameSegments(s, t) /\ t.table = s.table /\ t.locals = s.locals
  /\ t.labels = s.labels /\ t.line = s.line \cup {l}
Defined(t, l, addr, A, x) ==
  /\ x \in Asm /\ x.table = t.table /\ x.text = t.text /\ x.dataPc = t.dataPc
  /\ Len(x.insts) = Len(t.insts)
  /\ \/ x.line = {} /\ l \in A
     \/ x.line = t.line /\ \A k \in DOMAIN t.labels : x.labels[k].uses = t.labels[k].uses
  /\ l \in A \/ x.labels[l].addr = addr
  /\ \A k \in t.line : k # l => x.labels[k].addr = t.labels[k].addr

LEMMA DefinedGood ==
  ASSUME NEW t, NEW R, NEW P, NEW A, NEW L, Good(t, R, P, A, L), NEW l \in DOMAIN t.labels,
         t.labels[l].addr # 0 => l \in A, NEW addr \in 1..MaxAddr, NEW resolve \in BOOLEAN,
         ~ resolve, NEW x, RecordedSteps(t, l, addr, resolve, x), NEW y, Joined(x, l, y)
  PROVE  Good(y, R, P, A, L) /\ Defined(t, l, addr, A, x)
<1>1. t \in Asm /\ TableInv(t) /\ l \in Nat /\ t.line \subseteq DOMAIN t.labels
  BY DEF Good, Asm, TableInv
<1>2. /\ y \in Asm /\ SameSegments(x, y) /\ y.table = x.table /\ y.locals = x.locals
      /\ y.labels = x.labels /\ y.line = x.line \cup {l}
  BY DEF Joined
<1>3. CASE Refused(t, l) /\ x = Cleared(t)
  <2>0. Good(Cleared(t), R, P, A, L)
    BY ClearedGood
  <2>1. Good(x, R, P, A, L) /\ Resolves(t, t.line, x) /\ x.line = {}
    BY <1>1, <1>3, <2>0, ClearedIs
  <2>2. x \in Asm /\ x.table = t.table /\ TableInv(x) /\ l \in DOMAIN x.labels
        /\ \A k \in DOMAIN t.labels : x.labels[k].addr = t.labels[k].addr
    BY <2>1 DEF Resolves, Good
  <2>3. t.labels[l].addr # 0 /\ l \in A
    BY <1>3 DEF Refused
  <2>4. Changes(x, l, y)
    BY <1>2, <2>2, <2>3 DEF Changes, TableInv
  <2>5. Good(y, R, P, A, L)
    BY <2>1, <2>3, <2>4, ChangedGood DEF MovedIn
  <2>6. x.text = t.text /\ x.dataPc = t.dataPc /\ Len(x.insts) = Len(t.insts)
    BY <2>1 DEF Resolves
  <2>7. QED BY <1>1, <2>1, <2>2, <2>3, <2>5, <2>6 DEF Defined
<1>4. ASSUME NEW u, AddressSet(t, l, addr, u), Listed(u, l, x)
      PROVE  Good(y, R, P, A, L) /\ Defined(t, l, addr, A, x)
  <2>1. x \in Asm /\ u \in Asm /\ x.line = t.line
    BY <1>4 DEF AddressSet, Alike, Listed
  <2>2. x.labels[l].addr = (IF t.labels[l].gp THEN t.labels[l].addr ELSE addr)
    BY <1>4 DEF AddressSet, Alike, Listed
  <2>3. x.labels[l].addr # 0 /\ (l \in A \/ x.labels[l].addr = addr)
    <3>1. t.labels[l].gp => t.labels[l].addr # 0
      BY <1>1 DEF TableInv
    <3>2. addr # 0
      OBVIOUS
    <3>3. QED BY <2>2, <3>1, <3>2
  <2>4. SameSegments(t, y) /\ y.table = t.table
    BY <1>2, <1>4 DEF AddressSet, Alike, Listed, SameSegments
  <2>5. t.labels[l].next \in 0..Len(t.labels) /\ t.locals \in 0..Len(t.labels)
        /\ l \in 0..Len(t.labels)
    BY <1>1 DEF TableInv, Asm
  <2>6. Changes(t, l, y)
    BY <1>2, <1>4, <2>1, <2>3, <2>4, <2>5 DEF AddressSet, Alike, Listed, Changes
  <2>7. Good(y, R, P, A, L)
    BY <1>2, <2>3, <2>6, ChangedGood DEF MovedIn
  <2>8. \A k \in DOMAIN t.labels : k # l => x.labels[k] = t.labels[k]
    BY <1>4 DEF AddressSet, Alike, Listed
  <2>9. /\ x.table = t.table /\ x.text = t.text /\ x.dataPc = t.dataPc
        /\ x.insts = t.insts /\ Len(x.insts) = Len(t.insts)
        /\ x.labels[l].uses = t.labels[l].uses
    BY <1>4 DEF AddressSet, Alike, Listed, SameSegments
  <2>10. QED BY <1>1, <2>1, <2>3, <2>7, <2>8, <2>9 DEF Defined
<1>5. QED BY <1>3, <1>4 DEF RecordedSteps
-------------------------------------------------------------------------------
(* The data segment.  What is stored lies at the data pointer or above.     *)

Grows(s, t) ==
  /\ t \in Asm /\ t.table = s.table /\ t.labels = s.labels /\ t.locals = s.locals
  /\ t.line = s.line /\ t.gpItem = s.gpItem /\ t.insts = s.insts
  /\ t.text = s.text /\ t.auto = s.auto
  /\ s.dataPc <= t.dataPc /\ SegmentInv(t)
  /\ \A a \in Bytes : a < s.dataPc => t.data[a] = s.data[a]

LEMMA GrownGood ==
  ASSUME NEW s, NEW R, NEW P, NEW A, NEW L, Good(s, R, P, A, L), NEW t, Grows(s, t)
  PROVE  Good(t, R, P, A, L)
<1>0. s \in Asm /\ TableInv(s) /\ SegmentInv(s) /\ UsesInv(s, L) /\ PlacedInv(s, P, A, L)
      /\ \A r \in R : RefInv(s, r, L) /\ ValueInv(s, r, A, L)
  BY DEF Good
<1>1. /\ t \in Asm /\ t.table = s.table /\ t.labels = s.labels /\ t.locals = s.locals
      /\ t.line = s.line /\ t.gpItem = s.gpItem /\ t.insts = s.insts
      /\ s.dataPc <= t.dataPc /\ SegmentInv(t)
      /\ \A a \in Bytes : a < s.dataPc => t.data[a] = s.data[a]
  BY DEF Grows
<1>2. s.dataPc \in Nat /\ t.dataPc \in Nat /\ s.dataPc <= MaxAddr
  BY <1>0, <1>1 DEF Asm, SegmentInv
<1>3. TableInv(t)
  BY <1>0, <1>1 DEF TableInv
<1>4. UsesInv(t, L)
  <2>1. ASSUME NEW l \in DOMAIN t.labels, NEW u \in t.labels[l].uses
        PROVE  IF u[1] = "data" THEN <<"stray", u[2]>> \in L \/ u[2] + WORD <= t.dataPc
               ELSE u[2] \in DOMAIN t.insts
    <3>1. IF u[1] = "data" THEN <<"stray", u[2]>> \in L \/ u[2] + WORD <= s.dataPc
          ELSE u[2] \in DOMAIN s.insts
      BY <1>0, <1>1, <2>1 DEF UsesInv
    <3>2. u[2] \in Nat
      <4>1. u \in Places
        BY <1>1, <2>1, LabelFields
      <4>2. QED BY <4>1 DEF Places
    <3>3. QED BY <1>1, <1>2, <3>1, <3>2 DEF WORD
  <2>2. \A e \in L : e[1] = "stray" => e[2] \in Nat /\ e[2] <= t.dataPc
    BY <1>0, <1>1, <1>2 DEF UsesInv
  <2>3. QED BY <2>1, <2>2 DEF UsesInv
<1>5. PlacedInv(t, P, A, L)
  BY <1>0, <1>1 DEF PlacedInv
<1>6. ASSUME NEW r \in R PROVE RefInv(t, r, L) /\ ValueInv(t, r, A, L)
  <2>1. RefInv(s, r, L) /\ ValueInv(s, r, A, L)
    BY <1>0, <1>6
  <2>2. r[1] = "data" => r[2] \in Nat /\ DataBegin <= r[2] /\ r[2] + 2 <= s.dataPc
    BY <2>1 DEF RefInv, WORD
  <2>3. r[1] = "data" => r[2] + 2 <= t.dataPc
    BY <1>1, <1>2, <2>2
  <2>4. RefInv(t, r, L)
    BY <1>1, <2>1, <2>3 DEF RefInv, WORD
  <2>5. ValueAt(t, r) = ValueAt(s, r)
    <3>1. CASE r[1] = "text"
      BY <1>1, <3>1 DEF ValueAt
    <3>2. CASE r[1] = "data"
      <4>1. DATA_BOT \in Nat /\ DATA_BOT <= DataBegin /\ DataBegin \in Nat /\ MaxAddr \in Nat
            /\ Bytes = DATA_BOT..MaxAddr
        BY Sizes
      <4>2. r[2] \in Bytes /\ r[2] + 1 \in Bytes /\ r[2] < s.dataPc /\ r[2] + 1 < s.dataPc
        BY <1>2, <2>2, <3>2, <4>1
      <4>3. t.data[r[2]] = s.data[r[2]] /\ t.data[r[2] + 1] = s.data[r[2] + 1]
        BY <1>1, <4>2
      <4>4. QED BY <3>2, <4>3 DEF ValueAt, WordAt
    <3>3. QED BY <2>1, <3>1, <3>2 DEF RefInv
  <2>6. ValueInv(t, r, A, L)
    BY <1>1, <2>1, <2>5 DEF ValueInv, Pending
  <2>7. QED BY <2>4, <2>6
<1>7. QED BY <1>1, <1>3, <1>4, <1>5, <1>6 DEF Good

LEMMA IncrementedIs ==
  ASSUME NEW s \in Asm, SegmentInv(s), NEW d \in Nat, s.dataPc + d <= MaxAddr,
         NEW t, t = Incremented(s, d)
  PROVE  /\ Grows(s, t) /\ t.dataPc = s.dataPc + d /\ t.dataPc < t.dataTop
         /\ t.data = s.data
<1>1. s.dataPc \in Nat /\ s.dataTop \in Nat /\ s.dataTop % 2 = 0 /\ DataBegin <= s.dataPc
      /\ DataBegin \in Nat /\ MaxAddr \in Nat
  BY Sizes DEF Asm, SegmentInv, WORD
<1> DEFINE addr == s.dataPc + d
           top == IF s.dataTop <= addr THEN s.dataTop + RoundUp(addr - s.dataTop + 1, CHUNK)
                  ELSE s.dataTop
<1>2. t = [s EXCEPT !.dataPc = addr, !.dataTop = top]
  BY DEF Incremented
<1>3. addr \in Nat /\ top \in Nat /\ addr < top /\ top % 2 = 0
  <2>1. CASE s.dataTop <= addr
    <3>1. addr - s.dataTop + 1 \in Nat \ {0}
      BY <1>1, <2>1
    <3>2. RoundUp(addr - s.dataTop + 1, CHUNK) \in Nat
          /\ addr - s.dataTop + 1 <= RoundUp(addr - s.dataTop + 1, CHUNK)
          /\ RoundUp(addr - s.dataTop + 1, CHUNK) % 2 = 0
      BY <3>1, RoundedUp
    <3>3. QED BY <1>1, <2>1, <3>2
  <2>2. CASE ~ (s.dataTop <= addr)
    BY <1>1, <2>2
  <2>3. QED BY <2>1, <2>2
<1> HIDE DEF addr, top
<1>4. /\ t \in Asm /\ t.table = s.table /\ t.labels = s.labels /\ t.locals = s.locals
      /\ t.line = s.line /\ t.gpItem = s.gpItem /\ t.insts = s.insts /\ t.text = s.text
      /\ t.auto = s.auto /\ t.dataPc = addr /\ t.dataTop = top /\ t.data = s.data
  BY <1>2, <1>3 DEF Asm
<1>5. s.dataPc <= addr /\ addr <= MaxAddr /\ DataBegin <= addr
  BY <1>1 DEF addr
<1>6. SegmentInv(t)
  BY <1>3, <1>4, <1>5 DEF SegmentInv, WORD
<1>7. QED BY <1>3, <1>4, <1>5, <1>6 DEF Grows, addr

(* Bytes stored from the data pointer on.                                   *)
LEMMA StoresGrow ==
  ASSUME NEW s \in Asm, SegmentInv(s), NEW data \in [Bytes -> Nat],
         \A a \in Bytes : a < s.dataPc => data[a] = s.data[a],
         NEW d \in Nat, s.dataPc + d <= MaxAddr,
         NEW t, t = Incremented([s EXCEPT !.data = data], d)
  PROVE  /\ Grows(s, t) /\ t.dataPc = s.dataPc + d /\ t.dataPc < t.dataTop
         /\ t.data = data
<1> DEFINE q == [s EXCEPT !.data = data]
<1>1. /\ q \in Asm /\ q.table = s.table /\ q.labels = s.labels /\ q.locals = s.locals
      /\ q.line = s.line /\ q.gpItem = s.gpItem /\ q.insts = s.insts /\ q.text = s.text
      /\ q.auto = s.auto /\ q.dataPc = s.dataPc /\ q.dataTop = s.dataTop /\ q.data = data
  BY DEF Asm
<1> HIDE DEF q
<1>2. SegmentInv(q)
  BY <1>1 DEF SegmentInv
<1>3. q.dataPc + d <= MaxAddr
  BY <1>1
<1>4. Grows(q, t) /\ t.dataPc = q.dataPc + d /\ t.dataPc < t.dataTop /\ t.data = q.data
  <2>1. t = Incremented(q, d)
    BY DEF q
  <2>2. QED BY <1>1, <1>2, <1>3, <2>1, IncrementedIs
<1>5. QED BY <1>1, <1>4 DEF Grows

LEMMA StoredByteIs ==
  ASSUME NEW s \in Asm, SegmentInv(s), NEW v \in Nat, s.dataPc + 1 <= MaxAddr,
         NEW t, t = StoredByte(s, v)
  PROVE  /\ Grows(s, t) /\ t.dataPc = s.dataPc + 1 /\ t.dataPc < t.dataTop
         /\ s.dataPc < s.dataTop => t.data[s.dataPc] = v
<1> DEFINE data == [s.data EXCEPT ![s.dataPc] = IF s.dataPc < s.dataTop THEN v ELSE s.data[s.dataPc]]
<1>1. s.data \in [Bytes -> Nat] /\ s.dataPc \in Nat /\ s.dataPc \in Bytes
  <2>1. DATA_BOT \in Nat /\ DATA_BOT <= DataBegin /\ DataBegin \in Nat /\ MaxAddr \in Nat
        /\ Bytes = DATA_BOT..MaxAddr
    BY Sizes
  <2>2. s.data \in [Bytes -> Nat] /\ s.dataPc \in Nat
    BY DEF Asm
  <2>3. QED BY <2>1, <2>2 DEF SegmentInv
<1>2. data \in [Bytes -> Nat] /\ (\A a \in Bytes : a < s.dataPc => data[a] = s.data[a])
      /\ (s.dataPc < s.dataTop => data[s.dataPc] = v)
  BY <1>1
<1>3. t = Incremented([s EXCEPT !.data = data], 1)
  BY DEF StoredByte
<1> HIDE DEF data
<1>4. QED BY <1>2, <1>3, StoresGrow

LEMMA GrowsTwice ==
  ASSUME NEW s \in Asm, NEW q \in Asm, NEW t, Grows(s, q), Grows(q, t)
  PROVE  Grows(s, t)
<1>1. s.dataPc \in Nat /\ q.dataPc \in Nat /\ t.dataPc \in Nat
  BY DEF Asm, Grows
<1>2. Bytes \subseteq Int
  BY Sizes
<1>3. ASSUME NEW a \in Bytes, a < s.dataPc PROVE t.data[a] = s.data[a]
  BY <1>1, <1>2, <1>3 DEF Grows
<1>4. QED BY <1>1, <1>3 DEF Grows

LEMMA StoredWordIs ==
  ASSUME NEW s \in Asm, SegmentInv(s), NEW v \in 0..MaxAddr, s.dataPc + 2 <= MaxAddr,
         NEW t, t = StoredWord(s, v)
  PROVE  /\ Grows(s, t) /\ t.dataPc = s.dataPc + 2
         /\ s.dataPc < s.dataTop => WordAt(t, s.dataPc) = v
<1> DEFINE a == s.dataPc
<1>0. v \in Nat /\ a \in Nat /\ s.dataTop \in Nat /\ s.dataTop % 2 = 0 /\ a <= s.dataTop
      /\ DATA_BOT \in Nat /\ DATA_BOT <= a /\ MaxAddr \in Nat /\ Bytes = DATA_BOT..MaxAddr
  <2>1. DATA_BOT \in Nat /\ DATA_BOT <= DataBegin /\ DataBegin \in Nat /\ MaxAddr \in Nat
        /\ Bytes = DATA_BOT..MaxAddr
    BY Sizes
  <2>2. a \in Nat /\ s.dataTop \in Nat
    BY DEF Asm
  <2>3. QED BY <2>1, <2>2 DEF SegmentInv, WORD
<1>1. a \in Bytes /\ a + 1 \in Bytes
  BY <1>0
<1>2. v % BYTE \in Nat /\ v \div BYTE \in Nat /\ (v % BYTE) + BYTE * (v \div BYTE) = v
  BY <1>0, BytesOfWord
<1>3. CASE a % 2 = 0
  <2> DEFINE words == [b \in {a} |-> v]
             q == SetWords(s, words)
  <2>1. DOMAIN words = {a} /\ words[a] = v
    OBVIOUS
  <2>2. t = Incremented(q, 2)
    BY <1>3 DEF StoredWord, Aligned, WORD
  <2> HIDE DEF words
  <2>3. \A b \in DOMAIN words : words[b] \in Nat
    BY <1>0, <2>1
  <2>4. /\ q = [s EXCEPT !.data = q.data] /\ q.data \in [Bytes -> Nat]
        /\ \A b \in Bytes : LET w == b - (b % WORD) IN
             /\ w \notin DOMAIN words => q.data[b] = s.data[b]
             /\ w \in DOMAIN words /\ w % 2 = 0 /\ w >= DATA_BOT /\ w < s.dataTop
                  => q.data[b] = ByteOf(words[w], b)
    <3> HIDE DEF q
    <3>1. q = SetWords(s, words)
      BY DEF q
    <3>2. QED BY <2>3, <3>1, SetWordsIs
  <2> DEFINE data == q.data
  <2> HIDE DEF q
  <2>5. \A b \in Bytes : b < a => data[b] = s.data[b]
    <3>1. SUFFICES ASSUME NEW b \in Bytes, b < a PROVE data[b] = s.data[b]
      OBVIOUS
    <3>2. b - (b % 2) # a
      BY <1>0, <3>1
    <3>3. QED BY <2>1, <2>4, <3>2 DEF WORD
  <2>6. t = Incremented([s EXCEPT !.data = data], 2)
    BY <2>2, <2>4
  <2> HIDE DEF data
  <2>7. Grows(s, t) /\ t.dataPc = s.dataPc + 2 /\ t.data = data
    BY <2>4, <2>5, <2>6, StoresGrow DEF data
  <2>8. a < s.dataTop => data[a] = v % BYTE /\ data[a + 1] = v \div BYTE
    <3>1. a - (a % 2) = a /\ (a + 1) - ((a + 1) % 2) = a /\ (a + 1) % 2 # 0
      BY <1>0, <1>3, EvenNumbers
    <3>2. SUFFICES ASSUME a < s.dataTop PROVE data[a] = v % BYTE /\ data[a + 1] = v \div BYTE
      OBVIOUS
    <3>3. data[a] = ByteOf(v, a) /\ data[a + 1] = ByteOf(v, a + 1)
      BY <1>0, <1>1, <1>3, <2>1, <2>4, <3>1, <3>2 DEF data, WORD
    <3>4. QED BY <1>3, <3>1, <3>3 DEF ByteOf, Aligned, WORD
  <2>9. QED BY <1>2, <2>7, <2>8 DEF WordAt
<1>4. CASE a % 2 # 0
  <2> DEFINE q == StoredByte(s, v % BYTE)
  <2>1. t = StoredByte(q, v \div BYTE)
    BY <1>4 DEF StoredWord, Aligned, WORD
  <2>2. a + 1 <= MaxAddr
    BY <1>0
  <2>3. Grows(s, q) /\ q.dataPc = a + 1 /\ q.dataPc < q.dataTop
        /\ (a < s.dataTop => q.data[a] = v % BYTE)
    BY <1>2, <2>2, StoredByteIs
  <2> HIDE DEF q
  <2>4. q \in Asm /\ SegmentInv(q) /\ q.dataPc + 1 <= MaxAddr
    BY <1>0, <2>3 DEF Grows
  <2>5. Grows(q, t) /\ t.dataPc = q.dataPc + 1 /\ t.data[q.dataPc] = v \div BYTE
    BY <1>2, <2>1, <2>3, <2>4, StoredByteIs
  <2>6. Grows(s, t) /\ t.dataPc = s.dataPc + 2
    BY <1>0, <2>3, <2>4, <2>5, GrowsTwice
  <2>7. t.data[a] = q.data[a]
    <3>1. a < q.dataPc
      BY <1>0, <2>3
    <3>2. QED BY <1>1, <2>5, <3>1 DEF Grows
  <2>8. QED BY <1>2, <2>3, <2>5, <2>6, <2>7 DEF WordAt
<1>5. QED BY <1>3, <1>4

LEMMA StoredZerosIs ==
  ASSUME NEW s \in Asm, SegmentInv(s), NEW d \in Nat, s.dataPc + d <= MaxAddr,
         NEW t, t = StoredZeros(s, d)
  PROVE  Grows(s, t) /\ t.dataPc = s.dataPc + d
<1> DEFINE data == [a \in Bytes |-> IF a - s.dataPc \in 0..d - 1 THEN 0 ELSE s.data[a]]
<1>1. s.data \in [Bytes -> Nat] /\ s.dataPc \in Nat /\ Bytes \subseteq Int
  BY Sizes DEF Asm
<1>2. data \in [Bytes -> Nat] /\ \A a \in Bytes : a < s.dataPc => data[a] = s.data[a]
  BY <1>1
<1>3. t = Incremented([s EXCEPT !.data = data], d)
  BY DEF StoredZeros
<1> HIDE DEF data
<1>4. QED BY <1>2, <1>3, StoresGrow

(* .align: the labels of the line move with the data pointer.               *)
LineUses(s, R, A, L) ==
  \A r \in R : r[3] \in s.line => MovedIn(r[3], A, L) \/ StrayedIn(r, L) \/ Pending(s, r)

(* The labels of the line have another address, nothing else is new. *)
Shifts(s, addr, t) ==
  /\ t \in Asm /\ SameSegments(s, t) /\ t.table = s.table /\ t.locals = s.locals /\ t.line = s.line
  /\ Len(t.labels) = Len(s.labels) /\ DOMAIN t.labels = DOMAIN s.labels
  /\ \A l \in DOMAIN s.labels :
       /\ t.labels[l].name = s.labels[l].name /\ t.labels[l].uses = s.labels[l].uses
       /\ t.labels[l].gp = s.labels[l].gp /\ t.labels[l].global = s.labels[l].global
       /\ t.labels[l].next = s.labels[l].next
       /\ t.labels[l].addr = IF l \in s.line THEN addr ELSE s.labels[l].addr

LEMMA ShiftedIs ==
  ASSUME NEW s \in Asm, NEW addr \in 0..MaxAddr, NEW t,
         t = [s EXCEPT !.labels =
               [l \in DOMAIN s.labels |->
                  IF l \in s.line THEN [s.labels[l] EXCEPT !.addr = addr] ELSE s.labels[l]]]
  PROVE  Shifts(s, addr, t)
<1> DEFINE labels == [l \in DOMAIN s.labels |->
                        IF l \in s.line THEN [s.labels[l] EXCEPT !.addr = addr] ELSE s.labels[l]]
<1>1. ASSUME NEW l \in DOMAIN s.labels
      PROVE  /\ labels[l] \in LabelType
             /\ labels[l].name = s.labels[l].name /\ labels[l].uses = s.labels[l].uses
             /\ labels[l].gp = s.labels[l].gp /\ labels[l].global = s.labels[l].global
             /\ labels[l].next = s.labels[l].next
             /\ labels[l].addr = IF l \in s.line THEN addr ELSE s.labels[l].addr
  <2>1. s.labels[l] \in LabelType
    BY LabelFields
  <2>2. QED BY <2>1 DEF LabelType
<1>2. DOMAIN s.labels = 1..Len(s.labels) /\ Len(s.labels) \in Nat
  BY DEF Asm
<1>3. labels \in [1..Len(s.labels) -> LabelType] /\ DOMAIN labels = DOMAIN s.labels
  BY <1>1, <1>2
<1>4. t = [s EXCEPT !.labels = labels]
  OBVIOUS
<1> HIDE DEF labels
<1>5. labels \in Seq(LabelType) /\ Len(labels) = Len(s.labels)
  BY <1>2, <1>3, SequenceOf
<1>6. t \in Asm /\ SameSegments(s, t) /\ t.table = s.table /\ t.locals = s.locals
      /\ t.line = s.line /\ t.labels = labels
  BY <1>4, <1>5 DEF Asm, SameSegments
<1>7. QED BY <1>1, <1>3, <1>5, <1>6 DEF Shifts

LEMMA ShiftedGood ==
  ASSUME NEW s, NEW R, NEW P, NEW A, NEW L, Good(s, R, P, A, L), LineUses(s, R, A, L),
         NEW addr \in 1..MaxAddr, NEW t, Shifts(s, addr, t)
  PROVE  Good(t, R, P, A, L)
<1>0. s \in Asm /\ TableInv(s) /\ SegmentInv(s) /\ UsesInv(s, L) /\ PlacedInv(s, P, A, L)
      /\ \A r \in R : RefInv(s, r, L) /\ ValueInv(s, r, A, L)
  BY DEF Good
<1>1. /\ t \in Asm /\ SameSegments(s, t) /\ t.table = s.table /\ t.locals = s.locals
      /\ t.line = s.line /\ Len(t.labels) = Len(s.labels) /\ DOMAIN t.labels = DOMAIN s.labels
  BY DEF Shifts
<1>2. \A l \in DOMAIN s.labels :
        /\ t.labels[l].name = s.labels[l].name /\ t.labels[l].uses = s.labels[l].uses
        /\ t.labels[l].gp = s.labels[l].gp /\ t.labels[l].global = s.labels[l].global
        /\ t.labels[l].next = s.labels[l].next
        /\ t.labels[l].addr = IF l \in s.line THEN addr ELSE s.labels[l].addr
  BY DEF Shifts
<1>3. addr # 0
  OBVIOUS
<1>4. TableInv(t)
  <2>1. \A n \in Names : t.table[n] # 0 => /\ t.table[n] \in DOMAIN t.labels
                                           /\ t.labels[t.table[n]].name = n
    BY <1>0, <1>1, <1>2 DEF TableInv
  <2>2. t.locals \in 0..Len(t.labels) /\ t.line \subseteq DOMAIN t.labels
    BY <1>0, <1>1 DEF TableInv
  <2>3. \A l \in DOMAIN t.labels :
          /\ t.labels[l].next \in 0..Len(t.labels)
          /\ t.labels[l].gp \/ l \in t.line => t.labels[l].addr # 0
    BY <1>0, <1>1, <1>2, <1>3 DEF TableInv
  <2>4. QED BY <2>1, <2>2, <2>3 DEF TableInv
<1>5. SegmentInv(t)
  BY <1>0, <1>1 DEF SegmentInv, SameSegments
<1>6. UsesInv(t, L)
  BY <1>0, <1>1, <1>2 DEF UsesInv, SameSegments
<1>7. PlacedInv(t, P, A, L)
  BY <1>0, <1>1, <1>2 DEF PlacedInv
<1>8. ASSUME NEW r \in R PROVE RefInv(t, r, L) /\ ValueInv(t, r, A, L)
  <2>1. RefInv(s, r, L) /\ ValueInv(s, r, A, L) /\ r[3] \in DOMAIN s.labels
    BY <1>0, <1>8 DEF RefInv
  <2>2. RefInv(t, r, L)
    BY <1>1, <1>2, <2>1 DEF RefInv, SameSegments
  <2>3. ValueAt(t, r) = ValueAt(s, r)
    BY <1>1 DEF SameSegments, ValueAt, WordAt
  <2>4. CASE r[3] \in s.line
    BY <1>1, <1>2, <2>1, <2>2, <2>4 DEF ValueInv, Pending, LineUses
  <2>5. CASE r[3] \notin s.line
    BY <1>1, <1>2, <2>1, <2>2, <2>3, <2>5 DEF ValueInv, Pending
  <2>6. QED BY <2>4, <2>5
<1>9. QED BY <1>1, <1>4, <1>5, <1>6, <1>7, <1>8 DEF Good

LEMMA AlignedDataIs ==
  ASSUME NEW s \in Asm, TableInv(s), SegmentInv(s), s.dataPc + 1 <= MaxAddr,
         NEW t, t = AlignedData(s)
  PROVE  \E q, u :
           /\ Grows(s, q) /\ q.dataPc \in {s.dataPc, s.dataPc + 1} /\ q.dataPc % 2 = 0
           /\ q.dataPc \in 1..MaxAddr
           /\ Shifts(q, q.dataPc, u)
           /\ Resolves(u, u.line, t) /\ t.line = {}
<1> DEFINE addr == s.dataPc + (s.dataPc % WORD)
           q == [s EXCEPT !.dataPc = addr]
           u == [q EXCEPT !.labels =
                  [l \in DOMAIN q.labels |->
                     IF l \in q.line THEN [q.labels[l] EXCEPT !.addr = addr] ELSE q.labels[l]]]
<1>1. t = Cleared(u)
  BY DEF AlignedData, Fixed
<1>2. s.dataPc \in Nat /\ s.dataTop \in Nat /\ s.dataTop % 2 = 0 /\ s.dataPc <= s.dataTop
      /\ DataBegin <= s.dataPc /\ DataBegin \in Nat \ {0} /\ MaxAddr \in Nat
  BY Sizes DEF Asm, SegmentInv, WORD
<1>3. /\ addr \in {s.dataPc, s.dataPc + 1} /\ addr % 2 = 0 /\ addr \in 1..MaxAddr
      /\ addr <= s.dataTop /\ s.dataPc <= addr /\ DataBegin <= addr /\ addr \in Nat
  BY <1>2 DEF WORD
<1> HIDE DEF addr
<1>4. /\ q \in Asm /\ q.table = s.table /\ q.labels = s.labels /\ q.locals = s.locals
      /\ q.line = s.line /\ q.gpItem = s.gpItem /\ q.insts = s.insts /\ q.text = s.text
      /\ q.auto = s.auto /\ q.dataPc = addr /\ q.dataTop = s.dataTop /\ q.data = s.data
  BY <1>3 DEF Asm
<1> HIDE DEF q
<1>5. SegmentInv(q)
  BY <1>3, <1>4 DEF SegmentInv
<1>6. Grows(s, q)
  BY <1>3, <1>4, <1>5 DEF Grows
<1>7. addr \in 0..MaxAddr
  BY <1>3
<1>8. Shifts(q, addr, u)
  BY <1>4, <1>7, ShiftedIs
<1> HIDE DEF u
<1>9. u \in Asm /\ TableInv(u)
  <2>1. addr # 0
    BY <1>3
  <2>2. /\ \A n \in Names : u.table[n] # 0 => /\ u.table[n] \in DOMAIN u.labels
                                              /\ u.labels[u.table[n]].name = n
        /\ u.locals \in 0..Len(u.labels) /\ u.line \subseteq DOMAIN u.labels
    BY <1>4, <1>8 DEF Shifts, TableInv
  <2>3. \A l \in DOMAIN u.labels :
          /\ u.labels[l].next \in 0..Len(u.labels)
          /\ u.labels[l].gp \/ l \in u.line => u.labels[l].addr # 0
    BY <1>4, <1>8, <2>1 DEF Shifts, TableInv
  <2>4. QED BY <1>8, <2>2, <2>3 DEF TableInv, Shifts
<1>10. Resolves(u, u.line, t) /\ t.line = {}
  BY <1>1, <1>9, ClearedIs
<1>11. QED BY <1>3, <1>4, <1>6, <1>8, <1>10

LEMMA AlignedGood ==
  ASSUME NEW s, NEW R, NEW P, NEW A, NEW L, Good(s, R, P, A, L), LineUses(s, R, A, L),
         s.dataPc + 1 <= MaxAddr
  PROVE  Good(AlignedData(s), R, P, A, L)
<1> DEFINE t == AlignedData(s)
<1>1. s \in Asm /\ TableInv(s) /\ SegmentInv(s)
  BY DEF Good
<1>2. PICK q, u :
        /\ Grows(s, q) /\ q.dataPc \in {s.dataPc, s.dataPc + 1} /\ q.dataPc % 2 = 0
        /\ q.dataPc \in 1..MaxAddr
        /\ Shifts(q, q.dataPc, u)
        /\ Resolves(u, u.line, t) /\ t.line = {}
  BY <1>1, AlignedDataIs
<1> HIDE DEF t
<1>3. Good(q, R, P, A, L) /\ LineUses(q, R, A, L)
  BY <1>2, GrownGood DEF LineUses, Grows, Pending
<1>4. Good(u, R, P, A, L)
  BY <1>2, <1>3, ShiftedGood
<1>5. u.line \ u.line = {}
  OBVIOUS
<1>6. QED BY <1>2, <1>4, <1>5, ResolvedGood DEF t

-------------------------------------------------------------------------------
(* Uses and instructions.                                                   *)

(* A label waits for one more place: where nothing else was assembled, or   *)
(* where its use has strayed to.                                            *)
Waits(s, l, u, t) ==
  /\ t \in Asm /\ SameSegments(s, t) /\ t.table = s.table /\ t.locals = s.locals
  /\ t.line = s.line /\ l \in DOMAIN s.labels
  /\ Len(t.labels) = Len(s.labels) /\ DOMAIN t.labels = DOMAIN s.labels
  /\ t.labels[l].uses = s.labels[l].uses \cup {u}
  /\ \A k \in DOMAIN s.labels :
       /\ t.labels[k].name = s.labels[k].name /\ t.labels[k].addr = s.labels[k].addr
       /\ t.labels[k].gp = s.labels[k].gp /\ t.labels[k].global = s.labels[k].global
       /\ t.labels[k].next = s.labels[k].next
       /\ k # l => t.labels[k].uses = s.labels[k].uses

LEMMA UseAdded ==
  ASSUME NEW s \in Asm, NEW l \in DOMAIN s.labels, NEW u \in Places,
         NEW t, t = [s EXCEPT !.labels[l].uses = @ \cup {u}]
  PROVE  Waits(s, l, u, t)
<1> DEFINE b == [s.labels[l] EXCEPT !.uses = s.labels[l].uses \cup {u}]
           q == [s EXCEPT !.labels[l] = b]
<1>1. s.labels[l] \in LabelType
  BY LabelFields
<1>2. b \in LabelType /\ b.uses = s.labels[l].uses \cup {u} /\ b.name = s.labels[l].name
      /\ b.addr = s.labels[l].addr /\ b.gp = s.labels[l].gp /\ b.global = s.labels[l].global
      /\ b.next = s.labels[l].next
  BY <1>1 DEF LabelType
<1>3. t = q
  OBVIOUS
<1> HIDE DEF b
<1>4. /\ q \in Asm /\ SameSegments(s, q) /\ q.table = s.table /\ q.locals = s.locals
      /\ q.line = s.line /\ Len(q.labels) = Len(s.labels) /\ DOMAIN q.labels = DOMAIN s.labels
      /\ q.labels[l] = b /\ \A k \in DOMAIN s.labels : k # l => q.labels[k] = s.labels[k]
  BY <1>2, LabelChanged
<1> HIDE DEF q
<1>5. QED BY <1>2, <1>3, <1>4 DEF Waits

LEMMA WaitsGood ==
  ASSUME NEW s, NEW R, NEW P, NEW A, NEW L, Good(s, R, P, A, L), NEW l, NEW u, NEW t,
         Waits(s, l, u, t), u \in Places,
         \/ u[1] = "data" /\ <<"stray", u[2]>> \in L
         \/ /\ u[1] = "data" /\ u[2] + 2 <= s.dataPc
            /\ \A r \in R : r[1] = "data" => r[2] + 2 <= u[2]
         \/ /\ u[1] = "text" /\ u[2] \in DOMAIN s.insts
            /\ \A r \in R : r[1] = "text" => r[2] # u[2]
  PROVE  Good(t, R, P, A, L)
<1>0. s \in Asm /\ TableInv(s) /\ SegmentInv(s) /\ UsesInv(s, L) /\ PlacedInv(s, P, A, L)
      /\ \A r \in R : RefInv(s, r, L) /\ ValueInv(s, r, A, L)
  BY DEF Good
<1>1. /\ t \in Asm /\ SameSegments(s, t) /\ t.table = s.table /\ t.locals = s.locals
      /\ t.line = s.line /\ l \in DOMAIN s.labels
      /\ Len(t.labels) = Len(s.labels) /\ DOMAIN t.labels = DOMAIN s.labels
  BY DEF Waits
<1>2. \A k \in DOMAIN s.labels :
        /\ t.labels[k].name = s.labels[k].name /\ t.labels[k].addr = s.labels[k].addr
        /\ t.labels[k].gp = s.labels[k].gp /\ t.labels[k].global = s.labels[k].global
        /\ t.labels[k].next = s.labels[k].next
        /\ s.labels[k].uses \subseteq t.labels[k].uses
        /\ t.labels[k].uses \subseteq s.labels[k].uses \cup {u}
  BY DEF Waits
<1>3. TableInv(t)
  <2>1. \A n \in Names : t.table[n] # 0 => /\ t.table[n] \in DOMAIN t.labels
                                           /\ t.labels[t.table[n]].name = n
    BY <1>0, <1>1, <1>2 DEF TableInv
  <2>2. t.locals \in 0..Len(t.labels) /\ t.line \subseteq DOMAIN t.labels
    BY <1>0, <1>1 DEF TableInv
  <2>3. \A k \in DOMAIN t.labels :
          /\ t.labels[k].next \in 0..Len(t.labels)
          /\ t.labels[k].gp \/ k \in t.line => t.labels[k].addr # 0
    BY <1>0, <1>1, <1>2 DEF TableInv
  <2>4. QED BY <2>1, <2>2, <2>3 DEF TableInv
<1>4. SegmentInv(t)
  BY <1>0, <1>1 DEF SegmentInv, SameSegments
<1>5. t.dataPc = s.dataPc /\ t.insts = s.insts
  BY <1>1 DEF SameSegments
<1>6. UsesInv(t, L)
  <2>1. IF u[1] = "data" THEN <<"stray", u[2]>> \in L \/ u[2] + WORD <= s.dataPc
        ELSE u[2] \in DOMAIN s.insts
    BY DEF WORD
  <2>2. ASSUME NEW k \in DOMAIN t.labels, NEW v \in t.labels[k].uses
        PROVE  IF v[1] = "data" THEN <<"stray", v[2]>> \in L \/ v[2] + WORD <= t.dataPc
               ELSE v[2] \in DOMAIN t.insts
    <3>1. v \in s.labels[k].uses \/ v = u
      BY <1>1, <1>2, <2>2
    <3>2. CASE v = u
      BY <1>5, <2>1, <3>2
    <3>3. CASE v \in s.labels[k].uses
      BY <1>0, <1>1, <1>5, <2>2, <3>3 DEF UsesInv
    <3>4. QED BY <3>1, <3>2, <3>3
  <2>3. QED BY <1>0, <1>5, <2>2 DEF UsesInv
<1>7. PlacedInv(t, P, A, L)
  BY <1>0, <1>1, <1>2 DEF PlacedInv
<1>8. ASSUME NEW r \in R PROVE RefInv(t, r, L) /\ ValueInv(t, r, A, L)
  <2>1. RefInv(s, r, L) /\ ValueInv(s, r, A, L) /\ r[3] \in DOMAIN s.labels
    BY <1>0, <1>8 DEF RefInv
  <2>2. RefInv(t, r, L)
    <3>1. CASE r[1] = "text"
      <4>1. r[2] \in DOMAIN s.insts
            /\ \A k \in DOMAIN s.labels : <<"text", r[2]>> \in s.labels[k].uses => k = r[3]
        BY <2>1, <3>1 DEF RefInv
      <4>2. <<"text", r[2]>> # u
        <5>1. <<"text", r[2]>>[1] = "text" /\ <<"text", r[2]>>[2] = r[2]
          OBVIOUS
        <5>2. QED BY <1>8, <3>1, <5>1
      <4>3. \A k \in DOMAIN t.labels : <<"text", r[2]>> \in t.labels[k].uses => k = r[3]
        BY <1>1, <1>2, <4>1, <4>2
      <4>4. QED BY <1>1, <1>5, <2>1, <3>1, <4>1, <4>3 DEF RefInv
    <3>2. CASE r[1] = "data"
      <4>1. /\ r[2] \in Nat /\ DataBegin <= r[2] /\ r[2] + 2 <= s.dataPc
            /\ \A e \in L : e[1] = "stray" => e[2] <= r[2] \/ r[2] + 2 <= e[2]
            /\ \A k \in DOMAIN s.labels : \A v \in s.labels[k].uses :
                 \/ v[1] # "data" \/ <<"stray", v[2]>> \in L
                 \/ v[2] = r[2] /\ k = r[3]
                 \/ v[2] + 2 <= r[2] \/ r[2] + 2 <= v[2]
        BY <2>1, <3>2 DEF RefInv, WORD
      <4>2. u[1] # "data" \/ <<"stray", u[2]>> \in L \/ r[2] + 2 <= u[2]
        BY <1>8, <3>2
      <4>3. ASSUME NEW k \in DOMAIN t.labels, NEW v \in t.labels[k].uses
            PROVE  \/ v[1] # "data" \/ <<"stray", v[2]>> \in L
                   \/ v[2] = r[2] /\ k = r[3]
                   \/ v[2] + 2 <= r[2] \/ r[2] + 2 <= v[2]
        <5>1. v \in s.labels[k].uses \/ v = u
          BY <1>1, <1>2, <4>3
        <5>2. CASE v = u
          BY <4>2, <5>2
        <5>3. CASE v \in s.labels[k].uses
          BY <1>1, <4>1, <4>3, <5>3
        <5>4. QED BY <5>1, <5>2, <5>3
      <4>4. QED BY <1>1, <1>5, <2>1, <3>2, <4>1, <4>3 DEF RefInv, WORD
    <3>3. QED BY <2>1, <3>1, <3>2 DEF RefInv
  <2>3. ValueAt(t, r) = ValueAt(s, r)
    BY <1>1 DEF SameSegments, ValueAt, WordAt
  <2>4. ValueInv(t, r, A, L)
    BY <1>1, <1>2, <2>1, <2>3 DEF ValueInv, Pending
  <2>5. QED BY <2>2, <2>4
<1>9. QED BY <1>1, <1>3, <1>4, <1>6, <1>7, <1>8 DEF Good

(* One more instruction.                                                    *)
Appends(s, i, t) ==
  /\ t \in Asm /\ t.table = s.table /\ t.labels = s.labels /\ t.locals = s.locals
  /\ t.line = s.line /\ t.gpItem = s.gpItem /\ t.text = s.text /\ t.auto = s.auto
  /\ t.dataPc = s.dataPc /\ t.dataTop = s.dataTop /\ t.data = s.data
  /\ Len(t.insts) = Len(s.insts) + 1 /\ t.insts[Len(s.insts) + 1] = i
  /\ \A k \in DOMAIN s.insts : k \in DOMAIN t.insts /\ t.insts[k] = s.insts[k]
  /\ Len(s.insts) + 1 \in DOMAIN t.insts /\ Len(s.insts) + 1 \notin DOMAIN s.insts
  /\ Len(s.insts) \in Nat

LEMMA AppendedIs ==
  ASSUME NEW s \in Asm, NEW i \in 0..MaxAddr, NEW t, t = [s EXCEPT !.insts = Append(@, i)]
  PROVE  Appends(s, i, t)
<1> DEFINE insts == Append(s.insts, i)
<1>1. s.insts \in Seq(0..MaxAddr) /\ Len(s.insts) \in Nat /\ DOMAIN s.insts = 1..Len(s.insts)
  BY DEF Asm
<1>2. /\ insts \in Seq(0..MaxAddr) /\ Len(insts) = Len(s.insts) + 1
      /\ insts[Len(s.insts) + 1] = i /\ DOMAIN insts = 1..Len(s.insts) + 1
      /\ \A k \in DOMAIN s.insts : insts[k] = s.insts[k]
  BY <1>1
<1>3. t = [s EXCEPT !.insts = insts]
  OBVIOUS
<1> HIDE DEF insts
<1>4. /\ t \in Asm /\ t.table = s.table /\ t.labels = s.labels /\ t.locals = s.locals
      /\ t.line = s.line /\ t.gpItem = s.gpItem /\ t.text = s.text /\ t.auto = s.auto
      /\ t.dataPc = s.dataPc /\ t.dataTop = s.dataTop /\ t.data = s.data /\ t.insts = insts
  BY <1>2, <1>3 DEF Asm
<1>5. QED BY <1>1, <1>2, <1>4 DEF Appends

LEMMA AppendedGood ==
  ASSUME NEW s, NEW R, NEW P, NEW A, NEW L, Good(s, R, P, A, L), NEW i, NEW t, Appends(s, i, t)
  PROVE  Good(t, R, P, A, L)
<1>0. s \in Asm /\ TableInv(s) /\ SegmentInv(s) /\ UsesInv(s, L) /\ PlacedInv(s, P, A, L)
      /\ \A r \in R : RefInv(s, r, L) /\ ValueInv(s, r, A, L)
  BY DEF Good
<1>1. /\ t \in Asm /\ t.table = s.table /\ t.labels = s.labels /\ t.locals = s.locals
      /\ t.line = s.line /\ t.gpItem = s.gpItem
      /\ t.dataPc = s.dataPc /\ t.dataTop = s.dataTop /\ t.data = s.data
      /\ \A k \in DOMAIN s.insts : k \in DOMAIN t.insts /\ t.insts[k] = s.insts[k]
  BY DEF Appends
<1>2. TableInv(t) /\ SegmentInv(t) /\ UsesInv(t, L) /\ PlacedInv(t, P, A, L)
  BY <1>0, <1>1 DEF TableInv, SegmentInv, UsesInv, PlacedInv
<1>3. ASSUME NEW r \in R PROVE RefInv(t, r, L) /\ ValueInv(t, r, A, L)
  <2>1. RefInv(s, r, L) /\ ValueInv(s, r, A, L)
    BY <1>0, <1>3
  <2>2. RefInv(t, r, L)
    BY <1>1, <2>1 DEF RefInv
  <2>3. ValueAt(t, r) = ValueAt(s, r)
    BY <1>1, <2>1 DEF RefInv, ValueAt, WordAt
  <2>4. ValueInv(t, r, A, L)
    BY <1>1, <2>1, <2>3 DEF ValueInv, Pending
  <2>5. QED BY <2>2, <2>4
<1>4. QED BY <1>1, <1>2, <1>3 DEF Good

(* More ghosts: a use strays to where data goes next; the labels of a line  *)
(* that is over are placed; something is assembled for a label.             *)
LEMMA MoreExcused ==
  ASSUME NEW s, NEW R, NEW P, NEW A, NEW L, Good(s, R, P, A, L), NEW B, A \subseteq B,
         NEW M, L \subseteq M, \A e \in M \ L : e[1] = "stray" => e[2] = s.dataPc
  PROVE  Good(s, R, P, B, M)
<1>0. s \in Asm /\ TableInv(s) /\ SegmentInv(s) /\ UsesInv(s, L) /\ PlacedInv(s, P, A, L)
      /\ \A r \in R : RefInv(s, r, L) /\ ValueInv(s, r, A, L)
  BY DEF Good
<1>1. s.dataPc \in Nat
  BY <1>0 DEF Asm
<1>2. \A l : MovedIn(l, A, L) => MovedIn(l, B, M)
  BY DEF MovedIn
<1>3. \A r : StrayedIn(r, L) => StrayedIn(r, M)
  BY DEF StrayedIn
<1>4. UsesInv(s, M)
  BY <1>0, <1>1 DEF UsesInv
<1>5. PlacedInv(s, P, B, M)
  BY <1>0, <1>2 DEF PlacedInv
<1>6. ASSUME NEW r \in R PROVE RefInv(s, r, M) /\ ValueInv(s, r, B, M)
  <2>1. RefInv(s, r, L) /\ ValueInv(s, r, A, L)
    BY <1>0, <1>6
  <2>2. RefInv(s, r, M)
    <3>1. CASE r[1] = "text"
      BY <2>1, <3>1 DEF RefInv
    <3>2. CASE r[1] = "data"
      <4>1. /\ r[3] \in DOMAIN s.labels
            /\ r[2] \in Nat /\ DataBegin <= r[2] /\ r[2] + WORD <= s.dataPc
            /\ \A e \in L : e[1] = "stray" => e[2] <= r[2] \/ r[2] + WORD <= e[2]
            /\ \A l \in DOMAIN s.labels : \A u \in s.labels[l].uses :
                 \/ u[1] # "data" \/ <<"stray", u[2]>> \in L
                 \/ u[2] = r[2] /\ l = r[3]
                 \/ u[2] + WORD <= r[2] \/ r[2] + WORD <= u[2]
        BY <2>1, <3>2 DEF RefInv
      <4>2. \A e \in M : e[1] = "stray" => e[2] <= r[2] \/ r[2] + WORD <= e[2]
        BY <4>1
      <4>3. QED BY <3>2, <4>1, <4>2 DEF RefInv
    <3>3. QED BY <2>1, <3>1, <3>2 DEF RefInv
  <2>3. ValueInv(s, r, B, M)
    BY <1>2, <1>3, <2>1 DEF ValueInv
  <2>4. QED BY <2>2, <2>3
<1>7. QED BY <1>0, <1>4, <1>5, <1>6 DEF Good

LEMMA MorePlaced ==
  ASSUME NEW s, NEW R, NEW P, NEW A, NEW L, Good(s, R, P, A, L), NEW N, PlacedInv(s, N, A, L)
  PROVE  Good(s, R, P \cup N, A, L)
  BY DEF Good, PlacedInv

LEMMA MoreAssembled ==
  ASSUME NEW s, NEW R, NEW P, NEW A, NEW L, Good(s, R, P, A, L), NEW N,
         \A r \in N : RefInv(s, r, L) /\ ValueInv(s, r, A, L)
  PROVE  Good(s, R \cup N, P, A, L)
  BY DEF Good

-------------------------------------------------------------------------------
(* The list of local labels while the lines are read.                       *)

Lists(s, A, L) == ListInv(s, s.locals, L, TRUE) /\ ListEnds(s, A)

LEMMA ReachesIn ==
  ASSUME NEW labels \in Seq(LabelType), NextIn(labels), NEW h \in 0..Len(labels), NEW k,
         Reaches(labels, h, k)
  PROVE  k \in 0..Len(labels)
<1>1. 0..Len(labels) \in SUBSET (0..Len(labels))
  OBVIOUS
<1>2. \A j \in (0..Len(labels)) \ {0} : labels[j].next \in 0..Len(labels)
  BY DEF NextIn
<1>3. QED BY <1>1, <1>2 DEF Reaches

(* The list stays, and what is on it stays excusable: labels become global  *)
(* or get an address as they may.                                           *)
SameNext(s, t) ==
  /\ t \in Asm /\ t.table = s.table
  /\ Len(t.labels) = Len(s.labels) /\ DOMAIN t.labels = DOMAIN s.labels
  /\ \A k \in DOMAIN s.labels :
       /\ t.labels[k].next = s.labels[k].next /\ t.labels[k].name = s.labels[k].name
       /\ s.labels[k].gp => t.labels[k].gp
       /\ s.labels[k].addr # 0 => t.labels[k].addr # 0
       /\ s.labels[k].global => t.labels[k].global
ListKept(s, t, L) ==
  /\ SameNext(s, t)
  /\ \A k \in DOMAIN s.labels :
       /\ t.labels[k].addr # 0 => s.labels[k].addr # 0 \/ t.labels[k].global
       /\ t.labels[k].global =>
            s.labels[k].global \/ s.labels[k].addr = 0 \/ <<"global", k>> \in L

LEMMA SameReaches ==
  ASSUME NEW s \in Asm, TableInv(s), NEW t, SameNext(s, t), NEW h \in 0..Len(s.labels), NEW k
  PROVE  Reaches(t.labels, h, k) <=> Reaches(s.labels, h, k)
<1>1. s.labels \in Seq(LabelType) /\ t.labels \in Seq(LabelType)
      /\ Len(s.labels) \in Nat /\ Len(t.labels) = Len(s.labels)
  BY DEF Asm, SameNext
<1>2. NextIn(s.labels)
  BY DEF TableInv, NextIn
<1>3. \A l \in DOMAIN s.labels : t.labels[l].next = s.labels[l].next
  BY DEF SameNext
<1>4. Len(s.labels) <= Len(t.labels)
  BY <1>1
<1>5. QED BY <1>1, <1>2, <1>3, <1>4, SameList

LEMMA ListKeptInv ==
  ASSUME NEW s \in Asm, TableInv(s), NEW L, NEW M, L \subseteq M, NEW h, NEW inTable,
         ListInv(s, h, L, inTable), NEW t, ListKept(s, t, M)
  PROVE  ListInv(t, h, M, inTable)
<1>0. h \in 0..Len(s.labels) /\ SameNext(s, t)
  BY DEF ListInv, ListKept
<1>1. /\ t \in Asm /\ t.table = s.table /\ Len(t.labels) = Len(s.labels)
      /\ DOMAIN t.labels = DOMAIN s.labels
      /\ \A k \in DOMAIN s.labels :
           /\ t.labels[k].name = s.labels[k].name
           /\ s.labels[k].addr # 0 => t.labels[k].addr # 0
           /\ s.labels[k].global => t.labels[k].global
           /\ t.labels[k].addr # 0 => s.labels[k].addr # 0 \/ t.labels[k].global
           /\ t.labels[k].global =>
                s.labels[k].global \/ s.labels[k].addr = 0 \/ <<"global", k>> \in M
  BY DEF ListKept, SameNext
<1>2. \A k : Reaches(t.labels, h, k) <=> Reaches(s.labels, h, k)
  BY <1>0, SameReaches
<1>3. ASSUME NEW k \in DOMAIN t.labels, Reaches(t.labels, h, k)
      PROVE  /\ t.labels[k].addr # 0
             /\ t.labels[k].global => <<"global", k>> \in M
             /\ \/ t.table[t.labels[k].name] = k
                \/ ~ inTable /\ t.table[t.labels[k].name] = 0
  <2>1. /\ s.labels[k].addr # 0
        /\ s.labels[k].global => <<"global", k>> \in L
        /\ \/ s.table[s.labels[k].name] = k
           \/ ~ inTable /\ s.table[s.labels[k].name] = 0
    BY <1>1, <1>2, <1>3 DEF ListInv
  <2>2. QED BY <1>1, <1>3, <2>1
<1>4. ASSUME Reaches(t.labels, h, 0), NEW n \in Names, t.table[n] # 0,
             t.labels[t.table[n]].addr # 0, ~ t.labels[t.table[n]].global
      PROVE  Reaches(t.labels, h, t.table[n])
  <2>1. s.table[n] # 0 /\ s.table[n] \in DOMAIN s.labels
    BY <1>1, <1>4 DEF TableInv
  <2>2. s.labels[s.table[n]].addr # 0 /\ ~ s.labels[s.table[n]].global
    BY <1>1, <1>4, <2>1
  <2>3. Reaches(s.labels, h, s.table[n])
    BY <1>2, <1>4, <2>1, <2>2 DEF ListInv
  <2>4. QED BY <1>1, <1>2, <2>3
<1>5. QED BY <1>0, <1>1, <1>3, <1>4 DEF ListInv

LEMMA ListEndsKept ==
  ASSUME NEW s \in Asm, TableInv(s), NEW A, NEW B, A \subseteq B, ListEnds(s, A),
         NEW t, SameNext(s, t), t.locals = s.locals
  PROVE  ListEnds(t, B)
<1>1. s.locals \in 0..Len(s.labels)
  BY DEF TableInv
<1>2. CASE Reaches(s.labels, s.locals, 0)
  BY <1>1, <1>2, SameReaches DEF ListEnds
<1>3. CASE \E l \in A \cap DOMAIN s.labels : s.labels[l].gp
  BY <1>3 DEF ListEnds, SameNext
<1>4. QED BY <1>2, <1>3 DEF ListEnds

LEMMA KeptLists ==
  ASSUME NEW s \in Asm, TableInv(s), NEW A, NEW L, Lists(s, A, L), NEW B, A \subseteq B,
         NEW M, L \subseteq M, NEW t, ListKept(s, t, M), t.locals = s.locals
  PROVE  Lists(t, B, M)
<1>1. SameNext(s, t)
  BY DEF ListKept
<1>2. ListInv(t, s.locals, M, TRUE)
  BY ListKeptInv DEF Lists
<1>3. ListEnds(t, B)
  BY <1>1, ListEndsKept DEF Lists
<1>4. QED BY <1>2, <1>3 DEF Lists


LEMMA LookedLists ==
  ASSUME NEW s \in Asm, TableInv(s), NEW A, NEW L, Lists(s, A, L), NEW n \in Names,
         NEW t, t = Looked(s, n)
  PROVE  Lists(t, A, L)
<1>1. /\ t \in Asm /\ t.locals = s.locals
      /\ \A m \in Names : m # n => t.table[m] = s.table[m]
      /\ s.table[n] # 0 => t = s
      /\ Len(s.labels) <= Len(t.labels)
      /\ \A l \in DOMAIN s.labels : l \in DOMAIN t.labels /\ t.labels[l] = s.labels[l]
      /\ \A l \in DOMAIN t.labels :
           l \in DOMAIN s.labels \/ (l = t.table[n] /\ t.labels[l] = Label(n))
      /\ s.table[n] = 0 => t.table[n] \notin DOMAIN s.labels
      /\ t.table[n] \in DOMAIN t.labels
  BY LookedIs
<1>2. /\ s.labels \in Seq(LabelType) /\ t.labels \in Seq(LabelType)
      /\ Len(s.labels) \in Nat /\ Len(t.labels) \in Nat
      /\ DOMAIN s.labels = 1..Len(s.labels) /\ DOMAIN t.labels = 1..Len(t.labels)
      /\ s.locals \in 0..Len(s.labels) /\ NextIn(s.labels)
  BY <1>1 DEF Asm, TableInv, NextIn
<1>3. \A k : Reaches(t.labels, s.locals, k) <=> Reaches(s.labels, s.locals, k)
  BY <1>1, <1>2, SameList
<1>4. \A k : Reaches(s.labels, s.locals, k) => k \in 0..Len(s.labels)
  BY <1>2, ReachesIn
<1>5. Label(n).addr = 0
  BY DEF Label
<1>6. ASSUME NEW k \in DOMAIN t.labels, Reaches(t.labels, t.locals, k)
      PROVE  /\ t.labels[k].addr # 0
             /\ t.labels[k].global => <<"global", k>> \in L
             /\ t.table[t.labels[k].name] = k
  <2>1. k \in DOMAIN s.labels /\ Reaches(s.labels, s.locals, k)
    BY <1>1, <1>2, <1>3, <1>4, <1>6
  <2>2. /\ s.labels[k].addr # 0
        /\ s.labels[k].global => <<"global", k>> \in L
        /\ s.table[s.labels[k].name] = k
    BY <2>1 DEF Lists, ListInv
  <2>3. s.labels[k].name \in Names
    BY <2>1, LabelFields DEF LabelType
  <2>4. k # 0
    BY <1>2, <2>1
  <2>5. t.table[s.labels[k].name] = k
    BY <1>1, <2>2, <2>3, <2>4
  <2>6. QED BY <1>1, <2>1, <2>2, <2>5
<1>7. ASSUME Reaches(t.labels, t.locals, 0), NEW m \in Names, t.table[m] # 0,
             t.labels[t.table[m]].addr # 0, ~ t.labels[t.table[m]].global
      PROVE  Reaches(t.labels, t.locals, t.table[m])
  <2>1. t.table[m] = s.table[m]
    <3>1. CASE m # n
      BY <1>1, <3>1
    <3>2. CASE m = n /\ s.table[n] # 0
      BY <1>1, <3>2
    <3>3. CASE m = n /\ s.table[n] = 0
      BY <1>1, <1>5, <1>7, <3>3
    <3>4. QED BY <3>1, <3>2, <3>3
  <2>2. s.table[m] \in DOMAIN s.labels
    BY <1>7, <2>1 DEF TableInv
  <2>3. Reaches(s.labels, s.locals, s.table[m])
    BY <1>1, <1>3, <1>7, <2>1, <2>2 DEF Lists, ListInv
  <2>4. QED BY <1>1, <1>3, <2>1, <2>3
<1>8. ListInv(t, t.locals, L, TRUE)
  BY <1>1, <1>2, <1>6, <1>7 DEF ListInv
<1>9. ListEnds(t, A)
  <2>1. CASE Reaches(s.labels, s.locals, 0)
    BY <1>1, <1>3, <2>1 DEF ListEnds
  <2>2. CASE \E l \in A \cap DOMAIN s.labels : s.labels[l].gp
    BY <1>1, <2>2 DEF ListEnds
  <2>3. QED BY <2>1, <2>2 DEF Lists, ListEnds
<1>10. QED BY <1>8, <1>9 DEF Lists

LEMMA ResolvedLists ==
  ASSUME NEW s \in Asm, TableInv(s), NEW A, NEW L, Lists(s, A, L), NEW ls, NEW t,
         Resolves(s, ls, t)
  PROVE  Lists(t, A, L)
<1>1. ListKept(s, t, L) /\ t.locals = s.locals
  BY DEF Resolves, ListKept, SameNext
<1>2. QED BY <1>1, KeptLists

(* The steps of record_label: a label of the list is recorded again only if *)
(* it is one of the small data, and then the list is a ring.                *)
LEMMA RecordedLists ==
  ASSUME NEW s \in Asm, TableInv(s), NEW A, NEW L, Lists(s, A, L), NEW n \in Names,
         NEW l, l = s.table[n], l \in DOMAIN s.labels, s.labels[l].addr # 0 => l \in A,
         NEW addr \in 1..MaxAddr, NEW resolve \in BOOLEAN,
         NEW t, RecordedSteps(s, l, addr, resolve, t)
  PROVE  Lists(t, A, L)
<1>1. CASE Refused(s, l) /\ t = Cleared(s)
  BY <1>1, ClearedIs, ResolvedLists
<1>2. ASSUME NEW u, NEW v, ~ Refused(s, l), AddressSet(s, l, addr, u),
             IF resolve THEN Resolves(u, {l}, v) /\ v.line = u.line ELSE v = u, Listed(v, l, t)
      PROVE  Lists(t, A, L)
  <2>1. u.labels[l].addr # 0
    <3>1. s.labels[l].gp => s.labels[l].addr # 0
      BY DEF TableInv
    <3>2. QED BY <1>2, <3>1 DEF AddressSet
  <2>2. /\ v \in Asm /\ v.table = s.table /\ v.locals = s.locals
        /\ Len(v.labels) = Len(s.labels) /\ DOMAIN v.labels = DOMAIN s.labels
        /\ v.labels[l].addr # 0
        /\ \A k \in DOMAIN s.labels :
             /\ v.labels[k].next = s.labels[k].next /\ v.labels[k].name = s.labels[k].name
             /\ v.labels[k].gp = s.labels[k].gp /\ v.labels[k].global = s.labels[k].global
             /\ k # l => v.labels[k].addr = s.labels[k].addr
    <3>1. /\ u \in Asm /\ u.table = s.table /\ u.locals = s.locals
          /\ Len(u.labels) = Len(s.labels) /\ DOMAIN u.labels = DOMAIN s.labels
          /\ \A k \in DOMAIN s.labels :
               /\ u.labels[k].next = s.labels[k].next /\ u.labels[k].name = s.labels[k].name
               /\ u.labels[k].gp = s.labels[k].gp /\ u.labels[k].global = s.labels[k].global
               /\ k # l => u.labels[k].addr = s.labels[k].addr
      BY <1>2 DEF AddressSet, Alike
    <3>2. CASE resolve
      BY <1>2, <2>1, <3>1, <3>2 DEF Resolves
    <3>3. CASE ~ resolve
      BY <1>2, <2>1, <3>1, <3>3
    <3>4. QED BY <3>2, <3>3
  <2>3. /\ t \in Asm /\ t.table = s.table
        /\ Len(t.labels) = Len(s.labels) /\ DOMAIN t.labels = DOMAIN s.labels
        /\ t.labels[l].addr # 0
        /\ \A k \in DOMAIN s.labels :
             /\ t.labels[k].name = s.labels[k].name
             /\ t.labels[k].gp = s.labels[k].gp /\ t.labels[k].global = s.labels[k].global
             /\ k # l => t.labels[k].addr = s.labels[k].addr /\ t.labels[k].next = s.labels[k].next
    <3>1. /\ t \in Asm /\ t.table = v.table
          /\ Len(t.labels) = Len(v.labels) /\ DOMAIN t.labels = DOMAIN v.labels
          /\ \A k \in DOMAIN v.labels : k # l => t.labels[k] = v.labels[k]
          /\ t.labels[l].name = v.labels[l].name /\ t.labels[l].addr = v.labels[l].addr
          /\ t.labels[l].gp = v.labels[l].gp /\ t.labels[l].global = v.labels[l].global
      BY <1>2 DEF Listed, Alike
    <3>2. ASSUME NEW k \in DOMAIN s.labels
          PROVE  /\ t.labels[k].name = v.labels[k].name
                 /\ t.labels[k].gp = v.labels[k].gp /\ t.labels[k].global = v.labels[k].global
                 /\ t.labels[k].addr = v.labels[k].addr
                 /\ k # l => t.labels[k].next = v.labels[k].next
      <4>1. CASE k = l
        BY <3>1, <4>1
      <4>2. CASE k # l
        BY <2>2, <3>1, <4>2
      <4>3. QED BY <4>1, <4>2
    <3>3. t.labels[l].addr # 0
      BY <2>2, <3>1
    <3>4. ASSUME NEW k \in DOMAIN s.labels
          PROVE  /\ t.labels[k].name = s.labels[k].name
                 /\ t.labels[k].gp = s.labels[k].gp /\ t.labels[k].global = s.labels[k].global
                 /\ k # l => t.labels[k].addr = s.labels[k].addr
                             /\ t.labels[k].next = s.labels[k].next
      BY <2>2, <3>2
    <3>5. Len(t.labels) = Len(s.labels) /\ DOMAIN t.labels = DOMAIN s.labels
      BY <2>2, <3>1
    <3>6. t \in Asm /\ t.table = s.table
      BY <2>2, <3>1
    <3>7. QED BY <3>3, <3>4, <3>5, <3>6
  <2>4. CASE s.labels[l].global
    <3>1. t.locals = s.locals /\ t.labels[l].next = s.labels[l].next
      BY <1>2, <2>2, <2>4 DEF Listed
    <3>2. ListKept(s, t, L)
      BY <2>3, <2>4, <3>1 DEF ListKept, SameNext
    <3>3. QED BY <3>1, <3>2, KeptLists
  <2>5. CASE ~ s.labels[l].global
    <3>0. t.locals = l /\ t.labels[l].next = s.locals
      BY <1>2, <2>2, <2>5 DEF Listed
    <3>1. /\ s.labels \in Seq(LabelType) /\ t.labels \in Seq(LabelType) /\ l # 0
          /\ s.locals \in 0..Len(s.labels) /\ NextIn(s.labels) /\ l \in 0..Len(t.labels)
      BY <2>3 DEF Asm, TableInv, NextIn
    <3>2. Pushed(s.labels, t.labels, s.locals, l)
      BY <2>3, <3>0, <3>1 DEF Pushed
    <3>3. \A k : Reaches(t.labels, l, k) => k = l \/ Reaches(s.labels, s.locals, k)
      BY <3>1, <3>2, PushedOnly
    <3>4. s.labels[l].name = n
      BY <3>1 DEF TableInv
    <3>5. ASSUME NEW k \in DOMAIN t.labels, Reaches(t.labels, l, k)
          PROVE  /\ t.labels[k].addr # 0
                 /\ t.labels[k].global => <<"global", k>> \in L
                 /\ t.table[t.labels[k].name] = k
      <4>1. CASE k = l
        BY <2>3, <2>5, <3>4, <4>1
      <4>2. CASE k # l
        <5>1. k \in DOMAIN s.labels /\ Reaches(s.labels, s.locals, k)
          BY <2>3, <3>3, <3>5, <4>2
        <5>2. /\ s.labels[k].addr # 0
              /\ s.labels[k].global => <<"global", k>> \in L
              /\ s.table[s.labels[k].name] = k
          BY <5>1 DEF Lists, ListInv
        <5>3. QED BY <2>3, <4>2, <5>1, <5>2
      <4>3. QED BY <4>1, <4>2
    <3>6. ASSUME Reaches(t.labels, l, 0), NEW m \in Names, t.table[m] # 0,
                 t.labels[t.table[m]].addr # 0, ~ t.labels[t.table[m]].global
          PROVE  Reaches(t.labels, l, t.table[m])
      <4>1. ~ Reaches(s.labels, s.locals, l)
        BY <3>1, <3>2, <3>6, PushedTwice
      <4>2. Reaches(s.labels, s.locals, 0)
        BY <3>1, <3>3, <3>6
      <4>3. CASE t.table[m] = l
        BY <4>3, ReachesSelf
      <4>4. CASE t.table[m] # l
        <5>1. s.table[m] = t.table[m] /\ s.table[m] \in DOMAIN s.labels
          BY <2>3, <3>6 DEF TableInv
        <5>2. s.labels[s.table[m]].addr # 0 /\ ~ s.labels[s.table[m]].global
          BY <2>3, <3>6, <4>4, <5>1
        <5>3. Reaches(s.labels, s.locals, s.table[m])
          BY <3>6, <4>2, <5>1, <5>2 DEF Lists, ListInv
        <5>4. QED BY <3>2, <4>1, <5>1, <5>3, PushedKeeps
      <4>5. QED BY <4>3, <4>4
    <3>7. ListInv(t, l, L, TRUE)
      BY <3>1, <3>5, <3>6 DEF ListInv
    <3>8. ListEnds(t, A)
      <4>1. CASE Reaches(s.labels, s.locals, l)
        <5>1. s.labels[l].addr # 0
          BY <4>1 DEF Lists, ListInv
        <5>2. s.labels[l].gp
          BY <1>2, <5>1 DEF Refused
        <5>3. QED BY <2>3, <5>1, <5>2 DEF ListEnds
      <4>2. CASE ~ Reaches(s.labels, s.locals, l) /\ Reaches(s.labels, s.locals, 0)
        BY <3>0, <3>2, <4>2, PushedKeeps DEF ListEnds
      <4>3. CASE \E k \in A \cap DOMAIN s.labels : s.labels[k].gp
        BY <2>3, <4>3 DEF ListEnds
      <4>4. QED BY <4>1, <4>2, <4>3 DEF Lists, ListEnds
    <3>9. QED BY <3>0, <3>7, <3>8 DEF Lists
  <2>6. QED BY <2>4, <2>5
<1>3. QED BY <1>1, <1>2 DEF RecordedSteps

-------------------------------------------------------------------------------
(* What the functions keep, taken together.                                 *)

Sound(s, R, P, A, L) == Good(s, R, P, A, L) /\ Lists(s, A, L)
Fine(s, R, P, A, L) == Sound(s, R, P, A, L) /\ LineInv(s, R, A, L)

TableKept(s, t) == \A n \in Names : s.table[n] # 0 => t.table[n] = s.table[n]

(* A line leads from s to t. *)
Follows(s, t) ==
  /\ TableKept(s, t)
  /\ Len(t.insts) <= Len(s.insts) + 1
  /\ t.dataPc <= s.dataPc + ItemSize + 2

LEMMA LookedSound ==
  ASSUME NEW s, NEW R, NEW P, NEW A, NEW L, Sound(s, R, P, A, L), NEW n \in Names,
         NEW t, t = Looked(s, n)
  PROVE  /\ Sound(t, R, P, A, L) /\ SameSegments(s, t) /\ TableKept(s, t) /\ t.line = s.line
         /\ t.table[n] \in DOMAIN t.labels
         /\ \A k \in DOMAIN s.labels : k \in DOMAIN t.labels /\ t.labels[k] = s.labels[k]
<1>1. s \in Asm /\ TableInv(s) /\ Good(s, R, P, A, L) /\ Lists(s, A, L)
  BY DEF Sound, Good
<1>2. Good(t, R, P, A, L) /\ Lists(t, A, L)
  BY <1>1, LookedGood, LookedLists
<1>3. TableKept(s, t)
  BY <1>1, LookedIs DEF TableKept
<1>4. QED BY <1>1, <1>2, <1>3, LookedIs DEF Sound

(* The line is over. *)
LEMMA LineOver ==
  ASSUME NEW s, NEW R, NEW P, NEW A, NEW L, Sound(s, R, P, A, L), NEW t, t = Cleared(s)
  PROVE  /\ Fine(t, R, P, A, L) /\ t.table = s.table /\ t.dataPc = s.dataPc /\ t.line = {}
         /\ Len(t.insts) = Len(s.insts)
         /\ \A k \in DOMAIN s.labels : k \in DOMAIN t.labels /\ t.labels[k].addr = s.labels[k].addr
<1>1. s \in Asm /\ TableInv(s) /\ Good(s, R, P, A, L) /\ Lists(s, A, L)
  BY DEF Sound, Good
<1>2. Resolves(s, s.line, t) /\ t.line = {}
  BY <1>1, ClearedIs
<1>3. Good(t, R, P, A, L) /\ Lists(t, A, L)
  BY <1>1, <1>2, ClearedGood, ResolvedLists
<1>4. LineInv(t, R, A, L)
  BY <1>2 DEF LineInv
<1>5. QED BY <1>2, <1>3, <1>4 DEF Sound, Fine, Resolves

LEMMA GrownSound ==
  ASSUME NEW s, NEW R, NEW P, NEW A, NEW L, Sound(s, R, P, A, L), NEW t, Grows(s, t)
  PROVE  Sound(t, R, P, A, L)
<1>1. s \in Asm /\ TableInv(s) /\ Good(s, R, P, A, L) /\ Lists(s, A, L)
  BY DEF Sound, Good
<1>2. ListKept(s, t, L) /\ t.locals = s.locals
  BY DEF Grows, ListKept, SameNext
<1>3. QED BY <1>1, <1>2, GrownGood, KeptLists DEF Sound

LEMMA AppendedSound ==
  ASSUME NEW s, NEW R, NEW P, NEW A, NEW L, Sound(s, R, P, A, L), NEW i, NEW t, Appends(s, i, t)
  PROVE  Sound(t, R, P, A, L)
<1>1. s \in Asm /\ TableInv(s) /\ Good(s, R, P, A, L) /\ Lists(s, A, L)
  BY DEF Sound, Good
<1>2. ListKept(s, t, L) /\ t.locals = s.locals
  BY DEF Appends, ListKept, SameNext
<1>3. QED BY <1>1, <1>2, AppendedGood, KeptLists DEF Sound

LEMMA WaitsLists ==
  ASSUME NEW s \in Asm, TableInv(s), NEW A, NEW L, Lists(s, A, L), NEW l, NEW u, NEW t,
         Waits(s, l, u, t)
  PROVE  Lists(t, A, L)
<1>1. ListKept(s, t, L) /\ t.locals = s.locals
  BY DEF Waits, ListKept, SameNext
<1>2. QED BY <1>1, KeptLists

(* More ghosts, at the end of the line or before. *)
LEMMA ExcusedSound ==
  ASSUME NEW s, NEW R, NEW P, NEW A, NEW L, Sound(s, R, P, A, L), NEW B, A \subseteq B,
         NEW M, L \subseteq M, \A e \in M \ L : e[1] = "stray" => e[2] = s.dataPc
  PROVE  Sound(s, R, P, B, M)
<1>1. s \in Asm /\ TableInv(s) /\ Good(s, R, P, A, L) /\ Lists(s, A, L)
  BY DEF Sound, Good
<1>2. ListKept(s, s, M)
  BY <1>1 DEF ListKept, SameNext
<1>3. Lists(s, B, M)
  BY <1>1, <1>2, KeptLists
<1>4. Good(s, R, P, B, M)
  BY <1>1, MoreExcused
<1>5. QED BY <1>3, <1>4 DEF Sound

LEMMA LineExcused ==
  ASSUME NEW s, NEW R, NEW A, NEW L, LineInv(s, R, A, L), NEW B, A \subseteq B, NEW M, L \subseteq M
  PROVE  LineInv(s, R, B, M)
  BY DEF LineInv, MovedIn, StrayedIn

LEMMA PlacedFine ==
  ASSUME NEW s, NEW R, NEW P, NEW A, NEW L, Fine(s, R, P, A, L), NEW N, PlacedInv(s, N, A, L)
  PROVE  Fine(s, R, P \cup N, A, L)
  BY MorePlaced DEF Fine, Sound

(* Directives, small data, and the flags of the parser. *)
Settings(s, t) ==
  /\ t \in Asm /\ t.labels = s.labels /\ t.line = s.line /\ t.insts = s.insts
  /\ t.dataPc = s.dataPc /\ t.dataTop = s.dataTop /\ t.data = s.data
  /\ DATA_BOT <= t.gpItem /\ t.gpItem <= DataBegin
  /\ t.locals \in 0..Len(s.labels) /\ \A n \in Names : t.table[n] \in {0, s.table[n]}

LEMMA SettingsGood ==
  ASSUME NEW s, NEW R, NEW P, NEW A, NEW L, Good(s, R, P, A, L), NEW t, Settings(s, t)
  PROVE  Good(t, R, P, A, L)
<1>0. s \in Asm /\ TableInv(s) /\ SegmentInv(s) /\ UsesInv(s, L) /\ PlacedInv(s, P, A, L)
      /\ \A r \in R : RefInv(s, r, L) /\ ValueInv(s, r, A, L)
  BY DEF Good
<1>1. /\ t \in Asm /\ t.labels = s.labels /\ t.line = s.line /\ t.insts = s.insts
      /\ t.dataPc = s.dataPc /\ t.dataTop = s.dataTop /\ t.data = s.data
      /\ DATA_BOT <= t.gpItem /\ t.gpItem <= DataBegin
      /\ t.locals \in 0..Len(s.labels) /\ \A n \in Names : t.table[n] \in {0, s.table[n]}
  BY DEF Settings
<1>2. TableInv(t)
  <2>1. \A n \in Names : t.table[n] # 0 => /\ t.table[n] \in DOMAIN t.labels
                                           /\ t.labels[t.table[n]].name = n
    BY <1>0, <1>1 DEF TableInv
  <2>2. QED BY <1>0, <1>1, <2>1 DEF TableInv
<1>3. SegmentInv(t) /\ UsesInv(t, L) /\ PlacedInv(t, P, A, L)
  BY <1>0, <1>1 DEF SegmentInv, UsesInv, PlacedInv
<1>4. \A r \in R : RefInv(t, r, L)
  BY <1>0, <1>1 DEF RefInv
<1>5. ASSUME NEW r \in R PROVE ValueInv(t, r, A, L)
  <2>1. ValueAt(t, r) = ValueAt(s, r)
    BY <1>1 DEF ValueAt, WordAt
  <2>2. QED BY <1>0, <1>1, <2>1 DEF ValueInv, Pending
<1>6. QED BY <1>1, <1>2, <1>3, <1>4, <1>5 DEF Good

LEMMA SettingsSound ==
  ASSUME NEW s, NEW R, NEW P, NEW A, NEW L, Sound(s, R, P, A, L), NEW t, Settings(s, t),
         t.locals = s.locals, t.table = s.table
  PROVE  Sound(t, R, P, A, L)
<1>1. s \in Asm /\ TableInv(s) /\ Good(s, R, P, A, L) /\ Lists(s, A, L)
  BY DEF Sound, Good
<1>2. ListKept(s, t, L)
  BY <1>1 DEF Settings, ListKept, SameNext
<1>3. QED BY <1>1, <1>2, SettingsGood, KeptLists DEF Sound

LEMMA RecordedSound ==
  ASSUME NEW s, NEW R, NEW P, NEW A, NEW L, Sound(s, R, P, A, L), NEW n \in Names,
         Repeats(s, n, A), NEW addr \in 1..MaxAddr, NEW resolve \in BOOLEAN, resolve,
         NEW t, t = Recorded(s, n, addr, resolve)
  PROVE  Sound(t, R, P, A, L)
<1> DEFINE q == Looked(s, n)
           l == q.table[n]
<1>1. s \in Asm /\ TableInv(s) /\ Good(s, R, P, A, L) /\ Lists(s, A, L)
  BY DEF Sound, Good
<1>2. Good(t, R, P, A, L)
  <2>1. resolve = TRUE
    OBVIOUS
  <2>2. Good(Recorded(s, n, addr, TRUE), R, P, A, L)
    BY <1>1, RecordedGood
  <2>3. QED BY <2>1, <2>2
<1>3. Sound(q, R, P, A, L) /\ l \in DOMAIN q.labels
  BY LookedSound
<1>4. q \in Asm /\ TableInv(q) /\ Lists(q, A, L)
  BY <1>3 DEF Sound, Good
<1>5. q.labels[l].addr # 0 => l \in A
  BY <1>1, RepeatsLooked
<1>6. RecordedSteps(q, l, addr, resolve, t)
  <2>1. addr \in 0..MaxAddr
    OBVIOUS
  <2> HIDE DEF q, l
  <2>2. q = Looked(s, n) /\ l = q.table[n]
    BY DEF q, l
  <2>3. QED BY <1>1, <2>1, <2>2, RecordedIs
<1> HIDE DEF q
<1>7. Lists(t, A, L)
  BY <1>3, <1>4, <1>5, <1>6, RecordedLists
<1>8. QED BY <1>2, <1>7 DEF Sound

(* What record_label leaves alone, and that the label has an address then.  *)
HasAddress(s, n, t) ==
  /\ TableKept(s, t) /\ t.dataPc = s.dataPc /\ Len(t.insts) = Len(s.insts)
  /\ t.gpItem = s.gpItem
  /\ t.table[n] \in DOMAIN t.labels /\ t.labels[t.table[n]].addr # 0

LEMMA RecordedKeeps ==
  ASSUME NEW s \in Asm, TableInv(s), NEW q, NEW n \in Names, q = Looked(s, n),
         q \in Asm, TableInv(q), NEW addr \in 1..MaxAddr,
         NEW resolve \in BOOLEAN, resolve, NEW t, t = Recorded(s, n, addr, resolve)
  PROVE  HasAddress(s, n, t)
<1> DEFINE l == q.table[n]
<1>1. SameSegments(s, q) /\ TableKept(s, q) /\ l \in DOMAIN q.labels
  BY LookedIs DEF TableKept
<1>2. RecordedSteps(q, l, addr, resolve, t)
  <2>1. addr \in 0..MaxAddr
    OBVIOUS
  <2> HIDE DEF l
  <2>2. l = q.table[n]
    BY DEF l
  <2>3. QED BY <2>1, <2>2, RecordedIs
<1>3. /\ t.table = q.table /\ t.dataPc = q.dataPc /\ Len(t.insts) = Len(q.insts)
      /\ t.gpItem = q.gpItem /\ DOMAIN t.labels = DOMAIN q.labels /\ t.labels[l].addr # 0
  <2>1. CASE Refused(q, l) /\ t = Cleared(q)
    <3>1. Resolves(q, q.line, t)
      BY <2>1, ClearedIs
    <3>2. QED BY <1>1, <2>1, <3>1 DEF Resolves, Refused
  <2>2. ASSUME NEW u, NEW v, ~ Refused(q, l), AddressSet(q, l, addr, u),
               Resolves(u, {l}, v), Listed(v, l, t)
        PROVE  <1>3
    <3>1. u.labels[l].addr # 0
      <4>1. q.labels[l].gp => q.labels[l].addr # 0
        BY <1>1 DEF TableInv
      <4>2. QED BY <2>2, <4>1 DEF AddressSet
    <3>2. /\ u.table = q.table /\ u.dataPc = q.dataPc /\ u.insts = q.insts
          /\ u.gpItem = q.gpItem /\ DOMAIN u.labels = DOMAIN q.labels
      BY <2>2 DEF AddressSet, Alike, SameSegments
    <3>3. /\ v.table = u.table /\ v.dataPc = u.dataPc /\ Len(v.insts) = Len(u.insts)
          /\ v.gpItem = u.gpItem /\ DOMAIN v.labels = DOMAIN u.labels
          /\ v.labels[l].addr = u.labels[l].addr
      BY <1>1, <2>2, <3>2 DEF Resolves
    <3>4. /\ t.table = v.table /\ t.dataPc = v.dataPc /\ t.insts = v.insts
          /\ t.gpItem = v.gpItem /\ DOMAIN t.labels = DOMAIN v.labels
          /\ t.labels[l].addr = v.labels[l].addr
      BY <2>2 DEF Listed, Alike, SameSegments
    <3>5. QED BY <3>1, <3>2, <3>3, <3>4
  <2>3. QED BY <1>2, <2>1, <2>2 DEF RecordedSteps
<1>4. QED BY <1>1, <1>3 DEF TableKept, SameSegments, HasAddress

LEMMA RecordedKept ==
  ASSUME NEW s, NEW R, NEW P, NEW A, NEW L, Sound(s, R, P, A, L), NEW n \in Names,
         NEW addr \in 1..MaxAddr, NEW resolve \in BOOLEAN, resolve,
         NEW t, t = Recorded(s, n, addr, resolve)
  PROVE  HasAddress(s, n, t)
<1> DEFINE q == Looked(s, n)
<1>1. q = Looked(s, n)
  OBVIOUS
<1> HIDE DEF q
<1>2. Sound(q, R, P, A, L)
  BY <1>1, LookedSound
<1>3. s \in Asm /\ TableInv(s) /\ q \in Asm /\ TableInv(q)
  BY <1>2 DEF Sound, Good
<1>4. QED BY <1>1, <1>3, RecordedKeeps

(* .align, and what .word and .comm do first: the labels of the line are    *)
(* where the data pointer is now.                                           *)
LEMMA AlignedSound ==
  ASSUME NEW s, NEW R, NEW P, NEW A, NEW L, Fine(s, R, P, A, L), s.dataPc + 1 <= MaxAddr,
         NEW t, t = AlignedData(s)
  PROVE  /\ Sound(t, R, P, A, L) /\ t.table = s.table /\ t.insts \in Seq(0..MaxAddr)
         /\ Len(t.insts) = Len(s.insts) /\ t.dataPc \in {s.dataPc, s.dataPc + 1} /\ t.line = {}
         /\ \A k \in s.line : k \in DOMAIN t.labels /\ t.labels[k].addr = t.dataPc
<1>1. s \in Asm /\ TableInv(s) /\ SegmentInv(s) /\ Good(s, R, P, A, L) /\ Lists(s, A, L)
      /\ LineUses(s, R, A, L)
  BY DEF Fine, Sound, Good, LineInv, LineUses
<1>2. PICK q, u :
        /\ Grows(s, q) /\ q.dataPc \in {s.dataPc, s.dataPc + 1} /\ q.dataPc % 2 = 0
        /\ q.dataPc \in 1..MaxAddr
        /\ Shifts(q, q.dataPc, u)
        /\ Resolves(u, u.line, t) /\ t.line = {}
  BY <1>1, AlignedDataIs
<1>3. Good(t, R, P, A, L)
  BY <1>1, AlignedGood
<1>4. SameNext(s, t) /\ t.locals = s.locals
  BY <1>2 DEF Grows, Shifts, Resolves, SameNext
<1>5. /\ t.table = s.table /\ Len(t.insts) = Len(s.insts) /\ t.dataPc = q.dataPc
      /\ s.line \subseteq DOMAIN s.labels /\ DOMAIN t.labels = DOMAIN s.labels
      /\ \A k \in DOMAIN s.labels :
           /\ t.labels[k].addr = IF k \in s.line THEN q.dataPc ELSE s.labels[k].addr
           /\ t.labels[k].global = s.labels[k].global
  BY <1>1, <1>2 DEF Grows, Shifts, Resolves, SameSegments, TableInv
<1>6. ListKept(s, t, L)
  BY <1>1, <1>4, <1>5 DEF ListKept, TableInv
<1>7. Lists(t, A, L)
  BY <1>1, <1>4, <1>6, KeptLists
<1>8. QED BY <1>2, <1>3, <1>5, <1>7 DEF Sound, Resolves, Asm

-------------------------------------------------------------------------------
(* The lines.                                                               *)

Reads == Fine(asm', refs', placed', again', late') /\ Follows(asm, asm')

LEMMA LineBegins ==
  ASSUME IInv, pc = "line", lines < MaxLines
  PROVE  /\ Fine(asm, refs, placed, again, late) /\ Sound(asm, refs, placed, again, late)
         /\ asm \in Asm /\ TableInv(asm) /\ SegmentInv(asm)
         /\ asm.dataPc \in 1..MaxAddr /\ asm.dataPc + ItemSize + 2 <= MaxAddr
         /\ TextPc(asm) \in 1..MaxAddr /\ Pc(asm) \in 1..MaxAddr /\ Equate \in 1..MaxAddr
         /\ Len(asm.insts) \in Nat /\ ItemSize \in Nat \ {0} /\ MaxAddr \in Nat
         /\ asm.dataPc + 1 <= MaxAddr
<1>1. Fine(asm, refs, placed, again, late) /\ Sound(asm, refs, placed, again, late)
  BY DEF IInv, ListHead, Fine, Sound, Lists
<1>2. asm \in Asm /\ TableInv(asm) /\ SegmentInv(asm)
  BY DEF IInv, Good
<1>3. asm.dataPc \in 1..MaxAddr
  BY <1>2, Sizes DEF SegmentInv, Asm
<1>4. asm.dataPc + ItemSize + 2 <= MaxAddr
  <2> DEFINE k == MaxLines - lines
  <2>1. k \in Nat \ {0} /\ ItemSize + 2 \in Nat /\ MaxAddr \in Nat
        /\ asm.dataPc + k * (ItemSize + 2) <= MaxAddr
    BY Sizes DEF IInv, RoomInv
  <2> HIDE DEF k
  <2>2. \A i \in Nat \ {0}, w \in Nat : w <= i * w
    OBVIOUS
  <2>3. ItemSize + 2 <= k * (ItemSize + 2) /\ k * (ItemSize + 2) \in Nat
    BY <2>1, <2>2
  <2> DEFINE m == k * (ItemSize + 2)
  <2> HIDE DEF m
  <2>4. ItemSize + 2 <= m /\ m \in Nat /\ asm.dataPc + m <= MaxAddr
    BY <2>1, <2>3 DEF m
  <2>5. QED BY <1>3, <2>4, Sizes
<1>5. TextPc(asm) \in 1..MaxAddr
  <2>1. Len(asm.insts) \in Nat /\ Len(asm.insts) <= MaxLines
    BY <1>2, Sizes DEF IInv, RoomInv, Asm
  <2>2. QED BY <2>1, Sizes DEF TextPc, WORD
<1>6. Pc(asm) \in 1..MaxAddr
  BY <1>3, <1>5 DEF Pc
<1>7. Equate \in 1..MaxAddr
  BY Sizes DEF Equate
<1>8. Len(asm.insts) \in Nat /\ ItemSize \in Nat \ {0} /\ MaxAddr \in Nat
  BY <1>2, Sizes DEF Asm
<1>9. asm.dataPc + 1 <= MaxAddr
  BY <1>3, <1>4, <1>8
<1>10. QED BY <1>1, <1>2, <1>3, <1>4, <1>5, <1>6, <1>7, <1>8, <1>9

(* Most lines end with clear_labels in a state s. *)
LEMMA LineReads ==
  ASSUME IInv, lines < MaxLines, NEW s, Sound(s, refs', placed', again', late'),
         asm' = Cleared(s), TableKept(asm, s), Len(s.insts) <= Len(asm.insts) + 1,
         s.dataPc <= asm.dataPc + ItemSize + 2
  PROVE  Reads
<1>1. /\ Fine(asm', refs', placed', again', late')
      /\ asm'.table = s.table /\ asm'.dataPc = s.dataPc /\ Len(asm'.insts) = Len(s.insts)
  BY LineOver
<1>2. QED BY <1>1 DEF Reads, Follows, TableKept

LEMMA AssignReads ==
  ASSUME IInv, NEW n \in Names, Assign(n)
  PROVE  Reads
<1> DEFINE s == Recorded(asm, n, Equate, TRUE)
<1>1. /\ pc = "line" /\ lines < MaxLines /\ asm' = Cleared(s)
      /\ refs' = refs /\ placed' = placed /\ late' = late
      /\ again' = again \cup {l \in {asm.table[n]} \ {0} : asm.labels[l].addr # 0}
  BY DEF Assign, Line, Again
<1>2. /\ Sound(asm, refs, placed, again, late) /\ Equate \in 1..MaxAddr
      /\ asm.dataPc \in 1..MaxAddr /\ Len(asm.insts) \in Nat
  BY <1>1, LineBegins
<1>3. Sound(asm, refs, placed, again', late) /\ Repeats(asm, n, again')
  <2>1. Sound(asm, refs, placed, again', late)
    BY <1>1, <1>2, ExcusedSound
  <2>2. QED BY <1>1, <2>1 DEF Repeats
<1>4. s = Recorded(asm, n, Equate, TRUE) /\ TRUE \in BOOLEAN
  OBVIOUS
<1> HIDE DEF s
<1>5. Sound(s, refs, placed, again', late)
  BY <1>2, <1>3, <1>4, RecordedSound
<1>6. TableKept(asm, s) /\ s.dataPc = asm.dataPc /\ Len(s.insts) = Len(asm.insts)
  <2>1. HasAddress(asm, n, s)
    BY <1>2, <1>4, RecordedKept
  <2>2. QED BY <2>1 DEF HasAddress
<1>7. Len(s.insts) <= Len(asm.insts) + 1 /\ s.dataPc <= asm.dataPc + ItemSize + 2
  BY <1>2, <1>6, Sizes
<1>8. QED BY <1>1, <1>5, <1>6, <1>7, LineReads

LEMMA ByteReads ==
  ASSUME IInv, Byte
  PROVE  Reads
<1> DEFINE s == StoredByte(asm, 1)
           N == IF asm.text THEN {} ELSE {<<l, asm.dataPc>> : l \in asm.line}
<1>1. /\ pc = "line" /\ lines < MaxLines /\ asm' = Cleared(s)
      /\ refs' = refs /\ placed' = placed \cup N /\ late' = late /\ again' = again
  BY DEF Byte, Line, Place
<1>2. /\ Sound(asm, refs, placed, again, late) /\ LineInv(asm, refs, again, late)
      /\ asm \in Asm /\ TableInv(asm) /\ SegmentInv(asm)
      /\ asm.dataPc \in 1..MaxAddr /\ asm.dataPc + 1 <= MaxAddr
  <2>1. Fine(asm, refs, placed, again, late) /\ LineInv(asm, refs, again, late)
    BY <1>1, LineBegins DEF Fine
  <2>2. QED BY <1>1, <2>1, LineBegins
<1>3. Grows(asm, s) /\ s.dataPc = asm.dataPc + 1
  <2>1. 1 \in Nat
    OBVIOUS
  <2>2. QED BY <1>2, <2>1, StoredByteIs
<1>4. Sound(s, refs, placed, again, late)
  BY <1>2, <1>3, GrownSound
<1>5. s.labels = asm.labels /\ s.table = asm.table /\ s.insts = asm.insts
  BY <1>3 DEF Grows
<1> HIDE DEF s
<1>6. /\ Fine(asm', refs, placed, again, late) /\ asm'.table = s.table /\ asm'.dataPc = s.dataPc
      /\ asm'.line = {} /\ Len(asm'.insts) = Len(s.insts)
      /\ \A k \in DOMAIN s.labels : k \in DOMAIN asm'.labels
                                    /\ asm'.labels[k].addr = s.labels[k].addr
  BY <1>1, <1>4, LineOver
<1>7. PlacedInv(asm', N, again, late)
  <2>1. ASSUME NEW l \in asm.line, ~ asm.text
        PROVE  /\ l \in DOMAIN asm'.labels /\ asm.dataPc # 0
               /\ MovedIn(l, again, late) \/ asm'.labels[l].addr = asm.dataPc
    BY <1>2, <1>5, <1>6, <2>1 DEF LineInv, Pc, TableInv
  <2>2. QED BY <1>6, <2>1 DEF PlacedInv
<1>8. Fine(asm', refs', placed', again', late')
  BY <1>1, <1>6, <1>7, PlacedFine
<1>9. Follows(asm, asm')
  BY <1>2, <1>3, <1>5, <1>6, Sizes DEF Follows, TableKept, Asm
<1>10. QED BY <1>8, <1>9 DEF Reads

LEMMA AlignReads ==
  ASSUME IInv, Align
  PROVE  Reads
<1> DEFINE s == AlignedData(asm)
<1>1. /\ pc = "line" /\ lines < MaxLines /\ asm' = Cleared(s)
      /\ refs' = refs /\ placed' = placed /\ late' = late /\ again' = again
  BY DEF Align, Line, ghosts
<1>2. /\ Fine(asm, refs, placed, again, late) /\ Len(asm.insts) \in Nat
      /\ asm.dataPc \in 1..MaxAddr /\ asm.dataPc + 1 <= MaxAddr /\ ItemSize \in Nat
  BY <1>1, LineBegins
<1>3. /\ Sound(s, refs, placed, again, late) /\ s.table = asm.table
      /\ Len(s.insts) = Len(asm.insts) /\ s.dataPc \in {asm.dataPc, asm.dataPc + 1}
  BY <1>2, AlignedSound
<1> HIDE DEF s
<1>4. /\ TableKept(asm, s) /\ Len(s.insts) <= Len(asm.insts) + 1
      /\ s.dataPc <= asm.dataPc + ItemSize + 2
  <2>1. TableKept(asm, s)
    BY <1>3 DEF TableKept
  <2>2. \A d \in {asm.dataPc, asm.dataPc + 1} : d <= asm.dataPc + ItemSize + 2
    BY <1>2
  <2>3. QED BY <1>2, <1>3, <2>1, <2>2
<1>5. QED BY <1>1, <1>3, <1>4, LineReads

LEMMA AlignOffReads ==
  ASSUME IInv, AlignOff
  PROVE  Reads
<1> DEFINE s == [asm EXCEPT !.auto = FALSE]
<1>1. /\ pc = "line" /\ lines < MaxLines /\ asm' = Cleared(s)
      /\ refs' = refs /\ placed' = placed /\ late' = late /\ again' = again
  BY DEF AlignOff, Line, ghosts
<1>2. /\ Sound(asm, refs, placed, again, late) /\ asm \in Asm /\ TableInv(asm) /\ SegmentInv(asm)
      /\ Len(asm.insts) \in Nat /\ asm.dataPc \in 1..MaxAddr
  BY <1>1, LineBegins
<1>3. Settings(asm, s) /\ s.table = asm.table /\ s.locals = asm.locals
  BY <1>2 DEF Settings, Asm, TableInv, SegmentInv
<1>4. Sound(s, refs, placed, again, late) /\ s.dataPc = asm.dataPc /\ s.insts = asm.insts
      /\ Len(s.insts) = Len(asm.insts)
  BY <1>2, <1>3, SettingsSound DEF Settings
<1> HIDE DEF s
<1>5. /\ TableKept(asm, s) /\ Len(s.insts) <= Len(asm.insts) + 1
      /\ s.dataPc <= asm.dataPc + ItemSize + 2
  BY <1>2, <1>3, <1>4, Sizes DEF TableKept
<1>6. QED BY <1>1, <1>4, <1>5, LineReads

LEMMA SpaceReads ==
  ASSUME IInv, Space
  PROVE  Reads
<1> DEFINE s == Incremented(asm, 1)
<1>1. /\ pc = "line" /\ lines < MaxLines /\ asm' = Cleared(s)
      /\ refs' = refs /\ placed' = placed /\ late' = late /\ again' = again
  BY DEF Space, Line, ghosts
<1>2. /\ Sound(asm, refs, placed, again, late) /\ asm \in Asm /\ SegmentInv(asm)
      /\ Len(asm.insts) \in Nat /\ asm.dataPc \in 1..MaxAddr /\ asm.dataPc + 1 <= MaxAddr
  BY <1>1, LineBegins, Sizes
<1>3. Grows(asm, s) /\ s.dataPc = asm.dataPc + 1
  <2>1. 1 \in Nat
    OBVIOUS
  <2>2. QED BY <1>2, <2>1, IncrementedIs
<1>4. Sound(s, refs, placed, again, late) /\ s.table = asm.table /\ s.insts = asm.insts
  BY <1>2, <1>3, GrownSound DEF Grows
<1> HIDE DEF s
<1>5. /\ TableKept(asm, s) /\ Len(s.insts) <= Len(asm.insts) + 1
      /\ s.dataPc <= asm.dataPc + ItemSize + 2
  BY <1>2, <1>3, <1>4, Sizes DEF TableKept
<1>6. QED BY <1>1, <1>4, <1>5, LineReads

LEMMA SegmentReads ==
  ASSUME IInv, NEW text \in BOOLEAN, Segment(text)
  PROVE  Reads
<1> DEFINE s == [asm EXCEPT !.text = text, !.auto = TRUE]
<1>1. /\ pc = "line" /\ lines < MaxLines /\ asm' = Cleared(s)
      /\ refs' = refs /\ placed' = placed /\ late' = late /\ again' = again
  BY DEF Segment, Line, ghosts
<1>2. /\ Sound(asm, refs, placed, again, late) /\ asm \in Asm /\ TableInv(asm) /\ SegmentInv(asm)
      /\ Len(asm.insts) \in Nat /\ asm.dataPc \in 1..MaxAddr
  BY <1>1, LineBegins
<1>3. Settings(asm, s) /\ s.table = asm.table /\ s.locals = asm.locals
  BY <1>2 DEF Settings, Asm, TableInv, SegmentInv
<1>4. Sound(s, refs, placed, again, late) /\ s.dataPc = asm.dataPc /\ s.insts = asm.insts
      /\ Len(s.insts) = Len(asm.insts)
  BY <1>2, <1>3, SettingsSound DEF Settings
<1> HIDE DEF s
<1>5. /\ TableKept(asm, s) /\ Len(s.insts) <= Len(asm.insts) + 1
      /\ s.dataPc <= asm.dataPc + ItemSize + 2
  BY <1>2, <1>3, <1>4, Sizes DEF TableKept
<1>6. QED BY <1>1, <1>4, <1>5, LineReads

(* Label l has become b. *)
Relabelled(s, l, b, t) ==
  /\ t \in Asm /\ SameSegments(s, t) /\ t.table = s.table /\ t.locals = s.locals
  /\ t.line = s.line /\ Len(t.labels) = Len(s.labels) /\ DOMAIN t.labels = DOMAIN s.labels
  /\ t.labels[l] = b /\ \A k \in DOMAIN s.labels : k # l => t.labels[k] = s.labels[k]

LEMMA IsRelabelled ==
  ASSUME NEW s \in Asm, NEW l \in DOMAIN s.labels, NEW b \in LabelType,
         NEW t, t = [s EXCEPT !.labels[l] = b]
  PROVE  Relabelled(s, l, b, t)
  BY LabelChanged DEF Relabelled

(* A label gets attributes, which .extern and .lcomm give together with an  *)
(* address: of its own if it has none yet.                                  *)
LEMMA LabelSet ==
  ASSUME NEW s, NEW R, NEW P, NEW A, NEW L, Sound(s, R, P, A, L), NEW l \in DOMAIN s.labels,
         NEW b \in LabelType, b.name = s.labels[l].name, b.uses = s.labels[l].uses,
         b.next = s.labels[l].next,
         s.labels[l].gp => b.gp, s.labels[l].addr # 0 => b.addr # 0,
         s.labels[l].global => b.global, b.gp => b.addr # 0,
         \/ b.addr = s.labels[l].addr
         \/ MovedIn(l, A, L)
         \/ s.labels[l].addr = 0 /\ b.addr # 0 /\ s.labels[l].uses = {},
         b.addr # 0 => s.labels[l].addr # 0 \/ b.global,
         b.global => s.labels[l].global \/ s.labels[l].addr = 0 \/ <<"global", l>> \in L,
         NEW t, Relabelled(s, l, b, t)
  PROVE  Sound(t, R, P, A, L)
<1>1. s \in Asm /\ TableInv(s) /\ Good(s, R, P, A, L) /\ Lists(s, A, L)
  BY DEF Sound, Good
<1>2. /\ t \in Asm /\ SameSegments(s, t) /\ t.table = s.table /\ t.locals = s.locals
      /\ t.line = s.line /\ Len(t.labels) = Len(s.labels) /\ DOMAIN t.labels = DOMAIN s.labels
      /\ t.labels[l] = b /\ \A k \in DOMAIN s.labels : k # l => t.labels[k] = s.labels[k]
  BY DEF Relabelled
<1>3. /\ s.labels[l].next \in 0..Len(s.labels) /\ s.locals \in 0..Len(s.labels)
      /\ l \in s.line => s.labels[l].addr # 0
  BY <1>1 DEF TableInv
<1>4. Changes(s, l, t)
  BY <1>2, <1>3 DEF Changes
<1>5. Good(t, R, P, A, L)
  <2>1. \/ t.labels[l].addr = s.labels[l].addr /\ t.line = s.line
        \/ MovedIn(l, A, L)
        \/ /\ s.labels[l].addr = 0 /\ t.labels[l].addr # 0
           /\ l \in t.line \/ s.labels[l].uses = {}
    BY <1>2
  <2>2. QED BY <1>1, <1>4, <2>1, ChangedGood
<1>6. SameNext(s, t)
  BY <1>2 DEF SameNext
<1>7. ASSUME NEW k \in DOMAIN s.labels
      PROVE  /\ t.labels[k].addr # 0 => s.labels[k].addr # 0 \/ t.labels[k].global
             /\ t.labels[k].global =>
                  s.labels[k].global \/ s.labels[k].addr = 0 \/ <<"global", k>> \in L
  BY <1>2
<1>8. ListKept(s, t, L)
  BY <1>6, <1>7 DEF ListKept
<1>9. Lists(t, A, L)
  BY <1>1, <1>2, <1>8, KeptLists
<1>10. QED BY <1>5, <1>9 DEF Sound

LEMMA GloblReads ==
  ASSUME IInv, NEW n \in Names, Globl(n)
  PROVE  Reads
<1> DEFINE s == Looked(asm, n)
           l == s.table[n]
           b == [s.labels[l] EXCEPT !.global = TRUE]
           t == [s EXCEPT !.labels[l].global = TRUE]
<1>1. /\ pc = "line" /\ lines < MaxLines /\ asm' = Cleared(t)
      /\ refs' = refs /\ placed' = placed /\ again' = again
      /\ late' = late \cup {<<"global", k>> : k \in {j \in {l} : s.labels[j].addr # 0}}
  BY DEF Globl, Line
<1>2. /\ Sound(asm, refs, placed, again, late)
      /\ asm.dataPc \in 1..MaxAddr /\ Len(asm.insts) \in Nat
  BY <1>1, LineBegins
<1>3. /\ Sound(s, refs, placed, again, late) /\ SameSegments(asm, s) /\ TableKept(asm, s)
      /\ l \in DOMAIN s.labels
  BY <1>2, LookedSound
<1>4. late \subseteq late' /\ (s.labels[l].addr # 0 => <<"global", l>> \in late')
      /\ \A e \in late' \ late : e[1] # "stray"
  BY <1>1
<1> HIDE DEF s, l
<1>5. Sound(s, refs, placed, again, late')
  BY <1>3, <1>4, ExcusedSound
<1>6. s \in Asm /\ s.labels[l] \in LabelType /\ TableInv(s)
  BY <1>3, LabelFields DEF Sound, Good
<1>7. /\ b \in LabelType /\ b.name = s.labels[l].name /\ b.uses = s.labels[l].uses
      /\ b.next = s.labels[l].next /\ b.gp = s.labels[l].gp /\ b.addr = s.labels[l].addr
      /\ b.global
  BY <1>6 DEF LabelType
<1>8. t = [s EXCEPT !.labels[l] = b]
  OBVIOUS
<1>9. b.gp => b.addr # 0
  BY <1>3, <1>6, <1>7 DEF TableInv
<1> HIDE DEF b, t
<1>10. Sound(t, refs, placed, again, late') /\ SameSegments(s, t) /\ t.table = s.table
  <2>1. Relabelled(s, l, b, t)
    BY <1>3, <1>6, <1>7, <1>8, IsRelabelled
  <2>2. Sound(t, refs, placed, again, late')
    BY <1>3, <1>4, <1>5, <1>7, <1>9, <2>1, LabelSet
  <2>3. QED BY <2>1, <2>2 DEF Relabelled
<1>11. t.dataPc = asm.dataPc /\ t.insts = asm.insts /\ Len(t.insts) = Len(asm.insts)
  BY <1>3, <1>10 DEF SameSegments
<1>12. TableKept(asm, t) /\ Len(t.insts) <= Len(asm.insts) + 1
       /\ t.dataPc <= asm.dataPc + ItemSize + 2
  BY <1>2, <1>3, <1>10, <1>11, Sizes DEF TableKept
<1>13. QED BY <1>1, <1>10, <1>12, LineReads

LEMMA ExternReads ==
  ASSUME IInv, NEW n \in Names, Extern(n)
  PROVE  Reads
<1> DEFINE s == Looked(asm, n)
           l == s.table[n]
           b == [s.labels[l] EXCEPT !.global = TRUE]
           t == [s EXCEPT !.labels[l].global = TRUE]
           small == ~ s.labels[l].gp /\ GpRoom(s)
           c == [b EXCEPT !.gp = TRUE, !.addr = s.gpItem]
           q == [t EXCEPT !.labels[l] = c]
           y == [t EXCEPT !.labels[l] = [@ EXCEPT !.gp = TRUE, !.addr = s.gpItem],
                          !.gpItem = @ + ItemSize]
<1>1. /\ pc = "line" /\ lines < MaxLines /\ asm' = Cleared(IF small THEN y ELSE t)
      /\ refs' = refs /\ placed' = placed /\ again' = again
      /\ late' = late
           \cup {<<"global", k>> : k \in {j \in {l} : s.labels[j].addr # 0}}
           \cup {<<"extern", k>> : k \in {j \in {l} :
                    small /\ (s.labels[j].addr # 0 \/ s.labels[j].uses # {})}}
  BY DEF Extern, Line
<1>2. /\ Sound(asm, refs, placed, again, late)
      /\ asm.dataPc \in 1..MaxAddr /\ Len(asm.insts) \in Nat
  BY <1>1, LineBegins
<1>3. /\ Sound(s, refs, placed, again, late) /\ SameSegments(asm, s) /\ TableKept(asm, s)
      /\ l \in DOMAIN s.labels
  BY <1>2, LookedSound
<1>4. /\ late \subseteq late' /\ (s.labels[l].addr # 0 => <<"global", l>> \in late')
      /\ small /\ (s.labels[l].addr # 0 \/ s.labels[l].uses # {}) => <<"extern", l>> \in late'
      /\ \A e \in late' \ late : e[1] # "stray"
  <2> HIDE DEF s, l, small
  <2>1. QED BY <1>1
<1> HIDE DEF s, l
<1>5. Sound(s, refs, placed, again, late')
  BY <1>3, <1>4, ExcusedSound
<1>6. s \in Asm /\ s.labels[l] \in LabelType /\ TableInv(s) /\ SegmentInv(s)
  BY <1>3, LabelFields DEF Sound, Good
<1>7. /\ b \in LabelType /\ b.name = s.labels[l].name /\ b.uses = s.labels[l].uses
      /\ b.next = s.labels[l].next /\ b.gp = s.labels[l].gp /\ b.addr = s.labels[l].addr
      /\ b.global
  BY <1>6 DEF LabelType
<1>8. t = [s EXCEPT !.labels[l] = b]
  OBVIOUS
<1>9. b.gp => b.addr # 0
  BY <1>3, <1>6, <1>7 DEF TableInv
<1>10. /\ Sound(t, refs, placed, again, late') /\ t \in Asm /\ SameSegments(s, t)
       /\ t.table = s.table /\ t.locals = s.locals /\ t.labels[l] = b
  <2> HIDE DEF b, t
  <2>1. Relabelled(s, l, b, t)
    BY <1>3, <1>6, <1>7, <1>8, IsRelabelled
  <2>2. Sound(t, refs, placed, again, late')
    BY <1>3, <1>4, <1>5, <1>7, <1>9, <2>1, LabelSet
  <2>3. QED BY <2>1, <2>2 DEF Relabelled
<1>11. l \in DOMAIN t.labels /\ t.gpItem = s.gpItem
  <2>1. t.labels = [s.labels EXCEPT ![l] = b]
    BY <1>6, <1>8 DEF Asm
  <2> HIDE DEF t, b
  <2>2. QED BY <1>3, <1>10, <2>1 DEF SameSegments
<1>12. CASE ~ small
  <2>1. asm' = Cleared(t)
    BY <1>1, <1>12
  <2> HIDE DEF b, t
  <2>2. t.dataPc = asm.dataPc /\ t.insts = asm.insts /\ Len(t.insts) = Len(asm.insts)
    BY <1>3, <1>10 DEF SameSegments
  <2>3. TableKept(asm, t) /\ Len(t.insts) <= Len(asm.insts) + 1
        /\ t.dataPc <= asm.dataPc + ItemSize + 2
    BY <1>2, <1>3, <1>10, <2>2, Sizes DEF TableKept
  <2>4. QED BY <1>1, <1>10, <2>1, <2>3, LineReads
<1>13. CASE small
  <2>1. s.gpItem \in 1..MaxAddr /\ s.gpItem + ItemSize \in Nat /\ s.gpItem + ItemSize < DataBegin
        /\ DATA_BOT <= s.gpItem + ItemSize
    <3>1. s.gpItem \in Nat /\ DATA_BOT <= s.gpItem
      BY <1>6 DEF SegmentInv, Asm
    <3>2. s.gpItem + ItemSize < DataBegin
      BY <1>13 DEF GpRoom
    <3>3. QED BY <3>1, <3>2, Sizes
  <2>2. s.gpItem \in 0..MaxAddr /\ s.gpItem # 0
    BY <2>1
  <2>3. /\ c \in LabelType /\ c.name = b.name /\ c.uses = b.uses
        /\ c.next = b.next /\ c.gp /\ c.addr = s.gpItem
        /\ c.global = b.global
    <3> HIDE DEF b
    <3>1. QED BY <1>7, <2>2 DEF LabelType
  <2>4. \/ MovedIn(l, again, late')
        \/ b.addr = 0 /\ c.addr # 0 /\ b.uses = {}
    BY <1>4, <1>7, <1>13, <2>2, <2>3 DEF MovedIn
  <2>5. asm' = Cleared(y)
    BY <1>1, <1>13
  <2> HIDE DEF b, t, small
  <2>6. y = [q EXCEPT !.gpItem = s.gpItem + ItemSize] /\ q = [t EXCEPT !.labels[l] = c]
    BY <1>10, <1>11
  <2> HIDE DEF c, y, q
  <2>7. /\ Sound(q, refs, placed, again, late') /\ q \in Asm /\ SameSegments(t, q)
        /\ q.table = t.table /\ q.locals = t.locals
    <3>1. /\ c.name = t.labels[l].name /\ c.uses = t.labels[l].uses /\ c.next = t.labels[l].next
          /\ c.addr # 0 /\ t.labels[l].global
          /\ \/ MovedIn(l, again, late')
             \/ t.labels[l].addr = 0 /\ t.labels[l].uses = {}
      BY <1>7, <1>10, <2>2, <2>3, <2>4
    <3>2. c \in LabelType /\ c.gp /\ c.global
      BY <1>7, <2>3
    <3>3. /\ t.labels[l].gp => c.gp
          /\ t.labels[l].addr # 0 => c.addr # 0
          /\ t.labels[l].global => c.global
          /\ c.gp => c.addr # 0
          /\ \/ c.addr = t.labels[l].addr
             \/ MovedIn(l, again, late')
             \/ t.labels[l].addr = 0 /\ c.addr # 0 /\ t.labels[l].uses = {}
          /\ c.addr # 0 => t.labels[l].addr # 0 \/ c.global
          /\ c.global => t.labels[l].global \/ t.labels[l].addr = 0 \/ <<"global", l>> \in late'
      BY <3>1, <3>2
    <3>4. Relabelled(t, l, c, q)
      BY <1>10, <1>11, <2>6, <3>2, IsRelabelled
    <3>5. Sound(q, refs, placed, again, late')
      BY <1>10, <1>11, <3>1, <3>2, <3>3, <3>4, LabelSet
    <3>6. QED BY <3>4, <3>5 DEF Relabelled
  <2>8. q.locals \in 0..Len(q.labels)
    BY <2>7 DEF Sound, Good, TableInv
  <2>9. Settings(q, y) /\ y.table = q.table /\ y.locals = q.locals
    <3>1. /\ y \in Asm /\ y.table = q.table /\ y.locals = q.locals
          /\ y.labels = q.labels /\ y.line = q.line /\ y.insts = q.insts
          /\ y.dataPc = q.dataPc /\ y.dataTop = q.dataTop /\ y.data = q.data
          /\ y.gpItem = s.gpItem + ItemSize
      BY <2>1, <2>6, <2>7 DEF Asm
    <3>2. QED BY <2>1, <2>8, <3>1, Sizes DEF Settings
  <2>10. Sound(y, refs, placed, again, late')
    BY <2>7, <2>9, SettingsSound
  <2>11. y.dataPc = asm.dataPc /\ y.insts = asm.insts /\ Len(y.insts) = Len(asm.insts)
    BY <1>3, <1>10, <2>7, <2>9 DEF SameSegments, Settings
  <2>12. TableKept(asm, y) /\ Len(y.insts) <= Len(asm.insts) + 1
         /\ y.dataPc <= asm.dataPc + ItemSize + 2
    BY <1>2, <1>3, <1>10, <2>7, <2>9, <2>11, Sizes DEF TableKept
  <2>13. QED BY <1>1, <2>5, <2>10, <2>12, LineReads
<1>14. QED BY <1>12, <1>13

LEMMA CommReads ==
  ASSUME IInv, NEW n \in Names, Comm(n)
  PROVE  Reads
<1> DEFINE s == AlignedData(asm)
           t == Looked(s, n)
           r == Recorded(t, n, t.dataPc, TRUE)
           u == IF t.labels[t.table[n]].addr = 0 THEN r ELSE t
           x == Incremented(u, ItemSize)
<1>1. /\ pc = "line" /\ lines < MaxLines /\ asm' = Cleared(x)
      /\ refs' = refs /\ placed' = placed /\ late' = late /\ again' = again
  BY DEF Comm, Line, ghosts
<1>2. /\ Fine(asm, refs, placed, again, late) /\ asm.dataPc \in 1..MaxAddr
      /\ Len(asm.insts) \in Nat /\ asm.dataPc + ItemSize + 2 <= MaxAddr
      /\ ItemSize \in Nat \ {0} /\ MaxAddr \in Nat
  BY <1>1, LineBegins
<1>3. /\ asm.dataPc + 1 <= MaxAddr /\ asm.dataPc + 1 \in 1..MaxAddr
      /\ asm.dataPc + 1 + ItemSize <= MaxAddr /\ asm.dataPc + ItemSize <= MaxAddr
  BY <1>2
<1>4. /\ Sound(s, refs, placed, again, late) /\ s.table = asm.table
      /\ Len(s.insts) = Len(asm.insts) /\ s.dataPc \in {asm.dataPc, asm.dataPc + 1}
  BY <1>2, <1>3, AlignedSound
<1> HIDE DEF s
<1>5. /\ Sound(t, refs, placed, again, late) /\ SameSegments(s, t) /\ TableKept(s, t)
      /\ t.table[n] \in DOMAIN t.labels
  BY <1>4, LookedSound
<1>6. t.dataPc = s.dataPc /\ Len(t.insts) = Len(asm.insts) /\ t.dataPc \in 1..MaxAddr
      /\ TableKept(asm, t)
  BY <1>2, <1>3, <1>4, <1>5 DEF SameSegments, TableKept
<1> HIDE DEF t
<1>7. /\ Sound(u, refs, placed, again, late) /\ u.dataPc = s.dataPc
      /\ Len(u.insts) = Len(asm.insts) /\ TableKept(asm, u)
  <2>1. CASE t.labels[t.table[n]].addr = 0
    <3>1. r = Recorded(t, n, t.dataPc, TRUE) /\ TRUE \in BOOLEAN /\ u = r
      BY <2>1
    <3> HIDE DEF r, u
    <3>2. Repeats(t, n, again)
      BY <2>1 DEF Repeats
    <3>3. Sound(r, refs, placed, again, late)
      BY <1>5, <1>6, <3>1, <3>2, RecordedSound
    <3>4. HasAddress(t, n, r)
      BY <1>5, <1>6, <3>1, RecordedKept
    <3>5. r.dataPc = t.dataPc /\ Len(r.insts) = Len(t.insts) /\ TableKept(t, r)
      BY <3>4 DEF HasAddress
    <3>6. TableKept(asm, r)
      BY <1>6, <3>5 DEF TableKept
    <3>7. QED BY <1>6, <3>1, <3>3, <3>5, <3>6
  <2>2. CASE t.labels[t.table[n]].addr # 0
    BY <1>5, <1>6, <2>2
  <2>3. QED BY <2>1, <2>2
<1> HIDE DEF u
<1>8. u \in Asm /\ SegmentInv(u) /\ u.dataPc + ItemSize <= MaxAddr
  <2>1. u \in Asm /\ SegmentInv(u)
    BY <1>7 DEF Sound, Good
  <2>2. QED BY <1>3, <1>4, <1>7, <2>1
<1>9. Grows(u, x) /\ x.dataPc = u.dataPc + ItemSize
  BY <1>8, IncrementedIs, Sizes
<1> HIDE DEF x
<1>10. Sound(x, refs, placed, again, late) /\ x.table = u.table /\ x.insts = u.insts
       /\ Len(x.insts) = Len(u.insts)
  BY <1>7, <1>9, GrownSound DEF Grows
<1>11. TableKept(asm, x) /\ Len(x.insts) <= Len(asm.insts) + 1
       /\ x.dataPc <= asm.dataPc + ItemSize + 2
  <2>1. TableKept(asm, x)
    BY <1>7, <1>10 DEF TableKept
  <2>2. \A d \in {asm.dataPc, asm.dataPc + 1} : d + ItemSize <= asm.dataPc + ItemSize + 2
    BY <1>2
  <2>3. x.dataPc <= asm.dataPc + ItemSize + 2
    BY <1>4, <1>7, <1>9, <2>2
  <2>4. Len(x.insts) <= Len(asm.insts) + 1
    BY <1>2, <1>7, <1>10
  <2>5. QED BY <2>1, <2>3, <2>4
<1>12. QED BY <1>1, <1>10, <1>11, LineReads

LEMMA LcommReads ==
  ASSUME IInv, NEW n \in Names, Lcomm(n)
  PROVE  Reads
<1> DEFINE addr == IF GpRoom(asm) THEN asm.gpItem ELSE asm.dataPc
           s == Recorded(asm, n, addr, TRUE)
           l == s.table[n]
           b == [s.labels[l] EXCEPT !.gp = TRUE]
           q == [s EXCEPT !.labels[l] = b]
           y == [s EXCEPT !.labels[l].gp = TRUE, !.gpItem = @ + ItemSize]
           z == StoredZeros(s, ItemSize)
<1>1. /\ pc = "line" /\ lines < MaxLines /\ asm' = Cleared(IF GpRoom(asm) THEN y ELSE z)
      /\ refs' = refs /\ placed' = placed /\ late' = late
      /\ again' = again \cup {k \in {asm.table[n]} \ {0} : asm.labels[k].addr # 0}
  BY DEF Lcomm, Line, Again
<1>2. /\ Sound(asm, refs, placed, again, late) /\ asm \in Asm /\ SegmentInv(asm)
      /\ asm.dataPc \in 1..MaxAddr /\ Len(asm.insts) \in Nat
      /\ asm.dataPc + ItemSize + 2 <= MaxAddr /\ ItemSize \in Nat /\ MaxAddr \in Nat
  BY <1>1, LineBegins
<1>3. Sound(asm, refs, placed, again', late) /\ Repeats(asm, n, again')
  <2>1. Sound(asm, refs, placed, again', late)
    BY <1>1, <1>2, ExcusedSound
  <2>2. QED BY <1>1, <2>1 DEF Repeats
<1>4. asm.gpItem \in 1..MaxAddr /\ DATA_BOT <= asm.gpItem /\ asm.gpItem <= DataBegin
  <2>1. asm.gpItem \in Nat
    BY <1>2 DEF Asm
  <2>2. DATA_BOT <= asm.gpItem /\ asm.gpItem <= DataBegin
    BY <1>2 DEF SegmentInv
  <2>3. QED BY <2>1, <2>2, Sizes
<1>5. s = Recorded(asm, n, addr, TRUE) /\ TRUE \in BOOLEAN /\ addr \in 1..MaxAddr
  BY <1>2, <1>4
<1> HIDE DEF s, addr
<1>6. Sound(s, refs, placed, again', late)
  BY <1>3, <1>5, RecordedSound
<1>7. /\ TableKept(asm, s) /\ s.dataPc = asm.dataPc /\ Len(s.insts) = Len(asm.insts)
      /\ s.gpItem = asm.gpItem /\ l \in DOMAIN s.labels /\ s.labels[l].addr # 0
  <2>1. HasAddress(asm, n, s)
    BY <1>2, <1>5, RecordedKept
  <2>2. QED BY <2>1 DEF HasAddress
<1>8. s \in Asm /\ SegmentInv(s)
  BY <1>6 DEF Sound, Good
<1> HIDE DEF l
<1>9. CASE GpRoom(asm)
  <2>1. s.labels[l] \in LabelType
    BY <1>7, <1>8, LabelFields
  <2>2. /\ b \in LabelType /\ b.name = s.labels[l].name /\ b.uses = s.labels[l].uses
        /\ b.next = s.labels[l].next /\ b.gp /\ b.addr = s.labels[l].addr
        /\ b.global = s.labels[l].global
    BY <2>1 DEF LabelType
  <2>3. asm' = Cleared(y) /\ y = [q EXCEPT !.gpItem = s.gpItem + ItemSize]
    <3>1. y = [q EXCEPT !.gpItem = s.gpItem + ItemSize]
      BY <1>8 DEF Asm
    <3>2. QED BY <1>1, <1>9, <3>1
  <2> HIDE DEF b
  <2>4. q = [s EXCEPT !.labels[l] = b]
    OBVIOUS
  <2> HIDE DEF q, y
  <2>5. Relabelled(s, l, b, q)
    BY <1>7, <1>8, <2>2, <2>4, IsRelabelled
  <2>6. Sound(q, refs, placed, again', late)
    BY <1>6, <1>7, <2>2, <2>5, LabelSet
  <2>7. /\ q \in Asm /\ SameSegments(s, q) /\ q.table = s.table /\ q.locals = s.locals
    BY <2>5 DEF Relabelled
  <2>8. q.locals \in 0..Len(q.labels)
    BY <2>6 DEF Sound, Good, TableInv
  <2>9. s.gpItem + ItemSize \in Nat /\ DATA_BOT <= s.gpItem + ItemSize
        /\ s.gpItem + ItemSize <= DataBegin
    <3>1. asm.gpItem + ItemSize < DataBegin
      BY <1>9 DEF GpRoom
    <3>2. QED BY <1>4, <1>7, <3>1, Sizes
  <2>10. Settings(q, y) /\ y.table = q.table /\ y.locals = q.locals
    <3>1. /\ y \in Asm /\ y.table = q.table /\ y.locals = q.locals
          /\ y.labels = q.labels /\ y.line = q.line /\ y.insts = q.insts
          /\ y.dataPc = q.dataPc /\ y.dataTop = q.dataTop /\ y.data = q.data
          /\ y.gpItem = s.gpItem + ItemSize
      BY <2>3, <2>7, <2>9 DEF Asm
    <3>2. QED BY <2>8, <2>9, <3>1 DEF Settings
  <2>11. Sound(y, refs, placed, again', late)
    BY <2>6, <2>10, SettingsSound
  <2>12. y.dataPc = s.dataPc /\ y.insts = s.insts /\ Len(y.insts) = Len(s.insts)
    BY <2>7, <2>10 DEF SameSegments, Settings
  <2>13. TableKept(asm, y) /\ Len(y.insts) <= Len(asm.insts) + 1
         /\ y.dataPc <= asm.dataPc + ItemSize + 2
    BY <1>2, <1>7, <2>7, <2>10, <2>12, Sizes DEF TableKept
  <2>14. QED BY <1>1, <2>3, <2>11, <2>13, LineReads
<1>10. CASE ~ GpRoom(asm)
  <2>1. asm' = Cleared(z) /\ s.dataPc + ItemSize <= MaxAddr
    <3>1. asm' = Cleared(z)
      BY <1>1, <1>10
    <3>2. asm.dataPc + ItemSize <= MaxAddr
      BY <1>2
    <3>3. QED BY <1>7, <3>1, <3>2
  <2>2. Grows(s, z) /\ z.dataPc = s.dataPc + ItemSize
    BY <1>8, <2>1, StoredZerosIs, Sizes
  <2> HIDE DEF z
  <2>3. Sound(z, refs, placed, again', late) /\ z.table = s.table /\ z.insts = s.insts
        /\ Len(z.insts) = Len(s.insts)
    BY <1>6, <2>2, GrownSound DEF Grows
  <2>4. TableKept(asm, z) /\ Len(z.insts) <= Len(asm.insts) + 1
        /\ z.dataPc <= asm.dataPc + ItemSize + 2
    <3>1. TableKept(asm, z)
      BY <1>7, <2>3 DEF TableKept
    <3>2. Len(z.insts) <= Len(asm.insts) + 1
      BY <1>2, <1>7, <2>3
    <3>3. z.dataPc <= asm.dataPc + ItemSize + 2
      BY <1>2, <1>7, <2>2
    <3>4. QED BY <3>1, <3>2, <3>3
  <2>5. QED BY <1>1, <2>1, <2>3, <2>4, LineReads
<1>11. QED BY <1>9, <1>10

SameSizes(s, t) == t.dataPc = s.dataPc /\ Len(t.insts) = Len(s.insts)
Continues(s, t, R, P, A, L) == Fine(t, R, P, A, L) /\ TableKept(s, t) /\ SameSizes(s, t)

(* name:   The line has one more label; like the others it is where the     *)
(* next thing goes, and what was assembled for it before waits for it.      *)
LEMMA DefinedFine ==
  ASSUME NEW s, NEW R, NEW P, NEW A, NEW L, Fine(s, R, P, A, L), NEW n \in Names,
         Repeats(s, n, A), NEW addr \in 1..MaxAddr, addr = Pc(s),
         NEW q, q = Looked(s, n), NEW l, l = q.table[n], NEW resolve \in BOOLEAN, ~ resolve,
         NEW x, RecordedSteps(q, l, addr, resolve, x), NEW y, Joined(x, l, y)
  PROVE  Continues(s, y, R, P, A, L)
<1>1. s \in Asm /\ TableInv(s) /\ Good(s, R, P, A, L) /\ Lists(s, A, L) /\ LineInv(s, R, A, L)
      /\ Sound(s, R, P, A, L)
  BY DEF Fine, Sound, Good
<1>2. /\ Sound(q, R, P, A, L) /\ SameSegments(s, q) /\ TableKept(s, q) /\ q.line = s.line
      /\ l \in DOMAIN q.labels
      /\ \A k \in DOMAIN s.labels : k \in DOMAIN q.labels /\ q.labels[k] = s.labels[k]
  BY <1>1, LookedSound
<1>3. q \in Asm /\ TableInv(q) /\ Lists(q, A, L) /\ Good(q, R, P, A, L)
  BY <1>2 DEF Sound, Good
<1>4. q.labels[l].addr # 0 => l \in A
  BY <1>1, RepeatsLooked
<1>5. Good(y, R, P, A, L) /\ Defined(q, l, addr, A, x)
  BY <1>2, <1>3, <1>4, DefinedGood
<1>6. Lists(x, A, L)
  BY <1>2, <1>3, <1>4, RecordedLists
<1>7. /\ x.table = q.table /\ x.text = s.text /\ x.dataPc = s.dataPc
      /\ Len(x.insts) = Len(s.insts)
      /\ \/ x.line = {} /\ l \in A
         \/ x.line = q.line /\ \A k \in DOMAIN q.labels : x.labels[k].uses = q.labels[k].uses
      /\ l \in A \/ x.labels[l].addr = addr
      /\ \A k \in q.line : k # l => x.labels[k].addr = q.labels[k].addr
  BY <1>2, <1>5 DEF Defined, SameSegments
<1>8. /\ y.text = s.text /\ y.dataPc = s.dataPc /\ Len(y.insts) = Len(s.insts)
      /\ y.table = x.table /\ y.locals = x.locals /\ y.labels = x.labels
      /\ y.line = x.line \cup {l}
  BY <1>7 DEF Joined, SameSegments
<1>9. Pc(y) = Pc(s)
  BY <1>8 DEF Pc, TextPc
<1>10. \A k \in s.line : k \in DOMAIN s.labels
  BY <1>1 DEF TableInv
<1>11. ASSUME NEW k \in y.line PROVE MovedIn(k, A, L) \/ y.labels[k].addr = Pc(y)
  <2>1. CASE k = l
    BY <1>7, <1>8, <1>9, <2>1 DEF MovedIn
  <2>2. CASE k # l
    <3>1. k \in s.line
      BY <1>2, <1>7, <1>8, <1>11, <2>2
    <3>2. MovedIn(k, A, L) \/ s.labels[k].addr = Pc(s)
      BY <1>1, <3>1 DEF LineInv
    <3>3. y.labels[k].addr = s.labels[k].addr
      BY <1>2, <1>7, <1>8, <1>10, <2>2, <3>1
    <3>4. QED BY <1>9, <3>2, <3>3
  <2>3. QED BY <2>1, <2>2
<1>12. ASSUME NEW r \in R, r[3] \in y.line, r[3] \notin A
       PROVE  MovedIn(r[3], A, L) \/ StrayedIn(r, L) \/ Pending(y, r)
  <2>1. x.line = q.line /\ \A k \in DOMAIN q.labels : x.labels[k].uses = q.labels[k].uses
    BY <1>7, <1>8, <1>12
  <2>2. r[3] \in DOMAIN q.labels /\ ValueInv(q, r, A, L)
    BY <1>3 DEF Good, RefInv
  <2>3. Pending(q, r) => Pending(y, r)
    BY <1>8, <2>1, <2>2 DEF Pending
  <2>4. CASE r[3] = l
    <3>1. q.labels[l].addr = 0
      BY <1>4, <1>12, <2>4
    <3>2. QED BY <2>2, <2>3, <2>4, <3>1 DEF ValueInv
  <2>5. CASE r[3] # l
    <3>1. r[3] \in s.line /\ r[3] \in DOMAIN s.labels
      BY <1>2, <1>8, <1>10, <1>12, <2>1, <2>5
    <3>2. MovedIn(r[3], A, L) \/ StrayedIn(r, L) \/ Pending(s, r)
      BY <1>1, <3>1 DEF LineInv
    <3>3. Pending(s, r) => Pending(q, r)
      BY <1>2, <3>1 DEF Pending
    <3>4. QED BY <2>3, <3>2, <3>3
  <2>6. QED BY <2>4, <2>5
<1>13. LineInv(y, R, A, L)
  <2>1. \A k \in y.line : MovedIn(k, A, L) \/ y.labels[k].addr = Pc(y)
    BY <1>11
  <2>2. \A r \in R : r[3] \in y.line =>
          MovedIn(r[3], A, L) \/ StrayedIn(r, L) \/ Pending(y, r)
    BY <1>12 DEF MovedIn
  <2>3. QED BY <2>1, <2>2 DEF LineInv
<1>14. Lists(y, A, L)
  <2>1. ListInv(y, x.locals, L, TRUE)
    BY <1>6, <1>8 DEF Lists, ListInv
  <2>2. ListEnds(y, A)
    BY <1>6, <1>8 DEF Lists, ListEnds
  <2>3. QED BY <1>8, <2>1, <2>2 DEF Lists
<1>15. TableKept(s, y) /\ SameSizes(s, y)
  BY <1>2, <1>7, <1>8 DEF TableKept, SameSizes
<1>16. QED BY <1>5, <1>13, <1>14, <1>15 DEF Continues, Fine, Sound

LEMMA DefineReads ==
  ASSUME IInv, NEW n \in Names, Define(n)
  PROVE  Reads
<1> DEFINE addr == Pc(asm)
           q == Looked(asm, n)
           l == q.table[n]
           x == Recorded(asm, n, addr, FALSE)
<1>1. /\ pc = "line" /\ lines < MaxLines /\ asm' = [x EXCEPT !.line = @ \cup {x.table[n]}]
      /\ refs' = refs /\ placed' = placed /\ late' = late
      /\ again' = again \cup {k \in {asm.table[n]} \ {0} : asm.labels[k].addr # 0}
  BY DEF Define, Line, Again
<1>2. /\ Fine(asm, refs, placed, again, late) /\ Pc(asm) \in 1..MaxAddr
      /\ asm.dataPc \in 1..MaxAddr /\ Len(asm.insts) \in Nat /\ asm \in Asm /\ TableInv(asm)
  BY <1>1, LineBegins
<1>3. Fine(asm, refs, placed, again', late) /\ Repeats(asm, n, again')
  <2>1. Sound(asm, refs, placed, again', late)
    BY <1>1, <1>2, ExcusedSound DEF Fine
  <2>2. LineInv(asm, refs, again', late)
    BY <1>1, <1>2, LineExcused DEF Fine
  <2>3. QED BY <1>1, <2>1, <2>2 DEF Repeats, Fine
<1>4. addr = Pc(asm) /\ q = Looked(asm, n) /\ l = q.table[n] /\ x = Recorded(asm, n, addr, FALSE)
      /\ FALSE \in BOOLEAN /\ addr \in 1..MaxAddr /\ addr \in 0..MaxAddr
  BY <1>2
<1> HIDE DEF addr, q, l, x
<1>5. PICK resolve \in BOOLEAN : ~ resolve /\ RecordedSteps(q, l, addr, resolve, x)
  <2>1. RecordedSteps(q, l, addr, FALSE, x)
    BY <1>2, <1>4, RecordedIs
  <2>2. QED BY <2>1
<1>6. q \in Asm /\ l \in DOMAIN q.labels /\ TableInv(q) /\ l \in Nat
  <2>1. Good(asm, refs, placed, again', late)
    BY <1>3 DEF Fine, Sound
  <2>2. Good(q, refs, placed, again', late)
    BY <1>4, <2>1, LookedGood
  <2>3. q \in Asm /\ l \in DOMAIN q.labels /\ TableInv(q)
    BY <1>2, <1>4, <2>2, LookedIs DEF Good
  <2>4. QED BY <2>3 DEF Asm
<1>7. x \in Asm /\ x.table = q.table
  <2>1. CASE Refused(q, l) /\ x = Cleared(q)
    BY <1>6, <2>1, ClearedIs DEF Resolves
  <2>2. ASSUME NEW u, AddressSet(q, l, addr, u), Listed(u, l, x) PROVE <1>7
    BY <2>2 DEF AddressSet, Alike, Listed
  <2>3. QED BY <1>5, <2>1, <2>2 DEF RecordedSteps
<1>8. Joined(x, l, asm')
  <2>1. asm' = [x EXCEPT !.line = @ \cup {l}]
    BY <1>1, <1>4, <1>7
  <2>2. x.line \cup {l} \in SUBSET Nat
    BY <1>6, <1>7 DEF Asm
  <2>3. QED BY <1>7, <2>1, <2>2 DEF Joined, Asm, SameSegments
<1>9. Fine(asm', refs, placed, again', late) /\ TableKept(asm, asm') /\ SameSizes(asm, asm')
  <2> DEFINE y == asm'
             B == again'
  <2>1. Fine(asm, refs, placed, B, late) /\ Repeats(asm, n, B) /\ Joined(x, l, y)
    BY <1>3, <1>8
  <2> HIDE DEF y, B
  <2>2. Continues(asm, y, refs, placed, B, late)
    BY <1>4, <1>5, <2>1, DefinedFine
  <2>3. QED BY <2>2 DEF Continues, y, B
<1>10. asm'.dataPc <= asm.dataPc + ItemSize + 2 /\ Len(asm'.insts) <= Len(asm.insts) + 1
  BY <1>2, <1>9, Sizes DEF SameSizes
<1>11. QED BY <1>1, <1>9, <1>10 DEF Reads, Follows

(* Lines that assemble something behind their labels.                       *)
LEMMA PlacedReads ==
  ASSUME IInv, lines < MaxLines, NEW s, Sound(s, refs', placed, again', late'),
         asm' = Cleared(s), TableKept(asm, s), Len(s.insts) <= Len(asm.insts) + 1,
         s.dataPc <= asm.dataPc + ItemSize + 2, NEW addr \in Nat \ {0},
         placed' = placed \cup {<<l, addr>> : l \in asm.line},
         \A l \in asm.line : l \in DOMAIN s.labels
                             /\ (MovedIn(l, again', late') \/ s.labels[l].addr = addr)
  PROVE  Reads
<1> DEFINE N == {<<l, addr>> : l \in asm.line}
<1>1. /\ Fine(asm', refs', placed, again', late') /\ asm'.table = s.table
      /\ asm'.dataPc = s.dataPc /\ Len(asm'.insts) = Len(s.insts) /\ asm'.line = {}
      /\ \A k \in DOMAIN s.labels : k \in DOMAIN asm'.labels
                                    /\ asm'.labels[k].addr = s.labels[k].addr
  BY LineOver
<1>2. PlacedInv(asm', N, again', late')
  <2>1. ASSUME NEW l \in asm.line
        PROVE  /\ l \in DOMAIN asm'.labels
               /\ MovedIn(l, again', late') \/ asm'.labels[l].addr = addr
    BY <1>1
  <2>2. QED BY <1>1, <2>1 DEF PlacedInv
<1>3. Fine(asm', refs', placed', again', late')
  BY <1>1, <1>2, PlacedFine
<1>4. Follows(asm, asm')
  BY <1>1 DEF Follows, TableKept
<1>5. QED BY <1>3, <1>4 DEF Reads

(* A label whose address is not known yet gets a use, which is noted before *)
(* something is assembled; it may as well be noted afterwards.              *)
LEMMA GrowsBefore ==
  ASSUME NEW s \in Asm, NEW l, NEW u, NEW t, Waits(s, l, u, t), NEW x, Grows(t, x),
         NEW w, w = [x EXCEPT !.labels = s.labels]
  PROVE  Grows(s, w) /\ Waits(w, l, u, x) /\ w.dataPc = x.dataPc
<1>1. s.labels \in Seq(LabelType) /\ x \in Asm /\ SegmentInv(x)
  BY DEF Asm, Grows
<1>2. /\ w \in Asm /\ SameSegments(x, w) /\ w.table = x.table /\ w.labels = s.labels
      /\ w.locals = x.locals /\ w.line = x.line
  BY <1>1 DEF Asm, SameSegments
<1>3. SegmentInv(w)
  BY <1>1, <1>2 DEF SegmentInv, SameSegments
<1>4. Grows(s, w)
  BY <1>2, <1>3 DEF Grows, Waits, SameSegments
<1>5. SameSegments(w, x) /\ x.labels = t.labels
  BY <1>2 DEF SameSegments, Grows
<1>6. Waits(w, l, u, x)
  BY <1>1, <1>2, <1>5 DEF Waits
<1>7. QED BY <1>2, <1>4, <1>6 DEF SameSegments

LEMMA AppendsBefore ==
  ASSUME NEW s \in Asm, NEW l, NEW u, NEW t, Waits(s, l, u, t), NEW i, NEW x, Appends(t, i, x),
         NEW w, w = [x EXCEPT !.labels = s.labels]
  PROVE  Appends(s, i, w) /\ Waits(w, l, u, x)
<1>1. s.labels \in Seq(LabelType) /\ x \in Asm
  BY DEF Asm, Appends
<1>2. /\ w \in Asm /\ SameSegments(x, w) /\ w.table = x.table /\ w.labels = s.labels
      /\ w.locals = x.locals /\ w.line = x.line
  BY <1>1 DEF Asm, SameSegments
<1>3. Appends(s, i, w)
  BY <1>2 DEF Appends, Waits, SameSegments
<1>4. SameSegments(w, x) /\ x.labels = t.labels
  BY <1>2 DEF SameSegments, Appends
<1>5. Waits(w, l, u, x)
  BY <1>1, <1>2, <1>4 DEF Waits
<1>6. QED BY <1>3, <1>5

(* j name *)
LEMMA JumpSound ==
  ASSUME NEW s, NEW R, NEW P, NEW A, NEW L, Sound(s, R, P, A, L), NEW l \in DOMAIN s.labels,
         NEW addr, addr = s.labels[l].addr, NEW k, k = Len(s.insts) + 1,
         NEW t, IF addr # 0 THEN t = s ELSE Waits(s, l, <<"text", k>>, t),
         NEW x, Appends(t, addr, x)
  PROVE  Sound(x, R \cup {<<"text", k, l>>}, P, A, L)
<1> DEFINE u == <<"text", k>>
           r == <<"text", k, l>>
           w == IF addr # 0 THEN x ELSE [x EXCEPT !.labels = s.labels]
<1>1. s \in Asm /\ UsesInv(s, L) /\ Lists(s, A, L) /\ TableInv(s)
      /\ \A o \in R : RefInv(s, o, L)
  BY DEF Sound, Good
<1>2. Appends(s, addr, w) /\ (addr # 0 => x = w) /\ (addr = 0 => Waits(w, l, u, x))
  <2>1. CASE addr # 0
    BY <2>1
  <2>2. CASE addr = 0
    BY <1>1, <2>2, AppendsBefore
  <2>3. QED BY <2>1, <2>2
<1>3. Sound(w, R, P, A, L) /\ w \in Asm /\ TableInv(w) /\ Lists(w, A, L)
  <2>1. Sound(w, R, P, A, L)
    BY <1>2, AppendedSound
  <2>2. QED BY <2>1 DEF Sound, Good
<1>4. /\ w.labels = s.labels /\ k \in DOMAIN w.insts /\ k \notin DOMAIN s.insts
      /\ w.insts[k] = addr /\ k \in Nat
  BY <1>2 DEF Appends
<1>5. u \in Places /\ u[1] = "text" /\ u[2] = k
  BY <1>4 DEF Places
<1>6. r[1] = "text" /\ r[2] = k /\ r[3] = l
  OBVIOUS
<1> HIDE DEF u, w, r
<1>7. ASSUME NEW o \in R, o[1] = "text" PROVE o[2] # k
  BY <1>1, <1>4, <1>7 DEF RefInv
<1>8. Good(x, R, P, A, L) /\ Lists(x, A, L)
  <2>1. CASE addr # 0
    BY <1>2, <1>3, <2>1 DEF Sound
  <2>2. CASE addr = 0
    <3>1. Waits(w, l, u, x) /\ Good(w, R, P, A, L)
      BY <1>2, <1>3, <2>2 DEF Sound
    <3>2. Good(x, R, P, A, L)
      BY <1>4, <1>5, <1>7, <3>1, WaitsGood
    <3>3. Lists(x, A, L)
      BY <1>3, <3>1, WaitsLists
    <3>4. QED BY <3>2, <3>3
  <2>3. QED BY <2>1, <2>2
<1>9. /\ x.insts = w.insts /\ DOMAIN x.labels = DOMAIN s.labels
      /\ x.labels[l].addr = addr /\ (addr = 0 => u \in x.labels[l].uses)
      /\ \A j \in DOMAIN s.labels : j # l => x.labels[j].uses = s.labels[j].uses
  <2>1. CASE addr # 0
    BY <1>2, <1>4, <2>1
  <2>2. CASE addr = 0
    <3>1. /\ x.insts = w.insts /\ DOMAIN x.labels = DOMAIN w.labels /\ l \in DOMAIN w.labels
          /\ x.labels[l].uses = w.labels[l].uses \cup {u}
          /\ \A j \in DOMAIN w.labels :
               /\ x.labels[j].addr = w.labels[j].addr
               /\ j # l => x.labels[j].uses = w.labels[j].uses
      BY <1>2, <2>2 DEF Waits, SameSegments
    <3>2. QED BY <1>4, <3>1
  <2>3. QED BY <2>1, <2>2
<1>10. ASSUME NEW j \in DOMAIN x.labels, <<"text", k>> \in x.labels[j].uses, j # l PROVE FALSE
  <2>1. <<"text", k>> \in s.labels[j].uses /\ j \in DOMAIN s.labels
    BY <1>9, <1>10
  <2>2. <<"text", k>>[1] # "data" /\ <<"text", k>>[2] = k
    OBVIOUS
  <2>3. QED BY <1>1, <1>4, <2>1, <2>2 DEF UsesInv
<1>11. RefInv(x, r, L)
  BY <1>4, <1>6, <1>9, <1>10 DEF RefInv
<1>12. ValueInv(x, r, A, L)
  <2>1. CASE addr # 0
    BY <1>4, <1>6, <1>9, <2>1 DEF ValueInv, ValueAt
  <2>2. CASE addr = 0
    <3>1. Pending(x, r)
      BY <1>6, <1>9, <2>2 DEF Pending, u
    <3>2. QED BY <1>6, <1>9, <2>2, <3>1 DEF ValueInv
  <2>3. QED BY <2>1, <2>2
<1>13. Good(x, R \cup {r}, P, A, L)
  <2>1. \A o \in {r} : RefInv(x, o, L) /\ ValueInv(x, o, A, L)
    BY <1>11, <1>12
  <2>2. QED BY <1>8, <2>1, MoreAssembled
<1>14. QED BY <1>8, <1>13 DEF Sound, r

LEMMA JumpReads ==
  ASSUME IInv, NEW n \in Names, Jump(n)
  PROVE  Reads
<1> DEFINE s == Looked(asm, n)
           l == s.table[n]
           addr == s.labels[l].addr
           k == Len(s.insts) + 1
           t == IF addr # 0 THEN s ELSE [s EXCEPT !.labels[l].uses = @ \cup {<<"text", k>>}]
           x == [t EXCEPT !.insts = Append(@, addr)]
<1>1. /\ pc = "line" /\ lines < MaxLines /\ asm' = Cleared(x) /\ asm.text
      /\ refs' = refs \cup {<<"text", k, l>>} /\ again' = again /\ late' = late
      /\ placed' = placed \cup {<<j, TextPc(asm)>> : j \in asm.line}
  BY DEF Jump, Line, Place
<1>2. /\ Sound(asm, refs, placed, again, late) /\ LineInv(asm, refs, again, late)
      /\ asm \in Asm /\ TableInv(asm) /\ TextPc(asm) \in 1..MaxAddr
      /\ asm.dataPc \in 1..MaxAddr /\ Len(asm.insts) \in Nat
  BY <1>1, LineBegins DEF Fine
<1>3. /\ Sound(s, refs, placed, again, late) /\ SameSegments(asm, s) /\ TableKept(asm, s)
      /\ l \in DOMAIN s.labels
      /\ \A j \in DOMAIN asm.labels : j \in DOMAIN s.labels /\ s.labels[j] = asm.labels[j]
  BY <1>2, LookedSound
<1> HIDE DEF s, l
<1>4. s \in Asm /\ addr \in 0..MaxAddr
  BY <1>3, LabelFields DEF Sound, Good
<1> HIDE DEF addr
<1>5. s.insts = asm.insts /\ s.dataPc = asm.dataPc /\ k = Len(s.insts) + 1 /\ k \in Nat
  BY <1>2, <1>3 DEF SameSegments
<1> HIDE DEF k
<1>6. IF addr # 0 THEN t = s ELSE Waits(s, l, <<"text", k>>, t)
  <2>1. <<"text", k>> \in Places
    BY <1>5 DEF Places
  <2>2. CASE addr # 0
    BY <2>2
  <2>3. CASE addr = 0
    <3>1. t = [s EXCEPT !.labels[l].uses = @ \cup {<<"text", k>>}]
      BY <2>3
    <3>2. QED BY <1>3, <1>4, <2>1, <2>3, <3>1, UseAdded
  <2>4. QED BY <2>2, <2>3
<1>7. t \in Asm
  BY <1>4, <1>6 DEF Waits
<1>8. x = [t EXCEPT !.insts = Append(@, addr)]
  OBVIOUS
<1> HIDE DEF t, x
<1>9. Appends(t, addr, x)
  BY <1>4, <1>7, <1>8, AppendedIs
<1>10. Sound(x, refs', placed, again, late)
  <2>1. addr = s.labels[l].addr
    BY DEF addr
  <2>2. QED BY <1>1, <1>3, <1>5, <1>6, <1>9, <2>1, JumpSound
<1>11. /\ x.table = s.table /\ x.dataPc = s.dataPc /\ Len(x.insts) = Len(s.insts) + 1
       /\ DOMAIN x.labels = DOMAIN s.labels
       /\ \A j \in DOMAIN s.labels : x.labels[j].addr = s.labels[j].addr
  BY <1>6, <1>9 DEF Appends, Waits, SameSegments
<1>12. ASSUME NEW j \in asm.line
       PROVE  j \in DOMAIN x.labels /\ (MovedIn(j, again, late) \/ x.labels[j].addr = TextPc(asm))
  BY <1>1, <1>2, <1>3, <1>11 DEF LineInv, Pc, TableInv
<1>13. /\ TableKept(asm, x) /\ Len(x.insts) <= Len(asm.insts) + 1
       /\ x.dataPc <= asm.dataPc + ItemSize + 2 /\ TextPc(asm) \in Nat \ {0}
  BY <1>2, <1>3, <1>5, <1>11, Sizes DEF TableKept
<1>14. QED BY <1>1, <1>10, <1>12, <1>13, PlacedReads

(* .word name   In the data segment. *)
WordStored(s, l, t, x) ==
  /\ IF s.labels[l].addr # 0 THEN t = s ELSE Waits(s, l, <<"data", s.dataPc>>, t)
  /\ Grows(t, x) /\ x.dataPc = s.dataPc + 2
  /\ s.dataPc < s.dataTop => WordAt(x, s.dataPc) = s.labels[l].addr
WordNoted(s, l, N) ==
  /\ N \subseteq {<<"data", s.dataPc, l>>}
  /\ N # {} => IF s.labels[l].addr # 0 THEN s.dataPc < s.dataTop ELSE Aligned(s.dataPc)

LEMMA WordSound ==
  ASSUME NEW s, NEW R, NEW P, NEW A, NEW L, Sound(s, R, P, A, L), NEW l \in DOMAIN s.labels,
         NEW t, NEW x, WordStored(s, l, t, x), NEW N, WordNoted(s, l, N)
  PROVE  Sound(x, R \cup N, P, A, L)
<1> DEFINE addr == s.labels[l].addr
           a == s.dataPc
           u == <<"data", a>>
           r == <<"data", a, l>>
           w == IF addr # 0 THEN x ELSE [x EXCEPT !.labels = s.labels]
<1>1. s \in Asm /\ UsesInv(s, L) /\ Lists(s, A, L) /\ TableInv(s) /\ SegmentInv(s)
      /\ \A o \in R : RefInv(s, o, L)
  BY DEF Sound, Good
<1>1a. /\ IF addr # 0 THEN t = s ELSE Waits(s, l, u, t)
       /\ Grows(t, x) /\ x.dataPc = a + 2 /\ (a < s.dataTop => WordAt(x, a) = addr)
       /\ N \subseteq {r}
       /\ N # {} => IF addr # 0 THEN a < s.dataTop ELSE Aligned(a)
  BY DEF WordStored, WordNoted
<1>1b. addr = s.labels[l].addr /\ a = s.dataPc
  OBVIOUS
<1> HIDE DEF addr, a
<1>2. Grows(s, w) /\ w.dataPc = x.dataPc /\ (addr # 0 => x = w) /\ (addr = 0 => Waits(w, l, u, x))
  <2>1. CASE addr # 0
    BY <1>1a, <2>1
  <2>2. CASE addr = 0
    BY <1>1, <1>1a, <2>2, GrowsBefore
  <2>3. QED BY <2>1, <2>2
<1>3. Sound(w, R, P, A, L) /\ w \in Asm /\ TableInv(w) /\ Lists(w, A, L)
  <2>1. Sound(w, R, P, A, L)
    BY <1>2, GrownSound
  <2>2. QED BY <2>1 DEF Sound, Good
<1>4. w.labels = s.labels /\ a \in Nat /\ DataBegin <= a
  BY <1>1, <1>1b, <1>2 DEF Grows, SegmentInv, Asm
<1>5. u \in Places /\ u[1] = "data" /\ u[2] = a
  BY <1>4 DEF Places
<1>6. r[1] = "data" /\ r[2] = a /\ r[3] = l
  OBVIOUS
<1> HIDE DEF u, w, r
<1>7. ASSUME NEW o \in R, o[1] = "data" PROVE o[2] + 2 <= a
  BY <1>1, <1>1b, <1>7 DEF RefInv, WORD
<1>8. Good(x, R, P, A, L) /\ Lists(x, A, L)
  <2>1. CASE addr # 0
    BY <1>2, <1>3, <2>1 DEF Sound
  <2>2. CASE addr = 0
    <3>1. Waits(w, l, u, x) /\ Good(w, R, P, A, L)
      BY <1>2, <1>3, <2>2 DEF Sound
    <3>2. u[2] + 2 <= w.dataPc
      BY <1>1a, <1>2, <1>4, <1>5
    <3>3. Good(x, R, P, A, L)
      BY <1>5, <1>7, <3>1, <3>2, WaitsGood
    <3>4. Lists(x, A, L)
      BY <1>3, <3>1, WaitsLists
    <3>5. QED BY <3>3, <3>4
  <2>3. QED BY <2>1, <2>2
<1>9. /\ DOMAIN x.labels = DOMAIN s.labels
      /\ x.labels[l].addr = addr /\ (addr = 0 => u \in x.labels[l].uses)
      /\ \A j \in DOMAIN s.labels : \A v \in x.labels[j].uses :
           v \in s.labels[j].uses \/ (j = l /\ v = u)
  <2>1. CASE addr # 0
    BY <1>1b, <1>2, <1>4, <2>1
  <2>2. CASE addr = 0
    <3>1. /\ DOMAIN x.labels = DOMAIN w.labels /\ l \in DOMAIN w.labels
          /\ x.labels[l].uses = w.labels[l].uses \cup {u}
          /\ \A j \in DOMAIN w.labels :
               /\ x.labels[j].addr = w.labels[j].addr
               /\ j # l => x.labels[j].uses = w.labels[j].uses
      BY <1>2, <2>2 DEF Waits, SameSegments
    <3>2. QED BY <1>1b, <1>4, <3>1
  <2>3. QED BY <2>1, <2>2
<1>10. RefInv(x, r, L)
  <2>1. \A e \in L : e[1] = "stray" => e[2] <= a \/ a + WORD <= e[2]
    BY <1>1, <1>1b, <1>4 DEF UsesInv
  <2>2. ASSUME NEW j \in DOMAIN x.labels, NEW v \in x.labels[j].uses
        PROVE  \/ v[1] # "data" \/ <<"stray", v[2]>> \in L
               \/ v[2] = a /\ j = l
               \/ v[2] + WORD <= a \/ a + WORD <= v[2]
    <3>1. CASE j = l /\ v = u
      BY <1>5, <3>1
    <3>2. CASE v \in s.labels[j].uses /\ j \in DOMAIN s.labels
      BY <1>1, <1>1b, <3>2 DEF UsesInv
    <3>3. QED BY <1>9, <2>2, <3>1, <3>2
  <2>3. a + WORD <= x.dataPc
    BY <1>1a, <1>4 DEF WORD
  <2>4. QED BY <1>4, <1>6, <1>9, <2>1, <2>2, <2>3 DEF RefInv
<1>11. ASSUME N # {} PROVE ValueInv(x, r, A, L)
  <2>1. CASE addr # 0
    BY <1>1a, <1>6, <1>9, <1>11, <2>1 DEF ValueInv, ValueAt
  <2>2. CASE addr = 0
    <3>1. Pending(x, r)
      BY <1>1a, <1>6, <1>9, <1>11, <2>2 DEF Pending, u
    <3>2. QED BY <1>6, <1>9, <2>2, <3>1 DEF ValueInv
  <2>3. QED BY <2>1, <2>2
<1>12. Good(x, R \cup N, P, A, L)
  <2>1. \A o \in N : RefInv(x, o, L) /\ ValueInv(x, o, A, L)
    BY <1>1a, <1>10, <1>11
  <2>2. QED BY <1>8, <2>1, MoreAssembled
<1>13. QED BY <1>8, <1>12 DEF Sound

(* What .word does first. *)
LEMMA AutoAlignedSound ==
  ASSUME NEW s, NEW R, NEW P, NEW A, NEW L, Fine(s, R, P, A, L), s.dataPc + 1 <= MaxAddr,
         ~ s.text, NEW t, t = AutoAligned(s)
  PROVE  /\ Sound(t, R, P, A, L) /\ t.table = s.table
         /\ Len(t.insts) = Len(s.insts) /\ t.dataPc \in {s.dataPc, s.dataPc + 1}
         /\ \A k \in s.line : k \in DOMAIN t.labels
                              /\ (MovedIn(k, A, L) \/ t.labels[k].addr = t.dataPc)
<1>1. CASE s.auto
  BY <1>1, AlignedSound DEF AutoAligned
<1>2. CASE ~ s.auto
  <2>1. t = s
    BY <1>2 DEF AutoAligned
  <2>2. Sound(s, R, P, A, L) /\ LineInv(s, R, A, L) /\ TableInv(s)
    BY DEF Fine, Sound, Good
  <2>3. QED BY <2>1, <2>2 DEF LineInv, Pc, TableInv
<1>3. QED BY <1>1, <1>2

LEMMA WordReads ==
  ASSUME IInv, NEW n \in Names, Word(n)
  PROVE  Reads
<1> DEFINE q == IF asm.text THEN asm ELSE AutoAligned(asm)
           s == Looked(q, n)
           l == s.table[n]
           addr == s.labels[l].addr
           t == IF addr # 0 THEN s
                ELSE [s EXCEPT !.labels[l].uses = @ \cup {<<"data", s.dataPc>>}]
           x == StoredWord(t, addr)
           y == [t EXCEPT !.insts = Append(@, 0)]
<1>1. pc = "line" /\ lines < MaxLines
  BY DEF Word, Line
<1>2. /\ Fine(asm, refs, placed, again, late) /\ Sound(asm, refs, placed, again, late)
      /\ LineInv(asm, refs, again, late)
      /\ asm \in Asm /\ TableInv(asm) /\ TextPc(asm) \in 1..MaxAddr
      /\ asm.dataPc \in 1..MaxAddr /\ asm.dataPc + ItemSize + 2 <= MaxAddr
      /\ Len(asm.insts) \in Nat /\ ItemSize \in Nat \ {0} /\ MaxAddr \in Nat
  BY <1>1, LineBegins, Sizes DEF Fine
<1>3. asm.dataPc + 1 <= MaxAddr
  BY <1>2
<1>4. CASE ~ asm.text
  <2> DEFINE N == IF IF addr # 0 THEN s.dataPc < s.dataTop ELSE Aligned(s.dataPc)
                  THEN {<<"data", s.dataPc, l>>} ELSE {}
  <2>1. /\ asm' = Cleared(x)
        /\ refs' = refs \cup N /\ again' = again /\ late' = late
        /\ placed' = placed \cup {<<j, s.dataPc>> : j \in asm.line}
    BY <1>4 DEF Word, Line, Place
  <2>2. q = AutoAligned(asm)
    BY <1>4
  <2> HIDE DEF q
  <2>3. /\ Sound(q, refs, placed, again, late) /\ q.table = asm.table
        /\ Len(q.insts) = Len(asm.insts) /\ q.dataPc \in {asm.dataPc, asm.dataPc + 1}
        /\ \A k \in asm.line : k \in DOMAIN q.labels
                               /\ (MovedIn(k, again, late) \/ q.labels[k].addr = q.dataPc)
    BY <1>2, <1>3, <1>4, <2>2, AutoAlignedSound
  <2>4. /\ Sound(s, refs, placed, again, late) /\ SameSegments(q, s) /\ TableKept(q, s)
        /\ l \in DOMAIN s.labels
        /\ \A j \in DOMAIN q.labels : j \in DOMAIN s.labels /\ s.labels[j] = q.labels[j]
    BY <2>3, LookedSound
  <2> HIDE DEF s, l
  <2>5. s \in Asm /\ addr \in 0..MaxAddr /\ SegmentInv(s)
    BY <2>4, LabelFields DEF Sound, Good
  <2>6. addr = s.labels[l].addr
    OBVIOUS
  <2> HIDE DEF addr
  <2>7. s.insts = q.insts /\ s.dataPc = q.dataPc /\ s.dataPc \in Nat \ {0} /\ TableKept(asm, s)
        /\ s.dataPc + 2 <= MaxAddr /\ Len(s.insts) = Len(asm.insts)
    <3>1. s.insts = q.insts /\ s.dataPc = q.dataPc /\ Len(s.insts) = Len(asm.insts)
      BY <2>3, <2>4 DEF SameSegments
    <3>2. TableKept(asm, s)
      BY <2>3, <2>4 DEF TableKept
    <3>3. \A d \in {asm.dataPc, asm.dataPc + 1} : d \in Nat \ {0} /\ d + 2 <= MaxAddr
      BY <1>2
    <3>4. QED BY <2>3, <3>1, <3>2, <3>3
  <2>8. IF addr # 0 THEN t = s ELSE Waits(s, l, <<"data", s.dataPc>>, t)
    <3>1. <<"data", s.dataPc>> \in Places
      BY <2>7 DEF Places
    <3>2. CASE addr # 0
      BY <3>2
    <3>3. CASE addr = 0
      <4>1. t = [s EXCEPT !.labels[l].uses = @ \cup {<<"data", s.dataPc>>}]
        BY <3>3
      <4>2. QED BY <2>4, <2>5, <3>1, <3>3, <4>1, UseAdded
    <3>4. QED BY <3>2, <3>3
  <2> HIDE DEF t
  <2>9. /\ t \in Asm /\ SegmentInv(t) /\ t.dataPc = s.dataPc /\ t.dataTop = s.dataTop
        /\ t.table = s.table /\ t.insts = s.insts /\ DOMAIN t.labels = DOMAIN s.labels
        /\ \A j \in DOMAIN s.labels : t.labels[j].addr = s.labels[j].addr
    BY <2>5, <2>8 DEF Waits, SameSegments, SegmentInv
  <2>10. Grows(t, x) /\ x.dataPc = s.dataPc + 2 /\ (s.dataPc < s.dataTop => WordAt(x, s.dataPc) = addr)
    BY <2>5, <2>7, <2>9, StoredWordIs
  <2> HIDE DEF x
  <2>11. Sound(x, refs', placed, again', late')
    <3>1. WordNoted(s, l, N)
      BY <2>6 DEF WordNoted
    <3>2. WordStored(s, l, t, x)
      BY <2>6, <2>8, <2>10 DEF WordStored
    <3> HIDE DEF N
    <3>3. Sound(x, refs \cup N, placed, again, late)
      BY <2>4, <3>1, <3>2, WordSound
    <3>4. QED BY <2>1, <3>3
  <2>12. /\ x.table = s.table /\ x.insts = s.insts /\ Len(x.insts) = Len(s.insts)
         /\ x.labels = t.labels
    BY <2>9, <2>10 DEF Grows
  <2>13. ASSUME NEW j \in asm.line
         PROVE  /\ j \in DOMAIN x.labels
                /\ MovedIn(j, again', late') \/ x.labels[j].addr = s.dataPc
    BY <2>1, <2>3, <2>4, <2>7, <2>9, <2>12
  <2>14. /\ TableKept(asm, x) /\ Len(x.insts) <= Len(asm.insts) + 1
         /\ x.dataPc <= asm.dataPc + ItemSize + 2
    <3>1. TableKept(asm, x)
      BY <2>7, <2>12 DEF TableKept
    <3>2. Len(x.insts) <= Len(asm.insts) + 1
      BY <1>2, <2>7, <2>12
    <3>3. \A d \in {asm.dataPc, asm.dataPc + 1} : d + 2 <= asm.dataPc + ItemSize + 2
      BY <1>2
    <3>4. QED BY <2>3, <2>7, <2>10, <3>1, <3>2, <3>3
  <2>15. QED BY <1>1, <2>1, <2>7, <2>11, <2>13, <2>14, PlacedReads
<1>5. CASE asm.text
  <2>1. /\ asm' = Cleared(y)
        /\ refs' = refs /\ again' = again
        /\ placed' = placed \cup {<<j, TextPc(asm)>> : j \in asm.line}
        /\ late' = IF addr # 0 THEN late ELSE late \cup {<<"stray", s.dataPc>>}
    BY <1>5 DEF Word, Line, Place
  <2>2. q = asm
    BY <1>5
  <2> HIDE DEF q
  <2>3. /\ Sound(s, refs, placed, again, late) /\ SameSegments(q, s) /\ TableKept(q, s)
        /\ l \in DOMAIN s.labels
        /\ \A j \in DOMAIN q.labels : j \in DOMAIN s.labels /\ s.labels[j] = q.labels[j]
    BY <1>2, <2>2, LookedSound
  <2> HIDE DEF s, l
  <2>4. s \in Asm /\ addr \in 0..MaxAddr
    BY <2>3, LabelFields DEF Sound, Good
  <2> HIDE DEF addr
  <2>5. s.insts = asm.insts /\ s.dataPc = asm.dataPc /\ s.dataPc \in Nat /\ TableKept(asm, s)
    BY <1>2, <2>2, <2>3 DEF SameSegments
  <2>6. IF addr # 0 THEN t = s ELSE Waits(s, l, <<"data", s.dataPc>>, t)
    <3>1. <<"data", s.dataPc>> \in Places
      BY <2>5 DEF Places
    <3>2. CASE addr # 0
      BY <3>2
    <3>3. CASE addr = 0
      <4>1. t = [s EXCEPT !.labels[l].uses = @ \cup {<<"data", s.dataPc>>}]
        BY <3>3
      <4>2. QED BY <2>3, <2>4, <3>1, <3>3, <4>1, UseAdded
    <3>4. QED BY <3>2, <3>3
  <2> HIDE DEF t
  <2>7. late \subseteq late' /\ (\A e \in late' \ late : e[1] = "stray" => e[2] = s.dataPc)
        /\ (addr = 0 => <<"stray", s.dataPc>> \in late')
    BY <2>1
  <2>8. Sound(s, refs, placed, again, late') /\ Good(s, refs, placed, again, late')
        /\ TableInv(s) /\ Lists(s, again, late')
    <3>1. Sound(s, refs, placed, again, late')
      BY <2>3, <2>7, ExcusedSound
    <3>2. QED BY <3>1 DEF Sound, Good
  <2>9. Sound(t, refs, placed, again, late')
    <3>1. CASE addr # 0
      BY <2>6, <2>8, <3>1
    <3>2. CASE addr = 0
      <4> DEFINE u == <<"data", s.dataPc>>
      <4>1. u \in Places /\ u[1] = "data" /\ u[2] = s.dataPc
        BY <2>5 DEF Places
      <4>2. Waits(s, l, u, t) /\ <<"stray", u[2]>> \in late'
        BY <2>6, <2>7, <3>2
      <4> HIDE DEF u
      <4>3. Good(t, refs, placed, again, late')
        BY <2>8, <4>1, <4>2, WaitsGood
      <4>4. Lists(t, again, late')
        BY <2>4, <2>8, <4>2, WaitsLists
      <4>5. QED BY <4>3, <4>4 DEF Sound
    <3>3. QED BY <3>1, <3>2
  <2>10. t \in Asm /\ 0 \in 0..MaxAddr /\ y = [t EXCEPT !.insts = Append(@, 0)]
    BY <1>2, <2>9 DEF Sound, Good
  <2> HIDE DEF y
  <2>11. Appends(t, 0, y)
    BY <2>10, AppendedIs
  <2>12. Sound(y, refs', placed, again', late')
    BY <2>1, <2>9, <2>11, AppendedSound
  <2>13. /\ y.table = s.table /\ y.dataPc = s.dataPc /\ Len(y.insts) = Len(s.insts) + 1
         /\ DOMAIN y.labels = DOMAIN s.labels
         /\ \A j \in DOMAIN s.labels : y.labels[j].addr = s.labels[j].addr
    BY <2>6, <2>11 DEF Appends, Waits, SameSegments
  <2>14. ASSUME NEW j \in asm.line
         PROVE  /\ j \in DOMAIN y.labels
                /\ MovedIn(j, again', late') \/ y.labels[j].addr = TextPc(asm)
    <3>1. /\ j \in DOMAIN asm.labels
          /\ MovedIn(j, again, late) \/ asm.labels[j].addr = TextPc(asm)
      BY <1>2, <1>5 DEF LineInv, Pc, TableInv
    <3>2. MovedIn(j, again, late) => MovedIn(j, again', late')
      BY <2>1, <2>7 DEF MovedIn
    <3>3. QED BY <2>2, <2>3, <2>13, <3>1, <3>2
  <2>15. /\ TableKept(asm, y) /\ Len(y.insts) <= Len(asm.insts) + 1
         /\ y.dataPc <= asm.dataPc + ItemSize + 2 /\ TextPc(asm) \in Nat \ {0}
    BY <1>2, <2>5, <2>13 DEF TableKept
  <2>16. QED BY <1>1, <2>1, <2>12, <2>14, <2>15, PlacedReads
<1>6. QED BY <1>4, <1>5

(* Every kind of line. *)
LEMMA AnyLineReads ==
  ASSUME IInv, ReadLine
  PROVE  /\ Reads
         /\ pc = "line" /\ lines < MaxLines /\ lines' = lines + 1
         /\ UNCHANGED <<flushing, pc, files>>
<1>1. CASE \E n \in Names : Define(n)
  BY <1>1, DefineReads DEF Define, Line
<1>2. CASE \E n \in Names : Assign(n)
  BY <1>2, AssignReads DEF Assign, Line
<1>3. CASE \E n \in Names : Word(n)
  BY <1>3, WordReads DEF Word, Line
<1>4. CASE \E n \in Names : Globl(n)
  BY <1>4, GloblReads DEF Globl, Line
<1>5. CASE \E n \in Names : Extern(n)
  BY <1>5, ExternReads DEF Extern, Line
<1>6. CASE \E n \in Names : Comm(n)
  BY <1>6, CommReads DEF Comm, Line
<1>7. CASE \E n \in Names : Lcomm(n)
  BY <1>7, LcommReads DEF Lcomm, Line
<1>8. CASE \E n \in Names : Jump(n)
  BY <1>8, JumpReads DEF Jump, Line
<1>9. CASE Byte
  BY <1>9, ByteReads DEF Byte, Line
<1>10. CASE Align
  BY <1>10, AlignReads DEF Align, Line
<1>11. CASE AlignOff
  BY <1>11, AlignOffReads DEF AlignOff, Line
<1>12. CASE Space
  BY <1>12, SpaceReads DEF Space, Line
<1>13. CASE \E text \in BOOLEAN : Segment(text)
  BY <1>13, SegmentReads DEF Segment, Line
<1>14. QED
  BY <1>1, <1>2, <1>3, <1>4, <1>5, <1>6, <1>7, <1>8, <1>9, <1>10, <1>11, <1>12, <1>13
     DEF ReadLine

LEMMA RoomLeft ==
  ASSUME NEW k \in Nat, k < MaxLines, NEW d \in Nat, NEW e \in Nat,
         e <= d + ItemSize + 2, d + (MaxLines - k) * (ItemSize + 2) <= MaxAddr
  PROVE  e + (MaxLines - (k + 1)) * (ItemSize + 2) <= MaxAddr
<1> DEFINE w == ItemSize + 2
           j == MaxLines - (k + 1)
<1>1. w \in Nat /\ j \in Nat /\ MaxLines - k = j + 1 /\ MaxAddr \in Nat /\ e <= d + w
      /\ d + (j + 1) * w <= MaxAddr
  BY Sizes
<1> HIDE DEF w, j
<1>2. (j + 1) * w = j * w + w /\ j * w \in Nat
  BY <1>1
<1>3. e + j * w <= MaxAddr
  BY <1>1, <1>2
<1>4. QED BY <1>3 DEF w, j

LEMMA LineKeeps ==
  ASSUME IInv, ReadLine
  PROVE  IInv'
<1>1. /\ Fine(asm', refs', placed', again', late') /\ Follows(asm, asm')
      /\ pc = "line" /\ lines < MaxLines /\ lines' = lines + 1 /\ pc' = "line"
  BY AnyLineReads DEF Reads
<1>2. asm \in Asm /\ Len(asm.insts) \in Nat
  BY <1>1, LineBegins
<1>3. asm' \in Asm
  BY <1>1 DEF Fine, Sound, Good
<1>4. RoomInv'
  <2>1. /\ lines \in Nat /\ MaxLines \in Nat /\ Len(asm.insts) <= lines
        /\ asm.dataPc + (MaxLines - lines) * (ItemSize + 2) <= MaxAddr
    BY Sizes DEF IInv, RoomInv
  <2>2. asm.dataPc \in Nat /\ asm'.dataPc \in Nat /\ Len(asm'.insts) \in Nat
    BY <1>2, <1>3 DEF Asm
  <2>3. Len(asm'.insts) <= Len(asm.insts) + 1 /\ asm'.dataPc <= asm.dataPc + ItemSize + 2
    BY <1>1 DEF Follows
  <2>4. asm'.dataPc + (MaxLines - (lines + 1)) * (ItemSize + 2) <= MaxAddr
    BY <1>1, <2>1, <2>2, <2>3, RoomLeft
  <2>5. lines' \in 0..MaxLines /\ Len(asm'.insts) <= lines'
    BY <1>1, <1>2, <2>1, <2>2, <2>3
  <2>6. QED BY <1>1, <2>4, <2>5 DEF RoomInv
<1>5. Good(asm', refs', placed', again', late') /\ LineInv(asm', refs', again', late')
      /\ ListInv(asm', asm'.locals, late', TRUE) /\ ListEnds(asm', again')
  BY <1>1 DEF Fine, Sound, Lists
<1>6. QED BY <1>1, <1>4, <1>5 DEF IInv, ListHead

-------------------------------------------------------------------------------
(* The end of a file.                                                       *)

LEMMA ReachesBefore ==
  ASSUME NEW labels \in Seq(LabelType), NEW h \in DOMAIN labels, NEW k,
         Reaches(labels, labels[h].next, k)
  PROVE  Reaches(labels, h, k)
<1>1. h # 0
  OBVIOUS
<1>2. QED BY <1>1 DEF Reaches

(* The list behind its first label, which is taken out of the table.        *)
LEMMA FlushedList ==
  ASSUME NEW s \in Asm, TableInv(s), NEW L, NEW h, h # 0, ListInv(s, h, L, FALSE), NEW t,
         t.labels = s.labels,
         \A n \in Names : t.table[n] = IF n = s.labels[h].name THEN 0 ELSE s.table[n]
  PROVE  ListInv(t, s.labels[h].next, L, FALSE)
<1> DEFINE g == s.labels[h].next
<1>1. s.labels \in Seq(LabelType) /\ h \in DOMAIN s.labels /\ g \in 0..Len(s.labels)
  <2>1. s.labels \in Seq(LabelType) /\ h \in 0..Len(s.labels)
    BY DEF Asm, ListInv
  <2>2. h \in DOMAIN s.labels
    BY <2>1
  <2>3. QED BY <2>1, <2>2 DEF TableInv
<1>2. ASSUME NEW k \in DOMAIN s.labels, Reaches(s.labels, g, k)
      PROVE  /\ s.labels[k].addr # 0
             /\ s.labels[k].global => <<"global", k>> \in L
             /\ t.table[s.labels[k].name] \in {k, 0}
  <2>1. Reaches(s.labels, h, k)
    BY <1>1, <1>2, ReachesBefore
  <2>2. /\ s.labels[k].addr # 0
        /\ s.labels[k].global => <<"global", k>> \in L
        /\ s.table[s.labels[k].name] \in {k, 0}
    BY <2>1 DEF ListInv
  <2>3. s.labels[k].name \in Names
    BY <1>1, LabelFields DEF LabelType
  <2>4. QED BY <2>2, <2>3
<1>3. ASSUME Reaches(s.labels, g, 0), NEW n \in Names, t.table[n] # 0,
             s.labels[t.table[n]].addr # 0, ~ s.labels[t.table[n]].global
      PROVE  Reaches(s.labels, g, t.table[n])
  <2>1. t.table[n] = s.table[n] /\ n # s.labels[h].name
    BY <1>3
  <2>2. Reaches(s.labels, h, 0)
    BY <1>1, <1>3, ReachesBefore
  <2>3. Reaches(s.labels, h, s.table[n])
    BY <1>3, <2>1, <2>2 DEF ListInv
  <2>4. s.table[n] # h
    BY <1>3, <2>1 DEF TableInv
  <2>5. QED BY <1>1, <2>1, <2>3, <2>4, ReachesBehind
<1>4. QED BY <1>1, <1>2, <1>3 DEF ListInv

LEMMA EndOfFileKeeps ==
  ASSUME IInv, EndOfFile
  PROVE  IInv'
<1>1. /\ pc = "line" /\ pc' = "flush" /\ asm' = Cleared(asm) /\ flushing' = asm.locals
      /\ lines' = lines /\ refs' = refs /\ placed' = placed /\ again' = again /\ late' = late
  BY DEF EndOfFile, ghosts
<1>2. Sound(asm, refs, placed, again, late) /\ asm \in Asm /\ TableInv(asm) /\ RoomInv
  BY <1>1 DEF IInv, ListHead, Sound, Lists, Good
<1>3. /\ Fine(asm', refs, placed, again, late) /\ asm'.dataPc = asm.dataPc /\ asm'.line = {}
      /\ Len(asm'.insts) = Len(asm.insts)
  BY <1>1, <1>2, LineOver
<1>4. asm'.locals = asm.locals
  BY <1>1, <1>2, ClearedIs DEF Resolves
<1>5. Good(asm', refs, placed, again, late) /\ LineInv(asm', refs, again, late)
      /\ ListInv(asm', asm.locals, late, TRUE) /\ ListEnds(asm', again)
  BY <1>3, <1>4 DEF Fine, Sound, Lists
<1>6. ListInv(asm', asm.locals, late, FALSE)
  BY <1>5 DEF ListInv
<1>7. RoomInv'
  BY <1>1, <1>2, <1>3 DEF RoomInv
<1>8. QED BY <1>1, <1>3, <1>5, <1>6, <1>7 DEF IInv, ListHead

(* Names leave the table; the labels themselves stay as they are. *)
LEMMA FlushingSettings ==
  ASSUME IInv, NEW t, t \in Asm, t.labels = asm.labels, t.line = asm.line,
         t.insts = asm.insts, t.dataPc = asm.dataPc, t.dataTop = asm.dataTop,
         t.data = asm.data, t.gpItem = asm.gpItem, t.locals \in 0..Len(asm.labels),
         \A n \in Names : t.table[n] \in {0, asm.table[n]}
  PROVE  Good(t, refs, placed, again, late)
<1>1. Good(asm, refs, placed, again, late) /\ SegmentInv(asm)
  BY DEF IInv, Good
<1>2. Settings(asm, t)
  BY <1>1 DEF Settings, SegmentInv
<1>3. QED BY <1>1, <1>2, SettingsGood

LEMMA FlushLabelKeeps ==
  ASSUME IInv, FlushLabel
  PROVE  IInv'
<1> DEFINE m == asm.labels[flushing].name
<1>1. /\ pc = "flush" /\ flushing # 0 /\ pc' = pc
      /\ asm' = [asm EXCEPT !.table[m] = 0] /\ flushing' = asm.labels[flushing].next
      /\ lines' = lines /\ refs' = refs /\ placed' = placed /\ again' = again /\ late' = late
  BY DEF FlushLabel, ghosts
<1>2. asm \in Asm /\ TableInv(asm) /\ ListInv(asm, flushing, late, FALSE)
      /\ ListEnds(asm, again) /\ asm.line = {} /\ RoomInv
  BY <1>1 DEF IInv, Good, ListHead
<1>3. /\ asm' \in Asm /\ asm'.labels = asm.labels /\ asm'.line = asm.line
      /\ asm'.insts = asm.insts /\ asm'.dataPc = asm.dataPc /\ asm'.dataTop = asm.dataTop
      /\ asm'.data = asm.data /\ asm'.gpItem = asm.gpItem /\ asm'.locals = asm.locals
      /\ \A n \in Names : asm'.table[n] = IF n = m THEN 0 ELSE asm.table[n]
  <2> DEFINE table == [asm.table EXCEPT ![m] = 0]
  <2>1. table \in [Names -> Nat]
    BY <1>2 DEF Asm
  <2>2. \A n \in Names : table[n] = IF n = m THEN 0 ELSE asm.table[n]
    BY <1>2 DEF Asm
  <2>3. asm' = [asm EXCEPT !.table = table]
    BY <1>1
  <2> HIDE DEF table, m
  <2>4. /\ asm' \in Asm /\ asm'.labels = asm.labels /\ asm'.line = asm.line
        /\ asm'.insts = asm.insts /\ asm'.dataPc = asm.dataPc /\ asm'.dataTop = asm.dataTop
        /\ asm'.data = asm.data /\ asm'.gpItem = asm.gpItem /\ asm'.locals = asm.locals
        /\ asm'.table = table
    BY <1>2, <2>1, <2>3 DEF Asm
  <2>5. QED BY <2>2, <2>4
<1>4. Good(asm', refs, placed, again, late)
  BY <1>2, <1>3, FlushingSettings DEF TableInv
<1>5. ListInv(asm', flushing', late, FALSE)
  BY <1>1, <1>2, <1>3, FlushedList
<1>6. ListEnds(asm', again) /\ LineInv(asm', refs, again, late) /\ RoomInv'
  BY <1>1, <1>2, <1>3 DEF ListEnds, LineInv, RoomInv
<1>7. QED BY <1>1, <1>2, <1>3, <1>4, <1>5, <1>6 DEF IInv, ListHead

LEMMA NextFileKeeps ==
  ASSUME IInv, NextFile
  PROVE  IInv'
<1>1. /\ pc = "flush" /\ flushing = 0 /\ pc' \in {"line", "end"}
      /\ asm' = [asm EXCEPT !.locals = 0, !.auto = TRUE, !.text = TRUE]
      /\ lines' = lines /\ refs' = refs /\ placed' = placed /\ again' = again /\ late' = late
  BY DEF NextFile, ghosts
<1>2. asm \in Asm /\ ListInv(asm, 0, late, FALSE) /\ asm.line = {} /\ RoomInv
  BY <1>1 DEF IInv, Good, ListHead
<1>3. /\ asm' \in Asm /\ asm'.labels = asm.labels /\ asm'.line = asm.line
      /\ asm'.insts = asm.insts /\ asm'.dataPc = asm.dataPc /\ asm'.dataTop = asm.dataTop
      /\ asm'.data = asm.data /\ asm'.gpItem = asm.gpItem /\ asm'.locals = 0
      /\ asm'.table = asm.table
  BY <1>1, <1>2 DEF Asm
<1>4. asm.labels \in Seq(LabelType) /\ 0 \in 0..Len(asm.labels)
  BY <1>2 DEF Asm
<1>5. Good(asm', refs, placed, again, late)
  BY <1>3, <1>4, FlushingSettings
<1>6. Reaches(asm.labels, 0, 0) /\ \A k \in DOMAIN asm.labels : ~ Reaches(asm.labels, 0, k)
  BY <1>4, ReachesSelf, EndReaches
<1>7. ListInv(asm', 0, late, TRUE)
  BY <1>2, <1>3, <1>6 DEF ListInv
<1>8. ListEnds(asm', again) /\ LineInv(asm', refs, again, late) /\ RoomInv'
  BY <1>1, <1>2, <1>3, <1>6 DEF ListEnds, LineInv, RoomInv
<1>9. QED BY <1>1, <1>2, <1>3, <1>5, <1>7, <1>8 DEF IInv, ListHead

-------------------------------------------------------------------------------
(* The invariant holds.                                                     *)

LEMMA StartHolds ==
  ASSUME Init
  PROVE  IInv
<1>1. /\ asm = Start /\ flushing = 0 /\ pc = "line" /\ lines = 0
      /\ refs = {} /\ placed = {} /\ again = {} /\ late = {}
  BY DEF Init
<1>2. /\ asm.table = [n \in Names |-> 0] /\ asm.labels = <<>> /\ asm.locals = 0 /\ asm.line = {}
      /\ asm.dataPc = DataBegin /\ asm.dataTop = DATA_BOT + DataSize /\ asm.gpItem = DATA_BOT
      /\ asm.insts = <<>> /\ asm.data = [a \in Bytes |-> 0] /\ asm.text = TRUE /\ asm.auto = TRUE
  BY <1>1 DEF Start
<1>3. asm \in Asm
  <2>1. DATA_BOT + DataSize \in Nat /\ DataBegin \in Nat /\ DATA_BOT \in Nat
    BY Sizes
  <2>2. <<>> \in Seq(LabelType) /\ <<>> \in Seq(0..MaxAddr)
    OBVIOUS
  <2>3. [a \in Bytes |-> 0] \in [Bytes -> Nat] /\ [n \in Names |-> 0] \in [Names -> Nat]
    OBVIOUS
  <2>4. QED BY <1>1, <2>1, <2>2, <2>3 DEF Start, Asm
<1>4. TableInv(asm) /\ SegmentInv(asm) /\ UsesInv(asm, late) /\ PlacedInv(asm, placed, again, late)
  <2>1. TableInv(asm)
    BY <1>2 DEF TableInv
  <2>2. SegmentInv(asm)
    BY <1>2, Sizes DEF SegmentInv, WORD
  <2>3. QED BY <1>1, <1>2, <2>1, <2>2 DEF UsesInv, PlacedInv
<1>5. Good(asm, refs, placed, again, late) /\ LineInv(asm, refs, again, late)
  BY <1>1, <1>2, <1>3, <1>4 DEF Good, LineInv
<1>6. ListInv(asm, 0, late, TRUE) /\ ListEnds(asm, again)
  BY <1>1, <1>2, ReachesSelf DEF ListInv, ListEnds
<1>7. RoomInv
  <2>1. 0 \in 0..MaxLines /\ Len(asm.insts) = 0 /\ MaxLines - 0 = MaxLines
    BY <1>2, Sizes
  <2>2. QED BY <1>1, <1>2, <2>1, Sizes DEF RoomInv
<1>8. QED BY <1>1, <1>2, <1>5, <1>6, <1>7 DEF IInv, ListHead

LEMMA StepKeeps ==
  ASSUME IInv, [Next]_vars
  PROVE  IInv'
<1>1. CASE ReadLine
  BY <1>1, LineKeeps
<1>2. CASE EndOfFile
  BY <1>2, EndOfFileKeeps
<1>3. CASE FlushLabel
  BY <1>3, FlushLabelKeeps
<1>4. CASE NextFile
  BY <1>4, NextFileKeeps
<1>5. CASE UNCHANGED vars
  BY <1>5 DEF vars, ghosts, IInv, RoomInv, ListHead
<1>6. QED BY <1>1, <1>2, <1>3, <1>4, <1>5 DEF Next

(* The state of the assembler keeps its shape, and all that the properties   *)
(* below rest on: where uses, references, the line's labels and the list of *)
(* local ones stand.                                                        *)
THEOREM AssemblerInvariant == Spec => []IInv
<1>1. Init => IInv
  BY StartHolds
<1>2. IInv /\ [Next]_vars => IInv'
  BY StepKeeps
<1>3. QED BY <1>1, <1>2, PTL DEF Spec

(* Whatever was assembled for a symbol holds the address of its label, before  *)
(* the definition or behind it, as Assembler says with its exceptions: what    *)
(* record_label, resolve_label_uses and clear_labels do together.              *)
THEOREM ReferencesResolved == Spec => []UsesResolved
<1>1. IInv => UsesResolved
  <2>1. SUFFICES ASSUME IInv, NEW r \in refs, asm.labels[r[3]].addr # 0, r[3] \notin asm.line,
                        ~ Moved(r[3]), ~ Strayed(r)
                 PROVE  asm.labels[r[3]].addr = ValueAt(asm, r)
    BY DEF UsesResolved
  <2>2. ValueInv(asm, r, again, late)
    BY <2>1 DEF IInv, Good
  <2>3. QED BY <2>1, <2>2 DEF ValueInv, MovedIn, Moved, StrayedIn, Strayed
<1>2. QED BY <1>1, AssemblerInvariant, PTL

(* A label that something was stored behind is the address of it, alignment    *)
(* included, and no later line or file moves it: fix_current_label_address.    *)
THEOREM LabelsStayPlaced == Spec => []LabelsPlaced
<1>1. IInv => LabelsPlaced
  BY DEF IInv, Good, PlacedInv, LabelsPlaced, MovedIn, Moved
<1>2. QED BY <1>1, AssemblerInvariant, PTL

(* The list that flush_local_labels runs down ends, unless a label of the      *)
(* small data was recorded twice.                                              *)
THEOREM FlushingEnds == Spec => []FlushEnds
<1>1. IInv => FlushEnds
  BY DEF IInv, ListEnds, FlushEnds
<1>2. QED BY <1>1, AssemblerInvariant, PTL

(* At the end of a file every label that has an address and is not global is   *)
(* out of the table, and none that was global when it was recorded ever        *)
(* leaves it.                                                                  *)
THEOREM FilesStayApart == Spec => FilesApart
<1> DEFINE Gone == files' # files =>
             \A n \in Names : LET l == asm'.table[n]
                              IN  l # 0 /\ asm.labels[l].addr # 0 => asm.labels[l].global
           Stays ==
             \A n \in Names : LET l == asm.table[n]
                              IN  l # 0 /\ asm.labels[l].global /\ <<"global", l>> \notin late
                                    => asm'.table[n] = l
<1>1. ASSUME IInv, ReadLine PROVE Gone /\ Stays
  <2>1. Follows(asm, asm') /\ files' = files
    BY <1>1, AnyLineReads DEF Reads
  <2>2. QED BY <2>1 DEF Follows, TableKept
<1>2. ASSUME IInv, EndOfFile PROVE Gone /\ Stays
  <2>1. files' = files /\ asm' = Cleared(asm) /\ asm \in Asm /\ TableInv(asm)
    BY <1>2 DEF EndOfFile, IInv, Good
  <2>2. asm'.table = asm.table
    BY <2>1, ClearedIs DEF Resolves
  <2>3. QED BY <2>1, <2>2
<1>3. ASSUME IInv, FlushLabel PROVE Gone /\ Stays
  <2> DEFINE m == asm.labels[flushing].name
  <2>1. files' = files /\ pc = "flush" /\ flushing # 0 /\ asm' = [asm EXCEPT !.table[m] = 0]
    BY <1>3 DEF FlushLabel
  <2>2. asm \in Asm /\ ListInv(asm, flushing, late, FALSE)
    BY <1>3, <2>1 DEF IInv, Good, ListHead
  <2>3. flushing \in DOMAIN asm.labels
    <3>1. asm.labels \in Seq(LabelType) /\ flushing \in 0..Len(asm.labels)
      BY <2>2 DEF Asm, ListInv
    <3>2. QED BY <2>1, <3>1
  <2>4. /\ asm.labels[flushing].global => <<"global", flushing>> \in late
        /\ asm.table[m] \in {flushing, 0}
    BY <2>2, <2>3, ReachesSelf DEF ListInv
  <2>5. \A n \in Names : n # m => asm'.table[n] = asm.table[n]
    BY <2>1, <2>2 DEF Asm
  <2>6. QED BY <2>1, <2>4, <2>5
<1>4. ASSUME IInv, NextFile PROVE Gone /\ Stays
  <2>1. /\ pc = "flush" /\ flushing = 0
        /\ asm' = [asm EXCEPT !.locals = 0, !.auto = TRUE, !.text = TRUE]
    BY <1>4 DEF NextFile
  <2>2. asm \in Asm /\ ListInv(asm, 0, late, FALSE)
    BY <1>4, <2>1 DEF IInv, Good, ListHead
  <2>3. asm'.table = asm.table
    BY <2>1, <2>2 DEF Asm
  <2>4. asm.labels \in Seq(LabelType)
    BY <2>2 DEF Asm
  <2>5. \A n \in Names : LET l == asm.table[n]
                         IN  l # 0 /\ asm.labels[l].addr # 0 => asm.labels[l].global
    BY <2>2, <2>4, ReachesSelf, EndReaches DEF ListInv
  <2>6. QED BY <2>3, <2>5
<1>5. ASSUME UNCHANGED vars PROVE Gone /\ Stays
  BY <1>5 DEF vars
<1>6. IInv /\ [Next]_vars => [Gone /\ Stays]_vars
  BY <1>1, <1>2, <1>3, <1>4, <1>5 DEF Next
<1>7. QED BY <1>6, AssemblerInvariant, PTL DEF Spec, FilesApart
===============================================================================
