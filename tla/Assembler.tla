------------------------------ MODULE Assembler ------------------------------
(***************************************************************************)
(* How the assembler gives names their addresses: the symbol table         *)
(* (CPU/sym-tbl.cpp), the location counters of data (CPU/data.cpp) and     *)
(* text (CPU/inst.cpp), and the lines of the grammar that define and use   *)
(* labels (CPU/parser.y).                                                  *)
(*                                                                         *)
(* A label may be used before it is defined: the use is recorded and       *)
(* patched later.  It may move after it is defined: the datum on its line  *)
(* may have to be aligned.  And it is seen by its own file only, unless    *)
(* it is global.  A step is one command of a source line; any sequence of  *)
(* files of such lines is assembled.                                       *)
(***************************************************************************)
EXTENDS Integers, Sequences, FiniteSets, SequencesExt

CONSTANTS
  Names,             \* the labels a program uses
  TextBot, LastText, \* the text segment; bound: instructions end at LastText
  GpBot, GpTop,      \* the small data around $gp
  DataBot, LastData, \* the data behind it; bound: data end at LastData
  Values,            \* the values of constants
  Sizes,             \* the bytes asked of .comm, .lcomm and .extern
  Alignments,        \* the exponents of .align, and of the literals' sizes
  WordsInText,       \* whether .word L is used in the text segment
  MaxLines           \* bound: commands in all files

ASSUME ParametersOK ==
  /\ TextBot \in Nat \ {0} /\ LastText \in Nat /\ TextBot % 4 = 0
  /\ GpBot \in Nat /\ GpTop \in Nat /\ DataBot \in Nat /\ LastData \in Nat
  /\ TextBot + 3 <= LastText /\ LastText < GpBot
  /\ GpBot <= GpTop /\ GpTop <= DataBot /\ DataBot + 3 <= LastData
  /\ Values \subseteq Nat /\ Sizes \subseteq 1 .. GpTop - GpBot
  /\ Alignments \subseteq 0 .. 3
  /\ WordsInText \in BOOLEAN
  /\ MaxLines \in Nat

TextWords == {a \in TextBot .. LastText : a % 4 = 0}
DataBytes == GpBot .. LastData

VARIABLES
  asm,       \* [entry: the label structures in the order made,
             \*  table: label_hash_table, from a name to an index of entry or 0,
             \*  local: local_labels, the newest first,
             \*  line:  this_line_labels, the newest first,
             \*  text, data: the words and bytes stored,
             \*  next_text_pc, next_data_pc, next_gp_item_addr]
  auto_alignment,
  text_dir,  \* and data_dir = ~text_dir
  file,      \* the number of the file read
  lines,     \* commands read
  refs,      \* history: where each use of a label was assembled
  disputed   \* history: labels defined a second time, or placed by .extern
             \*   when already defined or used

vars == <<asm, auto_alignment, text_dir, file, lines, refs, disputed>>

Labels   == DOMAIN asm.entry
Known(n) == asm.table[n] # 0

Init ==
  /\ asm = [entry |-> <<>>, table |-> [n \in Names |-> 0],
            local |-> <<>>, line |-> <<>>,
            text |-> [a \in TextWords |-> 0],
            data |-> [a \in DataBytes |-> <<0, 0>>],
            next_text_pc |-> TextBot, next_data_pc |-> DataBot,
            next_gp_item_addr |-> GpBot]
  /\ auto_alignment = TRUE
  /\ text_dir = TRUE
  /\ file = 1 /\ lines = 0
  /\ refs = {} /\ disputed = {}

-----------------------------------------------------------------------------
(* Memory.  A byte is the value stored and which byte of it.               *)

PutWord(s, a, value) ==
  [s EXCEPT !.data =
     [b \in DataBytes |-> IF b \in a .. a + 3 THEN <<value, b - a>> ELSE s.data[b]]]

\* An instruction at a misaligned address is refused: it is not stored, and
\* the location counter does not move.
set_mem_inst(s, value) ==
  IF s.next_text_pc % 4 # 0 THEN s
  ELSE [s EXCEPT !.text[s.next_text_pc] = value, !.next_text_pc = @ + 4]

\* store_word goes through the halves and bytes of a misaligned word.
store_word(s, value) ==
  [PutWord(s, s.next_data_pc, value) EXCEPT !.next_data_pc = @ + 4]

-----------------------------------------------------------------------------
(* The symbol table.                                                       *)

NewLabel(n) == [name |-> n, addr |-> 0, global_flag |-> FALSE,
                gp_flag |-> FALSE, const_flag |-> FALSE, uses |-> {}]

\* Mutant: a label is put on the list of its file when first looked up.
lookup_label_local(s, n) ==
  IF s.table[n] # 0 THEN s
  ELSE [s EXCEPT !.entry = Append(@, NewLabel(n)),
                 !.table[n] = Len(s.entry) + 1,
                 !.local = <<Len(s.entry) + 1>> \o @]

lookup_label(s, n) ==
  IF s.table[n] # 0 THEN s
  ELSE [s EXCEPT !.entry = Append(@, NewLabel(n)),
                 !.table[n] = Len(s.entry) + 1]

\* A use of a label not yet defined: an instruction of the text, or a word
\* of the data; an instruction in the data is encoded as a word there.
Use(place, a) == [place |-> place, addr |-> a]

AddUse(s, id, use) == [s EXCEPT !.entry[id].uses = @ \cup {use}]

\* The labels IDS are resolved one after the other.  Those with a use at an
\* address; the last of them stays there.
Users(s, ids, place, a) ==
  {i \in DOMAIN ids : /\ Use(place, a) \in s.entry[ids[i]].uses
                      /\ \A j \in 1 .. i - 1 : ids[j] # ids[i]}
Resolved(s, ids, place, a) == s.entry[ids[Max(Users(s, ids, place, a))]].addr

\* set_mem_word refuses a misaligned address.
WordAt(b) == b - (b % 4)
Resolve(s, ids) ==
  [s EXCEPT
     !.text = [a \in TextWords |->
                 IF Users(s, ids, "text", a) = {} THEN s.text[a]
                 ELSE Resolved(s, ids, "text", a)],
     !.data = [b \in DataBytes |->
                 IF Users(s, ids, "data", WordAt(b)) = {} THEN s.data[b]
                 ELSE <<Resolved(s, ids, "data", WordAt(b)), b % 4>>],
     !.entry = [id \in DOMAIN s.entry |->
                  IF id \in ToSet(ids) THEN [s.entry[id] EXCEPT !.uses = {}]
                  ELSE s.entry[id]]]

resolve_label_uses(s, id) == Resolve(s, <<id>>)

clear_labels(s) == [Resolve(s, s.line) EXCEPT !.line = <<>>]

Link(s, id) ==
  IF s.entry[id].global_flag THEN s
  ELSE [s EXCEPT !.local = <<id>> \o @]

\* A second definition is an error: yyerror clears the labels of the line,
\* and the label is neither resolved nor linked.
Twice(s, n) ==
  LET e == s.entry[s.table[n]] IN ~e.gp_flag /\ e.addr # 0

record_label(s0, n, address, resolve_uses) ==
  LET s  == lookup_label(s0, n)
      id == s.table[n]
      placed == IF s.entry[id].gp_flag THEN s
                ELSE [s EXCEPT !.entry[id].addr = address]
      done == IF resolve_uses THEN resolve_label_uses(placed, id) ELSE placed
  IN IF Twice(s, n) THEN clear_labels(s) ELSE Link(done, id)

\* Mutant: only the newest label of the line moves.
fix_newest_label_address(s, a) ==
  clear_labels(IF s.line = <<>> THEN s
               ELSE [s EXCEPT !.entry[Head(s.line)].addr = a])

fix_current_label_address(s, a) ==
  clear_labels(
    [s EXCEPT !.entry = [id \in DOMAIN s.entry |->
                           IF id \in ToSet(s.line) THEN [s.entry[id] EXCEPT !.addr = a]
                           ELSE s.entry[id]]])

make_label_global(s0, n) ==
  LET s == lookup_label(s0, n)
  IN [s EXCEPT !.entry[s.table[n]].global_flag = TRUE]

\* Mutant: removing a label leaves both loops.
flush_newest_label(s) ==
  IF s.local = <<>> THEN s
  ELSE [s EXCEPT !.table[s.entry[Head(s.local)].name] = 0, !.local = <<>>]

flush_local_labels(s) ==
  [s EXCEPT
     !.table = [n \in Names |->
                  IF \E id \in ToSet(s.local) : s.entry[id].name = n
                  THEN 0 ELSE s.table[n]],
     !.local = <<>>]

-----------------------------------------------------------------------------
(* Alignment of data.                                                      *)

AlignUp(a, k) == ((a + 2^k - 1) \div 2^k) * 2^k

align_data(s, k) ==
  LET pc == AlignUp(s.next_data_pc, k)
  IN fix_current_label_address([s EXCEPT !.next_data_pc = pc], pc)

\* The alignment of .half, .word, .float and .double.
set_data_alignment(s, k) ==
  IF auto_alignment /\ ~text_dir THEN align_data(s, k) ELSE s

Here(s) == IF text_dir THEN s.next_text_pc ELSE s.next_data_pc

-----------------------------------------------------------------------------
(* The commands.  After each the labels of the line are cleared.           *)

Fits(s) == s.next_text_pc <= LastText - 3 /\ s.next_data_pc <= LastData - 3

Command(s) ==
  /\ lines < MaxLines /\ lines' = lines + 1
  /\ asm' = clear_labels(s)
  /\ Fits(asm')

Defined(n) ==
  Known(n) /\ LET e == asm.entry[asm.table[n]] IN e.addr # 0 \/ e.const_flag

\* It is open which address n has.
Disputes(n) == disputed' = disputed \cup {asm.table[n]}

\* Mutant: the uses are resolved before the address is known.
DefineLabelAtOnce(n) ==
  LET s == record_label(asm, n, Here(asm), TRUE)
  IN /\ lines < MaxLines /\ lines' = lines + 1
     /\ asm' = [s EXCEPT !.line = <<s.table[n]>> \o @]
     /\ IF Defined(n) THEN Disputes(n) ELSE UNCHANGED disputed
     /\ UNCHANGED <<auto_alignment, text_dir, file, refs>>

\* n:   The address may be fixed until the line is cleared; also the second
\* definition of a label puts it on the line.
DefineLabel(n) ==
  LET s == record_label(asm, n, Here(asm), FALSE)
  IN /\ lines < MaxLines /\ lines' = lines + 1
     /\ asm' = [s EXCEPT !.line = <<s.table[n]>> \o @]
     /\ IF Defined(n) THEN Disputes(n) ELSE UNCHANGED disputed
     /\ UNCHANGED <<auto_alignment, text_dir, file, refs>>

\* n = v
DefineConstant(n, v) ==
  LET s == record_label(asm, n, v, TRUE)
  IN /\ Command([s EXCEPT !.entry[s.table[n]].const_flag = TRUE])
     /\ IF Defined(n) THEN Disputes(n) ELSE UNCHANGED disputed
     /\ UNCHANGED <<auto_alignment, text_dir, file, refs>>

\* .label n
LabelDirective(n) ==
  /\ Command(record_label(asm, n, Here(asm), TRUE))
  /\ IF Defined(n) THEN Disputes(n) ELSE UNCHANGED disputed
  /\ UNCHANGED <<auto_alignment, text_dir, file, refs>>

\* A word whose value is n.
WordOf(s0, n) ==
  LET s  == lookup_label(s0, n)
      id == s.table[n]
      value == s.entry[id].addr
      used  == IF value = 0 THEN AddUse(s, id, Use("data", s.next_data_pc)) ELSE s
  IN IF text_dir THEN set_mem_inst(used, value) ELSE store_word(used, value)

\* An instruction, here a jump, whose target is n.
Instruction(s0, n) ==
  LET s  == lookup_label(s0, n)
      id == s.table[n]
      value == s.entry[id].addr
      used  == IF value # 0 THEN s
               ELSE AddUse(s, id, Use(IF text_dir THEN "text" ELSE "data", Here(s)))
  IN IF text_dir THEN set_mem_inst(used, value) ELSE store_word(used, value)

\* n is used where the location counter of s stands, if anything is stored.
Refer(s, n, forward) ==
  refs' = IF text_dir /\ s.next_text_pc % 4 # 0 THEN refs
          ELSE refs \cup {[place |-> IF text_dir THEN "text" ELSE "data",
                           addr  |-> Here(s),
                           label |-> asm'.table[n],
                           forward |-> forward]}

\* .word n: the mid-rule aligns the data, before n is looked up.
Word(n) ==
  /\ text_dir => WordsInText
  /\ LET s == set_data_alignment(asm, 2)
     IN Command(WordOf(s, n)) /\ Refer(s, n, ~Defined(n))
  /\ UNCHANGED <<auto_alignment, text_dir, file, disputed>>

\* j n
Jump(n) ==
  /\ Command(Instruction(asm, n))
  /\ Refer(asm, n, ~Defined(n))
  /\ UNCHANGED <<auto_alignment, text_dir, file, disputed>>

\* Literals of 2^k bytes: .byte and .ascii (k = 0) do not align, .half (1),
\* .float (2) and .double (3) do.
Literal(k) ==
  LET s == IF k = 0 THEN asm ELSE set_data_alignment(asm, k)
  IN /\ Command([s EXCEPT !.next_data_pc = @ + 2^k])
     /\ UNCHANGED <<auto_alignment, text_dir, file, refs, disputed>>

\* .space v
Space(v) ==
  /\ Command(IF text_dir THEN [asm EXCEPT !.next_text_pc = @ + v]
             ELSE [asm EXCEPT !.next_data_pc = @ + v])
  /\ UNCHANGED <<auto_alignment, text_dir, file, refs, disputed>>

\* .align k, in either segment; .align 0 turns automatic alignment off.
Align(k) ==
  /\ Command(IF k = 0 THEN asm ELSE align_data(asm, k))
  /\ auto_alignment' = (auto_alignment /\ k # 0)
  /\ UNCHANGED <<text_dir, file, refs, disputed>>

\* .text and .data
Segment(text) ==
  /\ Command(asm)
  /\ text_dir' = text
  /\ auto_alignment' = TRUE
  /\ UNCHANGED <<file, refs, disputed>>

\* .globl n
Global(n) ==
  /\ Command(make_label_global(asm, n))
  /\ UNCHANGED <<auto_alignment, text_dir, file, refs, disputed>>

\* .comm n, size
Comm(n, size) ==
  LET s == lookup_label(align_data(asm, 2), n)
      t == IF s.entry[s.table[n]].addr = 0
           THEN record_label(s, n, s.next_data_pc, TRUE) ELSE s
  IN /\ Command([t EXCEPT !.next_data_pc = @ + size])
     /\ IF t # s /\ Defined(n) THEN Disputes(n) ELSE UNCHANGED disputed
     /\ UNCHANGED <<auto_alignment, text_dir, file, refs>>

\* Mutant: the size of the item is forgotten.
FitsGpEmpty(s, size) == s.next_gp_item_addr < GpTop

FitsGp(s, size) == s.next_gp_item_addr + size < GpTop

\* .lcomm n, size: around $gp while there is room, else where data goes.
Lcomm(n, size) ==
  LET gp == record_label(asm, n, asm.next_gp_item_addr, TRUE)
      small == [gp EXCEPT !.entry[gp.table[n]].gp_flag = TRUE,
                          !.next_gp_item_addr = @ + size]
      large == [record_label(asm, n, asm.next_data_pc, TRUE)
                  EXCEPT !.next_data_pc = @ + size]
  IN /\ Command(IF FitsGp(asm, size) THEN small ELSE large)
     /\ IF Defined(n) THEN Disputes(n) ELSE UNCHANGED disputed
     /\ UNCHANGED <<auto_alignment, text_dir, file, refs>>

\* .extern n size
Extern(n, size) ==
  LET s  == make_label_global(asm, n)
      id == s.table[n]
      placed == ~s.entry[id].gp_flag /\ FitsGp(s, size)
  IN /\ Command(IF ~placed THEN s
                ELSE [s EXCEPT !.entry[id].gp_flag = TRUE,
                               !.entry[id].addr = s.next_gp_item_addr,
                               !.next_gp_item_addr = @ + size])
     /\ IF placed /\ (Defined(n) \/ s.entry[id].uses # {})
        THEN Disputes(n) ELSE UNCHANGED disputed
     /\ UNCHANGED <<auto_alignment, text_dir, file, refs>>

\* The end of a file and the start of the next.  A label linked twice makes
\* local_labels a cycle, along which flush_local_labels never ends.
EndOfFile ==
  /\ IsInjective(asm.local)
  /\ lines < MaxLines /\ lines' = lines + 1
  /\ asm' = flush_local_labels(clear_labels(asm))
  /\ auto_alignment' = TRUE /\ text_dir' = TRUE
  /\ file' = file + 1
  /\ UNCHANGED <<refs, disputed>>

Next ==
  \/ \E n \in Names :
       \/ DefineLabel(n)
       \/ LabelDirective(n)
       \/ Word(n)
       \/ Jump(n)
       \/ Global(n)
       \/ \E v \in Values : DefineConstant(n, v)
       \/ \E size \in Sizes : Comm(n, size) \/ Lcomm(n, size) \/ Extern(n, size)
  \/ \E k \in Alignments : Literal(k) \/ Align(k) \/ Space(2^k)
  \/ \E text \in BOOLEAN : Segment(text)
  \/ EndOfFile

Spec == Init /\ [][Next]_vars

-----------------------------------------------------------------------------
(* Properties.                                                             *)

\* Every part of the assembler's state keeps its type: the table leads to
\* labels of the name looked up, only labels that exist are on the lists,
\* the uses recorded are in the segments, and the location counters stay in
\* theirs, the one of the small data below its top.
TypeOK ==
  /\ \A id \in Labels :
       /\ asm.entry[id].name \in Names /\ asm.entry[id].addr \in Nat
       /\ \A u \in asm.entry[id].uses :
            u.addr \in IF u.place = "text" THEN TextBot .. LastText ELSE DataBytes
  /\ \A n \in Names : Known(n) => asm.entry[asm.table[n]].name = n
  /\ ToSet(asm.local) \cup ToSet(asm.line) \cup disputed \subseteq Labels
  /\ asm.next_text_pc \in TextBot .. LastText
  /\ asm.next_data_pc \in DataBot .. LastData
  /\ asm.next_gp_item_addr \in GpBot .. GpTop
  /\ auto_alignment \in BOOLEAN /\ text_dir \in BOOLEAN
  /\ file \in Nat /\ lines \in 0 .. MaxLines

\* The value of the instruction or word that r was assembled to.
Held(r) ==
  IF r.place = "text" THEN asm.text[r.addr]
  ELSE LET b == asm.data[r.addr]
       IN IF \A i \in 0 .. 3 : asm.data[r.addr + i] = <<b[1], i>> THEN b[1] ELSE -1

\* Between lines, whatever uses a label that is defined holds its address:
\* uses before and after the definition, in text and in data, of labels that
\* alignment moved, and of globals across files (record_*_uses_symbol,
\* resolve_label_uses).  A forward use in a misaligned word is never
\* patched, and labels placed twice are left out.
UsesHoldAddress ==
  \A r \in refs :
    LET addr == asm.entry[r.label].addr
    IN (/\ addr # 0
        /\ r.label \notin ToSet(asm.line) \cup disputed
        /\ r.forward => r.addr % 4 = 0)
       => Held(r) = addr

\* The labels before a word or an instruction are labels of it: however
\* many there are and whether or not the data have to be aligned, they get
\* the address at which it is stored (fix_current_label_address).
LabelOnDatum ==
  [][\A r \in refs' \ refs : \A id \in ToSet(asm.line) \ disputed :
       asm'.entry[id].addr = r.addr]_vars

\* Nothing that one file defined is seen by the next unless it is global:
\* what the table still holds after the end of a file is global or not yet
\* defined (flush_local_labels).
LocalsHidden ==
  [][file' # file =>
       \A n \in Names : asm'.table[n] # 0 =>
         LET e == asm'.entry[asm'.table[n]] IN e.global_flag \/ e.addr = 0]_vars

\* A label that is used and not defined stays in the table, where the run
\* looks for undefined symbols, and remembers where it was used: otherwise
\* the program would run with the use unresolved and nobody told.
UndefinedReported ==
  \A r \in refs :
    LET e == asm.entry[r.label]
    IN e.addr = 0 /\ ~e.const_flag =>
         /\ asm.table[e.name] = r.label
         /\ \E u \in e.uses : u.addr = r.addr
=============================================================================
