# A verification project for SPIM-curses

SPIM interprets MIPS32 programs: it assembles a source file into memory, runs
it instruction by instruction, and offers a command prompt with breakpoints
and single steps. This directory holds TLA+ modules that model its core logic,
TLC configurations that check them on small instances, and TLAPS proofs of the
results that matter most for every value of the constants.

Line numbers below refer to `src/` at the commit modelled.

## 1. Inventory

| Component | State | Operations | Interacts with | Hard because |
|---|---|---|---|---|
| **Execution core** `CPU/run.cpp`, `handle_exception` in `CPU/syscall.cpp` | `R`, `PC`, CP0 (Status, Cause, EPC, Count, Compare), `exception_occurred`, `running_in_delay_slot`, the delayed-load pipeline | `run_spim`, `raise_exception`, `handle_exception`, `bump_CP0_timer` | memory, device, prompt | interrupts between any two instructions; `run_spim` calls itself for a delay slot; longjmp out of every loop |
| **Memory-mapped terminal** `CPU/mem.cpp:589-745` | two control registers, a buffer, two timers, two lines of Cause | `check_memory_mapped_IO`, `read_/write_memory_mapped_IO` | core (every `IO_INTERVAL` steps), guest, console | device, guest and run boundaries interleave; edge and level triggering mixed |
| **Breakpoints, run control** `CPU/spim-utils.cpp:336-470`, `CPU/inst.cpp:1010-1045` | the list `bkpts`, `break_inst` in memory | `add_breakpoint`, `delete_breakpoint`, `run_program`, printing | core, prompt | state split between memory and records; ^C in the middle |
| **Guest's exception handler** `CPU/exceptions.s` | save words, EPC, Cause | entry, skip or retry, return | core | not re-entrant; must tell faults from interrupts |
| **Memory segments** `CPU/mem.cpp:60-560` | five segments with bounds and limits | `make_memory`, `expand_data/stack/k_data`, checked reads and writes | core, assembler, `sbrk` | growth, limits, faulting accesses with side effects |
| **Symbol table** `CPU/sym-tbl.cpp` | hash table, `local_labels`, uses not yet resolved | `record_label`, `make_label_global`, `record_*_uses_symbol`, `flush_local_labels` | parser, text, data | forward references, several files, one list per file |
| **Text and data layout** `CPU/data.cpp`, `CPU/inst.cpp:90-260` | location counters, alignment flag | `.align`, `.word`, `.space`, `.comm`, `.lcomm`, `.extern`, `store_instruction` | symbol table, segments | labels move when data is aligned |
| **Assembler** `CPU/inst.cpp`, `CPU/parser.y`, `CPU/op.h` | instruction under construction | expansion of pseudo instructions, immediates, encoding, decoding | symbol table, segments | carries between halves, registers used twice, words that decode to something else |
| **Integer and FP instructions** `CPU/run.cpp` | registers, the pipeline of delayed loads | ALU, shifts, unaligned accesses, FP | memory | overflow, sign, width, byte order, delayed loads and branches |
| **System calls** `CPU/syscall.cpp` | - | print, read, `sbrk`, files, exit | host, segments | host I/O |
| **World and stack initialization** `CPU/spim-utils.cpp:81-330` | everything above | `initialize_world`, `initialize_run_stack` | all | completeness, alignment |
| **Terminal front end** `spim/spim.cpp` | last command, console mode | the commands, `top_level`, ^C | all | longjmp, static state of repeated commands |
| **Curses front end** `spim/spimcurses.cpp`, `spim/cursespane.cpp` | panes | drawing | core | - |
| **Scanner, grammar, output helpers** | tokens, label list | translation | assembler | tables |

What makes each correct: the *core* must show the guest a machine that
executes its instructions in order, each once, whatever interrupts, chunk ends
and run ends do; a *device* must lose, repeat or invent no character and no
interrupt; *breakpoints* must be invisible to the program and kept until
deleted; *segments* must keep their contents and limits when they grow; the
*symbol table* must give every use the address of its definition whatever the
order; the *layout* must place labels on their data; the *assembler* must
expand without changing meaning; *front ends* must leave nothing stale behind.

The hazards found while reading are listed, each at its line, in
`PROJECT.json`.

## 2. Modules

| Module | Models | State and actions |
|---|---|---|
| `RunSpim` | `run_spim`, `raise_exception`, `handle_exception`, `run_program` without breakpoints | `frames` is the stack of active calls of `run_spim` (steps left beyond and in the chunk, return value; for a nested call where its caller jumps next). `OuterLoop` is the head of the outer loop, `Step` one turn of the inner one with one disjunct for each way an instruction affects control, `ReturnFromSlot` the rest of `JUMP_INST` after its nested call, `Return`/`RunProgram`/`EndRunProgram` the caller, `NonInstruction` and `TypeControlC` the longjmps. |
| `UserMachine` | what the guest is promised | `pc`, `npc`: a machine without interrupts, exceptions or runs. |
| `MappedIO` | the terminal device | the static variables of `mem.cpp`, the device's lines of Cause, the console. One action per branch of the three IO functions. |
| `Breakpoints` | breakpoint records and `run_program` | memory, `bkpts` as the records of each address, the newest first, the phase of `run_program` (stepping over, before putting back, running). Printing an instruction takes the break out and puts it back. `run_spim` appears as its effect: it executes instructions until the steps are done, an exit or a break. |
| `Assembler` | the symbol table, the location counters and the lines of the grammar that define and use labels | `asm` holds the label structures, the hash table, `local_labels`, `this_line_labels`, the words stored and the location counters; the operators named like the C functions map one value of it to the next. One action per kind of source line, with the `clear_labels` that ends it; `EndOfFile` goes on to the next file. |
| `Instructions` | the cases of the switch of `run_spim` on integer registers and memory | operators on a machine `[R, HI, LO, F, FCC, mem, exception, PC, late1, late2]`, one for each group of cases that share their code; `late1`, `late2` are the pipeline of delayed loads |
| `FloatingPoint` | those of coprocessor 1 that move, load, store, compare, `abs` and `neg` | operators on the same machine |
| `InstructionStep` | a turn of the inner loop on a line's code | `RunStep`: `R[0]` cleared, late loads arrive, the instruction, branches with or without the nested run of their slot |
| `LineMeaning`, `FloatMeaning` | what the programmer of a line is promised | relations between the machine before and after, in arithmetic, sets of bits and bytes |
| `PseudoInstructions` | the rules of `parser.y` and the functions of `inst.cpp` that make instructions of a line, and the resolution of a symbol in them | `Assemble` makes the code of a line, `DefineSymbol` patches it when the symbol comes later, `RunInstruction` executes it |
| `Encoding` | the table of `op.h`, `inst_encode`, `inst_decode`, a guest that copies code | `inst` and `copy`: one action for a copied word and one for a copied byte |
| `Segments` | `mem.cpp` without the devices, `sbrk`, `increment_data_pc`, `store_*`, `.space` and alignment as far as they meet the segments | `m` the segments, `pc` the location counters, `last` the operation and its outcome. One action per operation |
| `FlatMemory` | what a program may rely on of memory | `memory`, a function from addresses to bytes |
| `MC*` | | guest programs and other values for TLC |
| `RunSpimProofs` | | theorems and proofs about `RunSpim`, in three parts: for delayed branches or not, with them, without them |
| `MappedIOProofs`, `BreakpointsProofs`, `AssemblerProofs`, `SegmentsProofs`, `EncodingProofs`, `PseudoInstructionsProofs` | | theorems and proofs about the modules they are named for |
| `LineMeaningProofs` | | theorems and proofs that lines do what they say |

How they fit together. `RunSpim` sees an instruction as its effect on control
and lets every exception happen at any time; `Instructions`, `FloatingPoint`
and `InstructionStep` say what it does to the registers and to memory, and
`PseudoInstructions` composes them with the assembler, so that the text of a
line is compared with what running it does. `Segments` is the memory those
instructions use, `MappedIO` what it has at the addresses of the devices.
`Encoding` is the way text takes through data memory.

Abstractions.

- In `RunSpim` and `Breakpoints` an instruction is its effect on control:
  `plain` has none, `trap`, `branch` and `likely` may go either way,
  `ei`/`di`/`ack`/`skip` are the `mtc0`s of a handler. Addresses count words
  and all addresses outside the text are one, `Bad`. The interrupt mask of
  Status is taken to let every line through. `force_break` is never set in the
  source and is left out. The tick of the host's timer may be seen by any poll.
- In `MappedIO` characters are numbered in the order typed.
- In `Assembler` a jump stands for the instructions that use a label, a
  literal for the data of its size, bare machine off, and there is one data and
  one text segment; `.byte` and `.half` take no labels.
- In `Instructions` and above, the width of a word is a parameter: a byte has
  `ByteBits` bits, a half two bytes, a word four, and the 31, 24 and 16 of the
  code scale. Registers are numbered from 0, the link register is the last and
  `$at` is 1. The operators `&`, `|` and `^` of C are parameters too; TLC takes
  them from `Bitwise`.
- A floating-point number is a word, or two, read as a sign and a magnitude,
  the largest magnitude being NaN. That is all that comparisons, moves and
  changes of sign tell apart, and it keeps the order, the two zeros and
  unordered operands of the host's format.
- In `Encoding` a word is the set of its bits that are 1, at its real width, and
  so is a field of it; a shift moves the set. The table is the real one.
- In `Segments` a word is its four bytes in the order of memory, one text
  segment stands for both, and memory fresh from `realloc` holds anything of
  `Junk`.
- Variables commented *history* are read by properties only.

Abstract specifications. `UserMachine` is that of both `RunSpim` and
`Breakpoints`. The refinement mapping of `RunSpim` puts the guest at `EPC`
while `EXL` is set and at the jump's target once its delay slot is done; that
of `Breakpoints` hides the break behind the program's own text. `FlatMemory` is
that of `Segments`: its mapping joins the segments into one function, and takes
an instruction stored outside text for a store, which it is although `IBE` is
raised. `LineMeaning` is that of `PseudoInstructions`, as a relation at the end
of the line.

## 3. Runs

Each run is a `.cfg` beside its `MC` module.

| Run | Checks | Shows |
|---|---|---|
| `device` | `TypeOK`, `LevelTriggered`, `InOrderOnce`, `OverwrittenLate`, `OutputPaced`, `TransmitterRecovers`, `InputTaken` | the terminal with stopping runs, ^C, reinitialization and a guest that clears Cause |
| `core` | `TypeOK`, `InterruptLatency`, `ExitStopsRun`, `ImplementsUserMachine`, `HandlerUndisturbed`, `RunEnds` | `run_spim` without delayed branches: all texts of two instructions after one that enables interrupts, with a handler as `exceptions.s` documents it, or one that faults |
| `delayed` | `SlotFlagExact`, `ImplementsUserMachine`, `DelaySlotRuns` | nested runs of delay slots across run ends |
| `debug` | `TypeOK`, `RecordsExact`, `TransparentDebugging` | breakpoints and ^C, over all texts of three instructions |
| `assemble` | `TypeOK`, `UsesHoldAddress`, `UndefinedReported`, `LabelOnDatum`, `LocalsHidden` | every sequence of five source lines over two labels, in any number of files |
| `translate` | `TypeOK`, `MeansWhatItSays` | every integer line of the grammar and the floating-point lines of section 2, on every build, from every state of its operands: the instructions made of it do what the line says, except for the ten kinds of line `KnownWrong` describes |
| `segments` | `TypeOK`, `WithinLimits`, `SameFate`, `ImplementsFlatMemory` | loads, stores, instructions, `sbrk` and assembled data in any order, up to every limit and past it |
| `encode` | `TypeOK`, `CopyRunsAlike` | every instruction of the table, copied whole or byte by byte in any order over any other word |
| `v_*` | one property each | TLC finds them violated; see section 6 |

Bounds and why they suffice. `device`: delays of 2 and 3 checks and three
characters let one character be read, one be overwritten and one wait at the
same time; the delays differ so that the timers run out of step. `core`:
chunks of 2 steps and runs of 5 make two full chunks and one shortened, so a
run ends at every position of a chunk, and runs follow one another without a
bound; three user instructions and a handler of four are longer than a chunk,
so an interrupt meets every place of both. `delayed`: two jumps with a slot
each may target the instruction, a slot or each other. `debug`: breakpoints on
each of three instructions, at a word of data and outside memory, and at most
four steps in a run. `assemble`: two labels are enough for one line to carry
both; five lines hold a use, a
misaligned datum, two labels and the aligned datum they move to, or a use and
a `.globl` in one file, a definition and a use in the next; the small data
area has room for one item, so `.lcomm` and `.extern` meet its end. The two
labels are symmetric: no definition treats them differently. The run may stop
at the bound on lines or where `local_labels` is a cycle, so deadlock is not
checked.

`translate`: bytes of one bit make words of four bits with halves of two, the
smallest width at which a low half has a sign and a carry into the high half.
Operands range over the values at both ends and around the middle
(`Boundaries`), immediates over all the values a word can have, and operands
and results coincide in every way that changes a result. Two words of memory
let an unaligned access cross from one to the other and leave memory. A run of
a line is finite and stops, so deadlock is not checked. `segments`: the limit
of data is not a multiple of a word, nor that of the stack of its doubled
size, so that rounding and doubling both pass a limit that the bytes asked for
do not; ints of eight bits overflow within one `sbrk`; two stores follow each
other with growth between them. The operation done last is not part of a
state's identity (`VIEW`) unless it ended the program: nothing reads it, and
action properties are checked at every step all the same. `encode`: three
registers, one with no and one with all bits, the immediates at both ends and
in the middle, and targets that fill all their bits reach every field and its
neighbours.

Fairness. `RunSpim` and `Breakpoints` assume weak fairness of the simulator's
own steps: one thread executes them and nothing in the loop waits.
`EndRunProgram` is fair for the same reason. The user need not do anything.
`MappedIO` assumes that `check_memory_mapped_IO` is called again and again
while a run is in progress, which is what the outer loop of `run_spim` does
(`run.cpp:205-212`); the liveness properties all allow the run to end instead.
The other modules state safety only.

Each property has a mutant in `PROJECT.json`: a definition placed beside the
one it replaces, with the bug it stands for in its comment.

## 4. What is proved

All theorems hold for every value of the constants that satisfies
`ParametersOK` (of `Segments`: `SegmentsOK`; of `PseudoInstructions`: those
named there), and for every guest program that
meets the hypotheses named. The hypotheses about guests and commands are
operators (`WellBehaved`, `QuietSlots`, `PlainSlots`, `InterruptsOff`,
`NamesInstructions`), and ASSUMEs of `MCRunSpim` and `MCBreakpoints` have TLC
check that the guests and commands of the runs satisfy them.

`MappedIOProofs`:

- `Typing`: `TypeOK`, inductive as it stands.
- `Pacing` (`OutputPaced`) and `LateOverwrite` (`OverwrittenLate`) follow from
  the invariant `Clocks`: a busy transmitter's timer and the checks since its
  last character add up to `TRANS_LATENCY`, and an unread character's to at
  least `RECV_INTERVAL`. The properties themselves speak of one step only and
  could not be carried through the checks in between.
- `Level` (`LevelTriggered`), for a guest that only clears Cause.
- `InOrder` (`InOrderOnce`) needs `Fresh`: what the buffer holds while READY
  is later than everything read.

`RunSpimProofs`, first part, for delayed branches or not unless stated:

- `Typing`: `TypeOK` needs `Typed`: a caller is in the middle of its chunk
  (it still has to count the step its jump is), nested calls have at most one
  step, and chunks are no longer than `IO_INTERVAL`.
- `Latency` (`InterruptLatency`) needs `Prompt`: the steps issued while an
  interrupt waits and the steps left in the chunk stay below the interval.
- `ExitStops` (`ExitStopsRun`) without delayed branches, from `Shallow`: then
  no call is nested. With delayed branches it is false (run `v_exit`).
- `Undisturbed` (`HandlerUndisturbed`), one case for each action.

`SegmentsProofs`, for segments, limits and ints of any size and any number of
stores:

- `Limits` (`WithinLimits`). The invariant `Sound` adds that the segments are
  sequences of bytes and the location counters integers: without it the length
  of what a store leaves behind says nothing. The heart of it is one lemma for
  each way to grow (`StackGrows`, `DataGrow`, `KernelDataGrow`): the check is
  made after rounding, a size beyond the ints ends the program, and the amount
  the assembler asks for is not negative because its counter has passed the top
  (`IncrementKeeps`).
- `SameFates` (`SameFate`), from the same invariant: whatever the sizes, a
  touched address is above the bottom of the stack it has made grow
  (`Reached`), so a store finds there the memory a load would.
- `Typing` (`TypeOK`) and `SegmentsAreFlatMemory` (`ImplementsFlatMemory`),
  from `Arranged`, which adds to `Sound` that segments hold whole words and that
  the location counters are not below their segments. Whole words make an
  aligned access end in the segment it begins in (`Inside`), the layout makes
  segments disjoint however they grow (`Regions`), and each way to grow keeps
  what was there and adds zeros (`StackGrownView`, `DataGrownView`). A datum is
  stored before the memory behind it grows, so the two have to be joined
  (`KeptThen`). In the kernel's data, where `expand_k_data` clears bytes in the
  wrong place, the datum just stored stays all the same (`DatumStays`): it lies
  at the top, growth is then by one quantum, and what is cleared ends at a
  quarter of the new size.

`RunSpimProofs`, third part, without delayed branches:

- `GuestIsUserMachine` (`ImplementsUserMachine`), for a guest that is
  `WellBehaved`: its program stays in its own text or leaves memory, and its
  handler is a part of the kernel's text left by `eret` alone, which moves EPC
  only after a fault and once. The handler as its comments describe it is one;
  the shipped one is not, because it skips an instruction after an interrupt
  too (run `v_shipped`). The refinement mapping puts the guest at EPC in the
  handler, so the invariant `Inhabited` says where both are (`Placed`): outside
  the handler the PC is the program's, inside it EPC is, and as long as a cause
  other than an interrupt has not been dealt with, EPC is at an instruction that
  can fault. Every step is then one of four ways to move (`Moves`), and each is
  a step of `UserMachine` or none.

`RunSpimProofs`, second part, with delayed branches:

- `SlotExecuted` (`DelaySlotRuns`), with interrupts off. `SlotsRun`: every
  nested call but the innermost has executed its slot, and the innermost one is
  at it until it has finished.
- `SlotFlags` (`SlotFlagExact`), without delayed branches, or without ^C and
  with slots that neither jump nor are empty. Each of the three leaves the flag
  wrong. `Flagged` needs no more than one nested call, which needs in turn that
  no interrupt sends it to a jump of the handler.
- `SlotsAreUserMachine` (`ImplementsUserMachine`), without ^C and interrupts,
  for plain instructions in the slots. `Slotted` keeps, while the slot has not
  run, that its plain instruction will lead to the target the caller remembers.

`BreakpointsProofs`:

- `Typing` (`TypeOK`) needs `Own`: memory holds the program's instruction or
  the break, and every record the program's instruction. Without it nothing
  keeps the PC in the text.
- `Records` (`RecordsExact`) if the user names no word of the text that holds
  no instruction (`NamesInstructions`): there the break is stored and nothing
  recorded. `Recorded` follows the record that `run_program` has taken out.
- `Transparent` (`TransparentDebugging`), with breakpoints anywhere and ^C, if
  every run continues from the PC.
- `Hit` (`BreakpointsHit`) without ^C. The run `v_lost` refutes that property:
  with this theorem ^C is the only reason, whatever is set, deleted, printed or
  stepped over. `Wanted`: what the user wants has its record, but for the
  address stepped over, where the run has one step left.

`AssemblerProofs`, for any names, segments and number of lines:

- `Typing` (`TypeOK`), from the invariant `IInv`. Its heart `Good` ties the
  parts of the state: the table leads to labels of the name looked up, what the
  lists hold is in the table and defined, a label of the table that has an
  address is global or will be flushed, and a use is no further than its
  location counter.
- `Hidden` (`LocalsHidden`) from the same: the labels that
  `flush_local_labels` finds on its list are all those that are neither global
  nor undefined.
- `UndefinedKept` (`UndefinedReported`) unless a `.word` of the text names a
  label: `Remembered` says it of every use, within a line too.
- `OnItsDatum` (`LabelOnDatum`). `OnDatum`: the labels of the current line have
  the address of the location counter.
- `UsesFilled` (`UsesHoldAddress`) unless a `.word` of the text names a label.
  The invariant has four parts. `Laid`: the words that use labels are stored
  and no two overlap, and what a label remembers is one of its own uses.
  `Awaited`: a use of an undefined label is remembered. `OnLine`: so is one of
  a label just defined, whose address may still move. `Filled`: every other use
  holds the address. Because a place has one user, resolving one label leaves
  the uses of all others alone; a `.word` of the text breaks this, being
  remembered at a place of the data (section 6).

`EncodingProofs`, for all registers, immediates, targets, codes and words of
data (`ParametersAssumption` only says that they are sets of bits of their
width):

- `EncodingTypeOK` (`TypeOK`) and `CopiesRunAlike` (`CopyRunsAlike`). The
  invariant `IInv` says where the two words come from: the original is a line of
  the assembler with the word `inst_encode` made of it, the copy is one of the
  instructions `inst_decode` makes of its own word, and every byte copied is
  that of the original. A complete copy then has the original's word
  (`SameBytes`), whatever was under it and in whatever order the bytes came, and
  what is left is that decoding is the inverse of encoding (`StoredAlike`), in
  both directions: `Lost` names no instruction that survives. That takes the
  word bit by bit (`EncodedBit`), the fields read back from it (`FieldsBack`),
  the operation found in it (`WordFound`) and, for rows whose fields collide, a
  witness of the difference (`OthersAlike`, `Cop2Alike`).
- What these need of the 340 rows of `op.h` is `TableAssumption`: a row tells
  its operation by bits that no operand reaches and is zero where operands go.
  It is an assumption of the module because it is a computation and no
  argument; it is closed and mentions no operand, and TLC evaluates all of it,
  for every row, at the start of `encode`. What the run alone could show for a few
  operands, the proof shows for all.

`PseudoInstructionsProofs`, for words of any width, any number of registers and
any memory made of whole words:

- `TranslationTypeOK` (`TypeOK`): no line, on any build, before or after its
  symbol is defined, leads the machine out of its type. The invariant `TypeInv`
  says of the code what the switch of `run_spim` relies on (`CodeOK`, `Good`,
  `Closed`): operands are registers of the kind the instruction takes, with a
  second one where it needs it, and shift amounts and condition flags are in
  range; the grammar makes only such code (`AssembledOK`, by the rule that reads
  the line) and patching keeps it (`PatchedOK`). Every instruction then keeps
  the machine's type (`PlainType`, `RunStepType`), which is arithmetic modulo
  the word for each.
- Assumed, and evaluated by TLC in `translate`: powers of two are what they are
  (`WidthOK`, for which the prover has no induction), the operators of C make
  words of words (`BitsOK`) and join two halves (`JoinOK`), the registers begin at 0 and memory is made of
  words (`MachineOK`), floating-point registers come in pairs (`FloatOK`), and
  a line has operands the grammar admits (`LinesOK`), with a register after
  it where the line writes two: `ld` of `$31` uses one that does not exist, see
  section 6.

`LineMeaningProofs`, under the same assumptions:

- `AccessesMeanWhatTheySay` (`MeansWhatItSays` of the loads and stores of the
  machine), for lines that do not use `$at`. The invariant `LineInv` says that
  the code is what the assembler made of the line, patched, and that the machine
  is reached from the one the line started with by turns of the loop (`Runs`).
  The code is then one of three (`AccessCode`: one instruction, or `lui` and the
  access with or without `addu` between them), and `PatchedTwo`, `PatchedThree`
  and `HighKnown` show that it does not matter whether the expansion or the
  definition of the symbol adds the carry: the halves add up to the address
  again, whatever the sign of the low one (`PiecesSum`). The turns before the
  last change nothing but `$at` (`PiecesRun`), and the last one is the access
  (`LoadArrives`, `StoreArrives`), late or at once, whose bytes are the ones
  promised (`DatumFetched`, `StoredDatum`).
- `RegisterLinesMeanWhatTheySay` (`MeansWhatItSays` of the lines on registers
  that add, subtract, negate, compare, move, move on a condition, move from HI
  or LO, or trap). The code is one instruction (`RegisterCode`), which finds the
  operands of the line in its registers, swapped or with register 0 for one
  (`RegisterFinds`), and what it leaves is what is promised (`FindsMeans`): the
  result as a number and the overflow by `SignedSum` and `SignedDifference`,
  which say that the tests of the code on sign bits are exactly "out of range"
  in two's complement, at every width.
- `ImmediatesMeanWhatTheySay` (`MeansWhatItSays` of the lines with an immediate
  that add, subtract, compare or trap, of `li` and of `la`), for lines that do
  not read `$at`, whatever the size of the immediate and whether its symbol is
  defined before or after. The code is one instruction, or brings the immediate
  into a register by `lui`, `ori` or both (`ImmediateCode`, `Produces`,
  `ProducesFor`), and when the symbol comes later patching makes the same halves
  of it (`PatchedHalves`). Executed, they leave the immediate in that register
  and change nothing else (`ProduceRun`), so that the instruction after them
  finds what a line on registers would (`Puts`, `Brings`, `FoundMeans`); `sub`
  adds the negative number, which is a difference except for the least word
  (`Difference`, `SignedNegative`). `LineInv` also says that code which is
  executed holds no instruction the assembler stops at; these lines never make
  one (`ImmediateNotFatal`). Excepted are the failures of section 6: `sub` of
  the least word, a `la` that overflows, a trap too wide.
- `ProductsMeanWhatTheySay` (`MeansWhatItSays` of the lines that multiply into HI
  and LO, with a sign or without, add the product to them or take it away, of
  `div` and `divu` with two registers, `mthi`, `mtlo`, and of `mul` on registers
  or with an immediate of any width). The sums of half-word products that
  `unsigned_multiply` makes, each with the carry it finds by comparing, are the
  product (`Carried`, `UnsignedProduct`), and the sign, multiplied apart, negates
  the double word (`Negated`, `SignedProduct`). `madd` and `msub` carry and
  borrow between LO and HI (`DoubleSum`, `DoubleDifference`), and the quotient,
  cut towards zero, fits a word (`TruncatedFacts`, `QuotientInRange`). The code is
  one instruction (`ProductCode`), or brings the immediate into `$at` and
  multiplies by it (`MulImmediateCode`). Excepted are a divisor of 0, the
  overflow of the signed division (`Undefined`), and the operands `divu` refuses,
  a failure of section 6.

Only model-checked: every liveness property (`RunEnds`, `TransmitterRecovers`,
`InputTaken`), since the prover does not treat ENABLED and fairness; and
`MeansWhatItSays` of the other lines: unaligned and floating-point accesses,
the logical operators, shifts and rotations, the divisions, remainders and
multiplications that are several instructions (`div`, `rem` and `mulo`, with the
checks they make), branches, and comparisons that are several instructions. Many
need facts about sets of bits, which the prover does not find, or follow a branch
inside the code of the line, where the argument above is about straight code.

## 5. Plan

1. `MeansWhatItSays` as a theorem for more groups of lines.
2. A composition of `RunSpim`, `MappedIO` and the handler of `exceptions.s`;
   breakpoints inside the handler.
3. `Assembler` further: kernel segments, addresses given to `.data` and
   `.text`, branches among the uses, with their distance at a small width.
4. The terminal: console modes, repeated commands, longjmp;
   `initialize_run_stack`.

## 6. Where the code does not do what it says

| Run | What happens |
|---|---|
| `v_exit` | `JUMP_INST` ignores what the nested run returns: exit in a delay slot does not exit. |
| `v_shipped` | `exceptions.s` falls through from the interrupt path to the one that skips an instruction. |
| `v_lost` | ^C during the step over a breakpoint deletes it. |
| `v_kdata` | `expand_k_data` clears bytes in the middle of the segment and leaves the new ones as they are. |

Met on the way, with no run of their own.

Of running:

- `initialize_world` leaves timers, READY and enable bits of the terminal as
  the last program left them.
- An interrupt at the head of a nested run takes the place of the instruction
  in the slot. A longjmp out of a slot leaves `running_in_delay_slot` set.
- With delayed branches `eret` executes the instruction after it before it
  reads EPC, and a breakpoint in a delay slot enters the guest's handler.
- Without `mapped_io` the chunk is the whole run, and the timer's interrupt
  waits for its end.
- A breakpoint on an empty word is stored and never recorded, and printing that
  word recurses without end (`inst.cpp:695-702`); one refused at a data address clears
  the word. Continuing at a breakpoint on an exit syscall
  stops there again. Deleting one after the guest has stored over it brings the
  old instruction back.

Of instructions (the first item lists the ten kinds of line that `KnownWrong`
of `PseudoInstructions` names):

- `ulw`, `ulh`, `ulhu` and `ld` overwrite their base when it is their
  destination, and `ush` when it is its source; `ush` leaves its source rotated
  when its second byte faults; `divu` and `remu` refuse 0x80000000 by
  0xffffffff; `bgt` and `ble` with the largest immediate and `sub` with the
  smallest overflow it; `sle` and `sge` overwrite an operand under delayed
  branches; `ulw` reads too early under delayed loads; `la` traps on overflow;
  likely branches skip an instruction without delayed branches; an immediate
  that does not fit stops the assembler at `teqi` and its kind; `ldc1` loses
  its first word under delayed loads.
- Faulting loads write their destination all the same. A misaligned `ldc1` or
  `sdc1` raises its exception and goes on; the exception left by `sdc1` is that
  of its words.
- A delayed load to `$0` is visible to one instruction. `ld` and `sd` of `$31`
  use a register that does not exist, as `ldc1` to `$f31` does.
- `ldc1` takes an odd register, where `sdc1` ends the run. `sc` does not write
  1. Divisions with destination `$0` do not trap on zero. `bgezal` writes the
  link before it reads its operand.
- `round.w` rounds negative numbers the wrong way (`run.cpp`, not modelled).

Of words (`Lost` of `Encoding`): floating-point comparisons and conditional
moves decode with their registers in other fields, `movt` decodes to `movf`,
`break` loses its code, the immediate of `cop2` reaches into the operation.
`floor.w.s` and `trunc.w.s` have the words of other instructions. A word that
decodes to nothing ends the program instead of raising an exception.

Of memory (`Segments`): a byte or half read from, or stored over, an empty word
of text crashes. A datum past the top, after `.align` or `.data` with an
address, is lost without a report. The stack is refused growth when doubling
does not fit although the bytes touched would. A very large `sbrk` passes the
check and fails in `realloc`. An instruction stored outside text raises an
exception and is stored. `.lcomm` in kernel data uses the user's counter.

Of labels (`Assembler`):

- A forward use in a `.word` of the text is recorded at the data location
  counter (`parser.y:2615`): the text keeps 0 and data are overwritten. With
  `WordsInText = TRUE` `UsesHoldAddress` and `UndefinedReported` are false.
- A forward use in a misaligned word is never patched, hence the last
  condition of `UsesHoldAddress`.
- A second definition is reported, but the label stays on its line, and an
  aligned datum there moves it. `x = 0` is not seen as a definition, so a
  second one is not reported; like a second `.lcomm` it makes `local_labels`
  a cycle, and the end of the file is never passed (guard of `EndOfFile`).
- `.extern` of a label defined or used before moves it and leaves the uses.
  These labels are in `disputed`.
- `.globl` after the definition comes too late for `record_label`, and the
  label is flushed with the local ones. A label one file uses and does not
  define is bound to a local label of the next file. `LocalsHidden` says
  neither.
- `.align` in the text moves the labels of its line to the data.
- `cache` hands its address to a function that takes an immediate.

## 7. Not modelled

The floating-point operations that compute and convert (the host's), `cfc1`
and `ctc1`, host I/O of the system calls, the scanner, formatting and the
drawing of panes, `initialize_run_stack`, which copies strings of the host.
Of the parts modelled: `display`, tests of the assembler (`TEST_ASM`), the
Windows timer, the printing of memory, a guest's stores over a breakpoint, and
that the pipeline of delayed loads survives the end of a run.
