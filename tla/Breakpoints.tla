----------------------------- MODULE Breakpoints -----------------------------
(***************************************************************************)
(* The debugger's breakpoints: add_breakpoint, delete_breakpoint and       *)
(* run_program (CPU/spim-utils.cpp), set_breakpoint and inst_is_breakpoint *)
(* (CPU/inst.cpp), and the commands of the prompt that use them.           *)
(*                                                                         *)
(* A breakpoint is the single break_inst written over the instruction,     *)
(* which a record keeps.  To continue across one, run_program takes it     *)
(* out, runs one step and puts it back; printing an instruction takes it   *)
(* out and puts it back too.  ^C may abandon a run at any point.           *)
(* run_spim is here its effect on breakpoints: it executes instructions    *)
(* until the steps are done, the program exits or a breakpoint is reached. *)
(***************************************************************************)
EXTENDS Integers, Sequences, SequencesExt

CONSTANTS
  LastAddr,     \* the text is 0 .. LastAddr
  Programs,     \* the texts to run, each a function on 0 .. LastAddr
  BreakAddrs,   \* the addresses the user may name in commands
  StartAddrs,   \* addresses a run may start at, besides the current PC
  RunSteps,     \* bound: steps_to_run of a run
  ControlC      \* whether the user may type ^C

Text == 0 .. LastAddr
Data == LastAddr + 1   \* a word of the data segment
Bad  == LastAddr + 2   \* an address outside every segment

Insts == [op : {"plain", "branch", "jr", "exit", "none"}, target : Text]
BREAK == [op |-> "break_inst", target |-> 0]

ASSUME ParametersOK ==
  /\ LastAddr \in Nat
  /\ RunSteps \in Nat \ {0}
  /\ ControlC \in BOOLEAN
  /\ Programs \subseteq [Text -> Insts]
  \* a program that fills the text to its last word is refused when it is read
  /\ \A p \in Programs : p[LastAddr].op \notin {"plain", "branch"}
  /\ BreakAddrs \subseteq Text \cup {Data, Bad}
  /\ StartAddrs \subseteq Text

VARIABLES
  mem,          \* the text segment, "none" where it holds no instruction
  data,         \* a word of the data segment: "value", or "zero"
  bkpts,        \* for each address the instructions that the records of it
                \*   keep, the newest first; how records of different
                \*   addresses follow one another only list_breakpoints tells
  PC,
  EXL,          \* bit of CP0 Status
  exception_occurred,
  left,         \* steps the current run_spim has left
  phase,        \* of run_program: "idle", "over" while it steps over a
                \*   breakpoint, "back" before it is put back, "run"
  over,         \* the address stepped over
  hit,          \* run_program's result: a breakpoint was encountered
  continuable,  \* and whether the program can continue
  program,      \* history: the text without any breakpoint
  wanted        \* history: the breakpoints the user has set and not deleted

vars == <<mem, data, bkpts, PC, EXL, exception_occurred, left, phase, over,
          hit, continuable, program, wanted>>
cpu  == <<PC, left, phase, over, hit, continuable, program>>

Init ==
  /\ program \in Programs
  /\ mem = program /\ data = "value"
  /\ bkpts = [a \in Text |-> <<>>]
  /\ PC = 0 /\ EXL = 0 /\ exception_occurred = 0
  /\ left = 0 /\ phase = "idle" /\ over = 0
  /\ hit = FALSE /\ continuable = TRUE
  /\ wanted = {}

-----------------------------------------------------------------------------
(***************************************************************************)
(* The records.                                                            *)
(***************************************************************************)
\* Mutant: a breakpoint is set where one is set already.
AddToTextAgain(a) ==
  /\ exception_occurred' = 0
  /\ mem' = [mem EXCEPT ![a] = BREAK]
  /\ bkpts' = IF mem[a].op = "none" THEN bkpts
              ELSE [bkpts EXCEPT ![a] = <<mem[a]>> \o @]
  /\ UNCHANGED <<data, EXL>>

\* set_breakpoint, add_breakpoint.  In a word that holds no instruction the
\* break is stored, but the old instruction is NULL and nothing is recorded.
AddToText(a) ==
  /\ exception_occurred' = 0
  /\ mem' = [mem EXCEPT ![a] = BREAK]
  /\ bkpts' = IF mem[a] = BREAK \/ mem[a].op = "none" THEN bkpts
              ELSE [bkpts EXCEPT ![a] = <<mem[a]>> \o @]
  /\ UNCHANGED <<data, EXL>>

\* Outside the text read_mem_inst and set_mem_inst raise an exception, and
\* bad_text_write stores the encoding of break_inst, which is 0.
AddOutsideText(a) ==
  /\ exception_occurred' = 1
  /\ EXL' = 1
  /\ data' = IF a = Data THEN "zero" ELSE data
  /\ UNCHANGED <<mem, bkpts>>

add_breakpoint(a) == IF a \in Text THEN AddToText(a) ELSE AddOutsideText(a)

\* Mutant: whatever record is met first gives its instruction back.
delete_breakpoint_any(a) ==
  IF \A b \in Text : bkpts[b] = <<>> THEN UNCHANGED <<mem, bkpts>>
  ELSE \E b \in Text :
         /\ bkpts[b] # <<>>
         /\ mem' = [mem EXCEPT ![a] = Last(bkpts[b])]
         /\ bkpts' = [bkpts EXCEPT ![b] = <<>>]

\* Every record of a is removed; the oldest, met last, leaves its instruction.
delete_breakpoint(a) ==
  IF a \notin Text \/ bkpts[a] = <<>> THEN UNCHANGED <<mem, bkpts>>
  ELSE /\ mem' = [mem EXCEPT ![a] = Last(bkpts[a])]
       /\ bkpts' = [bkpts EXCEPT ![a] = <<>>]

inst_is_breakpoint(a) == a \in Text /\ mem[a] = BREAK

-----------------------------------------------------------------------------
(***************************************************************************)
(* Commands of the prompt.                                                 *)
(***************************************************************************)
SetBreakpoint(a) ==
  /\ phase = "idle"
  /\ add_breakpoint(a)
  /\ wanted' = IF bkpts' # bkpts THEN wanted \cup {a} ELSE wanted
  /\ UNCHANGED cpu

DeleteBreakpoint(a) ==
  /\ phase = "idle"
  /\ delete_breakpoint(a)
  /\ wanted' = wanted \ {a}
  /\ UNCHANGED <<data, EXL, exception_occurred, cpu>>

\* The call of run_program, up to its first call of run_spim.
run_program(pc, cont_bkpt) ==
  /\ exception_occurred' = 0
  /\ PC' = pc
  /\ IF cont_bkpt /\ inst_is_breakpoint(pc)
     THEN /\ delete_breakpoint(pc)
          /\ left' = 1 /\ phase' = "over" /\ over' = pc
     ELSE /\ left' = RunSteps /\ phase' = "run"
          /\ UNCHANGED <<mem, bkpts, over>>
  /\ UNCHANGED <<data, EXL, hit, continuable, program, wanted>>

Run(pc) ==
  /\ phase = "idle"
  /\ run_program(pc, FALSE)

Continue ==
  /\ phase = "idle"
  /\ run_program(PC, TRUE)

-----------------------------------------------------------------------------
(***************************************************************************)
(* run_spim and the rest of run_program.                                   *)
(***************************************************************************)
Running == phase \in {"over", "run"}

\* What follows run_spim: the breakpoint is put back, or the run is over.
Returned(ok) ==
  /\ continuable' = ok
  /\ phase' = IF phase = "over" THEN "back" ELSE "idle"

\* One instruction, which goes to target.
Execute(target) ==
  /\ Running /\ left > 0
  /\ PC' = target
  /\ left' = left - 1
  /\ exception_occurred' = 0
  /\ UNCHANGED <<mem, data, bkpts, EXL, phase, over, hit, continuable, program,
                 wanted>>

Sequential == mem[PC].op \in {"plain", "branch"} /\ Execute(PC + 1)

Transfer == mem[PC].op \in {"branch", "jr"} /\ Execute(mem[PC].target)

\* The exit syscall: run_spim returns false, the PC stays.
Exit ==
  /\ Running /\ left > 0
  /\ mem[PC].op = "exit"
  /\ Returned(FALSE)
  /\ exception_occurred' = 0
  /\ hit' = FALSE
  /\ UNCHANGED <<mem, data, bkpts, PC, EXL, left, over, program, wanted>>

\* The steps are done.
Done ==
  /\ Running /\ left = 0
  /\ Returned(TRUE)
  /\ hit' = FALSE
  /\ UNCHANGED <<mem, data, bkpts, PC, EXL, exception_occurred, left, over,
                 program, wanted>>

\* The breakpoint is reached; run_program turns EXL off again when it was not
\* stepping over one.
ReachBreakpoint ==
  /\ Running /\ left > 0
  /\ inst_is_breakpoint(PC)
  /\ Returned(TRUE)
  /\ exception_occurred' = 1
  /\ EXL' = IF phase = "over" THEN 1 ELSE 0
  /\ hit' = (phase = "run")
  /\ UNCHANGED <<mem, data, bkpts, PC, left, over, program, wanted>>

\* Mutant: the breakpoint is put back where the program is now.
PutBackAtPC ==
  /\ phase = "back"
  /\ add_breakpoint(PC)
  /\ left' = RunSteps - 1 /\ phase' = "run"
  /\ UNCHANGED <<PC, over, hit, continuable, program, wanted>>

\* add_breakpoint, and the second call of run_spim.
PutBack ==
  /\ phase = "back"
  /\ add_breakpoint(over)
  /\ left' = RunSteps - 1 /\ phase' = "run"
  /\ UNCHANGED <<PC, over, hit, continuable, program, wanted>>

\* ^C and run_error: longjmp out of run_spim and run_program.
LongJump ==
  /\ phase' = "idle"
  /\ UNCHANGED <<mem, data, bkpts, PC, EXL, exception_occurred, left, over, hit,
                 continuable, program, wanted>>

TypeControlC == ControlC /\ phase # "idle" /\ LongJump

NonInstruction == Running /\ left > 0 /\ mem[PC].op = "none" /\ LongJump

\* print_inst, at the prompt or before the instruction that a step shows:
\* delete_breakpoint and add_breakpoint, so that one record remains.  Without a
\* record the break stays in memory and format_an_inst calls itself for ever.
print_inst(a) ==
  /\ phase = "idle" \/ (phase = "run" /\ left > 0 /\ a = PC)
  /\ inst_is_breakpoint(a)
  /\ bkpts[a] # <<>>
  /\ bkpts' = [bkpts EXCEPT ![a] = <<Last(@)>>]
  /\ exception_occurred' = 0
  /\ UNCHANGED <<mem, data, EXL, wanted, cpu>>

Prompt ==
  \/ \E a \in BreakAddrs : SetBreakpoint(a) \/ DeleteBreakpoint(a) \/ print_inst(a)
  \/ \E pc \in StartAddrs \cup {PC} : Run(pc)
  \/ Continue
  \/ TypeControlC

Machine ==
  \/ Sequential \/ Transfer \/ Exit \/ Done
  \/ ReachBreakpoint \/ PutBack \/ NonInstruction

Next == Prompt \/ Machine

Spec == Init /\ [][Next]_vars /\ WF_vars(Machine)

-----------------------------------------------------------------------------
\* The values that the variables of run_program and of the records take.
TypeOK ==
  /\ program \in Programs
  /\ mem \in [Text -> Insts \cup {BREAK}] /\ data \in {"value", "zero"}
  /\ bkpts \in [Text -> Seq(Insts)]
  /\ PC \in Text /\ over \in Text
  /\ EXL \in {0, 1} /\ exception_occurred \in {0, 1}
  /\ left \in 0 .. RunSteps
  /\ phase \in {"idle", "over", "back", "run"}
  /\ hit \in BOOLEAN /\ continuable \in BOOLEAN
  /\ wanted \subseteq Text

\* The user names no word of the text that holds no instruction: what a break set
\* there does is described at AddToText.
NamesInstructions ==
  \A p \in Programs : \A a \in BreakAddrs \cap Text : p[a].op # "none"

\* The records and the memory agree: a break is in memory exactly where a
\* record says so, one record for each, which keeps the program's own
\* instruction; every other word is the program's.
RecordsExact ==
  \A a \in Text :
    IF bkpts[a] = <<>> THEN mem[a] = program[a]
    ELSE mem[a] = BREAK /\ bkpts[a] = <<program[a]>>

\* Debugging is transparent: with breakpoints set, deleted and stepped over at
\* any time the program executes its own instructions one after the other.
User == INSTANCE UserMachine
          WITH Delayed <- FALSE, code <- program, pc <- PC, npc <- PC + 1

TransparentDebugging == User!Spec

\* A run never executes an instruction at which the user has set a breakpoint
\* and not deleted it, except to step over the one it continues from.
BreakpointsHit ==
  [][phase = "run" /\ PC \in wanted => left' >= left]_vars
=============================================================================
