------------------------------- MODULE RunSpim -------------------------------
(***************************************************************************)
(* The execution loop of SPIM: run_spim (CPU/run.cpp), raise_exception,    *)
(* handle_exception (CPU/syscall.cpp) and run_program (CPU/spim-utils.cpp) *)
(* without breakpoints, which Breakpoints adds.                            *)
(*                                                                         *)
(* Control is kept whole: the chunks between two interrupt checks, the     *)
(* nested call of run_spim that executes a delay slot, exceptions and the  *)
(* static running_in_delay_slot, the returns from the middle of the loop,  *)
(* and the longjmp of run_error and ^C that abandons every call at once.   *)
(* Data is not: a test of a conditional instruction may come out either    *)
(* way, and the timer and the IO devices may raise their interrupt         *)
(* whenever they are polled.                                               *)
(*                                                                         *)
(* Addresses count words; all addresses outside Text are the single Bad.   *)
(***************************************************************************)
EXTENDS Integers, Sequences

CONSTANTS
  DelayedBranches,  \* delayed_branches
  MappedIO,         \* !bare_machine && mapped_io
  IO_INTERVAL,      \* instructions between two checks when MappedIO
  RunSteps,         \* bound: steps_to_run of a run
  LastAddr,         \* the text is 0 .. LastAddr
  KText,            \* the kernel's text is KText .. LastAddr
  EXCEPTION_ADDR,   \* where exceptions go
  DeviceLines,      \* interrupt lines of the memory-mapped devices
  TimerLine,        \* interrupt line of the CP0 timer
  Programs,         \* the texts to run, each a function on 0 .. LastAddr
  StartAddrs,       \* addresses a run may start at, besides the current PC
  ControlC          \* whether the user may type ^C

Text  == 0 .. LastAddr
Bad   == LastAddr + 1
Addr  == 0 .. Bad
Lines == DeviceLines \cup {TimerLine}

Ops == {"plain", "trap", "branch", "likely", "jr", "j", "eret", "exit", "break",
        "bkpt", "ei", "di", "ack", "skip", "skipfault", "none"}
Codes == {"Int", "Bp", "IBE", "Fault"}

ASSUME ParametersOK ==
  /\ DelayedBranches \in BOOLEAN /\ MappedIO \in BOOLEAN /\ ControlC \in BOOLEAN
  /\ IO_INTERVAL \in Nat \ {0} /\ RunSteps \in Nat \ {0}
  /\ LastAddr \in Nat /\ KText \in Text /\ EXCEPTION_ADDR \in KText .. LastAddr
  /\ Programs \subseteq [Text -> [op : Ops, target : Addr]]
  /\ StartAddrs \subseteq Text

VARIABLES
  text,                   \* the instructions in memory
  PC,
  EXL, IE,                \* bits of CP0 Status
  IP, BD, ExcCode,        \* fields of CP0 Cause
  EPC,
  exception_occurred,
  running_in_delay_slot,
  frames,                 \* the active calls of run_spim, innermost first
  driver,                 \* "run" while run_program is active, else "idle"
  continuable,            \* what the last outermost run_spim returned
  waited,                 \* history: instructions issued while an interrupt
                          \*   was waiting, since the last check
  exited                  \* history: this run has issued an exit syscall

cp0  == <<EXL, IE, IP, BD, ExcCode, EPC>>
vars == <<text, PC, cp0, exception_occurred, running_in_delay_slot, frames,
          driver, continuable, waited, exited>>

Plus4(a)  == IF a = Bad THEN Bad ELSE a + 1
Minus4(a) == IF a \in 1 .. LastAddr THEN a - 1 ELSE Bad
InKernel(a) == a >= KText

(***************************************************************************)
(* A call of run_spim.  left and chunk are the steps beyond and within the *)
(* current chunk, ok its return value.  A nested call has in slot the      *)
(* address of the delay slot it runs, and in ret and target where its      *)
(* caller jumps next; issued is history.                                   *)
(***************************************************************************)
Call(steps, slot, ret, target) ==
  [left |-> steps, chunk |-> 0, ok |-> 1,
   slot |-> slot, ret |-> ret, target |-> target, issued |-> {}]

Top    == Head(frames)
Caller == Head(Tail(frames))
WithTop(f) == <<f>> \o Tail(frames)

Issued(f)      == [f EXCEPT !.issued = @ \cup {PC}]
OneStepDone(f) == [f EXCEPT !.chunk = @ - 1]
\* Mutant: only the inner loop is left.
ReturningToOuterLoop(f, ok) == [f EXCEPT !.chunk = 0, !.ok = ok]

Returning(f, ok) == [f EXCEPT !.left = 0, !.chunk = 0, !.ok = ok]

\* Mutant: the last chunk is not shortened.
ChunkUncut(f) == IF MappedIO THEN IO_INTERVAL ELSE f.left

\* Mutant: a check only when all steps are done, with mapped IO as without.
ChunkToCompletion(f) == f.left

\* MIN (next_step, steps_to_run)
ChunkSize(f) == IF MappedIO /\ IO_INTERVAL < f.left THEN IO_INTERVAL ELSE f.left

NextChunk(f) == [f EXCEPT !.chunk = ChunkSize(f), !.left = @ - ChunkSize(f)]

Init ==
  /\ text \in Programs
  /\ PC = 0
  /\ EXL = 0 /\ IE = 0 /\ IP = {} /\ BD = 0 /\ ExcCode = "Int" /\ EPC = 0
  /\ exception_occurred = 0
  /\ running_in_delay_slot = 0
  /\ frames = <<>>
  /\ driver = "idle"
  /\ continuable = 1
  /\ waited = 0
  /\ exited = 0

-----------------------------------------------------------------------------
(***************************************************************************)
(* raise_exception, for an exception that is not masked.                   *)
(***************************************************************************)
\* Mutant: EPC is read after the PC has been bumped.
RaiseBumped(code) ==
  /\ EPC' = IF EXL = 1 THEN EPC ELSE Plus4(PC)
  /\ BD' = IF EXL = 0 /\ running_in_delay_slot = 1 THEN 1 ELSE BD
  /\ ExcCode' = code
  /\ EXL' = 1

Raise(code) ==
  /\ EPC' = IF EXL = 1 THEN EPC
            ELSE IF running_in_delay_slot = 1 THEN Minus4(PC)
            ELSE PC
  /\ BD' = IF EXL = 0 /\ running_in_delay_slot = 1 THEN 1 ELSE BD
  /\ ExcCode' = code
  /\ EXL' = 1

\* raise_exception, then handle_exception before anything else.
Except(code) ==
  /\ Raise(code)
  /\ PC' = EXCEPTION_ADDR
  /\ exception_occurred' = 0

\* The test raise_exception and run_spim share for an interrupt.
Interruptible(pending) == IE = 1 /\ EXL = 0 /\ pending # {}

-----------------------------------------------------------------------------
(***************************************************************************)
(* The head of the outer loop: the IO check, then the interrupt check.     *)
(***************************************************************************)
StartChunk ==
  /\ frames # <<>>
  /\ Top.chunk = 0 /\ Top.left > 0
  /\ frames' = WithTop(NextChunk(Top))
  /\ waited' = 0
  /\ UNCHANGED <<text, IE, running_in_delay_slot, driver, continuable, exited>>

\* Mutant: the interrupt check ignores EXL.
CheckInterruptNested(lines) ==
  /\ StartChunk
  /\ IP' = IP \cup lines
  /\ IF IE = 1 /\ IP' # {}
     THEN Except("Int")
     ELSE UNCHANGED <<PC, EXL, BD, ExcCode, EPC, exception_occurred>>

CheckInterrupt(lines) ==
  /\ StartChunk
  /\ IP' = IP \cup lines
  /\ IF Interruptible(IP')
     THEN Except("Int")
     ELSE UNCHANGED <<PC, EXL, BD, ExcCode, EPC, exception_occurred>>

OuterLoop ==
  \E lines \in SUBSET DeviceLines :
    /\ ~MappedIO => lines = {}
    /\ CheckInterrupt(lines)

-----------------------------------------------------------------------------
(***************************************************************************)
(* One turn of the inner loop.  Poll is its head, for every instruction:   *)
(* the timer may have expired and reached Compare.                         *)
(***************************************************************************)
Instr == IF PC \in Text THEN text[PC] ELSE [op |-> "bad", target |-> Bad]

Poll(ticks) ==
  /\ frames # <<>>
  /\ Top.chunk > 0
  /\ IP' = IP \cup ticks
  /\ waited' = IF Interruptible(IP) THEN waited + 1 ELSE 0
  /\ UNCHANGED <<text, driver, continuable>>

\* The instruction ends: one more step done.
Done == frames' = WithTop(OneStepDone(Issued(Top)))

\* PC += BYTES_PER_WORD, and no exception.
Advance ==
  /\ Done
  /\ PC' = Plus4(PC)
  /\ exception_occurred' = 0
  /\ UNCHANGED <<running_in_delay_slot, exited>>

\* An instruction without effect on control, or a trap whose test fails.
Plain ==
  /\ Instr.op \in {"plain", "trap"}
  /\ Advance
  /\ UNCHANGED <<EXL, IE, BD, ExcCode, EPC>>

\* Mutant: an instruction that faults is not counted.
FaultUncounted ==
  /\ Instr.op \in {"bad", "trap", "break"}
  /\ Except(CASE Instr.op = "bad" -> "IBE"
              [] Instr.op = "trap" -> "Fault"
              [] OTHER -> "Bp")
  /\ UNCHANGED <<IE, running_in_delay_slot, frames, exited>>

\* Bad fetch, trap or arithmetic fault, break: the handler runs next.
Fault ==
  /\ Instr.op \in {"bad", "trap", "break"}
  /\ Except(CASE Instr.op = "bad" -> "IBE"
              [] Instr.op = "trap" -> "Fault"
              [] OTHER -> "Bp")
  /\ Done
  /\ UNCHANGED <<IE, running_in_delay_slot, exited>>

\* mtc0 to Status with IE on or off.
SetIE ==
  /\ Instr.op \in {"ei", "di"}
  /\ IE' = IF Instr.op = "ei" THEN 1 ELSE 0
  /\ Advance
  /\ UNCHANGED <<EXL, BD, ExcCode, EPC>>

\* mtc0 to EPC: the handler steps over the instruction, always or, with
\* skipfault, unless the exception was an interrupt.
SkipEPC ==
  /\ Instr.op \in {"skip", "skipfault"}
  /\ EPC' = IF Instr.op = "skip" \/ ExcCode # "Int" THEN Plus4(EPC) ELSE EPC
  /\ Advance
  /\ UNCHANGED <<EXL, IE, BD, ExcCode>>

\* BRANCH_INST, the test fails: a likely branch skips one more instruction.
NotTaken ==
  /\ Instr.op \in {"branch", "likely"}
  /\ Done
  /\ PC' = IF Instr.op = "likely" THEN Plus4(Plus4(PC)) ELSE Plus4(PC)
  /\ exception_occurred' = 0
  /\ UNCHANGED <<EXL, IE, BD, ExcCode, EPC, running_in_delay_slot, exited>>

\* The target of a jump: J's is completed with the PC at the time of the jump.
Target(ret, target, pc) ==
  CASE ret = "abs"    -> target
    [] ret = "region" -> IF InKernel(pc) <=> InKernel(target) THEN target ELSE Bad
    [] ret = "epc"    -> EPC

\* Mutant: the delay slot is executed after the jump has been taken.
JumpSlotLost(ret, target) ==
  /\ PC' = Target(ret, target, PC)
  /\ Done
  /\ UNCHANGED running_in_delay_slot

\* Mutant: the nested call is given no step.
JumpSlotUnstepped(ret, target) ==
  IF DelayedBranches
  THEN /\ PC' = Plus4(PC)
       /\ running_in_delay_slot' = 1
       /\ frames' = <<Call(0, Plus4(PC), ret, target)>> \o WithTop(Issued(Top))
  ELSE /\ PC' = Target(ret, target, PC)
       /\ Done
       /\ UNCHANGED running_in_delay_slot

\* JUMP_INST
Jump(ret, target) ==
  IF DelayedBranches
  THEN /\ PC' = Plus4(PC)
       /\ running_in_delay_slot' = 1
       /\ frames' = <<Call(1, Plus4(PC), ret, target)>> \o WithTop(Issued(Top))
  ELSE /\ PC' = Target(ret, target, PC)
       /\ Done
       /\ UNCHANGED running_in_delay_slot

JumpOrBranch ==
  /\ Instr.op \in {"branch", "likely", "jr", "j"}
  /\ Jump(IF Instr.op = "j" THEN "region" ELSE "abs", Instr.target)
  /\ exception_occurred' = 0
  /\ UNCHANGED <<EXL, IE, BD, ExcCode, EPC, exited>>

ExceptionReturn ==
  /\ Instr.op = "eret"
  /\ EXL' = 0
  /\ Jump("epc", 0)
  /\ exception_occurred' = 0
  /\ UNCHANGED <<IE, BD, ExcCode, EPC, exited>>

\* The exit syscall: return false.
Exit ==
  /\ Instr.op = "exit"
  /\ frames' = WithTop(Returning(Issued(Top), 0))
  /\ exited' = 1
  /\ exception_occurred' = 0
  /\ UNCHANGED <<PC, EXL, IE, BD, ExcCode, EPC, running_in_delay_slot>>

\* A debugger breakpoint: return true with the exception still set.
DebuggerBreak ==
  /\ Instr.op = "bkpt"
  /\ Raise("Bp")
  /\ exception_occurred' = 1
  /\ frames' = WithTop(Returning(Issued(Top), 1))
  /\ UNCHANGED <<PC, IE, running_in_delay_slot, exited>>

Execute ==
  \/ Plain
  \/ Fault
  \/ SetIE
  \/ SkipEPC
  \/ NotTaken
  \/ JumpOrBranch
  \/ ExceptionReturn
  \/ Exit
  \/ DebuggerBreak

Step == \E ticks \in {{}, {TimerLine}} : Poll(ticks) /\ Execute

\* mtc0 of zero to Cause: the IP bits go, those just polled included.
Acknowledge ==
  /\ frames # <<>>
  /\ Top.chunk > 0
  /\ Instr.op = "ack"
  /\ IP' = {} /\ BD' = 0 /\ ExcCode' = "Int"
  /\ waited' = 0
  /\ Advance
  /\ UNCHANGED <<text, EXL, IE, EPC, driver, continuable>>

-----------------------------------------------------------------------------
(***************************************************************************)
(* The end of a call: back in the jump that made it, or in run_program.    *)
(***************************************************************************)
Finished == frames # <<>> /\ Top.chunk = 0 /\ Top.left = 0

\* Mutant: running_in_delay_slot is not reset.
ReturnFromSlotFlagged ==
  /\ Finished
  /\ Len(frames) > 1
  /\ PC' = IF exception_occurred = 1 THEN EXCEPTION_ADDR
           ELSE Target(Top.ret, Top.target, PC)
  /\ exception_occurred' = 0
  /\ frames' = <<OneStepDone(Caller)>> \o Tail(Tail(frames))
  /\ UNCHANGED <<text, cp0, running_in_delay_slot, driver, continuable, waited, exited>>

\* The jump looks at exception_occurred, never at what the call returns.
ReturnFromSlot ==
  /\ Finished
  /\ Len(frames) > 1
  /\ running_in_delay_slot' = 0
  /\ PC' = IF exception_occurred = 1 THEN EXCEPTION_ADDR
           ELSE Target(Top.ret, Top.target, PC)
  /\ exception_occurred' = 0
  /\ frames' = <<OneStepDone(Caller)>> \o Tail(Tail(frames))
  /\ UNCHANGED <<text, cp0, driver, continuable, waited, exited>>

Return ==
  /\ Finished
  /\ Len(frames) = 1
  /\ frames' = <<>>
  /\ continuable' = Top.ok
  /\ UNCHANGED <<text, PC, cp0, exception_occurred, running_in_delay_slot,
                 driver, waited, exited>>

\* longjmp to the top level abandons every active call.
LongJump ==
  /\ frames' = <<>>
  /\ driver' = "idle"
  /\ waited' = 0
  /\ UNCHANGED <<text, PC, cp0, exception_occurred, running_in_delay_slot,
                 continuable, exited>>

\* run_error: the word at PC is not an instruction.
NonInstruction ==
  /\ frames # <<>>
  /\ Top.chunk > 0
  /\ Instr.op = "none"
  /\ LongJump

\* control_c_seen
TypeControlC ==
  /\ ControlC
  /\ driver = "run"
  /\ LongJump

-----------------------------------------------------------------------------
(***************************************************************************)
(* run_program: call run_spim, and afterwards turn EXL off if it stopped   *)
(* at a breakpoint.                                                        *)
(***************************************************************************)
CallRunSpim(pc, steps) ==
  /\ exception_occurred' = 0
  /\ PC' = pc
  /\ frames' = <<Call(steps, Bad, "abs", Bad)>>
  /\ waited' = 0

RunProgram(pc) ==
  /\ driver = "idle"
  /\ driver' = "run"
  /\ exited' = 0
  /\ CallRunSpim(pc, RunSteps)
  /\ UNCHANGED <<text, cp0, running_in_delay_slot, continuable>>

EndRunProgram ==
  /\ driver = "run"
  /\ frames = <<>>
  /\ driver' = "idle"
  /\ EXL' = IF exception_occurred = 1 /\ ExcCode = "Bp" THEN 0 ELSE EXL
  /\ UNCHANGED <<text, PC, IE, IP, BD, ExcCode, EPC, exception_occurred,
                 running_in_delay_slot, frames, continuable, waited, exited>>

Machine ==
  \/ OuterLoop
  \/ Step
  \/ Acknowledge
  \/ ReturnFromSlot
  \/ Return
  \/ NonInstruction

Terminal ==
  \/ \E pc \in StartAddrs \cup {PC} : RunProgram(pc)
  \/ EndRunProgram
  \/ TypeControlC

Next == Machine \/ Terminal

\* The simulator's own code always goes on; the user need not.
Spec == /\ Init /\ [][Next]_vars
        /\ WF_vars(Machine) /\ WF_vars(EndRunProgram)

-----------------------------------------------------------------------------
CallType ==
  [left : Nat, chunk : Nat, ok : {0, 1}, slot : Addr,
   ret : {"abs", "region", "epc"}, target : Addr, issued : SUBSET Addr]

\* Every variable keeps its type: no path leaves a count of steps negative, a
\* PC that is no address or a call whose caller cannot tell where to jump.
TypeOK ==
  /\ text \in Programs
  /\ PC \in Addr /\ EPC \in Addr
  /\ EXL \in {0, 1} /\ IE \in {0, 1} /\ BD \in {0, 1}
  /\ IP \subseteq Lines
  /\ ExcCode \in Codes
  /\ exception_occurred \in {0, 1} /\ running_in_delay_slot \in {0, 1}
  /\ exited \in {0, 1}
  /\ frames \in Seq(CallType)
  /\ driver \in {"run", "idle"}
  /\ continuable \in {0, 1}
  /\ waited \in Nat

(***************************************************************************)
(* What the programmer of the guest sees: UserMachine, a machine without   *)
(* exceptions.  In the handler the program is where EPC says; during the   *)
(* nested run of a delay slot it goes to the target of the jump next.      *)
(***************************************************************************)
InSlot == Len(frames) > 1
SlotDone == InSlot /\ Finished

UserPC  == IF EXL = 1 THEN EPC
           ELSE IF SlotDone THEN Target(Top.ret, Top.target, PC)
           ELSE PC
UserNPC == IF InSlot /\ ~SlotDone THEN Top.target ELSE Plus4(UserPC)

User == INSTANCE UserMachine
          WITH Delayed <- DelayedBranches, code <- text,
               pc <- UserPC, npc <- UserNPC

\* However interrupts, exceptions, ends of chunks, ends of runs and ^C fall,
\* the guest's program executes one instruction after the other, each where
\* the one before it sent the program.
ImplementsUserMachine == User!Spec

(***************************************************************************)
(* The guests of which that can be said, without delayed branches.  The    *)
(* program stays in its own text, or leaves memory.  The handler is a part *)
(* "code" of the kernel's text that is left by eret alone.  It moves EPC   *)
(* once for a fault it has been told of: "done" is the part of it that a   *)
(* skipfault has been executed before, without the cause cleared since.    *)
(***************************************************************************)
UserText == 0 .. KText - 1
UserAddr == UserText \cup {Bad}

UserProgram(p) ==
  /\ 0 \in UserText
  /\ \A a \in UserText :
       /\ p[a].op \notin {"eret", "ack", "skip", "skipfault"}
       /\ p[a].op \in {"plain", "trap", "break", "branch", "ei", "di"}
            => a + 1 \in UserText
       /\ p[a].op = "likely" => a + 2 \in UserText
       /\ p[a].op \in {"branch", "likely", "jr", "j"} => p[a].target \in UserAddr

\* Where the instruction at a may lead, faults apart.
Successors(p, a) ==
  {b \in Addr :
     \/ b = Plus4(a)
        /\ p[a].op \in {"plain", "trap", "branch", "ei", "di", "ack", "skipfault"}
     \/ b = Plus4(Plus4(a)) /\ p[a].op = "likely"
     \/ b = p[a].target /\ p[a].op \in {"branch", "likely", "jr", "j"}}

Skips(p, code) == \E a \in code : p[a].op = "skipfault"

Handler(p, code, done) ==
  /\ code \subseteq KText .. LastAddr
  /\ EXCEPTION_ADDR \in code \ done
  /\ \A a \in code :
       /\ p[a].op \notin {"bkpt", "skip"}
       /\ p[a].op \in {"trap", "break"} => ~Skips(p, code)
       /\ p[a].op = "skipfault" => a \notin done
       /\ \A b \in Successors(p, a) :
            /\ b \in code
            /\ p[a].op = "skipfault" \/ (a \in done /\ p[a].op # "ack")
                 => b \in done

WellBehaved(p) ==
  /\ UserProgram(p)
  /\ \E code, done \in SUBSET (KText .. LastAddr) : Handler(p, code, done)

(***************************************************************************)
(* With delayed branches: guests whose slots hold no jump and no empty     *)
(* word, and guests whose slots hold a plain instruction and which never   *)
(* fault or enable interrupts.                                             *)
(***************************************************************************)
Jumps == {"branch", "likely", "jr", "j", "eret"}

InterruptsOff(p) == \A a \in Text : p[a].op # "ei"

QuietSlots(p) ==
  /\ \A a \in Text :
       p[a].op \in Jumps /\ a + 1 \in Text
         => p[a + 1].op \notin Jumps \cup {"none"}
  /\ InterruptsOff(p) \/ p[EXCEPTION_ADDR].op \notin Jumps \cup {"none"}

PlainSlots(p) ==
  \A a \in Text :
    /\ p[a].op \in {"plain", "branch", "likely", "jr", "j", "exit", "none"}
    /\ p[a].op = "plain" => a + 1 \in Text
    /\ p[a].op \in Jumps =>
         /\ a + 1 \in Text /\ p[a + 1].op = "plain"
         /\ p[a].target \in Text
    /\ p[a].op = "j" => (InKernel(p[a].target) <=> InKernel(a + 2))

\* An interrupt that IE and EXL let through is taken before IO_INTERVAL more
\* instructions are issued: the outer loop of run_spim checks often enough,
\* though the timer raises its interrupt in the inner one.
InterruptLatency == MappedIO => waited < IO_INTERVAL

\* While EXL is set only the handler's own mtc0 moves EPC, and only an
\* exception of the handler's own changes the cause: no interrupt, chunk,
\* end of a run or ^C loses what the handler has to return to.
HandlerUndisturbed ==
  [][EXL = 1 /\ EXL' = 1 =>
       /\ EPC' # EPC => Instr.op \in {"skip", "skipfault"}
       /\ ExcCode' # ExcCode =>
            Instr.op \in {"bad", "trap", "break", "bkpt", "ack"}]_vars

\* A run ends: whatever the instructions do, faults, interrupts and nested
\* calls included, none is executed without counting as a step.
RunEnds == driver = "run" ~> driver = "idle"

\* After an exit syscall the run issues nothing more, and its caller is told
\* that the program cannot continue (run_spim's "return false").
ExitStopsRun ==
  exited = 1 =>
    /\ frames # <<>> => Finished /\ Top.ok = 0
    /\ frames = <<>> /\ driver = "run" => continuable = 0

\* running_in_delay_slot is true exactly while a nested call of run_spim
\* executes a delay slot (the comment on the variable).
SlotFlagExact == running_in_delay_slot = 1 <=> InSlot

\* The nested call of run_spim executes the instruction in the delay slot
\* before control is transferred (the comment on BRANCH_INST), while no interrupt
\* is enabled: one that is taken at the head of the nested call is all that call does.
DelaySlotRuns ==
  [][InSlot /\ Len(frames') = Len(frames) - 1 =>
       Top.slot \in Top.issued]_vars
=============================================================================
