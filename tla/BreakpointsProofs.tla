-------------------------- MODULE BreakpointsProofs --------------------------
(***************************************************************************)
(* Proofs about Breakpoints, for every value of its constants.             *)
(***************************************************************************)
EXTENDS Breakpoints, TLAPS, SequenceTheorems

-----------------------------------------------------------------------------
(***************************************************************************)
(* Steps.                                                                  *)
(***************************************************************************)
\* A step changes the breakpoints, starts a run, executes an instruction or
\* only looks, ends or abandons.
Ends ==
  /\ UNCHANGED <<mem, bkpts, PC, left, over, program, wanted>>
  /\ data' = data /\ EXL' \in {0, 1, EXL}
  /\ exception_occurred' \in {0, 1, exception_occurred}
  /\ hit' \in BOOLEAN \cup {hit} /\ continuable' \in BOOLEAN \cup {continuable}
  /\ phase' \in {"idle", "back", phase}
  /\ phase' = "back" => phase \in {"over", "back"}

\* The ways a step of the specification can go.
LEMMA StepCases ==
  ASSUME [Next]_vars
  PROVE  \/ UNCHANGED vars
         \/ \E a \in BreakAddrs : SetBreakpoint(a)
         \/ \E a \in BreakAddrs : DeleteBreakpoint(a)
         \/ \E a \in Text : print_inst(a)
         \/ \E pc \in StartAddrs \cup {PC} : run_program(pc, FALSE)
         \/ run_program(PC, TRUE)
         \/ Sequential
         \/ Transfer
         \/ PutBack
         \/ Ends
  <1>1. ASSUME Exit \/ Done \/ ReachBreakpoint \/ NonInstruction \/ TypeControlC
        PROVE  Ends
    BY <1>1 DEF Exit, Done, ReachBreakpoint, NonInstruction, TypeControlC,
                LongJump, Returned, Running, Ends
  <1>2. ASSUME NEW a, print_inst(a) PROVE a \in Text
    BY <1>2 DEF print_inst, inst_is_breakpoint
  <1>. QED
    BY <1>1, <1>2 DEF Next, Prompt, Machine, Run, Continue, vars, cpu

-----------------------------------------------------------------------------
(***************************************************************************)
(* Types.  A word of memory is the program's own instruction or the break, *)
(* and every record holds the program's own instruction: this makes the    *)
(* type of PC inductive, as a program does not run past its last word.     *)
(***************************************************************************)
Own ==
  \A a \in Text :
    /\ mem[a] \in {program[a], BREAK}
    /\ \A i \in DOMAIN bkpts[a] : bkpts[a][i] = program[a]

Typed == TypeOK /\ Own

\* What an instruction of the program is, and that it is not the break.
LEMMA Instructions ==
  ASSUME Typed, NEW a \in Text
  PROVE  /\ program[a] \in Insts /\ program[a] # BREAK
         /\ a = LastAddr => program[a].op \notin {"plain", "branch"}
         /\ BREAK.op = "break_inst"
         /\ program[a].target \in Text
         /\ bkpts[a] \in Seq(Insts)
         /\ LastAddr \in Nat
  <1>. program \in [Text -> Insts]
    BY ParametersOK DEF ParametersOK, Typed, TypeOK
  <1>1. program[a] \in Insts
    OBVIOUS
  <1>2. /\ program[a] # BREAK /\ program[a].target \in Text
        /\ BREAK.op = "break_inst"
    BY <1>1 DEF Insts, BREAK
  <1>3. /\ program[LastAddr].op \notin {"plain", "branch"}
        /\ LastAddr \in Nat
    BY ParametersOK DEF ParametersOK, Typed, TypeOK
  <1>. QED
    BY <1>1, <1>2, <1>3 DEF Typed, TypeOK

\* A new record is the newest one of its address.
LEMMA NewRecord ==
  ASSUME NEW S, NEW s \in Seq(S), NEW e \in S
  PROVE  LET t == <<e>> \o s
         IN  /\ t \in Seq(S)
             /\ Len(t) = Len(s) + 1
             /\ t[1] = e
             /\ \A i \in 2 .. Len(t) : t[i] = s[i - 1]
  OBVIOUS

\* add_breakpoint keeps the types, whether the breakpoint is set or refused.
LEMMA AddTyped ==
  ASSUME Typed, NEW a \in Text \cup BreakAddrs, add_breakpoint(a),
         UNCHANGED program
  PROVE  /\ mem' \in [Text -> Insts \cup {BREAK}]
         /\ bkpts' \in [Text -> Seq(Insts)]
         /\ data' \in {"value", "zero"}
         /\ EXL' \in {0, 1} /\ exception_occurred' \in {0, 1}
         /\ Own'
  <1>. /\ mem \in [Text -> Insts \cup {BREAK}] /\ bkpts \in [Text -> Seq(Insts)]
       /\ data \in {"value", "zero"} /\ EXL \in {0, 1} /\ Own
    BY DEF Typed, TypeOK
  <1>1. CASE a \notin Text
    BY <1>1 DEF add_breakpoint, AddOutsideText, Own
  <1>2. CASE a \in Text /\ (mem[a] = BREAK \/ mem[a].op = "none")
    BY <1>2 DEF add_breakpoint, AddToText, Own
  <1>3. CASE a \in Text /\ ~(mem[a] = BREAK \/ mem[a].op = "none")
    <2>1. /\ mem' = [mem EXCEPT ![a] = BREAK]
          /\ bkpts' = [bkpts EXCEPT ![a] = <<mem[a]>> \o @]
          /\ data' = data /\ EXL' = EXL /\ exception_occurred' = 0
      BY <1>3 DEF add_breakpoint, AddToText
    <2>2. mem[a] = program[a] /\ program[a] \in Insts /\ bkpts[a] \in Seq(Insts)
      BY <1>3, Instructions DEF Own
    <2>3. /\ <<mem[a]>> \o bkpts[a] \in Seq(Insts)
          /\ \A i \in DOMAIN (<<mem[a]>> \o bkpts[a]) :
               (<<mem[a]>> \o bkpts[a])[i] = program[a]
      <3>. DEFINE s == bkpts[a]
                  t == <<mem[a]>> \o bkpts[a]
      <3>1. /\ t \in Seq(Insts) /\ Len(t) = Len(s) + 1 /\ t[1] = mem[a]
            /\ \A i \in 2 .. Len(t) : t[i] = s[i - 1]
        BY <2>2, NewRecord
      <3>2. \A i \in 1 .. Len(s) : s[i] = program[a]
        BY <1>3, <2>2 DEF Own
      <3>3. ASSUME NEW i \in DOMAIN t PROVE t[i] = program[a]
        <4>. HIDE DEF s, t
        <4>1. i \in 1 .. Len(t) /\ Len(s) \in Nat
          BY <3>1, <2>2 DEF s
        <4>2. CASE i = 1
          BY <4>2, <3>1, <2>2
        <4>3. CASE i # 1
          <5>1. i \in 2 .. Len(t) /\ i - 1 \in 1 .. Len(s)
            BY <4>1, <4>3, <3>1
          <5>. QED BY <5>1, <3>1, <3>2
        <4>. QED BY <4>2, <4>3
      <3>. QED BY <3>1, <3>3
    <2>. QED
      BY <2>1, <2>2, <2>3 DEF Own
  <1>. QED BY <1>1, <1>2, <1>3

\* delete_breakpoint gives the program its own instruction back.
LEMMA DeleteTyped ==
  ASSUME Typed, NEW a, delete_breakpoint(a), UNCHANGED program
  PROVE  /\ mem' \in [Text -> Insts \cup {BREAK}]
         /\ bkpts' \in [Text -> Seq(Insts)]
         /\ Own'
         /\ a \in Text /\ bkpts[a] # <<>> => mem'[a] = program[a]
  <1>. /\ mem \in [Text -> Insts \cup {BREAK}] /\ bkpts \in [Text -> Seq(Insts)]
       /\ Own
    BY DEF Typed, TypeOK
  <1>1. CASE a \notin Text \/ bkpts[a] = <<>>
    BY <1>1 DEF delete_breakpoint, Own
  <1>2. CASE a \in Text /\ bkpts[a] # <<>>
    <2>1. /\ mem' = [mem EXCEPT ![a] = Last(bkpts[a])]
          /\ bkpts' = [bkpts EXCEPT ![a] = <<>>]
      BY <1>2 DEF delete_breakpoint
    <2>2. Last(bkpts[a]) = program[a] /\ program[a] \in Insts
      BY <1>2, Instructions DEF Own, Last
    <2>. QED BY <1>2, <2>1, <2>2 DEF Own
  <1>. QED BY <1>1, <1>2

LEMMA TypedNext ==
  ASSUME Typed, [Next]_vars
  PROVE  Typed'
  <1>. /\ mem \in [Text -> Insts \cup {BREAK}] /\ bkpts \in [Text -> Seq(Insts)]
       /\ data \in {"value", "zero"} /\ EXL \in {0, 1} /\ Own
       /\ program \in Programs /\ PC \in Text /\ over \in Text
       /\ exception_occurred \in {0, 1} /\ left \in 0 .. RunSteps
       /\ phase \in {"idle", "over", "back", "run"}
       /\ hit \in BOOLEAN /\ continuable \in BOOLEAN /\ wanted \subseteq Text
    BY DEF Typed, TypeOK
  <1>. /\ LastAddr \in Nat /\ RunSteps \in Nat /\ RunSteps > 0
       /\ StartAddrs \subseteq Text
    BY ParametersOK DEF ParametersOK
  <1>1. CASE UNCHANGED vars
    BY <1>1 DEF vars, Typed, TypeOK, Own
  <1>2. ASSUME NEW a \in BreakAddrs, SetBreakpoint(a) PROVE Typed'
    <2>1. add_breakpoint(a) /\ UNCHANGED cpu
      BY <1>2 DEF SetBreakpoint
    <2>2. wanted' \subseteq Text
      BY <1>2 DEF SetBreakpoint, add_breakpoint, AddOutsideText
    <2>. QED BY <2>1, <2>2, AddTyped DEF Typed, TypeOK, cpu
  <1>3. ASSUME NEW a \in BreakAddrs, DeleteBreakpoint(a) PROVE Typed'
    BY <1>3, DeleteTyped DEF DeleteBreakpoint, Typed, TypeOK, cpu
  <1>4. ASSUME NEW a \in Text, print_inst(a) PROVE Typed'
    <2>1. /\ bkpts[a] # <<>> /\ bkpts[a] \in Seq(Insts)
          /\ bkpts' = [bkpts EXCEPT ![a] = <<Last(bkpts[a])>>]
          /\ exception_occurred' = 0
          /\ UNCHANGED <<mem, data, EXL, wanted, cpu>>
      BY <1>4 DEF print_inst
    <2>2. Last(bkpts[a]) = program[a] /\ program[a] \in Insts
      BY <2>1, Instructions DEF Own, Last
    <2>. QED BY <2>1, <2>2 DEF Typed, TypeOK, Own, cpu
  <1>5. ASSUME NEW pc \in StartAddrs \cup {PC}, NEW cont \in BOOLEAN,
               run_program(pc, cont)
        PROVE  Typed'
    <2>1. CASE cont /\ inst_is_breakpoint(pc)
      BY <1>5, <2>1, DeleteTyped DEF run_program, Typed, TypeOK
    <2>2. CASE ~(cont /\ inst_is_breakpoint(pc))
      BY <1>5, <2>2 DEF run_program, Typed, TypeOK, Own
    <2>. QED BY <2>1, <2>2
  <1>6. CASE Sequential
    <2>1. mem[PC] = program[PC] /\ PC # LastAddr
      BY <1>6, Instructions DEF Sequential, Own
    <2>. QED
      BY <1>6, <2>1 DEF Sequential, Execute, Typed, TypeOK, Own, Text
  <1>7. CASE Transfer
    <2>1. mem[PC] = program[PC] /\ program[PC].target \in Text
      BY <1>7, Instructions DEF Transfer, Own
    <2>. QED
      BY <1>7, <2>1 DEF Transfer, Execute, Typed, TypeOK, Own
  <1>8. CASE PutBack
    BY <1>8, AddTyped DEF PutBack, Typed, TypeOK
  <1>9. CASE Ends
    BY <1>9 DEF Ends, Typed, TypeOK, Own
  <1>. QED
    BY StepCases, <1>1, <1>2, <1>3, <1>4, <1>5, <1>6, <1>7, <1>8, <1>9

LEMMA TypedInit == Init => Typed
  <1>. SUFFICES ASSUME Init PROVE Typed
    OBVIOUS
  <1>. program \in [Text -> Insts] /\ 0 \in Text /\ RunSteps \in Nat
    BY ParametersOK DEF ParametersOK, Init, Text
  <1>. QED
    BY DEF Init, Typed, TypeOK, Own

LEMMA TypedInvariant == Spec => []Typed
  BY TypedInit, TypedNext, PTL DEF Spec

\* The variables keep the types that TypeOK gives them: whatever the user sets,
\* deletes and runs, the PC stays within the text and the records hold
\* instructions of the program, never the break itself.
THEOREM Typing == Spec => []TypeOK
  BY TypedInvariant, PTL DEF Typed

-----------------------------------------------------------------------------
(***************************************************************************)
(* Records, when the user names only words that hold an instruction: the   *)
(* exception is described at AddToText.                                    *)
(* An address has a record only if an instruction of the program is there, *)
(* and so has the address that run_program steps over, whose record is     *)
(* gone until it is put back.                                              *)
(***************************************************************************)
Recorded ==
  /\ RecordsExact
  /\ \A a \in Text : bkpts[a] # <<>> => program[a].op # "none"
  /\ phase \in {"over", "back"} => program[over].op # "none"

\* add_breakpoint at an instruction of the program leaves one record of it.
LEMMA AddRecorded ==
  ASSUME Typed, Recorded, NEW a, add_breakpoint(a), UNCHANGED program,
         a \in Text => program[a].op # "none"
  PROVE  /\ RecordsExact'
         /\ \A b \in Text : bkpts'[b] # <<>> => program[b].op # "none"
         /\ \A b \in Text \ {a} : bkpts'[b] = bkpts[b]
         /\ a \in Text => bkpts'[a] # <<>>
         /\ bkpts' # bkpts => a \in Text
  <1>. /\ mem \in [Text -> Insts \cup {BREAK}] /\ bkpts \in [Text -> Seq(Insts)]
       /\ RecordsExact
       /\ \A b \in Text : bkpts[b] # <<>> => program[b].op # "none"
    BY DEF Typed, TypeOK, Recorded
  <1>1. CASE a \notin Text
    BY <1>1 DEF add_breakpoint, AddOutsideText, RecordsExact
  <1>2. CASE a \in Text /\ bkpts[a] # <<>>
    <2>1. mem[a] = BREAK
      BY <1>2 DEF RecordsExact
    <2>. QED
      BY <1>2, <2>1 DEF add_breakpoint, AddToText, RecordsExact
  <1>3. CASE a \in Text /\ bkpts[a] = <<>>
    <2>1. mem[a] = program[a] /\ mem[a] # BREAK /\ mem[a].op # "none"
      BY <1>3, Instructions DEF RecordsExact
    <2>2. /\ mem' = [mem EXCEPT ![a] = BREAK]
          /\ bkpts' = [bkpts EXCEPT ![a] = <<mem[a]>> \o @]
      BY <1>3, <2>1 DEF add_breakpoint, AddToText
    <2>3. <<mem[a]>> \o bkpts[a] = <<program[a]>>
      BY <1>3, <2>1
    <2>. QED
      BY <1>3, <2>1, <2>2, <2>3 DEF RecordsExact
  <1>. QED BY <1>1, <1>2, <1>3

\* delete_breakpoint leaves no record and the program's own instruction.
LEMMA DeleteRecorded ==
  ASSUME Typed, Recorded, NEW a, delete_breakpoint(a), UNCHANGED program
  PROVE  /\ RecordsExact'
         /\ \A b \in Text : bkpts'[b] # <<>> => program[b].op # "none"
         /\ \A b \in Text \ {a} : bkpts'[b] = bkpts[b]
         /\ a \in Text => bkpts'[a] = <<>> /\ mem'[a] = program[a]
  <1>. /\ mem \in [Text -> Insts \cup {BREAK}] /\ bkpts \in [Text -> Seq(Insts)]
       /\ RecordsExact
       /\ \A b \in Text : bkpts[b] # <<>> => program[b].op # "none"
    BY DEF Typed, TypeOK, Recorded
  <1>1. CASE a \notin Text \/ bkpts[a] = <<>>
    BY <1>1 DEF delete_breakpoint, RecordsExact
  <1>2. CASE a \in Text /\ bkpts[a] # <<>>
    <2>1. mem'[a] = program[a]
      BY <1>2, DeleteTyped
    <2>. QED
      BY <1>2, <2>1 DEF delete_breakpoint, RecordsExact
  <1>. QED BY <1>1, <1>2

LEMMA RecordedNext ==
  ASSUME Typed, Recorded, NamesInstructions, [Next]_vars
  PROVE  Recorded'
  <1>. /\ mem \in [Text -> Insts \cup {BREAK}] /\ bkpts \in [Text -> Seq(Insts)]
       /\ program \in Programs /\ over \in Text /\ PC \in Text
       /\ StartAddrs \subseteq Text
    BY ParametersOK DEF ParametersOK, Typed, TypeOK
  <1>1. CASE UNCHANGED vars
    BY <1>1 DEF vars, Recorded, RecordsExact
  <1>2. ASSUME NEW a \in BreakAddrs, SetBreakpoint(a) PROVE Recorded'
    <2>1. add_breakpoint(a) /\ UNCHANGED cpu /\ phase = "idle"
      BY <1>2 DEF SetBreakpoint
    <2>2. a \in Text => program[a].op # "none"
      BY DEF NamesInstructions
    <2>. QED
      BY <2>1, <2>2, AddRecorded DEF Recorded, cpu
  <1>3. ASSUME NEW a \in BreakAddrs, DeleteBreakpoint(a) PROVE Recorded'
    BY <1>3, DeleteRecorded DEF DeleteBreakpoint, Recorded, cpu
  <1>4. ASSUME NEW a \in Text, print_inst(a) PROVE Recorded'
    <2>1. /\ bkpts[a] # <<>> /\ phase \in {"idle", "run"}
          /\ bkpts' = [bkpts EXCEPT ![a] = <<Last(bkpts[a])>>]
          /\ UNCHANGED <<mem, phase, program>>
      BY <1>4 DEF print_inst, cpu
    <2>2. mem[a] = BREAK /\ <<Last(bkpts[a])>> = <<program[a]>>
      BY <2>1 DEF Recorded, RecordsExact, Last
    <2>. QED
      BY <2>1, <2>2 DEF Recorded, RecordsExact
  <1>5. ASSUME NEW pc \in StartAddrs \cup {PC}, NEW cont \in BOOLEAN,
               run_program(pc, cont)
        PROVE  Recorded'
    <2>1. CASE cont /\ inst_is_breakpoint(pc)
      <3>1. delete_breakpoint(pc) /\ over' = pc /\ program' = program
        BY <1>5, <2>1 DEF run_program
      <3>2. program[pc].op # "none"
        BY <2>1, Instructions DEF inst_is_breakpoint, Recorded, RecordsExact
      <3>. QED BY <3>1, <3>2, DeleteRecorded DEF Recorded
    <2>2. CASE ~(cont /\ inst_is_breakpoint(pc))
      BY <1>5, <2>2 DEF run_program, Recorded, RecordsExact
    <2>. QED BY <2>1, <2>2
  <1>6. CASE Sequential
    BY <1>6 DEF Sequential, Execute, Recorded, RecordsExact
  <1>7. CASE Transfer
    BY <1>7 DEF Transfer, Execute, Recorded, RecordsExact
  <1>8. CASE PutBack
    <2>1. program[over].op # "none" /\ add_breakpoint(over)
      BY <1>8 DEF PutBack, Recorded
    <2>. QED
      BY <1>8, <2>1, AddRecorded DEF PutBack, Recorded
  <1>9. CASE Ends
    BY <1>9 DEF Ends, Recorded, RecordsExact
  <1>. QED
    BY StepCases, <1>1, <1>2, <1>3, <1>4, <1>5, <1>6, <1>7, <1>8, <1>9

LEMMA RecordedInvariant == NamesInstructions => (Spec => []Recorded)
  <1>. SUFFICES ASSUME NamesInstructions PROVE Spec => []Recorded
    OBVIOUS
  <1>1. Init => Recorded
    <2>. SUFFICES ASSUME Init PROVE Recorded
      OBVIOUS
    <2>. QED BY DEF Init, Recorded, RecordsExact
  <1>2. Typed /\ Recorded /\ [Next]_vars => Recorded'
    BY RecordedNext
  <1>. QED BY <1>1, <1>2, TypedInvariant, PTL DEF Spec

\* However breakpoints are set, refused, deleted, printed and stepped over, and
\* wherever ^C abandons run_program, a break is in memory exactly where there
\* is a record, one for each, which keeps the program's own instruction; this
\* needs that the user names no word of the text that holds no instruction.
THEOREM Records == NamesInstructions => (Spec => []RecordsExact)
  <1>. SUFFICES ASSUME NamesInstructions PROVE Spec => []RecordsExact
    OBVIOUS
  <1>. QED BY RecordedInvariant, PTL DEF Recorded

-----------------------------------------------------------------------------
(***************************************************************************)
(* Transparency.  The break hides an instruction from the machine and the  *)
(* records give it back before it is executed: what run_spim executes is   *)
(* the program's own.  A run that the user starts elsewhere is a jump that *)
(* the program does not make, so no start address is given.                *)
(***************************************************************************)
LEMMA StepSimulated ==
  ASSUME Typed, Typed', StartAddrs = {}, [Next]_vars
  PROVE  [User!Next]_(User!vars)
  <1>. PC \in Text /\ PC' \in Text /\ LastAddr \in Nat /\ Own /\ program' = program
    <2>1. PC \in Text /\ PC' \in Text /\ LastAddr \in Nat /\ Own
      BY ParametersOK DEF ParametersOK, Typed, TypeOK
    <2>2. program' = program
      BY StepCases DEF vars, cpu, SetBreakpoint, DeleteBreakpoint, print_inst,
         run_program, Sequential, Transfer, Execute, PutBack, Ends
    <2>. QED BY <2>1, <2>2
  <1>1. CASE UNCHANGED PC
    BY <1>1 DEF User!vars
  <1>2. CASE Sequential
    <2>1. mem[PC] = program[PC] /\ PC' = PC + 1
      BY <1>2, Instructions DEF Sequential, Execute, Own
    <2>2. /\ User!Op \in {"plain", "branch"}
          /\ User!After(PC + 1) = PC' + 1
      BY <1>2, <2>1 DEF Sequential, User!Op, User!After, Text
    <2>. QED
      BY <2>1, <2>2 DEF User!Next, User!Sequential
  <1>3. CASE Transfer
    <2>1. mem[PC] = program[PC] /\ PC' = program[PC].target
      BY <1>3, Instructions DEF Transfer, Execute, Own
    <2>2. /\ User!Op \in {"branch", "jr"}
          /\ User!After(program[PC].target) = PC' + 1
      BY <1>3, <2>1 DEF Transfer, User!Op, User!After, Text
    <2>. QED
      BY <2>1, <2>2 DEF User!Next, User!Transfer
  <1>. QED
    BY StepCases, <1>1, <1>2, <1>3 DEF vars, cpu, SetBreakpoint,
       DeleteBreakpoint, print_inst, run_program, PutBack, Ends

\* Whatever breakpoints are set, deleted and stepped over, and wherever ^C
\* falls, the program executes its own instructions one after the other: none
\* is skipped, repeated, or replaced by the break.
THEOREM Transparent == StartAddrs = {} => (Spec => TransparentDebugging)
  <1>. SUFFICES ASSUME StartAddrs = {} PROVE Spec => TransparentDebugging
    OBVIOUS
  <1>1. Init => User!Init
    <2>1. 0 <= LastAddr /\ LastAddr \in Nat
      BY ParametersOK DEF ParametersOK
    <2>. QED BY <2>1 DEF Init, User!Init, User!After
  <1>2. Typed /\ Typed' /\ [Next]_vars => [User!Next]_(User!vars)
    BY StepSimulated
  <1>. QED
    BY <1>1, <1>2, TypedInvariant, PTL DEF Spec, TransparentDebugging, User!Spec

-----------------------------------------------------------------------------
(***************************************************************************)
(* Breakpoints the user has set and not deleted.  Without ^C each of them  *)
(* has its record, but for the one run_program is stepping over.           *)
(***************************************************************************)
Wanted ==
  /\ \A a \in wanted :
       /\ a \in Text
       /\ bkpts[a] = <<>> => phase \in {"over", "back"} /\ a = over
  /\ phase \in {"over", "back"} => bkpts[over] = <<>>
  /\ phase = "over" /\ left > 0 => left = 1 /\ PC = over

LEMMA WantedNext ==
  ASSUME Typed, Recorded, Wanted, NamesInstructions, ~ControlC, [Next]_vars
  PROVE  Wanted'
  <1>. /\ bkpts \in [Text -> Seq(Insts)] /\ over \in Text /\ left \in 0 .. RunSteps
       /\ RunSteps \in Nat /\ program \in Programs
    BY ParametersOK DEF ParametersOK, Typed, TypeOK
  <1>1. CASE UNCHANGED vars
    BY <1>1 DEF vars, Wanted
  <1>2. ASSUME NEW a \in BreakAddrs, SetBreakpoint(a) PROVE Wanted'
    <2>1. /\ add_breakpoint(a) /\ UNCHANGED cpu /\ phase = "idle"
          /\ wanted' = IF bkpts' # bkpts THEN wanted \cup {a} ELSE wanted
      BY <1>2 DEF SetBreakpoint
    <2>2. a \in Text => program[a].op # "none"
      BY DEF NamesInstructions
    <2>3. /\ \A b \in Text \ {a} : bkpts'[b] = bkpts[b]
          /\ a \in Text => bkpts'[a] # <<>>
          /\ bkpts' # bkpts => a \in Text
      BY <2>1, <2>2, AddRecorded DEF cpu
    <2>. QED
      BY <2>1, <2>3 DEF Wanted, cpu
  <1>3. ASSUME NEW a \in BreakAddrs, DeleteBreakpoint(a) PROVE Wanted'
    <2>1. delete_breakpoint(a) /\ UNCHANGED cpu /\ phase = "idle" /\ wanted' = wanted \ {a}
      BY <1>3 DEF DeleteBreakpoint
    <2>2. \A b \in Text \ {a} : bkpts'[b] = bkpts[b]
      BY <2>1, DeleteRecorded DEF cpu
    <2>. QED BY <2>1, <2>2 DEF Wanted, cpu
  <1>4. ASSUME NEW a \in Text, print_inst(a) PROVE Wanted'
    <2>1. /\ bkpts' = [bkpts EXCEPT ![a] = <<Last(bkpts[a])>>] /\ bkpts[a] # <<>>
          /\ phase \in {"idle", "run"} /\ UNCHANGED <<wanted, cpu>>
      BY <1>4 DEF print_inst
    <2>2. <<Last(bkpts[a])>> # <<>>
      OBVIOUS
    <2>. QED BY <2>1, <2>2 DEF Wanted, cpu
  <1>5. ASSUME NEW pc \in StartAddrs \cup {PC}, NEW cont \in BOOLEAN,
               run_program(pc, cont), phase = "idle"
        PROVE  Wanted'
    <2>1. CASE cont /\ inst_is_breakpoint(pc)
      <3>1. /\ delete_breakpoint(pc) /\ over' = pc /\ PC' = pc /\ left' = 1
            /\ phase' = "over" /\ UNCHANGED <<program, wanted>> /\ pc \in Text
        BY <1>5, <2>1 DEF run_program, inst_is_breakpoint
      <3>2. /\ \A b \in Text \ {pc} : bkpts'[b] = bkpts[b]
            /\ bkpts'[pc] = <<>>
        BY <3>1, DeleteRecorded
      <3>. QED BY <1>5, <3>1, <3>2 DEF Wanted
    <2>2. CASE ~(cont /\ inst_is_breakpoint(pc))
      BY <1>5, <2>2 DEF run_program, Wanted
    <2>. QED BY <2>1, <2>2
  <1>6. CASE Sequential
    BY <1>6 DEF Sequential, Execute, Wanted
  <1>7. CASE Transfer
    BY <1>7 DEF Transfer, Execute, Wanted
  <1>8. CASE PutBack
    <2>1. /\ add_breakpoint(over) /\ phase = "back" /\ phase' = "run"
          /\ UNCHANGED <<program, wanted, over>>
      BY <1>8 DEF PutBack
    <2>2. program[over].op # "none"
      BY <2>1 DEF Recorded
    <2>3. /\ \A b \in Text \ {over} : bkpts'[b] = bkpts[b]
          /\ bkpts'[over] # <<>>
      BY <2>1, <2>2, AddRecorded
    <2>. QED BY <2>1, <2>3 DEF Wanted
  <1>9. CASE Exit \/ Done \/ ReachBreakpoint
    BY <1>9 DEF Exit, Done, ReachBreakpoint, Returned, Running, Wanted
  <1>10. CASE NonInstruction
    <2>1. phase # "over"
      <3>1. SUFFICES ASSUME phase = "over" PROVE FALSE
        OBVIOUS
      <3>2. PC = over /\ bkpts[over] = <<>> /\ mem[over].op = "none"
        BY <1>10, <3>1 DEF NonInstruction, Wanted
      <3>3. mem[over] = program[over] /\ program[over].op # "none"
        BY <3>1, <3>2 DEF Recorded, RecordsExact
      <3>. QED BY <3>2, <3>3
    <2>. QED BY <1>10, <2>1 DEF NonInstruction, Running, LongJump, Wanted
  <1>11. ASSUME NEW pc \in StartAddrs \cup {PC}, Run(pc) PROVE Wanted'
    BY <1>5, <1>11 DEF Run
  <1>12. CASE Continue
    BY <1>5, <1>12 DEF Continue
  <1>13. CASE Machine
    BY <1>6, <1>7, <1>8, <1>9, <1>10, <1>13 DEF Machine
  <1>14. ASSUME NEW a \in BreakAddrs, print_inst(a) PROVE Wanted'
    BY <1>4, <1>14 DEF print_inst, inst_is_breakpoint
  <1>15. ~TypeControlC
    BY DEF TypeControlC
  <1>16. CASE Prompt
    BY <1>2, <1>3, <1>11, <1>12, <1>14, <1>15, <1>16 DEF Prompt
  <1>. QED
    BY <1>1, <1>13, <1>16 DEF Next

\* Without ^C no breakpoint is lost: a run never executes an instruction at
\* which the user has set a breakpoint and not deleted it, except to step over
\* the one it continues from.
THEOREM Hit ==
  NamesInstructions /\ ~ControlC => (Spec => BreakpointsHit)
  <1>. SUFFICES ASSUME NamesInstructions, ~ControlC
                PROVE  Spec => BreakpointsHit
    OBVIOUS
  <1>1. Init => Wanted
    BY DEF Init, Wanted
  <1>2. Typed /\ Recorded /\ Wanted /\ [Next]_vars => Wanted'
    BY WantedNext
  <1>3. Typed /\ Recorded /\ Wanted /\ [Next]_vars
        => [phase = "run" /\ PC \in wanted => left' >= left]_vars
    <2>. SUFFICES ASSUME Typed, Recorded, Wanted, Next,
                         phase = "run", PC \in wanted
                  PROVE  left' >= left
      BY DEF vars
    <2>1. mem[PC] = BREAK /\ left \in Int
      BY ParametersOK DEF ParametersOK, Typed, TypeOK, Recorded, RecordsExact, Wanted
    <2>2. CASE Prompt
      BY <2>1, <2>2 DEF Prompt, cpu, SetBreakpoint, DeleteBreakpoint, print_inst,
         Run, Continue, run_program, TypeControlC, LongJump
    <2>3. ~ Sequential /\ ~ Transfer /\ ~ Exit /\ ~ NonInstruction
      BY <2>1 DEF Sequential, Transfer, Exit, NonInstruction, BREAK
    <2>4. CASE Done \/ ReachBreakpoint
      <3>1. left' = left
        BY <2>4 DEF Done, ReachBreakpoint
      <3>. QED BY <2>1, <3>1
    <2>5. ~ PutBack
      BY DEF PutBack
    <2>. QED BY <2>2, <2>3, <2>4, <2>5 DEF Next, Machine
  <1>. QED
    BY <1>1, <1>2, <1>3, TypedInvariant, RecordedInvariant, PTL
       DEF Spec, BreakpointsHit
=============================================================================
