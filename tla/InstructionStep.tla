---------------------------- MODULE InstructionStep ----------------------------
(***************************************************************************)
(* A turn of the inner loop of run_spim (CPU/run.cpp) on a line's code: an *)
(* instruction of Instructions or FloatingPoint, a branch or a jump.       *)
(***************************************************************************)
EXTENDS FloatingPoint, Sequences

StartStep(m) == DO_DELAYED_UPDATE(Set(m, 0, 0))

Effect(m, build, i) ==
  CASE i.op \in FloatOps       -> FloatEffect(m, build, i)
    [] i.op \in AddOps         -> Add(m, i)
    [] i.op \in SubOps         -> Sub(m, i)
    [] i.op \in AndOps         -> BitAnd(m, i)
    [] i.op \in OrOps          -> BitOr(m, i)
    [] i.op \in XorOps         -> BitXor(m, i)
    [] i.op = "lui"            -> LoadUpper(m, i)
    [] i.op \in LeadingOps     -> CountLeading(m, i)
    [] i.op \in SetLessOps     -> SetLess(m, i)
    [] i.op \in ShiftLeftOps   -> ShiftLeft(m, i)
    [] i.op \in ShiftRightOps  -> ShiftRight(m, i)
    [] i.op \in MoveIfOps      -> MoveIf(m, i)
    [] i.op \in TrapOps        -> Trap(m, i)
    [] i.op \in MultiplyOps    -> Multiply(m, i)
    [] i.op \in MultiplyAddOps -> MultiplyAdd(m, i)
    [] i.op \in MultiplySubOps -> MultiplySub(m, i)
    [] i.op \in DivideOps      -> Divide(m, i)
    [] i.op \in MoveFromOps    -> MoveFrom(m, i)
    [] i.op \in MoveToOps      -> MoveTo(m, i)
    [] i.op \in LoadOps        -> Load(m, build, i)
    [] i.op = "lwl"            -> LoadLeft(m, build, i)
    [] i.op = "lwr"            -> LoadRight(m, build, i)
    [] i.op \in StoreOps       -> Store(m, build, i)
    [] i.op = "swl"            -> StoreLeft(m, build, i)
    [] i.op = "swr"            -> StoreRight(m, build, i)
    [] i.op = "break"          -> Raise(m, "Bp")

Plain(m, build, i) == [Effect(StartStep(m), build, i) EXCEPT !.PC = m.PC + 1]

\* Branches, those that nullify their delay slot when they are not taken,
\* those that link, and jumps.
Likely   == {"beql", "bnel", "bgezl", "bgtzl", "blezl", "bltzl", "bgezall", "bltzall"}
LinkOps  == {"bgezal", "bgezall", "bltzal", "bltzall", "jal", "jalr"}
JumpOps  == {"j", "jr", "jal", "jalr"}
BranchOps == {"beq", "bne", "bgez", "bgtz", "blez", "bltz"}
               \cup Likely \cup LinkOps \cup JumpOps \cup ConditionBranches

Taken(m, i) ==
  LET a == m.R[i.rs]
  IN  \/ i.op \in {"beq", "beql"}   /\ a = m.R[i.rt]
      \/ i.op \in {"bne", "bnel"}   /\ a # m.R[i.rt]
      \/ i.op \in {"bgtz", "bgtzl"} /\ a # 0 /\ SignBit(a) = 0
      \/ i.op \in {"blez", "blezl"} /\ (a = 0 \/ SignBit(a) = 1)
      \/ i.op \in {"bgez", "bgezl", "bgezal", "bgezall"} /\ SignBit(a) = 0
      \/ i.op \in {"bltz", "bltzl", "bltzal", "bltzall"} /\ SignBit(a) = 1
      \/ i.op \in ConditionBranches /\ m.FCC[CC(i)] = TF(i)
      \/ i.op \in JumpOps
Nullifies(i) == i.op \in Likely \/ (i.op \in ConditionBranches /\ ND(i) = 1)

\* The link register is written before the condition is read, and jr and jalr
\* read their target before.  Places outside the line's code are Far and more.
Far == 100
Slots(build) == IF build.delayed_branches THEN 1 ELSE 0
Linked(m, build, i) ==
  IF i.op \notin LinkOps THEN m
  ELSE Set(m, IF i.op = "jalr" THEN i.rd ELSE ra, m.PC + 1 + Slots(build))
Target(m, build, i) == IF i.op \in {"jr", "jalr"} THEN Far + m.R[i.rs]
                       ELSE m.PC + i.imm + Slots(build)

\* A jump runs the instruction of its delay slot, if branches are delayed, in a
\* nested call of run_spim, and goes on at its target.  The slot of the last
\* instruction of a line is outside the line.
Jump(m, build, code, target) ==
  LET slot == m.PC + 1
  IN  [IF build.delayed_branches /\ slot <= Len(code) THEN Plain(m, build, code[slot]) ELSE m
         EXCEPT !.PC = target]

Branch(m, build, code, i) ==
  LET n == StartStep(m)
      linked == Linked(n, build, i)
  IN  IF Taken(linked, i) THEN Jump(linked, build, code, Target(n, build, i))
      ELSE [linked EXCEPT !.PC = m.PC + IF Nullifies(i) THEN 2 ELSE 1]

RunStep(m, build, code) ==
  LET i == code[m.PC]
  IN  IF i.op \in BranchOps THEN Branch(m, build, code, i) ELSE Plain(m, build, i)
=============================================================================
