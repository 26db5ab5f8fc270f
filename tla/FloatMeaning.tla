----------------------------- MODULE FloatMeaning -----------------------------
(***************************************************************************)
(* What the programmer of a line on floating-point registers is promised,  *)
(* as LineMeaning says it of the others.  A line is [op, rd, rs, rt, imm,  *)
(* known, form]: rd is written or stored, imm is also a condition flag or  *)
(* the constant of li, and form names the condition of a comparison.       *)
(***************************************************************************)
EXTENDS LineMeaning

FloatLoadLines  == {"lwc1", "l.s", "ldc1", "l.d"}
FloatStoreLines == {"swc1", "s.s", "sdc1", "s.d"}
FloatMemory     == FloatLoadLines \cup FloatStoreLines
FloatLines == FloatMoves \cup MoveOnOps \cup CompareOps \cup ConditionBranches \cup FloatMemory
                \cup {"li.s", "li.d", "mfc1", "mtc1", "mfc1.d", "mtc1.d"}

\* Lines on doubles, and those among them that need an even register.
DoubleLines == WideOps \cup {"l.d", "s.d", "li.d", "mfc1.d", "mtc1.d"}
EvenLines   == (WideOps \ {"ldc1"}) \cup {"s.d"}
Wide(l)     == l.op \in DoubleLines
Pair(l, r)  == IF Wide(l) THEN {r, r + 1} ELSE {r}

FloatTouched(l, b) ==
  {Low(Start(l, b) + k) : k \in 0 .. IF Wide(l) THEN 7 ELSE 3}

\* The words that come to the register rd, the first of them or both.
SourceWord(l, build, b, k) ==
  CASE l.op \in FloatLoadLines         -> Datum(b.mem, build, Low(Start(l, b) + 4 * k), 4)
    [] l.op \in {"mtc1", "mtc1.d"}     -> b.R[l.rs + k]
    [] l.op \in {"mfc1", "mfc1.d"}     -> b.F[l.rs + k]
    [] l.op = "li.s"                   -> l.imm
    [] l.op = "li.d"                   -> IF (k = 0) = build.big_endian
                                          THEN l.imm \div Word ELSE l.imm % Word
    [] OTHER                           -> b.F[l.rs + k]

\* Whether a line that moves on a condition does.
MovesNow(l, b) ==
  /\ l.op \in {"movf", "movf.s", "movf.d"} => b.FCC[l.imm] = 0
  /\ l.op \in {"movt", "movt.s", "movt.d"} => b.FCC[l.imm] = 1
  /\ l.op \in {"movn.s", "movn.d"}         => b.R[l.rt] # 0
  /\ l.op \in {"movz.s", "movz.d"}         => b.R[l.rt] = 0

\* The comparisons by their names: ngle is "not greater, less or equal".
Holds(cond, x, y, ordered) ==
  LET lt == ordered /\ x < y
      eq == ordered /\ x = y
      gt == ordered /\ x > y
  IN  CASE cond \in {"f", "sf"}    -> FALSE
        [] cond = "un"             -> ~ordered
        [] cond \in {"eq", "seq"}  -> eq
        [] cond = "ueq"            -> ~ordered \/ eq
        [] cond \in {"olt", "lt"}  -> lt
        [] cond \in {"ole", "le"}  -> lt \/ eq
        [] cond = "ult"            -> ~ordered \/ lt
        [] cond = "ule"            -> ~ordered \/ lt \/ eq
        [] cond = "ngle"           -> ~(gt \/ lt \/ eq)
        [] cond = "ngl"            -> ~(gt \/ lt)
        [] cond = "nge"            -> ~(gt \/ eq)
        [] cond = "ngt"            -> ~gt
Signaling == {"sf", "ngle", "seq", "ngl", "lt", "nge", "le", "ngt"}

\* The numbers of a line's operands.
Operand1(l, build, b) == FPR(b, build, l.op, l.rs)
Operand2(l, build, b) == FPR(b, build, l.op, l.rt)
Ordered(l, build, b) ==
  ~IsNaN(Operand1(l, build, b), Size(l.op)) /\ ~IsNaN(Operand2(l, build, b), Size(l.op))

OddRegister(l, b) ==
  /\ l.op \in EvenLines
  /\ \/ l.op \in FloatStoreLines /\ l.rd % 2 = 1
     \/ l.op \in CompareOps /\ (l.rs % 2 = 1 \/ l.rt % 2 = 1)
     \/ l.op \in FloatMoves /\ MovesNow(l, b) /\ (l.rd % 2 = 1 \/ l.rs % 2 = 1)

FloatExceptionDue(l, build, b) ==
  CASE OddRegister(l, b) -> "run_error"
    [] l.op \in FloatMemory /\ Start(l, b) % 4 # 0 ->
         IF l.op \in FloatLoadLines THEN "AdEL" ELSE "AdES"
    [] l.op \in FloatMemory /\ ~(FloatTouched(l, b) \subseteq Memory) -> "DBE"
    [] l.op \in CompareOps /\ l.form \in Signaling /\ ~Ordered(l, build, b) -> "FPE"
    [] OTHER -> "none"

\* The registers a line is to write.
FloatWritten(l) ==
  IF l.op \in FloatLoadLines \cup FloatMoves \cup {"li.s", "li.d", "mtc1", "mtc1.d"}
  THEN Pair(l, l.rd) ELSE {}
IntegerWritten(l) ==
  IF l.op \in MoveOnOps \cup {"mfc1", "mfc1.d"} THEN Pair(l, l.rd) ELSE {}

FloatResultDue(l, build, b, f) ==
  LET size == Size(l.op)
      old == FPR(b, build, l.op, l.rs)
      new == FPR(f, build, l.op, l.rd)
  IN
  CASE l.op \in {"abs.s", "abs.d", "neg.s", "neg.d"} ->
         IF IsNaN(old, size) THEN IsNaN(new, size)
         ELSE ~IsNaN(new, size) /\ Value(new, size) =
                IF l.op \in {"abs.s", "abs.d"} THEN abs(Value(old, size)) ELSE -Value(old, size)
    [] l.op \in MoveOnOps -> f.R[l.rd] = IF MovesNow(l, b) THEN b.R[l.rs] ELSE b.R[l.rd]
    [] l.op \in FloatStoreLines ->
         /\ \A r \in Pair(l, l.rd) :
              Datum(f.mem, build, Low(Start(l, b) + 4 * (r - l.rd)), 4) = b.F[r]
         /\ \A a \in Memory \ FloatTouched(l, b) : f.mem[a] = b.mem[a]
    [] OTHER ->
         /\ \A r \in FloatWritten(l) :
              f.F[r] = IF MovesNow(l, b) THEN SourceWord(l, build, b, r - l.rd) ELSE b.F[r]
         /\ \A r \in IntegerWritten(l) \ {0} : f.R[r] = SourceWord(l, build, b, r - l.rd)

FloatPlaceDue(l, build, b, length, pc) ==
  IF l.op \in ConditionBranches /\ b.FCC[l.imm] = Truth(l.op \in {"bc1t", "bc1tl"})
  THEN pc >= Far
  ELSE pc = length + 1 + IF l.op \in {"bc1fl", "bc1tl"} THEN Slots(build) ELSE 0

\* The line l does what it says, from the machine b to the machine f.
FloatMeans(l, build, b, f, length) ==
  /\ f.exception = FloatExceptionDue(l, build, b)
  /\ \A r \in FloatRegisters \ FloatWritten(l) : f.F[r] = b.F[r]
  /\ \A r \in Registers \ (IntegerWritten(l) \cup {0, at}) : f.R[r] = b.R[r]
  /\ <<f.HI, f.LO>> = <<b.HI, b.LO>>
  /\ \A c \in Conditions : f.FCC[c] # b.FCC[c] => l.op \in CompareOps /\ c = l.imm
  /\ f.exception = "none" =>
       /\ FloatResultDue(l, build, b, f)
       /\ l.op \in CompareOps =>
            LET x == Value(Operand1(l, build, b), Size(l.op))
                y == Value(Operand2(l, build, b), Size(l.op))
            IN  f.FCC[l.imm] = Truth(Holds(l.form, x, y, Ordered(l, build, b)))
       /\ l.op \notin FloatStoreLines => f.mem = b.mem
       /\ FloatPlaceDue(l, build, b, length, f.PC)
=============================================================================
