-------------------------- MODULE LineMeaningProofs --------------------------
(***************************************************************************)
(* Proofs that lines do what they say (MeansWhatItSays of                  *)
(* PseudoInstructions), for words of any width, any registers and memory,  *)
(* any immediates, and symbols defined before or after.                    *)
(***************************************************************************)
EXTENDS PseudoInstructionsProofs

-----------------------------------------------------------------------------
(***************************************************************************)
(* Running the code of a line: n is reached from b.                        *)
(***************************************************************************)
Over(n, c) == n.exception # "none" \/ n.PC > Len(c)
Runs(b, bd, c, n) ==
  \E k \in Nat : \E s \in [0 .. k -> Machines] :
    /\ s[0] = b /\ s[k] = n
    /\ \A j \in 1 .. k : ~Over(s[j - 1], c) /\ s[j] = RunStep(s[j - 1], bd, c)

\* A run begins where it begins.
LEMMA RunStart ==
  ASSUME NEW b \in Machines, NEW bd, NEW c
  PROVE  Runs(b, bd, c, b)
  <1>. DEFINE s == [j \in 0 .. 0 |-> b]
  <1>1. s \in [0 .. 0 -> Machines] /\ s[0] = b
    OBVIOUS
  <1>2. \A j \in 1 .. 0 : ~Over(s[j - 1], c) /\ s[j] = RunStep(s[j - 1], bd, c)
    OBVIOUS
  <1>. HIDE DEF s
  <1>. QED BY <1>1, <1>2 DEF Runs

\* It goes on by a step where it is not over.
LEMMA RunMore ==
  ASSUME NEW b, NEW bd, NEW c, NEW n, Runs(b, bd, c, n), ~Over(n, c),
         RunStep(n, bd, c) \in Machines
  PROVE  Runs(b, bd, c, RunStep(n, bd, c))
  <1>0. PICK k \in Nat : \E s \in [0 .. k -> Machines] :
          /\ s[0] = b /\ s[k] = n
          /\ \A j \in 1 .. k : ~Over(s[j - 1], c) /\ s[j] = RunStep(s[j - 1], bd, c)
    BY DEF Runs
  <1>1. PICK s \in [0 .. k -> Machines] :
          /\ s[0] = b /\ s[k] = n
          /\ \A j \in 1 .. k : ~Over(s[j - 1], c) /\ s[j] = RunStep(s[j - 1], bd, c)
    BY <1>0
  <1>. DEFINE next == RunStep(n, bd, c)
              t == [j \in 0 .. k + 1 |-> IF j = k + 1 THEN next ELSE s[j]]
  <1>. HIDE DEF next
  <1>2. next \in Machines
    BY DEF next
  <1>3. t \in [0 .. k + 1 -> Machines] /\ t[0] = b /\ t[k + 1] = next
        /\ \A j \in 0 .. k : t[j] = s[j]
    BY <1>1, <1>2
  <1>. HIDE DEF t
  <1>4. ASSUME NEW j \in 1 .. k + 1
        PROVE  ~Over(t[j - 1], c) /\ t[j] = RunStep(t[j - 1], bd, c)
    <2>1. CASE j = k + 1
      <3>1. t[j - 1] = n /\ t[j] = next
        BY <1>1, <1>3, <2>1
      <3>. QED BY <3>1 DEF next
    <2>2. CASE j # k + 1
      <3>1. j \in 1 .. k /\ t[j - 1] = s[j - 1] /\ t[j] = s[j]
        BY <1>3, <2>2
      <3>. QED BY <1>1, <3>1
    <2>. QED BY <2>1, <2>2
  <1>5. k + 1 \in Nat
    OBVIOUS
  <1>6. Runs(b, bd, c, next)
    BY <1>3, <1>4, <1>5 DEF Runs
  <1>. QED BY <1>6 DEF next

\* A run from where it is over has not moved.
LEMMA RunOver ==
  ASSUME NEW b, NEW bd, NEW c, NEW n, Runs(b, bd, c, n), Over(b, c)
  PROVE  n = b
  <1>0. PICK k \in Nat : \E s \in [0 .. k -> Machines] :
          /\ s[0] = b /\ s[k] = n
          /\ \A j \in 1 .. k : ~Over(s[j - 1], c) /\ s[j] = RunStep(s[j - 1], bd, c)
    BY DEF Runs
  <1>1. PICK s \in [0 .. k -> Machines] :
          /\ s[0] = b /\ s[k] = n
          /\ \A j \in 1 .. k : ~Over(s[j - 1], c) /\ s[j] = RunStep(s[j - 1], bd, c)
    BY <1>0
  <1>2. CASE k = 0
    BY <1>1, <1>2
  <1>3. CASE k # 0
    <2>1. 1 \in 1 .. k /\ 1 - 1 = 0
      BY <1>3
    <2>2. ~Over(s[0], c)
      BY <1>1, <2>1
    <2>. QED BY <1>1, <2>2
  <1>. QED BY <1>2, <1>3

\* A run that has come to its end from where it was not over took a step first.
LEMMA RunNext ==
  ASSUME NEW b, NEW bd, NEW c, NEW n, Runs(b, bd, c, n), ~Over(b, c), Over(n, c)
  PROVE  Runs(RunStep(b, bd, c), bd, c, n)
  <1>0. PICK k \in Nat : \E s \in [0 .. k -> Machines] :
          /\ s[0] = b /\ s[k] = n
          /\ \A j \in 1 .. k : ~Over(s[j - 1], c) /\ s[j] = RunStep(s[j - 1], bd, c)
    BY DEF Runs
  <1>1. PICK s \in [0 .. k -> Machines] :
          /\ s[0] = b /\ s[k] = n
          /\ \A j \in 1 .. k : ~Over(s[j - 1], c) /\ s[j] = RunStep(s[j - 1], bd, c)
    BY <1>0
  <1>2. k # 0
    BY <1>1
  <1>. DEFINE t == [j \in 0 .. k - 1 |-> s[j + 1]]
  <1>3. k - 1 \in Nat /\ 1 \in 1 .. k /\ 1 - 1 = 0
    BY <1>2
  <1>4. t \in [0 .. k - 1 -> Machines] /\ t[0] = s[1] /\ t[k - 1] = s[k]
        /\ \A j \in 0 .. k - 1 : t[j] = s[j + 1]
    BY <1>2
  <1>5. s[1] = RunStep(s[0], bd, c)
    BY <1>1, <1>3
  <1>. HIDE DEF t
  <1>6. ASSUME NEW j \in 1 .. k - 1
        PROVE  ~Over(t[j - 1], c) /\ t[j] = RunStep(t[j - 1], bd, c)
    <2>1. j + 1 \in 1 .. k /\ t[j - 1] = s[j] /\ t[j] = s[j + 1] /\ j + 1 - 1 = j
      BY <1>4
    <2>. QED BY <1>1, <2>1
  <1>7. t[0] = RunStep(b, bd, c) /\ t[k - 1] = n
    BY <1>1, <1>4, <1>5
  <1>. QED BY <1>3, <1>4, <1>6, <1>7 DEF Runs

-----------------------------------------------------------------------------
(***************************************************************************)
(* What the run of a line starts from and has done so far.                 *)
(***************************************************************************)
Fresh(b) == /\ b \in Machines /\ b.R[0] = 0 /\ b.late1 = <<>> /\ b.late2 = <<>>
            /\ b.exception = "none" /\ b.PC = 1
LineInv ==
  /\ TypeInv /\ Fresh(before)
  /\ stage # "run" => m = before
  /\ stage \in {"assembled", "fatal"} => code = ASM_CODE(line)
  /\ stage = "fatal" => \E k \in DOMAIN code : code[k].op = "fatal_error"
  /\ stage \in {"assembled", "run"} =>
       \A k \in DOMAIN ASM_CODE(line) : ASM_CODE(line)[k].op # "fatal_error"
  /\ stage = "run" => code = Patched(ASM_CODE(line)) /\ Runs(before, build, code, m)

\* The code of a line depends on nothing but the line and the build.
LEMMA SameControl ==
  ASSUME build' = build, NEW l
  PROVE  ControlLine(l)' = ControlLine(l)
  <1>1. \A op, rt, rs, n : branch(op, rt, rs, n)' = branch(op, rt, rs, n)
    BY DEF branch
  <1>2. BranchGreater(l)' = BranchGreater(l)
    BY <1>1 DEF BranchGreater
  <1>3. BranchLess(l)' = BranchLess(l)
    BY <1>1 DEF BranchLess
  <1>4. BranchLessEqual(l)' = BranchLessEqual(l)
    BY <1>1 DEF BranchLessEqual
  <1>5. BranchLine(l)' = BranchLine(l)
    BY <1>1 DEF BranchLine
  <1>. QED BY <1>2, <1>3, <1>4, <1>5 DEF ControlLine

LEMMA SameComputation ==
  ASSUME build' = build, NEW l
  PROVE  ComputeLine(l)' = ComputeLine(l)
  <1>1. \A op, rt, rs, n : branch(op, rt, rs, n)' = branch(op, rt, rs, n)
    BY DEF branch
  <1>2. DivLine(l)' = DivLine(l)
    <2>1. ASSUME NEW op, NEW rd, NEW rs, NEW rt, NEW const
          PROVE  div_inst(op, rd, rs, rt, const)' = div_inst(op, rd, rs, rt, const)
      <3>1. branch("bne", 0, rt, 3)' = branch("bne", 0, rt, 3)
        BY <1>1
      <3>. QED BY <3>1, Zenon DEF div_inst
    <2>. QED BY <2>1 DEF DivLine
  <1>3. MulLine(l)' = MulLine(l)
    <2>1. \A op, rd, rs, rt : mult_inst(op, rd, rs, rt)' = mult_inst(op, rd, rs, rt)
      BY <1>1 DEF mult_inst
    <2>. QED BY <2>1 DEF MulLine
  <1>4. SetLine(l)' = SetLine(l)
    <2>1. \A less, rd, rs, rt, x, y :
            set_or_equal(less, rd, rs, rt, x, y)' = set_or_equal(less, rd, rs, rt, x, y)
      BY <1>1 DEF set_or_equal
    <2>2. \A op, rd, rs, rt : /\ set_le_inst(op, rd, rs, rt)' = set_le_inst(op, rd, rs, rt)
                              /\ set_ge_inst(op, rd, rs, rt)' = set_ge_inst(op, rd, rs, rt)
      BY <2>1 DEF set_le_inst, set_ge_inst
    <2>3. \A op, rd, rs, rt : set_eq_inst(op, rd, rs, rt)' = set_eq_inst(op, rd, rs, rt)
      BY <1>1 DEF set_eq_inst
    <2>. QED BY <2>2, <2>3 DEF SetLine
  <1>5. MoveLine(l)' = MoveLine(l)
    BY <1>1 DEF MoveLine
  <1>. QED BY <1>2, <1>3, <1>4, <1>5 DEF ComputeLine

LEMMA SameCode ==
  ASSUME build' = build, NEW l
  PROVE  ASM_CODE(l)' = ASM_CODE(l)
  <1>1. MemoryLine(l)' = MemoryLine(l)
    <2>1. UnalignedLoad(l)' = UnalignedLoad(l)
      BY DEF UnalignedLoad
    <2>2. UnalignedStore(l)' = UnalignedStore(l)
      BY DEF UnalignedStore
    <2>. QED BY <2>1, <2>2 DEF MemoryLine
  <1>2. FloatLine(l)' = FloatLine(l)
    <2>1. FloatImmediateLine(l)' = FloatImmediateLine(l)
      BY DEF FloatImmediateLine
    <2>2. \A op, rt, rs, n : branch(op, rt, rs, n)' = branch(op, rt, rs, n)
      BY DEF branch
    <2>3. ConditionBranchLine(l)' = ConditionBranchLine(l)
      BY <2>2 DEF ConditionBranchLine
    <2>. QED BY <2>1, <2>3 DEF FloatLine
  <1>. QED BY <1>1, <1>2, SameControl, SameComputation DEF ASM_CODE

LEMMA LineInit == Init => LineInv
  <1>. SUFFICES ASSUME Init PROVE LineInv
    OBVIOUS
  <1>1. TypeInv
    BY TypeInit
  <1>2. PICK v, w, bytes, flags : m = Entry(line, v, w, bytes, flags)
    BY DEF Init
  <1>3. before = m /\ stage = "read"
    BY DEF Init
  <1>4. Fresh(m)
    <2>1. m \in Machines
      BY <1>1 DEF TypeInv
    <2>. QED BY <1>2, <2>1, SmallRegisters DEF Entry, Fresh
  <1>. QED BY <1>1, <1>3, <1>4 DEF LineInv

LEMMA LineStep == LineInv /\ [Next]_vars => LineInv'
  <1>. SUFFICES ASSUME LineInv, [Next]_vars PROVE LineInv'
    OBVIOUS
  <1>1. TypeInv /\ TypeInv'
    BY TypeStep DEF LineInv
  <1>2. CASE Assemble
    <2>1. /\ line' = line /\ build' = build /\ m' = m /\ before' = before
          /\ code' = ASM_CODE(line) /\ stage = "read"
          /\ stage' \in {"fatal", "assembled", "run"}
          /\ stage' = "fatal" => \E k \in DOMAIN code' : code'[k].op = "fatal_error"
          /\ stage' # "fatal" => \A k \in DOMAIN code' : code'[k].op # "fatal_error"
          /\ stage' = "run" => \A k \in DOMAIN code' : code'[k].bits = "none"
      BY <1>2 DEF Assemble
    <2>2. ASM_CODE(line)' = ASM_CODE(line) /\ m = before /\ Fresh(before)
      BY <2>1, SameCode DEF LineInv
    <2>3. ASSUME stage' = "run" PROVE code' = Patched(code')
      <3>1. CodeOK(code')
        BY <1>1, <2>3 DEF TypeInv
      <3>2. code' \in Seq(Straight \cup Turning)
        BY <3>1, CodeFacts
      <3>3. code' = [k \in DOMAIN code' |-> code'[k]]
        BY <3>2
      <3>. QED BY <2>1, <2>3, <3>3 DEF Patched
    <2>4. Runs(before', build', code', m')
      BY <2>1, <2>2, RunStart DEF Fresh
    <2>. QED BY <1>1, <2>1, <2>2, <2>3, <2>4 DEF LineInv, Fresh
  <1>3. CASE DefineSymbol
    <2>1. /\ line' = line /\ build' = build /\ m' = m /\ before' = before
          /\ code' = Patched(code) /\ stage = "assembled" /\ stage' = "run"
      BY <1>3 DEF DefineSymbol
    <2>2. ASM_CODE(line)' = ASM_CODE(line) /\ m = before /\ Fresh(before)
          /\ code = ASM_CODE(line)
      BY <2>1, SameCode DEF LineInv
    <2>3. Runs(before', build', code', m')
      BY <2>1, <2>2, RunStart DEF Fresh
    <2>. QED BY <1>1, <2>1, <2>2, <2>3 DEF LineInv, Fresh
  <1>4. CASE RunInstruction
    <2>1. /\ line' = line /\ build' = build /\ before' = before /\ code' = code
          /\ stage = "run" /\ stage' = "run" /\ m' = RunStep(m, build, code) /\ ~Ended
      BY <1>4 DEF RunInstruction
    <2>2. ASM_CODE(line)' = ASM_CODE(line) /\ Fresh(before) /\ Runs(before, build, code, m)
          /\ code = Patched(ASM_CODE(line))
      BY <2>1, SameCode DEF LineInv
    <2>3. m' \in Machines /\ ~Over(m, code)
      BY <1>1, <2>1 DEF TypeInv, Ended, Over
    <2>4. Runs(before', build', code', m')
      BY <2>1, <2>2, <2>3, RunMore
    <2>. QED BY <1>1, <2>1, <2>2, <2>4 DEF LineInv, Fresh
  <1>5. CASE UNCHANGED vars
    <2>1. /\ line' = line /\ build' = build /\ before' = before /\ code' = code
          /\ stage' = stage /\ m' = m
      BY <1>5 DEF vars
    <2>2. ASM_CODE(line)' = ASM_CODE(line)
      BY <2>1, SameCode
    <2>. QED BY <1>1, <2>1, <2>2 DEF LineInv, Fresh
  <1>. QED BY <1>2, <1>3, <1>4, <1>5 DEF Next

-----------------------------------------------------------------------------
(***************************************************************************)
(* Words modulo their width, and their halves.                             *)
(***************************************************************************)
LEMMA LowShift ==
  ASSUME NEW n \in Int, NEW k \in Int
  PROVE  Low(n + k * Word) = Low(n) /\ Low(n - k * Word) = Low(n)
  <1>. DEFINE q == n \div Word
              r == n % Word
  <1>1. q \in Int /\ r \in 0 .. Word - 1 /\ n = Word * q + r
    BY DivMod, Widths
  <1>. HIDE DEF q, r
  <1>2. n + k * Word = (q + k) * Word + r /\ n - k * Word = (q - k) * Word + r
    BY <1>1, Widths
  <1>3. q + k \in Int /\ q - k \in Int /\ n + k * Word \in Int /\ n - k * Word \in Int
    BY <1>1, Widths
  <1>4. (n + k * Word) % Word = r
    BY <1>1, <1>2, <1>3, Widths, DivModUnique
  <1>5. (n - k * Word) % Word = r
    BY <1>1, <1>2, <1>3, Widths, DivModUnique
  <1>. QED BY <1>4, <1>5 DEF Low, r

LEMMA LowAsSum ==
  ASSUME NEW n \in Int
  PROVE  \E k \in Int : n = Low(n) + k * Word
  <1>1. n \div Word \in Int /\ n = Word * (n \div Word) + (n % Word) /\ n % Word \in Int
    BY DivMod, Widths
  <1>2. n = Low(n) + (n \div Word) * Word
    BY <1>1, Widths DEF Low
  <1>. QED BY <1>1, <1>2

LEMMA LowOfSum ==
  ASSUME NEW x \in Int, NEW y \in Int
  PROVE  /\ Low(Low(x) + y) = Low(x + y) /\ Low(x + Low(y)) = Low(x + y)
         /\ Low(Low(x) - y) = Low(x - y) /\ Low(x - Low(y)) = Low(x - y)
         /\ Low(Low(x)) = Low(x)
  <1>1. PICK j \in Int : x = Low(x) + j * Word
    BY LowAsSum
  <1>2. PICK k \in Int : y = Low(y) + k * Word
    BY LowAsSum
  <1>3. Low(x) \in Int /\ Low(y) \in Int
    BY LowType, WordBounds
  <1>. DEFINE p == Low(x)
              q == Low(y)
  <1>4. Low((p + y) + j * Word) = Low(p + y) /\ Low((p - y) + j * Word) = Low(p - y)
        /\ Low((x + q) + k * Word) = Low(x + q) /\ Low((x - q) - k * Word) = Low(x - q)
        /\ Low(p + j * Word) = Low(p)
    BY <1>3, LowShift
  <1>. HIDE DEF p, q
  <1>5. p \in Int /\ q \in Int /\ x = p + j * Word /\ y = q + k * Word
    BY <1>1, <1>2, <1>3 DEF p, q
  <1>6. /\ (p + y) + j * Word = x + y /\ (p - y) + j * Word = x - y
        /\ (x + q) + k * Word = x + y /\ (x - q) - k * Word = x - y
    BY <1>5, Widths
  <1>. QED BY <1>4, <1>5, <1>6 DEF p, q

LEMMA LowSmall == ASSUME NEW x \in Words PROVE Low(x) = x
  <1>1. 0 * Word + x = x /\ 0 \in Int /\ x \in 0 .. Word - 1 /\ x \in Int
    BY Widths DEF Words
  <1>2. x = 0 * Word + x
    BY <1>1
  <1>. QED BY <1>1, <1>2, Widths, DivModUnique DEF Low

LEMMA SignedLow ==
  ASSUME NEW x \in Words
  PROVE  Low(Signed(x)) = x /\ \E k \in Int : Signed(x) = x + k * Word
  <1>1. Signed(x) = x + 0 * Word \/ Signed(x) = x + (-1) * Word
    BY WordBounds, Widths
  <1>2. PICK k \in {0, -1} : Signed(x) = x + k * Word
    BY <1>1
  <1>. QED BY <1>2, LowShift, LowSmall, WordBounds

\* A half word: what Short leaves, and what is left of it.
LEMMA HalfShift ==
  ASSUME NEW n \in Int, NEW k \in Int
  PROVE  (n + k * Half) % Half = n % Half
  <1>. DEFINE q == n \div Half
              r == n % Half
  <1>1. q \in Int /\ r \in 0 .. Half - 1 /\ n = Half * q + r
    BY DivMod, Widths
  <1>. HIDE DEF q, r
  <1>2. n + k * Half = (q + k) * Half + r /\ q + k \in Int /\ n + k * Half \in Int
    BY <1>1, Widths
  <1>3. (n + k * Half) % Half = r
    BY <1>1, <1>2, Widths, DivModUnique
  <1>. QED BY <1>3 DEF r

LEMMA ShortFacts ==
  ASSUME NEW n \in Int
  PROVE  /\ Short(n) \in Int /\ Short(n) % Half = n % Half
         /\ Short(n) = IF n % Half >= Half \div 2 THEN (n % Half) - Half ELSE n % Half
         /\ n % Half \in 0 .. Half - 1
         /\ \A k \in Int : k % Half = n % Half => Short(k) = Short(n)
  <1>1. n \div Half \in Int /\ n % Half \in 0 .. Half - 1 /\ n = Half * (n \div Half) + (n % Half)
    BY DivMod, Widths
  <1>2. \/ Short(n) = n + (-(n \div Half)) * Half \/ Short(n) = n + (-(n \div Half) - 1) * Half
    BY <1>1, Widths DEF Short
  <1>3. -(n \div Half) \in Int /\ -(n \div Half) - 1 \in Int
    BY <1>1
  <1>4. Short(n) % Half = n % Half
    BY <1>2, <1>3, HalfShift
  <1>. QED BY <1>1, <1>4, ShortType DEF Short

LEMMA LowHalf ==
  ASSUME NEW n \in Int
  PROVE  Low(n) % Half = n % Half
  <1>1. PICK k \in Int : n = Low(n) + k * Word
    BY LowAsSum
  <1>2. Low(n) \in Int /\ n = Low(n) + (k * Half) * Half /\ k * Half \in Int
    BY <1>1, LowType, WordBounds, Widths DEF Word
  <1>. QED BY <1>2, HalfShift

LEMMA HalvesOf ==
  ASSUME NEW x \in Words
  PROVE  /\ x \div Half \in 0 .. Half - 1 /\ x % Half \in 0 .. Half - 1
         /\ x = (x \div Half) * Half + (x % Half)
  <1>. DEFINE q == x \div Half
              r == x % Half
  <1>1. q \in 0 .. Half - 1 /\ r \in 0 .. Half - 1
    BY Halves
  <1>2. x = Half * q + r
    BY DivMod, Widths, WordBounds
  <1>. HIDE DEF q, r
  <1>3. x = q * Half + r
    BY <1>1, <1>2, Widths
  <1>. QED BY <1>1, <1>3 DEF q, r

LEMMA HalvesUnique ==
  ASSUME NEW h \in 0 .. Half - 1, NEW r \in 0 .. Half - 1
  PROVE  /\ h * Half + r \in Words /\ Low(h * Half + r) = h * Half + r
         /\ (h * Half + r) \div Half = h /\ (h * Half + r) % Half = r
  <1>1. h * Half + r \in Words /\ h * Half + r \in Int
    BY Joined, WordBounds
  <1>. QED BY <1>1, LowSmall, DivModUnique, Widths

\* The low half of n is the halves' sum where the high one makes up for a sign.
LEMMA CarriedHigh ==
  ASSUME NEW x \in Words, NEW carry \in {0, 1}
  PROVE  /\ Low(x + Half * carry) \div Half = (x \div Half + carry) % Half
         /\ Low(x + Half * carry) % Half = x % Half
  <1>. DEFINE h == x \div Half
              r == x % Half
  <1>1. h \in 0 .. Half - 1 /\ r \in 0 .. Half - 1 /\ x = h * Half + r
    BY HalvesOf
  <1>. HIDE DEF h, r
  <1>2. CASE h + carry < Half
    <2>1. x + Half * carry = (h + carry) * Half + r /\ h + carry \in 0 .. Half - 1
      BY <1>1, <1>2, Widths
    <2>2. (h + carry) % Half = h + carry
      BY <2>1, Widths
    <2>. QED BY <1>1, <2>1, <2>2, HalvesUnique DEF h, r
  <1>3. CASE ~(h + carry < Half)
    <2>1. h + carry = Half
      BY <1>1, <1>3, Widths
    <2>2. x + Half * carry = 1 * Word + (0 * Half + r)
      BY <1>1, <2>1, Widths DEF Word
    <2>3. Low(x + Half * carry) = Low(0 * Half + r) /\ 0 \in 0 .. Half - 1
      <3>1. r \in Int /\ 0 * Half + r = r
        BY <1>1, Widths
      <3>2. x + Half * carry = r + 1 * Word
        BY <2>2, <3>1, Widths
      <3>3. Low(r + 1 * Word) = Low(r)
        BY <3>1, LowShift
      <3>. QED BY <3>1, <3>2, <3>3, Widths
    <2>4. (h + carry) % Half = 0
      BY <2>1, Widths
    <2>5. Low(x + Half * carry) = 0 * Half + r
      BY <1>1, <2>3, HalvesUnique
    <2>. QED BY <1>1, <2>3, <2>4, <2>5, HalvesUnique DEF h, r
  <1>. QED BY <1>2, <1>3

LEMMA HalfAsSum ==
  ASSUME NEW n \in Int
  PROVE  \E k \in Int : (n % Half) * Half = n * Half + k * Word
  <1>. DEFINE q == n \div Half
              r == n % Half
  <1>1. q \in Int /\ r \in Int /\ n = Half * q + r
    BY DivMod, Widths
  <1>. HIDE DEF q, r
  <1>2. r = n + (-q) * Half
    BY <1>1, Widths
  <1>3. r * Half = n * Half + ((-q) * Half) * Half
    BY <1>1, <1>2, Widths
  <1>4. r * Half = n * Half + (-q) * Word /\ -q \in Int
    BY <1>1, <1>3, Widths DEF Word
  <1>. QED BY <1>4 DEF r

LEMMA PiecesSum ==
  ASSUME NEW v \in Int, NEW carry \in {0, 1}, carry = 1 <=> v % Half >= Half \div 2,
         NEW h \in Int, h % Half = (Low(v) \div Half + carry) % Half,
         NEW low \in Int, low % Half = v % Half
  PROVE  Low(Low((h % Half) * Half) + Short(low)) = Low(v)
  <1>. DEFINE x == Low(v)
              H == x \div Half
              r == x % Half
              g == h % Half
  <1>1. x \in Words /\ H \in 0 .. Half - 1 /\ r \in 0 .. Half - 1 /\ x = H * Half + r
    BY LowType, HalvesOf
  <1>2. r = v % Half
    BY LowHalf
  <1>3. Short(low) = r - carry * Half
    <2>1. Short(low) = IF low % Half >= Half \div 2 THEN (low % Half) - Half ELSE low % Half
      BY ShortFacts
    <2>. HIDE DEF r
    <2>. QED BY <1>1, <1>2, <2>1, Widths
  <1>4. g \in Int /\ \E k \in Int : g * Half = (H + carry) * Half + k * Word
    <2>1. H + carry \in Int
      BY <1>1
    <2>2. g = (H + carry) % Half
      OBVIOUS
    <2>. HIDE DEF H, g
    <2>3. \E k \in Int : ((H + carry) % Half) * Half = (H + carry) * Half + k * Word
      BY <2>1, HalfAsSum
    <2>4. (H + carry) % Half \in Int
      BY <2>1, ShortFacts
    <2>. QED BY <2>2, <2>3, <2>4
  <1>5. PICK k \in Int : g * Half = (H + carry) * Half + k * Word
    BY <1>4
  <1>. HIDE DEF H, r, g
  <1>6. g * Half + Short(low) = x + k * Word
    BY <1>1, <1>3, <1>4, <1>5, Widths
  <1>7. x \in Int /\ g * Half \in Int /\ Short(low) \in Int
    BY <1>1, <1>4, WordBounds, Widths, ShortType
  <1>8. Low(g * Half + Short(low)) = Low(x)
    BY <1>6, <1>7, LowShift
  <1>. QED BY <1>1, <1>7, <1>8, LowOfSum, LowSmall DEF g

-----------------------------------------------------------------------------
(***************************************************************************)
(* One instruction after another.                                          *)
(***************************************************************************)
\* What each kind of instruction does.
LEMMA EffectKinds ==
  ASSUME NEW n, NEW b, NEW i
  PROVE  /\ i.op \in AddOps => Effect(n, b, i) = Add(n, i)
         /\ i.op \in SubOps => Effect(n, b, i) = Sub(n, i)
         /\ i.op \in OrOps => Effect(n, b, i) = BitOr(n, i)
         /\ i.op = "lui" => Effect(n, b, i) = LoadUpper(n, i)
         /\ i.op \in SetLessOps => Effect(n, b, i) = SetLess(n, i)
         /\ i.op \in MoveIfOps => Effect(n, b, i) = MoveIf(n, i)
         /\ i.op \in TrapOps => Effect(n, b, i) = Trap(n, i)
         /\ i.op \in MoveFromOps => Effect(n, b, i) = MoveFrom(n, i)
         /\ i.op \in MoveToOps => Effect(n, b, i) = MoveTo(n, i)
         /\ i.op \in LoadOps => Effect(n, b, i) = Load(n, b, i)
         /\ i.op \in StoreOps => Effect(n, b, i) = Store(n, b, i)
  <1>0. i.op \in AddOps \cup SubOps \cup OrOps \cup SetLessOps \cup MoveIfOps \cup TrapOps
               \cup MoveFromOps \cup MoveToOps \cup LoadOps \cup StoreOps \cup {"lui"}
          => i.op \notin FloatOps
    BY DEF FloatOps, FloatMoves, MoveOnOps, CompareOps, CoprocessorMoves, FloatLoadStore,
       AddOps, SubOps, OrOps, SetLessOps, MoveIfOps, TrapOps,
       MoveFromOps, MoveToOps, LoadOps, StoreOps
  <1>1. ASSUME i.op \in AddOps PROVE Effect(n, b, i) = Add(n, i)
    <2>1. /\ i.op \notin SubOps /\ i.op \notin AndOps /\ i.op \notin OrOps /\ i.op \notin XorOps
          /\ i.op # "lui" /\ i.op \notin LeadingOps /\ i.op \notin SetLessOps
          /\ i.op \notin ShiftLeftOps /\ i.op \notin ShiftRightOps /\ i.op \notin MoveIfOps
          /\ i.op \notin TrapOps /\ i.op \notin MultiplyOps /\ i.op \notin MultiplyAddOps
          /\ i.op \notin MultiplySubOps /\ i.op \notin DivideOps /\ i.op \notin MoveFromOps
          /\ i.op \notin MoveToOps /\ i.op \notin LoadOps /\ i.op # "lwl" /\ i.op # "lwr"
          /\ i.op \notin StoreOps /\ i.op # "swl" /\ i.op # "swr" /\ i.op # "break"
      BY <1>1 DEF AddOps, SubOps, AndOps, OrOps, XorOps, LeadingOps, SetLessOps,
         ShiftLeftOps, ShiftRightOps, MoveIfOps, TrapOps,
         MultiplyOps, MultiplyAddOps, MultiplySubOps, DivideOps, MoveFromOps, MoveToOps, LoadOps, StoreOps
    <2>. QED BY <1>0, <1>1, <2>1, ZenonT(30) DEF Effect
  <1>2. ASSUME i.op \in SubOps PROVE Effect(n, b, i) = Sub(n, i)
    <2>1. /\ i.op \notin AddOps /\ i.op \notin AndOps /\ i.op \notin OrOps /\ i.op \notin XorOps
          /\ i.op # "lui" /\ i.op \notin LeadingOps /\ i.op \notin SetLessOps
          /\ i.op \notin ShiftLeftOps /\ i.op \notin ShiftRightOps /\ i.op \notin MoveIfOps
          /\ i.op \notin TrapOps /\ i.op \notin MultiplyOps /\ i.op \notin MultiplyAddOps
          /\ i.op \notin MultiplySubOps /\ i.op \notin DivideOps /\ i.op \notin MoveFromOps
          /\ i.op \notin MoveToOps /\ i.op \notin LoadOps /\ i.op # "lwl" /\ i.op # "lwr"
          /\ i.op \notin StoreOps /\ i.op # "swl" /\ i.op # "swr" /\ i.op # "break"
      BY <1>2 DEF AddOps, SubOps, AndOps, OrOps, XorOps, LeadingOps, SetLessOps,
         ShiftLeftOps, ShiftRightOps, MoveIfOps, TrapOps,
         MultiplyOps, MultiplyAddOps, MultiplySubOps, DivideOps, MoveFromOps, MoveToOps, LoadOps, StoreOps
    <2>. QED BY <1>0, <1>2, <2>1, ZenonT(30) DEF Effect
  <1>3. ASSUME i.op \in OrOps PROVE Effect(n, b, i) = BitOr(n, i)
    <2>1. /\ i.op \notin AddOps /\ i.op \notin SubOps /\ i.op \notin AndOps
          /\ i.op \notin XorOps /\ i.op # "lui" /\ i.op \notin LeadingOps
          /\ i.op \notin SetLessOps /\ i.op \notin ShiftLeftOps /\ i.op \notin ShiftRightOps
          /\ i.op \notin MoveIfOps /\ i.op \notin TrapOps /\ i.op \notin MultiplyOps
          /\ i.op \notin MultiplyAddOps /\ i.op \notin MultiplySubOps /\ i.op \notin DivideOps
          /\ i.op \notin MoveFromOps /\ i.op \notin MoveToOps /\ i.op \notin LoadOps
          /\ i.op # "lwl" /\ i.op # "lwr" /\ i.op \notin StoreOps /\ i.op # "swl"
          /\ i.op # "swr" /\ i.op # "break"
      BY <1>3 DEF AddOps, SubOps, AndOps, OrOps, XorOps, LeadingOps, SetLessOps,
         ShiftLeftOps, ShiftRightOps, MoveIfOps, TrapOps,
         MultiplyOps, MultiplyAddOps, MultiplySubOps, DivideOps, MoveFromOps, MoveToOps, LoadOps, StoreOps
    <2>. QED BY <1>0, <1>3, <2>1, ZenonT(30) DEF Effect
  <1>4. ASSUME i.op = "lui" PROVE Effect(n, b, i) = LoadUpper(n, i)
    <2>1. /\ i.op \notin AddOps /\ i.op \notin SubOps /\ i.op \notin AndOps /\ i.op \notin OrOps
          /\ i.op \notin XorOps /\ i.op \notin LeadingOps /\ i.op \notin SetLessOps
          /\ i.op \notin ShiftLeftOps /\ i.op \notin ShiftRightOps /\ i.op \notin MoveIfOps
          /\ i.op \notin TrapOps /\ i.op \notin MultiplyOps /\ i.op \notin MultiplyAddOps
          /\ i.op \notin MultiplySubOps /\ i.op \notin DivideOps /\ i.op \notin MoveFromOps
          /\ i.op \notin MoveToOps /\ i.op \notin LoadOps /\ i.op # "lwl" /\ i.op # "lwr"
          /\ i.op \notin StoreOps /\ i.op # "swl" /\ i.op # "swr" /\ i.op # "break"
      BY <1>4 DEF AddOps, SubOps, AndOps, OrOps, XorOps, LeadingOps, SetLessOps,
         ShiftLeftOps, ShiftRightOps, MoveIfOps, TrapOps,
         MultiplyOps, MultiplyAddOps, MultiplySubOps, DivideOps, MoveFromOps, MoveToOps, LoadOps, StoreOps
    <2>. QED BY <1>0, <1>4, <2>1, ZenonT(30) DEF Effect
  <1>5. ASSUME i.op \in SetLessOps PROVE Effect(n, b, i) = SetLess(n, i)
    <2>1. /\ i.op \notin AddOps /\ i.op \notin SubOps /\ i.op \notin AndOps /\ i.op \notin OrOps
          /\ i.op \notin XorOps /\ i.op # "lui" /\ i.op \notin LeadingOps
          /\ i.op \notin ShiftLeftOps /\ i.op \notin ShiftRightOps /\ i.op \notin MoveIfOps
          /\ i.op \notin TrapOps /\ i.op \notin MultiplyOps /\ i.op \notin MultiplyAddOps
          /\ i.op \notin MultiplySubOps /\ i.op \notin DivideOps /\ i.op \notin MoveFromOps
          /\ i.op \notin MoveToOps /\ i.op \notin LoadOps /\ i.op # "lwl" /\ i.op # "lwr"
          /\ i.op \notin StoreOps /\ i.op # "swl" /\ i.op # "swr" /\ i.op # "break"
      BY <1>5 DEF AddOps, SubOps, AndOps, OrOps, XorOps, LeadingOps, SetLessOps,
         ShiftLeftOps, ShiftRightOps, MoveIfOps, TrapOps,
         MultiplyOps, MultiplyAddOps, MultiplySubOps, DivideOps, MoveFromOps, MoveToOps, LoadOps, StoreOps
    <2>. QED BY <1>0, <1>5, <2>1, ZenonT(30) DEF Effect
  <1>6. ASSUME i.op \in MoveIfOps PROVE Effect(n, b, i) = MoveIf(n, i)
    <2>1. /\ i.op \notin AddOps /\ i.op \notin SubOps /\ i.op \notin AndOps /\ i.op \notin OrOps
          /\ i.op \notin XorOps /\ i.op # "lui" /\ i.op \notin LeadingOps
          /\ i.op \notin SetLessOps /\ i.op \notin ShiftLeftOps /\ i.op \notin ShiftRightOps
          /\ i.op \notin TrapOps /\ i.op \notin MultiplyOps /\ i.op \notin MultiplyAddOps
          /\ i.op \notin MultiplySubOps /\ i.op \notin DivideOps /\ i.op \notin MoveFromOps
          /\ i.op \notin MoveToOps /\ i.op \notin LoadOps /\ i.op # "lwl" /\ i.op # "lwr"
          /\ i.op \notin StoreOps /\ i.op # "swl" /\ i.op # "swr" /\ i.op # "break"
      BY <1>6 DEF AddOps, SubOps, AndOps, OrOps, XorOps, LeadingOps, SetLessOps,
         ShiftLeftOps, ShiftRightOps, MoveIfOps, TrapOps,
         MultiplyOps, MultiplyAddOps, MultiplySubOps, DivideOps, MoveFromOps, MoveToOps, LoadOps, StoreOps
    <2>. QED BY <1>0, <1>6, <2>1, ZenonT(30) DEF Effect
  <1>7. ASSUME i.op \in TrapOps PROVE Effect(n, b, i) = Trap(n, i)
    <2>1. /\ i.op \notin AddOps /\ i.op \notin SubOps /\ i.op \notin AndOps /\ i.op \notin OrOps
          /\ i.op \notin XorOps /\ i.op # "lui" /\ i.op \notin LeadingOps
          /\ i.op \notin SetLessOps /\ i.op \notin ShiftLeftOps /\ i.op \notin ShiftRightOps
          /\ i.op \notin MoveIfOps /\ i.op \notin MultiplyOps /\ i.op \notin MultiplyAddOps
          /\ i.op \notin MultiplySubOps /\ i.op \notin DivideOps /\ i.op \notin MoveFromOps
          /\ i.op \notin MoveToOps /\ i.op \notin LoadOps /\ i.op # "lwl" /\ i.op # "lwr"
          /\ i.op \notin StoreOps /\ i.op # "swl" /\ i.op # "swr" /\ i.op # "break"
      BY <1>7 DEF AddOps, SubOps, AndOps, OrOps, XorOps, LeadingOps, SetLessOps,
         ShiftLeftOps, ShiftRightOps, MoveIfOps, TrapOps,
         MultiplyOps, MultiplyAddOps, MultiplySubOps, DivideOps, MoveFromOps, MoveToOps, LoadOps, StoreOps
    <2>. QED BY <1>0, <1>7, <2>1, ZenonT(30) DEF Effect
  <1>8. ASSUME i.op \in MoveFromOps PROVE Effect(n, b, i) = MoveFrom(n, i)
    <2>1. /\ i.op \notin AddOps /\ i.op \notin SubOps /\ i.op \notin AndOps /\ i.op \notin OrOps
          /\ i.op \notin XorOps /\ i.op # "lui" /\ i.op \notin LeadingOps
          /\ i.op \notin SetLessOps /\ i.op \notin ShiftLeftOps /\ i.op \notin ShiftRightOps
          /\ i.op \notin MoveIfOps /\ i.op \notin TrapOps /\ i.op \notin MultiplyOps
          /\ i.op \notin MultiplyAddOps /\ i.op \notin MultiplySubOps /\ i.op \notin DivideOps
          /\ i.op \notin MoveToOps /\ i.op \notin LoadOps /\ i.op # "lwl" /\ i.op # "lwr"
          /\ i.op \notin StoreOps /\ i.op # "swl" /\ i.op # "swr" /\ i.op # "break"
      BY <1>8 DEF AddOps, SubOps, AndOps, OrOps, XorOps, LeadingOps, SetLessOps,
         ShiftLeftOps, ShiftRightOps, MoveIfOps, TrapOps,
         MultiplyOps, MultiplyAddOps, MultiplySubOps, DivideOps, MoveFromOps, MoveToOps, LoadOps, StoreOps
    <2>. QED BY <1>0, <1>8, <2>1, ZenonT(30) DEF Effect
  <1>9. ASSUME i.op \in MoveToOps PROVE Effect(n, b, i) = MoveTo(n, i)
    <2>1. /\ i.op \notin AddOps /\ i.op \notin SubOps /\ i.op \notin AndOps /\ i.op \notin OrOps
          /\ i.op \notin XorOps /\ i.op # "lui" /\ i.op \notin LeadingOps
          /\ i.op \notin SetLessOps /\ i.op \notin ShiftLeftOps /\ i.op \notin ShiftRightOps
          /\ i.op \notin MoveIfOps /\ i.op \notin TrapOps /\ i.op \notin MultiplyOps
          /\ i.op \notin MultiplyAddOps /\ i.op \notin MultiplySubOps /\ i.op \notin DivideOps
          /\ i.op \notin MoveFromOps /\ i.op \notin LoadOps /\ i.op # "lwl" /\ i.op # "lwr"
          /\ i.op \notin StoreOps /\ i.op # "swl" /\ i.op # "swr" /\ i.op # "break"
      BY <1>9 DEF AddOps, SubOps, AndOps, OrOps, XorOps, LeadingOps, SetLessOps,
         ShiftLeftOps, ShiftRightOps, MoveIfOps, TrapOps,
         MultiplyOps, MultiplyAddOps, MultiplySubOps, DivideOps, MoveFromOps, MoveToOps, LoadOps, StoreOps
    <2>. QED BY <1>0, <1>9, <2>1, ZenonT(30) DEF Effect
  <1>10. ASSUME i.op \in LoadOps PROVE Effect(n, b, i) = Load(n, b, i)
    <2>1. /\ i.op \notin AddOps /\ i.op \notin SubOps /\ i.op \notin AndOps /\ i.op \notin OrOps
          /\ i.op \notin XorOps /\ i.op # "lui" /\ i.op \notin LeadingOps
          /\ i.op \notin SetLessOps /\ i.op \notin ShiftLeftOps /\ i.op \notin ShiftRightOps
          /\ i.op \notin MoveIfOps /\ i.op \notin TrapOps /\ i.op \notin MultiplyOps
          /\ i.op \notin MultiplyAddOps /\ i.op \notin MultiplySubOps /\ i.op \notin DivideOps
          /\ i.op \notin MoveFromOps /\ i.op \notin MoveToOps /\ i.op # "lwl" /\ i.op # "lwr"
          /\ i.op \notin StoreOps /\ i.op # "swl" /\ i.op # "swr" /\ i.op # "break"
      BY <1>10 DEF AddOps, SubOps, AndOps, OrOps, XorOps, LeadingOps, SetLessOps,
         ShiftLeftOps, ShiftRightOps, MoveIfOps, TrapOps,
         MultiplyOps, MultiplyAddOps, MultiplySubOps, DivideOps, MoveFromOps, MoveToOps, LoadOps, StoreOps
    <2>. QED BY <1>0, <1>10, <2>1, ZenonT(30) DEF Effect
  <1>11. ASSUME i.op \in StoreOps PROVE Effect(n, b, i) = Store(n, b, i)
    <2>1. /\ i.op \notin AddOps /\ i.op \notin SubOps /\ i.op \notin AndOps /\ i.op \notin OrOps
          /\ i.op \notin XorOps /\ i.op # "lui" /\ i.op \notin LeadingOps
          /\ i.op \notin SetLessOps /\ i.op \notin ShiftLeftOps /\ i.op \notin ShiftRightOps
          /\ i.op \notin MoveIfOps /\ i.op \notin TrapOps /\ i.op \notin MultiplyOps
          /\ i.op \notin MultiplyAddOps /\ i.op \notin MultiplySubOps /\ i.op \notin DivideOps
          /\ i.op \notin MoveFromOps /\ i.op \notin MoveToOps /\ i.op \notin LoadOps
          /\ i.op # "lwl" /\ i.op # "lwr" /\ i.op # "swl" /\ i.op # "swr" /\ i.op # "break"
      BY <1>11 DEF AddOps, SubOps, AndOps, OrOps, XorOps, LeadingOps, SetLessOps,
         ShiftLeftOps, ShiftRightOps, MoveIfOps, TrapOps,
         MultiplyOps, MultiplyAddOps, MultiplySubOps, DivideOps, MoveFromOps, MoveToOps, LoadOps, StoreOps
    <2>. QED BY <1>0, <1>11, <2>1, ZenonT(30) DEF Effect
  <1>. QED BY <1>1, <1>2, <1>3, <1>4, <1>5, <1>6, <1>7, <1>8, <1>9, <1>10, <1>11

\* A machine between two instructions that wait for no load.
Clean(n) == n \in Machines /\ n.R[0] = 0 /\ n.late1 = <<>> /\ n.late2 = <<>>

LEMMA StartClean ==
  ASSUME NEW n, Clean(n)
  PROVE  StartStep(n) = n
  <1>1. n.R \in [Registers -> Words] /\ n.R[0] = 0 /\ n.late1 = <<>> /\ n.late2 = <<>>
    BY DEF Clean, Machines
  <1>2. [n.R EXCEPT ![0] = 0] = n.R
    BY <1>1
  <1>3. Set(n, 0, 0) = n
    BY <1>2 DEF Set, Clean, Machines
  <1>. QED BY <1>1, <1>3 DEF StartStep, DO_DELAYED_UPDATE, Clean, Machines

LEMMA PlainStep ==
  ASSUME NEW n, Clean(n), NEW b, NEW c, c[n.PC].op \notin BranchOps
  PROVE  RunStep(n, b, c) = [Effect(n, b, c[n.PC]) EXCEPT !.PC = n.PC + 1]
  BY StartClean DEF RunStep, Plain

\* The word w is written to r and the next instruction is due.
Put(n, r, w) == [Set(n, r, w) EXCEPT !.PC = n.PC + 1]

LEMMA PutFacts ==
  ASSUME NEW n, Clean(n), NEW r \in Registers \ {0}, NEW w \in Words
  PROVE  /\ Clean(Put(n, r, w)) /\ Put(n, r, w).PC = n.PC + 1
         /\ Put(n, r, w).R = [n.R EXCEPT ![r] = w]
         /\ Put(n, r, w).F = n.F /\ Put(n, r, w).FCC = n.FCC
         /\ Put(n, r, w).HI = n.HI /\ Put(n, r, w).LO = n.LO
         /\ Put(n, r, w).mem = n.mem /\ Put(n, r, w).exception = n.exception
  <1>. DEFINE p == Put(n, r, w)
  <1>1. n \in Machines /\ n.PC + 1 \in Nat \ {0} /\ n.R \in [Registers -> Words]
    BY DEF Clean, Machines
  <1>2. p \in Machines
    BY <1>1, SetType DEF Machines, Put
  <1>3. /\ p.PC = n.PC + 1 /\ p.R = [n.R EXCEPT ![r] = w]
        /\ p.F = n.F /\ p.FCC = n.FCC /\ p.HI = n.HI /\ p.LO = n.LO
        /\ p.mem = n.mem /\ p.exception = n.exception
        /\ p.late1 = n.late1 /\ p.late2 = n.late2
    BY <1>1 DEF Set, Machines, Put
  <1>4. p.R[0] = 0
    BY <1>1, <1>3, SmallRegisters DEF Clean
  <1>. QED BY <1>2, <1>3, <1>4 DEF Clean

-----------------------------------------------------------------------------
(***************************************************************************)
(* The code of a load or a store, when its symbol is defined.              *)
(***************************************************************************)
Inst(op, rd, rs, rt, imm, bits) ==
  [op |-> op, rd |-> rd, rs |-> rs, rt |-> rt, imm |-> imm, bits |-> bits]
Carry(v) == IF v % Half >= Half \div 2 THEN 1 ELSE 0

LEMMA PatchedAt ==
  ASSUME NEW c, NEW k \in DOMAIN c, NEW op, NEW rd, NEW rs, NEW rt, NEW imm, NEW bits,
         c[k] = Inst(op, rd, rs, rt, imm, bits)
  PROVE  /\ bits = "upper" =>
              Patched(c)[k] = Inst(op, rd, rs, rt,
                Short(Low(imm + Half * Cardinality(Carries(c, k))) \div Half), "none")
         /\ bits = "lower" =>
              Patched(c)[k] = Inst(op, rd, rs, rt,
                Short(Low(imm + Half * Cardinality(Carries(c, k))) % Half), "none")
         /\ bits = "none" => Patched(c)[k] = c[k]
  <1>. DEFINE value == imm + Half * Cardinality(Carries(c, k))
              half == IF bits = "upper" THEN Low(value) \div Half ELSE Low(value) % Half
              n == Short(half)
  <1>1. c[k].bits = bits /\ c[k].imm = imm
    BY DEF Inst
  <1>2. Patched(c)[k] = IF bits = "none" THEN c[k] ELSE [c[k] EXCEPT !.imm = n, !.bits = "none"]
    BY <1>1, Zenon DEF Patched
  <1>. HIDE DEF n
  <1>3. [Inst(op, rd, rs, rt, imm, bits) EXCEPT !.imm = n, !.bits = "none"]
          = Inst(op, rd, rs, rt, n, "none")
    <2>1. [Inst(op, rd, rs, rt, imm, bits) EXCEPT !.imm = n] = Inst(op, rd, rs, rt, n, bits)
      BY DEF Inst
    <2>2. [Inst(op, rd, rs, rt, n, bits) EXCEPT !.bits = "none"] = Inst(op, rd, rs, rt, n, "none")
      BY DEF Inst
    <2>. QED BY <2>1, <2>2
  <1>4. bits # "none" => Patched(c)[k] = Inst(op, rd, rs, rt, n, "none")
    BY <1>2, <1>3
  <1>5. /\ bits = "upper" => n = Short(Low(value) \div Half)
        /\ bits = "lower" => n = Short(Low(value) % Half)
    BY DEF n
  <1>. QED BY <1>2, <1>4, <1>5

LEMMA PatchedNone ==
  ASSUME NEW S, NEW c \in Seq(S), \A k \in DOMAIN c : c[k].bits = "none"
  PROVE  Patched(c) = c
  <1>1. c = [k \in DOMAIN c |-> c[k]]
    OBVIOUS
  <1>. QED BY <1>1 DEF Patched

LEMMA AccessOps ==
  ASSUME NEW op \in LoadOps \cup StoreOps
  PROVE  /\ op \in LoadStore /\ op # "lui" /\ op # "fatal_error" /\ op \notin BranchOps
         /\ op \notin FloatLines /\ op \notin FloatOps
         /\ op \in LoadLines \cup StoreLines
  <1>1. op \in LoadStore /\ op # "lui" /\ op # "fatal_error" /\ op \in LoadLines \cup StoreLines
    BY DEF LoadStore, LoadOps, StoreOps, LoadLines, StoreLines
  <1>2. op \notin BranchOps
    BY DEF LoadOps, StoreOps, BranchOps, Likely, LinkOps, JumpOps, ConditionBranches
  <1>3. /\ op \notin FloatMoves /\ op \notin MoveOnOps /\ op \notin CompareOps
        /\ op \notin ConditionBranches /\ op \notin CoprocessorMoves
        /\ op \notin FloatLoadStore /\ op \notin {"l.s", "l.d", "s.s", "s.d"}
        /\ op \notin {"li.s", "li.d", "mfc1", "mtc1", "mfc1.d", "mtc1.d"}
    BY DEF LoadOps, StoreOps, FloatMoves, MoveOnOps, CompareOps,
           ConditionBranches, CoprocessorMoves, FloatLoadStore
  <1>4. op \notin FloatLines /\ op \notin FloatOps
    BY <1>3 DEF FloatLines, FloatOps, FloatMemory, FloatLoadLines, FloatStoreLines, FloatLoadStore
  <1>. QED BY <1>1, <1>2, <1>4

LEMMA PatchedTwo ==
  ASSUME NEW op \in LoadOps \cup StoreOps, NEW rt, NEW v \in Int, NEW c,
         c = <<Inst("lui", 0, 0, at, v, "upper"), Inst(op, 0, at, rt, v, "lower")>>
  PROVE  Patched(c) = <<Inst("lui", 0, 0, at, Short(Low(v + Half * Carry(v)) \div Half), "none"),
                        Inst(op, 0, at, rt, Short(Low(v) % Half), "none")>>
  <1>1. /\ DOMAIN c = 1 .. 2 /\ Len(c) = 2 /\ c[1].op = "lui" /\ c[2].op = op
        /\ c[1].bits = "upper" /\ c[2].bits = "lower" /\ c[1].imm = v /\ c[2].imm = v
    BY DEF Inst
  <1>2. Carries(c, 1) = IF v % Half >= Half \div 2 THEN {2} ELSE {}
    BY <1>1, AccessOps DEF Carries, lui_of
  <1>3. Carries(c, 2) = {}
    BY <1>1 DEF Carries
  <1>4. Cardinality(Carries(c, 1)) = Carry(v) /\ Cardinality(Carries(c, 2)) = 0
    BY <1>2, <1>3, FS_EmptySet, FS_Singleton DEF Carry
  <1>5. v + Half * 0 = v
    BY Widths
  <1>. DEFINE h == Short(Low(v + Half * Carry(v)) \div Half)
              low == Short(Low(v) % Half)
  <1>6. /\ DOMAIN Patched(c) = 1 .. 2
        /\ Patched(c)[1] = Inst("lui", 0, 0, at, h, "none")
        /\ Patched(c)[2] = Inst(op, 0, at, rt, low, "none")
    <2>1. 1 \in DOMAIN c /\ 2 \in DOMAIN c /\ 2 \in DOMAIN c
      BY <1>1
    <2>2. /\ c[1] = Inst("lui", 0, 0, at, v, "upper") /\ c[2] = Inst(op, 0, at, rt, v, "lower")
      OBVIOUS
    <2>3. Patched(c)[1] = Inst("lui", 0, 0, at, h, "none")
      BY <1>4, <2>1, <2>2, PatchedAt
    <2>4. Patched(c)[2] = Inst(op, 0, at, rt, low, "none")
      BY <1>4, <1>5, <2>1, <2>2, PatchedAt
    <2>5. DOMAIN Patched(c) = DOMAIN c
      BY DEF Patched
    <2>. QED BY <1>1, <2>1, <2>2, <2>3, <2>4, <2>5, PatchedAt
  <1>7. Patched(c) = [k \in 1 .. 2 |-> Patched(c)[k]]
    BY <1>1 DEF Patched
  <1>. QED BY <1>6, <1>7

LEMMA PatchedThree ==
  ASSUME NEW op \in LoadOps \cup StoreOps, NEW rt, NEW rs, NEW v \in Int, NEW c,
         c = <<Inst("lui", 0, 0, at, v, "upper"), Inst("addu", at, at, rs, 0, "none"),
               Inst(op, 0, at, rt, v, "lower")>>
  PROVE  Patched(c) = <<Inst("lui", 0, 0, at, Short(Low(v + Half * Carry(v)) \div Half), "none"),
                        Inst("addu", at, at, rs, 0, "none"),
                        Inst(op, 0, at, rt, Short(Low(v) % Half), "none")>>
  <1>1. /\ DOMAIN c = 1 .. 3 /\ Len(c) = 3
        /\ c[1].op = "lui" /\ c[2].op = "addu" /\ c[3].op = op
        /\ c[1].bits = "upper" /\ c[2].bits = "none" /\ c[3].bits = "lower"
        /\ c[1].imm = v /\ c[3].imm = v
    BY DEF Inst
  <1>2. Carries(c, 1) = IF v % Half >= Half \div 2 THEN {3} ELSE {}
    BY <1>1, AccessOps DEF Carries, lui_of
  <1>3. Carries(c, 3) = {}
    BY <1>1 DEF Carries
  <1>4. Cardinality(Carries(c, 1)) = Carry(v) /\ Cardinality(Carries(c, 3)) = 0
    BY <1>2, <1>3, FS_EmptySet, FS_Singleton DEF Carry
  <1>5. v + Half * 0 = v
    BY Widths
  <1>. DEFINE h == Short(Low(v + Half * Carry(v)) \div Half)
              low == Short(Low(v) % Half)
  <1>6. /\ DOMAIN Patched(c) = 1 .. 3
        /\ Patched(c)[1] = Inst("lui", 0, 0, at, h, "none")
        /\ Patched(c)[2] = c[2]
        /\ Patched(c)[3] = Inst(op, 0, at, rt, low, "none")
    <2>1. 1 \in DOMAIN c /\ 3 \in DOMAIN c /\ 2 \in DOMAIN c
      BY <1>1
    <2>2. /\ c[1] = Inst("lui", 0, 0, at, v, "upper") /\ c[3] = Inst(op, 0, at, rt, v, "lower")
          /\ c[2] = Inst("addu", at, at, rs, 0, "none")
      OBVIOUS
    <2>3. Patched(c)[1] = Inst("lui", 0, 0, at, h, "none")
      BY <1>4, <2>1, <2>2, PatchedAt
    <2>4. Patched(c)[3] = Inst(op, 0, at, rt, low, "none")
      BY <1>4, <1>5, <2>1, <2>2, PatchedAt
    <2>5. DOMAIN Patched(c) = DOMAIN c
      BY DEF Patched
    <2>. QED BY <1>1, <2>1, <2>2, <2>3, <2>4, <2>5, PatchedAt
  <1>7. Patched(c) = [k \in 1 .. 3 |-> Patched(c)[k]]
    BY <1>1 DEF Patched
  <1>8. c[2] = Inst("addu", at, at, rs, 0, "none")
    OBVIOUS
  <1>. QED BY <1>6, <1>7, <1>8

\* h is the high half that makes up for the low half of v, which low has.
IsHigh(h, v) == h \in Int /\ h % Half = (Low(v) \div Half + Carry(v)) % Half
IsLow(low, v) == low \in Int /\ low % Half = v % Half

LEMMA HighPatched ==
  ASSUME NEW v \in Int
  PROVE  /\ IsHigh(Short(Low(v + Half * Carry(v)) \div Half), v)
         /\ IsLow(Short(Low(v) % Half), v)
  <1>0. Carry(v) \in {0, 1} /\ Low(v) \in Words /\ Low(v) \in Int
    BY LowType, WordBounds DEF Carry
  <1>. DEFINE carry == Carry(v)
              x == Low(v)
              y == Low(x + Half * carry)
  <1>1. y \div Half = (x \div Half + carry) % Half
    BY <1>0, CarriedHigh
  <1>2. y = Low(v + Half * carry)
    <2>. HIDE DEF carry
    <2>1. Half * carry \in Int
      BY <1>0, Widths DEF carry
    <2>. QED BY <2>1, LowOfSum
  <1>3. y \in Words
    <2>. HIDE DEF carry, x
    <2>1. x + Half * carry \in Int
      BY <1>0, Widths DEF carry, x
    <2>. QED BY <2>1, LowType
  <1>4. y \div Half \in 0 .. Half - 1
    BY <1>3, HalvesOf
  <1>5. Short(y \div Half) \in Int /\ Short(y \div Half) % Half = y \div Half
    <2>. DEFINE z == y \div Half
    <2>. HIDE DEF y
    <2>1. z \in Int /\ z \in 0 .. Half - 1
      BY <1>4, Widths
    <2>. HIDE DEF z
    <2>2. Short(z) \in Int /\ Short(z) % Half = z % Half
      BY <2>1, ShortFacts
    <2>3. z % Half = z
      BY <2>1, Widths
    <2>. QED BY <2>2, <2>3 DEF z
  <1>6. IsHigh(Short(Low(v + Half * Carry(v)) \div Half), v)
    <2>. HIDE DEF x, y, carry
    <2>. QED BY <1>1, <1>2, <1>5 DEF IsHigh, x, carry
  <1>7. IsLow(Short(x % Half), v)
    <2>1. x % Half = v % Half /\ x % Half \in 0 .. Half - 1
      BY <1>0, LowHalf, HalvesOf
    <2>. DEFINE z == x % Half
    <2>. HIDE DEF x
    <2>2. z \in Int /\ z \in 0 .. Half - 1
      BY <2>1, Widths
    <2>. HIDE DEF z
    <2>3. Short(z) \in Int /\ Short(z) % Half = z % Half
      BY <2>2, ShortFacts
    <2>4. z % Half = z
      BY <2>2, Widths
    <2>. QED BY <2>1, <2>3, <2>4 DEF IsLow, z
  <1>. QED BY <1>6, <1>7

LEMMA HighKnown ==
  ASSUME NEW v \in Int
  PROVE  IsHigh(Short(Signed(Low(Low(v) \div Half + Carry(v)))), v)
  <1>. DEFINE n == Low(v) \div Half + Carry(v)
              s == Signed(Low(n))
  <1>1. n \in Int
    <2>1. Low(v) \div Half \in 0 .. Half - 1 /\ Carry(v) \in {0, 1}
      BY LowType, HalvesOf DEF Carry
    <2>. QED BY <2>1, Widths
  <1>. HIDE DEF n
  <1>2. PICK k \in Int : s = Low(n) + k * Word
    BY <1>1, LowType, SignedLow
  <1>3. Low(n) \in Int /\ s \in Int
    BY <1>1, LowType, WordBounds
  <1>. HIDE DEF s
  <1>4. s = Low(n) + (k * Half) * Half /\ k * Half \in Int
    BY <1>2, <1>3, Widths DEF Word
  <1>5. s % Half = n % Half
    BY <1>1, <1>3, <1>4, HalfShift, LowHalf
  <1>6. Short(s) \in Int /\ Short(s) % Half = s % Half
    BY <1>3, ShortFacts
  <1>. QED BY <1>5, <1>6 DEF IsHigh, n, s

\* What a load or a store is assembled to.
Whole(l, c) == Short(l.imm) = l.imm /\ c = <<Inst(l.op, 0, l.rs, l.rd, l.imm, "none")>>
Pieces(l, c) ==
  \E h, low : /\ IsHigh(h, l.imm) /\ IsLow(low, l.imm)
              /\ c = <<Inst("lui", 0, 0, at, h, "none")>>
                       \o (IF l.rs # 0 THEN <<Inst("addu", at, at, l.rs, 0, "none")>> ELSE <<>>)
                       \o <<Inst(l.op, 0, at, l.rd, low, "none")>>

LEMMA Strung ==
  ASSUME NEW x, NEW y, NEW z
  PROVE  <<x>> \o <<>> \o <<z>> = <<x, z>> /\ <<x>> \o <<y>> \o <<z>> = <<x, y, z>>
  <1>. DEFINE S == {x, y, z}
  <1>. HIDE DEF S
  <1>0. /\ <<>> \in Seq(S) /\ <<x>> \in Seq(S) /\ <<y>> \in Seq(S) /\ <<z>> \in Seq(S)
        /\ <<x, y>> \in Seq(S)
    BY DEF S
  <1>1. /\ Len(<<x>>) = 1 /\ <<x>>[1] = x /\ Len(<<z>>) = 1 /\ <<z>>[1] = z
        /\ Len(<<y>>) = 1 /\ <<y>>[1] = y
        /\ Len(<<x, y>>) = 2 /\ <<x, y>>[1] = x /\ <<x, y>>[2] = y
    OBVIOUS
  <1>2. ASSUME NEW s \in Seq(S), Len(s) = 2 PROVE s = <<s[1], s[2]>>
    BY <1>2
  <1>3. ASSUME NEW s \in Seq(S), Len(s) = 3 PROVE s = <<s[1], s[2], s[3]>>
    BY <1>3
  <1>4. <<x>> \o <<>> = <<x>>
    BY <1>0
  <1>5. <<x>> \o <<z>> = <<x, z>>
    <2>. DEFINE s == <<x>> \o <<z>>
    <2>1. s \in Seq(S) /\ Len(s) = 1 + 1 /\ s[1] = x /\ s[1 + 1] = z
      BY <1>0, <1>1, Joins
    <2>. HIDE DEF s
    <2>2. Len(s) = 2 /\ s[2] = z
      BY <2>1
    <2>3. s = <<s[1], s[2]>>
      BY <1>2, <2>1, <2>2
    <2>4. s = <<x, z>>
      BY <2>1, <2>2, <2>3
    <2>. QED BY <2>4 DEF s
  <1>6. <<x>> \o <<y>> = <<x, y>>
    <2>. DEFINE s == <<x>> \o <<y>>
    <2>1. s \in Seq(S) /\ Len(s) = 1 + 1 /\ s[1] = x /\ s[1 + 1] = y
      BY <1>0, <1>1, Joins
    <2>. HIDE DEF s
    <2>2. Len(s) = 2 /\ s[2] = y
      BY <2>1
    <2>3. s = <<s[1], s[2]>>
      BY <1>2, <2>1, <2>2
    <2>4. s = <<x, y>>
      BY <2>1, <2>2, <2>3
    <2>. QED BY <2>4 DEF s
  <1>7. <<x, y>> \o <<z>> = <<x, y, z>>
    <2>. DEFINE s == <<x, y>> \o <<z>>
    <2>1. s \in Seq(S) /\ Len(s) = 2 + 1 /\ s[1] = x /\ s[2] = y /\ s[2 + 1] = z
      BY <1>0, <1>1, Joins
    <2>. HIDE DEF s
    <2>2. Len(s) = 3 /\ s[3] = z
      BY <2>1
    <2>3. s = <<s[1], s[2], s[3]>>
      BY <1>3, <2>1, <2>2
    <2>4. s = <<x, y, z>>
      BY <2>1, <2>2, <2>3
    <2>. QED BY <2>4 DEF s
  <1>. QED BY <1>4, <1>5, <1>6, <1>7

LEMMA PatchedKnown ==
  ASSUME NEW x, NEW y, NEW z, x.bits = "none", y.bits = "none", z.bits = "none"
  PROVE  /\ Patched(<<x>>) = <<x>> /\ Patched(<<x, z>>) = <<x, z>>
         /\ Patched(<<x, y, z>>) = <<x, y, z>>
  <1>. DEFINE S == {x, y, z}
  <1>1. <<x>> \in Seq(S) /\ <<x, z>> \in Seq(S) /\ <<x, y, z>> \in Seq(S)
    OBVIOUS
  <1>2. /\ \A k \in DOMAIN <<x>> : <<x>>[k].bits = "none"
        /\ \A k \in DOMAIN <<x, z>> : <<x, z>>[k].bits = "none"
        /\ \A k \in DOMAIN <<x, y, z>> : <<x, y, z>>[k].bits = "none"
    OBVIOUS
  <1>. HIDE DEF S
  <1>. QED BY <1>1, <1>2, PatchedNone

LEMMA AccessCode ==
  ASSUME NEW l, l.op \in LoadOps \cup StoreOps, IntegerLine(l)
  PROVE  Whole(l, Patched(ASM_CODE(l))) \/ Pieces(l, Patched(ASM_CODE(l)))
  <1>. DEFINE e == Immediate(l)
              v == l.imm
              one == i_type_inst(l.op, l.rd, l.rs, e)
              add == Inst("addu", at, at, l.rs, 0, "none")
              high == Low(v) \div Half + Carry(v)
              low == Short(Low(v) % Half)
              last == Inst(l.op, 0, at, l.rd, low, "none")
  <1>0. e.value = v /\ e.known = l.known /\ e.bits = "all" /\ eval_imm_expr(e) = v
        /\ v \in Int /\ l.known \in BOOLEAN
    BY DEF Immediate, eval_imm_expr, IntegerLine
  <1>1. ASM_CODE(l) = one
    <2>1. l.op \notin FloatLines /\ l.op \in LoadLines \cup StoreLines
      BY AccessOps
    <2>2. ASM_CODE(l) = MemoryLine(l)
      BY <2>1 DEF ASM_CODE
    <2>3. one \o <<>> = one
      <3>1. Block(one)
        BY IntegerImmediate, LineExprs DEF IntegerLine
      <3>. QED BY <3>1 DEF Block
    <2>4. CASE l.op \in LoadOps
      <3>1. l.op # "ld"
        BY <2>4 DEF LoadOps
      <3>2. LoadLine(l) = one \o <<>>
        BY <3>1 DEF LoadLine
      <3>3. /\ l.op \in LoadOps \cup {"ld"} /\ l.op \notin StoreOps \cup {"sd"}
            /\ l.op \notin {"ulw", "ulh", "ulhu"} /\ l.op \notin {"usw", "ush"}
        BY <2>4 DEF LoadOps, StoreOps
      <3>4. MemoryLine(l) = LoadLine(l)
        BY <3>3, Zenon DEF MemoryLine
      <3>. QED BY <2>2, <2>3, <3>2, <3>4
    <2>5. CASE l.op \in StoreOps
      <3>1. l.op # "sd"
        BY <2>5 DEF StoreOps
      <3>2. StoreLine(l) = one \o <<>>
        BY <3>1 DEF StoreLine
      <3>3. /\ l.op \notin LoadOps \cup {"ld"} /\ l.op \in StoreOps \cup {"sd"}
            /\ l.op \notin {"ulw", "ulh", "ulhu"} /\ l.op \notin {"usw", "ush"}
        BY <2>5 DEF LoadOps, StoreOps
      <3>4. MemoryLine(l) = StoreLine(l)
        BY <3>3, Zenon DEF MemoryLine
      <3>. QED BY <2>2, <2>3, <3>2, <3>4
    <2>. QED BY <2>4, <2>5
  <1>2. l.op \in LoadStore /\ (FitsField(l.op, e) <=> Short(v) = v)
    BY <1>0, AccessOps DEF FitsField
  <1>3. CASE l.known /\ Short(v) = v
    <2>1. one = <<Inst(l.op, 0, l.rs, l.rd, v, "none")>>
      BY <1>0, <1>2, <1>3 DEF i_type_inst, OneInst, Instr, Inst
    <2>2. Patched(one) = one
      <3>. DEFINE i == Inst(l.op, 0, l.rs, l.rd, v, "none")
      <3>1. i.bits = "none"
        BY DEF Inst
      <3>. HIDE DEF i
      <3>. QED BY <2>1, <3>1, PatchedKnown DEF i
    <2>. QED BY <1>1, <1>3, <2>1, <2>2 DEF Whole
  <1>4. CASE ~(l.known /\ Short(v) = v)
    <2>1. one = AddressInPieces(l.op, l.rd, l.rs, e)
      BY <1>0, <1>2, <1>4 DEF i_type_inst, i_type_inst_full_word
    <2>. DEFINE middle == IF l.rs # 0 THEN <<add>> ELSE <<>>
    <2>2. middle = IF l.rs # 0 THEN r_type_inst("addu", at, at, l.rs) ELSE <<>>
      BY DEF r_type_inst, Instr, Inst
    <2>3. CASE l.known
      <3>. DEFINE h == Short(Signed(Low(high)))
                  first == Inst("lui", 0, 0, at, h, "none")
      <3>1. OneInst("lui", at, 0, const_imm_expr(high)) = <<first>>
        BY DEF OneInst, Instr, Inst, const_imm_expr, eval_imm_expr
      <3>2. OneInst(l.op, l.rd, at, lower_bits_of_expr(e)) = <<last>>
        BY <1>0, <2>3 DEF OneInst, Instr, Inst, lower_bits_of_expr, eval_imm_expr, Immediate
      <3>3. Low(v) \div Half + (IF Low(v) % Half >= Half \div 2 THEN 1 ELSE 0) = high
        BY <1>0, LowHalf DEF Carry
      <3>4. one = <<first>> \o middle \o <<last>>
        BY <1>0, <2>1, <2>2, <2>3, <3>1, <3>2, <3>3 DEF AddressInPieces
      <3>5. IsHigh(h, v) /\ IsLow(low, v)
        BY <1>0, HighKnown, HighPatched
      <3>6. Patched(one) = one
        <4>1. first.bits = "none" /\ add.bits = "none" /\ last.bits = "none"
          BY DEF Inst
        <4>. HIDE DEF first, add, last
        <4>2. one = IF l.rs # 0 THEN <<first, add, last>> ELSE <<first, last>>
          BY <3>4, Strung
        <4>. QED BY <4>1, <4>2, PatchedKnown
      <3>. QED BY <1>1, <3>4, <3>5, <3>6 DEF Pieces
    <2>4. CASE ~l.known
      <3>. DEFINE h == Short(Low(v + Half * Carry(v)) \div Half)
                  first == Inst("lui", 0, 0, at, v, "upper")
                  third == Inst(l.op, 0, at, l.rd, v, "lower")
      <3>1. OneInst("lui", at, 0, upper_bits_of_expr(e)) = <<first>>
        BY <1>0, <2>4 DEF OneInst, Instr, Inst, upper_bits_of_expr, Immediate
      <3>2. OneInst(l.op, l.rd, at, lower_bits_of_expr(e)) = <<third>>
        BY <1>0, <2>4 DEF OneInst, Instr, Inst, lower_bits_of_expr, Immediate
      <3>3. one = <<first>> \o middle \o <<third>>
        BY <1>0, <2>1, <2>2, <2>4, <3>1, <3>2 DEF AddressInPieces
      <3>4. IsHigh(h, v) /\ IsLow(low, v)
        BY <1>0, HighPatched
      <3>5. Patched(one) = <<Inst("lui", 0, 0, at, h, "none")>> \o middle \o <<last>>
        <4>1. CASE l.rs = 0
          <5>1. one = <<first, third>> /\ middle = <<>>
            <6>. HIDE DEF first, third, one
            <6>. QED BY <3>3, <4>1, Strung
          <5>2. Patched(one) = <<Inst("lui", 0, 0, at, h, "none"), last>>
            <6>. HIDE DEF one
            <6>. QED BY <1>0, <5>1, PatchedTwo
          <5>3. <<Inst("lui", 0, 0, at, h, "none")>> \o <<>> \o <<last>>
                  = <<Inst("lui", 0, 0, at, h, "none"), last>>
            BY Strung
          <5>. QED BY <5>1, <5>2, <5>3, Zenon
        <4>2. CASE l.rs # 0
          <5>1. one = <<first, add, third>> /\ middle = <<add>>
            <6>. HIDE DEF first, third, add, one
            <6>. QED BY <3>3, <4>2, Strung
          <5>2. Patched(one) = <<Inst("lui", 0, 0, at, h, "none"), add, last>>
            <6>. HIDE DEF one
            <6>. QED BY <1>0, <5>1, PatchedThree
          <5>3. <<Inst("lui", 0, 0, at, h, "none")>> \o <<add>> \o <<last>>
                  = <<Inst("lui", 0, 0, at, h, "none"), add, last>>
            BY Strung
          <5>. QED BY <5>1, <5>2, <5>3, Zenon
        <4>. QED BY <4>1, <4>2
      <3>. QED BY <1>1, <3>4, <3>5 DEF Pieces
    <2>. QED BY <2>3, <2>4, <1>0
  <1>. QED BY <1>3, <1>4

\* From p on only an instruction that is no branch is left.
LEMMA LastStep ==
  ASSUME NEW p, Clean(p), p.exception = "none", NEW bd, NEW c, Len(c) \in Nat, p.PC = Len(c),
         c[p.PC].op \notin BranchOps, Effect(p, bd, c[p.PC]) \in Machines,
         NEW n, Runs(p, bd, c, n), Over(n, c)
  PROVE  n = [Effect(p, bd, c[p.PC]) EXCEPT !.PC = Len(c) + 1]
  <1>. DEFINE q == [Effect(p, bd, c[p.PC]) EXCEPT !.PC = Len(c) + 1]
  <1>1. RunStep(p, bd, c) = q
    BY PlainStep
  <1>2. ~Over(p, c)
    BY DEF Over
  <1>3. Runs(q, bd, c, n)
    BY <1>1, <1>2, RunNext
  <1>4. q.PC = Len(c) + 1
    BY DEF Machines
  <1>. HIDE DEF q
  <1>5. Over(q, c)
    BY <1>4 DEF Over
  <1>6. n = q
    BY <1>3, <1>5, RunOver
  <1>. QED BY <1>6 DEF q

\* An instruction before the last writes the word w to r.
LEMMA PutStep ==
  ASSUME NEW p, Clean(p), p.exception = "none", NEW bd, NEW c, Len(c) \in Nat, p.PC <= Len(c),
         c[p.PC].op \notin BranchOps,
         NEW r, NEW w, Effect(p, bd, c[p.PC]) = Set(p, r, w),
         NEW n, Runs(p, bd, c, n), Over(n, c)
  PROVE  Runs(Put(p, r, w), bd, c, n)
  <1>1. RunStep(p, bd, c) = Put(p, r, w)
    BY PlainStep DEF Put
  <1>2. ~Over(p, c)
    BY DEF Over, Clean, Machines
  <1>. QED BY <1>1, <1>2, RunNext

\* p is where the last instruction of the line l finds the machine: with the
\* registers and the memory l started with, but for $at.
Same(p, b) ==
  /\ Clean(p) /\ p.exception = "none" /\ p.F = b.F /\ p.FCC = b.FCC
  /\ p.HI = b.HI /\ p.LO = b.LO /\ p.mem = b.mem
  /\ \A r \in Registers \ {at} : p.R[r] = b.R[r]

LEMMA FreshSame ==
  ASSUME NEW b, Fresh(b)
  PROVE  Same(b, b) /\ b.PC = 1
  BY DEF Fresh, Same, Clean

LEMMA PutAt ==
  ASSUME NEW b, NEW p, Same(p, b), NEW w \in Words
  PROVE  /\ Same(Put(p, at, w), b) /\ Put(p, at, w).PC = p.PC + 1
         /\ Put(p, at, w).R[at] = w
  <1>1. at \in Registers \ {0}
    BY SmallRegisters DEF at
  <1>2. p.R \in [Registers -> Words]
    BY DEF Same, Clean, Machines
  <1>3. /\ Clean(Put(p, at, w)) /\ Put(p, at, w).PC = p.PC + 1
        /\ Put(p, at, w).R = [p.R EXCEPT ![at] = w]
        /\ Put(p, at, w).F = p.F /\ Put(p, at, w).FCC = p.FCC
        /\ Put(p, at, w).HI = p.HI /\ Put(p, at, w).LO = p.LO
        /\ Put(p, at, w).mem = p.mem /\ Put(p, at, w).exception = p.exception
    <2>1. Clean(p)
      BY DEF Same
    <2>. QED BY <1>1, <2>1, PutFacts
  <1>4. [p.R EXCEPT ![at] = w][at] = w /\ \A r \in Registers \ {at} : [p.R EXCEPT ![at] = w][r] = p.R[r]
    BY <1>1, <1>2
  <1>. QED BY <1>3, <1>4 DEF Same

\* lui leaves a half word in the high half of $at.
LEMMA LuiStep ==
  ASSUME NEW p, NEW b, Same(p, b), NEW bd, NEW c, Len(c) \in Nat, p.PC <= Len(c),
         NEW h \in Int, c[p.PC] = Inst("lui", 0, 0, at, h, "none"),
         NEW n, Runs(p, bd, c, n), Over(n, c)
  PROVE  /\ Low((h % Half) * Half) \in Words
         /\ Runs(Put(p, at, Low((h % Half) * Half)), bd, c, n)
  <1>. DEFINE w == Low((h % Half) * Half)
  <1>1. c[p.PC].op = "lui" /\ c[p.PC].rt = at /\ c[p.PC].imm = h
    BY DEF Inst
  <1>2. w \in Words
    <2>1. (h % Half) * Half \in Int
      BY ShortFacts, Widths
    <2>. QED BY <2>1, LowType
  <1>3. Effect(p, bd, c[p.PC]) = Set(p, at, w)
    BY <1>1, EffectKinds DEF LoadUpper
  <1>4. c[p.PC].op \notin BranchOps
    BY <1>1 DEF BranchOps, Likely, LinkOps, JumpOps, ConditionBranches
  <1>. HIDE DEF w
  <1>5. Runs(Put(p, at, w), bd, c, n)
    BY <1>3, <1>4, PutStep DEF Same
  <1>. QED BY <1>2, <1>5 DEF w

\* addu adds the base to it.
LEMMA AdduStep ==
  ASSUME NEW p, NEW b, Same(p, b), NEW bd, NEW c, Len(c) \in Nat, p.PC <= Len(c),
         NEW r \in Registers \ {at}, c[p.PC] = Inst("addu", at, at, r, 0, "none"),
         NEW n, Runs(p, bd, c, n), Over(n, c)
  PROVE  /\ Low(p.R[at] + b.R[r]) \in Words
         /\ Runs(Put(p, at, Low(p.R[at] + b.R[r])), bd, c, n)
  <1>. DEFINE w == Low(p.R[at] + b.R[r])
              i == c[p.PC]
  <1>1. i.op = "addu" /\ i.rd = at /\ i.rs = at /\ i.rt = r
    BY DEF Inst
  <1>2. p.R \in [Registers -> Words] /\ p.R[r] = b.R[r]
    BY DEF Same, Clean, Machines
  <1>3. w \in Words
    <2>1. p.R[at] + b.R[r] \in Int
      BY <1>2, SmallRegisters, WordBounds
    <2>. QED BY <2>1, LowType
  <1>. HIDE DEF i
  <1>4. Operand(p, i) = b.R[r] /\ Dest(i) = at
    BY <1>1, <1>2 DEF Operand, Dest, Arithmetic, Logical
  <1>5. Effect(p, bd, i) = Set(p, at, w)
    BY <1>1, <1>4, EffectKinds DEF AddOps, Add
  <1>6. i.op \notin BranchOps
    BY <1>1 DEF BranchOps, Likely, LinkOps, JumpOps, ConditionBranches
  <1>. HIDE DEF w
  <1>7. Runs(Put(p, at, w), bd, c, n)
    BY <1>5, <1>6, PutStep DEF Same, i
  <1>. QED BY <1>3, <1>7 DEF w

\* Every load and store, in one piece or in several, comes to its address.
Access(i, l) == /\ i = Inst(l.op, 0, i.rs, l.rd, i.imm, "none")
                /\ i.rs \in Registers /\ i.imm \in Int

LEMMA PiecesRun ==
  ASSUME NEW l, l.op \in LoadOps \cup StoreOps, IntegerLine(l), l.rs # at,
         NEW b, Fresh(b), NEW bd, NEW c, Pieces(l, c), NEW n, Runs(b, bd, c, n), Over(n, c)
  PROVE  /\ Len(c) \in Nat
         /\ \E p : /\ Same(p, b) /\ p.PC = Len(c) /\ Runs(p, bd, c, n)
                   /\ Access(c[Len(c)], l) /\ Address(p, c[Len(c)]) = Start(l, b)
  <1>1. PICK h, low :
          /\ IsHigh(h, l.imm) /\ IsLow(low, l.imm)
          /\ c = <<Inst("lui", 0, 0, at, h, "none")>>
                   \o (IF l.rs # 0 THEN <<Inst("addu", at, at, l.rs, 0, "none")>> ELSE <<>>)
                   \o <<Inst(l.op, 0, at, l.rd, low, "none")>>
    BY DEF Pieces
  <1>. DEFINE first == Inst("lui", 0, 0, at, h, "none")
              add == Inst("addu", at, at, l.rs, 0, "none")
              last == Inst(l.op, 0, at, l.rd, low, "none")
              v == l.imm
              u == Low((h % Half) * Half)
              p == Put(b, at, u)
  <1>2. h \in Int /\ low \in Int /\ v \in Int /\ l.rs \in Registers /\ at \in Registers
        /\ h % Half = (Low(v) \div Half + Carry(v)) % Half /\ low % Half = v % Half
    BY <1>1, SmallRegisters DEF IsHigh, IsLow, IntegerLine
  <1>3. Same(b, b) /\ b.PC = 1 /\ b.R \in [Registers -> Words] /\ b.R[0] = 0
    BY FreshSame DEF Fresh, Machines
  <1>4. c = IF l.rs # 0 THEN <<first, add, last>> ELSE <<first, last>>
    BY <1>1, Strung
  <1>. HIDE DEF first, add, last
  <1>5. /\ Len(c) = IF l.rs # 0 THEN 3 ELSE 2
        /\ c[1] = first /\ c[Len(c)] = last /\ (l.rs # 0 => c[2] = add)
    BY <1>4
  <1>6. Access(last, l) /\ last.rs = at /\ last.imm = low
    BY <1>2 DEF last, Access, Inst
  <1>7. u \in Words /\ Runs(p, bd, c, n)
    <2>1. Len(c) \in Nat /\ b.PC <= Len(c) /\ c[b.PC] = Inst("lui", 0, 0, at, h, "none")
      BY <1>3, <1>5 DEF first
    <2>. QED BY <1>2, <1>3, <2>1, LuiStep
  <1>8. Same(p, b) /\ p.PC = 2 /\ p.R[at] = u
    BY <1>3, <1>7, PutAt
  <1>9. Low(u + Short(low)) = Low(v)
    <2>1. Carry(v) \in {0, 1} /\ (Carry(v) = 1 <=> v % Half >= Half \div 2)
      BY DEF Carry
    <2>. QED BY <1>2, <2>1, PiecesSum
  <1>. HIDE DEF p, u
  <1>10. u \in Int /\ Short(low) \in Int /\ b.R[l.rs] \in Int /\ b.R[l.rs] \in Words
    BY <1>2, <1>3, <1>7, ShortType, WordBounds
  <1>11. CASE l.rs = 0
    <2>1. Address(p, last) = Low(v)
      BY <1>6, <1>8, <1>9 DEF Address
    <2>2. Start(l, b) = Low(v)
      BY <1>2, <1>3, <1>11 DEF Start, First
    <2>. QED BY <1>5, <1>6, <1>7, <1>8, <1>11, <2>1, <2>2
  <1>12. CASE l.rs # 0
    <2>. DEFINE w == Low(p.R[at] + b.R[l.rs])
                q == Put(p, at, w)
    <2>1. w \in Words /\ Runs(q, bd, c, n)
      BY <1>2, <1>5, <1>7, <1>8, <1>12, AdduStep DEF add
    <2>2. Same(q, b) /\ q.PC = 3 /\ q.R[at] = w
      BY <1>8, <2>1, PutAt
    <2>3. Low(w + Short(low)) = Low(b.R[l.rs] + v)
      <3>. DEFINE a == b.R[l.rs]
                  k == Short(low)
      <3>1. a \in Int /\ k \in Int /\ u \in Int /\ v \in Int /\ w = Low(u + a)
        BY <1>2, <1>8, <1>10
      <3>2. Low(u + k) = Low(v)
        BY <1>9
      <3>. HIDE DEF a, k, w
      <3>3. u + a \in Int /\ u + k \in Int /\ (u + a) + k = (u + k) + a /\ v + a = a + v
        BY <3>1
      <3>4. Low(Low(u + a) + k) = Low((u + a) + k)
        BY <3>1, <3>3, LowOfSum
      <3>5. Low(Low(u + k) + a) = Low((u + k) + a)
        BY <3>1, <3>3, LowOfSum
      <3>6. Low(Low(v) + a) = Low(v + a)
        BY <3>1, LowOfSum
      <3>. QED BY <3>1, <3>2, <3>3, <3>4, <3>5, <3>6 DEF a, k
    <2>. HIDE DEF w, q
    <2>4. Address(q, last) = Low(w + Short(low))
      BY <1>6, <2>2 DEF Address
    <2>5. Start(l, b) = Low(b.R[l.rs] + v)
      BY DEF Start, First
    <2>. QED BY <1>5, <1>6, <1>12, <2>1, <2>2, <2>3, <2>4, <2>5
  <1>. QED BY <1>11, <1>12

LEMMA WholeRun ==
  ASSUME NEW l, IntegerLine(l), NEW b, Fresh(b), NEW bd, NEW c, Whole(l, c),
         NEW n, Runs(b, bd, c, n)
  PROVE  /\ Len(c) \in Nat
         /\ \E p : /\ Same(p, b) /\ p.PC = Len(c) /\ Runs(p, bd, c, n)
                   /\ Access(c[Len(c)], l) /\ Address(p, c[Len(c)]) = Start(l, b)
  <1>. DEFINE i == Inst(l.op, 0, l.rs, l.rd, l.imm, "none")
  <1>1. i.rs = l.rs /\ i.imm = l.imm /\ Access(i, l)
    BY DEF Inst, Access, IntegerLine
  <1>2. c = <<i>> /\ Short(l.imm) = l.imm
    BY DEF Whole
  <1>. HIDE DEF i
  <1>3. Len(c) = 1 /\ c[Len(c)] = i
    BY <1>2
  <1>4. Address(b, i) = Start(l, b)
    BY <1>1, <1>2 DEF Address, Start, First
  <1>. QED BY <1>1, <1>3, <1>4, FreshSame

\* The machine n with its late loads arrived.
Arrived(n) == DO_DELAYED_UPDATE(DO_DELAYED_UPDATE(n))
Rest(f, n) == /\ f.F = n.F /\ f.FCC = n.FCC /\ f.HI = n.HI /\ f.LO = n.LO
              /\ f.mem = n.mem /\ f.exception = n.exception /\ f.PC = n.PC

LEMMA UpdateFacts ==
  ASSUME NEW n \in Machines
  PROVE  /\ DO_DELAYED_UPDATE(n) \in Machines
         /\ DO_DELAYED_UPDATE(n).late1 = <<>> /\ DO_DELAYED_UPDATE(n).late2 = n.late1
         /\ n.late2 = <<>> => DO_DELAYED_UPDATE(n).R = n.R /\ Rest(DO_DELAYED_UPDATE(n), n)
         /\ \A r, v : n.late2 = <<"R", r, v>> =>
              DO_DELAYED_UPDATE(n).R = [n.R EXCEPT ![r] = v] /\ Rest(DO_DELAYED_UPDATE(n), n)
  <1>. DEFINE x == IF n.late2 = <<>> THEN n ELSE Loaded(n, n.late2[1], n.late2[2], n.late2[3])
              y == DO_DELAYED_UPDATE(n)
  <1>1. x \in Machines
    BY LoadedType DEF Machines
  <1>2. y = [x EXCEPT !.late2 = n.late1, !.late1 = <<>>]
    BY Zenon DEF DO_DELAYED_UPDATE
  <1>3. n.late2 = <<>> => x.R = n.R /\ Rest(x, n)
    BY DEF Rest
  <1>4. ASSUME NEW r, NEW v, n.late2 = <<"R", r, v>>
        PROVE  x.R = [n.R EXCEPT ![r] = v] /\ Rest(x, n)
    <2>1. n.late2 # <<>> /\ n.late2[1] = "R" /\ n.late2[2] = r /\ n.late2[3] = v
      BY <1>4
    <2>2. x = [n EXCEPT !.R[r] = v]
      BY <2>1 DEF Loaded, Set
    <2>. QED BY <2>2 DEF Rest, Machines
  <1>. HIDE DEF x
  <1>5. /\ y.R = x.R /\ Rest(y, x) /\ y.late1 = <<>> /\ y.late2 = n.late1
    BY <1>1, <1>2 DEF Machines, Rest
  <1>6. y \in Machines
    BY UpdateType
  <1>. HIDE DEF y
  <1>7. Rest(x, n) => Rest(y, n)
    BY <1>5 DEF Rest
  <1>. QED BY <1>3, <1>4, <1>5, <1>6, <1>7 DEF y

LEMMA NoneLate ==
  ASSUME NEW n \in Machines, n.late1 = <<>>, n.late2 = <<>>
  PROVE  Arrived(n).R = n.R /\ Rest(Arrived(n), n)
  <1>. DEFINE x == DO_DELAYED_UPDATE(n)
              y == DO_DELAYED_UPDATE(x)
  <1>1. x \in Machines /\ x.late2 = <<>> /\ x.R = n.R /\ Rest(x, n)
    BY UpdateFacts
  <1>. HIDE DEF x
  <1>2. y.R = x.R /\ Rest(y, x)
    BY <1>1, UpdateFacts
  <1>3. Arrived(n) = y
    BY DEF Arrived, x
  <1>. HIDE DEF y
  <1>. QED BY <1>1, <1>2, <1>3 DEF Rest

LEMMA OneLate ==
  ASSUME NEW n \in Machines, n.late2 = <<>>, NEW r, NEW v, n.late1 = <<"R", r, v>>
  PROVE  Arrived(n).R = [n.R EXCEPT ![r] = v] /\ Rest(Arrived(n), n)
  <1>. DEFINE x == DO_DELAYED_UPDATE(n)
              y == DO_DELAYED_UPDATE(x)
  <1>1. x \in Machines /\ x.late2 = <<"R", r, v>> /\ x.R = n.R /\ Rest(x, n)
    BY UpdateFacts
  <1>. HIDE DEF x
  <1>2. y.R = [x.R EXCEPT ![r] = v] /\ Rest(y, x)
    BY <1>1, UpdateFacts
  <1>3. Arrived(n) = y
    BY DEF Arrived, x
  <1>. HIDE DEF y
  <1>. QED BY <1>1, <1>2, <1>3 DEF Rest

LEMMA FaultFacts ==
  ASSUME NEW n \in Machines, n.exception = "none", NEW a, NEW size, NEW e \in {"AdEL", "AdES"}
  PROVE  LET g == Fault(n, a, size, e) IN
         /\ g \in Machines /\ g.R = n.R /\ g.F = n.F /\ g.FCC = n.FCC /\ g.HI = n.HI
         /\ g.LO = n.LO /\ g.mem = n.mem /\ g.PC = n.PC
         /\ g.late1 = n.late1 /\ g.late2 = n.late2
         /\ g.exception = IF a % size # 0 THEN e ELSE IF a \notin Memory THEN "DBE" ELSE "none"
  BY FaultType DEF Fault, Raise, Machines

\* What a load leaves when the register has the word it loads, at once or late.
IsLoaded(f, n, bd, i, q) ==
  LET a == Address(n, i)
      size == SizeOf(i.op)
  IN  /\ f.exception = IF a % size # 0 THEN "AdEL" ELSE IF a \notin Memory THEN "DBE" ELSE "none"
      /\ f.R = [n.R EXCEPT ![i.rt] = Extended(i.op, Fetched(n, bd, a, size))]
      /\ f.F = n.F /\ f.FCC = n.FCC /\ f.HI = n.HI /\ f.LO = n.LO /\ f.mem = n.mem
      /\ f.PC = q

LEMMA LoadArrives ==
  ASSUME NEW n, Clean(n), n.exception = "none", NEW bd, NEW i, i.op \in LoadOps, IntegerFields(i),
         NEW q \in Nat \ {0}
  PROVE  IsLoaded(Arrived([Load(n, bd, i) EXCEPT !.PC = q]), n, bd, i, q)
  <1>. DEFINE a == Address(n, i)
              size == SizeOf(i.op)
              w == Extended(i.op, Fetched(n, bd, a, size))
              g == Fault(n, a, size, "AdEL")
              x == [Load(n, bd, i) EXCEPT !.PC = q]
              f == Arrived(x)
              due == IF a % size # 0 THEN "AdEL" ELSE IF a \notin Memory THEN "DBE" ELSE "none"
  <1>. SUFFICES /\ f.exception = due /\ f.R = [n.R EXCEPT ![i.rt] = w]
                /\ f.F = n.F /\ f.FCC = n.FCC /\ f.HI = n.HI /\ f.LO = n.LO /\ f.mem = n.mem
                /\ f.PC = q
    BY Zenon DEF IsLoaded
  <1>1. n \in Machines /\ n.late1 = <<>> /\ n.late2 = <<>> /\ i.rt \in Registers
    BY DEF Clean, IntegerFields
  <1>2. /\ g \in Machines /\ g.R = n.R /\ g.F = n.F /\ g.FCC = n.FCC /\ g.HI = n.HI
        /\ g.LO = n.LO /\ g.mem = n.mem /\ g.PC = n.PC /\ g.late1 = <<>> /\ g.late2 = <<>>
        /\ g.exception = due
    BY <1>1, FaultFacts
  <1>3. Load(n, bd, i) = LOAD_INST(g, bd, "R", i.rt, w)
    BY DEF Load, Extended, LoadOps
  <1>4. Load(n, bd, i) \in Machines
    BY <1>1, LoadType
  <1>5. x \in Machines
    BY <1>4 DEF Machines
  <1>. HIDE DEF a, size, w, g, due
  <1>6. CASE bd.delayed_loads
    <2>1. x = [[g EXCEPT !.late1 = <<"R", i.rt, w>>] EXCEPT !.PC = q]
      BY <1>3, <1>6 DEF LOAD_INST
    <2>2. /\ x.R = n.R /\ x.F = n.F /\ x.FCC = n.FCC /\ x.HI = n.HI /\ x.LO = n.LO
          /\ x.mem = n.mem /\ x.PC = q /\ x.late1 = <<"R", i.rt, w>> /\ x.late2 = <<>>
          /\ x.exception = due
      BY <1>2, <2>1 DEF Machines
    <2>. HIDE DEF x
    <2>3. f.R = [x.R EXCEPT ![i.rt] = w] /\ Rest(f, x)
      BY <1>5, <2>2, OneLate
    <2>. QED BY <2>2, <2>3 DEF Rest
  <1>7. CASE ~bd.delayed_loads
    <2>1. x = [[g EXCEPT !.R[i.rt] = w] EXCEPT !.PC = q]
      BY <1>3, <1>7 DEF LOAD_INST, Loaded, Set
    <2>2. /\ x.R = [n.R EXCEPT ![i.rt] = w]
          /\ x.F = n.F /\ x.FCC = n.FCC /\ x.HI = n.HI /\ x.LO = n.LO
          /\ x.mem = n.mem /\ x.PC = q /\ x.late1 = <<>> /\ x.late2 = <<>>
          /\ x.exception = due
      BY <1>2, <2>1 DEF Machines
    <2>. HIDE DEF x
    <2>3. f.R = x.R /\ Rest(f, x)
      BY <1>5, <2>2, NoneLate
    <2>. QED BY <2>2, <2>3 DEF Rest
  <1>. QED BY <1>6, <1>7

\* What a store leaves.
LEMMA StoreArrives ==
  ASSUME NEW n, Clean(n), n.exception = "none", NEW bd, NEW i, i.op \in StoreOps, IntegerFields(i),
         NEW q \in Nat \ {0}
  PROVE  LET f == Arrived([Store(n, bd, i) EXCEPT !.PC = q])
             a == Address(n, i)
             size == SizeOf(i.op)
         IN  /\ f.exception = IF a % size # 0 THEN "AdES" ELSE IF a \notin Memory THEN "DBE" ELSE "none"
             /\ f.R = n.R
             /\ f.F = n.F /\ f.FCC = n.FCC /\ f.HI = n.HI /\ f.LO = n.LO /\ f.PC = q
             /\ f.mem = Stored(n, bd, a, size, n.R[i.rt]).mem
  <1>. DEFINE a == Address(n, i)
              size == SizeOf(i.op)
              g == Fault(n, a, size, "AdES")
              s == Stored(n, bd, a, size, n.R[i.rt])
              x == [Store(n, bd, i) EXCEPT !.PC = q]
              f == Arrived(x)
              due == IF a % size # 0 THEN "AdES" ELSE IF a \notin Memory THEN "DBE" ELSE "none"
  <1>1. n \in Machines /\ n.late1 = <<>> /\ n.late2 = <<>> /\ n.exception = "none"
    BY DEF Clean
  <1>2. /\ g \in Machines /\ g.R = n.R /\ g.F = n.F /\ g.FCC = n.FCC /\ g.HI = n.HI
        /\ g.LO = n.LO /\ g.PC = n.PC /\ g.late1 = <<>> /\ g.late2 = <<>>
        /\ g.exception = due
    BY <1>1, FaultFacts
  <1>3. Store(n, bd, i) = s
    BY DEF Store
  <1>4. s \in Machines /\ x \in Machines
    BY <1>1, <1>3, StoreType DEF Machines
  <1>. DEFINE bytes == [y \in Memory |->
          IF y \in a .. a + size - 1
          THEN LET k == CHOOSE j \in 0 .. size - 1 : ByteAt(bd, a, size, j) = y
               IN  (n.R[i.rt] \div Weight(k)) % Byte
          ELSE n.mem[y]]
  <1>5. s = IF Reaches(a, size) THEN [n EXCEPT !.mem = bytes] ELSE g
    BY Zenon DEF Stored
  <1>6. Reaches(a, size) => due = "none"
    BY DEF Reaches
  <1>. HIDE DEF a, size, g, due, bytes
  <1>7. /\ s.R = n.R /\ s.F = n.F /\ s.FCC = n.FCC /\ s.HI = n.HI /\ s.LO = n.LO
        /\ s.late1 = <<>> /\ s.late2 = <<>> /\ s.exception = due
    <2>1. CASE Reaches(a, size)
      <3>1. s = [n EXCEPT !.mem = bytes]
        BY <1>5, <2>1
      <3>. HIDE DEF s
      <3>. QED BY <1>1, <1>6, <2>1, <3>1 DEF Machines
    <2>2. CASE ~Reaches(a, size)
      BY <1>2, <1>5, <2>2
    <2>. QED BY <2>1, <2>2
  <1>. HIDE DEF s
  <1>8. /\ x.R = n.R /\ x.F = n.F /\ x.FCC = n.FCC /\ x.HI = n.HI /\ x.LO = n.LO
        /\ x.late1 = <<>> /\ x.late2 = <<>> /\ x.exception = due /\ x.PC = q /\ x.mem = s.mem
    BY <1>3, <1>4, <1>7 DEF Machines
  <1>. HIDE DEF x
  <1>9. f.R = x.R /\ Rest(f, x)
    BY <1>4, <1>8, NoneLate
  <1>. QED BY <1>8, <1>9 DEF Rest, x, a, size, s, due

-----------------------------------------------------------------------------
(***************************************************************************)
(* The bytes of memory and the numbers they stand for.                     *)
(***************************************************************************)
LEMMA BytesOfWord ==
  ASSUME NEW w \in Words
  PROVE  LET d(k) == (w \div Weight(k)) % Byte
         IN  /\ \A k \in 0 .. 3 : d(k) \in 0 .. Byte - 1
             /\ d(0) = w % Byte
             /\ d(0) + d(1) * Byte = w % Half
             /\ d(0) + d(1) * Byte + d(2) * Half + d(3) * (Half * Byte) = w
  <1>. DEFINE q1 == w \div Byte
              q2 == q1 \div Byte
              q3 == q2 \div Byte
              r0 == w % Byte
              r1 == q1 % Byte
              r2 == q2 % Byte
  <1>0. w \in Int /\ w >= 0 /\ w < Word /\ Half = Byte * Byte /\ Word = Half * Half
        /\ Byte \in Nat \ {0} /\ Half \in Nat \ {0}
    BY WordBounds, Widths DEF Half, Word
  <1>1. q1 \in Int /\ r0 \in 0 .. Byte - 1 /\ w = Byte * q1 + r0
    BY <1>0, DivMod
  <1>. HIDE DEF q1
  <1>2. q2 \in Int /\ r1 \in 0 .. Byte - 1 /\ q1 = Byte * q2 + r1
    BY <1>0, <1>1, DivMod
  <1>. HIDE DEF q2
  <1>3. q3 \in Int /\ r2 \in 0 .. Byte - 1 /\ q2 = Byte * q3 + r2
    BY <1>0, <1>2, DivMod
  <1>. HIDE DEF q3, r0, r1, r2
  <1>. DEFINE low2 == r0 + r1 * Byte
              low3 == low2 + r2 * Half
  <1>4. low2 \in 0 .. Half - 1
    <2>1. r1 * Byte \in Int /\ r1 * Byte <= (Byte - 1) * Byte /\ r1 * Byte >= 0
      BY <1>0, <1>2
    <2>. QED BY <1>0, <1>1, <2>1
  <1>5. w = q2 * Half + low2
    <2>1. w = Byte * (Byte * q2 + r1) + r0
      BY <1>1, <1>2
    <2>. QED BY <1>0, <1>1, <1>2, <2>1
  <1>6. w \div Half = q2 /\ w % Half = low2
    <2>. HIDE DEF low2
    <2>. QED BY <1>0, <1>2, <1>4, <1>5, DivModUnique
  <1>7. low3 \in 0 .. Half * Byte - 1 /\ Half * Byte \in Nat \ {0}
    <2>. HIDE DEF low2
    <2>1. r2 * Half \in Int /\ r2 * Half <= (Byte - 1) * Half /\ r2 * Half >= 0
      BY <1>0, <1>3
    <2>2. (Byte - 1) * Half = Half * Byte - Half /\ Half * Byte \in Nat \ {0}
      BY <1>0
    <2>. QED BY <1>0, <1>4, <2>1, <2>2
  <1>8. w = q3 * (Half * Byte) + low3
    <2>. HIDE DEF low2
    <2>1. w = (Byte * q3 + r2) * Half + low2
      BY <1>3, <1>5
    <2>. QED BY <1>0, <1>3, <1>4, <2>1
  <1>9. w \div (Half * Byte) = q3
    <2>. DEFINE M == Half * Byte
    <2>1. M \in Nat \ {0} /\ low3 \in 0 .. M - 1 /\ w = q3 * M + low3
      BY <1>7, <1>8
    <2>. HIDE DEF M, low3
    <2>2. w \div M = q3
      BY <1>0, <1>3, <2>1, DivModUnique
    <2>. QED BY <2>2 DEF M
  <1>10. q3 \in 0 .. Byte - 1
    <2>1. w \in 0 .. (Half * Byte) * Byte - 1
      BY <1>0
    <2>. DEFINE M == Half * Byte
    <2>2. w \div M \in 0 .. Byte - 1
      <3>1. M \in Nat \ {0}
        BY <1>7
      <3>2. w \in 0 .. M * Byte - 1
        BY <2>1
      <3>. HIDE DEF M
      <3>. QED BY <1>0, <3>1, <3>2, DivRange
    <2>. QED BY <1>9, <2>2
  <1>11. q3 % Byte = q3
    BY <1>0, <1>10
  <1>12. w \div 1 = w
    BY <1>0
  <1>13. /\ (w \div Weight(0)) % Byte = r0 /\ (w \div Weight(1)) % Byte = r1
         /\ (w \div Weight(2)) % Byte = r2 /\ (w \div Weight(3)) % Byte = q3
    BY <1>6, <1>9, <1>11, <1>12, Weights DEF r0, r1, r2, q1
  <1>14. \A k \in 0 .. 3 : (w \div Weight(k)) % Byte \in 0 .. Byte - 1
    BY <1>1, <1>2, <1>3, <1>10, <1>13
  <1>15. r0 + r1 * Byte + r2 * Half + q3 * (Half * Byte) = w
    <2>. HIDE DEF low2
    <2>1. w = q3 * (Half * Byte) + (low2 + r2 * Half)
      BY <1>8
    <2>2. q3 * (Half * Byte) \in Int /\ r2 * Half \in Int /\ low2 \in Int
      BY <1>0, <1>3, <1>4, <1>7, <1>10
    <2>3. w = low2 + r2 * Half + q3 * (Half * Byte)
      BY <2>1, <2>2
    <2>. QED BY <2>3 DEF low2
  <1>. QED BY <1>6, <1>13, <1>14, <1>15 DEF r0

LEMMA MemoryLow ==
  ASSUME NEW x \in Memory
  PROVE  Low(x) = x /\ x \in Int /\ x \in Words
  BY MachineOK, LowSmall, WordBounds

LEMMA Offsets ==
  ASSUME NEW a \in Int, NEW size \in Int, NEW x \in a .. a + size - 1
  PROVE  x - a \in 0 .. size - 1 /\ x = a + (x - a)
  OBVIOUS

LEMMA TouchedReached ==
  ASSUME NEW l, NEW b, NEW a \in Words, a = Start(l, b), NEW size \in {1, 2, 4},
         Bytes(l.op) = size, a % size = 0
  PROVE  /\ Touched(l, b) \subseteq Memory <=> a \in Memory
         /\ a \in Memory => Touched(l, b) = a .. a + size - 1 /\ Touched(l, b) \subseteq Memory
  <1>1. Touched(l, b) = {Low(a + k) : k \in 0 .. size - 1}
    BY DEF Touched
  <1>2. ASSUME a \in Memory
        PROVE  Touched(l, b) = a .. a + size - 1 /\ Touched(l, b) \subseteq Memory
    <2>1. a \in Int /\ a .. a + size - 1 \subseteq Memory
      BY <1>2, MemoryLow, AlignedMemory
    <2>2. \A k \in 0 .. size - 1 : a + k \in a .. a + size - 1 /\ Low(a + k) = a + k
      <3>1. \A k \in 0 .. size - 1 : a + k \in a .. a + size - 1
        BY <2>1
      <3>. QED BY <2>1, <3>1, MemoryLow
    <2>3. ASSUME NEW x \in a .. a + size - 1
          PROVE  \E k \in 0 .. size - 1 : x = a + k
      <3>1. size \in Int /\ x \in Int
        OBVIOUS
      <3>2. x - a \in 0 .. size - 1 /\ x = a + (x - a)
        BY <2>1, <3>1, Offsets
      <3>. QED BY <3>2
    <2>4. Touched(l, b) \subseteq a .. a + size - 1
      BY <1>1, <2>2
    <2>5. a .. a + size - 1 \subseteq Touched(l, b)
      BY <1>1, <2>2, <2>3
    <2>. QED BY <2>1, <2>4, <2>5
  <1>3. a \in Touched(l, b)
    <2>1. 0 \in 0 .. size - 1 /\ a + 0 = a /\ Low(a) = a
      BY LowSmall, WordBounds
    <2>. QED BY <1>1, <2>1
  <1>. QED BY <1>2, <1>3

LEMMA DatumFetched ==
  ASSUME NEW n, NEW bd, NEW a \in Memory, NEW size \in {1, 2, 4}, a % size = 0
  PROVE  Datum(n.mem, bd, a, size) = Fetched(n, bd, a, size)
  <1>1. a \in Int /\ a .. a + size - 1 \subseteq Memory
    BY MemoryLow, AlignedMemory
  <1>2. \A k \in 0 .. size - 1 : Low(ByteAt(bd, a, size, k)) = ByteAt(bd, a, size, k)
    BY <1>1, ByteAtRange, MemoryLow
  <1>. DEFINE byte(k) == IF k < size THEN n.mem[ByteAt(bd, a, size, k)] * Weight(k) ELSE 0
              byteLow(k) == IF k < size THEN n.mem[Low(ByteAt(bd, a, size, k))] * Weight(k) ELSE 0
  <1>3. ASSUME NEW k \in 0 .. 3 PROVE byteLow(k) = byte(k)
    <2>1. k < size => k \in 0 .. size - 1
      OBVIOUS
    <2>. QED BY <1>2, <2>1
  <1>4. Datum(n.mem, bd, a, size) = byteLow(0) + byteLow(1) + byteLow(2) + byteLow(3)
    BY DEF Datum
  <1>5. Fetched(n, bd, a, size) = byte(0) + byte(1) + byte(2) + byte(3)
    BY DEF Fetched, Reaches
  <1>. HIDE DEF byte, byteLow
  <1>. QED BY <1>3, <1>4, <1>5

\* What a store puts into memory is what it was given, as far as it has room.
IsStored(mem, old, bd, a, size, w) ==
  /\ Datum(mem, bd, a, size) = w % Weight(size)
  /\ \A x \in Memory \ (a .. a + size - 1) : mem[x] = old[x]

LEMMA StoredDatum ==
  ASSUME NEW n \in Machines, NEW bd, NEW a \in Memory, NEW size \in {1, 2, 4}, a % size = 0,
         NEW w \in Words
  PROVE  IsStored(Stored(n, bd, a, size, w).mem, n.mem, bd, a, size, w)
  <1>. DEFINE d(k) == (w \div Weight(k)) % Byte
              at_(x) == CHOOSE k \in 0 .. size - 1 : ByteAt(bd, a, size, k) = x
              mem == [x \in Memory |-> IF x \in a .. a + size - 1 THEN d(at_(x)) ELSE n.mem[x]]
  <1>1. a \in Int /\ a .. a + size - 1 \subseteq Memory
    BY MemoryLow, AlignedMemory
  <1>2. Stored(n, bd, a, size, w).mem = mem
    <2>1. Stored(n, bd, a, size, w) = [n EXCEPT !.mem = mem]
      BY Zenon DEF Stored, Reaches
    <2>. HIDE DEF mem
    <2>. QED BY <2>1 DEF Machines
  <1>3. ASSUME NEW k \in 0 .. size - 1
        PROVE  mem[Low(ByteAt(bd, a, size, k))] = d(k)
    <2>. DEFINE x == ByteAt(bd, a, size, k)
    <2>1. x \in a .. a + size - 1 /\ Low(x) = x /\ x \in Memory
      BY <1>1, ByteAtRange, MemoryLow
    <2>2. \A j \in 0 .. size - 1 : ByteAt(bd, a, size, j) = x => j = k
      BY <1>1 DEF ByteAt
    <2>3. at_(x) = k
      BY <2>2
    <2>. HIDE DEF x, d, at_
    <2>4. mem[x] = d(at_(x))
      BY <2>1
    <2>. QED BY <2>1, <2>3, <2>4 DEF x
  <1>4. \A x \in Memory \ (a .. a + size - 1) : mem[x] = n.mem[x]
    OBVIOUS
  <1>. DEFINE byte(k) == IF k < size THEN mem[Low(ByteAt(bd, a, size, k))] * Weight(k) ELSE 0
  <1>5. Datum(mem, bd, a, size) = byte(0) + byte(1) + byte(2) + byte(3)
    BY DEF Datum
  <1>6. \A k \in 0 .. 3 : byte(k) = IF k < size THEN d(k) * Weight(k) ELSE 0
    <2>. HIDE DEF mem, d
    <2>. QED BY <1>3
  <1>7. /\ \A k \in 0 .. 3 : d(k) \in 0 .. Byte - 1
        /\ d(0) = w % Byte /\ d(0) + d(1) * Byte = w % Half
        /\ d(0) + d(1) * Byte + d(2) * Half + d(3) * (Half * Byte) = w
    BY BytesOfWord
  <1>8. \A k \in 0 .. 3 : d(k) \in Int /\ d(k) * Weight(k) \in Int
    <2>. HIDE DEF d
    <2>. QED BY <1>7, Weights
  <1>9. w % Word = w
    BY LowSmall DEF Low
  <1>. HIDE DEF mem, d, byte
  <1>10. ASSUME size = 1 PROVE Datum(mem, bd, a, size) = w % Weight(size)
    <2>1. byte(0) = d(0) * 1 /\ byte(1) = 0 /\ byte(2) = 0 /\ byte(3) = 0
      BY <1>6, <1>10, Weights
    <2>. QED BY <1>5, <1>7, <1>8, <1>10, <2>1, Weights
  <1>11. ASSUME size = 2 PROVE Datum(mem, bd, a, size) = w % Weight(size)
    <2>1. byte(0) = d(0) * 1 /\ byte(1) = d(1) * Byte /\ byte(2) = 0 /\ byte(3) = 0
      BY <1>6, <1>11, Weights
    <2>. QED BY <1>5, <1>7, <1>8, <1>11, <2>1, Weights
  <1>12. ASSUME size = 4 PROVE Datum(mem, bd, a, size) = w % Weight(size)
    <2>1. byte(0) = d(0) * 1 /\ byte(1) = d(1) * Byte
          /\ byte(2) = d(2) * Half /\ byte(3) = d(3) * (Half * Byte)
      BY <1>6, <1>12, Weights
    <2>. QED BY <1>5, <1>7, <1>8, <1>9, <1>12, <2>1, Weights
  <1>13. Datum(mem, bd, a, size) = w % Weight(size)
    BY <1>10, <1>11, <1>12
  <1>. QED BY <1>2, <1>4, <1>13 DEF IsStored

-----------------------------------------------------------------------------
(***************************************************************************)
(* Loads and stores do what they say.                                      *)
(***************************************************************************)
LEMMA AccessPromise ==
  ASSUME NEW l, l.op \in LoadOps \cup StoreOps, NEW b, NEW a, a = Start(l, b), a \in Words,
         NEW size, size = SizeOf(l.op)
  PROVE  /\ size \in {1, 2, 4} /\ Bytes(l.op) = size
         /\ ExceptionDue(l, b) =
              IF a % size # 0 THEN (IF l.op \in LoadOps THEN "AdEL" ELSE "AdES")
              ELSE IF a \notin Memory THEN "DBE" ELSE "none"
         /\ Written(l) = IF l.op \in LoadOps THEN {l.rd} ELSE {}
         /\ ~Links(l) /\ (l.op \in StoreLines <=> l.op \in StoreOps)
         /\ l.op \in LoadOps => l.op \notin StoreOps
  <1>1. size \in {1, 2, 4} /\ Bytes(l.op) = size /\ Piece(l.op) = size
    BY DEF SizeOf, Bytes, Piece, LoadOps, StoreOps
  <1>2. ~Overflows(l, b) /\ ~TrapsOn(l, b) /\ ~Breaks(l, b)
    BY DEF Overflows, TrapsOn, Breaks, LoadOps, StoreOps
  <1>3. /\ l.op \in LoadLines \cup StoreLines /\ (l.op \in LoadLines <=> l.op \in LoadOps)
        /\ (l.op \in StoreLines <=> l.op \in StoreOps) /\ (l.op \in LoadOps => l.op \notin StoreOps)
    BY DEF LoadLines, StoreLines, LoadOps, StoreOps
  <1>4. Misaligned(l, b) <=> a % size # 0
    BY <1>1, <1>3 DEF Misaligned
  <1>5. ~Misaligned(l, b) => (Unmapped(l, b) <=> a \notin Memory)
    <2>1. a % size = 0 => (Touched(l, b) \subseteq Memory <=> a \in Memory)
      BY <1>1, TouchedReached
    <2>. QED BY <1>3, <1>4, <2>1 DEF Unmapped
  <1>6. ~Links(l) /\ l.op # "ld" /\ l.op \notin Branches
    BY DEF Links, Branches, LoadOps, StoreOps
  <1>7. l.op \in NoResult <=> l.op \in StoreOps
    BY <1>3 DEF NoResult, TrapOps, LoadOps, StoreOps
  <1>8. Written(l) = IF l.op \in LoadOps THEN {l.rd} ELSE {}
    BY <1>6, <1>7, <1>3 DEF Written
  <1>9. ExceptionDue(l, b) =
          IF a % size # 0 THEN (IF l.op \in LoadOps THEN "AdEL" ELSE "AdES")
          ELSE IF a \notin Memory THEN "DBE" ELSE "none"
    BY <1>2, <1>3, <1>4, <1>5 DEF ExceptionDue
  <1>. QED BY <1>1, <1>3, <1>6, <1>8, <1>9

LEMMA AccessPlace ==
  ASSUME NEW l, l.op \in LoadOps \cup StoreOps, NEW b, NEW f, NEW bd, NEW length \in Nat,
         f.HI = b.HI, f.LO = b.LO, f.PC = length + 1
  PROVE  HiLoDue(l, b, f) /\ PlaceDue(l, bd, b, length, f.PC)
  <1>1. HiLoDue(l, b, f)
    BY DEF HiLoDue, HiLoLines, LoadOps, StoreOps
  <1>2. ~Jumps(l, b) /\ l.op \notin Likely
    BY DEF Jumps, Likely, LoadOps, StoreOps
  <1>3. length + 1 + 0 = length + 1
    OBVIOUS
  <1>. QED BY <1>1, <1>2, <1>3 DEF PlaceDue

LEMMA AccessResult ==
  ASSUME NEW l, l.op \in LoadOps, NEW bd, NEW b, NEW a \in Memory, a = Start(l, b),
         NEW size \in {1, 2, 4}, Bytes(l.op) = size, a % size = 0
  PROVE  IsResult(l, bd, b, Extended(l.op, Fetched(b, bd, a, size)))
  <1>. DEFINE w == Extended(l.op, Fetched(b, bd, a, size))
  <1>1. w = Extended(l.op, Datum(b.mem, bd, Start(l, b), Bytes(l.op))) /\ l.op # "ld"
    BY DatumFetched DEF LoadOps
  <1>. HIDE DEF w
  <1>2. IsResult(l, bd, b, w)
    BY <1>1 DEF IsResult, LoadOps
  <1>. QED BY <1>2 DEF w

LEMMA AccessRun ==
  ASSUME NEW l, l.op \in LoadOps \cup StoreOps, IntegerLine(l), l.rs # at,
         NEW b, Fresh(b), NEW bd, NEW c, c = Patched(ASM_CODE(l)),
         NEW n, Runs(b, bd, c, n), Over(n, c)
  PROVE  /\ Len(c) \in Nat
         /\ \E p, i : /\ Same(p, b) /\ i.op = l.op /\ i.rt = l.rd /\ IntegerFields(i)
                      /\ Address(p, i) = Start(l, b)
                      /\ n = [Effect(p, bd, i) EXCEPT !.PC = Len(c) + 1]
  <1>1. Len(c) \in Nat /\ \E p : /\ Same(p, b) /\ p.PC = Len(c) /\ Runs(p, bd, c, n)
                                 /\ Access(c[Len(c)], l) /\ Address(p, c[Len(c)]) = Start(l, b)
    <2>1. Whole(l, c) \/ Pieces(l, c)
      BY AccessCode
    <2>2. CASE Whole(l, c)
      BY <2>2, WholeRun
    <2>3. CASE Pieces(l, c)
      BY <2>3, PiecesRun
    <2>. QED BY <2>1, <2>2, <2>3
  <1>2. PICK p : /\ Same(p, b) /\ p.PC = Len(c) /\ Runs(p, bd, c, n)
                 /\ Access(c[Len(c)], l) /\ Address(p, c[Len(c)]) = Start(l, b)
    BY <1>1
  <1>. DEFINE i == c[Len(c)]
  <1>3. i.op = l.op /\ i.rt = l.rd /\ IntegerFields(i)
    <2>1. i = Inst(l.op, 0, i.rs, l.rd, i.imm, "none") /\ i.rs \in Registers /\ i.imm \in Int
      BY <1>2 DEF Access
    <2>2. i.op = l.op /\ i.rt = l.rd /\ i.rd = 0
      BY <2>1 DEF Inst
    <2>. QED BY <2>1, <2>2, SmallRegisters DEF IntegerFields, IntegerLine
  <1>4. Clean(p) /\ p \in Machines /\ p.exception = "none" /\ i.op \notin BranchOps
    BY <1>2, <1>3, AccessOps DEF Same, Clean
  <1>5. Effect(p, bd, i) \in Machines
    BY <1>3, <1>4, EffectKinds, LoadType, StoreType
  <1>6. n = [Effect(p, bd, c[p.PC]) EXCEPT !.PC = Len(c) + 1]
    <2>1. c[p.PC].op \notin BranchOps /\ Effect(p, bd, c[p.PC]) \in Machines
      BY <1>2, <1>4, <1>5
    <2>. QED BY <1>1, <1>2, <1>4, <2>1, LastStep
  <1>. QED BY <1>1, <1>2, <1>3, <1>6

LEMMA LoadMeans ==
  ASSUME NEW l, l.op \in LoadOps, IntegerLine(l),
         NEW b, Fresh(b), NEW bd, NEW p, Same(p, b), NEW i, i.op = l.op, i.rt = l.rd,
         IntegerFields(i), Address(p, i) = Start(l, b),
         NEW length \in Nat, NEW n, n = [Effect(p, bd, i) EXCEPT !.PC = length + 1]
  PROVE  Means(l, bd, b, Arrived(n), length)
  <1>. DEFINE f == Arrived(n)
              a == Start(l, b)
              size == SizeOf(l.op)
              w == Extended(l.op, Fetched(b, bd, a, size))
  <1>1. /\ Clean(p) /\ p \in Machines /\ p.exception = "none"
        /\ p.F = b.F /\ p.FCC = b.FCC /\ p.HI = b.HI /\ p.LO = b.LO /\ p.mem = b.mem
        /\ \A r \in Registers \ {at} : p.R[r] = b.R[r]
        /\ b.R \in [Registers -> Words] /\ p.R \in [Registers -> Words]
    BY Parts DEF Same, Clean, Fresh
  <1>2. a \in Words
    BY <1>1, AddressType
  <1>3. n = [Load(p, bd, i) EXCEPT !.PC = length + 1]
    BY EffectKinds
  <1>4. Fetched(p, bd, a, size) = Fetched(b, bd, a, size)
    BY <1>1 DEF Fetched
  <1>5. length + 1 \in Nat \ {0}
    OBVIOUS
  <1>6. /\ f.exception = IF a % size # 0 THEN "AdEL" ELSE IF a \notin Memory THEN "DBE" ELSE "none"
        /\ f.R = [p.R EXCEPT ![l.rd] = w]
        /\ f.F = b.F /\ f.FCC = b.FCC /\ f.HI = b.HI /\ f.LO = b.LO /\ f.mem = b.mem
        /\ f.PC = length + 1
    <2>. DEFINE x == Arrived([Load(p, bd, i) EXCEPT !.PC = length + 1])
                d == Address(p, i)
                z == SizeOf(i.op)
    <2>1. /\ x.exception = IF d % z # 0 THEN "AdEL" ELSE IF d \notin Memory THEN "DBE" ELSE "none"
          /\ x.R = [p.R EXCEPT ![i.rt] = Extended(i.op, Fetched(p, bd, d, z))]
          /\ x.F = p.F /\ x.FCC = p.FCC /\ x.HI = p.HI /\ x.LO = p.LO /\ x.mem = p.mem
          /\ x.PC = length + 1
      <3>1. i.op \in LoadOps /\ p \in Machines
        BY <1>1
      <3>2. IsLoaded(x, p, bd, i, length + 1)
        BY <1>1, <1>5, <3>1, LoadArrives
      <3>. HIDE DEF f, a, size, w, x
      <3>. QED BY <3>2 DEF IsLoaded
    <2>2. x = f /\ d = a /\ z = size
      BY <1>3
    <2>. HIDE DEF x, d, z, f, a, size
    <2>. QED BY <1>1, <1>4, <2>1, <2>2
  <1>7. /\ size \in {1, 2, 4} /\ Bytes(l.op) = size
        /\ ExceptionDue(l, b) = IF a % size # 0 THEN "AdEL" ELSE IF a \notin Memory THEN "DBE" ELSE "none"
        /\ Written(l) = {l.rd} /\ ~Links(l) /\ l.op \notin StoreLines
    BY <1>2, AccessPromise
  <1>8. HiLoDue(l, b, f) /\ PlaceDue(l, bd, b, length, f.PC)
    BY <1>6, AccessPlace
  <1>9. l.rd \in Registers
    BY DEF IntegerLine
  <1>. HIDE DEF f, a, size, w
  <1>10. f.exception = ExceptionDue(l, b) /\ <<f.F, f.FCC>> = <<b.F, b.FCC>>
    BY <1>6, <1>7
  <1>11. \A r \in Registers \ (Written(l) \cup {0, at}) : f.R[r] = b.R[r]
    BY <1>1, <1>6, <1>7, <1>9
  <1>12. ASSUME f.exception = "none"
         PROVE  \A r \in Written(l) \ {0} : r = l.rd /\ IsResult(l, bd, b, f.R[r])
    <2>1. a % size = 0 /\ a \in Memory
      BY <1>6, <1>12
    <2>2. IsResult(l, bd, b, w)
      BY <1>7, <2>1, AccessResult DEF a, size, w
    <2>3. f.R[l.rd] = w
      BY <1>1, <1>6, <1>9
    <2>. QED BY <1>7, <2>2, <2>3
  <1>13. Means(l, bd, b, f, length)
    BY <1>6, <1>7, <1>8, <1>10, <1>11, <1>12 DEF Means
  <1>. QED BY <1>13 DEF f

LEMMA StoreMeans ==
  ASSUME NEW l, l.op \in StoreOps, IntegerLine(l), l.rd # at,
         NEW b, Fresh(b), NEW bd, NEW p, Same(p, b), NEW i, i.op = l.op, i.rt = l.rd,
         IntegerFields(i), Address(p, i) = Start(l, b),
         NEW length \in Nat, NEW n, n = [Effect(p, bd, i) EXCEPT !.PC = length + 1]
  PROVE  Means(l, bd, b, Arrived(n), length)
  <1>. DEFINE f == Arrived(n)
              a == Start(l, b)
              size == SizeOf(l.op)
  <1>1. /\ Clean(p) /\ p \in Machines /\ p.exception = "none"
        /\ p.F = b.F /\ p.FCC = b.FCC /\ p.HI = b.HI /\ p.LO = b.LO /\ p.mem = b.mem
        /\ \A r \in Registers \ {at} : p.R[r] = b.R[r]
        /\ b.R \in [Registers -> Words] /\ p.R \in [Registers -> Words]
    BY Parts DEF Same, Clean, Fresh
  <1>2. a \in Words
    BY <1>1, AddressType
  <1>3. n = [Store(p, bd, i) EXCEPT !.PC = length + 1]
    BY EffectKinds
  <1>4. l.rd \in Registers /\ p.R[l.rd] = b.R[l.rd] /\ b.R[l.rd] \in Words
    BY <1>1 DEF IntegerLine
  <1>5. length + 1 \in Nat \ {0}
    OBVIOUS
  <1>6. /\ f.exception = IF a % size # 0 THEN "AdES" ELSE IF a \notin Memory THEN "DBE" ELSE "none"
        /\ f.R = p.R /\ f.F = b.F /\ f.FCC = b.FCC /\ f.HI = b.HI /\ f.LO = b.LO
        /\ f.PC = length + 1 /\ f.mem = Stored(p, bd, a, size, b.R[l.rd]).mem
    <2>. DEFINE x == Arrived([Store(p, bd, i) EXCEPT !.PC = length + 1])
                d == Address(p, i)
                z == SizeOf(i.op)
    <2>1. /\ x.exception = IF d % z # 0 THEN "AdES" ELSE IF d \notin Memory THEN "DBE" ELSE "none"
          /\ x.R = p.R /\ x.F = p.F /\ x.FCC = p.FCC /\ x.HI = p.HI /\ x.LO = p.LO
          /\ x.PC = length + 1 /\ x.mem = Stored(p, bd, d, z, p.R[i.rt]).mem
      BY <1>1, <1>5, StoreArrives
    <2>2. x = f /\ d = a /\ z = size
      BY <1>3
    <2>. HIDE DEF x, d, z, f, a, size
    <2>. QED BY <1>1, <1>4, <2>1, <2>2
  <1>7. /\ size \in {1, 2, 4} /\ Bytes(l.op) = size
        /\ ExceptionDue(l, b) = IF a % size # 0 THEN "AdES" ELSE IF a \notin Memory THEN "DBE" ELSE "none"
        /\ Written(l) = {} /\ ~Links(l) /\ l.op \in StoreLines
    BY <1>2, AccessPromise
  <1>8. HiLoDue(l, b, f) /\ PlaceDue(l, bd, b, length, f.PC)
    BY <1>6, AccessPlace
  <1>. HIDE DEF f, a, size
  <1>9. f.exception = ExceptionDue(l, b) /\ <<f.F, f.FCC>> = <<b.F, b.FCC>>
    BY <1>6, <1>7
  <1>10. \A r \in Registers \ (Written(l) \cup {0, at}) : f.R[r] = b.R[r]
    BY <1>1, <1>6
  <1>11. ASSUME f.exception = "none" PROVE MemoryAsStored(l, bd, b, f)
    <2>1. a % size = 0 /\ a \in Memory
      BY <1>6, <1>11
    <2>2. /\ Datum(f.mem, bd, a, size) = b.R[l.rd] % Weight(size)
          /\ \A x \in Memory \ (a .. a + size - 1) : f.mem[x] = p.mem[x]
      <3>. DEFINE mem == Stored(p, bd, a, size, b.R[l.rd]).mem
      <3>1. /\ Datum(mem, bd, a, size) = b.R[l.rd] % Weight(size)
            /\ \A x \in Memory \ (a .. a + size - 1) : mem[x] = p.mem[x]
        <4>1. p \in Machines /\ b.R[l.rd] \in Words /\ a \in Memory /\ size \in {1, 2, 4}
              /\ a % size = 0
          BY <1>1, <1>4, <1>7, <2>1
        <4>2. IsStored(mem, p.mem, bd, a, size, b.R[l.rd])
          BY <4>1, StoredDatum
        <4>. QED BY <4>2 DEF IsStored
      <3>. HIDE DEF mem
      <3>2. f.mem = mem
        BY <1>6 DEF mem
      <3>. QED BY <3>1, <3>2
    <2>3. Touched(l, b) = a .. a + size - 1
      BY <1>2, <1>7, <2>1, TouchedReached DEF a
    <2>4. Bytes(l.op) # 8 /\ l.op # "sd"
      BY <1>7 DEF StoreOps
    <2>. QED BY <1>1, <1>7, <2>2, <2>3, <2>4 DEF MemoryAsStored, a
  <1>12. Means(l, bd, b, f, length)
    BY <1>6, <1>7, <1>8, <1>9, <1>10, <1>11 DEF Means
  <1>. QED BY <1>12 DEF f

\* A line that does not read or store the assembler's own register.
SparesAt(l) == l.rs # at /\ (l.op \in StoreOps => l.rd # at)

LEMMA AccessNotFatal ==
  ASSUME NEW l, l.op \in LoadOps \cup StoreOps, IntegerLine(l), CodeOK(ASM_CODE(l))
  PROVE  ~\E k \in DOMAIN ASM_CODE(l) : ASM_CODE(l)[k].op = "fatal_error"
  <1>. DEFINE c == Patched(ASM_CODE(l))
  <1>1. l.op # "fatal_error"
    BY AccessOps
  <1>2. ASSUME NEW k \in DOMAIN c PROVE c[k].op # "fatal_error"
    <2>1. CASE Whole(l, c)
      BY <1>1, <1>2, <2>1 DEF Whole, Inst
    <2>2. CASE Pieces(l, c)
      <3>1. PICK h, low : c = <<Inst("lui", 0, 0, at, h, "none")>>
                                \o (IF l.rs # 0 THEN <<Inst("addu", at, at, l.rs, 0, "none")>> ELSE <<>>)
                                \o <<Inst(l.op, 0, at, l.rd, low, "none")>>
        BY <2>2 DEF Pieces
      <3>. DEFINE x == Inst("lui", 0, 0, at, h, "none")
                  y == Inst("addu", at, at, l.rs, 0, "none")
                  z == Inst(l.op, 0, at, l.rd, low, "none")
      <3>2. x.op # "fatal_error" /\ y.op # "fatal_error" /\ z.op # "fatal_error"
        BY <1>1 DEF Inst
      <3>3. c = <<x, z>> \/ c = <<x, y, z>>
        <4>. HIDE DEF x, y, z, c
        <4>1. c = <<x>> \o (IF l.rs # 0 THEN <<y>> ELSE <<>>) \o <<z>>
          BY <3>1 DEF x, y, z
        <4>. QED BY <4>1, Strung
      <3>. HIDE DEF x, y, z, c
      <3>. QED BY <1>2, <3>2, <3>3
    <2>. QED BY <2>1, <2>2, AccessCode
  <1>. HIDE DEF c
  <1>3. DOMAIN c = DOMAIN ASM_CODE(l) /\ \A k \in DOMAIN ASM_CODE(l) : c[k].op = ASM_CODE(l)[k].op
    BY PatchedType DEF c
  <1>. QED BY <1>2, <1>3

\* Whatever the address, the base and the immediate, whether its symbol is
\* defined before or after it, and on machines of any byte order, with delayed
\* loads or without: a load or a store of the machine writes the value its
\* address has and nothing else but $at, or raises the exception it should.
\* The expansion of i_type_inst_full_word adds the carry of the low half to the
\* high one, and resolve_label_uses does where the symbol comes later.
THEOREM AccessesMeanWhatTheySay ==
  Spec => [](line.op \in LoadOps \cup StoreOps /\ SparesAt(line) => MeansWhatItSays)
  <1>1. LineInv => (line.op \in LoadOps \cup StoreOps /\ SparesAt(line) => MeansWhatItSays)
    <2>. SUFFICES ASSUME LineInv, line.op \in LoadOps \cup StoreOps, SparesAt(line)
                  PROVE  MeansWhatItSays
      OBVIOUS
    <2>1. line.op \notin FloatLines /\ IntegerLine(line) /\ CodeOK(ASM_CODE(line))
      <3>1. LineOK(line) /\ line.op \notin FloatLines
        BY LinesOK, AccessOps DEF LineInv, TypeInv
      <3>2. line.op \notin FloatMoves \cup CompareOps \cup {"mfc1", "mfc1.d"}
        BY <3>1 DEF FloatLines
      <3>. QED BY <3>1, <3>2, AssembledOK DEF LineOK, IntegerLine, Destinations, Sources
    <2>2. stage # "fatal"
      BY <2>1, AccessNotFatal DEF LineInv
    <2>3. ASSUME stage = "run", Ended PROVE Means(line, build, before, Settled, Len(code))
      <3>1. /\ code = Patched(ASM_CODE(line)) /\ Runs(before, build, code, m)
            /\ Over(m, code) /\ Fresh(before) /\ line.rs # at
        BY <2>3 DEF LineInv, Over, Ended, SparesAt
      <3>2. Len(code) \in Nat
        BY <2>1, <3>1, AccessRun
      <3>3. PICK p, i : /\ Same(p, before) /\ i.op = line.op /\ i.rt = line.rd
                        /\ IntegerFields(i) /\ Address(p, i) = Start(line, before)
                        /\ m = [Effect(p, build, i) EXCEPT !.PC = Len(code) + 1]
        BY <2>1, <3>1, AccessRun
      <3>4. Means(line, build, before, Arrived(m), Len(code))
        <4>1. CASE line.op \in LoadOps
          BY <2>1, <3>1, <3>2, <3>3, <4>1, LoadMeans
        <4>2. CASE line.op \in StoreOps
          BY <2>1, <3>1, <3>2, <3>3, <4>2, StoreMeans DEF SparesAt
        <4>. QED BY <4>1, <4>2
      <3>. QED BY <3>4 DEF Settled, Arrived
    <2>. QED BY <2>1, <2>2, <2>3 DEF MeansWhatItSays
  <1>2. Init => LineInv
    BY LineInit
  <1>3. LineInv /\ [Next]_vars => LineInv'
    BY LineStep
  <1>. QED BY <1>1, <1>2, <1>3, PTL DEF Spec

-----------------------------------------------------------------------------
(***************************************************************************)
(* Lines that compute: what they are promised, and what an instruction     *)
(* that ends them leaves.                                                  *)
(***************************************************************************)
SetOps     == {"slt", "slti", "sltu", "sltiu", "sgt", "sgtu"}
ComputeOps == AddOps \cup SubOps \cup SetOps \cup MoveIfOps \cup MoveFromOps \cup TrapOps
                \cup {"neg", "negu", "move", "li", "la"}

LEMMA ComputePromise ==
  ASSUME NEW l, l.op \in ComputeOps, NEW b
  PROVE  /\ ~Links(l) /\ l.op \notin StoreLines /\ l.op # "ld"
         /\ Written(l) = IF l.op \in TrapOps THEN {} ELSE {l.rd}
         /\ ExceptionDue(l, b) = IF Overflows(l, b) THEN "Ov"
                                 ELSE IF TrapsOn(l, b) THEN "Tr" ELSE "none"
  <1>. USE DEF ComputeOps, AddOps, SubOps, SetOps, MoveIfOps, MoveFromOps, TrapOps
  <1>1. /\ ~Links(l) /\ l.op \notin LoadLines /\ l.op \notin StoreLines /\ l.op # "ld"
        /\ l.op \notin Branches
    BY DEF Links, LoadLines, StoreLines, Branches
  <1>2. l.op \in NoResult <=> l.op \in TrapOps
    BY DEF NoResult, StoreLines
  <1>3. Written(l) = IF l.op \in TrapOps THEN {} ELSE {l.rd}
    BY <1>1, <1>2 DEF Written
  <1>4. ~Breaks(l, b) /\ ~Misaligned(l, b) /\ ~Unmapped(l, b)
    BY <1>1 DEF Breaks, Misaligned, Unmapped
  <1>. QED BY <1>1, <1>3, <1>4 DEF ExceptionDue

LEMMA ComputePlace ==
  ASSUME NEW l, l.op \in ComputeOps, NEW b, NEW f, NEW bd, NEW length \in Nat,
         f.HI = b.HI, f.LO = b.LO, f.PC = length + 1
  PROVE  HiLoDue(l, b, f) /\ PlaceDue(l, bd, b, length, f.PC)
  <1>. USE DEF ComputeOps, AddOps, SubOps, SetOps, MoveIfOps, MoveFromOps, TrapOps
  <1>1. HiLoDue(l, b, f)
    BY DEF HiLoDue, HiLoLines
  <1>2. ~Jumps(l, b) /\ l.op \notin Likely /\ length + 1 + 0 = length + 1
    BY DEF Jumps, Likely
  <1>. QED BY <1>1, <1>2 DEF PlaceDue

\* f is p with the registers R, the exception e and the place q.
Ends(f, p, R, e, q) ==
  /\ f.R = R /\ f.exception = e /\ f.PC = q
  /\ f.F = p.F /\ f.FCC = p.FCC /\ f.HI = p.HI /\ f.LO = p.LO /\ f.mem = p.mem

LEMMA StayArrives ==
  ASSUME NEW p, Clean(p), NEW q \in Nat \ {0}
  PROVE  Ends(Arrived([p EXCEPT !.PC = q]), p, p.R, p.exception, q)
  <1>. DEFINE x == [p EXCEPT !.PC = q]
  <1>1. /\ x \in Machines /\ x.late1 = <<>> /\ x.late2 = <<>>
        /\ x.R = p.R /\ x.F = p.F /\ x.FCC = p.FCC /\ x.HI = p.HI /\ x.LO = p.LO
        /\ x.mem = p.mem /\ x.exception = p.exception /\ x.PC = q
    BY DEF Clean, Machines
  <1>. HIDE DEF x
  <1>2. Arrived(x).R = x.R /\ Rest(Arrived(x), x)
    BY <1>1, NoneLate
  <1>3. Ends(Arrived(x), p, p.R, p.exception, q)
    BY <1>1, <1>2 DEF Rest, Ends
  <1>. QED BY <1>3 DEF x

LEMMA RaiseArrives ==
  ASSUME NEW p, Clean(p), NEW e \in Exceptions, NEW q \in Nat \ {0}
  PROVE  Ends(Arrived([Raise(p, e) EXCEPT !.PC = q]), p, p.R, e, q)
  <1>. DEFINE g == Raise(p, e)
  <1>1. /\ g \in Machines /\ g.late1 = <<>> /\ g.late2 = <<>> /\ g.R = p.R /\ g.F = p.F
        /\ g.FCC = p.FCC /\ g.HI = p.HI /\ g.LO = p.LO /\ g.mem = p.mem /\ g.exception = e
    BY DEF Clean, Machines, Raise
  <1>. HIDE DEF g
  <1>2. Clean(g)
    BY <1>1 DEF Clean
  <1>3. Ends(Arrived([g EXCEPT !.PC = q]), g, g.R, g.exception, q)
    BY <1>2, StayArrives
  <1>4. Ends(Arrived([g EXCEPT !.PC = q]), p, p.R, e, q)
    BY <1>1, <1>3 DEF Ends
  <1>. QED BY <1>4 DEF g

LEMMA SetArrives ==
  ASSUME NEW p, Clean(p), NEW r \in Registers, NEW w \in Words, NEW q \in Nat \ {0}
  PROVE  Ends(Arrived([Set(p, r, w) EXCEPT !.PC = q]), p, [p.R EXCEPT ![r] = w], p.exception, q)
  <1>. DEFINE x == [Set(p, r, w) EXCEPT !.PC = q]
  <1>1. Set(p, r, w) \in Machines
    BY SetType DEF Clean
  <1>2. /\ x \in Machines /\ x.late1 = <<>> /\ x.late2 = <<>>
        /\ x.R = [p.R EXCEPT ![r] = w] /\ x.F = p.F /\ x.FCC = p.FCC /\ x.HI = p.HI
        /\ x.LO = p.LO /\ x.mem = p.mem /\ x.exception = p.exception /\ x.PC = q
    <2>1. x \in Machines
      BY <1>1 DEF Machines
    <2>. QED BY <2>1 DEF Clean, Machines, Set
  <1>. HIDE DEF x
  <1>3. Arrived(x).R = x.R /\ Rest(Arrived(x), x)
    BY <1>2, NoneLate
  <1>4. Ends(Arrived(x), p, [p.R EXCEPT ![r] = w], p.exception, q)
    BY <1>2, <1>3 DEF Rest, Ends
  <1>. QED BY <1>4 DEF x

\* A line ends as it should with a result, with an exception, or with nothing
\* to do.
LEMMA ResultMeans ==
  ASSUME NEW l, l.op \in ComputeOps, l.op \notin TrapOps, IntegerLine(l),
         NEW b, Fresh(b), NEW bd, NEW p, Same(p, b), NEW length \in Nat,
         ~Overflows(l, b), NEW w \in Words, IsResult(l, bd, b, w),
         NEW n, n = [Set(p, l.rd, w) EXCEPT !.PC = length + 1]
  PROVE  Means(l, bd, b, Arrived(n), length)
  <1>. DEFINE f == Arrived(n)
              R == [p.R EXCEPT ![l.rd] = w]
  <1>1. /\ Clean(p) /\ p.exception = "none" /\ l.rd \in Registers /\ length + 1 \in Nat \ {0}
        /\ p.R \in [Registers -> Words]
    BY Parts DEF Same, Clean, IntegerLine
  <1>2. Ends(f, p, R, "none", length + 1)
    <2>1. Ends(Arrived([Set(p, l.rd, w) EXCEPT !.PC = length + 1]), p, [p.R EXCEPT ![l.rd] = w],
               p.exception, length + 1)
      BY <1>1, SetArrives
    <2>. QED BY <1>1, <2>1
  <1>. HIDE DEF f
  <1>3. /\ f.exception = "none" /\ f.PC = length + 1 /\ f.F = b.F /\ f.FCC = b.FCC
        /\ f.HI = b.HI /\ f.LO = b.LO /\ f.mem = b.mem /\ f.R = R
        /\ \A r \in Registers \ {at} : p.R[r] = b.R[r]
    BY <1>2 DEF Ends, Same
  <1>4. ~TrapsOn(l, b)
    BY DEF TrapsOn, TrapOps
  <1>5. /\ ~Links(l) /\ l.op \notin StoreLines /\ Written(l) = {l.rd}
        /\ ExceptionDue(l, b) = "none"
    BY <1>4, ComputePromise
  <1>6. HiLoDue(l, b, f) /\ PlaceDue(l, bd, b, length, f.PC)
    BY <1>3, ComputePlace
  <1>7. f.R[l.rd] = w /\ \A r \in Registers \ {l.rd, at} : f.R[r] = b.R[r]
    BY <1>1, <1>3
  <1>8. Means(l, bd, b, f, length)
    BY <1>3, <1>5, <1>6, <1>7 DEF Means
  <1>. QED BY <1>8 DEF f

LEMMA RaiseMeans ==
  ASSUME NEW l, l.op \in ComputeOps, IntegerLine(l),
         NEW b, Fresh(b), NEW bd, NEW p, Same(p, b), NEW length \in Nat,
         NEW e, e = IF Overflows(l, b) THEN "Ov" ELSE "Tr", e = "Tr" => TrapsOn(l, b),
         NEW n, n = [Raise(p, e) EXCEPT !.PC = length + 1]
  PROVE  Means(l, bd, b, Arrived(n), length)
  <1>. DEFINE f == Arrived(n)
  <1>1. Clean(p) /\ length + 1 \in Nat \ {0} /\ e \in Exceptions /\ e # "none"
    BY DEF Same, Exceptions
  <1>2. Ends(f, p, p.R, e, length + 1)
    BY <1>1, RaiseArrives
  <1>. HIDE DEF f
  <1>3. /\ f.exception = e /\ f.PC = length + 1 /\ f.F = b.F /\ f.FCC = b.FCC
        /\ f.HI = b.HI /\ f.LO = b.LO /\ f.R = p.R
        /\ \A r \in Registers \ {at} : p.R[r] = b.R[r]
    BY <1>2 DEF Ends, Same
  <1>4. ExceptionDue(l, b) = e
    BY ComputePromise
  <1>5. Means(l, bd, b, f, length)
    BY <1>1, <1>3, <1>4, ComputePromise DEF Means
  <1>. QED BY <1>5 DEF f

LEMMA StayMeans ==
  ASSUME NEW l, l.op \in ComputeOps, IntegerLine(l),
         NEW b, Fresh(b), NEW bd, NEW p, Same(p, b), NEW length \in Nat,
         ~Overflows(l, b), ~TrapsOn(l, b), l.op \notin TrapOps => IsResult(l, bd, b, p.R[l.rd]),
         NEW n, n = [p EXCEPT !.PC = length + 1]
  PROVE  Means(l, bd, b, Arrived(n), length)
  <1>. DEFINE f == Arrived(n)
  <1>1. Clean(p) /\ length + 1 \in Nat \ {0} /\ p.exception = "none"
    BY DEF Same
  <1>2. Ends(f, p, p.R, "none", length + 1)
    <2>1. Ends(Arrived([p EXCEPT !.PC = length + 1]), p, p.R, p.exception, length + 1)
      BY <1>1, StayArrives
    <2>. QED BY <1>1, <2>1
  <1>. HIDE DEF f
  <1>3. /\ f.exception = "none" /\ f.PC = length + 1 /\ f.F = b.F /\ f.FCC = b.FCC
        /\ f.HI = b.HI /\ f.LO = b.LO /\ f.mem = b.mem /\ f.R = p.R
        /\ \A r \in Registers \ {at} : p.R[r] = b.R[r]
    BY <1>2 DEF Ends, Same
  <1>4. /\ ~Links(l) /\ l.op \notin StoreLines
        /\ Written(l) = IF l.op \in TrapOps THEN {} ELSE {l.rd}
        /\ ExceptionDue(l, b) = "none"
    BY ComputePromise
  <1>5. HiLoDue(l, b, f) /\ PlaceDue(l, bd, b, length, f.PC)
    BY <1>3, ComputePlace
  <1>6. Means(l, bd, b, f, length)
    BY <1>3, <1>4, <1>5 DEF Means
  <1>. QED BY <1>6 DEF f

\* A multiple of a width that lies between two others.
LEMMA FewMultiples ==
  ASSUME NEW k \in Int, NEW z \in Int, k >= z
  PROVE  k * Word \in Int /\ z * Word \in Int /\ k * Word >= z * Word
  <1>1. Word \in Nat
    BY Widths
  <1>2. (k - z) \in Nat /\ (k - z) * Word = k * Word - z * Word
    BY <1>1
  <1>3. ASSUME NEW d \in Nat PROVE d * Word >= 0
    BY <1>1
  <1>4. (k - z) * Word >= 0
    BY <1>2, <1>3
  <1>5. k * Word \in Int /\ z * Word \in Int
    BY <1>1
  <1>. QED BY <1>2, <1>4, <1>5

\* A number that wraps around wraps around once.
LEMMA OneWrap ==
  ASSUME NEW n \in Int, NEW s \in Int, s >= 0, s < Word, NEW k \in Int, n = s + k * Word
  PROVE  /\ n < 2 * Word => k <= 1
         /\ n >= 0 => k >= 0
         /\ n < Word => k <= 0
         /\ n >= -Word => k >= -1
  <1>. DEFINE kw == k * Word
  <1>1. kw \in Int /\ n = s + kw /\ Word \in Int /\ Word >= 1
    BY Widths
  <1>2. k >= 2 => kw >= 2 * Word
    BY FewMultiples, 2 \in Int
  <1>3. k <= -1 => kw <= (-1) * Word
    BY FewMultiples, -1 \in Int
  <1>4. k >= 1 => kw >= 1 * Word
    BY FewMultiples, 1 \in Int
  <1>5. k <= -2 => kw <= (-2) * Word
    BY FewMultiples, -2 \in Int
  <1>. HIDE DEF kw
  <1>. QED BY <1>1, <1>2, <1>3, <1>4, <1>5

\* The tests of the code for overflow are right, in two's complement.
LEMMA SignedSum ==
  ASSUME NEW a \in Words, NEW c \in Words
  PROVE  /\ Low(Signed(a) + Signed(c)) = Low(a + c) /\ Low(a + c) \in Words
         /\ ARITH_OVFL(Low(a + c), a, c) <=> ~InRange(Signed(a) + Signed(c))
  <1>. DEFINE H == Word \div 2
              s == Low(a + c)
  <1>1. H \in Int /\ Word = 2 * H /\ H >= 8
    BY Widths
  <1>2. a \in Int /\ c \in Int /\ a >= 0 /\ c >= 0 /\ a < Word /\ c < Word
    BY WordBounds
  <1>3. s \in Words /\ s \in Int /\ s >= 0 /\ s < Word
    <2>1. a + c \in Int
      BY <1>2
    <2>2. s \in Words
      BY <2>1, LowType
    <2>. QED BY <2>2, WordBounds
  <1>4. s = a + c \/ s = a + c - Word
    <2>1. a + c \in Int /\ a + c < 2 * Word /\ a + c >= 0
      BY <1>2, Widths
    <2>2. \E k \in Int : a + c = s + k * Word
      BY <2>1, LowAsSum
    <2>. HIDE DEF s
    <2>3. PICK k \in Int : a + c = s + k * Word
      BY <2>2
    <2>4. k = 0 \/ k = 1
      BY <1>3, <2>1, <2>3, OneWrap
    <2>5. a + c = s + 0 * Word \/ a + c = s + 1 * Word
      BY <2>3, <2>4
    <2>. QED BY <1>2, <1>3, <2>5, Widths
  <1>5. /\ Signed(a) = (IF a >= H THEN a - Word ELSE a) /\ (SignBit(a) = 1 <=> a >= H)
        /\ Signed(c) = (IF c >= H THEN c - Word ELSE c) /\ (SignBit(c) = 1 <=> c >= H)
        /\ (SignBit(s) = 1 <=> s >= H)
        /\ SignBit(a) \in {0, 1} /\ SignBit(c) \in {0, 1} /\ SignBit(s) \in {0, 1}
    BY <1>3, WordBounds
  <1>. HIDE DEF H, s
  <1>6. ARITH_OVFL(s, a, c) <=> ((a >= H <=> c >= H) /\ ~(a >= H <=> s >= H))
    BY <1>5 DEF ARITH_OVFL
  <1>7. InRange(Signed(a) + Signed(c)) <=> -H <= Signed(a) + Signed(c) /\ Signed(a) + Signed(c) < H
    BY DEF InRange, H
  <1>8. ARITH_OVFL(s, a, c) <=> ~InRange(Signed(a) + Signed(c))
    BY <1>1, <1>2, <1>3, <1>4, <1>5, <1>6, <1>7
  <1>9. Low(Signed(a) + Signed(c)) = s
    <2>1. \E k \in Int : Signed(a) + Signed(c) = (a + c) + k * Word
      <3>1. \/ Signed(a) + Signed(c) = (a + c) + 0 * Word
            \/ Signed(a) + Signed(c) = (a + c) + (-1) * Word
            \/ Signed(a) + Signed(c) = (a + c) + (-2) * Word
        BY <1>1, <1>2, <1>5
      <3>. QED BY <3>1
    <2>2. PICK k \in Int : Signed(a) + Signed(c) = (a + c) + k * Word
      BY <2>1
    <2>3. a + c \in Int
      BY <1>2
    <2>4. Low((a + c) + k * Word) = Low(a + c)
      BY <2>3, LowShift
    <2>. QED BY <2>2, <2>4 DEF s
  <1>. QED BY <1>3, <1>8, <1>9 DEF s

LEMMA SignedDifference ==
  ASSUME NEW a \in Words, NEW c \in Words
  PROVE  /\ Low(Signed(a) - Signed(c)) = Low(a - c) /\ Low(a - c) \in Words
         /\ (SignBit(a) # SignBit(c) /\ SignBit(a) # SignBit(Low(a - c)))
              <=> ~InRange(Signed(a) - Signed(c))
  <1>. DEFINE H == Word \div 2
              s == Low(a - c)
  <1>1. H \in Int /\ Word = 2 * H /\ H >= 8
    BY Widths
  <1>2. a \in Int /\ c \in Int /\ a >= 0 /\ c >= 0 /\ a < Word /\ c < Word
    BY WordBounds
  <1>3. s \in Words /\ s \in Int /\ s >= 0 /\ s < Word
    <2>1. a - c \in Int
      BY <1>2
    <2>2. s \in Words
      BY <2>1, LowType
    <2>. QED BY <2>2, WordBounds
  <1>4. s = a - c \/ s = a - c + Word
    <2>1. a - c \in Int /\ a - c < Word /\ a - c >= -Word
      BY <1>2, Widths
    <2>2. \E k \in Int : a - c = s + k * Word
      BY <2>1, LowAsSum
    <2>. HIDE DEF s
    <2>3. PICK k \in Int : a - c = s + k * Word
      BY <2>2
    <2>4. k = 0 \/ k = -1
      BY <1>3, <2>1, <2>3, OneWrap
    <2>5. a - c = s + 0 * Word \/ a - c = s + (-1) * Word
      BY <2>3, <2>4
    <2>. QED BY <1>2, <1>3, <2>5, Widths
  <1>5. /\ Signed(a) = (IF a >= H THEN a - Word ELSE a) /\ (SignBit(a) = 1 <=> a >= H)
        /\ Signed(c) = (IF c >= H THEN c - Word ELSE c) /\ (SignBit(c) = 1 <=> c >= H)
        /\ (SignBit(s) = 1 <=> s >= H)
        /\ SignBit(a) \in {0, 1} /\ SignBit(c) \in {0, 1} /\ SignBit(s) \in {0, 1}
    BY <1>3, WordBounds
  <1>. HIDE DEF H, s
  <1>6. (SignBit(a) # SignBit(c) /\ SignBit(a) # SignBit(s))
          <=> (~(a >= H <=> c >= H) /\ ~(a >= H <=> s >= H))
    BY <1>5
  <1>7. InRange(Signed(a) - Signed(c)) <=> -H <= Signed(a) - Signed(c) /\ Signed(a) - Signed(c) < H
    BY DEF InRange, H
  <1>8. (SignBit(a) # SignBit(c) /\ SignBit(a) # SignBit(s)) <=> ~InRange(Signed(a) - Signed(c))
    BY <1>1, <1>2, <1>3, <1>4, <1>5, <1>6, <1>7
  <1>9. Low(Signed(a) - Signed(c)) = s
    <2>1. \E k \in Int : Signed(a) - Signed(c) = (a - c) + k * Word
      <3>1. \/ Signed(a) - Signed(c) = (a - c) + 0 * Word
            \/ Signed(a) - Signed(c) = (a - c) + (-1) * Word
            \/ Signed(a) - Signed(c) = (a - c) + 1 * Word
        BY <1>1, <1>2, <1>5
      <3>. QED BY <3>1
    <2>2. PICK k \in Int : Signed(a) - Signed(c) = (a - c) + k * Word
      BY <2>1
    <2>3. a - c \in Int
      BY <1>2
    <2>4. Low((a - c) + k * Word) = Low(a - c)
      BY <2>3, LowShift
    <2>. QED BY <2>2, <2>4 DEF s
  <1>. QED BY <1>3, <1>8, <1>9 DEF s

\* The instruction i finds the operands a and c in the machine p and writes r.
Operands(i, p, a, c, r) ==
  /\ p.R[i.rs] = a /\ Operand(p, i) = c /\ Dest(i) = r
  /\ a \in Words /\ c \in Words

LEMMA AddMeans ==
  ASSUME NEW l, l.op \in AddOps, IntegerLine(l), NEW b, Fresh(b), NEW bd, NEW p, Same(p, b),
         NEW length \in Nat, NEW i, i.op \in AddOps,
         i.op \in {"add", "addi"} <=> l.op \in {"add", "addi"},
         Operands(i, p, First(l, b), Other(l, b), l.rd),
         NEW n, n = [Effect(p, bd, i) EXCEPT !.PC = length + 1]
  PROVE  Means(l, bd, b, Arrived(n), length)
  <1>. DEFINE a == First(l, b)
              c == Other(l, b)
              w == Low(a + c)
  <1>1. /\ p.R[i.rs] = a /\ Operand(p, i) = c /\ Dest(i) = l.rd /\ a \in Words /\ c \in Words
    BY DEF Operands
  <1>2. l.op \in ComputeOps /\ l.op \notin TrapOps /\ l.op \notin UnsignedOps
    BY DEF ComputeOps, AddOps, TrapOps, UnsignedOps
  <1>3. X(l, b) = Signed(a) /\ Y(l, b) = Signed(c)
    BY <1>2 DEF X, Y, Number
  <1>4. w \in Words /\ w = Low(X(l, b) + Y(l, b))
        /\ (ARITH_OVFL(w, a, c) <=> ~InRange(X(l, b) + Y(l, b)))
    BY <1>1, <1>3, SignedSum
  <1>5. Overflows(l, b) <=> l.op \in {"add", "addi"} /\ ~InRange(X(l, b) + Y(l, b))
    BY DEF Overflows, AddOps
  <1>6. IsResult(l, bd, b, w)
    <2>. HIDE DEF w
    <2>. QED BY <1>4 DEF IsResult, AddOps, LoadLines
  <1>7. Effect(p, bd, i) = IF Overflows(l, b) THEN Raise(p, "Ov") ELSE Set(p, l.rd, w)
    BY <1>1, <1>4, <1>5, EffectKinds DEF Add
  <1>. HIDE DEF a, c, w
  <1>8. CASE Overflows(l, b)
    BY <1>2, <1>7, <1>8, RaiseMeans
  <1>9. CASE ~Overflows(l, b)
    BY <1>2, <1>4, <1>6, <1>7, <1>9, ResultMeans
  <1>. QED BY <1>8, <1>9

LEMMA OnRegisterFields ==
  ASSUME NEW i, i.op \notin Arithmetic, i.op \notin Logical, NEW p
  PROVE  Operand(p, i) = p.R[i.rt] /\ Dest(i) = i.rd
  BY DEF Operand, Dest

LEMMA SubMeans ==
  ASSUME NEW l, l.op \in SubOps, IntegerLine(l), NEW b, Fresh(b), NEW bd, NEW p, Same(p, b),
         NEW length \in Nat, NEW i, i.op = l.op,
         Operands(i, p, First(l, b), Other(l, b), l.rd),
         NEW n, n = [Effect(p, bd, i) EXCEPT !.PC = length + 1]
  PROVE  Means(l, bd, b, Arrived(n), length)
  <1>. DEFINE a == First(l, b)
              c == Other(l, b)
              w == Low(a - c)
  <1>1. i.op \notin Arithmetic /\ i.op \notin Logical
    BY DEF SubOps, Arithmetic, Logical
  <1>2. /\ p.R[i.rs] = a /\ p.R[i.rt] = c /\ i.rd = l.rd /\ a \in Words /\ c \in Words
    BY <1>1, OnRegisterFields DEF Operands
  <1>3. l.op \in ComputeOps /\ l.op \notin TrapOps /\ l.op \notin UnsignedOps
    BY DEF ComputeOps, SubOps, TrapOps, UnsignedOps
  <1>4. X(l, b) = Signed(a) /\ Y(l, b) = Signed(c)
    BY <1>3 DEF X, Y, Number
  <1>5. w \in Words /\ w = Low(X(l, b) - Y(l, b))
        /\ ((SignBit(a) # SignBit(c) /\ SignBit(a) # SignBit(w)) <=> ~InRange(X(l, b) - Y(l, b)))
    <2>1. a \in Words /\ c \in Words
      BY <1>2
    <2>. HIDE DEF a, c
    <2>2. /\ Low(Signed(a) - Signed(c)) = Low(a - c) /\ Low(a - c) \in Words
          /\ (SignBit(a) # SignBit(c) /\ SignBit(a) # SignBit(Low(a - c)))
               <=> ~InRange(Signed(a) - Signed(c))
      BY <2>1, SignedDifference
    <2>. QED BY <1>4, <2>2, Zenon
  <1>6. Overflows(l, b) <=> l.op = "sub" /\ ~InRange(X(l, b) - Y(l, b))
    BY DEF Overflows, SubOps
  <1>7. IsResult(l, bd, b, w)
    <2>. HIDE DEF w
    <2>. QED BY <1>5 DEF IsResult, SubOps, LoadLines
  <1>8. Effect(p, bd, i) = IF Overflows(l, b) THEN Raise(p, "Ov") ELSE Set(p, l.rd, w)
    BY <1>2, <1>5, <1>6, EffectKinds DEF Sub
  <1>. HIDE DEF a, c, w
  <1>9. CASE Overflows(l, b)
    BY <1>3, <1>8, <1>9, RaiseMeans
  <1>10. CASE ~Overflows(l, b)
    BY <1>3, <1>5, <1>7, <1>8, <1>10, ResultMeans
  <1>. QED BY <1>9, <1>10

\* neg and negu take their operand from 0.
LEMMA NegMeans ==
  ASSUME NEW l, l.op \in {"neg", "negu"}, IntegerLine(l), NEW b, Fresh(b), NEW bd, NEW p, Same(p, b),
         NEW length \in Nat, NEW i, i.op = IF l.op = "neg" THEN "sub" ELSE "subu",
         Operands(i, p, 0, First(l, b), l.rd),
         NEW n, n = [Effect(p, bd, i) EXCEPT !.PC = length + 1]
  PROVE  Means(l, bd, b, Arrived(n), length)
  <1>. DEFINE c == First(l, b)
              x == X(l, b)
              w == Low(0 - c)
  <1>1. i.op \notin Arithmetic /\ i.op \notin Logical /\ i.op \in SubOps
        /\ (i.op = "sub" <=> l.op = "neg")
    BY DEF SubOps, Arithmetic, Logical
  <1>2. /\ p.R[i.rs] = 0 /\ p.R[i.rt] = c /\ i.rd = l.rd /\ 0 \in Words /\ c \in Words
    BY <1>1, OnRegisterFields DEF Operands
  <1>3. l.op \in ComputeOps /\ l.op \notin TrapOps /\ l.op \notin UnsignedOps
    BY DEF ComputeOps, TrapOps, UnsignedOps
  <1>4. x = Signed(c) /\ Signed(0) = 0
    <2>1. x = Signed(c)
      BY <1>3 DEF X, Number
    <2>2. 0 \in Words
      BY <1>2
    <2>3. Signed(0) = IF 0 >= Word \div 2 THEN 0 - Word ELSE 0
      BY <2>2, WordBounds
    <2>4. ~(0 >= Word \div 2)
      BY Widths
    <2>. QED BY <2>1, <2>3, <2>4
  <1>5. /\ w \in Words /\ w = Low(0 - x)
        /\ ((SignBit(0) # SignBit(c) /\ SignBit(0) # SignBit(w)) <=> ~InRange(0 - x))
    <2>1. 0 \in Words /\ c \in Words
      BY <1>2
    <2>. HIDE DEF c
    <2>2. /\ Low(Signed(0) - Signed(c)) = Low(0 - c) /\ Low(0 - c) \in Words
          /\ (SignBit(0) # SignBit(c) /\ SignBit(0) # SignBit(Low(0 - c)))
               <=> ~InRange(Signed(0) - Signed(c))
      BY <2>1, SignedDifference
    <2>. QED BY <1>4, <2>2, Zenon
  <1>6. InRange(0 - x) <=> InRange(abs(x))
    <2>. DEFINE H == Word \div 2
    <2>1. x \in Int /\ x >= -H /\ x < H /\ H \in Int
      BY <1>2, <1>4, WordBounds, Widths
    <2>. HIDE DEF H, x
    <2>2. \A k \in Int : InRange(k) <=> -H <= k /\ k < H
      BY DEF InRange, H
    <2>3. abs(x) = IF x < 0 THEN -x ELSE x
      BY DEF abs
    <2>. QED BY <2>1, <2>2, <2>3
  <1>7. Overflows(l, b) <=> l.op = "neg" /\ ~InRange(0 - x)
    BY <1>6 DEF Overflows
  <1>8. w = Low(-x)
    <2>1. x \in Int
      BY <1>2, <1>4, WordBounds
    <2>. HIDE DEF x, w
    <2>2. 0 - x = -x
      BY <2>1
    <2>. QED BY <1>5, <2>2
  <1>9. IsResult(l, bd, b, w)
    <2>. HIDE DEF w
    <2>. QED BY <1>8 DEF IsResult, LoadLines
  <1>10. Effect(p, bd, i) = IF Overflows(l, b) THEN Raise(p, "Ov") ELSE Set(p, l.rd, w)
    BY <1>1, <1>2, <1>5, <1>7, EffectKinds DEF Sub
  <1>. HIDE DEF c, x, w
  <1>11. CASE Overflows(l, b)
    BY <1>3, <1>10, <1>11, RaiseMeans
  <1>12. CASE ~Overflows(l, b)
    BY <1>3, <1>5, <1>9, <1>10, <1>12, ResultMeans
  <1>. QED BY <1>11, <1>12

\* sgt and sgtu are slt and sltu with their operands swapped.
LEMMA LessMeans ==
  ASSUME NEW l, l.op \in SetOps, IntegerLine(l), NEW b, Fresh(b), NEW bd, NEW p, Same(p, b),
         NEW length \in Nat, NEW i, i.op \in SetLessOps,
         i.op \in {"slt", "slti"} <=> l.op \in {"slt", "slti", "sgt"},
         NEW a, NEW c, Operands(i, p, a, c, l.rd),
         IF l.op \in {"sgt", "sgtu"} THEN a = Other(l, b) /\ c = First(l, b)
                                     ELSE a = First(l, b) /\ c = Other(l, b),
         NEW n, n = [Effect(p, bd, i) EXCEPT !.PC = length + 1]
  PROVE  Means(l, bd, b, Arrived(n), length)
  <1>. DEFINE less == IF i.op \in {"slt", "slti"} THEN Signed(a) < Signed(c) ELSE a < c
              w == IF less THEN 1 ELSE 0
  <1>1. /\ p.R[i.rs] = a /\ Operand(p, i) = c /\ Dest(i) = l.rd /\ a \in Words /\ c \in Words
    BY DEF Operands
  <1>2. l.op \in ComputeOps /\ l.op \notin TrapOps
        /\ (l.op \in UnsignedOps <=> l.op \notin {"slt", "slti", "sgt"})
    BY DEF ComputeOps, SetOps, TrapOps, UnsignedOps
  <1>3. Effect(p, bd, i) = Set(p, l.rd, w)
    BY <1>1, EffectKinds DEF SetLess
  <1>4. w \in Words
    BY Widths DEF Words
  <1>5. less <=> IF l.op \in {"sgt", "sgtu"} THEN X(l, b) > Y(l, b) ELSE X(l, b) < Y(l, b)
    <2>1. \A y, z \in Words : /\ y \in Int /\ z \in Int /\ Signed(y) \in Int /\ Signed(z) \in Int
                              /\ (y > z <=> z < y) /\ (Signed(y) > Signed(z) <=> Signed(z) < Signed(y))
      BY WordBounds
    <2>2. First(l, b) \in Words /\ Other(l, b) \in Words
      BY <1>1
    <2>3. CASE l.op \in UnsignedOps
      <3>1. X(l, b) = First(l, b) /\ Y(l, b) = Other(l, b) /\ (less <=> a < c)
        BY <1>2, <2>3 DEF X, Y, Number
      <3>. QED BY <2>1, <2>2, <3>1
    <2>4. CASE l.op \notin UnsignedOps
      <3>1. X(l, b) = Signed(First(l, b)) /\ Y(l, b) = Signed(Other(l, b))
            /\ (less <=> Signed(a) < Signed(c))
        BY <1>2, <2>4 DEF X, Y, Number
      <3>. QED BY <2>1, <2>2, <3>1
    <2>. QED BY <2>3, <2>4
  <1>6. IsResult(l, bd, b, w)
    <2>1. w = Truth(IF l.op \in {"sgt", "sgtu"} THEN X(l, b) > Y(l, b) ELSE X(l, b) < Y(l, b))
      BY <1>5 DEF Truth
    <2>. HIDE DEF w
    <2>. QED BY <2>1 DEF IsResult, SetOps, LoadLines
  <1>. HIDE DEF w
  <1>7. ~Overflows(l, b)
    BY DEF Overflows, SetOps
  <1>. QED BY <1>2, <1>3, <1>4, <1>6, <1>7, ResultMeans

\* Moves: of a register by way of addu, on a condition, from HI and from LO.
LEMMA MoveMeans ==
  ASSUME NEW l, l.op = "move", IntegerLine(l), NEW b, Fresh(b), NEW bd, NEW p, Same(p, b),
         NEW length \in Nat, NEW i, i.op = "addu", Operands(i, p, 0, First(l, b), l.rd),
         NEW n, n = [Effect(p, bd, i) EXCEPT !.PC = length + 1]
  PROVE  Means(l, bd, b, Arrived(n), length)
  <1>. DEFINE c == First(l, b)
  <1>1. /\ p.R[i.rs] = 0 /\ Operand(p, i) = c /\ Dest(i) = l.rd /\ c \in Words
    BY DEF Operands
  <1>2. l.op \in ComputeOps /\ l.op \notin TrapOps
    BY DEF ComputeOps, TrapOps
  <1>3. Low(0 + c) = c
    <2>1. 0 + c = c
      BY <1>1, WordBounds
    <2>. QED BY <1>1, <2>1, LowSmall
  <1>4. Effect(p, bd, i) = Set(p, l.rd, c)
    <2>1. i.op \in AddOps /\ i.op \notin {"add", "addi"}
      BY DEF AddOps
    <2>2. Effect(p, bd, i) = Add(p, i)
      BY <2>1, EffectKinds
    <2>. QED BY <1>1, <1>3, <2>1, <2>2 DEF Add
  <1>5. IsResult(l, bd, b, c)
    BY DEF IsResult, LoadLines
  <1>6. ~Overflows(l, b)
    BY DEF Overflows
  <1>. HIDE DEF c
  <1>. QED BY <1>1, <1>2, <1>4, <1>5, <1>6, ResultMeans

LEMMA MoveIfMeans ==
  ASSUME NEW l, l.op \in MoveIfOps, l.form = "reg",
         IntegerLine(l), NEW b, Fresh(b), NEW bd, NEW p, Same(p, b), p.R[l.rd] = b.R[l.rd],
         NEW length \in Nat, NEW i, i.op = l.op, i.rd = l.rd, p.R[i.rs] = First(l, b),
         p.R[i.rt] = Other(l, b), First(l, b) \in Words,
         NEW n, n = [Effect(p, bd, i) EXCEPT !.PC = length + 1]
  PROVE  Means(l, bd, b, Arrived(n), length)
  <1>. DEFINE a == First(l, b)
              o == Other(l, b)
  <1>1. l.op \in ComputeOps /\ l.op \notin TrapOps /\ ~Overflows(l, b) /\ ~TrapsOn(l, b)
    BY DEF ComputeOps, MoveIfOps, TrapOps, Overflows, TrapsOn
  <1>2. p.R[l.rd] = b.R[l.rd]
    OBVIOUS
  <1>3. Effect(p, bd, i) = IF (o # 0) = (l.op = "movn") THEN Set(p, l.rd, a) ELSE p
    BY EffectKinds DEF MoveIf
  <1>4. ASSUME NEW w, w = IF (o # 0) = (l.op = "movn") THEN a ELSE b.R[l.rd]
        PROVE  IsResult(l, bd, b, w)
    <2>. HIDE DEF a, o
    <2>1. /\ l.op = "movn" => w = IF o # 0 THEN a ELSE b.R[l.rd]
          /\ l.op = "movz" => w = IF o = 0 THEN a ELSE b.R[l.rd]
      BY <1>4
    <2>. QED BY <2>1 DEF IsResult, MoveIfOps, LoadLines, a, o
  <1>5. CASE (o # 0) = (l.op = "movn")
    <2>1. Effect(p, bd, i) = Set(p, l.rd, a) /\ IsResult(l, bd, b, a)
      BY <1>3, <1>4, <1>5
    <2>. HIDE DEF a
    <2>. QED BY <1>1, <2>1, ResultMeans DEF a
  <1>6. CASE ~((o # 0) = (l.op = "movn"))
    <2>1. Effect(p, bd, i) = p /\ IsResult(l, bd, b, p.R[l.rd])
      BY <1>2, <1>3, <1>4, <1>6
    <2>. QED BY <1>1, <2>1, StayMeans
  <1>. QED BY <1>5, <1>6

LEMMA MoveFromMeans ==
  ASSUME NEW l, l.op \in MoveFromOps,
         IntegerLine(l), NEW b, Fresh(b), NEW bd, NEW p, Same(p, b),
         NEW length \in Nat, NEW i, i.op = l.op, i.rd = l.rd,
         NEW n, n = [Effect(p, bd, i) EXCEPT !.PC = length + 1]
  PROVE  Means(l, bd, b, Arrived(n), length)
  <1>. DEFINE w == IF l.op = "mfhi" THEN b.HI ELSE b.LO
  <1>1. l.op \in ComputeOps /\ l.op \notin TrapOps /\ ~Overflows(l, b)
    BY DEF ComputeOps, MoveFromOps, TrapOps, Overflows
  <1>2. p.HI = b.HI /\ p.LO = b.LO /\ b.HI \in Words /\ b.LO \in Words
    BY DEF Same, Fresh, Machines
  <1>3. Effect(p, bd, i) = Set(p, l.rd, w) /\ w \in Words
    BY <1>2, EffectKinds DEF MoveFrom
  <1>4. IsResult(l, bd, b, w)
    <2>1. (l.op = "mfhi" => w = b.HI) /\ (l.op = "mflo" => w = b.LO)
      OBVIOUS
    <2>. HIDE DEF w
    <2>. QED BY <2>1 DEF IsResult, MoveFromOps, LoadLines
  <1>. HIDE DEF w
  <1>. QED BY <1>1, <1>3, <1>4, ResultMeans

\* Traps compare words as unsigned ones, or as numbers.
LEMMA TrapMeans ==
  ASSUME NEW l, l.op \in TrapOps, IntegerLine(l), NEW b, Fresh(b), NEW bd, NEW p, Same(p, b),
         NEW length \in Nat, NEW i, i.op = l.op,
         p.R[i.rs] = First(l, b), Operand(p, i) = Other(l, b),
         First(l, b) \in Words, Other(l, b) \in Words,
         NEW n, n = [Effect(p, bd, i) EXCEPT !.PC = length + 1]
  PROVE  Means(l, bd, b, Arrived(n), length)
  <1>. DEFINE a == First(l, b)
              c == Other(l, b)
              x == X(l, b)
              y == Y(l, b)
  <1>1. l.op \in ComputeOps /\ ~Overflows(l, b)
        /\ (l.op \in UnsignedOps <=> l.op \in {"tgeu", "tgeiu", "tltu", "tltiu"})
    BY DEF ComputeOps, TrapOps, Overflows, UnsignedOps
  <1>2. x = (IF l.op \in UnsignedOps THEN a ELSE Signed(a))
        /\ y = (IF l.op \in UnsignedOps THEN c ELSE Signed(c))
    BY DEF X, Y, Number
  <1>3. Signed(a) = Signed(c) <=> a = c
    <2>1. \A v \in Words : v \in Int /\ v >= 0 /\ v < Word /\ Word \in Int
                           /\ Signed(v) = IF v >= Word \div 2 THEN v - Word ELSE v
      BY WordBounds, Widths
    <2>. DEFINE H == Word \div 2
    <2>2. \A v \in Words : Signed(v) = IF v >= H THEN v - Word ELSE v
      BY <2>1
    <2>. HIDE DEF a, c, H
    <2>3. a \in Words /\ c \in Words
      BY DEF a, c
    <2>4. a \in Int /\ a >= 0 /\ a < Word /\ c \in Int /\ c >= 0 /\ c < Word /\ Word \in Int
      BY <2>1, <2>3
    <2>5. Signed(a) = (IF a >= H THEN a - Word ELSE a) /\ Signed(c) = (IF c >= H THEN c - Word ELSE c)
      BY <2>2, <2>3
    <2>6. H \in Int /\ Word = 2 * H
      BY Widths DEF H
    <2>. QED BY <2>4, <2>5, <2>6
  <1>4. TrapsOn(l, b) <=>
          \/ l.op \in {"teq", "teqi"}   /\ a = c
          \/ l.op \in {"tne", "tnei"}   /\ a # c
          \/ l.op \in {"tge", "tgei"}   /\ Signed(a) >= Signed(c)
          \/ l.op \in {"tlt", "tlti"}   /\ Signed(a) < Signed(c)
          \/ l.op \in {"tgeu", "tgeiu"} /\ a >= c
          \/ l.op \in {"tltu", "tltiu"} /\ a < c
    <2>. HIDE DEF a, c, x, y
    <2>1. TrapsOn(l, b) <=>
            \/ l.op \in {"teq", "teqi"} /\ x = y
            \/ l.op \in {"tne", "tnei"} /\ x # y
            \/ l.op \in {"tge", "tgei", "tgeu", "tgeiu"} /\ x >= y
            \/ l.op \in {"tlt", "tlti", "tltu", "tltiu"} /\ x < y
      BY DEF TrapsOn, TrapOps, x, y
    <2>. QED BY <1>1, <1>2, <1>3, <2>1 DEF TrapOps
  <1>5. Effect(p, bd, i) = IF TrapsOn(l, b) THEN Raise(p, "Tr") ELSE p
    <2>1. Effect(p, bd, i) = Trap(p, i)
      BY EffectKinds
    <2>. QED BY <1>4, <2>1 DEF Trap
  <1>. HIDE DEF a, c, x, y
  <1>6. CASE TrapsOn(l, b)
    BY <1>1, <1>5, <1>6, RaiseMeans
  <1>7. CASE ~TrapsOn(l, b)
    BY <1>1, <1>5, <1>7, StayMeans
  <1>. QED BY <1>6, <1>7

\* The instruction i of the machine p finds what the line l names in b.
Finds(i, l, p, b) ==
  LET operands == Operands(i, p, First(l, b), Other(l, b), l.rd)
  IN
  \/ /\ l.op \in AddOps /\ i.op \in AddOps /\ operands
     /\ i.op \in {"add", "addi"} <=> l.op \in {"add", "addi"}
  \/ l.op \in SubOps /\ i.op = l.op /\ operands
  \/ /\ l.op \in {"neg", "negu"} /\ i.op = IF l.op = "neg" THEN "sub" ELSE "subu"
     /\ Operands(i, p, 0, First(l, b), l.rd)
  \/ l.op = "move" /\ i.op = "addu" /\ Operands(i, p, 0, First(l, b), l.rd)
  \/ /\ l.op \in SetOps /\ i.op \in SetLessOps
     /\ i.op \in {"slt", "slti"} <=> l.op \in {"slt", "slti", "sgt"}
     /\ IF l.op \in {"sgt", "sgtu"} THEN Operands(i, p, Other(l, b), First(l, b), l.rd) ELSE operands
  \/ l.op \in MoveIfOps /\ i.op = l.op /\ l.form = "reg" /\ p.R[l.rd] = b.R[l.rd] /\ operands
  \/ l.op \in MoveFromOps /\ i.op = l.op /\ i.rd = l.rd
  \/ /\ l.op \in TrapOps /\ i.op = l.op
     /\ Operands(i, p, First(l, b), Other(l, b), Dest(i))

LEMMA FindsMeans ==
  ASSUME NEW l, IntegerLine(l), NEW b, Fresh(b), NEW bd, NEW p, Same(p, b),
         NEW length \in Nat, NEW i, Finds(i, l, p, b),
         NEW n, n = [Effect(p, bd, i) EXCEPT !.PC = length + 1]
  PROVE  Means(l, bd, b, Arrived(n), length)
  <1>1. CASE /\ l.op \in AddOps /\ i.op \in AddOps /\ (i.op \in {"add", "addi"} <=> l.op \in {"add", "addi"})
             /\ Operands(i, p, First(l, b), Other(l, b), l.rd)
    BY <1>1, AddMeans
  <1>2. CASE l.op \in SubOps /\ i.op = l.op /\ Operands(i, p, First(l, b), Other(l, b), l.rd)
    BY <1>2, SubMeans
  <1>3. CASE /\ l.op \in {"neg", "negu"} /\ i.op = IF l.op = "neg" THEN "sub" ELSE "subu"
             /\ Operands(i, p, 0, First(l, b), l.rd)
    BY <1>3, NegMeans
  <1>4. CASE l.op = "move" /\ i.op = "addu" /\ Operands(i, p, 0, First(l, b), l.rd)
    BY <1>4, MoveMeans
  <1>5. CASE /\ l.op \in SetOps /\ i.op \in SetLessOps
             /\ (i.op \in {"slt", "slti"} <=> l.op \in {"slt", "slti", "sgt"})
             /\ IF l.op \in {"sgt", "sgtu"} THEN Operands(i, p, Other(l, b), First(l, b), l.rd)
                ELSE Operands(i, p, First(l, b), Other(l, b), l.rd)
    <2>. DEFINE a == IF l.op \in {"sgt", "sgtu"} THEN Other(l, b) ELSE First(l, b)
                c == IF l.op \in {"sgt", "sgtu"} THEN First(l, b) ELSE Other(l, b)
    <2>1. Operands(i, p, a, c, l.rd)
      BY <1>5
    <2>2. IF l.op \in {"sgt", "sgtu"} THEN a = Other(l, b) /\ c = First(l, b)
                                      ELSE a = First(l, b) /\ c = Other(l, b)
      OBVIOUS
    <2>. HIDE DEF a, c
    <2>. QED BY <1>5, <2>1, <2>2, LessMeans
  <1>6. CASE /\ l.op \in MoveIfOps /\ i.op = l.op /\ l.form = "reg" /\ p.R[l.rd] = b.R[l.rd]
             /\ Operands(i, p, First(l, b), Other(l, b), l.rd)
    <2>1. i.op \notin Arithmetic /\ i.op \notin Logical
      BY <1>6 DEF MoveIfOps, Arithmetic, Logical
    <2>2. /\ i.rd = l.rd /\ p.R[i.rs] = First(l, b) /\ p.R[i.rt] = Other(l, b)
          /\ First(l, b) \in Words
      BY <1>6, <2>1, OnRegisterFields DEF Operands
    <2>. QED BY <1>6, <2>2, MoveIfMeans
  <1>7. CASE l.op \in MoveFromOps /\ i.op = l.op /\ i.rd = l.rd
    BY <1>7, MoveFromMeans
  <1>8. CASE l.op \in TrapOps /\ i.op = l.op /\ Operands(i, p, First(l, b), Other(l, b), Dest(i))
    BY <1>8, TrapMeans DEF Operands
  <1>. QED BY <1>1, <1>2, <1>3, <1>4, <1>5, <1>6, <1>7, <1>8 DEF Finds

\* i is the last instruction of the code c of a line, and the machine p is
\* where it finds it.
Due(p, i, b, bd, c, n) ==
  /\ Same(p, b) /\ Len(c) \in Nat /\ p.PC = Len(c) /\ c[Len(c)] = i /\ Runs(p, bd, c, n)

DoneBy(n, p, bd, i, length) == n = [Effect(p, bd, i) EXCEPT !.PC = length + 1]

LEMMA DueEnds ==
  ASSUME NEW b, NEW bd, NEW c, NEW n, Over(n, c), NEW i \in Straight, i.op # "fatal_error",
         NEW p, Due(p, i, b, bd, c, n)
  PROVE  Same(p, b) /\ Len(c) \in Nat /\ DoneBy(n, p, bd, i, Len(c))
  <1>1. Clean(p) /\ p.exception = "none" /\ p \in Machines
    BY DEF Due, Same, Clean
  <1>2. i.op \notin BranchOps /\ Effect(p, bd, i) \in Machines
    BY <1>1, Apart, EffectType DEF Straight
  <1>3. c[p.PC] = i /\ p.PC = Len(c) /\ Len(c) \in Nat /\ Runs(p, bd, c, n)
    BY DEF Due
  <1>4. n = [Effect(p, bd, c[p.PC]) EXCEPT !.PC = Len(c) + 1]
    <2>1. c[p.PC].op \notin BranchOps /\ Effect(p, bd, c[p.PC]) \in Machines
      BY <1>2, <1>3
    <2>. QED BY <1>1, <1>3, <2>1, LastStep
  <1>. QED BY <1>3, <1>4 DEF Due, DoneBy

LEMMA RegisterInst ==
  ASSUME NEW op \in IntegerOps, NEW rd \in Registers, NEW rs \in Registers, NEW rt \in Registers
  PROVE  /\ r_type_inst(op, rd, rs, rt) = <<Inst(op, rd, rs, rt, 0, "none")>>
         /\ Inst(op, rd, rs, rt, 0, "none") \in Straight
         /\ Patched(<<Inst(op, rd, rs, rt, 0, "none")>>) = <<Inst(op, rd, rs, rt, 0, "none")>>
         /\ op # "fatal_error"
  <1>. DEFINE i == Inst(op, rd, rs, rt, 0, "none")
  <1>1. r_type_inst(op, rd, rs, rt) = <<i>>
    BY DEF r_type_inst, Instr, Inst
  <1>2. i.bits = "none"
    BY DEF Inst
  <1>3. <<i>> \in Seq(Straight)
    BY <1>1, RTypeBlock DEF Block
  <1>4. op # "fatal_error"
    BY DEF IntegerOps, AddOps, SubOps, AndOps, OrOps, XorOps, LeadingOps, SetLessOps,
       ShiftLeftOps, ShiftRightOps, MoveIfOps, TrapOps, MultiplyOps, MultiplyAddOps,
       MultiplySubOps, DivideOps, MoveFromOps, MoveToOps, LoadOps, StoreOps
  <1>. HIDE DEF i
  <1>5. i \in Straight
    <2>1. 1 \in 1 .. Len(<<i>>) /\ <<i>>[1] = i
      OBVIOUS
    <2>. QED BY <1>3, <2>1
  <1>6. Patched(<<i>>) = <<i>>
    BY <1>2, PatchedKnown
  <1>. QED BY <1>1, <1>4, <1>5, <1>6 DEF i

\* Lines that are one instruction on registers.
RegisterOps == {"add", "addu", "slt", "sltu", "sgt", "sgtu", "neg", "negu", "move"}
                 \cup SubOps \cup MoveIfOps \cup MoveFromOps \cup (TrapOps \ Arithmetic)
OpOf(l) == IF l.op = "neg" THEN "sub" ELSE IF l.op = "negu" THEN "subu"
           ELSE IF l.op = "move" THEN "addu" ELSE IF l.op = "sgt" THEN "slt"
           ELSE IF l.op = "sgtu" THEN "sltu" ELSE l.op
RegisterInstOf(l) ==
  Inst(OpOf(l), IF l.op \in TrapOps THEN 0 ELSE l.rd,
       IF l.op \in {"neg", "negu", "move"} \cup MoveFromOps THEN 0
       ELSE IF l.op \in {"sgt", "sgtu"} THEN l.rt ELSE l.rs,
       IF l.op \in MoveFromOps THEN 0
       ELSE IF l.op \in {"neg", "negu", "move", "sgt", "sgtu"} THEN l.rs ELSE l.rt, 0, "none")

LEMMA ComputeOpsApart ==
  ASSUME NEW op \in ComputeOps
  PROVE  /\ op \notin FloatLines /\ op \notin LoadLines \cup StoreLines /\ op \notin Branches
         /\ op \in TrapOps <=> op \in Branches \cup TrapOps
  <1>. USE DEF ComputeOps, AddOps, SubOps, SetOps, MoveIfOps, MoveFromOps, TrapOps
  <1>1. op \notin LoadLines \cup StoreLines /\ op \notin Branches
    BY DEF LoadLines, StoreLines, Branches
  <1>2. /\ op \notin FloatMoves /\ op \notin MoveOnOps /\ op \notin CompareOps
        /\ op \notin ConditionBranches /\ op \notin CoprocessorMoves
        /\ op \notin FloatLoadStore /\ op \notin {"l.s", "l.d", "s.s", "s.d"}
        /\ op \notin {"li.s", "li.d", "mfc1", "mtc1", "mfc1.d", "mtc1.d"}
    BY DEF FloatMoves, MoveOnOps, CompareOps, ConditionBranches, CoprocessorMoves, FloatLoadStore
  <1>3. op \notin FloatLines
    BY <1>2 DEF FloatLines, FloatMemory, FloatLoadLines, FloatStoreLines, FloatLoadStore
  <1>. QED BY <1>1, <1>3

\* The rule of the grammar that reads a line of ComputeOps.
LEMMA ComputeRule ==
  ASSUME NEW l, l.op \in ComputeOps
  PROVE  /\ l.op \in {"li", "la"} => ASM_CODE(l) = LoadImmediateLine(l)
         /\ l.op \in AddOps \cup SetLessOps => ASM_CODE(l) = BinaryLine(l)
         /\ l.op \in SubOps => ASM_CODE(l) = SubLine(l)
         /\ l.op \in {"sgt", "sgtu"} => ASM_CODE(l) = SetLine(l)
         /\ l.op \in {"neg", "negu", "move"} \cup MoveIfOps \cup MoveFromOps => ASM_CODE(l) = MoveLine(l)
         /\ l.op \in TrapOps => ASM_CODE(l) = TrapLine(l)
  <1>1. ASM_CODE(l) = IF l.op \in TrapOps THEN ControlLine(l) ELSE ComputeLine(l)
    BY ComputeOpsApart DEF ASM_CODE
  <1>2. ASSUME l.op \in TrapOps PROVE ASM_CODE(l) = TrapLine(l)
    <2>1. /\ l.op \notin {"bgt", "bgtu"} /\ l.op \notin {"bge", "bgeu", "blt", "bltu"}
          /\ l.op \notin {"ble", "bleu"} /\ l.op \notin JumpOps /\ l.op \notin BranchLines
      BY <1>2 DEF TrapOps, JumpOps, BranchLines, BranchOps, Likely, LinkOps, ConditionBranches
    <2>2. ControlLine(l) = TrapLine(l)
      BY <1>2, <2>1, Zenon DEF ControlLine
    <2>. QED BY <1>1, <1>2, <2>2
  <1>3. ASSUME l.op \in {"li", "la"} \cup AddOps \cup SetLessOps \cup SubOps \cup {"sgt", "sgtu"}
                          \cup {"neg", "negu", "move"} \cup MoveIfOps \cup MoveFromOps
        PROVE  /\ l.op \notin TrapOps
               /\ l.op \in {"li", "la", "lui"} <=> l.op \in {"li", "la"}
               /\ l.op \in BinaryLines <=> l.op \in AddOps \cup SetLessOps
               /\ l.op \in SetLines <=> l.op \in {"sgt", "sgtu"}
               /\ l.op \in MoveLines <=> l.op \in {"neg", "negu", "move"} \cup MoveIfOps \cup MoveFromOps
               /\ l.op \notin ShiftLines /\ l.op # "nor"
               /\ l.op \notin {"div", "divu", "rem", "remu"} /\ l.op \notin {"mulo", "mulou"}
               /\ l.op \notin HardwareLines /\ l.op \notin {"rol", "ror"}
               /\ l.op \in {"li", "la"} => l.op \notin BinaryLines \cup SetLines \cup MoveLines \cup SubOps
               /\ l.op \in SubOps => l.op \notin BinaryLines \cup SetLines \cup MoveLines
               /\ l.op \in BinaryLines => l.op \notin SetLines \cup MoveLines
               /\ l.op \in SetLines => l.op \notin MoveLines
    BY <1>3 DEF AddOps, SetLessOps, SubOps, MoveIfOps, MoveFromOps, TrapOps, BinaryLines, SetLines,
       MoveLines, ShiftLines, ShiftLeftOps, ShiftRightOps, HardwareLines, MultiplyOps, MultiplyAddOps,
       MultiplySubOps, Logical, LeadingOps, MoveToOps
  <1>4. ASSUME l.op \in {"li", "la"} PROVE ASM_CODE(l) = LoadImmediateLine(l)
    <2>1. ComputeLine(l) = LoadImmediateLine(l)
      BY <1>3, <1>4, Zenon DEF ComputeLine
    <2>. QED BY <1>1, <1>3, <1>4, <2>1
  <1>5. ASSUME l.op \in AddOps \cup SetLessOps PROVE ASM_CODE(l) = BinaryLine(l)
    <2>1. ComputeLine(l) = BinaryLine(l)
      BY <1>3, <1>5, Zenon DEF ComputeLine
    <2>. QED BY <1>1, <1>3, <1>5, <2>1
  <1>6. ASSUME l.op \in SubOps PROVE ASM_CODE(l) = SubLine(l)
    <2>1. ComputeLine(l) = SubLine(l)
      BY <1>3, <1>6, Zenon DEF ComputeLine
    <2>. QED BY <1>1, <1>3, <1>6, <2>1
  <1>7. ASSUME l.op \in {"sgt", "sgtu"} PROVE ASM_CODE(l) = SetLine(l)
    <2>1. ComputeLine(l) = SetLine(l)
      BY <1>3, <1>7, Zenon DEF ComputeLine
    <2>. QED BY <1>1, <1>3, <1>7, <2>1
  <1>8. ASSUME l.op \in {"neg", "negu", "move"} \cup MoveIfOps \cup MoveFromOps
        PROVE  ASM_CODE(l) = MoveLine(l)
    <2>1. ComputeLine(l) = MoveLine(l)
      BY <1>3, <1>8, Zenon DEF ComputeLine
    <2>. QED BY <1>1, <1>3, <1>8, <2>1
  <1>. QED BY <1>2, <1>4, <1>5, <1>6, <1>7, <1>8

LEMMA RegisterCode ==
  ASSUME NEW l, l.op \in RegisterOps, l.form = "reg", IntegerLine(l)
  PROVE  /\ ASM_CODE(l) = <<RegisterInstOf(l)>> /\ Patched(ASM_CODE(l)) = ASM_CODE(l)
         /\ RegisterInstOf(l) \in Straight /\ RegisterInstOf(l).op # "fatal_error"
         /\ l.op \in ComputeOps
  <1>. DEFINE i == RegisterInstOf(l)
  <1>1. l.op \in ComputeOps /\ OpOf(l) \in IntegerOps
    BY DEF RegisterOps, ComputeOps, AddOps, SetOps, SubOps, MoveIfOps, MoveFromOps, TrapOps,
       IntegerOps, SetLessOps, OpOf
  <1>2. l.rd \in Registers /\ l.rs \in Registers /\ l.rt \in Registers /\ 0 \in Registers
    BY SmallRegisters DEF IntegerLine
  <1>3. PICK rd \in Registers, rs \in Registers, rt \in Registers :
          /\ i = Inst(OpOf(l), rd, rs, rt, 0, "none")
          /\ rd = IF l.op \in TrapOps THEN 0 ELSE l.rd
          /\ rs = IF l.op \in {"neg", "negu", "move"} \cup MoveFromOps THEN 0
                  ELSE IF l.op \in {"sgt", "sgtu"} THEN l.rt ELSE l.rs
          /\ rt = IF l.op \in MoveFromOps THEN 0
                  ELSE IF l.op \in {"neg", "negu", "move", "sgt", "sgtu"} THEN l.rs ELSE l.rt
    BY <1>2 DEF RegisterInstOf
  <1>4. /\ r_type_inst(OpOf(l), rd, rs, rt) = <<i>> /\ i \in Straight
        /\ Patched(<<i>>) = <<i>> /\ OpOf(l) # "fatal_error" /\ i.op = OpOf(l)
    <2>1. i.op = OpOf(l)
      BY <1>3 DEF Inst
    <2>. QED BY <1>1, <1>3, <2>1, RegisterInst
  <1>. HIDE DEF i
  <1>5. ASM_CODE(l) = r_type_inst(OpOf(l), rd, rs, rt)
    <2>1. CASE l.op \in {"add", "addu", "slt", "sltu"}
      <3>1. /\ l.op \in AddOps \cup SetLessOps /\ OpOf(l) = l.op /\ l.op \notin TrapOps
            /\ l.op \notin MoveFromOps
        BY <2>1 DEF AddOps, SetLessOps, OpOf, TrapOps, MoveFromOps
      <3>2. rd = l.rd /\ rs = l.rs /\ rt = l.rt
        BY <1>3, <2>1, <3>1
      <3>. QED BY <1>1, <3>1, <3>2, ComputeRule DEF BinaryLine
    <2>2. CASE l.op \in SubOps
      <3>1. /\ OpOf(l) = l.op /\ l.op \notin TrapOps /\ l.op \notin MoveFromOps
            /\ l.op \notin {"neg", "negu", "move", "sgt", "sgtu"}
        BY <2>2 DEF SubOps, OpOf, TrapOps, MoveFromOps
      <3>2. rd = l.rd /\ rs = l.rs /\ rt = l.rt
        BY <1>3, <3>1
      <3>. QED BY <1>1, <2>2, <3>1, <3>2, ComputeRule DEF SubLine
    <2>3. CASE l.op \in {"sgt", "sgtu"}
      <3>1. /\ OpOf(l) = (IF l.op = "sgt" THEN "slt" ELSE "sltu")
            /\ l.op \notin TrapOps /\ l.op \notin MoveFromOps
        BY <2>3 DEF OpOf, TrapOps, MoveFromOps
      <3>2. rd = l.rd /\ rs = l.rt /\ rt = l.rs
        BY <1>3, <2>3, <3>1
      <3>3. InRegister(l) = <<>> /\ Second(l) = l.rt
        BY DEF InRegister, Second
      <3>4. set_gt_inst(l.op, l.rd, l.rs, l.rt) = <<i>>
        BY <1>4, <3>1, <3>2 DEF set_gt_inst
      <3>5. /\ l.op \notin {"sle", "sleu"} /\ l.op \notin {"sge", "sgeu"} /\ l.op \notin {"seq", "sne"}
        BY <2>3
      <3>6. SetLine(l) = <<>> \o set_gt_inst(l.op, l.rd, l.rs, l.rt)
        BY <2>3, <3>3, <3>5, Zenon DEF SetLine
      <3>7. SetLine(l) = <<i>>
        BY <3>4, <3>6
      <3>. QED BY <1>1, <1>4, <2>3, <3>7, ComputeRule
    <2>4. CASE l.op \in {"neg", "negu", "move"}
      <3>1. /\ OpOf(l) = (IF l.op = "neg" THEN "sub" ELSE IF l.op = "negu" THEN "subu" ELSE "addu")
            /\ l.op \notin TrapOps /\ l.op \notin MoveFromOps /\ l.op \notin MoveIfOps
            /\ l.op \notin LeadingOps /\ l.op \notin MoveToOps /\ l.op # "abs" /\ l.op # "not"
        BY <2>4 DEF OpOf, TrapOps, MoveFromOps, MoveIfOps, LeadingOps, MoveToOps
      <3>2. rd = l.rd /\ rs = 0 /\ rt = l.rs
        BY <1>3, <2>4, <3>1
      <3>3. CASE l.op = "neg"
        <4>1. MoveLine(l) = r_type_inst("sub", l.rd, 0, l.rs)
          BY <3>1, <3>3, Zenon DEF MoveLine
        <4>. QED BY <1>1, <3>1, <3>2, <3>3, <4>1, ComputeRule
      <3>4. CASE l.op = "negu"
        <4>1. MoveLine(l) = r_type_inst("subu", l.rd, 0, l.rs)
          BY <3>1, <3>4, Zenon DEF MoveLine
        <4>. QED BY <1>1, <3>1, <3>2, <3>4, <4>1, ComputeRule
      <3>5. CASE l.op = "move"
        <4>1. MoveLine(l) = r_type_inst("addu", l.rd, 0, l.rs)
          BY <3>1, <3>5, Zenon DEF MoveLine
        <4>. QED BY <1>1, <3>1, <3>2, <3>5, <4>1, ComputeRule
      <3>. QED BY <2>4, <3>3, <3>4, <3>5
    <2>5. CASE l.op \in MoveIfOps
      <3>1. /\ OpOf(l) = l.op /\ l.op \notin TrapOps /\ l.op \notin MoveFromOps
            /\ l.op \notin {"neg", "negu", "move", "sgt", "sgtu"}
            /\ l.op \notin LeadingOps /\ l.op \notin MoveToOps /\ l.op # "abs" /\ l.op # "not"
            /\ l.op # "neg" /\ l.op # "negu" /\ l.op # "move"
        BY <2>5 DEF OpOf, TrapOps, MoveFromOps, MoveIfOps, LeadingOps, MoveToOps
      <3>2. rd = l.rd /\ rs = l.rs /\ rt = l.rt
        BY <1>3, <3>1
      <3>3. MoveLine(l) = r_type_inst(l.op, l.rd, l.rs, l.rt)
        BY <2>5, <3>1, Zenon DEF MoveLine
      <3>. QED BY <1>1, <2>5, <3>1, <3>2, <3>3, ComputeRule
    <2>6. CASE l.op \in MoveFromOps
      <3>1. /\ OpOf(l) = l.op /\ l.op \notin TrapOps /\ l.op \notin MoveIfOps
            /\ l.op \notin LeadingOps /\ l.op \notin MoveToOps /\ l.op # "abs" /\ l.op # "not"
            /\ l.op # "neg" /\ l.op # "negu" /\ l.op # "move"
        BY <2>6 DEF OpOf, TrapOps, MoveFromOps, MoveIfOps, LeadingOps, MoveToOps
      <3>2. rd = l.rd /\ rs = 0 /\ rt = 0
        BY <1>3, <2>6, <3>1
      <3>3. MoveLine(l) = r_type_inst(l.op, l.rd, 0, 0)
        BY <2>6, <3>1, Zenon DEF MoveLine
      <3>. QED BY <1>1, <2>6, <3>1, <3>2, <3>3, ComputeRule
    <2>7. CASE l.op \in TrapOps \ Arithmetic
      <3>1. /\ OpOf(l) = l.op /\ l.op \notin MoveFromOps
            /\ l.op \notin {"neg", "negu", "move", "sgt", "sgtu"}
        BY <2>7 DEF OpOf, TrapOps, MoveFromOps
      <3>2. rd = 0 /\ rs = l.rs /\ rt = l.rt
        BY <1>3, <2>7, <3>1
      <3>. QED BY <1>1, <2>7, <3>1, <3>2, ComputeRule DEF TrapLine
    <2>. QED BY <2>1, <2>2, <2>3, <2>4, <2>5, <2>6, <2>7 DEF RegisterOps
  <1>. QED BY <1>1, <1>4, <1>5 DEF i

OnRegistersOnly(l) == l.op \in RegisterOps /\ l.form = "reg"

LEMMA RegisterFinds ==
  ASSUME NEW l, OnRegistersOnly(l), IntegerLine(l), NEW b, Fresh(b)
  PROVE  Finds(RegisterInstOf(l), l, b, b)
  <1>. DEFINE i == RegisterInstOf(l)
  <1>0. l.op \in RegisterOps /\ l.form = "reg"
    BY DEF OnRegistersOnly
  <1>1. /\ i.op = OpOf(l) /\ i.rd = (IF l.op \in TrapOps THEN 0 ELSE l.rd)
        /\ i.rs = (IF l.op \in {"neg", "negu", "move"} \cup MoveFromOps THEN 0
                   ELSE IF l.op \in {"sgt", "sgtu"} THEN l.rt ELSE l.rs)
        /\ i.rt = (IF l.op \in MoveFromOps THEN 0
                   ELSE IF l.op \in {"neg", "negu", "move", "sgt", "sgtu"} THEN l.rs ELSE l.rt)
    BY DEF RegisterInstOf, Inst
  <1>. HIDE DEF i
  <1>2. /\ First(l, b) = b.R[l.rs] /\ Other(l, b) = b.R[l.rt] /\ b.R[0] = 0
        /\ First(l, b) \in Words /\ Other(l, b) \in Words /\ 0 \in Words
    <2>1. First(l, b) = b.R[l.rs] /\ Other(l, b) = b.R[l.rt]
      BY <1>0 DEF First, Other
    <2>2. b.R \in [Registers -> Words] /\ b.R[0] = 0
      BY DEF Fresh, Machines
    <2>. QED BY <2>1, <2>2, SmallRegisters DEF IntegerLine
  <1>3. OpOf(l) \notin Arithmetic /\ OpOf(l) \notin Logical
    BY <1>0 DEF RegisterOps, OpOf, Arithmetic, Logical, SubOps, MoveIfOps, MoveFromOps, TrapOps
  <1>4. Operand(b, i) = b.R[i.rt] /\ Dest(i) = i.rd
    BY <1>1, <1>3, OnRegisterFields
  <1>5. CASE l.op \in {"add", "addu"}
    <2>1. OpOf(l) = l.op /\ l.op \in AddOps /\ l.op \notin TrapOps /\ l.op \notin MoveFromOps
      BY <1>5 DEF OpOf, AddOps, TrapOps, MoveFromOps
    <2>2. Operands(i, b, First(l, b), Other(l, b), l.rd)
      BY <1>1, <1>2, <1>4, <1>5, <2>1 DEF Operands
    <2>. QED BY <1>1, <2>1, <2>2 DEF Finds, i
  <1>6. CASE l.op \in SubOps
    <2>1. /\ OpOf(l) = l.op /\ l.op \notin TrapOps /\ l.op \notin MoveFromOps
          /\ l.op \notin {"neg", "negu", "move", "sgt", "sgtu"}
      BY <1>6 DEF OpOf, SubOps, TrapOps, MoveFromOps
    <2>2. Operands(i, b, First(l, b), Other(l, b), l.rd)
      BY <1>1, <1>2, <1>4, <2>1 DEF Operands
    <2>. QED BY <1>1, <1>6, <2>1, <2>2 DEF Finds, i
  <1>7. CASE l.op \in {"neg", "negu"}
    <2>1. /\ OpOf(l) = (IF l.op = "neg" THEN "sub" ELSE "subu")
          /\ l.op \notin TrapOps /\ l.op \notin MoveFromOps
      BY <1>7 DEF OpOf, TrapOps, MoveFromOps
    <2>2. Operands(i, b, 0, First(l, b), l.rd)
      BY <1>1, <1>2, <1>4, <1>7, <2>1 DEF Operands
    <2>. QED BY <1>1, <1>7, <2>1, <2>2 DEF Finds, i
  <1>8. CASE l.op = "move"
    <2>1. OpOf(l) = "addu" /\ l.op \notin TrapOps /\ l.op \notin MoveFromOps
      BY <1>8 DEF OpOf, TrapOps, MoveFromOps
    <2>2. Operands(i, b, 0, First(l, b), l.rd)
      BY <1>1, <1>2, <1>4, <1>8, <2>1 DEF Operands
    <2>. QED BY <1>1, <1>8, <2>1, <2>2 DEF Finds, i
  <1>9. CASE l.op \in {"slt", "sltu"}
    <2>1. /\ OpOf(l) = l.op /\ l.op \in SetOps /\ l.op \in SetLessOps /\ l.op \notin TrapOps
          /\ l.op \notin MoveFromOps /\ l.op \notin {"sgt", "sgtu"}
          /\ (OpOf(l) \in {"slt", "slti"} <=> l.op \in {"slt", "slti", "sgt"})
      BY <1>9 DEF OpOf, SetOps, SetLessOps, TrapOps, MoveFromOps
    <2>2. Operands(i, b, First(l, b), Other(l, b), l.rd)
      BY <1>1, <1>2, <1>4, <1>9, <2>1 DEF Operands
    <2>. QED BY <1>1, <2>1, <2>2 DEF Finds, i
  <1>10. CASE l.op \in {"sgt", "sgtu"}
    <2>1. /\ OpOf(l) = (IF l.op = "sgt" THEN "slt" ELSE "sltu") /\ l.op \in SetOps
          /\ OpOf(l) \in SetLessOps /\ l.op \notin TrapOps /\ l.op \notin MoveFromOps
          /\ (OpOf(l) \in {"slt", "slti"} <=> l.op \in {"slt", "slti", "sgt"})
      BY <1>10 DEF OpOf, SetOps, SetLessOps, TrapOps, MoveFromOps
    <2>2. Operands(i, b, Other(l, b), First(l, b), l.rd)
      BY <1>1, <1>2, <1>4, <1>10, <2>1 DEF Operands
    <2>. QED BY <1>1, <1>10, <2>1, <2>2 DEF Finds, i
  <1>11. CASE l.op \in MoveIfOps
    <2>1. /\ OpOf(l) = l.op /\ l.op \notin TrapOps /\ l.op \notin MoveFromOps
          /\ l.op \notin {"neg", "negu", "move", "sgt", "sgtu"}
      BY <1>11 DEF OpOf, MoveIfOps, TrapOps, MoveFromOps
    <2>2. Operands(i, b, First(l, b), Other(l, b), l.rd)
      BY <1>1, <1>2, <1>4, <2>1 DEF Operands
    <2>. QED BY <1>0, <1>1, <1>11, <2>1, <2>2 DEF Finds, OnRegistersOnly, i
  <1>12. CASE l.op \in MoveFromOps
    <2>1. OpOf(l) = l.op /\ l.op \notin TrapOps
      BY <1>12 DEF OpOf, TrapOps, MoveFromOps
    <2>. QED BY <1>1, <1>12, <2>1 DEF Finds, i
  <1>13. CASE l.op \in TrapOps \ Arithmetic
    <2>1. /\ OpOf(l) = l.op /\ l.op \notin MoveFromOps
          /\ l.op \notin {"neg", "negu", "move", "sgt", "sgtu"}
      BY <1>13 DEF OpOf, TrapOps, MoveFromOps
    <2>2. Operands(i, b, First(l, b), Other(l, b), Dest(i))
      BY <1>1, <1>2, <1>4, <2>1 DEF Operands
    <2>. QED BY <1>1, <1>13, <2>1, <2>2 DEF Finds, i
  <1>. QED BY <1>0, <1>5, <1>6, <1>7, <1>8, <1>9, <1>10, <1>11, <1>12, <1>13 DEF RegisterOps

LEMMA RegisterMeans ==
  ASSUME NEW l, OnRegistersOnly(l), IntegerLine(l), NEW b, Fresh(b), NEW bd,
         NEW c, c = Patched(ASM_CODE(l)), NEW n, Runs(b, bd, c, n), Over(n, c)
  PROVE  Means(l, bd, b, Arrived(n), Len(c))
  <1>0. PICK i : i = RegisterInstOf(l)
    OBVIOUS
  <1>1. c = <<i>> /\ i \in Straight /\ i.op # "fatal_error"
    BY <1>0, RegisterCode DEF OnRegistersOnly
  <1>2. Finds(i, l, b, b)
    BY <1>0, RegisterFinds
  <1>3. Len(c) = 1 /\ c[1] = i
    BY <1>1
  <1>4. Due(b, i, b, bd, c, n)
    BY <1>3, FreshSame DEF Due
  <1>5. Same(b, b) /\ Len(c) \in Nat /\ DoneBy(n, b, bd, i, Len(c))
    BY <1>1, <1>4, DueEnds
  <1>. QED BY <1>2, <1>5, FindsMeans DEF DoneBy

\* From any registers, in the range of the results and beyond it: an addition,
\* a subtraction, a negation, a comparison, a conditional move, a move, a move
\* from HI or LO or a trap on registers leaves the result it promises, raises
\* overflow exactly when the sum of the numbers is out of range, traps exactly
\* when its condition holds, and changes nothing else.
THEOREM RegisterLinesMeanWhatTheySay == Spec => [](OnRegistersOnly(line) => MeansWhatItSays)
  <1>1. LineInv => (OnRegistersOnly(line) => MeansWhatItSays)
    <2>. SUFFICES ASSUME LineInv, OnRegistersOnly(line) PROVE MeansWhatItSays
      OBVIOUS
    <2>0. line.op \in RegisterOps /\ line.form = "reg" /\ line.op \in ComputeOps
      BY DEF OnRegistersOnly, RegisterOps, ComputeOps, AddOps, SubOps, SetOps, MoveIfOps,
             MoveFromOps, TrapOps
    <2>1. line.op \notin FloatLines /\ IntegerLine(line)
      <3>1. LineOK(line) /\ line.op \notin FloatLines
        BY <2>0, LinesOK, ComputeOpsApart DEF LineInv, TypeInv
      <3>2. line.op \notin FloatMoves \cup CompareOps \cup {"mfc1", "mfc1.d"}
        BY <3>1 DEF FloatLines
      <3>. QED BY <3>1, <3>2 DEF LineOK, IntegerLine, Destinations, Sources
    <2>2. stage # "fatal"
      BY <2>0, <2>1, RegisterCode DEF LineInv
    <2>3. ASSUME stage = "run", Ended PROVE Means(line, build, before, Settled, Len(code))
      <3>1. /\ code = Patched(ASM_CODE(line)) /\ Runs(before, build, code, m)
            /\ Over(m, code) /\ Fresh(before)
        BY <2>3 DEF LineInv, Over, Ended
      <3>2. Means(line, build, before, Arrived(m), Len(code))
        BY <2>1, <3>1, RegisterMeans
      <3>. QED BY <3>2 DEF Settled, Arrived
    <2>. QED BY <2>1, <2>2, <2>3 DEF MeansWhatItSays
  <1>2. Init => LineInv
    BY LineInit
  <1>3. LineInv /\ [Next]_vars => LineInv'
    BY LineStep
  <1>. QED BY <1>1, <1>2, <1>3, PTL DEF Spec

-----------------------------------------------------------------------------
(***************************************************************************)
(* Bringing an immediate into a register.                                  *)
(***************************************************************************)
Hi(v) == Short(Low(v) \div Half)
Lo(v) == Short(Low(v) % Half)
LuiOf(rt, v)     == Inst("lui", 0, 0, rt, Hi(v), "none")
OriOf(rt, rs, v) == Inst("ori", 0, rs, rt, Lo(v), "none")

\* The code c leaves v in rt; and in $at, for the instruction z.
Produces(c, rt, v) ==
  \/ c = <<LuiOf(rt, v)>> /\ Low(v) % Half = 0
  \/ c = <<OriOf(rt, 0, v)>> /\ Low(v) < Half
  \/ c = <<LuiOf(at, v), OriOf(rt, at, v)>>
ProducesFor(c, z, v) ==
  \/ c = <<LuiOf(at, v), z>> /\ Low(v) % Half = 0
  \/ c = <<OriOf(at, 0, v), z>> /\ Low(v) < Half
  \/ c = <<LuiOf(at, v), OriOf(at, at, v), z>>

LEMMA HalvesShort ==
  ASSUME NEW v \in Int
  PROVE  /\ Hi(v) \in Int /\ Lo(v) \in Int
         /\ Hi(v) % Half = Low(v) \div Half /\ Lo(v) % Half = Low(v) % Half
         /\ Low(v) \div Half \in 0 .. Half - 1 /\ Low(v) % Half \in 0 .. Half - 1
         /\ Low(v) = (Low(v) \div Half) * Half + (Low(v) % Half)
  <1>1. /\ Low(v) \div Half \in 0 .. Half - 1 /\ Low(v) % Half \in 0 .. Half - 1
        /\ Low(v) = (Low(v) \div Half) * Half + (Low(v) % Half)
    BY LowType, HalvesOf
  <1>2. ASSUME NEW z \in 0 .. Half - 1 PROVE Short(z) \in Int /\ Short(z) % Half = z
    <2>1. z \in Int /\ z % Half = z
      BY Widths
    <2>. QED BY <2>1, ShortFacts
  <1>3. Hi(v) \in Int /\ Hi(v) % Half = Low(v) \div Half
    <2>. DEFINE z == Low(v) \div Half
    <2>. HIDE DEF z
    <2>1. z \in 0 .. Half - 1
      BY <1>1 DEF z
    <2>2. Short(z) \in Int /\ Short(z) % Half = z
      BY <1>2, <2>1
    <2>. QED BY <2>2 DEF Hi, z
  <1>4. Lo(v) \in Int /\ Lo(v) % Half = Low(v) % Half
    <2>. DEFINE z == Low(v) % Half
    <2>. HIDE DEF z
    <2>1. z \in 0 .. Half - 1
      BY <1>1 DEF z
    <2>2. Short(z) \in Int /\ Short(z) % Half = z
      BY <1>2, <2>1
    <2>. QED BY <2>2 DEF Lo, z
  <1>. QED BY <1>1, <1>3, <1>4

\* What is left of an immediate when its symbol is defined.
LEMMA PatchedHalves ==
  ASSUME NEW rt, NEW v \in Int, NEW z, z.bits = "none"
  PROVE  /\ Patched(<<Inst("lui", 0, 0, at, v, "upper"), Inst("ori", 0, at, rt, v, "lower")>>)
              = <<LuiOf(at, v), OriOf(rt, at, v)>>
         /\ z.op \notin LoadStore =>
              Patched(<<Inst("lui", 0, 0, at, v, "upper"), Inst("ori", 0, at, rt, v, "lower"), z>>)
                = <<LuiOf(at, v), OriOf(rt, at, v), z>>
  <1>. DEFINE x == Inst("lui", 0, 0, at, v, "upper")
              y == Inst("ori", 0, at, rt, v, "lower")
  <1>1. x.op = "lui" /\ y.op = "ori" /\ x.op \notin LoadStore /\ y.op \notin LoadStore
    BY DEF Inst, LoadStore, LoadOps, StoreOps, FloatLoadStore
  <1>2. ASSUME NEW c, \A k \in DOMAIN c : c[k].op \notin LoadStore, DOMAIN c = 1 .. Len(c),
               NEW k \in DOMAIN c
        PROVE  /\ c[k] = x => Patched(c)[k] = LuiOf(at, v)
               /\ c[k] = y => Patched(c)[k] = OriOf(rt, at, v)
               /\ c[k] = z => Patched(c)[k] = z
    <2>1. Carries(c, k) = {}
      <3>1. \A j \in k + 1 .. Len(c) : j \in DOMAIN c \/ k \notin Int \/ Len(c) \notin Int
        BY <1>2
      <3>2. \A j \in Carries(c, k) : j \in k + 1 .. Len(c) /\ c[j].op \in LoadStore
        BY DEF Carries
      <3>3. k \in Int
        BY <1>2
      <3>4. \A j \in k + 1 .. Len(c) : j \in 1 .. Len(c)
        BY <1>2, <3>3
      <3>. QED BY <1>2, <3>2, <3>4
    <2>2. Half * Cardinality(Carries(c, k)) = 0 /\ v + Half * Cardinality(Carries(c, k)) = v
      BY <2>1, FS_EmptySet, Widths
    <2>3. ASSUME c[k] = x PROVE Patched(c)[k] = LuiOf(at, v)
      BY <2>2, <2>3, PatchedAt DEF LuiOf, Hi
    <2>4. ASSUME c[k] = y PROVE Patched(c)[k] = OriOf(rt, at, v)
      BY <2>2, <2>4, PatchedAt DEF OriOf, Lo
    <2>5. ASSUME c[k] = z PROVE Patched(c)[k] = z
      BY <2>5, Zenon DEF Patched
    <2>. QED BY <2>3, <2>4, <2>5
  <1>. HIDE DEF x, y
  <1>3. Patched(<<x, y>>) = <<LuiOf(at, v), OriOf(rt, at, v)>>
    <2>. DEFINE c == <<x, y>>
    <2>1. DOMAIN c = 1 .. Len(c) /\ Len(c) = 2 /\ c[1] = x /\ c[2] = y
          /\ 1 \in DOMAIN c /\ 2 \in DOMAIN c
      OBVIOUS
    <2>2. \A k \in DOMAIN c : c[k].op \notin LoadStore
      BY <1>1
    <2>. HIDE DEF c
    <2>3. Patched(c)[1] = LuiOf(at, v) /\ Patched(c)[2] = OriOf(rt, at, v)
      BY <1>2, <2>1, <2>2
    <2>4. Patched(c) = [k \in 1 .. 2 |-> Patched(c)[k]]
      BY <2>1 DEF Patched
    <2>. QED BY <2>3, <2>4 DEF c
  <1>4. ASSUME z.op \notin LoadStore
        PROVE  Patched(<<x, y, z>>) = <<LuiOf(at, v), OriOf(rt, at, v), z>>
    <2>. DEFINE c == <<x, y, z>>
    <2>1. DOMAIN c = 1 .. Len(c) /\ Len(c) = 3 /\ c[1] = x /\ c[2] = y /\ c[3] = z
          /\ 1 \in DOMAIN c /\ 2 \in DOMAIN c /\ 3 \in DOMAIN c
      OBVIOUS
    <2>2. \A k \in DOMAIN c : c[k].op \notin LoadStore
      BY <1>1, <1>4
    <2>. HIDE DEF c
    <2>3. Patched(c)[1] = LuiOf(at, v) /\ Patched(c)[2] = OriOf(rt, at, v) /\ Patched(c)[3] = z
      BY <1>2, <2>1, <2>2
    <2>4. Patched(c) = [k \in 1 .. 3 |-> Patched(c)[k]]
      BY <2>1 DEF Patched
    <2>. QED BY <2>3, <2>4 DEF c
  <1>. QED BY <1>3, <1>4 DEF x, y

LEMMA HalfInsts ==
  ASSUME NEW e \in Exprs, e.bits = "all", NEW rt, NEW rs
  PROVE  /\ OneInst("lui", rt, 0, upper_bits_of_expr(e)) =
              IF e.known THEN <<LuiOf(rt, e.value)>> ELSE <<Inst("lui", 0, 0, rt, e.value, "upper")>>
         /\ OneInst("ori", rt, rs, lower_bits_of_expr(e)) =
              IF e.known THEN <<OriOf(rt, rs, e.value)>> ELSE <<Inst("ori", 0, rs, rt, e.value, "lower")>>
  <1>1. /\ upper_bits_of_expr(e) = [value |-> e.value, known |-> e.known, bits |-> "upper"]
        /\ lower_bits_of_expr(e) = [value |-> e.value, known |-> e.known, bits |-> "lower"]
    BY DEF upper_bits_of_expr, lower_bits_of_expr, Exprs
  <1>2. /\ eval_imm_expr(upper_bits_of_expr(e)) = Low(e.value) \div Half
        /\ eval_imm_expr(lower_bits_of_expr(e)) = Low(e.value) % Half
    BY <1>1 DEF eval_imm_expr
  <1>3. OneInst("lui", rt, 0, upper_bits_of_expr(e)) =
          IF e.known THEN <<LuiOf(rt, e.value)>> ELSE <<Inst("lui", 0, 0, rt, e.value, "upper")>>
    BY <1>1, <1>2 DEF OneInst, Instr, LuiOf, Inst, Hi
  <1>4. OneInst("ori", rt, rs, lower_bits_of_expr(e)) =
          IF e.known THEN <<OriOf(rt, rs, e.value)>> ELSE <<Inst("ori", 0, rs, rt, e.value, "lower")>>
    BY <1>1, <1>2 DEF OneInst, Instr, OriOf, Inst, Lo
  <1>. QED BY <1>3, <1>4

LEMMA Pairs ==
  ASSUME NEW x, NEW y, NEW z
  PROVE  /\ <<x>> \o <<z>> = <<x, z>> /\ <<x>> \o <<y>> = <<x, y>>
         /\ <<>> \o <<z>> = <<z>>
  <1>1. /\ <<x>> \o <<>> \o <<z>> = <<x, z>> /\ <<x>> \o <<>> \o <<y>> = <<x, y>>
        /\ <<x>> \o <<y>> \o <<z>> = <<x, y, z>>
    BY Strung
  <1>2. <<x>> \o <<>> = <<x>> /\ <<>> \o <<z>> = <<z>>
    <2>. DEFINE S == {x, z}
    <2>1. <<x>> \in Seq(S) /\ <<z>> \in Seq(S)
      OBVIOUS
    <2>. HIDE DEF S
    <2>. QED BY <2>1
  <1>3. <<x>> \o <<z>> = <<x, z>> /\ <<x>> \o <<y>> = <<x, y>>
    BY <1>1, <1>2
  <1>. QED BY <1>1, <1>2, <1>3

LEMMA Appended ==
  ASSUME NEW s, NEW x, s = <<x>>, NEW z
  PROVE  s \o <<z>> = <<x, z>>
  BY Pairs

LEMMA AppendedTwo ==
  ASSUME NEW s, NEW x, NEW y, s = <<x, y>>, NEW z
  PROVE  s \o <<z>> = <<x, y, z>>
  <1>1. <<x>> \o <<y>> = <<x, y>>
    BY Pairs
  <1>2. <<x>> \o <<y>> \o <<z>> = <<x, y, z>>
    BY Strung
  <1>. QED BY <1>1, <1>2

LEMMA ProduceCode ==
  ASSUME NEW e \in Exprs, e.bits = "all", NEW rt, NEW z, z.bits = "none", z.op \notin LoadStore
  PROVE  /\ Produces(Patched(produce_immediate(e, rt)), rt, e.value)
         /\ ProducesFor(Patched(produce_immediate(e, at) \o <<z>>), z, e.value)
  <1>. DEFINE v == e.value
  <1>0. v \in Int /\ e.known \in BOOLEAN
    BY DEF Exprs
  <1>1. \A r, s : LuiOf(r, v).bits = "none" /\ OriOf(r, s, v).bits = "none"
    BY DEF LuiOf, OriOf, Inst
  <1>2. CASE e.known /\ Low(v) % Half = 0
    <2>1. ASSUME NEW r PROVE produce_immediate(e, r) = <<LuiOf(r, v)>>
      BY <1>2, HalfInsts DEF produce_immediate
    <2>2. Patched(<<LuiOf(rt, v)>>) = <<LuiOf(rt, v)>>
          /\ Patched(<<LuiOf(at, v), z>>) = <<LuiOf(at, v), z>>
      BY <1>1, PatchedKnown
    <2>3. produce_immediate(e, at) \o <<z>> = <<LuiOf(at, v), z>>
      BY <2>1, Appended
    <2>. QED BY <1>2, <2>1, <2>2, <2>3 DEF Produces, ProducesFor
  <1>3. CASE e.known /\ Low(v) % Half # 0 /\ Low(v) < Half
    <2>1. ASSUME NEW r PROVE produce_immediate(e, r) = <<OriOf(r, 0, v)>>
      BY <1>3, HalfInsts DEF produce_immediate
    <2>2. Patched(<<OriOf(rt, 0, v)>>) = <<OriOf(rt, 0, v)>>
          /\ Patched(<<OriOf(at, 0, v), z>>) = <<OriOf(at, 0, v), z>>
      BY <1>1, PatchedKnown
    <2>3. produce_immediate(e, at) \o <<z>> = <<OriOf(at, 0, v), z>>
      BY <2>1, Appended
    <2>. QED BY <1>3, <2>1, <2>2, <2>3 DEF Produces, ProducesFor
  <1>4. CASE e.known /\ Low(v) % Half # 0 /\ ~(Low(v) < Half)
    <2>1. ASSUME NEW r PROVE produce_immediate(e, r) = <<LuiOf(at, v), OriOf(r, at, v)>>
      <3>1. produce_immediate(e, r) = <<LuiOf(at, v)>> \o <<OriOf(r, at, v)>>
        BY <1>4, HalfInsts DEF produce_immediate
      <3>. QED BY <3>1, Pairs
    <2>2. /\ Patched(<<LuiOf(at, v), OriOf(rt, at, v)>>) = <<LuiOf(at, v), OriOf(rt, at, v)>>
          /\ Patched(<<LuiOf(at, v), OriOf(at, at, v), z>>) = <<LuiOf(at, v), OriOf(at, at, v), z>>
      BY <1>1, PatchedKnown
    <2>3. produce_immediate(e, at) \o <<z>> = <<LuiOf(at, v), OriOf(at, at, v), z>>
      BY <2>1, AppendedTwo
    <2>. QED BY <2>1, <2>2, <2>3 DEF Produces, ProducesFor
  <1>5. CASE ~e.known
    <2>. DEFINE x == Inst("lui", 0, 0, at, v, "upper")
                y(r) == Inst("ori", 0, at, r, v, "lower")
    <2>1. ASSUME NEW r PROVE produce_immediate(e, r) = <<x, y(r)>>
      <3>1. produce_immediate(e, r) = <<x>> \o <<y(r)>>
        BY <1>5, HalfInsts DEF produce_immediate
      <3>. HIDE DEF x, y
      <3>. QED BY <3>1, Pairs
    <2>2. Patched(<<x, y(rt)>>) = <<LuiOf(at, v), OriOf(rt, at, v)>>
      BY <1>0, PatchedHalves
    <2>3. Patched(<<x, y(at), z>>) = <<LuiOf(at, v), OriOf(at, at, v), z>>
      BY <1>0, PatchedHalves
    <2>. HIDE DEF x, y
    <2>4. produce_immediate(e, at) \o <<z>> = <<x, y(at), z>>
      <3>1. produce_immediate(e, at) = <<x, y(at)>>
        BY <2>1
      <3>. QED BY <3>1, AppendedTwo
    <2>. QED BY <2>1, <2>2, <2>3, <2>4 DEF Produces, ProducesFor
  <1>. QED BY <1>0, <1>2, <1>3, <1>4, <1>5

\* The instructions that bring the halves: ori joins the low one to the high one.
LEMMA OriEffect ==
  ASSUME NEW p, NEW bd, NEW v \in Int, NEW rt, NEW rs, NEW h \in 0 .. Half - 1, p.R[rs] = h * Half
  PROVE  Effect(p, bd, OriOf(rt, rs, v)) = Set(p, rt, h * Half + (Low(v) % Half))
  <1>. DEFINE i == OriOf(rt, rs, v)
  <1>1. i.op = "ori" /\ i.rs = rs /\ i.rt = rt /\ i.imm = Lo(v)
    BY DEF OriOf, Inst
  <1>. HIDE DEF i
  <1>2. Lo(v) % Half = Low(v) % Half /\ Low(v) % Half \in 0 .. Half - 1
    BY HalvesShort
  <1>3. Operand(p, i) = Low(v) % Half /\ Dest(i) = rt
    BY <1>1, <1>2 DEF Operand, Dest, Arithmetic, Logical
  <1>4. OrBits(h * Half, Low(v) % Half) = h * Half + (Low(v) % Half)
    BY <1>2, JoinOK
  <1>5. BitOr(p, i) = Set(p, rt, h * Half + (Low(v) % Half))
    BY <1>1, <1>3, <1>4 DEF BitOr
  <1>6. Effect(p, bd, i) = BitOr(p, i)
    BY <1>1, EffectKinds DEF OrOps
  <1>. QED BY <1>5, <1>6 DEF i

LEMMA LuiEffect ==
  ASSUME NEW p, NEW bd, NEW v \in Int, NEW rt
  PROVE  /\ Effect(p, bd, LuiOf(rt, v)) = Set(p, rt, (Low(v) \div Half) * Half)
         /\ (Low(v) \div Half) * Half \in Words
  <1>. DEFINE i == LuiOf(rt, v)
              h == Low(v) \div Half
  <1>1. i.op = "lui" /\ i.rt = rt /\ i.imm = Hi(v)
    BY DEF LuiOf, Inst
  <1>. HIDE DEF i
  <1>2. Hi(v) % Half = h /\ h \in 0 .. Half - 1
    BY HalvesShort
  <1>. HIDE DEF h
  <1>3. 0 \in 0 .. Half - 1 /\ h * Half + 0 = h * Half
    BY <1>2, Widths
  <1>4. Low(h * Half) = h * Half /\ h * Half \in Words
    BY <1>2, <1>3, HalvesUnique
  <1>5. Effect(p, bd, i) = LoadUpper(p, i)
    BY <1>1, EffectKinds
  <1>6. LoadUpper(p, i) = Set(p, rt, h * Half)
    BY <1>1, <1>2, <1>4 DEF LoadUpper
  <1>. QED BY <1>4, <1>5, <1>6 DEF i, h

\* q is on the way at place k, with w in $at.
OnTheWay(q, b, bd, c, n, k, w) == Runs(q, bd, c, n) /\ Same(q, b) /\ q.PC = k /\ q.R[at] = w

LEMMA AtStep ==
  ASSUME NEW p, NEW b, Same(p, b), NEW bd, NEW c, Len(c) \in Nat, p.PC <= Len(c),
         NEW i, c[p.PC] = i, i.op \in {"lui", "ori"},
         NEW w \in Words, Effect(p, bd, i) = Set(p, at, w), NEW n, Runs(p, bd, c, n), Over(n, c)
  PROVE  OnTheWay(Put(p, at, w), b, bd, c, n, p.PC + 1, w)
  <1>1. i.op \notin BranchOps
    BY DEF BranchOps, Likely, LinkOps, JumpOps, ConditionBranches
  <1>2. Runs(Put(p, at, w), bd, c, n)
    BY <1>1, PutStep DEF Same
  <1>. QED BY <1>2, PutAt DEF OnTheWay

LEMMA HalvesAgain ==
  ASSUME NEW v \in Int
  PROVE  /\ (Low(v) \div Half) * Half + (Low(v) % Half) = Low(v)
         /\ Low(v) % Half = 0 => (Low(v) \div Half) * Half = Low(v)
         /\ Low(v) < Half => Low(v) % Half = Low(v) /\ 0 * Half + (Low(v) % Half) = Low(v)
         /\ Low(v) \in Words /\ 0 \in 0 .. Half - 1 /\ 0 * Half = 0
         /\ Low(v) \div Half \in 0 .. Half - 1
  <1>. DEFINE x == Low(v)
  <1>1. x \div Half \in 0 .. Half - 1 /\ x % Half \in 0 .. Half - 1 /\ x \in Words
        /\ x = (x \div Half) * Half + (x % Half)
    BY LowType, HalvesOf
  <1>. HIDE DEF x
  <1>2. x \in Int /\ 0 <= x /\ x < Word /\ Half \in Int /\ Half >= 1 /\ 0 \in 0 .. Half - 1
        /\ 0 * Half = 0
    BY <1>1, WordBounds, Widths
  <1>3. ASSUME x < Half PROVE x % Half = x /\ 0 * Half + (x % Half) = x
    <2>1. x \in 0 .. Half - 1 /\ 0 * Half + x = x
      BY <1>2, <1>3
    <2>2. (0 * Half + x) % Half = x
      BY <1>2, <2>1, HalvesUnique
    <2>. QED BY <2>1, <2>2
  <1>4. (x \div Half) * Half \in Int /\ ((x % Half) = 0 => (x \div Half) * Half = x)
    <2>. DEFINE q == x \div Half
                r == x % Half
    <2>1. q \in Int /\ r \in Int /\ x = q * Half + r /\ Half \in Int
      BY <1>1, <1>2
    <2>. HIDE DEF q, r
    <2>2. q * Half \in Int /\ (r = 0 => q * Half = x)
      BY <2>1
    <2>. QED BY <2>2 DEF q, r
  <1>. QED BY <1>1, <1>2, <1>3, <1>4 DEF x

\* The instructions that bring v into $at leave the last one to find it there.
LEMMA ProduceRun ==
  ASSUME NEW b, Fresh(b), NEW bd, NEW c, NEW z, NEW v \in Int, ProducesFor(c, z, v),
         NEW n, Runs(b, bd, c, n), Over(n, c)
  PROVE  \E p : Due(p, z, b, bd, c, n) /\ p.R[at] = Low(v)
  <1>. DEFINE u == (Low(v) \div Half) * Half
  <1>0. Same(b, b) /\ b.PC = 1 /\ b.R[0] = 0 /\ 1 + 1 = 2 /\ 2 + 1 = 3
    BY FreshSame DEF Fresh
  <1>1. /\ Low(v) \in Words /\ Low(v) \div Half \in 0 .. Half - 1 /\ u \in Words
        /\ u + (Low(v) % Half) = Low(v) /\ (Low(v) % Half = 0 => u = Low(v))
        /\ (Low(v) < Half => 0 * Half + (Low(v) % Half) = Low(v))
        /\ 0 \in 0 .. Half - 1 /\ 0 * Half = 0
    BY HalvesAgain, LuiEffect
  <1>2. \A p : Effect(p, bd, LuiOf(at, v)) = Set(p, at, u)
    BY LuiEffect
  <1>3. ASSUME NEW p, p.R[at] = u PROVE Effect(p, bd, OriOf(at, at, v)) = Set(p, at, Low(v))
    BY <1>1, <1>3, OriEffect
  <1>4. LuiOf(at, v).op = "lui" /\ \A rs : OriOf(at, rs, v).op = "ori"
    BY DEF LuiOf, OriOf, Inst
  <1>. HIDE DEF u
  <1>5. CASE c = <<LuiOf(at, v), z>> /\ Low(v) % Half = 0
    <2>. DEFINE p == Put(b, at, u)
    <2>1. Len(c) = 2 /\ c[1] = LuiOf(at, v) /\ c[2] = z
      BY <1>5
    <2>2. Runs(p, bd, c, n) /\ Same(p, b) /\ p.PC = 2 /\ p.R[at] = u
      <3>1. Effect(b, bd, LuiOf(at, v)) = Set(b, at, u) /\ c[b.PC] = LuiOf(at, v)
            /\ Len(c) \in Nat /\ b.PC <= Len(c)
        BY <1>0, <1>2, <2>1
      <3>2. OnTheWay(p, b, bd, c, n, b.PC + 1, u)
        BY <1>0, <1>1, <1>4, <3>1, AtStep
      <3>. QED BY <1>0, <3>2 DEF OnTheWay
    <2>. HIDE DEF p
    <2>. QED BY <1>1, <1>5, <2>1, <2>2 DEF Due
  <1>6. CASE c = <<OriOf(at, 0, v), z>> /\ Low(v) < Half
    <2>. DEFINE p == Put(b, at, Low(v))
    <2>1. Len(c) = 2 /\ c[1] = OriOf(at, 0, v) /\ c[2] = z
      BY <1>6
    <2>2. Effect(b, bd, OriOf(at, 0, v)) = Set(b, at, Low(v))
      BY <1>0, <1>1, <1>6, OriEffect
    <2>3. Runs(p, bd, c, n) /\ Same(p, b) /\ p.PC = 2 /\ p.R[at] = Low(v)
      <3>1. c[b.PC] = OriOf(at, 0, v) /\ Len(c) \in Nat /\ b.PC <= Len(c)
        BY <1>0, <2>1
      <3>2. OnTheWay(p, b, bd, c, n, b.PC + 1, Low(v))
        BY <1>0, <1>1, <1>4, <2>2, <3>1, AtStep
      <3>. QED BY <1>0, <3>2 DEF OnTheWay
    <2>. HIDE DEF p
    <2>. QED BY <2>1, <2>3 DEF Due
  <1>7. CASE c = <<LuiOf(at, v), OriOf(at, at, v), z>>
    <2>. DEFINE p == Put(b, at, u)
                q == Put(p, at, Low(v))
    <2>1. Len(c) = 3 /\ c[1] = LuiOf(at, v) /\ c[2] = OriOf(at, at, v) /\ c[3] = z
      BY <1>7
    <2>2. Runs(p, bd, c, n) /\ Same(p, b) /\ p.PC = 2 /\ p.R[at] = u
      <3>1. Effect(b, bd, LuiOf(at, v)) = Set(b, at, u) /\ c[b.PC] = LuiOf(at, v)
            /\ Len(c) \in Nat /\ b.PC <= Len(c)
        BY <1>0, <1>2, <2>1
      <3>2. OnTheWay(p, b, bd, c, n, b.PC + 1, u)
        BY <1>0, <1>1, <1>4, <3>1, AtStep
      <3>. QED BY <1>0, <3>2 DEF OnTheWay
    <2>. HIDE DEF p
    <2>3. Effect(p, bd, OriOf(at, at, v)) = Set(p, at, Low(v))
      BY <1>3, <2>2
    <2>4. Runs(q, bd, c, n) /\ Same(q, b) /\ q.PC = 3 /\ q.R[at] = Low(v)
      <3>1. c[p.PC] = OriOf(at, at, v) /\ Len(c) \in Nat /\ p.PC <= Len(c)
        BY <2>1, <2>2
      <3>2. OnTheWay(q, b, bd, c, n, p.PC + 1, Low(v))
        BY <1>1, <1>4, <2>2, <2>3, <3>1, AtStep
      <3>. QED BY <1>0, <2>2, <3>2 DEF OnTheWay
    <2>. HIDE DEF q
    <2>. QED BY <2>1, <2>4 DEF Due
  <1>. QED BY <1>5, <1>6, <1>7 DEF ProducesFor

LEMMA ImmediateInst ==
  ASSUME NEW op \in Arithmetic \cup Logical \cup {"lui"}, NEW rt \in Registers, NEW rs \in Registers,
         NEW imm \in Int, Short(imm) = imm
  PROVE  Inst(op, 0, rs, rt, imm, "none") \in Straight /\ op # "fatal_error"
  <1>. DEFINE e == [value |-> imm, known |-> TRUE, bits |-> "all"]
              i == Inst(op, 0, rs, rt, imm, "none")
  <1>1. e \in Exprs /\ Placed(op, rt, rs)
    <2>1. op \notin FloatLoadStore /\ op # "ldc1"
      BY DEF FloatLoadStore, Arithmetic, Logical
    <2>2. op \in WaitOps
      BY DEF WaitOps
    <2>3. e \in Exprs
      BY DEF Exprs
    <2>4. Placed(op, rt, rs)
      BY <2>1, <2>2 DEF Placed
    <2>. QED BY <2>3, <2>4
  <1>2. OneInst(op, rt, rs, e) = <<i>>
    <2>1. eval_imm_expr(e) = imm
      BY DEF eval_imm_expr
    <2>. QED BY <2>1 DEF OneInst, Instr, Inst
  <1>. HIDE DEF i, e
  <1>3. <<i>> \in Seq(Straight)
    BY <1>1, <1>2, OneInstBlock DEF Block
  <1>4. i \in Straight
    <2>1. 1 \in 1 .. Len(<<i>>) /\ <<i>>[1] = i
      OBVIOUS
    <2>. QED BY <1>3, <2>1
  <1>5. op # "fatal_error"
    BY DEF Arithmetic, Logical
  <1>. QED BY <1>4, <1>5 DEF i

LEMMA HalfStraight ==
  ASSUME NEW v \in Int, NEW rt \in Registers, NEW rs \in Registers
  PROVE  /\ LuiOf(rt, v) \in Straight /\ OriOf(rt, rs, v) \in Straight
         /\ LuiOf(rt, v).op = "lui" /\ OriOf(rt, rs, v).op = "ori"
  <1>1. Hi(v) \in Int /\ Lo(v) \in Int /\ Short(Hi(v)) = Hi(v) /\ Short(Lo(v)) = Lo(v)
    <2>1. ASSUME NEW x \in Int PROVE Short(x) \in Int /\ Short(Short(x)) = Short(x)
      BY ShortFacts
    <2>2. Low(v) \div Half \in Int /\ Low(v) % Half \in Int
      BY HalvesShort
    <2>. QED BY <2>1, <2>2 DEF Hi, Lo
  <1>2. 0 \in Registers
    BY SmallRegisters
  <1>. QED BY <1>1, <1>2, ImmediateInst DEF LuiOf, OriOf, Inst, Logical

\* Or leave the last one to write it to the register rt.
Puts(p, i, b, bd, c, n, rt, w) ==
  /\ Due(p, i, b, bd, c, n) /\ i \in Straight /\ i.op # "fatal_error"
  /\ Effect(p, bd, i) = Set(p, rt, w)

LEMMA ProduceInto ==
  ASSUME NEW b, Fresh(b), NEW bd, NEW c, NEW rt \in Registers, NEW v \in Int, Produces(c, rt, v),
         NEW n, Runs(b, bd, c, n), Over(n, c)
  PROVE  \E p, i : Puts(p, i, b, bd, c, n, rt, Low(v))
  <1>. DEFINE u == (Low(v) \div Half) * Half
  <1>0. Same(b, b) /\ b.PC = 1 /\ b.R[0] = 0 /\ 1 + 1 = 2 /\ 0 \in Registers /\ at \in Registers
    BY FreshSame, SmallRegisters DEF Fresh
  <1>1. /\ Low(v) \in Words /\ Low(v) \div Half \in 0 .. Half - 1 /\ u \in Words
        /\ u + (Low(v) % Half) = Low(v) /\ (Low(v) % Half = 0 => u = Low(v))
        /\ (Low(v) < Half => 0 * Half + (Low(v) % Half) = Low(v))
        /\ 0 \in 0 .. Half - 1 /\ 0 * Half = 0
    BY HalvesAgain, LuiEffect
  <1>2. \A p, r : Effect(p, bd, LuiOf(r, v)) = Set(p, r, u)
    BY LuiEffect
  <1>3. ASSUME NEW p, p.R[at] = u PROVE Effect(p, bd, OriOf(rt, at, v)) = Set(p, rt, Low(v))
    BY <1>1, <1>3, OriEffect
  <1>4. ASSUME NEW r \in Registers, NEW s \in Registers
        PROVE  /\ LuiOf(r, v) \in Straight /\ LuiOf(r, v).op = "lui"
               /\ OriOf(r, s, v) \in Straight /\ OriOf(r, s, v).op = "ori"
    BY HalfStraight
  <1>. HIDE DEF u
  <1>5. CASE c = <<LuiOf(rt, v)>> /\ Low(v) % Half = 0
    <2>1. Len(c) = 1 /\ c[1] = LuiOf(rt, v)
      BY <1>5
    <2>2. Due(b, LuiOf(rt, v), b, bd, c, n)
      BY <1>0, <2>1 DEF Due
    <2>3. LuiOf(rt, v) \in Straight /\ LuiOf(rt, v).op # "fatal_error"
      BY <1>0, <1>4
    <2>. QED BY <1>1, <1>2, <1>5, <2>2, <2>3 DEF Puts
  <1>6. CASE c = <<OriOf(rt, 0, v)>> /\ Low(v) < Half
    <2>1. Len(c) = 1 /\ c[1] = OriOf(rt, 0, v)
      BY <1>6
    <2>2. Due(b, OriOf(rt, 0, v), b, bd, c, n)
      BY <1>0, <2>1 DEF Due
    <2>3. OriOf(rt, 0, v) \in Straight /\ OriOf(rt, 0, v).op # "fatal_error"
      BY <1>0, <1>4
    <2>4. Effect(b, bd, OriOf(rt, 0, v)) = Set(b, rt, Low(v))
      BY <1>0, <1>1, <1>6, OriEffect
    <2>. QED BY <2>2, <2>3, <2>4 DEF Puts
  <1>7. CASE c = <<LuiOf(at, v), OriOf(rt, at, v)>>
    <2>. DEFINE p == Put(b, at, u)
    <2>1. Len(c) = 2 /\ c[1] = LuiOf(at, v) /\ c[2] = OriOf(rt, at, v)
      BY <1>7
    <2>2. Runs(p, bd, c, n) /\ Same(p, b) /\ p.PC = 2 /\ p.R[at] = u
      <3>1. Effect(b, bd, LuiOf(at, v)) = Set(b, at, u) /\ c[b.PC] = LuiOf(at, v)
            /\ Len(c) \in Nat /\ b.PC <= Len(c)
        BY <1>0, <1>2, <2>1
      <3>2. LuiOf(at, v).op \in {"lui", "ori"}
        BY <1>0, <1>4
      <3>3. OnTheWay(p, b, bd, c, n, b.PC + 1, u)
        BY <1>0, <1>1, <3>1, <3>2, AtStep
      <3>. QED BY <1>0, <3>3 DEF OnTheWay
    <2>. HIDE DEF p
    <2>3. Effect(p, bd, OriOf(rt, at, v)) = Set(p, rt, Low(v))
      BY <1>3, <2>2
    <2>4. Due(p, OriOf(rt, at, v), b, bd, c, n)
      BY <2>1, <2>2 DEF Due
    <2>5. OriOf(rt, at, v) \in Straight /\ OriOf(rt, at, v).op # "fatal_error"
      BY <1>0, <1>4
    <2>. QED BY <2>3, <2>4, <2>5 DEF Puts
  <1>. QED BY <1>5, <1>6, <1>7 DEF Produces

\* What the assembler makes of an addition or a comparison with an immediate.
LEMMA ImmediateCode ==
  ASSUME NEW op \in {"addi", "addiu", "slti", "sltiu"}, NEW rt \in Registers, NEW rs \in Registers,
         NEW e \in Exprs, e.bits = "all", NEW c, c = Patched(i_type_inst(op, rt, rs, e))
  PROVE  \/ Short(e.value) = e.value /\ c = <<Inst(op, 0, rs, rt, e.value, "none")>>
         \/ rs = 0 /\ op \in {"addi", "addiu"} /\ Produces(c, rt, e.value)
         \/ ProducesFor(c, Inst(ImmOps[op], rt, rs, at, 0, "none"), e.value)
  <1>. DEFINE z == Inst(ImmOps[op], rt, rs, at, 0, "none")
  <1>1. /\ op \in Arithmetic /\ op \notin LoadStore /\ op \in DOMAIN ImmOps
        /\ ImmOps[op] \in {"add", "addu", "slt", "sltu"}
    BY DEF Arithmetic, LoadStore, LoadOps, StoreOps, FloatLoadStore, ImmOps
  <1>2. eval_imm_expr(e) = e.value
    BY DEF eval_imm_expr
  <1>3. CASE e.known /\ Short(e.value) = e.value
    <2>. DEFINE y == Inst(op, 0, rs, rt, e.value, "none")
    <2>1. i_type_inst(op, rt, rs, e) = <<y>>
      BY <1>1, <1>2, <1>3 DEF i_type_inst, FitsField, OneInst, Instr, Inst
    <2>2. y.bits = "none"
      BY DEF Inst
    <2>. HIDE DEF y
    <2>3. Patched(<<y>>) = <<y>>
      BY <2>2, PatchedKnown
    <2>. QED BY <1>3, <2>1, <2>3 DEF y
  <1>4. CASE ~(e.known /\ Short(e.value) = e.value)
    <2>1. i_type_inst(op, rt, rs, e) = i_type_inst_full_word(op, rt, rs, e)
      BY <1>1, <1>2, <1>4 DEF i_type_inst, FitsField
    <2>2. CASE rs = 0 /\ op \in {"addi", "addiu"}
      <3>1. i_type_inst(op, rt, rs, e) = produce_immediate(e, rt)
        BY <1>1, <2>1, <2>2 DEF i_type_inst_full_word
      <3>2. Inst("add", 0, 0, 0, 0, "none").bits = "none" /\ Inst("add", 0, 0, 0, 0, "none").op = "add"
            /\ "add" \notin LoadStore
        BY DEF Inst, LoadStore, LoadOps, StoreOps, FloatLoadStore
      <3>3. Produces(Patched(produce_immediate(e, rt)), rt, e.value)
        BY <3>2, ProduceCode
      <3>. QED BY <2>2, <3>1, <3>3
    <2>3. CASE ~(rs = 0 /\ op \in {"addi", "addiu"})
      <3>1. r_type_inst(ImmOps[op], rt, rs, at) = <<z>>
        BY DEF r_type_inst, Instr, Inst
      <3>2. z.bits = "none" /\ z.op = ImmOps[op] /\ z.op \notin LoadStore
        BY <1>1 DEF Inst, LoadStore, LoadOps, StoreOps, FloatLoadStore
      <3>3. i_type_inst(op, rt, rs, e) = produce_immediate(e, at) \o r_type_inst(ImmOps[op], rt, rs, at)
        BY <1>1, <2>1, <2>3 DEF i_type_inst_full_word, imm_op_to_op
      <3>. HIDE DEF z
      <3>4. ProducesFor(Patched(produce_immediate(e, at) \o <<z>>), z, e.value)
        BY <3>2, ProduceCode
      <3>. QED BY <3>1, <3>3, <3>4 DEF z
    <2>. QED BY <2>2, <2>3
  <1>. QED BY <1>3, <1>4

\* p is where the last instruction i finds the operands of the operation op on
\* b.R[rs] and v, or where it writes v where it is added to register 0.
Brings(p, i, b, bd, c, n, op, rt, rs, v) ==
  /\ Due(p, i, b, bd, c, n) /\ i \in Straight /\ i.op # "fatal_error"
  /\ \/ i.op \in {op, ImmOps[op]} /\ Operands(i, p, b.R[rs], Low(v), rt)
     \/ rs = 0 /\ op \in {"addi", "addiu"} /\ Effect(p, bd, i) = Set(p, rt, Low(v))

LEMMA ImmediateRun ==
  ASSUME NEW op \in {"addi", "addiu", "slti", "sltiu"}, NEW rt \in Registers,
         NEW rs \in Registers, rs # at,
         NEW e \in Exprs, e.bits = "all", NEW c, c = Patched(i_type_inst(op, rt, rs, e)),
         NEW b, Fresh(b), NEW bd, NEW n, Runs(b, bd, c, n), Over(n, c)
  PROVE  \E p, i : Brings(p, i, b, bd, c, n, op, rt, rs, e.value)
  <1>. DEFINE v == e.value
              z == Inst(ImmOps[op], rt, rs, at, 0, "none")
              y == Inst(op, 0, rs, rt, v, "none")
  <1>0. /\ v \in Int /\ b.R \in [Registers -> Words] /\ b.R[rs] \in Words /\ Low(v) \in Words
        /\ at \in Registers
    BY LowType, SmallRegisters DEF Exprs, Fresh, Machines
  <1>1. /\ op \in Arithmetic /\ ImmOps[op] \in {"add", "addu", "slt", "sltu"}
        /\ ImmOps[op] \in IntegerOps /\ ImmOps[op] \notin Arithmetic /\ ImmOps[op] \notin Logical
    BY DEF Arithmetic, Logical, ImmOps, IntegerOps, AddOps, SetLessOps
  <1>2. CASE Short(v) = v /\ c = <<y>>
    <2>1. y \in Straight /\ y.op # "fatal_error"
      <3>1. op \in Arithmetic \cup Logical \cup {"lui"} /\ y.op = op
        BY <1>1 DEF Inst
      <3>. QED BY <1>0, <1>2, <3>1, ImmediateInst
    <2>2. y.op = op /\ y.rs = rs /\ y.rt = rt /\ y.imm = v
      BY DEF Inst
    <2>. HIDE DEF y
    <2>3. Operands(y, b, b.R[rs], Low(v), rt)
      BY <1>0, <1>1, <1>2, <2>2 DEF Operands, Operand, Dest
    <2>4. Len(c) = 1 /\ c[1] = y
      BY <1>2
    <2>5. Due(b, y, b, bd, c, n)
      BY <2>4, FreshSame DEF Due
    <2>6. Brings(b, y, b, bd, c, n, op, rt, rs, v)
      BY <2>1, <2>2, <2>3, <2>5 DEF Brings
    <2>. QED BY <2>6
  <1>3. CASE rs = 0 /\ op \in {"addi", "addiu"} /\ Produces(c, rt, v)
    <2>1. PICK p, i : Puts(p, i, b, bd, c, n, rt, Low(v))
      BY <1>0, <1>3, ProduceInto
    <2>2. Brings(p, i, b, bd, c, n, op, rt, rs, v)
      BY <1>3, <2>1 DEF Brings, Puts
    <2>. QED BY <2>2
  <1>4. CASE ProducesFor(c, z, v)
    <2>1. z \in Straight /\ ImmOps[op] # "fatal_error"
      BY <1>0, <1>1, RegisterInst
    <2>2. z.op = ImmOps[op] /\ z.rs = rs /\ z.rt = at /\ z.rd = rt
      BY DEF Inst
    <2>. HIDE DEF z
    <2>3. PICK p : Due(p, z, b, bd, c, n) /\ p.R[at] = Low(v)
      BY <1>0, <1>4, ProduceRun
    <2>4. p.R[rs] = b.R[rs]
      BY <2>3 DEF Due, Same
    <2>5. Operand(p, z) = Low(v) /\ Dest(z) = rt
      BY <1>1, <2>2, <2>3, OnRegisterFields
    <2>6. Operands(z, p, b.R[rs], Low(v), rt)
      BY <1>0, <2>2, <2>4, <2>5 DEF Operands
    <2>7. Brings(p, z, b, bd, c, n, op, rt, rs, v)
      BY <2>1, <2>2, <2>3, <2>6 DEF Brings
    <2>. QED BY <2>7
  <1>5. \/ Short(v) = v /\ c = <<y>>
        \/ rs = 0 /\ op \in {"addi", "addiu"} /\ Produces(c, rt, v)
        \/ ProducesFor(c, z, v)
    BY ImmediateCode
  <1>. QED BY <1>2, <1>3, <1>4, <1>5

LEMMA PutsMeans ==
  ASSUME NEW l, l.op \in ComputeOps, l.op \notin TrapOps, IntegerLine(l), NEW b, Fresh(b), NEW bd,
         NEW w \in Words, ~Overflows(l, b), IsResult(l, bd, b, w),
         NEW c, NEW n, Over(n, c), NEW p, NEW i, Puts(p, i, b, bd, c, n, l.rd, w)
  PROVE  Means(l, bd, b, Arrived(n), Len(c))
  <1>1. Same(p, b) /\ Len(c) \in Nat /\ DoneBy(n, p, bd, i, Len(c))
    BY DueEnds DEF Puts
  <1>2. n = [Set(p, l.rd, w) EXCEPT !.PC = Len(c) + 1]
    BY <1>1 DEF DoneBy, Puts
  <1>. QED BY <1>1, <1>2, ResultMeans

LEMMA FoundMeans ==
  ASSUME NEW l, IntegerLine(l), NEW b, Fresh(b), NEW bd, NEW c, NEW n, Over(n, c),
         NEW i \in Straight, i.op # "fatal_error", NEW p, Due(p, i, b, bd, c, n), Finds(i, l, p, b)
  PROVE  Means(l, bd, b, Arrived(n), Len(c))
  <1>1. Same(p, b) /\ Len(c) \in Nat /\ DoneBy(n, p, bd, i, Len(c))
    BY DueEnds
  <1>. QED BY <1>1, FindsMeans DEF DoneBy

\* An addition or a comparison with an immediate, however large.
LEMMA BinaryImmediateMeans ==
  ASSUME NEW l, l.op \in AddOps \cup SetLessOps, l.form = "imm", IntegerLine(l), l.rs # at,
         NEW b, Fresh(b), NEW bd, NEW c, c = Patched(ASM_CODE(l)),
         NEW n, Runs(b, bd, c, n), Over(n, c)
  PROVE  Means(l, bd, b, Arrived(n), Len(c))
  <1>0. PICK op : op = IF l.op \in Arithmetic \cup Logical THEN l.op ELSE op_to_imm_op(l.op)
    OBVIOUS
  <1>1. /\ op \in {"addi", "addiu", "slti", "sltiu"} /\ l.op \in ComputeOps /\ l.op \notin TrapOps
        /\ l.op \in SetOps <=> l.op \in SetLessOps
        /\ {op, ImmOps[op]} \subseteq (IF l.op \in AddOps THEN AddOps ELSE SetLessOps)
        /\ \A i \in {op, ImmOps[op]} :
             /\ i \in {"add", "addi"} <=> l.op \in {"add", "addi"}
             /\ i \in {"slt", "slti"} <=> l.op \in {"slt", "slti", "sgt"}
        /\ op \in {"addi", "addiu"} <=> l.op \in AddOps
        /\ l.op \notin {"sgt", "sgtu"}
    BY <1>0 DEF AddOps, SetLessOps, Arithmetic, Logical, op_to_imm_op, ImmOps, ComputeOps, SetOps, TrapOps
  <1>2. c = Patched(i_type_inst(op, l.rd, l.rs, Immediate(l)))
    BY <1>0, <1>1, ComputeRule DEF BinaryLine
  <1>3. /\ Immediate(l) \in Exprs /\ Immediate(l).bits = "all" /\ Immediate(l).value = l.imm
        /\ l.rd \in Registers /\ l.rs \in Registers
    BY LineExprs DEF IntegerLine, Immediate
  <1>4. PICK p, i : Brings(p, i, b, bd, c, n, op, l.rd, l.rs, l.imm)
    <2>1. \E p, i : Brings(p, i, b, bd, c, n, op, l.rd, l.rs, Immediate(l).value)
      BY <1>1, <1>2, <1>3, ImmediateRun
    <2>. QED BY <1>3, <2>1
  <1>5. First(l, b) = b.R[l.rs] /\ Other(l, b) = Low(l.imm) /\ Low(l.imm) \in Words
    BY LowType DEF First, Other, IntegerLine
  <1>6. CASE i.op \in {op, ImmOps[op]} /\ Operands(i, p, b.R[l.rs], Low(l.imm), l.rd)
    <2>1. Finds(i, l, p, b)
      BY <1>1, <1>5, <1>6 DEF Finds
    <2>. QED BY <1>4, <2>1, FoundMeans DEF Brings
  <1>7. CASE l.rs = 0 /\ op \in {"addi", "addiu"} /\ Effect(p, bd, i) = Set(p, l.rd, Low(l.imm))
    <2>1. First(l, b) = 0 /\ l.op \in AddOps
      BY <1>1, <1>5, <1>7 DEF Fresh
    <2>2. /\ X(l, b) = 0 /\ Y(l, b) = Signed(Low(l.imm)) /\ Signed(Low(l.imm)) \in Int
          /\ Low(0 + Signed(Low(l.imm))) = Low(l.imm) /\ InRange(0 + Signed(Low(l.imm)))
      <3>1. l.op \notin UnsignedOps
        BY <2>1 DEF AddOps, UnsignedOps
      <3>2. 0 \in Words /\ Signed(0) = 0
        BY WordBounds, Widths DEF Words
      <3>3. Signed(Low(l.imm)) \in Int /\ Low(Signed(Low(l.imm))) = Low(l.imm)
            /\ Signed(Low(l.imm)) >= -(Word \div 2) /\ Signed(Low(l.imm)) < Word \div 2
        BY <1>5, SignedLow, WordBounds
      <3>4. 0 + Signed(Low(l.imm)) = Signed(Low(l.imm))
        BY <3>3
      <3>. QED BY <1>5, <2>1, <3>1, <3>2, <3>3, <3>4 DEF X, Y, Number, InRange
    <2>3. ~Overflows(l, b)
      BY <2>1, <2>2 DEF Overflows, AddOps
    <2>4. IsResult(l, bd, b, Low(l.imm))
      <3>1. Low(l.imm) = Low(X(l, b) + Y(l, b))
        BY <2>2
      <3>. QED BY <2>1, <3>1 DEF IsResult, AddOps, LoadLines
    <2>5. Puts(p, i, b, bd, c, n, l.rd, Low(l.imm))
      BY <1>4, <1>7 DEF Brings, Puts
    <2>. QED BY <1>1, <1>5, <2>3, <2>4, <2>5, PutsMeans
  <1>. QED BY <1>4, <1>6, <1>7 DEF Brings

\* li, and la without a base: $at is not needed twice.
LEMMA IntoCode ==
  ASSUME NEW rt \in Registers, NEW e \in Exprs, e.bits = "all", NEW z, z.bits = "none", z.op \notin LoadStore
  PROVE  /\ Produces(Patched(i_type_inst("ori", rt, 0, e)), rt, e.value)
         /\ ProducesFor(Patched(i_type_inst("ori", at, 0, e) \o <<z>>), z, e.value)
  <1>. DEFINE v == e.value
  <1>0. v \in Int /\ "ori" \notin Arithmetic /\ "ori" \notin LoadStore
    BY DEF Exprs, Arithmetic, LoadStore, LoadOps, StoreOps, FloatLoadStore
  <1>1. eval_imm_expr(e) = v
    BY DEF eval_imm_expr
  <1>2. CASE e.known /\ v \in 0 .. Half - 1
    <2>1. Low(v) = v /\ Low(v) < Half /\ Lo(v) = Short(v)
      <3>1. 0 \in 0 .. Half - 1 /\ 0 * Half + v = v
        BY <1>2, Widths
      <3>2. Low(0 * Half + v) = 0 * Half + v /\ (0 * Half + v) % Half = v
        BY <1>2, <3>1, HalvesUnique
      <3>3. Low(v) = v /\ v % Half = v /\ v < Half
        BY <1>2, <3>1, <3>2, Widths
      <3>. QED BY <3>3 DEF Lo
    <2>2. \A r : i_type_inst("ori", r, 0, e) = <<OriOf(r, 0, v)>>
      BY <1>0, <1>1, <1>2, <2>1 DEF i_type_inst, FitsField, OneInst, Instr, OriOf, Inst
    <2>. DEFINE x == OriOf(rt, 0, v)
                y == OriOf(at, 0, v)
    <2>3. x.bits = "none" /\ y.bits = "none"
      BY DEF OriOf, Inst
    <2>. HIDE DEF x, y
    <2>4. Patched(<<x>>) = <<x>> /\ Patched(<<y, z>>) = <<y, z>>
      BY <2>3, PatchedKnown
    <2>5. i_type_inst("ori", at, 0, e) = <<y>> /\ i_type_inst("ori", rt, 0, e) = <<x>>
      BY <2>2 DEF x, y
    <2>6. i_type_inst("ori", at, 0, e) \o <<z>> = <<y, z>>
      BY <2>5, Appended
    <2>. QED BY <2>1, <2>4, <2>5, <2>6 DEF Produces, ProducesFor, x, y
  <1>3. CASE ~(e.known /\ v \in 0 .. Half - 1)
    <2>1. \A r : i_type_inst("ori", r, 0, e) = produce_immediate(e, r)
      BY <1>0, <1>1, <1>3 DEF i_type_inst, FitsField, i_type_inst_full_word
    <2>2. /\ Produces(Patched(produce_immediate(e, rt)), rt, v)
          /\ ProducesFor(Patched(produce_immediate(e, at) \o <<z>>), z, v)
      BY ProduceCode
    <2>. QED BY <2>1, <2>2
  <1>. QED BY <1>2, <1>3

LEMMA LoadImmediateMeans ==
  ASSUME NEW l, l.op \in {"li", "la"}, l.rs = 0, IntegerLine(l),
         NEW b, Fresh(b), NEW bd, NEW c, c = Patched(ASM_CODE(l)),
         NEW n, Runs(b, bd, c, n), Over(n, c)
  PROVE  Means(l, bd, b, Arrived(n), Len(c))
  <1>1. /\ l.op \in ComputeOps /\ l.op \notin TrapOps /\ l.op # "lui" /\ ~(l.op = "la" /\ l.rs # 0)
    BY DEF ComputeOps, TrapOps
  <1>2. c = Patched(i_type_inst("ori", l.rd, 0, Immediate(l)))
    BY <1>1, ComputeRule DEF LoadImmediateLine
  <1>3. /\ Immediate(l) \in Exprs /\ Immediate(l).bits = "all" /\ Immediate(l).value = l.imm
        /\ l.rd \in Registers /\ l.imm \in Int
    BY LineExprs DEF IntegerLine, Immediate
  <1>4. Inst("add", 0, 0, 0, 0, "none").bits = "none" /\ Inst("add", 0, 0, 0, 0, "none").op \notin LoadStore
    BY DEF Inst, LoadStore, LoadOps, StoreOps, FloatLoadStore
  <1>5. Produces(c, l.rd, l.imm)
    BY <1>2, <1>3, <1>4, IntoCode
  <1>6. PICK p, i : Puts(p, i, b, bd, c, n, l.rd, Low(l.imm))
    BY <1>3, <1>5, ProduceInto
  <1>7. First(l, b) = 0 /\ Low(l.imm) \in Words
    BY <1>3, LowType DEF First, Fresh
  <1>8. IsResult(l, bd, b, Low(l.imm))
    <2>1. Low(l.imm) = Low(First(l, b) + l.imm)
      BY <1>3, <1>7
    <2>. QED BY <2>1 DEF IsResult, LoadLines
  <1>9. ~Overflows(l, b)
    BY DEF Overflows
  <1>. QED BY <1>1, <1>6, <1>7, <1>8, <1>9, PutsMeans

\* la adds with addi: the address it is to leave, or overflow.
LEMMA LoadAddressMeans ==
  ASSUME NEW l, l.op = "la", l.rs \notin {0, at}, IntegerLine(l),
         NEW b, Fresh(b), NEW bd, NEW c, c = Patched(ASM_CODE(l)),
         NEW n, Runs(b, bd, c, n), Over(n, c), n.exception # "Ov"
  PROVE  Means(l, bd, b, Arrived(n), Len(c))
  <1>1. l.op \in ComputeOps /\ l.op \notin TrapOps /\ "addi" \in {"addi", "addiu", "slti", "sltiu"}
    BY DEF ComputeOps, TrapOps
  <1>2. c = Patched(i_type_inst("addi", l.rd, l.rs, Immediate(l)))
    BY <1>1, ComputeRule DEF LoadImmediateLine
  <1>3. /\ Immediate(l) \in Exprs /\ Immediate(l).bits = "all" /\ Immediate(l).value = l.imm
        /\ l.rd \in Registers /\ l.rs \in Registers /\ l.imm \in Int /\ l.rs # at
    BY LineExprs DEF IntegerLine, Immediate
  <1>4. PICK p, i : Brings(p, i, b, bd, c, n, "addi", l.rd, l.rs, l.imm)
    <2>1. \E p, i : Brings(p, i, b, bd, c, n, "addi", l.rd, l.rs, Immediate(l).value)
      BY <1>1, <1>2, <1>3, ImmediateRun
    <2>. QED BY <1>3, <2>1
  <1>5. i.op \in {"addi", "add"} /\ Operands(i, p, b.R[l.rs], Low(l.imm), l.rd)
    BY <1>4 DEF Brings, ImmOps
  <1>. DEFINE a == b.R[l.rs]
              w == Low(a + Low(l.imm))
  <1>6. a \in Words /\ Low(l.imm) \in Words /\ a \in Int /\ Low(l.imm) \in Int /\ First(l, b) = a
    BY <1>5, WordBounds DEF Operands, First
  <1>7. w \in Words /\ w = Low(First(l, b) + l.imm)
    <2>1. a + Low(l.imm) \in Int
      BY <1>6
    <2>2. Low(a + Low(l.imm)) = Low(a + l.imm)
      BY <1>3, <1>6, LowOfSum
    <2>. QED BY <1>6, <2>1, <2>2, LowType
  <1>8. Effect(p, bd, i) = Raise(p, "Ov") \/ Effect(p, bd, i) = Set(p, l.rd, w)
    <2>1. Effect(p, bd, i) = Add(p, i)
      BY <1>5, EffectKinds DEF AddOps
    <2>. QED BY <1>5, <2>1 DEF Add, Operands
  <1>. HIDE DEF a, w
  <1>9. Same(p, b) /\ Len(c) \in Nat /\ DoneBy(n, p, bd, i, Len(c))
    BY <1>4, DueEnds DEF Brings
  <1>10. Effect(p, bd, i) # Raise(p, "Ov")
    <2>1. ASSUME Effect(p, bd, i) = Raise(p, "Ov") PROVE n.exception = "Ov"
      <3>1. n = [Raise(p, "Ov") EXCEPT !.PC = Len(c) + 1] /\ p \in Machines
        BY <1>9, <2>1 DEF DoneBy, Same, Clean
      <3>. QED BY <3>1 DEF Raise, Machines
    <2>. QED BY <2>1
  <1>11. IsResult(l, bd, b, w)
    BY <1>7 DEF IsResult, LoadLines
  <1>12. ~Overflows(l, b)
    BY DEF Overflows
  <1>13. Puts(p, i, b, bd, c, n, l.rd, w)
    BY <1>4, <1>8, <1>10 DEF Brings, Puts
  <1>. QED BY <1>1, <1>7, <1>11, <1>12, <1>13, PutsMeans

LEMMA SignedOfWord ==
  ASSUME NEW v \in Int, InRange(v)
  PROVE  Signed(Low(v)) = v
  <1>. DEFINE x == Low(v)
  <1>1. x \in Words /\ x \in Int /\ 0 <= x /\ x < Word
        /\ Signed(x) = (IF x >= Word \div 2 THEN x - Word ELSE x)
    BY LowType, WordBounds
  <1>2. Word \div 2 \in Int /\ Word = 2 * (Word \div 2) /\ Word \div 2 >= 1 /\ Word \in Int
    BY Widths
  <1>3. CASE v >= 0
    <2>1. v \in Words
      BY <1>2, <1>3 DEF InRange, Words
    <2>2. x = v
      BY <2>1, LowSmall
    <2>. QED BY <1>1, <1>2, <2>2 DEF InRange
  <1>4. CASE v < 0
    <2>1. v + Word \in Words /\ v + 1 * Word = v + Word
      BY <1>2, <1>4 DEF InRange, Words
    <2>2. Low(v + 1 * Word) = Low(v)
      BY LowShift, 1 \in Int
    <2>3. Low(v + Word) = v + Word
      BY <2>1, LowSmall
    <2>4. x = v + Word
      BY <2>1, <2>2, <2>3
    <2>. QED BY <1>1, <1>2, <1>4, <2>4 DEF InRange
  <1>. QED BY <1>3, <1>4

\* The negative of a word is a word, but for the least.
LEMMA SignedNegative ==
  ASSUME NEW v \in Int, Signed(Low(v)) # -(Word \div 2)
  PROVE  Signed(Low(-v)) = -Signed(Low(v))
  <1>. DEFINE s == Signed(Low(v))
  <1>1. Low(v) \in Words /\ s \in Int /\ s >= -(Word \div 2) /\ s < Word \div 2
    BY LowType, WordBounds
  <1>2. Low(s) = Low(v)
    BY <1>1, SignedLow
  <1>3. Low(-s) = Low(-v)
    <2>. HIDE DEF s
    <2>1. 0 - v = -v /\ 0 - s = -s /\ -v \in Int /\ -s \in Int
      BY <1>1
    <2>2. Low(0 - Low(s)) = Low(0 - s) /\ Low(0 - Low(v)) = Low(0 - v)
      BY <1>1, LowOfSum, 0 \in Int
    <2>. QED BY <1>2, <2>1, <2>2
  <1>4. -s \in Int /\ InRange(-s)
    BY <1>1, Widths DEF InRange
  <1>. HIDE DEF s
  <1>5. Signed(Low(-s)) = -s
    BY <1>4, SignedOfWord
  <1>. QED BY <1>3, <1>5 DEF s

\* A subtraction of an immediate is an addition of its negative.
SubtractsWord(l) == l.op = "sub" => Signed(Low(l.imm)) # -(Word \div 2)

LEMMA Difference ==
  ASSUME NEW l, l.op \in SubOps, l.form = "imm", IntegerLine(l), SubtractsWord(l), NEW b, Fresh(b)
  PROVE  /\ First(l, b) \in Words /\ Low(-l.imm) \in Words
         /\ Low(First(l, b) + Low(-l.imm)) = Low(X(l, b) - Y(l, b))
         /\ Overflows(l, b) <=>
              /\ l.op = "sub"
              /\ ARITH_OVFL(Low(First(l, b) + Low(-l.imm)), First(l, b), Low(-l.imm))
  <1>. DEFINE a == First(l, b)
              o == Low(l.imm)
              d == Low(-l.imm)
              v == l.imm
  <1>1. /\ a \in Words /\ o \in Words /\ d \in Words /\ v \in Int /\ Other(l, b) = o
    <2>1. b.R \in [Registers -> Words] /\ l.imm \in Int /\ -l.imm \in Int /\ l.rs \in Registers
      BY DEF Fresh, Machines, IntegerLine
    <2>. QED BY <2>1, LowType DEF First, Other
  <1>2. X(l, b) = Signed(a) /\ Y(l, b) = Signed(o)
    <2>1. l.op \notin UnsignedOps
      BY DEF SubOps, UnsignedOps
    <2>. QED BY <1>1, <2>1 DEF X, Y, Number
  <1>3. Low(a + d) = Low(Signed(a) - Signed(o))
    <2>1. Low(Signed(a) - Signed(o)) = Low(a - o)
      BY <1>1, SignedDifference
    <2>. HIDE DEF a
    <2>2. a \in Int /\ -v \in Int /\ a + (-v) = a - v
      BY <1>1, WordBounds
    <2>3. Low(a + Low(-v)) = Low(a + (-v)) /\ Low(a - Low(v)) = Low(a - v)
      BY <1>1, <2>2, LowOfSum
    <2>. QED BY <2>1, <2>2, <2>3
  <1>4. ARITH_OVFL(Low(a + d), a, d) <=> ~InRange(Signed(a) + Signed(d))
    BY <1>1, SignedSum
  <1>5. l.op = "sub" => Signed(d) = -Signed(o)
    BY <1>1, SignedNegative DEF SubtractsWord
  <1>6. Signed(a) \in Int /\ Signed(o) \in Int /\ Signed(a) + (-Signed(o)) = Signed(a) - Signed(o)
    BY <1>1, WordBounds
  <1>7. Overflows(l, b) <=> l.op = "sub" /\ ~InRange(Signed(a) - Signed(o))
    BY <1>2 DEF Overflows, SubOps
  <1>. HIDE DEF a, o, d
  <1>8. Overflows(l, b) <=> l.op = "sub" /\ ARITH_OVFL(Low(a + d), a, d)
    BY <1>4, <1>5, <1>6, <1>7
  <1>9. Low(a + d) = Low(X(l, b) - Y(l, b))
    BY <1>2, <1>3
  <1>. QED BY <1>1, <1>8, <1>9 DEF a, d

LEMMA SubImmediateMeans ==
  ASSUME NEW l, l.op \in SubOps, l.form = "imm", IntegerLine(l), l.rs # at, SubtractsWord(l),
         NEW b, Fresh(b), NEW bd, NEW c, c = Patched(ASM_CODE(l)),
         NEW n, Runs(b, bd, c, n), Over(n, c)
  PROVE  Means(l, bd, b, Arrived(n), Len(c))
  <1>0. PICK op : op = IF l.op = "sub" THEN "addi" ELSE "addiu"
    OBVIOUS
  <1>. DEFINE e == const_imm_expr(-l.imm)
              d == Low(-l.imm)
              a == First(l, b)
              w == Low(a + d)
  <1>1. /\ op \in {"addi", "addiu", "slti", "sltiu"} /\ l.op \in ComputeOps /\ l.op \notin TrapOps
        /\ {op, ImmOps[op]} \subseteq AddOps
        /\ \A i \in {op, ImmOps[op]} : i \in {"add", "addi"} <=> l.op = "sub"
    BY <1>0 DEF SubOps, ImmOps, ComputeOps, AddOps, TrapOps
  <1>2. c = Patched(i_type_inst(op, l.rd, l.rs, e))
    BY <1>0, <1>1, ComputeRule DEF SubLine
  <1>3. /\ a \in Words /\ d \in Words /\ w = Low(X(l, b) - Y(l, b))
        /\ Overflows(l, b) <=> l.op = "sub" /\ ARITH_OVFL(w, a, d)
        /\ a = b.R[l.rs] /\ w \in Words
    <2>1. /\ a \in Words /\ d \in Words /\ w = Low(X(l, b) - Y(l, b))
          /\ Overflows(l, b) <=> l.op = "sub" /\ ARITH_OVFL(w, a, d)
      BY Difference
    <2>2. a + d \in Int
      BY <2>1, WordBounds
    <2>. QED BY <2>1, <2>2, LowType DEF First
  <1>4. e \in Exprs /\ e.bits = "all" /\ Low(e.value) = d /\ l.rd \in Registers /\ l.rs \in Registers
    <2>1. l.imm \in Int /\ l.known \in BOOLEAN /\ -l.imm \in Int /\ e.value = Signed(d) /\ e.bits = "all"
      BY DEF IntegerLine, const_imm_expr
    <2>2. e \in Exprs
      BY <2>1, LineExprs
    <2>3. Low(Signed(d)) = d
      BY <1>3, SignedLow
    <2>. QED BY <2>1, <2>2, <2>3 DEF IntegerLine
  <1>. HIDE DEF e, d, a, w
  <1>5. IsResult(l, bd, b, w)
    BY <1>3 DEF IsResult, SubOps, LoadLines
  <1>6. PICK p, i : Brings(p, i, b, bd, c, n, op, l.rd, l.rs, e.value)
    BY <1>1, <1>2, <1>4, ImmediateRun
  <1>7. CASE i.op \in {op, ImmOps[op]} /\ Operands(i, p, b.R[l.rs], d, l.rd)
    <2>1. Effect(p, bd, i) = IF Overflows(l, b) THEN Raise(p, "Ov") ELSE Set(p, l.rd, w)
      <3>1. Effect(p, bd, i) = Add(p, i)
        BY <1>1, <1>7, EffectKinds
      <3>2. p.R[i.rs] = a /\ Operand(p, i) = d /\ Dest(i) = l.rd
        BY <1>3, <1>7 DEF Operands
      <3>3. i.op \in {"add", "addi"} <=> l.op = "sub"
        BY <1>1, <1>7
      <3>. QED BY <1>3, <3>1, <3>2, <3>3 DEF Add, w
    <2>2. CASE Overflows(l, b)
      <3>1. Same(p, b) /\ Len(c) \in Nat /\ DoneBy(n, p, bd, i, Len(c))
        BY <1>6, DueEnds DEF Brings
      <3>2. n = [Raise(p, "Ov") EXCEPT !.PC = Len(c) + 1]
        BY <2>1, <2>2, <3>1 DEF DoneBy
      <3>. QED BY <1>1, <2>2, <3>1, <3>2, RaiseMeans
    <2>3. CASE ~Overflows(l, b)
      <3>1. Puts(p, i, b, bd, c, n, l.rd, w)
        BY <1>6, <2>1, <2>3 DEF Brings, Puts
      <3>. QED BY <1>1, <1>3, <1>5, <2>3, <3>1, PutsMeans
    <2>. QED BY <2>2, <2>3
  <1>8. CASE l.rs = 0 /\ Effect(p, bd, i) = Set(p, l.rd, d)
    <2>1. a = 0 /\ w = d
      <3>1. a = 0 /\ d \in Int /\ 0 + d = d
        BY <1>3, <1>8, WordBounds DEF Fresh
      <3>. QED BY <1>3, <3>1, LowSmall DEF w
    <2>2. ~Overflows(l, b)
      <3>1. ~ARITH_OVFL(d, 0, d)
        BY DEF ARITH_OVFL
      <3>. QED BY <1>3, <2>1, <3>1
    <2>3. Puts(p, i, b, bd, c, n, l.rd, w)
      BY <1>6, <1>8, <2>1 DEF Brings, Puts
    <2>. QED BY <1>1, <1>3, <1>5, <2>2, <2>3, PutsMeans
  <1>. QED BY <1>4, <1>6, <1>7, <1>8 DEF Brings

\* A comparison the other way round, with the immediate in $at or, where it is
\* 0, in register 0.
LEMMA GreaterImmediateMeans ==
  ASSUME NEW l, l.op \in {"sgt", "sgtu"}, l.form = "imm", IntegerLine(l), l.rs # at,
         NEW b, Fresh(b), NEW bd, NEW c, c = Patched(ASM_CODE(l)),
         NEW n, Runs(b, bd, c, n), Over(n, c)
  PROVE  Means(l, bd, b, Arrived(n), Len(c))
  <1>0. PICK op : op = IF l.op = "sgt" THEN "slt" ELSE "sltu"
    OBVIOUS
  <1>1. /\ l.op \in ComputeOps /\ l.op \notin TrapOps /\ l.op \in SetOps
        /\ op \in SetLessOps /\ op \in IntegerOps /\ op \notin Arithmetic /\ op \notin Logical
        /\ op \notin LoadStore
        /\ (op \in {"slt", "slti"} <=> l.op \in {"slt", "slti", "sgt"})
    BY <1>0 DEF ComputeOps, TrapOps, SetOps, SetLessOps, IntegerOps, Arithmetic, Logical, LoadStore,
       LoadOps, StoreOps, FloatLoadStore
  <1>2. /\ Immediate(l) \in Exprs /\ Immediate(l).bits = "all" /\ Immediate(l).value = l.imm
        /\ Immediate(l).known = l.known
        /\ l.rd \in Registers /\ l.rs \in Registers /\ l.imm \in Int
        /\ 0 \in Registers /\ at \in Registers
    BY LineExprs, SmallRegisters DEF IntegerLine, Immediate
  <1>3. /\ First(l, b) = b.R[l.rs] /\ Other(l, b) = Low(l.imm)
        /\ First(l, b) \in Words /\ Other(l, b) \in Words /\ b.R[0] = 0
    BY <1>2, LowType DEF First, Other, Fresh, Machines
  <1>4. ASSUME NEW r \in Registers
        PROVE  /\ set_gt_inst(l.op, l.rd, l.rs, r) = <<Inst(op, l.rd, r, l.rs, 0, "none")>>
               /\ Inst(op, l.rd, r, l.rs, 0, "none") \in Straight /\ op # "fatal_error"
               /\ Patched(<<Inst(op, l.rd, r, l.rs, 0, "none")>>) = <<Inst(op, l.rd, r, l.rs, 0, "none")>>
    <2>1. set_gt_inst(l.op, l.rd, l.rs, r) = r_type_inst(op, l.rd, r, l.rs)
      BY <1>0 DEF set_gt_inst
    <2>. QED BY <1>1, <1>2, <2>1, RegisterInst
  <1>5. ASM_CODE(l) = InRegister(l) \o set_gt_inst(l.op, l.rd, l.rs, Second(l))
    <2>1. /\ l.op \notin {"sle", "sleu"} /\ l.op \notin {"sge", "sgeu"} /\ l.op \notin {"seq", "sne"}
      OBVIOUS
    <2>2. SetLine(l) = InRegister(l) \o set_gt_inst(l.op, l.rd, l.rs, Second(l))
      BY <2>1, Zenon DEF SetLine
    <2>. QED BY <1>1, <2>2, ComputeRule
  <1>6. ASSUME NEW r \in Registers, NEW p, Same(p, b), p.R[r] = Low(l.imm)
        PROVE  Finds(Inst(op, l.rd, r, l.rs, 0, "none"), l, p, b)
    <2>. DEFINE i == Inst(op, l.rd, r, l.rs, 0, "none")
    <2>1. i.op = op /\ i.rs = r /\ i.rt = l.rs /\ i.rd = l.rd
      BY DEF Inst
    <2>. HIDE DEF i
    <2>2. p.R[l.rs] = b.R[l.rs]
      BY <1>2, <1>6 DEF Same
    <2>3. Operand(p, i) = p.R[l.rs] /\ Dest(i) = l.rd
      BY <1>1, <2>1, OnRegisterFields
    <2>4. Operands(i, p, Other(l, b), First(l, b), l.rd)
      BY <1>3, <1>6, <2>1, <2>2, <2>3 DEF Operands
    <2>5. Finds(i, l, p, b)
      BY <1>1, <2>1, <2>4 DEF Finds
    <2>. QED BY <2>5 DEF i
  <1>7. CASE l.known /\ l.imm = 0
    <2>. DEFINE i == Inst(op, l.rd, 0, l.rs, 0, "none")
    <2>1. InRegister(l) = <<>> /\ Second(l) = 0
      BY <1>2, <1>7 DEF InRegister, Second, is_zero_imm
    <2>2. ASM_CODE(l) = <<>> \o <<i>> /\ i \in Straight /\ i.op # "fatal_error" /\ Patched(<<i>>) = <<i>>
      <3>1. i.op = op
        BY DEF Inst
      <3>. QED BY <1>2, <1>4, <1>5, <2>1, <3>1
    <2>. HIDE DEF i
    <2>3. c = <<i>>
      <3>1. <<>> \o <<i>> = <<i>>
        BY Pairs
      <3>. QED BY <2>2, <3>1
    <2>4. Len(c) = 1 /\ c[1] = i
      BY <2>3
    <2>5. Due(b, i, b, bd, c, n)
      BY <2>4, FreshSame DEF Due
    <2>6. b.R[0] = Low(l.imm)
      <3>1. 0 \in Words
        BY Widths DEF Words
      <3>. QED BY <1>3, <1>7, <3>1, LowSmall
    <2>7. Finds(i, l, b, b)
      BY <1>2, <1>6, <2>6, FreshSame DEF i
    <2>. QED BY <2>2, <2>5, <2>7, FoundMeans
  <1>8. CASE ~(l.known /\ l.imm = 0)
    <2>. DEFINE i == Inst(op, l.rd, at, l.rs, 0, "none")
    <2>1. InRegister(l) = i_type_inst("ori", at, 0, Immediate(l)) /\ Second(l) = at
      BY <1>2, <1>8 DEF InRegister, Second, is_zero_imm
    <2>2. /\ ASM_CODE(l) = i_type_inst("ori", at, 0, Immediate(l)) \o <<i>>
          /\ i \in Straight /\ i.op # "fatal_error" /\ i.op = op /\ i.bits = "none"
      <3>1. i.op = op /\ i.bits = "none"
        BY DEF Inst
      <3>. QED BY <1>2, <1>4, <1>5, <2>1, <3>1
    <2>3. \A p : Same(p, b) /\ p.R[at] = Low(l.imm) => Finds(i, l, p, b)
      BY <1>2, <1>6
    <2>. HIDE DEF i
    <2>4. ProducesFor(c, i, l.imm)
      <3>1. i.op \notin LoadStore
        BY <1>1, <2>2
      <3>2. ProducesFor(Patched(i_type_inst("ori", at, 0, Immediate(l)) \o <<i>>), i, Immediate(l).value)
        BY <1>2, <2>2, <3>1, IntoCode
      <3>. QED BY <1>2, <2>2, <3>2
    <2>5. PICK p : Due(p, i, b, bd, c, n) /\ p.R[at] = Low(l.imm)
      BY <1>2, <2>4, ProduceRun
    <2>6. Finds(i, l, p, b)
      BY <2>3, <2>5 DEF Due
    <2>. QED BY <2>2, <2>5, <2>6, FoundMeans
  <1>. QED BY <1>7, <1>8

\* A trap on an immediate that fits; the assembler stops at any other.
LEMMA TrapImmediateMeans ==
  ASSUME NEW l, l.op \in TrapOps \cap Arithmetic, l.form = "imm", IntegerLine(l),
         \A k \in DOMAIN ASM_CODE(l) : ASM_CODE(l)[k].op # "fatal_error",
         NEW b, Fresh(b), NEW bd, NEW c, c = Patched(ASM_CODE(l)),
         NEW n, Runs(b, bd, c, n), Over(n, c)
  PROVE  Means(l, bd, b, Arrived(n), Len(c))
  <1>. DEFINE e == Immediate(l)
              v == l.imm
              i == Inst(l.op, 0, l.rs, 0, v, "none")
  <1>1. /\ l.op \in ComputeOps /\ l.op \notin LoadStore /\ l.op \notin {"ori", "addi", "addiu", "lui"}
        /\ l.op \notin DOMAIN ImmOps
    BY DEF ComputeOps, TrapOps, LoadStore, LoadOps, StoreOps, FloatLoadStore, ImmOps
  <1>2. /\ e.bits = "all" /\ e.value = v /\ e.known = l.known /\ eval_imm_expr(e) = v
        /\ l.rs \in Registers /\ v \in Int /\ 0 \in Registers
    BY SmallRegisters DEF IntegerLine, Immediate, eval_imm_expr
  <1>3. ASM_CODE(l) = i_type_inst(l.op, 0, l.rs, e)
    BY <1>1, ComputeRule DEF TrapLine
  <1>. HIDE DEF e
  <1>4. CASE l.known /\ Short(v) = v
    <2>1. ASM_CODE(l) = <<i>>
      BY <1>1, <1>2, <1>3, <1>4 DEF i_type_inst, FitsField, OneInst, Instr, Inst
    <2>2. i.op = l.op /\ i.rs = l.rs /\ i.rt = 0 /\ i.imm = v /\ i.bits = "none"
      BY DEF Inst
    <2>3. i \in Straight /\ i.op # "fatal_error"
      BY <1>2, <1>4, <2>2, ImmediateInst
    <2>. HIDE DEF i
    <2>4. c = <<i>>
      BY <2>1, <2>2, PatchedKnown
    <2>5. Len(c) = 1 /\ c[1] = i
      BY <2>4
    <2>6. Due(b, i, b, bd, c, n)
      BY <2>5, FreshSame DEF Due
    <2>7. First(l, b) = b.R[l.rs] /\ Other(l, b) = Low(v) /\ First(l, b) \in Words /\ Other(l, b) \in Words
      BY <1>2, LowType DEF First, Other, Fresh, Machines
    <2>8. Operands(i, b, First(l, b), Other(l, b), Dest(i))
      BY <1>4, <2>2, <2>7 DEF Operands, Operand
    <2>9. Finds(i, l, b, b)
      BY <2>2, <2>8 DEF Finds
    <2>. QED BY <2>3, <2>6, <2>9, FoundMeans
  <1>5. CASE ~(l.known /\ Short(v) = v)
    <2>1. ASM_CODE(l) = Fatal
      BY <1>1, <1>2, <1>3, <1>5 DEF i_type_inst, FitsField, i_type_inst_full_word
    <2>2. 1 \in DOMAIN Fatal /\ Fatal[1].op = "fatal_error"
      BY DEF Fatal, Instr
    <2>. QED BY <2>1, <2>2
  <1>. QED BY <1>4, <1>5

\* None of these lines stops the assembler.
Harmless(c) == \A k \in DOMAIN c : c[k].op # "fatal_error"

LEMMA HarmlessOne ==
  ASSUME NEW c, NEW x, c = <<x>>, x.op # "fatal_error"
  PROVE  Harmless(c)
  BY DEF Harmless

LEMMA HarmlessTwo ==
  ASSUME NEW c, NEW x, NEW z, c = <<x, z>>, x.op # "fatal_error", z.op # "fatal_error"
  PROVE  Harmless(c)
  BY DEF Harmless

LEMMA HarmlessThree ==
  ASSUME NEW c, NEW x, NEW y, NEW z, c = <<x, y, z>>, x.op # "fatal_error", y.op # "fatal_error",
         z.op # "fatal_error"
  PROVE  Harmless(c)
  BY DEF Harmless

LEMMA HarmlessProduced ==
  ASSUME NEW c, NEW v
  PROVE  /\ \A rt : Produces(c, rt, v) => Harmless(c)
         /\ \A z : ProducesFor(c, z, v) /\ z.op # "fatal_error" => Harmless(c)
  <1>1. \A r, s : LuiOf(r, v).op # "fatal_error" /\ OriOf(r, s, v).op # "fatal_error"
    BY DEF LuiOf, OriOf, Inst
  <1>2. ASSUME NEW rt, Produces(c, rt, v) PROVE Harmless(c)
    <2>. DEFINE x == LuiOf(rt, v)
                y == OriOf(rt, 0, v)
                x2 == LuiOf(at, v)
                y2 == OriOf(rt, at, v)
    <2>1. /\ x.op # "fatal_error" /\ y.op # "fatal_error" /\ x2.op # "fatal_error"
          /\ y2.op # "fatal_error" /\ (c = <<x>> \/ c = <<y>> \/ c = <<x2, y2>>)
      BY <1>1, <1>2 DEF Produces
    <2>. HIDE DEF x, y, x2, y2
    <2>. QED BY <2>1, HarmlessOne, HarmlessTwo
  <1>3. ASSUME NEW z, ProducesFor(c, z, v), z.op # "fatal_error" PROVE Harmless(c)
    <2>. DEFINE x == LuiOf(at, v)
                y == OriOf(at, 0, v)
                y2 == OriOf(at, at, v)
    <2>1. /\ x.op # "fatal_error" /\ y.op # "fatal_error" /\ y2.op # "fatal_error"
          /\ (c = <<x, z>> \/ c = <<y, z>> \/ c = <<x, y2, z>>)
      BY <1>1, <1>3 DEF ProducesFor
    <2>. HIDE DEF x, y, y2
    <2>. QED BY <1>3, <2>1, HarmlessTwo, HarmlessThree
  <1>. QED BY <1>2, <1>3

LEMMA HarmlessImmediate ==
  ASSUME NEW op \in {"addi", "addiu", "slti", "sltiu"}, NEW rt \in Registers, NEW rs \in Registers,
         NEW e \in Exprs, e.bits = "all"
  PROVE  Harmless(Patched(i_type_inst(op, rt, rs, e)))
  <1>0. PICK c : c = Patched(i_type_inst(op, rt, rs, e))
    OBVIOUS
  <1>. DEFINE x == Inst(op, 0, rs, rt, e.value, "none")
              z == Inst(ImmOps[op], rt, rs, at, 0, "none")
  <1>1. x.op # "fatal_error" /\ z.op # "fatal_error"
    BY DEF Inst, ImmOps
  <1>2. c = <<x>> \/ Produces(c, rt, e.value) \/ ProducesFor(c, z, e.value)
    BY <1>0, ImmediateCode
  <1>. HIDE DEF x, z
  <1>3. Harmless(c)
    BY <1>1, <1>2, HarmlessOne, HarmlessProduced
  <1>. QED BY <1>0, <1>3

\* Lines that compute with an immediate, of a width the machine has no room for
\* in one instruction too, and do not use the assembler's register.
WithImmediate(l) ==
  \/ l.op \in TrapOps \cap Arithmetic /\ l.form = "imm"
  \/ l.op \in AddOps \cup SetOps \cup SubOps /\ l.form = "imm" /\ l.rs # at
     /\ (l.op = "sub" => InRange(l.imm))
  \/ l.op = "li" /\ l.rs = 0
  \/ l.op = "la" /\ l.rs # at

LEMMA ImmediateNotFatal ==
  ASSUME NEW l, WithImmediate(l), l.op \notin TrapOps, IntegerLine(l), CodeOK(ASM_CODE(l))
  PROVE  ~\E k \in DOMAIN ASM_CODE(l) : ASM_CODE(l)[k].op = "fatal_error"
  <1>0. PICK c : c = Patched(ASM_CODE(l))
    OBVIOUS
  <1>1. /\ Immediate(l) \in Exprs /\ Immediate(l).bits = "all" /\ Immediate(l).known = l.known
        /\ const_imm_expr(-l.imm) \in Exprs /\ const_imm_expr(-l.imm).bits = "all"
        /\ l.rd \in Registers /\ l.rs \in Registers
        /\ 0 \in Registers /\ at \in Registers
    BY LineExprs, SmallRegisters DEF IntegerLine, Immediate, const_imm_expr
  <1>2. CASE l.op \in AddOps \cup SetLessOps /\ l.form = "imm"
    <2>1. PICK op \in {"addi", "addiu", "slti", "sltiu"} :
            op = IF l.op \in Arithmetic \cup Logical THEN l.op ELSE op_to_imm_op(l.op)
      BY <1>2 DEF AddOps, SetLessOps, Arithmetic, Logical, op_to_imm_op
    <2>2. l.op \in ComputeOps
      BY <1>2 DEF ComputeOps, AddOps, SetLessOps, SetOps
    <2>3. c = Patched(i_type_inst(op, l.rd, l.rs, Immediate(l)))
      BY <1>0, <1>2, <2>1, <2>2, ComputeRule DEF BinaryLine
    <2>4. Harmless(c)
      BY <1>1, <2>3, HarmlessImmediate
    <2>. QED BY <1>0, <2>4, PatchedType DEF Harmless
  <1>3. CASE l.op \in SubOps /\ l.form = "imm"
    <2>1. PICK op \in {"addi", "addiu", "slti", "sltiu"} : op = IF l.op = "sub" THEN "addi" ELSE "addiu"
      OBVIOUS
    <2>2. l.op \in ComputeOps
      BY <1>3 DEF ComputeOps
    <2>3. c = Patched(i_type_inst(op, l.rd, l.rs, const_imm_expr(-l.imm)))
      BY <1>0, <1>3, <2>1, <2>2, ComputeRule DEF SubLine
    <2>4. Harmless(c)
      BY <1>1, <2>3, HarmlessImmediate
    <2>. QED BY <1>0, <2>4, PatchedType DEF Harmless
  <1>4. CASE l.op \in {"sgt", "sgtu"} /\ l.form = "imm"
    <2>0. PICK op \in {"slt", "sltu"} : op = IF l.op = "sgt" THEN "slt" ELSE "sltu"
      OBVIOUS
    <2>. DEFINE z(r) == Inst(op, l.rd, r, l.rs, 0, "none")
    <2>1. \A r : set_gt_inst(l.op, l.rd, l.rs, r) = <<z(r)>>
      BY <2>0, <1>4 DEF set_gt_inst, r_type_inst, Instr, Inst
    <2>2. \A r : z(r).op # "fatal_error" /\ z(r).bits = "none" /\ z(r).op \notin LoadStore
      BY <2>0 DEF Inst, LoadStore, LoadOps, StoreOps, FloatLoadStore
    <2>3. ASM_CODE(l) = InRegister(l) \o set_gt_inst(l.op, l.rd, l.rs, Second(l))
      <3>1. /\ l.op \notin {"sle", "sleu"} /\ l.op \notin {"sge", "sgeu"} /\ l.op \notin {"seq", "sne"}
            /\ l.op \in ComputeOps
        BY <1>4 DEF ComputeOps, SetOps
      <3>2. SetLine(l) = InRegister(l) \o set_gt_inst(l.op, l.rd, l.rs, Second(l))
        BY <1>4, <3>1, Zenon DEF SetLine
      <3>. QED BY <1>4, <3>1, <3>2, ComputeRule
    <2>. HIDE DEF z
    <2>4. CASE is_zero_imm(Immediate(l))
      <3>1. ASM_CODE(l) = <<>> \o <<z(0)>>
        BY <1>4, <2>1, <2>3, <2>4 DEF InRegister, Second
      <3>2. ASM_CODE(l) = <<z(0)>>
        BY <3>1, Pairs
      <3>3. Harmless(ASM_CODE(l))
        BY <2>2, <3>2, HarmlessOne
      <3>. QED BY <3>3 DEF Harmless
    <2>5. CASE ~is_zero_imm(Immediate(l))
      <3>1. ASM_CODE(l) = i_type_inst("ori", at, 0, Immediate(l)) \o <<z(at)>>
        BY <1>4, <2>1, <2>3, <2>5 DEF InRegister, Second
      <3>2. ProducesFor(c, z(at), Immediate(l).value)
        <4>1. ProducesFor(Patched(i_type_inst("ori", at, 0, Immediate(l)) \o <<z(at)>>), z(at), Immediate(l).value)
          BY <1>1, <2>2, IntoCode
        <4>. QED BY <1>0, <3>1, <4>1
      <3>3. Harmless(c)
        BY <2>2, <3>2, HarmlessProduced
      <3>. QED BY <1>0, <3>3, PatchedType DEF Harmless
    <2>. QED BY <2>4, <2>5
  <1>5. CASE l.op \in {"li", "la"} /\ ~(l.op = "la" /\ l.rs # 0)
    <2>1. l.op \in ComputeOps /\ l.op # "lui"
      BY <1>5 DEF ComputeOps
    <2>2. c = Patched(i_type_inst("ori", l.rd, 0, Immediate(l)))
      BY <1>0, <1>5, <2>1, ComputeRule DEF LoadImmediateLine
    <2>3. Inst("add", 0, 0, 0, 0, "none").bits = "none" /\ Inst("add", 0, 0, 0, 0, "none").op \notin LoadStore
      BY DEF Inst, LoadStore, LoadOps, StoreOps, FloatLoadStore
    <2>4. Produces(c, l.rd, Immediate(l).value)
      BY <1>1, <2>2, <2>3, IntoCode
    <2>5. Harmless(c)
      BY <2>4, HarmlessProduced
    <2>. QED BY <1>0, <2>5, PatchedType DEF Harmless
  <1>6. CASE l.op = "la" /\ l.rs # 0
    <2>1. l.op \in ComputeOps /\ l.op # "lui" /\ "addi" \in {"addi", "addiu", "slti", "sltiu"}
      BY <1>6 DEF ComputeOps
    <2>2. c = Patched(i_type_inst("addi", l.rd, l.rs, Immediate(l)))
      BY <1>0, <1>6, <2>1, ComputeRule DEF LoadImmediateLine
    <2>3. Harmless(c)
      BY <1>1, <2>1, <2>2, HarmlessImmediate
    <2>. QED BY <1>0, <2>3, PatchedType DEF Harmless
  <1>7. \/ l.op \in AddOps \cup SetLessOps /\ l.form = "imm"
        \/ l.op \in SubOps /\ l.form = "imm"
        \/ l.op \in {"sgt", "sgtu"} /\ l.form = "imm"
        \/ l.op \in {"li", "la"}
    BY DEF WithImmediate, SetOps, SetLessOps
  <1>. QED BY <1>2, <1>3, <1>4, <1>5, <1>6, <1>7

\* However wide the immediate is and whether its symbol is defined before or
\* after the line: an addition, a subtraction, a comparison, li or la with it
\* leaves what it promises and nothing else but $at, and overflows when it
\* should; a trap the assembler has an instruction for traps when it should.
\* Known to be wrong are a sub of the least word, a la that overflows and a
\* trap the assembler stops at.
THEOREM ImmediatesMeanWhatTheySay == Spec => [](WithImmediate(line) => MeansWhatItSays)
  <1>1. LineInv => (WithImmediate(line) => MeansWhatItSays)
    <2>. SUFFICES ASSUME LineInv, WithImmediate(line), ~KnownWrong PROVE MeansWhatItSays
      BY DEF MeansWhatItSays
    <2>0. line.op \in ComputeOps
      BY DEF WithImmediate, ComputeOps
    <2>1. line.op \notin FloatLines /\ IntegerLine(line) /\ CodeOK(ASM_CODE(line))
      <3>1. LineOK(line) /\ line.op \notin FloatLines
        BY <2>0, LinesOK, ComputeOpsApart DEF LineInv, TypeInv
      <3>2. line.op \notin FloatMoves \cup CompareOps \cup {"mfc1", "mfc1.d"}
        BY <3>1 DEF FloatLines
      <3>. QED BY <3>1, <3>2, AssembledOK DEF LineOK, IntegerLine, Destinations, Sources
    <2>2. stage # "fatal"
      <3>1. CASE line.op \in TrapOps
        BY <3>1 DEF KnownWrong, TrapTooWide
      <3>2. CASE line.op \notin TrapOps
        BY <2>1, <3>2, ImmediateNotFatal DEF LineInv
      <3>. QED BY <3>1, <3>2
    <2>3. ASSUME stage = "run", Ended PROVE Means(line, build, before, Settled, Len(code))
      <3>1. /\ code = Patched(ASM_CODE(line)) /\ Runs(before, build, code, m)
            /\ Over(m, code) /\ Fresh(before)
            /\ \A k \in DOMAIN ASM_CODE(line) : ASM_CODE(line)[k].op # "fatal_error"
        BY <2>3 DEF LineInv, Over, Ended
      <3>2. CASE line.op \in TrapOps \cap Arithmetic /\ line.form = "imm"
        <4>1. Means(line, build, before, Arrived(m), Len(code))
          BY <2>1, <3>1, <3>2, TrapImmediateMeans
        <4>. QED BY <4>1 DEF Settled, Arrived
      <3>3. CASE line.op \in AddOps \cup SetLessOps /\ line.form = "imm" /\ line.rs # at
        <4>1. Means(line, build, before, Arrived(m), Len(code))
          BY <2>1, <3>1, <3>3, BinaryImmediateMeans
        <4>. QED BY <4>1 DEF Settled, Arrived
      <3>4. CASE line.op \in {"sgt", "sgtu"} /\ line.form = "imm" /\ line.rs # at
        <4>1. Means(line, build, before, Arrived(m), Len(code))
          BY <2>1, <3>1, <3>4, GreaterImmediateMeans
        <4>. QED BY <4>1 DEF Settled, Arrived
      <3>5. CASE /\ line.op \in SubOps /\ line.form = "imm" /\ line.rs # at
                 /\ (line.op = "sub" => InRange(line.imm))
        <4>1. line.op = "sub" => line.imm # -(Word \div 2)
          BY <3>5 DEF KnownWrong, ImmediateOverflows
        <4>2. SubtractsWord(line)
          BY <2>1, <3>5, <4>1, SignedOfWord DEF SubtractsWord, IntegerLine
        <4>3. Means(line, build, before, Arrived(m), Len(code))
          BY <2>1, <3>1, <3>5, <4>2, SubImmediateMeans
        <4>. QED BY <4>3 DEF Settled, Arrived
      <3>6. CASE line.op \in {"li", "la"} /\ line.rs = 0
        <4>1. Means(line, build, before, Arrived(m), Len(code))
          BY <2>1, <3>1, <3>6, LoadImmediateMeans
        <4>. QED BY <4>1 DEF Settled, Arrived
      <3>7. CASE line.op = "la" /\ line.rs \notin {0, at}
        <4>1. m.exception # "Ov"
          BY <3>7 DEF KnownWrong, AddressTraps
        <4>2. Means(line, build, before, Arrived(m), Len(code))
          BY <2>1, <3>1, <3>7, <4>1, LoadAddressMeans
        <4>. QED BY <4>2 DEF Settled, Arrived
      <3>. QED BY <3>2, <3>3, <3>4, <3>5, <3>6, <3>7 DEF WithImmediate, SetOps, SetLessOps
    <2>. QED BY <2>1, <2>2, <2>3 DEF MeansWhatItSays
  <1>2. Init => LineInv
    BY LineInit
  <1>3. LineInv /\ [Next]_vars => LineInv'
    BY LineStep
  <1>. QED BY <1>1, <1>2, <1>3, PTL DEF Spec

-----------------------------------------------------------------------------
(***************************************************************************)
(* Multiplying and dividing.                                               *)
(***************************************************************************)
DoubleWord == Word * Word

\* HI and LO of p are v, as a double word; the rest of p is n.
Doubled(n, hi, lo) == [n EXCEPT !.LO = lo, !.HI = hi]
IsDouble(p, n, v) ==
  \E hi \in Words, lo \in Words, k \in Int :
    p = Doubled(n, hi, lo) /\ v = hi * Word + lo + k * DoubleWord

LEMMA Monotone ==
  ASSUME NEW a \in Nat, NEW b \in Nat, NEW c \in Nat, NEW d \in Nat, a <= c, b <= d
  PROVE  a * b <= c * d /\ a * b \in Nat
  <1>1. d - b \in Nat /\ c - a \in Nat
    OBVIOUS
  <1>2. \A u, v \in Nat : u * v \in Nat
    OBVIOUS
  <1>3. a * (d - b) \in Nat /\ (c - a) * d \in Nat /\ a * b \in Nat
    BY <1>1, <1>2
  <1>4. a * (d - b) = a * d - a * b /\ (c - a) * d = c * d - a * d
    BY <1>1
  <1>. QED BY <1>3, <1>4

LEMMA HalfTimes ==
  ASSUME NEW u \in 0 .. Half - 1, NEW v \in 0 .. Half - 1
  PROVE  u * v \in Words /\ u * v \in Nat
  <1>1. u \in Nat /\ v \in Nat /\ Half - 1 \in Nat /\ u <= Half - 1 /\ v <= Half - 1
    BY Widths
  <1>2. u * v <= (Half - 1) * (Half - 1) /\ u * v \in Nat
    BY <1>1, Monotone
  <1>3. (Half - 1) * (Half - 1) = Word - 2 * Half + 1
    BY Widths DEF Word
  <1>. QED BY <1>2, <1>3, Widths DEF Words

LEMMA DoubleUnique ==
  ASSUME NEW hi \in Words, NEW lo \in Words, NEW k \in Int, NEW v \in Int,
         v = hi * Word + lo + k * DoubleWord
  PROVE  v % DoubleWord = hi * Word + lo /\ Low(v) = lo
  <1>1. hi \in Nat /\ lo \in Nat /\ hi <= Word - 1 /\ lo <= Word - 1 /\ Word \in Nat \ {0}
    BY WordBounds, Widths
  <1>2. hi * Word <= (Word - 1) * Word /\ hi * Word \in Nat
    BY <1>1, Monotone
  <1>3. (Word - 1) * Word = DoubleWord - Word /\ DoubleWord \in Nat
    BY <1>1 DEF DoubleWord
  <1>4. hi * Word + lo \in 0 .. DoubleWord - 1 /\ DoubleWord \in Nat \ {0}
    BY <1>1, <1>2, <1>3
  <1>5. v = k * DoubleWord + (hi * Word + lo)
    BY <1>2, <1>3, <1>1
  <1>6. v % DoubleWord = hi * Word + lo
    <2>. DEFINE r == hi * Word + lo
    <2>. HIDE DEF r
    <2>1. r \in 0 .. DoubleWord - 1 /\ DoubleWord \in Nat \ {0} /\ v = k * DoubleWord + r
      BY <1>4, <1>5 DEF r
    <2>2. v \div DoubleWord = k /\ v % DoubleWord = r
      BY <2>1, DivModUnique, Zenon
    <2>. QED BY <2>2 DEF r
  <1>7. Low(v) = lo
    <2>1. v = lo + (hi + k * Word) * Word /\ hi + k * Word \in Int /\ lo \in Int
      BY <1>1 DEF DoubleWord
    <2>. QED BY <2>1, LowShift, LowSmall
  <1>. QED BY <1>6, <1>7

\* The carry of a sum of words, as the code finds it.
LEMMA Carried ==
  ASSUME NEW u \in Words, NEW v \in Words
  PROVE  /\ Low(u + v) \in Words
         /\ u + v = Low(u + v) + (IF Low(u + v) < u \/ Low(u + v) < v THEN 1 ELSE 0) * Word
  <1>1. u \in Int /\ v \in Int /\ 0 <= u /\ u < Word /\ 0 <= v /\ v < Word /\ Word \in Int
    BY WordBounds, Widths
  <1>2. Low(u + v) \in Words
    BY <1>1, LowType
  <1>3. CASE u + v < Word
    <2>1. u + v \in Words
      BY <1>1, <1>3, Widths DEF Words
    <2>2. Low(u + v) = u + v
      BY <2>1, LowSmall
    <2>. QED BY <1>1, <1>2, <2>2
  <1>4. CASE u + v >= Word
    <2>1. u + v - Word \in Words /\ u + v - Word \in Int /\ 1 \in Int
      BY <1>1, <1>4, Widths DEF Words
    <2>2. Low((u + v - Word) + 1 * Word) = Low(u + v - Word)
      BY <2>1, LowShift
    <2>3. Low(u + v) = u + v - Word
      BY <1>1, <2>1, <2>2, LowSmall
    <2>. QED BY <1>1, <1>2, <2>3
  <1>. QED BY <1>1, <1>3, <1>4

\* "high-school math": the sums of the products of halves, cut to words with
\* their carries, are the product.
LEMMA UnsignedProduct ==
  ASSUME NEW n, NEW x \in Words, NEW y \in Words
  PROVE  IsDouble(unsigned_multiply(n, x, y), n, x * y)
  <1>. DEFINE a == x \div Half
              b == x % Half
              c == y \div Half
              d == y % Half
              ad == Low(a * d)
              cb == Low(c * b)
              bd == Low(b * d)
              mid == Low(ad + cb)
              bh == bd \div Half
              bl == bd % Half
              mid2 == Low(mid + bh)
              mh == mid2 \div Half
              ml == mid2 % Half
              carry(sum, v, w) == IF sum < v \/ sum < w THEN 1 ELSE 0
              k1 == carry(mid, ad, cb)
              k2 == carry(mid2, mid, bh)
              lo == bl + ml * Half
              hi == Low(a * c + (k1 + k2) * Half + mh)
              h == a * c + (k1 + k2) * Half + mh
  <1>1. /\ a \in 0 .. Half - 1 /\ b \in 0 .. Half - 1 /\ c \in 0 .. Half - 1 /\ d \in 0 .. Half - 1
        /\ x = Half * a + b /\ y = Half * c + d
    <2>1. x \in Int /\ y \in Int
      BY WordBounds
    <2>. QED BY <2>1, Halves, DivMod, Widths
  <1>2. unsigned_multiply(n, x, y) = [n EXCEPT !.LO = lo, !.HI = hi]
    BY Zenon DEF unsigned_multiply
  <1>. HIDE DEF a, b, c, d
  <1>3. /\ ad = a * d /\ cb = c * b /\ bd = b * d
        /\ ad \in Words /\ cb \in Words /\ bd \in Words
    BY <1>1, HalfTimes, LowSmall
  <1>. HIDE DEF ad, cb, bd
  <1>4. mid \in Words /\ ad + cb = mid + k1 * Word /\ k1 \in {0, 1}
    BY <1>3, Carried
  <1>. HIDE DEF k1, mid
  <1>5. bh \in 0 .. Half - 1 /\ bl \in 0 .. Half - 1 /\ bd = Half * bh + bl /\ bh \in Words
    <2>1. bd \in Int
      BY <1>3, WordBounds
    <2>2. bh \in 0 .. Half - 1 /\ bl \in 0 .. Half - 1 /\ bd = Half * bh + bl
      BY <1>3, <2>1, Halves, DivMod, Widths
    <2>. QED BY <2>2, HalfWord
  <1>. HIDE DEF bh, bl
  <1>6. mid2 \in Words /\ mid + bh = mid2 + k2 * Word /\ k2 \in {0, 1}
    BY <1>4, <1>5, Carried
  <1>. HIDE DEF k2, mid2
  <1>7. mh \in 0 .. Half - 1 /\ ml \in 0 .. Half - 1 /\ mid2 = Half * mh + ml
    <2>1. mid2 \in Int
      BY <1>6, WordBounds
    <2>. QED BY <1>6, <2>1, Halves, DivMod, Widths
  <1>. HIDE DEF mh, ml
  <1>8. lo \in Words
    BY <1>5, <1>7, Joined
  <1>9. /\ a \in Int /\ b \in Int /\ c \in Int /\ d \in Int /\ k1 \in Int /\ k2 \in Int
        /\ mh \in Int /\ ml \in Int /\ bh \in Int /\ bl \in Int /\ mid \in Int /\ mid2 \in Int
        /\ Half \in Int /\ Word = Half * Half
    BY <1>1, <1>4, <1>5, <1>6, <1>7, WordBounds, Widths DEF Word
  <1>10. x * y = a * c * Word + (ad + cb) * Half + bd
    BY <1>1, <1>3, <1>9
  <1>11. x * y = h * Word + lo
    <2>1. (ad + cb) * Half = mid * Half + k1 * Word * Half
      BY <1>4, <1>9
    <2>2. mid * Half + bh * Half = mid2 * Half + k2 * Word * Half
      BY <1>6, <1>9
    <2>3. mid2 * Half = mh * Word + ml * Half
      BY <1>7, <1>9
    <2>4. h * Word = a * c * Word + k1 * Word * Half + k2 * Word * Half + mh * Word
      BY <1>9
    <2>. DEFINE s == a * c * Word
                t == k1 * Word * Half
                u == k2 * Word * Half
                v == mh * Word
                w == ml * Half
                mw == mid * Half
                bw == bh * Half
                xy == x * y
                hw == h * Word
    <2>5. /\ s \in Int /\ t \in Int /\ u \in Int /\ v \in Int /\ w \in Int /\ mw \in Int /\ bw \in Int
      BY <1>9
    <2>6. xy = s + (mw + t) + (bw + bl) /\ mw + bw = (v + w) + u /\ hw = s + t + u + v /\ lo = bl + w
      BY <1>5, <1>10, <2>1, <2>2, <2>3, <2>4, <1>9
    <2>. HIDE DEF s, t, u, v, w, mw, bw, xy, hw, lo, h
    <2>7. xy = hw + lo
      BY <2>5, <2>6, <1>9
    <2>. QED BY <2>7 DEF xy, hw
  <1>12. h \in Nat
    BY <1>1, <1>4, <1>6, <1>7, HalfTimes, Widths
  <1>13. h \in Words
    <2>1. x \in Nat /\ y \in Nat /\ x <= Word - 1 /\ y <= Word - 1 /\ Word \in Nat /\ Word >= 16
      BY WordBounds, Widths
    <2>2. x * y <= (Word - 1) * (Word - 1)
      BY <2>1, Monotone
    <2>3. (Word - 1) * (Word - 1) < Word * Word
      BY <2>1
    <2>4. lo >= 0 /\ lo \in Int
      BY <1>8, WordBounds
    <2>5. h >= Word => Word * Word <= h * Word
      BY <1>12, <2>1, Monotone
    <2>6. x * y \in Int /\ h * Word \in Int /\ Word * Word \in Int
      BY <1>12, <2>1
    <2>. DEFINE xy == x * y
                hw == h * Word
                ww == Word * Word
                most == (Word - 1) * (Word - 1)
    <2>7. /\ xy = hw + lo /\ xy <= most /\ most < ww /\ (h >= Word => ww <= hw)
          /\ xy \in Int /\ hw \in Int /\ ww \in Int /\ most \in Int
      BY <1>11, <2>1, <2>2, <2>3, <2>5, <2>6
    <2>. HIDE DEF h, lo, xy, hw, ww, most
    <2>8. ~(h >= Word)
      BY <2>4, <2>7
    <2>. QED BY <1>12, <2>1, <2>8 DEF Words
  <1>14. hi = h
    BY <1>13, LowSmall
  <1>16. unsigned_multiply(n, x, y) = Doubled(n, hi, lo) /\ 0 \in Int
    BY <1>2 DEF Doubled
  <1>. HIDE DEF h, lo, hi
  <1>15. x * y = hi * Word + lo + 0 * DoubleWord /\ hi \in Words
    <2>1. hi * Word \in Int /\ lo \in Int /\ DoubleWord \in Int
      BY <1>13, <1>14, <1>8, WordBounds, Widths DEF DoubleWord
    <2>. DEFINE hw == hi * Word
                dw == DoubleWord
    <2>2. x * y = hw + lo /\ hw \in Int /\ dw \in Int
      BY <1>11, <1>14, <2>1
    <2>. HIDE DEF hw, dw
    <2>3. x * y = hw + lo + 0 * dw
      BY <2>1, <2>2
    <2>. QED BY <1>13, <1>14, <2>3 DEF hw, dw
  <1>. QED BY <1>8, <1>15, <1>16, Zenon DEF IsDouble

\* The double word v, where it is one.
DoubledAs(v, hi, lo) == \E k \in Int : v = hi * Word + lo + k * DoubleWord

LEMMA DoubleType ==
  ASSUME NEW hi \in Words, NEW lo \in Words
  PROVE  /\ hi \in Int /\ lo \in Int /\ hi * Word \in Int /\ Word \in Int /\ DoubleWord \in Int
         /\ \A k \in Int : k * DoubleWord \in Int
  <1>1. hi \in Int /\ lo \in Int /\ Word \in Int
    BY WordBounds, Widths
  <1>. QED BY <1>1 DEF DoubleWord

\* The negative of a double word.
LEMMA Negated ==
  ASSUME NEW hi \in Words, NEW lo \in Words, NEW low, NEW high,
         low = Low(Not1(lo) + 1), high = Low(Not1(hi) + IF low = 0 THEN 1 ELSE 0)
  PROVE  low \in Words /\ high \in Words /\ DoubledAs(-(hi * Word + lo), high, low)
  <1>1. /\ hi \in Int /\ lo \in Int /\ 0 <= hi /\ hi < Word /\ 0 <= lo /\ lo < Word
        /\ Word \in Int /\ Word >= 16
    BY WordBounds, Widths
  <1>2. Not1(lo) + 1 = Word - lo /\ Not1(hi) = Word - 1 - hi
    BY <1>1 DEF Not1
  <1>. DEFINE hw == hi * Word
              dw == DoubleWord
  <1>3. hw \in Int /\ dw \in Int /\ Word * Word = dw
    BY <1>1 DEF DoubleWord
  <1>4. CASE lo = 0
    <2>1. Low(0 + 1 * Word) = Low(0) /\ 0 \in Words
      BY LowShift, Widths DEF Words
    <2>2. low = 0
      BY <1>1, <1>2, <1>4, <2>1, LowSmall
    <2>3. high = Low(Word - hi)
      BY <1>1, <1>2, <2>2
    <2>4. CASE hi = 0
      <3>1. high = 0
        BY <1>1, <2>1, <2>3, <2>4, LowSmall
      <3>2. -(hi * Word + lo) = high * Word + low + 0 * DoubleWord
        BY <1>1, <1>4, <2>2, <2>4, <3>1, <1>3
      <3>. QED BY <2>1, <2>2, <3>1, <3>2 DEF DoubledAs
    <2>5. CASE hi # 0
      <3>1. Word - hi \in Words
        BY <1>1, <2>5 DEF Words
      <3>2. high = Word - hi
        BY <2>3, <3>1, LowSmall
      <3>3. high * Word = dw - hw
        BY <1>1, <3>2 DEF DoubleWord
      <3>4. -(hw + lo) = high * Word + low + (-1) * dw
        <4>. HIDE DEF hw, dw
        <4>. QED BY <1>3, <1>4, <2>2, <3>3
      <3>5. -1 \in Int
        OBVIOUS
      <3>. QED BY <2>1, <2>2, <3>1, <3>2, <3>4, <3>5 DEF DoubledAs
    <2>. QED BY <2>4, <2>5
  <1>5. CASE lo # 0
    <2>1. Word - lo \in Words /\ Word - 1 - hi \in Words
      BY <1>1, <1>5 DEF Words
    <2>2. low = Word - lo
      BY <1>2, <2>1, LowSmall
    <2>3. high = Word - 1 - hi
      <3>1. low # 0
        BY <1>1, <2>2
      <3>2. high = Low(Word - 1 - hi)
        BY <1>1, <1>2, <3>1
      <3>. QED BY <2>1, <3>2, LowSmall
    <2>. DEFINE nw == high * Word
    <2>4. nw = dw - Word - hw
      <3>1. \A v, w \in Int : (w - 1 - v) * w = w * w - w - v * w
        OBVIOUS
      <3>2. (Word - 1 - hi) * Word = Word * Word - Word - hi * Word
        BY <1>1, <3>1
      <3>. QED BY <2>3, <3>2 DEF DoubleWord
    <2>5. -(hw + lo) = nw + low + (-1) * dw
      <3>. HIDE DEF hw, dw, nw
      <3>. QED BY <1>1, <1>3, <2>2, <2>4
    <2>6. -1 \in Int
      OBVIOUS
    <2>. QED BY <2>1, <2>2, <2>3, <2>5, <2>6 DEF DoubledAs
  <1>. QED BY <1>4, <1>5

LEMMA DoubledIs ==
  ASSUME NEW n, NEW hi \in Words, NEW lo \in Words, NEW v, DoubledAs(v, hi, lo)
  PROVE  IsDouble(Doubled(n, hi, lo), n, v)
  BY DEF DoubledAs, IsDouble

LEMMA DoubledFacts ==
  ASSUME NEW n \in Machines, NEW hi \in Words, NEW lo \in Words
  PROVE  /\ Doubled(n, hi, lo).HI = hi /\ Doubled(n, hi, lo).LO = lo
         /\ \A high, low : [Doubled(n, hi, lo) EXCEPT !.LO = low, !.HI = high] = Doubled(n, high, low)
  BY DEF Doubled, Machines

\* Signs are multiplied apart from the numbers.
LEMMA SignedProduct ==
  ASSUME NEW n \in Machines, NEW x \in Words, NEW y \in Words
  PROVE  IsDouble(signed_multiply(n, x, y), n, Signed(x) * Signed(y))
  <1>. DEFINE absolute(v) == IF SignBit(v) = 1 THEN Low(-v) ELSE v
              p == unsigned_multiply(n, absolute(x), absolute(y))
              low == Low(Not1(p.LO) + 1)
              high == Low(Not1(p.HI) + IF low = 0 THEN 1 ELSE 0)
              z == Signed(x) * Signed(y)
  <1>1. ASSUME NEW v \in Words
        PROVE  /\ absolute(v) \in Words /\ Signed(v) \in Int /\ absolute(v) \in Int /\ SignBit(v) \in {0, 1}
               /\ Signed(v) = IF SignBit(v) = 1 THEN -absolute(v) ELSE absolute(v)
    <2>1. /\ v \in Int /\ 0 <= v /\ v < Word /\ Word \in Int /\ Word >= 16 /\ SignBit(v) \in {0, 1}
          /\ (SignBit(v) = 1 <=> v >= Word \div 2) /\ Word = 2 * (Word \div 2) /\ Word \div 2 \in Int
          /\ Signed(v) = IF v >= Word \div 2 THEN v - Word ELSE v
      BY WordBounds, Widths
    <2>2. CASE SignBit(v) = 1
      <3>1. Word - v \in Words /\ -v \in Int /\ 1 \in Int
        BY <2>1, <2>2 DEF Words
      <3>2. Low(-v + 1 * Word) = Low(-v)
        BY <3>1, LowShift
      <3>3. -v + 1 * Word = Word - v
        BY <2>1
      <3>4. Low(-v) = Word - v
        BY <3>1, <3>2, <3>3, LowSmall
      <3>. QED BY <2>1, <2>2, <3>1, <3>4
    <2>3. CASE SignBit(v) # 1
      BY <2>1, <2>3
    <2>. QED BY <2>2, <2>3
  <1>2. signed_multiply(n, x, y) = IF SignBit(x) = SignBit(y) THEN p
                                   ELSE [p EXCEPT !.LO = low, !.HI = high]
    BY DEF signed_multiply
  <1>3. IsDouble(p, n, absolute(x) * absolute(y))
    BY <1>1, UnsignedProduct
  <1>. DEFINE u == absolute(x)
              w == absolute(y)
  <1>4. /\ u \in Int /\ w \in Int /\ IsDouble(p, n, u * w)
        /\ Signed(x) = (IF SignBit(x) = 1 THEN -u ELSE u) /\ Signed(y) = (IF SignBit(y) = 1 THEN -w ELSE w)
        /\ SignBit(x) \in {0, 1} /\ SignBit(y) \in {0, 1}
    BY <1>1, <1>3
  <1>. HIDE DEF u, w, p
  <1>5. CASE SignBit(x) = SignBit(y)
    <2>1. Signed(x) * Signed(y) = u * w
      <3>1. CASE SignBit(x) = 1
        <4>1. Signed(x) = -u /\ Signed(y) = -w
          BY <1>4, <1>5, <3>1
        <4>2. (-u) * (-w) = u * w
          BY <1>4
        <4>. QED BY <4>1, <4>2
      <3>2. CASE SignBit(x) # 1
        BY <1>4, <1>5, <3>2
      <3>. QED BY <3>1, <3>2
    <2>. QED BY <1>2, <1>4, <1>5, <2>1
  <1>6. CASE SignBit(x) # SignBit(y)
    <2>1. Signed(x) * Signed(y) = -(u * w)
      <3>1. CASE SignBit(x) = 1
        <4>1. Signed(x) = -u /\ Signed(y) = w
          BY <1>4, <1>6, <3>1
        <4>2. (-u) * w = -(u * w)
          BY <1>4
        <4>. QED BY <4>1, <4>2
      <3>2. CASE SignBit(x) # 1
        <4>1. Signed(x) = u /\ Signed(y) = -w
          BY <1>4, <1>6, <3>2
        <4>2. u * (-w) = -(u * w)
          BY <1>4
        <4>. QED BY <4>1, <4>2
      <3>. QED BY <3>1, <3>2
    <2>2. PICK hi \in Words, lo \in Words, k \in Int :
            p = Doubled(n, hi, lo) /\ u * w = hi * Word + lo + k * DoubleWord
      BY <1>4 DEF IsDouble
    <2>0. /\ p.HI = hi /\ p.LO = lo
          /\ \A s, t : [p EXCEPT !.LO = s, !.HI = t] = Doubled(n, t, s)
      BY <2>2 DEF Doubled, Machines
    <2>3. p.HI = hi /\ p.LO = lo /\ [p EXCEPT !.LO = low, !.HI = high] = Doubled(n, high, low)
      <3>. HIDE DEF low, high
      <3>. QED BY <2>0
    <2>4. low = Low(Not1(lo) + 1) /\ high = Low(Not1(hi) + IF low = 0 THEN 1 ELSE 0)
      BY <2>3
    <2>. HIDE DEF low, high
    <2>5. low \in Words /\ high \in Words /\ DoubledAs(-(hi * Word + lo), high, low)
      BY <2>4, Negated
    <2>6. PICK j \in Int : -(hi * Word + lo) = high * Word + low + j * DoubleWord
      BY <2>5 DEF DoubledAs
    <2>7. -(u * w) = high * Word + low + (j - k) * DoubleWord
      <3>. DEFINE hw == hi * Word
                  nw == high * Word
                  dw == DoubleWord
                  uw == u * w
      <3>1. /\ hw \in Int /\ nw \in Int /\ dw \in Int /\ uw \in Int /\ lo \in Int /\ low \in Int
            /\ k * dw \in Int /\ j * dw \in Int
        BY <1>4, <2>5, DoubleType
      <3>2. (j - k) * dw = j * dw - k * dw
        BY <3>1
      <3>3. -(hw + lo) = nw + low + j * dw /\ uw = hw + lo + k * dw
        BY <2>2, <2>6
      <3>. DEFINE jd == j * dw
                  kd == k * dw
                  ed == (j - k) * dw
      <3>4. jd \in Int /\ kd \in Int /\ ed = jd - kd /\ -(hw + lo) = nw + low + jd /\ uw = hw + lo + kd
        BY <3>1, <3>2, <3>3
      <3>. HIDE DEF hw, nw, dw, uw, jd, kd, ed
      <3>5. -uw = nw + low + ed
        BY <3>1, <3>4
      <3>. QED BY <3>5 DEF hw, nw, dw, uw, ed
    <2>8. j - k \in Int
      OBVIOUS
    <2>9. DoubledAs(-(u * w), high, low)
      BY <2>7, <2>8, Zenon DEF DoubledAs
    <2>10. IsDouble(Doubled(n, high, low), n, -(u * w))
      BY <2>5, <2>9, DoubledIs
    <2>11. signed_multiply(n, x, y) = Doubled(n, high, low)
      BY <1>2, <1>6, <2>3
    <2>. QED BY <2>1, <2>10, <2>11
  <1>. QED BY <1>5, <1>6

\* Sums and differences of double words carry from LO to HI.
LEMMA DoubleSum ==
  ASSUME NEW h0 \in Words, NEW l0 \in Words, NEW hi \in Words, NEW lo \in Words, NEW low, NEW high,
         low = Low(l0 + lo), high = Low(h0 + (IF low < lo \/ low < l0 THEN 1 ELSE 0) + hi)
  PROVE  low \in Words /\ high \in Words /\ DoubledAs((h0 * Word + l0) + (hi * Word + lo), high, low)
  <1>. DEFINE c == IF low < lo \/ low < l0 THEN 1 ELSE 0
  <1>1. h0 \in Int /\ l0 \in Int /\ hi \in Int /\ lo \in Int /\ Word \in Int
    BY WordBounds, Widths
  <1>2. low \in Words /\ l0 + lo = low + c * Word /\ c \in {0, 1}
    <2>1. low = Low(lo + l0) /\ l0 + lo = lo + l0
      BY <1>1
    <2>. QED BY <2>1, Carried
  <1>. HIDE DEF c
  <1>3. high = Low(h0 + c + hi) /\ h0 + c + hi \in Int
    BY <1>1, <1>2 DEF c
  <1>4. high \in Words
    BY <1>3, LowType
  <1>5. PICK k \in Int : h0 + c + hi = high + k * Word
    BY <1>3, LowAsSum
  <1>6. low \in Int /\ high \in Int
    BY <1>2, <1>4, WordBounds
  <1>7. (h0 * Word + l0) + (hi * Word + lo) = high * Word + low + k * DoubleWord
    <2>2. h0 * Word + hi * Word = high * Word + k * DoubleWord - c * Word
      <3>1. h0 * Word + hi * Word = high * Word + k * (Word * Word) - c * Word
        <4>1. c \in Int
          BY <1>2
        <4>. DEFINE sum == h0 + c + hi
                    all == high + k * Word
        <4>2. sum * Word = h0 * Word + c * Word + hi * Word
          BY <1>1, <4>1
        <4>3. all * Word = high * Word + k * (Word * Word)
          BY <1>1, <1>6
        <4>4. sum = all
          BY <1>5
        <4>. DEFINE p == h0 * Word
                    q == hi * Word
                    r == high * Word
                    s == c * Word
                    t == k * (Word * Word)
        <4>5. /\ p \in Int /\ q \in Int /\ r \in Int /\ s \in Int /\ t \in Int
              /\ p + s + q = r + t
          BY <1>1, <1>6, <4>1, <4>2, <4>3, <4>4
        <4>. HIDE DEF p, q, r, s, t, sum, all
        <4>6. p + q = r + t - s
          BY <4>5
        <4>. QED BY <4>6 DEF p, q, r, s, t
      <3>. QED BY <3>1 DEF DoubleWord
    <2>. DEFINE p == h0 * Word
                q == hi * Word
                r == high * Word
                s == c * Word
                t == k * DoubleWord
    <2>3. p \in Int /\ q \in Int /\ r \in Int /\ s \in Int /\ t \in Int
      BY <1>1, <1>2, <1>6 DEF DoubleWord
    <2>4. p + q = r + t - s /\ l0 + lo = low + s
      BY <1>2, <2>2
    <2>. HIDE DEF p, q, r, s, t
    <2>5. (p + l0) + (q + lo) = r + low + t
      BY <1>1, <1>6, <2>3, <2>4
    <2>. QED BY <2>5 DEF p, q, r, t
  <1>. QED BY <1>2, <1>4, <1>7, Zenon DEF DoubledAs

LEMMA DoubleDifference ==
  ASSUME NEW h0 \in Words, NEW l0 \in Words, NEW hi \in Words, NEW lo \in Words, NEW low, NEW high,
         low = Low(l0 - lo), high = Low(h0 - (IF lo > l0 THEN 1 ELSE 0) - hi)
  PROVE  low \in Words /\ high \in Words /\ DoubledAs((h0 * Word + l0) - (hi * Word + lo), high, low)
  <1>. DEFINE c == IF lo > l0 THEN 1 ELSE 0
  <1>1. /\ h0 \in Int /\ l0 \in Int /\ hi \in Int /\ lo \in Int /\ Word \in Int
        /\ 0 <= l0 /\ l0 < Word /\ 0 <= lo /\ lo < Word
    BY WordBounds, Widths
  <1>2. low \in Words /\ l0 - lo = low - c * Word /\ c \in {0, 1}
    <2>1. low \in Words
      BY <1>1, LowType
    <2>2. CASE lo > l0
      <3>1. l0 - lo + Word \in Words /\ l0 - lo \in Int /\ 1 \in Int
        BY <1>1, <2>2 DEF Words
      <3>2. Low((l0 - lo) + 1 * Word) = Low(l0 - lo)
        BY <3>1, LowShift
      <3>3. (l0 - lo) + 1 * Word = l0 - lo + Word
        BY <1>1
      <3>4. low = l0 - lo + Word
        BY <3>1, <3>2, <3>3, LowSmall
      <3>. QED BY <1>1, <2>1, <2>2, <3>4
    <2>3. CASE ~(lo > l0)
      <3>1. l0 - lo \in Words
        BY <1>1, <2>3 DEF Words
      <3>2. low = l0 - lo
        BY <3>1, LowSmall
      <3>. QED BY <1>1, <2>1, <2>3, <3>2
    <2>. QED BY <2>2, <2>3
  <1>. HIDE DEF c
  <1>3. high = Low(h0 - c - hi) /\ h0 - c - hi \in Int
    BY <1>1, <1>2 DEF c
  <1>4. high \in Words
    BY <1>3, LowType
  <1>5. PICK k \in Int : h0 - c - hi = high + k * Word
    BY <1>3, LowAsSum
  <1>6. low \in Int /\ high \in Int
    BY <1>2, <1>4, WordBounds
  <1>7. (h0 * Word + l0) - (hi * Word + lo) = high * Word + low + k * DoubleWord
    <2>1. \A u, v, w, x, y, z \in Int : u - v - w = x + y * z => u * z - w * z = x * z + y * (z * z) + v * z
      <3>. SUFFICES ASSUME NEW u \in Int, NEW v \in Int, NEW w \in Int, NEW x \in Int, NEW y \in Int,
                           NEW z \in Int, u - v - w = x + y * z
                    PROVE  u * z - w * z = x * z + y * (z * z) + v * z
        OBVIOUS
      <3>1. (u - v - w) * z = (x + y * z) * z
        OBVIOUS
      <3>. QED BY <3>1
    <2>2. h0 * Word - hi * Word = high * Word + k * DoubleWord + c * Word
      BY <1>1, <1>2, <1>5, <1>6, <2>1 DEF DoubleWord
    <2>. DEFINE p == h0 * Word
                q == hi * Word
                r == high * Word
                s == c * Word
                t == k * DoubleWord
    <2>3. p \in Int /\ q \in Int /\ r \in Int /\ s \in Int /\ t \in Int
      BY <1>1, <1>2, <1>6 DEF DoubleWord
    <2>4. p - q = r + t + s /\ l0 - lo = low - s
      BY <1>2, <2>2
    <2>. HIDE DEF p, q, r, s, t
    <2>5. (p + l0) - (q + lo) = r + low + t
      BY <1>1, <1>6, <2>3, <2>4
    <2>. QED BY <2>5 DEF p, q, r, t
  <1>. QED BY <1>2, <1>4, <1>7, Zenon DEF DoubledAs

\* A multiple of a double word more or less is the same double word.
LEMMA DoubledShift ==
  ASSUME NEW hi \in Words, NEW lo \in Words, NEW v \in Int, NEW k \in Int, DoubledAs(v, hi, lo)
  PROVE  DoubledAs(v + k * DoubleWord, hi, lo) /\ DoubledAs(v - k * DoubleWord, hi, lo)
  <1>1. PICK j \in Int : v = hi * Word + lo + j * DoubleWord
    BY DEF DoubledAs
  <1>. DEFINE hw == hi * Word
              d == DoubleWord
              jd == j * d
              kd == k * d
  <1>2. /\ hw \in Int /\ lo \in Int /\ d \in Int /\ jd \in Int /\ kd \in Int
        /\ (j + k) * d = jd + kd /\ (j - k) * d = jd - kd /\ j + k \in Int /\ j - k \in Int
        /\ v = hw + lo + jd
    <2>1. d \in Int
      BY DoubleType
    <2>. HIDE DEF d
    <2>. QED BY <2>1, <1>1, DoubleType DEF d
  <1>. DEFINE sd == (j + k) * d
              td == (j - k) * d
  <1>3. v + kd = hw + lo + sd /\ v - kd = hw + lo + td
    <2>1. sd = jd + kd /\ td = jd - kd
      BY <1>2
    <2>. HIDE DEF hw, d, jd, kd, sd, td
    <2>. QED BY <1>2, <2>1
  <1>. QED BY <1>2, <1>3, Zenon DEF DoubledAs

DoubleOf(n) == n.HI * Word + n.LO

LEMMA AddedProduct ==
  ASSUME NEW n \in Machines, NEW v \in Int, NEW p, IsDouble(p, n, v),
         NEW low, NEW high, low = Low(n.LO + p.LO),
         high = Low(n.HI + (IF low < p.LO \/ low < n.LO THEN 1 ELSE 0) + p.HI)
  PROVE  IsDouble([p EXCEPT !.LO = low, !.HI = high], n, DoubleOf(n) + v)
  <1>1. PICK hi \in Words, lo \in Words, k \in Int :
          p = Doubled(n, hi, lo) /\ v = hi * Word + lo + k * DoubleWord
    BY DEF IsDouble
  <1>2. /\ p.HI = hi /\ p.LO = lo /\ n.HI \in Words /\ n.LO \in Words
        /\ \A s, t : [p EXCEPT !.LO = s, !.HI = t] = Doubled(n, t, s)
    BY <1>1 DEF Doubled, Machines
  <1>. DEFINE u == hi * Word + lo
  <1>3. low \in Words /\ high \in Words /\ DoubledAs(DoubleOf(n) + u, high, low)
    <2>1. PICK h0 \in Words, l0 \in Words : h0 = n.HI /\ l0 = n.LO
      BY <1>2
    <2>2. /\ low = Low(l0 + lo)
          /\ high = Low(h0 + (IF low < lo \/ low < l0 THEN 1 ELSE 0) + hi)
      BY <1>2, <2>1
    <2>3. DoubledAs((h0 * Word + l0) + (hi * Word + lo), high, low) /\ low \in Words /\ high \in Words
      BY <2>2, DoubleSum
    <2>. QED BY <2>1, <2>3 DEF DoubleOf
  <1>4. u \in Int /\ DoubleOf(n) \in Int /\ k * DoubleWord \in Int /\ v = u + k * DoubleWord
    <2>1. n.HI * Word \in Int /\ n.LO \in Int /\ hi * Word \in Int /\ lo \in Int
          /\ k * DoubleWord \in Int
      BY <1>2, DoubleType
    <2>. QED BY <1>1, <2>1 DEF DoubleOf
  <1>. HIDE DEF u
  <1>5. DoubledAs((DoubleOf(n) + u) + k * DoubleWord, high, low) /\ DoubleOf(n) + u \in Int
    BY <1>3, <1>4, DoubledShift
  <1>6. (DoubleOf(n) + u) + k * DoubleWord = DoubleOf(n) + v
    BY <1>4
  <1>7. IsDouble(Doubled(n, high, low), n, DoubleOf(n) + v)
    BY <1>3, <1>5, <1>6, DoubledIs
  <1>. QED BY <1>2, <1>7

LEMMA SubtractedProduct ==
  ASSUME NEW n \in Machines, NEW v \in Int, NEW p, IsDouble(p, n, v),
         NEW low, NEW high, low = Low(n.LO - p.LO),
         high = Low(n.HI - (IF p.LO > n.LO THEN 1 ELSE 0) - p.HI)
  PROVE  IsDouble([p EXCEPT !.LO = low, !.HI = high], n, DoubleOf(n) - v)
  <1>1. PICK hi \in Words, lo \in Words, k \in Int :
          p = Doubled(n, hi, lo) /\ v = hi * Word + lo + k * DoubleWord
    BY DEF IsDouble
  <1>2. /\ p.HI = hi /\ p.LO = lo /\ n.HI \in Words /\ n.LO \in Words
        /\ \A s, t : [p EXCEPT !.LO = s, !.HI = t] = Doubled(n, t, s)
    BY <1>1 DEF Doubled, Machines
  <1>. DEFINE u == hi * Word + lo
  <1>3. low \in Words /\ high \in Words /\ DoubledAs(DoubleOf(n) - u, high, low)
    <2>1. PICK h0 \in Words, l0 \in Words : h0 = n.HI /\ l0 = n.LO
      BY <1>2
    <2>2. /\ low = Low(l0 - lo)
          /\ high = Low(h0 - (IF lo > l0 THEN 1 ELSE 0) - hi)
      BY <1>2, <2>1
    <2>3. DoubledAs((h0 * Word + l0) - (hi * Word + lo), high, low) /\ low \in Words /\ high \in Words
      BY <2>2, DoubleDifference
    <2>. QED BY <2>1, <2>3 DEF DoubleOf
  <1>4. u \in Int /\ DoubleOf(n) \in Int /\ k * DoubleWord \in Int /\ v = u + k * DoubleWord
    <2>1. n.HI * Word \in Int /\ n.LO \in Int /\ hi * Word \in Int /\ lo \in Int
          /\ k * DoubleWord \in Int
      BY <1>2, DoubleType
    <2>. QED BY <1>1, <2>1 DEF DoubleOf
  <1>. HIDE DEF u
  <1>5. DoubledAs((DoubleOf(n) - u) - k * DoubleWord, high, low) /\ DoubleOf(n) - u \in Int
    BY <1>3, <1>4, DoubledShift
  <1>6. (DoubleOf(n) - u) - k * DoubleWord = DoubleOf(n) - v
    BY <1>4
  <1>7. IsDouble(Doubled(n, high, low), n, DoubleOf(n) - v)
    BY <1>3, <1>5, <1>6, DoubledIs
  <1>. QED BY <1>2, <1>7

\* Division rounds towards zero.
LEMMA TruncatedFacts ==
  ASSUME NEW x \in Int, NEW y \in Int, y # 0, NEW q, q = Truncated(x, y)
  PROVE  /\ q \in Int /\ x - q * y \in Int /\ IsQuotient(q, x, y)
         /\ abs(x - q * y) < abs(y)
         /\ abs(q) <= abs(x) /\ abs(q) \in Nat
         /\ \A h \in Nat \ {0} : abs(x) <= h /\ q = h => abs(x) = h /\ abs(y) = 1 /\ ((x < 0) <=> (y < 0))
         /\ x >= 0 /\ y >= 0 => q >= 0 /\ x - q * y >= 0
  <1>. DEFINE A == abs(x)
              C == abs(y)
              k == A \div C
              s == A % C
  <1>1. A \in Nat /\ C \in Nat \ {0} /\ A = (IF x < 0 THEN -x ELSE x) /\ C = (IF y < 0 THEN -y ELSE y)
    BY DEF abs
  <1>2. q = IF (x < 0) = (y < 0) THEN k ELSE -k
    BY DEF Truncated, abs
  <1>. HIDE DEF A, C
  <1>3. k \in Int /\ s \in 0 .. C - 1 /\ A = C * k + s
    <2>1. A \in Int /\ C \in Nat \ {0}
      BY <1>1
    <2>2. A \div C \in Int /\ A % C \in 0 .. C - 1 /\ A = C * (A \div C) + (A % C)
      BY <2>1, DivMod, Zenon
    <2>. QED BY <2>2
  <1>. HIDE DEF k, s
  <1>4. k \in Nat
    <2>1. k < 0 => C * k <= -C
      <3>1. ASSUME k < 0 PROVE C * k <= -C
        <4>1. C * (-1 - k) \in Nat
          <5>. DEFINE j == -1 - k
          <5>1. j \in Nat
            BY <1>3, <3>1
          <5>. HIDE DEF j
          <5>2. \A u, v \in Nat : u * v \in Nat
            OBVIOUS
          <5>3. C \in Nat
            BY <1>1
          <5>4. C * j \in Nat
            BY <5>1, <5>2, <5>3
          <5>. QED BY <5>4 DEF j
        <4>2. C * (-1 - k) = -C - C * k
          BY <1>1, <1>3
        <4>3. C * k \in Int
          BY <1>1, <1>3
        <4>. QED BY <4>1, <4>2, <4>3, <1>1
      <3>. QED BY <3>1
    <2>2. C * k \in Int
      BY <1>1, <1>3
    <2>. DEFINE w == C * k
    <2>3. w \in Int /\ (k < 0 => w <= -C) /\ A = w + s
      BY <1>3, <2>1, <2>2
    <2>. HIDE DEF w
    <2>. QED BY <1>1, <1>3, <2>3
  <1>5. s \in Int /\ 0 <= s /\ s < C
    BY <1>1, <1>3
  <1>6. x - q * y = IF x < 0 THEN -s ELSE s
    <2>0. k * C \in Int /\ A = k * C + s
      BY <1>1, <1>3, <1>4
    <2>1. CASE x < 0 /\ y < 0
      <3>1. q = k /\ A = -x /\ y = -C
        BY <1>1, <1>2, <2>1
      <3>2. k * (-C) = -(k * C)
        BY <1>1, <1>4
      <3>. QED BY <1>5, <2>0, <2>1, <3>1, <3>2
    <2>2. CASE x < 0 /\ ~(y < 0)
      <3>1. q = -k /\ A = -x /\ y = C
        BY <1>1, <1>2, <2>2
      <3>2. (-k) * C = -(k * C)
        BY <1>1, <1>4
      <3>. QED BY <1>5, <2>0, <2>2, <3>1, <3>2
    <2>3. CASE ~(x < 0) /\ y < 0
      <3>1. q = -k /\ A = x /\ y = -C
        BY <1>1, <1>2, <2>3
      <3>2. (-k) * (-C) = k * C
        BY <1>1, <1>4
      <3>. QED BY <1>5, <2>0, <2>3, <3>1, <3>2
    <2>4. CASE ~(x < 0) /\ ~(y < 0)
      <3>1. q = k /\ A = x /\ y = C
        BY <1>1, <1>2, <2>4
      <3>. QED BY <1>5, <2>0, <2>4, <3>1
    <2>. QED BY <2>1, <2>2, <2>3, <2>4
  <1>7. q \in Int /\ abs(q) = k
    <2>. QED BY <1>2, <1>4 DEF abs
  <1>8. k <= A /\ \A h \in Nat \ {0} : A <= h /\ k = h => A = h /\ C = 1
    <2>1. 1 * k <= C * k /\ C * k \in Nat
      BY <1>1, <1>4, Monotone
    <2>. DEFINE w == C * k
    <2>2. k <= w /\ w \in Nat /\ A = w + s
      BY <1>3, <1>4, <2>1
    <2>3. k <= A
      <3>. HIDE DEF w
      <3>. QED BY <1>4, <1>5, <2>2
    <2>4. ASSUME NEW h \in Nat \ {0}, A <= h, k = h PROVE A = h /\ C = 1
      <3>1. C >= 2 => 2 * h <= w
        BY <1>1, <1>4, <2>4, Monotone
      <3>. HIDE DEF w
      <3>. QED BY <1>1, <1>4, <1>5, <2>2, <2>3, <2>4, <3>1
    <2>. QED BY <2>3, <2>4
  <1>9. abs(x - q * y) = s /\ sign(x - q * y) \in {0, sign(x)}
    <2>1. x = 0 => s = 0
      <3>1. x = 0 => A = 0
        BY <1>1
      <3>2. C * k \in Nat
        BY <1>1, <1>4, Monotone
      <3>. DEFINE w == C * k
      <3>3. w \in Nat /\ A = w + s
        BY <1>3, <3>2
      <3>. HIDE DEF w
      <3>. QED BY <1>5, <3>1, <3>3
    <2>. DEFINE r == x - q * y
    <2>2. r = IF x < 0 THEN -s ELSE s
      BY <1>6
    <2>. HIDE DEF r
    <2>3. abs(r) = s /\ sign(r) \in {0, sign(x)}
      BY <1>5, <2>1, <2>2 DEF abs, sign
    <2>. QED BY <2>3 DEF r
  <1>10. IsQuotient(q, x, y)
    <2>1. abs(x - q * y) < abs(y)
      BY <1>5, <1>9 DEF C
    <2>. QED BY <1>9, <2>1 DEF IsQuotient
  <1>11. x - q * y \in Int
    <2>. QED BY <1>5, <1>6
  <1>12. ASSUME NEW h \in Nat \ {0}, abs(x) <= h, q = h
         PROVE  abs(x) = h /\ abs(y) = 1 /\ ((x < 0) <=> (y < 0))
    <2>1. (x < 0) = (y < 0) /\ k = h
      BY <1>2, <1>4, <1>12
    <2>. QED BY <1>8, <1>12, <2>1 DEF A, C
  <1>13. x >= 0 /\ y >= 0 => q >= 0 /\ x - q * y >= 0
    <2>. QED BY <1>2, <1>4, <1>5, <1>6
  <1>14. abs(q) <= abs(x) /\ abs(q) \in Nat /\ abs(x - q * y) < abs(y)
    <2>1. abs(x) = A /\ abs(y) = C
      BY DEF A, C
    <2>. QED BY <1>4, <1>5, <1>7, <1>8, <1>9, <2>1
  <1>. QED BY <1>7, <1>10, <1>11, <1>12, <1>13, <1>14

\* The instructions that leave their result in HI and LO.
LEMMA EffectProducts ==
  ASSUME NEW n, NEW b, NEW i
  PROVE  /\ i.op \in MultiplyOps => Effect(n, b, i) = Multiply(n, i)
         /\ i.op \in MultiplyAddOps => Effect(n, b, i) = MultiplyAdd(n, i)
         /\ i.op \in MultiplySubOps => Effect(n, b, i) = MultiplySub(n, i)
         /\ i.op \in DivideOps => Effect(n, b, i) = Divide(n, i)
  <1>. DEFINE all == MultiplyOps \cup MultiplyAddOps \cup MultiplySubOps \cup DivideOps
  <1>1. ASSUME i.op \in all
        PROVE  /\ i.op \notin FloatOps /\ i.op \notin AddOps /\ i.op \notin SubOps
               /\ i.op \notin AndOps /\ i.op \notin OrOps /\ i.op \notin XorOps
               /\ i.op # "lui" /\ i.op \notin LeadingOps /\ i.op \notin SetLessOps
               /\ i.op \notin ShiftLeftOps /\ i.op \notin ShiftRightOps /\ i.op \notin MoveIfOps
               /\ i.op \notin TrapOps /\ i.op \notin MoveFromOps
               /\ i.op \notin MoveToOps /\ i.op \notin LoadOps /\ i.op # "lwl" /\ i.op # "lwr"
               /\ i.op \notin StoreOps /\ i.op # "swl" /\ i.op # "swr" /\ i.op # "break"
    BY <1>1 DEF FloatOps, FloatMoves, MoveOnOps, CompareOps, CoprocessorMoves, FloatLoadStore,
       AddOps, SubOps, AndOps, OrOps, XorOps, LeadingOps, SetLessOps,
       ShiftLeftOps, ShiftRightOps, MoveIfOps, TrapOps, MultiplyOps, MultiplyAddOps, MultiplySubOps,
       DivideOps, MoveFromOps, MoveToOps, LoadOps, StoreOps
  <1>2. /\ i.op \in MultiplyOps => i.op \notin MultiplyAddOps \cup MultiplySubOps \cup DivideOps
        /\ i.op \in MultiplyAddOps => i.op \notin MultiplySubOps \cup DivideOps
        /\ i.op \in MultiplySubOps => i.op \notin DivideOps
    BY DEF MultiplyOps, MultiplyAddOps, MultiplySubOps, DivideOps
  <1>3. ASSUME i.op \in MultiplyOps PROVE Effect(n, b, i) = Multiply(n, i)
    <2>1. i.op \in all /\ i.op \notin MultiplyAddOps /\ i.op \notin MultiplySubOps /\ i.op \notin DivideOps
      BY <1>2, <1>3
    <2>. QED BY <1>1, <1>3, <2>1, ZenonT(30) DEF Effect
  <1>4. ASSUME i.op \in MultiplyAddOps PROVE Effect(n, b, i) = MultiplyAdd(n, i)
    <2>1. i.op \in all /\ i.op \notin MultiplyOps /\ i.op \notin MultiplySubOps /\ i.op \notin DivideOps
      BY <1>2, <1>4
    <2>. QED BY <1>1, <1>4, <2>1, ZenonT(30) DEF Effect
  <1>5. ASSUME i.op \in MultiplySubOps PROVE Effect(n, b, i) = MultiplySub(n, i)
    <2>1. i.op \in all /\ i.op \notin MultiplyOps /\ i.op \notin MultiplyAddOps /\ i.op \notin DivideOps
      BY <1>2, <1>5
    <2>. QED BY <1>1, <1>5, <2>1, ZenonT(30) DEF Effect
  <1>6. ASSUME i.op \in DivideOps PROVE Effect(n, b, i) = Divide(n, i)
    <2>1. i.op \in all /\ i.op \notin MultiplyOps /\ i.op \notin MultiplyAddOps /\ i.op \notin MultiplySubOps
      BY <1>2, <1>6
    <2>. QED BY <1>1, <1>6, <2>1, ZenonT(30) DEF Effect
  <1>. QED BY <1>3, <1>4, <1>5, <1>6

DiffersInHiLo(d, p, hi, lo) ==
  /\ Clean(d) /\ d.R = p.R /\ d.F = p.F /\ d.FCC = p.FCC /\ d.mem = p.mem
  /\ d.exception = p.exception /\ d.HI = hi /\ d.LO = lo
LEMMA DoubledClean ==
  ASSUME NEW p, Clean(p), NEW hi \in Words, NEW lo \in Words
  PROVE  DiffersInHiLo(Doubled(p, hi, lo), p, hi, lo)
  BY DEF Clean, Doubled, Machines, DiffersInHiLo

\* HI and LO are due to l.
HiLoIs(l, b, hi, lo) == HiLoDue(l, b, [HI |-> hi, LO |-> lo])
LEMMA HiLoOnly ==
  ASSUME NEW l, NEW b, NEW hi, NEW lo, HiLoIs(l, b, hi, lo), NEW f, f.HI = hi, f.LO = lo
  PROVE  HiLoDue(l, b, f)
  BY DEF HiLoDue, HiLoIs

\* Lines that leave their result in HI and LO, and mul, which overwrites them.
ProductOps == {"mult", "multu", "div2", "divu2"} \cup MultiplyAddOps \cup MultiplySubOps \cup MoveToOps

LEMMA ProductPromise ==
  ASSUME NEW l, l.op \in ProductOps \cup {"mul"}, NEW b, NEW bd, NEW length \in Nat
  PROVE  /\ ~Links(l) /\ l.op \notin StoreLines
         /\ Written(l) = (IF l.op = "mul" THEN {l.rd} ELSE {})
         /\ ExceptionDue(l, b) = "none"
         /\ PlaceDue(l, bd, b, length, length + 1)
  <1>. USE DEF ProductOps, MultiplyAddOps, MultiplySubOps, MoveToOps
  <1>1. /\ ~Links(l) /\ l.op \notin LoadLines /\ l.op \notin StoreLines /\ l.op # "ld"
        /\ l.op \notin Branches /\ l.op \notin TrapOps
    BY DEF Links, LoadLines, StoreLines, Branches, TrapOps
  <1>2. l.op \in NoResult <=> l.op # "mul"
    BY DEF NoResult, StoreLines, TrapOps
  <1>3. Written(l) = (IF l.op = "mul" THEN {l.rd} ELSE {})
    BY <1>1, <1>2 DEF Written
  <1>4. ~Overflows(l, b) /\ ~Breaks(l, b) /\ ~Misaligned(l, b) /\ ~Unmapped(l, b)
    BY <1>1 DEF Overflows, Breaks, Misaligned, Unmapped
  <1>5. ~TrapsOn(l, b)
    BY <1>1 DEF TrapsOn, TrapOps
  <1>6. ~Jumps(l, b) /\ l.op \notin Likely /\ length + 1 + 0 = length + 1
    BY DEF Jumps, Likely
  <1>. QED BY <1>1, <1>3, <1>4, <1>5, <1>6 DEF ExceptionDue, PlaceDue

LEMMA DoubledMeans ==
  ASSUME NEW l, l.op \in ProductOps, NEW b, NEW bd, NEW p, Same(p, b), NEW length \in Nat,
         NEW hi \in Words, NEW lo \in Words, HiLoIs(l, b, hi, lo),
         NEW n, n = [Doubled(p, hi, lo) EXCEPT !.PC = length + 1]
  PROVE  Means(l, bd, b, Arrived(n), length)
  <1>. DEFINE f == Arrived(n)
  <1>1. Clean(p) /\ p.exception = "none" /\ length + 1 \in Nat \ {0}
    BY DEF Same
  <1>2. PICK d : d = Doubled(p, hi, lo)
    OBVIOUS
  <1>3. /\ Clean(d) /\ d.R = p.R /\ d.F = p.F /\ d.FCC = p.FCC /\ d.mem = p.mem
        /\ d.exception = p.exception /\ d.HI = hi /\ d.LO = lo
    <2>1. Clean(p)
      BY <1>1
    <2>2. DiffersInHiLo(d, p, hi, lo)
      BY <1>2, <2>1, DoubledClean
    <2>. QED BY <2>2 DEF DiffersInHiLo
  <1>4. Ends(Arrived([d EXCEPT !.PC = length + 1]), d, d.R, d.exception, length + 1)
    BY <1>1, <1>3, StayArrives
  <1>5. Ends(f, d, d.R, d.exception, length + 1)
    BY <1>2, <1>4
  <1>. HIDE DEF f
  <1>6. /\ f.exception = "none" /\ f.PC = length + 1 /\ f.F = b.F /\ f.FCC = b.FCC
        /\ f.HI = hi /\ f.LO = lo /\ f.mem = b.mem /\ f.R = p.R
        /\ \A r \in Registers \ {at} : p.R[r] = b.R[r]
    BY <1>1, <1>3, <1>5 DEF Ends, Same
  <1>7. HiLoDue(l, b, f)
    BY <1>6, HiLoOnly
  <1>8. l.op # "mul"
    BY DEF ProductOps, MultiplyAddOps, MultiplySubOps, MoveToOps
  <1>9. Means(l, bd, b, f, length)
    BY <1>6, <1>7, <1>8, ProductPromise DEF Means
  <1>. QED BY <1>9 DEF f

LEMMA MulMeans ==
  ASSUME NEW l, l.op = "mul", l.rd \in Registers, NEW b, NEW bd, NEW p, Same(p, b),
         NEW length \in Nat, NEW hi \in Words, NEW lo \in Words, lo = Low(X(l, b) * Y(l, b)),
         NEW n, n = [Set(Doubled(p, hi, lo), l.rd, lo) EXCEPT !.PC = length + 1]
  PROVE  Means(l, bd, b, Arrived(n), length)
  <1>. DEFINE f == Arrived(n)
              R == [p.R EXCEPT ![l.rd] = lo]
  <1>1. Clean(p) /\ p.exception = "none" /\ length + 1 \in Nat \ {0} /\ p.R \in [Registers -> Words]
    BY Parts DEF Same, Clean
  <1>2. PICK d : d = Doubled(p, hi, lo)
    OBVIOUS
  <1>3. /\ Clean(d) /\ d.R = p.R /\ d.F = p.F /\ d.FCC = p.FCC /\ d.mem = p.mem
        /\ d.exception = p.exception /\ d.HI = hi /\ d.LO = lo
    <2>1. Clean(p)
      BY <1>1
    <2>2. DiffersInHiLo(d, p, hi, lo)
      BY <1>2, <2>1, DoubledClean
    <2>. QED BY <2>2 DEF DiffersInHiLo
  <1>4. Ends(Arrived([Set(d, l.rd, lo) EXCEPT !.PC = length + 1]), d, [d.R EXCEPT ![l.rd] = lo],
             d.exception, length + 1)
    BY <1>1, <1>3, SetArrives
  <1>5. Ends(f, d, R, "none", length + 1)
    BY <1>1, <1>2, <1>3, <1>4
  <1>. HIDE DEF f
  <1>6. /\ f.exception = "none" /\ f.PC = length + 1 /\ f.F = b.F /\ f.FCC = b.FCC
        /\ f.mem = b.mem /\ f.R = R /\ \A r \in Registers \ {at} : p.R[r] = b.R[r]
    BY <1>3, <1>5 DEF Ends, Same
  <1>7. f.R[l.rd] = lo /\ \A r \in Registers \ {l.rd, at} : f.R[r] = b.R[r]
    BY <1>1, <1>6
  <1>8. HiLoDue(l, b, f)
    BY DEF HiLoDue, HiLoLines
  <1>9. IsResult(l, bd, b, lo)
    BY DEF IsResult, LoadLines
  <1>11. /\ ~Links(l) /\ l.op \notin StoreLines /\ Written(l) = {l.rd}
         /\ ExceptionDue(l, b) = "none" /\ PlaceDue(l, bd, b, length, length + 1)
    <2>1. l.op \in ProductOps \cup {"mul"}
      OBVIOUS
    <2>. QED BY <2>1, ProductPromise
  <1>10. Means(l, bd, b, f, length)
    BY <1>6, <1>7, <1>8, <1>9, <1>11 DEF Means
  <1>. QED BY <1>10 DEF f

\* The machine e is p with what the line l is to leave in HI and LO.
Gives(e, l, b, p) == \E hi \in Words, lo \in Words : e = Doubled(p, hi, lo) /\ HiLoIs(l, b, hi, lo)
Reads(i, p, l, b) == /\ p.R[i.rs] = First(l, b) /\ p.R[i.rt] = Other(l, b)
                     /\ First(l, b) \in Words /\ Other(l, b) \in Words

\* The product of the numbers the operands of l stand for.
LEMMA Product ==
  ASSUME NEW l, NEW b, NEW i, NEW p \in Machines, Reads(i, p, l, b)
  PROVE  /\ X(l, b) \in Int /\ Y(l, b) \in Int /\ X(l, b) * Y(l, b) \in Int
         /\ IsDouble(IF l.op \in UnsignedOps THEN unsigned_multiply(p, p.R[i.rs], p.R[i.rt])
                     ELSE signed_multiply(p, p.R[i.rs], p.R[i.rt]), p, X(l, b) * Y(l, b))
  <1>0. PICK x \in Words, y \in Words : x = First(l, b) /\ y = Other(l, b)
    BY DEF Reads
  <1>1. p.R[i.rs] = x /\ p.R[i.rt] = y
    BY <1>0 DEF Reads
  <1>2. x \in Int /\ y \in Int /\ Signed(x) \in Int /\ Signed(y) \in Int
    BY WordBounds
  <1>3. CASE l.op \in UnsignedOps
    <2>1. X(l, b) = x /\ Y(l, b) = y
      BY <1>0, <1>3 DEF X, Y, Number
    <2>2. IsDouble(unsigned_multiply(p, x, y), p, x * y) /\ x * y \in Int
      BY <1>2, UnsignedProduct
    <2>. QED BY <1>1, <1>2, <1>3, <2>1, <2>2
  <1>4. CASE l.op \notin UnsignedOps
    <2>1. X(l, b) = Signed(x) /\ Y(l, b) = Signed(y)
      BY <1>0, <1>4 DEF X, Y, Number
    <2>2. IsDouble(signed_multiply(p, x, y), p, Signed(x) * Signed(y)) /\ Signed(x) * Signed(y) \in Int
      BY <1>2, SignedProduct
    <2>. QED BY <1>1, <1>2, <1>4, <2>1, <2>2
  <1>. QED BY <1>3, <1>4

LEMMA DoubleGives ==
  ASSUME NEW l, NEW b, NEW p, NEW e, NEW v \in Int, IsDouble(e, p, v),
         \A hi, lo : (hi * Word + lo = v % DoubleWord) => HiLoIs(l, b, hi, lo)
  PROVE  Gives(e, l, b, p)
  <1>1. PICK hi \in Words, lo \in Words, k \in Int :
          e = Doubled(p, hi, lo) /\ v = hi * Word + lo + k * DoubleWord
    BY DEF IsDouble
  <1>2. v % DoubleWord = hi * Word + lo
    BY <1>1, DoubleUnique
  <1>. QED BY <1>1, <1>2 DEF Gives

LEMMA MultiplyGives ==
  ASSUME NEW l, l.op \in {"mult", "multu"}, NEW b, NEW i, i.op = l.op,
         NEW p \in Machines, Reads(i, p, l, b), NEW bd
  PROVE  Gives(Effect(p, bd, i), l, b, p)
  <1>1. l.op \in UnsignedOps <=> l.op = "multu"
    BY DEF UnsignedOps
  <1>2. Effect(p, bd, i) = IF l.op \in UnsignedOps THEN unsigned_multiply(p, p.R[i.rs], p.R[i.rt])
                           ELSE signed_multiply(p, p.R[i.rs], p.R[i.rt])
    <2>1. Effect(p, bd, i) = Multiply(p, i) /\ i.op # "mul"
      BY EffectProducts DEF MultiplyOps
    <2>. QED BY <1>1, <2>1 DEF Multiply
  <1>3. IsDouble(Effect(p, bd, i), p, X(l, b) * Y(l, b)) /\ X(l, b) * Y(l, b) \in Int
    BY <1>2, Product
  <1>4. PICK v : v = X(l, b) * Y(l, b)
    OBVIOUS
  <1>5. ASSUME NEW hi, NEW lo, hi * Word + lo = v % DoubleWord PROVE HiLoIs(l, b, hi, lo)
    BY <1>4, <1>5 DEF HiLoIs, HiLoDue, HiLoLines, DoubleWord
  <1>. QED BY <1>3, <1>4, <1>5, DoubleGives

LEMMA MultiplyAddGives ==
  ASSUME NEW l, l.op \in MultiplyAddOps, NEW b, NEW i, i.op = l.op,
         NEW p \in Machines, p.HI = b.HI, p.LO = b.LO, Reads(i, p, l, b), NEW bd
  PROVE  Gives(Effect(p, bd, i), l, b, p)
  <1>1. l.op \in UnsignedOps <=> l.op # "madd"
    BY DEF UnsignedOps, MultiplyAddOps
  <1>. DEFINE c == IF l.op \in UnsignedOps THEN unsigned_multiply(p, p.R[i.rs], p.R[i.rt])
                   ELSE signed_multiply(p, p.R[i.rs], p.R[i.rt])
              z == X(l, b) * Y(l, b)
  <1>2. IsDouble(c, p, z) /\ z \in Int
    BY Product
  <1>3. PICK low, high :
          /\ low = Low(p.LO + c.LO)
          /\ high = Low(p.HI + (IF low < c.LO \/ low < p.LO THEN 1 ELSE 0) + c.HI)
    OBVIOUS
  <1>4. Effect(p, bd, i) = [c EXCEPT !.LO = low, !.HI = high]
    <2>1. Effect(p, bd, i) = MultiplyAdd(p, i)
      BY EffectProducts
    <2>2. c = IF i.op = "madd" THEN signed_multiply(p, p.R[i.rs], p.R[i.rt])
              ELSE unsigned_multiply(p, p.R[i.rs], p.R[i.rt])
      BY <1>1
    <2>. HIDE DEF c
    <2>. QED BY <1>3, <2>1, <2>2 DEF MultiplyAdd
  <1>. HIDE DEF c, z
  <1>5. IsDouble([c EXCEPT !.LO = low, !.HI = high], p, DoubleOf(p) + z)
    BY <1>2, <1>3, AddedProduct
  <1>6. PICK v : v = DoubleOf(p) + z
    OBVIOUS
  <1>7. v \in Int
    <2>1. DoubleOf(p) \in Int
      BY DoubleType DEF DoubleOf, Machines
    <2>. QED BY <1>2, <1>6, <2>1
  <1>8. ASSUME NEW hi, NEW lo, hi * Word + lo = v % DoubleWord PROVE HiLoIs(l, b, hi, lo)
    <2>1. v = (b.HI * Word + b.LO) + X(l, b) * Y(l, b)
      BY <1>6 DEF z, DoubleOf
    <2>. QED BY <1>8, <2>1 DEF HiLoIs, HiLoDue, HiLoLines, DoubleWord, MultiplyAddOps
  <1>. QED BY <1>4, <1>5, <1>6, <1>7, <1>8, DoubleGives

LEMMA MultiplySubGives ==
  ASSUME NEW l, l.op \in MultiplySubOps, NEW b, NEW i, i.op = l.op,
         NEW p \in Machines, p.HI = b.HI, p.LO = b.LO, Reads(i, p, l, b), NEW bd
  PROVE  Gives(Effect(p, bd, i), l, b, p)
  <1>1. l.op \in UnsignedOps <=> l.op # "msub"
    BY DEF UnsignedOps, MultiplySubOps
  <1>. DEFINE c == IF l.op \in UnsignedOps THEN unsigned_multiply(p, p.R[i.rs], p.R[i.rt])
                   ELSE signed_multiply(p, p.R[i.rs], p.R[i.rt])
              z == X(l, b) * Y(l, b)
  <1>2. IsDouble(c, p, z) /\ z \in Int
    BY Product
  <1>3. PICK low, high :
          /\ low = Low(p.LO - c.LO)
          /\ high = Low(p.HI - (IF c.LO > p.LO THEN 1 ELSE 0) - c.HI)
    OBVIOUS
  <1>4. Effect(p, bd, i) = [c EXCEPT !.LO = low, !.HI = high]
    <2>1. Effect(p, bd, i) = MultiplySub(p, i)
      BY EffectProducts
    <2>2. c = IF i.op = "msub" THEN signed_multiply(p, p.R[i.rs], p.R[i.rt])
              ELSE unsigned_multiply(p, p.R[i.rs], p.R[i.rt])
      BY <1>1
    <2>. HIDE DEF c
    <2>. QED BY <1>3, <2>1, <2>2 DEF MultiplySub
  <1>. HIDE DEF c, z
  <1>5. IsDouble([c EXCEPT !.LO = low, !.HI = high], p, DoubleOf(p) - z)
    BY <1>2, <1>3, SubtractedProduct
  <1>6. PICK v : v = DoubleOf(p) - z
    OBVIOUS
  <1>7. v \in Int
    <2>1. DoubleOf(p) \in Int
      BY DoubleType DEF DoubleOf, Machines
    <2>. QED BY <1>2, <1>6, <2>1
  <1>8. ASSUME NEW hi, NEW lo, hi * Word + lo = v % DoubleWord PROVE HiLoIs(l, b, hi, lo)
    <2>1. v = (b.HI * Word + b.LO) - X(l, b) * Y(l, b)
      BY <1>6 DEF z, DoubleOf
    <2>. QED BY <1>8, <2>1 DEF HiLoIs, HiLoDue, HiLoLines, DoubleWord, MultiplySubOps
  <1>. QED BY <1>4, <1>5, <1>6, <1>7, <1>8, DoubleGives

\* Quotient and remainder are in range, but for the overflow of division.
LEMMA QuotientInRange ==
  ASSUME NEW x \in Int, NEW y \in Int, y # 0, InRange(x), InRange(y), NEW q, q = Truncated(x, y),
         ~(x = -(Word \div 2) /\ y = -1)
  PROVE  InRange(q) /\ InRange(x - q * y)
  <1>. DEFINE h == Word \div 2
              r == x - q * y
  <1>1. h \in Nat \ {0} /\ h \in Int /\ h >= 1
    BY Widths
  <1>2. /\ q \in Int /\ r \in Int /\ abs(r) < abs(y) /\ abs(q) <= abs(x) /\ abs(q) \in Nat
        /\ (abs(x) <= h /\ q = h => abs(x) = h /\ abs(y) = 1 /\ ((x < 0) <=> (y < 0)))
    <2>1. /\ q \in Int /\ r \in Int /\ abs(r) < abs(y) /\ abs(q) <= abs(x) /\ abs(q) \in Nat
          /\ \A g \in Nat \ {0} :
               abs(x) <= g /\ q = g => abs(x) = g /\ abs(y) = 1 /\ ((x < 0) <=> (y < 0))
      BY TruncatedFacts
    <2>. HIDE DEF h, r
    <2>. QED BY <1>1, <2>1
  <1>3. -h <= x /\ x < h /\ -h <= y /\ y < h /\ ~(x = -h /\ y = -1)
    BY DEF InRange
  <1>. HIDE DEF h, r
  <1>4. abs(x) <= h /\ abs(y) <= h
    BY <1>1, <1>3 DEF abs
  <1>5. q # h
    BY <1>1, <1>2, <1>3, <1>4 DEF abs
  <1>6. -h <= q /\ q < h
    BY <1>1, <1>2, <1>4, <1>5 DEF abs
  <1>7. -h <= r /\ r < h
    BY <1>1, <1>2, <1>4 DEF abs
  <1>. QED BY <1>6, <1>7 DEF InRange, h, r

LEMMA DivideGives ==
  ASSUME NEW l, l.op \in {"div2", "divu2"}, NEW b, NEW i, i.op = IF l.op = "div2" THEN "div" ELSE "divu",
         NEW p \in Machines, Reads(i, p, l, b), NEW bd,
         Other(l, b) # 0, ~(First(l, b) = Word \div 2 /\ Other(l, b) = Word - 1)
  PROVE  Gives(Effect(p, bd, i), l, b, p)
  <1>0. PICK a \in Words, c \in Words : a = First(l, b) /\ c = Other(l, b)
    BY DEF Reads
  <1>1. p.R[i.rs] = a /\ p.R[i.rt] = c /\ c # 0 /\ ~(a = Word \div 2 /\ c = Word - 1)
    BY <1>0 DEF Reads
  <1>2. l.op \in UnsignedOps <=> l.op = "divu2"
    BY DEF UnsignedOps
  <1>3. PICK x, y : x = X(l, b) /\ y = Y(l, b)
    OBVIOUS
  <1>4. x = (IF l.op = "div2" THEN Signed(a) ELSE a) /\ y = (IF l.op = "div2" THEN Signed(c) ELSE c)
    BY <1>0, <1>2, <1>3 DEF X, Y, Number
  <1>5. /\ a \in Int /\ 0 <= a /\ a < Word /\ c \in Int /\ 0 <= c /\ c < Word
        /\ Signed(a) \in Int /\ InRange(Signed(a)) /\ Signed(c) \in Int /\ InRange(Signed(c))
        /\ Signed(a) = (IF a >= Word \div 2 THEN a - Word ELSE a)
        /\ Signed(c) = (IF c >= Word \div 2 THEN c - Word ELSE c)
    BY WordBounds DEF InRange
  <1>6. /\ x \in Int /\ y \in Int /\ y # 0
        /\ (l.op = "div2" => InRange(x) /\ InRange(y) /\ ~(x = -(Word \div 2) /\ y = -1))
    <2>1. /\ Word \in Int /\ Word \div 2 \in Int /\ Word = 2 * (Word \div 2) /\ Word >= 16
      BY Widths
    <2>2. Signed(c) # 0 /\ ~(Signed(a) = -(Word \div 2) /\ Signed(c) = -1)
      BY <1>1, <1>5, <2>1
    <2>. QED BY <1>1, <1>4, <1>5, <2>2
  <1>7. PICK q : q = Truncated(x, y)
    OBVIOUS
  <1>8. q \in Int /\ x - q * y \in Int /\ IsQuotient(q, x, y) /\ abs(x - q * y) < abs(y)
        /\ abs(q) <= abs(x) /\ (x >= 0 /\ y >= 0 => q >= 0 /\ x - q * y >= 0)
    BY <1>6, <1>7, TruncatedFacts
  <1>9. PICK r : r = x - q * y
    OBVIOUS
  <1>10. Effect(p, bd, i) = [p EXCEPT !.LO = Low(q), !.HI = Low(r)]
    <2>1. Effect(p, bd, i) = Divide(p, i)
      BY EffectProducts DEF DivideOps
    <2>2. /\ x = (IF i.op = "div" THEN Signed(a) ELSE a) /\ y = (IF i.op = "div" THEN Signed(c) ELSE c)
      BY <1>4
    <2>. QED BY <1>1, <1>7, <1>9, <2>1, <2>2 DEF Divide
  <1>11. Number(l, Low(q)) = q /\ Number(l, Low(r)) = r
    <2>1. CASE l.op = "div2"
      <3>1. InRange(q) /\ InRange(r)
        BY <1>6, <1>7, <1>9, <2>1, QuotientInRange
      <3>2. Signed(Low(q)) = q /\ Signed(Low(r)) = r
        BY <1>8, <1>9, <3>1, SignedOfWord
      <3>. QED BY <1>2, <2>1, <3>2 DEF Number
    <2>2. CASE l.op = "divu2"
      <3>1. x = a /\ y = c
        BY <1>4, <2>2
      <3>2. 0 <= q /\ q < Word /\ 0 <= r /\ r < Word
        BY <1>5, <1>8, <1>9, <3>1, Widths DEF abs
      <3>3. q \in Words /\ r \in Words
        BY <1>8, <1>9, <3>2, Widths DEF Words
      <3>. QED BY <1>2, <2>2, <3>3, LowSmall DEF Number
    <2>. QED BY <2>1, <2>2
  <1>12. HiLoIs(l, b, Low(r), Low(q))
    <2>. DEFINE g == [HI |-> Low(r), LO |-> Low(q)]
    <2>1. g.HI = Low(r) /\ g.LO = Low(q)
      OBVIOUS
    <2>. HIDE DEF g
    <2>2. /\ IsQuotient(Number(l, g.LO), X(l, b), Y(l, b))
          /\ Number(l, g.HI) = X(l, b) - Number(l, g.LO) * Y(l, b)
      BY <1>3, <1>8, <1>9, <1>11, <2>1
    <2>3. HiLoDue(l, b, g)
      BY <2>2 DEF HiLoDue, HiLoLines
    <2>. QED BY <2>3 DEF HiLoIs, g
  <1>13. Low(q) \in Words /\ Low(r) \in Words
    BY <1>8, <1>9, LowType
  <1>14. Effect(p, bd, i) = Doubled(p, Low(r), Low(q))
    BY <1>10 DEF Doubled
  <1>. QED BY <1>12, <1>13, <1>14 DEF Gives

LEMMA MoveToGives ==
  ASSUME NEW l, l.op \in MoveToOps, NEW b, NEW i, i.op = l.op,
         NEW p \in Machines, p.HI = b.HI, p.LO = b.LO, p.R[i.rs] = First(l, b), First(l, b) \in Words, NEW bd
  PROVE  Gives(Effect(p, bd, i), l, b, p)
  <1>0. PICK a \in Words : a = First(l, b)
    OBVIOUS
  <1>1. PICK hi \in Words, lo \in Words :
          /\ hi = IF l.op = "mthi" THEN a ELSE p.HI
          /\ lo = IF l.op = "mthi" THEN p.LO ELSE a
    BY DEF Machines
  <1>2. Effect(p, bd, i) = Doubled(p, hi, lo)
    <2>1. Effect(p, bd, i) = MoveTo(p, i)
      BY EffectKinds
    <2>2. MoveTo(p, i) = IF i.op = "mthi" THEN [p EXCEPT !.HI = a] ELSE [p EXCEPT !.LO = a]
      BY <1>0 DEF MoveTo
    <2>. QED BY <1>1, <2>1, <2>2 DEF Doubled, Machines
  <1>3. HiLoIs(l, b, hi, lo)
    <2>. DEFINE g == [HI |-> hi, LO |-> lo]
    <2>1. g.HI = hi /\ g.LO = lo
      OBVIOUS
    <2>. HIDE DEF g
    <2>2. HiLoDue(l, b, g)
      BY <1>0, <1>1, <2>1 DEF HiLoDue, HiLoLines, MoveToOps
    <2>. QED BY <2>2 DEF HiLoIs, g
  <1>. QED BY <1>2, <1>3 DEF Gives

\* mul keeps the low word of the product, with its sign or without.
Keeps(e, l, b, p) == \E hi \in Words, lo \in Words :
                       e = Set(Doubled(p, hi, lo), l.rd, lo) /\ lo = Low(X(l, b) * Y(l, b))
LEMMA MulEffect ==
  ASSUME NEW l, l.op = "mul", NEW b, NEW i, i.op = "mul", i.rd = l.rd,
         NEW p \in Machines, Reads(i, p, l, b), NEW bd
  PROVE  Keeps(Effect(p, bd, i), l, b, p)
  <1>1. l.op \notin UnsignedOps
    BY DEF UnsignedOps
  <1>2. PICK d : d = signed_multiply(p, p.R[i.rs], p.R[i.rt])
    OBVIOUS
  <1>3. PICK v : v = X(l, b) * Y(l, b)
    OBVIOUS
  <1>4. IsDouble(d, p, v) /\ v \in Int
    BY <1>1, <1>2, <1>3, Product
  <1>5. PICK hi \in Words, lo \in Words, k \in Int :
          d = Doubled(p, hi, lo) /\ v = hi * Word + lo + k * DoubleWord
    BY <1>4 DEF IsDouble
  <1>6. Low(v) = lo
    BY <1>4, <1>5, DoubleUnique
  <1>7. d.LO = lo
    BY <1>5 DEF Doubled, Machines
  <1>8. Effect(p, bd, i) = Set(d, l.rd, d.LO)
    <2>1. Effect(p, bd, i) = Multiply(p, i)
      BY EffectProducts DEF MultiplyOps
    <2>. QED BY <1>2, <2>1 DEF Multiply
  <1>. QED BY <1>3, <1>5, <1>6, <1>7, <1>8 DEF Keeps

ProductInstOf(l) ==
  Inst(IF l.op = "div2" THEN "div" ELSE IF l.op = "divu2" THEN "divu" ELSE l.op,
       IF l.op \in {"div2", "divu2"} \cup MoveToOps THEN 0 ELSE l.rd, l.rs,
       IF l.op \in MoveToOps THEN 0 ELSE l.rt, 0, "none")

LEMMA ProductRule ==
  ASSUME NEW l, l.op \in ProductOps \cup {"mul"}
  PROVE  /\ ASM_CODE(l) = IF l.op \in MoveToOps THEN MoveLine(l) ELSE HardwareLine(l)
         /\ l.op \in MoveToOps => MoveLine(l) = r_type_inst(l.op, 0, l.rs, 0)
         /\ l.op \notin FloatLines
  <1>. USE DEF ProductOps, MultiplyAddOps, MultiplySubOps, MoveToOps
  <1>1. l.op \notin LoadLines \cup StoreLines /\ l.op \notin Branches /\ l.op \notin TrapOps
    BY DEF LoadLines, StoreLines, Branches, TrapOps
  <1>2. /\ l.op \notin FloatMoves /\ l.op \notin MoveOnOps /\ l.op \notin CompareOps
        /\ l.op \notin ConditionBranches /\ l.op \notin CoprocessorMoves
        /\ l.op \notin FloatLoadStore /\ l.op \notin {"l.s", "l.d", "s.s", "s.d"}
        /\ l.op \notin {"li.s", "li.d", "mfc1", "mtc1", "mfc1.d", "mtc1.d"}
    BY DEF FloatMoves, MoveOnOps, CompareOps, ConditionBranches, CoprocessorMoves, FloatLoadStore
  <1>3. l.op \notin FloatLines
    BY <1>2 DEF FloatLines, FloatMemory, FloatLoadLines, FloatStoreLines, FloatLoadStore
  <1>4. ASM_CODE(l) = ComputeLine(l)
    BY <1>1, <1>3 DEF ASM_CODE
  <1>5. /\ l.op \notin {"li", "la", "lui"} /\ l.op \notin BinaryLines /\ l.op \notin ShiftLines
        /\ l.op # "nor" /\ l.op \notin SubOps /\ l.op \notin {"div", "divu", "rem", "remu"}
        /\ l.op \notin {"mulo", "mulou"} /\ l.op \notin {"rol", "ror"} /\ l.op \notin SetLines
        /\ (l.op \in HardwareLines <=> l.op \notin MoveToOps)
        /\ (l.op \in MoveLines <=> l.op \in MoveToOps)
    BY DEF BinaryLines, ShiftLines, SubOps, SetLines, HardwareLines, MoveLines, AddOps, Logical,
       SetLessOps, ShiftLeftOps, ShiftRightOps, MultiplyOps, LeadingOps, MoveIfOps, MoveFromOps
  <1>6. ASSUME l.op \in MoveToOps PROVE ComputeLine(l) = MoveLine(l)
    BY <1>5, <1>6, Zenon DEF ComputeLine
  <1>7. ASSUME l.op \notin MoveToOps PROVE ComputeLine(l) = HardwareLine(l)
    BY <1>5, <1>7, Zenon DEF ComputeLine
  <1>8. ASSUME l.op \in MoveToOps PROVE MoveLine(l) = r_type_inst(l.op, 0, l.rs, 0)
    <2>1. /\ l.op # "abs" /\ l.op # "neg" /\ l.op # "negu" /\ l.op # "not" /\ l.op # "move"
          /\ l.op \notin LeadingOps /\ l.op \notin MoveIfOps /\ l.op \notin MoveFromOps
      BY <1>8 DEF LeadingOps, MoveIfOps, MoveFromOps
    <2>. QED BY <1>8, <2>1, Zenon DEF MoveLine
  <1>. QED BY <1>3, <1>4, <1>6, <1>7, <1>8

LEMMA ProductCode ==
  ASSUME NEW l, l.op \in ProductOps \cup {"mul"}, l.form = "reg" \/ l.op \in MoveToOps, IntegerLine(l)
  PROVE  /\ ASM_CODE(l) = <<ProductInstOf(l)>> /\ Patched(ASM_CODE(l)) = ASM_CODE(l)
         /\ ProductInstOf(l) \in Straight /\ ProductInstOf(l).op # "fatal_error"
  <1>1. l.rd \in Registers /\ l.rs \in Registers /\ l.rt \in Registers /\ 0 \in Registers
    BY SmallRegisters DEF IntegerLine
  <1>2. /\ \E rd \in Registers : rd = IF l.op \in {"div2", "divu2"} \cup MoveToOps THEN 0 ELSE l.rd
        /\ \E rt \in Registers : rt = IF l.op \in MoveToOps THEN 0 ELSE l.rt
    BY <1>1
  <1>8. PICK op : op = IF l.op = "div2" THEN "div" ELSE IF l.op = "divu2" THEN "divu" ELSE l.op
    OBVIOUS
  <1>9. PICK rd \in Registers : rd = IF l.op \in {"div2", "divu2"} \cup MoveToOps THEN 0 ELSE l.rd
    BY <1>2
  <1>10. PICK rt \in Registers : rt = IF l.op \in MoveToOps THEN 0 ELSE l.rt
    BY <1>2
  <1>3. op \in IntegerOps
    BY <1>8 DEF ProductOps, IntegerOps, MultiplyOps, MultiplyAddOps, MultiplySubOps, DivideOps, MoveToOps
  <1>4. PICK i : i = Inst(op, rd, l.rs, rt, 0, "none")
    OBVIOUS
  <1>5. ProductInstOf(l) = i
    BY <1>8, <1>9, <1>10, <1>4 DEF ProductInstOf
  <1>6. r_type_inst(op, rd, l.rs, rt) = <<i>> /\ i \in Straight /\ Patched(<<i>>) = <<i>> /\ i.op # "fatal_error"
    <2>1. i.op = op
      BY <1>4 DEF Inst
    <2>. QED BY <1>1, <1>3, <1>4, <2>1, RegisterInst
  <1>7. ASM_CODE(l) = r_type_inst(op, rd, l.rs, rt)
    <2>1. CASE l.op \in MoveToOps
      <3>1. l.op # "div2" /\ l.op # "divu2"
        BY <2>1 DEF MoveToOps
      <3>. QED BY <1>8, <1>9, <1>10, <2>1, <3>1, ProductRule
    <2>2. CASE l.op \in {"div2", "divu2"}
      <3>1. l.op \notin MoveToOps
        BY <2>2 DEF MoveToOps
      <3>. QED BY <1>8, <1>9, <1>10, <2>2, <3>1, ProductRule DEF HardwareLine
    <2>3. CASE l.op \notin MoveToOps /\ l.op \notin {"div2", "divu2"}
      <3>1. l.form = "reg" /\ ASM_CODE(l) = HardwareLine(l)
        BY <2>3, ProductRule
      <3>2. HardwareLine(l) = r_type_inst(l.op, l.rd, l.rs, l.rt)
        BY <2>3, <3>1 DEF HardwareLine
      <3>3. op = l.op /\ rd = l.rd /\ rt = l.rt
        BY <1>8, <1>9, <1>10, <2>3
      <3>. QED BY <3>1, <3>2, <3>3
    <2>. QED BY <2>1, <2>2, <2>3
  <1>. QED BY <1>5, <1>6, <1>7

\* Multiplications and divisions by the machine, and moves to HI and LO.
OnHiLo(l) == \/ l.op \in ProductOps \ MoveToOps /\ l.form = "reg"
             \/ l.op \in MoveToOps
             \/ l.op = "mul" /\ (l.form = "reg" \/ (l.form = "imm" /\ l.rs # at))
Divides(l, b) == l.op \in {"div2", "divu2"} =>
                   Other(l, b) # 0 /\ ~(First(l, b) = Word \div 2 /\ Other(l, b) = Word - 1)

LEMMA ProductMeans ==
  ASSUME NEW l, l.op \in ProductOps \cup {"mul"}, l.form = "reg" \/ l.op \in MoveToOps, IntegerLine(l),
         NEW b, Fresh(b), Divides(l, b), NEW bd,
         NEW c, c = Patched(ASM_CODE(l)), NEW n, Runs(b, bd, c, n), Over(n, c)
  PROVE  Means(l, bd, b, Arrived(n), Len(c))
  <1>0. PICK i : i = ProductInstOf(l)
    OBVIOUS
  <1>1. c = <<i>> /\ i \in Straight /\ i.op # "fatal_error"
    BY <1>0, ProductCode
  <1>2. Len(c) = 1 /\ c[1] = i
    BY <1>1
  <1>3. Due(b, i, b, bd, c, n)
    BY <1>2, FreshSame DEF Due
  <1>4. Same(b, b) /\ Len(c) \in Nat /\ n = [Effect(b, bd, i) EXCEPT !.PC = Len(c) + 1]
    <2>1. Same(b, b) /\ Len(c) \in Nat /\ DoneBy(n, b, bd, i, Len(c))
      BY <1>1, <1>3, DueEnds
    <2>. QED BY <2>1 DEF DoneBy
  <1>5. /\ i.op = (IF l.op = "div2" THEN "div" ELSE IF l.op = "divu2" THEN "divu" ELSE l.op)
        /\ i.rd = (IF l.op \in {"div2", "divu2"} \cup MoveToOps THEN 0 ELSE l.rd)
        /\ i.rs = l.rs /\ i.rt = (IF l.op \in MoveToOps THEN 0 ELSE l.rt)
    BY <1>0 DEF ProductInstOf, Inst
  <1>6. b \in Machines /\ b.R \in [Registers -> Words] /\ l.rd \in Registers /\ l.rs \in Registers
        /\ l.rt \in Registers
    BY DEF Fresh, Machines, IntegerLine
  <1>7. b.R[i.rs] = First(l, b) /\ First(l, b) \in Words
    BY <1>5, <1>6 DEF First
  <1>8. l.op \notin MoveToOps => Reads(i, b, l, b)
    BY <1>5, <1>6, <1>7 DEF Reads, Other
  <1>9. ASSUME l.op \in ProductOps PROVE Gives(Effect(b, bd, i), l, b, b)
    <2>1. CASE l.op \in MoveToOps
      <3>1. i.op = l.op
        BY <1>5, <2>1 DEF MoveToOps
      <3>. QED BY <1>6, <1>7, <2>1, <3>1, MoveToGives
    <2>2. CASE l.op \in {"mult", "multu"}
      <3>1. i.op = l.op /\ l.op \notin MoveToOps
        BY <1>5, <2>2 DEF MoveToOps
      <3>. QED BY <1>6, <1>8, <2>2, <3>1, MultiplyGives
    <2>3. CASE l.op \in MultiplyAddOps
      <3>1. i.op = l.op /\ l.op \notin MoveToOps
        BY <1>5, <2>3 DEF MoveToOps, MultiplyAddOps
      <3>. QED BY <1>6, <1>8, <2>3, <3>1, MultiplyAddGives
    <2>4. CASE l.op \in MultiplySubOps
      <3>1. i.op = l.op /\ l.op \notin MoveToOps
        BY <1>5, <2>4 DEF MoveToOps, MultiplySubOps
      <3>. QED BY <1>6, <1>8, <2>4, <3>1, MultiplySubGives
    <2>5. CASE l.op \in {"div2", "divu2"}
      <3>1. l.op \notin MoveToOps /\ i.op = IF l.op = "div2" THEN "div" ELSE "divu"
        BY <1>5, <2>5 DEF MoveToOps
      <3>2. Other(l, b) # 0 /\ ~(First(l, b) = Word \div 2 /\ Other(l, b) = Word - 1)
        BY <2>5 DEF Divides
      <3>. QED BY <1>6, <1>8, <2>5, <3>1, <3>2, DivideGives
    <2>. QED BY <1>9, <2>1, <2>2, <2>3, <2>4, <2>5 DEF ProductOps
  <1>10. CASE l.op \in ProductOps
    <2>1. PICK hi \in Words, lo \in Words :
            Effect(b, bd, i) = Doubled(b, hi, lo) /\ HiLoIs(l, b, hi, lo)
      BY <1>9, <1>10 DEF Gives
    <2>2. n = [Doubled(b, hi, lo) EXCEPT !.PC = Len(c) + 1]
      BY <1>4, <2>1
    <2>. QED BY <1>4, <1>10, <2>1, <2>2, DoubledMeans
  <1>11. CASE l.op = "mul"
    <2>1. l.op \notin MoveToOps /\ i.op = "mul" /\ i.rd = l.rd
      BY <1>5, <1>11 DEF MoveToOps
    <2>2. PICK hi \in Words, lo \in Words : /\ Effect(b, bd, i) = Set(Doubled(b, hi, lo), l.rd, lo)
                                            /\ lo = Low(X(l, b) * Y(l, b))
      <3>1. Keeps(Effect(b, bd, i), l, b, b)
        BY <1>6, <1>8, <1>11, <2>1, MulEffect
      <3>. QED BY <3>1 DEF Keeps
    <2>3. n = [Set(Doubled(b, hi, lo), l.rd, lo) EXCEPT !.PC = Len(c) + 1]
      BY <1>4, <2>2
    <2>. QED BY <1>4, <1>6, <1>11, <2>2, <2>3, MulMeans
  <1>. QED BY <1>10, <1>11

\* An immediate factor goes to $at first.
LEMMA MulImmediateCode ==
  ASSUME NEW l, l.op = "mul", l.form = "imm", IntegerLine(l),
         NEW i, i = Inst("mul", l.rd, l.rs, at, 0, "none")
  PROVE  /\ ProducesFor(Patched(ASM_CODE(l)), i, l.imm)
         /\ i \in Straight /\ i.op = "mul" /\ i.rd = l.rd /\ i.rs = l.rs /\ i.rt = at
  <1>1. l.rd \in Registers /\ l.rs \in Registers /\ at \in Registers /\ "mul" \in IntegerOps
    BY SmallRegisters DEF IntegerLine, IntegerOps, MultiplyOps
  <1>2. r_type_inst("mul", l.rd, l.rs, at) = <<i>> /\ i \in Straight
    BY <1>1, RegisterInst
  <1>3. i.op = "mul" /\ i.bits = "none" /\ i.rd = l.rd /\ i.rs = l.rs /\ i.rt = at
    BY DEF Inst
  <1>4. ASM_CODE(l) = i_type_inst("ori", at, 0, Immediate(l)) \o <<i>>
    <2>1. l.op \notin MoveToOps /\ l.op \in ProductOps \cup {"mul"}
      BY DEF MoveToOps
    <2>. QED BY <1>2, <2>1, ProductRule DEF HardwareLine
  <1>5. Immediate(l) \in Exprs /\ Immediate(l).bits = "all" /\ Immediate(l).value = l.imm
    BY LineExprs DEF IntegerLine, Immediate
  <1>6. i.op \notin LoadStore
    BY <1>3 DEF LoadStore, LoadOps, StoreOps, FloatLoadStore
  <1>7. ProducesFor(Patched(i_type_inst("ori", at, 0, Immediate(l)) \o <<i>>), i, Immediate(l).value)
    BY <1>1, <1>3, <1>5, <1>6, IntoCode
  <1>. QED BY <1>2, <1>3, <1>4, <1>5, <1>7

LEMMA MulImmediateMeans ==
  ASSUME NEW l, l.op = "mul", l.form = "imm", l.rs # at, IntegerLine(l),
         NEW b, Fresh(b), NEW bd, NEW c, c = Patched(ASM_CODE(l)),
         NEW n, Runs(b, bd, c, n), Over(n, c)
  PROVE  Means(l, bd, b, Arrived(n), Len(c))
  <1>0. PICK i : i = Inst("mul", l.rd, l.rs, at, 0, "none")
    OBVIOUS
  <1>1. ProducesFor(c, i, l.imm) /\ i \in Straight /\ i.op = "mul" /\ i.rd = l.rd /\ i.rs = l.rs /\ i.rt = at
    BY <1>0, MulImmediateCode
  <1>2. l.imm \in Int /\ l.rd \in Registers /\ l.rs \in Registers \ {at}
    BY DEF IntegerLine
  <1>3. PICK p : Due(p, i, b, bd, c, n) /\ p.R[at] = Low(l.imm)
    BY <1>1, <1>2, ProduceRun
  <1>4. Same(p, b) /\ Len(c) \in Nat /\ n = [Effect(p, bd, i) EXCEPT !.PC = Len(c) + 1]
    <2>1. Same(p, b) /\ Len(c) \in Nat /\ DoneBy(n, p, bd, i, Len(c))
      BY <1>1, <1>3, DueEnds
    <2>. QED BY <2>1 DEF DoneBy
  <1>5. p \in Machines /\ Reads(i, p, l, b)
    <2>1. p \in Machines /\ p.R[l.rs] = b.R[l.rs] /\ b.R[l.rs] \in Words
      BY <1>2, <1>4 DEF Same, Clean, Fresh, Machines
    <2>2. Low(l.imm) \in Words
      BY <1>2, LowType
    <2>. QED BY <1>1, <1>3, <2>1, <2>2 DEF Reads, First, Other
  <1>6. PICK hi \in Words, lo \in Words : /\ Effect(p, bd, i) = Set(Doubled(p, hi, lo), l.rd, lo)
                                          /\ lo = Low(X(l, b) * Y(l, b))
    <2>1. Keeps(Effect(p, bd, i), l, b, p)
      BY <1>1, <1>5, MulEffect
    <2>. QED BY <2>1 DEF Keeps
  <1>7. n = [Set(Doubled(p, hi, lo), l.rd, lo) EXCEPT !.PC = Len(c) + 1]
    BY <1>4, <1>6
  <1>. QED BY <1>2, <1>4, <1>6, <1>7, MulMeans

LEMMA ProductNotFatal ==
  ASSUME NEW l, OnHiLo(l), IntegerLine(l), CodeOK(ASM_CODE(l))
  PROVE  ~\E k \in DOMAIN ASM_CODE(l) : ASM_CODE(l)[k].op = "fatal_error"
  <1>1. CASE l.op = "mul" /\ l.form = "imm"
    <2>1. PICK i : i = Inst("mul", l.rd, l.rs, at, 0, "none")
      OBVIOUS
    <2>2. PICK c : c = Patched(ASM_CODE(l))
      OBVIOUS
    <2>3. ProducesFor(c, i, l.imm) /\ i.op = "mul"
      BY <1>1, <2>1, <2>2, MulImmediateCode
    <2>4. Harmless(c)
      BY <2>3, HarmlessProduced
    <2>. QED BY <2>2, <2>4, PatchedType DEF Harmless
  <1>2. CASE ~(l.op = "mul" /\ l.form = "imm")
    <2>1. l.op \in ProductOps \cup {"mul"} /\ (l.form = "reg" \/ l.op \in MoveToOps)
      BY <1>2 DEF OnHiLo, ProductOps
    <2>2. PICK i : i = ProductInstOf(l)
      OBVIOUS
    <2>3. ASM_CODE(l) = <<i>> /\ i.op # "fatal_error"
      BY <2>1, <2>2, ProductCode
    <2>4. Harmless(ASM_CODE(l))
      BY <2>3, HarmlessOne
    <2>. QED BY <2>4 DEF Harmless
  <1>. QED BY <1>1, <1>2

\* The product of the halves, with its carries and its sign, is the product of
\* the operands: mult and its unsigned form leave all of it in HI and LO, madd
\* and msub add it to what was there and take it away, modulo the width of the
\* two, and mul leaves its low word in rd, for an immediate however wide too.
\* The divisions leave a quotient rounded towards zero and its remainder, but
\* for a divisor of 0, the overflow of the signed one, and the operands of that
\* overflow, which the unsigned one is known to refuse.  mthi and mtlo move.
\* Nothing else changes but $at.
THEOREM ProductsMeanWhatTheySay == Spec => [](OnHiLo(line) => MeansWhatItSays)
  <1>1. LineInv => (OnHiLo(line) => MeansWhatItSays)
    <2>. SUFFICES ASSUME LineInv, OnHiLo(line), ~KnownWrong, ~Undefined(line, before)
                  PROVE  MeansWhatItSays
      BY DEF MeansWhatItSays
    <2>0. line.op \in ProductOps \cup {"mul"}
      BY DEF OnHiLo, ProductOps
    <2>1. line.op \notin FloatLines /\ IntegerLine(line) /\ CodeOK(ASM_CODE(line))
      <3>1. LineOK(line) /\ line.op \notin FloatLines
        BY <2>0, LinesOK, ProductRule DEF LineInv, TypeInv
      <3>2. line.op \notin FloatMoves \cup CompareOps \cup {"mfc1", "mfc1.d"}
        BY <3>1 DEF FloatLines
      <3>. QED BY <3>1, <3>2, AssembledOK DEF LineOK, IntegerLine, Destinations, Sources
    <2>2. stage # "fatal"
      BY <2>1, ProductNotFatal DEF LineInv
    <2>3. Divides(line, before)
      BY DEF Divides, Undefined, Breaks, KnownWrong, DivuRefuses
    <2>4. ASSUME stage = "run", Ended PROVE Means(line, build, before, Settled, Len(code))
      <3>1. /\ code = Patched(ASM_CODE(line)) /\ Runs(before, build, code, m)
            /\ Over(m, code) /\ Fresh(before)
        BY <2>4 DEF LineInv, Over, Ended
      <3>2. CASE line.op = "mul" /\ line.form = "imm"
        <4>1. line.rs # at
          BY <3>2 DEF OnHiLo, ProductOps, MultiplyAddOps, MultiplySubOps, MoveToOps
        <4>2. Means(line, build, before, Arrived(m), Len(code))
          BY <2>1, <3>1, <3>2, <4>1, MulImmediateMeans
        <4>. QED BY <4>2 DEF Settled, Arrived
      <3>3. CASE ~(line.op = "mul" /\ line.form = "imm")
        <4>1. line.form = "reg" \/ line.op \in MoveToOps
          BY <3>3 DEF OnHiLo
        <4>2. Means(line, build, before, Arrived(m), Len(code))
          BY <2>0, <2>1, <2>3, <3>1, <4>1, ProductMeans
        <4>. QED BY <4>2 DEF Settled, Arrived
      <3>. QED BY <3>2, <3>3
    <2>. QED BY <2>1, <2>2, <2>4 DEF MeansWhatItSays
  <1>2. Init => LineInv
    BY LineInit
  <1>3. LineInv /\ [Next]_vars => LineInv'
    BY LineStep
  <1>. QED BY <1>1, <1>2, <1>3, PTL DEF Spec
=============================================================================
