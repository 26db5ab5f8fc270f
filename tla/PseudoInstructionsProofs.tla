---------------------- MODULE PseudoInstructionsProofs ----------------------
(***************************************************************************)
(* Proofs about PseudoInstructions: the machine keeps its type whatever    *)
(* line is assembled and run, for words of any width and registers of any  *)
(* contents.                                                               *)
(***************************************************************************)
EXTENDS PseudoInstructions, FiniteSetTheorems, TLAPS

-----------------------------------------------------------------------------
(***************************************************************************)
(* Division with remainder, and numbers of a word's width.                 *)
(***************************************************************************)
LEMMA DivMod ==
  ASSUME NEW n \in Int, NEW d \in Nat \ {0}
  PROVE  /\ n \div d \in Int /\ n % d \in 0 .. d - 1
         /\ n = d * (n \div d) + (n % d)
  BY SMT

LEMMA DivModUnique ==
  ASSUME NEW d \in Nat \ {0}, NEW q \in Int, NEW r \in 0 .. d - 1, NEW n \in Int, n = q * d + r
  PROVE  n \div d = q /\ n % d = r
  BY SMT

LEMMA DivRange ==
  ASSUME NEW d \in Nat \ {0}, NEW e \in Nat, NEW n \in 0 .. d * e - 1
  PROVE  n \div d \in 0 .. e - 1
  <1>. DEFINE q == n \div d
             r == n % d
  <1>1. q \in Int /\ r \in 0 .. d - 1 /\ n = d * q + r
    BY DivMod
  <1>. HIDE DEF q, r
  <1>2. q >= 0
    <2>1. SUFFICES ASSUME q <= -1 PROVE FALSE
      BY <1>1
    <2>2. d * q <= -d
      BY <1>1, <2>1
    <2>. QED BY <1>1, <2>2
  <1>3. q < e
    <2>1. SUFFICES ASSUME q >= e PROVE FALSE
      BY <1>1
    <2>2. d * q >= d * e
      BY <1>1, <2>1
    <2>. QED BY <1>1, <2>2
  <1>4. q \in 0 .. e - 1
    BY <1>1, <1>2, <1>3
  <1>. QED BY <1>4 DEF q

LEMMA Widths ==
  /\ Byte \in Nat \ {0} /\ Byte >= 2
  /\ Half \in Nat \ {0} /\ Half >= 4 /\ Half % 2 = 0
  /\ Word \in Nat \ {0} /\ Word >= 16 /\ Word % 2 = 0
  /\ Word \div 2 \in Nat /\ Word = 2 * (Word \div 2)
  <1>1. PICK k \in Nat : Byte = 2 * k /\ k >= 1
    <2>1. Byte = 2 * (Byte \div 2) /\ Byte \div 2 \in Nat /\ Byte \div 2 >= 1
      BY WidthOK
    <2>. QED BY <2>1
  <1>2. Half = 4 * (k * k) /\ k * k \in Nat /\ k * k >= 1
    BY <1>1 DEF Half
  <1>3. PICK j \in Nat : Half = 4 * j /\ j >= 1
    BY <1>2
  <1>4. Word = 16 * (j * j) /\ j * j \in Nat /\ j * j >= 1
    BY <1>3 DEF Word
  <1>. QED BY WidthOK, <1>3, <1>4

LEMMA LowType == ASSUME NEW n \in Int PROVE Low(n) \in Words
  BY Widths, DivMod DEF Low, Words

LEMMA WordBounds ==
  ASSUME NEW x \in Words
  PROVE  /\ x \in Int /\ 0 <= x /\ x < Word
         /\ SignBit(x) \in {0, 1} /\ (SignBit(x) = 1 <=> x >= Word \div 2)
         /\ Signed(x) \in Int /\ Signed(x) >= -(Word \div 2) /\ Signed(x) < Word \div 2
         /\ Signed(x) = IF x >= Word \div 2 THEN x - Word ELSE x
  <1>1. x \in Int /\ 0 <= x /\ x < Word
    BY Widths DEF Words
  <1>2. CASE x < Word \div 2
    <2>1. SignBit(x) = 0
      BY <1>1, <1>2, Widths, DivModUnique, x = 0 * (Word \div 2) + x DEF SignBit
    <2>. QED BY <1>1, <1>2, <2>1, Widths DEF Signed
  <1>3. CASE x >= Word \div 2
    <2>1. SignBit(x) = 1
      BY <1>1, <1>3, Widths, DivModUnique, x = 1 * (Word \div 2) + (x - Word \div 2) DEF SignBit
    <2>. QED BY <1>1, <1>3, <2>1, Widths DEF Signed
  <1>. QED BY <1>1, <1>2, <1>3, Widths

LEMMA ShortType == ASSUME NEW n \in Int PROVE Short(n) \in Int /\ SignByte(n) \in Int
  BY Widths, DivMod DEF Short, SignByte

-----------------------------------------------------------------------------
(***************************************************************************)
(* The type of a machine, and that the parts instructions are made of keep *)
(* it.                                                                     *)
(***************************************************************************)
Bytes8 == 0 .. Byte - 1
Exceptions == {"none", "Ov", "Tr", "Bp", "AdEL", "AdES", "DBE", "FPE", "run_error"}
Loads == {<<>>} \cup {<<"R", r, w>> : r \in Registers, w \in Words}
                \cup {<<"F", r, w>> : r \in FloatRegisters, w \in Words}
Machines ==
  [R : [Registers -> Words], F : [FloatRegisters -> Words], FCC : [Conditions -> {0, 1}],
   HI : Words, LO : Words, mem : [Memory -> Bytes8], exception : Exceptions,
   PC : Nat \ {0}, late1 : Loads, late2 : Loads]

LEMMA RaiseType ==
  ASSUME NEW n \in Machines, NEW e \in Exceptions
  PROVE  Raise(n, e) \in Machines
  BY DEF Raise, Machines

LEMMA SetType ==
  ASSUME NEW n \in Machines, NEW r, NEW w \in Words
  PROVE  Set(n, r, w) \in Machines
  BY DEF Set, Machines

LEMMA LoadedType ==
  ASSUME NEW n \in Machines, NEW load \in Loads, load # <<>>
  PROVE  Loaded(n, load[1], load[2], load[3]) \in Machines
  <1>1. load[3] \in Words
    BY DEF Loads
  <1>2. Set(n, load[2], load[3]) \in Machines
    BY <1>1, SetType
  <1>3. [n EXCEPT !.F[load[2]] = load[3]] \in Machines
    BY <1>1 DEF Machines
  <1>. QED BY <1>2, <1>3 DEF Loaded

LEMMA UpdateType ==
  ASSUME NEW n \in Machines
  PROVE  DO_DELAYED_UPDATE(n) \in Machines
  <1>. DEFINE late == IF n.late2 = <<>> THEN n
                      ELSE Loaded(n, n.late2[1], n.late2[2], n.late2[3])
  <1>1. late \in Machines
    BY LoadedType DEF Machines
  <1>2. n.late1 \in Loads /\ <<>> \in Loads
    BY DEF Machines, Loads
  <1>3. DO_DELAYED_UPDATE(n) = [late EXCEPT !.late2 = n.late1, !.late1 = <<>>]
    BY DEF DO_DELAYED_UPDATE
  <1>. HIDE DEF late
  <1>. QED BY <1>1, <1>2, <1>3 DEF Machines

LEMMA StartType ==
  ASSUME NEW n \in Machines
  PROVE  StartStep(n) \in Machines
  BY SetType, UpdateType, Widths DEF StartStep, Words

LEMMA LoadInstType ==
  ASSUME NEW n \in Machines, NEW b, NEW r \in Registers, NEW w \in Words
  PROVE  LOAD_INST(n, b, "R", r, w) \in Machines
  <1>1. <<"R", r, w>> \in Loads
    BY DEF Loads
  <1>2. [n EXCEPT !.late1 = <<"R", r, w>>] \in Machines
    BY <1>1 DEF Machines
  <1>. QED BY <1>2, SetType DEF LOAD_INST, Loaded

LEMMA FloatLoadInstType ==
  ASSUME NEW n \in Machines, NEW b, NEW r \in FloatRegisters, NEW w \in Words
  PROVE  LOAD_INST(n, b, "F", r, w) \in Machines
  <1>1. <<"F", r, w>> \in Loads
    BY DEF Loads
  <1>2. [n EXCEPT !.late1 = <<"F", r, w>>] \in Machines
    BY <1>1 DEF Machines
  <1>3. [n EXCEPT !.F[r] = w] \in Machines
    BY DEF Machines
  <1>. QED BY <1>2, <1>3 DEF LOAD_INST, Loaded

-----------------------------------------------------------------------------
(***************************************************************************)
(* Every instruction on integer registers and memory keeps the type.       *)
(***************************************************************************)
IntegerFields(i) == i.rd \in Registers /\ i.rs \in Registers /\ i.rt \in Registers /\ i.imm \in Int

LEMMA HalfWord == Half < Word /\ Byte <= Half /\ 0 .. Half - 1 \subseteq Words /\ {0, 1} \subseteq Words
  <1>1. Half * Half >= 4 * Half
    BY Widths
  <1>2. Byte * Byte >= 2 * Byte
    BY Widths
  <1>. QED BY <1>1, <1>2, Widths DEF Half, Word, Words

LEMMA Parts ==
  ASSUME NEW n \in Machines
  PROVE  /\ n.R \in [Registers -> Words] /\ n.HI \in Words /\ n.LO \in Words
         /\ n.F \in [FloatRegisters -> Words] /\ n.FCC \in [Conditions -> {0, 1}]
         /\ n.mem \in [Memory -> Bytes8] /\ n.exception \in Exceptions
         /\ n.PC \in Nat \ {0} /\ n.late1 \in Loads /\ n.late2 \in Loads
  BY DEF Machines

LEMMA OperandType ==
  ASSUME NEW n \in Machines, NEW i, IntegerFields(i)
  PROVE  Operand(n, i) \in Words
  <1>1. Low(Short(i.imm)) \in Words
    BY LowType, ShortType DEF IntegerFields
  <1>2. i.imm % Half \in 0 .. Half - 1
    BY Widths, DivMod DEF IntegerFields
  <1>3. i.imm % Half \in Words
    BY <1>2, HalfWord
  <1>. QED BY <1>1, <1>3, Parts DEF Operand, IntegerFields

LEMMA AddType ==
  ASSUME NEW n \in Machines, NEW i, IntegerFields(i)
  PROVE  Add(n, i) \in Machines
  <1>1. n.R[i.rs] \in Int /\ Operand(n, i) \in Int
    BY OperandType, Parts, WordBounds DEF IntegerFields
  <1>2. Low(n.R[i.rs] + Operand(n, i)) \in Words
    BY <1>1, LowType
  <1>. QED BY <1>2, RaiseType, SetType DEF Add, Exceptions

LEMMA SubType ==
  ASSUME NEW n \in Machines, NEW i, IntegerFields(i)
  PROVE  Sub(n, i) \in Machines
  <1>1. n.R[i.rs] \in Int /\ n.R[i.rt] \in Int
    BY Parts, WordBounds DEF IntegerFields
  <1>2. Low(n.R[i.rs] - n.R[i.rt]) \in Words
    BY <1>1, LowType
  <1>. QED BY <1>2, RaiseType, SetType DEF Sub, Exceptions

LEMMA BitType ==
  ASSUME NEW n \in Machines, NEW i, IntegerFields(i)
  PROVE  BitAnd(n, i) \in Machines /\ BitOr(n, i) \in Machines /\ BitXor(n, i) \in Machines
  <1>1. n.R[i.rs] \in Words /\ Operand(n, i) \in Words
    BY OperandType, Parts DEF IntegerFields
  <1>2. /\ AndBits(n.R[i.rs], Operand(n, i)) \in Words
        /\ OrBits(n.R[i.rs], Operand(n, i)) \in Words
        /\ XorBits(n.R[i.rs], Operand(n, i)) \in Words
    BY <1>1, BitsOK
  <1>3. Not1(OrBits(n.R[i.rs], Operand(n, i))) \in Words
    BY <1>2, Widths DEF Not1, Words
  <1>. QED BY <1>2, <1>3, SetType DEF BitAnd, BitOr, BitXor

LEMMA LoadUpperType ==
  ASSUME NEW n \in Machines, NEW i, IntegerFields(i)
  PROVE  LoadUpper(n, i) \in Machines
  <1>1. i.imm % Half \in 0 .. Half - 1
    BY Widths, DivMod DEF IntegerFields
  <1>2. (i.imm % Half) * Half \in Int
    BY <1>1, Widths
  <1>. QED BY <1>2, LowType, SetType DEF LoadUpper

LEMMA CountLeadingType ==
  ASSUME NEW n \in Machines, NEW i, IntegerFields(i)
  PROVE  CountLeading(n, i) \in Machines
  <1>. DEFINE bit(k) == Shr(n.R[i.rs], k) % 2
              passed == {k \in 0 .. WordBits - 1 :
                           \A j \in k .. WordBits - 1 : bit(j) = IF i.op = "clo" THEN 1 ELSE 0}
  <1>1. WordBits \in Nat
    BY WidthOK DEF WordBits
  <1>2. IsFiniteSet(0 .. WordBits - 1) /\ Cardinality(0 .. WordBits - 1) = WordBits
    BY <1>1, FS_Interval
  <1>3. passed \subseteq 0 .. WordBits - 1
    OBVIOUS
  <1>4. Cardinality(passed) \in Nat /\ Cardinality(passed) <= WordBits
    BY <1>2, <1>3, FS_Subset, FS_CardinalityType
  <1>5. Cardinality(passed) \in Words
    BY <1>1, <1>4, WidthOK, Widths DEF Words
  <1>. QED BY <1>5, SetType DEF CountLeading

LEMMA SetLessType ==
  ASSUME NEW n \in Machines, NEW i, IntegerFields(i)
  PROVE  SetLess(n, i) \in Machines
  BY HalfWord, SetType DEF SetLess

LEMMA ShiftType ==
  ASSUME NEW x \in Words, NEW k \in 0 .. WordBits
  PROVE  Shl(x, k) \in Words /\ Shr(x, k) \in Words /\ Sra(x, k) \in Words
  <1>1. 2 ^ k \in Nat \ {0}
    BY WidthOK
  <1>. DEFINE d == 2 ^ k
  <1>. HIDE DEF d
  <1>2. d \in Nat \ {0}
    BY <1>1 DEF d
  <1>3. x * d \in Int /\ x \in 0 .. d * Word - 1 /\ Word \in Nat
    <2>1. d * Word >= Word
      BY <1>2, Widths
    <2>. QED BY <1>2, <2>1, Widths DEF Words
  <1>4. x \div d \in Words
    BY <1>2, <1>3, DivRange DEF Words
  <1>5. Signed(x) \div d \in Int
    BY <1>2, WordBounds, DivMod
  <1>6. Low(x * d) \in Words /\ Low(Signed(x) \div d) \in Words
    BY <1>3, <1>5, LowType
  <1>. QED BY <1>4, <1>6 DEF d, Shl, Shr, Sra

LEMMA ShiftAmount ==
  ASSUME NEW x \in Words
  PROVE  x % WordBits \in 0 .. WordBits
  <1>1. WordBits \in Nat \ {0}
    <2>1. ByteBits \in Nat \ {0}
      BY WidthOK
    <2>. QED BY <2>1 DEF WordBits
  <1>2. x % WordBits \in 0 .. WordBits - 1
    BY <1>1, DivMod, WordBounds
  <1>. QED BY <1>1, <1>2

LEMMA ShiftInstType ==
  ASSUME NEW n \in Machines, NEW i, IntegerFields(i),
         i.op \in {"sll", "sra", "srl"} => i.imm \in 0 .. WordBits
  PROVE  /\ i.op \in ShiftLeftOps => ShiftLeft(n, i) \in Machines
         /\ i.op \in ShiftRightOps => ShiftRight(n, i) \in Machines
  <1>1. n.R[i.rs] % WordBits \in 0 .. WordBits
    BY ShiftAmount, Parts DEF IntegerFields
  <1>2. n.R[i.rt] \in Words
    BY Parts DEF IntegerFields
  <1>3. ASSUME i.op \in ShiftLeftOps PROVE ShiftLeft(n, i) \in Machines
    BY <1>1, <1>2, <1>3, ShiftType, SetType DEF ShiftLeft, ShiftLeftOps
  <1>4. ASSUME i.op \in ShiftRightOps PROVE ShiftRight(n, i) \in Machines
    BY <1>1, <1>2, <1>4, ShiftType, SetType DEF ShiftRight, ShiftRightOps
  <1>. QED BY <1>3, <1>4

LEMMA MoveType ==
  ASSUME NEW n \in Machines, NEW i, IntegerFields(i)
  PROVE  /\ MoveIf(n, i) \in Machines /\ MoveFrom(n, i) \in Machines
         /\ MoveTo(n, i) \in Machines /\ Trap(n, i) \in Machines
  <1>1. n.R[i.rs] \in Words
    BY Parts DEF IntegerFields
  <1>2. MoveIf(n, i) \in Machines /\ MoveFrom(n, i) \in Machines
    BY <1>1, SetType, Parts DEF MoveIf, MoveFrom
  <1>3. MoveTo(n, i) \in Machines
    BY <1>1 DEF MoveTo, Machines
  <1>4. Trap(n, i) \in Machines
    BY RaiseType DEF Trap, Exceptions
  <1>. QED BY <1>2, <1>3, <1>4

LEMMA Halves ==
  ASSUME NEW x \in Words
  PROVE  x \div Half \in 0 .. Half - 1 /\ x % Half \in 0 .. Half - 1
  <1>1. x \in 0 .. Half * Half - 1
    BY DEF Words, Word
  <1>2. x \in Int
    BY <1>1, Widths
  <1>. QED BY <1>1, <1>2, Widths, DivRange, DivMod

LEMMA Joined ==
  ASSUME NEW x \in 0 .. Half - 1, NEW y \in 0 .. Half - 1
  PROVE  x + y * Half \in Words /\ y * Half + x \in Words
  <1>1. y * Half <= Half * Half - Half /\ 0 <= y * Half
    BY Widths
  <1>. QED BY <1>1, Widths DEF Words, Word

LEMMA UnsignedMultiplyType ==
  ASSUME NEW n \in Machines, NEW x \in Words, NEW y \in Words
  PROVE  unsigned_multiply(n, x, y) \in Machines
  <1>. DEFINE a == x \div Half
              b == x % Half
              c == y \div Half
              d == y % Half
              ad == Low(a * d)
              cb == Low(c * b)
              bd == Low(b * d)
              mid == Low(ad + cb)
              mid2 == Low(mid + bd \div Half)
              carry(sum, v, w) == IF sum < v \/ sum < w THEN 1 ELSE 0
              carry_mid == carry(mid, ad, cb) + carry(mid2, mid, bd \div Half)
              lo == (bd % Half) + (mid2 % Half) * Half
              hi == Low(a * c + carry_mid * Half + mid2 \div Half)
  <1>1. a \in Nat /\ b \in Nat /\ c \in Nat /\ d \in Nat
    BY Halves, Widths
  <1>2. ad \in Words /\ cb \in Words /\ bd \in Words
    <2>1. a * d \in Int /\ c * b \in Int /\ b * d \in Int
      BY <1>1
    <2>. QED BY <2>1, LowType
  <1>3. mid \in Words
    <2>1. ad + cb \in Int
      BY <1>2, WordBounds
    <2>. QED BY <2>1, LowType
  <1>4. bd \div Half \in 0 .. Half - 1 /\ bd % Half \in 0 .. Half - 1
    BY <1>2, Halves
  <1>5. mid2 \in Words
    <2>1. mid + bd \div Half \in Int
      BY <1>3, <1>4, WordBounds, Widths
    <2>. QED BY <2>1, LowType
  <1>6. mid2 \div Half \in 0 .. Half - 1 /\ mid2 % Half \in 0 .. Half - 1
    BY <1>5, Halves
  <1>7. lo \in Words
    BY <1>4, <1>6, Joined
  <1>8. hi \in Words
    <2>1. carry_mid \in Nat
      OBVIOUS
    <2>. HIDE DEF a, c, carry_mid, mid2
    <2>2. a * c \in Int /\ carry_mid * Half \in Int /\ mid2 \div Half \in Int
      BY <1>1, <2>1, <1>6, Widths
    <2>. QED BY <2>2, LowType
  <1>9. unsigned_multiply(n, x, y) = [n EXCEPT !.LO = lo, !.HI = hi]
    BY Zenon DEF unsigned_multiply
  <1>. HIDE DEF lo, hi
  <1>. QED BY <1>7, <1>8, <1>9 DEF Machines

LEMMA SignedMultiplyType ==
  ASSUME NEW n \in Machines, NEW x \in Words, NEW y \in Words
  PROVE  signed_multiply(n, x, y) \in Machines
  <1>. DEFINE absolute(v) == IF SignBit(v) = 1 THEN Low(-v) ELSE v
              p == unsigned_multiply(n, absolute(x), absolute(y))
              lo == Low(Not1(p.LO) + 1)
              hi == Low(Not1(p.HI) + IF lo = 0 THEN 1 ELSE 0)
  <1>1. absolute(x) \in Words /\ absolute(y) \in Words
    BY LowType, WordBounds
  <1>2. p \in Machines
    BY <1>1, UnsignedMultiplyType
  <1>3. p.LO \in Int /\ p.HI \in Int
    BY <1>2, Parts, WordBounds
  <1>4. lo \in Words /\ hi \in Words
    <2>1. lo \in Words
      BY <1>3, LowType, Widths DEF Not1
    <2>2. Not1(p.HI) + (IF lo = 0 THEN 1 ELSE 0) \in Int
      BY <1>3, Widths DEF Not1
    <2>. QED BY <2>1, <2>2, LowType
  <1>5. signed_multiply(n, x, y) = IF SignBit(x) = SignBit(y) THEN p
                                   ELSE [p EXCEPT !.LO = lo, !.HI = hi]
    BY DEF signed_multiply
  <1>. HIDE DEF p, lo, hi
  <1>. QED BY <1>2, <1>4, <1>5 DEF Machines

LEMMA MultiplyType ==
  ASSUME NEW n \in Machines, NEW i, IntegerFields(i)
  PROVE  /\ Multiply(n, i) \in Machines /\ MultiplyAdd(n, i) \in Machines
         /\ MultiplySub(n, i) \in Machines
  <1>. DEFINE unsigned == unsigned_multiply(n, n.R[i.rs], n.R[i.rt])
              signed == signed_multiply(n, n.R[i.rs], n.R[i.rt])
  <1>1. unsigned \in Machines /\ signed \in Machines
    BY UnsignedMultiplyType, SignedMultiplyType, Parts DEF IntegerFields
  <1>. HIDE DEF unsigned, signed
  <1>2. \A p \in {unsigned, signed} : p \in Machines /\ p.LO \in Words /\ p.HI \in Words
                                        /\ p.LO \in Int /\ p.HI \in Int
    BY <1>1, Parts, WordBounds
  <1>3. n.LO \in Int /\ n.HI \in Int
    BY Parts, WordBounds
  <1>4. Multiply(n, i) \in Machines
    <2>1. Multiply(n, i) = LET p == IF i.op = "multu" THEN unsigned ELSE signed
                           IN  IF i.op = "mul" THEN Set(p, i.rd, p.LO) ELSE p
      BY DEF Multiply, unsigned, signed
    <2>. QED BY <1>2, <2>1, SetType
  <1>5. ASSUME NEW p \in {unsigned, signed}, NEW k \in {0, 1}
        PROVE  /\ [p EXCEPT !.LO = Low(n.LO + p.LO), !.HI = Low(n.HI + k + p.HI)] \in Machines
               /\ [p EXCEPT !.LO = Low(n.LO - p.LO), !.HI = Low(n.HI - k - p.HI)] \in Machines
    <2>1. /\ Low(n.LO + p.LO) \in Words /\ Low(n.HI + k + p.HI) \in Words
          /\ Low(n.LO - p.LO) \in Words /\ Low(n.HI - k - p.HI) \in Words
      BY <1>2, <1>3, LowType
    <2>. QED BY <1>2, <2>1 DEF Machines
  <1>6. MultiplyAdd(n, i) \in Machines
    <2>. DEFINE p == IF i.op = "madd" THEN signed ELSE unsigned
                carry == IF Low(n.LO + p.LO) < p.LO \/ Low(n.LO + p.LO) < n.LO THEN 1 ELSE 0
    <2>1. MultiplyAdd(n, i) = [p EXCEPT !.LO = Low(n.LO + p.LO), !.HI = Low(n.HI + carry + p.HI)]
      BY DEF MultiplyAdd, unsigned, signed
    <2>2. p \in {unsigned, signed} /\ carry \in {0, 1}
      OBVIOUS
    <2>. HIDE DEF p, carry
    <2>. QED BY <1>5, <2>1, <2>2
  <1>7. MultiplySub(n, i) \in Machines
    <2>. DEFINE p == IF i.op = "msub" THEN signed ELSE unsigned
                borrow == IF p.LO > n.LO THEN 1 ELSE 0
    <2>1. MultiplySub(n, i) = [p EXCEPT !.LO = Low(n.LO - p.LO), !.HI = Low(n.HI - borrow - p.HI)]
      BY DEF MultiplySub, unsigned, signed
    <2>2. p \in {unsigned, signed} /\ borrow \in {0, 1}
      OBVIOUS
    <2>. HIDE DEF p, borrow
    <2>. QED BY <1>5, <2>1, <2>2
  <1>. QED BY <1>4, <1>6, <1>7

LEMMA TruncatedType ==
  ASSUME NEW a \in Int, NEW b \in Int, b # 0
  PROVE  Truncated(a, b) \in Int
  <1>. DEFINE absolute(n) == IF n < 0 THEN -n ELSE n
              q == absolute(a) \div absolute(b)
  <1>1. absolute(a) \in Int /\ absolute(b) \in Nat \ {0}
    OBVIOUS
  <1>2. q \in Int
    BY <1>1, DivMod
  <1>3. Truncated(a, b) = IF (a < 0) = (b < 0) THEN q ELSE -q
    BY DEF Truncated
  <1>. HIDE DEF q
  <1>. QED BY <1>2, <1>3

LEMMA DivideType ==
  ASSUME NEW n \in Machines, NEW i, IntegerFields(i)
  PROVE  Divide(n, i) \in Machines
  <1>. DEFINE a == n.R[i.rs]
              b == n.R[i.rt]
              value(x) == IF i.op = "div" THEN Signed(x) ELSE x
              quotient == Truncated(value(a), value(b))
  <1>1. a \in Words /\ b \in Words
    BY Parts DEF IntegerFields
  <1>2. \A x \in Words : value(x) \in Int /\ (x # 0 => value(x) # 0)
    BY WordBounds, Widths
  <1>3. b # 0 => quotient \in Int
    BY <1>1, <1>2, TruncatedType
  <1>4. b # 0 => Low(quotient) \in Words /\ Low(value(a) - quotient * value(b)) \in Words
    <2>. HIDE DEF value, quotient
    <2>1. b # 0 => value(a) - quotient * value(b) \in Int
      BY <1>1, <1>2, <1>3
    <2>. QED BY <1>3, <2>1, LowType
  <1>5. Divide(n, i) = IF b = 0 \/ (a = Word \div 2 /\ b = Word - 1) THEN n
                       ELSE [n EXCEPT !.LO = Low(quotient),
                                      !.HI = Low(value(a) - quotient * value(b))]
    BY DEF Divide
  <1>. HIDE DEF a, b, value, quotient
  <1>. QED BY <1>4, <1>5 DEF Machines

-----------------------------------------------------------------------------
(* Memory. *)

LEMMA Weights ==
  /\ Weight(0) = 1 /\ Weight(1) = Byte /\ Weight(2) = Half
  /\ Weight(3) = Half * Byte /\ Weight(4) = Word
  /\ \A k \in 0 .. 4 : Weight(k) \in Nat \ {0}
  <1>1. /\ Weight(0) = 1 /\ Weight(1) = Byte /\ Weight(2) = Half
        /\ Weight(3) = Half * Byte /\ Weight(4) = Word
    BY DEF Weight
  <1>2. Half * Byte \in Nat \ {0}
    BY Widths
  <1>. QED BY <1>1, <1>2, Widths

LEMMA AlignedMemory ==
  ASSUME NEW a \in Memory, NEW size \in {1, 2, 4}, a % size = 0
  PROVE  a .. a + size - 1 \subseteq Memory
  <1>1. a \in Int /\ Aligned(a) .. Aligned(a) + 3 \subseteq Memory
    BY MachineOK, WordBounds
  <1>2. a .. a + size - 1 \subseteq Aligned(a) .. Aligned(a) + 3
    BY <1>1 DEF Aligned
  <1>. QED BY <1>1, <1>2

LEMMA ByteAtRange ==
  ASSUME NEW a \in Int, NEW b, NEW size \in {1, 2, 4}, NEW k \in 0 .. size - 1
  PROVE  ByteAt(b, a, size, k) \in a .. a + size - 1
  BY DEF ByteAt

LEMMA TwoBytes ==
  ASSUME NEW x \in Bytes8, NEW y \in Bytes8
  PROVE  x + y * Byte \in 0 .. Half - 1 /\ x \in Int /\ y * Byte \in Int
  <1>1. y * Byte <= Byte * Byte - Byte /\ 0 <= y * Byte
    BY Widths DEF Bytes8
  <1>. QED BY <1>1, Widths DEF Bytes8, Half

LEMMA FourBytes ==
  ASSUME NEW x0 \in Bytes8, NEW x1 \in Bytes8, NEW x2 \in Bytes8, NEW x3 \in Bytes8
  PROVE  x0 + x1 * Byte + x2 * Half + x3 * (Half * Byte) \in Words
  <1>1. x0 + x1 * Byte \in 0 .. Half - 1
    BY TwoBytes
  <1>2. x2 + x3 * Byte \in 0 .. Half - 1
    BY TwoBytes
  <1>3. (x0 + x1 * Byte) + (x2 + x3 * Byte) * Half \in Words
    BY <1>1, <1>2, Joined
  <1>4. (x2 + x3 * Byte) * Half = x2 * Half + x3 * (Half * Byte)
    BY Widths DEF Bytes8
  <1>5. x0 + x1 * Byte \in Int /\ x2 * Half \in Int /\ x3 * (Half * Byte) \in Int
    BY Widths DEF Bytes8
  <1>6. x0 + x1 * Byte + x2 * Half + x3 * (Half * Byte)
          = (x0 + x1 * Byte) + (x2 + x3 * Byte) * Half
    BY <1>4, <1>5
  <1>. QED BY <1>3, <1>6

LEMMA FetchedType ==
  ASSUME NEW n \in Machines, NEW b, NEW a \in Int, NEW size \in {1, 2, 4}
  PROVE  Fetched(n, b, a, size) \in 0 .. Weight(size) - 1
  <1>. DEFINE byte(k) == IF k < size THEN n.mem[ByteAt(b, a, size, k)] * Weight(k) ELSE 0
              x(k) == n.mem[ByteAt(b, a, size, k)]
  <1>1. CASE ~Reaches(a, size)
    <2>1. Fetched(n, b, a, size) = 0
      BY <1>1 DEF Fetched
    <2>. QED BY <2>1, Weights
  <1>2. CASE Reaches(a, size)
    <2>1. a .. a + size - 1 \subseteq Memory
      BY <1>2, AlignedMemory DEF Reaches
    <2>2. \A k \in 0 .. size - 1 : x(k) \in Bytes8
      BY <2>1, ByteAtRange, Parts
    <2>3. Fetched(n, b, a, size) = byte(0) + byte(1) + byte(2) + byte(3)
      BY <1>2 DEF Fetched
    <2>. DEFINE x0 == x(0)
                x1 == x(1)
                x2 == x(2)
                x3 == x(3)
    <2>4. CASE size = 1
      <3>1. byte(0) = x0 * 1 /\ byte(1) = 0 /\ byte(2) = 0 /\ byte(3) = 0 /\ x0 \in Bytes8
        BY <2>2, <2>4, Weights
      <3>. HIDE DEF byte, x0
      <3>. QED BY <2>3, <2>4, <3>1, Weights, Widths DEF Bytes8
    <2>5. CASE size = 2
      <3>1. /\ byte(0) = x0 * 1 /\ byte(1) = x1 * Byte /\ byte(2) = 0 /\ byte(3) = 0
            /\ x0 \in Bytes8 /\ x1 \in Bytes8
        BY <2>2, <2>5, Weights
      <3>. HIDE DEF byte, x0, x1
      <3>2. x0 + x1 * Byte \in 0 .. Half - 1 /\ x0 \in Int /\ x1 * Byte \in Int
        BY <3>1, TwoBytes
      <3>. QED BY <2>3, <2>5, <3>1, <3>2, Weights
    <2>6. CASE size = 4
      <3>1. /\ byte(0) = x0 * 1 /\ byte(1) = x1 * Byte /\ byte(2) = x2 * Half
            /\ byte(3) = x3 * (Half * Byte)
            /\ x0 \in Bytes8 /\ x1 \in Bytes8 /\ x2 \in Bytes8 /\ x3 \in Bytes8
        BY <2>2, <2>6, Weights
      <3>. HIDE DEF byte, x0, x1, x2, x3
      <3>2. x0 * 1 = x0
        BY <3>1 DEF Bytes8
      <3>3. byte(0) + byte(1) + byte(2) + byte(3) \in Words
        BY <3>1, <3>2, FourBytes
      <3>. QED BY <2>3, <2>6, <3>3, Weights DEF Words
    <2>. QED BY <2>4, <2>5, <2>6
  <1>. QED BY <1>1, <1>2

LEMMA FaultType ==
  ASSUME NEW n \in Machines, NEW a, NEW size, NEW e \in {"AdEL", "AdES"}
  PROVE  Fault(n, a, size, e) \in Machines
  BY RaiseType DEF Fault, Exceptions

LEMMA StoredType ==
  ASSUME NEW n \in Machines, NEW b, NEW a \in Int, NEW size \in {1, 2, 4}, NEW w \in Int
  PROVE  Stored(n, b, a, size, w) \in Machines
  <1>. DEFINE at_(x) == CHOOSE k \in 0 .. size - 1 : ByteAt(b, a, size, k) = x
              new == [x \in Memory |-> IF x \in a .. a + size - 1
                                       THEN (w \div Weight(at_(x))) % Byte ELSE n.mem[x]]
  <1>1. CASE ~Reaches(a, size)
    BY <1>1, FaultType DEF Stored
  <1>2. CASE Reaches(a, size)
    <2>1. ASSUME NEW x \in Memory PROVE new[x] \in Bytes8
      <3>1. CASE x \in a .. a + size - 1
        <4>1. \E k \in 0 .. size - 1 : ByteAt(b, a, size, k) = x
          BY <3>1 DEF ByteAt
        <4>2. at_(x) \in 0 .. size - 1 /\ 0 .. size - 1 \subseteq 0 .. 4
          BY <4>1
        <4>3. Weight(at_(x)) \in Nat \ {0}
          BY <4>2, Weights
        <4>4. w \div Weight(at_(x)) \in Int
          BY <4>3, DivMod
        <4>5. (w \div Weight(at_(x))) % Byte \in Bytes8
          BY <4>4, DivMod, Widths DEF Bytes8
        <4>. QED BY <3>1, <4>5
      <3>2. CASE x \notin a .. a + size - 1
        BY <3>2, Parts
      <3>. QED BY <3>1, <3>2
    <2>2. Stored(n, b, a, size, w) = [n EXCEPT !.mem = new]
      BY <1>2 DEF Stored
    <2>3. new \in [Memory -> Bytes8]
      BY <2>1
    <2>. HIDE DEF new
    <2>. QED BY <2>2, <2>3 DEF Machines
  <1>. QED BY <1>1, <1>2

\* A word moved left, or right, by M has room for what is put beside it.
LEMMA RoomBeside ==
  ASSUME NEW M \in Nat \ {0}, NEW N \in Nat \ {0}, M * N = Word, NEW w \in Words, NEW x \in Words
  PROVE  /\ Low(w * M) + (x % M) \in Words
         /\ x - (x % N) + w \div M \in Words
  <1>1. w \in Int /\ x \in Int /\ w \in 0 .. M * N - 1 /\ x \in 0 .. N * M - 1
    BY WordBounds
  <1>2. PICK q \in Int, r \in 0 .. N - 1 : w = N * q + r
    BY <1>1, DivMod
  <1>3. Low(w * M) = M * r /\ 0 <= M * r /\ M * r <= Word - M
    <2>1. w * M = q * Word + M * r
      BY <1>2
    <2>2. 0 <= M * r /\ M * r <= M * (N - 1)
      BY <1>2
    <2>3. M * (N - 1) = Word - M
      OBVIOUS
    <2>. DEFINE y == M * r
                v == w * M
    <2>4. y \in 0 .. Word - 1 /\ v \in Int /\ v = q * Word + y /\ y <= Word - M
      BY <1>1, <2>1, <2>2, <2>3, <1>2, Widths
    <2>. HIDE DEF y, v
    <2>5. v % Word = y
      BY <1>2, <2>4, DivModUnique, Widths
    <2>6. Low(w * M) = M * r /\ 0 <= M * r /\ M * r <= Word - M
      BY <2>4, <2>5 DEF Low, y, v
    <2>. QED BY <2>6
  <1>4. x % M \in 0 .. M - 1
    BY <1>1, DivMod
  <1>5. Low(w * M) + (x % M) \in Words
    <2>. DEFINE y == M * r
    <2>1. y \in Int /\ Low(w * M) = y /\ 0 <= y /\ y <= Word - M
      BY <1>2, <1>3
    <2>. HIDE DEF y
    <2>. QED BY <1>4, <2>1, Widths DEF Words
  <1>6. w \div M \in 0 .. N - 1
    BY <1>1, DivRange
  <1>7. PICK p \in Int, s \in 0 .. N - 1 : x = N * p + s /\ s = x % N /\ p = x \div N
    BY <1>1, DivMod
  <1>8. p \in 0 .. M - 1
    BY <1>1, <1>7, DivRange
  <1>9. 0 <= N * p /\ N * p <= Word - N
    <2>1. N * p <= N * (M - 1)
      BY <1>8
    <2>2. N * (M - 1) = Word - N
      OBVIOUS
    <2>. QED BY <1>8, <2>1, <2>2
  <1>10. x - (x % N) + w \div M \in Words
    <2>. DEFINE y == N * p
    <2>1. y \in Int /\ 0 <= y /\ y <= Word - N
      BY <1>7, <1>9
    <2>2. x - (x % N) = y
      BY <1>1, <1>7
    <2>. HIDE DEF y
    <2>. QED BY <1>6, <2>1, <2>2, Widths DEF Words
  <1>. QED BY <1>5, <1>10

LEMMA Complements ==
  \A k \in 0 .. 4 : /\ 4 - k \in 0 .. 4
                    /\ Weight(k) * Weight(4 - k) = Word
  <1>1. Half * Half = Word /\ Byte * (Half * Byte) = Word /\ (Half * Byte) * Byte = Word
    BY Widths DEF Half, Word
  <1>2. 1 * Word = Word /\ Word * 1 = Word
    BY Widths
  <1>3. \A k \in 0 .. 4 : k = 0 \/ k = 1 \/ k = 2 \/ k = 3 \/ k = 4
    OBVIOUS
  <1>. QED BY <1>1, <1>2, <1>3, Weights

LEMMA RoomForBytes ==
  ASSUME NEW j \in 0 .. 3, NEW w \in Words, NEW x \in Words
  PROVE  /\ Low(w * Weight(j)) + (x % Weight(j)) \in Words
         /\ x - (x % Weight(4 - j)) + w \div Weight(j) \in Words
  <1>1. j \in 0 .. 4 /\ 4 - j \in 0 .. 4
    OBVIOUS
  <1>2. /\ Weight(j) \in Nat \ {0} /\ Weight(4 - j) \in Nat \ {0}
        /\ Weight(j) * Weight(4 - j) = Word
    BY <1>1, Complements, Weights
  <1>. DEFINE M == Weight(j)
              N == Weight(4 - j)
  <1>3. M \in Nat \ {0} /\ N \in Nat \ {0} /\ M * N = Word
    BY <1>2
  <1>. HIDE DEF M, N
  <1>4. Low(w * M) + (x % M) \in Words /\ x - (x % N) + w \div M \in Words
    BY <1>3, RoomBeside
  <1>. QED BY <1>4 DEF M, N

LEMMA AddressType ==
  ASSUME NEW n \in Machines, NEW i, IntegerFields(i)
  PROVE  Address(n, i) \in Words /\ Address(n, i) \in Int /\ Aligned(Address(n, i)) \in Int
  <1>1. n.R[i.rs] + Short(i.imm) \in Int
    BY Parts, WordBounds, ShortType DEF IntegerFields
  <1>2. Address(n, i) \in Words /\ Address(n, i) \in Int
    BY <1>1, LowType, WordBounds DEF Address
  <1>. QED BY <1>2 DEF Aligned

LEMMA PositionType ==
  ASSUME NEW b, NEW a \in Int
  PROVE  Position(b, a) \in 0 .. 3 /\ 3 - Position(b, a) \in 0 .. 3
  <1>1. a % 4 \in 0 .. 3
    OBVIOUS
  <1>. QED BY <1>1 DEF Position

LEMMA LoadType ==
  ASSUME NEW n \in Machines, NEW b, NEW i, IntegerFields(i)
  PROVE  /\ Load(n, b, i) \in Machines
         /\ LoadLeft(n, b, i) \in Machines /\ LoadRight(n, b, i) \in Machines
  <1>. DEFINE addr == Address(n, i)
              size == SizeOf(i.op)
              value == Fetched(n, b, addr, size)
              extended == IF i.op = "lb" THEN Low(SignByte(value))
                          ELSE IF i.op = "lh" THEN Low(Short(value)) ELSE value
              k == Position(b, addr)
              word == Fetched(n, b, Aligned(addr), 4)
              old == n.R[i.rt]
              left == IF Reaches(Aligned(addr), 4)
                      THEN Low(word * Weight(k)) + (old % Weight(k)) ELSE word
              right == IF Reaches(Aligned(addr), 4)
                       THEN old - (old % Weight(4 - (3 - k))) + word \div Weight(3 - k) ELSE word
  <1>1. addr \in Int /\ Aligned(addr) \in Int /\ size \in {1, 2, 4} /\ i.rt \in Registers
    BY AddressType DEF SizeOf, IntegerFields
  <1>2. value \in Words
    <2>1. value \in 0 .. Weight(size) - 1
      BY <1>1, FetchedType
    <2>2. Weight(size) <= Word /\ Weight(size) \in Int
      BY <1>1, Weights, HalfWord, Widths
    <2>. QED BY <2>1, <2>2, Widths DEF Words
  <1>3. extended \in Words
    BY <1>2, WordBounds, ShortType, LowType
  <1>4. word \in Words /\ old \in Words
    <2>1. word \in 0 .. Weight(4) - 1
      BY <1>1, FetchedType
    <2>. QED BY <2>1, Weights, Parts DEF Words, IntegerFields
  <1>5. k \in 0 .. 3 /\ 3 - k \in 0 .. 3 /\ 0 .. 3 \subseteq 0 .. 4
    BY <1>1, PositionType
  <1>6. \A j \in 0 .. 3 : /\ Low(word * Weight(j)) + (old % Weight(j)) \in Words
                          /\ old - (old % Weight(4 - j)) + word \div Weight(j) \in Words
    BY <1>4, RoomForBytes
  <1>7. left \in Words /\ right \in Words
    <2>. HIDE DEF k, word, old
    <2>. QED BY <1>4, <1>5, <1>6
  <1>8. Load(n, b, i) = LOAD_INST(Fault(n, addr, size, "AdEL"), b, "R", i.rt, extended)
    BY DEF Load
  <1>9. LoadLeft(n, b, i) = LOAD_INST(Fault(n, Aligned(addr), 4, "AdEL"), b, "R", i.rt, left)
    BY DEF LoadLeft
  <1>10. LoadRight(n, b, i) = LOAD_INST(Fault(n, Aligned(addr), 4, "AdEL"), b, "R", i.rt, right)
    BY DEF LoadRight
  <1>. HIDE DEF addr, size, extended, left, right
  <1>. QED BY <1>1, <1>3, <1>7, <1>8, <1>9, <1>10, FaultType, LoadInstType

LEMMA StoreType ==
  ASSUME NEW n \in Machines, NEW b, NEW i, IntegerFields(i)
  PROVE  /\ Store(n, b, i) \in Machines
         /\ StoreLeft(n, b, i) \in Machines /\ StoreRight(n, b, i) \in Machines
  <1>. DEFINE addr == Aligned(Address(n, i))
              k == Position(b, Address(n, i))
              data == Fetched(n, b, addr, 4)
              new == n.R[i.rt]
              left == data - (data % Weight(4 - k)) + new \div Weight(k)
              right == Low(new * Weight(3 - k)) + (data % Weight(3 - k))
  <1>1. Address(n, i) \in Int /\ addr \in Int /\ SizeOf(i.op) \in {1, 2, 4} /\ i.rt \in Registers
    BY AddressType DEF SizeOf, IntegerFields
  <1>2. data \in Words /\ new \in Words /\ new \in Int
    <2>1. data \in 0 .. Weight(4) - 1
      BY <1>1, FetchedType
    <2>. QED BY <1>1, <2>1, Weights, Parts, WordBounds DEF Words
  <1>3. k \in 0 .. 3 /\ 3 - k \in 0 .. 3 /\ 0 .. 3 \subseteq 0 .. 4
    BY <1>1, PositionType
  <1>4. \A j \in 0 .. 3 : /\ Low(new * Weight(j)) + (data % Weight(j)) \in Words
                          /\ data - (data % Weight(4 - j)) + new \div Weight(j) \in Words
    BY <1>2, RoomForBytes
  <1>5. left \in Int /\ right \in Int
    BY <1>3, <1>4, WordBounds
  <1>6. Store(n, b, i) = Stored(n, b, Address(n, i), SizeOf(i.op), new)
    BY DEF Store
  <1>7. StoreLeft(n, b, i) = Stored(n, b, addr, 4, left)
    BY DEF StoreLeft
  <1>8. StoreRight(n, b, i) = Stored(n, b, addr, 4, right)
    BY DEF StoreRight
  <1>. HIDE DEF addr, left, right, new
  <1>. QED BY <1>1, <1>2, <1>5, <1>6, <1>7, <1>8, StoredType

-----------------------------------------------------------------------------
(***************************************************************************)
(* So does every floating-point instruction.                               *)
(***************************************************************************)
LEMMA Double ==
  ASSUME NEW x \in Words, NEW y \in Words
  PROVE  x * Word + y \in 0 .. Word * Word - 1
  <1>1. x * Word <= Word * Word - Word /\ 0 <= x * Word
    BY Widths DEF Words
  <1>. QED BY <1>1, Widths DEF Words

LEMMA Sizes ==
  ASSUME NEW op
  PROVE  /\ Size(op) \in Nat \ {0} /\ Size(op) \div 2 \in Nat \ {0} /\ Size(op) \div 2 < Size(op)
  <1>1. /\ Word \div 2 \in Nat \ {0} /\ Word \div 2 < Word
    BY Widths
  <1>2. Word * Word \in Nat /\ Word * Word >= 16
    BY Widths
  <1>3. (Word * Word) \div 2 \in Nat \ {0} /\ (Word * Word) \div 2 < Word * Word
    BY <1>2
  <1>. QED BY <1>1, <1>2, <1>3, Widths DEF Size

LEMMA FPRType ==
  ASSUME NEW n \in Machines, NEW b, NEW op, NEW r \in FloatRegisters, ~Odd(op, r)
  PROVE  FPR(n, b, op, r) \in 0 .. Size(op) - 1
  <1>1. CASE op \notin WideOps
    BY <1>1, Parts DEF FPR, Size, Words
  <1>2. CASE op \in WideOps
    <2>1. r \in Nat /\ r % 2 = 0
      BY <1>2, FloatOK DEF Odd
    <2>2. r + 1 \in FloatRegisters
      BY <2>1, FloatOK
    <2>3. n.F[r] \in Words /\ n.F[r + 1] \in Words
      BY <2>2, Parts
    <2>. QED BY <1>2, <2>3, Double DEF FPR, FPR_D, Size
  <1>. QED BY <1>1, <1>2

LEMMA SetFPRType ==
  ASSUME NEW n \in Machines, NEW b, NEW op, NEW r, NEW x \in 0 .. Size(op) - 1
  PROVE  SET_FPR(n, b, op, r, x) \in Machines
  <1>1. \A s, v, w : v \in Words /\ w \in Words =>
          [n EXCEPT !.F[s] = v] \in Machines /\ [n EXCEPT !.F[s] = v, !.F[s + 1] = w] \in Machines
    BY DEF Machines
  <1>2. CASE op \notin WideOps
    BY <1>1, <1>2 DEF SET_FPR, Size, Words
  <1>3. CASE op \in WideOps
    <2>1. x \in 0 .. Word * Word - 1 /\ x \in Int
      BY <1>3, Sizes DEF Size
    <2>2. x \div Word \in Words /\ x % Word \in Words
      BY <2>1, DivRange, DivMod, Widths DEF Words
    <2>. QED BY <1>1, <1>3, <2>2 DEF SET_FPR
  <1>. QED BY <1>2, <1>3

LEMMA FloatMoveType ==
  ASSUME NEW n \in Machines, NEW b, NEW i, FS(i) \in FloatRegisters
  PROVE  FloatMove(n, b, i) \in Machines
  <1>1. CASE Odd(i.op, FS(i)) \/ Odd(i.op, FD(i))
    BY <1>1, RaiseType DEF FloatMove, run_error, Exceptions
  <1>2. CASE ~(Odd(i.op, FS(i)) \/ Odd(i.op, FD(i)))
    <2>. DEFINE x == FPR(n, b, i.op, FS(i))
                size == Size(i.op)
                result == IF i.op \in {"abs.s", "abs.d"} THEN x % (size \div 2)
                          ELSE IF i.op \in {"neg.s", "neg.d"} THEN (x + size \div 2) % size ELSE x
    <2>1. x \in 0 .. size - 1
      BY <1>2, FPRType
    <2>2. size \in Nat \ {0} /\ size \div 2 \in Nat \ {0} /\ size \div 2 < size
      BY Sizes
    <2>3. result \in 0 .. size - 1
      <3>. HIDE DEF x, size
      <3>. DEFINE half == size \div 2
      <3>1. x \in Int /\ half \in Nat \ {0} /\ half < size /\ x + half \in Int
        BY <2>1, <2>2
      <3>. HIDE DEF half
      <3>2. x % half \in 0 .. half - 1 /\ (x + half) % size \in 0 .. size - 1
        BY <2>2, <3>1, DivMod
      <3>3. x % half \in 0 .. size - 1
        BY <2>2, <3>1, <3>2
      <3>. QED BY <2>1, <3>2, <3>3 DEF half
    <2>4. FloatMove(n, b, i) \in {n, SET_FPR(n, b, i.op, FD(i), result)}
      BY <1>2 DEF FloatMove
    <2>. HIDE DEF result
    <2>. QED BY <2>3, <2>4, SetFPRType
  <1>. QED BY <1>1, <1>2

LEMMA FloatLoadType ==
  ASSUME NEW n \in Machines, NEW b, NEW i, i.rs \in Registers, i.imm \in Int,
         FT(i) \in FloatRegisters, i.op = "lwc1" \/ FT(i) + 1 \in FloatRegisters
  PROVE  FloatLoad(n, b, i) \in Machines
  <1>. DEFINE word(v, r, a) ==
                LOAD_INST(Fault(v, a, 4, "AdEL"), b, "F", r, Fetched(v, b, a, 4))
              a1 == Address(n, i)
              a2 == Low(Address(n, i) + 4)
              first == word(n, FT(i), a1)
  <1>1. a1 \in Int /\ a2 \in Int
    <2>1. n.R[i.rs] + Short(i.imm) \in Int
      BY Parts, WordBounds, ShortType
    <2>2. a1 \in Int
      BY <2>1, LowType, WordBounds DEF Address
    <2>. QED BY <2>2, LowType, WordBounds
  <1>2. ASSUME NEW v \in Machines, NEW r \in FloatRegisters, NEW a \in Int
        PROVE  word(v, r, a) \in Machines
    <2>1. Fetched(v, b, a, 4) \in Words
      BY FetchedType, Weights DEF Words
    <2>. QED BY <2>1, FaultType, FloatLoadInstType
  <1>3. first \in Machines
    BY <1>1, <1>2
  <1>4. FloatLoad(n, b, i) = IF i.op = "lwc1" THEN first ELSE word(first, FT(i) + 1, a2)
    BY DEF FloatLoad
  <1>. HIDE DEF word, first, a1, a2
  <1>. QED BY <1>1, <1>2, <1>3, <1>4

LEMMA FloatStoreType ==
  ASSUME NEW n \in Machines, NEW b, NEW i, i.rs \in Registers, i.imm \in Int,
         FT(i) \in FloatRegisters, i.op \in {"swc1", "sdc1"}
  PROVE  FloatStore(n, b, i) \in Machines
  <1>. DEFINE a == Address(n, i)
              first == Stored(n, b, a, 4, n.F[FT(i)])
  <1>1. a \in Int /\ Low(a + 4) \in Int
    <2>1. n.R[i.rs] + Short(i.imm) \in Int
      BY Parts, WordBounds, ShortType
    <2>2. a \in Int
      BY <2>1, LowType, WordBounds DEF Address
    <2>. QED BY <2>2, LowType, WordBounds
  <1>2. CASE Odd(i.op, FT(i))
    BY <1>2, RaiseType DEF FloatStore, run_error, Exceptions
  <1>3. CASE ~Odd(i.op, FT(i))
    <2>1. first \in Machines
      BY <1>1, StoredType, Parts, WordBounds
    <2>2. i.op = "sdc1" => FT(i) + 1 \in FloatRegisters
      <3>. DEFINE r == FT(i)
      <3>1. r \in FloatRegisters /\ r \in Nat
        BY FloatOK
      <3>2. i.op = "sdc1" => r % 2 # 1
        BY <1>3 DEF Odd, WideOps
      <3>. HIDE DEF r
      <3>3. r % 2 # 1 => r % 2 = 0
        BY <3>1
      <3>4. i.op = "sdc1" => r + 1 \in FloatRegisters
        BY <3>1, <3>2, <3>3, FloatOK
      <3>. QED BY <3>4 DEF r
    <2>3. FloatStore(n, b, i) = IF i.op = "swc1" THEN first
                                ELSE Stored(first, b, Low(a + 4), 4, n.F[FT(i) + 1])
      BY <1>3 DEF FloatStore
    <2>4. i.op = "sdc1" => n.F[FT(i) + 1] \in Int
      BY <2>2, Parts, WordBounds
    <2>. HIDE DEF first, a
    <2>. QED BY <1>1, <2>1, <2>3, <2>4, StoredType
  <1>. QED BY <1>2, <1>3

LEMMA CompareType ==
  ASSUME NEW n \in Machines, NEW b, NEW i
  PROVE  Compare(n, b, i) \in Machines
  <1>1. \A c, v : v \in {0, 1} => [n EXCEPT !.FCC[c] = v] \in Machines
    BY DEF Machines
  <1>2. run_error(n) \in Machines /\ Raise(n, "FPE") \in Machines
    BY RaiseType DEF run_error, Exceptions
  <1>3. \/ Compare(n, b, i) = run_error(n)
        \/ Compare(n, b, i) = Raise(n, "FPE")
        \/ \E v \in {0, 1} : Compare(n, b, i) = [n EXCEPT !.FCC[CCFP(i)] = v]
    BY DEF Compare
  <1>. QED BY <1>1, <1>2, <1>3

LEMMA FloatOther ==
  ASSUME NEW n \in Machines, NEW i
  PROVE  /\ i.rs \in Registers => MoveOn(n, i) \in Machines
         /\ FS(i) \in FloatRegisters /\ FT(i) \in Registers => CoprocessorMove(n, i) \in Machines
  <1>1. ASSUME i.rs \in Registers PROVE MoveOn(n, i) \in Machines
    BY <1>1, SetType, Parts DEF MoveOn
  <1>2. ASSUME FS(i) \in FloatRegisters, FT(i) \in Registers PROVE CoprocessorMove(n, i) \in Machines
    <2>1. Set(n, FT(i), n.F[FS(i)]) \in Machines
      BY <1>2, SetType, Parts
    <2>2. n.R[FT(i)] \in Words
      BY <1>2, Parts
    <2>3. [n EXCEPT !.F[FS(i)] = n.R[FT(i)]] \in Machines
      BY <2>2 DEF Machines
    <2>. QED BY <2>1, <2>3 DEF CoprocessorMove
  <1>. QED BY <1>1, <1>2

-----------------------------------------------------------------------------
(***************************************************************************)
(* Every instruction that is well formed keeps the type of the machine.    *)
(***************************************************************************)
IntegerOps ==
  AddOps \cup SubOps \cup AndOps \cup OrOps \cup XorOps \cup {"lui"} \cup LeadingOps
    \cup SetLessOps \cup ShiftLeftOps \cup ShiftRightOps \cup MoveIfOps \cup TrapOps
    \cup MultiplyOps \cup MultiplyAddOps \cup MultiplySubOps \cup DivideOps
    \cup MoveFromOps \cup MoveToOps \cup LoadOps \cup {"lwl", "lwr"}
    \cup StoreOps \cup {"swl", "swr", "break"}

\* The operands of an instruction that is no branch are there.
FloatFields(i) ==
  /\ i.op \in FloatMoves => FS(i) \in FloatRegisters
  /\ i.op \in MoveOnOps => i.rs \in Registers
  /\ i.op \in CoprocessorMoves => FS(i) \in FloatRegisters /\ FT(i) \in Registers
  /\ i.op \in FloatLoadStore => i.rs \in Registers /\ i.imm \in Int /\ FT(i) \in FloatRegisters
  /\ i.op = "ldc1" => FT(i) + 1 \in FloatRegisters
Computes(i) ==
  /\ i.op \in IntegerOps \cup FloatOps
  /\ i.op \in IntegerOps => IntegerFields(i)
  /\ i.op \in {"sll", "sra", "srl"} => i.imm \in 0 .. WordBits
  /\ FloatFields(i)

LEMMA FloatEffectType ==
  ASSUME NEW n \in Machines, NEW b, NEW i, i.op \in FloatOps, FloatFields(i)
  PROVE  FloatEffect(n, b, i) \in Machines
  <1>1. i.op \in FloatMoves => FloatMove(n, b, i) \in Machines
    BY FloatMoveType DEF FloatFields
  <1>2. i.op \in MoveOnOps => MoveOn(n, i) \in Machines
    BY FloatOther DEF FloatFields
  <1>3. i.op \in CompareOps => Compare(n, b, i) \in Machines
    BY CompareType
  <1>4. i.op \in CoprocessorMoves => CoprocessorMove(n, i) \in Machines
    BY FloatOther DEF FloatFields
  <1>5. i.op \in {"lwc1", "ldc1"} => FloatLoad(n, b, i) \in Machines
    BY FloatLoadType DEF FloatFields, FloatLoadStore
  <1>6. i.op \in {"swc1", "sdc1"} => FloatStore(n, b, i) \in Machines
    BY FloatStoreType DEF FloatFields, FloatLoadStore
  <1>7. \/ i.op \in FloatMoves \/ i.op \in MoveOnOps \/ i.op \in CompareOps
        \/ i.op \in CoprocessorMoves \/ i.op \in {"lwc1", "ldc1"} \/ i.op \in {"swc1", "sdc1"}
    BY DEF FloatOps, FloatLoadStore
  <1>. HIDE DEF Machines
  <1>. QED BY <1>1, <1>2, <1>3, <1>4, <1>5, <1>6, <1>7, ZenonT(60) DEF FloatEffect

LEMMA EffectType ==
  ASSUME NEW n \in Machines, NEW b, NEW i, Computes(i)
  PROVE  Effect(n, b, i) \in Machines
  <1>1. i.op \in FloatOps => FloatEffect(n, b, i) \in Machines
    BY FloatEffectType DEF Computes
  <1>2. CASE i.op \notin IntegerOps
    <2>1. /\ i.op \in FloatOps
          /\ i.op \notin AddOps /\ i.op \notin SubOps /\ i.op \notin AndOps /\ i.op \notin OrOps
          /\ i.op \notin XorOps /\ i.op # "lui" /\ i.op \notin LeadingOps
          /\ i.op \notin SetLessOps /\ i.op \notin ShiftLeftOps /\ i.op \notin ShiftRightOps
          /\ i.op \notin MoveIfOps /\ i.op \notin TrapOps /\ i.op \notin MultiplyOps
          /\ i.op \notin MultiplyAddOps /\ i.op \notin MultiplySubOps /\ i.op \notin DivideOps
          /\ i.op \notin MoveFromOps /\ i.op \notin MoveToOps /\ i.op \notin LoadOps
          /\ i.op # "lwl" /\ i.op # "lwr" /\ i.op \notin StoreOps
          /\ i.op # "swl" /\ i.op # "swr" /\ i.op # "break"
      BY <1>2 DEF Computes, IntegerOps
    <2>. QED BY <1>1, <2>1, ZenonT(60) DEF Effect
  <1>3. CASE i.op \in IntegerOps
    <2>1. IntegerFields(i) /\ (i.op \in {"sll", "sra", "srl"} => i.imm \in 0 .. WordBits)
      BY <1>3 DEF Computes
    <2>2. /\ Add(n, i) \in Machines /\ Sub(n, i) \in Machines
          /\ BitAnd(n, i) \in Machines /\ BitOr(n, i) \in Machines /\ BitXor(n, i) \in Machines
          /\ LoadUpper(n, i) \in Machines /\ CountLeading(n, i) \in Machines
          /\ SetLess(n, i) \in Machines
      BY <2>1, AddType, SubType, BitType, LoadUpperType, CountLeadingType, SetLessType
    <2>3. /\ i.op \in ShiftLeftOps => ShiftLeft(n, i) \in Machines
          /\ i.op \in ShiftRightOps => ShiftRight(n, i) \in Machines
      BY <2>1, ShiftInstType
    <2>4. /\ MoveIf(n, i) \in Machines /\ MoveFrom(n, i) \in Machines
          /\ MoveTo(n, i) \in Machines /\ Trap(n, i) \in Machines
          /\ Multiply(n, i) \in Machines /\ MultiplyAdd(n, i) \in Machines
          /\ MultiplySub(n, i) \in Machines /\ Divide(n, i) \in Machines
      BY <2>1, MoveType, MultiplyType, DivideType
    <2>5. /\ Load(n, b, i) \in Machines
          /\ LoadLeft(n, b, i) \in Machines /\ LoadRight(n, b, i) \in Machines
          /\ Store(n, b, i) \in Machines
          /\ StoreLeft(n, b, i) \in Machines /\ StoreRight(n, b, i) \in Machines
      BY <2>1, LoadType, StoreType
    <2>6. Raise(n, "Bp") \in Machines
      BY RaiseType DEF Exceptions
    <2>7. \/ i.op \in AddOps \/ i.op \in SubOps \/ i.op \in AndOps \/ i.op \in OrOps
          \/ i.op \in XorOps \/ i.op = "lui" \/ i.op \in LeadingOps
          \/ i.op \in SetLessOps \/ i.op \in ShiftLeftOps \/ i.op \in ShiftRightOps
          \/ i.op \in MoveIfOps \/ i.op \in TrapOps \/ i.op \in MultiplyOps
          \/ i.op \in MultiplyAddOps \/ i.op \in MultiplySubOps \/ i.op \in DivideOps
          \/ i.op \in MoveFromOps \/ i.op \in MoveToOps \/ i.op \in LoadOps
          \/ i.op = "lwl" \/ i.op = "lwr" \/ i.op \in StoreOps
          \/ i.op = "swl" \/ i.op = "swr" \/ i.op = "break"
      BY <1>3 DEF IntegerOps
    <2>. QED BY <1>1, <2>2, <2>3, <2>4, <2>5, <2>6, <2>7, ZenonT(120) DEF Effect
  <1>. QED BY <1>2, <1>3

LEMMA PlainType ==
  ASSUME NEW n \in Machines, NEW b, NEW i, Computes(i)
  PROVE  Plain(n, b, i) \in Machines
  <1>1. Effect(StartStep(n), b, i) \in Machines
    BY StartType, EffectType
  <1>2. n.PC + 1 \in Nat \ {0}
    BY Parts
  <1>. QED BY <1>1, <1>2 DEF Plain, Machines

-----------------------------------------------------------------------------
(***************************************************************************)
(* The code of a line: no branch is in the delay slot of another, and only *)
(* the branch that is a line's whole code links.  Straight holds what is   *)
(* no branch, with what still waits for a symbol.                          *)
(***************************************************************************)
WaitOps == Arithmetic \cup Logical \cup {"lui"} \cup LoadStore
Records ==
  [op : IntegerOps \cup FloatOps \cup BranchOps \cup {"fatal_error"},
   rd : Int, rs : Int, rt : Int, imm : Int, bits : {"none", "all", "upper", "lower"}]
Straight ==
  {i \in Records : /\ Computes(i) \/ i.op = "fatal_error"
                   /\ i.bits # "none" => i.op \in WaitOps}
Turning ==
  {i \in Records : i.op \in BranchOps /\ i.rs \in Registers /\ i.imm \in Nat /\ i.bits = "none"}
Turns   == {i \in Turning : i.op \notin LinkOps}
Linking == {i \in Turning : i.op \in LinkOps}
Good(c) ==
  /\ c \in Seq(Straight \cup Turns)
  /\ \A k \in 1 .. Len(c) - 1 : c[k] \in Turns => c[k + 1] \in Straight
Closed(c) == Good(c) /\ (c # <<>> => c[Len(c)] \in Straight)
CodeOK(c) == Good(c) \/ \E i \in Linking : c = <<i>>

LEMMA Apart ==
  /\ \A i \in Straight : i.op \notin BranchOps
  /\ Straight \cap Turns = {}
  <1>1. \A op \in IntegerOps \cup FloatOps \cup {"fatal_error"} : op \notin BranchOps
    BY DEF IntegerOps, FloatOps, BranchOps, Likely, LinkOps, JumpOps, ConditionBranches,
       AddOps, SubOps, AndOps, OrOps, XorOps, LeadingOps, SetLessOps, ShiftLeftOps,
       ShiftRightOps, MoveIfOps, TrapOps, MultiplyOps, MultiplyAddOps, MultiplySubOps, DivideOps,
       MoveFromOps, MoveToOps, LoadOps, StoreOps, FloatMoves, MoveOnOps, CompareOps,
       CoprocessorMoves, FloatLoadStore
  <1>2. \A i \in Straight : i.op \notin BranchOps
    BY <1>1 DEF Straight, Computes
  <1>. QED BY <1>2 DEF Turns, Turning

LEMMA Joins ==
  ASSUME NEW S, NEW c \in Seq(S), NEW d \in Seq(S)
  PROVE  /\ c \o d \in Seq(S) /\ Len(c \o d) = Len(c) + Len(d)
         /\ \A k \in 1 .. Len(c) : (c \o d)[k] = c[k]
         /\ \A k \in 1 .. Len(d) : (c \o d)[Len(c) + k] = d[k]
  OBVIOUS

LEMMA JoinClosed ==
  ASSUME NEW c, NEW d, Closed(c), Good(d)
  PROVE  Good(c \o d) /\ (Closed(d) => Closed(c \o d))
  <1>. DEFINE S == Straight \cup Turns
  <1>1. c \in Seq(S) /\ d \in Seq(S) /\ Len(c) \in Nat /\ Len(d) \in Nat
    BY DEF Closed, Good
  <1>2. /\ c \o d \in Seq(S) /\ Len(c \o d) = Len(c) + Len(d)
        /\ \A k \in 1 .. Len(c) : (c \o d)[k] = c[k]
        /\ \A k \in 1 .. Len(d) : (c \o d)[Len(c) + k] = d[k]
    BY <1>1, Joins
  <1>3. ASSUME NEW k \in 1 .. Len(c \o d) - 1, (c \o d)[k] \in Turns
        PROVE  (c \o d)[k + 1] \in Straight
    <2>1. CASE k < Len(c)
      <3>1. (c \o d)[k] = c[k] /\ (c \o d)[k + 1] = c[k + 1] /\ k \in 1 .. Len(c) - 1
        BY <1>1, <1>2, <2>1
      <3>. QED BY <3>1, <1>3 DEF Closed, Good
    <2>2. CASE k = Len(c)
      <3>1. (c \o d)[k] = c[Len(c)] /\ c # <<>>
        BY <1>1, <1>2, <2>2
      <3>. QED BY <3>1, <1>3, Apart DEF Closed
    <2>3. CASE k > Len(c)
      <3>1. PICK j \in 1 .. Len(d) - 1 : k = Len(c) + j
        <4>1. k - Len(c) \in 1 .. Len(d) - 1 /\ k = Len(c) + (k - Len(c))
          BY <1>1, <1>2, <2>3
        <4>. QED BY <4>1
      <3>2. (c \o d)[k] = d[j] /\ j + 1 \in 1 .. Len(d) /\ k + 1 = Len(c) + (j + 1)
        BY <1>1, <1>2, <3>1
      <3>3. (c \o d)[k + 1] = d[j + 1]
        BY <1>2, <3>2
      <3>. QED BY <3>1, <3>2, <3>3, <1>3 DEF Good
    <2>. QED BY <1>1, <1>2, <2>1, <2>2, <2>3
  <1>4. Good(c \o d)
    BY <1>2, <1>3 DEF Good
  <1>5. ASSUME Closed(d), c \o d # <<>> PROVE (c \o d)[Len(c \o d)] \in Straight
    <2>1. CASE d = <<>>
      <3>1. Len(c \o d) = Len(c) /\ c # <<>> /\ Len(c) \in 1 .. Len(c)
        BY <1>1, <1>2, <1>5, <2>1
      <3>. QED BY <3>1, <1>2 DEF Closed
    <2>2. CASE d # <<>>
      <3>1. Len(d) \in 1 .. Len(d)
        BY <1>1, <2>2
      <3>. QED BY <3>1, <1>2, <1>5, <2>2 DEF Closed
    <2>. QED BY <2>1, <2>2
  <1>. QED BY <1>4, <1>5 DEF Closed

LEMMA JoinStraight ==
  ASSUME NEW c, NEW d \in Seq(Straight), Good(c), d # <<>>
  PROVE  Closed(c \o d)
  <1>. DEFINE S == Straight \cup Turns
  <1>1. c \in Seq(S) /\ d \in Seq(S) /\ Len(c) \in Nat /\ Len(d) \in Nat /\ Len(d) >= 1
    BY DEF Good
  <1>2. /\ c \o d \in Seq(S) /\ Len(c \o d) = Len(c) + Len(d)
        /\ \A k \in 1 .. Len(c) : (c \o d)[k] = c[k]
        /\ \A k \in 1 .. Len(d) : (c \o d)[Len(c) + k] = d[k]
    BY <1>1, Joins
  <1>3. \A k \in 1 .. Len(d) : (c \o d)[Len(c) + k] \in Straight
    BY <1>2
  <1>4. \A k \in Len(c) + 1 .. Len(c \o d) : (c \o d)[k] \in Straight
    <2>. TAKE k \in Len(c) + 1 .. Len(c \o d)
    <2>1. k - Len(c) \in 1 .. Len(d) /\ k = Len(c) + (k - Len(c))
      BY <1>1, <1>2
    <2>. QED BY <1>3, <2>1
  <1>5. ASSUME NEW k \in 1 .. Len(c \o d) - 1, (c \o d)[k] \in Turns
        PROVE  (c \o d)[k + 1] \in Straight
    <2>1. CASE k < Len(c)
      <3>1. (c \o d)[k] = c[k] /\ (c \o d)[k + 1] = c[k + 1] /\ k \in 1 .. Len(c) - 1
        BY <1>1, <1>2, <2>1
      <3>. QED BY <3>1, <1>5 DEF Good
    <2>2. CASE k >= Len(c)
      BY <1>1, <1>2, <1>4, <2>2
    <2>. QED BY <1>1, <1>2, <2>1, <2>2
  <1>6. (c \o d)[Len(c \o d)] \in Straight
    BY <1>1, <1>2, <1>4
  <1>. QED BY <1>2, <1>5, <1>6 DEF Closed, Good

LEMMA StraightClosed == ASSUME NEW d \in Seq(Straight) PROVE Closed(d)
  BY DEF Closed, Good

-----------------------------------------------------------------------------
(***************************************************************************)
(* Running such code keeps the type of the machine.                        *)
(***************************************************************************)
LEMMA CodeFacts ==
  ASSUME NEW c, CodeOK(c)
  PROVE  /\ c \in Seq(Straight \cup Turning) /\ Len(c) \in Nat
         /\ \A k \in 1 .. Len(c) : c[k].op \in BranchOps => c[k] \in Turning
         /\ \A k \in 1 .. Len(c) : c[k].op \notin BranchOps => c[k] \in Straight
         /\ \A k \in 1 .. Len(c) - 1 : c[k].op \in BranchOps => c[k + 1] \in Straight
         /\ \A k \in 1 .. Len(c) : c[k].op \in LinkOps => k = 1
  <1>1. \A i \in Turning : i.op \in BranchOps /\ (i.op \notin LinkOps => i \in Turns)
    BY DEF Turning, Turns
  <1>2. CASE Good(c)
    <2>1. c \in Seq(Straight \cup Turns) /\ Len(c) \in Nat
          /\ Turns \subseteq Turning /\ \A i \in Turns : i.op \notin LinkOps
      BY <1>2 DEF Good, Turns
    <2>2. \A k \in 1 .. Len(c) : c[k] \in Straight \cup Turns
      BY <2>1
    <2>3. LinkOps \subseteq BranchOps
      BY DEF BranchOps
    <2>4. c \in Seq(Straight \cup Turning)
      BY <2>1
    <2>. QED BY <1>1, <1>2, <2>1, <2>2, <2>3, <2>4, Apart DEF Good
  <1>3. CASE \E i \in Linking : c = <<i>>
    <2>1. PICK i \in Linking : c = <<i>>
      BY <1>3
    <2>2. Len(c) = 1 /\ c[1] = i /\ i \in Turning /\ i.op \in LinkOps /\ LinkOps \subseteq BranchOps
      BY <2>1 DEF Linking, BranchOps
    <2>3. c \in Seq(Straight \cup Turning)
      BY <2>1, <2>2
    <2>. QED BY <2>2, <2>3
  <1>. QED BY <1>2, <1>3 DEF CodeOK

LEMMA LinkedType ==
  ASSUME NEW n \in Machines, NEW b, NEW i, i.op \in LinkOps => n.PC = 1
  PROVE  Linked(n, b, i) \in Machines
  <1>1. i.op \in LinkOps => n.PC + 1 + Slots(b) \in Words
    BY Widths DEF Slots, Words
  <1>. QED BY <1>1, SetType DEF Linked

LEMMA StartKeeps ==
  ASSUME NEW n \in Machines
  PROVE  StartStep(n).PC = n.PC
  <1>. DEFINE z == Set(n, 0, 0)
              late == IF z.late2 = <<>> THEN z
                      ELSE Loaded(z, z.late2[1], z.late2[2], z.late2[3])
  <1>1. z.PC = n.PC /\ z \in Machines
    <2>1. 0 \in Words
      BY Widths DEF Words
    <2>2. z.PC = n.PC
      BY DEF Set, Machines
    <2>. HIDE DEF Machines
    <2>. QED BY <2>1, <2>2, SetType
  <1>2. late.PC = z.PC /\ late \in Machines
    <2>. HIDE DEF z
    <2>1. z.late2 # <<>> => Loaded(z, z.late2[1], z.late2[2], z.late2[3]) \in Machines
      BY <1>1, LoadedType DEF Machines
    <2>2. \A f, r, w : Loaded(z, f, r, w).PC = z.PC
      BY <1>1 DEF Loaded, Set, Machines
    <2>. QED BY <1>1, <2>1, <2>2
  <1>3. StartStep(n) = [late EXCEPT !.late2 = z.late1, !.late1 = <<>>]
    BY DEF StartStep, DO_DELAYED_UPDATE
  <1>. HIDE DEF late, z
  <1>. QED BY <1>1, <1>2, <1>3 DEF Machines

LEMMA RunStepType ==
  ASSUME NEW n \in Machines, NEW b, NEW c, CodeOK(c),
         \A k \in DOMAIN c : c[k].op # "fatal_error", n.PC <= Len(c)
  PROVE  RunStep(n, b, c) \in Machines
  <1>. DEFINE i == c[n.PC]
              s == StartStep(n)
              linked == Linked(s, b, i)
              target == Target(s, b, i)
  <1>1. Len(c) \in Nat /\ n.PC \in 1 .. Len(c) /\ DOMAIN c = 1 .. Len(c)
    BY CodeFacts, Parts
  <1>2. ASSUME NEW k \in 1 .. Len(c), c[k].op \notin BranchOps PROVE Computes(c[k])
    BY <1>1, <1>2, CodeFacts DEF Straight
  <1>3. CASE i.op \notin BranchOps
    BY <1>1, <1>2, <1>3, PlainType DEF RunStep
  <1>4. CASE i.op \in BranchOps
    <2>1. i \in Turning /\ (i.op \in LinkOps => n.PC = 1)
          /\ (n.PC + 1 <= Len(c) => c[n.PC + 1] \in Straight)
      BY <1>1, <1>4, CodeFacts
    <2>2. s \in Machines /\ s.PC = n.PC
      BY StartType, StartKeeps
    <2>3. linked \in Machines /\ linked.PC = n.PC
      <3>1. \A x \in Machines : Linked(x, b, i).PC = x.PC
        BY DEF Linked, Set, Machines
      <3>. QED BY <2>1, <2>2, <3>1, LinkedType
    <2>4. target \in Nat \ {0}
      <3>1. s.R[i.rs] \in Nat /\ i.imm \in Nat
        BY <2>1, <2>2, Parts, WordBounds DEF Turning
      <3>2. target = IF i.op \in {"jr", "jalr"} THEN Far + s.R[i.rs] ELSE s.PC + i.imm + Slots(b)
        BY DEF Target
      <3>3. Slots(b) \in Nat /\ Far \in Nat \ {0} /\ s.PC \in Nat \ {0}
        BY <2>2, Parts DEF Slots, Far
      <3>. HIDE DEF target, s, i
      <3>. QED BY <3>1, <3>2, <3>3
    <2>5. Jump(linked, b, c, target) \in Machines
      <3>. DEFINE slot == n.PC + 1
                  after == IF b.delayed_branches /\ slot <= Len(c)
                           THEN Plain(linked, b, c[slot]) ELSE linked
      <3>1. ASSUME slot <= Len(c) PROVE Plain(linked, b, c[slot]) \in Machines
        <4>1. slot \in 1 .. Len(c) /\ c[slot] \in Straight
          BY <1>1, <2>1, <3>1
        <4>2. Computes(c[slot])
          BY <1>2, <4>1, Apart
        <4>. QED BY <2>3, <4>2, PlainType
      <3>2. after \in Machines
        BY <2>3, <3>1
      <3>3. Jump(linked, b, c, target) = [after EXCEPT !.PC = target]
        BY <2>3 DEF Jump
      <3>. HIDE DEF after, target
      <3>. QED BY <2>4, <3>2, <3>3 DEF Machines
    <2>6. \A p \in Nat \ {0} : [linked EXCEPT !.PC = p] \in Machines
      BY <2>3 DEF Machines
    <2>7. n.PC + (IF Nullifies(i) THEN 2 ELSE 1) \in Nat \ {0}
      BY <1>1
    <2>8. RunStep(n, b, c) = IF Taken(linked, i) THEN Jump(linked, b, c, target)
                             ELSE [linked EXCEPT !.PC = n.PC + IF Nullifies(i) THEN 2 ELSE 1]
      BY <1>4 DEF RunStep, Branch
    <2>. HIDE DEF linked, target
    <2>. QED BY <2>5, <2>6, <2>7, <2>8
  <1>. QED BY <1>3, <1>4

-----------------------------------------------------------------------------
(***************************************************************************)
(* What the assembler makes of a line is such code: first the parts the    *)
(* lines are made of.                                                      *)
(***************************************************************************)
Block(c) == c \in Seq(Straight) /\ c # <<>>
Exprs == [value : Int, known : BOOLEAN, bits : {"all", "upper", "lower"}]
\* The registers an instruction with an immediate names are there.
Placed(op, rt, rs) ==
  /\ op \in WaitOps /\ rs \in Registers
  /\ op \in FloatLoadStore => rt \in FloatRegisters
  /\ op \notin FloatLoadStore => rt \in Registers
  /\ op = "ldc1" => rt + 1 \in FloatRegisters

LEMMA SmallRegisters ==
  0 \in Registers /\ at \in Registers /\ ra \in Registers /\ Registers \subseteq Int
  BY MachineOK DEF at

LEMMA FloatNumbers == FloatRegisters \subseteq Int
  BY FloatOK

LEMMA Nonempty ==
  ASSUME NEW S, NEW i \in S
  PROVE  <<i>> \in Seq(S) /\ <<i>> # <<>>
  OBVIOUS

LEMMA BlockJoin ==
  ASSUME NEW c, NEW d, c = <<>> \/ Block(c), Block(d)
  PROVE  Block(c \o d) /\ Block(d \o c)
  <1>. DEFINE S == Straight
  <1>. HIDE DEF S
  <1>0. (c \in Seq(S) \/ c = <<>>) /\ d \in Seq(S) /\ d # <<>>
    BY DEF Block, S
  <1>1. c \in Seq(S) /\ Len(c) \in Nat /\ Len(d) \in Nat /\ Len(d) # 0
    <2>1. <<>> \in Seq(S)
      OBVIOUS
    <2>2. c \in Seq(S)
      BY <1>0, <2>1
    <2>3. Len(d) # 0
      BY <1>0
    <2>. QED BY <1>0, <2>2, <2>3
  <1>2. /\ c \o d \in Seq(S) /\ Len(c \o d) = Len(c) + Len(d)
        /\ d \o c \in Seq(S) /\ Len(d \o c) = Len(d) + Len(c)
    BY <1>0, <1>1, Joins
  <1>3. Len(c \o d) # 0 /\ Len(d \o c) # 0
    BY <1>1, <1>2
  <1>. QED BY <1>2, <1>3 DEF Block, S

LEMMA BlockGood == ASSUME NEW c, Block(c) PROVE Good(c) /\ Closed(c)
  BY StraightClosed DEF Block, Closed

LEMMA WaitIsPlaced ==
  ASSUME NEW op, op \in WaitOps
  PROVE  /\ op \in IntegerOps \cup FloatOps
         /\ op \in IntegerOps => op \notin FloatLoadStore
         /\ op \notin {"sll", "sra", "srl"} /\ op \notin FloatMoves
         /\ op \notin MoveOnOps /\ op \notin CoprocessorMoves
  BY DEF WaitOps, Arithmetic, Logical, LoadStore, IntegerOps, FloatOps,
       AddOps, SubOps, AndOps, OrOps, XorOps, LeadingOps, SetLessOps, ShiftLeftOps,
       ShiftRightOps, MoveIfOps, TrapOps, MultiplyOps, MultiplyAddOps, MultiplySubOps, DivideOps,
       MoveFromOps, MoveToOps, LoadOps, StoreOps, FloatMoves, MoveOnOps, CompareOps,
       CoprocessorMoves, FloatLoadStore

LEMMA OneInstBlock ==
  ASSUME NEW op, NEW rt, NEW rs, NEW e \in Exprs, Placed(op, rt, rs)
  PROVE  Block(OneInst(op, rt, rs, e))
  <1>. DEFINE known == [op |-> op, rd |-> 0, rs |-> rs, rt |-> rt,
                        imm |-> Short(eval_imm_expr(e)), bits |-> "none"]
              waits == [op |-> op, rd |-> 0, rs |-> rs, rt |-> rt,
                        imm |-> e.value, bits |-> e.bits]
  <1>1. e.value \in Int /\ e.bits \in {"all", "upper", "lower"}
    BY DEF Exprs
  <1>2. eval_imm_expr(e) \in Int
    <2>1. Low(e.value) \in Int
      BY <1>1, LowType, WordBounds
    <2>. QED BY <1>1, <2>1, Widths, DivMod DEF eval_imm_expr
  <1>3. Short(eval_imm_expr(e)) \in Int
    BY <1>2, ShortType
  <1>4. rs \in Int /\ rt \in Int /\ 0 \in Int
    BY SmallRegisters, FloatNumbers DEF Placed
  <1>5. ASSUME NEW imm \in Int, NEW bits \in {"none", "all", "upper", "lower"}
        PROVE  [op |-> op, rd |-> 0, rs |-> rs, rt |-> rt, imm |-> imm, bits |-> bits]
                 \in Straight
    <2>. DEFINE i == [op |-> op, rd |-> 0, rs |-> rs, rt |-> rt, imm |-> imm, bits |-> bits]
    <2>1. op \in WaitOps
      BY DEF Placed
    <2>2. i \in Records
      BY <1>4, <2>1, WaitIsPlaced DEF Records
    <2>3. op \in IntegerOps => IntegerFields(i)
      BY <2>1, WaitIsPlaced, SmallRegisters DEF IntegerFields, Placed
    <2>4. FloatFields(i)
      BY <2>1, WaitIsPlaced DEF FloatFields, Placed, FT
    <2>5. Computes(i)
      BY <2>1, <2>3, <2>4, WaitIsPlaced DEF Computes
    <2>. QED BY <2>1, <2>2, <2>5 DEF Straight
  <1>6. known \in Straight /\ waits \in Straight
    BY <1>1, <1>3, <1>5
  <1>7. OneInst(op, rt, rs, e) = IF e.known THEN <<known>> ELSE <<waits>>
    BY DEF OneInst, Instr
  <1>. HIDE DEF known, waits
  <1>. QED BY <1>6, <1>7, Nonempty DEF Block

LEMMA RegisterBlock ==
  ASSUME NEW op \in IntegerOps,
         NEW rd \in Registers, NEW rs \in Registers, NEW rt \in Registers, NEW imm \in 0 .. WordBits
  PROVE  Block(Instr(op, rd, rs, rt, imm, "none"))
  <1>. DEFINE i == [op |-> op, rd |-> rd, rs |-> rs, rt |-> rt, imm |-> imm, bits |-> "none"]
  <1>1. rd \in Int /\ rs \in Int /\ rt \in Int /\ imm \in Int
    BY SmallRegisters, WidthOK
  <1>2. i \in Records
    BY <1>1 DEF Records
  <1>3. IntegerFields(i)
    BY <1>1 DEF IntegerFields
  <1>4. op \notin FloatMoves /\ op \notin MoveOnOps /\ op \notin CoprocessorMoves
        /\ op \notin FloatLoadStore /\ op # "ldc1"
    BY DEF IntegerOps, AddOps, SubOps, AndOps, OrOps, XorOps, LeadingOps, SetLessOps,
       ShiftLeftOps, ShiftRightOps, MoveIfOps, TrapOps, MultiplyOps, MultiplyAddOps,
       MultiplySubOps, DivideOps, MoveFromOps, MoveToOps, LoadOps, StoreOps, FloatMoves,
       MoveOnOps, CoprocessorMoves, FloatLoadStore
  <1>5. FloatFields(i)
    BY <1>4 DEF FloatFields
  <1>6. i \in Straight
    BY <1>2, <1>3, <1>5 DEF Straight, Computes
  <1>. QED BY <1>6, Nonempty DEF Block, Instr

LEMMA RTypeBlock ==
  ASSUME NEW op \in IntegerOps,
         NEW rd \in Registers, NEW rs \in Registers, NEW rt \in Registers
  PROVE  Block(r_type_inst(op, rd, rs, rt))
  <1>1. 0 \in 0 .. WordBits
    BY WidthOK DEF WordBits
  <1>. QED BY <1>1, RegisterBlock DEF r_type_inst

LEMMA ShiftBlock ==
  ASSUME NEW op \in {"sll", "sra", "srl"},
         NEW rd \in Registers, NEW rt \in Registers, NEW shamt \in Int
  PROVE  Block(r_sh_type_inst(op, rd, rt, shamt))
  <1>1. WordBits \in Nat \ {0}
    BY WidthOK DEF WordBits
  <1>2. shamt % WordBits \in 0 .. WordBits
    BY <1>1, DivMod
  <1>3. op \in IntegerOps
    BY DEF IntegerOps, ShiftLeftOps, ShiftRightOps
  <1>. QED BY <1>2, <1>3, RegisterBlock, SmallRegisters DEF r_sh_type_inst

LEMMA FixedBlocks == Block(nop_inst) /\ Block(trap_inst)
  <1>1. "break" \in IntegerOps
    BY DEF IntegerOps
  <1>. QED BY <1>1, RTypeBlock, ShiftBlock, SmallRegisters DEF nop_inst, trap_inst

LEMMA BranchGood ==
  ASSUME NEW op \in BranchOps, op \notin LinkOps, NEW rs \in Registers, NEW rt \in Int,
         NEW n \in {3, Far}
  PROVE  /\ Good(branch(op, rt, rs, n))
         /\ \A d : Block(d) => Closed(branch(op, rt, rs, n) \o d)
  <1>. DEFINE imm == IF build.delayed_branches THEN n - 1 ELSE n
              i == [op |-> op, rd |-> 0, rs |-> rs, rt |-> rt, imm |-> imm, bits |-> "none"]
  <1>1. imm \in Nat
    BY DEF Far
  <1>2. rs \in Int
    BY SmallRegisters
  <1>3. i \in Turns
    <2>. HIDE DEF imm
    <2>. QED BY <1>1, <1>2 DEF Turns, Turning, Records
  <1>4. branch(op, rt, rs, n) = <<i>>
    BY DEF branch, Instr
  <1>. HIDE DEF i
  <1>5. Good(<<i>>)
    BY <1>3 DEF Good
  <1>. QED BY <1>4, <1>5, JoinStraight DEF Block

-----------------------------------------------------------------------------
LEMMA ProduceBlock ==
  ASSUME NEW e \in Exprs, NEW rt \in Registers
  PROVE  Block(produce_immediate(e, rt))
  <1>1. upper_bits_of_expr(e) \in Exprs /\ lower_bits_of_expr(e) \in Exprs
    BY DEF upper_bits_of_expr, lower_bits_of_expr, Exprs
  <1>2. \A r, s \in Registers : Placed("lui", r, s) /\ Placed("ori", r, s)
    BY DEF Placed, WaitOps, Logical, FloatLoadStore
  <1>3. \A r, s \in Registers : /\ Block(OneInst("lui", r, s, upper_bits_of_expr(e)))
                                /\ Block(OneInst("ori", r, s, lower_bits_of_expr(e)))
    BY <1>1, <1>2, OneInstBlock
  <1>. QED BY <1>3, BlockJoin, SmallRegisters DEF produce_immediate

LEMMA PiecesBlock ==
  ASSUME NEW op, NEW rt, NEW rs, NEW e \in Exprs, Placed(op, rt, rs), op \in LoadStore
  PROVE  Block(AddressInPieces(op, rt, rs, e))
  <1>. DEFINE low == Low(e.value) % Half
              high == Low(e.value) \div Half + IF low >= Half \div 2 THEN 1 ELSE 0
  <1>1. high \in Int
    <2>1. Low(e.value) \in Int /\ Half \in Nat \ {0}
      BY LowType, WordBounds, Widths DEF Exprs
    <2>2. Low(e.value) \div Half \in Int
      BY <2>1, DivMod
    <2>. QED BY <2>2
  <1>. HIDE DEF high
  <1>2. const_imm_expr(high) \in Exprs
    <2>1. Signed(Low(high)) \in Int
      BY <1>1, LowType, WordBounds
    <2>. QED BY <2>1 DEF const_imm_expr, Exprs
  <1>3. upper_bits_of_expr(e) \in Exprs /\ lower_bits_of_expr(e) \in Exprs
    BY DEF upper_bits_of_expr, lower_bits_of_expr, Exprs
  <1>4. Placed("lui", at, 0) /\ Placed(op, rt, at) /\ rs \in Registers
    BY SmallRegisters DEF Placed, WaitOps, FloatLoadStore
  <1>5. Block(OneInst("lui", at, 0, const_imm_expr(high)))
        /\ Block(OneInst("lui", at, 0, upper_bits_of_expr(e)))
        /\ Block(OneInst(op, rt, at, lower_bits_of_expr(e)))
    BY <1>2, <1>3, <1>4, OneInstBlock
  <1>6. Block(r_type_inst("addu", at, at, rs))
    BY <1>4, RTypeBlock, SmallRegisters DEF IntegerOps, AddOps
  <1>. DEFINE first == IF e.known THEN OneInst("lui", at, 0, const_imm_expr(high))
                       ELSE OneInst("lui", at, 0, upper_bits_of_expr(e))
              sum == IF rs # 0 THEN r_type_inst("addu", at, at, rs) ELSE <<>>
  <1>7. Block(first) /\ (sum = <<>> \/ Block(sum))
    BY <1>5, <1>6
  <1>8. AddressInPieces(op, rt, rs, e) = first \o sum \o OneInst(op, rt, at, lower_bits_of_expr(e))
    BY DEF AddressInPieces, high
  <1>. HIDE DEF first, sum
  <1>. QED BY <1>5, <1>7, <1>8, BlockJoin

LEMMA FatalBlock == Block(Fatal)
  <1>. DEFINE i == [op |-> "fatal_error", rd |-> 0, rs |-> 0, rt |-> 0, imm |-> 0, bits |-> "none"]
  <1>1. i \in Straight
    BY DEF Straight, Records
  <1>. QED BY <1>1, Nonempty DEF Fatal, Instr, Block

LEMMA ImmediateBlock ==
  ASSUME NEW op, NEW rt, NEW rs, NEW e \in Exprs, Placed(op, rt, rs)
  PROVE  Block(i_type_inst(op, rt, rs, e))
  <1>1. Block(OneInst(op, rt, rs, e))
    BY OneInstBlock
  <1>2. op \in LoadStore => Block(AddressInPieces(op, rt, rs, e))
    BY PiecesBlock
  <1>3. ASSUME op \notin LoadStore
        PROVE  /\ Block(produce_immediate(e, rt))
               /\ op \in DOMAIN ImmOps =>
                    Block(produce_immediate(e, at) \o r_type_inst(imm_op_to_op(op), rt, rs, at))
    <2>1. rt \in Registers /\ rs \in Registers
      BY <1>3 DEF Placed, LoadStore
    <2>2. \A o \in DOMAIN ImmOps : imm_op_to_op(o) \in IntegerOps
      BY DEF imm_op_to_op, ImmOps, IntegerOps, AddOps, AndOps, OrOps, XorOps, SetLessOps,
         ShiftLeftOps, ShiftRightOps
    <2>3. Block(produce_immediate(e, rt)) /\ Block(produce_immediate(e, at))
      BY <2>1, ProduceBlock, SmallRegisters
    <2>4. op \in DOMAIN ImmOps => Block(r_type_inst(imm_op_to_op(op), rt, rs, at))
      BY <2>1, <2>2, RTypeBlock, SmallRegisters
    <2>. QED BY <2>3, <2>4, BlockJoin
  <1>4. Block(i_type_inst_full_word(op, rt, rs, e))
    BY <1>2, <1>3, FatalBlock DEF i_type_inst_full_word
  <1>. QED BY <1>1, <1>4 DEF i_type_inst

-----------------------------------------------------------------------------
(***************************************************************************)
(* Then the lines on integer registers, one rule of the grammar at a time. *)
(***************************************************************************)
IntegerLine(l) ==
  l.rd \in Registers /\ l.rs \in Registers /\ l.rt \in Registers /\ l.imm \in Int /\ l.known \in BOOLEAN

LEMMA LineExprs ==
  ASSUME NEW l, l.imm \in Int, l.known \in BOOLEAN
  PROVE  /\ Immediate(l) \in Exprs
         /\ \A n \in Int : const_imm_expr(n) \in Exprs /\ incr_expr_offset(Immediate(l), n) \in Exprs
  <1>1. Immediate(l) \in Exprs
    BY DEF Immediate, Exprs
  <1>2. \A n \in Int : Signed(Low(n)) \in Int
    BY LowType, WordBounds
  <1>3. ASSUME NEW n \in Int PROVE const_imm_expr(n) \in Exprs
    BY <1>2 DEF const_imm_expr, Exprs
  <1>4. ASSUME NEW n \in Int PROVE incr_expr_offset(Immediate(l), n) \in Exprs
    <2>1. l.imm + n \in Int
      OBVIOUS
    <2>2. Signed(Low(l.imm + n)) \in Int
      BY <1>2, <2>1
    <2>. QED BY <1>1, <2>2 DEF incr_expr_offset, Immediate, Exprs
  <1>. QED BY <1>1, <1>3, <1>4

LEMMA IntegerPlaced ==
  ASSUME NEW op \in WaitOps, op \notin FloatLoadStore, NEW rt \in Registers, NEW rs \in Registers
  PROVE  Placed(op, rt, rs)
  BY DEF Placed, FloatLoadStore

LEMMA IntegerImmediate ==
  ASSUME NEW op \in Arithmetic \cup Logical \cup LoadOps \cup StoreOps \cup {"lui", "lwl", "lwr", "swl", "swr"},
         NEW rt \in Registers, NEW rs \in Registers, NEW e \in Exprs
  PROVE  Block(i_type_inst(op, rt, rs, e))
  <1>1. op \in WaitOps /\ op \notin FloatLoadStore
    BY DEF WaitOps, LoadStore, Arithmetic, Logical, LoadOps, StoreOps, FloatLoadStore
  <1>. QED BY <1>1, IntegerPlaced, ImmediateBlock

LEMMA MemoryGood ==
  ASSUME NEW l, IntegerLine(l), l.op \in {"ld", "sd"} => l.rd + 1 \in Registers
  PROVE  /\ l.op \in LoadOps \cup {"ld"} => Good(LoadLine(l))
         /\ l.op \in StoreOps \cup {"sd"} => Good(StoreLine(l))
  <1>1. Immediate(l) \in Exprs /\ incr_expr_offset(Immediate(l), 4) \in Exprs
    BY LineExprs DEF IntegerLine
  <1>2. "lw" \in LoadOps /\ "sw" \in StoreOps /\ "ld" \notin LoadOps /\ "sd" \notin StoreOps
    BY DEF LoadOps, StoreOps
  <1>3. \A op \in LoadOps \cup StoreOps :
          /\ Block(i_type_inst(op, l.rd, l.rs, Immediate(l)))
          /\ l.op \in {"ld", "sd"} =>
               Block(i_type_inst(op, l.rd + 1, l.rs, incr_expr_offset(Immediate(l), 4)))
    BY <1>1, IntegerImmediate DEF IntegerLine
  <1>4. ASSUME l.op \in LoadOps \cup {"ld"} PROVE Block(LoadLine(l))
    <2>. DEFINE two == IF l.op = "ld"
                       THEN i_type_inst("lw", l.rd + 1, l.rs, incr_expr_offset(Immediate(l), 4))
                       ELSE <<>>
                op == IF l.op = "ld" THEN "lw" ELSE l.op
                one == i_type_inst(op, l.rd, l.rs, Immediate(l))
    <2>1. Block(one) /\ (two = <<>> \/ Block(two))
      BY <1>2, <1>3, <1>4
    <2>2. LoadLine(l) = one \o two
      BY DEF LoadLine
    <2>. HIDE DEF one, two
    <2>. QED BY <2>1, <2>2, BlockJoin
  <1>5. ASSUME l.op \in StoreOps \cup {"sd"} PROVE Block(StoreLine(l))
    <2>. DEFINE two == IF l.op = "sd"
                       THEN i_type_inst("sw", l.rd + 1, l.rs, incr_expr_offset(Immediate(l), 4))
                       ELSE <<>>
                op == IF l.op = "sd" THEN "sw" ELSE l.op
                one == i_type_inst(op, l.rd, l.rs, Immediate(l))
    <2>1. Block(one) /\ (two = <<>> \/ Block(two))
      BY <1>2, <1>3, <1>5
    <2>2. StoreLine(l) = one \o two
      BY DEF StoreLine
    <2>. HIDE DEF one, two
    <2>. QED BY <2>1, <2>2, BlockJoin
  <1>. QED BY <1>4, <1>5, BlockGood

LEMMA LoadImmediateGood ==
  ASSUME NEW l, IntegerLine(l)
  PROVE  Good(LoadImmediateLine(l))
  <1>1. \A op \in {"lui", "addi", "ori"} : \A rs \in Registers :
          Block(i_type_inst(op, l.rd, rs, Immediate(l)))
    BY IntegerImmediate, LineExprs DEF IntegerLine, Arithmetic, Logical
  <1>. QED BY <1>1, BlockGood, SmallRegisters DEF LoadImmediateLine, IntegerLine

LEMMA UnalignedGood ==
  ASSUME NEW l, IntegerLine(l)
  PROVE  Good(UnalignedLoad(l)) /\ Good(UnalignedStore(l))
  <1>. DEFINE high == IF build.big_endian THEN 0 ELSE 1
  <1>0. high \in 0 .. 1
    OBVIOUS
  <1>1. \A op \in {"lwl", "lwr", "swl", "swr", "lb", "lbu", "sb"} : \A r \in Registers, n \in 0 .. 3 :
          Block(At(l, op, r, n))
    <2>. TAKE op \in {"lwl", "lwr", "swl", "swr", "lb", "lbu", "sb"}
    <2>. TAKE r \in Registers, n \in 0 .. 3
    <2>1. incr_expr_offset(Immediate(l), n) \in Exprs
      BY LineExprs DEF IntegerLine
    <2>2. op \in Arithmetic \cup Logical \cup LoadOps \cup StoreOps
                   \cup {"lui", "lwl", "lwr", "swl", "swr"}
      BY DEF LoadOps, StoreOps
    <2>. QED BY <2>1, <2>2, IntegerImmediate DEF At, IntegerLine
  <1>2. ByteBits \in Int /\ 3 * ByteBits \in Int
    BY WidthOK
  <1>3. l.rd \in Registers /\ at \in Registers /\ "or" \in IntegerOps
    BY SmallRegisters DEF IntegerLine, IntegerOps, OrOps
  <1>4. /\ \A op \in {"sll", "srl"}, rd \in {l.rd, at}, k \in {ByteBits, 3 * ByteBits} :
             Block(r_sh_type_inst(op, rd, l.rd, k))
        /\ Block(r_type_inst("or", l.rd, l.rd, at))
    BY <1>2, <1>3, ShiftBlock, RTypeBlock
  <1>5. high \in 0 .. 3 /\ 1 - high \in 0 .. 3 /\ 3 * high \in 0 .. 3 /\ 3 * (1 - high) \in 0 .. 3
    BY <1>0
  <1>. HIDE DEF high
  <1>6. Block(UnalignedLoad(l))
    <2>. DEFINE lwl == At(l, "lwl", l.rd, 3 * high)
                lwr == At(l, "lwr", l.rd, 3 * (1 - high))
                op == IF l.op = "ulh" THEN "lb" ELSE "lbu"
                lb == At(l, op, l.rd, high)
                lbu == At(l, "lbu", at, 1 - high)
                sll == r_sh_type_inst("sll", l.rd, l.rd, ByteBits)
                or == r_type_inst("or", l.rd, l.rd, at)
    <2>1. Block(lwl) /\ Block(lwr) /\ Block(lb) /\ Block(lbu) /\ Block(sll) /\ Block(or)
      BY <1>1, <1>3, <1>4, <1>5
    <2>2. UnalignedLoad(l) = IF l.op = "ulw" THEN lwl \o lwr ELSE lb \o lbu \o sll \o or
      BY DEF UnalignedLoad, high
    <2>. HIDE DEF lwl, lwr, lb, lbu, sll, or
    <2>3. Block(lwl \o lwr) /\ Block(lb \o lbu) /\ Block(lb \o lbu \o sll)
      BY <2>1, BlockJoin
    <2>4. Block(lb \o lbu \o sll \o or)
      BY <2>1, <2>3, BlockJoin
    <2>. QED BY <2>2, <2>3, <2>4
  <1>7. Block(UnalignedStore(l))
    <2>. DEFINE swl == At(l, "swl", l.rd, 3 * high)
                swr == At(l, "swr", l.rd, 3 * (1 - high))
                sb0 == At(l, "sb", l.rd, 0)
                sb1 == At(l, "sb", l.rd, 1)
                or == r_type_inst("or", l.rd, l.rd, at)
                s1 == r_sh_type_inst("sll", at, l.rd, 3 * ByteBits)
                s2 == r_sh_type_inst("srl", l.rd, l.rd, ByteBits)
                s3 == r_sh_type_inst("srl", at, l.rd, 3 * ByteBits)
                s4 == r_sh_type_inst("sll", l.rd, l.rd, ByteBits)
    <2>1. Block(swl) /\ Block(swr) /\ Block(sb0) /\ Block(sb1)
      BY <1>1, <1>3, <1>5
    <2>2. Block(or) /\ Block(s1) /\ Block(s2) /\ Block(s3) /\ Block(s4)
      BY <1>4
    <2>3. UnalignedStore(l) = IF l.op = "usw" THEN swl \o swr
                              ELSE sb0 \o s1 \o s2 \o or \o sb1 \o s3 \o s4 \o or
      BY DEF UnalignedStore, high
    <2>. HIDE DEF swl, swr, sb0, sb1, or, s1, s2, s3, s4
    <2>4. Block(swl \o swr) /\ Block(sb0 \o s1)
      BY <2>1, <2>2, BlockJoin
    <2>5. Block(sb0 \o s1 \o s2 \o or)
      BY <2>2, <2>4, BlockJoin
    <2>6. Block(sb0 \o s1 \o s2 \o or \o sb1 \o s3)
      BY <2>1, <2>2, <2>5, BlockJoin
    <2>7. Block(sb0 \o s1 \o s2 \o or \o sb1 \o s3 \o s4 \o or)
      BY <2>2, <2>6, BlockJoin
    <2>. QED BY <2>3, <2>4, <2>7
  <1>. QED BY <1>6, <1>7, BlockGood

LEMMA InRegisterBlock ==
  ASSUME NEW l, IntegerLine(l)
  PROVE  /\ InRegister(l) = <<>> \/ Block(InRegister(l))
         /\ Second(l) \in Registers
         /\ Block(i_type_inst("ori", at, 0, Immediate(l)))
  <1>1. Block(i_type_inst("ori", at, 0, Immediate(l)))
    BY IntegerImmediate, LineExprs, SmallRegisters DEF IntegerLine, Logical
  <1>. QED BY <1>1, SmallRegisters DEF InRegister, Second, IntegerLine

LEMMA BinaryGood ==
  ASSUME NEW l, IntegerLine(l), l.op \in TrapOps \ Arithmetic => l.form = "reg"
  PROVE  /\ l.op \in BinaryLines => Good(BinaryLine(l))
         /\ l.op \in SubOps => Good(SubLine(l))
         /\ l.op = "nor" => Good(NorLine(l))
         /\ l.op \in TrapOps => Good(TrapLine(l))
  <1>1. ASSUME l.op \in IntegerOps PROVE Block(r_type_inst(l.op, l.rd, l.rs, l.rt))
    BY <1>1, RTypeBlock DEF IntegerLine
  <1>2. \A op \in Arithmetic \cup Logical : \A r \in Registers : \A e \in Exprs :
          Block(i_type_inst(op, r, l.rs, e))
    BY IntegerImmediate DEF IntegerLine
  <1>3. Immediate(l) \in Exprs /\ const_imm_expr(-l.imm) \in Exprs
    BY LineExprs DEF IntegerLine
  <1>4. ASSUME l.op \in BinaryLines PROVE Good(BinaryLine(l))
    <2>1. l.op \in IntegerOps
      BY <1>4 DEF BinaryLines, IntegerOps, AddOps, AndOps, OrOps, XorOps, Logical, SetLessOps
    <2>2. l.op \notin Arithmetic \cup Logical => op_to_imm_op(l.op) \in Arithmetic \cup Logical
      BY <1>4 DEF BinaryLines, AddOps, SetLessOps, Arithmetic, Logical, op_to_imm_op
    <2>. QED BY <1>1, <1>2, <1>3, <2>1, <2>2, BlockGood DEF BinaryLine, IntegerLine
  <1>5. ASSUME l.op \in SubOps PROVE Good(SubLine(l))
    <2>1. l.op \in IntegerOps /\ "addi" \in Arithmetic /\ "addiu" \in Arithmetic
      BY <1>5 DEF IntegerOps, Arithmetic
    <2>. QED BY <1>1, <1>2, <1>3, <2>1, BlockGood DEF SubLine, IntegerLine
  <1>6. ASSUME l.op = "nor" PROVE Good(NorLine(l))
    <2>1. l.op \in IntegerOps
      BY <1>6 DEF IntegerOps, OrOps
    <2>2. Block(r_type_inst(l.op, l.rd, l.rs, Second(l)))
      BY <2>1, InRegisterBlock, RTypeBlock DEF IntegerLine
    <2>. QED BY <2>2, InRegisterBlock, BlockJoin, BlockGood DEF NorLine
  <1>7. ASSUME l.op \in TrapOps PROVE Good(TrapLine(l))
    <2>1. l.op \in IntegerOps
      BY <1>7 DEF IntegerOps
    <2>2. Block(r_type_inst(l.op, 0, l.rs, l.rt))
      BY <2>1, RTypeBlock, SmallRegisters DEF IntegerLine
    <2>3. l.op \in Arithmetic => Block(i_type_inst(l.op, 0, l.rs, Immediate(l)))
      BY <1>2, <1>3, SmallRegisters
    <2>. QED BY <1>7, <2>2, <2>3, BlockGood DEF TrapLine
  <1>. QED BY <1>4, <1>5, <1>6, <1>7

LEMMA ShiftGood ==
  ASSUME NEW l, IntegerLine(l)
  PROVE  /\ l.op \in ShiftLines => Good(ShiftLine(l))
         /\ Good(RotateLine(l))
  <1>. DEFINE r == l.rd
  <1>1. /\ r \in Registers /\ l.rs \in Registers /\ l.rt \in Registers
        /\ l.imm \in Int /\ -l.imm \in Int /\ 0 \in Registers /\ at \in Registers
    BY SmallRegisters DEF IntegerLine
  <1>2. \A op \in {"sllv", "srav", "srlv", "subu", "or"} :
          \A d \in Registers, x \in Registers, y \in Registers : Block(r_type_inst(op, d, x, y))
    BY RTypeBlock DEF IntegerOps, ShiftLeftOps, ShiftRightOps, SubOps, OrOps
  <1>3. \A op \in {"sll", "sra", "srl"} : \A d \in Registers, x \in Registers, n \in Int :
          Block(r_sh_type_inst(op, d, x, n))
    BY ShiftBlock
  <1>4. ASSUME l.op \in ShiftLines PROVE Good(ShiftLine(l))
    <2>1. l.op \in {"sllv", "srav", "srlv"} \/ l.op \in {"sll", "sra", "srl"}
      BY <1>4 DEF ShiftLines, ShiftLeftOps, ShiftRightOps
    <2>2. /\ l.op \in {"sll", "sra", "srl"} => imm_op_to_op(l.op) \in {"sllv", "srav", "srlv"}
          /\ l.op \in {"sllv", "srav", "srlv"} => op_to_imm_op(l.op) \in {"sll", "sra", "srl"}
      BY DEF imm_op_to_op, ImmOps, op_to_imm_op
    <2>3. Block(ShiftLine(l))
      BY <1>1, <1>2, <1>3, <2>1, <2>2 DEF ShiftLine
    <2>. QED BY <2>3, BlockGood
  <1>5. Good(RotateLine(l))
    <2>. DEFINE left == l.op = "rol"
                s1 == r_type_inst("subu", at, 0, l.rt)
                s2 == r_type_inst(IF left THEN "srlv" ELSE "sllv", at, at, l.rs)
                s3 == r_type_inst(IF left THEN "sllv" ELSE "srlv", r, l.rt, l.rs)
                t1 == r_sh_type_inst(IF left THEN "srl" ELSE "sll", at, l.rs, -l.imm)
                t2 == r_sh_type_inst(IF left THEN "sll" ELSE "srl", r, l.rs, l.imm)
                or == r_type_inst("or", r, r, at)
    <2>1. Block(s1) /\ Block(s2) /\ Block(s3) /\ Block(t1) /\ Block(t2) /\ Block(or)
      BY <1>1, <1>2, <1>3
    <2>2. RotateLine(l) = (IF l.form = "reg" THEN s1 \o s2 \o s3 ELSE t1 \o t2) \o or
      BY DEF RotateLine
    <2>. HIDE DEF s1, s2, s3, t1, t2, or
    <2>3. Block(s1 \o s2) /\ Block(t1 \o t2)
      BY <2>1, BlockJoin
    <2>4. Block(s1 \o s2 \o s3)
      BY <2>1, <2>3, BlockJoin
    <2>5. Block(s1 \o s2 \o s3 \o or) /\ Block(t1 \o t2 \o or)
      BY <2>1, <2>3, <2>4, BlockJoin
    <2>. QED BY <2>2, <2>5, BlockGood
  <1>. QED BY <1>4, <1>5

\* A branch over the next instructions, what is in its delay slot, and the last
\* of the instructions it may pass over.
LEMMA SkipClosed ==
  ASSUME NEW op \in {"beq", "bne", "bgez"}, NEW rs \in Registers, NEW rt \in Registers,
         NEW c, NEW d, Block(c), Block(d)
  PROVE  Closed(branch(op, rt, rs, 3) \o c \o d) /\ Closed(branch(op, rt, rs, 3) \o c)
  <1>1. op \in BranchOps /\ op \notin LinkOps
    BY DEF BranchOps, LinkOps
  <1>2. Closed(branch(op, rt, rs, 3) \o c)
    BY <1>1, BranchGood, SmallRegisters
  <1>3. Closed(d)
    BY BlockGood
  <1>. QED BY <1>2, <1>3, JoinClosed DEF Closed

LEMMA ClosedParts ==
  /\ Closed(<<>>)
  /\ \A c, d : Closed(c) /\ Closed(d) => Closed(c \o d)
  /\ \A c, d : Closed(c) /\ Good(d) => Good(c \o d)
  /\ \A c : Closed(c) => Good(c)
  /\ \A c : Block(c) => Closed(c)
  <1>1. <<>> \in Seq(Straight)
    OBVIOUS
  <1>. QED BY <1>1, StraightClosed, JoinClosed, BlockGood DEF Closed

LEMMA DivideClosed ==
  ASSUME NEW op, NEW rd \in Registers, NEW rs \in Registers, NEW rt \in Registers, NEW const
  PROVE  Closed(div_inst(op, rd, rs, rt, const))
  <1>. DEFINE skip == branch("bne", 0, rt, 3) \o nop_inst \o trap_inst
              divide == r_type_inst(IF op \in {"div", "rem"} THEN "div" ELSE "divu", 0, rs, rt)
              take == r_type_inst(IF op \in {"div", "divu"} THEN "mflo" ELSE "mfhi", rd, 0, 0)
              test == IF rd # 0 /\ ~const THEN skip ELSE <<>>
              last == IF rd = 0 THEN <<>> ELSE take
  <1>1. Closed(skip)
    BY SkipClosed, FixedBlocks, SmallRegisters
  <1>2. Closed(divide) /\ Closed(take)
    BY RTypeBlock, ClosedParts, SmallRegisters DEF IntegerOps, DivideOps, MoveFromOps
  <1>3. Closed(test) /\ Closed(last)
    BY <1>1, <1>2, ClosedParts
  <1>4. div_inst(op, rd, rs, rt, const) = test \o divide \o last
    BY DEF div_inst
  <1>. HIDE DEF test, divide, last
  <1>. QED BY <1>2, <1>3, <1>4, ClosedParts

LEMMA MultiplyClosed ==
  ASSUME NEW op, NEW rd \in Registers, NEW rs \in Registers, NEW rt \in Registers
  PROVE  Closed(mult_inst(op, rd, rs, rt))
  <1>. DEFINE trap(r1, r2) == branch("beq", r1, r2, 3) \o nop_inst \o trap_inst
              multiply == r_type_inst(IF op = "mulou" THEN "multu" ELSE "mult", 0, rs, rt)
              mfhi == r_type_inst("mfhi", at, 0, 0)
              mflo == r_type_inst("mflo", rd, 0, 0)
              sra == r_sh_type_inst("sra", rd, rd, WordBits - 1)
              test == IF op = "mulou" THEN trap(0, at) ELSE mflo \o sra \o trap(rd, at)
  <1>1. Closed(trap(0, at)) /\ Closed(trap(rd, at))
    BY SkipClosed, FixedBlocks, SmallRegisters
  <1>2. Closed(multiply) /\ Closed(mfhi) /\ Closed(mflo)
    BY RTypeBlock, ClosedParts, SmallRegisters DEF IntegerOps, MultiplyOps, MoveFromOps
  <1>3. Closed(sra)
    <2>1. WordBits - 1 \in Int
      BY WidthOK DEF WordBits
    <2>. QED BY <2>1, ShiftBlock, ClosedParts
  <1>4. Closed(test)
    <2>. DEFINE t == trap(rd, at)
                z == trap(0, at)
    <2>. HIDE DEF t, z, mflo, sra
    <2>1. Closed(mflo \o sra) /\ Closed(t) /\ Closed(z)
      BY <1>1, <1>2, <1>3, ClosedParts DEF t, z
    <2>2. Closed(mflo \o sra \o t)
      BY <2>1, ClosedParts
    <2>. QED BY <2>1, <2>2 DEF t, z
  <1>5. mult_inst(op, rd, rs, rt) =
          multiply \o (IF rd = 0 THEN <<>> ELSE mfhi \o test \o mflo)
    BY DEF mult_inst
  <1>. HIDE DEF multiply, mfhi, mflo, test
  <1>6. Closed(mfhi \o test \o mflo)
    BY <1>2, <1>4, ClosedParts
  <1>. QED BY <1>2, <1>5, <1>6, ClosedParts

LEMMA MultiplyDivideGood ==
  ASSUME NEW l, IntegerLine(l)
  PROVE  /\ Good(DivLine(l)) /\ Good(MulLine(l))
         /\ l.op \in HardwareLines => Good(HardwareLine(l))
  <1>. DEFINE ori == i_type_inst("ori", at, 0, Immediate(l))
  <1>0. l.rd \in Registers /\ l.rs \in Registers /\ l.rt \in Registers
        /\ 0 \in Registers /\ at \in Registers
    BY SmallRegisters DEF IntegerLine
  <1>1. Closed(ori) /\ Block(ori)
    BY InRegisterBlock, ClosedParts
  <1>2. Good(DivLine(l))
    <2>. DEFINE d1 == div_inst(l.op, l.rd, l.rs, l.rt, FALSE)
                d2 == div_inst(l.op, l.rd, l.rs, at, TRUE)
    <2>1. Closed(d1) /\ Closed(d2)
      BY <1>0, DivideClosed
    <2>2. DivLine(l) = IF l.form = "reg" THEN d1 ELSE ori \o d2
      BY DEF DivLine
    <2>. HIDE DEF d1, d2, ori
    <2>. QED BY <1>1, <2>1, <2>2, ClosedParts
  <1>3. Good(MulLine(l))
    <2>. DEFINE m1 == mult_inst(l.op, l.rd, l.rs, l.rt)
                m2 == mult_inst(l.op, l.rd, l.rs, at)
                zero == i_type_inst("ori", l.rd, 0, Immediate(l))
    <2>1. Closed(m1) /\ Closed(m2)
      BY <1>0, MultiplyClosed
    <2>2. Closed(zero)
      BY <1>0, IntegerImmediate, LineExprs, ClosedParts DEF IntegerLine, Logical
    <2>3. MulLine(l) = IF l.form = "reg" THEN m1
                       ELSE IF is_zero_imm(Immediate(l)) THEN zero ELSE ori \o m2
      BY DEF MulLine
    <2>. HIDE DEF m1, m2, ori, zero
    <2>. QED BY <1>1, <2>1, <2>2, <2>3, ClosedParts
  <1>4. ASSUME l.op \in HardwareLines PROVE Good(HardwareLine(l))
    <2>1. l.op \in {"div2", "divu2"} \/ l.op \in IntegerOps
      BY <1>4 DEF HardwareLines, IntegerOps
    <2>2. \A op \in IntegerOps, d \in Registers, y \in Registers : Block(r_type_inst(op, d, l.rs, y))
      BY <1>0, RTypeBlock
    <2>3. "div" \in IntegerOps /\ "divu" \in IntegerOps /\ "mul" \in IntegerOps
      BY DEF IntegerOps, DivideOps, MultiplyOps
    <2>4. Block(HardwareLine(l))
      BY <1>0, <1>1, <2>1, <2>2, <2>3, BlockJoin DEF HardwareLine
    <2>. QED BY <2>4, BlockGood
  <1>. QED BY <1>2, <1>3, <1>4

LEMMA SetClosed ==
  ASSUME NEW op, NEW rd \in Registers, NEW rs \in Registers, NEW rt \in Registers
  PROVE  /\ Closed(set_le_inst(op, rd, rs, rt)) /\ Closed(set_ge_inst(op, rd, rs, rt))
         /\ Closed(set_gt_inst(op, rd, rs, rt)) /\ Closed(set_eq_inst(op, rd, rs, rt))
  <1>1. \A n \in {0, 1} : Block(i_type_inst("ori", rd, 0, const_imm_expr(n)))
    <2>. TAKE n \in {0, 1}
    <2>1. Signed(Low(n)) \in Int
      BY LowType, WordBounds
    <2>2. const_imm_expr(n) \in Exprs
      BY <2>1 DEF const_imm_expr, Exprs
    <2>. QED BY <2>2, IntegerImmediate, SmallRegisters DEF Logical
  <1>2. \A less \in {"slt", "sltu"}, x \in Registers, y \in Registers : Block(r_type_inst(less, rd, x, y))
    BY RTypeBlock DEF IntegerOps, SetLessOps
  <1>3. Closed(branch("beq", 0, 0, 3) \o nop_inst)
    BY SkipClosed, FixedBlocks, SmallRegisters
  <1>4. ASSUME NEW less \in {"slt", "sltu"}, NEW x \in Registers, NEW y \in Registers
        PROVE  Closed(set_or_equal(less, rd, rs, rt, x, y))
    <2>. DEFINE bne == branch("bne", rs, rt, 3)
                ori == i_type_inst("ori", rd, 0, const_imm_expr(1))
                beq == branch("beq", 0, 0, 3)
                set == r_type_inst(less, rd, x, y)
    <2>1. Closed(bne \o ori) /\ Block(set)
      BY <1>1, <1>2, SkipClosed
    <2>2. set_or_equal(less, rd, rs, rt, x, y) = bne \o ori \o beq \o nop_inst \o set
      BY DEF set_or_equal
    <2>3. Good(beq) /\ Block(nop_inst)
      BY BranchGood, FixedBlocks, SmallRegisters DEF BranchOps, LinkOps
    <2>. HIDE DEF bne, ori, beq, set
    <2>4. Good(bne \o ori \o beq)
      BY <2>1, <2>3, ClosedParts
    <2>5. Closed(bne \o ori \o beq \o nop_inst)
      BY <2>3, <2>4, JoinStraight DEF Block
    <2>. QED BY <2>1, <2>2, <2>5, ClosedParts
  <1>5. Closed(set_eq_inst(op, rd, rs, rt))
    <2>. DEFINE one == IF op = "seq" THEN 1 ELSE 0
                bne == branch("beq", rs, rt, 3)
                ori == i_type_inst("ori", rd, 0, const_imm_expr(1 - one))
                beq == branch("beq", 0, 0, 3)
                set == i_type_inst("ori", rd, 0, const_imm_expr(one))
    <2>0. one \in {0, 1} /\ 1 - one \in {0, 1}
      OBVIOUS
    <2>1. Closed(bne \o ori) /\ Block(set)
      BY <1>1, <2>0, SkipClosed
    <2>2. set_eq_inst(op, rd, rs, rt) = bne \o ori \o beq \o nop_inst \o set
      BY DEF set_eq_inst
    <2>3. Good(beq) /\ Block(nop_inst)
      BY BranchGood, FixedBlocks, SmallRegisters DEF BranchOps, LinkOps
    <2>. HIDE DEF bne, ori, beq, set
    <2>4. Good(bne \o ori \o beq)
      BY <2>1, <2>3, ClosedParts
    <2>5. Closed(bne \o ori \o beq \o nop_inst)
      BY <2>3, <2>4, JoinStraight DEF Block
    <2>. QED BY <2>1, <2>2, <2>5, ClosedParts
  <1>. QED BY <1>2, <1>4, <1>5, ClosedParts DEF set_le_inst, set_ge_inst, set_gt_inst

LEMMA SetGood ==
  ASSUME NEW l, IntegerLine(l), l.op \in SetLines
  PROVE  Good(SetLine(l))
  <1>. DEFINE rt == Second(l)
  <1>1. rt \in Registers /\ l.rd \in Registers /\ l.rs \in Registers /\ Closed(InRegister(l))
    BY InRegisterBlock, ClosedParts DEF IntegerLine
  <1>2. /\ Closed(set_le_inst(l.op, l.rd, l.rs, rt)) /\ Closed(set_ge_inst(l.op, l.rd, l.rs, rt))
        /\ Closed(set_gt_inst(l.op, l.rd, l.rs, rt)) /\ Closed(set_eq_inst(l.op, l.rd, l.rs, rt))
    BY <1>1, SetClosed
  <1>3. \/ l.op \in {"sle", "sleu"} \/ l.op \in {"sgt", "sgtu"}
        \/ l.op \in {"sge", "sgeu"} \/ l.op \in {"seq", "sne"}
    BY DEF SetLines
  <1>. DEFINE sets ==
                CASE l.op \in {"sle", "sleu"} -> set_le_inst(l.op, l.rd, l.rs, rt)
                  [] l.op \in {"sgt", "sgtu"} -> set_gt_inst(l.op, l.rd, l.rs, rt)
                  [] l.op \in {"sge", "sgeu"} -> set_ge_inst(l.op, l.rd, l.rs, rt)
                  [] l.op \in {"seq", "sne"}  -> set_eq_inst(l.op, l.rd, l.rs, rt)
  <1>. HIDE DEF rt
  <1>4. Closed(sets)
    BY <1>2, <1>3, Zenon
  <1>5. SetLine(l) = InRegister(l) \o sets
    BY Zenon DEF SetLine, rt
  <1>. HIDE DEF sets
  <1>. QED BY <1>1, <1>4, <1>5, ClosedParts

LEMMA BranchesGood ==
  ASSUME NEW l, IntegerLine(l)
  PROVE  /\ Good(BranchGreater(l)) /\ Good(BranchLess(l)) /\ Good(BranchLessEqual(l))
  <1>0. l.rd \in Registers /\ l.rs \in Registers /\ l.rt \in Registers /\ l.imm \in Int
        /\ 0 \in Registers /\ at \in Registers
    BY SmallRegisters DEF IntegerLine
  <1>1. \A op \in {"beq", "bne"}, x \in Registers, y \in Registers, n \in {3, Far} :
          Good(branch(op, x, y, n))
    BY BranchGood, SmallRegisters DEF BranchOps, LinkOps
  <1>. DEFINE ori == i_type_inst("ori", at, 0, Immediate(l))
              slti == i_type_inst("slti", at, l.rs, Plus1(l))
              less == r_type_inst(Less(l), at, l.rt, l.rs)
              sltu == r_type_inst("sltu", at, l.rs, at)
              beq == branch("beq", 0, at, Far)
              bne == branch("bne", 0, at, Far)
              equal == branch("beq", l.rs, at, 3)
              equalFar == branch("beq", l.rs, at, Far)
  <1>2. Good(beq) /\ Good(bne) /\ Good(equal) /\ Good(equalFar)
    BY <1>0, <1>1
  <1>3. Block(ori)
    BY InRegisterBlock
  <1>4. Block(slti)
    <2>1. Plus1(l) \in Exprs
      BY LineExprs DEF IntegerLine, Plus1
    <2>. QED BY <1>0, <2>1, IntegerImmediate DEF Arithmetic
  <1>5. Block(less) /\ Block(sltu)
    BY <1>0, RTypeBlock DEF Less, IntegerOps, SetLessOps
  <1>6. Good(BranchLess(l))
    <2>. DEFINE test == IF l.form = "reg" THEN r_type_inst(Less(l), at, l.rs, l.rt)
                        ELSE i_type_inst(op_to_imm_op(Less(l)), at, l.rs, Immediate(l))
    <2>1. Block(r_type_inst(Less(l), at, l.rs, l.rt))
      BY <1>0, RTypeBlock DEF Less, IntegerOps, SetLessOps
    <2>2. op_to_imm_op(Less(l)) \in Arithmetic
      BY DEF op_to_imm_op, Less, Arithmetic
    <2>3. Block(i_type_inst(op_to_imm_op(Less(l)), at, l.rs, Immediate(l)))
      BY <1>0, <2>2, IntegerImmediate, LineExprs DEF IntegerLine
    <2>4. Closed(test)
      BY <2>1, <2>3, ClosedParts
    <2>5. BranchLess(l) = test \o (IF l.op \in {"bge", "bgeu"} THEN beq ELSE bne)
      BY DEF BranchLess
    <2>. HIDE DEF test, beq, bne
    <2>. QED BY <1>2, <2>4, <2>5, ClosedParts
  <1>7. Good(BranchGreater(l)) /\ Good(BranchLessEqual(l))
    <2>0. /\ BranchGreater(l) = CASE l.form = "reg" -> less \o bne
                                  [] l.op = "bgt"   -> slti \o beq
                                  [] OTHER          -> ori \o equal \o sltu \o beq
          /\ BranchLessEqual(l) = CASE l.form = "reg" -> less \o beq
                                    [] l.op = "ble"   -> slti \o bne
                                    [] OTHER          -> ori \o equalFar \o sltu \o bne
      BY Zenon DEF BranchGreater, BranchLessEqual
    <2>. HIDE DEF ori, slti, less, sltu, beq, bne, equal, equalFar
    <2>1. Good(less \o bne) /\ Good(less \o beq) /\ Good(slti \o beq) /\ Good(slti \o bne)
      BY <1>2, <1>4, <1>5, ClosedParts
    <2>2. Good(ori \o equal) /\ Good(ori \o equalFar)
      BY <1>2, <1>3, ClosedParts
    <2>3. Closed(ori \o equal \o sltu) /\ Closed(ori \o equalFar \o sltu)
      BY <1>5, <2>2, JoinStraight DEF Block
    <2>4. Good(ori \o equal \o sltu \o beq) /\ Good(ori \o equalFar \o sltu \o bne)
      BY <1>2, <2>3, ClosedParts
    <2>. QED BY <2>0, <2>1, <2>4, Zenon
  <1>. QED BY <1>6, <1>7

LEMMA LinkingOK ==
  ASSUME NEW op \in LinkOps, NEW rd \in Int, NEW rs \in Registers, NEW rt \in Int, NEW imm \in Nat
  PROVE  CodeOK(Instr(op, rd, rs, rt, imm, "none"))
  <1>. DEFINE i == [op |-> op, rd |-> rd, rs |-> rs, rt |-> rt, imm |-> imm, bits |-> "none"]
  <1>1. op \in BranchOps
    BY DEF BranchOps
  <1>2. i \in Linking
    BY <1>1, SmallRegisters DEF Linking, Turning, Records
  <1>. QED BY <1>2 DEF CodeOK, Instr

LEMMA TurnGood ==
  ASSUME NEW op \in BranchOps, op \notin LinkOps, NEW rd \in Int, NEW rs \in Registers,
         NEW rt \in Int, NEW imm \in Nat
  PROVE  Good(Instr(op, rd, rs, rt, imm, "none"))
  <1>. DEFINE i == [op |-> op, rd |-> rd, rs |-> rs, rt |-> rt, imm |-> imm, bits |-> "none"]
  <1>1. i \in Turns
    BY SmallRegisters DEF Turns, Turning, Records
  <1>2. Instr(op, rd, rs, rt, imm, "none") = <<i>>
    BY DEF Instr
  <1>. HIDE DEF i
  <1>3. Good(<<i>>)
    BY <1>1 DEF Good
  <1>. QED BY <1>2, <1>3

LEMMA BranchOK ==
  ASSUME NEW op \in BranchOps, NEW rs \in Registers, NEW rt \in Int, NEW n \in {3, Far}
  PROVE  CodeOK(branch(op, rt, rs, n))
  <1>. DEFINE imm == IF build.delayed_branches THEN n - 1 ELSE n
  <1>1. imm \in Nat
    BY DEF Far
  <1>2. branch(op, rt, rs, n) = Instr(op, 0, rs, rt, imm, "none")
    BY DEF branch
  <1>. HIDE DEF imm
  <1>. QED BY <1>1, <1>2, LinkingOK, TurnGood DEF CodeOK

LEMMA BranchLineOK ==
  ASSUME NEW l, IntegerLine(l), l.op \in BranchLines
  PROVE  CodeOK(BranchLine(l))
  <1>0. l.rs \in Registers /\ l.rt \in Registers /\ 0 \in Registers /\ Registers \subseteq Int
        /\ Second(l) \in Registers /\ Closed(InRegister(l))
    BY SmallRegisters, InRegisterBlock, ClosedParts DEF IntegerLine
  <1>1. /\ l.op \in BranchOps \/ l.op \in {"beqz", "bnez", "b", "bal"}
        /\ {"beq", "bne", "bgez", "bgezal", "beql", "bnel"} \subseteq BranchOps
        /\ {"beq", "bne", "beql", "bnel"} \cap LinkOps = {}
    BY DEF BranchLines, BranchOps, Likely, LinkOps
  <1>. DEFINE wide == l.op \in {"beq", "beql", "bne", "bnel"}
              test == branch(l.op, l.rs, Second(l), Far)
  <1>2. wide => Good(test)
    BY <1>0, <1>1, BranchGood
  <1>3. wide => CodeOK(InRegister(l) \o test)
    <2>. HIDE DEF test
    <2>. QED BY <1>0, <1>2, ClosedParts DEF CodeOK
  <1>4. wide => CodeOK(branch(l.op, l.rt, l.rs, Far))
    BY <1>0, <1>1, BranchOK
  <1>5. /\ CodeOK(branch("beq", 0, l.rs, Far)) /\ CodeOK(branch("bne", 0, l.rs, Far))
        /\ CodeOK(branch("bgez", 0, 0, Far)) /\ CodeOK(branch("bgezal", 0, 0, Far))
        /\ l.op \in BranchOps => CodeOK(branch(l.op, 0, l.rs, Far))
    BY <1>0, <1>1, BranchOK
  <1>. HIDE DEF wide
  <1>. QED BY <1>1, <1>3, <1>4, <1>5, Zenon DEF BranchLine, wide

LEMMA JumpLineOK ==
  ASSUME NEW l, IntegerLine(l), l.op \in JumpOps
  PROVE  CodeOK(JumpLine(l))
  <1>1. l.rd \in Int /\ l.rs \in Registers /\ ra \in Int /\ 0 \in Registers
    BY SmallRegisters DEF IntegerLine
  <1>2. {"jal", "jalr"} \subseteq LinkOps /\ {"j", "jr"} \subseteq BranchOps
        /\ "j" \notin LinkOps /\ "jr" \notin LinkOps /\ Far \in Nat
    BY DEF LinkOps, BranchOps, JumpOps, Far
  <1>3. /\ Good(Instr("j", 0, 0, 0, Far, "none")) /\ Good(Instr("jr", 0, l.rs, 0, 0, "none"))
        /\ CodeOK(Instr("jal", 0, 0, 0, Far, "none"))
        /\ \A rd \in Int : CodeOK(Instr("jalr", rd, l.rs, 0, 0, "none"))
    BY <1>1, <1>2, TurnGood, LinkingOK
  <1>. QED BY <1>1, <1>3 DEF JumpLine, r_type_inst, CodeOK

LEMMA MoveLineGood ==
  ASSUME NEW l, IntegerLine(l), l.op \in MoveLines
  PROVE  Good(MoveLine(l))
  <1>0. l.rd \in Registers /\ l.rs \in Registers /\ l.rt \in Registers /\ 0 \in Registers
    BY SmallRegisters DEF IntegerLine
  <1>1. \A op \in IntegerOps : \A d \in Registers, x \in Registers, y \in Registers :
          Block(r_type_inst(op, d, x, y))
    BY RTypeBlock
  <1>2. /\ {"addu", "sub", "subu", "nor"} \subseteq IntegerOps
        /\ LeadingOps \subseteq IntegerOps /\ MoveIfOps \subseteq IntegerOps
        /\ MoveFromOps \subseteq IntegerOps /\ MoveToOps \subseteq IntegerOps
    BY DEF IntegerOps, AddOps, SubOps, OrOps
  <1>. DEFINE move == IF l.rd # l.rs THEN r_type_inst("addu", l.rd, 0, l.rs) ELSE <<>>
              skip == branch("bgez", 0, l.rs, 3)
              sub == r_type_inst("sub", l.rd, 0, l.rs)
  <1>3. Good(move \o skip \o nop_inst \o sub)
    <2>1. Closed(move) /\ Good(skip) /\ Block(nop_inst) /\ Block(sub)
      BY <1>0, <1>1, <1>2, ClosedParts, BranchGood, FixedBlocks, SmallRegisters
         DEF BranchOps, LinkOps
    <2>. HIDE DEF move, skip, sub
    <2>2. Good(move \o skip)
      BY <2>1, ClosedParts
    <2>3. Closed(move \o skip \o nop_inst)
      BY <2>1, <2>2, JoinStraight DEF Block
    <2>. QED BY <2>1, <2>3, ClosedParts
  <1>4. /\ Good(sub) /\ Good(r_type_inst("subu", l.rd, 0, l.rs))
        /\ Good(r_type_inst("nor", l.rd, l.rs, 0)) /\ Good(r_type_inst("addu", l.rd, 0, l.rs))
        /\ l.op \in LeadingOps => Good(r_type_inst(l.op, l.rd, l.rs, l.rd))
        /\ l.op \in MoveIfOps => Good(r_type_inst(l.op, l.rd, l.rs, l.rt))
        /\ l.op \in MoveFromOps => Good(r_type_inst(l.op, l.rd, 0, 0))
        /\ l.op \in MoveToOps => Good(r_type_inst(l.op, 0, l.rs, 0))
    BY <1>0, <1>1, <1>2, BlockGood
  <1>5. l.op \in {"abs", "neg", "negu", "not", "move"} \/ l.op \in LeadingOps
        \/ l.op \in MoveIfOps \/ l.op \in MoveFromOps \/ l.op \in MoveToOps
    BY DEF MoveLines
  <1>6. \/ l.op = "abs" \/ l.op = "neg" \/ l.op = "negu" \/ l.op = "not" \/ l.op = "move"
        \/ l.op \in LeadingOps \/ l.op \in MoveIfOps \/ l.op \in MoveFromOps \/ l.op \in MoveToOps
    BY <1>5
  <1>. QED BY <1>3, <1>4, <1>6, ZenonT(60) DEF MoveLine

-----------------------------------------------------------------------------
(***************************************************************************)
(* The lines on floating-point registers, and all of them.                 *)
(***************************************************************************)
LEMMA FloatBlock ==
  ASSUME NEW op \in FloatMoves \cup MoveOnOps \cup CompareOps \cup CoprocessorMoves,
         NEW rd \in Int, NEW rs \in Int, NEW rt \in Int, NEW imm \in Int,
         op \in FloatMoves => rd \in FloatRegisters,
         op \in MoveOnOps => rs \in Registers,
         op \in CoprocessorMoves => rd \in FloatRegisters /\ rt \in Registers
  PROVE  Block(Instr(op, rd, rs, rt, imm, "none"))
  <1>. DEFINE i == [op |-> op, rd |-> rd, rs |-> rs, rt |-> rt, imm |-> imm, bits |-> "none"]
  <1>1. op \in FloatOps /\ op \notin FloatLoadStore /\ op # "ldc1"
        /\ op \notin {"sll", "sra", "srl"} /\ op \notin IntegerOps
    BY DEF FloatOps, IntegerOps, AddOps, SubOps, AndOps, OrOps, XorOps, LeadingOps, SetLessOps,
       ShiftLeftOps, ShiftRightOps, MoveIfOps, TrapOps, MultiplyOps, MultiplyAddOps,
       MultiplySubOps, DivideOps, MoveFromOps, MoveToOps, LoadOps, StoreOps, FloatMoves,
       MoveOnOps, CompareOps, CoprocessorMoves, FloatLoadStore
  <1>2. i \in Records
    BY <1>1 DEF Records
  <1>3. FloatFields(i)
    BY <1>1 DEF FloatFields, FS, FT
  <1>4. i \in Straight
    BY <1>1, <1>2, <1>3 DEF Straight, Computes
  <1>. QED BY <1>4, Nonempty DEF Block, Instr

LEMMA FloatMemoryGood ==
  ASSUME NEW l, LineOK(l), l.op \in FloatMemory
  PROVE  Good(FloatMemoryLine(l))
  <1>. DEFINE op == IF l.op = "l.d" THEN "ldc1" ELSE IF l.op = "l.s" THEN "lwc1"
                    ELSE IF l.op = "s.d" THEN "sdc1" ELSE IF l.op = "s.s" THEN "swc1" ELSE l.op
  <1>1. /\ op \in FloatLoadStore /\ (op = "ldc1" => l.op \in {"ldc1", "l.d"})
        /\ l.op \in FloatLines /\ l.op \notin MoveOnOps /\ l.op \notin CompareOps
        /\ l.op \notin {"mfc1", "mfc1.d"} /\ l.op \notin FloatMoves /\ l.op \notin ConditionBranches
    BY DEF FloatMemory, FloatLoadLines, FloatStoreLines, FloatLoadStore, FloatLines, MoveOnOps,
       CompareOps, FloatMoves, ConditionBranches
  <1>2. l.rd \in FloatRegisters /\ l.rs \in Registers /\ l.imm \in Int /\ l.known \in BOOLEAN
        /\ (l.op \in {"ldc1", "l.d"} => l.rd + 1 \in FloatRegisters)
    BY <1>1 DEF LineOK, Destinations, Sources
  <1>3. Placed(op, l.rd, l.rs)
    <2>. HIDE DEF op
    <2>. QED BY <1>1, <1>2 DEF Placed, WaitOps, LoadStore
  <1>4. Immediate(l) \in Exprs
    BY <1>2, LineExprs
  <1>5. FloatMemoryLine(l) = i_type_inst(op, l.rd, l.rs, Immediate(l))
    BY DEF FloatMemoryLine
  <1>. HIDE DEF op
  <1>. QED BY <1>3, <1>4, <1>5, ImmediateBlock, BlockGood

LEMMA FloatImmediateGood ==
  ASSUME NEW l, LineOK(l), l.op \in {"li.s", "li.d"}
  PROVE  Good(FloatImmediateLine(l))
  <1>1. /\ l.op \in FloatLines /\ l.op \notin MoveOnOps /\ l.op \notin CompareOps
        /\ l.op \notin {"mfc1", "mfc1.d"} /\ l.op \notin ConditionBranches
    BY DEF FloatLines, MoveOnOps, CompareOps, ConditionBranches
  <1>2. l.rd \in FloatRegisters /\ l.imm \in Int
        /\ (l.op = "li.d" => l.rd + 1 \in FloatRegisters)
    BY <1>1 DEF LineOK, Destinations
  <1>. DEFINE put(word, r) == i_type_inst("ori", at, 0, const_imm_expr(word))
                                \o r_co_type_inst("mtc1", 0, r, at)
              first == IF build.big_endian THEN l.imm \div Word ELSE l.imm % Word
              second == IF build.big_endian THEN l.imm % Word ELSE l.imm \div Word
  <1>3. first \in Int /\ second \in Int
    <2>1. l.imm \div Word \in Int /\ l.imm % Word \in Int
      BY <1>2, Widths, DivMod
    <2>. QED BY <2>1
  <1>4. ASSUME NEW word \in Int, NEW r \in FloatRegisters PROVE Block(put(word, r))
    <2>1. const_imm_expr(word) \in Exprs
      BY LowType, WordBounds DEF const_imm_expr, Exprs
    <2>2. Block(i_type_inst("ori", at, 0, const_imm_expr(word)))
      BY <2>1, IntegerImmediate, SmallRegisters DEF Logical
    <2>3. Block(r_co_type_inst("mtc1", 0, r, at))
      <3>1. Block(Instr("mtc1", r, 0, at, 0, "none"))
        BY FloatBlock, SmallRegisters, FloatNumbers DEF CoprocessorMoves, FloatMoves, MoveOnOps
      <3>. QED BY <3>1 DEF r_co_type_inst
    <2>. QED BY <2>2, <2>3, BlockJoin
  <1>5. FloatImmediateLine(l) = IF l.op = "li.s" THEN put(l.imm, l.rd)
                                ELSE put(first, l.rd) \o put(second, l.rd + 1)
    BY DEF FloatImmediateLine
  <1>6. Block(put(l.imm, l.rd)) /\ Block(put(first, l.rd))
        /\ (l.op = "li.d" => Block(put(second, l.rd + 1)))
    <2>. HIDE DEF put, first, second
    <2>. QED BY <1>2, <1>3, <1>4
  <1>. HIDE DEF put, first, second
  <1>. QED BY <1>5, <1>6, BlockJoin, BlockGood

LEMMA CoprocessorGood ==
  ASSUME NEW l, LineOK(l), l.op \in {"mfc1", "mtc1", "mfc1.d", "mtc1.d"}
  PROVE  Good(CoprocessorLine(l))
  <1>1. /\ l.op \in FloatLines /\ l.op \notin MoveOnOps /\ l.op \notin CompareOps
        /\ l.op \notin FloatMoves /\ l.op \notin ConditionBranches
    BY DEF FloatLines, MoveOnOps, CompareOps, FloatMoves, ConditionBranches
  <1>2. /\ l.op \in {"mfc1", "mfc1.d"} => l.rd \in Registers /\ l.rs \in FloatRegisters
        /\ l.op \in {"mtc1", "mtc1.d"} => l.rd \in FloatRegisters /\ l.rs \in Registers
        /\ l.op = "mfc1.d" => l.rd + 1 \in Registers /\ l.rs + 1 \in FloatRegisters
        /\ l.op = "mtc1.d" => l.rd + 1 \in FloatRegisters /\ l.rs + 1 \in Registers
    BY <1>1 DEF LineOK, Destinations, Sources
  <1>3. \A op \in {"mfc1", "mtc1"} : \A r \in Registers, f \in FloatRegisters :
          Block(r_co_type_inst(op, 0, f, r))
    <2>1. \A op \in {"mfc1", "mtc1"} : \A r \in Registers, f \in FloatRegisters :
            Block(Instr(op, f, 0, r, 0, "none"))
      BY FloatBlock, SmallRegisters, FloatNumbers DEF CoprocessorMoves, FloatMoves, MoveOnOps
    <2>. QED BY <2>1 DEF r_co_type_inst
  <1>. DEFINE move(k) == IF l.op \in {"mfc1", "mfc1.d"}
                         THEN r_co_type_inst("mfc1", 0, l.rs + k, l.rd + k)
                         ELSE r_co_type_inst("mtc1", 0, l.rd + k, l.rs + k)
              two == IF l.op \in {"mfc1.d", "mtc1.d"} THEN move(1) ELSE <<>>
  <1>4. l.rd \in Int /\ l.rs \in Int
    BY <1>2, SmallRegisters, FloatNumbers
  <1>5. l.rd + 0 = l.rd /\ l.rs + 0 = l.rs
    BY <1>4
  <1>6. Block(move(0)) /\ (l.op \in {"mfc1.d", "mtc1.d"} => Block(move(1)))
    BY <1>2, <1>3, <1>5
  <1>7. CoprocessorLine(l) = move(0) \o two
    BY DEF CoprocessorLine
  <1>8. Block(move(0)) /\ (two = <<>> \/ Block(two))
    BY <1>6
  <1>. HIDE DEF move, two
  <1>. QED BY <1>7, <1>8, BlockJoin, BlockGood

LEMMA FloatLineGood ==
  ASSUME NEW l, LineOK(l), l.op \in FloatLines
  PROVE  Good(FloatLine(l))
  <1>. USE DEF LineOK
  <1>1. l.op \in FloatMemory => Good(FloatMemoryLine(l))
    BY FloatMemoryGood
  <1>2. l.op \in {"li.s", "li.d"} => Good(FloatImmediateLine(l))
    BY FloatImmediateGood
  <1>3. ASSUME l.op \in FloatMoves PROVE Good(FloatMoveLine(l))
    <2>1. /\ l.op \notin MoveOnOps /\ l.op \notin CompareOps /\ l.op \notin CoprocessorMoves
          /\ l.op \notin {"mfc1", "mfc1.d"} /\ l.op \notin ConditionBranches
      BY <1>3 DEF FloatMoves, MoveOnOps, CompareOps, CoprocessorMoves, ConditionBranches
    <2>. DEFINE ft == IF l.op \in {"movn.s", "movn.d", "movz.s", "movz.d"} THEN l.rt
                      ELSE IF l.op \in {"movf.s", "movf.d", "movt.s", "movt.d"}
                      THEN cc_to_rt(l.imm, 0, 0) ELSE 0
    <2>2. l.rd \in FloatRegisters /\ l.rs \in FloatRegisters /\ l.rt \in Int /\ l.imm \in Int
      BY <1>3, <2>1, SmallRegisters DEF Destinations, Sources
    <2>5. ft \in Int
      BY <2>2 DEF cc_to_rt
    <2>3. l.rd \in Int /\ l.rs \in Int
      BY <2>2, FloatNumbers
    <2>4. FloatMoveLine(l) = Instr(l.op, l.rs, 0, ft, l.rd, "none")
      BY DEF FloatMoveLine, r_co_type_inst
    <2>. HIDE DEF ft
    <2>. QED BY <1>3, <2>1, <2>2, <2>3, <2>4, <2>5, FloatBlock, BlockGood
  <1>4. ASSUME l.op \in MoveOnOps PROVE Good(r_type_inst(l.op, l.rd, l.rs, 4 * (l.imm % 8)))
    <2>1. l.op \notin FloatMoves /\ l.op \notin CompareOps /\ l.op \notin CoprocessorMoves
          /\ l.op \notin {"mfc1", "mfc1.d"}
      BY <1>4 DEF FloatMoves, MoveOnOps, CompareOps, CoprocessorMoves
    <2>2. l.rd \in Registers /\ l.rs \in Registers /\ 4 * (l.imm % 8) \in Int
      BY <1>4, <2>1 DEF Destinations, Sources
    <2>3. l.rd \in Int /\ l.rs \in Int
      BY <2>2, SmallRegisters
    <2>. QED BY <1>4, <2>1, <2>2, <2>3, FloatBlock, BlockGood DEF r_type_inst
  <1>5. ASSUME l.op \in CompareOps
        PROVE  Good(r_cond_type_inst(l.op, l.form, l.rs, l.rt, l.imm))
    <2>1. l.op \notin FloatMoves /\ l.op \notin MoveOnOps /\ l.op \notin CoprocessorMoves
      BY <1>5 DEF FloatMoves, MoveOnOps, CompareOps, CoprocessorMoves
    <2>2. l.rs \in FloatRegisters /\ l.rt \in FloatRegisters /\ l.imm \in Int
      BY <1>5 DEF Sources
    <2>4. l.rs \in Int /\ l.rt \in Int
      BY <2>2, FloatNumbers
    <2>5. 4 * l.imm \in Int
      BY <2>2
    <2>3. COND(l.form) \in Int
      BY <1>5 DEF COND, CONDs, COND_UN, COND_EQ, COND_LT, COND_IN
    <2>. QED BY <1>5, <2>1, <2>3, <2>4, <2>5, FloatBlock, BlockGood DEF r_cond_type_inst
  <1>6. ASSUME l.op \in ConditionBranches PROVE Good(ConditionBranchLine(l))
    <2>1. l.op \in BranchOps /\ l.op \notin LinkOps
      BY <1>6 DEF ConditionBranches, BranchOps, LinkOps
    <2>2. \A nd, tf \in {0, 1} : cc_to_rt(l.imm, nd, tf) \in Int
      BY DEF cc_to_rt
    <2>. QED BY <2>1, <2>2, BranchGood, SmallRegisters DEF ConditionBranchLine
  <1>7. l.op \in {"mfc1", "mtc1", "mfc1.d", "mtc1.d"} => Good(CoprocessorLine(l))
    BY CoprocessorGood
  <1>8. \/ l.op \in FloatMemory \/ l.op \in {"li.s", "li.d"} \/ l.op \in FloatMoves
        \/ l.op \in MoveOnOps \/ l.op \in CompareOps \/ l.op \in ConditionBranches
        \/ l.op \in {"mfc1", "mtc1", "mfc1.d", "mtc1.d"}
    BY DEF FloatLines
  <1>. QED BY <1>1, <1>2, <1>3, <1>4, <1>5, <1>6, <1>7, <1>8, ZenonT(60) DEF FloatLine

LEMMA AssembledOK ==
  ASSUME NEW l, LineOK(l)
  PROVE  CodeOK(ASM_CODE(l))
  <1>1. l.op \in FloatLines => CodeOK(FloatLine(l))
    BY FloatLineGood DEF CodeOK
  <1>2. ASSUME l.op \notin FloatLines PROVE IntegerLine(l)
    <2>1. l.op \notin FloatMoves /\ l.op \notin CompareOps /\ l.op \notin {"mfc1", "mfc1.d"}
      BY <1>2 DEF FloatLines
    <2>. QED BY <1>2, <2>1 DEF LineOK, IntegerLine, Sources, Destinations
  <1>3. CASE l.op \in FloatLines
    BY <1>1, <1>3 DEF ASM_CODE
  <1>4. CASE l.op \in LoadLines \cup StoreLines /\ l.op \notin FloatLines
    <2>1. /\ l.op \in LoadOps \cup {"ld"} => CodeOK(LoadLine(l))
          /\ l.op \in StoreOps \cup {"sd"} => CodeOK(StoreLine(l))
      BY <1>2, <1>4, MemoryGood DEF LineOK, CodeOK
    <2>2. CodeOK(UnalignedLoad(l)) /\ CodeOK(UnalignedStore(l))
      BY <1>2, <1>4, UnalignedGood DEF CodeOK
    <2>3. \/ l.op \in LoadOps \cup {"ld"} \/ l.op \in StoreOps \cup {"sd"}
          \/ l.op \in {"ulw", "ulh", "ulhu"} \/ l.op \in {"usw", "ush"}
      BY <1>4 DEF LoadLines, StoreLines, LoadOps, StoreOps
    <2>4. CodeOK(MemoryLine(l))
      BY <2>1, <2>2, <2>3, ZenonT(60) DEF MemoryLine
    <2>. QED BY <1>4, <2>4 DEF ASM_CODE
  <1>5. CASE l.op \in Branches \cup TrapOps /\ l.op \notin LoadLines \cup StoreLines \cup FloatLines
    <2>0. IntegerLine(l)
      BY <1>2, <1>5
    <2>1. CodeOK(BranchGreater(l)) /\ CodeOK(BranchLess(l)) /\ CodeOK(BranchLessEqual(l))
      BY <2>0, BranchesGood DEF CodeOK
    <2>2. /\ l.op \in BranchLines => CodeOK(BranchLine(l))
          /\ l.op \in JumpOps => CodeOK(JumpLine(l))
          /\ l.op \in TrapOps => CodeOK(TrapLine(l))
      BY <2>0, BinaryGood, BranchLineOK, JumpLineOK DEF LineOK, CodeOK
    <2>3. \/ l.op \in {"bgt", "bgtu"} \/ l.op \in {"bge", "bgeu", "blt", "bltu"}
          \/ l.op \in {"ble", "bleu"} \/ l.op \in JumpOps \/ l.op \in TrapOps
          \/ l.op \in BranchLines
      BY <1>5 DEF Branches, BranchLines, JumpOps, BranchOps, Likely, LinkOps, ConditionBranches,
         FloatLines
    <2>4. CodeOK(ControlLine(l))
      BY <2>1, <2>2, <2>3, ZenonT(60) DEF ControlLine
    <2>. QED BY <1>5, <2>4 DEF ASM_CODE
  <1>6. CASE /\ l.op \notin Branches \cup TrapOps
             /\ l.op \notin LoadLines \cup StoreLines \cup FloatLines
    <2>0. IntegerLine(l)
      BY <1>2, <1>6
    <2>1. /\ CodeOK(LoadImmediateLine(l)) /\ CodeOK(RotateLine(l))
          /\ CodeOK(DivLine(l)) /\ CodeOK(MulLine(l))
      BY <2>0, LoadImmediateGood, ShiftGood, MultiplyDivideGood DEF CodeOK
    <2>2. /\ l.op \in BinaryLines => CodeOK(BinaryLine(l))
          /\ l.op \in SubOps => CodeOK(SubLine(l))
          /\ l.op = "nor" => CodeOK(NorLine(l))
          /\ l.op \in ShiftLines => CodeOK(ShiftLine(l))
          /\ l.op \in HardwareLines => CodeOK(HardwareLine(l))
          /\ l.op \in SetLines => CodeOK(SetLine(l))
          /\ l.op \in MoveLines => CodeOK(MoveLine(l))
      BY <2>0, BinaryGood, ShiftGood, MultiplyDivideGood, SetGood, MoveLineGood DEF LineOK, CodeOK
    <2>3. \/ l.op \in {"li", "la", "lui"} \/ l.op \in BinaryLines \/ l.op \in ShiftLines
          \/ l.op = "nor" \/ l.op \in SubOps \/ l.op \in {"div", "divu", "rem", "remu"}
          \/ l.op \in {"mulo", "mulou"} \/ l.op \in HardwareLines
          \/ l.op \in {"rol", "ror"} \/ l.op \in SetLines \/ l.op \in MoveLines
      BY <1>6 DEF LineOK, LineOps
    <2>4. CodeOK(ComputeLine(l))
      BY <2>1, <2>2, <2>3, ZenonT(60) DEF ComputeLine
    <2>. QED BY <1>6, <2>4 DEF ASM_CODE
  <1>. QED BY <1>3, <1>4, <1>5, <1>6

-----------------------------------------------------------------------------
(***************************************************************************)
(* Defining the symbol keeps the shape of the code, and the machine keeps  *)
(* its type.                                                               *)
(***************************************************************************)
LEMMA PatchedOK ==
  ASSUME NEW c, CodeOK(c), NEW v \in [DOMAIN c -> Int]
  PROVE  CodeOK([k \in DOMAIN c |->
                   IF c[k].bits = "none" THEN c[k]
                   ELSE [c[k] EXCEPT !.imm = v[k], !.bits = "none"]])
  <1>. DEFINE new(k) == IF c[k].bits = "none" THEN c[k]
                        ELSE [c[k] EXCEPT !.imm = v[k], !.bits = "none"]
              d == [k \in DOMAIN c |-> new(k)]
  <1>1. ASSUME NEW i \in Straight, NEW n \in Int
        PROVE  [i EXCEPT !.imm = n, !.bits = "none"] \in Records
    BY DEF Straight, Records
  <1>2. ASSUME NEW i \in Straight, NEW n \in Int, i.bits # "none"
        PROVE  [i EXCEPT !.imm = n, !.bits = "none"] \in Straight
    <2>. DEFINE j == [i EXCEPT !.imm = n, !.bits = "none"]
    <2>0. i \in Records /\ (Computes(i) \/ i.op = "fatal_error") /\ i.op \in WaitOps
      BY <1>2 DEF Straight
    <2>1. j \in Records /\ j.op = i.op /\ j.rd = i.rd /\ j.rs = i.rs /\ j.rt = i.rt /\ j.imm = n
          /\ j.bits = "none"
      BY <1>1, <2>0 DEF Records
    <2>. HIDE DEF j
    <2>2. j.op \notin {"sll", "sra", "srl"}
      BY <2>0, <2>1, WaitIsPlaced
    <2>3. i.op # "fatal_error" => Computes(j)
      BY <2>0, <2>1, <2>2 DEF Computes, IntegerFields, FloatFields, FS, FT
    <2>4. j \in Straight
      BY <2>0, <2>1, <2>3 DEF Straight
    <2>. QED BY <2>4 DEF j
  <1>3. CASE Good(c)
    <2>. DEFINE S == Straight \cup Turns
    <2>1. c \in Seq(S) /\ DOMAIN c = 1 .. Len(c) /\ Len(c) \in Nat
      BY <1>3 DEF Good
    <2>2. \A k \in 1 .. Len(c) : c[k] \in Straight \/ c[k] \in Turns
      BY <2>1
    <2>3. \A i \in Turns : i.bits = "none"
      BY DEF Turns, Turning
    <2>4. ASSUME NEW k \in 1 .. Len(c)
          PROVE  /\ c[k] \in Straight => new(k) \in Straight
                 /\ c[k] \in Turns => new(k) = c[k]
      BY <1>2, <2>1, <2>3
    <2>. HIDE DEF new
    <2>5. d \in [1 .. Len(c) -> S] /\ \A k \in 1 .. Len(c) : d[k] = new(k)
      BY <2>1, <2>2, <2>4
    <2>. HIDE DEF d, S
    <2>6. d \in Seq(S) /\ Len(d) = Len(c) /\ \A k \in 1 .. Len(c) : d[k] = new(k)
      BY <2>1, <2>5
    <2>7. ASSUME NEW k \in 1 .. Len(d) - 1, d[k] \in Turns PROVE d[k + 1] \in Straight
      <3>1. k \in 1 .. Len(c) /\ k + 1 \in 1 .. Len(c) /\ k \in 1 .. Len(c) - 1
        BY <2>1, <2>6
      <3>2. c[k] \in Turns
        BY <2>2, <2>4, <2>6, <2>7, <3>1, Apart
      <3>3. c[k + 1] \in Straight
        BY <1>3, <3>1, <3>2 DEF Good
      <3>. QED BY <2>4, <2>6, <3>1, <3>3
    <2>8. Good(d)
      BY <2>6, <2>7 DEF Good, S
    <2>. QED BY <2>8 DEF CodeOK, d, new
  <1>4. CASE \E i \in Linking : c = <<i>>
    <2>1. PICK i \in Linking : c = <<i>>
      BY <1>4
    <2>2. i.bits = "none" /\ DOMAIN c = {1} /\ c[1] = i
      BY <2>1 DEF Linking, Turning
    <2>3. d = <<i>>
      BY <2>1, <2>2
    <2>. QED BY <2>1, <2>3 DEF CodeOK
  <1>. QED BY <1>3, <1>4 DEF CodeOK

LEMMA CarriesFinite ==
  ASSUME NEW c, NEW k \in DOMAIN c, Len(c) \in Nat, DOMAIN c = 1 .. Len(c)
  PROVE  Cardinality(Carries(c, k)) \in Nat
  <1>1. IsFiniteSet(k + 1 .. Len(c))
    BY FS_Interval
  <1>2. Carries(c, k) \subseteq k + 1 .. Len(c)
    BY DEF Carries
  <1>. QED BY <1>1, <1>2, FS_Subset, FS_CardinalityType

\* Defining the symbol keeps code well made and its operations what they are.
LEMMA PatchedType ==
  ASSUME NEW c, CodeOK(c)
  PROVE  /\ CodeOK(Patched(c)) /\ DOMAIN Patched(c) = DOMAIN c
         /\ \A k \in DOMAIN c : Patched(c)[k].op = c[k].op
  <1>. DEFINE value(k) == c[k].imm + Half * Cardinality(Carries(c, k))
              half(k) == IF c[k].bits = "upper" THEN Low(value(k)) \div Half
                         ELSE Low(value(k)) % Half
              v == [k \in DOMAIN c |-> Short(half(k))]
  <1>1. Patched(c) = [k \in DOMAIN c |->
                        IF c[k].bits = "none" THEN c[k]
                        ELSE [c[k] EXCEPT !.imm = Short(half(k)), !.bits = "none"]]
    BY DEF Patched
  <1>2. c \in Seq(Straight \cup Turning) /\ Len(c) \in Nat /\ DOMAIN c = 1 .. Len(c)
    BY CodeFacts
  <1>3. ASSUME NEW k \in DOMAIN c PROVE Short(half(k)) \in Int
    <2>1. c[k].imm \in Int
      <3>1. c[k] \in Records
        BY <1>2 DEF Straight, Turning
      <3>. QED BY <3>1 DEF Records
    <2>. DEFINE carried == Cardinality(Carries(c, k))
    <2>2. carried \in Nat
      BY <1>2, CarriesFinite
    <2>. HIDE DEF carried
    <2>3. c[k].imm + Half * carried \in Int
      BY <2>1, <2>2, Widths
    <2>4. value(k) \in Int
      BY <2>3 DEF carried
    <2>. HIDE DEF value
    <2>5. Low(value(k)) \in Int
      BY <2>4, LowType, WordBounds
    <2>6. half(k) \in Int
      BY <2>5, Widths, DivMod
    <2>. HIDE DEF half
    <2>. QED BY <2>6, ShortType
  <1>. HIDE DEF half
  <1>4. v \in [DOMAIN c -> Int] /\ \A k \in DOMAIN c : v[k] = Short(half(k))
    BY <1>3
  <1>5. Patched(c) = [k \in DOMAIN c |->
                        IF c[k].bits = "none" THEN c[k]
                        ELSE [c[k] EXCEPT !.imm = v[k], !.bits = "none"]]
    BY <1>1, <1>4
  <1>. HIDE DEF v
  <1>6. CodeOK(Patched(c))
    <2>1. CodeOK([k \in DOMAIN c |->
                    IF c[k].bits = "none" THEN c[k]
                    ELSE [c[k] EXCEPT !.imm = v[k], !.bits = "none"]])
      BY <1>4, PatchedOK
    <2>. QED BY <1>5, <2>1, Zenon
  <1>7. \A k \in DOMAIN c : c[k] \in Records
    BY <1>2 DEF Straight, Turning
  <1>. QED BY <1>5, <1>6, <1>7 DEF Records

LEMMA EntryType ==
  ASSUME NEW l, NEW v \in Words, NEW w \in Words, NEW bytes \in [Memory -> Bytes8],
         NEW flags \in [Conditions -> {0, 1}]
  PROVE  Entry(l, v, w, bytes, flags) \in Machines
  <1>1. \A n \in Int : Low(n) \in Words
    BY LowType
  <1>2. 0 \in Words /\ Low(6) \in Words /\ Low(9) \in Words
    BY <1>1, Widths DEF Words
  <1>3. ASSUME NEW r \in Registers PROVE Low(5 + r) \in Words
    <2>1. 5 + r \in Int
      BY SmallRegisters
    <2>. QED BY <1>1, <2>1
  <1>4. ASSUME NEW r \in FloatRegisters PROVE Low(3 + r) \in Words
    <2>1. 3 + r \in Int
      BY FloatNumbers
    <2>. QED BY <1>1, <2>1
  <1>. DEFINE R == [r \in Registers |-> IF r = 0 THEN 0 ELSE IF r = l.rs THEN v
                      ELSE IF r = l.rt /\ TwoOperands(l) THEN w ELSE Low(5 + r)]
              F == [r \in FloatRegisters |-> IF r = l.rs THEN v ELSE IF r = l.rt THEN w
                      ELSE IF r = l.rs + 1 THEN w ELSE IF r = l.rt + 1 THEN v ELSE Low(3 + r)]
  <1>5. R \in [Registers -> Words]
    BY <1>2, <1>3
  <1>6. F \in [FloatRegisters -> Words]
    BY <1>4
  <1>7. <<>> \in Loads /\ "none" \in Exceptions /\ 1 \in Nat \ {0}
    BY DEF Loads, Exceptions
  <1>8. Entry(l, v, w, bytes, flags) =
          [R |-> R, F |-> F, FCC |-> flags, HI |-> Low(6), LO |-> Low(9), mem |-> bytes,
           exception |-> "none", PC |-> 1, late1 |-> <<>>, late2 |-> <<>>]
    BY DEF Entry
  <1>. HIDE DEF R, F
  <1>. QED BY <1>2, <1>5, <1>6, <1>7, <1>8 DEF Machines

\* The inductive invariant: the machine has its type, and while a line runs its
\* code has the shape above.
TypeInv ==
  /\ line \in Lines /\ build \in Builds
  /\ stage \in {"read", "assembled", "run", "fatal"}
  /\ m \in Machines
  /\ stage \in {"assembled", "run"} =>
       CodeOK(code) /\ \A k \in DOMAIN code : code[k].op # "fatal_error"

LEMMA TypeInit == Init => TypeInv
  <1>. SUFFICES ASSUME Init PROVE TypeInv
    OBVIOUS
  <1>1. line \in Lines /\ build \in Builds /\ stage = "read"
    BY DEF Init
  <1>2. PICK v \in Varying(line.rs # 0, Values),
             w \in Varying(TwoOperands(line) /\ line.rt \notin {0, line.rs}, Values),
             bytes \in Varying(OnMemory(line), Memories),
             flags \in Varying(OnFlags(line), [Conditions -> {0, 1}]) :
               m = Entry(line, v, w, bytes, flags)
    BY DEF Init
  <1>3. ASSUME NEW read, NEW set, NEW x \in Varying(read, set), set # {} PROVE x \in set
    BY <1>3 DEF Varying
  <1>4. [Conditions -> {0, 1}] # {}
    <2>1. [c \in Conditions |-> 0] \in [Conditions -> {0, 1}]
      OBVIOUS
    <2>. QED BY <2>1
  <1>5. v \in Words /\ w \in Words /\ bytes \in [Memory -> Bytes8] /\ flags \in [Conditions -> {0, 1}]
    BY <1>3, <1>4, LinesOK DEF Bytes8
  <1>6. m \in Machines
    BY <1>2, <1>5, EntryType
  <1>. QED BY <1>1, <1>6 DEF TypeInv

LEMMA TypeStep == TypeInv /\ [Next]_vars => TypeInv'
  <1>. SUFFICES ASSUME TypeInv, [Next]_vars PROVE TypeInv'
    OBVIOUS
  <1>. USE DEF TypeInv
  <1>1. CASE Assemble
    <2>1. /\ line' = line /\ build' = build /\ m' = m /\ code' = ASM_CODE(line)
          /\ stage' \in {"fatal", "assembled", "run"}
          /\ stage' # "fatal" => \A k \in DOMAIN code' : code'[k].op # "fatal_error"
      BY <1>1 DEF Assemble
    <2>2. CodeOK(ASM_CODE(line))
      BY AssembledOK, LinesOK
    <2>3. CodeOK(code')
      BY <2>1, <2>2
    <2>. QED BY <2>1, <2>3
  <1>2. CASE DefineSymbol
    <2>1. /\ line' = line /\ build' = build /\ m' = m /\ stage = "assembled" /\ stage' = "run"
          /\ code' = Patched(code)
      BY <1>2 DEF DefineSymbol
    <2>2. CodeOK(code) /\ \A k \in DOMAIN code : code[k].op # "fatal_error"
      BY <2>1
    <2>3. /\ CodeOK(code')
          /\ \A k \in DOMAIN code' : code'[k].op # "fatal_error"
      BY <2>1, <2>2, PatchedType
    <2>. QED BY <2>1, <2>3
  <1>3. CASE RunInstruction
    <2>1. line' = line /\ build' = build /\ code' = code /\ stage' = stage /\ stage = "run"
          /\ m' = RunStep(m, build, code) /\ ~Ended
      BY <1>3 DEF RunInstruction
    <2>2. m.PC <= Len(code)
      <3>1. m.PC \in Int /\ Len(code) \in Int
        BY <2>1, Parts, CodeFacts
      <3>. QED BY <2>1, <3>1 DEF Ended
    <2>3. m' \in Machines
      BY <2>1, <2>2, RunStepType
    <2>. QED BY <2>1, <2>3
  <1>4. CASE UNCHANGED vars
    BY <1>4 DEF vars
  <1>. QED BY <1>1, <1>2, <1>3, <1>4 DEF Next

\* Whatever line is assembled and run, on a machine of any word width and of
\* any registers and memory, the registers, HI and LO, the memory and the flags
\* keep words, bytes and bits, and only the exceptions there are come up: the
\* switch of run_spim on the instructions ASM_CODE makes.
THEOREM TranslationTypeOK == Spec => []TypeOK
  <1>1. TypeInv => TypeOK
    BY DEF TypeInv, TypeOK, Machines, Bytes8, Exceptions
  <1>. QED BY <1>1, TypeInit, TypeStep, PTL DEF Spec
=============================================================================
