----------------------------- MODULE Instructions -----------------------------
(***************************************************************************)
(* What the instructions that compute, load and store do: the switch of    *)
(* run_spim (CPU/run.cpp), one operator for each kind of instruction.      *)
(*                                                                         *)
(* A machine is a record [R, HI, LO, F, FCC, mem, exception, PC, late1,    *)
(* late2]: F and FCC are FloatingPoint's; late1 and late2 are the two      *)
(* stages of the pipeline of delayed loads, <<"R" or "F", register, value>>*)
(* or <<>>.  An instruction is a record [op, rd, rs, rt, imm]; imm is also *)
(* the shift amount, and the distance of a branch in instructions.  Words  *)
(* are kept unsigned.  The width is scaled: a byte has ByteBits bits, a    *)
(* half word two bytes, a word four, and 31, 24 and 16 in the code scale.  *)
(*                                                                         *)
(* InstructionStep makes a turn of the loop of these operators.            *)
(***************************************************************************)
EXTENDS Integers, Sequences, FiniteSets

CONSTANTS
  ByteBits,  \* 8 in the program
  Registers, \* 0 .. 31 in the program
  Memory,    \* the addresses of bytes that can be read and written
  AndBits(_, _), OrBits(_, _), XorBits(_, _)  \* the operators & | ^ of C on words

Byte == 2 ^ ByteBits
Half == Byte * Byte
Word == Half * Half
WordBits == 4 * ByteBits
Words == 0 .. Word - 1
Aligned(addr) == addr - (addr % 4)
at == 1    \* the assembler's own register
ra == Cardinality(Registers) - 1  \* 31, the link register

\* A word has the bits its width says.
ASSUME WidthOK ==
  /\ ByteBits \in Nat \ {0} /\ WordBits < Word
  /\ Byte \in Nat /\ Byte >= 2 /\ Byte % 2 = 0
  /\ \A n \in 0 .. WordBits : 2 ^ n \in Nat \ {0}
\* The operators of C make words of words.
ASSUME BitsOK ==
  \A x, y \in Words :
    AndBits(x, y) \in Words /\ OrBits(x, y) \in Words /\ XorBits(x, y) \in Words
\* A half word put under another is joined to it.
ASSUME JoinOK ==
  \A h, l \in 0 .. Half - 1 : OrBits(h * Half, l) = h * Half + l
\* The registers are numbered from 0, and memory is made of words.
ASSUME MachineOK ==
  /\ ra \in Nat \ {0} /\ Registers = 0 .. ra
  /\ Memory \subseteq Words
  /\ \A a \in Memory : Aligned(a) .. Aligned(a) + 3 \subseteq Memory

Low(n)     == n % Word
SignBit(x) == x \div (Word \div 2)
Signed(x)  == IF SignBit(x) = 1 THEN x - Word ELSE x
Short(n)   == IF n % Half >= Half \div 2 THEN (n % Half) - Half ELSE n % Half
SignByte(n) == IF n % Byte >= Byte \div 2 THEN (n % Byte) - Byte ELSE n % Byte
Not1(x)    == Word - 1 - x   \* the complement ~x

Shl(x, n) == Low(x * 2 ^ n)
Shr(x, n) == x \div 2 ^ n
Sra(x, n) == Low(Signed(x) \div 2 ^ n)

Raise(m, excode) == [m EXCEPT !.exception = excode]
Set(m, r, v)     == [m EXCEPT !.R[r] = v]

-----------------------------------------------------------------------------
\* Instructions with an immediate take it for their second operand and write
\* R[rt]; arithmetic ones extend its sign.
Arithmetic == {"addi", "addiu", "slti", "sltiu",
               "teqi", "tgei", "tgeiu", "tlti", "tltiu", "tnei"}
Logical    == {"andi", "ori", "xori"}
Dest(i)    == IF i.op \in Arithmetic \cup Logical THEN i.rt ELSE i.rd
Operand(m, i) == IF i.op \in Arithmetic THEN Low(Short(i.imm))
                 ELSE IF i.op \in Logical THEN i.imm % Half
                 ELSE m.R[i.rt]

ARITH_OVFL(result, a, b) == SignBit(a) = SignBit(b) /\ SignBit(a) # SignBit(result)

AddOps == {"add", "addi", "addu", "addiu"}
\* Mutant: the sum is not cut to a word.
AddUncut(m, i) ==
  LET sum == m.R[i.rs] + Operand(m, i)
  IN  IF i.op \in {"add", "addi"} /\ ARITH_OVFL(Low(sum), m.R[i.rs], Operand(m, i))
      THEN Raise(m, "Ov") ELSE Set(m, Dest(i), sum)
Add(m, i) ==
  LET a == m.R[i.rs]
      b == Operand(m, i)
      sum == Low(a + b)
  IN  IF i.op \in {"add", "addi"} /\ ARITH_OVFL(sum, a, b) THEN Raise(m, "Ov")
      ELSE Set(m, Dest(i), sum)

SubOps == {"sub", "subu"}
Sub(m, i) ==
  LET a == m.R[i.rs]
      b == m.R[i.rt]
      diff == Low(a - b)
  IN  IF i.op = "sub" /\ SignBit(a) # SignBit(b) /\ SignBit(a) # SignBit(diff)
      THEN Raise(m, "Ov") ELSE Set(m, i.rd, diff)

AndOps == {"and", "andi"}
BitAnd(m, i) == Set(m, Dest(i), AndBits(m.R[i.rs], Operand(m, i)))

OrOps == {"or", "ori", "nor"}
BitOr(m, i) ==
  LET union == OrBits(m.R[i.rs], Operand(m, i))
  IN  Set(m, Dest(i), IF i.op = "nor" THEN Not1(union) ELSE union)

XorOps == {"xor", "xori"}
BitXor(m, i) == Set(m, Dest(i), XorBits(m.R[i.rs], Operand(m, i)))

LoadUpper(m, i) == Set(m, i.rt, Low((i.imm % Half) * Half))

\* clo and clz go down from the highest bit while the bits are 1, or 0.
LeadingOps == {"clo", "clz"}
CountLeading(m, i) ==
  LET bit(k) == Shr(m.R[i.rs], k) % 2
      passed == {k \in 0 .. WordBits - 1 :
                   \A j \in k .. WordBits - 1 : bit(j) = IF i.op = "clo" THEN 1 ELSE 0}
  IN  Set(m, i.rd, Cardinality(passed))

SetLessOps == {"slt", "slti", "sltu", "sltiu"}
SetLess(m, i) ==
  LET a == m.R[i.rs]
      b == Operand(m, i)
      less == IF i.op \in {"slt", "slti"} THEN Signed(a) < Signed(b) ELSE a < b
  IN  Set(m, Dest(i), IF less THEN 1 ELSE 0)

\* r_sh_type_inst has masked the shift amount, so the code's range check holds.
ShiftLeftOps == {"sll", "sllv"}
ShiftLeft(m, i) ==
  LET shamt == IF i.op = "sll" THEN i.imm ELSE m.R[i.rs] % WordBits
  IN  Set(m, i.rd, Shl(m.R[i.rt], shamt))

ShiftRightOps == {"sra", "srav", "srl", "srlv"}
ShiftRight(m, i) ==
  LET shamt == IF i.op \in {"sra", "srl"} THEN i.imm ELSE m.R[i.rs] % WordBits
      val == m.R[i.rt]
  IN  Set(m, i.rd, IF i.op \in {"sra", "srav"} THEN Sra(val, shamt) ELSE Shr(val, shamt))

MoveIfOps == {"movn", "movz"}
MoveIf(m, i) ==
  IF (m.R[i.rt] # 0) = (i.op = "movn") THEN Set(m, i.rd, m.R[i.rs]) ELSE m

TrapOps == {"teq", "teqi", "tge", "tgei", "tgeu", "tgeiu",
            "tlt", "tlti", "tltu", "tltiu", "tne", "tnei"}
Trap(m, i) ==
  LET a == m.R[i.rs]
      b == Operand(m, i)
      traps == \/ i.op \in {"teq", "teqi"}   /\ a = b
               \/ i.op \in {"tne", "tnei"}   /\ a # b
               \/ i.op \in {"tge", "tgei"}   /\ Signed(a) >= Signed(b)
               \/ i.op \in {"tlt", "tlti"}   /\ Signed(a) < Signed(b)
               \/ i.op \in {"tgeu", "tgeiu"} /\ a >= b
               \/ i.op \in {"tltu", "tltiu"} /\ a < b
  IN  IF traps THEN Raise(m, "Tr") ELSE m

-----------------------------------------------------------------------------
(* HI and LO *)

\* "high-school math" on half words, every sum and product in a word.
unsigned_multiply(m, v1, v2) ==
  LET a == v1 \div Half
      b == v1 % Half
      c == v2 \div Half
      d == v2 % Half
      ad == Low(a * d)
      cb == Low(c * b)
      bd == Low(b * d)
      mid == Low(ad + cb)
      mid2 == Low(mid + bd \div Half)
      carry(sum, x, y) == IF sum < x \/ sum < y THEN 1 ELSE 0
      carry_mid == carry(mid, ad, cb) + carry(mid2, mid, bd \div Half)
  IN  [m EXCEPT !.LO = (bd % Half) + (mid2 % Half) * Half,
                !.HI = Low(a * c + carry_mid * Half + mid2 \div Half)]

signed_multiply(m, v1, v2) ==
  LET abs(v) == IF SignBit(v) = 1 THEN Low(-v) ELSE v
      p == unsigned_multiply(m, abs(v1), abs(v2))
      lo == Low(Not1(p.LO) + 1)
      hi == Low(Not1(p.HI) + IF lo = 0 THEN 1 ELSE 0)
  IN  IF SignBit(v1) = SignBit(v2) THEN p ELSE [p EXCEPT !.LO = lo, !.HI = hi]

MultiplyOps == {"mul", "mult", "multu"}
Multiply(m, i) ==
  LET a == m.R[i.rs]
      b == m.R[i.rt]
      p == IF i.op = "multu" THEN unsigned_multiply(m, a, b) ELSE signed_multiply(m, a, b)
  IN  IF i.op = "mul" THEN Set(p, i.rd, p.LO) ELSE p

MultiplyAddOps == {"madd", "maddu"}
MultiplyAdd(m, i) ==
  LET p == IF i.op = "madd" THEN signed_multiply(m, m.R[i.rs], m.R[i.rt])
           ELSE unsigned_multiply(m, m.R[i.rs], m.R[i.rt])
      tmp == Low(m.LO + p.LO)
      carry == IF tmp < p.LO \/ tmp < m.LO THEN 1 ELSE 0
  IN  [p EXCEPT !.LO = tmp, !.HI = Low(m.HI + carry + p.HI)]

MultiplySubOps == {"msub", "msubu"}
MultiplySub(m, i) ==
  LET p == IF i.op = "msub" THEN signed_multiply(m, m.R[i.rs], m.R[i.rt])
           ELSE unsigned_multiply(m, m.R[i.rs], m.R[i.rt])
      borrow == IF p.LO > m.LO THEN 1 ELSE 0
  IN  [p EXCEPT !.LO = Low(m.LO - p.LO), !.HI = Low(m.HI - borrow - p.HI)]

\* C's division truncates.
Truncated(a, b) ==
  LET abs(n) == IF n < 0 THEN -n ELSE n
      q == abs(a) \div abs(b)
  IN  IF (a < 0) = (b < 0) THEN q ELSE -q

\* divu leaves HI and LO alone in div's case of overflow too.
DivideOps == {"div", "divu"}
Divide(m, i) ==
  LET a == m.R[i.rs]
      b == m.R[i.rt]
      value(x) == IF i.op = "div" THEN Signed(x) ELSE x
      quotient == Truncated(value(a), value(b))
  IN  IF b = 0 \/ (a = Word \div 2 /\ b = Word - 1) THEN m
      ELSE [m EXCEPT !.LO = Low(quotient), !.HI = Low(value(a) - quotient * value(b))]

MoveFromOps == {"mfhi", "mflo"}
MoveFrom(m, i) == Set(m, i.rd, IF i.op = "mfhi" THEN m.HI ELSE m.LO)

MoveToOps == {"mthi", "mtlo"}
MoveTo(m, i) ==
  IF i.op = "mthi" THEN [m EXCEPT !.HI = m.R[i.rs]] ELSE [m EXCEPT !.LO = m.R[i.rs]]

-----------------------------------------------------------------------------
(* Memory.  build = [big_endian, delayed_loads, delayed_branches]. *)

\* The weight of the byte k of a word; x % Weight(k) are its k low bytes.
Weight(k) == <<1, Byte, Half, Half * Byte, Word>>[k + 1]

\* The byte of weight Weight(k) of the datum of size bytes at addr.
ByteAt(build, addr, size, k) == addr + IF build.big_endian THEN size - 1 - k ELSE k

Reaches(addr, size) == addr % size = 0 /\ addr \in Memory

\* The value of the bytes, 0 after a fault.
Fetched(m, build, addr, size) ==
  LET byte(k) == IF k < size THEN m.mem[ByteAt(build, addr, size, k)] * Weight(k) ELSE 0
  IN  IF Reaches(addr, size) THEN byte(0) + byte(1) + byte(2) + byte(3) ELSE 0

Fault(m, addr, size, unaligned) ==
  IF addr % size # 0 THEN Raise(m, unaligned)
  ELSE IF addr \notin Memory THEN Raise(m, "DBE")
  ELSE m

Stored(m, build, addr, size, value) ==
  IF Reaches(addr, size)
  THEN [m EXCEPT !.mem = [x \in Memory |->
          IF x \in addr .. addr + size - 1
          THEN LET k == CHOOSE n \in 0 .. size - 1 : ByteAt(build, addr, size, n) = x
               IN  (value \div Weight(k)) % Byte
          ELSE m.mem[x]]]
  ELSE Fault(m, addr, size, "AdES")

\* file is "R" or "F", the registers that are loaded.
Loaded(m, file, r, value) ==
  IF file = "R" THEN Set(m, r, value) ELSE [m EXCEPT !.F[r] = value]

LOAD_INST(m, build, file, r, value) ==
  IF build.delayed_loads THEN [m EXCEPT !.late1 = <<file, r, value>>]
  ELSE Loaded(m, file, r, value)

DO_DELAYED_UPDATE(m) ==
  LET n == IF m.late2 = <<>> THEN m ELSE Loaded(m, m.late2[1], m.late2[2], m.late2[3])
  IN  [n EXCEPT !.late2 = m.late1, !.late1 = <<>>]

Address(m, i) == Low(m.R[i.rs] + Short(i.imm))
\* The bytes of the word at Aligned(addr) from addr on, in the order of their
\* weights in a big-endian build.
Position(build, addr) == IF build.big_endian THEN addr % 4 ELSE 3 - (addr % 4)

LoadOps == {"lb", "lbu", "lh", "lhu", "lw", "ll"}
SizeOf(op) == IF op \in {"lb", "lbu", "sb"} THEN 1
              ELSE IF op \in {"lh", "lhu", "sh"} THEN 2 ELSE 4

\* The register is written although the access may have faulted.
Load(m, build, i) ==
  LET size == SizeOf(i.op)
      value == Fetched(m, build, Address(m, i), size)
      extended == IF i.op = "lb" THEN Low(SignByte(value))
                  ELSE IF i.op = "lh" THEN Low(Short(value)) ELSE value
  IN  LOAD_INST(Fault(m, Address(m, i), size, "AdEL"), build, "R", i.rt, extended)

LoadLeft(m, build, i) ==
  LET addr == Address(m, i)
      n == Fault(m, Aligned(addr), 4, "AdEL")
      k == Position(build, addr)
      word == Fetched(m, build, Aligned(addr), 4)
  IN  LOAD_INST(n, build, "R", i.rt,
                IF Reaches(Aligned(addr), 4)
                THEN Low(word * Weight(k)) + (m.R[i.rt] % Weight(k)) ELSE word)

LoadRight(m, build, i) ==
  LET addr == Address(m, i)
      n == Fault(m, Aligned(addr), 4, "AdEL")
      k == 3 - Position(build, addr)
      word == Fetched(m, build, Aligned(addr), 4)
  IN  LOAD_INST(n, build, "R", i.rt,
                IF Reaches(Aligned(addr), 4)
                THEN m.R[i.rt] - (m.R[i.rt] % Weight(4 - k)) + word \div Weight(k) ELSE word)

StoreOps == {"sb", "sh", "sw", "sc"}
Store(m, build, i) == Stored(m, build, Address(m, i), SizeOf(i.op), m.R[i.rt])

StoreLeft(m, build, i) ==
  LET addr == Aligned(Address(m, i))
      k == Position(build, Address(m, i))
      data == Fetched(m, build, addr, 4)
  IN  Stored(m, build, addr, 4,
             data - (data % Weight(4 - k)) + m.R[i.rt] \div Weight(k))

StoreRight(m, build, i) ==
  LET addr == Aligned(Address(m, i))
      k == 3 - Position(build, Address(m, i))
      data == Fetched(m, build, addr, 4)
  IN  Stored(m, build, addr, 4, Low(m.R[i.rt] * Weight(k)) + (data % Weight(k)))
=============================================================================
