----------------------------- MODULE LineMeaning -----------------------------
(***************************************************************************)
(* What the programmer of a line of assembly is promised, whatever         *)
(* instructions the assembler makes of it: the result in arithmetic, bits  *)
(* and bytes, the exceptions due, where control goes, and that nothing     *)
(* else changes but $at.  It knows nothing of the expansion.               *)
(***************************************************************************)
EXTENDS InstructionStep, FiniteSets

abs(n)  == IF n < 0 THEN -n ELSE n
sign(n) == IF n < 0 THEN -1 ELSE IF n = 0 THEN 0 ELSE 1
InRange(n) == -(Word \div 2) <= n /\ n < Word \div 2
Bits(x) == {k \in 0 .. WordBits - 1 : (x \div 2 ^ k) % 2 = 1}
Truth(b) == IF b THEN 1 ELSE 0

\* Division rounds towards zero: the remainder has the sign of the dividend.
IsQuotient(q, x, y) == LET r == x - q * y IN abs(r) < abs(y) /\ sign(r) \in {0, sign(x)}

UnsignedOps == {"divu", "remu", "divu2", "multu", "maddu", "msubu", "mulou", "sltu", "sltiu",
                "sgtu", "sgeu", "sleu", "bgtu", "bgeu", "bltu", "bleu",
                "tgeu", "tgeiu", "tltu", "tltiu"}

\* The operands of a line, as words and as the numbers they stand for.
First(l, b)  == b.R[l.rs]
Other(l, b)  == IF l.form = "reg" THEN b.R[l.rt] ELSE Low(l.imm)
Number(l, w) == IF l.op \in UnsignedOps THEN w ELSE Signed(w)
X(l, b) == Number(l, First(l, b))
Y(l, b) == Number(l, Other(l, b))

-----------------------------------------------------------------------------
(* Memory: a line reads or writes size bytes from its address on, in pieces *)
(* that must be aligned.                                                    *)

LoadLines  == {"lb", "lbu", "lh", "lhu", "lw", "ll", "ld", "ulw", "ulh", "ulhu"}
StoreLines == {"sb", "sh", "sw", "sc", "sd", "usw", "ush"}
Bytes(op) == IF op \in {"lb", "lbu", "sb"} THEN 1
             ELSE IF op \in {"lh", "lhu", "sh", "ulh", "ulhu", "ush"} THEN 2
             ELSE IF op \in {"ld", "sd"} THEN 8 ELSE 4
Piece(op) == IF op \in {"ulw", "ulh", "ulhu", "usw", "ush"} THEN 1
             ELSE IF op \in {"ld", "sd"} THEN 4 ELSE Bytes(op)
Start(l, b) == Low(First(l, b) + l.imm)
Touched(l, b) == {Low(Start(l, b) + k) : k \in 0 .. Bytes(l.op) - 1}

\* The number that n bytes of memory from address a on stand for.
Datum(mem, build, a, n) ==
  LET byte(k) == IF k < n THEN mem[Low(ByteAt(build, a, n, k))] * Weight(k) ELSE 0
  IN  byte(0) + byte(1) + byte(2) + byte(3)
Extended(op, d) == IF op = "lb" THEN Low(SignByte(d))
                   ELSE IF op \in {"lh", "ulh"} THEN Low(Short(d)) ELSE d

MemoryAsStored(l, build, b, f) ==
  LET n == IF Bytes(l.op) = 8 THEN 4 ELSE Bytes(l.op)
      word(r, a) == Datum(f.mem, build, a, n) = b.R[r] % Weight(n)
  IN  /\ word(l.rd, Start(l, b))
      /\ l.op = "sd" => word(l.rd + 1, Low(Start(l, b) + 4))
      /\ \A a \in Memory \ Touched(l, b) : f.mem[a] = b.mem[a]

-----------------------------------------------------------------------------
\* The exceptions due.
Overflows(l, b) ==
  \/ l.op \in {"add", "addi"} /\ ~InRange(X(l, b) + Y(l, b))
  \/ l.op = "sub"             /\ ~InRange(X(l, b) - Y(l, b))
  \/ l.op \in {"neg", "abs"}  /\ ~InRange(abs(X(l, b)))
TrapsOn(l, b) ==
  \/ l.op \in {"teq", "teqi"} /\ X(l, b) = Y(l, b)
  \/ l.op \in {"tne", "tnei"} /\ X(l, b) # Y(l, b)
  \/ l.op \in {"tge", "tgei", "tgeu", "tgeiu"} /\ X(l, b) >= Y(l, b)
  \/ l.op \in {"tlt", "tlti", "tltu", "tltiu"} /\ X(l, b) < Y(l, b)
Breaks(l, b) ==
  /\ l.rd # 0
  /\ \/ l.op \in {"div", "divu", "rem", "remu"} /\ Other(l, b) = 0
     \/ l.op = "mulo"  /\ ~InRange(X(l, b) * Y(l, b))
     \/ l.op = "mulou" /\ X(l, b) * Y(l, b) >= Word
Misaligned(l, b) == l.op \in LoadLines \cup StoreLines /\ Start(l, b) % Piece(l.op) # 0
Unmapped(l, b) == l.op \in LoadLines \cup StoreLines /\ ~(Touched(l, b) \subseteq Memory)

ExceptionDue(l, b) ==
  IF Overflows(l, b) THEN "Ov"
  ELSE IF TrapsOn(l, b) THEN "Tr"
  ELSE IF Breaks(l, b) THEN "Bp"
  ELSE IF Misaligned(l, b) THEN (IF l.op \in LoadLines THEN "AdEL" ELSE "AdES")
  ELSE IF Unmapped(l, b) THEN "DBE" ELSE "none"

-----------------------------------------------------------------------------
\* The registers a line is to write, and whether w is the word for rd.
NoResult == StoreLines \cup TrapOps \cup
            {"mult", "multu", "madd", "maddu", "msub", "msubu", "div2", "divu2", "mthi", "mtlo"}
Branches == {"beq", "beql", "bne", "bnel", "beqz", "bnez", "bgez", "bgezl", "bgtz", "bgtzl",
             "blez", "blezl", "bltz", "bltzl", "bgezal", "bgezall", "bltzal",
             "bltzall", "b", "bal", "j", "jr", "jal", "jalr",
             "bgt", "bgtu", "bge", "bgeu", "blt", "bltu", "ble", "bleu"}
Links(l) == l.op \in {"bal", "bgezal", "bgezall", "bltzal", "bltzall", "jal", "jalr"}
Written(l) ==
  IF Links(l) THEN {IF l.op = "jalr" /\ l.form = "two" THEN l.rd ELSE ra}
  ELSE IF l.op \in NoResult \cup Branches THEN {}
  ELSE IF l.op = "ld" THEN {l.rd, l.rd + 1} ELSE {l.rd}

IsResult(l, build, b, w) ==
  LET a == First(l, b)
      o == Other(l, b)
      x == X(l, b)
      y == Y(l, b)
      n == o % WordBits
  IN
  /\ l.op \in {"add", "addu", "addi", "addiu"} => w = Low(x + y)
  /\ l.op \in {"sub", "subu"}   => w = Low(x - y)
  /\ l.op \in {"neg", "negu"}   => w = Low(-x)
  /\ l.op = "abs"               => w = Low(abs(x))
  /\ l.op = "move"              => w = a
  /\ l.op \in {"li", "la"}      => w = Low(a + l.imm)
  /\ l.op = "lui"               => w = Low(l.imm * Half)
  /\ l.op = "not"               => Bits(w) = Bits(Word - 1) \ Bits(a)
  /\ l.op \in {"and", "andi"}   => Bits(w) = Bits(a) \cap Bits(o)
  /\ l.op \in {"or", "ori"}     => Bits(w) = Bits(a) \cup Bits(o)
  /\ l.op \in {"xor", "xori"}   => Bits(w) = (Bits(a) \cup Bits(o)) \ (Bits(a) \cap Bits(o))
  /\ l.op = "nor"               => Bits(w) = Bits(Word - 1) \ (Bits(a) \cup Bits(o))
  /\ l.op \in {"sll", "sllv"}   => w = Low(a * 2 ^ n)
  /\ l.op \in {"srl", "srlv"}   => Bits(w) = {k \in 0 .. WordBits - 1 : k + n \in Bits(a)}
  /\ l.op \in {"sra", "srav"}   => Bits(w) = {k \in 0 .. WordBits - 1 :
                                     IF k + n < WordBits THEN k + n \in Bits(a) ELSE x < 0}
  /\ l.op = "rol"               => Bits(w) = {(k + n) % WordBits : k \in Bits(a)}
  /\ l.op = "ror"               => Bits(w) = {(k + WordBits - n) % WordBits : k \in Bits(a)}
  /\ l.op = "clz"               => /\ Bits(a) \cap (WordBits - w .. WordBits - 1) = {}
                                   /\ w = WordBits \/ WordBits - 1 - w \in Bits(a)
  /\ l.op = "clo"               => /\ WordBits - w .. WordBits - 1 \subseteq Bits(a)
                                   /\ w = WordBits \/ WordBits - 1 - w \notin Bits(a)
  /\ l.op \in {"slt", "slti", "sltu", "sltiu"} => w = Truth(x < y)
  /\ l.op \in {"sgt", "sgtu"}   => w = Truth(x > y)
  /\ l.op \in {"sle", "sleu"}   => w = Truth(x <= y)
  /\ l.op \in {"sge", "sgeu"}   => w = Truth(x >= y)
  /\ l.op = "seq"               => w = Truth(x = y)
  /\ l.op = "sne"               => w = Truth(x # y)
  /\ l.op \in {"div", "divu"}   => IsQuotient(Number(l, w), x, y)
  /\ l.op \in {"rem", "remu"}   => \E q \in -Word .. Word :
                                     Number(l, w) = x - q * y /\ IsQuotient(q, x, y)
  /\ l.op \in {"mul", "mulo", "mulou"} => w = Low(x * y)
  /\ l.op = "movn"              => w = IF o # 0 THEN a ELSE b.R[l.rd]
  /\ l.op = "movz"              => w = IF o = 0 THEN a ELSE b.R[l.rd]
  /\ l.op = "mfhi"              => w = b.HI
  /\ l.op = "mflo"              => w = b.LO
  /\ l.op \in LoadLines =>
       LET size == IF l.op = "ld" THEN 4 ELSE Bytes(l.op)
       IN  w = Extended(l.op, Datum(b.mem, build, Start(l, b), size))

\* HI and LO: b and f are the machine before and after the line.
HiLoLines == {"mult", "multu", "madd", "maddu", "msub", "msubu", "div2", "divu2", "mthi", "mtlo",
              "mul", "mulo", "mulou", "div", "divu", "rem", "remu"}
HiLoDue(l, b, f) ==
  LET x == X(l, b)
      y == Y(l, b)
      double(r) == r.HI * Word + r.LO
  IN
  /\ l.op \in {"mult", "multu"} => double(f) = (x * y) % (Word * Word)
  /\ l.op \in {"madd", "maddu"} => double(f) = (double(b) + x * y) % (Word * Word)
  /\ l.op \in {"msub", "msubu"} => double(f) = (double(b) - x * y) % (Word * Word)
  /\ l.op \in {"div2", "divu2"} => /\ IsQuotient(Number(l, f.LO), x, y)
                                   /\ Number(l, f.HI) = x - Number(l, f.LO) * y
  /\ l.op = "mthi" => f.HI = First(l, b) /\ f.LO = b.LO
  /\ l.op = "mtlo" => f.LO = First(l, b) /\ f.HI = b.HI
  /\ l.op \notin HiLoLines => f.HI = b.HI /\ f.LO = b.LO

Jumps(l, b) ==
  LET x == X(l, b)
      y == Y(l, b)
  IN
  \/ l.op \in {"beq", "beql"} /\ x = y
  \/ l.op \in {"bne", "bnel"} /\ x # y
  \/ l.op \in {"bgt", "bgtu"} /\ x > y
  \/ l.op \in {"bge", "bgeu"} /\ x >= y
  \/ l.op \in {"blt", "bltu"} /\ x < y
  \/ l.op \in {"ble", "bleu"} /\ x <= y
  \/ l.op = "beqz" /\ x = 0
  \/ l.op = "bnez" /\ x # 0
  \/ l.op \in {"bgez", "bgezl", "bgezal", "bgezall"} /\ x >= 0
  \/ l.op \in {"bgtz", "bgtzl"}           /\ x > 0
  \/ l.op \in {"blez", "blezl"}           /\ x <= 0
  \/ l.op \in {"bltz", "bltzl", "bltzal", "bltzall"} /\ x < 0
  \/ l.op \in {"b", "bal", "j", "jr", "jal", "jalr"}

\* Where the line leaves PC: length is the line's in instructions.  A likely
\* branch that is not taken passes over its delay slot, where there is one.
PlaceDue(l, build, b, length, pc) ==
  IF ~Jumps(l, b)
  THEN pc = length + 1 + IF l.op \in Likely THEN Slots(build) ELSE 0
  ELSE IF l.op \in {"j", "jr", "jal", "jalr"} /\ l.form # "label"
  THEN pc = Far + First(l, b) ELSE pc >= Far

\* What source lines left undefined: division overflow.
Undefined(l, b) ==
  \/ /\ l.op \in {"div", "rem", "div2"}
     /\ First(l, b) = Word \div 2 /\ Other(l, b) = Word - 1
  \/ l.op \in {"div", "rem", "divu", "remu", "div2", "divu2"} /\ Other(l, b) = 0
       /\ ~Breaks(l, b)

\* The line l does what it says, from the machine b to the machine f.
Means(l, build, b, f, length) ==
  /\ f.exception = ExceptionDue(l, b)
  /\ <<f.F, f.FCC>> = <<b.F, b.FCC>>
  /\ \A r \in Registers \ (Written(l) \cup {0, at}) : f.R[r] = b.R[r]
  /\ f.exception = "none" =>
       /\ \A r \in Written(l) \ {0} :
            IF Links(l) THEN f.R[r] = length + 1 + Slots(build)
            ELSE IF r = l.rd THEN IsResult(l, build, b, f.R[r])
            ELSE f.R[r] = Datum(b.mem, build, Low(Start(l, b) + 4), 4)
       /\ IF l.op \in StoreLines THEN MemoryAsStored(l, build, b, f) ELSE f.mem = b.mem
       /\ HiLoDue(l, b, f)
       /\ PlaceDue(l, build, b, length, f.PC)
=============================================================================
