------------------------- MODULE MCPseudoInstructions -------------------------
(* Values for TLC: words of four bits, two words of memory.                   *)
EXTENDS PseudoInstructions, Bitwise, TLC

BitwiseAnd(x, y) == x & y
BitwiseOr(x, y)  == x | y
BitwiseXor(x, y) == x ^^ y

Line(op, rd, rs, rt, imm, known, form) ==
  [op |-> op, rd |-> rd, rs |-> rs, rt |-> rt, imm |-> imm, known |-> known, form |-> form]

\* Lines on registers: every way operands and result can coincide.
Three == {"add", "addu", "and", "or", "xor", "nor", "slt", "sltu", "sub", "subu",
          "sllv", "srav", "srlv", "movn", "movz", "div", "divu", "rem", "remu",
          "mulo", "mulou", "mul", "rol", "ror",
          "sle", "sleu", "sgt", "sgtu", "sge", "sgeu", "seq", "sne"}
OnRegisters ==
  {Line(op, rd, 2, rt, 0, TRUE, "reg") : op \in Three, rd \in {0, 2, 3, 4}, rt \in {0, 2, 3}}
\* Lines that write HI and LO, test, or trap.
NoDestination ==
  {Line(op, 0, 2, rt, 0, TRUE, "reg") :
     op \in {"mult", "multu", "madd", "maddu", "msub", "msubu", "div2", "divu2",
             "teq", "tge", "tgeu", "tlt", "tltu", "tne",
             "beq", "beql", "bne", "bnel",
             "bgt", "bgtu", "bge", "bgeu", "blt", "bltu", "ble", "bleu"},
     rt \in {0, 2, 3}}
OneOperand ==
  {Line(op, rd, 2, 0, 0, TRUE, "reg") :
     op \in {"abs", "neg", "negu", "not", "move", "clo", "clz", "mfhi", "mflo"}, rd \in {0, 2, 4}}
  \cup {Line(op, 0, 2, 0, 0, TRUE, "reg") : 
          op \in {"mthi", "mtlo", "beqz", "bnez", "bgez", "bgezl", "bgtz", "bgtzl",
                  "blez", "blezl", "bltz", "bltzl", "bgezal", "bgezall", "bltzal", "bltzall",
                  "j", "jr", "jal"}}
  \cup {Line("jalr", rd, 2, 0, 0, TRUE, "two") : rd \in {2, 3}}
  \cup {Line(op, 0, 0, 0, 0, TRUE, "label") : op \in {"b", "bal", "j", "jal"}}

\* Lines with an immediate.
Immediates == -8 .. 7
Symbols == {1, 2, 5, 6, -7, -2}
WithImmediate ==
  LET ops == {"add", "addu", "and", "or", "xor", "slt", "sltu", "nor", "div", "divu", "rem", "remu",
              "mulo", "mulou", "mul", "sle", "sleu", "sgt", "sgtu", "sge", "sgeu", "seq", "sne",
              "addi", "addiu", "slti", "sltiu", "andi", "ori", "xori"}
      branches == {"beq", "bne", "bgt", "bgtu", "bge", "bgeu", "blt", "bltu", "ble", "bleu"}
      divides == {"div", "divu", "rem", "remu"}
  IN  {l \in {Line(op, rd, 2, 0, n, TRUE, "imm") :
              op \in ops \cup {"sub", "subu"}, rd \in {2, 4}, n \in Immediates} :
         ~(l.op \in divides /\ l.imm = 0)}
      \cup {Line(op, rd, 2, 0, n, FALSE, "imm") : op \in ops, rd \in {2, 4}, n \in Symbols}
      \cup {Line(op, 0, 2, 0, n, TRUE, "imm") : op \in branches, n \in Immediates}
      \cup {Line(op, 0, 2, 0, n, FALSE, "imm") : op \in branches, n \in Symbols}
      \cup {Line(op, rd, 2, 0, n, TRUE, "imm") :
              op \in {"sllv", "srav", "srlv", "sll", "sra", "srl", "rol", "ror"},
              rd \in {2, 4}, n \in 0 .. 3}
      \cup {Line(op, 4, rs, 0, n, known, "imm") :
              op \in {"la"}, rs \in {0, 2}, n \in Symbols, known \in BOOLEAN}
      \cup {Line("li", 4, 0, 0, n, known, "imm") : n \in Symbols, known \in BOOLEAN}
      \cup {Line("lui", 4, 0, 0, n, TRUE, "imm") : n \in 0 .. 3}
      \cup {Line(op, 0, 2, 0, n, TRUE, "imm") :
              op \in {"teqi", "tgei", "tgeiu", "tlti", "tltiu", "tnei"}, n \in {-2, 0, 1, 2}}

\* Loads and stores.  ld and sd use the register after rd too, which must not
\* be $at or pass the last one.
MemoryLines ==
  {l \in {Line(op, rd, rs, 0, n, known, "imm") :
            op \in LoadLines \cup StoreLines, rd \in {0, 2, 3}, rs \in {0, 2},
            n \in {-3, -1, 0, 1, 2, 3}, known \in BOOLEAN} :
     l.op \in {"ld", "sd"} => l.rd # 0}

\* Lines on floating-point registers.  A double has a register after its own.
Conds == {"f", "un", "eq", "ueq", "olt", "ole", "ult", "ule",
          "sf", "ngle", "seq", "ngl", "lt", "nge", "le", "ngt"}
FloatCases ==
  {Line(op, rd, rs, rt, c, TRUE, "flag") :
     op \in FloatMoves, rd \in 0 .. 2, rs \in {1, 2}, rt \in {0, 3}, c \in {0, 1}}
  \cup {Line(op, rd, 2, 0, c, TRUE, "flag") : op \in MoveOnOps, rd \in {0, 2, 3}, c \in {0, 1}}
  \cup {Line(op, 0, 2, rt, c, TRUE, cond) :
          op \in CompareOps, rt \in 0 .. 2, c \in {0, 1}, cond \in Conds}
  \cup {Line(op, 0, 0, 0, c, TRUE, "flag") : op \in ConditionBranches, c \in {0, 1}}
  \cup {Line(op, rd, 2, 0, 0, TRUE, "move") :
          op \in {"mfc1", "mtc1", "mfc1.d", "mtc1.d"}, rd \in {0, 2}}
  \cup {Line("li.s", 2, 0, 0, n, TRUE, "imm") : n \in 0 .. 15}
  \cup {Line("li.d", 2, 0, 0, n, TRUE, "imm") : n \in {0, 1, 16, 39, 128, 241, 255}}
  \cup {Line(op, rd, rs, 0, n, known, "imm") :
          op \in FloatMemory, rd \in {1, 2}, rs \in {0, 2}, n \in {-2, 0, 1}, known \in BOOLEAN}

AllLines == FloatCases \cup OnRegisters \cup NoDestination \cup OneOperand
              \cup WithImmediate \cup MemoryLines
AllBuilds == [big_endian : BOOLEAN, delayed_loads : BOOLEAN, delayed_branches : BOOLEAN]
Boundaries == {0, 1, 2, 6, 7, 8, 9, 15}
FiveRegisters == 0 .. 4
FourRegisters == 0 .. 3
TwoFlags == {0, 1}
TwoWords == 0 .. 7
TwoContents == {[a \in TwoWords |-> IF a \in {0, 3, 5, 6} THEN 1 ELSE 0],
                [a \in TwoWords |-> IF a \in {1, 2, 3, 4} THEN 1 ELSE 0]}
==============================================================================
