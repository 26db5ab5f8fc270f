------------------------- MODULE PseudoInstructions -------------------------
(***************************************************************************)
(* How the assembler turns a line into machine instructions (ASM_CODE of   *)
(* CPU/parser.y, i_type_inst and its helpers in CPU/inst.cpp), and what    *)
(* the instructions of Instructions then do.                               *)
(*                                                                         *)
(* A line is [op, rd, rs, rt, imm, known, form]: form says whether its     *)
(* last operand is a register or an immediate.  rd is the register         *)
(* written or stored, rs the base of an address.  An immediate is a        *)
(* constant, or a symbol with that value which is defined later (known =   *)
(* FALSE).  Of a label only matters that it is outside the line.  One line *)
(* is assembled and run, on any build and from any registers.              *)
(***************************************************************************)
EXTENDS FloatMeaning

CONSTANTS
  Lines,    \* the lines assembled
  Builds,   \* the machines they run on: [big_endian, delayed_loads, delayed_branches]
  Values,   \* the words the registers operated on start with
  Memories  \* the contents memory starts with

VARIABLES
  line, build,
  code,    \* the instructions stored for the line
  stage,   \* "read", "assembled", "run", or "fatal" after fatal_error
  m,       \* the machine
  before   \* history: the machine when the line started

vars == <<line, build, code, stage, m, before>>

-----------------------------------------------------------------------------
(* Making instructions.  bits says which half of its symbol's value an      *)
(* instruction still waits for.                                             *)

LoadStore == LoadOps \cup StoreOps \cup {"lwl", "lwr", "swl", "swr"} \cup FloatLoadStore

Instr(op, rd, rs, rt, imm, bits) ==
  <<[op |-> op, rd |-> rd, rs |-> rs, rt |-> rt, imm |-> imm, bits |-> bits]>>

r_type_inst(op, rd, rs, rt)       == Instr(op, rd, rs, rt, 0, "none")
r_sh_type_inst(op, rd, rt, shamt) == Instr(op, rd, 0, rt, shamt % WordBits, "none")
nop_inst  == r_sh_type_inst("sll", 0, 0, 0)
trap_inst == r_type_inst("break", 0, 0, 0)

\* An expression is [value, known, bits]; value is a signed word.
const_imm_expr(n)         == [value |-> Signed(Low(n)), known |-> TRUE, bits |-> "all"]
upper_bits_of_expr(e)     == [e EXCEPT !.bits = "upper"]
lower_bits_of_expr(e)     == [e EXCEPT !.bits = "lower"]
incr_expr_offset(e, n)    == [e EXCEPT !.value = Signed(Low(e.value + n))]
is_zero_imm(e)            == e.known /\ e.value = 0
eval_imm_expr(e) == IF e.bits = "upper" THEN Low(e.value) \div Half
                    ELSE IF e.bits = "lower" THEN Low(e.value) % Half ELSE e.value

\* Whether the value fits the field: sign extended or not.
FitsField(op, e) ==
  LET v == eval_imm_expr(e)
  IN  IF op \in Arithmetic \/ (op \in LoadStore /\ e.bits = "all")
      THEN Short(v) = v ELSE v \in 0 .. Half - 1

\* The one instruction of i_type_inst.  While it waits for a symbol, imm stands
\* for its expression.
OneInst(op, rt, rs, e) ==
  IF e.known THEN Instr(op, 0, rs, rt, Short(eval_imm_expr(e)), "none")
  ELSE Instr(op, 0, rs, rt, e.value, e.bits)

op_to_imm_op(op) ==
  [add |-> "addi", addu |-> "addiu", and |-> "andi", or |-> "ori", xor |-> "xori",
   slt |-> "slti", sltu |-> "sltiu", sllv |-> "sll", srav |-> "sra", srlv |-> "srl"][op]

ImmOps == [addi |-> "add", addiu |-> "addu", andi |-> "and", ori |-> "or",
           xori |-> "xor", slti |-> "slt", sltiu |-> "sltu", lui |-> "addu",
           sll |-> "sllv", sra |-> "srav", srl |-> "srlv"]
imm_op_to_op(op) == ImmOps[op]

\* What imm_op_to_op cannot convert ends the program.
Fatal == Instr("fatal_error", 0, 0, 0, 0, "none")

produce_immediate(e, rt) ==
  IF e.known /\ Low(e.value) % Half = 0
  THEN OneInst("lui", rt, 0, upper_bits_of_expr(e))
  ELSE IF e.known /\ Low(e.value) < Half
  THEN OneInst("ori", rt, 0, lower_bits_of_expr(e))
  ELSE OneInst("lui", at, 0, upper_bits_of_expr(e))
         \o OneInst("ori", rt, at, lower_bits_of_expr(e))

\* Loads and stores add the halves with the base; the low half is sign
\* extended, so the high half of a known value makes up for it here, that of
\* a symbol when it is defined.
\* Mutant: it does not.
AddressInPiecesUncarried(op, rt, rs, e) ==
  OneInst("lui", at, 0, upper_bits_of_expr(e))
    \o (IF rs # 0 THEN r_type_inst("addu", at, at, rs) ELSE <<>>)
    \o OneInst(op, rt, at, lower_bits_of_expr(e))
AddressInPieces(op, rt, rs, e) ==
  LET low == Low(e.value) % Half
      high == Low(e.value) \div Half + IF low >= Half \div 2 THEN 1 ELSE 0
  IN  (IF e.known THEN OneInst("lui", at, 0, const_imm_expr(high))
       ELSE OneInst("lui", at, 0, upper_bits_of_expr(e)))
        \o (IF rs # 0 THEN r_type_inst("addu", at, at, rs) ELSE <<>>)
        \o OneInst(op, rt, at, lower_bits_of_expr(e))

i_type_inst_full_word(op, rt, rs, e) ==
  IF op \in LoadStore THEN AddressInPieces(op, rt, rs, e)
  ELSE IF rs = 0 /\ op \in {"ori", "addi", "addiu", "lui"} THEN produce_immediate(e, rt)
  ELSE IF op \in DOMAIN ImmOps
  THEN produce_immediate(e, at) \o r_type_inst(imm_op_to_op(op), rt, rs, at)
  ELSE Fatal

i_type_inst(op, rt, rs, e) ==
  IF (e.known /\ FitsField(op, e)) \/ (~e.known /\ e.bits # "all")
  THEN OneInst(op, rt, rs, e) ELSE i_type_inst_full_word(op, rt, rs, e)

\* A branch over n instructions, or to the line's label.  The distance is
\* counted from the delay slot where there is one.
branch(op, rt, rs, n) ==
  Instr(op, 0, rs, rt, IF build.delayed_branches THEN n - 1 ELSE n, "none")

-----------------------------------------------------------------------------
(* The lines of the grammar.  rt is the register 0, or $at, after an        *)
(* immediate is brought into $at.                                           *)

Immediate(l) == [value |-> l.imm, known |-> l.known, bits |-> "all"]

\* lb ... lw and ld: a double word is two words.
LoadLine(l) ==
  i_type_inst(IF l.op = "ld" THEN "lw" ELSE l.op, l.rd, l.rs, Immediate(l))
    \o IF l.op = "ld" THEN i_type_inst("lw", l.rd + 1, l.rs, incr_expr_offset(Immediate(l), 4))
       ELSE <<>>

StoreLine(l) ==
  i_type_inst(IF l.op = "sd" THEN "sw" ELSE l.op, l.rd, l.rs, Immediate(l))
    \o IF l.op = "sd" THEN i_type_inst("sw", l.rd + 1, l.rs, incr_expr_offset(Immediate(l), 4))
       ELSE <<>>

LoadImmediateLine(l) ==
  IF l.op = "lui" THEN i_type_inst("lui", l.rd, 0, Immediate(l))
  ELSE IF l.op = "la" /\ l.rs # 0 THEN i_type_inst("addi", l.rd, l.rs, Immediate(l))
  ELSE i_type_inst("ori", l.rd, 0, Immediate(l))

\* The unaligned accesses read the address with offset +n for the part at the
\* higher address.
At(l, op, r, n) == i_type_inst(op, r, l.rs, incr_expr_offset(Immediate(l), n))

UnalignedLoad(l) ==
  LET high == IF build.big_endian THEN 0 ELSE 1   \* of a half word's bytes
  IN  IF l.op = "ulw"
      THEN At(l, "lwl", l.rd, 3 * high) \o At(l, "lwr", l.rd, 3 * (1 - high))
      ELSE At(l, IF l.op = "ulh" THEN "lb" ELSE "lbu", l.rd, high)
             \o At(l, "lbu", at, 1 - high)
             \o r_sh_type_inst("sll", l.rd, l.rd, ByteBits)
             \o r_type_inst("or", l.rd, l.rd, at)

\* ush rotates its source to reach the other byte, and back.
UnalignedStore(l) ==
  LET high == IF build.big_endian THEN 0 ELSE 1
  IN  IF l.op = "usw"
      THEN At(l, "swl", l.rd, 3 * high) \o At(l, "swr", l.rd, 3 * (1 - high))
      ELSE At(l, "sb", l.rd, 0)
             \o r_sh_type_inst("sll", at, l.rd, 3 * ByteBits)
             \o r_sh_type_inst("srl", l.rd, l.rd, ByteBits)
             \o r_type_inst("or", l.rd, l.rd, at)
             \o At(l, "sb", l.rd, 1)
             \o r_sh_type_inst("srl", at, l.rd, 3 * ByteBits)
             \o r_sh_type_inst("sll", l.rd, l.rd, ByteBits)
             \o r_type_inst("or", l.rd, l.rd, at)

MoveLine(l) ==
  CASE l.op = "abs"  -> (IF l.rd # l.rs THEN r_type_inst("addu", l.rd, 0, l.rs) ELSE <<>>)
                          \o branch("bgez", 0, l.rs, 3) \o nop_inst
                          \o r_type_inst("sub", l.rd, 0, l.rs)
    [] l.op = "neg"  -> r_type_inst("sub", l.rd, 0, l.rs)
    [] l.op = "negu" -> r_type_inst("subu", l.rd, 0, l.rs)
    [] l.op = "not"  -> r_type_inst("nor", l.rd, l.rs, 0)
    [] l.op = "move" -> r_type_inst("addu", l.rd, 0, l.rs)
    [] l.op \in LeadingOps  -> r_type_inst(l.op, l.rd, l.rs, l.rd)
    [] l.op \in MoveIfOps   -> r_type_inst(l.op, l.rd, l.rs, l.rt)
    [] l.op \in MoveFromOps -> r_type_inst(l.op, l.rd, 0, 0)
    [] l.op \in MoveToOps   -> r_type_inst(l.op, 0, l.rs, 0)

BinaryLine(l) ==
  IF l.form = "reg" THEN r_type_inst(l.op, l.rd, l.rs, l.rt)
  ELSE i_type_inst(IF l.op \in Arithmetic \cup Logical THEN l.op ELSE op_to_imm_op(l.op),
                   l.rd, l.rs, Immediate(l))

ShiftLine(l) ==
  LET variable == l.op \in {"sllv", "srav", "srlv"}
  IN  IF l.form = "reg"
      THEN r_type_inst(IF variable THEN l.op ELSE imm_op_to_op(l.op), l.rd, l.rt, l.rs)
      ELSE r_sh_type_inst(IF variable THEN op_to_imm_op(l.op) ELSE l.op, l.rd, l.rs, l.imm)

\* An immediate that is not 0 goes to $at, and the operation is on registers.
InRegister(l) == IF l.form = "reg" \/ is_zero_imm(Immediate(l)) THEN <<>>
                 ELSE i_type_inst("ori", at, 0, Immediate(l))
Second(l) == IF l.form = "reg" THEN l.rt
             ELSE IF is_zero_imm(Immediate(l)) THEN 0 ELSE at

NorLine(l) == InRegister(l) \o r_type_inst(l.op, l.rd, l.rs, Second(l))

SubLine(l) ==
  IF l.form = "reg" THEN r_type_inst(l.op, l.rd, l.rs, l.rt)
  ELSE i_type_inst(IF l.op = "sub" THEN "addi" ELSE "addiu", l.rd, l.rs,
                   const_imm_expr(-l.imm))

\* Division traps on a zero in a register, but not when the result is dropped.
div_inst(op, rd, rs, rt, const_divisor) ==
  (IF rd # 0 /\ ~const_divisor THEN branch("bne", 0, rt, 3) \o nop_inst \o trap_inst ELSE <<>>)
    \o r_type_inst(IF op \in {"div", "rem"} THEN "div" ELSE "divu", 0, rs, rt)
    \o (IF rd = 0 THEN <<>>
        ELSE r_type_inst(IF op \in {"div", "divu"} THEN "mflo" ELSE "mfhi", rd, 0, 0))

DivLine(l) ==
  IF l.form = "reg" THEN div_inst(l.op, l.rd, l.rs, l.rt, FALSE)
  ELSE i_type_inst("ori", at, 0, Immediate(l)) \o div_inst(l.op, l.rd, l.rs, at, TRUE)

mult_inst(op, rd, rs, rt) ==
  LET trap_unless(r1, r2) == branch("beq", r1, r2, 3) \o nop_inst \o trap_inst
  IN  r_type_inst(IF op = "mulou" THEN "multu" ELSE "mult", 0, rs, rt)
        \o (IF rd = 0 THEN <<>>
            ELSE r_type_inst("mfhi", at, 0, 0)
                   \o (IF op = "mulou" THEN trap_unless(0, at)
                       ELSE r_type_inst("mflo", rd, 0, 0)
                              \o r_sh_type_inst("sra", rd, rd, WordBits - 1)
                              \o trap_unless(rd, at))
                   \o r_type_inst("mflo", rd, 0, 0))

MulLine(l) ==
  IF l.form = "reg" THEN mult_inst(l.op, l.rd, l.rs, l.rt)
  ELSE IF is_zero_imm(Immediate(l)) THEN i_type_inst("ori", l.rd, 0, Immediate(l))
  ELSE i_type_inst("ori", at, 0, Immediate(l)) \o mult_inst(l.op, l.rd, l.rs, at)

\* The multiplications and divisions of the machine, on HI and LO or on rd.
HardwareLine(l) ==
  IF l.op \in {"div2", "divu2"}
  THEN r_type_inst(IF l.op = "div2" THEN "div" ELSE "divu", 0, l.rs, l.rt)
  ELSE IF l.op = "mul" /\ l.form = "imm"
  THEN i_type_inst("ori", at, 0, Immediate(l)) \o r_type_inst("mul", l.rd, l.rs, at)
  ELSE r_type_inst(l.op, l.rd, l.rs, l.rt)

RotateLine(l) ==
  LET left == l.op = "rol"
  IN  (IF l.form = "reg"
       THEN r_type_inst("subu", at, 0, l.rt)
              \o r_type_inst(IF left THEN "srlv" ELSE "sllv", at, at, l.rs)
              \o r_type_inst(IF left THEN "sllv" ELSE "srlv", l.rd, l.rt, l.rs)
       ELSE r_sh_type_inst(IF left THEN "srl" ELSE "sll", at, l.rs, -l.imm)
              \o r_sh_type_inst(IF left THEN "sll" ELSE "srl", l.rd, l.rs, l.imm))
        \o r_type_inst("or", l.rd, l.rd, at)

\* rd is 1 on equality; else the second branch is skipped.
set_or_equal(less, rd, rs, rt, first, second) ==
  branch("bne", rs, rt, 3)
    \o i_type_inst("ori", rd, 0, const_imm_expr(1))
    \o branch("beq", 0, 0, 3) \o nop_inst
    \o r_type_inst(less, rd, first, second)
set_le_inst(op, rd, rs, rt) ==
  set_or_equal(IF op = "sle" THEN "slt" ELSE "sltu", rd, rs, rt, rs, rt)
set_ge_inst(op, rd, rs, rt) ==
  set_or_equal(IF op = "sge" THEN "slt" ELSE "sltu", rd, rs, rt, rt, rs)
set_gt_inst(op, rd, rs, rt) ==
  r_type_inst(IF op = "sgt" THEN "slt" ELSE "sltu", rd, rt, rs)
set_eq_inst(op, rd, rs, rt) ==
  LET if_eq == IF op = "seq" THEN 1 ELSE 0
  IN  branch("beq", rs, rt, 3)
        \o i_type_inst("ori", rd, 0, const_imm_expr(1 - if_eq))
        \o branch("beq", 0, 0, 3) \o nop_inst
        \o i_type_inst("ori", rd, 0, const_imm_expr(if_eq))

SetLine(l) ==
  LET rt == Second(l)
  IN  InRegister(l) \o
        CASE l.op \in {"sle", "sleu"} -> set_le_inst(l.op, l.rd, l.rs, rt)
          [] l.op \in {"sgt", "sgtu"} -> set_gt_inst(l.op, l.rd, l.rs, rt)
          [] l.op \in {"sge", "sgeu"} -> set_ge_inst(l.op, l.rd, l.rs, rt)
          [] l.op \in {"seq", "sne"}  -> set_eq_inst(l.op, l.rd, l.rs, rt)

\* Branches of the machine, and on equality with an immediate or with 0.
BranchLine(l) ==
  CASE l.op \in {"beq", "beql", "bne", "bnel"} /\ l.form = "imm" ->
         InRegister(l) \o branch(l.op, l.rs, Second(l), Far)
    [] l.op \in {"beq", "beql", "bne", "bnel"} -> branch(l.op, l.rt, l.rs, Far)
    [] l.op = "beqz" -> branch("beq", 0, l.rs, Far)
    [] l.op = "bnez" -> branch("bne", 0, l.rs, Far)
    [] l.op = "b"    -> branch("bgez", 0, 0, Far)
    [] l.op = "bal"  -> branch("bgezal", 0, 0, Far)
    [] OTHER         -> branch(l.op, 0, l.rs, Far)

\* The comparisons, by way of $at.
Less(l) == IF l.op \in {"bgt", "bge", "blt", "ble"} THEN "slt" ELSE "sltu"
Plus1(l) == incr_expr_offset(Immediate(l), 1)

BranchGreater(l) ==
  CASE l.form = "reg" -> r_type_inst(Less(l), at, l.rt, l.rs) \o branch("bne", 0, at, Far)
    [] l.op = "bgt"   -> i_type_inst("slti", at, l.rs, Plus1(l)) \o branch("beq", 0, at, Far)
    [] OTHER          -> i_type_inst("ori", at, 0, Immediate(l))
                           \o branch("beq", l.rs, at, 3)
                           \o r_type_inst("sltu", at, l.rs, at)
                           \o branch("beq", 0, at, Far)

BranchLess(l) ==
  LET test == IF l.form = "reg" THEN r_type_inst(Less(l), at, l.rs, l.rt)
              ELSE i_type_inst(op_to_imm_op(Less(l)), at, l.rs, Immediate(l))
  IN  test \o branch(IF l.op \in {"bge", "bgeu"} THEN "beq" ELSE "bne", 0, at, Far)

BranchLessEqual(l) ==
  CASE l.form = "reg" -> r_type_inst(Less(l), at, l.rt, l.rs) \o branch("beq", 0, at, Far)
    [] l.op = "ble"   -> i_type_inst("slti", at, l.rs, Plus1(l)) \o branch("bne", 0, at, Far)
    [] OTHER          -> i_type_inst("ori", at, 0, Immediate(l))
                           \o branch("beq", l.rs, at, Far)
                           \o r_type_inst("sltu", at, l.rs, at)
                           \o branch("bne", 0, at, Far)

JumpLine(l) ==
  IF l.form = "label"
  THEN Instr(IF l.op \in {"j", "jr"} THEN "j" ELSE "jal", 0, 0, 0, Far, "none")
  ELSE IF l.op \in {"j", "jr"} THEN r_type_inst("jr", 0, l.rs, 0)
  ELSE r_type_inst("jalr", IF l.form = "reg" THEN ra ELSE l.rd, l.rs, 0)

TrapLine(l) == IF l.form = "reg" THEN r_type_inst(l.op, 0, l.rs, l.rt)
               ELSE i_type_inst(l.op, 0, l.rs, Immediate(l))

\* Instructions of the floating-point unit: FS is in rd, FT in rt, FD in imm.
r_co_type_inst(op, fd, fs, ft) == Instr(op, fs, 0, ft, fd, "none")
cc_to_rt(cc, nd, tf) == 4 * cc + 2 * nd + tf
CONDs ==
  [f |-> 0, un |-> COND_UN, eq |-> COND_EQ, ueq |-> COND_EQ + COND_UN,
   olt |-> COND_LT, ole |-> COND_LT + COND_EQ, ult |-> COND_LT + COND_UN,
   ule |-> COND_LT + COND_EQ + COND_UN, sf |-> COND_IN, ngle |-> COND_IN + COND_UN,
   seq |-> COND_IN + COND_EQ, ngl |-> COND_IN + COND_EQ + COND_UN, lt |-> COND_IN + COND_LT,
   nge |-> COND_IN + COND_LT + COND_UN, le |-> COND_IN + COND_LT + COND_EQ,
   ngt |-> COND_IN + COND_LT + COND_EQ + COND_UN]
COND(cond) == CONDs[cond]
r_cond_type_inst(op, cond, fs, ft, cc) == Instr(op, fs, COND(cond), ft, 4 * cc, "none")

FloatMemoryLine(l) ==
  LET op == IF l.op = "l.d" THEN "ldc1" ELSE IF l.op = "l.s" THEN "lwc1"
            ELSE IF l.op = "s.d" THEN "sdc1" ELSE IF l.op = "s.s" THEN "swc1" ELSE l.op
  IN  i_type_inst(op, l.rd, l.rs, Immediate(l))

\* The words of a double in the host's order, by way of $at.
FloatImmediateLine(l) ==
  LET high == l.imm \div Word
      low == l.imm % Word
      put(word, r) == i_type_inst("ori", at, 0, const_imm_expr(word))
                        \o r_co_type_inst("mtc1", 0, r, at)
  IN  IF l.op = "li.s" THEN put(l.imm, l.rd)
      ELSE put(IF build.big_endian THEN high ELSE low, l.rd)
             \o put(IF build.big_endian THEN low ELSE high, l.rd + 1)

CoprocessorLine(l) ==
  LET move(k) == IF l.op \in {"mfc1", "mfc1.d"}
                 THEN r_co_type_inst("mfc1", 0, l.rs + k, l.rd + k)
                 ELSE r_co_type_inst("mtc1", 0, l.rd + k, l.rs + k)
  IN  move(0) \o IF l.op \in {"mfc1.d", "mtc1.d"} THEN move(1) ELSE <<>>

FloatMoveLine(l) ==
  r_co_type_inst(l.op, l.rd, l.rs,
                 IF l.op \in {"movn.s", "movn.d", "movz.s", "movz.d"} THEN l.rt
                 ELSE IF l.op \in {"movf.s", "movf.d", "movt.s", "movt.d"}
                 THEN cc_to_rt(l.imm, 0, 0) ELSE 0)

\* Mutant: the branch on true does not say so to the machine.
ConditionBranchLineFalse(l) ==
  LET nd == IF l.op \in {"bc1fl", "bc1tl"} THEN 1 ELSE 0
  IN  branch(l.op, cc_to_rt(l.imm, nd, 0), 0, Far)
ConditionBranchLine(l) ==
  LET nd == IF l.op \in {"bc1fl", "bc1tl"} THEN 1 ELSE 0
      tf == IF l.op \in {"bc1t", "bc1tl"} THEN 1 ELSE 0
  IN  branch(l.op, cc_to_rt(l.imm, nd, tf), 0, Far)

FloatLine(l) ==
  CASE l.op \in FloatMemory       -> FloatMemoryLine(l)
    [] l.op \in {"li.s", "li.d"}  -> FloatImmediateLine(l)
    [] l.op \in FloatMoves        -> FloatMoveLine(l)
    [] l.op \in MoveOnOps         -> r_type_inst(l.op, l.rd, l.rs, 4 * (l.imm % 8))
    [] l.op \in CompareOps        -> r_cond_type_inst(l.op, l.form, l.rs, l.rt, l.imm)
    [] l.op \in ConditionBranches -> ConditionBranchLine(l)
    [] OTHER                      -> CoprocessorLine(l)

\* The lines by the rule of the grammar that reads them.
BinaryLines   == {"and", "or", "xor"} \cup AddOps \cup Logical \cup SetLessOps
ShiftLines    == ShiftLeftOps \cup ShiftRightOps
HardwareLines == MultiplyOps \cup MultiplyAddOps \cup MultiplySubOps \cup {"div2", "divu2"}
SetLines      == {"sle", "sleu", "sgt", "sgtu", "sge", "sgeu", "seq", "sne"}
BranchLines   == (BranchOps \ (JumpOps \cup ConditionBranches)) \cup {"beqz", "bnez", "b", "bal"}
MoveLines     == {"abs", "neg", "negu", "not", "move"} \cup LeadingOps \cup MoveIfOps
                   \cup MoveFromOps \cup MoveToOps

MemoryLine(l) ==
  CASE l.op \in LoadOps \cup {"ld"}    -> LoadLine(l)
    [] l.op \in StoreOps \cup {"sd"}   -> StoreLine(l)
    [] l.op \in {"ulw", "ulh", "ulhu"} -> UnalignedLoad(l)
    [] l.op \in {"usw", "ush"}         -> UnalignedStore(l)

ControlLine(l) ==
  CASE l.op \in {"bgt", "bgtu"}                -> BranchGreater(l)
    [] l.op \in {"bge", "bgeu", "blt", "bltu"} -> BranchLess(l)
    [] l.op \in {"ble", "bleu"}                -> BranchLessEqual(l)
    [] l.op \in JumpOps                        -> JumpLine(l)
    [] l.op \in TrapOps                        -> TrapLine(l)
    [] l.op \in BranchLines                    -> BranchLine(l)

ComputeLine(l) ==
  CASE l.op \in {"li", "la", "lui"}            -> LoadImmediateLine(l)
    [] l.op \in BinaryLines                    -> BinaryLine(l)
    [] l.op \in ShiftLines                     -> ShiftLine(l)
    [] l.op = "nor"                            -> NorLine(l)
    [] l.op \in SubOps                         -> SubLine(l)
    [] l.op \in {"div", "divu", "rem", "remu"} -> DivLine(l)
    [] l.op \in {"mulo", "mulou"}              -> MulLine(l)
    [] l.op \in HardwareLines                  -> HardwareLine(l)
    [] l.op \in {"rol", "ror"}                 -> RotateLine(l)
    [] l.op \in SetLines                       -> SetLine(l)
    [] l.op \in MoveLines                      -> MoveLine(l)

ASM_CODE(l) ==
  IF l.op \in FloatLines THEN FloatLine(l)
  ELSE IF l.op \in LoadLines \cup StoreLines THEN MemoryLine(l)
  ELSE IF l.op \in Branches \cup TrapOps THEN ControlLine(l)
  ELSE ComputeLine(l)

\* The operands of a line are registers of their kind, with the next register
\* where it needs a second one, and its immediate is a number.
LineOps ==
  FloatLines \cup LoadLines \cup StoreLines \cup Branches \cup TrapOps
    \cup {"li", "la", "lui", "nor", "div", "divu", "rem", "remu", "mulo", "mulou", "rol", "ror"}
    \cup BinaryLines \cup ShiftLines \cup SubOps \cup HardwareLines \cup SetLines \cup MoveLines
Destinations(l) ==
  IF l.op \in FloatLines \ (MoveOnOps \cup CompareOps \cup ConditionBranches \cup {"mfc1", "mfc1.d"})
  THEN FloatRegisters ELSE Registers
Sources(l) == IF l.op \in FloatMoves \cup CompareOps \cup {"mfc1", "mfc1.d"}
              THEN FloatRegisters ELSE Registers
LineOK(l) ==
  /\ l.op \in LineOps /\ l.imm \in Int /\ l.known \in BOOLEAN
  /\ l.rd \in Destinations(l) /\ l.rs \in Sources(l)
  /\ l.rt \in IF l.op \in CompareOps THEN FloatRegisters ELSE Registers
  /\ l.op \in {"ld", "sd"} => l.rd + 1 \in Registers
  /\ l.op \in {"ldc1", "l.d", "li.d", "mfc1.d", "mtc1.d"} => l.rd + 1 \in Destinations(l)
  /\ l.op \in {"mfc1.d", "mtc1.d"} => l.rs + 1 \in Sources(l)
  /\ l.op \in TrapOps \ Arithmetic => l.form = "reg"
  /\ l.op \in CompareOps => l.form \in DOMAIN CONDs
ASSUME LinesOK ==
  /\ \A l \in Lines : LineOK(l)
  /\ Values # {} /\ Values \subseteq Words
  /\ Memories # {} /\ Memories \subseteq [Memory -> 0 .. Byte - 1]

-----------------------------------------------------------------------------
(* A line is read, its symbol defined if it was not yet, and run. *)

\* What a line does not read does not vary.
Varying(read, set) == IF read THEN set ELSE {CHOOSE x \in set : TRUE}
OnMemory(l) == l.op \in LoadLines \cup StoreLines \cup FloatMemory
OnDouble(l) == l.op \in FloatLines /\ Wide(l)
OnFlags(l)  == l.op \in ConditionBranches \cup MoveOnOps
                         \cup {"movf.s", "movf.d", "movt.s", "movt.d"}
TwoOperands(l) == l.form = "reg" \/ l.op \in FloatLines \ FloatMemory

\* A double at rs is <<v, w>> and one at rt <<w, v>>, so that either word decides.
Entry(l, v, w, bytes, flags) ==
  [R |-> [r \in Registers |-> IF r = 0 THEN 0 ELSE IF r = l.rs THEN v
                             ELSE IF r = l.rt /\ TwoOperands(l) THEN w ELSE Low(5 + r)],
   F |-> [r \in FloatRegisters |-> IF r = l.rs THEN v ELSE IF r = l.rt THEN w
                                  ELSE IF r = l.rs + 1 THEN w ELSE IF r = l.rt + 1 THEN v
                                  ELSE Low(3 + r)],
   FCC |-> flags,
   HI |-> Low(6), LO |-> Low(9), mem |-> bytes, exception |-> "none",
   PC |-> 1, late1 |-> <<>>, late2 |-> <<>>]

Init ==
  /\ line \in Lines
  /\ build \in {b \in Builds : /\ b.delayed_loads => OnMemory(line)
                              /\ b.big_endian => OnMemory(line) \/ OnDouble(line)}
  /\ \E v \in Varying(line.rs # 0, Values),
        w \in Varying(TwoOperands(line) /\ line.rt \notin {0, line.rs}, Values),
        bytes \in Varying(OnMemory(line), Memories),
        flags \in Varying(OnFlags(line), [Conditions -> {0, 1}]) :
       m = Entry(line, v, w, bytes, flags)
  /\ code = <<>> /\ stage = "read" /\ before = m

Assemble ==
  /\ stage = "read"
  /\ code' = ASM_CODE(line)
  /\ stage' = IF \E k \in DOMAIN code' : code'[k].op = "fatal_error" THEN "fatal"
              ELSE IF \E k \in DOMAIN code' : code'[k].bits # "none" THEN "assembled" ELSE "run"
  /\ UNCHANGED <<line, build, m, before>>

\* resolve_label_uses patches the newest use first.  A load or store whose low
\* half is negative adds to the lui before it, or before the addu before it,
\* which waits for the symbol too and so is patched later.
lui_of(c, j) == IF c[j - 1].op = "lui" THEN j - 1 ELSE j - 2
Carries(c, k) == {j \in k + 1 .. Len(c) :
                    /\ c[j].op \in LoadStore /\ c[j].bits = "lower"
                    /\ lui_of(c, j) = k /\ c[j].imm % Half >= Half \div 2}
Patched(c) ==
  LET value(k) == c[k].imm + Half * Cardinality(Carries(c, k))
      half(k) == IF c[k].bits = "upper" THEN Low(value(k)) \div Half ELSE Low(value(k)) % Half
  IN  [k \in DOMAIN c |-> IF c[k].bits = "none" THEN c[k]
                          ELSE [c[k] EXCEPT !.imm = Short(half(k)), !.bits = "none"]]
DefineSymbol ==
  /\ stage = "assembled"
  /\ code' = Patched(code)
  /\ stage' = "run"
  /\ UNCHANGED <<line, build, m, before>>

Ended == m.exception # "none" \/ m.PC > Len(code)

RunInstruction ==
  /\ stage = "run" /\ ~Ended
  /\ m' = RunStep(m, build, code)
  /\ UNCHANGED <<line, build, code, stage, before>>

Next == Assemble \/ DefineSymbol \/ RunInstruction

Spec == Init /\ [][Next]_vars

-----------------------------------------------------------------------------
(* Properties *)

TypeOK ==
  /\ build \in Builds
  /\ stage \in {"read", "assembled", "run", "fatal"}
  /\ m.R \in [Registers -> Words] /\ m.HI \in Words /\ m.LO \in Words
  /\ m.mem \in [Memory -> 0 .. Byte - 1]
  /\ m.F \in [FloatRegisters -> Words] /\ m.FCC \in [Conditions -> {0, 1}]
  /\ m.exception \in {"none", "Ov", "Tr", "Bp", "AdEL", "AdES", "DBE", "FPE", "run_error"}

\* The machine with its late loads arrived.
Settled == DO_DELAYED_UPDATE(DO_DELAYED_UPDATE(m))

\* Lines that do not do what they say.
\* The base of a two-part access is overwritten by its first part.
LosesBase == line.op \in {"ulw", "ulh", "ulhu", "ld", "ush"} /\ line.rd = line.rs /\ line.rd # 0
\* ush has rotated its source when its second byte faults.
LeftRotated == line.op = "ush" /\ m.exception # "none"
\* divu refuses the operands that overflow div.
DivuRefuses ==
  /\ line.op \in {"divu", "remu", "divu2"}
  /\ First(line, before) = Word \div 2 /\ Other(line, before) = Word - 1
\* The immediate plus 1, or its negative, is not a word.
ImmediateOverflows ==
  /\ line.form = "imm"
  /\ \/ line.op \in {"bgt", "ble"} /\ line.imm = Word \div 2 - 1
     \/ line.op = "sub" /\ line.imm = -(Word \div 2)
\* The first branch of a comparison has the instruction that writes rd in its
\* delay slot.
SlotOverwrites ==
  /\ build.delayed_branches /\ line.op \in {"sle", "sleu", "sge", "sgeu"}
  /\ line.rd # 0 /\ (line.rd = line.rs \/ (line.form = "reg" /\ line.rd = line.rt))
\* lwr reads the register lwl has not written yet.
LoadsTooLate == build.delayed_loads /\ line.op = "ulw"
\* la adds with addi.
AddressTraps == line.op = "la" /\ m.exception = "Ov"
\* A likely branch skips an instruction where nothing is in its delay slot.
SkipsWithoutSlot == line.op \in Likely \cup {"bc1fl", "bc1tl"} /\ ~build.delayed_branches
\* The assembler stops at an immediate a trap instruction has no room for.
TrapTooWide == line.op \in TrapOps /\ stage = "fatal"

\* The second word of a double takes the place of the first in the pipeline.
HalfLost == build.delayed_loads /\ line.op \in {"ldc1", "l.d"}

KnownWrong ==
  LosesBase \/ LeftRotated \/ DivuRefuses \/ ImmediateOverflows \/ SlotOverwrites
  \/ LoadsTooLate \/ AddressTraps \/ SkipsWithoutSlot \/ TrapTooWide
  \/ HalfLost

\* Whatever instructions a line becomes, however large its immediate and
\* whether its symbol is defined before or after it: on any build and from any
\* registers the line does what it says, but for the lines above.
MeansWhatItSays ==
  (stage = "run" /\ Ended) \/ stage = "fatal" =>
    \/ KnownWrong \/ Undefined(line, before)
    \/ IF line.op \in FloatLines THEN FloatMeans(line, build, before, Settled, Len(code))
       ELSE Means(line, build, before, Settled, Len(code))
=============================================================================
