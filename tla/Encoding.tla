------------------------------- MODULE Encoding -------------------------------
(***************************************************************************)
(* Instructions as words of memory: the table of op.h, inst_encode and     *)
(* inst_decode (CPU/inst.cpp).  The simulator keeps instructions decoded,  *)
(* with the word beside them.  A guest that copies code reads the word of  *)
(* an instruction and stores it, whole or byte by byte, over another word  *)
(* of text, which is decoded again at each store (CPU/mem.cpp).            *)
(*                                                                         *)
(* A word, and a field of a word, is the set of its bits that are 1, so    *)
(* that | is \cup and & is \cap.  An instruction is a record of its fields: *)
(* FS, FT, FD, COND and BASE are the fields rd, rt, shamt, rs and rs       *)
(* (CPU/inst.h:109-135).                                                   *)
(***************************************************************************)
EXTENDS Integers, Sequences, FiniteSets

CONSTANTS
  RegNos,     \* the register numbers the program text uses
  Immediates, \* its immediates, as the 16 bits that are kept
  Targets,    \* its jump targets
  Codes,      \* the codes of its break instructions
  CCs,        \* the condition codes of its floating-point instructions
  DataWords   \* words that are stored in text and come from elsewhere

ASSUME ParametersAssumption ==
  /\ RegNos \subseteq SUBSET (0 .. 4)
  /\ Immediates \subseteq SUBSET (0 .. 15)
  /\ Targets \subseteq SUBSET (0 .. 25)
  /\ Codes \subseteq SUBSET (0 .. 7)
  /\ CCs \subseteq SUBSET (0 .. 2)
  /\ DataWords \subseteq SUBSET (0 .. 31)

Bits(n, o) == {o + i : i \in {j \in 0 .. 15 : (n \div 2 ^ j) % 2 = 1}}
Shift(s, o) == {o + b : b \in s}
Field(word, o, width) == {b \in 0 .. width - 1 : o + b \in word}
ByteOf(b) == 8 * b .. 8 * b + 7

-----------------------------------------------------------------------------
\* The rows of op.h that are instructions: name, format, and the two halves of
\* the word.  The comparisons c.cond.fmt are built from the condition's number.
Conds == <<"f", "un", "eq", "ueq", "olt", "ult", "ole", "ule",
           "sf", "ngle", "seq", "ngl", "lt", "nge", "le", "ngt">>
Comparisons ==
  {<<"c." \o Conds[n] \o fmt[1], "FP_CMP", fmt[2], \h002f + n>> :
     n \in DOMAIN Conds, fmt \in {<<".s", \h4600>>, <<".d", \h4620>>, <<".ps", \h4660>>}}

OpsAC == {
  <<"abs.d", "FP_R2ds", \h4620, \h0005>>, <<"abs.ps", "FP_R2ds", \h4660, \h0005>>,
  <<"abs.s", "FP_R2ds", \h4600, \h0005>>, <<"add", "R3", \h0000, \h0020>>,
  <<"add.d", "FP_R3", \h4620, \h0000>>, <<"add.ps", "FP_R3", \h4660, \h0000>>,
  <<"add.s", "FP_R3", \h4600, \h0000>>, <<"addi", "I2", \h2000, \h0000>>,
  <<"addiu", "I2", \h2400, \h0000>>, <<"addu", "R3", \h0000, \h0021>>,
  <<"alnv.ps", "FP_R4", \h4c00, \h001e>>, <<"and", "R3", \h0000, \h0024>>,
  <<"andi", "I2", \h3000, \h0000>>, <<"bc1f", "BC", \h4500, \h0000>>,
  <<"bc1fl", "BC", \h4502, \h0000>>, <<"bc1t", "BC", \h4501, \h0000>>,
  <<"bc1tl", "BC", \h4503, \h0000>>, <<"bc2f", "BC", \h4900, \h0000>>,
  <<"bc2fl", "BC", \h4902, \h0000>>, <<"bc2t", "BC", \h4901, \h0000>>,
  <<"bc2tl", "BC", \h4903, \h0000>>, <<"beq", "B2", \h1000, \h0000>>,
  <<"beql", "B2", \h5000, \h0000>>, <<"bgez", "B1", \h0401, \h0000>>,
  <<"bgezal", "B1", \h0411, \h0000>>, <<"bgezall", "B1", \h0413, \h0000>>,
  <<"bgezl", "B1", \h0403, \h0000>>, <<"bgtz", "B1", \h1c00, \h0000>>,
  <<"bgtzl", "B1", \h5c00, \h0000>>, <<"blez", "B1", \h1800, \h0000>>,
  <<"blezl", "B1", \h5800, \h0000>>, <<"bltz", "B1", \h0400, \h0000>>,
  <<"bltzal", "B1", \h0410, \h0000>>, <<"bltzall", "B1", \h0412, \h0000>>,
  <<"bltzl", "B1", \h0402, \h0000>>, <<"bne", "B2", \h1400, \h0000>>,
  <<"bnel", "B2", \h5400, \h0000>>, <<"break", "NOARG", \h0000, \h000d>>}

OpsCL == {
  <<"cache", "I2", \hbc00, \h0000>>, <<"ceil.l.d", "FP_R2ds", \h4620, \h000a>>,
  <<"ceil.l.s", "FP_R2ds", \h4600, \h000a>>, <<"ceil.w.d", "FP_R2ds", \h4620, \h000e>>,
  <<"ceil.w.s", "FP_R2ds", \h4600, \h000e>>, <<"cfc0", "FP_R2ts", \h4040, \h0000>>,
  <<"cfc1", "FP_R2ts", \h4440, \h0000>>, <<"cfc2", "FP_R2ts", \h4840, \h0000>>,
  <<"clo", "R3", \h7000, \h0021>>, <<"clz", "R3", \h7000, \h0020>>,
  <<"cop2", "J", \h4a00, \h0000>>, <<"ctc0", "FP_R2ts", \h40c0, \h0000>>,
  <<"ctc1", "FP_R2ts", \h44c0, \h0000>>, <<"ctc2", "FP_R2ts", \h48c0, \h0000>>,
  <<"cvt.d.l", "FP_R2ds", \h46b0, \h0021>>, <<"cvt.d.s", "FP_R2ds", \h4600, \h0021>>,
  <<"cvt.d.w", "FP_R2ds", \h4620, \h0021>>, <<"cvt.l.d", "FP_R2ds", \h4620, \h0025>>,
  <<"cvt.l.s", "FP_R2ds", \h4600, \h0025>>, <<"cvt.ps.s", "FP_R2ds", \h4600, \h0026>>,
  <<"cvt.s.d", "FP_R2ds", \h4620, \h0020>>, <<"cvt.s.l", "FP_R2ds", \h46b0, \h0020>>,
  <<"cvt.s.pl", "FP_R2ds", \h46c0, \h0024>>, <<"cvt.s.pu", "FP_R2ds", \h46c0, \h0020>>,
  <<"cvt.s.w", "FP_R2ds", \h4680, \h0020>>, <<"cvt.w.d", "FP_R2ds", \h4620, \h0024>>,
  <<"cvt.w.s", "FP_R2ds", \h4600, \h0024>>, <<"deret", "NOARG", \h4200, \h001f>>,
  <<"di", "I1t", \h4160, \h6000>>, <<"div", "R2st", \h0000, \h001a>>,
  <<"div.d", "FP_R3", \h4620, \h0003>>, <<"div.s", "FP_R3", \h4600, \h0003>>,
  <<"divu", "R2st", \h0000, \h001b>>, <<"ehb", "NOARG", \h0000, \h00c0>>,
  <<"ei", "I1t", \h4160, \h6020>>, <<"eret", "NOARG", \h4200, \h0018>>,
  <<"ext", "FP_R2ds", \h7c00, \h0000>>, <<"floor.l.d", "FP_R2ds", \h4620, \h000b>>,
  <<"floor.l.s", "FP_R2ds", \h4600, \h000b>>, <<"floor.w.d", "FP_R2ds", \h4620, \h000f>>,
  <<"floor.w.s", "FP_R2ds", \h4600, \h000f>>, <<"ins", "FP_R2ds", \h7c00, \h0004>>,
  <<"j", "J", \h0800, \h0000>>, <<"jal", "J", \h0c00, \h0000>>,
  <<"jalr", "R2ds", \h0000, \h0009>>, <<"jalr.hb", "R2ds", \h0000, \h0409>>,
  <<"jr", "R1s", \h0000, \h0008>>, <<"jr.hb", "R1s", \h0000, \h0408>>,
  <<"lb", "I2a", \h8000, \h0000>>, <<"lbu", "I2a", \h9000, \h0000>>,
  <<"ldc1", "FP_I2a", \hd400, \h0000>>, <<"ldc2", "I2a", \hd800, \h0000>>,
  <<"ldxc1", "FP_R3", \h4c00, \h0001>>, <<"lh", "I2a", \h8400, \h0000>>,
  <<"lhu", "I2a", \h9400, \h0000>>, <<"ll", "I2a", \hc000, \h0000>>,
  <<"lui", "I1t", \h3c00, \h0000>>, <<"luxc1", "FP_R3", \h4c00, \h0005>>,
  <<"lw", "I2a", \h8c00, \h0000>>, <<"lwc1", "FP_I2a", \hc400, \h0000>>,
  <<"lwc2", "I2a", \hc800, \h0000>>, <<"lwl", "I2a", \h8800, \h0000>>,
  <<"lwr", "I2a", \h9800, \h0000>>, <<"lwxc1", "FP_R3", \h4c00, \h0000>>,
  <<"madd", "R2st", \h7000, \h0000>>, <<"madd.d", "FP_R4", \h4c00, \h0001>>,
  <<"madd.ps", "FP_R4", \h4c00, \h0006>>, <<"madd.s", "FP_R4", \h4c00, \h0000>>,
  <<"maddu", "R2st", \h7000, \h0001>>, <<"mfc0", "R2td", \h4000, \h0000>>}

OpsMR == {
  <<"mfc1", "FP_R2ts", \h4400, \h0000>>, <<"mfc2", "R2td", \h4800, \h0000>>,
  <<"mfhc1", "FP_R2ts", \h4460, \h0000>>, <<"mfhc2", "R2td", \h4860, \h0000>>,
  <<"mfhi", "R1d", \h0000, \h0010>>, <<"mflo", "R1d", \h0000, \h0012>>,
  <<"mov.d", "FP_R2ds", \h4620, \h0006>>, <<"mov.ps", "FP_R2ds", \h46c0, \h0006>>,
  <<"mov.s", "FP_R2ds", \h4600, \h0006>>, <<"movf", "MOVC", \h0000, \h0001>>,
  <<"movf.d", "FP_MOVC", \h4620, \h0011>>, <<"movf.ps", "FP_MOVC", \h46c0, \h0011>>,
  <<"movf.s", "FP_MOVC", \h4600, \h0011>>, <<"movn", "R3", \h0000, \h000b>>,
  <<"movn.d", "FP_MOVC", \h4620, \h0013>>, <<"movn.ps", "FP_MOVC", \h46c0, \h0013>>,
  <<"movn.s", "FP_MOVC", \h4600, \h0013>>, <<"movt", "MOVC", \h0001, \h0001>>,
  <<"movt.d", "FP_MOVC", \h4621, \h0011>>, <<"movt.ps", "FP_MOVC", \h46c1, \h0011>>,
  <<"movt.s", "FP_MOVC", \h4601, \h0011>>, <<"movz", "R3", \h0000, \h000a>>,
  <<"movz.d", "FP_MOVC", \h4620, \h0012>>, <<"movz.ps", "FP_MOVC", \h46c0, \h0012>>,
  <<"movz.s", "FP_MOVC", \h4600, \h0012>>, <<"msub", "R2st", \h7000, \h0004>>,
  <<"msub.d", "FP_R4", \h4c00, \h0021>>, <<"msub.ps", "FP_R4", \h4c00, \h0026>>,
  <<"msub.s", "FP_R4", \h4c00, \h0020>>, <<"msubu", "R2st", \h7000, \h0005>>,
  <<"mtc0", "R2td", \h4080, \h0000>>, <<"mtc1", "FP_R2ts", \h4480, \h0000>>,
  <<"mtc2", "R2td", \h4880, \h0000>>, <<"mthc1", "FP_R2ts", \h44e0, \h0000>>,
  <<"mthc2", "R2td", \h48e0, \h0000>>, <<"mthi", "R1s", \h0000, \h0011>>,
  <<"mtlo", "R1s", \h0000, \h0013>>, <<"mul", "R3", \h7000, \h0002>>,
  <<"mul.d", "FP_R3", \h4620, \h0002>>, <<"mul.ps", "FP_R3", \h46c0, \h0002>>,
  <<"mul.s", "FP_R3", \h4600, \h0002>>, <<"mult", "R2st", \h0000, \h0018>>,
  <<"multu", "R2st", \h0000, \h0019>>, <<"neg.d", "FP_R2ds", \h4620, \h0007>>,
  <<"neg.ps", "FP_R2ds", \h46c0, \h0007>>, <<"neg.s", "FP_R2ds", \h4600, \h0007>>,
  <<"nmadd.d", "FP_R4", \h4c00, \h0031>>, <<"nmadd.ps", "FP_R4", \h4c00, \h0036>>,
  <<"nmadd.s", "FP_R4", \h4c00, \h0030>>, <<"nmsub.d", "FP_R4", \h4c00, \h0039>>,
  <<"nmsub.ps", "FP_R4", \h4c00, \h003e>>, <<"nmsub.s", "FP_R4", \h4c00, \h0038>>,
  <<"nor", "R3", \h0000, \h0027>>, <<"or", "R3", \h0000, \h0025>>,
  <<"ori", "I2", \h3400, \h0000>>, <<"pll.ps", "FP_R3", \h46c0, \h002c>>,
  <<"plu.ps", "FP_R3", \h46c0, \h002d>>, <<"pref", "I2", \hcc00, \h0000>>,
  <<"prefx", "R2st", \h4600, \h000f>>, <<"pul.ps", "FP_R3", \h46c0, \h002e>>,
  <<"puu.ps", "FP_R3", \h46c0, \h002f>>, <<"rdhwr", "R3", \h7c00, \h003b>>,
  <<"rdpgpr", "R2td", \h4140, \h0000>>, <<"recip.d", "FP_R2ds", \h4620, \h0015>>,
  <<"recip.s", "FP_R2ds", \h4600, \h0015>>, <<"rfe", "NOARG", \h4200, \h0010>>,
  <<"rotr", "R2sh", \h0020, \h0002>>, <<"rotrv", "R2sh", \h0020, \h0003>>,
  <<"round.l.d", "FP_R2ds", \h4620, \h0008>>, <<"round.l.s", "FP_R2ds", \h4600, \h0008>>,
  <<"round.w.d", "FP_R2ds", \h4620, \h000c>>, <<"round.w.s", "FP_R2ds", \h4600, \h000c>>,
  <<"rsqrt.d", "FP_R2ds", \h4620, \h0016>>, <<"rsqrt.s", "FP_R2ds", \h4600, \h0016>>}

OpsSX == {
  <<"sb", "I2a", \ha000, \h0000>>, <<"sc", "I2a", \he000, \h0000>>,
  <<"sdbbp", "NOARG", \h7000, \h003f>>, <<"sdc1", "FP_I2a", \hf400, \h0000>>,
  <<"sdc2", "I2a", \hf800, \h0000>>, <<"sdxc1", "FP_R3", \h4600, \h0009>>,
  <<"seb", "R2td", \h7c00, \h0420>>, <<"seh", "R2td", \h7c00, \h0620>>,
  <<"sh", "I2a", \ha400, \h0000>>, <<"sll", "R2sh", \h0000, \h0000>>,
  <<"sllv", "R3sh", \h0000, \h0004>>, <<"slt", "R3", \h0000, \h002a>>,
  <<"slti", "I2", \h2800, \h0000>>, <<"sltiu", "I2", \h2c00, \h0000>>,
  <<"sltu", "R3", \h0000, \h002b>>, <<"sqrt.d", "FP_R2ds", \h4620, \h0004>>,
  <<"sqrt.s", "FP_R2ds", \h4600, \h0004>>, <<"sra", "R2sh", \h0000, \h0003>>,
  <<"srav", "R3sh", \h0000, \h0007>>, <<"srl", "R2sh", \h0000, \h0002>>,
  <<"srlv", "R3sh", \h0000, \h0006>>, <<"ssnop", "R2sh", \h0000, \h0040>>,
  <<"sub", "R3", \h0000, \h0022>>, <<"sub.d", "FP_R3", \h4620, \h0001>>,
  <<"sub.ps", "FP_R3", \h4660, \h0001>>, <<"sub.s", "FP_R3", \h4600, \h0001>>,
  <<"subu", "R3", \h0000, \h0023>>, <<"suxc1", "FP_R3", \h4600, \h000d>>,
  <<"sw", "I2a", \hac00, \h0000>>, <<"swc1", "FP_I2a", \he400, \h0000>>,
  <<"swc2", "I2a", \he800, \h0000>>, <<"swl", "I2a", \ha800, \h0000>>,
  <<"swr", "I2a", \hb800, \h0000>>, <<"swxc1", "FP_R3", \h4600, \h0008>>,
  <<"sync", "NOARG", \h0000, \h000f>>, <<"synci", "I2", \h0414, \h0000>>,
  <<"syscall", "NOARG", \h0000, \h000c>>, <<"teq", "R2st", \h0000, \h0034>>,
  <<"teqi", "I1s", \h040c, \h0000>>, <<"tge", "R2st", \h0000, \h0030>>,
  <<"tgei", "I1s", \h0408, \h0000>>, <<"tgeiu", "I1s", \h0409, \h0000>>,
  <<"tgeu", "R2st", \h0000, \h0031>>, <<"tlbp", "NOARG", \h4200, \h0008>>,
  <<"tlbr", "NOARG", \h4200, \h0001>>, <<"tlbwi", "NOARG", \h4200, \h0002>>,
  <<"tlbwr", "NOARG", \h4200, \h0006>>, <<"tlt", "R2st", \h0000, \h0032>>,
  <<"tlti", "I1s", \h040a, \h0000>>, <<"tltiu", "I1s", \h040b, \h0000>>,
  <<"tltu", "R2st", \h0000, \h0033>>, <<"tne", "R2st", \h0000, \h0036>>,
  <<"tnei", "I1s", \h040e, \h0000>>, <<"trunc.l.d", "FP_R2ds", \h4620, \h0009>>,
  <<"trunc.l.s", "FP_R2ds", \h4600, \h0009>>, <<"trunc.w.d", "FP_R2ds", \h4620, \h000d>>,
  <<"trunc.w.s", "FP_R2ds", \h4600, \h000d>>, <<"wrpgpr", "R2td", \h41c0, \h0000>>,
  <<"wsbh", "R2td", \h7c00, \h00a0>>, <<"xor", "R3", \h0000, \h0026>>,
  <<"xori", "I2", \h3800, \h0000>>}

\* Operations of MIPS32 release 2: the parser recognizes them and ignores them,
\* but inst_decode finds them in the table.
Rev2 == {
  "abs.ps", "add.ps", "alnv.ps", "ceil.l.d", "ceil.l.s", "cvt.d.l", "cvt.l.d",
  "cvt.l.s", "cvt.ps.s", "cvt.s.l", "cvt.s.pl", "cvt.s.pu", "deret", "di", "ehb",
  "ei", "ext", "floor.l.d", "floor.l.s", "ins", "jalr.hb", "jr.hb", "ldxc1",
  "luxc1", "lwxc1", "madd.d", "madd.ps", "madd.s", "mfhc1", "mfhc2", "mov.ps",
  "movf.ps", "movn.ps", "movt.ps", "movz.ps", "msub.d", "msub.ps", "msub.s",
  "mthc1", "mthc2", "mul.ps", "neg.ps", "nmadd.d", "nmadd.ps", "nmadd.s",
  "nmsub.d", "nmsub.ps", "nmsub.s", "pll.ps", "plu.ps", "prefx", "pul.ps",
  "puu.ps", "rdhwr", "rdpgpr", "recip.d", "recip.s", "rotr", "rotrv", "round.l.d",
  "round.l.s", "rsqrt.d", "rsqrt.s", "sdbbp", "sdxc1", "seb", "seh", "sub.ps",
  "suxc1", "swxc1", "synci", "trunc.l.d", "trunc.l.s", "wrpgpr", "wsbh"}
         \cup {c \o ".ps" : c \in {"c." \o Conds[n] : n \in DOMAIN Conds}}

Rows   == Comparisons \cup OpsAC \cup OpsCL \cup OpsMR \cup OpsSX
OpCode == [op \in {row[1] : row \in Rows} |-> CHOOSE row \in Rows : row[1] = op]
Format(op) == OpCode[op][2]

\* i_opcode_tbl and a_opcode_tbl: an operation's word, and the operations of a
\* word.  Where two rows have the same word, the order qsort left them in decides
\* which one the binary search finds: any of them.
i_opcode_tbl == [op \in DOMAIN OpCode |-> Bits(OpCode[op][3], 16) \cup Bits(OpCode[op][4], 0)]
a_opcode_tbl == [word \in {i_opcode_tbl[op] : op \in DOMAIN OpCode} |->
                   {op \in DOMAIN OpCode : i_opcode_tbl[op] = word}]

-----------------------------------------------------------------------------
\* Which fields the formats keep in the word, and where: rs at 21, rt at 16, rd at
\* 11, shamt at 6 and the immediate at 0.
WithRS    == {"B1", "I1s", "I1t", "I2", "B2", "I2a", "R1s", "R2st", "R2ds", "R3", "R3sh",
              "FP_I2a", "MOVC"}
WithRT    == {"I1t", "I2", "B2", "I2a", "R2td", "R2st", "R2sh", "R3", "R3sh",
              "FP_I2a", "FP_R2ts", "FP_CMP", "FP_R3", "MOVC"}
WithRD    == {"R1d", "R2td", "R2ds", "R2sh", "R3", "R3sh", "FP_R2ds", "FP_R2ts", "FP_CMP",
              "FP_R3", "MOVC", "FP_MOVC"}
WithShamt == {"R2sh", "FP_R2ds", "FP_CMP", "FP_R3", "FP_MOVC"}
WithImm   == {"BC", "B1", "I1s", "I1t", "I2", "B2", "I2a", "FP_I2a"}

REGS(r, o) == Shift(r \cap (0 .. 4), o)
CC(i)      == Field(i.rt, 2, 3)
inst_encode(i) ==
  IF i.op \notin DOMAIN OpCode THEN {}
  ELSE LET f == Format(i.op) IN
    UNION {i_opcode_tbl[i.op],
           IF f \in WithRS THEN REGS(i.rs, 21) ELSE {},
           IF f \in WithRT THEN REGS(i.rt, 16) ELSE {},
           IF f \in WithRD THEN REGS(i.rd, 11) ELSE {},
           IF f \in WithShamt THEN REGS(i.shamt, 6) ELSE {},
           IF f \in WithImm THEN i.imm ELSE {},
           IF f = "BC" THEN REGS(Shift(CC(i), 2), 16) ELSE {},
           IF f = "FP_MOVC" THEN REGS(CC(i), 18) ELSE {},
           IF f = "FP_CMP" THEN i.rs ELSE {},
           IF f = "J" THEN i.target ELSE {}}

\* The bits by which inst_decode looks an operation up.
OpBits(word) ==
  LET when(major, bits) == IF word \cap (26 .. 31) = Bits(major, 26) THEN bits ELSE {}
  IN  UNION {26 .. 31,
             when(\h00, 0 .. 5), when(\h1c, 0 .. 5),           \* SPECIAL, SPECIAL2
             when(\h01, 16 .. 20),                             \* REGIMM
             when(\h10, (21 .. 25) \cup (0 .. 4)),             \* COP0
             when(\h11, (21 .. 25) \cup                        \* COP1: bc1f and bc1t
                          IF word \cap (24 .. 25) = {24} THEN {16} ELSE 0 .. 5),
             when(\h12, 21 .. 25), when(\h13, 21 .. 25)}       \* COPz

Blank(op, word) == [op |-> op, rs |-> {}, rt |-> {}, rd |-> {}, shamt |-> {}, imm |-> {},
                    target |-> {}, encoding |-> word]
\* Mutant: a register is cut to six bits.
BIN_REG_wide(word, o) == Field(word, o, 6)
BIN_REG(word, o) == Field(word, o, 5)
\* The fields of WORD read as a FORMAT, by mk_r_inst, mk_co_r_inst, mk_i_inst or
\* mk_j_inst, which keep the word itself beside them.
Parsed(op, word) ==
  LET f   == Format(op)
      reg(formats, o) == IF f \in formats THEN BIN_REG(word, o) ELSE {}
  IN  [op |-> op,
       rs |-> IF f = "FP_CMP" THEN word \cap (0 .. 3)
              ELSE IF f = "FP_MOVC" THEN BIN_REG(word, 11)
              ELSE reg(WithRS \cup {"BC"}, 21),
       rt |-> reg(WithRT \cup {"BC", "FP_MOVC"}, 16),
       rd |-> IF f \in {"FP_CMP", "FP_MOVC"} THEN BIN_REG(word, 6) ELSE reg(WithRD, 11),
       shamt |-> reg(WithShamt \ {"FP_CMP", "FP_MOVC"}, 6),
       imm |-> IF f \in WithImm THEN word \cap (0 .. 15) ELSE {},
       target |-> IF f = "J" THEN word \cap (0 .. 25) ELSE {},
       encoding |-> word]
\* Mutant: the word is not kept, and is built from the fields when it is read.
inst_decode_forgets(word) ==
  LET key == word \cap OpBits(word)
  IN  IF key \notin DOMAIN a_opcode_tbl THEN {Blank("invalid", {})}
      ELSE {LET i == Parsed(op, word) IN [i EXCEPT !.encoding = inst_encode(i)] :
              op \in a_opcode_tbl[key]}
inst_decode(word) ==
  LET key == word \cap OpBits(word)
  IN  IF key \notin DOMAIN a_opcode_tbl THEN {Blank("invalid", word)}
      ELSE {IF Format(op) = "FP_R4" THEN Blank("invalid", word) ELSE Parsed(op, word) :
              op \in a_opcode_tbl[key]}

-----------------------------------------------------------------------------
\* The instructions a line of OP leaves in the text segment: the fields its
\* production fills, the rest zero (parser.y 1424-1607 and the r_, i_ and
\* j_type_inst functions).  A conditional branch or move of the floating-point
\* unit keeps the condition code above two bits of rt, a comparison in shamt, with
\* the condition in rs; cop2 puts its immediate where a jump keeps its target.
COND_UN == {0}
COND_EQ == {1}
COND_LT == {2}
COND_IN == {3}
COND == [f   |-> {},                un   |-> COND_UN,
         eq  |-> COND_EQ,           ueq  |-> COND_EQ \cup COND_UN,
         olt |-> COND_LT,           ult  |-> COND_LT \cup COND_UN,
         ole |-> COND_LT \cup COND_EQ, ule  |-> COND_LT \cup COND_EQ \cup COND_UN,
         sf  |-> COND_IN,           ngle |-> COND_IN \cup COND_UN,
         seq |-> COND_IN \cup COND_EQ, ngl  |-> COND_IN \cup COND_EQ \cup COND_UN,
         lt  |-> COND_IN \cup COND_LT, nge  |-> COND_IN \cup COND_LT \cup COND_UN,
         le  |-> COND_IN \cup COND_LT \cup COND_EQ,
         ngt |-> COND_IN \cup COND_LT \cup COND_EQ \cup COND_UN]
Condition(op) == CHOOSE c \in DOMAIN COND : \E fmt \in {".s", ".d"} : op = "c." \o c \o fmt
cc_to_rt(cc, op) ==
  UNION {Shift(cc, 2),
         IF op \in {"bc1fl", "bc1tl", "bc2fl", "bc2tl"} THEN {1} ELSE {},
         IF op \in {"bc1t", "bc1tl", "bc2t", "bc2tl"} THEN {0} ELSE {}}

Assembled == (DOMAIN OpCode \ Rev2) \ {"ssnop"}  \* ssnop is assembled as sll
Lines(op) ==
  LET f == Format(op)
      any(formats, values) == IF f \in formats THEN values ELSE {{}}
      moves == {"movf.d", "movf.s", "movt.d", "movt.s"}
  IN  {[op |-> op, rs |-> rs, rt |-> rt, rd |-> rd, shamt |-> shamt, imm |-> imm,
        target |-> target, encoding |-> {}] :
         rs \in IF f = "FP_CMP" THEN {COND[Condition(op)]} ELSE any(WithRS, RegNos),
         rt \in IF f = "BC" THEN {cc_to_rt(cc, op) : cc \in CCs}
               ELSE IF f = "MOVC" \/ op \in moves THEN {Shift(cc, 2) : cc \in CCs}
               ELSE any(WithRT \cup {"FP_MOVC"}, RegNos),
         rd \in IF op = "break" THEN Codes ELSE any(WithRD, RegNos),
         shamt \in IF f = "FP_CMP" THEN {Shift(cc, 2) : cc \in CCs}
                  ELSE any(WithShamt, RegNos),
         imm \in any(WithImm, Immediates),
         target \in IF op = "cop2" THEN {Shift(n, 16) : n \in Immediates}
                   ELSE any({"J"}, Targets)}

-----------------------------------------------------------------------------
NULL == [op |-> "NULL", encoding |-> {}]  \* a word of text with no instruction

VARIABLES
  inst,  \* the instruction the assembler has stored
  copy,  \* another word of the text
  bytes  \* the bytes of copy that the guest has copied from inst, since it last held
         \* something else
vars == <<inst, copy, bytes>>

Init == inst = NULL /\ copy = NULL /\ bytes = {}

\* store_instruction: the word is kept beside the fields.
store_instruction ==
  /\ inst = NULL
  /\ \E op \in Assembled : \E line \in Lines(op) :
       inst' = [line EXCEPT !.encoding = inst_encode(line)]
  /\ UNCHANGED <<copy, bytes>>

\* A .word in the text, or a word of data that the guest stores there.
StoreData(word) ==
  /\ copy' \in inst_decode(word)
  /\ bytes' = {}
  /\ UNCHANGED inst

\* The guest loads the word of the instruction and stores it over the other one.
CopyWord ==
  /\ inst # NULL
  /\ copy' \in inst_decode(inst.encoding)
  /\ bytes' = 0 .. 3
  /\ UNCHANGED inst

\* The same for one byte: what is stored is decoded each time.  A byte store to a
\* word with no instruction reads through NULL (Segments).
CopyByte(b) ==
  /\ inst # NULL /\ copy # NULL
  /\ copy' \in inst_decode((copy.encoding \ ByteOf(b)) \cup (inst.encoding \cap ByteOf(b)))
  /\ bytes' = bytes \cup {b}
  /\ UNCHANGED inst

Next ==
  \/ store_instruction
  \/ \E word \in DataWords : StoreData(word)
  \/ CopyWord
  \/ \E b \in 0 .. 3 : CopyByte(b)

Spec == Init /\ [][Next]_vars

-----------------------------------------------------------------------------
\* What is in the text are instructions: registers are numbers of registers, words
\* have 32 bits and an operation is one of the table.
Instruction(i) ==
  i = NULL \/ /\ i.op \in DOMAIN OpCode \cup {"invalid"}
              /\ i.rs \cup i.rt \cup i.shamt \subseteq 0 .. 4
              /\ i.rd \subseteq IF i.op = "break" THEN 0 .. 7 ELSE 0 .. 4
              /\ i.imm \subseteq 0 .. 15
              /\ i.encoding \subseteq 0 .. 31
TypeOK == Instruction(inst) /\ Instruction(copy) /\ bytes \subseteq 0 .. 3

\* What an instruction does when it runs is told by the case of run_spim's switch
\* it goes to and by the fields this case reads.  The four branches of a
\* coprocessor share a case, and break tells only code 1 apart.
bc1 == {"bc1f", "bc1fl", "bc1t", "bc1tl"}
bc2 == {"bc2f", "bc2fl", "bc2t", "bc2tl"}
Case(op) == IF op \in bc1 THEN bc1 ELSE IF op \in bc2 THEN bc2 ELSE {op}
Executed(i) ==
  LET f == IF i.op \in DOMAIN OpCode THEN Format(i.op) ELSE "invalid"
  IN  [case   |-> Case(i.op),
       rs     |-> IF f \in WithRS \cup {"FP_CMP"} THEN i.rs ELSE {},
       rt     |-> IF f \in WithRT \cup {"BC", "FP_MOVC"} THEN i.rt ELSE {},
       rd     |-> IF f \in WithRD \/ (i.op = "break" /\ i.rd = {0}) THEN i.rd ELSE {},
       shamt  |-> IF f \in WithShamt THEN i.shamt ELSE {},
       imm    |-> IF f \in WithImm THEN i.imm ELSE {},
       target |-> IF i.op \in {"j", "jal"} THEN i.target ELSE {}]

\* The instructions that are lost when their word is decoded.
\* inst_decode looks the registers of a comparison up in other fields than
\* inst_encode put them in; the condition code is lost with them.
ComparisonMoved(i) == Format(i.op) = "FP_CMP" /\ ~(i.rd = {} /\ i.shamt = {})
\* The same for conditional moves of floating-point registers, whose word has no
\* room for the two low bits of the register that movn and movz test.
MoveMoved(i) == Format(i.op) = "FP_MOVC" /\ ~(i.rd = {} /\ i.shamt = {} /\ i.rt \cap {0, 1} = {})
\* The bit that tells movt from movf is not among those looked up.
MoveTrue == {"movt", "movt.d", "movt.s"}
TrueIsFalse(i) == i.op \in MoveTrue
\* The word of a break has no code.
CodeLost(i) == i.op = "break" /\ i.rd = {0}
\* The immediate of cop2 reaches the bits of the operation.
Cop2Spills(i) == i.op = "cop2" /\ ~(i.target \cap (21 .. 31) \subseteq i_opcode_tbl[i.op])
Lost(i) ==
  ComparisonMoved(i) \/ MoveMoved(i) \/ TrueIsFalse(i) \/ CodeLost(i) \/ Cop2Spills(i)
\* Words that are those of two operations: which one runs is not determined.
Shared(op) == Cardinality(a_opcode_tbl[i_opcode_tbl[op]]) > 1

\* Code that a guest has copied runs like the original, whichever way and over
\* whatever words it was copied: the copy has the same word, and goes to the same
\* case with the same operands, except for exactly the instructions listed above.
\* Until the copy is complete, every byte that was copied reads back the same.
CopyRunsAlike ==
  /\ \A b \in bytes : copy.encoding \cap ByteOf(b) = inst.encoding \cap ByteOf(b)
  /\ bytes = 0 .. 3 => IF Shared(inst.op) THEN copy.op \in {inst.op} \cup Rev2
                       ELSE Executed(copy) = Executed(inst) <=> ~Lost(inst)

-----------------------------------------------------------------------------
\* What the rows of the table must be like for that, whatever the operands: it
\* names no operand, so TLC evaluates all of it.  FieldBits are the bits that a
\* format leaves to the operands; the condition code of a branch or a move fills
\* three of the five bits of rt, and a comparison keeps its condition in the row.
FieldBits(f) ==
  LET within(formats, bits) == IF f \in formats THEN bits ELSE {}
  IN  UNION {within(WithRS, 21 .. 25), within(WithRT, 16 .. 20), within(WithRD, 11 .. 15),
             within(WithShamt, 6 .. 10), within(WithImm, 0 .. 15),
             within({"BC", "FP_MOVC"}, 18 .. 20), within({"J"}, 0 .. 25)}

\* The operations inst_decode may take the word of a row for.
Found(op) == LET word == i_opcode_tbl[op] IN a_opcode_tbl[word \cap OpBits(word)]

\* A row tells its operation by bits that no operand reaches, has zeros where the
\* operands go, and is found again, or one of its case in run_spim is: all but the
\* moves on true.  A row that shares its word is found as itself or as an operation
\* of release 2.
RowTells(op) ==
  LET word == i_opcode_tbl[op]
      f    == Format(op)
  IN  /\ word \subseteq 0 .. 31
      /\ FieldBits(f) \cap OpBits(word) = {}
      /\ word \cap OpBits(word) \in DOMAIN a_opcode_tbl
      /\ \A alike \in Found(op) : Format(alike) # "FP_R4"
      /\ IF Shared(op) THEN Found(op) \subseteq {op} \cup Rev2
         ELSE \A alike \in Found(op) :
                /\ Format(alike) = f
                /\ Case(alike) = Case(op) <=> op \notin MoveTrue
      /\ op \notin MoveTrue => FieldBits(f) \cap word = {}
      /\ f = "BC" => word \cap {16, 17} = Shift(cc_to_rt({}, op), 16)
      /\ f = "FP_MOVC" /\ op \notin MoveTrue => word \cap {16, 17} = {}
      /\ f = "FP_CMP" => word \cap (0 .. 3) = COND[Condition(op)]
      /\ f = "J" => op \in {"j", "jal"}

ASSUME TableAssumption ==
  /\ {"NULL", "invalid"} \cap DOMAIN OpCode = {}
  /\ \A op \in Assembled \ {"cop2"} : RowTells(op)
  /\ Format("break") = "NOARG" /\ Format("cop2") = "J" /\ "cop2" \in Assembled
  /\ ~Shared("cop2")
  /\ i_opcode_tbl["cop2"] \subseteq 21 .. 31
  /\ OpBits(i_opcode_tbl["cop2"]) = 21 .. 31
  /\ a_opcode_tbl[i_opcode_tbl["cop2"]] = {"cop2"}
===============================================================================
