--------------------------- MODULE EncodingProofs ---------------------------
(***************************************************************************)
(* Proofs about Encoding: what a guest copies decodes to what it copied,   *)
(* for every register, immediate, target and condition code.               *)
(***************************************************************************)
EXTENDS Encoding, TLAPS

-----------------------------------------------------------------------------
(***************************************************************************)
(* Bits and fields.                                                        *)
(***************************************************************************)
LEMMA FieldBit ==
  ASSUME NEW word, NEW o, NEW width, NEW b
  PROVE  b \in Field(word, o, width) <=> b \in 0 .. width - 1 /\ o + b \in word
  BY DEF Field

LEMMA RegBit ==
  ASSUME NEW r, NEW o \in Int, NEW b \in Int
  PROVE  b \in REGS(r, o) <=> b - o \in r /\ b - o \in 0 .. 4
  <1>1. b \in REGS(r, o) <=> \E c \in r \cap (0 .. 4) : b = o + c
    BY DEF REGS, Shift
  <1>. QED BY <1>1

LEMMA ShiftBit ==
  ASSUME NEW s \in SUBSET Int, NEW o \in Int, NEW b \in Int
  PROVE  b \in Shift(s, o) <=> b - o \in s
  <1>1. b \in Shift(s, o) <=> \E c \in s : b = o + c
    BY DEF Shift
  <1>. QED BY <1>1

\* The operation is looked up by the same bits when the bits it was looked up by
\* are the same.
LEMMA OpBitsKept ==
  ASSUME NEW t, NEW w, w \cap OpBits(t) = t \cap OpBits(t)
  PROVE  OpBits(w) = OpBits(t) /\ w \cap OpBits(w) = t \cap OpBits(t)
  <1>1. 26 .. 31 \subseteq OpBits(t)
    BY DEF OpBits
  <1>2. w \cap (26 .. 31) = t \cap (26 .. 31)
    BY <1>1
  <1>3. t \cap (26 .. 31) = Bits(\h11, 26) => 21 .. 25 \subseteq OpBits(t)
    BY DEF OpBits
  <1>4. t \cap (26 .. 31) = Bits(\h11, 26) => w \cap (24 .. 25) = t \cap (24 .. 25)
    BY <1>3
  <1>5. OpBits(w) = OpBits(t)
    BY <1>2, <1>4 DEF OpBits
  <1>. QED BY <1>5

-----------------------------------------------------------------------------
(***************************************************************************)
(* The word of an instruction, bit by bit.                                 *)
(***************************************************************************)
LEMMA EncodedBit ==
  ASSUME NEW i, i.op \in DOMAIN OpCode, NEW b \in Int, i.rt \subseteq 0 .. 4
  PROVE  b \in inst_encode(i) <=>
           LET f == Format(i.op) IN
           \/ b \in i_opcode_tbl[i.op]
           \/ f \in WithRS /\ b \in 21 .. 25 /\ b - 21 \in i.rs
           \/ f \in WithRT /\ b \in 16 .. 20 /\ b - 16 \in i.rt
           \/ f \in WithRD /\ b \in 11 .. 15 /\ b - 11 \in i.rd
           \/ f \in WithShamt /\ b \in 6 .. 10 /\ b - 6 \in i.shamt
           \/ f \in WithImm /\ b \in i.imm
           \/ f = "BC" /\ b \in 18 .. 20 /\ b - 16 \in i.rt
           \/ f = "FP_MOVC" /\ b \in 18 .. 20 /\ b - 16 \in i.rt
           \/ f = "FP_CMP" /\ b \in i.rs
           \/ f = "J" /\ b \in i.target
  <1>. DEFINE f == Format(i.op)
  <1>1. b \in inst_encode(i) <=>
           \/ b \in i_opcode_tbl[i.op]
           \/ f \in WithRS /\ b \in REGS(i.rs, 21)
           \/ f \in WithRT /\ b \in REGS(i.rt, 16)
           \/ f \in WithRD /\ b \in REGS(i.rd, 11)
           \/ f \in WithShamt /\ b \in REGS(i.shamt, 6)
           \/ f \in WithImm /\ b \in i.imm
           \/ f = "BC" /\ b \in REGS(Shift(CC(i), 2), 16)
           \/ f = "FP_MOVC" /\ b \in REGS(CC(i), 18)
           \/ f = "FP_CMP" /\ b \in i.rs
           \/ f = "J" /\ b \in i.target
    BY DEF inst_encode
  <1>2. /\ b \in REGS(i.rs, 21) <=> b \in 21 .. 25 /\ b - 21 \in i.rs
        /\ b \in REGS(i.rt, 16) <=> b \in 16 .. 20 /\ b - 16 \in i.rt
        /\ b \in REGS(i.rd, 11) <=> b \in 11 .. 15 /\ b - 11 \in i.rd
        /\ b \in REGS(i.shamt, 6) <=> b \in 6 .. 10 /\ b - 6 \in i.shamt
    BY RegBit
  <1>3. CC(i) \subseteq 0 .. 2
    BY DEF CC, Field
  <1>4. \A c \in Int : c \in CC(i) <=> c \in 0 .. 2 /\ 2 + c \in i.rt
    BY FieldBit DEF CC
  <1>5. b \in REGS(CC(i), 18) <=> b \in 18 .. 20 /\ b - 16 \in i.rt
    <2>1. b \in REGS(CC(i), 18) <=> b - 18 \in CC(i) /\ b - 18 \in 0 .. 4
      BY RegBit
    <2>2. b - 18 \in CC(i) <=> b - 18 \in 0 .. 2 /\ 2 + (b - 18) \in i.rt
      BY <1>4
    <2>3. 2 + (b - 18) = b - 16
      OBVIOUS
    <2>. QED BY <2>1, <2>2, <2>3
  <1>6. b \in REGS(Shift(CC(i), 2), 16) <=> b \in 18 .. 20 /\ b - 16 \in i.rt
    <2>1. b \in REGS(Shift(CC(i), 2), 16)
            <=> b - 16 \in Shift(CC(i), 2) /\ b - 16 \in 0 .. 4
      BY RegBit
    <2>2. b - 16 \in Shift(CC(i), 2) <=> (b - 16) - 2 \in CC(i)
      BY ShiftBit, <1>3
    <2>3. (b - 16) - 2 \in CC(i) <=> (b - 16) - 2 \in 0 .. 2 /\ 2 + ((b - 16) - 2) \in i.rt
      BY <1>4
    <2>4. 2 + ((b - 16) - 2) = b - 16
      OBVIOUS
    <2>. QED BY <2>1, <2>2, <2>3, <2>4
  <1>. QED BY <1>1, <1>2, <1>5, <1>6

-----------------------------------------------------------------------------
(***************************************************************************)
(* What the table gives, one row at a time.                                *)
(***************************************************************************)
LEMMA Row ==
  ASSUME NEW op \in Assembled, op # "cop2"
  PROVE  RowTells(op)
  BY TableAssumption, Zenon DEF TableAssumption

LEMMA Cop2Row ==
  /\ Format("cop2") = "J" /\ "cop2" \in Assembled /\ ~Shared("cop2")
  /\ i_opcode_tbl["cop2"] \subseteq 21 .. 31
  /\ OpBits(i_opcode_tbl["cop2"]) = 21 .. 31
  /\ a_opcode_tbl[i_opcode_tbl["cop2"]] = {"cop2"}
  BY TableAssumption, Zenon DEF TableAssumption

LEMMA NoSuchRow == "NULL" \notin DOMAIN OpCode /\ "invalid" \notin DOMAIN OpCode
  BY TableAssumption, Zenon DEF TableAssumption

LEMMA BreakRow == Format("break") = "NOARG"
  BY TableAssumption, Zenon DEF TableAssumption

-----------------------------------------------------------------------------
(***************************************************************************)
(* The fields of a line, and the bits of its word.                         *)
(***************************************************************************)
LEMMA LineFields ==
  ASSUME NEW op \in Assembled, NEW i \in Lines(op)
  PROVE  /\ i.op = op
         /\ i.rs \cup i.rt \cup i.shamt \subseteq 0 .. 4
         /\ i.rd \subseteq IF op = "break" THEN 0 .. 7 ELSE 0 .. 4
         /\ i.imm \subseteq 0 .. 15
         /\ op = "cop2" => i.target \subseteq 16 .. 31
         /\ op # "cop2" => i.target \subseteq 0 .. 25
         /\ op # "cop2" /\ Format(op) # "J" => i.target = {}
         /\ Format(op) = "FP_CMP" => i.rs = COND[Condition(op)]
         /\ Format(op) = "BC" => i.rt \cap {0, 1} = cc_to_rt({}, op)
  <1>. DEFINE f == Format(op)
  <1>1. PICK rs, rt, rd, shamt, imm, target :
          /\ i = [op |-> op, rs |-> rs, rt |-> rt, rd |-> rd, shamt |-> shamt,
                  imm |-> imm, target |-> target, encoding |-> {}]
          /\ IF f = "FP_CMP" THEN rs = COND[Condition(op)] ELSE rs \in RegNos \cup {{}}
          /\ \/ f = "BC" /\ \E cc \in CCs : rt = cc_to_rt(cc, op)
             \/ f # "BC" /\ \E cc \in CCs : rt = Shift(cc, 2)
             \/ f # "BC" /\ rt \in RegNos \cup {{}}
          /\ IF op = "break" THEN rd \in Codes ELSE rd \in RegNos \cup {{}}
          /\ (\E cc \in CCs : shamt = Shift(cc, 2)) \/ shamt \in RegNos \cup {{}}
          /\ imm \in Immediates \cup {{}}
          /\ IF op = "cop2" THEN \E n \in Immediates : target = Shift(n, 16)
             ELSE IF f = "J" THEN target \in Targets ELSE target = {}
    BY DEF Lines
  <1>2. /\ i.op = op /\ i.rs = rs /\ i.rt = rt /\ i.rd = rd /\ i.shamt = shamt
        /\ i.imm = imm /\ i.target = target
    BY <1>1
  <1>3. \A cc \in CCs : /\ Shift(cc, 2) \subseteq 0 .. 4
                        /\ Shift(cc, 2) \cap {0, 1} = {}
    BY ParametersAssumption DEF ParametersAssumption, Shift
  <1>4. \A cc \in CCs : /\ cc_to_rt(cc, op) \subseteq 0 .. 4
                        /\ cc_to_rt(cc, op) \cap {0, 1} = cc_to_rt({}, op)
    <2>1. Shift({}, 2) = {}
      BY DEF Shift
    <2>. QED BY <1>3, <2>1 DEF cc_to_rt
  <1>5. \A n \in Immediates : Shift(n, 16) \subseteq 16 .. 31
    BY ParametersAssumption DEF ParametersAssumption, Shift
  <1>6. f = "FP_CMP" => COND[Condition(op)] \subseteq 0 .. 3
    <2>. HAVE f = "FP_CMP"
    <2>1. op # "cop2"
      BY Cop2Row
    <2>2. i_opcode_tbl[op] \cap (0 .. 3) = COND[Condition(op)]
      BY <2>1, Row DEF RowTells
    <2>. QED BY <2>2
  <1>7. rs \subseteq 0 .. 4
    <2>1. CASE f = "FP_CMP"
      <3>1. rs \subseteq 0 .. 3
        BY <1>1, <1>6, <2>1
      <3>. QED BY <3>1
    <2>2. CASE f # "FP_CMP"
      BY <1>1, <2>2, ParametersAssumption DEF ParametersAssumption
    <2>. QED BY <2>1, <2>2
  <1>8. rt \subseteq 0 .. 4 /\ (f = "BC" => rt \cap {0, 1} = cc_to_rt({}, op))
    BY <1>1, <1>3, <1>4, ParametersAssumption DEF ParametersAssumption
  <1>9. shamt \subseteq 0 .. 4 /\ imm \subseteq 0 .. 15
    BY <1>1, <1>3, ParametersAssumption DEF ParametersAssumption
  <1>10. rd \subseteq IF op = "break" THEN 0 .. 7 ELSE 0 .. 4
    BY <1>1, ParametersAssumption DEF ParametersAssumption
  <1>11. /\ op = "cop2" => target \subseteq 16 .. 31
         /\ op # "cop2" => target \subseteq 0 .. 25
         /\ op # "cop2" /\ f # "J" => target = {}
    BY <1>1, <1>5, ParametersAssumption DEF ParametersAssumption
  <1>. QED BY <1>1, <1>2, <1>7, <1>8, <1>9, <1>10, <1>11

\* The operands leave the bits alone by which the operation is looked up: it is
\* found where its row is.
LEMMA WordFound ==
  ASSUME NEW op \in Assembled, op # "cop2", NEW i \in Lines(op)
  PROVE  /\ inst_encode(i) \subseteq 0 .. 31
         /\ inst_encode(i) \cap OpBits(inst_encode(i))
              = i_opcode_tbl[op] \cap OpBits(i_opcode_tbl[op])
         /\ \A b \in 0 .. 31 : b \notin FieldBits(Format(op)) =>
              (b \in inst_encode(i) <=> b \in i_opcode_tbl[op])
  <1>. DEFINE w == inst_encode(i)
              t == i_opcode_tbl[op]
              f == Format(op)
  <1>1. /\ i.op = op /\ op \in DOMAIN OpCode
        /\ i.rs \cup i.rt \cup i.shamt \subseteq 0 .. 4
        /\ i.imm \subseteq 0 .. 15 /\ i.target \subseteq 0 .. 25
        /\ f = "FP_CMP" => i.rs = COND[Condition(op)]
    BY LineFields DEF Assembled
  <1>2. /\ t \subseteq 0 .. 31
        /\ FieldBits(f) \cap OpBits(t) = {}
        /\ f = "FP_CMP" => t \cap (0 .. 3) = COND[Condition(op)]
    BY Row DEF RowTells
  <1>3. \A b \in Int : b \in w =>
          \/ b \in t
          \/ f \in WithRS /\ b \in 21 .. 25
          \/ f \in WithRT /\ b \in 16 .. 20
          \/ f \in WithRD /\ b \in 11 .. 15
          \/ f \in WithShamt /\ b \in 6 .. 10
          \/ f \in WithImm /\ b \in 0 .. 15
          \/ f \in {"BC", "FP_MOVC"} /\ b \in 18 .. 20
          \/ f = "J" /\ b \in 0 .. 25
    <2>. TAKE b \in Int
    <2>. HAVE b \in w
    <2>1. f = "FP_CMP" /\ b \in i.rs => b \in t
      BY <1>1, <1>2
    <2>. QED BY <1>1, <2>1, EncodedBit
  <1>4. \A b \in Int : b \in w => b \in t \/ b \in FieldBits(f)
    BY <1>3 DEF FieldBits
  <1>5. t \subseteq w
    BY <1>1 DEF inst_encode
  <1>6. w \subseteq Int
    <2>1. /\ REGS(i.rs, 21) \subseteq Int /\ REGS(i.rt, 16) \subseteq Int
          /\ REGS(i.rd, 11) \subseteq Int /\ REGS(i.shamt, 6) \subseteq Int
          /\ REGS(CC(i), 18) \subseteq Int /\ REGS(Shift(CC(i), 2), 16) \subseteq Int
      BY DEF REGS, Shift
    <2>2. t \subseteq Int /\ i.imm \subseteq Int /\ i.rs \subseteq Int /\ i.target \subseteq Int
      BY <1>1, <1>2
    <2>. QED BY <1>1, <2>1, <2>2 DEF inst_encode
  <1>7. FieldBits(f) \subseteq 0 .. 31
    BY DEF FieldBits
  <1>8. w \subseteq 0 .. 31
    BY <1>2, <1>4, <1>6, <1>7
  <1>9. w \cap OpBits(t) = t \cap OpBits(t)
    BY <1>2, <1>4, <1>5, <1>6
  <1>. QED BY <1>4, <1>5, <1>8, <1>9, OpBitsKept

\* Where the row has zeros, the operands are read back as they were written.
LEMMA FieldsBack ==
  ASSUME NEW op \in Assembled, op # "cop2", op \notin MoveTrue, NEW i \in Lines(op)
  PROVE  LET w == inst_encode(i)
             f == Format(op)
         IN  /\ f \in WithRS => BIN_REG(w, 21) = i.rs
             /\ f \in WithRT => BIN_REG(w, 16) = i.rt
             /\ f \in WithRD => BIN_REG(w, 11) = i.rd
             /\ f \in WithShamt => BIN_REG(w, 6) = i.shamt
  <1>. DEFINE w == inst_encode(i)
              t == i_opcode_tbl[op]
              f == Format(op)
  <1>. USE DEF WithRS, WithRT, WithRD, WithShamt, WithImm
  <1>1. /\ i.op = op /\ op \in DOMAIN OpCode
        /\ i.rs \subseteq 0 .. 4 /\ i.rt \subseteq 0 .. 4 /\ i.shamt \subseteq 0 .. 4
        /\ i.rd \subseteq IF op = "break" THEN 0 .. 7 ELSE 0 .. 4
        /\ i.imm \subseteq 0 .. 15
        /\ f = "FP_CMP" => i.rs \subseteq 0 .. 3
    <2>1. f = "FP_CMP" => t \cap (0 .. 3) = COND[Condition(op)]
      BY Row DEF RowTells
    <2>. QED BY <2>1, LineFields DEF Assembled
  <1>2. FieldBits(f) \cap t = {}
    BY Row DEF RowTells
  <1>3. ASSUME f \in WithRS PROVE BIN_REG(w, 21) = i.rs
    <2>1. \A c \in 0 .. 4 : 21 + c \in w <=> c \in i.rs
      <3>. TAKE c \in 0 .. 4
      <3>. DEFINE b == 21 + c
      <3>1. b \in Int /\ b - 21 = c /\ b \in 21 .. 25
        OBVIOUS
      <3>. HIDE DEF b
      <3>2. b \in w <=> c \in i.rs
        BY <1>1, <1>2, <1>3, <3>1, EncodedBit DEF WithRS, WithRT, WithRD, WithShamt, WithImm, FieldBits
      <3>. QED BY <3>2 DEF b
    <2>. QED BY <1>1, <1>3, <2>1 DEF BIN_REG, Field
  <1>4. ASSUME f \in WithRT PROVE BIN_REG(w, 16) = i.rt
    <2>1. \A c \in 0 .. 4 : 16 + c \in w <=> c \in i.rt
      <3>. TAKE c \in 0 .. 4
      <3>. DEFINE b == 16 + c
      <3>1. b \in Int /\ b - 16 = c /\ b \in 16 .. 20
        OBVIOUS
      <3>. HIDE DEF b
      <3>2. b \in w <=> c \in i.rt
        BY <1>1, <1>2, <1>4, <3>1, EncodedBit DEF WithRS, WithRT, WithRD, WithShamt, WithImm, FieldBits
      <3>. QED BY <3>2 DEF b
    <2>. QED BY <1>1, <1>4, <2>1 DEF BIN_REG, Field
  <1>5. ASSUME f \in WithRD PROVE BIN_REG(w, 11) = i.rd
    <2>1. \A c \in 0 .. 4 : 11 + c \in w <=> c \in i.rd
      <3>. TAKE c \in 0 .. 4
      <3>. DEFINE b == 11 + c
      <3>1. b \in Int /\ b - 11 = c /\ b \in 11 .. 15
        OBVIOUS
      <3>. HIDE DEF b
      <3>2. b \in w <=> c \in i.rd
        BY <1>1, <1>2, <1>5, <3>1, EncodedBit DEF WithRS, WithRT, WithRD, WithShamt, WithImm, FieldBits
      <3>. QED BY <3>2 DEF b
    <2>. QED BY <1>1, <1>5, <2>1, BreakRow DEF BIN_REG, Field
  <1>6. ASSUME f \in WithShamt PROVE BIN_REG(w, 6) = i.shamt
    <2>1. \A c \in 0 .. 4 : 6 + c \in w <=> c \in i.shamt
      <3>. TAKE c \in 0 .. 4
      <3>. DEFINE b == 6 + c
      <3>1. b \in Int /\ b - 6 = c /\ b \in 6 .. 10
        OBVIOUS
      <3>. HIDE DEF b
      <3>2. b \in w <=> c \in i.shamt
        BY <1>1, <1>2, <1>6, <3>1, EncodedBit DEF WithRS, WithRT, WithRD, WithShamt, WithImm, FieldBits
      <3>. QED BY <3>2 DEF b
    <2>. QED BY <1>1, <1>6, <2>1 DEF BIN_REG, Field
  <1>. QED BY <1>3, <1>4, <1>5, <1>6

\* The fields that are not registers, and the registers that keep a condition code.
LEMMA OthersBack ==
  ASSUME NEW op \in Assembled, op # "cop2", op \notin MoveTrue, NEW i \in Lines(op)
  PROVE  LET w == inst_encode(i)
             f == Format(op)
         IN  /\ f \in WithImm => w \cap (0 .. 15) = i.imm
             /\ f = "J" => w \cap (0 .. 25) = i.target
             /\ f = "BC" => BIN_REG(w, 16) = i.rt
             /\ f = "FP_MOVC" => BIN_REG(w, 16) = i.rt \ {0, 1}
             /\ f = "FP_CMP" => w \cap (0 .. 3) = i.rs
  <1>. DEFINE w == inst_encode(i)
              t == i_opcode_tbl[op]
              f == Format(op)
  <1>1. /\ i.op = op /\ op \in DOMAIN OpCode
        /\ i.rs \subseteq 0 .. 4 /\ i.rt \subseteq 0 .. 4 /\ i.shamt \subseteq 0 .. 4
        /\ i.imm \subseteq 0 .. 15 /\ i.target \subseteq 0 .. 25
        /\ f = "FP_CMP" => i.rs = COND[Condition(op)]
        /\ f = "BC" => i.rt \cap {0, 1} = cc_to_rt({}, op)
    BY LineFields DEF Assembled
  <1>2. FieldBits(f) \cap t = {}
    BY Row DEF RowTells
  <1>3. f = "FP_CMP" => t \cap (0 .. 3) = COND[Condition(op)]
    BY Row DEF RowTells
  <1>4. f = "BC" => t \cap {16, 17} = Shift(cc_to_rt({}, op), 16)
    BY Row DEF RowTells
  <1>5. f = "FP_MOVC" => t \cap {16, 17} = {}
    BY Row DEF RowTells
  <1>6. ASSUME f \in WithImm PROVE w \cap (0 .. 15) = i.imm
    <2>1. ASSUME NEW b \in 0 .. 15 PROVE b \in w <=> b \in i.imm
      BY <1>1, <1>2, <1>6, EncodedBit DEF WithRS, WithRT, WithRD, WithShamt, WithImm, FieldBits
    <2>. QED BY <1>1, <1>6, <2>1
  <1>7. ASSUME f = "J" PROVE w \cap (0 .. 25) = i.target
    <2>1. ASSUME NEW b \in 0 .. 25 PROVE b \in w <=> b \in i.target
      BY <1>1, <1>2, <1>7, EncodedBit DEF WithRS, WithRT, WithRD, WithShamt, WithImm, FieldBits
    <2>. QED BY <1>1, <1>7, <2>1
  <1>8. ASSUME f = "FP_CMP" PROVE w \cap (0 .. 3) = i.rs
    <2>1. i.rs = t \cap (0 .. 3)
      BY <1>1, <1>3, <1>8
    <2>2. ASSUME NEW b \in 0 .. 3 PROVE b \in w <=> b \in t
      BY <1>1, <1>8, <2>1, EncodedBit DEF WithRS, WithRT, WithRD, WithShamt, WithImm
    <2>. QED BY <2>1, <2>2
  <1>9. ASSUME f \in {"BC", "FP_MOVC"}, NEW c \in 0 .. 4
        PROVE  16 + c \in w <=> IF c \in {0, 1} THEN 16 + c \in t ELSE c \in i.rt
    <2>. DEFINE b == 16 + c
    <2>1. b \in Int /\ b - 16 = c /\ b \in 16 .. 20 /\ (b \in 18 .. 20 <=> c \notin {0, 1})
      OBVIOUS
    <2>. HIDE DEF b
    <2>2. b \in w <=> b \in t \/ (b \in 18 .. 20 /\ c \in i.rt)
      BY <1>1, <1>9, <2>1, EncodedBit DEF WithRS, WithRT, WithRD, WithShamt, WithImm
    <2>3. b \in 18 .. 20 => b \notin t
      BY <1>2, <1>9 DEF FieldBits
    <2>4. b \in w <=> IF c \in {0, 1} THEN b \in t ELSE c \in i.rt
      BY <2>1, <2>2, <2>3
    <2>. QED BY <2>4 DEF b
  <1>10. ASSUME f = "BC" PROVE BIN_REG(w, 16) = i.rt
    <2>1. i.rt \cap {0, 1} = cc_to_rt({}, op) /\ t \cap {16, 17} = Shift(cc_to_rt({}, op), 16)
      BY <1>1, <1>4, <1>10
    <2>2. \A c \in {0, 1} : 16 + c \in t <=> c \in i.rt
      <3>. TAKE c \in {0, 1}
      <3>. DEFINE s == cc_to_rt({}, op)
      <3>1. s \in SUBSET Int /\ (c \in s <=> c \in i.rt)
        BY <2>1
      <3>. HIDE DEF s
      <3>2. 16 + c \in Shift(s, 16) <=> (16 + c) - 16 \in s
        BY <3>1, ShiftBit
      <3>3. 16 + c \in t <=> 16 + c \in Shift(s, 16)
        BY <2>1 DEF s
      <3>. QED BY <3>1, <3>2, <3>3
    <2>3. \A c \in 0 .. 4 : 16 + c \in w <=> c \in i.rt
      BY <1>9, <1>10, <2>2
    <2>. QED BY <1>1, <2>3 DEF BIN_REG, Field
  <1>11. ASSUME f = "FP_MOVC" PROVE BIN_REG(w, 16) = i.rt \ {0, 1}
    <2>1. \A c \in 0 .. 4 : 16 + c \in w <=> c \in i.rt \ {0, 1}
      BY <1>5, <1>9, <1>11
    <2>. QED BY <1>1, <2>1 DEF BIN_REG, Field
  <1>. QED BY <1>6, <1>7, <1>8, <1>10, <1>11

-----------------------------------------------------------------------------
(***************************************************************************)
(* What the word of an instruction is decoded to.                          *)
(***************************************************************************)
LEMMA TableRow ==
  ASSUME NEW word \in DOMAIN a_opcode_tbl, NEW op \in a_opcode_tbl[word]
  PROVE  op \in DOMAIN OpCode /\ i_opcode_tbl[op] = word
  BY DEF a_opcode_tbl

LEMMA DecodedWord ==
  ASSUME NEW word, NEW c \in inst_decode(word)
  PROVE  /\ c.encoding = word
         /\ \/ c = Blank("invalid", word)
            \/ /\ word \cap OpBits(word) \in DOMAIN a_opcode_tbl
               /\ \E op \in a_opcode_tbl[word \cap OpBits(word)] : c = Parsed(op, word)
  <1>. DEFINE key == word \cap OpBits(word)
  <1>1. \/ c = Blank("invalid", word)
        \/ key \in DOMAIN a_opcode_tbl /\ \E op \in a_opcode_tbl[key] : c = Parsed(op, word)
    BY DEF inst_decode
  <1>2. Blank("invalid", word).encoding = word
    BY DEF Blank
  <1>3. \A op : Parsed(op, word).encoding = word
    BY DEF Parsed
  <1>. QED BY <1>1, <1>2, <1>3

LEMMA DecodedFound ==
  ASSUME NEW op \in Assembled, op # "cop2", NEW i \in Lines(op),
         NEW c \in inst_decode(inst_encode(i))
  PROVE  \E alike \in Found(op) : alike \in DOMAIN OpCode /\ c = Parsed(alike, inst_encode(i))
  <1>. DEFINE w == inst_encode(i)
              key == w \cap OpBits(w)
              t == i_opcode_tbl[op]
  <1>1. key = t \cap OpBits(t)
    BY WordFound
  <1>2. key \in DOMAIN a_opcode_tbl /\ a_opcode_tbl[key] = Found(op)
    BY <1>1, Row DEF RowTells, Found
  <1>3. \A alike \in Found(op) : Format(alike) # "FP_R4"
    BY Row DEF RowTells
  <1>4. \E alike \in Found(op) : c = Parsed(alike, w)
    <2>1. c \in inst_decode(w)
      OBVIOUS
    <2>. HIDE DEF w
    <2>2. c \in {IF Format(alike) = "FP_R4" THEN Blank("invalid", w) ELSE Parsed(alike, w) :
                   alike \in Found(op)}
      BY <2>1, <1>2 DEF inst_decode
    <2>. QED BY <2>2, <1>3
  <1>. QED BY <1>2, <1>4, TableRow

LEMMA ParsedFields ==
  ASSUME NEW op, NEW w
  PROVE  LET c == Parsed(op, w)
             f == Format(op)
         IN  /\ c.op = op /\ c.encoding = w
             /\ f = "FP_CMP" => c.rs = w \cap (0 .. 3)
             /\ f \in WithRS => c.rs = BIN_REG(w, 21)
             /\ f \in WithRT \cup {"BC", "FP_MOVC"} => c.rt = BIN_REG(w, 16)
             /\ f \in {"FP_CMP", "FP_MOVC"} => c.rd = BIN_REG(w, 6) /\ c.shamt = {}
             /\ f \in WithRD /\ f \notin {"FP_CMP", "FP_MOVC"} => c.rd = BIN_REG(w, 11)
             /\ f \notin WithRD => c.rd = {}
             /\ f \in WithShamt /\ f \notin {"FP_CMP", "FP_MOVC"} => c.shamt = BIN_REG(w, 6)
             /\ f \in WithImm => c.imm = w \cap (0 .. 15)
             /\ f = "J" => c.target = w \cap (0 .. 25)
             /\ f # "J" => c.target = {}
  BY DEF Parsed, WithRS, WithRT, WithRD, WithShamt, WithImm

LEMMA SameExecution ==
  ASSUME NEW i, NEW c, i.op \in DOMAIN OpCode, c.op \in DOMAIN OpCode,
         Format(c.op) = Format(i.op)
  PROVE  LET f == Format(i.op)
         IN  Executed(c) = Executed(i) <=>
               /\ Case(c.op) = Case(i.op)
               /\ f \in WithRS \cup {"FP_CMP"} => c.rs = i.rs
               /\ f \in WithRT \cup {"BC", "FP_MOVC"} => c.rt = i.rt
               /\ (IF f \in WithRD \/ (c.op = "break" /\ c.rd = {0}) THEN c.rd ELSE {})
                  = IF f \in WithRD \/ (i.op = "break" /\ i.rd = {0}) THEN i.rd ELSE {}
               /\ f \in WithShamt => c.shamt = i.shamt
               /\ f \in WithImm => c.imm = i.imm
               /\ (IF c.op \in {"j", "jal"} THEN c.target ELSE {})
                  = IF i.op \in {"j", "jal"} THEN i.target ELSE {}
  <1>. DEFINE f == Format(i.op)
              rec(a, b, d, e, g, h, k) == [case |-> a, rs |-> b, rt |-> d, rd |-> e,
                                           shamt |-> g, imm |-> h, target |-> k]
              value(x) == rec(Case(x.op),
                              IF f \in WithRS \cup {"FP_CMP"} THEN x.rs ELSE {},
                              IF f \in WithRT \cup {"BC", "FP_MOVC"} THEN x.rt ELSE {},
                              IF f \in WithRD \/ (x.op = "break" /\ x.rd = {0}) THEN x.rd ELSE {},
                              IF f \in WithShamt THEN x.shamt ELSE {},
                              IF f \in WithImm THEN x.imm ELSE {},
                              IF x.op \in {"j", "jal"} THEN x.target ELSE {})
  <1>1. Executed(c) = value(c)
    BY Zenon DEF Executed
  <1>2. Executed(i) = value(i)
    BY Zenon DEF Executed
  <1>3. \A a, b, d, e, g, h, k, a2, b2, d2, e2, g2, h2, k2 :
          rec(a, b, d, e, g, h, k) = rec(a2, b2, d2, e2, g2, h2, k2)
            <=> a = a2 /\ b = b2 /\ d = d2 /\ e = e2 /\ g = g2 /\ h = h2 /\ k = k2
    OBVIOUS
  <1>. HIDE DEF rec, f
  <1>. QED BY <1>1, <1>2, <1>3 DEF f

-----------------------------------------------------------------------------
(***************************************************************************)
(* The decoded instruction runs like the original, except for those that   *)
(* Lost names: first the moves and branches on a bit that is not looked    *)
(* up, then the rows that are found again, then cop2.                      *)
(***************************************************************************)
Alike(i, c) == IF Shared(i.op) THEN c.op \in {i.op} \cup Rev2
               ELSE Executed(c) = Executed(i) <=> ~Lost(i)

LEMMA CaseOf ==
  ASSUME NEW op, NEW alike, Case(alike) = Case(op)
  PROVE  \A name \in {"break", "j", "jal", "cop2"} : alike = name <=> op = name
  BY DEF Case, bc1, bc2

\* The row is found again with its operands where they were.
LEMMA FoundAlike ==
  ASSUME NEW op \in Assembled, op # "cop2", op \notin MoveTrue, NEW i \in Lines(op),
         NEW alike \in DOMAIN OpCode, Format(alike) = Format(op), Case(alike) = Case(op)
  PROVE  Executed(Parsed(alike, inst_encode(i))) = Executed(i) <=> ~Lost(i)
  <1>. DEFINE w == inst_encode(i)
              f == Format(op)
              c == Parsed(alike, w)
  <1>1. /\ i.op = op /\ op \in DOMAIN OpCode
        /\ f # "J" => i.target = {}
    BY LineFields DEF Assembled
  <1>2. /\ f \in WithRS => BIN_REG(w, 21) = i.rs
        /\ f \in WithRT => BIN_REG(w, 16) = i.rt
        /\ f \in WithRD => BIN_REG(w, 11) = i.rd
        /\ f \in WithShamt => BIN_REG(w, 6) = i.shamt
    BY FieldsBack
  <1>3. /\ f \in WithImm => w \cap (0 .. 15) = i.imm
        /\ f = "J" => w \cap (0 .. 25) = i.target
        /\ f = "BC" => BIN_REG(w, 16) = i.rt
        /\ f = "FP_MOVC" => BIN_REG(w, 16) = i.rt \ {0, 1}
        /\ f = "FP_CMP" => w \cap (0 .. 3) = i.rs
    BY OthersBack
  <1>4. /\ c.op = alike
        /\ f = "FP_CMP" => c.rs = w \cap (0 .. 3)
        /\ f \in WithRS => c.rs = BIN_REG(w, 21)
        /\ f \in WithRT \cup {"BC", "FP_MOVC"} => c.rt = BIN_REG(w, 16)
        /\ f \in {"FP_CMP", "FP_MOVC"} => c.rd = BIN_REG(w, 6) /\ c.shamt = {}
        /\ f \in WithRD /\ f \notin {"FP_CMP", "FP_MOVC"} => c.rd = BIN_REG(w, 11)
        /\ f \notin WithRD => c.rd = {}
        /\ f \in WithShamt /\ f \notin {"FP_CMP", "FP_MOVC"} => c.shamt = BIN_REG(w, 6)
        /\ f \in WithImm => c.imm = w \cap (0 .. 15)
        /\ f = "J" => c.target = w \cap (0 .. 25)
        /\ f # "J" => c.target = {}
    BY ParsedFields
  <1>. HIDE DEF w, c
  <1>5. /\ f \in WithRS \cup {"FP_CMP"} => c.rs = i.rs
        /\ f \in WithRT \cup {"BC"} => c.rt = i.rt
        /\ f = "FP_MOVC" => c.rt = i.rt \ {0, 1}
        /\ f \in {"FP_CMP", "FP_MOVC"} => c.rd = i.shamt /\ c.shamt = {}
        /\ f \in WithRD /\ f \notin {"FP_CMP", "FP_MOVC"} => c.rd = i.rd
        /\ f \notin WithRD => c.rd = {}
        /\ f \in WithShamt /\ f \notin {"FP_CMP", "FP_MOVC"} => c.shamt = i.shamt
        /\ f \in WithImm => c.imm = i.imm
        /\ c.target = i.target
    BY <1>1, <1>2, <1>3, <1>4 DEF WithShamt
  <1>6. Executed(c) = Executed(i) <=>
          /\ Case(c.op) = Case(i.op)
          /\ f \in WithRS \cup {"FP_CMP"} => c.rs = i.rs
          /\ f \in WithRT \cup {"BC", "FP_MOVC"} => c.rt = i.rt
          /\ (IF f \in WithRD \/ (c.op = "break" /\ c.rd = {0}) THEN c.rd ELSE {})
             = IF f \in WithRD \/ (i.op = "break" /\ i.rd = {0}) THEN i.rd ELSE {}
          /\ f \in WithShamt => c.shamt = i.shamt
          /\ f \in WithImm => c.imm = i.imm
          /\ (IF c.op \in {"j", "jal"} THEN c.target ELSE {})
             = IF i.op \in {"j", "jal"} THEN i.target ELSE {}
    BY <1>1, <1>4, SameExecution
  <1>7. \A name \in {"break", "j", "jal", "cop2"} : alike = name <=> op = name
    BY CaseOf
  <1>8. Lost(i) <=> \/ f = "FP_CMP" /\ ~(i.rd = {} /\ i.shamt = {})
                    \/ f = "FP_MOVC" /\ ~(i.rd = {} /\ i.shamt = {} /\ i.rt \cap {0, 1} = {})
                    \/ op = "break" /\ i.rd = {0}
    BY <1>1 DEF Lost, ComparisonMoved, MoveMoved, TrueIsFalse, CodeLost, Cop2Spills
  <1>9. op = "break" => f \notin WithRD
    BY BreakRow DEF WithRD
  <1>10. /\ Case(c.op) = Case(i.op)
         /\ (IF c.op \in {"j", "jal"} THEN c.target ELSE {})
             = IF i.op \in {"j", "jal"} THEN i.target ELSE {}
    BY <1>1, <1>4, <1>5, <1>7
  <1>11. CASE f = "FP_CMP"
    <2>1. f \in WithRD /\ f \in WithShamt /\ f \in WithRT
      BY <1>11 DEF WithRD, WithShamt, WithRT
    <2>2. Executed(c) = Executed(i) <=> i.shamt = i.rd /\ i.shamt = {}
      BY <1>5, <1>6, <1>10, <1>11, <2>1
    <2>. QED BY <1>8, <1>9, <1>11, <2>1, <2>2 DEF c, w
  <1>12. CASE f = "FP_MOVC"
    <2>1. f \in WithRD /\ f \in WithShamt /\ f \notin WithRS /\ f \notin WithImm
      BY <1>12 DEF WithRD, WithShamt, WithRS, WithImm
    <2>2. Executed(c) = Executed(i) <=> i.shamt = i.rd /\ i.shamt = {} /\ i.rt \ {0, 1} = i.rt
      BY <1>5, <1>6, <1>10, <1>12, <2>1
    <2>3. i.rt \ {0, 1} = i.rt <=> i.rt \cap {0, 1} = {}
      OBVIOUS
    <2>. QED BY <1>8, <1>9, <1>12, <2>1, <2>2, <2>3 DEF c, w
  <1>13. CASE f \notin {"FP_CMP", "FP_MOVC"}
    <2>1. /\ f \in WithRS \cup {"FP_CMP"} => c.rs = i.rs
          /\ f \in WithRT \cup {"BC", "FP_MOVC"} => c.rt = i.rt
          /\ f \in WithShamt => c.shamt = i.shamt
      BY <1>5, <1>13
    <2>2. Executed(c) = Executed(i) <=>
            (IF f \in WithRD \/ (c.op = "break" /\ c.rd = {0}) THEN c.rd ELSE {})
              = IF f \in WithRD \/ (i.op = "break" /\ i.rd = {0}) THEN i.rd ELSE {}
      BY <1>5, <1>6, <1>10, <2>1
    <2>3. Executed(c) = Executed(i) <=> ~(op = "break" /\ i.rd = {0})
      BY <1>1, <1>4, <1>5, <1>9, <1>13, <2>2
    <2>. QED BY <1>8, <1>13, <2>3 DEF c, w
  <1>. QED BY <1>11, <1>12, <1>13

LEMMA OthersAlike ==
  ASSUME NEW op \in Assembled, op # "cop2", NEW i \in Lines(op),
         NEW c \in inst_decode(inst_encode(i))
  PROVE  Alike(i, c)
  <1>1. i.op = op /\ op \in DOMAIN OpCode
    BY LineFields DEF Assembled
  <1>2. PICK alike \in Found(op) :
          alike \in DOMAIN OpCode /\ c = Parsed(alike, inst_encode(i))
    BY DecodedFound
  <1>3. c.op = alike
    BY <1>2, ParsedFields
  <1>4. CASE Shared(op)
    <2>1. Found(op) \subseteq {op} \cup Rev2
      BY <1>4, Row DEF RowTells
    <2>. QED BY <1>1, <1>2, <1>3, <1>4, <2>1 DEF Alike
  <1>5. CASE ~Shared(op)
    <2>1. Format(alike) = Format(op) /\ (Case(alike) = Case(op) <=> op \notin MoveTrue)
      BY <1>2, <1>5, Row DEF RowTells
    <2>2. CASE op \in MoveTrue
      <3>1. Lost(i)
        BY <1>1, <2>2 DEF Lost, TrueIsFalse
      <3>2. Executed(c) # Executed(i)
        BY <1>1, <1>2, <1>3, <2>1, <2>2, SameExecution
      <3>. QED BY <1>1, <1>5, <3>1, <3>2 DEF Alike
    <2>3. CASE op \notin MoveTrue
      <3>1. Executed(c) = Executed(i) <=> ~Lost(i)
        BY <1>2, <2>1, <2>3, FoundAlike
      <3>. QED BY <1>1, <1>5, <3>1 DEF Alike
    <2>. QED BY <2>2, <2>3
  <1>. QED BY <1>4, <1>5

\* The immediate of cop2 may reach the bits the operation is looked up by.
LEMMA Cop2Alike ==
  ASSUME NEW i \in Lines("cop2"), NEW c \in inst_decode(inst_encode(i))
  PROVE  Alike(i, c)
  <1>. DEFINE w == inst_encode(i)
              t == i_opcode_tbl["cop2"]
              key == w \cap OpBits(w)
  <1>1. /\ i.op = "cop2" /\ i.target \subseteq 16 .. 31 /\ "cop2" \in DOMAIN OpCode
    BY LineFields, Cop2Row DEF Assembled
  <1>2. Format("cop2") = "J" /\ t \subseteq 21 .. 31 /\ OpBits(t) = 21 .. 31
        /\ a_opcode_tbl[t] = {"cop2"} /\ ~Shared("cop2")
    BY Cop2Row
  <1>3. w = t \cup i.target
    BY <1>1, <1>2 DEF inst_encode, WithRS, WithRT, WithRD, WithShamt, WithImm
  <1>4. Lost(i) <=> ~(i.target \cap (21 .. 31) \subseteq t)
    BY <1>1, <1>2 DEF Lost, ComparisonMoved, MoveMoved, TrueIsFalse, MoveTrue, CodeLost,
                      Cop2Spills
  <1>5. c \in inst_decode(w)
    OBVIOUS
  <1>. HIDE DEF w
  <1>6. CASE i.target \cap (21 .. 31) \subseteq t
    <2>1. w \cap OpBits(t) = t \cap OpBits(t)
      BY <1>2, <1>3, <1>6
    <2>2. key = t
      BY <1>2, <2>1, OpBitsKept
    <2>3. t \in DOMAIN a_opcode_tbl
      BY <1>1 DEF a_opcode_tbl
    <2>4. c = Parsed("cop2", w)
      BY <1>2, <1>5, <2>2, <2>3 DEF inst_decode
    <2>5. c.op = "cop2"
      BY <2>4, ParsedFields
    <2>6. Executed(c) = Executed(i)
      BY <1>1, <1>2, <2>5, SameExecution DEF WithRS, WithRT, WithRD, WithShamt, WithImm
    <2>. QED BY <1>1, <1>2, <1>4, <1>6, <2>6 DEF Alike
  <1>7. CASE ~(i.target \cap (21 .. 31) \subseteq t)
    <2>1. key # t
      <3>1. SUFFICES ASSUME key = t PROVE FALSE
        OBVIOUS
      <3>2. t \cap OpBits(w) = w \cap OpBits(w)
        BY <3>1
      <3>3. OpBits(t) = OpBits(w)
        BY <3>2, OpBitsKept
      <3>. QED BY <1>2, <1>3, <1>7, <3>1, <3>3
    <2>2. c.op # "cop2"
      <3>1. c = Blank("invalid", w)
            \/ (key \in DOMAIN a_opcode_tbl /\ \E op \in a_opcode_tbl[key] : c = Parsed(op, w))
        BY <1>5, DecodedWord
      <3>2. Blank("invalid", w).op = "invalid"
        BY DEF Blank
      <3>3. key \in DOMAIN a_opcode_tbl => "cop2" \notin a_opcode_tbl[key]
        BY <2>1, TableRow
      <3>4. \A op : Parsed(op, w).op = op
        BY ParsedFields
      <3>. QED BY <3>1, <3>2, <3>3, <3>4
    <2>3. Executed(c).case = Case(c.op) /\ Executed(i).case = Case("cop2")
      BY <1>1 DEF Executed
    <2>4. Case(c.op) # Case("cop2")
      BY <2>2, CaseOf
    <2>5. Executed(c) # Executed(i)
      BY <2>3, <2>4
    <2>. QED BY <1>1, <1>2, <1>4, <1>7, <2>5 DEF Alike
  <1>. QED BY <1>6, <1>7

-----------------------------------------------------------------------------
(***************************************************************************)
(* The invariant: what is in the text is a line of the program beside its  *)
(* word, and a word beside what it decodes to; a byte that was copied is   *)
(* the same in both.                                                       *)
(***************************************************************************)
Stored(line) == [line EXCEPT !.encoding = inst_encode(line)]

IsStored(i)  == \E op \in Assembled : \E line \in Lines(op) : i = Stored(line)
IsDecoded(i) == i.encoding \subseteq 0 .. 31 /\ i \in inst_decode(i.encoding)

IInv ==
  /\ inst = NULL \/ IsStored(inst)
  /\ copy = NULL \/ IsDecoded(copy)
  /\ bytes \subseteq 0 .. 3
  /\ inst = NULL \/ copy = NULL => bytes = {}
  /\ \A b \in bytes : copy.encoding \cap ByteOf(b) = inst.encoding \cap ByteOf(b)

LEMMA StoredFields ==
  ASSUME NEW op \in Assembled, NEW line \in Lines(op)
  PROVE  LET i == Stored(line) IN
         /\ i.op = op /\ i.encoding = inst_encode(line) /\ i # NULL
         /\ i.rs = line.rs /\ i.rt = line.rt /\ i.rd = line.rd /\ i.shamt = line.shamt
         /\ i.imm = line.imm /\ i.target = line.target
  <1>1. PICK rs, rt, rd, shamt, imm, target :
          line = [op |-> op, rs |-> rs, rt |-> rt, rd |-> rd, shamt |-> shamt,
                  imm |-> imm, target |-> target, encoding |-> {}]
    BY DEF Lines
  <1>2. op # "NULL"
    BY NoSuchRow DEF Assembled
  <1>. DEFINE w == inst_encode(line)
  <1>3. Stored(line) = [line EXCEPT !.encoding = w]
    BY DEF Stored
  <1>. HIDE DEF w
  <1>4. LET i == Stored(line) IN
         /\ i.op = op /\ i.encoding = w
         /\ i.rs = line.rs /\ i.rt = line.rt /\ i.rd = line.rd /\ i.shamt = line.shamt
         /\ i.imm = line.imm /\ i.target = line.target
    BY <1>1, <1>3
  <1>5. NULL.op = "NULL"
    BY DEF NULL
  <1>. QED BY <1>2, <1>4, <1>5 DEF w

LEMMA StoredWord ==
  ASSUME NEW op \in Assembled, NEW i \in Lines(op)
  PROVE  inst_encode(i) \subseteq 0 .. 31
  <1>1. CASE op # "cop2"
    BY <1>1, WordFound
  <1>2. CASE op = "cop2"
    <2>1. i.op = "cop2" /\ i.target \subseteq 16 .. 31
      BY <1>2, LineFields
    <2>2. "cop2" \in DOMAIN OpCode /\ Format("cop2") = "J" /\ i_opcode_tbl["cop2"] \subseteq 21 .. 31
      BY Cop2Row DEF Assembled
    <2>3. inst_encode(i) = i_opcode_tbl["cop2"] \cup i.target
      BY <2>1, <2>2 DEF inst_encode, WithRS, WithRT, WithRD, WithShamt, WithImm
    <2>. QED BY <2>1, <2>2, <2>3
  <1>. QED BY <1>1, <1>2

LEMMA StoredAlike ==
  ASSUME NEW op \in Assembled, NEW line \in Lines(op), NEW c \in inst_decode(inst_encode(line))
  PROVE  Alike(Stored(line), c)
  <1>. DEFINE i == Stored(line)
  <1>1. Alike(line, c)
    BY OthersAlike, Cop2Alike
  <1>2. /\ i.op = op /\ line.op = op
        /\ i.rs = line.rs /\ i.rt = line.rt /\ i.rd = line.rd /\ i.shamt = line.shamt
        /\ i.imm = line.imm /\ i.target = line.target
    BY StoredFields, LineFields
  <1>. HIDE DEF i
  <1>3. Executed(i) = Executed(line)
    BY <1>2 DEF Executed
  <1>4. Lost(i) <=> Lost(line)
    BY <1>2 DEF Lost, ComparisonMoved, MoveMoved, TrueIsFalse, CodeLost, Cop2Spills
  <1>5. Alike(i, c)
    BY <1>1, <1>2, <1>3, <1>4 DEF Alike
  <1>. QED BY <1>5 DEF i

\* What is decoded is an instruction, whatever the word.
LEMMA DecodedType ==
  ASSUME NEW word \in SUBSET (0 .. 31), NEW c \in inst_decode(word)
  PROVE  Instruction(c) /\ IsDecoded(c) /\ c # NULL
  <1>1. c.encoding = word
    BY DecodedWord
  <1>2. NULL.op = "NULL"
    BY DEF NULL
  <1>3. CASE c = Blank("invalid", word)
    <2>1. /\ c.op = "invalid" /\ c.rs = {} /\ c.rt = {} /\ c.rd = {} /\ c.shamt = {}
          /\ c.imm = {}
      BY <1>3 DEF Blank
    <2>. QED BY <1>1, <1>2, <2>1 DEF Instruction, IsDecoded
  <1>4. CASE /\ word \cap OpBits(word) \in DOMAIN a_opcode_tbl
             /\ \E op \in a_opcode_tbl[word \cap OpBits(word)] : c = Parsed(op, word)
    <2>1. PICK op \in DOMAIN OpCode : c = Parsed(op, word)
      BY <1>4, TableRow
    <2>2. /\ c.op = op
          /\ c.rs \subseteq 0 .. 4 /\ c.rt \subseteq 0 .. 4 /\ c.shamt \subseteq 0 .. 4
          /\ c.rd \subseteq 0 .. 4 /\ c.imm \subseteq 0 .. 15
      <3>1. \A o : BIN_REG(word, o) \subseteq 0 .. 4
        BY DEF BIN_REG, Field
      <3>. QED BY <2>1, <3>1 DEF Parsed
    <2>3. op # "NULL"
      BY NoSuchRow
    <2>. QED BY <1>1, <1>2, <2>2, <2>3 DEF Instruction, IsDecoded
  <1>. QED BY <1>3, <1>4, DecodedWord

LEMMA StoredType ==
  ASSUME NEW i, IsStored(i)
  PROVE  Instruction(i) /\ i # NULL /\ i.encoding \subseteq 0 .. 31
  <1>0. PICK op \in Assembled : \E line \in Lines(op) : i = Stored(line)
    BY DEF IsStored
  <1>1. PICK line \in Lines(op) : i = Stored(line)
    BY <1>0
  <1>2. /\ i.op = op /\ i.encoding = inst_encode(line) /\ i # NULL
        /\ i.rs = line.rs /\ i.rt = line.rt /\ i.rd = line.rd /\ i.shamt = line.shamt
        /\ i.imm = line.imm
    BY <1>1, StoredFields
  <1>3. /\ line.rs \cup line.rt \cup line.shamt \subseteq 0 .. 4
        /\ line.rd \subseteq IF op = "break" THEN 0 .. 7 ELSE 0 .. 4
        /\ line.imm \subseteq 0 .. 15
    BY LineFields
  <1>4. inst_encode(line) \subseteq 0 .. 31
    BY StoredWord
  <1>. QED BY <1>2, <1>3, <1>4 DEF Instruction, Assembled

LEMMA IInvTypeOK == IInv => TypeOK
  <1>. SUFFICES ASSUME IInv PROVE TypeOK
    OBVIOUS
  <1>1. Instruction(inst)
    BY StoredType DEF IInv, Instruction
  <1>2. Instruction(copy)
    <2>1. CASE copy = NULL
      BY <2>1 DEF Instruction
    <2>2. CASE IsDecoded(copy)
      BY <2>2, DecodedType DEF IsDecoded
    <2>. QED BY <2>1, <2>2 DEF IInv
  <1>. QED BY <1>1, <1>2 DEF IInv, TypeOK

\* The bytes of a word make the whole word.
LEMMA SameBytes ==
  ASSUME NEW v \in SUBSET (0 .. 31), NEW w \in SUBSET (0 .. 31),
         \A b \in 0 .. 3 : v \cap ByteOf(b) = w \cap ByteOf(b)
  PROVE  v = w
  <1>1. \A n \in 0 .. 31 : \E b \in 0 .. 3 : n \in ByteOf(b)
    <2>. TAKE n \in 0 .. 31
    <2>1. n \in ByteOf(0) \/ n \in ByteOf(1) \/ n \in ByteOf(2) \/ n \in ByteOf(3)
      BY DEF ByteOf
    <2>. QED BY <2>1
  <1>. QED BY <1>1

LEMMA IInvCopyRunsAlike == IInv => CopyRunsAlike
  <1>. SUFFICES ASSUME IInv PROVE CopyRunsAlike
    OBVIOUS
  <1>1. \A b \in bytes : copy.encoding \cap ByteOf(b) = inst.encoding \cap ByteOf(b)
    BY DEF IInv
  <1>2. ASSUME bytes = 0 .. 3 PROVE Alike(inst, copy)
    <2>1. IsStored(inst) /\ IsDecoded(copy)
      BY <1>2 DEF IInv
    <2>2. inst.encoding \subseteq 0 .. 31 /\ copy.encoding \subseteq 0 .. 31
      BY <2>1, StoredType DEF IsDecoded
    <2>3. copy.encoding = inst.encoding
      BY <1>1, <1>2, <2>2, SameBytes
    <2>4. PICK op \in Assembled : \E line \in Lines(op) : inst = Stored(line)
      BY <2>1 DEF IsStored
    <2>5. PICK line \in Lines(op) : inst = Stored(line)
      BY <2>4
    <2>6. copy \in inst_decode(inst_encode(line))
      BY <2>1, <2>3, <2>5, StoredFields DEF IsDecoded
    <2>. QED BY <2>5, <2>6, StoredAlike
  <1>. QED BY <1>1, <1>2 DEF CopyRunsAlike, Alike

-----------------------------------------------------------------------------
(***************************************************************************)
(* The steps.                                                              *)
(***************************************************************************)
LEMMA InitIInv == Init => IInv
  BY DEF Init, IInv

LEMMA StoreKeeps ==
  ASSUME IInv, store_instruction
  PROVE  IInv'
  <1>1. inst = NULL /\ copy' = copy /\ bytes' = bytes /\ bytes = {}
    BY DEF IInv, store_instruction
  <1>2. IsStored(inst')
    BY DEF store_instruction, IsStored, Stored
  <1>. QED BY <1>1, <1>2 DEF IInv, IsStored, IsDecoded

LEMMA StoreDataKeeps ==
  ASSUME IInv, NEW word \in DataWords, StoreData(word)
  PROVE  IInv'
  <1>1. copy' \in inst_decode(word) /\ word \in SUBSET (0 .. 31)
    BY ParametersAssumption DEF ParametersAssumption, StoreData
  <1>2. IsDecoded(copy')
    BY <1>1, DecodedType
  <1>3. inst' = inst /\ bytes' = {}
    BY DEF StoreData
  <1>. QED BY <1>2, <1>3 DEF IInv, IsStored, IsDecoded

LEMMA CopyWordKeeps ==
  ASSUME IInv, CopyWord
  PROVE  IInv'
  <1>1. /\ inst # NULL /\ copy' \in inst_decode(inst.encoding)
        /\ bytes' = 0 .. 3 /\ inst' = inst
    BY DEF CopyWord
  <1>2. inst.encoding \in SUBSET (0 .. 31)
    BY <1>1, StoredType DEF IInv
  <1>3. IsDecoded(copy') /\ copy' # NULL /\ copy'.encoding = inst.encoding
    BY <1>1, <1>2, DecodedType, DecodedWord
  <1>. QED BY <1>1, <1>3 DEF IInv, IsStored, IsDecoded

LEMMA CopyByteKeeps ==
  ASSUME IInv, NEW b \in 0 .. 3, CopyByte(b)
  PROVE  IInv'
  <1>. DEFINE word == (copy.encoding \ ByteOf(b)) \cup (inst.encoding \cap ByteOf(b))
  <1>1. /\ inst # NULL /\ copy # NULL /\ copy' \in inst_decode(word)
        /\ bytes' = bytes \cup {b} /\ inst' = inst
    BY DEF CopyByte
  <1>2. inst.encoding \in SUBSET (0 .. 31) /\ copy.encoding \in SUBSET (0 .. 31)
    BY <1>1, StoredType DEF IInv, IsDecoded
  <1>3. word \in SUBSET (0 .. 31)
    BY <1>2
  <1>4. IsDecoded(copy') /\ copy' # NULL /\ copy'.encoding = word
    BY <1>1, <1>3, DecodedType, DecodedWord
  <1>5. ASSUME NEW d \in bytes \cup {b}
        PROVE  word \cap ByteOf(d) = inst.encoding \cap ByteOf(d)
    <2>1. CASE d = b
      BY <2>1
    <2>2. CASE d # b
      <3>1. d \in bytes /\ d \in 0 .. 3
        BY <2>2 DEF IInv
      <3>2. ByteOf(d) \cap ByteOf(b) = {}
        BY <2>2, <3>1 DEF ByteOf
      <3>3. copy.encoding \cap ByteOf(d) = inst.encoding \cap ByteOf(d)
        BY <3>1 DEF IInv
      <3>. QED BY <3>2, <3>3
    <2>. QED BY <2>1, <2>2
  <1>. HIDE DEF word
  <1>. QED BY <1>1, <1>4, <1>5 DEF IInv, IsStored, IsDecoded

LEMMA StepKeeps == IInv /\ [Next]_vars => IInv'
  <1>. SUFFICES ASSUME IInv, [Next]_vars PROVE IInv'
    OBVIOUS
  <1>1. CASE store_instruction
    BY <1>1, StoreKeeps
  <1>2. CASE \E word \in DataWords : StoreData(word)
    BY <1>2, StoreDataKeeps
  <1>3. CASE CopyWord
    BY <1>3, CopyWordKeeps
  <1>4. CASE \E b \in 0 .. 3 : CopyByte(b)
    BY <1>4, CopyByteKeeps
  <1>5. CASE UNCHANGED vars
    BY <1>5 DEF vars, IInv, IsStored, IsDecoded
  <1>. QED BY <1>1, <1>2, <1>3, <1>4, <1>5 DEF Next

LEMMA Invariant == Spec => []IInv
  BY InitIInv, StepKeeps, PTL DEF Spec

\* What is in the text are instructions, with registers and words of their width,
\* whatever the operands of the program and the order in which its code is copied.
THEOREM EncodingTypeOK == Spec => []TypeOK
  BY Invariant, IInvTypeOK, PTL

\* A copy of an instruction has its word, byte for byte, and when it is complete it
\* runs like the original except for exactly the instructions Lost names, for every
\* register, immediate, target and condition code.
THEOREM CopiesRunAlike == Spec => []CopyRunsAlike
  BY Invariant, IInvCopyRunsAlike, PTL

=============================================================================
