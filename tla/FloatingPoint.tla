----------------------------- MODULE FloatingPoint -----------------------------
(***************************************************************************)
(* The instructions of coprocessor 1 that move, load, store and compare    *)
(* (CPU/run.cpp), with its registers (CPU/reg.h).  The machine keeps the   *)
(* words of FGR in F, a double in two of them, and the condition flags of  *)
(* FCSR in FCC.  What a word stands for is scaled like the words are: a    *)
(* sign and a magnitude, the largest of which is NaN.  Of the operations   *)
(* that compute, abs and neg are here; the others are the host's.          *)
(*                                                                         *)
(* In an instruction rd is the field FS, rt is FT and the GPR of a move,   *)
(* imm is FD, and rs the condition of a comparison.                        *)
(***************************************************************************)
EXTENDS Instructions

CONSTANTS
  FloatRegisters, \* 0 .. 31 in the program
  Conditions      \* the condition flags, 0 .. 7 in the program

\* A double has its first word in an even register.
ASSUME FloatOK ==
  /\ Conditions \subseteq Nat /\ FloatRegisters \subseteq Nat
  /\ \A r \in FloatRegisters : r % 2 = 0 => r + 1 \in FloatRegisters

FD(i) == i.imm
FS(i) == i.rd
FT(i) == i.rt
CC(i) == i.rt \div 4
ND(i) == (i.rt \div 2) % 2
TF(i) == i.rt % 2
CCFP(i) == FD(i) \div 4

WideOps == {"abs.d", "neg.d", "mov.d", "movf.d", "movt.d", "movn.d", "movz.d", "c.d",
            "ldc1", "sdc1"}
Size(op) == IF op \in WideOps THEN Word * Word ELSE Word

\* Numbers, of a single or a double as size says.
IsNaN(n, size) == n % (size \div 2) = size \div 2 - 1
Value(n, size) == LET magnitude == n % (size \div 2)
                  IN  IF n < size \div 2 THEN magnitude ELSE -magnitude

\* FPR overlays FGR: the host's byte order says which word is the high one.
FPR_D(m, build, r) == IF build.big_endian THEN m.F[r] * Word + m.F[r + 1]
                      ELSE m.F[r + 1] * Word + m.F[r]
FPR(m, build, op, r) == IF op \in WideOps THEN FPR_D(m, build, r) ELSE m.F[r]

SET_FPR(m, build, op, r, n) ==
  LET high == n \div Word
      low == n % Word
  IN  IF op \notin WideOps THEN [m EXCEPT !.F[r] = n]
      ELSE IF build.big_endian THEN [m EXCEPT !.F[r] = high, !.F[r + 1] = low]
      ELSE [m EXCEPT !.F[r] = low, !.F[r + 1] = high]

\* run_error ends the run at an odd register of a double.
Odd(op, r) == op \in WideOps /\ r % 2 = 1
run_error(m) == Raise(m, "run_error")

-----------------------------------------------------------------------------
\* Moves, the conditional ones too, and the two that compute.
FloatMoves == {"abs.s", "neg.s", "mov.s", "movf.s", "movt.s", "movn.s", "movz.s",
               "abs.d", "neg.d", "mov.d", "movf.d", "movt.d", "movn.d", "movz.d"}
FloatMove(m, build, i) ==
  LET n == FPR(m, build, i.op, FS(i))
      size == Size(i.op)
      moves == /\ i.op \in {"movf.s", "movf.d"} => m.FCC[CC(i)] = 0
               /\ i.op \in {"movt.s", "movt.d"} => m.FCC[CC(i)] # 0
               /\ i.op \in {"movn.s", "movn.d"} => m.R[FT(i)] # 0
               /\ i.op \in {"movz.s", "movz.d"} => m.R[FT(i)] = 0
      result == IF i.op \in {"abs.s", "abs.d"} THEN n % (size \div 2)
                ELSE IF i.op \in {"neg.s", "neg.d"} THEN (n + size \div 2) % size ELSE n
  IN  IF ~moves THEN m
      ELSE IF Odd(i.op, FS(i)) \/ Odd(i.op, FD(i)) THEN run_error(m)
      ELSE SET_FPR(m, build, i.op, FD(i), result)

\* movf and movt of the integer registers.
MoveOnOps == {"movf", "movt"}
MoveOn(m, i) ==
  IF (m.FCC[CC(i)] # 0) = (i.op = "movt") THEN Set(m, i.rd, m.R[i.rs]) ELSE m

COND_UN == 1
COND_EQ == 2
COND_LT == 4
COND_IN == 8
CompareOps == {"c.s", "c.d"}
Compare(m, build, i) ==
  LET v1 == FPR(m, build, i.op, FS(i))
      v2 == FPR(m, build, i.op, FT(i))
      size == Size(i.op)
      unordered == IsNaN(v1, size) \/ IsNaN(v2, size)
      cond(bit) == (i.rs \div bit) % 2 = 1
      result == \/ cond(COND_LT) /\ ~unordered /\ Value(v1, size) < Value(v2, size)
                \/ cond(COND_EQ) /\ ~unordered /\ Value(v1, size) = Value(v2, size)
                \/ cond(COND_UN) /\ unordered
  IN  IF Odd(i.op, FS(i)) \/ Odd(i.op, FT(i)) THEN run_error(m)
      ELSE IF unordered /\ cond(COND_IN) THEN Raise(m, "FPE")
      ELSE [m EXCEPT !.FCC[CCFP(i)] = IF result THEN 1 ELSE 0]

\* Between the registers of the coprocessor and of the processor.
CoprocessorMoves == {"mfc1", "mtc1"}
CoprocessorMove(m, i) ==
  IF i.op = "mfc1" THEN Set(m, FT(i), m.F[FS(i)]) ELSE [m EXCEPT !.F[FS(i)] = m.R[FT(i)]]

\* A double is loaded and stored in words.  ldc1 and sdc1 raise AdEL before a
\* misaligned access raises its own exception, which is the one to stay.
FloatLoadStore == {"lwc1", "ldc1", "swc1", "sdc1"}
\* Mutant: the second word of a double comes from the first one's address.
FloatLoadSame(m, build, i) ==
  LET word(n, r, addr) ==
        LOAD_INST(Fault(n, addr, 4, "AdEL"), build, "F", r, Fetched(n, build, addr, 4))
      first == word(m, FT(i), Address(m, i))
  IN  IF i.op = "lwc1" THEN first ELSE word(first, FT(i) + 1, Address(m, i))
FloatLoad(m, build, i) ==
  LET word(n, r, addr) ==
        LOAD_INST(Fault(n, addr, 4, "AdEL"), build, "F", r, Fetched(n, build, addr, 4))
      first == word(m, FT(i), Address(m, i))
  IN  IF i.op = "lwc1" THEN first ELSE word(first, FT(i) + 1, Low(Address(m, i) + 4))

FloatStore(m, build, i) ==
  LET addr == Address(m, i)
      first == Stored(m, build, addr, 4, m.F[FT(i)])
  IN  IF Odd(i.op, FT(i)) THEN run_error(m)
      ELSE IF i.op = "swc1" THEN first
      ELSE Stored(first, build, Low(addr + 4), 4, m.F[FT(i) + 1])

FloatOps == FloatMoves \cup MoveOnOps \cup CompareOps \cup CoprocessorMoves \cup FloatLoadStore
ConditionBranches == {"bc1f", "bc1fl", "bc1t", "bc1tl"}

FloatEffect(m, build, i) ==
  CASE i.op \in FloatMoves       -> FloatMove(m, build, i)
    [] i.op \in MoveOnOps        -> MoveOn(m, i)
    [] i.op \in CompareOps       -> Compare(m, build, i)
    [] i.op \in CoprocessorMoves -> CoprocessorMove(m, i)
    [] i.op \in {"lwc1", "ldc1"} -> FloatLoad(m, build, i)
    [] i.op \in {"swc1", "sdc1"} -> FloatStore(m, build, i)
=============================================================================
