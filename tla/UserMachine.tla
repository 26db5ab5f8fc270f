----------------------------- MODULE UserMachine -----------------------------
(***************************************************************************)
(* What the guest program sees of the processor: it executes one           *)
(* instruction after the other and knows nothing of interrupts, of the     *)
(* steps of a run or of the exception handler.  An instruction that faults *)
(* is skipped.  When Delayed, a jump takes effect after the instruction    *)
(* that follows it: npc is the address of the instruction after the next.  *)
(***************************************************************************)
EXTENDS Integers

CONSTANTS Delayed, LastAddr

VARIABLES code, pc, npc
vars == <<code, pc, npc>>

After(a) == IF a > LastAddr THEN a ELSE a + 1
Op       == IF pc > LastAddr THEN "bad" ELSE code[pc].op

Init ==
  /\ pc = 0
  /\ npc = After(0)

Sequential ==
  /\ Op \in {"plain", "trap", "break", "branch", "ei", "di", "bad"}
  /\ pc' = npc
  /\ npc' = After(npc)

\* A likely branch that is not taken annuls the instruction after it.
Annul ==
  /\ Op = "likely"
  /\ pc' = After(npc)
  /\ npc' = After(After(npc))

Transfer ==
  /\ Op \in {"branch", "likely", "jr", "j"}
  /\ pc' = IF Delayed THEN npc ELSE code[pc].target
  /\ npc' = IF Delayed THEN code[pc].target ELSE After(code[pc].target)

Next == (Sequential \/ Annul \/ Transfer) /\ UNCHANGED code

Spec == Init /\ [][Next]_vars
=============================================================================
