------------------------------ MODULE MCRunSpim ------------------------------
(* Guest programs for TLC.  The user's text is 0 .. 2, then two that are no  *)
(* instruction, then the kernel's exception handler.                         *)
EXTENDS RunSpim

I(op)     == [op |-> op, target |-> 0]
To(op, a) == [op |-> op, target |-> a]

\* A text of the given user instructions and handler, padded with "none".
Load(user, handler) ==
  [a \in Text |->
     IF a + 1 \in DOMAIN user THEN user[a + 1]
     ELSE IF a - KText + 1 \in DOMAIN handler THEN handler[a - KText + 1]
     ELSE I("none")]

\* The end of the handler of CPU/exceptions.s as its comments describe it, and
\* as it is written.
Documented == <<I("skipfault"), I("ack"), I("ei"), I("eret")>>
Shipped    == <<I("skip"), I("ack"), I("ei"), I("eret")>>

\* A handler that faults itself, with EXL set.
Broken     == <<I("break"), I("ack"), I("eret")>>

Anything ==
  {I("plain"), I("trap"), I("break"), I("bkpt"), I("exit"), I("di"),
   To("branch", 0), To("likely", 0), To("jr", 1), To("j", 0), To("jr", Bad)}

Interrupted ==
  {Load(<<I("ei"), x, y>>, Documented) : x, y \in Anything}
    \cup {Load(<<I("ei"), x, To("jr", 1)>>, Broken) : x \in Anything}
AsShipped   == {Load(<<I("ei"), I("plain"), To("jr", 1)>>, Shipped)}

\* Delayed branches: every slot holds a plain instruction, and no interrupt is
\* enabled.
Transfers ==
  {To(op, a) : op \in {"branch", "likely", "jr", "j"}, a \in {0, 1, 2}}
    \cup {I("plain")}
WithSlots ==
  {Load(<<x, I("plain"), y, I("plain"), I("exit")>>, <<>>) : x, y \in Transfers}

\* Delayed branches, and something that is not plain in the slot.
ExitInSlot       == {Load(<<To("jr", 0), I("exit")>>, Documented)}

\* The guests of the theorems are those of the runs.
ASSUME GuestsWellBehaved ==
  IF DelayedBranches
  THEN \A p \in WithSlots : QuietSlots(p) /\ PlainSlots(p) /\ InterruptsOff(p)
  ELSE \A p \in Interrupted : WellBehaved(p)

NoAddrs == {}
Device  == {"device"}
=============================================================================
