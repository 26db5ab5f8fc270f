----------------------------- MODULE MCBreakpoints -----------------------------
(* Texts for TLC: every text of instructions of some kinds, then a word that *)
(* holds none.                                                               *)
EXTENDS Breakpoints

I(op)     == [op |-> op, target |-> 0]
To(op, a) == [op |-> op, target |-> a]

Texts(insts) ==
  {t \in [Text -> insts \cup {I("none")}] :
     /\ t[LastAddr] = I("none")
     /\ \A a \in Text \ {LastAddr} : t[a] # I("none")}

Loops == Texts({I("plain"), To("branch", 0), To("jr", 1), I("exit")})

Instructions == Text \ {LastAddr}
Occupied     == Instructions \cup {Data, Bad}
NoAddrs      == {}

\* The user of the theorems is that of the runs.
ASSUME BreaksOnInstructions == NamesInstructions
================================================================================
