----------------------------- MODULE FlatMemory -----------------------------
(***************************************************************************)
(* What a program may rely on of its memory, however it is divided into    *)
(* segments and however they grow: a function from addresses to bytes.  A  *)
(* load gives the bytes that were stored last and changes nothing, a store *)
(* changes the bytes it names and no other, an operation that is refused   *)
(* changes nothing, and memory that appears (at the first touch of the     *)
(* stack, by sbrk, or behind the data of a file) was not there before and  *)
(* is zero.                                                                *)
(***************************************************************************)
EXTENDS Integers, Sequences

CONSTANT Lossy \* addresses whose bytes may be lost when memory appears among them

VARIABLES
  memory, \* the bytes that can be read and written
  last    \* the last operation: [op, addr, bytes, outcome]
vars == <<memory, last>>

\* In the steps below, BEFORE and AFTER are memory and memory'.

\* Memory may appear, zero; the bytes outside CHANGED stay.
Kept(before, after, changed) ==
  LET new  == DOMAIN after \ DOMAIN before
      lost == IF new \cap Lossy = {} THEN {} ELSE Lossy
  IN  /\ DOMAIN before \subseteq DOMAIN after
      /\ \A x \in DOMAIN before \ (changed \cup lost) : after[x] = before[x]
      /\ \A x \in new \ (changed \cup lost) : after[x] = 0

\* The addresses of an operation's bytes, and that memory holds them.
Place(o) == o.addr .. o.addr + Len(o.bytes) - 1
Holds(after, o) ==
  /\ Place(o) \subseteq DOMAIN after
  /\ \A x \in Place(o) : after[x] = o.bytes[x - o.addr + 1]

Load(before, after, o) ==
  o.op = "load" /\ o.outcome = "ok" /\ Kept(before, after, {}) /\ Holds(after, o)
Store(before, after, o) ==
  o.op = "store" /\ o.outcome = "ok" /\ Kept(before, after, Place(o)) /\ Holds(after, o)
\* What sbrk gives out was nobody's before.
Grant(before, after, o) ==
  /\ o.op = "sbrk" /\ o.outcome = "ok" /\ Kept(before, after, {}) /\ Holds(after, o)
  /\ Place(o) \cap DOMAIN before = {}
Grow(before, after, o)    == o.op = "grow" /\ Kept(before, after, {})
Refused(before, after, o) == o.outcome # "ok" /\ Kept(before, after, {})
Reset(after, o)           == o.op = "reset" /\ \A x \in DOMAIN after : after[x] = 0

Init == last.op = "reset" /\ \A x \in DOMAIN memory : memory[x] = 0
Next ==
  \E before \in {memory}, after \in {memory'}, o \in {last'} :
    \/ Load(before, after, o)
    \/ Store(before, after, o)
    \/ Grant(before, after, o)
    \/ Grow(before, after, o)
    \/ Refused(before, after, o)
    \/ Reset(after, o)
Spec == Init /\ [][Next]_vars
=============================================================================
