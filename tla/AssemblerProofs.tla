--------------------------- MODULE AssemblerProofs ---------------------------
(***************************************************************************)
(* Proofs about Assembler, for any names, segments and number of lines.    *)
(***************************************************************************)
EXTENDS Assembler, TLAPS, SequenceTheorems, WellFoundedInduction

LabelType ==
  [name : Names, addr : Nat, global_flag : BOOLEAN, gp_flag : BOOLEAN,
   const_flag : BOOLEAN, uses : SUBSET [place : {"text", "data"}, addr : Nat]]
AsmType ==
  [entry : Seq(LabelType), table : [Names -> Nat], local : Seq(Nat), line : Seq(Nat),
   text : [TextWords -> Nat], data : [DataBytes -> Nat \X (0 .. 3)],
   next_text_pc : Nat, next_data_pc : Nat, next_gp_item_addr : Nat]

\* The label structure that the table gives for its name.
Tabled(s, id) == s.table[s.entry[id].name] = id

\* The table leads to labels of the name looked up.
Tables(s) ==
  \A n \in Names : s.table[n] # 0 =>
    s.table[n] \in DOMAIN s.entry /\ s.entry[s.table[n]].name = n

\* Labels of the file and of the line are in the table, and defined.
Lists(s) ==
  /\ \A id \in ToSet(s.local) :
       /\ id \in DOMAIN s.entry /\ Tabled(s, id)
       /\ s.entry[id].addr # 0 \/ s.entry[id].const_flag
  /\ \A id \in ToSet(s.line) :
       id \in DOMAIN s.entry /\ Tabled(s, id) /\ s.entry[id].addr # 0

Counters(s) ==
  /\ s.next_text_pc >= TextBot /\ s.next_data_pc >= DataBot
  /\ s.next_gp_item_addr \in GpBot .. GpTop

\* A use is no further than its location counter.
Reached(s, u) ==
  IF u.place = "text" THEN u.addr \in TextBot .. s.next_text_pc
  ELSE u.addr \in DataBot .. s.next_data_pc

\* A label in the table that has an address is global or will be flushed.
Entries(s) ==
  \A id \in DOMAIN s.entry :
    /\ s.entry[id].gp_flag => s.entry[id].addr # 0
    /\ Tabled(s, id) /\ s.entry[id].addr # 0 =>
         s.entry[id].global_flag \/ id \in ToSet(s.local)
    /\ \A u \in s.entry[id].uses : Reached(s, u)

Good(s) == s \in AsmType /\ Tables(s) /\ Lists(s) /\ Counters(s) /\ Entries(s)

\* A use of a label not yet defined is remembered.
RefType == [place : {"text", "data"}, addr : Nat, label : Nat, forward : BOOLEAN]
Reported(s, r) ==
  /\ r.label \in DOMAIN s.entry
  /\ s.entry[r.label].addr = 0 /\ ~s.entry[r.label].const_flag =>
       Tabled(s, r.label) /\ \E u \in s.entry[r.label].uses : u.addr = r.addr

\* What every operation of the assembler keeps.
Keeps(s, t) ==
  /\ Good(t) /\ DOMAIN s.entry \subseteq DOMAIN t.entry
  /\ \A r \in RefType : Reported(s, r) => Reported(t, r)

-----------------------------------------------------------------------------
(***************************************************************************)
(* Numbers and sequences.                                                  *)
(***************************************************************************)
LEMMA Places ==
  /\ TextBot \in Nat \ {0} /\ LastText \in Nat /\ GpBot \in Nat \ {0} /\ GpTop \in Nat
  /\ DataBot \in Nat \ {0} /\ LastData \in Nat /\ TextBot % 4 = 0
  /\ LastText < GpBot /\ GpBot <= GpTop /\ GpTop <= DataBot
  /\ TextBot + 3 <= LastText /\ DataBot + 3 <= LastData
  BY ParametersOK DEF ParametersOK

LEMMA Powers == \A k \in 0 .. 3 : 2^k \in {1, 2, 4, 8}
  <1>1. 2^0 = 1 /\ 2^1 = 2 /\ 2^2 = 4 /\ 2^3 = 8
    OBVIOUS
  <1>. SUFFICES ASSUME NEW k \in 0 .. 3 PROVE 2^k \in {1, 2, 4, 8}
    OBVIOUS
  <1>2. k = 0 \/ k = 1 \/ k = 2 \/ k = 3
    OBVIOUS
  <1>3. CASE k = 0
    BY <1>1, <1>3, Zenon
  <1>4. CASE k = 1
    BY <1>1, <1>4, Zenon
  <1>5. CASE k = 2
    BY <1>1, <1>5, Zenon
  <1>6. CASE k = 3
    BY <1>1, <1>6, Zenon
  <1>. QED BY <1>2, <1>3, <1>4, <1>5, <1>6

LEMMA AlignedUp ==
  ASSUME NEW a \in Nat, NEW k \in 0 .. 3
  PROVE  AlignUp(a, k) \in Nat /\ AlignUp(a, k) >= a
  <1>1. \A p \in {1, 2, 4, 8} :
          ((a + p - 1) \div p) * p \in Nat /\ ((a + p - 1) \div p) * p >= a
    OBVIOUS
  <1>2. 2^k \in {1, 2, 4, 8}
    BY Powers
  <1>. DEFINE p == 2^k
  <1>. HIDE DEF p
  <1>3. ((a + p - 1) \div p) * p \in Nat /\ ((a + p - 1) \div p) * p >= a
    BY <1>1, <1>2 DEF p
  <1>. QED BY <1>3 DEF AlignUp, p

LEMMA SetOfCons ==
  ASSUME NEW S, NEW q \in Seq(S), NEW x \in S
  PROVE  /\ <<x>> \o q \in Seq(S)
         /\ ToSet(<<x>> \o q) = {x} \cup ToSet(q)
  <1>1. <<x>> \in Seq(S) /\ Len(<<x>>) = 1 /\ <<x>>[1] = x
    OBVIOUS
  <1>. DEFINE p == <<x>> \o q
  <1>2. /\ p \in Seq(S) /\ Len(p) = 1 + Len(q)
        /\ \A i \in 1 .. 1 + Len(q) : p[i] = IF i <= 1 THEN <<x>>[i] ELSE q[i - 1]
    BY <1>1, ConcatProperties
  <1>3. Len(q) \in Nat /\ DOMAIN q = 1 .. Len(q) /\ DOMAIN p = 1 .. 1 + Len(q)
    BY <1>2, LenProperties
  <1>. HIDE DEF p
  <1>4. ToSet(p) \subseteq {x} \cup ToSet(q)
    <2>. SUFFICES ASSUME NEW i \in DOMAIN p  PROVE p[i] \in {x} \cup ToSet(q)
      BY DEF ToSet
    <2>1. i = 1 => p[i] = x
      BY <1>1, <1>2, <1>3
    <2>2. i # 1 => i - 1 \in DOMAIN q /\ p[i] = q[i - 1]
      BY <1>2, <1>3
    <2>. QED BY <2>1, <2>2 DEF ToSet
  <1>5. x \in ToSet(p)
    <2>1. 1 \in DOMAIN p /\ p[1] = x
      BY <1>1, <1>2, <1>3
    <2>. QED BY <2>1 DEF ToSet
  <1>6. ToSet(q) \subseteq ToSet(p)
    <2>. SUFFICES ASSUME NEW i \in DOMAIN q  PROVE q[i] \in ToSet(p)
      BY DEF ToSet
    <2>1. i + 1 \in DOMAIN p /\ p[i + 1] = q[i]
      BY <1>2, <1>3
    <2>. QED BY <2>1 DEF ToSet
  <1>. QED BY <1>2, <1>4, <1>5, <1>6 DEF p

\* The numbers below N are well-founded, so the distances to N have a least.
LEMMA MaxOfPositions ==
  ASSUME NEW n \in Nat, NEW P \in SUBSET (1 .. n), P # {}
  PROVE  Max(P) \in P
  <1>. DEFINE R == OpToRel(<, Nat)
              T == {n - i : i \in P}
  <1>1. IsWellFoundedOn(R, Nat)
    BY NatLessThanWellFounded
  <1>2. T \subseteq Nat /\ T # {}
    <2>1. \A i \in P : n - i \in Nat
      OBVIOUS
    <2>. QED BY <2>1
  <1>. HIDE DEF R, T
  <1>3. PICK x \in T : \A y \in T : ~ (<<y, x>> \in R)
    BY <1>1, <1>2, WFMin
  <1>4. \A y \in T : ~ (y < x)
    BY <1>2, <1>3 DEF R, OpToRel
  <1>5. PICK i \in P : x = n - i
    BY DEF T
  <1>6. ASSUME NEW j \in P  PROVE i >= j
    <2>1. n - j \in T /\ ~ (n - j < n - i)
      BY <1>4, <1>5 DEF T
    <2>2. i \in Int /\ j \in Int
      OBVIOUS
    <2>. QED BY <2>1, <2>2
  <1>. QED BY <1>5, <1>6 DEF Max
LEMMA SetOfEmpty == ToSet(<<>>) = {}
  BY DEF ToSet

-----------------------------------------------------------------------------
(***************************************************************************)
(* What an operation does to the labels that are there: addresses are      *)
(* given, never taken away, and what gets one is global or linked.         *)
(***************************************************************************)
Advances(s, t) ==
  /\ t \in AsmType /\ t.table = s.table /\ DOMAIN t.entry = DOMAIN s.entry
  /\ ToSet(s.local) \subseteq ToSet(t.local)
  /\ Counters(t)
  /\ s.next_text_pc <= t.next_text_pc /\ s.next_data_pc <= t.next_data_pc
AdvancesLabel(s, t, id) ==
  LET d == s.entry[id]  e == t.entry[id]
  IN /\ e.name = d.name
     /\ d.addr # 0 => e.addr # 0
     /\ d.global_flag => e.global_flag
     /\ d.const_flag => e.const_flag
     /\ e.gp_flag => e.addr # 0
     /\ e.addr # 0 => d.addr # 0 \/ e.global_flag \/ id \in ToSet(t.local)
     /\ e.addr = 0 /\ ~e.const_flag => d.uses \subseteq e.uses
     /\ \A u \in e.uses : u \in d.uses \/ Reached(t, u)
AdvancesLists(s, t) ==
  /\ \A id \in ToSet(t.local) \ ToSet(s.local) :
       /\ id \in DOMAIN s.entry /\ Tabled(s, id)
       /\ t.entry[id].addr # 0 \/ t.entry[id].const_flag
  /\ \A id \in ToSet(t.line) \ ToSet(s.line) :
       id \in DOMAIN s.entry /\ Tabled(s, id) /\ t.entry[id].addr # 0

LEMMA UseStays ==
  ASSUME NEW s \in AsmType, NEW t \in AsmType, NEW u \in [place : {"text", "data"}, addr : Nat],
         s.next_text_pc <= t.next_text_pc, s.next_data_pc <= t.next_data_pc,
         Reached(s, u)
  PROVE  Reached(t, u)
  <1>1. /\ u.addr \in Nat /\ s.next_text_pc \in Nat /\ t.next_text_pc \in Nat
        /\ s.next_data_pc \in Nat /\ t.next_data_pc \in Nat
    BY DEF AsmType
  <1>. QED BY <1>1, Places DEF Reached

LEMMA AdvancesKeeps ==
  ASSUME NEW s, Good(s), NEW t, Advances(s, t), AdvancesLists(s, t),
         \A id \in DOMAIN s.entry : AdvancesLabel(s, t, id)
  PROVE  Keeps(s, t)
  <1>0. s \in AsmType /\ t \in AsmType /\ DOMAIN t.entry = DOMAIN s.entry /\ t.table = s.table
    BY DEF Good, Advances
  <1>1. \A id \in DOMAIN s.entry : Tabled(t, id) <=> Tabled(s, id)
    BY <1>0 DEF AdvancesLabel, Tabled
  <1>2. Tables(t)
    BY <1>0 DEF Good, Tables, AdvancesLabel
  <1>3. Lists(t)
    BY <1>0, <1>1 DEF Good, Lists, Advances, AdvancesLists, AdvancesLabel
  <1>4. Entries(t)
    <2>. SUFFICES ASSUME NEW id \in DOMAIN s.entry
                  PROVE  /\ t.entry[id].gp_flag => t.entry[id].addr # 0
                         /\ Tabled(t, id) /\ t.entry[id].addr # 0 =>
                              t.entry[id].global_flag \/ id \in ToSet(t.local)
                         /\ \A u \in t.entry[id].uses : Reached(t, u)
      BY <1>0 DEF Entries
    <2>1. AdvancesLabel(s, t, id)
      OBVIOUS
    <2>2. Tabled(s, id) /\ s.entry[id].addr # 0 =>
            s.entry[id].global_flag \/ id \in ToSet(s.local)
      BY DEF Good, Entries
    <2>3. ASSUME NEW u \in t.entry[id].uses  PROVE Reached(t, u)
      <3>1. CASE u \in s.entry[id].uses
        <4>1. Reached(s, u)
          BY <3>1 DEF Good, Entries
        <4>2. s.entry \in Seq(LabelType)
          BY <1>0 DEF AsmType
        <4>3. s.entry[id] \in LabelType
          BY <4>2, LenProperties, ElementOfSeq
        <4>4. u \in [place : {"text", "data"}, addr : Nat]
          BY <3>1, <4>3 DEF LabelType
        <4>. QED BY <1>0, <4>1, <4>4, UseStays DEF Advances
      <3>. QED BY <2>1, <3>1 DEF AdvancesLabel
    <2>. QED BY <1>1, <2>1, <2>2, <2>3 DEF AdvancesLabel, Advances
  <1>5. ASSUME NEW r \in RefType, Reported(s, r)  PROVE Reported(t, r)
    <2>1. r.label \in DOMAIN s.entry /\ AdvancesLabel(s, t, r.label)
      BY <1>5 DEF Reported
    <2>. QED BY <1>0, <1>1, <1>5, <2>1 DEF Reported, AdvancesLabel
  <1>. QED BY <1>0, <1>2, <1>3, <1>4, <1>5 DEF Keeps, Good, Advances

LEMMA KeepsOn == ASSUME NEW s, NEW t, NEW u, Keeps(s, t), Keeps(t, u) PROVE Keeps(s, u)
  BY DEF Keeps
LEMMA KeepsSelf == ASSUME NEW s, Good(s) PROVE Keeps(s, s)
  BY DEF Keeps
-----------------------------------------------------------------------------
(***************************************************************************)
(* The symbol table.                                                       *)
(***************************************************************************)
LEMMA LabelTyped ==
  ASSUME NEW s \in AsmType, NEW id \in DOMAIN s.entry
  PROVE  /\ id \in Nat \ {0} /\ id \in 1 .. Len(s.entry) /\ s.entry[id] \in LabelType
         /\ s.entry[id].addr \in Nat /\ s.entry[id].const_flag \in BOOLEAN
         /\ s.entry[id].name \in Names
         /\ s.entry[id].uses \subseteq [place : {"text", "data"}, addr : Nat]
  <1>1. s.entry \in Seq(LabelType)
    BY DEF AsmType
  <1>2. id \in 1 .. Len(s.entry) /\ Len(s.entry) \in Nat
    BY <1>1, LenProperties
  <1>3. s.entry[id] \in LabelType
    BY <1>1, <1>2, ElementOfSeq
  <1>. QED BY <1>2, <1>3 DEF LabelType

\* Other labels of the same length make a state of the assembler.
LEMMA Relabelled ==
  ASSUME NEW s \in AsmType, NEW e,
         e = [id \in DOMAIN s.entry |-> e[id]], \A id \in DOMAIN s.entry : e[id] \in LabelType
  PROVE  e \in Seq(LabelType) /\ DOMAIN e = DOMAIN s.entry
  <1>1. s.entry \in Seq(LabelType) /\ DOMAIN s.entry = 1 .. Len(s.entry) /\ Len(s.entry) \in Nat
    BY LenProperties DEF AsmType
  <1>2. e \in [1 .. Len(s.entry) -> LabelType]
    BY <1>1
  <1>. QED BY <1>1, <1>2

SameCounters(s, t) ==
  /\ t.next_text_pc = s.next_text_pc /\ t.next_data_pc = s.next_data_pc
  /\ t.next_gp_item_addr = s.next_gp_item_addr
SameMemory(s, t) == t.text = s.text /\ t.data = s.data

LEMMA NewLabelTyped == ASSUME NEW n \in Names PROVE NewLabel(n) \in LabelType
  BY DEF NewLabel, LabelType

LEMMA LookupFields ==
  ASSUME NEW s \in AsmType, NEW n \in Names, s.table[n] = 0
  PROVE  LET t == lookup_label(s, n)
         IN /\ t \in AsmType
            /\ Len(s.entry) \in Nat /\ Len(t.entry) = Len(s.entry) + 1
            /\ DOMAIN t.entry = DOMAIN s.entry \cup {Len(s.entry) + 1}
            /\ \A id \in DOMAIN s.entry : t.entry[id] = s.entry[id]
            /\ t.entry[Len(s.entry) + 1] = NewLabel(n)
            /\ t.table = [s.table EXCEPT ![n] = Len(s.entry) + 1]
            /\ t.local = s.local /\ t.line = s.line
            /\ SameCounters(s, t) /\ SameMemory(s, t)
  <1>. DEFINE t == lookup_label(s, n)
              e == Append(s.entry, NewLabel(n))
              b == [s.table EXCEPT ![n] = Len(s.entry) + 1]
  <1>1. s.entry \in Seq(LabelType) /\ Len(s.entry) \in Nat /\ DOMAIN s.entry = 1 .. Len(s.entry)
    BY LenProperties DEF AsmType
  <1>2. /\ e \in Seq(LabelType) /\ Len(e) = Len(s.entry) + 1
        /\ DOMAIN e = DOMAIN s.entry \cup {Len(s.entry) + 1}
        /\ \A id \in DOMAIN s.entry : e[id] = s.entry[id]
        /\ e[Len(s.entry) + 1] = NewLabel(n)
    BY <1>1, NewLabelTyped
  <1>3. b \in [Names -> Nat]
    BY <1>1 DEF AsmType
  <1>4. t = [s EXCEPT !.entry = e, !.table = b]
    BY DEF lookup_label
  <1>. HIDE DEF e, b, t
  <1>5. /\ t \in AsmType /\ t.entry = e /\ t.table = b /\ t.local = s.local /\ t.line = s.line
        /\ SameCounters(s, t) /\ SameMemory(s, t)
    BY <1>2, <1>3, <1>4 DEF AsmType, SameCounters, SameMemory
  <1>. QED BY <1>1, <1>2, <1>5 DEF b, t

\* A label looked up is in the table; one not seen before is new.
LEMMA LookupKeeps ==
  ASSUME NEW s, Good(s), NEW n \in Names
  PROVE  LET t == lookup_label(s, n)
         IN /\ Keeps(s, t)
            /\ t.table[n] \in DOMAIN t.entry /\ t.entry[t.table[n]].name = n
            /\ Tabled(t, t.table[n])
            /\ t.local = s.local /\ t.line = s.line
            /\ SameCounters(s, t) /\ SameMemory(s, t)
            /\ \A id \in DOMAIN s.entry : id \in DOMAIN t.entry /\ t.entry[id] = s.entry[id]
            /\ s.table[n] # 0 => t = s
            /\ s.table[n] = 0 => t.table[n] \notin DOMAIN s.entry
                                 /\ DOMAIN t.entry = DOMAIN s.entry \cup {t.table[n]}
                                 /\ t.entry[t.table[n]] = NewLabel(n)
  <1>. DEFINE t == lookup_label(s, n)
  <1>0. s \in AsmType
    BY DEF Good
  <1>1. CASE s.table[n] # 0
    <2>1. t = s
      BY <1>1 DEF lookup_label
    <2>2. s.table[n] \in DOMAIN s.entry /\ s.entry[s.table[n]].name = n
      BY <1>1 DEF Good, Tables
    <2>. QED BY <1>1, <2>1, <2>2, KeepsSelf DEF Tabled, SameCounters, SameMemory
  <1>2. CASE s.table[n] = 0
    <2>. DEFINE new == Len(s.entry) + 1
    <2>1. /\ t \in AsmType /\ Len(s.entry) \in Nat
          /\ DOMAIN t.entry = DOMAIN s.entry \cup {new}
          /\ \A id \in DOMAIN s.entry : t.entry[id] = s.entry[id]
          /\ t.entry[new] = NewLabel(n)
          /\ t.table = [s.table EXCEPT ![n] = new]
          /\ t.local = s.local /\ t.line = s.line
          /\ SameCounters(s, t) /\ SameMemory(s, t)
      BY <1>0, <1>2, LookupFields
    <2>2. new \notin DOMAIN s.entry /\ new # 0 /\ DOMAIN s.table = Names
      BY <1>0, <2>1, LenProperties DEF AsmType
    <2>. HIDE DEF t, new
    <2>3. t.table[n] = new /\ \A o \in Names \ {n} : t.table[o] = s.table[o]
      BY <2>1, <2>2
    <2>4. NewLabel(n).name = n /\ NewLabel(n).addr = 0 /\ NewLabel(n).uses = {}
          /\ NewLabel(n).gp_flag = FALSE
      BY DEF NewLabel
    <2>5. \A id \in DOMAIN s.entry : id # 0 /\ s.entry[id].name \in Names
      BY <1>0, LabelTyped
    <2>6. ASSUME NEW id \in DOMAIN s.entry  PROVE Tabled(t, id) <=> Tabled(s, id)
      BY <1>2, <2>1, <2>2, <2>3, <2>5 DEF Tabled
    <2>7. Tables(t)
      BY <2>1, <2>3, <2>4 DEF Good, Tables
    <2>8. Lists(t)
      BY <2>1, <2>6 DEF Good, Lists
    <2>9. Counters(t)
      BY <2>1 DEF Good, Counters, SameCounters
    <2>10. Entries(t)
      <3>1. ASSUME NEW id \in DOMAIN s.entry
            PROVE  /\ t.entry[id].gp_flag => t.entry[id].addr # 0
                   /\ Tabled(t, id) /\ t.entry[id].addr # 0 =>
                        t.entry[id].global_flag \/ id \in ToSet(t.local)
                   /\ \A u \in t.entry[id].uses : Reached(t, u)
        BY <2>1, <2>6 DEF Good, Entries, Reached, SameCounters
      <3>. QED BY <2>1, <2>4, <3>1 DEF Entries
    <2>11. ASSUME NEW r \in RefType, Reported(s, r)  PROVE Reported(t, r)
      BY <2>1, <2>6, <2>11 DEF Reported
    <2>12. Keeps(s, t)
      BY <2>1, <2>7, <2>8, <2>9, <2>10, <2>11 DEF Keeps, Good
    <2>. QED BY <1>2, <2>1, <2>2, <2>3, <2>4, <2>12 DEF t, Tabled
  <1>. QED BY <1>1, <1>2

-----------------------------------------------------------------------------
(***************************************************************************)
(* Resolving.                                                              *)
(***************************************************************************)
LEMMA ResolvedTyped ==
  ASSUME NEW s \in AsmType, NEW ids \in Seq(Nat), ToSet(ids) \subseteq DOMAIN s.entry,
         NEW place, NEW a, Users(s, ids, place, a) # {}
  PROVE  Resolved(s, ids, place, a) \in Nat
  <1>. DEFINE U == Users(s, ids, place, a)
  <1>1. DOMAIN ids = 1 .. Len(ids) /\ Len(ids) \in Nat
    BY LenProperties
  <1>2. U \in SUBSET (1 .. Len(ids)) /\ U # {}
    BY <1>1 DEF Users
  <1>. HIDE DEF U
  <1>3. Max(U) \in DOMAIN ids
    BY <1>1, <1>2, MaxOfPositions
  <1>4. ids[Max(U)] \in DOMAIN s.entry
    BY <1>3 DEF ToSet
  <1>5. s.entry[ids[Max(U)]].addr \in Nat
    BY <1>4, LabelTyped
  <1>. QED BY <1>5 DEF Resolved, U

LEMMA ResolveFields ==
  ASSUME NEW s \in AsmType, NEW ids \in Seq(Nat), ToSet(ids) \subseteq DOMAIN s.entry
  PROVE  LET t == Resolve(s, ids)
         IN /\ t \in AsmType /\ DOMAIN t.entry = DOMAIN s.entry
            /\ \A id \in DOMAIN s.entry :
                 t.entry[id] = IF id \in ToSet(ids) THEN [s.entry[id] EXCEPT !.uses = {}]
                               ELSE s.entry[id]
            /\ t.table = s.table /\ t.local = s.local /\ t.line = s.line /\ SameCounters(s, t)
            /\ \A a \in TextWords :
                 t.text[a] = IF Users(s, ids, "text", a) = {} THEN s.text[a]
                             ELSE Resolved(s, ids, "text", a)
            /\ \A b \in DataBytes :
                 t.data[b] = IF Users(s, ids, "data", WordAt(b)) = {} THEN s.data[b]
                             ELSE <<Resolved(s, ids, "data", WordAt(b)), b % 4>>
  <1>. DEFINE t == Resolve(s, ids)
              x == [a \in TextWords |-> IF Users(s, ids, "text", a) = {} THEN s.text[a]
                                        ELSE Resolved(s, ids, "text", a)]
              d == [b \in DataBytes |-> IF Users(s, ids, "data", WordAt(b)) = {} THEN s.data[b]
                                        ELSE <<Resolved(s, ids, "data", WordAt(b)), b % 4>>]
              e == [id \in DOMAIN s.entry |->
                      IF id \in ToSet(ids) THEN [s.entry[id] EXCEPT !.uses = {}]
                      ELSE s.entry[id]]
  <1>1. x \in [TextWords -> Nat]
    <2>1. s.text \in [TextWords -> Nat]
      BY DEF AsmType
    <2>2. \A a \in TextWords : Users(s, ids, "text", a) # {} => Resolved(s, ids, "text", a) \in Nat
      BY ResolvedTyped
    <2>. QED BY <2>1, <2>2
  <1>2. d \in [DataBytes -> Nat \X (0 .. 3)]
    <2>1. s.data \in [DataBytes -> Nat \X (0 .. 3)]
      BY DEF AsmType
    <2>2. \A b \in DataBytes : Users(s, ids, "data", WordAt(b)) # {} =>
            Resolved(s, ids, "data", WordAt(b)) \in Nat
      BY ResolvedTyped
    <2>3. \A b \in DataBytes : b % 4 \in 0 .. 3
      BY Places DEF DataBytes
    <2>. QED BY <2>1, <2>2, <2>3
  <1>3. e \in Seq(LabelType) /\ DOMAIN e = DOMAIN s.entry
    <2>1. ASSUME NEW id \in DOMAIN s.entry  PROVE e[id] \in LabelType
      <3>1. s.entry[id] \in LabelType
        BY LabelTyped
      <3>2. [s.entry[id] EXCEPT !.uses = {}] \in LabelType
        BY <3>1 DEF LabelType
      <3>. QED BY <3>1, <3>2
    <2>2. e = [id \in DOMAIN s.entry |-> e[id]]
      OBVIOUS
    <2>. HIDE DEF e
    <2>. QED BY <2>1, <2>2, Relabelled
  <1>4. t = [s EXCEPT !.text = x, !.data = d, !.entry = e]
    BY DEF Resolve
  <1>5. \A id \in DOMAIN s.entry :
          e[id] = IF id \in ToSet(ids) THEN [s.entry[id] EXCEPT !.uses = {}] ELSE s.entry[id]
    OBVIOUS
  <1>6. /\ \A a \in TextWords :
             x[a] = IF Users(s, ids, "text", a) = {} THEN s.text[a]
                    ELSE Resolved(s, ids, "text", a)
        /\ \A b \in DataBytes :
             d[b] = IF Users(s, ids, "data", WordAt(b)) = {} THEN s.data[b]
                    ELSE <<Resolved(s, ids, "data", WordAt(b)), b % 4>>
    OBVIOUS
  <1>. HIDE DEF e, d, x, t
  <1>7. /\ t \in AsmType /\ t.entry = e /\ t.table = s.table /\ t.local = s.local
        /\ t.line = s.line /\ SameCounters(s, t) /\ t.text = x /\ t.data = d
    BY <1>1, <1>2, <1>3, <1>4 DEF AsmType, SameCounters
  <1>. QED BY <1>3, <1>5, <1>6, <1>7 DEF t

\* The uses of the labels of the line are gone, and so are the labels.
LEMMA ClearFields ==
  ASSUME NEW s \in AsmType, ToSet(s.line) \subseteq DOMAIN s.entry
  PROVE  LET t == clear_labels(s)  r == Resolve(s, s.line)
         IN /\ t \in AsmType /\ DOMAIN t.entry = DOMAIN s.entry
            /\ \A id \in DOMAIN s.entry :
                 t.entry[id] = IF id \in ToSet(s.line) THEN [s.entry[id] EXCEPT !.uses = {}]
                               ELSE s.entry[id]
            /\ t.table = s.table /\ t.local = s.local /\ t.line = <<>> /\ SameCounters(s, t)
            /\ t.text = r.text /\ t.data = r.data
  <1>. DEFINE t == clear_labels(s)
              r == Resolve(s, s.line)
  <1>1. s.line \in Seq(Nat)
    BY DEF AsmType
  <1>2. /\ r \in AsmType /\ DOMAIN r.entry = DOMAIN s.entry
        /\ \A id \in DOMAIN s.entry :
             r.entry[id] = IF id \in ToSet(s.line) THEN [s.entry[id] EXCEPT !.uses = {}]
                           ELSE s.entry[id]
        /\ r.table = s.table /\ r.local = s.local /\ SameCounters(s, r)
    BY <1>1, ResolveFields
  <1>3. t = [r EXCEPT !.line = <<>>] /\ <<>> \in Seq(Nat)
    BY DEF clear_labels
  <1>. HIDE DEF r, t
  <1>4. /\ t \in AsmType /\ t.entry = r.entry /\ t.table = r.table /\ t.local = r.local
        /\ t.line = <<>> /\ SameCounters(r, t) /\ t.text = r.text /\ t.data = r.data
    BY <1>2, <1>3 DEF AsmType, SameCounters
  <1>. QED BY <1>2, <1>4 DEF t, r, SameCounters

LEMMA LineKnown == ASSUME NEW s, Good(s) PROVE s \in AsmType /\ ToSet(s.line) \subseteq DOMAIN s.entry
  BY DEF Good, Lists

\* The labels of the line have addresses, so no use of an undefined one is lost.
LEMMA ClearKeeps ==
  ASSUME NEW s, Good(s)
  PROVE  Keeps(s, clear_labels(s))
  <1>. DEFINE t == clear_labels(s)
  <1>1. /\ t \in AsmType /\ DOMAIN t.entry = DOMAIN s.entry
        /\ \A id \in DOMAIN s.entry :
             t.entry[id] = IF id \in ToSet(s.line) THEN [s.entry[id] EXCEPT !.uses = {}]
                           ELSE s.entry[id]
        /\ t.table = s.table /\ t.local = s.local /\ t.line = <<>> /\ SameCounters(s, t)
    BY LineKnown, ClearFields
  <1>. HIDE DEF t
  <1>2. Advances(s, t)
    <2>1. Counters(t)
      BY <1>1 DEF Good, Counters, SameCounters
    <2>. QED BY <1>1, <2>1 DEF Advances, SameCounters, AsmType
  <1>3. AdvancesLists(s, t)
    BY <1>1, SetOfEmpty DEF AdvancesLists
  <1>4. ASSUME NEW id \in DOMAIN s.entry  PROVE AdvancesLabel(s, t, id)
    <2>1. s.entry[id] \in LabelType
      BY LineKnown, LabelTyped
    <2>2. /\ t.entry[id].name = s.entry[id].name /\ t.entry[id].addr = s.entry[id].addr
          /\ t.entry[id].global_flag = s.entry[id].global_flag
          /\ t.entry[id].gp_flag = s.entry[id].gp_flag
          /\ t.entry[id].const_flag = s.entry[id].const_flag
          /\ t.entry[id].uses = IF id \in ToSet(s.line) THEN {} ELSE s.entry[id].uses
      BY <1>1, <2>1 DEF LabelType
    <2>3. id \in ToSet(s.line) => s.entry[id].addr # 0
      BY DEF Good, Lists
    <2>4. s.entry[id].gp_flag => s.entry[id].addr # 0
      BY DEF Good, Entries
    <2>. QED BY <2>2, <2>3, <2>4 DEF AdvancesLabel
  <1>5. Keeps(s, t)
    BY <1>2, <1>3, <1>4, AdvancesKeeps
  <1>. QED BY <1>5 DEF t

\* One label is changed.
SameLists(s, t) == t.table = s.table /\ t.local = s.local /\ t.line = s.line
LEMMA EntryChanged ==
  ASSUME NEW s \in AsmType, NEW id \in DOMAIN s.entry, NEW new \in LabelType
  PROVE  LET t == [s EXCEPT !.entry[id] = new]
         IN /\ t \in AsmType /\ DOMAIN t.entry = DOMAIN s.entry
            /\ \A i \in DOMAIN s.entry : t.entry[i] = IF i = id THEN new ELSE s.entry[i]
            /\ SameLists(s, t) /\ SameCounters(s, t) /\ SameMemory(s, t)
  <1>. DEFINE e == [s.entry EXCEPT ![id] = new]
              t == [s EXCEPT !.entry = e]
  <1>1. \A i \in DOMAIN s.entry : e[i] = IF i = id THEN new ELSE s.entry[i]
    OBVIOUS
  <1>2. e \in Seq(LabelType) /\ DOMAIN e = DOMAIN s.entry
    <2>1. \A i \in DOMAIN s.entry : e[i] \in LabelType
      BY <1>1, LabelTyped
    <2>2. e = [i \in DOMAIN s.entry |-> e[i]]
      OBVIOUS
    <2>. HIDE DEF e
    <2>. QED BY <2>1, <2>2, Relabelled
  <1>3. [s EXCEPT !.entry[id] = new] = t
    OBVIOUS
  <1>. HIDE DEF e
  <1>4. /\ t \in AsmType /\ t.entry = e
        /\ SameLists(s, t) /\ SameCounters(s, t) /\ SameMemory(s, t)
    BY <1>2 DEF AsmType, SameLists, SameCounters, SameMemory
  <1>. HIDE DEF t
  <1>. QED BY <1>1, <1>2, <1>3, <1>4

\* A label gets flags, uses behind the location counters, or an address that
\* makes it global.
LEMMA LabelKeeps ==
  ASSUME NEW s, Good(s), NEW id \in DOMAIN s.entry, NEW new \in LabelType,
         new.name = s.entry[id].name,
         s.entry[id].addr # 0 => new.addr # 0,
         s.entry[id].global_flag => new.global_flag,
         s.entry[id].const_flag => new.const_flag,
         new.gp_flag => new.addr # 0,
         new.addr # 0 => s.entry[id].addr # 0 \/ new.global_flag,
         s.entry[id].uses \subseteq new.uses,
         \A u \in new.uses : u \in s.entry[id].uses \/ Reached(s, u)
  PROVE  LET t == [s EXCEPT !.entry[id] = new]
         IN /\ Keeps(s, t) /\ DOMAIN t.entry = DOMAIN s.entry
            /\ \A i \in DOMAIN s.entry : t.entry[i] = IF i = id THEN new ELSE s.entry[i]
            /\ SameLists(s, t) /\ SameCounters(s, t) /\ SameMemory(s, t)
  <1>. DEFINE t == [s EXCEPT !.entry[id] = new]
  <1>0. s \in AsmType
    BY DEF Good
  <1>1. /\ t \in AsmType /\ DOMAIN t.entry = DOMAIN s.entry
        /\ \A i \in DOMAIN s.entry : t.entry[i] = IF i = id THEN new ELSE s.entry[i]
        /\ SameLists(s, t) /\ SameCounters(s, t) /\ SameMemory(s, t)
    BY <1>0, EntryChanged
  <1>. HIDE DEF t
  <1>2. Advances(s, t)
    <2>1. Counters(t)
      BY <1>1 DEF Good, Counters, SameCounters
    <2>. QED BY <1>0, <1>1, <2>1 DEF Advances, SameCounters, SameLists, AsmType
  <1>3. AdvancesLists(s, t)
    BY <1>1 DEF AdvancesLists, SameLists
  <1>4. ASSUME NEW i \in DOMAIN s.entry  PROVE AdvancesLabel(s, t, i)
    <2>1. \A u : Reached(t, u) <=> Reached(s, u)
      BY <1>1 DEF Reached, SameCounters
    <2>2. CASE i = id
      BY <1>1, <2>1, <2>2 DEF AdvancesLabel
    <2>3. CASE i # id
      <3>1. t.entry[i] = s.entry[i] /\ (s.entry[i].gp_flag => s.entry[i].addr # 0)
        BY <1>1, <2>3 DEF Good, Entries
      <3>. QED BY <3>1 DEF AdvancesLabel
    <2>. QED BY <2>2, <2>3
  <1>5. Keeps(s, t)
    BY <1>2, <1>3, <1>4, AdvancesKeeps
  <1>. QED BY <1>1, <1>5 DEF t

\* fix_current_label_address before it clears the line.
MovedLine(s, a) ==
  [s EXCEPT !.entry = [id \in DOMAIN s.entry |->
                         IF id \in ToSet(s.line) THEN [s.entry[id] EXCEPT !.addr = a]
                         ELSE s.entry[id]]]

LEMMA MovedKeeps ==
  ASSUME NEW s, Good(s), NEW a \in Nat \ {0}
  PROVE  LET t == MovedLine(s, a)
         IN /\ Keeps(s, t) /\ DOMAIN t.entry = DOMAIN s.entry
            /\ \A id \in DOMAIN s.entry :
                 t.entry[id] = IF id \in ToSet(s.line) THEN [s.entry[id] EXCEPT !.addr = a]
                               ELSE s.entry[id]
            /\ SameLists(s, t) /\ SameCounters(s, t) /\ SameMemory(s, t)
  <1>. DEFINE e == [id \in DOMAIN s.entry |->
                      IF id \in ToSet(s.line) THEN [s.entry[id] EXCEPT !.addr = a]
                      ELSE s.entry[id]]
              t == MovedLine(s, a)
  <1>0. s \in AsmType /\ ToSet(s.line) \subseteq DOMAIN s.entry
    BY LineKnown
  <1>1. \A id \in DOMAIN s.entry :
          e[id] = IF id \in ToSet(s.line) THEN [s.entry[id] EXCEPT !.addr = a] ELSE s.entry[id]
    OBVIOUS
  <1>2. e \in Seq(LabelType) /\ DOMAIN e = DOMAIN s.entry
    <2>1. ASSUME NEW id \in DOMAIN s.entry  PROVE e[id] \in LabelType
      <3>1. s.entry[id] \in LabelType
        BY <1>0, LabelTyped
      <3>2. [s.entry[id] EXCEPT !.addr = a] \in LabelType
        BY <3>1 DEF LabelType
      <3>. QED BY <3>1, <3>2
    <2>2. e = [id \in DOMAIN s.entry |-> e[id]]
      OBVIOUS
    <2>. HIDE DEF e
    <2>. QED BY <1>0, <2>1, <2>2, Relabelled
  <1>3. t = [s EXCEPT !.entry = e]
    BY DEF MovedLine
  <1>. HIDE DEF e, t
  <1>4. /\ t \in AsmType /\ t.entry = e
        /\ SameLists(s, t) /\ SameCounters(s, t) /\ SameMemory(s, t)
    BY <1>0, <1>2, <1>3 DEF AsmType, SameLists, SameCounters, SameMemory
  <1>5. Advances(s, t)
    <2>1. Counters(t)
      BY <1>4 DEF Good, Counters, SameCounters
    <2>. QED BY <1>0, <1>2, <1>4, <2>1 DEF Advances, SameCounters, SameLists, AsmType
  <1>6. AdvancesLists(s, t)
    BY <1>4 DEF AdvancesLists, SameLists
  <1>7. ASSUME NEW id \in DOMAIN s.entry  PROVE AdvancesLabel(s, t, id)
    <2>1. s.entry[id] \in LabelType
      BY <1>0, LabelTyped
    <2>2. /\ t.entry[id].name = s.entry[id].name /\ t.entry[id].uses = s.entry[id].uses
          /\ t.entry[id].global_flag = s.entry[id].global_flag
          /\ t.entry[id].gp_flag = s.entry[id].gp_flag
          /\ t.entry[id].const_flag = s.entry[id].const_flag
          /\ t.entry[id].addr = IF id \in ToSet(s.line) THEN a ELSE s.entry[id].addr
      BY <1>1, <1>4, <2>1 DEF LabelType
    <2>3. id \in ToSet(s.line) => s.entry[id].addr # 0
      BY DEF Good, Lists
    <2>4. s.entry[id].gp_flag => s.entry[id].addr # 0
      BY DEF Good, Entries
    <2>. QED BY <2>2, <2>3, <2>4 DEF AdvancesLabel
  <1>8. Keeps(s, t)
    BY <1>5, <1>6, <1>7, AdvancesKeeps
  <1>. QED BY <1>1, <1>2, <1>4, <1>8 DEF t

\* The labels of the line move to the address given, and leave the line.
LEMMA FixKeeps ==
  ASSUME NEW s, Good(s), NEW a \in Nat \ {0}
  PROVE  LET t == fix_current_label_address(s, a)
         IN /\ Keeps(s, t) /\ DOMAIN t.entry = DOMAIN s.entry
            /\ \A id \in DOMAIN s.entry :
                 /\ t.entry[id].addr = IF id \in ToSet(s.line) THEN a ELSE s.entry[id].addr
                 /\ t.entry[id].const_flag = s.entry[id].const_flag
            /\ t.table = s.table /\ t.local = s.local /\ t.line = <<>> /\ SameCounters(s, t)
            /\ t = clear_labels(MovedLine(s, a))
  <1>. DEFINE p == MovedLine(s, a)
              t == clear_labels(p)
  <1>1. fix_current_label_address(s, a) = t
    BY DEF fix_current_label_address, MovedLine
  <1>2. /\ Keeps(s, p) /\ DOMAIN p.entry = DOMAIN s.entry
        /\ \A id \in DOMAIN s.entry :
             p.entry[id] = IF id \in ToSet(s.line) THEN [s.entry[id] EXCEPT !.addr = a]
                           ELSE s.entry[id]
        /\ SameLists(s, p) /\ SameCounters(s, p)
    BY MovedKeeps
  <1>. HIDE DEF p
  <1>3. Good(p)
    BY <1>2 DEF Keeps
  <1>4. /\ DOMAIN t.entry = DOMAIN p.entry
        /\ \A id \in DOMAIN p.entry :
             t.entry[id] = IF id \in ToSet(p.line) THEN [p.entry[id] EXCEPT !.uses = {}]
                           ELSE p.entry[id]
        /\ t.table = p.table /\ t.local = p.local /\ t.line = <<>> /\ SameCounters(p, t)
    BY <1>3, LineKnown, ClearFields
  <1>5. Keeps(p, t)
    BY <1>3, ClearKeeps
  <1>. HIDE DEF t
  <1>6. Keeps(s, t)
    BY <1>2, <1>5, KeepsOn
  <1>7. ASSUME NEW id \in DOMAIN s.entry
        PROVE  /\ t.entry[id].addr = IF id \in ToSet(s.line) THEN a ELSE s.entry[id].addr
               /\ t.entry[id].const_flag = s.entry[id].const_flag
    <2>1. s.entry[id] \in LabelType /\ p.entry[id] \in LabelType
      BY <1>2, <1>3, LineKnown, LabelTyped
    <2>2. /\ p.entry[id].addr = IF id \in ToSet(s.line) THEN a ELSE s.entry[id].addr
          /\ p.entry[id].const_flag = s.entry[id].const_flag
      BY <1>2, <2>1 DEF LabelType
    <2>3. t.entry[id].addr = p.entry[id].addr /\ t.entry[id].const_flag = p.entry[id].const_flag
      BY <1>2, <1>4, <2>1 DEF LabelType
    <2>. QED BY <2>2, <2>3
  <1>. QED BY <1>1, <1>2, <1>4, <1>6, <1>7 DEF t, p, SameLists, SameCounters

\* record_label before it links the label.
Placed(s, id, a) ==
  IF s.entry[id].gp_flag THEN s ELSE [s EXCEPT !.entry[id].addr = a]

LEMMA PlacedFields ==
  ASSUME NEW s \in AsmType, NEW id \in DOMAIN s.entry, NEW a \in Nat
  PROVE  LET t == Placed(s, id, a)
             x == IF s.entry[id].gp_flag THEN s.entry[id].addr ELSE a
         IN /\ t \in AsmType /\ DOMAIN t.entry = DOMAIN s.entry
            /\ \A i \in DOMAIN s.entry :
                 t.entry[i] = IF i = id THEN [s.entry[id] EXCEPT !.addr = x] ELSE s.entry[i]
            /\ SameLists(s, t) /\ SameCounters(s, t) /\ SameMemory(s, t)
  <1>. DEFINE new == [s.entry[id] EXCEPT !.addr = a]
  <1>1. s.entry[id] \in LabelType
    BY LabelTyped
  <1>2. new \in LabelType
    BY <1>1 DEF LabelType
  <1>3. CASE s.entry[id].gp_flag
    <2>1. [s.entry[id] EXCEPT !.addr = s.entry[id].addr] = s.entry[id]
      BY <1>1 DEF LabelType
    <2>. QED BY <1>3, <2>1 DEF Placed, SameLists, SameCounters, SameMemory
  <1>4. CASE ~s.entry[id].gp_flag
    <2>. DEFINE t == [s EXCEPT !.entry[id] = new]
    <2>1. /\ t \in AsmType /\ DOMAIN t.entry = DOMAIN s.entry
          /\ \A i \in DOMAIN s.entry : t.entry[i] = IF i = id THEN new ELSE s.entry[i]
          /\ SameLists(s, t) /\ SameCounters(s, t) /\ SameMemory(s, t)
      BY <1>2, EntryChanged
    <2>2. Placed(s, id, a) = t
      BY <1>4 DEF Placed
    <2>. HIDE DEF t
    <2>. QED BY <1>4, <2>1, <2>2
  <1>. QED BY <1>3, <1>4

LEMMA LinkFields ==
  ASSUME NEW s \in AsmType, NEW id \in DOMAIN s.entry
  PROVE  LET t == Link(s, id)
         IN /\ t \in AsmType /\ t.entry = s.entry /\ t.table = s.table /\ t.line = s.line
            /\ ToSet(t.local) = IF s.entry[id].global_flag THEN ToSet(s.local)
                                ELSE {id} \cup ToSet(s.local)
            /\ SameCounters(s, t) /\ SameMemory(s, t)
  <1>. DEFINE q == <<id>> \o s.local
  <1>1. id \in Nat /\ s.local \in Seq(Nat)
    BY LabelTyped DEF AsmType
  <1>2. q \in Seq(Nat) /\ ToSet(q) = {id} \cup ToSet(s.local)
    BY <1>1, SetOfCons
  <1>3. CASE s.entry[id].global_flag
    BY <1>3 DEF Link, SameCounters, SameMemory
  <1>4. CASE ~s.entry[id].global_flag
    <2>. DEFINE t == [s EXCEPT !.local = q]
    <2>1. Link(s, id) = t
      BY <1>4 DEF Link
    <2>. HIDE DEF q
    <2>2. /\ t \in AsmType /\ t.entry = s.entry /\ t.table = s.table /\ t.line = s.line
          /\ t.local = q /\ SameCounters(s, t) /\ SameMemory(s, t)
      BY <1>2 DEF AsmType, SameCounters, SameMemory
    <2>. QED BY <1>2, <1>4, <2>1, <2>2
  <1>. QED BY <1>3, <1>4

\* A first definition: the label gets its address, its uses are resolved or not, and
\* unless it is global it is linked.
AddressGiven(s, id, a) == IF s.entry[id].gp_flag THEN s.entry[id].addr ELSE a
Recorded(s, id, a, resolve, t) ==
  /\ t \in AsmType /\ DOMAIN t.entry = DOMAIN s.entry
  /\ \A i \in DOMAIN s.entry :
       t.entry[i] = IF i = id THEN [s.entry[id] EXCEPT
                                      !.addr = AddressGiven(s, id, a),
                                      !.uses = IF resolve THEN {} ELSE s.entry[id].uses]
                    ELSE s.entry[i]
  /\ t.table = s.table /\ t.line = s.line
  /\ ToSet(t.local) = IF s.entry[id].global_flag THEN ToSet(s.local)
                      ELSE {id} \cup ToSet(s.local)
  /\ SameCounters(s, t)
  /\ SameMemory(IF resolve THEN Resolve(Placed(s, id, a), <<id>>) ELSE Placed(s, id, a), t)
LEMMA RecordFields ==
  ASSUME NEW s \in AsmType, NEW n \in Names, s.table[n] \in DOMAIN s.entry, ~Twice(s, n),
         NEW a \in Nat, NEW resolve \in BOOLEAN
  PROVE  Recorded(s, s.table[n], a, resolve, record_label(s, n, a, resolve))
  <1>. DEFINE id == s.table[n]
              p == Placed(s, id, a)
              d == IF resolve THEN Resolve(p, <<id>>) ELSE p
              x == IF s.entry[id].gp_flag THEN s.entry[id].addr ELSE a
              u == IF resolve THEN {} ELSE s.entry[id].uses
  <1>1. lookup_label(s, n) = s
    <2>1. s.table[n] # 0
      BY LabelTyped
    <2>. QED BY <2>1 DEF lookup_label
  <1>2. record_label(s, n, a, resolve) = Link(d, id)
    BY <1>1 DEF record_label, resolve_label_uses, Placed
  <1>3. s.entry[id] \in LabelType /\ id \in Nat
    BY LabelTyped
  <1>4. /\ p \in AsmType /\ DOMAIN p.entry = DOMAIN s.entry
        /\ \A i \in DOMAIN s.entry :
             p.entry[i] = IF i = id THEN [s.entry[id] EXCEPT !.addr = x] ELSE s.entry[i]
        /\ SameLists(s, p) /\ SameCounters(s, p) /\ SameMemory(s, p)
    BY PlacedFields
  <1>. HIDE DEF p
  <1>5. /\ d \in AsmType /\ DOMAIN d.entry = DOMAIN s.entry
        /\ \A i \in DOMAIN s.entry :
             d.entry[i] = IF i = id THEN [s.entry[id] EXCEPT !.addr = x, !.uses = u]
                          ELSE s.entry[i]
        /\ SameLists(s, d) /\ SameCounters(s, d)
    <2>1. CASE resolve
      <3>. DEFINE r == Resolve(p, <<id>>)
      <3>1. <<id>> \in Seq(Nat) /\ ToSet(<<id>>) = {id}
        BY <1>3 DEF ToSet
      <3>2. /\ r \in AsmType /\ DOMAIN r.entry = DOMAIN p.entry
            /\ \A i \in DOMAIN p.entry :
                 r.entry[i] = IF i \in ToSet(<<id>>) THEN [p.entry[i] EXCEPT !.uses = {}]
                              ELSE p.entry[i]
            /\ r.table = p.table /\ r.local = p.local /\ r.line = p.line /\ SameCounters(p, r)
        BY <1>4, <3>1, ResolveFields
      <3>. HIDE DEF r
      <3>3. d = r
        BY <2>1 DEF r
      <3>4. u = {}
        BY <2>1
      <3>. HIDE DEF d, x, u
      <3>5. [[s.entry[id] EXCEPT !.addr = x] EXCEPT !.uses = {}]
              = [s.entry[id] EXCEPT !.addr = x, !.uses = u]
        BY <1>3, <3>4 DEF LabelType
      <3>6. \A i \in DOMAIN s.entry :
              r.entry[i] = IF i = id THEN [s.entry[id] EXCEPT !.addr = x, !.uses = u]
                           ELSE s.entry[i]
        BY <1>4, <3>1, <3>2, <3>5
      <3>. QED BY <1>4, <3>2, <3>3, <3>6 DEF SameLists, SameCounters
    <2>2. CASE ~resolve
      <3>1. d = p /\ u = s.entry[id].uses
        BY <2>2
      <3>. HIDE DEF d, x, u
      <3>2. [s.entry[id] EXCEPT !.addr = x]
              = [s.entry[id] EXCEPT !.addr = x, !.uses = u]
        BY <1>3, <3>1 DEF LabelType
      <3>. QED BY <1>4, <3>1, <3>2
    <2>. QED BY <2>1, <2>2
  <1>. HIDE DEF d
  <1>6. LET t == Link(d, id)
        IN /\ t \in AsmType /\ t.entry = d.entry /\ t.table = d.table /\ t.line = d.line
           /\ ToSet(t.local) = IF d.entry[id].global_flag THEN ToSet(d.local)
                               ELSE {id} \cup ToSet(d.local)
           /\ SameCounters(d, t) /\ SameMemory(d, t)
    BY <1>5, LinkFields
  <1>7. d.entry[id].global_flag = s.entry[id].global_flag
    BY <1>3, <1>5 DEF LabelType
  <1>. DEFINE t == Link(d, id)
  <1>8. t \in AsmType /\ DOMAIN t.entry = DOMAIN s.entry /\ t.table = s.table /\ t.line = s.line
    BY <1>5, <1>6 DEF SameLists
  <1>9. \A i \in DOMAIN s.entry :
          t.entry[i] = IF i = id THEN [s.entry[id] EXCEPT !.addr = x, !.uses = u]
                       ELSE s.entry[i]
    BY <1>5, <1>6
  <1>10. /\ ToSet(t.local) = IF s.entry[id].global_flag THEN ToSet(s.local)
                             ELSE {id} \cup ToSet(s.local)
         /\ SameCounters(s, t)
    BY <1>5, <1>6, <1>7 DEF SameLists, SameCounters
  <1>11. SameMemory(d, t)
    BY <1>6
  <1>. HIDE DEF t, x, u
  <1>12. record_label(s, n, a, resolve) = t
    BY <1>2 DEF t
  <1>13. Recorded(s, id, a, resolve, t)
    BY <1>8, <1>9, <1>10, <1>11 DEF Recorded, AddressGiven, d, p, x, u
  <1>. QED BY <1>12, <1>13

LEMMA RecordLooked ==
  ASSUME NEW s0, Good(s0), NEW n \in Names, NEW a, NEW resolve
  PROVE  LET s == lookup_label(s0, n)
         IN record_label(s0, n, a, resolve) =
              IF Twice(s, n) THEN clear_labels(s) ELSE record_label(s, n, a, resolve)
  <1>. DEFINE s == lookup_label(s0, n)
  <1>1. s.table[n] \in DOMAIN s.entry /\ Good(s)
    BY LookupKeeps DEF Keeps
  <1>2. s.table[n] # 0
    BY <1>1, LabelTyped DEF Good
  <1>3. lookup_label(s, n) = s
    BY <1>2 DEF lookup_label
  <1>4. record_label(s0, n, a, resolve) = record_label(s, n, a, resolve)
    BY <1>3 DEF record_label
  <1>5. Twice(s, n) => record_label(s, n, a, resolve) = clear_labels(s)
    BY <1>3 DEF record_label
  <1>. HIDE DEF s
  <1>. QED BY <1>4, <1>5 DEF s

\* A definition whose address is not 0.
LEMMA FirstKeeps ==
  ASSUME NEW s, Good(s), NEW n \in Names, s.table[n] \in DOMAIN s.entry,
         s.entry[s.table[n]].name = n, ~Twice(s, n),
         NEW a \in Nat \ {0}, NEW resolve \in BOOLEAN
  PROVE  LET t == record_label(s, n, a, resolve)
         IN Keeps(s, t) /\ t.entry[s.table[n]].addr # 0
  <1>. DEFINE id == s.table[n]
              t == record_label(s, n, a, resolve)
              x == IF s.entry[id].gp_flag THEN s.entry[id].addr ELSE a
              u == IF resolve THEN {} ELSE s.entry[id].uses
  <1>0. s \in AsmType /\ a \in Nat /\ a # 0
    BY DEF Good
  <1>1. /\ t \in AsmType /\ DOMAIN t.entry = DOMAIN s.entry
        /\ \A i \in DOMAIN s.entry :
             t.entry[i] = IF i = id THEN [s.entry[id] EXCEPT !.addr = x, !.uses = u]
                          ELSE s.entry[i]
        /\ t.table = s.table /\ t.line = s.line
        /\ ToSet(t.local) = IF s.entry[id].global_flag THEN ToSet(s.local)
                            ELSE {id} \cup ToSet(s.local)
        /\ SameCounters(s, t)
    <2>. HIDE DEF t
    <2>1. Recorded(s, id, a, resolve, t)
      BY <1>0, RecordFields DEF t
    <2>. QED BY <2>1 DEF Recorded, AddressGiven
  <1>. HIDE DEF t
  <1>2. s.entry[id] \in LabelType
    BY <1>0, LabelTyped
  <1>3. x # 0 /\ u \subseteq s.entry[id].uses
    <2>1. s.entry[id].gp_flag => s.entry[id].addr # 0
      BY DEF Good, Entries
    <2>. QED BY <1>0, <2>1
  <1>4. /\ t.entry[id].name = s.entry[id].name /\ t.entry[id].addr = x /\ t.entry[id].uses = u
        /\ t.entry[id].global_flag = s.entry[id].global_flag
        /\ t.entry[id].gp_flag = s.entry[id].gp_flag
        /\ t.entry[id].const_flag = s.entry[id].const_flag
    <2>. HIDE DEF x, u
    <2>. QED BY <1>1, <1>2 DEF LabelType
  <1>. HIDE DEF x, u
  <1>5. Advances(s, t)
    <2>1. Counters(t)
      BY <1>1 DEF Good, Counters, SameCounters
    <2>2. ToSet(s.local) \subseteq ToSet(t.local)
      BY <1>1
    <2>3. s.next_text_pc <= t.next_text_pc /\ s.next_data_pc <= t.next_data_pc
      BY <1>0, <1>1 DEF SameCounters, AsmType
    <2>. QED BY <1>1, <2>1, <2>2, <2>3 DEF Advances
  <1>6. AdvancesLists(s, t)
    <2>1. Tabled(s, id)
      BY DEF Tabled
    <2>. QED BY <1>1, <1>3, <1>4, <2>1 DEF AdvancesLists
  <1>7. ASSUME NEW i \in DOMAIN s.entry  PROVE AdvancesLabel(s, t, i)
    <2>1. CASE i # id
      <3>1. t.entry[i] = s.entry[i] /\ (s.entry[i].gp_flag => s.entry[i].addr # 0)
        BY <1>1, <2>1 DEF Good, Entries
      <3>. QED BY <3>1 DEF AdvancesLabel
    <2>2. CASE i = id
      <3>1. s.entry[id].global_flag \/ id \in ToSet(t.local)
        BY <1>1
      <3>. QED BY <1>3, <1>4, <2>2, <3>1 DEF AdvancesLabel
    <2>. QED BY <2>1, <2>2
  <1>8. Keeps(s, t)
    BY <1>5, <1>6, <1>7, AdvancesKeeps
  <1>. QED BY <1>3, <1>4, <1>8 DEF t

\* x = v, where v may be 0: then the flag makes the label defined.
ConstantOf(s, n, v) ==
  LET t == record_label(s, n, v, TRUE)
  IN [t EXCEPT !.entry[t.table[n]].const_flag = TRUE]
LEMMA FirstConstantKeeps ==
  ASSUME NEW s, Good(s), NEW n \in Names, s.table[n] \in DOMAIN s.entry,
         s.entry[s.table[n]].name = n, ~Twice(s, n), NEW a \in Nat
  PROVE  Keeps(s, ConstantOf(s, n, a))
  <1>. DEFINE id == s.table[n]
              r == record_label(s, n, a, TRUE)
              x == IF s.entry[id].gp_flag THEN s.entry[id].addr ELSE a
              d == [s.entry[id] EXCEPT !.addr = x, !.uses = {}]
              e == [d EXCEPT !.const_flag = TRUE]
              t == [r EXCEPT !.entry[id] = e]
  <1>0. s \in AsmType
    BY DEF Good
  <1>1. /\ r \in AsmType /\ DOMAIN r.entry = DOMAIN s.entry
        /\ \A i \in DOMAIN s.entry : r.entry[i] = IF i = id THEN d ELSE s.entry[i]
        /\ r.table = s.table /\ r.line = s.line
        /\ ToSet(r.local) = IF s.entry[id].global_flag THEN ToSet(s.local)
                            ELSE {id} \cup ToSet(s.local)
        /\ SameCounters(s, r)
    <2>. HIDE DEF r
    <2>1. Recorded(s, id, a, TRUE, r)
      BY <1>0, RecordFields DEF r
    <2>. QED BY <2>1 DEF Recorded, AddressGiven
  <1>2. ConstantOf(s, n, a) = [r EXCEPT !.entry[id].const_flag = TRUE]
    BY <1>1 DEF ConstantOf
  <1>. HIDE DEF r
  <1>3. s.entry[id] \in LabelType
    BY <1>0, LabelTyped
  <1>4. x \in Nat /\ (s.entry[id].gp_flag => x # 0) /\ (s.entry[id].addr # 0 => x # 0)
    <2>1. s.entry[id].gp_flag => s.entry[id].addr # 0
      BY DEF Good, Entries
    <2>2. s.entry[id].addr # 0 => s.entry[id].gp_flag
      BY DEF Twice
    <2>. QED BY <1>3, <2>1, <2>2 DEF LabelType
  <1>. HIDE DEF x
  <1>5. /\ e \in LabelType
        /\ e.name = s.entry[id].name /\ e.addr = x /\ e.uses = {} /\ e.const_flag = TRUE
        /\ e.global_flag = s.entry[id].global_flag
        /\ e.gp_flag = s.entry[id].gp_flag
    BY <1>3, <1>4 DEF LabelType
  <1>6. ConstantOf(s, n, a) = t
    BY <1>1, <1>2
  <1>. HIDE DEF d, e
  <1>7. /\ t \in AsmType /\ DOMAIN t.entry = DOMAIN r.entry
        /\ \A i \in DOMAIN r.entry : t.entry[i] = IF i = id THEN e ELSE r.entry[i]
        /\ SameLists(r, t) /\ SameCounters(r, t)
    BY <1>1, <1>5, EntryChanged
  <1>. HIDE DEF t
  <1>8. Advances(s, t)
    <2>1. Counters(t)
      BY <1>1, <1>7 DEF Good, Counters, SameCounters
    <2>2. ToSet(s.local) \subseteq ToSet(t.local)
      BY <1>1, <1>7 DEF SameLists
    <2>3. s.next_text_pc <= t.next_text_pc /\ s.next_data_pc <= t.next_data_pc
      BY <1>0, <1>1, <1>7 DEF SameCounters, AsmType
    <2>. QED BY <1>1, <1>7, <2>1, <2>2, <2>3 DEF Advances, SameLists
  <1>9. AdvancesLists(s, t)
    <2>1. Tabled(s, id)
      BY DEF Tabled
    <2>. QED BY <1>1, <1>5, <1>7, <2>1 DEF AdvancesLists, SameLists
  <1>10. ASSUME NEW i \in DOMAIN s.entry  PROVE AdvancesLabel(s, t, i)
    <2>1. CASE i # id
      <3>1. t.entry[i] = s.entry[i] /\ (s.entry[i].gp_flag => s.entry[i].addr # 0)
        BY <1>1, <1>7, <2>1 DEF Good, Entries
      <3>. QED BY <3>1 DEF AdvancesLabel
    <2>2. CASE i = id
      <3>1. s.entry[id].global_flag \/ id \in ToSet(t.local)
        BY <1>1, <1>7 DEF SameLists
      <3>. QED BY <1>1, <1>4, <1>5, <1>7, <2>2, <3>1 DEF AdvancesLabel
    <2>. QED BY <2>1, <2>2
  <1>. QED BY <1>6, <1>8, <1>9, <1>10, AdvancesKeeps

\* Either way the label is in the table afterwards, with an address.
RecordedLabel(s0, n, t) ==
  /\ t.table[n] \in DOMAIN t.entry /\ t.entry[t.table[n]].name = n
  /\ t.table = lookup_label(s0, n).table
  /\ DOMAIN t.entry = DOMAIN lookup_label(s0, n).entry
  /\ SameCounters(s0, t)

LEMMA RecordKeeps ==
  ASSUME NEW s0, Good(s0), NEW n \in Names, NEW a \in Nat \ {0}, NEW resolve \in BOOLEAN
  PROVE  LET t == record_label(s0, n, a, resolve)
         IN /\ Keeps(s0, t) /\ RecordedLabel(s0, n, t)
            /\ t.entry[t.table[n]].addr # 0
            /\ t.line = IF Twice(lookup_label(s0, n), n) THEN <<>> ELSE s0.line
  <1>. DEFINE s == lookup_label(s0, n)
              t == record_label(s0, n, a, resolve)
  <1>1. /\ Keeps(s0, s) /\ s.table[n] \in DOMAIN s.entry /\ s.entry[s.table[n]].name = n
        /\ s.line = s0.line /\ SameCounters(s0, s)
    BY LookupKeeps
  <1>2. t = IF Twice(s, n) THEN clear_labels(s) ELSE record_label(s, n, a, resolve)
    BY RecordLooked
  <1>. HIDE DEF t
  <1>3. CASE Twice(s, n)
    <2>1. t = clear_labels(s)
      BY <1>2, <1>3
    <2>. HIDE DEF s
    <2>2. Good(s) /\ s \in AsmType /\ ToSet(s.line) \subseteq DOMAIN s.entry
      BY <1>1, LineKnown DEF Keeps
    <2>3. /\ DOMAIN t.entry = DOMAIN s.entry
          /\ \A i \in DOMAIN s.entry :
               t.entry[i] = IF i \in ToSet(s.line) THEN [s.entry[i] EXCEPT !.uses = {}]
                            ELSE s.entry[i]
          /\ t.table = s.table /\ t.line = <<>> /\ SameCounters(s, t)
      BY <2>1, <2>2, ClearFields
    <2>4. Keeps(s0, t)
      BY <1>1, <2>1, <2>2, ClearKeeps, KeepsOn
    <2>5. s.entry[s.table[n]] \in LabelType /\ s.entry[s.table[n]].addr # 0
      BY <1>1, <1>3, <2>2, LabelTyped DEF Twice
    <2>6. t.entry[s.table[n]].addr # 0 /\ t.entry[s.table[n]].name = n
      BY <1>1, <2>3, <2>5 DEF LabelType
    <2>. QED BY <1>1, <1>3, <2>3, <2>4, <2>6 DEF RecordedLabel, SameCounters, s, t
  <1>4. CASE ~Twice(s, n)
    <2>1. t = record_label(s, n, a, resolve)
      BY <1>2, <1>4
    <2>. HIDE DEF s
    <2>2. Good(s) /\ s \in AsmType /\ a \in Nat
      BY <1>1 DEF Keeps, Good
    <2>3. Recorded(s, s.table[n], a, resolve, t)
      BY <1>1, <1>4, <2>1, <2>2, RecordFields
    <2>4. Keeps(s, t) /\ t.entry[s.table[n]].addr # 0
      BY <1>1, <1>4, <2>1, <2>2, FirstKeeps
    <2>5. Keeps(s0, t)
      BY <1>1, <2>4, KeepsOn
    <2>6. t.table = s.table /\ DOMAIN t.entry = DOMAIN s.entry /\ t.line = s.line
          /\ SameCounters(s, t)
      BY <2>3 DEF Recorded
    <2>7. t.entry[t.table[n]].name = n
      <3>1. Tables(t) /\ t.table[n] # 0
        BY <1>1, <2>2, <2>4, <2>6, LabelTyped DEF Keeps, Good
      <3>. QED BY <3>1 DEF Tables
    <2>. QED BY <1>1, <1>4, <2>4, <2>5, <2>6, <2>7 DEF RecordedLabel, SameCounters, s, t
  <1>. QED BY <1>3, <1>4

LEMMA ConstantKeeps ==
  ASSUME NEW s0, Good(s0), NEW n \in Names, NEW a \in Nat
  PROVE  Keeps(s0, ConstantOf(s0, n, a))
  <1>. DEFINE s == lookup_label(s0, n)
              r == record_label(s0, n, a, TRUE)
  <1>1. /\ Keeps(s0, s) /\ s.table[n] \in DOMAIN s.entry /\ s.entry[s.table[n]].name = n
    BY LookupKeeps
  <1>2. r = IF Twice(s, n) THEN clear_labels(s) ELSE record_label(s, n, a, TRUE)
    BY RecordLooked
  <1>. HIDE DEF s
  <1>3. Good(s) /\ s \in AsmType /\ ToSet(s.line) \subseteq DOMAIN s.entry
    BY <1>1, LineKnown DEF Keeps
  <1>4. CASE Twice(s, n)
    <2>. DEFINE id == s.table[n]
                e == [r.entry[id] EXCEPT !.const_flag = TRUE]
                t == [r EXCEPT !.entry[id] = e]
    <2>1. Keeps(s, r) /\ r.table = s.table /\ DOMAIN r.entry = DOMAIN s.entry
      BY <1>2, <1>3, <1>4, ClearKeeps, ClearFields
    <2>2. ConstantOf(s0, n, a) = t
      BY <2>1 DEF ConstantOf
    <2>. HIDE DEF r
    <2>3. Good(r) /\ id \in DOMAIN r.entry
      BY <1>1, <2>1 DEF Keeps
    <2>4. r.entry[id] \in LabelType
      BY <2>3, LabelTyped DEF Good
    <2>5. /\ e \in LabelType /\ e.name = r.entry[id].name /\ e.addr = r.entry[id].addr
          /\ e.global_flag = r.entry[id].global_flag /\ e.const_flag
          /\ e.gp_flag = r.entry[id].gp_flag /\ e.uses = r.entry[id].uses
      BY <2>4 DEF LabelType
    <2>6. r.entry[id].gp_flag => r.entry[id].addr # 0
      BY <2>3 DEF Good, Entries
    <2>. HIDE DEF e, id
    <2>7. Keeps(r, t)
      BY <2>3, <2>5, <2>6, LabelKeeps
    <2>. QED BY <1>1, <2>1, <2>2, <2>7, KeepsOn
  <1>5. CASE ~Twice(s, n)
    <2>1. ConstantOf(s0, n, a) = ConstantOf(s, n, a)
      BY <1>2, <1>5 DEF ConstantOf
    <2>2. Keeps(s, ConstantOf(s, n, a))
      BY <1>1, <1>3, <1>5, FirstConstantKeeps
    <2>. QED BY <1>1, <2>1, <2>2, KeepsOn
  <1>. QED BY <1>4, <1>5

-----------------------------------------------------------------------------
(***************************************************************************)
(* Memory and the location counters.                                       *)
(***************************************************************************)
\* Storing and moving the counters onwards does not touch the labels.
LEMMA StoringKeeps ==
  ASSUME NEW s, Good(s), NEW t \in AsmType, t.entry = s.entry, SameLists(s, t), Counters(t),
         s.next_text_pc <= t.next_text_pc, s.next_data_pc <= t.next_data_pc
  PROVE  Keeps(s, t)
  <1>1. Advances(s, t) /\ AdvancesLists(s, t)
    BY DEF Advances, AdvancesLists, SameLists
  <1>2. ASSUME NEW id \in DOMAIN s.entry  PROVE AdvancesLabel(s, t, id)
    <2>1. s.entry[id].gp_flag => s.entry[id].addr # 0
      BY DEF Good, Entries
    <2>. QED BY <2>1 DEF AdvancesLabel
  <1>. QED BY <1>1, <1>2, AdvancesKeeps

LEMMA CountersTyped ==
  ASSUME NEW s, Good(s)
  PROVE  /\ s \in AsmType
         /\ s.next_text_pc \in Nat \ {0} /\ s.next_data_pc \in Nat \ {0}
         /\ s.next_gp_item_addr \in Nat \ {0}
         /\ s.next_text_pc >= TextBot /\ s.next_data_pc >= DataBot
         /\ s.next_gp_item_addr \in GpBot .. GpTop
  <1>1. s.next_text_pc \in Nat /\ s.next_data_pc \in Nat /\ s.next_gp_item_addr \in Nat
    BY DEF Good, AsmType
  <1>. QED BY <1>1, Places DEF Good, Counters

LEMMA TextMoves ==
  ASSUME NEW s, Good(s), NEW v \in Nat
  PROVE  LET t == [s EXCEPT !.next_text_pc = @ + v]
         IN /\ Keeps(s, t) /\ t.entry = s.entry /\ SameLists(s, t) /\ SameMemory(s, t)
            /\ t.next_text_pc = s.next_text_pc + v /\ t.next_data_pc = s.next_data_pc
  <1>. DEFINE t == [s EXCEPT !.next_text_pc = @ + v]
  <1>1. s \in AsmType /\ s.next_text_pc \in Nat /\ s.next_text_pc + v \in Nat
    BY CountersTyped
  <1>2. /\ t \in AsmType /\ t.entry = s.entry /\ SameLists(s, t) /\ SameMemory(s, t)
        /\ t.next_text_pc = s.next_text_pc + v /\ t.next_data_pc = s.next_data_pc
        /\ t.next_gp_item_addr = s.next_gp_item_addr
    BY <1>1 DEF AsmType, SameLists, SameMemory
  <1>. HIDE DEF t
  <1>3. Counters(t) /\ s.next_text_pc <= t.next_text_pc /\ s.next_data_pc <= t.next_data_pc
    BY <1>2, CountersTyped, Places DEF Counters
  <1>4. Keeps(s, t)
    BY <1>2, <1>3, StoringKeeps
  <1>. QED BY <1>2, <1>4 DEF t

LEMMA DataMoves ==
  ASSUME NEW s, Good(s), NEW a \in Nat, a >= s.next_data_pc
  PROVE  LET t == [s EXCEPT !.next_data_pc = a]
         IN /\ Keeps(s, t) /\ t.entry = s.entry /\ SameLists(s, t) /\ SameMemory(s, t)
            /\ t.next_data_pc = a /\ t.next_text_pc = s.next_text_pc
            /\ t.next_gp_item_addr = s.next_gp_item_addr
  <1>. DEFINE t == [s EXCEPT !.next_data_pc = a]
  <1>1. s \in AsmType
    BY CountersTyped
  <1>2. /\ t \in AsmType /\ t.entry = s.entry /\ SameLists(s, t) /\ SameMemory(s, t)
        /\ t.next_data_pc = a /\ t.next_text_pc = s.next_text_pc
        /\ t.next_gp_item_addr = s.next_gp_item_addr
    BY <1>1 DEF AsmType, SameLists, SameMemory
  <1>. HIDE DEF t
  <1>3. Counters(t) /\ s.next_text_pc <= t.next_text_pc /\ s.next_data_pc <= t.next_data_pc
    BY <1>2, CountersTyped, Places DEF Counters
  <1>4. Keeps(s, t)
    BY <1>2, <1>3, StoringKeeps
  <1>. QED BY <1>2, <1>4 DEF t

LEMMA GpMoves ==
  ASSUME NEW s, Good(s), NEW size \in Sizes, FitsGp(s, size)
  PROVE  LET t == [s EXCEPT !.next_gp_item_addr = @ + size]
         IN /\ Keeps(s, t) /\ t.entry = s.entry /\ SameLists(s, t) /\ SameMemory(s, t)
            /\ t.next_data_pc = s.next_data_pc /\ t.next_text_pc = s.next_text_pc
  <1>. DEFINE t == [s EXCEPT !.next_gp_item_addr = @ + size]
  <1>1. s \in AsmType /\ s.next_gp_item_addr \in GpBot .. GpTop
    BY CountersTyped
  <1>2. size \in Nat
    BY ParametersOK DEF ParametersOK
  <1>3. s.next_gp_item_addr + size \in GpBot .. GpTop
    BY <1>1, <1>2, Places DEF FitsGp
  <1>4. s.next_gp_item_addr + size \in Nat
    BY <1>3, Places
  <1>5. /\ t \in AsmType /\ t.entry = s.entry /\ SameLists(s, t) /\ SameMemory(s, t)
        /\ t.next_data_pc = s.next_data_pc /\ t.next_text_pc = s.next_text_pc
        /\ t.next_gp_item_addr = s.next_gp_item_addr + size
    BY <1>1, <1>4 DEF AsmType, SameLists, SameMemory
  <1>. HIDE DEF t
  <1>6. Counters(t) /\ s.next_text_pc <= t.next_text_pc /\ s.next_data_pc <= t.next_data_pc
    BY <1>3, <1>5, CountersTyped, Places DEF Counters
  <1>7. Keeps(s, t)
    BY <1>5, <1>6, StoringKeeps
  <1>. QED BY <1>5, <1>7 DEF t

\* A word is stored where its location counter stands, and nothing else changes.
StoredText(s, v, t) ==
  /\ Keeps(s, t) /\ t.entry = s.entry /\ SameLists(s, t)
  /\ t.data = s.data /\ t.next_data_pc = s.next_data_pc
  /\ t.next_gp_item_addr = s.next_gp_item_addr
  /\ s.next_text_pc % 4 # 0 => t = s
  /\ s.next_text_pc % 4 = 0 =>
       /\ t.next_text_pc = s.next_text_pc + 4
       /\ \A a \in TextWords : t.text[a] = IF a = s.next_text_pc THEN v ELSE s.text[a]
StoredData(s, v, t) ==
  /\ Keeps(s, t) /\ t.entry = s.entry /\ SameLists(s, t)
  /\ t.text = s.text /\ t.next_text_pc = s.next_text_pc
  /\ t.next_gp_item_addr = s.next_gp_item_addr
  /\ t.next_data_pc = s.next_data_pc + 4
  /\ \A b \in DataBytes :
       t.data[b] = IF b \in s.next_data_pc .. s.next_data_pc + 3
                   THEN <<v, b - s.next_data_pc>> ELSE s.data[b]

LEMMA InstStored ==
  ASSUME NEW s, Good(s), NEW v \in Nat
  PROVE  StoredText(s, v, set_mem_inst(s, v))
  <1>. DEFINE x == [s.text EXCEPT ![s.next_text_pc] = v]
              t == [s EXCEPT !.text = x, !.next_text_pc = @ + 4]
  <1>1. s \in AsmType /\ s.next_text_pc \in Nat /\ s.next_text_pc + 4 \in Nat
    BY CountersTyped
  <1>2. CASE s.next_text_pc % 4 # 0
    BY <1>2, KeepsSelf DEF StoredText, set_mem_inst, SameLists
  <1>3. CASE s.next_text_pc % 4 = 0
    <2>1. s.text \in [TextWords -> Nat]
      BY <1>1 DEF AsmType
    <2>2. /\ x \in [TextWords -> Nat]
          /\ \A a \in TextWords : x[a] = IF a = s.next_text_pc THEN v ELSE s.text[a]
      BY <2>1
    <2>3. set_mem_inst(s, v) = t
      BY <1>3 DEF set_mem_inst
    <2>. HIDE DEF x
    <2>4. /\ t \in AsmType /\ t.entry = s.entry /\ SameLists(s, t)
          /\ t.text = x /\ t.data = s.data
          /\ t.next_data_pc = s.next_data_pc /\ t.next_text_pc = s.next_text_pc + 4
          /\ t.next_gp_item_addr = s.next_gp_item_addr
      BY <1>1, <2>2 DEF AsmType, SameLists
    <2>. HIDE DEF t
    <2>5. Counters(t) /\ s.next_text_pc <= t.next_text_pc /\ s.next_data_pc <= t.next_data_pc
      BY <2>4, CountersTyped, Places DEF Counters
    <2>6. Keeps(s, t)
      BY <2>4, <2>5, StoringKeeps
    <2>. QED BY <1>3, <2>2, <2>3, <2>4, <2>6 DEF StoredText
  <1>. QED BY <1>2, <1>3

LEMMA WordStored ==
  ASSUME NEW s, Good(s), NEW v \in Nat
  PROVE  StoredData(s, v, store_word(s, v))
  <1>. DEFINE pc == s.next_data_pc
              d == [b \in DataBytes |-> IF b \in pc .. pc + 3 THEN <<v, b - pc>> ELSE s.data[b]]
              t == [s EXCEPT !.data = d, !.next_data_pc = pc + 4]
  <1>1. s \in AsmType /\ pc \in Nat /\ pc + 4 \in Nat
    BY CountersTyped
  <1>2. s.data \in [DataBytes -> Nat \X (0 .. 3)]
    BY <1>1 DEF AsmType
  <1>3. d \in [DataBytes -> Nat \X (0 .. 3)]
    <2>1. \A b \in DataBytes : b \in pc .. pc + 3 => b - pc \in 0 .. 3
      BY <1>1
    <2>. QED BY <1>2, <2>1
  <1>4. \A b \in DataBytes : d[b] = IF b \in pc .. pc + 3 THEN <<v, b - pc>> ELSE s.data[b]
    OBVIOUS
  <1>5. store_word(s, v) = t
    <2>1. PutWord(s, pc, v) = [s EXCEPT !.data = d]
      BY DEF PutWord
    <2>. HIDE DEF d
    <2>. QED BY <1>1, <2>1 DEF store_word, AsmType
  <1>. HIDE DEF d
  <1>6. /\ t \in AsmType /\ t.entry = s.entry /\ SameLists(s, t)
        /\ t.text = s.text /\ t.data = d
        /\ t.next_data_pc = pc + 4 /\ t.next_text_pc = s.next_text_pc
        /\ t.next_gp_item_addr = s.next_gp_item_addr
    BY <1>1, <1>3 DEF AsmType, SameLists
  <1>. HIDE DEF t
  <1>7. Counters(t) /\ s.next_text_pc <= t.next_text_pc /\ s.next_data_pc <= t.next_data_pc
    BY <1>6, CountersTyped, Places DEF Counters
  <1>8. Keeps(s, t)
    BY <1>6, <1>7, StoringKeeps
  <1>. QED BY <1>4, <1>5, <1>6, <1>8 DEF StoredData

SameAddresses(s, t) ==
  \A id \in DOMAIN s.entry :
    /\ id \in DOMAIN t.entry /\ t.entry[id].addr = s.entry[id].addr
    /\ t.entry[id].name = s.entry[id].name
    /\ t.entry[id].const_flag = s.entry[id].const_flag

\* The data counter is aligned, and the labels of the line go with it.
Aligned(s, pc, t) ==
  /\ Keeps(s, t) /\ DOMAIN t.entry = DOMAIN s.entry
  /\ \A id \in DOMAIN s.entry :
       /\ t.entry[id].addr = IF id \in ToSet(s.line) THEN pc ELSE s.entry[id].addr
       /\ t.entry[id].const_flag = s.entry[id].const_flag
  /\ t.table = s.table /\ t.line = <<>>
  /\ t.next_data_pc = pc /\ t.next_text_pc = s.next_text_pc

LEMMA AlignKeeps ==
  ASSUME NEW s, Good(s), NEW k \in 0 .. 3
  PROVE  Aligned(s, AlignUp(s.next_data_pc, k), align_data(s, k))
  <1>. DEFINE pc == AlignUp(s.next_data_pc, k)
              u  == [s EXCEPT !.next_data_pc = pc]
              t  == fix_current_label_address(u, pc)
  <1>1. pc \in Nat /\ pc >= s.next_data_pc /\ pc # 0
    BY CountersTyped, AlignedUp
  <1>2. align_data(s, k) = t
    BY DEF align_data
  <1>. HIDE DEF pc
  <1>3. /\ Keeps(s, u) /\ u.entry = s.entry /\ SameLists(s, u)
        /\ u.next_data_pc = pc /\ u.next_text_pc = s.next_text_pc
    BY <1>1, DataMoves
  <1>. HIDE DEF u
  <1>4. Good(u)
    BY <1>3 DEF Keeps
  <1>5. /\ Keeps(u, t) /\ DOMAIN t.entry = DOMAIN u.entry
        /\ \A id \in DOMAIN u.entry :
             /\ t.entry[id].addr = IF id \in ToSet(u.line) THEN pc ELSE u.entry[id].addr
             /\ t.entry[id].const_flag = u.entry[id].const_flag
        /\ t.table = u.table /\ t.line = <<>> /\ SameCounters(u, t)
    BY <1>1, <1>4, FixKeeps
  <1>. HIDE DEF t
  <1>6. Keeps(s, t)
    BY <1>3, <1>5, KeepsOn
  <1>7. Aligned(s, pc, t)
    BY <1>3, <1>5, <1>6 DEF Aligned, SameLists, SameCounters
  <1>. QED BY <1>2, <1>7 DEF pc

\* Before a word: the data are aligned, or nothing happens.
LEMMA SetAlignmentKeeps ==
  ASSUME NEW s, Good(s), NEW k \in 0 .. 3
  PROVE  LET t == set_data_alignment(s, k)
         IN \/ t = s
            \/ ~text_dir /\ Aligned(s, AlignUp(s.next_data_pc, k), t)
  BY AlignKeeps DEF set_data_alignment

LEMMA GlobalKeeps ==
  ASSUME NEW s0, Good(s0), NEW n \in Names
  PROVE  LET t == make_label_global(s0, n)
         IN /\ Keeps(s0, t) /\ t.table = lookup_label(s0, n).table
            /\ t.table[n] \in DOMAIN t.entry
            /\ DOMAIN t.entry = DOMAIN lookup_label(s0, n).entry
            /\ t.entry[t.table[n]] =
                 [lookup_label(s0, n).entry[t.table[n]] EXCEPT !.global_flag = TRUE]
            /\ SameAddresses(s0, t)
            /\ t.line = s0.line /\ SameCounters(s0, t) /\ SameMemory(s0, t)
  <1>. DEFINE s == lookup_label(s0, n)
              id == s.table[n]
              e == [s.entry[id] EXCEPT !.global_flag = TRUE]
              t == [s EXCEPT !.entry[id] = e]
  <1>1. /\ Keeps(s0, s) /\ id \in DOMAIN s.entry
        /\ s.line = s0.line /\ SameCounters(s0, s) /\ SameMemory(s0, s)
        /\ \A i \in DOMAIN s0.entry : i \in DOMAIN s.entry /\ s.entry[i] = s0.entry[i]
    BY LookupKeeps
  <1>2. make_label_global(s0, n) = t
    BY DEF make_label_global
  <1>. HIDE DEF s, id
  <1>3. Good(s)
    BY <1>1 DEF Keeps
  <1>4. s.entry[id] \in LabelType
    BY <1>1, <1>3, LabelTyped DEF Good
  <1>5. /\ e \in LabelType /\ e.name = s.entry[id].name /\ e.addr = s.entry[id].addr
        /\ e.global_flag /\ e.const_flag = s.entry[id].const_flag
        /\ e.gp_flag = s.entry[id].gp_flag /\ e.uses = s.entry[id].uses
    BY <1>4 DEF LabelType
  <1>6. s.entry[id].gp_flag => s.entry[id].addr # 0
    BY <1>1, <1>3 DEF Good, Entries
  <1>. HIDE DEF e
  <1>7. /\ Keeps(s, t) /\ DOMAIN t.entry = DOMAIN s.entry
        /\ \A i \in DOMAIN s.entry : t.entry[i] = IF i = id THEN e ELSE s.entry[i]
        /\ SameLists(s, t) /\ SameCounters(s, t) /\ SameMemory(s, t)
    BY <1>1, <1>3, <1>5, <1>6, LabelKeeps
  <1>. HIDE DEF t
  <1>8. Keeps(s0, t)
    BY <1>1, <1>7, KeepsOn
  <1>9. SameAddresses(s0, t)
    BY <1>1, <1>5, <1>7 DEF SameAddresses
  <1>10. t.table = s.table /\ t.table[n] = id /\ t.entry[id] = e
    BY <1>1, <1>7 DEF SameLists, id
  <1>. QED BY <1>1, <1>2, <1>7, <1>8, <1>9, <1>10 DEF SameLists, SameCounters, SameMemory, e, s

\* A label that is used: its use is recorded unless it has an address.
Looked(s0, n, u) ==
  LET s == lookup_label(s0, n)
  IN IF s.entry[s.table[n]].addr = 0 THEN AddUse(s, s.table[n], u) ELSE s
UsedLabel(s0, n, u, t) ==
  LET id == t.table[n]
  IN /\ Keeps(s0, t) /\ t.table = lookup_label(s0, n).table
     /\ id \in DOMAIN t.entry /\ Tabled(t, id) /\ t.entry[id].addr \in Nat
     /\ DOMAIN t.entry = DOMAIN lookup_label(s0, n).entry
     /\ t.entry[id].addr = 0 => u \in t.entry[id].uses
     /\ \A i \in DOMAIN t.entry :
          t.entry[i].uses \subseteq lookup_label(s0, n).entry[i].uses
            \cup (IF i = id /\ t.entry[id].addr = 0 THEN {u} ELSE {})
     /\ \A i \in DOMAIN s0.entry : s0.entry[i].uses \subseteq t.entry[i].uses
     /\ SameAddresses(s0, t)
     /\ t.line = s0.line /\ SameCounters(s0, t) /\ SameMemory(s0, t)

LEMMA UseKeeps ==
  ASSUME NEW s0, Good(s0), NEW n \in Names,
         NEW u \in [place : {"text", "data"}, addr : Nat], Reached(s0, u)
  PROVE  UsedLabel(s0, n, u, Looked(s0, n, u))
  <1>. DEFINE s == lookup_label(s0, n)
              id == s.table[n]
              e == [s.entry[id] EXCEPT !.uses = @ \cup {u}]
              t == [s EXCEPT !.entry[id] = e]
  <1>1. /\ Keeps(s0, s) /\ id \in DOMAIN s.entry /\ Tabled(s, id)
        /\ s.line = s0.line /\ SameCounters(s0, s) /\ SameMemory(s0, s)
        /\ \A i \in DOMAIN s0.entry : i \in DOMAIN s.entry /\ s.entry[i] = s0.entry[i]
    BY LookupKeeps
  <1>2. Good(s) /\ s \in AsmType
    BY <1>1 DEF Keeps, Good
  <1>3. s.entry[id] \in LabelType
    BY <1>1, <1>2, LabelTyped
  <1>4. s.entry[id].addr \in Nat
    BY <1>3 DEF LabelType
  <1>5. CASE s.entry[id].addr # 0
    <2>1. Looked(s0, n, u) = s
      BY <1>5 DEF Looked
    <2>2. SameAddresses(s0, s)
      BY <1>1 DEF SameAddresses
    <2>. HIDE DEF s
    <2>. QED BY <1>1, <1>4, <1>5, <2>1, <2>2 DEF UsedLabel, s
  <1>6. CASE s.entry[id].addr = 0
    <2>1. Looked(s0, n, u) = t
      BY <1>6 DEF Looked, AddUse
    <2>. HIDE DEF s, id
    <2>2. /\ e \in LabelType /\ e.name = s.entry[id].name /\ e.addr = s.entry[id].addr
          /\ e.global_flag = s.entry[id].global_flag /\ e.const_flag = s.entry[id].const_flag
          /\ e.gp_flag = s.entry[id].gp_flag /\ e.uses = s.entry[id].uses \cup {u}
      BY <1>3 DEF LabelType
    <2>3. s.entry[id].gp_flag => s.entry[id].addr # 0
      BY <1>1, <1>2 DEF Good, Entries
    <2>4. Reached(s, u)
      BY <1>1 DEF Reached, SameCounters
    <2>. HIDE DEF e
    <2>5. /\ Keeps(s, t) /\ DOMAIN t.entry = DOMAIN s.entry
          /\ \A i \in DOMAIN s.entry : t.entry[i] = IF i = id THEN e ELSE s.entry[i]
          /\ SameLists(s, t) /\ SameCounters(s, t) /\ SameMemory(s, t)
      BY <1>1, <1>2, <2>2, <2>3, <2>4, LabelKeeps
    <2>. HIDE DEF t
    <2>6. Keeps(s0, t)
      BY <1>1, <2>5, KeepsOn
    <2>7. SameAddresses(s0, t)
      BY <1>1, <2>2, <2>5 DEF SameAddresses
    <2>8. t.table = s.table /\ t.table[n] = id /\ t.entry[id] = e
      BY <1>1, <2>5 DEF SameLists, id
    <2>9. Tabled(t, id)
      BY <1>1, <2>2, <2>8 DEF Tabled
    <2>10. \A i \in DOMAIN t.entry :
             t.entry[i].uses \subseteq s.entry[i].uses
               \cup (IF i = id /\ t.entry[id].addr = 0 THEN {u} ELSE {})
      BY <1>6, <2>2, <2>5, <2>8
    <2>11. \A i \in DOMAIN s0.entry : s0.entry[i].uses \subseteq t.entry[i].uses
      BY <1>1, <2>2, <2>5
    <2>12. t.line = s0.line /\ SameCounters(s0, t) /\ SameMemory(s0, t)
      BY <1>1, <2>5 DEF SameLists, SameCounters, SameMemory
    <2>13. UsedLabel(s0, n, u, t)
      BY <1>1, <1>4, <2>2, <2>5, <2>6, <2>7, <2>8, <2>9, <2>10, <2>11, <2>12
         DEF UsedLabel, s
    <2>. QED BY <2>1, <2>13
  <1>. QED BY <1>5, <1>6

\* A word or an instruction that names a label: its use is recorded, and the
\* address the label has is stored.
Assembly(w, n) ==
  LET value == w.entry[w.table[n]].addr
  IN IF text_dir THEN set_mem_inst(w, value) ELSE store_word(w, value)

LEMMA LookedValue ==
  ASSUME NEW s0, Good(s0), NEW n \in Names,
         NEW u \in [place : {"text", "data"}, addr : Nat], Reached(s0, u)
  PROVE  LET s == lookup_label(s0, n)  w == Looked(s0, n, u)
         IN w.table = s.table /\ w.entry[s.table[n]].addr = s.entry[s.table[n]].addr
  <1>. DEFINE s == lookup_label(s0, n)
              id == s.table[n]
              e == [s.entry[id] EXCEPT !.uses = @ \cup {u}]
              t == [s EXCEPT !.entry[id] = e]
  <1>1. id \in DOMAIN s.entry /\ Good(s)
    BY LookupKeeps DEF Keeps
  <1>2. s \in AsmType /\ s.entry[id] \in LabelType
    BY <1>1, LabelTyped DEF Good
  <1>3. CASE s.entry[id].addr # 0
    BY <1>3 DEF Looked
  <1>4. CASE s.entry[id].addr = 0
    <2>1. Looked(s0, n, u) = t
      BY <1>4 DEF Looked, AddUse
    <2>. HIDE DEF s, id
    <2>2. e \in LabelType /\ e.addr = s.entry[id].addr
      BY <1>2 DEF LabelType
    <2>. HIDE DEF e
    <2>3. t.entry[id] = e /\ t.table = s.table
      BY <1>1, <1>2, <2>2, EntryChanged DEF SameLists
    <2>. QED BY <2>1, <2>2, <2>3 DEF s, id
  <1>. QED BY <1>3, <1>4

LEMMA WordAssembly ==
  ASSUME NEW s0, Good(s0), NEW n \in Names
  PROVE  LET u == Use("data", s0.next_data_pc)
         IN /\ u \in [place : {"text", "data"}, addr : Nat] /\ Reached(s0, u)
            /\ WordOf(s0, n) = Assembly(Looked(s0, n, u), n)
  <1>. DEFINE u == Use("data", s0.next_data_pc)
              s == lookup_label(s0, n)
  <1>1. u \in [place : {"text", "data"}, addr : Nat] /\ Reached(s0, u)
    BY CountersTyped, Places DEF Use, Reached
  <1>2. s.next_data_pc = s0.next_data_pc
    BY LookupKeeps DEF SameCounters
  <1>3. LET w == Looked(s0, n, u)
        IN w.table = s.table /\ w.entry[s.table[n]].addr = s.entry[s.table[n]].addr
    BY <1>1, LookedValue
  <1>4. WordOf(s0, n) = Assembly(Looked(s0, n, u), n)
    <2>. HIDE DEF s
    <2>. DEFINE w == Looked(s0, n, u)
                value == s.entry[s.table[n]].addr
    <2>1. w = IF value = 0 THEN AddUse(s, s.table[n], u) ELSE s
      BY DEF Looked, s
    <2>2. WordOf(s0, n) = IF text_dir THEN set_mem_inst(w, value) ELSE store_word(w, value)
      BY <1>2, <2>1 DEF WordOf, s
    <2>. HIDE DEF w, value
    <2>3. w.entry[w.table[n]].addr = value
      BY <1>3 DEF w, value
    <2>. QED BY <2>2, <2>3 DEF Assembly, w
  <1>. QED BY <1>1, <1>4

LEMMA InstructionAssembly ==
  ASSUME NEW s0, Good(s0), NEW n \in Names
  PROVE  LET u == Use(IF text_dir THEN "text" ELSE "data", Here(s0))
         IN /\ u \in [place : {"text", "data"}, addr : Nat] /\ Reached(s0, u)
            /\ Instruction(s0, n) = Assembly(Looked(s0, n, u), n)
  <1>. DEFINE u == Use(IF text_dir THEN "text" ELSE "data", Here(s0))
              s == lookup_label(s0, n)
  <1>1. u \in [place : {"text", "data"}, addr : Nat] /\ Reached(s0, u)
    BY CountersTyped, Places DEF Use, Reached, Here
  <1>2. Here(s) = Here(s0)
    BY LookupKeeps DEF SameCounters, Here
  <1>3. LET w == Looked(s0, n, u)
        IN w.table = s.table /\ w.entry[s.table[n]].addr = s.entry[s.table[n]].addr
    BY <1>1, LookedValue
  <1>4. Instruction(s0, n) = Assembly(Looked(s0, n, u), n)
    <2>. HIDE DEF s
    <2>. DEFINE w == Looked(s0, n, u)
                value == s.entry[s.table[n]].addr
    <2>1. w = IF value = 0 THEN AddUse(s, s.table[n], u) ELSE s
      BY DEF Looked, s
    <2>2. Instruction(s0, n) = IF text_dir THEN set_mem_inst(w, value) ELSE store_word(w, value)
      BY <1>2, <2>1 DEF Instruction, s
    <2>. HIDE DEF w, value
    <2>3. w.entry[w.table[n]].addr = value
      BY <1>3 DEF w, value
    <2>. QED BY <2>2, <2>3 DEF Assembly, w
  <1>. QED BY <1>1, <1>4

Assembled(s0, n, u, t) ==
  /\ Keeps(s0, t) /\ t.table = lookup_label(s0, n).table
  /\ t.table[n] \in DOMAIN t.entry /\ Tabled(t, t.table[n])
  /\ t.entry[t.table[n]].addr = 0 => u \in t.entry[t.table[n]].uses
  /\ SameAddresses(s0, t)
  /\ t.line = s0.line

LEMMA AssembledKeeps ==
  ASSUME NEW s0, Good(s0), NEW n \in Names,
         NEW u \in [place : {"text", "data"}, addr : Nat], Reached(s0, u)
  PROVE  Assembled(s0, n, u, Assembly(Looked(s0, n, u), n))
  <1>. DEFINE w == Looked(s0, n, u)
              v == w.entry[w.table[n]].addr
              t == Assembly(w, n)
  <1>1. UsedLabel(s0, n, u, w)
    BY UseKeeps
  <1>. HIDE DEF w
  <1>2. Keeps(s0, w) /\ Good(w) /\ v \in Nat
    BY <1>1 DEF UsedLabel, Keeps
  <1>3. Keeps(w, t) /\ t.entry = w.entry /\ t.table = w.table /\ t.line = w.line
    <2>. HIDE DEF v
    <2>1. StoredText(w, v, set_mem_inst(w, v)) /\ StoredData(w, v, store_word(w, v))
      BY <1>2, InstStored, WordStored
    <2>2. t = IF text_dir THEN set_mem_inst(w, v) ELSE store_word(w, v)
      BY DEF Assembly, v
    <2>. HIDE DEF t
    <2>. QED BY <2>1, <2>2 DEF StoredText, StoredData, SameLists
  <1>. HIDE DEF t
  <1>4. Keeps(s0, t)
    BY <1>2, <1>3, KeepsOn
  <1>5. Assembled(s0, n, u, t)
    BY <1>1, <1>3, <1>4 DEF UsedLabel, Assembled, Tabled, SameAddresses
  <1>. QED BY <1>5 DEF t, w

\* A label of the line is in the table and defined.
LEMMA LabelOnLine ==
  ASSUME NEW s, Good(s), NEW id \in DOMAIN s.entry, Tabled(s, id), s.entry[id].addr # 0
  PROVE  LET t == [s EXCEPT !.line = <<id>> \o @]
         IN /\ Keeps(s, t) /\ t.entry = s.entry /\ t.table = s.table
            /\ ToSet(t.line) = {id} \cup ToSet(s.line) /\ SameCounters(s, t) /\ SameMemory(s, t)
  <1>. DEFINE l == <<id>> \o s.line
              t == [s EXCEPT !.line = l]
  <1>1. s \in AsmType /\ s.line \in Seq(Nat) /\ id \in Nat
    BY LabelTyped DEF Good, AsmType
  <1>2. l \in Seq(Nat) /\ ToSet(l) = {id} \cup ToSet(s.line)
    BY <1>1, SetOfCons
  <1>. HIDE DEF l
  <1>3. /\ t \in AsmType /\ t.entry = s.entry /\ t.table = s.table /\ t.local = s.local
        /\ t.line = l /\ SameCounters(s, t) /\ SameMemory(s, t)
    BY <1>1, <1>2 DEF AsmType, SameCounters, SameMemory
  <1>. HIDE DEF t
  <1>4. Advances(s, t)
    <2>1. Counters(t)
      BY <1>3 DEF Good, Counters, SameCounters
    <2>. QED BY <1>1, <1>3, <2>1 DEF Advances, SameCounters, AsmType
  <1>5. AdvancesLists(s, t)
    BY <1>2, <1>3 DEF AdvancesLists
  <1>6. ASSUME NEW i \in DOMAIN s.entry  PROVE AdvancesLabel(s, t, i)
    BY <1>3 DEF AdvancesLabel, Good, Entries
  <1>7. Keeps(s, t)
    BY <1>4, <1>5, <1>6, AdvancesKeeps
  <1>. QED BY <1>2, <1>3, <1>7 DEF t, l

\* A label defined for the first time gets the address; the others keep theirs.
LEMMA RecordAddresses ==
  ASSUME NEW s0, Good(s0), NEW n \in Names, NEW a \in Nat \ {0}, NEW resolve \in BOOLEAN
  PROVE  LET t == record_label(s0, n, a, resolve)  s == lookup_label(s0, n)  id == s.table[n]
         IN /\ \A i \in DOMAIN s0.entry \ {id} : t.entry[i].addr = s0.entry[i].addr
            /\ s.entry[id].addr = 0 => t.entry[id].addr = a
  <1>. DEFINE s == lookup_label(s0, n)
              id == s.table[n]
              t == record_label(s0, n, a, resolve)
              r == record_label(s, n, a, resolve)
  <1>1. /\ Good(s) /\ id \in DOMAIN s.entry
        /\ \A i \in DOMAIN s0.entry : i \in DOMAIN s.entry /\ s.entry[i] = s0.entry[i]
    BY LookupKeeps DEF Keeps
  <1>2. t = IF Twice(s, n) THEN clear_labels(s) ELSE r
    BY RecordLooked
  <1>. HIDE DEF s, t
  <1>3. CASE Twice(s, n)
    <2>1. s.entry[id].addr # 0
      BY <1>3 DEF Twice
    <2>2. \A i \in DOMAIN s.entry :
            clear_labels(s).entry[i] = IF i \in ToSet(s.line) THEN [s.entry[i] EXCEPT !.uses = {}]
                                       ELSE s.entry[i]
      BY <1>1, LineKnown, ClearFields
    <2>3. \A i \in DOMAIN s.entry : [s.entry[i] EXCEPT !.uses = {}].addr = s.entry[i].addr
      BY <1>1, LabelTyped DEF Good, LabelType
    <2>4. \A i \in DOMAIN s.entry : t.entry[i].addr = s.entry[i].addr
      BY <1>2, <1>3, <2>2, <2>3
    <2>. QED BY <1>1, <2>1, <2>4 DEF s, t
  <1>4. CASE ~Twice(s, n)
    <2>. HIDE DEF r
    <2>1. Recorded(s, id, a, resolve, r)
      BY <1>1, <1>4, RecordFields DEF Good, r
    <2>2. \A i \in DOMAIN s.entry \ {id} : r.entry[i] = s.entry[i]
      BY <2>1 DEF Recorded
    <2>3. s.entry[id].addr = 0 => r.entry[id].addr = a
      <3>. SUFFICES ASSUME s.entry[id].addr = 0  PROVE r.entry[id].addr = a
        OBVIOUS
      <3>1. ~s.entry[id].gp_flag
        BY <1>1 DEF Good, Entries
      <3>2. s.entry[id] \in LabelType
        BY <1>1, LabelTyped DEF Good
      <3>. DEFINE uses == IF resolve THEN {} ELSE s.entry[id].uses
      <3>3. r.entry[id] = [s.entry[id] EXCEPT !.addr = a, !.uses = uses]
        BY <1>1, <2>1, <3>1 DEF Recorded, AddressGiven
      <3>. HIDE DEF uses
      <3>. QED BY <3>2, <3>3 DEF LabelType
    <2>4. t = r
      BY <1>2, <1>4
    <2>. QED BY <1>1, <2>2, <2>3, <2>4 DEF s, t
  <1>. QED BY <1>3, <1>4

\* The labels of a file are defined, so the table keeps the undefined ones.
LEMMA FlushKeeps ==
  ASSUME NEW s, Good(s), s.line = <<>>
  PROVE  LET t == flush_local_labels(s)
         IN /\ Keeps(s, t) /\ t.entry = s.entry /\ t.line = <<>> /\ SameCounters(s, t)
            /\ SameMemory(s, t)
            /\ \A n \in Names :
                 t.table[n] = IF \E id \in ToSet(s.local) : s.entry[id].name = n
                              THEN 0 ELSE s.table[n]
  <1>. DEFINE b == [n \in Names |-> IF \E id \in ToSet(s.local) : s.entry[id].name = n
                                    THEN 0 ELSE s.table[n]]
              t == [s EXCEPT !.table = b, !.local = <<>>]
  <1>1. s \in AsmType /\ s.table \in [Names -> Nat] /\ <<>> \in Seq(Nat)
    BY DEF Good, AsmType
  <1>2. /\ b \in [Names -> Nat]
        /\ \A n \in Names : b[n] = IF \E id \in ToSet(s.local) : s.entry[id].name = n
                                   THEN 0 ELSE s.table[n]
    BY <1>1
  <1>3. flush_local_labels(s) = t
    BY DEF flush_local_labels
  <1>. HIDE DEF b
  <1>4. /\ t \in AsmType /\ t.entry = s.entry /\ t.table = b /\ t.local = <<>>
        /\ t.line = s.line /\ SameCounters(s, t) /\ SameMemory(s, t)
    BY <1>1, <1>2 DEF AsmType, SameCounters, SameMemory
  <1>. HIDE DEF t
  <1>5. Tables(t)
    BY <1>2, <1>4 DEF Good, Tables
  <1>6. Lists(t)
    BY <1>4, SetOfEmpty DEF Lists
  <1>7. Counters(t)
    BY <1>4 DEF Good, Counters, SameCounters
  <1>8. ASSUME NEW id \in DOMAIN s.entry
        PROVE  id # 0 /\ s.entry[id].name \in Names
    BY <1>1, LabelTyped
  <1>9. Entries(t)
    <2>. SUFFICES ASSUME NEW id \in DOMAIN s.entry
                  PROVE  /\ t.entry[id].gp_flag => t.entry[id].addr # 0
                         /\ Tabled(t, id) /\ t.entry[id].addr # 0 =>
                              t.entry[id].global_flag \/ id \in ToSet(t.local)
                         /\ \A u \in t.entry[id].uses : Reached(t, u)
      BY <1>4 DEF Entries
    <2>1. Tabled(t, id) => Tabled(s, id) /\ id \notin ToSet(s.local)
      BY <1>2, <1>4, <1>8 DEF Tabled
    <2>. QED BY <1>4, <2>1 DEF Good, Entries, Reached, SameCounters
  <1>10. ASSUME NEW r \in RefType, Reported(s, r)  PROVE Reported(t, r)
    <2>. SUFFICES ASSUME s.entry[r.label].addr = 0, ~s.entry[r.label].const_flag
                  PROVE  Tabled(t, r.label)
      BY <1>4, <1>10 DEF Reported
    <2>1. r.label \in DOMAIN s.entry /\ Tabled(s, r.label)
      BY <1>10 DEF Reported
    <2>2. ASSUME NEW id \in ToSet(s.local)
          PROVE  s.entry[id].name # s.entry[r.label].name
      BY <2>1 DEF Good, Lists, Tabled
    <2>. QED BY <1>2, <1>4, <1>8, <2>1, <2>2 DEF Tabled
  <1>11. Keeps(s, t)
    BY <1>4, <1>5, <1>6, <1>7, <1>9, <1>10 DEF Keeps, Good
  <1>. QED BY <1>2, <1>3, <1>4, <1>11

-----------------------------------------------------------------------------
(***************************************************************************)
(* The directives that reserve space.                                      *)
(***************************************************************************)
LEMMA SizesTyped == \A size \in Sizes : size \in Nat
  BY ParametersOK DEF ParametersOK

\* A label becomes one of the small data.
SmallData(s, id, a, size) ==
  [s EXCEPT !.entry[id] = [@ EXCEPT !.gp_flag = TRUE, !.addr = a],
            !.next_gp_item_addr = @ + size]

LEMMA SmallDataKeeps ==
  ASSUME NEW s, Good(s), NEW id \in DOMAIN s.entry, NEW a \in Nat \ {0},
         NEW size \in Sizes, FitsGp(s, size),
         s.entry[id].addr # 0 \/ s.entry[id].global_flag
  PROVE  Keeps(s, SmallData(s, id, a, size))
  <1>. DEFINE new == [s.entry[id] EXCEPT !.gp_flag = TRUE, !.addr = a]
              t == [s EXCEPT !.entry[id] = new]
              u == [t EXCEPT !.next_gp_item_addr = @ + size]
  <1>1. s \in AsmType /\ s.entry[id] \in LabelType
    BY LabelTyped DEF Good
  <1>2. /\ new \in LabelType /\ new.name = s.entry[id].name /\ new.addr = a
        /\ new.global_flag = s.entry[id].global_flag
        /\ new.const_flag = s.entry[id].const_flag /\ new.uses = s.entry[id].uses
    BY <1>1 DEF LabelType
  <1>3. SmallData(s, id, a, size) = u
    <2>1. SmallData(s, id, a, size) =
            [s EXCEPT !.entry[id] = new, !.next_gp_item_addr = @ + size]
      BY DEF SmallData
    <2>. HIDE DEF new
    <2>. QED BY <1>1, <2>1 DEF AsmType
  <1>. HIDE DEF new
  <1>4. Keeps(s, t) /\ SameCounters(s, t)
    BY <1>2, LabelKeeps
  <1>. HIDE DEF t
  <1>5. Good(t) /\ FitsGp(t, size)
    BY <1>4 DEF Keeps, SameCounters, FitsGp
  <1>6. Keeps(t, u)
    BY <1>5, GpMoves
  <1>. HIDE DEF u
  <1>. QED BY <1>3, <1>4, <1>6, KeepsOn

LcommOf(s, n, size) ==
  LET gp == record_label(s, n, s.next_gp_item_addr, TRUE)
  IN IF FitsGp(s, size)
     THEN [gp EXCEPT !.entry[gp.table[n]].gp_flag = TRUE, !.next_gp_item_addr = @ + size]
     ELSE [record_label(s, n, s.next_data_pc, TRUE) EXCEPT !.next_data_pc = @ + size]

LEMMA LcommSmall ==
  ASSUME NEW s, Good(s), NEW n \in Names, NEW size \in Sizes, FitsGp(s, size)
  PROVE  LET gp == record_label(s, n, s.next_gp_item_addr, TRUE)
             id == gp.table[n]
             a  == gp.entry[id].addr
         IN /\ Keeps(s, gp) /\ id \in DOMAIN gp.entry /\ a \in Nat \ {0} /\ FitsGp(gp, size)
            /\ LcommOf(s, n, size) = SmallData(gp, id, a, size)
  <1>. DEFINE gp == record_label(s, n, s.next_gp_item_addr, TRUE)
              id == gp.table[n]
              a == gp.entry[id].addr
              t == [gp EXCEPT !.entry[id].gp_flag = TRUE, !.next_gp_item_addr = @ + size]
  <1>1. s.next_gp_item_addr \in Nat \ {0}
    BY CountersTyped
  <1>2. Keeps(s, gp) /\ RecordedLabel(s, n, gp) /\ gp.entry[id].addr # 0
    BY <1>1, RecordKeeps
  <1>3. LcommOf(s, n, size) = t
    BY DEF LcommOf
  <1>. HIDE DEF gp
  <1>4. id \in DOMAIN gp.entry /\ SameCounters(s, gp)
    BY <1>2 DEF RecordedLabel
  <1>. HIDE DEF id
  <1>5. Good(gp) /\ FitsGp(gp, size)
    BY <1>2, <1>4 DEF Keeps, SameCounters, FitsGp
  <1>6. gp \in AsmType /\ gp.entry[id] \in LabelType
    BY <1>4, <1>5, LabelTyped DEF Good
  <1>7. a \in Nat \ {0}
    BY <1>2, <1>6 DEF LabelType, id
  <1>8. [gp.entry[id] EXCEPT !.gp_flag = TRUE, !.addr = a]
          = [gp.entry[id] EXCEPT !.gp_flag = TRUE]
    BY <1>6 DEF LabelType
  <1>9. t = SmallData(gp, id, a, size)
    BY <1>8 DEF SmallData
  <1>. HIDE DEF t, a
  <1>. QED BY <1>2, <1>3, <1>4, <1>5, <1>7, <1>9 DEF a, id, gp

LEMMA LcommKeeps ==
  ASSUME NEW s, Good(s), NEW n \in Names, NEW size \in Sizes
  PROVE  Keeps(s, LcommOf(s, n, size))
  <1>1. s.next_gp_item_addr \in Nat \ {0} /\ s.next_data_pc \in Nat \ {0} /\ size \in Nat
    BY CountersTyped, SizesTyped
  <1>2. CASE FitsGp(s, size)
    <2>. DEFINE gp == record_label(s, n, s.next_gp_item_addr, TRUE)
                id == gp.table[n]
                a  == gp.entry[id].addr
    <2>1. /\ Keeps(s, gp) /\ id \in DOMAIN gp.entry /\ a \in Nat \ {0} /\ FitsGp(gp, size)
          /\ LcommOf(s, n, size) = SmallData(gp, id, a, size)
      BY <1>2, LcommSmall
    <2>. HIDE DEF gp, id
    <2>2. Good(gp)
      BY <2>1 DEF Keeps
    <2>3. Keeps(gp, SmallData(gp, id, a, size))
      BY <2>1, <2>2, SmallDataKeeps
    <2>. QED BY <2>1, <2>3, KeepsOn
  <1>3. CASE ~FitsGp(s, size)
    <2>. DEFINE r == record_label(s, n, s.next_data_pc, TRUE)
                t == [r EXCEPT !.next_data_pc = r.next_data_pc + size]
    <2>1. Keeps(s, r)
      BY <1>1, RecordKeeps
    <2>2. LcommOf(s, n, size) = t
      BY <1>3 DEF LcommOf
    <2>. HIDE DEF r
    <2>3. Good(r)
      BY <2>1 DEF Keeps
    <2>4. r.next_data_pc + size \in Nat /\ r.next_data_pc + size >= r.next_data_pc
      BY <1>1, <2>3, CountersTyped
    <2>5. Keeps(r, t)
      BY <2>3, <2>4, DataMoves
    <2>. HIDE DEF t
    <2>. QED BY <2>1, <2>2, <2>5, KeepsOn
  <1>. QED BY <1>2, <1>3

CommLabel(s, n) ==
  IF s.entry[s.table[n]].addr = 0 THEN record_label(s, n, s.next_data_pc, TRUE) ELSE s

LEMMA CommKeeps ==
  ASSUME NEW s0, Good(s0), NEW n \in Names, NEW size \in Sizes
  PROVE  LET s == lookup_label(align_data(s0, 2), n)
         IN Keeps(s0, [CommLabel(s, n) EXCEPT !.next_data_pc = @ + size])
  <1>. DEFINE a == align_data(s0, 2)
              s == lookup_label(a, n)
              t == CommLabel(s, n)
              u == [t EXCEPT !.next_data_pc = t.next_data_pc + size]
  <1>1. Keeps(s0, a)
    BY AlignKeeps DEF Aligned
  <1>. HIDE DEF a
  <1>2. Keeps(a, s)
    BY <1>1, LookupKeeps DEF Keeps
  <1>. HIDE DEF s
  <1>3. Keeps(s, t)
    <2>1. Good(s)
      BY <1>2 DEF Keeps
    <2>2. s.next_data_pc \in Nat \ {0}
      BY <2>1, CountersTyped
    <2>3. Keeps(s, s) /\ Keeps(s, record_label(s, n, s.next_data_pc, TRUE))
      BY <2>1, <2>2, KeepsSelf, RecordKeeps
    <2>. QED BY <2>3 DEF CommLabel
  <1>. HIDE DEF t
  <1>4. Good(t) /\ size \in Nat
    BY <1>3, SizesTyped DEF Keeps
  <1>5. t.next_data_pc + size \in Nat /\ t.next_data_pc + size >= t.next_data_pc
    BY <1>4, CountersTyped
  <1>6. Keeps(t, u)
    BY <1>4, <1>5, DataMoves
  <1>. HIDE DEF u
  <1>7. Keeps(s0, u)
    BY <1>1, <1>2, <1>3, <1>6, KeepsOn
  <1>. QED BY <1>7 DEF u, t, s, a

ExternOf(s, id, size) ==
  IF ~s.entry[id].gp_flag /\ FitsGp(s, size)
  THEN [s EXCEPT !.entry[id].gp_flag = TRUE, !.entry[id].addr = s.next_gp_item_addr,
                 !.next_gp_item_addr = @ + size]
  ELSE s

LEMMA ExternSmall ==
  ASSUME NEW s \in AsmType, NEW id \in DOMAIN s.entry, NEW size \in Sizes,
         ~s.entry[id].gp_flag /\ FitsGp(s, size)
  PROVE  ExternOf(s, id, size) = SmallData(s, id, s.next_gp_item_addr, size)
  <1>. DEFINE a == s.next_gp_item_addr
  <1>1. ExternOf(s, id, size) = [s EXCEPT !.entry[id].gp_flag = TRUE, !.entry[id].addr = a,
                                          !.next_gp_item_addr = @ + size]
    BY DEF ExternOf
  <1>2. s.entry \in Seq(LabelType)
    BY DEF AsmType
  <1>3. [s.entry EXCEPT ![id].gp_flag = TRUE, ![id].addr = a]
          = [s.entry EXCEPT ![id] = [@ EXCEPT !.gp_flag = TRUE, !.addr = a]]
    BY <1>2
  <1>. QED BY <1>1, <1>3 DEF SmallData, AsmType

LEMMA ExternKeeps ==
  ASSUME NEW s0, Good(s0), NEW n \in Names, NEW size \in Sizes
  PROVE  LET s == make_label_global(s0, n)
         IN Keeps(s0, ExternOf(s, s.table[n], size))
  <1>. DEFINE s == make_label_global(s0, n)
              id == s.table[n]
              t == ExternOf(s, id, size)
              a == s.next_gp_item_addr
  <1>1. /\ Keeps(s0, s) /\ id \in DOMAIN s.entry
        /\ s.entry[id] = [lookup_label(s0, n).entry[id] EXCEPT !.global_flag = TRUE]
        /\ s.table = lookup_label(s0, n).table
    BY GlobalKeeps
  <1>2. lookup_label(s0, n).entry[id] \in LabelType
    <2>1. /\ Keeps(s0, lookup_label(s0, n))
          /\ lookup_label(s0, n).table[n] \in DOMAIN lookup_label(s0, n).entry
      BY LookupKeeps
    <2>2. lookup_label(s0, n).entry[lookup_label(s0, n).table[n]] \in LabelType
      BY <2>1, LabelTyped DEF Keeps, Good
    <2>3. id = lookup_label(s0, n).table[n]
      BY <1>1
    <2>. QED BY <2>2, <2>3
  <1>3. s.entry[id].global_flag
    <2>. HIDE DEF s, id
    <2>. QED BY <1>1, <1>2 DEF LabelType
  <1>. HIDE DEF s, id
  <1>4. Good(s) /\ a \in Nat \ {0}
    BY <1>1, CountersTyped DEF Keeps
  <1>5. CASE ~s.entry[id].gp_flag /\ FitsGp(s, size)
    <2>1. s \in AsmType
      BY <1>4 DEF Good
    <2>3. t = SmallData(s, id, a, size)
      BY <1>1, <1>5, <2>1, ExternSmall
    <2>4. Keeps(s, SmallData(s, id, a, size))
      BY <1>1, <1>3, <1>4, <1>5, SmallDataKeeps
    <2>. HIDE DEF t
    <2>5. Keeps(s0, t)
      BY <1>1, <2>3, <2>4, KeepsOn
    <2>. QED BY <2>5 DEF t, s, id
  <1>6. CASE ~(~s.entry[id].gp_flag /\ FitsGp(s, size))
    <2>1. t = s
      BY <1>6 DEF ExternOf
    <2>. QED BY <1>1, <2>1 DEF s, id
  <1>. QED BY <1>5, <1>6

-----------------------------------------------------------------------------
(***************************************************************************)
(* The invariant.  The labels before a datum have the location counter's   *)
(* address, until the line is cleared.                                     *)
(***************************************************************************)
Remembered ==
  refs \subseteq RefType /\ (~WordsInText => \A r \in refs : Reported(asm, r))
OnDatum == \A id \in ToSet(asm.line) \ disputed : asm.entry[id].addr = Here(asm)
Flags ==
  /\ auto_alignment \in BOOLEAN /\ text_dir \in BOOLEAN
  /\ file \in Nat /\ lines \in 0 .. MaxLines

IInv ==
  /\ Good(asm) /\ Fits(asm)
  /\ Remembered
  /\ disputed \subseteq Labels
  /\ OnDatum
  /\ Flags

LEMMA CommandStep ==
  ASSUME IInv, NEW s, Keeps(asm, s), Command(s), refs' \subseteq RefType,
         ~WordsInText => \A r \in refs' \ refs : Reported(s, r),
         disputed' \subseteq DOMAIN s.entry,
         auto_alignment' \in BOOLEAN, text_dir' \in BOOLEAN, file' \in Nat
  PROVE  IInv'
  <1>1. asm' = clear_labels(s) /\ Fits(asm') /\ lines < MaxLines /\ lines' = lines + 1
    BY DEF Command
  <1>2. Good(s)
    BY DEF Keeps
  <1>3. Keeps(s, asm') /\ asm'.line = <<>>
    BY <1>1, <1>2, ClearKeeps, LineKnown, ClearFields
  <1>4. Good(asm') /\ disputed' \subseteq DOMAIN asm'.entry
    BY <1>3 DEF Keeps
  <1>5. Remembered'
    <2>1. ASSUME ~WordsInText, NEW r \in refs'  PROVE Reported(asm', r)
      <3>1. r \in RefType
        OBVIOUS
      <3>2. Reported(s, r)
        BY <2>1, <3>1 DEF IInv, Remembered, Keeps
      <3>. QED BY <1>3, <3>1, <3>2 DEF Keeps
    <2>. QED BY <2>1 DEF Remembered
  <1>6. OnDatum'
    BY <1>3, SetOfEmpty DEF OnDatum
  <1>7. Flags'
    BY <1>1, ParametersOK DEF IInv, Flags, ParametersOK
  <1>. QED BY <1>1, <1>4, <1>5, <1>6, <1>7 DEF IInv, Labels

LEMMA KnownLabel ==
  ASSUME Good(asm), NEW n \in Names, Known(n)
  PROVE  asm.table[n] \in Labels
  BY DEF Good, Tables, Known, Labels

LEMMA Disputing ==
  ASSUME IInv, NEW n \in Names, NEW s, Keeps(asm, s),
         IF Defined(n) THEN Disputes(n) ELSE UNCHANGED disputed
  PROVE  disputed' \subseteq DOMAIN s.entry
  <1>1. disputed \subseteq DOMAIN asm.entry /\ DOMAIN asm.entry \subseteq DOMAIN s.entry
    BY DEF IInv, Labels, Keeps
  <1>2. Defined(n) => asm.table[n] \in DOMAIN asm.entry
    BY KnownLabel DEF IInv, Defined, Labels
  <1>. QED BY <1>1, <1>2 DEF Disputes

LEMMA InitInvariant == Init => IInv
  <1>. SUFFICES ASSUME Init PROVE IInv
    OBVIOUS
  <1>1. /\ asm.entry = <<>> /\ asm.table = [n \in Names |-> 0]
        /\ asm.local = <<>> /\ asm.line = <<>>
        /\ asm.next_text_pc = TextBot /\ asm.next_data_pc = DataBot
        /\ asm.next_gp_item_addr = GpBot
    BY DEF Init
  <1>2. asm \in AsmType
    <2>1. [a \in TextWords |-> 0] \in [TextWords -> Nat]
      OBVIOUS
    <2>2. [a \in DataBytes |-> <<0, 0>>] \in [DataBytes -> Nat \X (0 .. 3)]
      OBVIOUS
    <2>3. <<>> \in Seq(LabelType) /\ <<>> \in Seq(Nat) /\ [n \in Names |-> 0] \in [Names -> Nat]
      OBVIOUS
    <2>. DEFINE x == [a \in TextWords |-> 0]
                d == [a \in DataBytes |-> <<0, 0>>]
                b == [n \in Names |-> 0]
    <2>4. asm = [entry |-> <<>>, table |-> b, local |-> <<>>, line |-> <<>>, text |-> x,
                 data |-> d, next_text_pc |-> TextBot, next_data_pc |-> DataBot,
                 next_gp_item_addr |-> GpBot]
      BY DEF Init
    <2>. HIDE DEF x, d, b
    <2>. QED BY <2>1, <2>2, <2>3, <2>4, Places DEF AsmType, x, d, b
  <1>3. DOMAIN asm.entry = {}
    BY <1>1
  <1>4. Tables(asm) /\ Lists(asm) /\ Entries(asm)
    BY <1>1, <1>3, SetOfEmpty DEF Tables, Lists, Entries
  <1>5. Counters(asm) /\ Fits(asm)
    BY <1>1, Places DEF Counters, Fits
  <1>6. /\ refs = {} /\ disputed = {} /\ auto_alignment = TRUE /\ text_dir = TRUE
        /\ file = 1 /\ lines = 0
    BY DEF Init
  <1>7. Remembered /\ OnDatum /\ Flags
    BY <1>1, <1>6, SetOfEmpty, ParametersOK DEF Remembered, OnDatum, Flags, ParametersOK
  <1>. QED BY <1>2, <1>4, <1>5, <1>6, <1>7 DEF IInv, Good

LEMMA DefineLabelStep ==
  ASSUME IInv, NEW n \in Names, DefineLabel(n)  PROVE IInv'
  <1>. DEFINE s0 == lookup_label(asm, n)
              s  == record_label(asm, n, Here(asm), FALSE)
              id == s.table[n]
  <1>0. Good(asm)
    BY DEF IInv
  <1>1. Here(asm) \in Nat \ {0}
    BY <1>0, CountersTyped DEF Here
  <1>2. /\ lines < MaxLines /\ lines' = lines + 1
        /\ asm' = [s EXCEPT !.line = <<id>> \o @]
        /\ IF Defined(n) THEN Disputes(n) ELSE UNCHANGED disputed
        /\ UNCHANGED <<auto_alignment, text_dir, file, refs>>
    BY DEF DefineLabel
  <1>3. /\ Keeps(asm, s) /\ RecordedLabel(asm, n, s) /\ s.entry[id].addr # 0
        /\ s.line = IF Twice(s0, n) THEN <<>> ELSE asm.line
    BY <1>0, <1>1, RecordKeeps
  <1>4. /\ \A i \in DOMAIN asm.entry \ {s0.table[n]} : s.entry[i].addr = asm.entry[i].addr
        /\ s0.entry[s0.table[n]].addr = 0 => s.entry[s0.table[n]].addr = Here(asm)
    BY <1>0, <1>1, RecordAddresses
  <1>5. /\ asm.table[n] # 0 => s0 = asm
        /\ asm.table[n] = 0 => s0.entry[s0.table[n]] = NewLabel(n)
    BY <1>0, LookupKeeps
  <1>. HIDE DEF s, s0
  <1>6. /\ id \in DOMAIN s.entry /\ Tabled(s, id) /\ id = s0.table[n] /\ SameCounters(asm, s)
    <2>1. /\ id \in DOMAIN s.entry /\ s.entry[id].name = n
          /\ s.table = s0.table /\ SameCounters(asm, s)
      BY <1>3 DEF RecordedLabel, s0
    <2>. QED BY <2>1 DEF Tabled
  <1>. HIDE DEF id
  <1>7. Good(s)
    BY <1>3 DEF Keeps
  <1>8. /\ Keeps(s, asm') /\ asm'.entry = s.entry
        /\ ToSet(asm'.line) = {id} \cup ToSet(s.line) /\ SameCounters(s, asm')
    <2>. DEFINE t == [s EXCEPT !.line = <<id>> \o @]
    <2>1. /\ Keeps(s, t) /\ t.entry = s.entry
          /\ ToSet(t.line) = {id} \cup ToSet(s.line) /\ SameCounters(s, t)
      BY <1>3, <1>6, <1>7, LabelOnLine DEF id
    <2>2. asm' = t
      BY <1>2 DEF id
    <2>. HIDE DEF t
    <2>. QED BY <2>1, <2>2
  <1>9. Keeps(asm, asm') /\ Good(asm')
    BY <1>3, <1>8, KeepsOn DEF Keeps
  <1>10. disputed' \subseteq DOMAIN asm'.entry /\ disputed \subseteq disputed'
    <2>1. disputed' \subseteq DOMAIN asm'.entry
      BY <1>2, <1>9, Disputing
    <2>. QED BY <1>2, <2>1 DEF Disputes
  <1>11. Fits(asm')
    BY <1>6, <1>8 DEF SameCounters, Fits, IInv
  <1>12. Remembered'
    BY <1>2, <1>9 DEF IInv, Remembered, Keeps
  <1>13. Here(asm)' = Here(asm)
    BY <1>2, <1>6, <1>8 DEF Here, SameCounters
  <1>14. OnDatum'
    <2>. SUFFICES ASSUME NEW i \in ToSet(asm'.line), i \notin disputed'
                  PROVE  asm'.entry[i].addr = Here(asm)
      BY <1>13 DEF OnDatum
    <2>1. CASE i = id
      <3>1. ~Defined(n)
        <4>1. Defined(n) => id = asm.table[n] /\ asm.table[n] \in disputed'
          BY <1>2, <1>5, <1>6 DEF Defined, Known, Disputes
        <4>. QED BY <2>1, <4>1
      <3>2. s0.entry[s0.table[n]].addr = 0
        <4>1. NewLabel(n).addr = 0
          BY DEF NewLabel
        <4>. QED BY <1>5, <3>1, <4>1 DEF Defined, Known
      <3>. QED BY <1>4, <1>6, <1>8, <2>1, <3>2
    <2>2. CASE i # id
      <3>1. i \in ToSet(asm.line) /\ i \notin disputed
        BY <1>3, <1>8, <1>10, <2>2, SetOfEmpty
      <3>2. i \in DOMAIN asm.entry
        BY <1>0, <3>1 DEF Good, Lists
      <3>3. asm.entry[i].addr = Here(asm)
        BY <3>1 DEF IInv, OnDatum
      <3>. QED BY <1>4, <1>6, <1>8, <2>2, <3>2, <3>3
    <2>. QED BY <2>1, <2>2
  <1>15. Flags'
    BY <1>2, ParametersOK DEF IInv, Flags, ParametersOK
  <1>. QED BY <1>9, <1>10, <1>11, <1>12, <1>14, <1>15 DEF IInv, Labels

\* Commands that use no label.
LEMMA PlainStep ==
  ASSUME IInv, NEW s, Keeps(asm, s), Command(s), UNCHANGED <<text_dir, file, refs>>,
         auto_alignment' \in BOOLEAN, disputed' \subseteq DOMAIN s.entry
  PROVE  IInv'
  <1>1. /\ refs' \subseteq RefType /\ refs' \ refs = {}
        /\ text_dir' \in BOOLEAN /\ file' \in Nat
    BY DEF IInv, Remembered, Flags
  <1>. QED BY <1>1, CommandStep

LEMMA DefineConstantStep ==
  ASSUME IInv, NEW n \in Names, NEW v \in Values, DefineConstant(n, v)  PROVE IInv'
  <1>. DEFINE s == ConstantOf(asm, n, v)
  <1>1. v \in Nat
    BY ParametersOK DEF ParametersOK
  <1>2. Keeps(asm, s)
    BY <1>1, ConstantKeeps DEF IInv
  <1>3. /\ Command(s) /\ UNCHANGED <<auto_alignment, text_dir, file, refs>>
        /\ IF Defined(n) THEN Disputes(n) ELSE UNCHANGED disputed
    BY DEF DefineConstant, ConstantOf
  <1>. HIDE DEF s
  <1>4. disputed' \subseteq DOMAIN s.entry
    BY <1>2, <1>3, Disputing
  <1>5. auto_alignment' \in BOOLEAN
    BY <1>3 DEF IInv, Flags
  <1>. QED BY <1>2, <1>3, <1>4, <1>5, PlainStep

LEMMA LabelDirectiveStep ==
  ASSUME IInv, NEW n \in Names, LabelDirective(n)  PROVE IInv'
  <1>. DEFINE s == record_label(asm, n, Here(asm), TRUE)
  <1>1. Good(asm) /\ Here(asm) \in Nat \ {0}
    BY CountersTyped DEF IInv, Here
  <1>2. Keeps(asm, s)
    BY <1>1, RecordKeeps
  <1>3. /\ Command(s) /\ UNCHANGED <<auto_alignment, text_dir, file, refs>>
        /\ IF Defined(n) THEN Disputes(n) ELSE UNCHANGED disputed
    BY DEF LabelDirective
  <1>. HIDE DEF s
  <1>4. disputed' \subseteq DOMAIN s.entry
    BY <1>2, <1>3, Disputing
  <1>5. auto_alignment' \in BOOLEAN
    BY <1>3 DEF IInv, Flags
  <1>. QED BY <1>2, <1>3, <1>4, <1>5, PlainStep

LEMMA Disputed ==
  ASSUME IInv, NEW s, Keeps(asm, s), UNCHANGED disputed
  PROVE  disputed' \subseteq DOMAIN s.entry
  BY DEF IInv, Labels, Keeps

\* A use is where the location counter stands, and so is what is remembered of it.
LEMMA ReferStep ==
  ASSUME IInv, NEW s0, Keeps(asm, s0), NEW n \in Names, NEW forward \in BOOLEAN,
         NEW u \in [place : {"text", "data"}, addr : Nat],
         ~WordsInText => u.addr = Here(s0),
         NEW s, Assembled(s0, n, u, s), Command(s), Refer(s0, n, forward),
         UNCHANGED <<auto_alignment, text_dir, file, disputed>>
  PROVE  IInv'
  <1>1. Keeps(s0, s) /\ Keeps(asm, s) /\ Good(s) /\ Good(s0)
    BY KeepsOn DEF Assembled, Keeps
  <1>2. asm'.table = s.table
    BY <1>1, LineKnown, ClearFields DEF Command
  <1>3. s.table[n] \in DOMAIN s.entry /\ s.table[n] \in Nat
    BY <1>1, LabelTyped DEF Assembled, Good
  <1>. DEFINE new == [place |-> IF text_dir THEN "text" ELSE "data", addr |-> Here(s0),
                      label |-> s.table[n], forward |-> forward]
  <1>4. refs' \subseteq refs \cup {new}
    BY <1>2 DEF Refer
  <1>5. Here(s0) \in Nat
    BY <1>1, CountersTyped DEF Here
  <1>6. /\ new \in RefType /\ new.label = s.table[n] /\ new.addr = Here(s0)
    BY <1>3, <1>5 DEF RefType
  <1>. HIDE DEF new
  <1>7. ~WordsInText => Reported(s, new)
    BY <1>3, <1>6 DEF Reported, Assembled
  <1>8. refs' \subseteq RefType /\ (~WordsInText => \A r \in refs' \ refs : Reported(s, r))
    BY <1>4, <1>6, <1>7 DEF IInv, Remembered
  <1>9. /\ auto_alignment' \in BOOLEAN /\ text_dir' \in BOOLEAN /\ file' \in Nat
        /\ disputed' \subseteq DOMAIN s.entry
    BY <1>1, Disputed DEF IInv, Flags
  <1>. QED BY <1>1, <1>8, <1>9, CommandStep

LEMMA DefinedTyped == ASSUME IInv, NEW n \in Names PROVE (~Defined(n)) \in BOOLEAN
  BY DEF Defined

LEMMA JumpStep == ASSUME IInv, NEW n \in Names, Jump(n)  PROVE IInv'
  <1>. DEFINE u == Use(IF text_dir THEN "text" ELSE "data", Here(asm))
              s == Instruction(asm, n)
  <1>1. Good(asm) /\ Keeps(asm, asm)
    BY KeepsSelf DEF IInv
  <1>2. /\ u \in [place : {"text", "data"}, addr : Nat] /\ Reached(asm, u)
        /\ s = Assembly(Looked(asm, n, u), n)
    BY <1>1, InstructionAssembly
  <1>3. u.addr = Here(asm)
    BY DEF Use
  <1>4. /\ Command(s) /\ Refer(asm, n, ~Defined(n))
        /\ UNCHANGED <<auto_alignment, text_dir, file, disputed>>
    BY DEF Jump
  <1>. HIDE DEF s, u
  <1>5. Assembled(asm, n, u, s)
    BY <1>1, <1>2, AssembledKeeps
  <1>6. (~Defined(n)) \in BOOLEAN
    BY DefinedTyped
  <1>. QED BY <1>1, <1>2, <1>3, <1>4, <1>5, <1>6, ReferStep

LEMMA WordStep == ASSUME IInv, NEW n \in Names, Word(n)  PROVE IInv'
  <1>. DEFINE s0 == set_data_alignment(asm, 2)
              u == Use("data", s0.next_data_pc)
              s == WordOf(s0, n)
  <1>1. Good(asm) /\ Keeps(asm, asm)
    BY KeepsSelf DEF IInv
  <1>2. Keeps(asm, s0)
    <2>1. s0 = asm \/ Aligned(asm, AlignUp(asm.next_data_pc, 2), s0)
      BY <1>1, SetAlignmentKeeps
    <2>. HIDE DEF s0
    <2>. QED BY <1>1, <2>1 DEF Aligned
  <1>3. /\ Command(s) /\ Refer(s0, n, ~Defined(n))
        /\ UNCHANGED <<auto_alignment, text_dir, file, disputed>>
        /\ text_dir => WordsInText
    BY DEF Word
  <1>. HIDE DEF s0
  <1>4. /\ u \in [place : {"text", "data"}, addr : Nat] /\ Reached(s0, u)
        /\ s = Assembly(Looked(s0, n, u), n)
    BY <1>2, WordAssembly DEF Keeps
  <1>5. ~WordsInText => u.addr = Here(s0)
    BY <1>3 DEF Use, Here
  <1>. HIDE DEF s, u
  <1>6. Assembled(s0, n, u, s)
    BY <1>2, <1>4, AssembledKeeps DEF Keeps
  <1>7. (~Defined(n)) \in BOOLEAN
    BY DefinedTyped
  <1>. QED BY <1>2, <1>3, <1>4, <1>5, <1>6, <1>7, ReferStep

LEMMA AlignmentsTyped == \A k \in Alignments : k \in 0 .. 3 /\ 2^k \in Nat \ {0}
  <1>. SUFFICES ASSUME NEW k \in Alignments  PROVE k \in 0 .. 3 /\ 2^k \in Nat \ {0}
    OBVIOUS
  <1>1. k \in 0 .. 3
    BY ParametersOK DEF ParametersOK
  <1>. DEFINE p == 2^k
  <1>2. p \in {1, 2, 4, 8}
    BY <1>1, Powers
  <1>. HIDE DEF p
  <1>3. p \in Nat \ {0}
    BY <1>2
  <1>. QED BY <1>1, <1>3 DEF p

LEMMA LiteralStep == ASSUME IInv, NEW k \in Alignments, Literal(k)  PROVE IInv'
  <1>. DEFINE s == IF k = 0 THEN asm ELSE set_data_alignment(asm, k)
              a == s.next_data_pc + 2^k
              t == [s EXCEPT !.next_data_pc = s.next_data_pc + 2^k]
  <1>1. Good(asm) /\ Keeps(asm, asm) /\ k \in 0 .. 3 /\ 2^k \in Nat \ {0}
    BY KeepsSelf, AlignmentsTyped DEF IInv
  <1>2. Keeps(asm, s)
    <2>. DEFINE r == set_data_alignment(asm, k)
    <2>1. r = asm \/ Aligned(asm, AlignUp(asm.next_data_pc, k), r)
      BY <1>1, SetAlignmentKeeps
    <2>. HIDE DEF r
    <2>2. Keeps(asm, r)
      BY <1>1, <2>1 DEF Aligned
    <2>. QED BY <1>1, <2>2 DEF r
  <1>3. Command(t) /\ UNCHANGED <<auto_alignment, text_dir, file, refs, disputed>>
    BY DEF Literal
  <1>. HIDE DEF s
  <1>4. a \in Nat /\ a >= s.next_data_pc /\ Good(s)
    <2>1. Good(s) /\ s.next_data_pc \in Nat
      BY <1>2, CountersTyped DEF Keeps
    <2>. DEFINE p == 2^k
    <2>2. p \in Nat
      BY <1>1
    <2>. HIDE DEF p
    <2>3. s.next_data_pc + p \in Nat /\ s.next_data_pc + p >= s.next_data_pc
      BY <2>1, <2>2
    <2>. QED BY <2>1, <2>3 DEF p
  <1>. HIDE DEF a
  <1>5. Keeps(s, t)
    <2>1. t = [s EXCEPT !.next_data_pc = a]
      BY DEF a
    <2>. QED BY <1>4, <2>1, DataMoves
  <1>. HIDE DEF t
  <1>6. Keeps(asm, t) /\ auto_alignment' \in BOOLEAN /\ disputed' \subseteq DOMAIN t.entry
    BY <1>2, <1>3, <1>5, KeepsOn, Disputed DEF IInv, Flags
  <1>. QED BY <1>3, <1>6, PlainStep

LEMMA SpaceStep == ASSUME IInv, NEW v \in Nat, Space(v)  PROVE IInv'
  <1>1. Good(asm)
    BY DEF IInv
  <1>. DEFINE s == IF text_dir THEN [asm EXCEPT !.next_text_pc = @ + v]
                   ELSE [asm EXCEPT !.next_data_pc = @ + v]
  <1>2. Command(s) /\ UNCHANGED <<auto_alignment, text_dir, file, refs, disputed>>
    BY DEF Space
  <1>3. Keeps(asm, [asm EXCEPT !.next_text_pc = @ + v])
    BY <1>1, TextMoves
  <1>4. Keeps(asm, [asm EXCEPT !.next_data_pc = @ + v])
    <2>. DEFINE a == asm.next_data_pc + v
    <2>1. a \in Nat /\ a >= asm.next_data_pc
      BY <1>1, CountersTyped
    <2>. HIDE DEF a
    <2>2. Keeps(asm, [asm EXCEPT !.next_data_pc = a])
      BY <1>1, <2>1, DataMoves
    <2>. QED BY <2>2 DEF a
  <1>5. Keeps(asm, s)
    BY <1>3, <1>4
  <1>. HIDE DEF s
  <1>6. auto_alignment' \in BOOLEAN /\ disputed' \subseteq DOMAIN s.entry
    BY <1>2, <1>5, Disputed DEF IInv, Flags
  <1>. QED BY <1>2, <1>5, <1>6, PlainStep

LEMMA AlignStep == ASSUME IInv, NEW k \in Alignments, Align(k)  PROVE IInv'
  <1>. DEFINE s == IF k = 0 THEN asm ELSE align_data(asm, k)
  <1>1. Good(asm) /\ k \in 0 .. 3
    BY AlignmentsTyped DEF IInv
  <1>2. /\ Command(s) /\ auto_alignment' = (auto_alignment /\ k # 0)
        /\ UNCHANGED <<text_dir, file, refs, disputed>>
    BY DEF Align
  <1>3. Keeps(asm, asm) /\ Keeps(asm, align_data(asm, k))
    BY <1>1, KeepsSelf, AlignKeeps DEF Aligned
  <1>4. Keeps(asm, s)
    BY <1>3
  <1>. HIDE DEF s
  <1>5. auto_alignment' \in BOOLEAN /\ disputed' \subseteq DOMAIN s.entry
    BY <1>2, <1>4, Disputed DEF IInv, Flags
  <1>. QED BY <1>2, <1>4, <1>5, PlainStep

LEMMA SegmentStep == ASSUME IInv, NEW text \in BOOLEAN, Segment(text)  PROVE IInv'
  <1>1. Keeps(asm, asm)
    BY KeepsSelf DEF IInv
  <1>2. /\ Command(asm) /\ text_dir' \in BOOLEAN /\ auto_alignment' \in BOOLEAN
        /\ UNCHANGED <<file, refs, disputed>>
    BY DEF Segment
  <1>3. /\ disputed' \subseteq DOMAIN asm.entry /\ refs' \subseteq RefType
        /\ refs' \ refs = {} /\ file' \in Nat
    BY <1>1, <1>2, Disputed DEF IInv, Remembered, Flags
  <1>. QED BY <1>1, <1>2, <1>3, CommandStep

LEMMA GlobalStep == ASSUME IInv, NEW n \in Names, Global(n)  PROVE IInv'
  <1>. DEFINE s == make_label_global(asm, n)
  <1>1. Keeps(asm, s)
    BY GlobalKeeps DEF IInv
  <1>2. Command(s) /\ UNCHANGED <<auto_alignment, text_dir, file, refs, disputed>>
    BY DEF Global
  <1>. HIDE DEF s
  <1>3. auto_alignment' \in BOOLEAN /\ disputed' \subseteq DOMAIN s.entry
    BY <1>1, <1>2, Disputed DEF IInv, Flags
  <1>. QED BY <1>1, <1>2, <1>3, PlainStep

LEMMA CommStep ==
  ASSUME IInv, NEW n \in Names, NEW size \in Sizes, Comm(n, size)  PROVE IInv'
  <1>. DEFINE s == lookup_label(align_data(asm, 2), n)
              t == CommLabel(s, n)
              u == [t EXCEPT !.next_data_pc = @ + size]
  <1>1. Keeps(asm, u)
    BY CommKeeps DEF IInv
  <1>2. /\ Command(u) /\ UNCHANGED <<auto_alignment, text_dir, file, refs>>
        /\ IF t # s /\ Defined(n) THEN Disputes(n) ELSE UNCHANGED disputed
    BY DEF Comm, CommLabel
  <1>. HIDE DEF u, s, t
  <1>3. disputed' \subseteq DOMAIN u.entry
    <2>1. IF Defined(n) THEN disputed' \subseteq disputed \cup {asm.table[n]}
          ELSE disputed' = disputed
      BY <1>2 DEF Disputes
    <2>2. Defined(n) => asm.table[n] \in DOMAIN asm.entry
      BY KnownLabel DEF IInv, Defined, Labels
    <2>. QED BY <1>1, <2>1, <2>2 DEF IInv, Labels, Keeps
  <1>4. auto_alignment' \in BOOLEAN
    BY <1>2 DEF IInv, Flags
  <1>. QED BY <1>1, <1>2, <1>3, <1>4, PlainStep

LEMMA LcommStep ==
  ASSUME IInv, NEW n \in Names, NEW size \in Sizes, Lcomm(n, size)  PROVE IInv'
  <1>. DEFINE s == LcommOf(asm, n, size)
  <1>1. Keeps(asm, s)
    BY LcommKeeps DEF IInv
  <1>2. /\ Command(s) /\ UNCHANGED <<auto_alignment, text_dir, file, refs>>
        /\ IF Defined(n) THEN Disputes(n) ELSE UNCHANGED disputed
    BY DEF Lcomm, LcommOf
  <1>. HIDE DEF s
  <1>3. disputed' \subseteq DOMAIN s.entry
    BY <1>1, <1>2, Disputing
  <1>4. auto_alignment' \in BOOLEAN
    BY <1>2 DEF IInv, Flags
  <1>. QED BY <1>1, <1>2, <1>3, <1>4, PlainStep

LEMMA ExternStep ==
  ASSUME IInv, NEW n \in Names, NEW size \in Sizes, Extern(n, size)  PROVE IInv'
  <1>. DEFINE s == make_label_global(asm, n)
              id == s.table[n]
              placed == ~s.entry[id].gp_flag /\ FitsGp(s, size)
              t == ExternOf(s, id, size)
  <1>1. Good(asm)
    BY DEF IInv
  <1>2. Keeps(asm, t)
    BY <1>1, ExternKeeps
  <1>3. /\ s.table = lookup_label(asm, n).table
        /\ s.entry[id] = [lookup_label(asm, n).entry[id] EXCEPT !.global_flag = TRUE]
    BY <1>1, GlobalKeeps
  <1>4. /\ Command(t) /\ UNCHANGED <<auto_alignment, text_dir, file, refs>>
        /\ IF placed /\ (Defined(n) \/ s.entry[id].uses # {})
           THEN Disputes(n) ELSE UNCHANGED disputed
    BY DEF Extern, ExternOf
  <1>. HIDE DEF s, t, placed
  <1>5. asm.table[n] = 0 => s.entry[id].uses = {}
    <2>. SUFFICES ASSUME asm.table[n] = 0  PROVE s.entry[id].uses = {}
      OBVIOUS
    <2>1. lookup_label(asm, n).entry[lookup_label(asm, n).table[n]] = NewLabel(n)
      BY <1>1, LookupKeeps
    <2>2. s.entry[id] = [NewLabel(n) EXCEPT !.global_flag = TRUE]
      BY <1>3, <2>1
    <2>3. NewLabel(n) \in LabelType /\ NewLabel(n).uses = {}
      BY NewLabelTyped DEF NewLabel
    <2>. QED BY <2>2, <2>3 DEF LabelType
  <1>6. disputed' \subseteq DOMAIN t.entry
    <2>1. disputed' = disputed
            \/ (Known(n) /\ disputed' \subseteq disputed \cup {asm.table[n]})
      BY <1>4, <1>5 DEF Disputes, Defined, Known
    <2>2. Known(n) => asm.table[n] \in DOMAIN asm.entry
      BY <1>1, KnownLabel DEF Labels
    <2>. QED BY <1>2, <2>1, <2>2 DEF IInv, Labels, Keeps
  <1>7. auto_alignment' \in BOOLEAN
    BY <1>4 DEF IInv, Flags
  <1>. QED BY <1>2, <1>4, <1>6, <1>7, PlainStep

LEMMA EndOfFileStep == ASSUME IInv, EndOfFile  PROVE IInv'
  <1>. DEFINE c == clear_labels(asm)
  <1>1. /\ lines < MaxLines /\ lines' = lines + 1
        /\ asm' = flush_local_labels(c)
        /\ auto_alignment' = TRUE /\ text_dir' = TRUE /\ file' = file + 1
        /\ UNCHANGED <<refs, disputed>>
    BY DEF EndOfFile
  <1>2. Good(asm)
    BY DEF IInv
  <1>3. Keeps(asm, c) /\ c.line = <<>> /\ SameCounters(asm, c)
    BY <1>2, ClearKeeps, LineKnown, ClearFields
  <1>. HIDE DEF c
  <1>4. Keeps(c, asm') /\ asm'.line = <<>> /\ SameCounters(c, asm')
    BY <1>1, <1>3, FlushKeeps DEF Keeps
  <1>5. Keeps(asm, asm') /\ Good(asm')
    BY <1>3, <1>4, KeepsOn DEF Keeps
  <1>6. Fits(asm')
    BY <1>3, <1>4 DEF SameCounters, Fits, IInv
  <1>7. Remembered' /\ disputed' \subseteq Labels'
    BY <1>1, <1>5 DEF IInv, Remembered, Keeps, Labels
  <1>8. OnDatum'
    BY <1>4, SetOfEmpty DEF OnDatum
  <1>9. Flags'
    BY <1>1, ParametersOK DEF IInv, Flags, ParametersOK
  <1>. QED BY <1>5, <1>6, <1>7, <1>8, <1>9 DEF IInv

LEMMA NextInvariant == IInv /\ [Next]_vars => IInv'
  <1>. SUFFICES ASSUME IInv, [Next]_vars  PROVE IInv'
    OBVIOUS
  <1>1. CASE UNCHANGED vars
    BY <1>1 DEF vars, IInv, Fits, Remembered, OnDatum, Flags, Labels, Here
  <1>2. ASSUME NEW n \in Names,
               \/ DefineLabel(n) \/ LabelDirective(n) \/ Word(n) \/ Jump(n) \/ Global(n)
        PROVE  IInv'
    BY <1>2, DefineLabelStep, LabelDirectiveStep, WordStep, JumpStep, GlobalStep
  <1>3. ASSUME NEW n \in Names, NEW v \in Values, DefineConstant(n, v)  PROVE IInv'
    BY <1>3, DefineConstantStep
  <1>4. ASSUME NEW n \in Names, NEW size \in Sizes,
               Comm(n, size) \/ Lcomm(n, size) \/ Extern(n, size)
        PROVE  IInv'
    BY <1>4, CommStep, LcommStep, ExternStep
  <1>5. ASSUME NEW k \in Alignments, Literal(k) \/ Align(k)  PROVE IInv'
    BY <1>5, LiteralStep, AlignStep
  <1>6. ASSUME NEW k \in Alignments, Space(2^k)  PROVE IInv'
    <2>1. 2^k \in Nat
      BY AlignmentsTyped
    <2>. QED BY <1>6, <2>1, SpaceStep
  <1>7. ASSUME NEW text \in BOOLEAN, Segment(text)  PROVE IInv'
    BY <1>7, SegmentStep
  <1>8. CASE EndOfFile
    BY <1>8, EndOfFileStep
  <1>. QED BY <1>1, <1>2, <1>3, <1>4, <1>5, <1>6, <1>7, <1>8 DEF Next

LEMMA Invariant == Spec => []IInv
  BY InitInvariant, NextInvariant, PTL DEF Spec

-----------------------------------------------------------------------------
(***************************************************************************)
(* The theorems.                                                           *)
(***************************************************************************)

\* The state of the assembler keeps its type: the table leads to labels of
\* the name looked up, the lists hold labels that exist, and the uses and
\* the location counters stay in their segments (CPU/sym-tbl.cpp,
\* CPU/data.cpp, CPU/inst.cpp).
THEOREM Typing == Spec => []TypeOK
  <1>1. IInv => TypeOK
    <2>. SUFFICES ASSUME IInv  PROVE TypeOK
      OBVIOUS
    <2>1. Good(asm) /\ Fits(asm) /\ asm \in AsmType
      BY DEF IInv, Good
    <2>2. /\ asm.next_text_pc \in TextBot .. LastText - 3
          /\ asm.next_data_pc \in DataBot .. LastData - 3
          /\ asm.next_gp_item_addr \in GpBot .. GpTop
      BY <2>1, CountersTyped, Places DEF Fits
    <2>3. ASSUME NEW id \in Labels
          PROVE  /\ asm.entry[id].name \in Names /\ asm.entry[id].addr \in Nat
                 /\ \A u \in asm.entry[id].uses :
                      u.addr \in IF u.place = "text" THEN TextBot .. LastText ELSE DataBytes
      <3>1. asm.entry[id].name \in Names /\ asm.entry[id].addr \in Nat
        BY <2>1, LabelTyped DEF Labels
      <3>2. ASSUME NEW u \in asm.entry[id].uses
            PROVE  u.addr \in IF u.place = "text" THEN TextBot .. LastText ELSE DataBytes
        <4>1. Reached(asm, u)
          BY <2>1 DEF Good, Entries, Labels
        <4>. QED BY <2>2, <4>1, Places DEF Reached, DataBytes
      <3>. QED BY <3>1, <3>2
    <2>4. \A n \in Names : Known(n) => asm.entry[asm.table[n]].name = n
      BY <2>1 DEF Good, Tables, Known
    <2>5. ToSet(asm.local) \cup ToSet(asm.line) \cup disputed \subseteq Labels
      BY <2>1 DEF Good, Lists, Labels, IInv
    <2>6. asm.next_text_pc \in TextBot .. LastText /\ asm.next_data_pc \in DataBot .. LastData
      BY <2>2, Places
    <2>. QED BY <2>2, <2>3, <2>4, <2>5, <2>6 DEF TypeOK, IInv, Flags
  <1>. QED BY <1>1, Invariant, PTL

\* A label used and not defined stays in the table and remembers where it
\* was used, across any number of files, so that undefined symbols are
\* reported (record_inst_uses_symbol, flush_local_labels).  A .word of the
\* text remembers a place in the data instead, and is left out.
THEOREM UndefinedKept == ~WordsInText => (Spec => []UndefinedReported)
  <1>. SUFFICES ASSUME ~WordsInText  PROVE Spec => []UndefinedReported
    OBVIOUS
  <1>1. IInv => UndefinedReported
    BY DEF IInv, Remembered, Reported, UndefinedReported, Tabled
  <1>. QED BY <1>1, Invariant, PTL

\* Only the end of a file starts the next one.
LEMMA FileKept == ASSUME Next, ~EndOfFile PROVE file' = file
  BY DEF Next, DefineLabel, DefineConstant, LabelDirective, Word, Jump, Literal, Space,
         Align, Segment, Global, Comm, Lcomm, Extern

\* What a file defined and did not make global is out of the table when the
\* next file starts (flush_local_labels).
THEOREM Hidden == Spec => LocalsHidden
  <1>. DEFINE Hides ==
         file' # file =>
           \A n \in Names : asm'.table[n] # 0 =>
             LET e == asm'.entry[asm'.table[n]] IN e.global_flag \/ e.addr = 0
  <1>1. ASSUME IInv, IInv', [Next]_vars  PROVE Hides
    <2>. SUFFICES ASSUME file' # file, NEW n \in Names, asm'.table[n] # 0
                  PROVE  LET e == asm'.entry[asm'.table[n]] IN e.global_flag \/ e.addr = 0
      OBVIOUS
    <2>1. EndOfFile
      BY <1>1, FileKept DEF vars
    <2>2. asm'.local = <<>>
      BY <2>1 DEF EndOfFile, flush_local_labels
    <2>3. Good(asm')
      BY <1>1 DEF IInv
    <2>4. asm'.table[n] \in DOMAIN asm'.entry /\ Tabled(asm', asm'.table[n])
      BY <2>3 DEF Good, Tables, Tabled
    <2>. QED BY <2>2, <2>3, <2>4, SetOfEmpty DEF Good, Entries
  <1>. QED BY <1>1, Invariant, PTL DEF Spec, LocalsHidden

\* Only words and instructions use labels.
LEMMA RefersOnly ==
  ASSUME Next, ~ \E n \in Names : Word(n) \/ Jump(n)  PROVE refs' = refs
  BY DEF Next, DefineLabel, DefineConstant, LabelDirective, Literal, Space,
         Align, Segment, Global, Comm, Lcomm, Extern, EndOfFile

\* Clearing a line keeps the addresses.
LEMMA ClearedAddresses ==
  ASSUME NEW s, Good(s), NEW id \in DOMAIN s.entry
  PROVE  clear_labels(s).entry[id].addr = s.entry[id].addr
  <1>1. clear_labels(s).entry[id] = IF id \in ToSet(s.line) THEN [s.entry[id] EXCEPT !.uses = {}]
                                    ELSE s.entry[id]
    BY LineKnown, ClearFields
  <1>2. s.entry[id] \in LabelType
    BY LabelTyped DEF Good
  <1>. QED BY <1>1, <1>2 DEF LabelType

\* The labels of a line have the address of the word or instruction that
\* follows them, whatever the alignment (fix_current_label_address).
THEOREM OnItsDatum == Spec => LabelOnDatum
  <1>. DEFINE Lands ==
         \A r \in refs' \ refs : \A id \in ToSet(asm.line) \ disputed :
           asm'.entry[id].addr = r.addr
  <1>1. ASSUME IInv, NEW s0, NEW n \in Names, NEW u \in [place : {"text", "data"}, addr : Nat],
               Keeps(asm, s0), Reached(s0, u),
               \A id \in ToSet(asm.line) \ disputed : s0.entry[id].addr = Here(s0),
               Command(Assembly(Looked(s0, n, u), n)),
               Refer(s0, n, ~Defined(n))
        PROVE  Lands
    <2>. DEFINE s == Assembly(Looked(s0, n, u), n)
    <2>. SUFFICES ASSUME NEW r \in refs' \ refs, NEW id \in ToSet(asm.line), id \notin disputed
                  PROVE  asm'.entry[id].addr = r.addr
      OBVIOUS
    <2>1. Assembled(s0, n, u, s)
      BY <1>1, AssembledKeeps DEF Keeps
    <2>2. asm' = clear_labels(s)
      BY <1>1 DEF Command
    <2>. HIDE DEF s
    <2>3. id \in DOMAIN asm.entry
      BY <1>1 DEF IInv, Good, Lists
    <2>4. id \in DOMAIN s0.entry
      BY <1>1, <2>3 DEF Keeps
    <2>5. Good(s) /\ id \in DOMAIN s.entry /\ s.entry[id].addr = s0.entry[id].addr
      BY <2>1, <2>4 DEF Assembled, Keeps, SameAddresses
    <2>6. asm'.entry[id].addr = s0.entry[id].addr
      BY <2>2, <2>5, ClearedAddresses
    <2>7. r.addr = Here(s0)
      BY <1>1 DEF Refer
    <2>. QED BY <1>1, <2>6, <2>7
  <1>2. ASSUME IInv, NEW n \in Names, Jump(n)  PROVE Lands
    <2>. DEFINE u == Use(IF text_dir THEN "text" ELSE "data", Here(asm))
    <2>1. Keeps(asm, asm) /\ Good(asm)
      BY <1>2, KeepsSelf DEF IInv
    <2>2. /\ u \in [place : {"text", "data"}, addr : Nat] /\ Reached(asm, u)
          /\ Instruction(asm, n) = Assembly(Looked(asm, n, u), n)
      BY <2>1, InstructionAssembly
    <2>3. Command(Instruction(asm, n)) /\ Refer(asm, n, ~Defined(n))
      BY <1>2 DEF Jump
    <2>4. \A id \in ToSet(asm.line) \ disputed : asm.entry[id].addr = Here(asm)
      BY <1>2 DEF IInv, OnDatum
    <2>. HIDE DEF u, Lands
    <2>5. Command(Assembly(Looked(asm, n, u), n))
      BY <2>2, <2>3
    <2>. QED BY <1>1, <1>2, <2>1, <2>2, <2>3, <2>4, <2>5
  <1>3. ASSUME IInv, NEW n \in Names, Word(n)  PROVE Lands
    <2>. DEFINE s0 == set_data_alignment(asm, 2)
                u == Use("data", s0.next_data_pc)
    <2>1. Good(asm)
      BY <1>3 DEF IInv
    <2>2. s0 = asm \/ (~text_dir /\ Aligned(asm, AlignUp(asm.next_data_pc, 2), s0))
      BY <2>1, SetAlignmentKeeps
    <2>3. Command(WordOf(s0, n)) /\ Refer(s0, n, ~Defined(n))
      BY <1>3 DEF Word
    <2>. HIDE DEF s0
    <2>4. Keeps(asm, s0) /\ Good(s0)
      BY <2>1, <2>2, KeepsSelf DEF Aligned, Keeps
    <2>5. \A id \in ToSet(asm.line) \ disputed : s0.entry[id].addr = Here(s0)
      <3>1. CASE s0 = asm
        BY <1>3, <3>1 DEF IInv, OnDatum
      <3>2. CASE ~text_dir /\ Aligned(asm, AlignUp(asm.next_data_pc, 2), s0)
        <4>1. ToSet(asm.line) \subseteq DOMAIN asm.entry
          BY <2>1, LineKnown
        <4>. QED BY <3>2, <4>1 DEF Aligned, Here
      <3>. QED BY <2>2, <3>1, <3>2
    <2>6. /\ u \in [place : {"text", "data"}, addr : Nat] /\ Reached(s0, u)
          /\ WordOf(s0, n) = Assembly(Looked(s0, n, u), n)
      BY <2>4, WordAssembly
    <2>. HIDE DEF u, Lands
    <2>7. Command(Assembly(Looked(s0, n, u), n))
      BY <2>3, <2>6
    <2>. QED BY <1>1, <1>3, <2>3, <2>4, <2>5, <2>6, <2>7
  <1>4. ASSUME IInv, [Next]_vars  PROVE Lands
    <2>1. CASE \E n \in Names : Word(n) \/ Jump(n)
      BY <1>2, <1>3, <1>4, <2>1
    <2>2. CASE ~ \E n \in Names : Word(n) \/ Jump(n)
      BY <1>4, <2>2, RefersOnly DEF vars
    <2>. QED BY <2>1, <2>2
  <1>. QED BY <1>4, Invariant, PTL DEF Spec, LabelOnDatum

-----------------------------------------------------------------------------
(***************************************************************************)
(* That whatever uses a label holds its address, for any names, segments   *)
(* and number of lines.  A use made before its label is defined awaits it  *)
(* in the label; a place in memory is used by one label only, so that the  *)
(* address written there when the label is resolved stays.                 *)
(***************************************************************************)
Undefined(s, id) == s.entry[id].addr = 0 /\ ~s.entry[id].const_flag
Pending(s, r) == Use(r.place, r.addr) \in s.entry[r.label].uses

\* The word that r stands for is stored.
Room(s, r) ==
  IF r.place = "text" THEN r.addr \in TextWords /\ r.addr + 4 <= s.next_text_pc
  ELSE r.addr >= DataBot /\ r.addr + 4 <= s.next_data_pc /\ r.addr + 3 <= LastData

\* Two uses are of different words.
Apart(r, q) ==
  r.place = q.place =>
    \/ r = q
    \/ r.addr + 4 <= q.addr
    \/ q.addr + 4 <= r.addr

\* What a label remembers is a use of it; instructions at a misaligned
\* address are remembered and not stored.
Owned(R, id, u) ==
  \/ u.place = "text" /\ u.addr % 4 # 0
  \/ \E r \in R : r.place = u.place /\ r.addr = u.addr /\ r.label = id

Laid(s, R) ==
  /\ R \subseteq RefType
  /\ \A r \in R : r.label \in DOMAIN s.entry /\ Room(s, r)
  /\ \A r, q \in R : Apart(r, q)
  /\ \A id \in DOMAIN s.entry : \A u \in s.entry[id].uses : Owned(R, id, u)

\* The value of the instruction or word that r was assembled to.
HeldIn(s, r) ==
  IF r.place = "text" THEN s.text[r.addr]
  ELSE LET b == s.data[r.addr]
       IN IF \A i \in 0 .. 3 : s.data[r.addr + i] = <<b[1], i>> THEN b[1] ELSE -1

\* A use of an undefined label is remembered, and so is one of a label just
\* defined, whose address may still move.
Awaited(s, R) == \A r \in R : Undefined(s, r.label) => Pending(s, r) /\ r.forward
OnLine(s, R, D) ==
  \A r \in R : r.label \in ToSet(s.line) \ D => Pending(s, r) /\ r.forward
Patched(r) == r.forward => r.addr % 4 = 0
Filled(s, R, D) ==
  \A r \in R :
    s.entry[r.label].addr # 0 /\ r.label \notin ToSet(s.line) \cup D /\ Patched(r)
      => HeldIn(s, r) = s.entry[r.label].addr

Mem(s, R, D) == Laid(s, R) /\ Awaited(s, R) /\ OnLine(s, R, D) /\ Filled(s, R, D)

-----------------------------------------------------------------------------
(***************************************************************************)
(* Words of memory.                                                        *)
(***************************************************************************)
LEMMA WordBytes ==
  ASSUME NEW a \in Nat
  PROVE  /\ \A i \in 0 .. 3 : a % 4 = 0 => WordAt(a + i) = a /\ (a + i) % 4 = i
         /\ WordAt(a) \in Nat /\ WordAt(a) % 4 = 0 /\ WordAt(a) <= a /\ a <= WordAt(a) + 3
  BY DEF WordAt

LEMMA RefFields ==
  ASSUME NEW R, R \subseteq RefType, NEW r \in R
  PROVE  r.place \in {"text", "data"} /\ r.addr \in Nat /\ r.label \in Nat /\ r.forward \in BOOLEAN
  BY DEF RefType

\* The bytes of a word of the data.
LEMMA RoomBytes ==
  ASSUME NEW s, NEW r \in RefType, r.place # "text", Room(s, r), NEW i \in 0 .. 3
  PROVE  r.addr + i \in DataBytes /\ r.addr \in DataBytes
  <1>1. r.addr \in Nat /\ r.addr >= DataBot /\ r.addr + 3 <= LastData
    BY DEF RefType, Room
  <1>. QED BY <1>1, Places DEF DataBytes

LEMMA HeldSame ==
  ASSUME NEW s, NEW t, NEW r \in RefType,
         r.place = "text" => t.text[r.addr] = s.text[r.addr],
         r.place # "text" => \A i \in 0 .. 3 : t.data[r.addr + i] = s.data[r.addr + i]
  PROVE  HeldIn(t, r) = HeldIn(s, r)
  <1>1. r.addr \in Nat /\ r.addr + 0 = r.addr
    BY DEF RefType
  <1>2. CASE r.place = "text"
    BY <1>2 DEF HeldIn
  <1>3. CASE r.place # "text"
    <2>1. t.data[r.addr] = s.data[r.addr]
      BY <1>1, <1>3
    <2>. QED BY <1>3, <2>1 DEF HeldIn
  <1>. QED BY <1>2, <1>3

LEMMA HeldValue ==
  ASSUME NEW t, NEW r \in RefType, NEW v,
         r.place = "text" => t.text[r.addr] = v,
         r.place # "text" => \A i \in 0 .. 3 : t.data[r.addr + i] = <<v, i>>
  PROVE  HeldIn(t, r) = v
  <1>1. r.addr \in Nat /\ r.addr + 0 = r.addr
    BY DEF RefType
  <1>2. CASE r.place = "text"
    BY <1>2 DEF HeldIn
  <1>3. CASE r.place # "text"
    <2>1. t.data[r.addr] = <<v, 0>>
      BY <1>1, <1>3
    <2>2. t.data[r.addr][1] = v
      BY <2>1
    <2>. QED BY <1>3, <2>2 DEF HeldIn
  <1>. QED BY <1>2, <1>3

-----------------------------------------------------------------------------
(***************************************************************************)
(* Resolving.                                                              *)
(***************************************************************************)
LEMMA FirstPosition ==
  ASSUME NEW ids \in Seq(Nat), NEW id \in ToSet(ids)
  PROVE  \E i \in DOMAIN ids : ids[i] = id /\ \A j \in 1 .. i - 1 : ids[j] # id
  <1>. DEFINE R == OpToRel(<, Nat)
              P == {i \in DOMAIN ids : ids[i] = id}
  <1>1. IsWellFoundedOn(R, Nat)
    BY NatLessThanWellFounded
  <1>2. DOMAIN ids = 1 .. Len(ids) /\ Len(ids) \in Nat
    BY LenProperties
  <1>3. P \subseteq Nat /\ P # {}
    BY <1>2 DEF ToSet
  <1>. HIDE DEF R
  <1>4. PICK i \in P : \A j \in P : ~ (<<j, i>> \in R)
    <2>. HIDE DEF P
    <2>. QED BY <1>1, <1>3, WFMin
  <1>5. \A j \in P : ~ (j < i)
    BY <1>3, <1>4 DEF R, OpToRel
  <1>6. ASSUME NEW j \in 1 .. i - 1  PROVE ids[j] # id
    <2>1. j \in DOMAIN ids /\ j < i
      BY <1>2
    <2>. QED BY <1>5, <2>1
  <1>. QED BY <1>6

\* A place in memory has one user at most.
LEMMA UserIsUse ==
  ASSUME NEW s, NEW R, Laid(s, R), NEW ids \in Seq(Nat), ToSet(ids) \subseteq DOMAIN s.entry,
         NEW place \in {"text", "data"}, NEW a \in Nat, a % 4 = 0,
         NEW i \in Users(s, ids, place, a)
  PROVE  \E q \in R : q.place = place /\ q.addr = a /\ q.label = ids[i]
                      /\ Pending(s, q) /\ q.label \in ToSet(ids)
  <1>. DEFINE u == Use(place, a)
  <1>1. i \in DOMAIN ids /\ u \in s.entry[ids[i]].uses
    BY DEF Users
  <1>2. ids[i] \in ToSet(ids) /\ ids[i] \in DOMAIN s.entry
    BY <1>1 DEF ToSet
  <1>3. u.place = place /\ u.addr = a
    BY DEF Use
  <1>4. Owned(R, ids[i], u)
    BY <1>1, <1>2 DEF Laid
  <1>5. PICK q \in R : q.place = u.place /\ q.addr = u.addr /\ q.label = ids[i]
    BY <1>3, <1>4 DEF Owned
  <1>. QED BY <1>1, <1>2, <1>3, <1>5 DEF Pending

LEMMA UseOfRef ==
  ASSUME NEW s \in AsmType, NEW R, Laid(s, R), NEW ids \in Seq(Nat),
         ToSet(ids) \subseteq DOMAIN s.entry, NEW r \in R, r.addr % 4 = 0
  PROVE  LET U == Users(s, ids, r.place, r.addr)
         IN IF r.label \in ToSet(ids) /\ Pending(s, r)
            THEN U # {} /\ Resolved(s, ids, r.place, r.addr) = s.entry[r.label].addr
            ELSE U = {}
  <1>. DEFINE U == Users(s, ids, r.place, r.addr)
  <1>1. r.place \in {"text", "data"} /\ r.addr \in Nat
    BY RefFields DEF Laid
  <1>2. ASSUME NEW i \in U  PROVE r.label = ids[i] /\ r.label \in ToSet(ids) /\ Pending(s, r)
    <2>1. PICK q \in R : q.place = r.place /\ q.addr = r.addr /\ q.label = ids[i]
                         /\ Pending(s, q) /\ q.label \in ToSet(ids)
      BY <1>1, <1>2, UserIsUse
    <2>2. Apart(r, q)
      BY DEF Laid
    <2>3. ~ (r.addr + 4 <= q.addr) /\ ~ (q.addr + 4 <= r.addr)
      BY <1>1, <2>1
    <2>4. r = q
      BY <2>1, <2>2, <2>3 DEF Apart
    <2>. QED BY <2>1, <2>4
  <1>3. CASE ~ (r.label \in ToSet(ids) /\ Pending(s, r))
    <2>1. U = {}
      BY <1>2, <1>3
    <2>. QED BY <1>3, <2>1
  <1>4. CASE r.label \in ToSet(ids) /\ Pending(s, r)
    <2>1. PICK i \in DOMAIN ids : ids[i] = r.label /\ \A j \in 1 .. i - 1 : ids[j] # r.label
      BY <1>4, FirstPosition
    <2>2. i \in U
      BY <1>4, <2>1 DEF Users, Pending
    <2>3. DOMAIN ids = 1 .. Len(ids) /\ Len(ids) \in Nat
      BY LenProperties
    <2>4. U \in SUBSET (1 .. Len(ids)) /\ U # {}
      BY <2>2, <2>3 DEF Users
    <2>. HIDE DEF U
    <2>5. Max(U) \in U
      BY <2>3, <2>4, MaxOfPositions
    <2>6. ids[Max(U)] = r.label
      BY <1>2, <2>5
    <2>. QED BY <1>4, <2>4, <2>6 DEF Resolved, U
  <1>. QED BY <1>3, <1>4

\* A use that was awaited holds the address of its label; no other changes.
LEMMA ResolveHeld ==
  ASSUME NEW s \in AsmType, NEW R, Laid(s, R), NEW ids \in Seq(Nat),
         ToSet(ids) \subseteq DOMAIN s.entry, NEW r \in R
  PROVE  HeldIn(Resolve(s, ids), r) =
           IF r.label \in ToSet(ids) /\ Pending(s, r) /\ r.addr % 4 = 0
           THEN s.entry[r.label].addr ELSE HeldIn(s, r)
  <1>. DEFINE t == Resolve(s, ids)
              resolved == r.label \in ToSet(ids) /\ Pending(s, r)
  <1>1. r \in RefType /\ r.addr \in Nat /\ Room(s, r)
    BY RefFields DEF Laid
  <1>2. /\ \A a \in TextWords :
             t.text[a] = IF Users(s, ids, "text", a) = {} THEN s.text[a]
                         ELSE Resolved(s, ids, "text", a)
        /\ \A b \in DataBytes :
             t.data[b] = IF Users(s, ids, "data", WordAt(b)) = {} THEN s.data[b]
                         ELSE <<Resolved(s, ids, "data", WordAt(b)), b % 4>>
    BY <1>1, ResolveFields
  <1>3. r.addr % 4 = 0 =>
          IF resolved
          THEN /\ Users(s, ids, r.place, r.addr) # {}
               /\ Resolved(s, ids, r.place, r.addr) = s.entry[r.label].addr
          ELSE Users(s, ids, r.place, r.addr) = {}
    BY <1>1, UseOfRef
  <1>. HIDE DEF t, resolved
  <1>4. CASE r.place = "text"
    <2>1. r.addr \in TextWords /\ r.addr % 4 = 0
      BY <1>1, <1>4 DEF Room, TextWords
    <2>2. t.text[r.addr] = IF resolved THEN s.entry[r.label].addr ELSE s.text[r.addr]
      BY <1>2, <1>3, <1>4, <2>1
    <2>3. CASE resolved
      BY <1>1, <1>4, <2>1, <2>2, <2>3, HeldValue DEF resolved, t
    <2>4. CASE ~resolved
      BY <1>1, <1>4, <2>1, <2>2, <2>4, HeldSame DEF resolved, t
    <2>. QED BY <2>3, <2>4
  <1>5. CASE r.place # "text" /\ r.addr % 4 = 0
    <2>1. r.place = "data"
      BY <1>1, <1>5 DEF RefType
    <2>2. ASSUME NEW i \in 0 .. 3
          PROVE  t.data[r.addr + i] = IF resolved THEN <<s.entry[r.label].addr, i>>
                                      ELSE s.data[r.addr + i]
      <3>1. WordAt(r.addr + i) = r.addr /\ (r.addr + i) % 4 = i
        BY <1>1, <1>5, WordBytes
      <3>2. r.addr + i \in DataBytes
        BY <1>1, <1>5, RoomBytes
      <3>. QED BY <1>2, <1>3, <1>5, <2>1, <3>1, <3>2
    <2>3. CASE resolved
      BY <1>1, <1>5, <2>2, <2>3, HeldValue DEF resolved, t
    <2>4. CASE ~resolved
      BY <1>1, <1>5, <2>2, <2>4, HeldSame DEF resolved, t
    <2>. QED BY <2>3, <2>4
  <1>6. CASE r.place # "text" /\ r.addr % 4 # 0
    <2>1. r.place = "data"
      BY <1>1, <1>6 DEF RefType
    <2>2. ASSUME NEW i \in 0 .. 3
          PROVE  t.data[r.addr + i] = s.data[r.addr + i]
      <3>. DEFINE w == WordAt(r.addr + i)
      <3>0. r.addr + i \in Nat
        BY <1>1
      <3>1. w \in Nat /\ w % 4 = 0 /\ w <= r.addr + i /\ r.addr + i <= w + 3
        BY <3>0, WordBytes
      <3>. HIDE DEF w
      <3>2. Users(s, ids, "data", w) = {}
        <4>. SUFFICES ASSUME NEW k \in Users(s, ids, "data", w)  PROVE FALSE
          OBVIOUS
        <4>0. r.place \in {"text", "data"} /\ k \in Users(s, ids, r.place, w)
          BY <2>1
        <4>1. PICK q \in R : q.place = r.place /\ q.addr = w /\ q.label = ids[k]
                             /\ Pending(s, q) /\ q.label \in ToSet(ids)
          BY <3>1, <4>0, UserIsUse
        <4>2. Apart(r, q)
          BY DEF Laid
        <4>3. ~ (r.addr + 4 <= q.addr) /\ ~ (q.addr + 4 <= r.addr)
          BY <1>1, <3>1, <4>1
        <4>. QED BY <1>6, <2>1, <3>1, <4>1, <4>2, <4>3 DEF Apart
      <3>3. r.addr + i \in DataBytes
        BY <1>1, <1>6, RoomBytes
      <3>. QED BY <1>2, <3>2, <3>3 DEF w
    <2>. QED BY <1>1, <1>6, <2>2, HeldSame DEF t
  <1>. QED BY <1>4, <1>5, <1>6

-----------------------------------------------------------------------------
(***************************************************************************)
(* What the operations do to uses.                                         *)
(***************************************************************************)
SameHeld(s, t, r) == HeldIn(t, r) = HeldIn(s, r)

LEMMA MemorySame ==
  ASSUME NEW s, NEW t, SameMemory(s, t), NEW r  PROVE SameHeld(s, t, r)
  BY DEF SameMemory, SameHeld, HeldIn

\* The words stored stay below the location counters.
LEMMA RoomStays ==
  ASSUME NEW s \in AsmType, NEW t \in AsmType, NEW r \in RefType, Room(s, r),
         s.next_text_pc <= t.next_text_pc, s.next_data_pc <= t.next_data_pc
  PROVE  Room(t, r)
  <1>1. /\ r.addr \in Nat /\ s.next_text_pc \in Nat /\ t.next_text_pc \in Nat
        /\ s.next_data_pc \in Nat /\ t.next_data_pc \in Nat
    BY DEF RefType, AsmType
  <1>. QED BY <1>1 DEF Room

LEMMA LaidStays ==
  ASSUME NEW s \in AsmType, NEW t \in AsmType, NEW R, Laid(s, R),
         DOMAIN s.entry \subseteq DOMAIN t.entry,
         \A id \in DOMAIN s.entry : t.entry[id].uses \subseteq s.entry[id].uses,
         \A id \in DOMAIN t.entry \ DOMAIN s.entry : t.entry[id].uses = {},
         s.next_text_pc <= t.next_text_pc, s.next_data_pc <= t.next_data_pc
  PROVE  Laid(t, R)
  <1>1. ASSUME NEW r \in R  PROVE r.label \in DOMAIN t.entry /\ Room(t, r)
    BY RoomStays DEF Laid
  <1>2. ASSUME NEW id \in DOMAIN t.entry, NEW u \in t.entry[id].uses  PROVE Owned(R, id, u)
    BY <1>2 DEF Laid
  <1>. QED BY <1>1, <1>2 DEF Laid

\* Operations that store nothing and resolve nothing.
QuietLabels(s, t) ==
  /\ DOMAIN s.entry \subseteq DOMAIN t.entry
  /\ \A id \in DOMAIN s.entry :
       /\ t.entry[id].uses = s.entry[id].uses
       /\ t.entry[id].addr = s.entry[id].addr
       /\ s.entry[id].addr = 0 => t.entry[id].const_flag = s.entry[id].const_flag
  /\ \A id \in DOMAIN t.entry \ DOMAIN s.entry : t.entry[id].uses = {}

LEMMA QuietMem ==
  ASSUME NEW s \in AsmType, NEW t \in AsmType, NEW R, NEW D, Mem(s, R, D),
         QuietLabels(s, t), SameMemory(s, t), ToSet(t.line) = ToSet(s.line),
         s.next_text_pc <= t.next_text_pc, s.next_data_pc <= t.next_data_pc
  PROVE  Mem(t, R, D)
  <1>1. Laid(t, R)
    BY LaidStays DEF Mem, QuietLabels
  <1>2. ASSUME NEW r \in R
        PROVE  /\ r.label \in DOMAIN s.entry
               /\ Undefined(t, r.label) <=> Undefined(s, r.label)
               /\ Pending(t, r) <=> Pending(s, r)
               /\ t.entry[r.label].addr = s.entry[r.label].addr
               /\ HeldIn(t, r) = HeldIn(s, r)
    <2>1. r.label \in DOMAIN s.entry
      BY DEF Mem, Laid
    <2>2. HeldIn(t, r) = HeldIn(s, r)
      BY MemorySame DEF SameHeld
    <2>. QED BY <2>1, <2>2 DEF QuietLabels, Undefined, Pending
  <1>3. Awaited(t, R)
    BY <1>2 DEF Mem, Awaited
  <1>4. OnLine(t, R, D)
    BY <1>2 DEF Mem, OnLine
  <1>5. Filled(t, R, D)
    BY <1>2 DEF Mem, Filled
  <1>. QED BY <1>1, <1>3, <1>4, <1>5 DEF Mem

\* Between the labels of a line and its end, a use of one of them holds the
\* address it has.
Settled(s, R, D) ==
  \A r \in R : r.label \in ToSet(s.line) \ D =>
    (Pending(s, r) /\ r.forward) \/ HeldIn(s, r) = s.entry[r.label].addr

LEMMA ClearMem ==
  ASSUME NEW s, Good(s), NEW R, NEW D,
         Laid(s, R), Awaited(s, R), Settled(s, R, D), Filled(s, R, D)
  PROVE  Mem(clear_labels(s), R, D)
  <1>. DEFINE t == clear_labels(s)
  <1>0. s \in AsmType /\ ToSet(s.line) \subseteq DOMAIN s.entry /\ s.line \in Seq(Nat)
    BY LineKnown DEF AsmType
  <1>1. /\ t \in AsmType /\ DOMAIN t.entry = DOMAIN s.entry
        /\ \A id \in DOMAIN s.entry :
             t.entry[id] = IF id \in ToSet(s.line) THEN [s.entry[id] EXCEPT !.uses = {}]
                           ELSE s.entry[id]
        /\ t.line = <<>> /\ SameCounters(s, t)
        /\ t.text = Resolve(s, s.line).text /\ t.data = Resolve(s, s.line).data
    BY <1>0, ClearFields
  <1>2. ASSUME NEW id \in DOMAIN s.entry
        PROVE  /\ t.entry[id].addr = s.entry[id].addr
               /\ t.entry[id].const_flag = s.entry[id].const_flag
               /\ t.entry[id].uses = IF id \in ToSet(s.line) THEN {} ELSE s.entry[id].uses
    <2>1. s.entry[id] \in LabelType
      BY <1>0, LabelTyped
    <2>. HIDE DEF t
    <2>. QED BY <1>1, <2>1 DEF LabelType
  <1>3. ASSUME NEW r \in R
        PROVE  HeldIn(t, r) =
                 IF r.label \in ToSet(s.line) /\ Pending(s, r) /\ r.addr % 4 = 0
                 THEN s.entry[r.label].addr ELSE HeldIn(s, r)
    <2>1. HeldIn(t, r) = HeldIn(Resolve(s, s.line), r)
      <3>. HIDE DEF t
      <3>. QED BY <1>1 DEF HeldIn
    <2>. HIDE DEF t
    <2>. QED BY <1>0, <2>1, ResolveHeld
  <1>. HIDE DEF t
  <1>4. Laid(t, R)
    <2>1. /\ s.next_text_pc <= t.next_text_pc /\ s.next_data_pc <= t.next_data_pc
      BY <1>0, <1>1 DEF SameCounters, AsmType
    <2>. QED BY <1>0, <1>1, <1>2, <2>1, LaidStays
  <1>5. Awaited(t, R)
    <2>. SUFFICES ASSUME NEW r \in R, Undefined(t, r.label)
                  PROVE  Pending(t, r) /\ r.forward
      BY DEF Awaited
    <2>1. r.label \in DOMAIN s.entry
      BY DEF Laid
    <2>2. Undefined(s, r.label)
      BY <1>2, <2>1 DEF Undefined
    <2>3. r.label \notin ToSet(s.line)
      BY <2>2 DEF Good, Lists, Undefined
    <2>. QED BY <1>2, <2>1, <2>2, <2>3 DEF Awaited, Pending
  <1>6. OnLine(t, R, D)
    BY <1>1, SetOfEmpty DEF OnLine
  <1>7. Filled(t, R, D)
    <2>. SUFFICES ASSUME NEW r \in R, t.entry[r.label].addr # 0, r.label \notin D, Patched(r)
                  PROVE  HeldIn(t, r) = t.entry[r.label].addr
      BY DEF Filled
    <2>1. r.label \in DOMAIN s.entry /\ t.entry[r.label].addr = s.entry[r.label].addr
      BY <1>2 DEF Laid
    <2>2. CASE r.label \in ToSet(s.line)
      BY <1>3, <2>1, <2>2 DEF Settled, Patched
    <2>3. CASE r.label \notin ToSet(s.line)
      BY <1>3, <2>1, <2>3 DEF Filled
    <2>. QED BY <2>2, <2>3
  <1>8. Mem(t, R, D)
    BY <1>4, <1>5, <1>6, <1>7 DEF Mem
  <1>. QED BY <1>8 DEF t

LEMMA ClearLineMem ==
  ASSUME NEW s, Good(s), NEW R, NEW D, Mem(s, R, D)
  PROVE  Mem(clear_labels(s), R, D)
  BY ClearMem DEF Mem, OnLine, Settled

\* The labels of the line move: nothing holds their address yet.
LEMMA FixMem ==
  ASSUME NEW s, Good(s), NEW a \in Nat \ {0}, NEW R, NEW D, Mem(s, R, D)
  PROVE  Mem(fix_current_label_address(s, a), R, D)
  <1>. DEFINE t == MovedLine(s, a)
  <1>1. /\ Keeps(s, t) /\ DOMAIN t.entry = DOMAIN s.entry
        /\ \A id \in DOMAIN s.entry :
             t.entry[id] = IF id \in ToSet(s.line) THEN [s.entry[id] EXCEPT !.addr = a]
                           ELSE s.entry[id]
        /\ SameLists(s, t) /\ SameCounters(s, t) /\ SameMemory(s, t)
    BY MovedKeeps
  <1>2. fix_current_label_address(s, a) = clear_labels(t)
    BY FixKeeps
  <1>. HIDE DEF t
  <1>3. Good(t) /\ s \in AsmType /\ t \in AsmType
    BY <1>1 DEF Keeps, Good
  <1>4. ASSUME NEW id \in DOMAIN s.entry
        PROVE  /\ t.entry[id].uses = s.entry[id].uses
               /\ t.entry[id].const_flag = s.entry[id].const_flag
               /\ t.entry[id].addr = IF id \in ToSet(s.line) THEN a ELSE s.entry[id].addr
    <2>1. s.entry[id] \in LabelType
      BY <1>3, LabelTyped
    <2>. QED BY <1>1, <2>1 DEF LabelType
  <1>5. Laid(t, R)
    <2>1. /\ s.next_text_pc <= t.next_text_pc /\ s.next_data_pc <= t.next_data_pc
      BY <1>1, <1>3 DEF SameCounters, AsmType
    <2>. QED BY <1>1, <1>3, <1>4, <2>1, LaidStays DEF Mem
  <1>6. ASSUME NEW r \in R
        PROVE  /\ r.label \in DOMAIN s.entry /\ HeldIn(t, r) = HeldIn(s, r)
               /\ Pending(t, r) <=> Pending(s, r)
               /\ Undefined(t, r.label) => Undefined(s, r.label)
    <2>1. r.label \in DOMAIN s.entry
      BY DEF Mem, Laid
    <2>2. HeldIn(t, r) = HeldIn(s, r)
      BY <1>1, MemorySame DEF SameHeld
    <2>. QED BY <1>4, <2>1, <2>2 DEF Pending, Undefined
  <1>7. Awaited(t, R)
    BY <1>6 DEF Mem, Awaited
  <1>8. OnLine(t, R, D) /\ ToSet(t.line) = ToSet(s.line)
    BY <1>1, <1>6 DEF Mem, OnLine, SameLists
  <1>9. Filled(t, R, D)
    BY <1>4, <1>6, <1>8 DEF Mem, Filled
  <1>10. Mem(t, R, D)
    BY <1>5, <1>7, <1>8, <1>9 DEF Mem
  <1>. QED BY <1>2, <1>3, <1>10, ClearLineMem

\* A label is defined for the first time, or is one of those whose address
\* is open.  Its uses are resolved, or it is put on the line.
Final(s, id, resolve, t, u) ==
  /\ u \in AsmType /\ DOMAIN u.entry = DOMAIN t.entry
  /\ \A i \in DOMAIN t.entry :
       /\ u.entry[i].addr = t.entry[i].addr /\ u.entry[i].uses = t.entry[i].uses
       /\ t.entry[i].const_flag => u.entry[i].const_flag
       /\ i # id => u.entry[i].const_flag = t.entry[i].const_flag
  /\ u.entry[id].addr # 0 \/ u.entry[id].const_flag
  /\ SameMemory(t, u) /\ SameCounters(t, u)
  /\ ToSet(u.line) = IF resolve THEN ToSet(s.line) ELSE {id} \cup ToSet(s.line)

LEMMA RecordMem ==
  ASSUME NEW s, Good(s), NEW R, NEW D, Mem(s, R, D),
         NEW id \in DOMAIN s.entry, id \notin D => Undefined(s, id),
         NEW a \in Nat, NEW resolve \in BOOLEAN,
         NEW t, Recorded(s, id, a, resolve, t),
         NEW u, Final(s, id, resolve, t, u)
  PROVE  Mem(u, R, D)
  <1>. DEFINE p == Placed(s, id, a)
  <1>0. s \in AsmType /\ id \in Nat /\ s.entry[id] \in LabelType
    BY LabelTyped DEF Good
  <1>1. /\ p \in AsmType /\ DOMAIN p.entry = DOMAIN s.entry
        /\ \A i \in DOMAIN s.entry :
             p.entry[i] = IF i = id THEN [s.entry[id] EXCEPT !.addr = AddressGiven(s, id, a)]
                          ELSE s.entry[i]
        /\ SameLists(s, p) /\ SameCounters(s, p) /\ SameMemory(s, p)
    BY <1>0, PlacedFields DEF AddressGiven
  <1>. HIDE DEF p
  <1>2. /\ DOMAIN t.entry = DOMAIN s.entry
        /\ \A i \in DOMAIN s.entry \ {id} : t.entry[i] = s.entry[i]
        /\ t.entry[id].uses = IF resolve THEN {} ELSE s.entry[id].uses
        /\ t.entry[id].addr = AddressGiven(s, id, a)
        /\ SameCounters(s, t)
        /\ SameMemory(IF resolve THEN Resolve(p, <<id>>) ELSE p, t)
    <2>1. /\ DOMAIN t.entry = DOMAIN s.entry
          /\ \A i \in DOMAIN s.entry \ {id} : t.entry[i] = s.entry[i]
          /\ SameCounters(s, t)
      BY DEF Recorded
    <2>2. SameMemory(IF resolve THEN Resolve(p, <<id>>) ELSE p, t)
      BY DEF Recorded, p
    <2>. DEFINE uses == IF resolve THEN {} ELSE s.entry[id].uses
                x == AddressGiven(s, id, a)
    <2>3. t.entry[id] = [s.entry[id] EXCEPT !.addr = x, !.uses = uses]
      BY DEF Recorded
    <2>. HIDE DEF uses, x
    <2>4. t.entry[id].uses = uses /\ t.entry[id].addr = x
      BY <1>0, <2>3 DEF LabelType
    <2>. QED BY <2>1, <2>2, <2>4 DEF uses, x
  <1>3. \A i \in DOMAIN s.entry : p.entry[i].uses = s.entry[i].uses
    <2>1. [s.entry[id] EXCEPT !.addr = AddressGiven(s, id, a)].uses = s.entry[id].uses
      BY <1>0 DEF LabelType
    <2>. QED BY <1>1, <2>1
  <1>4. p.entry[id].addr = AddressGiven(s, id, a)
    <2>1. [s.entry[id] EXCEPT !.addr = AddressGiven(s, id, a)].addr = AddressGiven(s, id, a)
      BY <1>0 DEF LabelType
    <2>. QED BY <1>1, <2>1
  <1>5. /\ DOMAIN u.entry = DOMAIN s.entry
        /\ \A i \in DOMAIN s.entry \ {id} :
             /\ u.entry[i].addr = s.entry[i].addr /\ u.entry[i].uses = s.entry[i].uses
             /\ u.entry[i].const_flag = s.entry[i].const_flag
        /\ u.entry[id].uses = IF resolve THEN {} ELSE s.entry[id].uses
        /\ u.entry[id].addr = AddressGiven(s, id, a)
    BY <1>2 DEF Final
  <1>6. ~Undefined(u, id)
    BY DEF Final, Undefined
  <1>7. Laid(p, R) /\ Laid(u, R)
    <2>1. /\ s.next_text_pc = p.next_text_pc /\ s.next_data_pc = p.next_data_pc
          /\ s.next_text_pc = u.next_text_pc /\ s.next_data_pc = u.next_data_pc
      BY <1>1, <1>2 DEF SameCounters, Final
    <2>2. /\ s.next_text_pc <= p.next_text_pc /\ s.next_data_pc <= p.next_data_pc
          /\ s.next_text_pc <= u.next_text_pc /\ s.next_data_pc <= u.next_data_pc
      BY <1>0, <2>1 DEF AsmType
    <2>3. Laid(s, R) /\ u \in AsmType
      BY DEF Mem, Final
    <2>4. \A i \in DOMAIN s.entry : u.entry[i].uses \subseteq s.entry[i].uses
      BY <1>5
    <2>5. Laid(p, R)
      BY <1>0, <1>1, <1>3, <2>2, <2>3, LaidStays
    <2>6. Laid(u, R)
      BY <1>0, <1>5, <2>2, <2>3, <2>4, LaidStays
    <2>. QED BY <2>5, <2>6
  <1>8. ASSUME NEW r \in R
        PROVE  /\ r.label \in DOMAIN s.entry
               /\ HeldIn(u, r) = IF resolve /\ r.label = id /\ Pending(s, r) /\ r.addr % 4 = 0
                                 THEN AddressGiven(s, id, a) ELSE HeldIn(s, r)
    <2>1. r.label \in DOMAIN s.entry
      BY DEF Mem, Laid
    <2>2. HeldIn(u, r) = HeldIn(t, r) /\ HeldIn(p, r) = HeldIn(s, r)
      BY <1>1, MemorySame DEF SameHeld, Final
    <2>3. CASE resolve
      <3>. DEFINE ids == <<id>>
      <3>1. HeldIn(t, r) = HeldIn(Resolve(p, ids), r)
        BY <1>2, <2>3, MemorySame DEF SameHeld
      <3>2. ids \in Seq(Nat) /\ ToSet(ids) = {id}
        BY <1>0 DEF ToSet
      <3>. HIDE DEF ids
      <3>3. HeldIn(Resolve(p, ids), r) =
              IF r.label \in ToSet(ids) /\ Pending(p, r) /\ r.addr % 4 = 0
              THEN p.entry[r.label].addr ELSE HeldIn(p, r)
        <4>1. ToSet(ids) \subseteq DOMAIN p.entry
          BY <1>1, <3>2
        <4>. QED BY <1>1, <1>7, <3>2, <4>1, ResolveHeld
      <3>4. Pending(p, r) <=> Pending(s, r)
        BY <1>3, <2>1 DEF Pending
      <3>. QED BY <1>4, <2>1, <2>2, <2>3, <3>1, <3>2, <3>3, <3>4
    <2>4. CASE ~resolve
      <3>1. HeldIn(t, r) = HeldIn(p, r)
        BY <1>2, <2>4, MemorySame DEF SameHeld
      <3>. QED BY <2>1, <2>2, <2>4, <3>1
    <2>. QED BY <2>3, <2>4
  <1>9. id \in ToSet(s.line) => id \in D
    BY DEF Good, Lists, Undefined
  <1>10. Awaited(u, R)
    <2>. SUFFICES ASSUME NEW r \in R, Undefined(u, r.label)
                  PROVE  Pending(u, r) /\ r.forward
      BY DEF Awaited
    <2>1. r.label # id /\ r.label \in DOMAIN s.entry
      BY <1>6, <1>8
    <2>. QED BY <1>5, <2>1 DEF Mem, Awaited, Undefined, Pending
  <1>11. OnLine(u, R, D)
    <2>. SUFFICES ASSUME NEW r \in R, r.label \in ToSet(u.line), r.label \notin D
                  PROVE  Pending(u, r) /\ r.forward
      BY DEF OnLine
    <2>1. CASE r.label = id
      <3>1. ~resolve
        BY <1>9, <2>1 DEF Final
      <3>. QED BY <1>5, <2>1, <3>1 DEF Mem, Awaited, Pending
    <2>2. CASE r.label # id
      <3>1. r.label \in ToSet(s.line) /\ r.label \in DOMAIN s.entry
        BY <1>8, <2>2 DEF Final
      <3>. QED BY <1>5, <2>2, <3>1 DEF Mem, OnLine, Pending
    <2>. QED BY <2>1, <2>2
  <1>12. Filled(u, R, D)
    <2>. SUFFICES ASSUME NEW r \in R, u.entry[r.label].addr # 0, r.label \notin ToSet(u.line),
                         r.label \notin D, Patched(r)
                  PROVE  HeldIn(u, r) = u.entry[r.label].addr
      BY DEF Filled
    <2>1. CASE r.label = id
      <3>1. resolve
        BY <2>1 DEF Final
      <3>2. Pending(s, r) /\ r.forward
        BY <2>1 DEF Mem, Awaited
      <3>3. r.addr % 4 = 0
        BY <3>2 DEF Patched
      <3>. QED BY <1>5, <1>8, <2>1, <3>1, <3>2, <3>3
    <2>2. CASE r.label # id
      <3>1. r.label \in DOMAIN s.entry /\ r.label \notin ToSet(s.line)
        BY <1>8 DEF Final
      <3>2. u.entry[r.label].addr = s.entry[r.label].addr
        BY <1>5, <2>2, <3>1
      <3>. QED BY <1>8, <2>2, <3>1, <3>2 DEF Mem, Filled
    <2>. QED BY <2>1, <2>2
  <1>. QED BY <1>7, <1>10, <1>11, <1>12 DEF Mem

\* Counters move, and labels become global or constant.
LEMMA EntriesMem ==
  ASSUME NEW s \in AsmType, NEW t \in AsmType, NEW R, NEW D, Mem(s, R, D),
         t.entry = s.entry, SameMemory(s, t), ToSet(t.line) = ToSet(s.line),
         s.next_text_pc <= t.next_text_pc, s.next_data_pc <= t.next_data_pc
  PROVE  Mem(t, R, D)
  <1>1. QuietLabels(s, t)
    BY DEF QuietLabels
  <1>. QED BY <1>1, QuietMem

LEMMA LabelMem ==
  ASSUME NEW s \in AsmType, NEW id \in DOMAIN s.entry, NEW new \in LabelType, NEW R, NEW D,
         Mem(s, R, D), new.uses = s.entry[id].uses, new.addr = s.entry[id].addr,
         s.entry[id].addr = 0 => new.const_flag = s.entry[id].const_flag
  PROVE  Mem([s EXCEPT !.entry[id] = new], R, D)
  <1>. DEFINE t == [s EXCEPT !.entry[id] = new]
  <1>1. /\ t \in AsmType /\ DOMAIN t.entry = DOMAIN s.entry
        /\ \A i \in DOMAIN s.entry : t.entry[i] = IF i = id THEN new ELSE s.entry[i]
        /\ SameLists(s, t) /\ SameCounters(s, t) /\ SameMemory(s, t)
    BY EntryChanged
  <1>. HIDE DEF t
  <1>2. QuietLabels(s, t)
    BY <1>1 DEF QuietLabels
  <1>3. /\ ToSet(t.line) = ToSet(s.line)
        /\ s.next_text_pc <= t.next_text_pc /\ s.next_data_pc <= t.next_data_pc
    BY <1>1 DEF SameLists, SameCounters, AsmType
  <1>4. Mem(t, R, D)
    BY <1>1, <1>2, <1>3, QuietMem
  <1>. QED BY <1>4 DEF t

LEMMA LookupMem ==
  ASSUME NEW s, Good(s), NEW n \in Names, NEW R, NEW D, Mem(s, R, D)
  PROVE  Mem(lookup_label(s, n), R, D)
  <1>. DEFINE t == lookup_label(s, n)
  <1>1. /\ Keeps(s, t) /\ t.line = s.line /\ SameCounters(s, t) /\ SameMemory(s, t)
        /\ \A id \in DOMAIN s.entry : id \in DOMAIN t.entry /\ t.entry[id] = s.entry[id]
        /\ s.table[n] # 0 => t = s
        /\ s.table[n] = 0 => DOMAIN t.entry = DOMAIN s.entry \cup {t.table[n]}
                             /\ t.entry[t.table[n]] = NewLabel(n)
    BY LookupKeeps
  <1>. HIDE DEF t
  <1>2. s \in AsmType /\ t \in AsmType
    BY <1>1 DEF Good, Keeps
  <1>3. NewLabel(n).uses = {}
    BY DEF NewLabel
  <1>4. QuietLabels(s, t)
    BY <1>1, <1>3 DEF QuietLabels
  <1>5. s.next_text_pc <= t.next_text_pc /\ s.next_data_pc <= t.next_data_pc
    BY <1>1, <1>2 DEF SameCounters, AsmType
  <1>6. Mem(t, R, D)
    BY <1>1, <1>2, <1>4, <1>5, QuietMem
  <1>. QED BY <1>6 DEF t

\* It may be open which address a label has.
Open(s, id, D) == id \notin D => Undefined(s, id)

LEMMA MoreDisputed ==
  ASSUME NEW s, NEW R, NEW D, NEW E, D \subseteq E, Mem(s, R, D)
  PROVE  Mem(s, R, E)
  BY DEF Mem, OnLine, Filled

LEMMA RecordLabelMem ==
  ASSUME NEW s0, Good(s0), NEW R, NEW D, Mem(s0, R, D), NEW n \in Names, NEW a \in Nat \ {0},
         Open(lookup_label(s0, n), lookup_label(s0, n).table[n], D)
  PROVE  Mem(record_label(s0, n, a, TRUE), R, D)
  <1>. DEFINE s == lookup_label(s0, n)
              id == s.table[n]
              t == record_label(s0, n, a, TRUE)
              r == record_label(s, n, a, TRUE)
  <1>1. Good(s) /\ id \in DOMAIN s.entry /\ s.entry[id].name = n
    BY LookupKeeps DEF Keeps
  <1>2. Mem(s, R, D)
    BY LookupMem
  <1>3. t = IF Twice(s, n) THEN clear_labels(s) ELSE r
    BY RecordLooked
  <1>. HIDE DEF s, t
  <1>4. CASE Twice(s, n)
    <2>1. Mem(clear_labels(s), R, D)
      BY <1>1, <1>2, ClearLineMem
    <2>. QED BY <1>3, <1>4, <2>1 DEF t
  <1>5. CASE ~Twice(s, n)
    <2>1. Recorded(s, id, a, TRUE, r)
      BY <1>1, <1>5, RecordFields DEF Good
    <2>2. r.entry[id].addr # 0
      BY <1>1, <1>5, FirstKeeps
    <2>. HIDE DEF r
    <2>3. Final(s, id, TRUE, r, r)
      BY <2>1, <2>2 DEF Recorded, Final, SameMemory, SameCounters
    <2>4. id \notin D => Undefined(s, id)
      BY DEF Open, s
    <2>. HIDE DEF id
    <2>5. Mem(r, R, D)
      BY <1>1, <1>2, <2>1, <2>3, <2>4, RecordMem
    <2>. QED BY <1>3, <1>5, <2>5 DEF t
  <1>. QED BY <1>4, <1>5

LEMMA ConstantMem ==
  ASSUME NEW s0, Good(s0), NEW R, NEW D, Mem(s0, R, D), NEW n \in Names, NEW a \in Nat,
         Open(lookup_label(s0, n), lookup_label(s0, n).table[n], D)
  PROVE  Mem(ConstantOf(s0, n, a), R, D)
  <1>. DEFINE s == lookup_label(s0, n)
              id == s.table[n]
              t == record_label(s0, n, a, TRUE)
              r == record_label(s, n, a, TRUE)
  <1>1. Good(s) /\ id \in DOMAIN s.entry /\ s.entry[id].name = n
    BY LookupKeeps DEF Keeps
  <1>2. Mem(s, R, D)
    BY LookupMem
  <1>3. t = IF Twice(s, n) THEN clear_labels(s) ELSE r
    BY RecordLooked
  <1>4. ConstantOf(s0, n, a) = [t EXCEPT !.entry[t.table[n]].const_flag = TRUE]
    BY DEF ConstantOf
  <1>. HIDE DEF s, t
  <1>5. CASE Twice(s, n)
    <2>. DEFINE c == clear_labels(s)
    <2>1. Mem(c, R, D) /\ Good(c)
      BY <1>1, <1>2, ClearLineMem, ClearKeeps DEF Keeps
    <2>2. /\ c \in AsmType /\ DOMAIN c.entry = DOMAIN s.entry /\ c.table = s.table
          /\ c.entry[id].addr = s.entry[id].addr
      BY <1>1, LineKnown, ClearFields, ClearedAddresses
    <2>3. s.entry[id].addr # 0
      BY <1>5 DEF Twice
    <2>4. c.entry[id] \in LabelType
      BY <1>1, <2>2, LabelTyped
    <2>. HIDE DEF c
    <2>. DEFINE new == [c.entry[id] EXCEPT !.const_flag = TRUE]
    <2>5. new \in LabelType /\ new.uses = c.entry[id].uses /\ new.addr = c.entry[id].addr
      BY <2>4 DEF LabelType
    <2>. HIDE DEF new
    <2>6. Mem([c EXCEPT !.entry[id] = new], R, D)
      BY <1>1, <2>1, <2>2, <2>3, <2>5, LabelMem
    <2>7. ConstantOf(s0, n, a) = [c EXCEPT !.entry[id] = new]
      BY <1>3, <1>4, <1>5, <2>2 DEF c, new
    <2>. QED BY <2>6, <2>7
  <1>6. CASE ~Twice(s, n)
    <2>1. Recorded(s, id, a, TRUE, r)
      BY <1>1, <1>6, RecordFields DEF Good
    <2>. HIDE DEF r
    <2>2. /\ r \in AsmType /\ DOMAIN r.entry = DOMAIN s.entry /\ r.table = s.table
          /\ r.line = s.line
      BY <2>1 DEF Recorded
    <2>3. r.entry[id] \in LabelType
      BY <1>1, <2>2, LabelTyped
    <2>. DEFINE new == [r.entry[id] EXCEPT !.const_flag = TRUE]
                u == [r EXCEPT !.entry[id] = new]
    <2>4. /\ new \in LabelType /\ new.uses = r.entry[id].uses /\ new.addr = r.entry[id].addr
          /\ new.const_flag = TRUE
      BY <2>3 DEF LabelType
    <2>5. ConstantOf(s0, n, a) = u
      BY <1>3, <1>4, <1>6, <2>2
    <2>. HIDE DEF new, id
    <2>6. /\ u \in AsmType /\ DOMAIN u.entry = DOMAIN r.entry
          /\ \A i \in DOMAIN r.entry : u.entry[i] = IF i = id THEN new ELSE r.entry[i]
          /\ SameLists(r, u) /\ SameCounters(r, u) /\ SameMemory(r, u)
      BY <1>1, <2>2, <2>4, EntryChanged
    <2>. HIDE DEF u
    <2>7. Final(s, id, TRUE, r, u)
      BY <1>1, <2>2, <2>4, <2>6 DEF Final, SameLists
    <2>8. id \notin D => Undefined(s, id)
      BY DEF Open, s, id
    <2>9. Mem(u, R, D)
      BY <1>1, <1>2, <2>1, <2>7, <2>8, RecordMem
    <2>. QED BY <2>5, <2>9
  <1>. QED BY <1>5, <1>6

\* n:   The label waits on the line.
LEMMA DefineMem ==
  ASSUME NEW s0, Good(s0), NEW R, NEW D, Mem(s0, R, D), NEW n \in Names, NEW a \in Nat \ {0},
         Open(lookup_label(s0, n), lookup_label(s0, n).table[n], D)
  PROVE  LET t == record_label(s0, n, a, FALSE)
         IN Mem([t EXCEPT !.line = <<t.table[n]>> \o @], R, D)
  <1>. DEFINE s == lookup_label(s0, n)
              id == s.table[n]
              t == record_label(s0, n, a, FALSE)
              r == record_label(s, n, a, FALSE)
              u == [t EXCEPT !.line = <<t.table[n]>> \o @]
  <1>1. Good(s) /\ id \in DOMAIN s.entry /\ s.entry[id].name = n /\ Tabled(s, id)
    BY LookupKeeps DEF Keeps
  <1>2. Mem(s, R, D)
    BY LookupMem
  <1>3. t = IF Twice(s, n) THEN clear_labels(s) ELSE r
    BY RecordLooked
  <1>4. Good(t) /\ RecordedLabel(s0, n, t) /\ t.entry[t.table[n]].addr # 0
    BY RecordKeeps DEF Keeps
  <1>5. t.table = s.table /\ t.entry[id].name = n
    BY <1>4 DEF RecordedLabel
  <1>. HIDE DEF s, t, u
  <1>6. /\ Keeps(t, u) /\ u.entry = t.entry /\ u.table = t.table
        /\ ToSet(u.line) = {id} \cup ToSet(t.line) /\ SameCounters(t, u) /\ SameMemory(t, u)
    <2>1. t.table[n] = id /\ id \in DOMAIN t.entry /\ t.entry[id].addr # 0
      BY <1>4, <1>5 DEF RecordedLabel
    <2>2. Tabled(t, id)
      BY <1>5, <2>1 DEF Tabled
    <2>. DEFINE v == [t EXCEPT !.line = <<id>> \o @]
    <2>. HIDE DEF id
    <2>3. /\ Keeps(t, v) /\ v.entry = t.entry /\ v.table = t.table
          /\ ToSet(v.line) = {id} \cup ToSet(t.line) /\ SameCounters(t, v) /\ SameMemory(t, v)
      BY <1>4, <2>1, <2>2, LabelOnLine
    <2>4. u = v
      BY <2>1 DEF u
    <2>. HIDE DEF v
    <2>. QED BY <2>3, <2>4
  <1>7. u \in AsmType /\ t \in AsmType
    BY <1>4, <1>6 DEF Keeps, Good
  <1>8. Open(s, id, D)
    BY DEF s
  <1>. HIDE DEF id
  <1>9. CASE Twice(s, n)
    <2>1. Mem(t, R, D) /\ t.line = <<>>
      BY <1>1, <1>2, <1>3, <1>9, ClearLineMem, LineKnown, ClearFields
    <2>2. id \in D
      BY <1>8, <1>9 DEF Twice, Open, Undefined, id
    <2>3. Laid(u, R)
      <3>1. t.next_text_pc <= u.next_text_pc /\ t.next_data_pc <= u.next_data_pc
        BY <1>6, <1>7 DEF SameCounters, AsmType
      <3>. QED BY <1>6, <1>7, <2>1, <3>1, LaidStays DEF Mem
    <2>4. \A q \in R : HeldIn(u, q) = HeldIn(t, q)
      BY <1>6, MemorySame DEF SameHeld
    <2>5. Awaited(u, R) /\ OnLine(u, R, D) /\ Filled(u, R, D)
      BY <1>6, <2>1, <2>2, <2>4 DEF Mem, Awaited, OnLine, Filled, Pending, Undefined
    <2>6. Mem(u, R, D)
      BY <2>3, <2>5 DEF Mem
    <2>. QED BY <2>6 DEF u, t
  <1>10. CASE ~Twice(s, n)
    <2>1. Recorded(s, id, a, FALSE, r)
      BY <1>1, <1>10, RecordFields DEF Good, id
    <2>2. t = r
      BY <1>3, <1>10
    <2>. HIDE DEF r
    <2>3. /\ ToSet(r.line) = ToSet(s.line) /\ u.entry[id].addr # 0
      BY <1>4, <1>5, <1>6, <2>1, <2>2 DEF Recorded, id
    <2>4. Final(s, id, FALSE, r, u)
      BY <1>6, <1>7, <2>2, <2>3 DEF Final
    <2>5. Mem(u, R, D)
      BY <1>1, <1>2, <1>8, <2>1, <2>4, RecordMem DEF Open, id
    <2>. QED BY <2>5 DEF u, t
  <1>. QED BY <1>9, <1>10

LEMMA GlobalMem ==
  ASSUME NEW s0, Good(s0), NEW R, NEW D, Mem(s0, R, D), NEW n \in Names
  PROVE  Mem(make_label_global(s0, n), R, D)
  <1>. DEFINE s == lookup_label(s0, n)
              id == s.table[n]
              new == [s.entry[id] EXCEPT !.global_flag = TRUE]
  <1>1. s \in AsmType /\ id \in DOMAIN s.entry
    BY LookupKeeps DEF Keeps, Good
  <1>2. Mem(s, R, D)
    BY LookupMem
  <1>3. make_label_global(s0, n) = [s EXCEPT !.entry[id] = new]
    BY DEF make_label_global
  <1>. HIDE DEF s, id
  <1>4. s.entry[id] \in LabelType
    BY <1>1, LabelTyped
  <1>5. /\ new \in LabelType /\ new.uses = s.entry[id].uses /\ new.addr = s.entry[id].addr
        /\ new.const_flag = s.entry[id].const_flag
    BY <1>4 DEF LabelType
  <1>. HIDE DEF new
  <1>. QED BY <1>1, <1>2, <1>3, <1>5, LabelMem

\* A label that is not disputed is made one of the small data only if nothing
\* uses it.
LEMMA SmallDataMem ==
  ASSUME NEW s, Good(s), NEW R, NEW D, Mem(s, R, D), NEW id \in DOMAIN s.entry,
         NEW a \in Nat \ {0}, NEW size \in Sizes,
         id \notin D => a = s.entry[id].addr \/ (Undefined(s, id) /\ s.entry[id].uses = {})
  PROVE  Mem(SmallData(s, id, a, size), R, D)
  <1>. DEFINE new == [s.entry[id] EXCEPT !.gp_flag = TRUE, !.addr = a]
              t == [s EXCEPT !.entry[id] = new]
              u == SmallData(s, id, a, size)
  <1>1. s \in AsmType /\ s.entry[id] \in LabelType
    BY LabelTyped DEF Good
  <1>2. /\ new \in LabelType /\ new.addr = a
        /\ new.const_flag = s.entry[id].const_flag /\ new.uses = s.entry[id].uses
    BY <1>1 DEF LabelType
  <1>3. u = [t EXCEPT !.next_gp_item_addr = @ + size]
    <2>1. u = [s EXCEPT !.entry[id] = new, !.next_gp_item_addr = @ + size]
      BY DEF SmallData
    <2>. HIDE DEF new
    <2>. QED BY <1>1, <2>1 DEF AsmType
  <1>. HIDE DEF new
  <1>4. /\ t \in AsmType /\ DOMAIN t.entry = DOMAIN s.entry
        /\ \A i \in DOMAIN s.entry : t.entry[i] = IF i = id THEN new ELSE s.entry[i]
        /\ SameLists(s, t) /\ SameCounters(s, t) /\ SameMemory(s, t)
    BY <1>1, <1>2, EntryChanged
  <1>. HIDE DEF t, u
  <1>5. /\ u.entry = t.entry /\ u.line = t.line /\ u.text = t.text /\ u.data = t.data
        /\ u.next_text_pc = t.next_text_pc /\ u.next_data_pc = t.next_data_pc
    BY <1>3, <1>4 DEF AsmType
  <1>6. u \in AsmType
    <2>1. s.next_gp_item_addr \in Nat /\ size \in Nat
      BY <1>1, SizesTyped DEF AsmType
    <2>2. t.next_gp_item_addr + size \in Nat
      BY <1>4, <2>1 DEF SameCounters
    <2>. QED BY <1>3, <1>4, <2>2 DEF AsmType
  <1>7. /\ DOMAIN u.entry = DOMAIN s.entry
        /\ \A i \in DOMAIN s.entry :
             /\ u.entry[i].uses = s.entry[i].uses
             /\ u.entry[i].const_flag = s.entry[i].const_flag
             /\ u.entry[i].addr = IF i = id THEN a ELSE s.entry[i].addr
        /\ u.line = s.line /\ SameMemory(s, u)
    BY <1>2, <1>4, <1>5 DEF SameLists, SameMemory
  <1>8. Laid(u, R)
    <2>1. s.next_text_pc <= u.next_text_pc /\ s.next_data_pc <= u.next_data_pc
      BY <1>1, <1>4, <1>5 DEF SameCounters, AsmType
    <2>. QED BY <1>1, <1>6, <1>7, <2>1, LaidStays DEF Mem
  <1>9. ASSUME NEW r \in R
        PROVE  /\ r.label \in DOMAIN s.entry /\ HeldIn(u, r) = HeldIn(s, r)
               /\ Pending(u, r) <=> Pending(s, r)
               /\ r.label = id /\ id \notin D => a = s.entry[id].addr
    <2>1. r.label \in DOMAIN s.entry
      BY DEF Mem, Laid
    <2>2. HeldIn(u, r) = HeldIn(s, r)
      BY <1>7, MemorySame DEF SameHeld
    <2>3. ASSUME r.label = id, Undefined(s, id), s.entry[id].uses = {}  PROVE FALSE
      BY <2>3 DEF Mem, Awaited, Pending
    <2>. QED BY <1>7, <2>1, <2>2, <2>3 DEF Pending
  <1>10. Awaited(u, R)
    BY <1>7, <1>9 DEF Mem, Awaited, Undefined
  <1>11. OnLine(u, R, D)
    BY <1>7, <1>9 DEF Mem, OnLine
  <1>12. Filled(u, R, D)
    <2>. SUFFICES ASSUME NEW r \in R, u.entry[r.label].addr # 0, r.label \notin ToSet(s.line),
                         r.label \notin D, Patched(r)
                  PROVE  HeldIn(u, r) = u.entry[r.label].addr
      BY <1>7 DEF Filled
    <2>1. u.entry[r.label].addr = s.entry[r.label].addr
      BY <1>7, <1>9
    <2>. QED BY <1>9, <2>1 DEF Mem, Filled
  <1>13. Mem(u, R, D)
    BY <1>8, <1>10, <1>11, <1>12 DEF Mem
  <1>. QED BY <1>13 DEF u

LEMMA DataMem ==
  ASSUME NEW s, Good(s), NEW R, NEW D, Mem(s, R, D), NEW a \in Nat, a >= s.next_data_pc
  PROVE  Mem([s EXCEPT !.next_data_pc = a], R, D)
  <1>. DEFINE t == [s EXCEPT !.next_data_pc = a]
  <1>1. /\ Keeps(s, t) /\ t.entry = s.entry /\ SameLists(s, t) /\ SameMemory(s, t)
        /\ t.next_data_pc = a /\ t.next_text_pc = s.next_text_pc
    BY DataMoves
  <1>. HIDE DEF t
  <1>2. s \in AsmType /\ t \in AsmType
    BY <1>1 DEF Keeps, Good
  <1>3. /\ ToSet(t.line) = ToSet(s.line)
        /\ s.next_text_pc <= t.next_text_pc /\ s.next_data_pc <= t.next_data_pc
    BY <1>1, <1>2 DEF SameLists, AsmType
  <1>4. Mem(t, R, D)
    BY <1>1, <1>2, <1>3, EntriesMem
  <1>. QED BY <1>4 DEF t

LEMMA AlignMem ==
  ASSUME NEW s, Good(s), NEW R, NEW D, Mem(s, R, D), NEW k \in 0 .. 3
  PROVE  Mem(align_data(s, k), R, D)
  <1>. DEFINE pc == AlignUp(s.next_data_pc, k)
              u  == [s EXCEPT !.next_data_pc = pc]
  <1>1. pc \in Nat /\ pc >= s.next_data_pc /\ pc # 0
    BY CountersTyped, AlignedUp
  <1>2. align_data(s, k) = fix_current_label_address(u, pc)
    BY DEF align_data
  <1>. HIDE DEF pc
  <1>3. Good(u) /\ Mem(u, R, D)
    BY <1>1, DataMoves, DataMem DEF Keeps
  <1>. HIDE DEF u
  <1>. QED BY <1>1, <1>2, <1>3, FixMem

LEMMA LcommMem ==
  ASSUME NEW s, Good(s), NEW R, NEW D, Mem(s, R, D), NEW n \in Names, NEW size \in Sizes,
         Open(lookup_label(s, n), lookup_label(s, n).table[n], D)
  PROVE  Mem(LcommOf(s, n, size), R, D)
  <1>1. s.next_gp_item_addr \in Nat \ {0} /\ s.next_data_pc \in Nat \ {0} /\ size \in Nat
    BY CountersTyped, SizesTyped
  <1>2. CASE FitsGp(s, size)
    <2>. DEFINE gp == record_label(s, n, s.next_gp_item_addr, TRUE)
                id == gp.table[n]
                a  == gp.entry[id].addr
    <2>1. /\ Keeps(s, gp) /\ id \in DOMAIN gp.entry /\ a \in Nat \ {0}
          /\ LcommOf(s, n, size) = SmallData(gp, id, a, size)
      BY <1>2, LcommSmall
    <2>2. Mem(gp, R, D)
      BY <1>1, RecordLabelMem
    <2>. HIDE DEF gp, id
    <2>3. Good(gp)
      BY <2>1 DEF Keeps
    <2>4. Mem(SmallData(gp, id, a, size), R, D)
      BY <2>1, <2>2, <2>3, SmallDataMem
    <2>. QED BY <2>1, <2>4
  <1>3. CASE ~FitsGp(s, size)
    <2>. DEFINE r == record_label(s, n, s.next_data_pc, TRUE)
                a == r.next_data_pc + size
    <2>1. Good(r) /\ Mem(r, R, D)
      BY <1>1, RecordKeeps, RecordLabelMem DEF Keeps
    <2>2. LcommOf(s, n, size) = [r EXCEPT !.next_data_pc = a]
      BY <1>3 DEF LcommOf
    <2>. HIDE DEF r
    <2>3. a \in Nat /\ a >= r.next_data_pc
      BY <1>1, <2>1, CountersTyped
    <2>. HIDE DEF a
    <2>. QED BY <2>1, <2>2, <2>3, DataMem
  <1>. QED BY <1>2, <1>3

LEMMA FlushMem ==
  ASSUME NEW s, Good(s), s.line = <<>>, NEW R, NEW D, Mem(s, R, D)
  PROVE  Mem(flush_local_labels(s), R, D)
  <1>. DEFINE t == flush_local_labels(s)
  <1>1. /\ Keeps(s, t) /\ t.entry = s.entry /\ t.line = <<>> /\ SameCounters(s, t)
        /\ SameMemory(s, t)
    BY FlushKeeps
  <1>. HIDE DEF t
  <1>2. s \in AsmType /\ t \in AsmType
    BY <1>1 DEF Keeps, Good
  <1>3. s.next_text_pc <= t.next_text_pc /\ s.next_data_pc <= t.next_data_pc
    BY <1>1, <1>2 DEF SameCounters, AsmType
  <1>4. Mem(t, R, D)
    BY <1>1, <1>2, <1>3, EntriesMem
  <1>. QED BY <1>4 DEF t

-----------------------------------------------------------------------------
(***************************************************************************)
(* A word or an instruction is assembled: it becomes a use.                *)
(***************************************************************************)
\* The uses after s0, where n is used.
Referred(s0, R, new) ==
  IF text_dir /\ s0.next_text_pc % 4 # 0 THEN R ELSE R \cup {new}

LEMMA AssemblyMem ==
  ASSUME NEW s0, Good(s0), NEW R, NEW D, Mem(s0, R, D), NEW n \in Names,
         NEW new \in RefType, new.place = (IF text_dir THEN "text" ELSE "data"),
         new.addr = Here(s0), new.label = lookup_label(s0, n).table[n],
         NEW t, t = Assembly(Looked(s0, n, Use(new.place, new.addr)), n), Fits(t),
         Undefined(t, new.label) => new.forward
  PROVE  LET Q == Referred(s0, R, new)
         IN Laid(t, Q) /\ Awaited(t, Q) /\ Settled(t, Q, D) /\ Filled(t, Q, D)
  <1>. DEFINE Q == Referred(s0, R, new)
              u == Use(new.place, new.addr)
              w == Looked(s0, n, u)
              l == lookup_label(s0, n)
              id == l.table[n]
              v == w.entry[id].addr
              stored == ~ (text_dir /\ s0.next_text_pc % 4 # 0)
  <1>1. /\ u \in [place : {"text", "data"}, addr : Nat] /\ Reached(s0, u)
        /\ u.place = new.place /\ u.addr = new.addr
    <2>1. u \in [place : {"text", "data"}, addr : Nat] /\ u.place = new.place /\ u.addr = new.addr
      BY DEF Use, RefType
    <2>. HIDE DEF u
    <2>2. Reached(s0, u)
      BY <2>1, CountersTyped, Places DEF Reached, Here
    <2>. QED BY <2>1, <2>2
  <1>2. UsedLabel(s0, n, u, w)
    BY <1>1, UseKeeps
  <1>3. /\ \A i \in DOMAIN s0.entry : i \in DOMAIN l.entry /\ l.entry[i] = s0.entry[i]
        /\ s0.table[n] # 0 => l = s0
        /\ s0.table[n] = 0 => DOMAIN l.entry = DOMAIN s0.entry \cup {id}
                              /\ l.entry[id] = NewLabel(n)
    BY LookupKeeps
  <1>4. t = IF text_dir THEN set_mem_inst(w, v) ELSE store_word(w, v)
    <2>1. w.table = l.table
      BY <1>2 DEF UsedLabel
    <2>. HIDE DEF w, l
    <2>. QED BY <2>1 DEF Assembly, w
  <1>5. /\ w.table[n] = id /\ id \in DOMAIN w.entry /\ v \in Nat /\ Good(w)
        /\ DOMAIN w.entry = DOMAIN l.entry
        /\ v = 0 => u \in w.entry[id].uses
        /\ \A i \in DOMAIN w.entry :
             w.entry[i].uses \subseteq l.entry[i].uses \cup (IF i = id /\ v = 0 THEN {u} ELSE {})
        /\ \A i \in DOMAIN s0.entry : s0.entry[i].uses \subseteq w.entry[i].uses
        /\ SameAddresses(s0, w)
        /\ w.line = s0.line /\ SameCounters(s0, w) /\ SameMemory(s0, w)
    <2>1. w.table = l.table
      BY <1>2 DEF UsedLabel
    <2>. HIDE DEF w
    <2>2. Good(w)
      BY <1>2 DEF UsedLabel, Keeps
    <2>. QED BY <1>2, <2>1, <2>2 DEF UsedLabel
  <1>. HIDE DEF w, l, v, u
  <1>6. text_dir => StoredText(w, v, t)
    BY <1>4, <1>5, InstStored
  <1>7. ~text_dir => StoredData(w, v, t)
    BY <1>4, <1>5, WordStored
  <1>8. /\ t.entry = w.entry /\ t.line = s0.line /\ Good(t)
        /\ s0 \in AsmType /\ t \in AsmType
        /\ s0.next_text_pc <= t.next_text_pc /\ s0.next_data_pc <= t.next_data_pc
    <2>1. t.entry = w.entry /\ t.line = w.line /\ Keeps(w, t)
      BY <1>6, <1>7 DEF StoredText, StoredData, SameLists
    <2>2. Good(t) /\ s0 \in AsmType /\ t \in AsmType
      BY <2>1 DEF Keeps, Good
    <2>3. s0.next_text_pc \in Nat /\ s0.next_data_pc \in Nat
      BY <2>2 DEF AsmType
    <2>4. w.next_text_pc = s0.next_text_pc /\ w.next_data_pc = s0.next_data_pc
      BY <1>5 DEF SameCounters
    <2>5. ASSUME text_dir
          PROVE  s0.next_text_pc <= t.next_text_pc /\ s0.next_data_pc <= t.next_data_pc
      <3>1. CASE s0.next_text_pc % 4 # 0
        BY <1>6, <2>3, <2>4, <2>5, <3>1 DEF StoredText
      <3>2. CASE s0.next_text_pc % 4 = 0
        BY <1>6, <2>3, <2>4, <2>5, <3>2 DEF StoredText
      <3>. QED BY <3>1, <3>2
    <2>6. ASSUME ~text_dir
          PROVE  s0.next_text_pc <= t.next_text_pc /\ s0.next_data_pc <= t.next_data_pc
      BY <1>7, <2>3, <2>4, <2>6 DEF StoredData
    <2>. QED BY <1>5, <2>1, <2>2, <2>5, <2>6
  <1>9. ASSUME NEW r \in R
        PROVE  /\ r \in RefType /\ r.label \in DOMAIN s0.entry /\ r.label \in DOMAIN t.entry
               /\ Room(s0, r) /\ Room(t, r)
               /\ t.entry[r.label].addr = s0.entry[r.label].addr
               /\ Undefined(t, r.label) => Undefined(s0, r.label)
               /\ Pending(s0, r) => Pending(t, r)
               /\ HeldIn(t, r) = HeldIn(s0, r)
    <2>1. r \in RefType /\ r.label \in DOMAIN s0.entry /\ Room(s0, r)
      BY DEF Mem, Laid
    <2>2. Room(t, r)
      BY <1>8, <2>1, RoomStays
    <2>3. /\ r.label \in DOMAIN t.entry
          /\ t.entry[r.label].addr = s0.entry[r.label].addr
          /\ t.entry[r.label].const_flag = s0.entry[r.label].const_flag
          /\ s0.entry[r.label].uses \subseteq t.entry[r.label].uses
      BY <1>5, <1>8, <2>1 DEF SameAddresses
    <2>4. HeldIn(t, r) = HeldIn(s0, r)
      <3>1. r.addr \in Nat /\ s0.next_text_pc \in Nat /\ s0.next_data_pc \in Nat
        BY <1>8, <2>1 DEF RefType, AsmType
      <3>2. /\ w.next_text_pc = s0.next_text_pc /\ w.next_data_pc = s0.next_data_pc
            /\ w.text = s0.text /\ w.data = s0.data
        BY <1>5 DEF SameCounters, SameMemory
      <3>3. ASSUME r.place = "text"  PROVE t.text[r.addr] = s0.text[r.addr]
        <4>1. r.addr \in TextWords /\ r.addr # s0.next_text_pc
          BY <2>1, <3>1, <3>3 DEF Room
        <4>2. CASE text_dir /\ s0.next_text_pc % 4 # 0
          BY <1>6, <3>2, <4>2 DEF StoredText
        <4>3. CASE text_dir /\ s0.next_text_pc % 4 = 0
          BY <1>6, <3>2, <4>1, <4>3 DEF StoredText
        <4>4. CASE ~text_dir
          BY <1>7, <3>2, <4>4 DEF StoredData
        <4>. QED BY <4>2, <4>3, <4>4
      <3>4. ASSUME r.place # "text", NEW i \in 0 .. 3
            PROVE  t.data[r.addr + i] = s0.data[r.addr + i]
        <4>1. r.addr + i \in DataBytes
          BY <2>1, <3>4, RoomBytes
        <4>2. r.addr + 4 <= s0.next_data_pc
          BY <2>1, <3>4 DEF Room
        <4>3. r.addr + i \notin s0.next_data_pc .. s0.next_data_pc + 3
          BY <3>1, <4>2
        <4>4. CASE text_dir
          BY <1>6, <3>2, <4>4 DEF StoredText
        <4>5. CASE ~text_dir
          BY <1>7, <3>2, <4>1, <4>3, <4>5 DEF StoredData
        <4>. QED BY <4>4, <4>5
      <3>. QED BY <2>1, <3>3, <3>4, HeldSame
    <2>. QED BY <2>1, <2>2, <2>3, <2>4 DEF Undefined, Pending
  <1>10. /\ new.label = id /\ id \in DOMAIN t.entry /\ t.entry[id].addr = v
         /\ v = 0 => Pending(t, new)
    BY <1>5, <1>8 DEF l, v, u, Pending
  <1>11. ASSUME stored
         PROVE  /\ Room(t, new) /\ HeldIn(t, new) = v
                /\ \A r \in R : r.place = new.place => r.addr + 4 <= new.addr
    <2>1. /\ w.next_text_pc = s0.next_text_pc /\ w.next_data_pc = s0.next_data_pc
          /\ s0.next_text_pc \in Nat /\ s0.next_data_pc \in Nat
          /\ s0.next_text_pc >= TextBot /\ s0.next_data_pc >= DataBot
      <3>1. w.next_text_pc = s0.next_text_pc /\ w.next_data_pc = s0.next_data_pc
        BY <1>5 DEF SameCounters
      <3>. QED BY <3>1, CountersTyped
    <2>2. t.next_text_pc <= LastText - 3 /\ t.next_data_pc <= LastData - 3
      BY DEF Fits
    <2>3. CASE text_dir
      <3>1. /\ new.place = "text" /\ new.addr = s0.next_text_pc /\ new.addr % 4 = 0
            /\ t.next_text_pc = new.addr + 4
            /\ \A a \in TextWords : t.text[a] = IF a = new.addr THEN v ELSE w.text[a]
        BY <1>6, <1>11, <2>1, <2>3 DEF StoredText, Here
      <3>2. new.addr \in TextWords
        BY <2>1, <2>2, <3>1, Places DEF TextWords
      <3>3. Room(t, new)
        BY <2>1, <3>1, <3>2 DEF Room
      <3>4. t.text[new.addr] = v
        BY <3>1, <3>2
      <3>5. HeldIn(t, new) = v
        BY <3>1, <3>4, HeldValue
      <3>6. ASSUME NEW r \in R, r.place = new.place  PROVE r.addr + 4 <= new.addr
        BY <1>9, <3>1, <3>6 DEF Room
      <3>. QED BY <3>3, <3>5, <3>6
    <2>4. CASE ~text_dir
      <3>1. /\ new.place = "data" /\ new.addr = s0.next_data_pc
            /\ t.next_data_pc = new.addr + 4
            /\ \A b \in DataBytes : t.data[b] = IF b \in new.addr .. new.addr + 3
                                                THEN <<v, b - new.addr>> ELSE w.data[b]
        BY <1>7, <2>1, <2>4 DEF StoredData, Here
      <3>2. Room(t, new)
        BY <2>1, <2>2, <3>1, Places DEF Room
      <3>3. ASSUME NEW i \in 0 .. 3  PROVE t.data[new.addr + i] = <<v, i>>
        <4>1. new.addr + i \in DataBytes
          BY <3>1, <3>2, RoomBytes
        <4>. DEFINE b == new.addr + i
        <4>2. b \in new.addr .. new.addr + 3 /\ b - new.addr = i
          BY <2>1, <3>1
        <4>3. b \in DataBytes
          BY <4>1
        <4>. HIDE DEF b
        <4>4. t.data[b] = <<v, b - new.addr>>
          BY <3>1, <4>2, <4>3
        <4>. QED BY <4>2, <4>4 DEF b
      <3>4. HeldIn(t, new) = v
        BY <3>1, <3>3, HeldValue
      <3>5. ASSUME NEW r \in R, r.place = new.place  PROVE r.addr + 4 <= new.addr
        BY <1>9, <3>1, <3>5 DEF Room
      <3>. QED BY <3>2, <3>4, <3>5
    <2>. QED BY <2>3, <2>4
  <1>12. Q = IF stored THEN R \cup {new} ELSE R
    BY DEF Referred
  <1>. HIDE DEF Q, id
  <1>13. Laid(t, Q)
    <2>1. Q \subseteq RefType /\ \A r \in Q : r.label \in DOMAIN t.entry /\ Room(t, r)
      BY <1>9, <1>10, <1>11, <1>12
    <2>2. ASSUME NEW r \in Q, NEW q \in Q  PROVE Apart(r, q)
      BY <1>11, <1>12 DEF Apart, Mem, Laid
    <2>3. ASSUME NEW i \in DOMAIN t.entry, NEW x \in t.entry[i].uses  PROVE Owned(Q, i, x)
      <3>1. x \in l.entry[i].uses \/ (i = id /\ x = u)
        BY <1>5, <1>8
      <3>2. CASE x \in l.entry[i].uses
        <4>1. NewLabel(n).uses = {}
          BY DEF NewLabel
        <4>2. i \in DOMAIN s0.entry /\ x \in s0.entry[i].uses
          BY <1>3, <1>5, <1>8, <3>2, <4>1
        <4>3. Owned(R, i, x)
          BY <4>2 DEF Mem, Laid
        <4>. QED BY <1>12, <4>3 DEF Owned
      <3>3. CASE i = id /\ x = u
        <4>1. CASE stored
          BY <1>1, <1>10, <1>12, <3>3, <4>1 DEF Owned
        <4>2. CASE ~stored
          BY <1>1, <3>3, <4>2 DEF Owned, Here
        <4>. QED BY <4>1, <4>2
      <3>. QED BY <3>1, <3>2, <3>3
    <2>. QED BY <2>1, <2>2, <2>3 DEF Laid
  <1>14. Awaited(t, Q)
    <2>1. ASSUME NEW r \in R, Undefined(t, r.label)  PROVE Pending(t, r) /\ r.forward
      BY <1>9, <2>1 DEF Mem, Awaited
    <2>2. ASSUME Undefined(t, new.label)  PROVE Pending(t, new) /\ new.forward
      BY <1>10, <2>2 DEF Undefined
    <2>. QED BY <1>12, <2>1, <2>2 DEF Awaited
  <1>15. Settled(t, Q, D)
    <2>1. ASSUME NEW r \in R, r.label \in ToSet(t.line) \ D  PROVE Pending(t, r) /\ r.forward
      BY <1>8, <1>9, <2>1 DEF Mem, OnLine
    <2>2. stored => HeldIn(t, new) = t.entry[new.label].addr
      BY <1>10, <1>11
    <2>. QED BY <1>12, <2>1, <2>2 DEF Settled
  <1>16. Filled(t, Q, D)
    <2>1. ASSUME NEW r \in R, t.entry[r.label].addr # 0, r.label \notin ToSet(t.line) \cup D,
                 Patched(r)
          PROVE  HeldIn(t, r) = t.entry[r.label].addr
      BY <1>8, <1>9, <2>1 DEF Mem, Filled
    <2>2. stored => HeldIn(t, new) = t.entry[new.label].addr
      BY <1>10, <1>11
    <2>. QED BY <1>12, <2>1, <2>2 DEF Filled
  <1>. QED BY <1>13, <1>14, <1>15, <1>16 DEF Q

-----------------------------------------------------------------------------
(***************************************************************************)
(* The steps.                                                              *)
(***************************************************************************)
MInv == Mem(asm, refs, disputed)

LEMMA CommandMem ==
  ASSUME NEW s, Good(s), NEW R, NEW D, Mem(s, R, D), Command(s)
  PROVE  Mem(asm', R, D)
  BY ClearLineMem DEF Command

LEMMA OpenDisputed ==
  ASSUME IInv, NEW n \in Names,
         IF Defined(n) THEN Disputes(n) ELSE UNCHANGED disputed
  PROVE  /\ Open(lookup_label(asm, n), lookup_label(asm, n).table[n], disputed')
         /\ disputed \subseteq disputed'
  <1>1. Good(asm)
    BY DEF IInv
  <1>2. /\ asm.table[n] # 0 => lookup_label(asm, n) = asm
        /\ asm.table[n] = 0 =>
             lookup_label(asm, n).entry[lookup_label(asm, n).table[n]] = NewLabel(n)
    BY <1>1, LookupKeeps
  <1>3. CASE Defined(n)
    BY <1>2, <1>3 DEF Defined, Known, Disputes, Open
  <1>4. CASE ~Defined(n)
    <2>1. CASE asm.table[n] # 0
      BY <1>2, <1>4, <2>1 DEF Defined, Known, Open, Undefined
    <2>2. CASE asm.table[n] = 0
      <3>1. NewLabel(n).addr = 0 /\ NewLabel(n).const_flag = FALSE
        BY DEF NewLabel
      <3>2. Undefined(lookup_label(asm, n), lookup_label(asm, n).table[n])
        BY <1>2, <2>2, <3>1 DEF Undefined
      <3>. QED BY <1>4, <3>2 DEF Open
    <2>. QED BY <2>1, <2>2
  <1>. QED BY <1>3, <1>4

LEMMA DefineLabelMem ==
  ASSUME IInv, MInv, NEW n \in Names, DefineLabel(n)  PROVE MInv'
  <1>. DEFINE t == record_label(asm, n, Here(asm), FALSE)
  <1>1. Good(asm) /\ Here(asm) \in Nat \ {0}
    BY CountersTyped DEF IInv, Here
  <1>2. /\ asm' = [t EXCEPT !.line = <<t.table[n]>> \o @]
        /\ IF Defined(n) THEN Disputes(n) ELSE UNCHANGED disputed
        /\ refs' = refs
    BY DEF DefineLabel
  <1>3. /\ Open(lookup_label(asm, n), lookup_label(asm, n).table[n], disputed')
        /\ disputed \subseteq disputed'
    BY <1>2, OpenDisputed
  <1>4. Mem(asm, refs, disputed')
    BY <1>3, MoreDisputed DEF MInv
  <1>5. Mem([t EXCEPT !.line = <<t.table[n]>> \o @], refs, disputed')
    BY <1>1, <1>3, <1>4, DefineMem
  <1>. HIDE DEF t
  <1>. QED BY <1>2, <1>5 DEF MInv

LEMMA DefineConstantMem ==
  ASSUME IInv, MInv, NEW n \in Names, NEW v \in Values, DefineConstant(n, v)  PROVE MInv'
  <1>. DEFINE s == ConstantOf(asm, n, v)
  <1>1. Good(asm) /\ v \in Nat
    BY ParametersOK DEF IInv, ParametersOK
  <1>2. Command(s) /\ refs' = refs /\ IF Defined(n) THEN Disputes(n) ELSE UNCHANGED disputed
    BY DEF DefineConstant, ConstantOf
  <1>3. /\ Open(lookup_label(asm, n), lookup_label(asm, n).table[n], disputed')
        /\ disputed \subseteq disputed'
    BY <1>2, OpenDisputed
  <1>4. Mem(asm, refs, disputed')
    BY <1>3, MoreDisputed DEF MInv
  <1>5. Mem(s, refs, disputed') /\ Good(s)
    BY <1>1, <1>3, <1>4, ConstantMem, ConstantKeeps DEF Keeps
  <1>. HIDE DEF s
  <1>. QED BY <1>2, <1>5, CommandMem DEF MInv

LEMMA LabelDirectiveMem ==
  ASSUME IInv, MInv, NEW n \in Names, LabelDirective(n)  PROVE MInv'
  <1>. DEFINE s == record_label(asm, n, Here(asm), TRUE)
  <1>1. Good(asm) /\ Here(asm) \in Nat \ {0}
    BY CountersTyped DEF IInv, Here
  <1>2. Command(s) /\ refs' = refs /\ IF Defined(n) THEN Disputes(n) ELSE UNCHANGED disputed
    BY DEF LabelDirective
  <1>3. /\ Open(lookup_label(asm, n), lookup_label(asm, n).table[n], disputed')
        /\ disputed \subseteq disputed'
    BY <1>2, OpenDisputed
  <1>4. Mem(asm, refs, disputed')
    BY <1>3, MoreDisputed DEF MInv
  <1>5. Mem(s, refs, disputed')
    BY <1>1, <1>3, <1>4, RecordLabelMem
  <1>6. Good(s)
    BY <1>1, RecordKeeps DEF Keeps
  <1>. HIDE DEF s
  <1>. QED BY <1>2, <1>5, <1>6, CommandMem DEF MInv

LEMMA LcommStepMem ==
  ASSUME IInv, MInv, NEW n \in Names, NEW size \in Sizes, Lcomm(n, size)  PROVE MInv'
  <1>. DEFINE s == LcommOf(asm, n, size)
  <1>1. Good(asm)
    BY DEF IInv
  <1>2. Command(s) /\ refs' = refs /\ IF Defined(n) THEN Disputes(n) ELSE UNCHANGED disputed
    BY DEF Lcomm, LcommOf
  <1>3. /\ Open(lookup_label(asm, n), lookup_label(asm, n).table[n], disputed')
        /\ disputed \subseteq disputed'
    BY <1>2, OpenDisputed
  <1>4. Mem(asm, refs, disputed')
    BY <1>3, MoreDisputed DEF MInv
  <1>5. Mem(s, refs, disputed') /\ Good(s)
    BY <1>1, <1>3, <1>4, LcommMem, LcommKeeps DEF Keeps
  <1>. HIDE DEF s
  <1>. QED BY <1>2, <1>5, CommandMem DEF MInv

LEMMA ExternMem ==
  ASSUME IInv, MInv, NEW n \in Names, NEW size \in Sizes, Extern(n, size)  PROVE MInv'
  <1>. DEFINE s == make_label_global(asm, n)
              id == s.table[n]
              placed == ~s.entry[id].gp_flag /\ FitsGp(s, size)
              t == ExternOf(s, id, size)
              a == s.next_gp_item_addr
              l == lookup_label(asm, n)
  <1>1. Good(asm)
    BY DEF IInv
  <1>2. /\ Keeps(asm, s) /\ id \in DOMAIN s.entry /\ s.table = l.table
        /\ s.entry[id] = [l.entry[id] EXCEPT !.global_flag = TRUE]
    BY <1>1, GlobalKeeps
  <1>3. /\ Command(t) /\ refs' = refs
        /\ IF placed /\ (Defined(n) \/ s.entry[id].uses # {})
           THEN Disputes(n) ELSE UNCHANGED disputed
    BY DEF Extern, ExternOf
  <1>4. /\ asm.table[n] # 0 => l = asm
        /\ asm.table[n] = 0 => l.entry[l.table[n]] = NewLabel(n)
        /\ Good(l) /\ l.table[n] \in DOMAIN l.entry
    BY <1>1, LookupKeeps DEF Keeps
  <1>5. Mem(s, refs, disputed) /\ Good(t)
    BY <1>1, GlobalMem, ExternKeeps DEF MInv, Keeps
  <1>. HIDE DEF s, l
  <1>6. l.entry[id] \in LabelType
    BY <1>2, <1>4, LabelTyped DEF Good
  <1>. HIDE DEF id
  <1>7. /\ s.entry[id].addr = l.entry[id].addr /\ s.entry[id].uses = l.entry[id].uses
        /\ s.entry[id].const_flag = l.entry[id].const_flag /\ id = l.table[n]
    BY <1>2, <1>6 DEF LabelType, id
  <1>8. /\ disputed \subseteq disputed'
        /\ placed => (id \notin disputed' => Undefined(s, id) /\ s.entry[id].uses = {})
    <2>1. NewLabel(n).addr = 0 /\ NewLabel(n).const_flag = FALSE /\ NewLabel(n).uses = {}
      BY DEF NewLabel
    <2>. HIDE DEF placed
    <2>2. disputed \subseteq disputed'
      BY <1>3 DEF Disputes
    <2>3. CASE asm.table[n] # 0
      <3>1. id = asm.table[n] /\ l = asm
        BY <1>4, <1>7, <2>3
      <3>2. Defined(n) <=> ~Undefined(s, id)
        BY <1>7, <2>3, <3>1 DEF Defined, Known, Undefined
      <3>. QED BY <1>3, <2>2, <3>1, <3>2 DEF Disputes
    <2>4. CASE asm.table[n] = 0
      BY <1>4, <1>7, <2>1, <2>2, <2>4 DEF Undefined
    <2>. QED BY <2>3, <2>4
  <1>9. Mem(s, refs, disputed')
    BY <1>5, <1>8, MoreDisputed
  <1>10. Mem(t, refs, disputed')
    <2>1. CASE placed
      <3>1. Good(s) /\ s \in AsmType /\ a \in Nat \ {0}
        BY <1>2, CountersTyped DEF Keeps
      <3>2. id \in DOMAIN s.entry
        BY <1>2 DEF id
      <3>3. t = SmallData(s, id, a, size)
        BY <2>1, <3>1, <3>2, ExternSmall
      <3>. HIDE DEF t, a, placed
      <3>. QED BY <1>8, <1>9, <2>1, <3>1, <3>2, <3>3, SmallDataMem
    <2>2. CASE ~placed
      <3>1. t = s
        BY <2>2 DEF ExternOf
      <3>. QED BY <1>9, <3>1
    <2>. QED BY <2>1, <2>2
  <1>. HIDE DEF t
  <1>. QED BY <1>3, <1>5, <1>10, CommandMem DEF MInv

LEMMA CommMem ==
  ASSUME IInv, MInv, NEW n \in Names, NEW size \in Sizes, Comm(n, size)  PROVE MInv'
  <1>. DEFINE a == align_data(asm, 2)
              s == lookup_label(a, n)
              id == s.table[n]
              t == CommLabel(s, n)
              pc == t.next_data_pc + size
              u == [t EXCEPT !.next_data_pc = t.next_data_pc + size]
  <1>1. Good(asm)
    BY DEF IInv
  <1>2. /\ Command(u) /\ refs' = refs
        /\ IF t # s /\ Defined(n) THEN Disputes(n) ELSE UNCHANGED disputed
    BY DEF Comm, CommLabel
  <1>3. Aligned(asm, AlignUp(asm.next_data_pc, 2), a) /\ AlignUp(asm.next_data_pc, 2) # 0
    <2>1. AlignUp(asm.next_data_pc, 2) \in Nat /\ AlignUp(asm.next_data_pc, 2) >= asm.next_data_pc
      BY <1>1, CountersTyped, AlignedUp
    <2>. QED BY <1>1, <2>1, CountersTyped, AlignKeeps
  <1>4. disputed \subseteq disputed'
    BY <1>2 DEF Disputes
  <1>5. Mem(asm, refs, disputed')
    BY <1>4, MoreDisputed DEF MInv
  <1>6. Mem(a, refs, disputed') /\ Good(a)
    BY <1>1, <1>3, <1>5, AlignMem DEF Aligned, Keeps
  <1>. HIDE DEF a, pc
  <1>7. /\ Mem(s, refs, disputed') /\ Good(s) /\ id \in DOMAIN s.entry
        /\ a.table[n] # 0 => s = a
        /\ a.table[n] = 0 => s.entry[id] = NewLabel(n)
    BY <1>6, LookupMem, LookupKeeps DEF Keeps
  <1>. HIDE DEF s
  <1>8. /\ id # 0 /\ lookup_label(s, n) = s
        /\ s.next_data_pc \in Nat \ {0}
    <2>1. s \in AsmType
      BY <1>7 DEF Good
    <2>2. id # 0
      BY <1>7, <2>1, LabelTyped
    <2>. QED BY <1>7, <2>2, CountersTyped DEF lookup_label
  <1>9. Good(t) /\ Mem(t, refs, disputed')
    <2>1. CASE s.entry[id].addr # 0
      BY <1>7, <2>1 DEF CommLabel
    <2>2. CASE s.entry[id].addr = 0
      <3>. DEFINE r == record_label(s, n, s.next_data_pc, TRUE)
      <3>1. t = r
        BY <2>2 DEF CommLabel
      <3>2. Good(r) /\ RecordedLabel(s, n, r) /\ r.entry[r.table[n]].addr # 0
        BY <1>7, <1>8, RecordKeeps DEF Keeps
      <3>. HIDE DEF r, t
      <3>3. t # s
        BY <2>2, <3>1, <3>2
      <3>4. Open(s, id, disputed')
        <4>1. CASE asm.table[n] = 0
          <5>1. a.table[n] = 0
            BY <1>3, <4>1 DEF Aligned
          <5>. QED BY <1>7, <5>1 DEF Open, Undefined, NewLabel
        <4>2. CASE asm.table[n] # 0
          <5>1. a.table = asm.table /\ s = a /\ id = asm.table[n]
            BY <1>3, <1>7, <4>2 DEF Aligned
          <5>2. id \in DOMAIN asm.entry
            BY <1>1, <4>2, <5>1 DEF Good, Tables
          <5>3. s.entry[id].const_flag = asm.entry[id].const_flag
            BY <1>3, <5>1, <5>2 DEF Aligned
          <5>4. CASE asm.entry[id].const_flag
            <6>1. Defined(n)
              BY <4>2, <5>1, <5>4 DEF Defined, Known
            <6>2. id \in disputed'
              BY <1>2, <3>3, <5>1, <6>1 DEF Disputes
            <6>. QED BY <6>2 DEF Open
          <5>5. CASE ~asm.entry[id].const_flag
            BY <2>2, <5>3, <5>5 DEF Open, Undefined
          <5>. QED BY <5>4, <5>5
        <4>. QED BY <4>1, <4>2
      <3>5. Open(lookup_label(s, n), lookup_label(s, n).table[n], disputed')
        BY <1>8, <3>4 DEF id
      <3>6. Mem(r, refs, disputed')
        BY <1>7, <1>8, <3>5, RecordLabelMem DEF r
      <3>. QED BY <3>1, <3>2, <3>6
    <2>. QED BY <2>1, <2>2
  <1>. HIDE DEF t
  <1>10. pc \in Nat /\ pc >= t.next_data_pc /\ u = [t EXCEPT !.next_data_pc = pc]
    <2>1. t.next_data_pc \in Nat /\ size \in Nat
      BY <1>9, CountersTyped, SizesTyped
    <2>. QED BY <2>1 DEF pc
  <1>. HIDE DEF u
  <1>11. Good(u) /\ Mem(u, refs, disputed')
    BY <1>9, <1>10, DataMoves, DataMem DEF Keeps
  <1>. QED BY <1>2, <1>11, CommandMem DEF MInv

-----------------------------------------------------------------------------
(***************************************************************************)
(* Commands that name no label.                                            *)
(***************************************************************************)
LEMMA SetAlignmentMem ==
  ASSUME NEW s, Good(s), NEW R, NEW D, Mem(s, R, D), NEW k \in 0 .. 3
  PROVE  Mem(set_data_alignment(s, k), R, D) /\ Good(set_data_alignment(s, k))
  BY AlignMem, AlignKeeps DEF set_data_alignment, Aligned, Keeps

\* A counter moves.
LEMMA AdvanceMem ==
  ASSUME NEW s, Good(s), NEW R, NEW D, Mem(s, R, D), NEW v \in Nat
  PROVE  /\ LET t == [s EXCEPT !.next_data_pc = @ + v] IN Mem(t, R, D) /\ Good(t)
         /\ LET t == [s EXCEPT !.next_text_pc = @ + v] IN Mem(t, R, D) /\ Good(t)
  <1>. DEFINE a == s.next_data_pc + v
              d == [s EXCEPT !.next_data_pc = s.next_data_pc + v]
              x == [s EXCEPT !.next_text_pc = @ + v]
  <1>1. a \in Nat /\ a >= s.next_data_pc /\ s \in AsmType
    BY CountersTyped
  <1>2. d = [s EXCEPT !.next_data_pc = a]
    OBVIOUS
  <1>. HIDE DEF a, d
  <1>3. Mem(d, R, D) /\ Good(d)
    BY <1>1, <1>2, DataMem, DataMoves DEF Keeps
  <1>4. /\ Keeps(s, x) /\ x.entry = s.entry /\ SameLists(s, x) /\ SameMemory(s, x)
        /\ x.next_text_pc = s.next_text_pc + v /\ x.next_data_pc = s.next_data_pc
    BY TextMoves
  <1>. HIDE DEF x
  <1>5. /\ x \in AsmType /\ ToSet(x.line) = ToSet(s.line)
        /\ s.next_text_pc <= x.next_text_pc /\ s.next_data_pc <= x.next_data_pc
    BY <1>1, <1>4 DEF Keeps, Good, AsmType, SameLists
  <1>6. Mem(x, R, D) /\ Good(x)
    BY <1>1, <1>4, <1>5, EntriesMem DEF Keeps
  <1>. QED BY <1>3, <1>6 DEF d, x

LEMMA LiteralMem ==
  ASSUME IInv, MInv, NEW k \in Alignments, Literal(k)  PROVE MInv'
  <1>. DEFINE s == IF k = 0 THEN asm ELSE set_data_alignment(asm, k)
              v == 2^k
              t == [s EXCEPT !.next_data_pc = @ + v]
  <1>1. Good(asm) /\ k \in 0 .. 3 /\ v \in Nat
    BY AlignmentsTyped DEF IInv
  <1>2. Command(t) /\ refs' = refs /\ disputed' = disputed
    BY DEF Literal
  <1>3. Mem(s, refs, disputed) /\ Good(s)
    BY <1>1, SetAlignmentMem DEF MInv
  <1>. HIDE DEF s, v
  <1>4. Mem(t, refs, disputed) /\ Good(t)
    BY <1>1, <1>3, AdvanceMem
  <1>. HIDE DEF t
  <1>. QED BY <1>2, <1>4, CommandMem DEF MInv

LEMMA SpaceMem ==
  ASSUME IInv, MInv, NEW v \in Nat, Space(v)  PROVE MInv'
  <1>. DEFINE s == IF text_dir THEN [asm EXCEPT !.next_text_pc = @ + v]
                   ELSE [asm EXCEPT !.next_data_pc = @ + v]
  <1>1. Good(asm)
    BY DEF IInv
  <1>2. Command(s) /\ refs' = refs /\ disputed' = disputed
    BY DEF Space
  <1>3. Mem(s, refs, disputed) /\ Good(s)
    BY <1>1, AdvanceMem DEF MInv
  <1>. HIDE DEF s
  <1>. QED BY <1>2, <1>3, CommandMem DEF MInv

LEMMA AlignStepMem ==
  ASSUME IInv, MInv, NEW k \in Alignments, Align(k)  PROVE MInv'
  <1>. DEFINE s == IF k = 0 THEN asm ELSE align_data(asm, k)
  <1>1. Good(asm) /\ k \in 0 .. 3
    BY AlignmentsTyped DEF IInv
  <1>2. Command(s) /\ refs' = refs /\ disputed' = disputed
    BY DEF Align
  <1>3. Mem(s, refs, disputed) /\ Good(s)
    BY <1>1, AlignMem, AlignKeeps DEF MInv, Aligned, Keeps
  <1>. HIDE DEF s
  <1>. QED BY <1>2, <1>3, CommandMem DEF MInv

LEMMA SegmentMem ==
  ASSUME IInv, MInv, NEW text \in BOOLEAN, Segment(text)  PROVE MInv'
  BY CommandMem DEF IInv, MInv, Segment

LEMMA GlobalStepMem ==
  ASSUME IInv, MInv, NEW n \in Names, Global(n)  PROVE MInv'
  <1>. DEFINE s == make_label_global(asm, n)
  <1>1. Mem(s, refs, disputed) /\ Good(s)
    BY GlobalMem, GlobalKeeps DEF IInv, MInv, Keeps
  <1>2. Command(s) /\ refs' = refs /\ disputed' = disputed
    BY DEF Global
  <1>. HIDE DEF s
  <1>. QED BY <1>1, <1>2, CommandMem DEF MInv

LEMMA EndOfFileMem ==
  ASSUME IInv, MInv, EndOfFile  PROVE MInv'
  <1>. DEFINE c == clear_labels(asm)
  <1>1. Good(asm)
    BY DEF IInv
  <1>2. asm' = flush_local_labels(c) /\ refs' = refs /\ disputed' = disputed
    BY DEF EndOfFile
  <1>3. Good(c) /\ c.line = <<>> /\ Mem(c, refs, disputed)
    BY <1>1, ClearKeeps, LineKnown, ClearFields, ClearLineMem DEF Keeps, MInv
  <1>. HIDE DEF c
  <1>. QED BY <1>2, <1>3, FlushMem DEF MInv

-----------------------------------------------------------------------------
(***************************************************************************)
(* Commands that use a label.                                              *)
(***************************************************************************)

\* Aligning defines no label.
SameDefined(s, t) ==
  /\ t.table = s.table
  /\ \A id \in DOMAIN s.entry :
       /\ t.entry[id].addr = 0 => s.entry[id].addr = 0
       /\ t.entry[id].const_flag = s.entry[id].const_flag

\* A label that is not defined after its use was not defined before it.
LEMMA ForwardUse ==
  ASSUME IInv, NEW s0, Good(s0), SameDefined(asm, s0), NEW n \in Names,
         NEW t, SameAddresses(s0, t), NEW id, id = lookup_label(s0, n).table[n],
         Undefined(t, id)
  PROVE  ~Defined(n)
  <1>1. CASE asm.table[n] = 0
    BY <1>1 DEF Defined, Known
  <1>2. CASE asm.table[n] # 0
    <2>1. s0.table[n] = asm.table[n]
      BY DEF SameDefined
    <2>2. id = asm.table[n] /\ id \in DOMAIN s0.entry
      BY <1>2, <2>1, LookupKeeps DEF Good, Tables
    <2>3. id \in DOMAIN asm.entry
      BY <1>2, <2>2 DEF IInv, Good, Tables
    <2>4. s0.entry[id].addr = 0 /\ ~s0.entry[id].const_flag
      BY <2>2 DEF SameAddresses, Undefined
    <2>5. asm.entry[id].addr = 0 /\ ~asm.entry[id].const_flag
      BY <2>3, <2>4 DEF SameDefined
    <2>. QED BY <2>2, <2>5 DEF Defined
  <1>. QED BY <1>1, <1>2

LEMMA ReferMem ==
  ASSUME IInv, NEW s0, Good(s0), SameDefined(asm, s0), Mem(s0, refs, disputed),
         NEW n \in Names, NEW u, u = Use(IF text_dir THEN "text" ELSE "data", Here(s0)),
         Command(Assembly(Looked(s0, n, u), n)), Refer(s0, n, ~Defined(n)),
         disputed' = disputed
  PROVE  MInv'
  <1>. DEFINE t == Assembly(Looked(s0, n, u), n)
              id == lookup_label(s0, n).table[n]
              new == [place |-> IF text_dir THEN "text" ELSE "data", addr |-> Here(s0),
                      label |-> id, forward |-> ~Defined(n)]
  <1>1. Here(s0) \in Nat
    BY CountersTyped DEF Here
  <1>2. u \in [place : {"text", "data"}, addr : Nat] /\ Reached(s0, u)
    <2>1. /\ u \in [place : {"text", "data"}, addr : Nat] /\ u.addr = Here(s0)
          /\ u.place = IF text_dir THEN "text" ELSE "data"
      BY <1>1 DEF Use
    <2>2. Reached(s0, u)
      BY <2>1, CountersTyped, Places DEF Reached, Here
    <2>. QED BY <2>1, <2>2
  <1>3. Assembled(s0, n, u, t)
    BY <1>2, AssembledKeeps
  <1>4. asm' = clear_labels(t) /\ Fits(asm')
    BY DEF Command
  <1>. HIDE DEF t
  <1>5. Good(t) /\ t.table[n] = id /\ id \in DOMAIN t.entry
    BY <1>3 DEF Assembled, Keeps
  <1>6. asm'.table = t.table /\ SameCounters(t, asm')
    BY <1>4, <1>5, LineKnown, ClearFields
  <1>7. Fits(t)
    BY <1>4, <1>6 DEF SameCounters, Fits
  <1>8. id \in Nat
    BY <1>5, LabelTyped DEF Good
  <1>9. (~Defined(n)) \in BOOLEAN
    BY DefinedTyped
  <1>10. /\ new \in RefType /\ new.place = (IF text_dir THEN "text" ELSE "data")
         /\ new.addr = Here(s0) /\ new.label = id /\ new.forward = ~Defined(n)
    <2>. HIDE DEF id
    <2>. QED BY <1>1, <1>8, <1>9 DEF RefType
  <1>11. refs' = Referred(s0, refs, new)
    BY <1>5, <1>6 DEF Refer, Referred
  <1>12. Use(new.place, new.addr) = u
    BY <1>10
  <1>. HIDE DEF new
  <1>13. Undefined(t, new.label) => new.forward
    BY <1>3, <1>10, ForwardUse DEF Assembled
  <1>14. t = Assembly(Looked(s0, n, Use(new.place, new.addr)), n)
    BY <1>12 DEF t
  <1>15. LET Q == Referred(s0, refs, new)
         IN Laid(t, Q) /\ Awaited(t, Q) /\ Settled(t, Q, disputed) /\ Filled(t, Q, disputed)
    BY <1>7, <1>10, <1>13, <1>14, AssemblyMem DEF id
  <1>16. Mem(asm', refs', disputed)
    BY <1>4, <1>5, <1>11, <1>15, ClearMem
  <1>. QED BY <1>16 DEF MInv

LEMMA JumpMem ==
  ASSUME IInv, MInv, NEW n \in Names, Jump(n)  PROVE MInv'
  <1>. DEFINE u == Use(IF text_dir THEN "text" ELSE "data", Here(asm))
  <1>1. Good(asm) /\ SameDefined(asm, asm)
    BY DEF IInv, SameDefined
  <1>2. Instruction(asm, n) = Assembly(Looked(asm, n, u), n)
    BY <1>1, InstructionAssembly
  <1>3. Command(Instruction(asm, n)) /\ Refer(asm, n, ~Defined(n)) /\ disputed' = disputed
    BY DEF Jump
  <1>4. Command(Assembly(Looked(asm, n, u), n))
    BY <1>2, <1>3
  <1>. HIDE DEF u
  <1>. QED BY <1>1, <1>3, <1>4, ReferMem DEF MInv, u

LEMMA WordMem ==
  ASSUME ~WordsInText, IInv, MInv, NEW n \in Names, Word(n)  PROVE MInv'
  <1>. DEFINE s0 == set_data_alignment(asm, 2)
              u == Use(IF text_dir THEN "text" ELSE "data", Here(s0))
  <1>1. /\ Command(WordOf(s0, n)) /\ Refer(s0, n, ~Defined(n))
        /\ disputed' = disputed /\ ~text_dir
    BY DEF Word
  <1>2. Good(asm)
    BY DEF IInv
  <1>3. s0 = asm \/ Aligned(asm, AlignUp(asm.next_data_pc, 2), s0)
    BY <1>2, SetAlignmentKeeps
  <1>4. Mem(s0, refs, disputed) /\ Good(s0)
    BY <1>2, SetAlignmentMem DEF MInv
  <1>. HIDE DEF s0
  <1>5. SameDefined(asm, s0)
    <2>. DEFINE pc == AlignUp(asm.next_data_pc, 2)
    <2>1. pc \in Nat /\ pc # 0
      BY <1>2, CountersTyped, AlignedUp
    <2>. HIDE DEF pc
    <2>. QED BY <1>3, <2>1 DEF Aligned, SameDefined, pc
  <1>6. WordOf(s0, n) = Assembly(Looked(s0, n, Use("data", s0.next_data_pc)), n)
    BY <1>4, WordAssembly
  <1>7. u = Use("data", s0.next_data_pc)
    BY <1>1 DEF Here
  <1>8. Command(Assembly(Looked(s0, n, u), n))
    BY <1>1, <1>6, <1>7
  <1>. HIDE DEF u
  <1>. QED BY <1>1, <1>4, <1>5, <1>8, ReferMem DEF u

-----------------------------------------------------------------------------
(***************************************************************************)
(* The invariant and the theorem.                                          *)
(***************************************************************************)
LEMMA InitMem == Init => MInv
  <1>. SUFFICES ASSUME Init  PROVE MInv
    OBVIOUS
  <1>1. refs = {} /\ DOMAIN asm.entry = {}
    BY DEF Init
  <1>. QED BY <1>1 DEF MInv, Mem, Laid, Awaited, OnLine, Filled

LEMMA NextMem == ASSUME ~WordsInText  PROVE IInv /\ MInv /\ [Next]_vars => MInv'
  <1>. SUFFICES ASSUME IInv, MInv, [Next]_vars  PROVE MInv'
    OBVIOUS
  <1>1. CASE UNCHANGED vars
    <2>1. asm' = asm /\ refs' = refs /\ disputed' = disputed
      BY <1>1 DEF vars
    <2>. QED BY <2>1 DEF MInv
  <1>2. ASSUME NEW n \in Names,
               \/ DefineLabel(n) \/ LabelDirective(n) \/ Word(n) \/ Jump(n) \/ Global(n)
        PROVE  MInv'
    BY <1>2, DefineLabelMem, LabelDirectiveMem, WordMem, JumpMem, GlobalStepMem
  <1>3. ASSUME NEW n \in Names, NEW v \in Values, DefineConstant(n, v)  PROVE MInv'
    BY <1>3, DefineConstantMem
  <1>4. ASSUME NEW n \in Names, NEW size \in Sizes,
               Comm(n, size) \/ Lcomm(n, size) \/ Extern(n, size)
        PROVE  MInv'
    BY <1>4, CommMem, LcommStepMem, ExternMem
  <1>5. ASSUME NEW k \in Alignments, Literal(k) \/ Align(k)  PROVE MInv'
    BY <1>5, LiteralMem, AlignStepMem
  <1>6. ASSUME NEW k \in Alignments, Space(2^k)  PROVE MInv'
    <2>1. 2^k \in Nat
      BY AlignmentsTyped
    <2>. QED BY <1>6, <2>1, SpaceMem
  <1>7. ASSUME NEW text \in BOOLEAN, Segment(text)  PROVE MInv'
    BY <1>7, SegmentMem
  <1>8. CASE EndOfFile
    BY <1>8, EndOfFileMem
  <1>. QED BY <1>1, <1>2, <1>3, <1>4, <1>5, <1>6, <1>7, <1>8 DEF Next

LEMMA MemoryInvariant == ASSUME ~WordsInText  PROVE Spec => [](IInv /\ MInv)
  <1>1. Init => IInv /\ MInv
    BY InitInvariant, InitMem
  <1>2. IInv /\ MInv /\ [Next]_vars => (IInv /\ MInv)'
    BY NextInvariant, NextMem
  <1>. QED BY <1>1, <1>2, PTL DEF Spec

\* Whatever uses a defined label holds its address between the lines: the
\* uses before the definition are patched, the ones after it are assembled
\* with it, and no later line writes over them (record_*_uses_symbol,
\* resolve_label_uses, set_mem_inst, store_word).  A .word of the text is
\* left out: its forward use is recorded at the counter of the data.
THEOREM UsesFilled == ~WordsInText => (Spec => []UsesHoldAddress)
  <1>. SUFFICES ASSUME ~WordsInText  PROVE Spec => []UsesHoldAddress
    OBVIOUS
  <1>1. ASSUME NEW r \in refs  PROVE Held(r) = HeldIn(asm, r)
    BY DEF Held, HeldIn
  <1>2. MInv => UsesHoldAddress
    BY <1>1 DEF MInv, Mem, Filled, Patched, UsesHoldAddress
  <1>. QED BY <1>2, MemoryInvariant, PTL
=============================================================================
