------------------------------- MODULE Segments -------------------------------
(***************************************************************************)
(* The memory of the guest (CPU/mem.cpp): its segments, the functions that *)
(* read and write them, and how they grow.  Text holds instructions, which *)
(* a program reads and writes through their words.  Data grow upwards, by  *)
(* sbrk and when the assembler's data (CPU/data.cpp) reach the top; the    *)
(* stack grows downwards, when an address below it is touched.  The data   *)
(* of the kernel are data of the assembler only.                           *)
(*                                                                         *)
(* A segment is a sequence of bytes and its bottom or top an address, as   *)
(* in the code; a word is its four bytes in the order of memory.  One text *)
(* segment stands for both: the kernel's differs in its bounds and in that *)
(* loads and stores do not reach it.                                       *)
(***************************************************************************)
EXTENDS Integers, Sequences

CONSTANTS
  TEXT_BOT, TextWords,                  \* the text segment, which does not grow
  DATA_BOT, DataSize, DataLimit,        \* bottom, initial size, limit
  STACK_TOP, StackSize, StackLimit,
  K_DATA_BOT, KDataSize, KDataLimit,
  MM_IO_BOT, MM_IO_TOP,                 \* the devices (MappedIO)
  Reach,     \* how far below the stack an address may be touched: 16 MB
  Quantum,   \* what the assembler's data grow by: 64 KB
  IntLimit,  \* ints are in -IntLimit .. IntLimit - 1
  Addresses, \* those loaded from and stored to
  Words,     \* the words stored, and the instructions
  SbrkSizes, \* what sbrk is asked for
  Skips,     \* what .space and the alignments skip
  Junk,      \* what memory from realloc may hold
  MaxStores  \* bound: stores and data of a run

ASSUME SegmentsOK ==
  /\ TEXT_BOT \in Nat /\ TextWords \in Nat /\ TEXT_BOT % 4 = 0
  /\ DATA_BOT \in Nat /\ DATA_BOT % 4 = 0 /\ DataSize \in Nat /\ DataSize % 4 = 0
  /\ STACK_TOP \in Nat /\ STACK_TOP % 4 = 0 /\ StackSize \in Nat /\ StackSize % 4 = 0
  /\ K_DATA_BOT \in Nat /\ K_DATA_BOT % 4 = 0 /\ KDataSize \in Nat /\ KDataSize % 4 = 0
  /\ DataSize <= DataLimit /\ StackSize <= StackLimit /\ KDataSize <= KDataLimit
  /\ MM_IO_BOT \in Nat /\ MM_IO_TOP \in Nat
  /\ TEXT_BOT + 4 * TextWords <= DATA_BOT
  /\ DATA_BOT + DataLimit <= STACK_TOP - StackLimit
  /\ STACK_TOP <= K_DATA_BOT /\ K_DATA_BOT + KDataLimit <= MM_IO_BOT
  /\ Quantum \in Nat \ {0} /\ Quantum % 8 = 0 /\ Quantum <= KDataSize /\ Reach \in Nat
  /\ IntLimit \in Nat /\ IntLimit % 4 = 0
  /\ \A limit \in {DataLimit, StackLimit, KDataLimit} : limit \in Nat /\ limit < IntLimit
  /\ Addresses \subseteq Nat /\ Skips \subseteq Nat \ {0} /\ Junk \subseteq 0 .. 255
  /\ SbrkSizes \subseteq -IntLimit .. IntLimit - 1
  /\ Words \subseteq [1 .. 4 -> 0 .. 255] /\ MaxStores \in Nat

NULL == <<>>  \* a word of text with no instruction

VARIABLES
  m,       \* the segments: [text, data, stack, kdata]
  pc,      \* [data, kdata]: where the assembler stores the next datum
  last,    \* the last operation and how it ended: [op, addr, bytes, outcome]
  stores   \* bound: stores and data so far
vars == <<m, pc, last, stores>>

Zeros(n)   == [i \in 1 .. n |-> 0]
ROUND_UP(n, k) == ((n + k - 1) \div k) * k
Int32(n)   == ((n + IntLimit) % (2 * IntLimit)) - IntLimit
Larger(a, b)  == IF a > b THEN a ELSE b

data_top(s)   == DATA_BOT + Len(s.data)
stack_bot(s)  == STACK_TOP - Len(s.stack)
k_data_top(s) == K_DATA_BOT + Len(s.kdata)

\* What an address belongs to.
Region(s, a) ==
  CASE a >= DATA_BOT /\ a < data_top(s)     -> "data"
    [] a >= stack_bot(s) /\ a < STACK_TOP   -> "stack"
    [] a >= K_DATA_BOT /\ a < k_data_top(s) -> "kdata"
    [] a >= TEXT_BOT /\ a < TEXT_BOT + 4 * TextWords -> "text"
    [] a > data_top(s) /\ a < stack_bot(s)  ->
         IF a > stack_bot(s) - Reach THEN "below the stack" ELSE "none"
    [] MM_IO_BOT <= a /\ a <= MM_IO_TOP     -> "device"
    [] OTHER -> "none"
Base(s, region) == CASE region = "data"  -> DATA_BOT
                     [] region = "stack" -> stack_bot(s)
                     [] region = "kdata" -> K_DATA_BOT
TextIndex(a) == (a - TEXT_BOT) \div 4 + 1

\* bytes[1 ..] written over SEQ from its position AT.
Written(seq, at, bytes) ==
  [i \in DOMAIN seq |-> IF i \in at .. at + Len(bytes) - 1 THEN bytes[i - at + 1] ELSE seq[i]]

Done(s, outcome, bytes) == [m |-> s, outcome |-> outcome, bytes |-> bytes]

-----------------------------------------------------------------------------
(* Growth.                                                                 *)

\* expand_stack: the segment is at least doubled, and what it holds is copied
\* from its top down; refused when that exceeds the limit.
NewStackSize(s, n) == Len(s.stack) + Larger(ROUND_UP(n, 4), Len(s.stack))
\* Mutant: copied from the bottom, which is what realloc would do.
expand_stack_realloc(s, n) ==
  [s EXCEPT !.stack = @ \o Zeros(NewStackSize(s, n) - Len(@))]
expand_stack(s, n) ==
  [s EXCEPT !.stack = Zeros(NewStackSize(s, n) - Len(@)) \o @]

\* expand_data: run_error leaves the program and returns to the user; a size
\* past the int range passes for a small one, and realloc cannot give it.
\* Mutant: what is asked for is not rounded to words.
NewDataSize_exact(s, n) == Int32(Len(s.data) + n)
NewDataSize(s, n) == Int32(Len(s.data) + Int32(ROUND_UP(n, 4)))
\* Mutant: the size asked for is compared before it is rounded.
expand_data_unrounded(s, n) ==
  CASE n < 0 \/ Len(s.data) + n > DataLimit -> Done(s, "run_error", <<>>)
    [] ~(n < 0 \/ Len(s.data) + n > DataLimit) ->
         Done([s EXCEPT !.data = @ \o Zeros(NewDataSize(s, n) - Len(@))], "ok", <<>>)
expand_data(s, n) ==
  LET size == NewDataSize(s, n)
  IN  CASE n < 0 \/ size > DataLimit -> Done(s, "run_error", <<>>)
        [] n >= 0 /\ size < 0        -> Done(s, "fatal_error", <<>>)
        [] n >= 0 /\ size \in 0 .. DataLimit ->
             Done([s EXCEPT !.data = @ \o Zeros(size - Len(@))], "ok", <<>>)

\* expand_k_data: the bytes set to zero are not the new ones, but those at a
\* quarter of their place; the new ones hold what realloc gives.
expand_k_data(s, n, junk) ==
  LET old  == Len(s.kdata)
      size == old + ROUND_UP(n, 4)
  IN  IF size > KDataLimit THEN Done(s, "run_error", <<>>)
      ELSE Done([s EXCEPT !.kdata =
                   [i \in 1 .. size |-> IF i - 1 \in old \div 4 .. (size \div 4) - 1 THEN 0
                                        ELSE IF i <= old THEN @[i] ELSE junk]],
                "ok", <<>>)

-----------------------------------------------------------------------------
(* Loads and stores of n = 1, 2 or 4 bytes: read_mem_byte, _half, _word    *)
(* and set_mem_byte, _half, _word, with bad_mem_read and bad_mem_write for *)
(* what is not aligned memory of a data segment.                           *)

\* Mutant: a read leaves the growth to the first store.
ReadBelowStack_ungrown(s, a, n) == Done(s, "ok", Zeros(n))
ReadBelowStack(s, a, n) ==
  LET grown == expand_stack(s, stack_bot(s) - a + 4)
  IN  IF Len(grown.stack) > StackLimit THEN Done(s, "run_error", <<>>)
      ELSE Done(grown, "ok", Zeros(n))

read_mem(s, a, n) ==
  LET region == Region(s, a)
      word   == s.text[TextIndex(a)]
  IN CASE a % n # 0 -> Done(s, "AdEL", <<>>)
       [] a % n = 0 /\ region \in {"data", "stack", "kdata"} ->
            LET at == a - Base(s, region)
            IN  Done(s, "ok", SubSeq(s[region], at + 1, at + n))
       [] a % n = 0 /\ region = "text" ->
            IF word # NULL THEN Done(s, "ok", SubSeq(word, (a % 4) + 1, (a % 4) + n))
            ELSE IF n = 4 THEN Done(s, "ok", Zeros(4))
            ELSE Done(s, "crash", <<>>)      \* ENCODING (NULL)
       [] a % n = 0 /\ region = "below the stack" -> ReadBelowStack(s, a, n)
       [] a % n = 0 /\ region = "device" -> Done(s, "device", <<>>)
       [] a % n = 0 /\ region = "none"   -> Done(s, "DBE", <<>>)

Into(s, region, a, bytes) ==
  [s EXCEPT ![region] = Written(@, a - Base(s, region) + 1, bytes)]

set_mem(s, a, bytes) ==
  LET region == Region(s, a)
      n      == Len(bytes)
      word   == s.text[TextIndex(a)]
      grown  == expand_stack(s, stack_bot(s) - a + 4)
  IN CASE a % n # 0 -> Done(s, "AdES", bytes)
       [] a % n = 0 /\ region \in {"data", "stack", "kdata"} ->
            Done(Into(s, region, a, bytes), "ok", bytes)
       [] a % n = 0 /\ region = "text" ->
            IF n < 4 /\ word = NULL THEN Done(s, "crash", bytes)
            ELSE Done([s EXCEPT !.text[TextIndex(a)] =
                         IF n = 4 THEN bytes ELSE Written(@, (a % 4) + 1, bytes)], "ok", bytes)
       [] a % n = 0 /\ region = "below the stack" ->
            IF Len(grown.stack) > StackLimit THEN Done(s, "run_error", bytes)
            ELSE IF a >= stack_bot(grown) THEN Done(Into(grown, "stack", a, bytes), "ok", bytes)
            ELSE Done(grown, "DBE", bytes)
       [] a % n = 0 /\ region = "device" -> Done(s, "device", bytes)
       [] a % n = 0 /\ region = "none"   -> Done(s, "DBE", bytes)

\* set_mem_inst: outside text the word goes to memory all the same.
set_mem_inst(s, a, word) ==
  IF Region(s, a) = "text" /\ a % 4 = 0
  THEN Done([s EXCEPT !.text[TextIndex(a)] = word], "ok", word)
  ELSE [set_mem(s, a, word) EXCEPT !.outcome = IF @ = "ok" THEN "IBE" ELSE @]

-----------------------------------------------------------------------------
Running == last.outcome \notin {"crash", "fatal_error"}
Ends(op, a, result) ==
  /\ m' = result.m
  /\ last' = [op |-> op, addr |-> a, bytes |-> result.bytes, outcome |-> result.outcome]

\* make_memory: everything is freed and is zero again.
Empty == [text |-> [i \in 1 .. TextWords |-> NULL], data |-> Zeros(DataSize),
          stack |-> Zeros(StackSize), kdata |-> Zeros(KDataSize)]
FirstPc == [data |-> DATA_BOT, kdata |-> K_DATA_BOT]

Init == /\ m = Empty /\ pc = FirstPc /\ stores = 0
        /\ last = [op |-> "reset", addr |-> 0, bytes |-> <<>>, outcome |-> "ok"]

make_memory ==
  /\ Running
  /\ Ends("reset", 0, Done(Empty, "ok", <<>>))
  /\ pc' = FirstPc /\ UNCHANGED stores

Load(a, n) ==
  /\ Running
  /\ Ends("load", a, read_mem(m, a, n))
  /\ UNCHANGED <<pc, stores>>

Store(a, n, word) ==
  /\ Running /\ stores < MaxStores
  /\ Ends("store", a, set_mem(m, a, SubSeq(word, 1, n)))
  /\ stores' = stores + 1 /\ UNCHANGED pc

\* An instruction of the assembler, or a breakpoint.
StoreInst(a, word) ==
  /\ Running /\ stores < MaxStores
  /\ Ends("store", a, set_mem_inst(m, a, word))
  /\ stores' = stores + 1 /\ UNCHANGED pc

sbrk(n) ==
  /\ Running
  /\ LET grown == expand_data(m, n)
     IN  Ends("sbrk", data_top(m),
              IF grown.outcome = "ok" THEN [grown EXCEPT !.bytes = Zeros(n)] ELSE grown)
  /\ UNCHANGED <<pc, stores>>

\* increment_data_pc: the counter moves before the segment grows, and stays moved
\* when that fails.  Growth asks for whole quanta, and one byte more than reached.
Increment(s, kernel, n, junk) ==
  LET next  == (IF kernel THEN pc.kdata ELSE pc.data) + n
      top   == IF kernel THEN k_data_top(s) ELSE data_top(s)
      extra == ROUND_UP((next - top) + 1, Quantum)
  IN  IF top > next THEN Done(s, "ok", <<>>)
      ELSE IF kernel THEN expand_k_data(s, extra, junk) ELSE expand_data(s, extra)
Moved(kernel, n) == IF kernel THEN [pc EXCEPT !.kdata = @ + n] ELSE [pc EXCEPT !.data = @ + n]

\* store_byte, store_half and store_word: a datum that cannot be stored is not
\* reported, and the counter passes it.  One behind which the segment cannot grow
\* is in memory when run_error gives the file up.
PlaceDatum(kernel, n, word) ==
  /\ Running /\ stores < MaxStores
  /\ (IF kernel THEN pc.kdata ELSE pc.data) % n = 0
  /\ \E junk \in Junk :
       LET a      == IF kernel THEN pc.kdata ELSE pc.data
           stored == set_mem(m, a, SubSeq(word, 1, n))
           grown  == Increment(stored.m, kernel, n, junk)
       IN  Ends("store", a, [stored EXCEPT !.m = grown.m])
  /\ pc' = Moved(kernel, n) /\ stores' = stores + 1

\* .space
Space(kernel, n) ==
  /\ Running /\ stores < MaxStores
  /\ \E junk \in Junk : Ends("grow", 0, Increment(m, kernel, n, junk))
  /\ pc' = Moved(kernel, n) /\ stores' = stores + 1

\* .align: the counter may pass the top, and nothing grows.
Align(kernel, n) ==
  /\ Running
  /\ LET a == IF kernel THEN pc.kdata ELSE pc.data
     IN  pc' = Moved(kernel, ROUND_UP(a, n) - a) /\ pc' # pc
  /\ Ends("grow", 0, Done(m, "ok", <<>>))
  /\ UNCHANGED stores

Next ==
  \/ make_memory
  \/ \E a \in Addresses, n \in {1, 2, 4} :
       Load(a, n) \/ \E word \in Words : Store(a, n, word)
  \/ \E a \in Addresses, word \in Words : StoreInst(a, word)
  \/ \E n \in SbrkSizes : sbrk(n)
  \/ \E kernel \in BOOLEAN :
       \/ \E n \in {1, 2, 4}, word \in Words : PlaceDatum(kernel, n, word)
       \/ \E n \in Skips : Space(kernel, n) \/ Align(kernel, n)

Spec == Init /\ [][Next]_vars

-----------------------------------------------------------------------------
Bytes == 0 .. 255
Outcomes == {"ok", "AdEL", "AdES", "DBE", "IBE", "device", "run_error", "fatal_error", "crash"}

\* The segments are sequences of bytes, whole words long.
TypeOK ==
  /\ m.text \in [1 .. TextWords -> {NULL} \cup [1 .. 4 -> Bytes]]
  /\ \A s \in {m.data, m.stack, m.kdata} : s \in Seq(Bytes) /\ Len(s) % 4 = 0
  /\ pc.data \in Nat /\ pc.kdata \in Nat
  /\ last.bytes \in Seq(Bytes) /\ last.outcome \in Outcomes

\* However the segments grow, by whatever is touched, asked for or assembled in
\* whatever order, none exceeds its limit: neither by rounding, nor by doubling,
\* nor past the range of ints.
WithinLimits ==
  /\ Len(m.data) \in DataSize .. DataLimit
  /\ Len(m.stack) \in StackSize .. StackLimit
  /\ Len(m.kdata) \in KDataSize .. KDataLimit

\* Loading from an address and storing to it have the same fate: both are refused,
\* or both find memory there and make the stack grow by the same (bad_mem_read and
\* bad_mem_write decide it on their own).
Fate(result) ==
  <<IF result.outcome \in {"AdEL", "AdES"} THEN "misaligned" ELSE result.outcome,
    Len(result.m.stack)>>
SameFate ==
  \A a \in Addresses, n \in {1, 2, 4} : Fate(read_mem(m, a, n)) = Fate(set_mem(m, a, Zeros(n)))

\* The memory a program sees.
Mapped ==
  (TEXT_BOT .. (TEXT_BOT + 4 * TextWords) - 1) \cup (DATA_BOT .. data_top(m) - 1)
    \cup (stack_bot(m) .. STACK_TOP - 1) \cup (K_DATA_BOT .. k_data_top(m) - 1)
ByteAt(a) ==
  LET region == Region(m, a)
      word   == m.text[TextIndex(a)]
  IN  IF region # "text" THEN m[region][(a - Base(m, region)) + 1]
      ELSE IF word = NULL THEN 0 ELSE word[(a % 4) + 1]

\* The segments are one memory (FlatMemory): loads see what was stored last, stores
\* disturb nothing else, growth in either direction keeps what was there and adds
\* zeros, and blocks of sbrk are fresh.  An instruction set outside text raises an
\* exception and is stored all the same: it counts as stored.  The data of the
\* kernel are lost when they grow, and are left out of the promise then.
Flat == INSTANCE FlatMemory WITH
  memory <- [a \in Mapped |-> ByteAt(a)],
  last   <- [last EXCEPT !.outcome = IF @ = "IBE" THEN "ok" ELSE @],
  Lossy  <- K_DATA_BOT .. (K_DATA_BOT + KDataLimit) - 1
ImplementsFlatMemory == Flat!Spec

\* "Expand the kernel data segment by adding N bytes", "Zero new memory"
\* (CPU/mem.cpp:270, 287): what was there stays, and the new bytes are zero.
KernelDataExtended ==
  [][last'.op = "grow" =>
       \A i \in DOMAIN m'.kdata : m'.kdata[i] = IF i \in DOMAIN m.kdata THEN m.kdata[i] ELSE 0]_vars
===============================================================================
