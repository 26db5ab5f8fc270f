---------------------------- MODULE SegmentsProofs ----------------------------
(***************************************************************************)
(* Proofs about Segments, for every layout and size of the segments.       *)
(***************************************************************************)
EXTENDS Segments, TLAPS, SequenceTheorems

\* The four segments, three of them bytes, and the limits of those.
Shape(s) ==
  /\ s = [text |-> s.text, data |-> s.data, stack |-> s.stack, kdata |-> s.kdata]
  /\ s.data \in Seq(Bytes) /\ s.stack \in Seq(Bytes) /\ s.kdata \in Seq(Bytes)
InLimits(s) ==
  /\ Len(s.data) \in DataSize .. DataLimit
  /\ Len(s.stack) \in StackSize .. StackLimit
  /\ Len(s.kdata) \in KDataSize .. KDataLimit
Good(s) == Shape(s) /\ InLimits(s)

\* The inductive invariant.
Sound == Good(m) /\ pc \in [data : Int, kdata : Int]

-----------------------------------------------------------------------------
(***************************************************************************)
(* Numbers and sequences.                                                  *)
(***************************************************************************)
LEMMA Sizes ==
  /\ DataSize \in Nat /\ DataLimit \in Nat /\ DataSize <= DataLimit
  /\ StackSize \in Nat /\ StackLimit \in Nat /\ StackSize <= StackLimit
  /\ KDataSize \in Nat /\ KDataLimit \in Nat /\ KDataSize <= KDataLimit
  /\ IntLimit \in Nat \ {0} /\ Quantum \in Nat \ {0}
  /\ DATA_BOT \in Int /\ STACK_TOP \in Int /\ K_DATA_BOT \in Int
  <1>1. /\ DataSize \in Nat /\ DataSize <= DataLimit /\ StackSize \in Nat
        /\ StackSize <= StackLimit /\ KDataSize \in Nat /\ KDataSize <= KDataLimit
    BY SegmentsOK DEF SegmentsOK
  <1>2. \A limit \in {DataLimit, StackLimit, KDataLimit} : limit \in Nat /\ limit < IntLimit
    BY SegmentsOK DEF SegmentsOK
  <1>3. /\ DATA_BOT \in Nat /\ STACK_TOP \in Nat /\ K_DATA_BOT \in Nat
        /\ IntLimit \in Nat /\ Quantum \in Nat \ {0}
    BY SegmentsOK DEF SegmentsOK
  <1>4. DataLimit \in Nat /\ DataLimit < IntLimit /\ StackLimit \in Nat /\ KDataLimit \in Nat
    BY <1>2
  <1>5. IntLimit \in Nat \ {0}
    BY <1>3, <1>4
  <1>. QED  BY <1>1, <1>3, <1>4, <1>5

LEMMA Quotient ==
  ASSUME NEW x \in Int, NEW k \in Nat \ {0}
  PROVE  x \div k \in Int /\ (x >= 0 => x \div k >= 0)
  OBVIOUS

LEMMA Product ==
  ASSUME NEW x \in Int, NEW y \in Nat
  PROVE  x * y \in Int /\ (x >= 0 => x * y >= 0)
  OBVIOUS

\* Rounding up does not make a number negative.
LEMMA Rounded ==
  ASSUME NEW n \in Int, NEW k \in Nat \ {0}
  PROVE  ROUND_UP(n, k) \in Int /\ (n >= 0 => ROUND_UP(n, k) >= 0)
  <1>. DEFINE x == n + k - 1
  <1>1. x \in Int /\ (n >= 0 => x >= 0)
    OBVIOUS
  <1>. HIDE DEF x
  <1>2. x \div k \in Int /\ (x >= 0 => x \div k >= 0)
    BY <1>1, Quotient
  <1>. DEFINE q == x \div k
  <1>. HIDE DEF q
  <1>3. q \in Int /\ (x >= 0 => q >= 0)
    BY <1>2 DEF q
  <1>4. q * k \in Int /\ (q >= 0 => q * k >= 0)
    BY <1>3, Product
  <1>. QED  BY <1>1, <1>3, <1>4 DEF ROUND_UP, q, x

LEMMA RoundedToWords ==
  ASSUME NEW n \in Int
  PROVE  ROUND_UP(n, 4) \in Int /\ (n >= 0 => ROUND_UP(n, 4) >= 0)
  <1>1. 4 \in Nat \ {0}
    OBVIOUS
  <1>. QED  BY <1>1, Rounded

LEMMA Int32Type == ASSUME NEW n \in Int PROVE Int32(n) \in Int
  BY Sizes DEF Int32

LEMMA ZerosType ==
  ASSUME NEW n \in Int
  PROVE  Zeros(n) \in Seq(Bytes) /\ Len(Zeros(n)) = IF n > 0 THEN n ELSE 0
  <1>1. CASE n > 0
    BY <1>1 DEF Zeros, Bytes
  <1>2. CASE n <= 0
    <2>1. 1 .. n = {}
      BY <1>2
    <2>2. Zeros(n) = <<>>
      BY <2>1 DEF Zeros
    <2>. QED  BY <1>2, <2>2, EmptySeq
  <1>. QED  BY <1>1, <1>2

\* Writing over a sequence does not change its length.
LEMMA WrittenType ==
  ASSUME NEW seq \in Seq(Bytes), NEW first \in Int, NEW bytes \in Seq(Bytes)
  PROVE  /\ Written(seq, first, bytes) \in Seq(Bytes)
         /\ Len(Written(seq, first, bytes)) = Len(seq)
  <1>. DEFINE w == Written(seq, first, bytes)
  <1>1. Len(seq) \in Nat /\ Len(bytes) \in Nat
    BY LenProperties
  <1>2. ASSUME NEW i \in 1 .. Len(seq)
        PROVE  (IF i \in first .. first + Len(bytes) - 1 THEN bytes[i - first + 1]
                ELSE seq[i]) \in Bytes
    <2>1. CASE i \in first .. first + Len(bytes) - 1
      <3>1. i - first + 1 \in 1 .. Len(bytes)
        BY <1>1, <2>1
      <3>. QED  BY <2>1, <3>1, ElementOfSeq
    <2>. QED  BY <2>1, ElementOfSeq
  <1>3. DOMAIN seq = 1 .. Len(seq)
    BY LenProperties
  <1>4. w \in [1 .. Len(seq) -> Bytes]
    BY <1>2, <1>3 DEF Written
  <1>. HIDE DEF w
  <1>5. w \in Seq(Bytes) /\ Len(w) = Len(seq)
    BY <1>1, <1>4
  <1>. QED  BY <1>5 DEF w

-----------------------------------------------------------------------------
(***************************************************************************)
(* Growth.                                                                 *)
(***************************************************************************)
LEMMA StackGrows ==
  ASSUME NEW s, Good(s), NEW n \in Int
  PROVE  /\ Len(expand_stack(s, n).stack) \in Nat
         /\ Len(expand_stack(s, n).stack) >= Len(s.stack) + ROUND_UP(n, 4)
         /\ Len(expand_stack(s, n).stack) <= StackLimit => Good(expand_stack(s, n))
  <1>. DEFINE z == Zeros(NewStackSize(s, n) - Len(s.stack))
              g == expand_stack(s, n)
  <1>1. s.stack \in Seq(Bytes) /\ Len(s.stack) \in Nat /\ Len(s.stack) >= StackSize
    BY Sizes DEF Good, Shape, InLimits
  <1>2. /\ NewStackSize(s, n) \in Int /\ ROUND_UP(n, 4) \in Int
        /\ NewStackSize(s, n) >= Len(s.stack) + ROUND_UP(n, 4)
    <2>1. ROUND_UP(n, 4) \in Int
      BY RoundedToWords
    <2>. QED  BY <1>1, <2>1 DEF NewStackSize, Larger
  <1>3. z \in Seq(Bytes) /\ Len(z) \in Nat /\ Len(z) >= ROUND_UP(n, 4)
    <2>. DEFINE d == NewStackSize(s, n) - Len(s.stack)
    <2>1. d \in Int /\ d >= ROUND_UP(n, 4)
      BY <1>1, <1>2
    <2>. HIDE DEF d
    <2>2. Zeros(d) \in Seq(Bytes) /\ Len(Zeros(d)) = IF d > 0 THEN d ELSE 0
      BY <2>1, ZerosType
    <2>3. Len(Zeros(d)) \in Nat /\ Len(Zeros(d)) >= ROUND_UP(n, 4)
      BY <1>2, <2>1, <2>2
    <2>. QED  BY <2>2, <2>3 DEF d
  <1>. HIDE DEF z
  <1>4. z \o s.stack \in Seq(Bytes) /\ Len(z \o s.stack) = Len(z) + Len(s.stack)
    BY <1>1, <1>3, ConcatProperties
  <1>5. g = [s EXCEPT !.stack = z \o @]
    BY DEF expand_stack, z
  <1>6. g = [text |-> s.text, data |-> s.data, stack |-> z \o s.stack, kdata |-> s.kdata]
    BY <1>5 DEF Good, Shape
  <1>. HIDE DEF g
  <1>7. Len(g.stack) \in Nat /\ Len(g.stack) >= Len(s.stack) + ROUND_UP(n, 4)
    <2>1. Len(g.stack) = Len(z) + Len(s.stack)
      BY <1>4, <1>6
    <2>. DEFINE r == ROUND_UP(n, 4)
    <2>2. r \in Int /\ Len(z) \in Nat /\ Len(z) >= r
      BY <1>2, <1>3
    <2>. HIDE DEF r
    <2>3. Len(g.stack) \in Nat /\ Len(g.stack) >= Len(s.stack) + r
      BY <1>1, <2>1, <2>2
    <2>. QED  BY <2>3 DEF r
  <1>8. Len(g.stack) <= StackLimit => Good(g)
    BY <1>1, <1>3, <1>4, <1>6, Sizes DEF Good, Shape, InLimits
  <1>. QED  BY <1>7, <1>8 DEF g

LEMMA DataGrow ==
  ASSUME NEW s, Good(s), NEW n \in Int
  PROVE  /\ Good(expand_data(s, n).m)
         /\ expand_data(s, n) = Done(expand_data(s, n).m, expand_data(s, n).outcome,
                                     expand_data(s, n).bytes)
  <1>. DEFINE size == NewDataSize(s, n)
              z == Zeros(size - Len(s.data))
              longer == s.data \o z
              t == [s EXCEPT !.data = longer]
  <1>1. s.data \in Seq(Bytes) /\ Len(s.data) \in DataSize .. DataLimit
    BY DEF Good, Shape, InLimits
  <1>2. size \in Int
    <2>1. Int32(ROUND_UP(n, 4)) \in Int
      BY RoundedToWords, Int32Type
    <2>2. Len(s.data) + Int32(ROUND_UP(n, 4)) \in Int
      BY <1>1, <2>1, Sizes
    <2>. QED  BY <2>2, Int32Type DEF NewDataSize
  <1>. HIDE DEF size
  <1>3. z \in Seq(Bytes) /\ Len(z) = IF size - Len(s.data) > 0 THEN size - Len(s.data) ELSE 0
    <2>. DEFINE d == size - Len(s.data)
    <2>1. d \in Int
      BY <1>1, <1>2, Sizes
    <2>. HIDE DEF d
    <2>2. Zeros(d) \in Seq(Bytes) /\ Len(Zeros(d)) = IF d > 0 THEN d ELSE 0
      BY <2>1, ZerosType
    <2>. QED  BY <2>2 DEF d
  <1>. HIDE DEF z
  <1>4. s.data \o z \in Seq(Bytes) /\ Len(s.data \o z) = Len(s.data) + Len(z)
    BY <1>1, <1>3, ConcatProperties
  <1>. HIDE DEF longer
  <1>5. t = [text |-> s.text, data |-> longer, stack |-> s.stack, kdata |-> s.kdata]
    BY DEF Good, Shape
  <1>. HIDE DEF t
  <1>6. size \in 0 .. DataLimit => Good(t)
    <2>1. Shape(t)
      BY <1>4, <1>5 DEF Good, Shape, longer
    <2>2. size <= DataLimit => Len(t.data) \in DataSize .. DataLimit
      BY <1>1, <1>2, <1>3, <1>4, <1>5, Sizes DEF longer
    <2>3. size <= DataLimit => InLimits(t)
      BY <1>5, <2>2 DEF Good, InLimits
    <2>. QED  BY <1>2, <2>1, <2>3, Sizes DEF Good
  <1>7. expand_data(s, n) =
          CASE n < 0 \/ size > DataLimit -> Done(s, "run_error", <<>>)
            [] n >= 0 /\ size < 0        -> Done(s, "fatal_error", <<>>)
            [] n >= 0 /\ size \in 0 .. DataLimit -> Done(t, "ok", <<>>)
    BY DEF expand_data, size, z, longer, t
  <1>8. CASE n < 0 \/ size > DataLimit
    BY <1>2, <1>7, <1>8, Sizes DEF Done
  <1>9. CASE n >= 0 /\ size < 0
    BY <1>2, <1>7, <1>9, Sizes DEF Done
  <1>10. CASE n >= 0 /\ size \in 0 .. DataLimit
    BY <1>2, <1>6, <1>7, <1>10, Sizes DEF Done
  <1>. QED  BY <1>2, <1>8, <1>9, <1>10, Sizes

LEMMA KernelDataGrow ==
  ASSUME NEW s, Good(s), NEW n \in Nat, NEW junk \in Bytes
  PROVE  Good(expand_k_data(s, n, junk).m)
  <1>. DEFINE old == Len(s.kdata)
              size == old + ROUND_UP(n, 4)
              d == [i \in 1 .. size |-> IF i - 1 \in old \div 4 .. (size \div 4) - 1 THEN 0
                                        ELSE IF i <= old THEN s.kdata[i] ELSE junk]
              t == [s EXCEPT !.kdata = d]
  <1>1. s.kdata \in Seq(Bytes) /\ old \in KDataSize .. KDataLimit
    BY DEF Good, Shape, InLimits
  <1>2. size \in Nat /\ size >= old
    <2>1. ROUND_UP(n, 4) \in Int /\ ROUND_UP(n, 4) >= 0
      BY RoundedToWords
    <2>. QED  BY <1>1, <2>1, Sizes
  <1>. HIDE DEF size
  <1>3. \A i \in 1 .. size : i <= old => s.kdata[i] \in Bytes
    BY <1>1, <1>2, Sizes, ElementOfSeq
  <1>4. 0 \in Bytes
    BY DEF Bytes
  <1>5. d \in [1 .. size -> Bytes]
    BY <1>3, <1>4
  <1>. HIDE DEF d
  <1>6. d \in Seq(Bytes) /\ Len(d) = size
    BY <1>2, <1>5
  <1>7. t = [text |-> s.text, data |-> s.data, stack |-> s.stack, kdata |-> d]
    BY DEF Good, Shape
  <1>. HIDE DEF t
  <1>8. size <= KDataLimit => Good(t)
    BY <1>1, <1>2, <1>6, <1>7, Sizes DEF Good, Shape, InLimits
  <1>9. expand_k_data(s, n, junk) =
          IF size > KDataLimit THEN Done(s, "run_error", <<>>) ELSE Done(t, "ok", <<>>)
    BY DEF expand_k_data, size, t, d
  <1>. QED  BY <1>2, <1>8, <1>9, Sizes DEF Done

-----------------------------------------------------------------------------
(***************************************************************************)
(* Loads and stores.                                                       *)
(***************************************************************************)
LEMMA TopsAndBases ==
  ASSUME NEW s, Good(s), NEW a \in Int
  PROVE  /\ stack_bot(s) \in Int /\ data_top(s) \in Int /\ k_data_top(s) \in Int
         /\ \A region \in {"data", "stack", "kdata"} : Base(s, region) \in Int
         /\ stack_bot(s) - a + 4 \in Int
  <1>1. Len(s.stack) \in Int /\ Len(s.data) \in Int /\ Len(s.kdata) \in Int
    BY LenProperties DEF Good, Shape
  <1>2. stack_bot(s) \in Int /\ data_top(s) \in Int /\ k_data_top(s) \in Int
    BY <1>1, Sizes DEF stack_bot, data_top, k_data_top
  <1>3. \A region \in {"data", "stack", "kdata"} : Base(s, region) \in Int
    BY <1>2, Sizes DEF Base
  <1>. QED  BY <1>2, <1>3

\* Bytes are written into a segment, which stays as long as it was.
LEMMA IntoKeeps ==
  ASSUME NEW s, Good(s), NEW region \in {"data", "stack", "kdata"},
         NEW a \in Int, NEW bytes \in Seq(Bytes)
  PROVE  /\ Good(Into(s, region, a, bytes))
         /\ Len(Into(s, region, a, bytes).stack) = Len(s.stack)
  <1>. DEFINE first == a - Base(s, region) + 1
              w == Written(s[region], first, bytes)
              t == Into(s, region, a, bytes)
  <1>1. first \in Int
    <2>1. Base(s, region) \in Int
      BY TopsAndBases
    <2>. QED  BY <2>1
  <1>2. s[region] \in Seq(Bytes)
    BY DEF Good, Shape
  <1>3. t = [s EXCEPT ![region] = w]
    BY DEF Into
  <1>. HIDE DEF first
  <1>4. w \in Seq(Bytes) /\ Len(w) = Len(s[region])
    BY <1>1, <1>2, WrittenType
  <1>. HIDE DEF w, t
  <1>5. ASSUME region = "data"  PROVE Good(t) /\ Len(t.stack) = Len(s.stack)
    <2>1. t = [text |-> s.text, data |-> w, stack |-> s.stack, kdata |-> s.kdata]
      BY <1>3, <1>5 DEF Good, Shape
    <2>. QED  BY <1>4, <1>5, <2>1 DEF Good, Shape, InLimits
  <1>6. ASSUME region = "stack"  PROVE Good(t) /\ Len(t.stack) = Len(s.stack)
    <2>1. t = [text |-> s.text, data |-> s.data, stack |-> w, kdata |-> s.kdata]
      BY <1>3, <1>6 DEF Good, Shape
    <2>. QED  BY <1>4, <1>6, <2>1 DEF Good, Shape, InLimits
  <1>7. ASSUME region = "kdata"  PROVE Good(t) /\ Len(t.stack) = Len(s.stack)
    <2>1. t = [text |-> s.text, data |-> s.data, stack |-> s.stack, kdata |-> w]
      BY <1>3, <1>7 DEF Good, Shape
    <2>. QED  BY <1>4, <1>7, <2>1 DEF Good, Shape, InLimits
  <1>8. Good(t) /\ Len(t.stack) = Len(s.stack)
    BY <1>5, <1>6, <1>7
  <1>. QED  BY <1>8 DEF t

\* Text is no concern of the limits.
LEMMA TextChanges ==
  ASSUME NEW s, Good(s), NEW text
  PROVE  Good([s EXCEPT !.text = text])
  <1>1. [s EXCEPT !.text = text] =
          [text |-> text, data |-> s.data, stack |-> s.stack, kdata |-> s.kdata]
    BY DEF Good, Shape
  <1>. QED  BY <1>1 DEF Good, Shape, InLimits

\* What a touched address makes of the stack is bytes, and no shorter.
LEMMA Touched ==
  ASSUME NEW s, Good(s), NEW a \in Int
  PROVE  /\ Len(expand_stack(s, stack_bot(s) - a + 4).stack) \in Nat
         /\ Len(expand_stack(s, stack_bot(s) - a + 4).stack) <= StackLimit
              => Good(expand_stack(s, stack_bot(s) - a + 4))
  <1>1. stack_bot(s) - a + 4 \in Int
    BY TopsAndBases
  <1>. DEFINE n == stack_bot(s) - a + 4
  <1>. HIDE DEF n
  <1>2. n \in Int
    BY <1>1 DEF n
  <1>3. /\ Len(expand_stack(s, n).stack) \in Nat
        /\ Len(expand_stack(s, n).stack) <= StackLimit => Good(expand_stack(s, n))
    BY <1>2, StackGrows
  <1>. QED  BY <1>3 DEF n

LEMMA ReadKeeps ==
  ASSUME NEW s, Good(s), NEW a \in Int, NEW n
  PROVE  Good(read_mem(s, a, n).m)
  <1>. DEFINE region == Region(s, a)
              below == ReadBelowStack(s, a, n)
              grown == expand_stack(s, stack_bot(s) - a + 4)
  <1>1. Good(below.m)
    <2>1. Len(grown.stack) \in Nat /\ (Len(grown.stack) <= StackLimit => Good(grown))
      BY Touched
    <2>2. below = IF Len(grown.stack) > StackLimit THEN Done(s, "run_error", <<>>)
                  ELSE Done(grown, "ok", Zeros(n))
      BY DEF ReadBelowStack
    <2>. HIDE DEF grown, below
    <2>. QED  BY <2>1, <2>2, Sizes DEF Done
  <1>2. region \in {"data", "stack", "kdata", "text", "below the stack", "device", "none"}
    BY DEF Region
  <1>. QED  BY <1>1, <1>2 DEF read_mem, Done

LEMMA SetKeeps ==
  ASSUME NEW s, Good(s), NEW a \in Int, NEW bytes \in Seq(Bytes)
  PROVE  Good(set_mem(s, a, bytes).m)
  <1>. DEFINE region == Region(s, a)
              n      == Len(bytes)
              word   == s.text[TextIndex(a)]
              grown  == expand_stack(s, stack_bot(s) - a + 4)
              result == set_mem(s, a, bytes)
              new    == IF n = 4 THEN bytes ELSE Written(word, (a % 4) + 1, bytes)
              text   == [s.text EXCEPT ![TextIndex(a)] = new]
              t      == [s EXCEPT !.text = text]
  <1>1. region \in {"data", "stack", "kdata", "text", "below the stack", "device", "none"}
    BY DEF Region
  <1>2. CASE a % n # 0
    BY <1>2 DEF set_mem, Done
  <1>3. CASE a % n = 0 /\ region \in {"data", "stack", "kdata"}
    <2>1. result.m = Into(s, region, a, bytes)
      BY <1>3 DEF set_mem, Done
    <2>2. Good(Into(s, region, a, bytes))
      BY <1>3, IntoKeeps
    <2>. QED  BY <2>1, <2>2
  <1>4. CASE a % n = 0 /\ region = "text"
    <2>1. result.m = s \/ result.m = t
      BY <1>4 DEF set_mem, Done
    <2>. HIDE DEF text
    <2>2. Good(t)
      BY TextChanges
    <2>. QED  BY <2>1, <2>2
  <1>5. CASE a % n = 0 /\ region = "below the stack"
    <2>1. Len(grown.stack) \in Nat /\ (Len(grown.stack) <= StackLimit => Good(grown))
      BY Touched
    <2>2. result = IF Len(grown.stack) > StackLimit THEN Done(s, "run_error", bytes)
                   ELSE IF a >= stack_bot(grown) THEN Done(Into(grown, "stack", a, bytes), "ok", bytes)
                   ELSE Done(grown, "DBE", bytes)
      BY <1>5 DEF set_mem
    <2>3. Good(grown) => Good(Into(grown, "stack", a, bytes))
      <3>. HIDE DEF grown
      <3>. QED  BY IntoKeeps
    <2>. HIDE DEF grown, result
    <2>4. result.m \in {s, grown, Into(grown, "stack", a, bytes)}
          /\ (result.m # s => Len(grown.stack) <= StackLimit)
      BY <2>1, <2>2, Sizes DEF Done
    <2>5. Good(result.m)
      BY <2>1, <2>3, <2>4
    <2>. QED  BY <2>5 DEF result
  <1>6. CASE a % n = 0 /\ region \in {"device", "none"}
    BY <1>6 DEF set_mem, Done
  <1>. QED  BY <1>1, <1>2, <1>3, <1>4, <1>5, <1>6

LEMMA SetShape ==
  ASSUME NEW s, NEW a, NEW bytes
  PROVE  set_mem(s, a, bytes) =
           Done(set_mem(s, a, bytes).m, set_mem(s, a, bytes).outcome, set_mem(s, a, bytes).bytes)
  <1>1. Region(s, a) \in {"data", "stack", "kdata", "text", "below the stack", "device", "none"}
    BY DEF Region
  <1>. QED  BY <1>1 DEF set_mem, Done

LEMMA SetInstKeeps ==
  ASSUME NEW s, Good(s), NEW a \in Int, NEW word \in Seq(Bytes)
  PROVE  Good(set_mem_inst(s, a, word).m)
  <1>. DEFINE result == set_mem_inst(s, a, word)
              text   == [s.text EXCEPT ![TextIndex(a)] = word]
              t      == [s EXCEPT !.text = text]
              stored == set_mem(s, a, word)
  <1>1. Good(stored.m)
    BY SetKeeps
  <1>2. Good(t)
    <2>. HIDE DEF text
    <2>. QED  BY TextChanges
  <1>3. stored = Done(stored.m, stored.outcome, stored.bytes)
    BY SetShape
  <1>4. CASE Region(s, a) = "text" /\ a % 4 = 0
    BY <1>2, <1>4 DEF set_mem_inst, Done
  <1>5. CASE ~(Region(s, a) = "text" /\ a % 4 = 0)
    <2>1. result = [stored EXCEPT !.outcome = IF @ = "ok" THEN "IBE" ELSE @]
      BY <1>5 DEF set_mem_inst
    <2>. HIDE DEF stored, result
    <2>2. result.m = stored.m
      BY <1>3, <2>1 DEF Done
    <2>3. Good(result.m)
      BY <1>1, <2>2
    <2>. QED  BY <2>3 DEF result
  <1>. QED  BY <1>4, <1>5

-----------------------------------------------------------------------------
(***************************************************************************)
(* The assembler's location counters.                                      *)
(***************************************************************************)
\* Growth asks for a number of bytes that is not negative: the counter is past
\* the top.
LEMMA IncrementKeeps ==
  ASSUME NEW s, Good(s), pc \in [data : Int, kdata : Int], NEW kernel \in BOOLEAN,
         NEW n \in Int, NEW junk \in Bytes
  PROVE  Good(Increment(s, kernel, n, junk).m)
  <1>. DEFINE next  == (IF kernel THEN pc.kdata ELSE pc.data) + n
              top   == IF kernel THEN k_data_top(s) ELSE data_top(s)
              extra == ROUND_UP((next - top) + 1, Quantum)
              grown == IF kernel THEN expand_k_data(s, extra, junk) ELSE expand_data(s, extra)
  <1>1. next \in Int /\ top \in Int
    <2>1. data_top(s) \in Int /\ k_data_top(s) \in Int
      BY TopsAndBases, Sizes
    <2>. QED  BY <2>1
  <1>2. Increment(s, kernel, n, junk) = IF top > next THEN Done(s, "ok", <<>>) ELSE grown
    BY DEF Increment
  <1>. HIDE DEF next, top
  <1>3. extra \in Int /\ (next >= top => extra >= 0)
    <2>1. (next - top) + 1 \in Int /\ (next >= top => (next - top) + 1 >= 0)
      BY <1>1
    <2>. DEFINE x == (next - top) + 1
    <2>. HIDE DEF x
    <2>2. x \in Int /\ (next >= top => x >= 0)
      BY <2>1 DEF x
    <2>3. ROUND_UP(x, Quantum) \in Int /\ (x >= 0 => ROUND_UP(x, Quantum) >= 0)
      BY <2>2, Sizes, Rounded
    <2>. QED  BY <2>2, <2>3 DEF x
  <1>. HIDE DEF extra
  <1>4. Good(expand_data(s, extra).m)
    BY <1>3, DataGrow
  <1>5. next >= top => Good(expand_k_data(s, extra, junk).m)
    BY <1>3, KernelDataGrow
  <1>6. CASE top > next
    BY <1>2, <1>6 DEF Done
  <1>7. CASE next >= top
    BY <1>1, <1>2, <1>4, <1>5, <1>7
  <1>. QED  BY <1>1, <1>6, <1>7

LEMMA MovedType ==
  ASSUME pc \in [data : Int, kdata : Int], NEW kernel \in BOOLEAN, NEW n \in Int
  PROVE  Moved(kernel, n) \in [data : Int, kdata : Int]
  BY DEF Moved

LEMMA EmptyGood == Good(Empty) /\ FirstPc \in [data : Int, kdata : Int]
  <1>1. /\ Zeros(DataSize) \in Seq(Bytes) /\ Len(Zeros(DataSize)) = DataSize
        /\ Zeros(StackSize) \in Seq(Bytes) /\ Len(Zeros(StackSize)) = StackSize
        /\ Zeros(KDataSize) \in Seq(Bytes) /\ Len(Zeros(KDataSize)) = KDataSize
    <2>1. \A k \in Nat : Zeros(k) \in Seq(Bytes) /\ Len(Zeros(k)) = k
      BY ZerosType
    <2>. QED  BY <2>1, Sizes
  <1>2. Good(Empty)
    BY <1>1, Sizes DEF Empty, Good, Shape, InLimits
  <1>. QED  BY <1>2, Sizes DEF FirstPc

\* The bytes of a datum.
LEMMA Datum ==
  ASSUME NEW word \in Words, NEW n \in {1, 2, 4}
  PROVE  SubSeq(word, 1, n) \in Seq(Bytes) /\ word \in Seq(Bytes)
  <1>1. word \in [1 .. 4 -> Bytes]
    BY SegmentsOK DEF SegmentsOK, Bytes
  <1>2. \A k \in Nat : \A f \in [1 .. k -> Bytes] : f \in Seq(Bytes) /\ Len(f) = k
    OBVIOUS
  <1>3. word \in Seq(Bytes) /\ Len(word) = 4
    BY <1>1, <1>2
  <1>4. 1 \in Int /\ n \in Int /\ \A i \in 1 .. n : word[i] \in Bytes
    BY <1>1
  <1>5. SubSeq(word, 1, n) \in Seq(Bytes)
    BY <1>3, <1>4, SubSeqProperties
  <1>. QED  BY <1>3, <1>5

-----------------------------------------------------------------------------
(***************************************************************************)
(* The fate of loads and stores.                                           *)
(***************************************************************************)
LEMMA Enough ==
  ASSUME NEW x \in Int, NEW top \in Int, NEW old \in Nat, NEW new \in Nat, NEW a \in Int,
         x = (top - old) - a + 4, new >= old + ROUND_UP(x, 4)
  PROVE  a >= top - new
  <1>1. ROUND_UP(x, 4) = ((x + 3) \div 4) * 4
    BY DEF ROUND_UP
  <1>2. \A y \in Int : (y \div 4) * 4 \in Int /\ (y \div 4) * 4 >= y - 3
    OBVIOUS
  <1>. DEFINE r == ROUND_UP(x, 4)
  <1>3. r \in Int /\ r >= (x + 3) - 3
    BY <1>1, <1>2
  <1>. HIDE DEF r
  <1>4. new >= old + r
    BY DEF r
  <1>. QED  BY <1>3, <1>4

\* The stack grows as far as the address that was touched.
LEMMA Reached ==
  ASSUME NEW s, Good(s), NEW a \in Int, Region(s, a) = "below the stack"
  PROVE  a >= stack_bot(expand_stack(s, stack_bot(s) - a + 4))
  <1>. DEFINE n == stack_bot(s) - a + 4
              new == Len(expand_stack(s, n).stack)
              old == Len(s.stack)
  <1>1. n \in Int /\ n = (STACK_TOP - old) - a + 4
    BY TopsAndBases DEF stack_bot
  <1>2. stack_bot(expand_stack(s, n)) = STACK_TOP - new
    BY DEF stack_bot
  <1>3. old \in Nat
    BY LenProperties DEF Good, Shape
  <1>. HIDE DEF n
  <1>4. new \in Nat /\ new >= old + ROUND_UP(n, 4)
    BY <1>1, StackGrows
  <1>. HIDE DEF new, old
  <1>5. a >= STACK_TOP - new
    BY <1>1, <1>3, <1>4, Enough, Sizes
  <1>. QED  BY <1>2, <1>5 DEF n

LEMMA FateOf ==
  ASSUME NEW s, Good(s), NEW a \in Int, NEW n \in {1, 2, 4}
  PROVE  Fate(read_mem(s, a, n)) = Fate(set_mem(s, a, Zeros(n)))
  <1>. DEFINE bytes  == Zeros(n)
              region == Region(s, a)
              read   == read_mem(s, a, n)
              set    == set_mem(s, a, bytes)
              grown  == expand_stack(s, stack_bot(s) - a + 4)
  <1>1. bytes \in Seq(Bytes) /\ Len(bytes) = n
    BY ZerosType
  <1>2. region \in {"data", "stack", "kdata", "text", "below the stack", "device", "none"}
    BY DEF Region
  <1>. HIDE DEF bytes
  <1>3. CASE a % n # 0
    <2>1. read = Done(s, "AdEL", <<>>) /\ set = Done(s, "AdES", bytes)
      BY <1>1, <1>3 DEF read_mem, set_mem
    <2>. QED  BY <2>1 DEF Fate, Done, bytes
  <1>4. CASE a % n = 0 /\ region \in {"data", "stack", "kdata"}
    <2>. DEFINE into == Into(s, region, a, bytes)
                at   == a - Base(s, region)
    <2>1. Len(into.stack) = Len(s.stack)
      BY <1>1, <1>4, IntoKeeps
    <2>2. /\ read = Done(s, "ok", SubSeq(s[region], at + 1, at + n))
          /\ set = Done(into, "ok", bytes)
      BY <1>1, <1>4 DEF read_mem, set_mem
    <2>. HIDE DEF into
    <2>. QED  BY <2>1, <2>2 DEF Fate, Done, bytes
  <1>5. CASE a % n = 0 /\ region = "text"
    <2>. DEFINE word == s.text[TextIndex(a)]
                text == [s.text EXCEPT ![TextIndex(a)] =
                           IF n = 4 THEN bytes ELSE Written(@, (a % 4) + 1, bytes)]
                t    == [s EXCEPT !.text = text]
    <2>1. set = IF n < 4 /\ word = NULL THEN Done(s, "crash", bytes) ELSE Done(t, "ok", bytes)
      BY <1>1, <1>5 DEF set_mem
    <2>2. read = IF word # NULL THEN Done(s, "ok", SubSeq(word, (a % 4) + 1, (a % 4) + n))
                 ELSE IF n = 4 THEN Done(s, "ok", Zeros(4)) ELSE Done(s, "crash", <<>>)
      BY <1>5 DEF read_mem
    <2>. HIDE DEF text
    <2>3. t.stack = s.stack
      BY DEF Good, Shape
    <2>. HIDE DEF word, t
    <2>. QED  BY <2>1, <2>2, <2>3 DEF Fate, Done, bytes
  <1>6. CASE a % n = 0 /\ region = "below the stack"
    <2>. DEFINE into == Into(grown, "stack", a, bytes)
                big  == Len(grown.stack) > StackLimit
    <2>1. Len(grown.stack) \in Nat /\ (~big => Good(grown))
      <3>1. Len(grown.stack) \in Nat /\ (Len(grown.stack) <= StackLimit => Good(grown))
        BY Touched
      <3>. HIDE DEF grown
      <3>. QED  BY <3>1, Sizes
    <2>2. read = IF big THEN Done(s, "run_error", <<>>) ELSE Done(grown, "ok", Zeros(n))
      BY <1>6 DEF read_mem, ReadBelowStack
    <2>3. a >= stack_bot(grown)
      BY <1>6, Reached
    <2>4. set = IF big THEN Done(s, "run_error", bytes) ELSE Done(into, "ok", bytes)
      BY <1>1, <1>6, <2>3 DEF set_mem
    <2>. HIDE DEF grown, big
    <2>5. ~big => Len(into.stack) = Len(grown.stack)
      BY <1>1, <2>1, IntoKeeps
    <2>. HIDE DEF into
    <2>. QED  BY <2>2, <2>4, <2>5 DEF Fate, Done, bytes
  <1>7. CASE a % n = 0 /\ region = "device"
    <2>1. read = Done(s, "device", <<>>) /\ set = Done(s, "device", bytes)
      BY <1>1, <1>7 DEF read_mem, set_mem
    <2>. QED  BY <2>1 DEF Fate, Done, bytes
  <1>8. CASE a % n = 0 /\ region = "none"
    <2>1. read = Done(s, "DBE", <<>>) /\ set = Done(s, "DBE", bytes)
      BY <1>1, <1>8 DEF read_mem, set_mem
    <2>. QED  BY <2>1 DEF Fate, Done, bytes
  <1>. QED  BY <1>2, <1>3, <1>4, <1>5, <1>6, <1>7, <1>8

-----------------------------------------------------------------------------
LEMMA InitSound == Init => Sound
  BY EmptyGood DEF Init, Sound

LEMMA StepSound == Sound /\ [Next]_vars => Sound'
  <1>. SUFFICES ASSUME Sound, [Next]_vars  PROVE Sound'
    OBVIOUS
  <1>. DEFINE Pcs == [data : Int, kdata : Int]
  <1>0. Good(m) /\ pc \in Pcs
    BY DEF Sound
  <1>a. Addresses \subseteq Int /\ Skips \subseteq Int /\ SbrkSizes \subseteq Int
        /\ Junk \subseteq Bytes
    BY SegmentsOK DEF SegmentsOK, Bytes
  <1>1. CASE make_memory
    <2>1. m' = Empty /\ pc' = FirstPc
      BY <1>1 DEF make_memory, Ends, Done
    <2>. QED  BY <2>1, EmptyGood DEF Sound
  <1>2. ASSUME NEW a \in Addresses, NEW n \in {1, 2, 4}, Load(a, n)  PROVE Sound'
    <2>1. m' = read_mem(m, a, n).m /\ pc' = pc
      BY <1>2 DEF Load, Ends
    <2>2. Good(read_mem(m, a, n).m)
      BY <1>0, <1>a, ReadKeeps
    <2>. QED  BY <1>0, <2>1, <2>2 DEF Sound
  <1>3. ASSUME NEW a \in Addresses, NEW n \in {1, 2, 4}, NEW word \in Words, Store(a, n, word)
        PROVE  Sound'
    <2>1. m' = set_mem(m, a, SubSeq(word, 1, n)).m /\ pc' = pc
      BY <1>3 DEF Store, Ends
    <2>2. Good(set_mem(m, a, SubSeq(word, 1, n)).m)
      BY <1>0, <1>a, Datum, SetKeeps
    <2>. QED  BY <1>0, <2>1, <2>2 DEF Sound
  <1>4. ASSUME NEW a \in Addresses, NEW word \in Words, StoreInst(a, word)  PROVE Sound'
    <2>1. m' = set_mem_inst(m, a, word).m /\ pc' = pc
      BY <1>4 DEF StoreInst, Ends
    <2>2. Good(set_mem_inst(m, a, word).m)
      BY <1>0, <1>a, Datum, SetInstKeeps
    <2>. QED  BY <1>0, <2>1, <2>2 DEF Sound
  <1>5. ASSUME NEW n \in SbrkSizes, sbrk(n)  PROVE Sound'
    <2>1. m' = expand_data(m, n).m /\ pc' = pc
      <3>1. expand_data(m, n) = Done(expand_data(m, n).m, expand_data(m, n).outcome,
                                     expand_data(m, n).bytes)
        BY <1>0, <1>a, DataGrow
      <3>. QED  BY <1>5, <3>1 DEF sbrk, Ends, Done
    <2>2. Good(expand_data(m, n).m)
      BY <1>0, <1>a, DataGrow
    <2>. QED  BY <1>0, <2>1, <2>2 DEF Sound
  <1>6. ASSUME NEW kernel \in BOOLEAN, NEW n \in {1, 2, 4}, NEW word \in Words,
               PlaceDatum(kernel, n, word)
        PROVE  Sound'
    <2>. DEFINE a == IF kernel THEN pc.kdata ELSE pc.data
                stored == set_mem(m, a, SubSeq(word, 1, n))
    <2>1. PICK junk \in Junk : Ends("store", a,
                 [stored EXCEPT !.m = Increment(stored.m, kernel, n, junk).m])
      BY <1>6 DEF PlaceDatum
    <2>2. stored = Done(stored.m, stored.outcome, stored.bytes)
      BY SetShape
    <2>3. Good(stored.m)
      BY <1>0, Datum, SetKeeps
    <2>. HIDE DEF stored
    <2>4. m' = Increment(stored.m, kernel, n, junk).m
      BY <2>1, <2>2 DEF Ends, Done
    <2>5. Good(Increment(stored.m, kernel, n, junk).m)
      BY <1>0, <1>a, <2>3, IncrementKeeps
    <2>6. pc' \in Pcs
      BY <1>0, <1>6, MovedType DEF PlaceDatum
    <2>. QED  BY <2>4, <2>5, <2>6 DEF Sound
  <1>7. ASSUME NEW kernel \in BOOLEAN, NEW n \in Skips, Space(kernel, n)  PROVE Sound'
    <2>1. PICK junk \in Junk : m' = Increment(m, kernel, n, junk).m
      BY <1>7 DEF Space, Ends
    <2>2. Good(Increment(m, kernel, n, junk).m)
      BY <1>0, <1>a, IncrementKeeps
    <2>3. pc' \in Pcs
      BY <1>0, <1>7, <1>a, MovedType DEF Space
    <2>. QED  BY <2>1, <2>2, <2>3 DEF Sound
  <1>8. ASSUME NEW kernel \in BOOLEAN, NEW n \in Skips, Align(kernel, n)  PROVE Sound'
    <2>. DEFINE a == IF kernel THEN pc.kdata ELSE pc.data
    <2>1. m' = m /\ pc' = Moved(kernel, ROUND_UP(a, n) - a)
      BY <1>8 DEF Align, Ends, Done
    <2>2. a \in Int
      BY <1>0
    <2>. HIDE DEF a
    <2>3. n \in Nat \ {0}
      BY SegmentsOK DEF SegmentsOK
    <2>4. ROUND_UP(a, n) \in Int
      BY <2>2, <2>3, Rounded
    <2>5. pc' \in Pcs
      BY <1>0, <2>1, <2>2, <2>4, MovedType
    <2>. QED  BY <1>0, <2>1, <2>5 DEF Sound
  <1>9. CASE UNCHANGED vars
    BY <1>0, <1>9 DEF Sound, vars
  <1>. QED  BY <1>1, <1>2, <1>3, <1>4, <1>5, <1>6, <1>7, <1>8, <1>9 DEF Next

\* Whatever is loaded, stored, asked for by sbrk or assembled, in whatever order,
\* with segments, limits, quantum and ints of whatever size SegmentsOK admits, no
\* segment exceeds its limit: the checks of CPU/mem.cpp are made after all rounding.
THEOREM Limits == Spec => []WithinLimits
  <1>1. Init => Sound
    BY InitSound
  <1>2. Sound /\ [Next]_vars => Sound'
    BY StepSound
  <1>3. Sound => WithinLimits
    BY DEF Sound, Good, InLimits, WithinLimits
  <1>. QED  BY <1>1, <1>2, <1>3, PTL DEF Spec

\* Wherever the segments have grown to, a load from an address and a store to it
\* end alike: bad_mem_read and bad_mem_write refuse the same addresses, and extend
\* the stack by the same.
THEOREM SameFates == Spec => []SameFate
  <1>1. Init => Sound
    BY InitSound
  <1>2. Sound /\ [Next]_vars => Sound'
    BY StepSound
  <1>3. Sound => SameFate
    <2>1. Addresses \subseteq Int
      BY SegmentsOK DEF SegmentsOK
    <2>. QED  BY <2>1, FateOf DEF Sound, SameFate
  <1>. QED  BY <1>1, <1>2, <1>3, PTL DEF Spec

-----------------------------------------------------------------------------
(***************************************************************************)
(* The segments hold whole words, however they grow.                       *)
(***************************************************************************)
Whole(s) ==
  /\ s.text \in [1 .. TextWords -> {NULL} \cup [1 .. 4 -> Bytes]]
  /\ Len(s.data) % 4 = 0 /\ Len(s.stack) % 4 = 0 /\ Len(s.kdata) % 4 = 0
Fine(s) == Good(s) /\ Whole(s)

\* Zeros are added at one end, and the rest is as before.
StackGrown(s, t) ==
  LET k == Len(t.stack) - Len(s.stack)
  IN  /\ t.text = s.text /\ t.data = s.data /\ t.kdata = s.kdata /\ k >= 0
      /\ \A i \in 1 .. Len(t.stack) : t.stack[i] = IF i <= k THEN 0 ELSE s.stack[i - k]
DataGrown(s, t) ==
  /\ t.text = s.text /\ t.stack = s.stack /\ t.kdata = s.kdata
  /\ Len(t.data) >= Len(s.data)
  /\ \A i \in 1 .. Len(t.data) : t.data[i] = IF i <= Len(s.data) THEN s.data[i] ELSE 0
KernelGrown(s, t) ==
  /\ t.text = s.text /\ t.data = s.data /\ t.stack = s.stack
  /\ Len(t.kdata) > Len(s.kdata)

LEMMA WordsRounded ==
  ASSUME NEW n \in Int
  PROVE  /\ ROUND_UP(n, 4) \in Int /\ ROUND_UP(n, 4) % 4 = 0
         /\ ROUND_UP(n, 4) >= n /\ ROUND_UP(n, 4) <= n + 3
  <1>1. ROUND_UP(n, 4) = ((n + 3) \div 4) * 4
    BY DEF ROUND_UP
  <1>2. \A y \in Int : /\ (y \div 4) * 4 \in Int /\ ((y \div 4) * 4) % 4 = 0
                       /\ (y \div 4) * 4 >= y - 3 /\ (y \div 4) * 4 <= y
    OBVIOUS
  <1>. DEFINE r == ROUND_UP(n, 4)
  <1>3. r \in Int /\ r % 4 = 0 /\ r >= (n + 3) - 3 /\ r <= n + 3
    BY <1>1, <1>2
  <1>. HIDE DEF r
  <1>. QED  BY <1>3 DEF r

LEMMA IntSize == IntLimit \in Nat \ {0} /\ IntLimit % 4 = 0 /\ DataLimit < IntLimit
  <1>1. \A limit \in {DataLimit, StackLimit, KDataLimit} : limit \in Nat /\ limit < IntLimit
    BY SegmentsOK DEF SegmentsOK
  <1>. QED  BY <1>1, Sizes, SegmentsOK DEF SegmentsOK

LEMMA MultipleOfFour ==
  ASSUME NEW x \in Int, x % 4 = 0, NEW k \in Nat \ {0}, k % 4 = 0
  PROVE  x % k \in 0 .. k - 1 /\ (x % k) % 4 = 0
  <1>. DEFINE q == x \div k
              u == x \div 4
              v == k \div 4
  <1>1. q \in Int /\ x % k \in 0 .. k - 1 /\ x % k = x - k * q
    OBVIOUS
  <1>2. u \in Int /\ v \in Int /\ x = 4 * u /\ k = 4 * v
    OBVIOUS
  <1>. HIDE DEF q, u, v
  <1>. DEFINE p == v * q
  <1>3. p \in Int /\ k * q = 4 * p
    BY <1>1, <1>2
  <1>. HIDE DEF p
  <1>4. (4 * u - 4 * p) % 4 = 0
    BY <1>2, <1>3
  <1>. QED  BY <1>1, <1>2, <1>3, <1>4

LEMMA Wrapped ==
  ASSUME NEW n \in Int, n % 4 = 0
  PROVE  Int32(n) \in Int /\ Int32(n) % 4 = 0
  <1>. DEFINE x == n + IntLimit
              k == 2 * IntLimit
              r == x % k
  <1>1. x \in Int /\ x % 4 = 0 /\ k \in Nat \ {0} /\ k % 4 = 0
    BY IntSize
  <1>2. Int32(n) = r - IntLimit
    BY DEF Int32
  <1>. HIDE DEF x, k
  <1>3. r \in Int /\ r % 4 = 0
    <2>1. r \in 0 .. k - 1 /\ r % 4 = 0
      BY <1>1, MultipleOfFour, Zenon
    <2>. HIDE DEF r
    <2>. QED  BY <1>1, <2>1
  <1>. HIDE DEF r
  <1>. QED  BY <1>2, <1>3, IntSize

\* What is at hand for less than the limits is not wrapped; more is negative.
LEMMA Wrapping ==
  ASSUME NEW n \in 0 .. 2 * IntLimit - 1
  PROVE  Int32(n) = IF n < IntLimit THEN n ELSE n - 2 * IntLimit
  <1>. DEFINE k == 2 * IntLimit
  <1>1. k \in Nat \ {0} /\ IntLimit \in Nat \ {0} /\ n \in Int
    BY IntSize
  <1>2. \A x \in Int, y \in Nat \ {0} : (x \in 0 .. y - 1 => x % y = x)
    OBVIOUS
  <1>3. \A x \in Int, y \in Nat \ {0} : (x \in y .. 2 * y - 1 => x % y = x - y)
    <2>. SUFFICES ASSUME NEW x \in Int, NEW y \in Nat \ {0}, x \in y .. 2 * y - 1
                  PROVE  x % y = x - y
      OBVIOUS
    <2>. DEFINE q == x \div y
    <2>1. q \in Int /\ x % y \in 0 .. y - 1 /\ x % y = x - y * q
      OBVIOUS
    <2>2. q = 1
      <3>1. q \in Int /\ y * q <= x /\ x < y * q + y
        BY <2>1
      <3>. HIDE DEF q
      <3>2. q >= 1
        <4>. SUFFICES ASSUME q <= 0  PROVE FALSE
          BY <3>1
        <4>1. y * q <= 0
          BY <3>1
        <4>. QED  BY <3>1, <4>1
      <3>3. q < 2
        <4>. SUFFICES ASSUME q >= 2  PROVE FALSE
          BY <3>1
        <4>1. y * q >= y * 2
          BY <3>1
        <4>. QED  BY <3>1, <4>1
      <3>. QED  BY <3>1, <3>2, <3>3
    <2>. HIDE DEF q
    <2>. QED  BY <2>1, <2>2 DEF q
  <1>. DEFINE x == n + IntLimit
  <1>4. x \in Int /\ (n < IntLimit => x \in 0 .. k - 1) /\ (n >= IntLimit => x \in k .. 2 * k - 1)
    BY <1>1
  <1>5. Int32(n) = (x % k) - IntLimit
    BY DEF Int32
  <1>. HIDE DEF k
  <1>6. CASE n < IntLimit
    <2>1. x % k = x
      BY <1>1, <1>2, <1>4, <1>6
    <2>. QED  BY <1>1, <1>5, <1>6, <2>1
  <1>7. CASE n >= IntLimit
    <2>1. x % k = x - k
      BY <1>1, <1>3, <1>4, <1>7
    <2>. QED  BY <1>1, <1>5, <1>7, <2>1 DEF k
  <1>. QED  BY <1>1, <1>6, <1>7

LEMMA Lengths ==
  ASSUME NEW s, Fine(s)
  PROVE  /\ s.data \in Seq(Bytes) /\ s.stack \in Seq(Bytes) /\ s.kdata \in Seq(Bytes)
         /\ Len(s.data) \in Nat /\ Len(s.stack) \in Nat /\ Len(s.kdata) \in Nat
         /\ DataSize <= Len(s.data) /\ Len(s.data) <= DataLimit
         /\ StackSize <= Len(s.stack) /\ Len(s.stack) <= StackLimit
         /\ KDataSize <= Len(s.kdata) /\ Len(s.kdata) <= KDataLimit
         /\ Len(s.data) % 4 = 0 /\ Len(s.stack) % 4 = 0 /\ Len(s.kdata) % 4 = 0
  <1>1. /\ s.data \in Seq(Bytes) /\ s.stack \in Seq(Bytes) /\ s.kdata \in Seq(Bytes)
        /\ Len(s.data) % 4 = 0 /\ Len(s.stack) % 4 = 0 /\ Len(s.kdata) % 4 = 0
        /\ Len(s.data) \in DataSize .. DataLimit
        /\ Len(s.stack) \in StackSize .. StackLimit
        /\ Len(s.kdata) \in KDataSize .. KDataLimit
    BY DEF Fine, Whole, Good, Shape, InLimits
  <1>2. \A l \in Nat, h \in Nat : \A x \in l .. h : x \in Nat /\ l <= x /\ x <= h
    OBVIOUS
  <1>3. /\ Len(s.data) \in Nat /\ DataSize <= Len(s.data) /\ Len(s.data) <= DataLimit
        /\ Len(s.stack) \in Nat /\ StackSize <= Len(s.stack) /\ Len(s.stack) <= StackLimit
        /\ Len(s.kdata) \in Nat /\ KDataSize <= Len(s.kdata) /\ Len(s.kdata) <= KDataLimit
    BY <1>1, <1>2, Sizes, Zenon
  <1>. QED  BY <1>1, <1>3

LEMMA ZerosAre ==
  ASSUME NEW n \in Int
  PROVE  \A i \in 1 .. Len(Zeros(n)) : Zeros(n)[i] = 0
  <1>. SUFFICES ASSUME NEW i \in 1 .. Len(Zeros(n))  PROVE Zeros(n)[i] = 0
    OBVIOUS
  <1>. DEFINE k == Len(Zeros(n))
  <1>1. k = IF n > 0 THEN n ELSE 0
    BY ZerosType
  <1>2. i \in 1 .. k
    OBVIOUS
  <1>. HIDE DEF k
  <1>3. i \in 1 .. n
    BY <1>1, <1>2
  <1>. QED  BY <1>3 DEF Zeros

\* Whole words added up are whole words.
LEMMA WordsAdded ==
  ASSUME NEW x \in Int, x % 4 = 0, NEW y \in Int, y % 4 = 0
  PROVE  x + y \in Int /\ (x + y) % 4 = 0 /\ (x - y) % 4 = 0
  OBVIOUS

\* Zeros before a sequence, and behind it.
LEMMA ZerosBefore ==
  ASSUME NEW seq \in Seq(Bytes), NEW d \in Nat
  PROVE  /\ Zeros(d) \o seq \in Seq(Bytes) /\ Len(Zeros(d) \o seq) = d + Len(seq)
         /\ \A i \in 1 .. d + Len(seq) :
              (Zeros(d) \o seq)[i] = IF i <= d THEN 0 ELSE seq[i - d]
  <1>1. /\ Zeros(d) \in Seq(Bytes) /\ Len(Zeros(d)) = d
        /\ \A i \in 1 .. Len(Zeros(d)) : Zeros(d)[i] = 0
    BY ZerosType, ZerosAre
  <1>. DEFINE z == Zeros(d)
  <1>. HIDE DEF z
  <1>2. /\ z \o seq \in Seq(Bytes) /\ Len(z \o seq) = Len(z) + Len(seq)
        /\ \A i \in 1 .. Len(z) + Len(seq) :
             (z \o seq)[i] = IF i <= Len(z) THEN z[i] ELSE seq[i - Len(z)]
    BY <1>1, ConcatProperties DEF z
  <1>. QED  BY <1>1, <1>2, LenProperties DEF z

LEMMA ZerosBehind ==
  ASSUME NEW seq \in Seq(Bytes), NEW d \in Nat
  PROVE  /\ seq \o Zeros(d) \in Seq(Bytes) /\ Len(seq \o Zeros(d)) = Len(seq) + d
         /\ \A i \in 1 .. Len(seq) + d :
              (seq \o Zeros(d))[i] = IF i <= Len(seq) THEN seq[i] ELSE 0
  <1>1. /\ Zeros(d) \in Seq(Bytes) /\ Len(Zeros(d)) = d
        /\ \A i \in 1 .. Len(Zeros(d)) : Zeros(d)[i] = 0
    BY ZerosType, ZerosAre
  <1>. DEFINE z == Zeros(d)
  <1>. HIDE DEF z
  <1>2. /\ seq \o z \in Seq(Bytes) /\ Len(seq \o z) = Len(seq) + Len(z)
        /\ \A i \in 1 .. Len(seq) + Len(z) :
             (seq \o z)[i] = IF i <= Len(seq) THEN seq[i] ELSE z[i - Len(seq)]
    BY <1>1, ConcatProperties DEF z
  <1>3. ASSUME NEW i \in 1 .. Len(seq) + d
        PROVE  (seq \o z)[i] = IF i <= Len(seq) THEN seq[i] ELSE 0
    <2>1. Len(seq) \in Nat /\ Len(z) = d
      BY <1>1, LenProperties DEF z
    <2>2. i > Len(seq) => i - Len(seq) \in 1 .. Len(z)
      BY <2>1
    <2>3. \A j \in 1 .. Len(z) : z[j] = 0
      BY <1>1 DEF z
    <2>. QED  BY <1>2, <2>1, <2>2, <2>3
  <1>. QED  BY <1>1, <1>2, <1>3 DEF z

LEMMA StackGrownBy ==
  ASSUME NEW s, Fine(s), NEW n \in Int, Len(expand_stack(s, n).stack) <= StackLimit
  PROVE  Fine(expand_stack(s, n)) /\ StackGrown(s, expand_stack(s, n))
  <1>. DEFINE d == NewStackSize(s, n) - Len(s.stack)
              t == expand_stack(s, n)
  <1>1. s.stack \in Seq(Bytes) /\ Len(s.stack) \in Nat /\ Len(s.stack) % 4 = 0
    BY Lengths
  <1>2. d \in Nat /\ d % 4 = 0
    <2>. DEFINE r == ROUND_UP(n, 4)
    <2>1. r \in Int /\ r % 4 = 0
      BY WordsRounded
    <2>2. d = (Len(s.stack) + Larger(r, Len(s.stack))) - Len(s.stack)
      BY DEF NewStackSize
    <2>. HIDE DEF r, d
    <2>. DEFINE l == Len(s.stack)
    <2>3. l \in Nat /\ l % 4 = 0 /\ d = (l + Larger(r, l)) - l
      BY <1>1, <2>2
    <2>. HIDE DEF l
    <2>4. Larger(r, l) \in Nat /\ Larger(r, l) % 4 = 0
      BY <2>1, <2>3 DEF Larger
    <2>5. d = Larger(r, l)
      BY <2>3, <2>4
    <2>. QED  BY <2>4, <2>5
  <1>. DEFINE new == Zeros(d) \o s.stack
  <1>3. t = [s EXCEPT !.stack = new]
    BY DEF expand_stack
  <1>. HIDE DEF d
  <1>4. /\ new \in Seq(Bytes) /\ Len(new) = d + Len(s.stack)
        /\ \A i \in 1 .. d + Len(s.stack) : new[i] = IF i <= d THEN 0 ELSE s.stack[i - d]
    BY <1>1, <1>2, ZerosBefore
  <1>. HIDE DEF new
  <1>5. t = [text |-> s.text, data |-> s.data, stack |-> new, kdata |-> s.kdata]
    BY <1>3 DEF Fine, Good, Shape
  <1>6. Good(t)
    BY StackGrows DEF Fine
  <1>. HIDE DEF t
  <1>7. Whole(t)
    <2>1. Len(t.stack) = d + Len(s.stack) /\ d \in Int /\ Len(s.stack) \in Int
      BY <1>1, <1>2, <1>4, <1>5
    <2>2. (d + Len(s.stack)) % 4 = 0
      BY <1>1, <1>2, <2>1, WordsAdded, Zenon
    <2>3. Len(t.stack) % 4 = 0
      BY <2>1, <2>2, Zenon
    <2>. QED  BY <1>5, <2>3 DEF Fine, Whole
  <1>8. StackGrown(s, t)
    <2>. DEFINE k == Len(t.stack) - Len(s.stack)
    <2>1. k = d /\ t.stack = new
      BY <1>1, <1>2, <1>4, <1>5
    <2>. HIDE DEF k
    <2>. QED  BY <1>2, <1>4, <1>5, <2>1 DEF StackGrown, k
  <1>. QED  BY <1>6, <1>7, <1>8 DEF Fine, t

LEMMA DataSizes ==
  ASSUME NEW s, Fine(s), NEW n \in Int
  PROVE  /\ NewDataSize(s, n) \in Int /\ NewDataSize(s, n) % 4 = 0
         /\ n \in 0 .. IntLimit - 1 /\ NewDataSize(s, n) >= 0
              => NewDataSize(s, n) >= Len(s.data) + n
  <1>. DEFINE r == ROUND_UP(n, 4)
  <1>1. r \in Int /\ r % 4 = 0 /\ r >= n /\ r <= n + 3
    BY WordsRounded
  <1>. HIDE DEF r
  <1>2. NewDataSize(s, n) = Int32(Len(s.data) + Int32(r))
    BY DEF NewDataSize, r
  <1>3. Int32(r) \in Int /\ Int32(r) % 4 = 0
    BY <1>1, Wrapped
  <1>. DEFINE l == Len(s.data)
              x == l + Int32(r)
  <1>4. l \in Nat /\ l % 4 = 0 /\ l < IntLimit
    <2>1. l \in Nat /\ l % 4 = 0 /\ l <= DataLimit
      BY Lengths
    <2>. HIDE DEF l
    <2>. QED  BY <2>1, IntSize, Sizes
  <1>. HIDE DEF l
  <1>5. x \in Int /\ x % 4 = 0
    BY <1>3, <1>4, WordsAdded
  <1>6. Int32(x) \in Int /\ Int32(x) % 4 = 0
    <2>. HIDE DEF x
    <2>. QED  BY <1>5, Wrapped
  <1>7. ASSUME n \in 0 .. IntLimit - 1, Int32(x) >= 0  PROVE Int32(x) >= l + n
    <2>1. r <= IntLimit /\ r >= 0
      BY <1>1, <1>7, IntSize
    <2>2. r \in 0 .. 2 * IntLimit - 1
      BY <1>1, <2>1, IntSize
    <2>3. Int32(r) = IF r < IntLimit THEN r ELSE r - 2 * IntLimit
      BY <2>2, Wrapping
    <2>4. CASE r < IntLimit
      <3>1. x = l + r
        BY <2>3, <2>4
      <3>2. x \in 0 .. 2 * IntLimit - 1
        BY <1>1, <1>4, <2>1, <2>4, <3>1, IntSize
      <3>3. Int32(x) = IF x < IntLimit THEN x ELSE x - 2 * IntLimit
        BY <3>2, Wrapping
      <3>. HIDE DEF x
      <3>. QED  BY <1>1, <1>4, <1>7, <3>1, <3>2, <3>3, IntSize
    <2>5. CASE r = IntLimit
      <3>1. x = l - IntLimit
        BY <1>4, <2>3, <2>5, IntSize
      <3>2. \A y \in Int : y \in -IntLimit .. -1 => Int32(y) < 0
        <4>. SUFFICES ASSUME NEW y \in -IntLimit .. -1  PROVE Int32(y) < 0
          OBVIOUS
        <4>. DEFINE z == y + IntLimit
                    k == 2 * IntLimit
        <4>1. z \in 0 .. k - 1 /\ k \in Nat \ {0} /\ z < IntLimit
          BY IntSize
        <4>. HIDE DEF z, k
        <4>2. z % k = z
          BY <4>1
        <4>3. Int32(y) = (z % k) - IntLimit
          BY DEF Int32, z, k
        <4>. QED  BY <4>1, <4>2, <4>3, IntSize
      <3>3. x \in -IntLimit .. -1
        BY <1>4, <3>1, IntSize
      <3>. HIDE DEF x
      <3>. QED  BY <1>5, <1>6, <1>7, <3>2, <3>3
    <2>. QED  BY <1>1, <2>1, <2>4, <2>5, IntSize
  <1>. QED  BY <1>2, <1>6, <1>7 DEF l

-----------------------------------------------------------------------------
(***************************************************************************)
(* The segments lie apart, so that an address is in at most one.           *)
(***************************************************************************)
LEMMA Layout ==
  ASSUME NEW s, Fine(s)
  PROVE  /\ TEXT_BOT \in Nat /\ TextWords \in Nat /\ TEXT_BOT % 4 = 0
         /\ DATA_BOT \in Nat /\ STACK_TOP \in Nat /\ K_DATA_BOT \in Nat
         /\ DATA_BOT % 4 = 0 /\ STACK_TOP % 4 = 0 /\ K_DATA_BOT % 4 = 0
         /\ MM_IO_BOT \in Nat /\ MM_IO_TOP \in Nat /\ Reach \in Nat
         /\ data_top(s) \in Int /\ stack_bot(s) \in Int /\ k_data_top(s) \in Int
         /\ TEXT_BOT + 4 * TextWords <= DATA_BOT /\ DATA_BOT <= data_top(s)
         /\ data_top(s) <= DATA_BOT + DataLimit /\ DATA_BOT + DataLimit <= stack_bot(s)
         /\ stack_bot(s) <= STACK_TOP
         /\ STACK_TOP <= K_DATA_BOT /\ K_DATA_BOT <= k_data_top(s)
         /\ k_data_top(s) <= K_DATA_BOT + KDataLimit /\ K_DATA_BOT + KDataLimit <= MM_IO_BOT
  <1>1. /\ TEXT_BOT \in Nat /\ TextWords \in Nat /\ TEXT_BOT % 4 = 0
        /\ DATA_BOT \in Nat /\ STACK_TOP \in Nat /\ K_DATA_BOT \in Nat
        /\ DATA_BOT % 4 = 0 /\ STACK_TOP % 4 = 0 /\ K_DATA_BOT % 4 = 0
        /\ MM_IO_BOT \in Nat /\ MM_IO_TOP \in Nat /\ Reach \in Nat
        /\ TEXT_BOT + 4 * TextWords <= DATA_BOT
        /\ DATA_BOT + DataLimit <= STACK_TOP - StackLimit
        /\ STACK_TOP <= K_DATA_BOT /\ K_DATA_BOT + KDataLimit <= MM_IO_BOT
    BY SegmentsOK DEF SegmentsOK
  <1>. DEFINE d == Len(s.data)
              t == Len(s.stack)
              k == Len(s.kdata)
  <1>2. d \in Nat /\ d <= DataLimit /\ t \in Nat /\ t <= StackLimit /\ k \in Nat /\ k <= KDataLimit
    BY Lengths
  <1>3. data_top(s) = DATA_BOT + d /\ stack_bot(s) = STACK_TOP - t /\ k_data_top(s) = K_DATA_BOT + k
    BY DEF data_top, stack_bot, k_data_top
  <1>. HIDE DEF d, t, k
  <1>. QED  BY <1>1, <1>2, <1>3, Sizes

LEMMA Regions ==
  ASSUME NEW s, Fine(s), NEW a \in Int
  PROVE  /\ Region(s, a) = "data"  <=> DATA_BOT <= a /\ a < data_top(s)
         /\ Region(s, a) = "stack" <=> stack_bot(s) <= a /\ a < STACK_TOP
         /\ Region(s, a) = "kdata" <=> K_DATA_BOT <= a /\ a < k_data_top(s)
         /\ Region(s, a) = "text"  <=> TEXT_BOT <= a /\ a < TEXT_BOT + 4 * TextWords
         /\ Region(s, a) = "below the stack" => data_top(s) < a /\ a < stack_bot(s)
  <1>. DEFINE dt == data_top(s)
              sb == stack_bot(s)
              kt == k_data_top(s)
              tt == TEXT_BOT + 4 * TextWords
  <1>1. /\ TEXT_BOT \in Int /\ tt \in Int /\ DATA_BOT \in Int /\ STACK_TOP \in Int
        /\ K_DATA_BOT \in Int /\ dt \in Int /\ sb \in Int /\ kt \in Int
        /\ MM_IO_BOT \in Int /\ MM_IO_TOP \in Int /\ Reach \in Int
        /\ TEXT_BOT <= tt /\ tt <= DATA_BOT /\ DATA_BOT <= dt /\ dt <= sb /\ sb <= STACK_TOP
        /\ STACK_TOP <= K_DATA_BOT /\ K_DATA_BOT <= kt /\ kt <= MM_IO_BOT
    BY Layout, Sizes
  <1>. DEFINE inData   == a >= DATA_BOT /\ a < dt
              inStack  == a >= sb /\ a < STACK_TOP
              inKdata  == a >= K_DATA_BOT /\ a < kt
              inText   == a >= TEXT_BOT /\ a < tt
              between  == a > dt /\ a < sb
              inDevice == MM_IO_BOT <= a /\ a <= MM_IO_TOP
              beneath  == IF a > sb - Reach THEN "below the stack" ELSE "none"
  <1>2. Region(s, a) =
          CASE inData -> "data" [] inStack -> "stack" [] inKdata -> "kdata" [] inText -> "text"
            [] between -> beneath [] inDevice -> "device" [] OTHER -> "none"
    BY DEF Region
  <1>. HIDE DEF dt, sb, kt, tt
  <1>3. /\ inData  => ~inStack /\ ~inKdata /\ ~inText /\ ~between /\ ~inDevice
        /\ inStack => ~inKdata /\ ~inText /\ ~between /\ ~inDevice
        /\ inKdata => ~inText /\ ~between /\ ~inDevice
        /\ inText  => ~between /\ ~inDevice
        /\ between => ~inDevice
    BY <1>1
  <1>4. beneath \in {"below the stack", "none"}
    OBVIOUS
  <1>5. /\ inData \in BOOLEAN /\ inStack \in BOOLEAN /\ inKdata \in BOOLEAN
        /\ inText \in BOOLEAN /\ between \in BOOLEAN /\ inDevice \in BOOLEAN
    OBVIOUS
  <1>. HIDE DEF inData, inStack, inKdata, inText, between, inDevice, beneath
  <1>6. /\ inData  => Region(s, a) = "data"
        /\ inStack => Region(s, a) = "stack"
        /\ inKdata => Region(s, a) = "kdata"
        /\ inText  => Region(s, a) = "text"
    BY <1>2, <1>3, <1>5, Zenon
  <1>7. ~inData /\ ~inStack /\ ~inKdata /\ ~inText
        => Region(s, a) \in {"below the stack", "device", "none"}
    BY <1>2, <1>3, <1>4, <1>5, Zenon
  <1>8. ~inData /\ ~inStack /\ ~inKdata /\ ~inText /\ ~between
        => Region(s, a) \in {"device", "none"}
    BY <1>2, <1>3, <1>5, Zenon
  <1>9. /\ Region(s, a) = "data"  <=> inData
        /\ Region(s, a) = "stack" <=> inStack
        /\ Region(s, a) = "kdata" <=> inKdata
        /\ Region(s, a) = "text"  <=> inText
        /\ Region(s, a) = "below the stack" => between
    BY <1>6, <1>7, <1>8
  <1>. QED  BY <1>1, <1>9 DEF inData, inStack, inKdata, inText, between, dt, sb, kt, tt

\* An aligned access that starts in a segment ends in it.
LEMMA Aligned ==
  ASSUME NEW bot \in Int, bot % 4 = 0, NEW l \in Nat, l % 4 = 0,
         NEW a \in Int, bot <= a, a < bot + l, NEW n \in {1, 2, 4}, a % n = 0
  PROVE  a - bot \in Nat /\ (a - bot) + n <= l
  OBVIOUS

LEMMA Inside ==
  ASSUME NEW s, Fine(s), NEW a \in Int, Region(s, a) \in {"data", "stack", "kdata"},
         NEW n \in {1, 2, 4}, a % n = 0
  PROVE  /\ a - Base(s, Region(s, a)) \in Nat
         /\ (a - Base(s, Region(s, a))) + n <= Len(s[Region(s, a)])
  <1>1. /\ Len(s.data) \in Nat /\ Len(s.stack) \in Nat /\ Len(s.kdata) \in Nat
        /\ Len(s.data) % 4 = 0 /\ Len(s.stack) % 4 = 0 /\ Len(s.kdata) % 4 = 0
    BY Lengths
  <1>. DEFINE d == Len(s.data)
              t == Len(s.stack)
              k == Len(s.kdata)
  <1>2. /\ DATA_BOT \in Int /\ STACK_TOP \in Int /\ K_DATA_BOT \in Int
        /\ DATA_BOT % 4 = 0 /\ STACK_TOP % 4 = 0 /\ K_DATA_BOT % 4 = 0
    BY Layout
  <1>3. data_top(s) = DATA_BOT + d /\ stack_bot(s) = STACK_TOP - t /\ k_data_top(s) = K_DATA_BOT + k
    BY DEF data_top, stack_bot, k_data_top
  <1>4. d \in Nat /\ t \in Nat /\ k \in Nat /\ d % 4 = 0 /\ t % 4 = 0 /\ k % 4 = 0
    BY <1>1
  <1>5. ASSUME Region(s, a) = "data"
        PROVE  a - Base(s, Region(s, a)) \in Nat
               /\ (a - Base(s, Region(s, a))) + n <= Len(s[Region(s, a)])
    <2>1. Base(s, Region(s, a)) = DATA_BOT /\ Len(s[Region(s, a)]) = d
      BY <1>5 DEF Base
    <2>2. DATA_BOT <= a /\ a < data_top(s)
      BY <1>5, Regions
    <2>. HIDE DEF d
    <2>. QED  BY <1>2, <1>3, <1>4, <2>1, <2>2, Aligned
  <1>6. ASSUME Region(s, a) = "stack"
        PROVE  a - Base(s, Region(s, a)) \in Nat
               /\ (a - Base(s, Region(s, a))) + n <= Len(s[Region(s, a)])
    <2>1. Base(s, Region(s, a)) = stack_bot(s) /\ Len(s[Region(s, a)]) = t
      BY <1>6 DEF Base
    <2>2. stack_bot(s) <= a /\ a < STACK_TOP
      BY <1>6, Regions
    <2>. DEFINE b == stack_bot(s)
    <2>. HIDE DEF t, b
    <2>3. b = STACK_TOP - t
      BY <1>3 DEF b
    <2>4. b \in Int /\ b % 4 = 0 /\ a < b + t /\ b <= a
      BY <1>2, <1>4, <2>2, <2>3, WordsAdded DEF b
    <2>5. a - b \in Nat /\ (a - b) + n <= t
      BY <1>4, <2>4, Aligned
    <2>. QED  BY <2>1, <2>5 DEF b
  <1>7. ASSUME Region(s, a) = "kdata"
        PROVE  a - Base(s, Region(s, a)) \in Nat
               /\ (a - Base(s, Region(s, a))) + n <= Len(s[Region(s, a)])
    <2>1. Base(s, Region(s, a)) = K_DATA_BOT /\ Len(s[Region(s, a)]) = k
      BY <1>7 DEF Base
    <2>2. K_DATA_BOT <= a /\ a < k_data_top(s)
      BY <1>7, Regions
    <2>. HIDE DEF k
    <2>. QED  BY <1>2, <1>3, <1>4, <2>1, <2>2, Aligned
  <1>. QED  BY <1>5, <1>6, <1>7

LEMMA Extent ==
  ASSUME NEW s, Fine(s), NEW region \in {"data", "stack", "kdata"}, NEW x \in Int,
         Base(s, region) <= x, x < Base(s, region) + Len(s[region])
  PROVE  Region(s, x) = region
  <1>1. CASE region = "data"
    <2>1. Base(s, region) = DATA_BOT /\ data_top(s) = DATA_BOT + Len(s[region])
      BY <1>1 DEF Base, data_top
    <2>. QED  BY <1>1, <2>1, Regions
  <1>2. CASE region = "stack"
    <2>. DEFINE l == Len(s.stack)
    <2>1. Base(s, region) = stack_bot(s) /\ stack_bot(s) = STACK_TOP - l /\ Len(s[region]) = l
      BY <1>2 DEF Base, stack_bot
    <2>2. STACK_TOP \in Int /\ l \in Int
      BY Layout, Lengths
    <2>. HIDE DEF l
    <2>3. stack_bot(s) <= x /\ x < STACK_TOP
      BY <2>1, <2>2
    <2>. QED  BY <1>2, <2>3, Regions
  <1>3. CASE region = "kdata"
    <2>1. Base(s, region) = K_DATA_BOT /\ k_data_top(s) = K_DATA_BOT + Len(s[region])
      BY <1>3 DEF Base, k_data_top
    <2>. QED  BY <1>3, <2>1, Regions
  <1>. QED  BY <1>1, <1>2, <1>3

\* A word of text, and the addresses of its bytes.
LEMMA TextPlace ==
  ASSUME NEW s, Fine(s), NEW a \in Int, Region(s, a) = "text", NEW n \in {1, 2, 4}, a % n = 0
  PROVE  /\ TextIndex(a) \in 1 .. TextWords
         /\ a % 4 \in 0 .. 3 /\ (a % 4) + n <= 4
         /\ \A x \in a .. a + n - 1 : /\ TextIndex(x) = TextIndex(a)
                                      /\ x % 4 = (a % 4) + (x - a)
                                      /\ Region(s, x) = "text"
  <1>1. /\ TEXT_BOT \in Nat /\ TextWords \in Nat /\ TEXT_BOT % 4 = 0
    BY Layout
  <1>2. TEXT_BOT <= a /\ a < TEXT_BOT + 4 * TextWords
    BY Regions
  <1>3. TextIndex(a) \in 1 .. TextWords
    BY <1>1, <1>2 DEF TextIndex
  <1>4. a % 4 \in 0 .. 3 /\ (a % 4) + n <= 4
    OBVIOUS
  <1>5. ASSUME NEW x \in a .. a + n - 1
        PROVE  x % 4 = (a % 4) + (x - a) /\ TextIndex(x) = TextIndex(a) /\ Region(s, x) = "text"
    <2>1. x \in Int /\ x >= a /\ x < a + n
      OBVIOUS
    <2>2. x % 4 = (a % 4) + (x - a)
      BY <1>4, <2>1
    <2>3. (x - TEXT_BOT) \div 4 = (a - TEXT_BOT) \div 4
      BY <1>1, <2>1
    <2>4. x < TEXT_BOT + 4 * TextWords
      BY <1>1, <1>2, <2>1
    <2>5. TEXT_BOT <= x
      BY <1>1, <1>2, <2>1
    <2>6. Region(s, x) = "text"
      BY <2>1, <2>4, <2>5, Regions, Zenon
    <2>. QED  BY <2>2, <2>3, <2>6 DEF TextIndex
  <1>. QED  BY <1>3, <1>4, <1>5

-----------------------------------------------------------------------------
(***************************************************************************)
(* The segments as one memory.                                             *)
(***************************************************************************)
\* Mapped and ByteAt of any segments.
MappedOf(s) ==
  (TEXT_BOT .. (TEXT_BOT + 4 * TextWords) - 1) \cup (DATA_BOT .. data_top(s) - 1)
    \cup (stack_bot(s) .. STACK_TOP - 1) \cup (K_DATA_BOT .. k_data_top(s) - 1)
ByteOf(s, a) ==
  LET region == Region(s, a)
      word   == s.text[TextIndex(a)]
  IN  IF region # "text" THEN s[region][(a - Base(s, region)) + 1]
      ELSE IF word = NULL THEN 0 ELSE word[(a % 4) + 1]
View(s) == [a \in MappedOf(s) |-> ByteOf(s, a)]

LEMMA ViewIs ==
  /\ View(m) = [a \in Mapped |-> ByteAt(a)]
  /\ View(m)' = [a \in Mapped |-> ByteAt(a)]'
  BY DEF View, MappedOf, ByteOf, Mapped, ByteAt

\* An address holds a byte of the segment it belongs to.
LEMMA Held ==
  ASSUME NEW s, Fine(s), NEW a \in Int
  PROVE  /\ a \in MappedOf(s) <=> Region(s, a) \in {"text", "data", "stack", "kdata"}
         /\ a \in MappedOf(s) => View(s)[a] = ByteOf(s, a)
         /\ Region(s, a) = "data"  => ByteOf(s, a) = s.data[(a - DATA_BOT) + 1]
         /\ Region(s, a) = "stack" => ByteOf(s, a) = s.stack[(a - stack_bot(s)) + 1]
         /\ Region(s, a) = "kdata" => ByteOf(s, a) = s.kdata[(a - K_DATA_BOT) + 1]
         /\ Region(s, a) = "text"  => ByteOf(s, a) = IF s.text[TextIndex(a)] = NULL THEN 0
                                                     ELSE s.text[TextIndex(a)][(a % 4) + 1]
  <1>1. a \in MappedOf(s) <=> Region(s, a) \in {"text", "data", "stack", "kdata"}
    <2>. DEFINE dt == data_top(s)
                sb == stack_bot(s)
                kt == k_data_top(s)
                tt == TEXT_BOT + 4 * TextWords
    <2>1. dt \in Int /\ sb \in Int /\ kt \in Int /\ tt \in Int /\ TEXT_BOT \in Int
          /\ DATA_BOT \in Int /\ STACK_TOP \in Int /\ K_DATA_BOT \in Int
      BY Layout
    <2>2. a \in MappedOf(s) <=> \/ a \in TEXT_BOT .. tt - 1 \/ a \in DATA_BOT .. dt - 1
                                \/ a \in sb .. STACK_TOP - 1 \/ a \in K_DATA_BOT .. kt - 1
      BY DEF MappedOf
    <2>3. /\ Region(s, a) = "data"  <=> DATA_BOT <= a /\ a < dt
          /\ Region(s, a) = "stack" <=> sb <= a /\ a < STACK_TOP
          /\ Region(s, a) = "kdata" <=> K_DATA_BOT <= a /\ a < kt
          /\ Region(s, a) = "text"  <=> TEXT_BOT <= a /\ a < tt
      BY Regions
    <2>. HIDE DEF dt, sb, kt, tt
    <2>4. \A b \in Int, c \in Int : a \in b .. c - 1 <=> b <= a /\ a < c
      OBVIOUS
    <2>. QED  BY <2>1, <2>2, <2>3, <2>4
  <1>2. a \in MappedOf(s) => View(s)[a] = ByteOf(s, a)
    BY DEF View
  <1>3. Region(s, a) = "data"  => ByteOf(s, a) = s.data[(a - DATA_BOT) + 1]
    BY DEF ByteOf, Base
  <1>4. Region(s, a) = "stack" => ByteOf(s, a) = s.stack[(a - stack_bot(s)) + 1]
    BY DEF ByteOf, Base
  <1>5. Region(s, a) = "kdata" => ByteOf(s, a) = s.kdata[(a - K_DATA_BOT) + 1]
    BY DEF ByteOf, Base
  <1>6. Region(s, a) = "text"  => ByteOf(s, a) = IF s.text[TextIndex(a)] = NULL THEN 0
                                                 ELSE s.text[TextIndex(a)][(a % 4) + 1]
    BY DEF ByteOf
  <1>. QED  BY <1>1, <1>2, <1>3, <1>4, <1>5, <1>6

LEMMA MappedIsInt == ASSUME NEW s PROVE MappedOf(s) \subseteq Int /\ DOMAIN View(s) = MappedOf(s)
  BY DEF MappedOf, View

\* What stays, and is zero where it is new, is kept.
LEMMA KeptIf ==
  ASSUME NEW s, NEW t, NEW changed,
         \A a \in MappedOf(s) : a \in MappedOf(t) /\ (a \notin changed => ByteOf(t, a) = ByteOf(s, a)),
         \A a \in MappedOf(t) : a \notin MappedOf(s) => ByteOf(t, a) = 0
  PROVE  Flat!Kept(View(s), View(t), changed)
  BY DEF Flat!Kept, View

\* One change after the other.
LEMMA KeptTwice ==
  ASSUME NEW A, NEW B, NEW C, NEW p, NEW q, Flat!Kept(A, B, p), Flat!Kept(B, C, q)
  PROVE  Flat!Kept(A, C, p \cup q)
  <1>. DEFINE Lossy == K_DATA_BOT .. (K_DATA_BOT + KDataLimit) - 1
              lost(X, Y) == IF (DOMAIN Y \ DOMAIN X) \cap Lossy = {} THEN {} ELSE Lossy
  <1>1. /\ DOMAIN A \subseteq DOMAIN B
        /\ \A x \in DOMAIN A \ (p \cup lost(A, B)) : B[x] = A[x]
        /\ \A x \in (DOMAIN B \ DOMAIN A) \ (p \cup lost(A, B)) : B[x] = 0
    BY DEF Flat!Kept
  <1>2. /\ DOMAIN B \subseteq DOMAIN C
        /\ \A x \in DOMAIN B \ (q \cup lost(B, C)) : C[x] = B[x]
        /\ \A x \in (DOMAIN C \ DOMAIN B) \ (q \cup lost(B, C)) : C[x] = 0
    BY DEF Flat!Kept
  <1>. HIDE DEF Lossy
  <1>3. lost(A, B) \subseteq lost(A, C) /\ lost(B, C) \subseteq lost(A, C)
    BY <1>1, <1>2
  <1>. HIDE DEF lost
  <1>4. /\ DOMAIN A \subseteq DOMAIN C
        /\ \A x \in DOMAIN A \ ((p \cup q) \cup lost(A, C)) : C[x] = A[x]
        /\ \A x \in (DOMAIN C \ DOMAIN A) \ ((p \cup q) \cup lost(A, C)) : C[x] = 0
    BY <1>1, <1>2, <1>3
  <1>. QED  BY <1>4 DEF Flat!Kept, lost, Lossy

\* Bytes of segments that are as before.
LEMMA HeldAlike ==
  ASSUME NEW s, NEW t, Fine(s), Fine(t), NEW a \in Int, Region(t, a) = Region(s, a),
         \/ Region(s, a) = "text"  /\ t.text = s.text
         \/ Region(s, a) = "data"  /\ t.data = s.data
         \/ Region(s, a) = "stack" /\ t.stack = s.stack
         \/ Region(s, a) = "kdata" /\ t.kdata = s.kdata
  PROVE  a \in MappedOf(t) /\ a \in MappedOf(s) /\ ByteOf(t, a) = ByteOf(s, a)
  <1>1. a \in MappedOf(t) /\ a \in MappedOf(s)
    BY Held
  <1>2. CASE Region(s, a) = "text" /\ t.text = s.text
    BY <1>1, <1>2, Held
  <1>3. CASE Region(s, a) = "data" /\ t.data = s.data
    BY <1>1, <1>3, Held
  <1>4. CASE Region(s, a) = "stack" /\ t.stack = s.stack
    <2>1. stack_bot(t) = stack_bot(s)
      BY <1>4 DEF stack_bot
    <2>. QED  BY <1>1, <1>4, <2>1, Held
  <1>5. CASE Region(s, a) = "kdata" /\ t.kdata = s.kdata
    BY <1>1, <1>5, Held
  <1>. QED  BY <1>2, <1>3, <1>4, <1>5

LEMMA StackGrownView ==
  ASSUME NEW s, NEW t, Fine(s), Fine(t), StackGrown(s, t)
  PROVE  /\ \A a \in MappedOf(s) : a \in MappedOf(t) /\ ByteOf(t, a) = ByteOf(s, a)
         /\ \A a \in MappedOf(t) : a \notin MappedOf(s) => ByteOf(t, a) = 0
         /\ \A a \in Int : stack_bot(t) <= a /\ a < stack_bot(s)
                             => Region(t, a) = "stack" /\ ByteOf(t, a) = 0
  <1>. DEFINE sb == stack_bot(s)
              tb == stack_bot(t)
              new == Len(t.stack)
              old == Len(s.stack)
              k == new - old
  <1>1. /\ t.text = s.text /\ t.data = s.data /\ t.kdata = s.kdata /\ k >= 0
        /\ \A i \in 1 .. new : t.stack[i] = IF i <= k THEN 0 ELSE s.stack[i - k]
    BY DEF StackGrown
  <1>2. new \in Nat /\ old \in Nat
    BY Lengths
  <1>3. sb = STACK_TOP - old /\ tb = STACK_TOP - new
    BY DEF stack_bot
  <1>4. data_top(t) = data_top(s) /\ k_data_top(t) = k_data_top(s)
    BY <1>1 DEF data_top, k_data_top
  <1>5. sb <= STACK_TOP /\ STACK_TOP \in Int
    BY Layout
  <1>. HIDE DEF new, old
  <1>6. sb \in Int /\ tb \in Int /\ tb = sb - k /\ k \in Int
    BY <1>2, <1>3, <1>5
  <1>. HIDE DEF sb, tb, k
  <1>7. tb <= sb
    BY <1>1, <1>6
  <1>8. ASSUME NEW a \in Int, tb <= a, a < STACK_TOP
        PROVE  /\ Region(t, a) = "stack"
               /\ a >= sb => Region(s, a) = "stack" /\ ByteOf(t, a) = ByteOf(s, a)
               /\ a < sb => ByteOf(t, a) = 0
    <2>1. Region(t, a) = "stack" /\ (a >= sb => Region(s, a) = "stack")
      BY <1>5, <1>8, Regions DEF sb, tb
    <2>2. ByteOf(t, a) = t.stack[(a - tb) + 1]
      BY <2>1, Held DEF tb
    <2>3. (a - tb) + 1 \in 1 .. new
      BY <1>2, <1>3, <1>5, <1>6, <1>8
    <2>4. (a - tb) + 1 <= k <=> a < sb
      BY <1>6
    <2>5. ((a - tb) + 1) - k = (a - sb) + 1
      BY <1>6
    <2>6. a >= sb => ByteOf(s, a) = s.stack[(a - sb) + 1]
      BY <2>1, Held DEF sb
    <2>7. t.stack[(a - tb) + 1] =
            IF (a - tb) + 1 <= k THEN 0 ELSE s.stack[((a - tb) + 1) - k]
      BY <1>1, <2>3, Zenon
    <2>8. a < sb => ByteOf(t, a) = 0
      BY <2>2, <2>4, <2>7
    <2>9. a >= sb => ByteOf(t, a) = ByteOf(s, a)
      BY <1>6, <2>2, <2>4, <2>5, <2>6, <2>7
    <2>. QED  BY <2>1, <2>8, <2>9
  <1>9. ASSUME NEW a \in Int, ~(tb <= a /\ a < STACK_TOP)
        PROVE  /\ a \in MappedOf(s) => a \in MappedOf(t) /\ ByteOf(t, a) = ByteOf(s, a)
               /\ a \in MappedOf(t) => a \in MappedOf(s)
    <2>0. /\ Region(t, a) = "stack" <=> tb <= a /\ a < STACK_TOP
          /\ Region(s, a) = "stack" <=> sb <= a /\ a < STACK_TOP
      BY Regions DEF sb, tb
    <2>1. Region(t, a) # "stack" /\ Region(s, a) # "stack"
      BY <1>6, <1>7, <1>9, <2>0
    <2>2. /\ Region(t, a) = "data" <=> Region(s, a) = "data"
          /\ Region(t, a) = "kdata" <=> Region(s, a) = "kdata"
          /\ Region(t, a) = "text" <=> Region(s, a) = "text"
      BY <1>4, Regions
    <2>3. a \in MappedOf(s) <=> Region(s, a) \in {"text", "data", "kdata"}
      BY <2>1, Held
    <2>4. a \in MappedOf(t) <=> Region(t, a) \in {"text", "data", "kdata"}
      BY <2>1, Held
    <2>5. a \in MappedOf(s) => ByteOf(t, a) = ByteOf(s, a)
      BY <1>1, <2>2, <2>3, HeldAlike
    <2>. QED  BY <2>2, <2>3, <2>4, <2>5
  <1>10. MappedOf(s) \subseteq Int /\ MappedOf(t) \subseteq Int
    BY MappedIsInt
  <1>11. ASSUME NEW a \in Int, tb <= a, a < STACK_TOP
         PROVE  a \in MappedOf(t) /\ (a \in MappedOf(s) <=> a >= sb)
    <2>1. a \in MappedOf(t) /\ (a >= sb => a \in MappedOf(s))
      BY <1>8, <1>11, Held
    <2>2. ASSUME a < sb, a \in MappedOf(s)  PROVE FALSE
      <3>1. Region(s, a) \in {"text", "data", "stack", "kdata"}
        BY <2>2, Held
      <3>2. Region(s, a) # "stack" /\ Region(s, a) # "kdata"
        <4>1. /\ Region(s, a) = "stack" <=> sb <= a /\ a < STACK_TOP
              /\ Region(s, a) = "kdata" => K_DATA_BOT <= a
          BY Regions DEF sb
        <4>2. K_DATA_BOT \in Int /\ STACK_TOP <= K_DATA_BOT
          BY Layout
        <4>. QED  BY <1>5, <1>6, <1>11, <2>2, <4>1, <4>2
      <3>3. Region(t, a) = Region(s, a)
        BY <1>4, <3>1, <3>2, Regions
      <3>4. Region(t, a) = "stack"
        BY <1>8, <1>11
      <3>. QED  BY <3>2, <3>3, <3>4
    <2>. QED  BY <1>6, <2>1, <2>2
  <1>12. ASSUME NEW a \in MappedOf(s)  PROVE a \in MappedOf(t) /\ ByteOf(t, a) = ByteOf(s, a)
    BY <1>8, <1>9, <1>10, <1>11, <1>12
  <1>13. ASSUME NEW a \in MappedOf(t), a \notin MappedOf(s)  PROVE ByteOf(t, a) = 0
    <2>1. a \in Int /\ tb <= a /\ a < STACK_TOP
      BY <1>9, <1>10, <1>13
    <2>2. a < sb
      BY <1>6, <1>11, <1>13, <2>1
    <2>. QED  BY <1>8, <2>1, <2>2
  <1>14. ASSUME NEW a \in Int, tb <= a, a < sb
         PROVE  Region(t, a) = "stack" /\ ByteOf(t, a) = 0
    <2>1. a < STACK_TOP
      BY <1>5, <1>6, <1>14
    <2>. QED  BY <1>8, <1>14, <2>1
  <1>. QED  BY <1>12, <1>13, <1>14 DEF sb, tb

LEMMA DataGrownView ==
  ASSUME NEW s, NEW t, Fine(s), Fine(t), DataGrown(s, t)
  PROVE  /\ \A a \in MappedOf(s) : a \in MappedOf(t) /\ ByteOf(t, a) = ByteOf(s, a)
         /\ \A a \in MappedOf(t) : a \notin MappedOf(s) => ByteOf(t, a) = 0
         /\ \A a \in Int : data_top(s) <= a /\ a < data_top(t)
                             => /\ Region(t, a) = "data" /\ ByteOf(t, a) = 0
                                /\ a \notin MappedOf(s)
  <1>. DEFINE st == data_top(s)
              tt == data_top(t)
              new == Len(t.data)
              old == Len(s.data)
  <1>1. /\ t.text = s.text /\ t.stack = s.stack /\ t.kdata = s.kdata /\ new >= old
        /\ \A i \in 1 .. new : t.data[i] = IF i <= old THEN s.data[i] ELSE 0
    BY DEF DataGrown
  <1>2. new \in Nat /\ old \in Nat
    BY Lengths
  <1>3. st = DATA_BOT + old /\ tt = DATA_BOT + new
    BY DEF data_top
  <1>4. stack_bot(t) = stack_bot(s) /\ k_data_top(t) = k_data_top(s)
    BY <1>1 DEF stack_bot, k_data_top
  <1>5. DATA_BOT \in Int /\ st >= DATA_BOT
    BY Layout
  <1>. HIDE DEF new, old
  <1>6. st \in Int /\ tt \in Int /\ st <= tt
    BY <1>1, <1>2, <1>3, <1>5
  <1>. HIDE DEF st, tt
  <1>7. ASSUME NEW a \in Int
        PROVE  /\ Region(s, a) = "data" <=> DATA_BOT <= a /\ a < st
               /\ Region(t, a) = "data" <=> DATA_BOT <= a /\ a < tt
               /\ \A region \in {"text", "stack", "kdata"} :
                    Region(t, a) = region <=> Region(s, a) = region
    BY <1>4, Regions DEF st, tt
  <1>8. ASSUME NEW a \in Int, DATA_BOT <= a, a < tt
        PROVE  /\ Region(t, a) = "data"
               /\ a < st => Region(s, a) = "data" /\ ByteOf(t, a) = ByteOf(s, a)
               /\ a >= st => ByteOf(t, a) = 0
    <2>1. Region(t, a) = "data" /\ (a < st => Region(s, a) = "data")
      BY <1>7, <1>8
    <2>2. ByteOf(t, a) = t.data[(a - DATA_BOT) + 1]
      BY <2>1, Held
    <2>3. (a - DATA_BOT) + 1 \in 1 .. new
      BY <1>2, <1>3, <1>5, <1>6, <1>8
    <2>4. (a - DATA_BOT) + 1 <= old <=> a < st
      BY <1>2, <1>3, <1>5, <1>6
    <2>5. a < st => ByteOf(s, a) = s.data[(a - DATA_BOT) + 1]
      BY <2>1, Held
    <2>6. t.data[(a - DATA_BOT) + 1] =
            IF (a - DATA_BOT) + 1 <= old THEN s.data[(a - DATA_BOT) + 1] ELSE 0
      BY <1>1, <2>3, Zenon
    <2>7. a < st => ByteOf(t, a) = ByteOf(s, a)
      BY <2>2, <2>4, <2>5, <2>6
    <2>8. a >= st => ByteOf(t, a) = 0
      BY <1>6, <2>2, <2>4, <2>6
    <2>. QED  BY <2>1, <2>7, <2>8
  <1>9. ASSUME NEW a \in Int, ~(DATA_BOT <= a /\ a < tt)
        PROVE  /\ a \in MappedOf(s) => a \in MappedOf(t) /\ ByteOf(t, a) = ByteOf(s, a)
               /\ a \in MappedOf(t) => a \in MappedOf(s)
    <2>1. Region(t, a) # "data" /\ Region(s, a) # "data"
      BY <1>6, <1>7, <1>9
    <2>2. a \in MappedOf(s) <=> Region(s, a) \in {"text", "stack", "kdata"}
      BY <2>1, Held
    <2>3. a \in MappedOf(t) <=> Region(t, a) \in {"text", "stack", "kdata"}
      BY <2>1, Held
    <2>4. a \in MappedOf(s) => ByteOf(t, a) = ByteOf(s, a)
      BY <1>1, <1>7, <2>2, HeldAlike
    <2>. QED  BY <1>7, <2>2, <2>3, <2>4
  <1>10. MappedOf(s) \subseteq Int /\ MappedOf(t) \subseteq Int
    BY MappedIsInt
  <1>11. ASSUME NEW a \in Int, DATA_BOT <= a, a < tt
         PROVE  a \in MappedOf(t) /\ (a \in MappedOf(s) <=> a < st)
    <2>1. Region(t, a) = "data"
      BY <1>7, <1>11
    <2>2. Region(s, a) \in {"text", "stack", "kdata"} => FALSE
      BY <1>7, <2>1
    <2>3. a \in MappedOf(s) <=> Region(s, a) = "data"
      BY <2>2, Held
    <2>. QED  BY <1>7, <1>11, <2>1, <2>3, Held
  <1>12. ASSUME NEW a \in MappedOf(s)  PROVE a \in MappedOf(t) /\ ByteOf(t, a) = ByteOf(s, a)
    BY <1>8, <1>9, <1>10, <1>11, <1>12
  <1>13. ASSUME NEW a \in MappedOf(t), a \notin MappedOf(s)  PROVE ByteOf(t, a) = 0
    <2>1. a \in Int /\ DATA_BOT <= a /\ a < tt
      BY <1>9, <1>10, <1>13
    <2>2. a >= st
      BY <1>6, <1>11, <1>13, <2>1
    <2>. QED  BY <1>8, <2>1, <2>2
  <1>14. ASSUME NEW a \in Int, st <= a, a < tt
         PROVE  Region(t, a) = "data" /\ ByteOf(t, a) = 0 /\ a \notin MappedOf(s)
    <2>1. DATA_BOT <= a /\ ~(a < st)
      BY <1>5, <1>6, <1>14 DEF st
    <2>. QED  BY <1>8, <1>11, <1>14, <2>1
  <1>. QED  BY <1>12, <1>13, <1>14 DEF st, tt

\* Kernel data that grow may be lost, and nothing else is.
LEMMA KernelGrownKept ==
  ASSUME NEW s, NEW t, Fine(s), Fine(t), KernelGrown(s, t)
  PROVE  /\ Flat!Kept(View(s), View(t), {})
         /\ \A a \in MappedOf(s) : a \in MappedOf(t) /\ Region(t, a) = Region(s, a)
         /\ \A a \in MappedOf(s) : Region(s, a) # "kdata" => ByteOf(t, a) = ByteOf(s, a)
  <1>. DEFINE st == k_data_top(s)
              tt == k_data_top(t)
              Lossy == K_DATA_BOT .. (K_DATA_BOT + KDataLimit) - 1
  <1>1. t.text = s.text /\ t.stack = s.stack /\ t.data = s.data /\ Len(t.kdata) > Len(s.kdata)
    BY DEF KernelGrown
  <1>2. stack_bot(t) = stack_bot(s) /\ data_top(t) = data_top(s)
    BY <1>1 DEF stack_bot, data_top
  <1>3. /\ K_DATA_BOT \in Int /\ st \in Int /\ tt \in Int /\ st >= K_DATA_BOT
        /\ tt <= K_DATA_BOT + KDataLimit /\ KDataLimit \in Int
    BY Layout, Sizes
  <1>4. st < tt
    <2>. DEFINE new == Len(t.kdata)
                old == Len(s.kdata)
    <2>1. new \in Nat /\ old \in Nat /\ new > old
      BY <1>1, Lengths
    <2>2. st = K_DATA_BOT + old /\ tt = K_DATA_BOT + new
      BY DEF k_data_top
    <2>. HIDE DEF new, old
    <2>. QED  BY <1>3, <2>1, <2>2
  <1>. HIDE DEF st, tt
  <1>5. ASSUME NEW a \in Int
        PROVE  /\ Region(s, a) = "kdata" <=> K_DATA_BOT <= a /\ a < st
               /\ Region(t, a) = "kdata" <=> K_DATA_BOT <= a /\ a < tt
               /\ \A region \in {"text", "data", "stack"} :
                    Region(t, a) = region <=> Region(s, a) = region
    BY <1>2, Regions DEF st, tt
  <1>6. MappedOf(s) \subseteq Int /\ MappedOf(t) \subseteq Int
    BY MappedIsInt
  <1>7. ASSUME NEW a \in MappedOf(s)
        PROVE  /\ a \in MappedOf(t) /\ Region(t, a) = Region(s, a)
               /\ Region(s, a) # "kdata" => ByteOf(t, a) = ByteOf(s, a)
    <2>1. a \in Int /\ Region(s, a) \in {"text", "data", "stack", "kdata"}
      BY <1>6, Held
    <2>2. Region(t, a) = Region(s, a)
      BY <1>3, <1>4, <1>5, <2>1
    <2>. QED  BY <1>1, <2>1, <2>2, Held, HeldAlike
  <1>8. ASSUME NEW a \in Int, Region(t, a) = "kdata"  PROVE a \in Lossy
    BY <1>3, <1>5, <1>8
  <1>9. ASSUME NEW a \in MappedOf(t), a \notin MappedOf(s)  PROVE a \in Lossy
    <2>1. a \in Int /\ Region(t, a) \in {"text", "data", "stack", "kdata"}
      BY <1>6, Held
    <2>2. Region(s, a) \notin {"text", "data", "stack", "kdata"}
      BY <1>9, <2>1, Held
    <2>3. Region(t, a) = "kdata"
      BY <1>5, <2>1, <2>2
    <2>. QED  BY <1>8, <2>1, <2>3
  <1>10. st \in MappedOf(t) /\ st \notin MappedOf(s) /\ st \in Lossy
    <2>1. Region(t, st) = "kdata" /\ Region(s, st) # "kdata"
      BY <1>3, <1>4, <1>5
    <2>2. Region(s, st) \notin {"text", "data", "stack"}
      BY <1>3, <1>5, <2>1
    <2>. QED  BY <1>3, <1>8, <2>1, <2>2, Held
  <1>11. ASSUME NEW a \in MappedOf(s), a \notin Lossy  PROVE ByteOf(t, a) = ByteOf(s, a)
    <2>1. a \in Int /\ Region(t, a) = Region(s, a)
      BY <1>6, <1>7
    <2>2. Region(s, a) # "kdata"
      BY <1>8, <1>11, <2>1
    <2>. QED  BY <1>7, <2>2
  <1>. HIDE DEF Lossy
  <1>12. Flat!Kept(View(s), View(t), {})
    <2>1. DOMAIN View(s) = MappedOf(s) /\ DOMAIN View(t) = MappedOf(t)
      BY DEF View
    <2>2. MappedOf(s) \subseteq MappedOf(t)
      BY <1>7
    <2>3. (MappedOf(t) \ MappedOf(s)) \cap Lossy # {}
      BY <1>10
    <2>4. \A x \in MappedOf(s) \ ({} \cup Lossy) : View(t)[x] = View(s)[x]
      BY <1>11, <2>2 DEF View
    <2>5. \A x \in (MappedOf(t) \ MappedOf(s)) \ ({} \cup Lossy) : View(t)[x] = 0
      BY <1>9
    <2>. QED  BY <2>1, <2>2, <2>3, <2>4, <2>5 DEF Flat!Kept, Lossy
  <1>. QED  BY <1>7, <1>12

-----------------------------------------------------------------------------
(***************************************************************************)
(* Growth, and what it keeps.                                              *)
(***************************************************************************)
LEMMA DataGrownBy ==
  ASSUME NEW s, Fine(s), NEW n \in Int
  PROVE  LET r == expand_data(s, n)
         IN  /\ Fine(r.m) /\ r.bytes = <<>>
             /\ r.outcome = "ok" => /\ DataGrown(s, r.m) /\ n >= 0
                                    /\ n < IntLimit => Len(r.m.data) >= Len(s.data) + n
             /\ r.outcome # "ok" => r.m = s /\ r.outcome \in {"run_error", "fatal_error"}
  <1>. DEFINE size == NewDataSize(s, n)
              old == Len(s.data)
              d == IF size > old THEN size - old ELSE 0
              new == s.data \o Zeros(d)
              t == [s EXCEPT !.data = new]
              r == expand_data(s, n)
  <1>1. old \in Nat /\ old % 4 = 0 /\ s.data \in Seq(Bytes)
    BY Lengths
  <1>2. size \in Int /\ size % 4 = 0 /\ (n \in 0 .. IntLimit - 1 /\ size >= 0 => size >= old + n)
    BY DataSizes
  <1>3. Zeros(size - old) = Zeros(d)
    <2>. HIDE DEF size, old
    <2>1. CASE size > old
      BY <2>1
    <2>2. CASE size <= old
      <3>1. 1 .. size - old = {} /\ d = 0
        BY <1>1, <1>2, <2>2
      <3>2. 1 .. 0 = {}
        OBVIOUS
      <3>. QED  BY <3>1, <3>2 DEF Zeros
    <2>. QED  BY <1>1, <1>2, <2>1, <2>2
  <1>4. r = CASE n < 0 \/ size > DataLimit -> Done(s, "run_error", <<>>)
              [] n >= 0 /\ size < 0        -> Done(s, "fatal_error", <<>>)
              [] n >= 0 /\ size \in 0 .. DataLimit -> Done(t, "ok", <<>>)
    BY <1>3 DEF expand_data
  <1>. HIDE DEF size
  <1>5. d \in Nat /\ d % 4 = 0 /\ d >= size - old
    <2>. HIDE DEF old
    <2>1. (size - old) % 4 = 0
      BY <1>1, <1>2, WordsAdded
    <2>. QED  BY <1>1, <1>2, <2>1
  <1>. HIDE DEF d
  <1>6. /\ new \in Seq(Bytes) /\ Len(new) = old + d
        /\ \A i \in 1 .. old + d : new[i] = IF i <= old THEN s.data[i] ELSE 0
    BY <1>1, <1>5, ZerosBehind
  <1>. HIDE DEF new
  <1>7. t = [text |-> s.text, data |-> new, stack |-> s.stack, kdata |-> s.kdata]
    BY DEF Fine, Good, Shape
  <1>. HIDE DEF t
  <1>8. Len(t.data) = old + d /\ (old + d) % 4 = 0 /\ old + d >= old
    <2>. HIDE DEF old
    <2>1. (old + d) % 4 = 0 /\ old + d >= old
      BY <1>1, <1>5, WordsAdded
    <2>2. Len(t.data) = old + d
      BY <1>6, <1>7
    <2>. QED  BY <2>1, <2>2
  <1>9. DataGrown(s, t)
    <2>1. /\ t.text = s.text /\ t.stack = s.stack /\ t.kdata = s.kdata
          /\ t.data = new /\ Len(t.data) >= Len(s.data)
      BY <1>7, <1>8
    <2>2. \A i \in 1 .. Len(t.data) : t.data[i] = IF i <= Len(s.data) THEN s.data[i] ELSE 0
      BY <1>6, <1>8, <2>1
    <2>. QED  BY <2>1, <2>2 DEF DataGrown
  <1>10. Good(r.m)
    BY DataGrow DEF Fine
  <1>11. Whole(t)
    BY <1>7, <1>8 DEF Fine, Whole
  <1>12. CASE n < 0 \/ size > DataLimit
    <2>1. r = Done(s, "run_error", <<>>)
      BY <1>2, <1>4, <1>12, Sizes
    <2>. QED  BY <2>1 DEF Done
  <1>13. CASE n >= 0 /\ size < 0
    <2>1. r = Done(s, "fatal_error", <<>>)
      BY <1>2, <1>4, <1>13, Sizes
    <2>. QED  BY <2>1 DEF Done
  <1>14. CASE n >= 0 /\ size \in 0 .. DataLimit
    <2>1. r = Done(t, "ok", <<>>)
      BY <1>2, <1>4, <1>14, Sizes
    <2>2. r.m = t /\ r.outcome = "ok" /\ r.bytes = <<>>
      BY <2>1 DEF Done
    <2>3. n < IntLimit => old + d >= old + n
      <3>. HIDE DEF old
      <3>. QED  BY <1>1, <1>2, <1>5, <1>14, Sizes
    <2>. HIDE DEF r
    <2>4. n < IntLimit => Len(r.m.data) >= Len(s.data) + n
      BY <1>8, <2>2, <2>3
    <2>5. Fine(r.m) /\ DataGrown(s, r.m)
      BY <1>9, <1>10, <1>11, <2>2 DEF Fine
    <2>. QED  BY <1>14, <2>2, <2>4, <2>5 DEF r
  <1>. QED  BY <1>2, <1>12, <1>13, <1>14, Sizes

LEMMA KernelGrownBy ==
  ASSUME NEW s, Fine(s), NEW n \in Nat \ {0}, NEW junk \in Bytes
  PROVE  LET r    == expand_k_data(s, n, junk)
             old  == Len(s.kdata)
             size == old + ROUND_UP(n, 4)
         IN  /\ Fine(r.m)
             /\ r.m = s \/ (/\ KernelGrown(s, r.m) /\ Len(r.m.kdata) = size
                            /\ \A i \in 1 .. old : i > size \div 4 => r.m.kdata[i] = s.kdata[i])
  <1>. DEFINE r    == expand_k_data(s, n, junk)
              old  == Len(s.kdata)
              size == old + ROUND_UP(n, 4)
              new == [i \in 1 .. size |-> IF i - 1 \in old \div 4 .. (size \div 4) - 1 THEN 0
                                          ELSE IF i <= old THEN s.kdata[i] ELSE junk]
              t == [s EXCEPT !.kdata = new]
  <1>1. old \in Nat /\ old % 4 = 0 /\ s.kdata \in Seq(Bytes)
    BY Lengths
  <1>2. size \in Nat /\ size > old /\ size % 4 = 0
    <2>. DEFINE k == ROUND_UP(n, 4)
    <2>1. k \in Int /\ k >= n /\ k % 4 = 0
      BY WordsRounded
    <2>2. size = old + k
      OBVIOUS
    <2>. HIDE DEF old, size, k
    <2>3. (old + k) % 4 = 0
      BY <1>1, <2>1, WordsAdded
    <2>. QED  BY <1>1, <2>1, <2>2, <2>3
  <1>3. Good(r.m)
    BY KernelDataGrow DEF Fine
  <1>4. r = IF size > KDataLimit THEN Done(s, "run_error", <<>>) ELSE Done(t, "ok", <<>>)
    BY DEF expand_k_data
  <1>5. t = [text |-> s.text, data |-> s.data, stack |-> s.stack, kdata |-> new]
    <2>. HIDE DEF new
    <2>. QED  BY DEF Fine, Good, Shape
  <1>. HIDE DEF size
  <1>6. \A i \in 1 .. old : i > size \div 4 => new[i] = s.kdata[i]
    <2>. HIDE DEF old
    <2>1. old \div 4 \in Int /\ size \div 4 \in Int
      BY <1>1, <1>2
    <2>. QED  BY <1>1, <1>2, <2>1
  <1>7. Len(new) = size
    <2>. HIDE DEF old
    <2>. QED  BY <1>2
  <1>. HIDE DEF new, t, r
  <1>8. r.m = s \/ r.m = t
    BY <1>4 DEF Done
  <1>9. Whole(t)
    BY <1>2, <1>5, <1>7 DEF Fine, Whole
  <1>10. KernelGrown(s, t) /\ t.kdata = new
    BY <1>2, <1>5, <1>7 DEF KernelGrown
  <1>11. Fine(r.m)
    BY <1>3, <1>8, <1>9 DEF Fine
  <1>. QED  BY <1>6, <1>7, <1>8, <1>10, <1>11 DEF r, size

-----------------------------------------------------------------------------
(***************************************************************************)
(* Writing, and what it keeps.                                             *)
(***************************************************************************)
\* Memory has these bytes from a on; they were stored there, and no others changed.
Shows(t, a, bytes) ==
  \A x \in a .. a + Len(bytes) - 1 : x \in MappedOf(t) /\ ByteOf(t, x) = bytes[(x - a) + 1]
Stored(s, t, a, bytes) ==
  Flat!Kept(View(s), View(t), a .. a + Len(bytes) - 1) /\ Shows(t, a, bytes)

\* Segments of the same lengths are at the same addresses.
LEMMA SameRegions ==
  ASSUME NEW s, NEW t, Fine(s), Fine(t), Len(t.data) = Len(s.data),
         Len(t.stack) = Len(s.stack), Len(t.kdata) = Len(s.kdata)
  PROVE  /\ \A region \in {"data", "stack", "kdata"} : Base(t, region) = Base(s, region)
         /\ MappedOf(t) = MappedOf(s)
         /\ \A a \in Int : Region(t, a) = Region(s, a)
  <1>1. data_top(t) = data_top(s) /\ stack_bot(t) = stack_bot(s) /\ k_data_top(t) = k_data_top(s)
    BY DEF data_top, stack_bot, k_data_top
  <1>. QED  BY <1>1 DEF Base, MappedOf, Region

LEMMA WrittenIs ==
  ASSUME NEW seq \in Seq(Bytes), NEW at \in Nat, NEW bytes \in Seq(Bytes),
         at + Len(bytes) <= Len(seq)
  PROVE  /\ \A i \in 1 .. Len(bytes) : Written(seq, at + 1, bytes)[at + i] = bytes[i]
         /\ \A j \in 1 .. Len(seq) : j \notin at + 1 .. at + Len(bytes)
                                        => Written(seq, at + 1, bytes)[j] = seq[j]
  <1>. DEFINE l == Len(seq)
              n == Len(bytes)
              w == Written(seq, at + 1, bytes)
  <1>1. l \in Nat /\ n \in Nat /\ DOMAIN seq = 1 .. l /\ at + n <= l
    BY LenProperties
  <1>2. w = [i \in 1 .. l |-> IF i \in at + 1 .. (at + 1) + n - 1 THEN bytes[i - (at + 1) + 1]
                              ELSE seq[i]]
    BY <1>1 DEF Written
  <1>. HIDE DEF l, n, w
  <1>3. ASSUME NEW i \in 1 .. n  PROVE w[at + i] = bytes[i]
    <2>1. at + i \in 1 .. l /\ at + i \in at + 1 .. (at + 1) + n - 1 /\ (at + i) - (at + 1) + 1 = i
      BY <1>1
    <2>. QED  BY <1>2, <2>1
  <1>4. ASSUME NEW j \in 1 .. l, j \notin at + 1 .. at + n  PROVE w[j] = seq[j]
    <2>1. j \notin at + 1 .. (at + 1) + n - 1
      BY <1>1, <1>4
    <2>. QED  BY <1>2, <2>1
  <1>. QED  BY <1>3, <1>4 DEF l, n, w

LEMMA IntoFine ==
  ASSUME NEW s, Fine(s), NEW region \in {"data", "stack", "kdata"},
         NEW a \in Int, NEW bytes \in Seq(Bytes)
  PROVE  LET t == Into(s, region, a, bytes)
         IN  /\ Fine(t) /\ Len(t.data) = Len(s.data)
             /\ Len(t.stack) = Len(s.stack) /\ Len(t.kdata) = Len(s.kdata)
             /\ t.text = s.text /\ t[region] = Written(s[region], a - Base(s, region) + 1, bytes)
             /\ \A other \in {"data", "stack", "kdata"} \ {region} : t[other] = s[other]
  <1>. DEFINE first == a - Base(s, region) + 1
              w == Written(s[region], first, bytes)
              t == Into(s, region, a, bytes)
  <1>1. first \in Int
    <2>1. Base(s, region) \in Int
      BY TopsAndBases DEF Fine
    <2>. QED  BY <2>1
  <1>2. s[region] \in Seq(Bytes)
    BY Lengths
  <1>3. t = [s EXCEPT ![region] = w]
    BY DEF Into
  <1>4. Good(t)
    BY IntoKeeps DEF Fine
  <1>. HIDE DEF first
  <1>5. Len(w) = Len(s[region])
    BY <1>1, <1>2, WrittenType
  <1>. HIDE DEF w, t
  <1>6. /\ Len(t.data) = Len(s.data) /\ Len(t.stack) = Len(s.stack) /\ Len(t.kdata) = Len(s.kdata)
        /\ t.text = s.text /\ t[region] = w
        /\ \A other \in {"data", "stack", "kdata"} \ {region} : t[other] = s[other]
    <2>1. s = [text |-> s.text, data |-> s.data, stack |-> s.stack, kdata |-> s.kdata]
      BY DEF Fine, Good, Shape
    <2>2. CASE region = "data"
      <3>1. t = [text |-> s.text, data |-> w, stack |-> s.stack, kdata |-> s.kdata]
        BY <1>3, <2>1, <2>2
      <3>. QED  BY <1>5, <2>2, <3>1
    <2>3. CASE region = "stack"
      <3>1. t = [text |-> s.text, data |-> s.data, stack |-> w, kdata |-> s.kdata]
        BY <1>3, <2>1, <2>3
      <3>. QED  BY <1>5, <2>3, <3>1
    <2>4. CASE region = "kdata"
      <3>1. t = [text |-> s.text, data |-> s.data, stack |-> s.stack, kdata |-> w]
        BY <1>3, <2>1, <2>4
      <3>. QED  BY <1>5, <2>4, <3>1
    <2>. QED  BY <2>2, <2>3, <2>4
  <1>7. Whole(t)
    BY <1>6 DEF Fine, Whole
  <1>. QED  BY <1>4, <1>6, <1>7 DEF Fine, first, w, t

LEMMA IntoView ==
  ASSUME NEW s, Fine(s), NEW a \in Int, Region(s, a) \in {"data", "stack", "kdata"},
         NEW bytes \in Seq(Bytes), Len(bytes) \in {1, 2, 4}, a % Len(bytes) = 0
  PROVE  Stored(s, Into(s, Region(s, a), a, bytes), a, bytes)
  <1>. DEFINE region == Region(s, a)
              t == Into(s, region, a, bytes)
              base == Base(s, region)
              at == a - base
              n == Len(bytes)
              l == Len(s[region])
  <1>1. /\ Fine(t) /\ Len(t.data) = Len(s.data) /\ Len(t.stack) = Len(s.stack)
        /\ Len(t.kdata) = Len(s.kdata) /\ t.text = s.text
        /\ t[region] = Written(s[region], at + 1, bytes)
        /\ \A other \in {"data", "stack", "kdata"} \ {region} : t[other] = s[other]
    BY IntoFine
  <1>. HIDE DEF t
  <1>2. at \in Nat /\ at + n <= l
    BY Inside
  <1>3. base \in Int /\ n \in Nat
    <2>1. base \in Int
      BY TopsAndBases DEF Fine
    <2>. QED  BY <2>1
  <1>4. /\ MappedOf(t) = MappedOf(s) /\ base = Base(t, region)
        /\ \A x \in Int : Region(t, x) = Region(s, x)
    BY <1>1, SameRegions
  <1>5. s[region] \in Seq(Bytes) /\ l \in Nat
    BY Lengths
  <1>6. /\ \A i \in 1 .. n : t[region][at + i] = bytes[i]
        /\ \A j \in 1 .. l : j \notin at + 1 .. at + n => t[region][j] = s[region][j]
    BY <1>1, <1>2, <1>5, WrittenIs
  <1>7. region \in {"data", "stack", "kdata"} /\ region # "text"
    OBVIOUS
  <1>8. ASSUME NEW x \in Int, Region(s, x) = region
        PROVE  /\ (x - base) + 1 \in 1 .. l /\ x \in MappedOf(s)
               /\ ByteOf(s, x) = s[region][(x - base) + 1]
               /\ ByteOf(t, x) = t[region][(x - base) + 1]
    <2>1. x - Base(s, Region(s, x)) \in Nat /\ (x - Base(s, Region(s, x))) + 1 <= Len(s[Region(s, x)])
      <3>1. 1 \in {1, 2, 4} /\ x % 1 = 0
        OBVIOUS
      <3>. QED  BY <1>7, <1>8, <3>1, Inside
    <2>2. x - base \in Nat /\ (x - base) + 1 <= l
      BY <1>8, <2>1
    <2>3. x \in MappedOf(s)
      BY <1>7, <1>8, Held
    <2>4. /\ ByteOf(s, x) = s[region][(x - base) + 1]
          /\ ByteOf(t, x) = t[region][(x - base) + 1]
      BY <1>4, <1>7, <1>8 DEF ByteOf
    <2>. HIDE DEF base, l
    <2>. QED  BY <1>5, <2>2, <2>3, <2>4
  <1>9. ASSUME NEW x \in Int, Region(s, x) # region, x \in MappedOf(s)
        PROVE  ByteOf(t, x) = ByteOf(s, x)
    <2>1. Region(s, x) \in {"text", "data", "stack", "kdata"} /\ Region(t, x) = Region(s, x)
      BY <1>4, <1>9, Held
    <2>2. Region(s, x) \in {"data", "stack", "kdata"} => t[Region(s, x)] = s[Region(s, x)]
      BY <1>1, <1>9
    <2>3. /\ Region(s, x) = "data" => t.data = s.data
          /\ Region(s, x) = "stack" => t.stack = s.stack
          /\ Region(s, x) = "kdata" => t.kdata = s.kdata
      BY <2>2
    <2>4. \/ Region(s, x) = "text"  /\ t.text = s.text
          \/ Region(s, x) = "data"  /\ t.data = s.data
          \/ Region(s, x) = "stack" /\ t.stack = s.stack
          \/ Region(s, x) = "kdata" /\ t.kdata = s.kdata
      BY <1>1, <2>1, <2>3
    <2>. QED  BY <1>1, <2>1, <2>4, HeldAlike
  <1>. HIDE DEF base, l, n, region
  <1>10. ASSUME NEW x \in a .. a + n - 1
         PROVE  x \in MappedOf(t) /\ ByteOf(t, x) = bytes[(x - a) + 1]
    <2>1. Region(s, x) = region
      <3>1. base <= x /\ x < base + l
        BY <1>2, <1>3, <1>5
      <3>. QED  BY <1>7, <3>1, Extent DEF base, l
    <2>2. (x - a) + 1 \in 1 .. n /\ (x - base) + 1 = at + ((x - a) + 1)
      BY <1>2, <1>3
    <2>. QED  BY <1>4, <1>6, <1>8, <2>1, <2>2
  <1>11. ASSUME NEW x \in MappedOf(s), x \notin a .. a + n - 1
         PROVE  ByteOf(t, x) = ByteOf(s, x)
    <2>1. x \in Int
      BY MappedIsInt
    <2>2. CASE Region(s, x) = region
      <3>1. (x - base) + 1 \in 1 .. l /\ (x - base) + 1 \notin at + 1 .. at + n
        BY <1>2, <1>3, <1>8, <1>11, <2>1, <2>2
      <3>. QED  BY <1>6, <1>8, <2>1, <2>2, <3>1
    <2>. QED  BY <1>9, <2>1, <2>2
  <1>12. Flat!Kept(View(s), View(t), a .. a + n - 1)
    <2>1. \A x \in MappedOf(s) : x \in MappedOf(t)
                                 /\ (x \notin a .. a + n - 1 => ByteOf(t, x) = ByteOf(s, x))
      BY <1>4, <1>11
    <2>2. \A x \in MappedOf(t) : x \notin MappedOf(s) => ByteOf(t, x) = 0
      BY <1>4
    <2>. DEFINE c == a .. a + n - 1
    <2>. HIDE DEF c
    <2>. QED  BY <2>1, <2>2, KeptIf DEF c
  <1>. QED  BY <1>10, <1>12 DEF Stored, Shows, t, region, n

\* A word of text, or a part of one.
NewWord(word, a, bytes) ==
  IF Len(bytes) = 4 THEN bytes ELSE Written(word, (a % 4) + 1, bytes)

LEMMA WordIs == \A word \in [1 .. 4 -> Bytes] : word \in Seq(Bytes) /\ Len(word) = 4
  <1>1. \A k \in Nat : \A f \in [1 .. k -> Bytes] : f \in Seq(Bytes) /\ Len(f) = k
    OBVIOUS
  <1>2. 4 \in Nat
    OBVIOUS
  <1>. QED  BY <1>1, <1>2, Zenon

LEMMA NewWordIs ==
  ASSUME NEW word \in {NULL} \cup [1 .. 4 -> Bytes], NEW a \in Int, NEW bytes \in Seq(Bytes),
         Len(bytes) \in {1, 2, 4}, a % Len(bytes) = 0, Len(bytes) = 4 \/ word # NULL
  PROVE  /\ NewWord(word, a, bytes) \in [1 .. 4 -> Bytes] /\ NewWord(word, a, bytes) # NULL
         /\ (a % 4) + Len(bytes) <= 4 /\ a % 4 \in 0 .. 3
         /\ \A i \in 1 .. Len(bytes) : NewWord(word, a, bytes)[(a % 4) + i] = bytes[i]
         /\ \A j \in 1 .. 4 : j \notin (a % 4) + 1 .. (a % 4) + Len(bytes)
              => word # NULL /\ NewWord(word, a, bytes)[j] = word[j]
  <1>. DEFINE n == Len(bytes)
              new == NewWord(word, a, bytes)
              at == a % 4
  <1>1. n \in {1, 2, 4} /\ at \in 0 .. 3 /\ at + n <= 4 /\ (n = 4 => at = 0)
    <2>1. n \in {1, 2, 4} /\ a % n = 0
      OBVIOUS
    <2>. HIDE DEF n
    <2>. QED  BY <2>1
  <1>2. \A f \in [1 .. 4 -> Bytes] : f \in Seq(Bytes) /\ Len(f) = 4 /\ f # NULL
    <2>2. Len(NULL) = 0
      BY EmptySeq DEF NULL
    <2>. SUFFICES ASSUME NEW f \in [1 .. 4 -> Bytes]
                  PROVE  f \in Seq(Bytes) /\ Len(f) = 4 /\ f # NULL
      OBVIOUS
    <2>3. f \in Seq(Bytes) /\ Len(f) = 4
      BY WordIs, Zenon
    <2>4. 4 # 0
      OBVIOUS
    <2>5. f # NULL
      BY <2>2, <2>3, <2>4, Zenon
    <2>. QED  BY <2>3, <2>5
  <1>3. \A f \in Seq(Bytes) : Len(f) = 4 => f \in [1 .. 4 -> Bytes]
    BY LenProperties
  <1>4. CASE n = 4
    <2>1. new = bytes /\ at = 0
      BY <1>1, <1>4 DEF NewWord
    <2>2. bytes \in [1 .. 4 -> Bytes]
      BY <1>3, <1>4
    <2>. HIDE DEF new, at, n
    <2>3. \A i \in 1 .. n : new[at + i] = bytes[i]
      BY <1>4, <2>1
    <2>. QED  BY <1>1, <1>2, <1>4, <2>1, <2>2, <2>3 DEF new, at, n
  <1>5. CASE n # 4
    <2>1. word \in [1 .. 4 -> Bytes] /\ word \in Seq(Bytes) /\ Len(word) = 4 /\ word # NULL
      BY <1>2, <1>5
    <2>2. new = Written(word, at + 1, bytes)
      BY <1>5 DEF NewWord
    <2>3. at \in Nat /\ at + n <= 4 /\ at + 1 \in Int
      BY <1>1
    <2>. HIDE DEF at, new
    <2>4. Written(word, at + 1, bytes) \in Seq(Bytes) /\ Len(Written(word, at + 1, bytes)) = 4
      BY <2>1, <2>3, WrittenType
    <2>5. /\ \A i \in 1 .. n : new[at + i] = bytes[i]
          /\ \A j \in 1 .. 4 : j \notin at + 1 .. at + n => new[j] = word[j]
      BY <2>1, <2>2, <2>3, WrittenIs
    <2>6. new \in [1 .. 4 -> Bytes]
      BY <1>3, <2>2, <2>4
    <2>. QED  BY <1>1, <1>2, <2>1, <2>5, <2>6 DEF at, new
  <1>. QED  BY <1>4, <1>5

LEMMA TextStored ==
  ASSUME NEW s, Fine(s), NEW a \in Int, Region(s, a) = "text", NEW bytes \in Seq(Bytes),
         Len(bytes) \in {1, 2, 4}, a % Len(bytes) = 0,
         Len(bytes) = 4 \/ s.text[TextIndex(a)] # NULL
  PROVE  LET t == [s EXCEPT !.text[TextIndex(a)] = NewWord(s.text[TextIndex(a)], a, bytes)]
         IN  Fine(t) /\ Stored(s, t, a, bytes)
  <1>. DEFINE k == TextIndex(a)
              word == s.text[k]
              new == NewWord(word, a, bytes)
              text == [s.text EXCEPT ![k] = new]
              t == [s EXCEPT !.text[k] = new]
              n == Len(bytes)
  <1>1. k \in 1 .. TextWords /\ TextWords \in Nat
    BY TextPlace, Layout
  <1>2. s.text \in [1 .. TextWords -> {NULL} \cup [1 .. 4 -> Bytes]]
    BY DEF Fine, Whole
  <1>. HIDE DEF k
  <1>3. word \in {NULL} \cup [1 .. 4 -> Bytes] /\ (n = 4 \/ word # NULL)
    BY <1>1, <1>2 DEF k
  <1>4. /\ new \in [1 .. 4 -> Bytes] /\ new # NULL
        /\ (a % 4) + n <= 4 /\ a % 4 \in 0 .. 3
        /\ \A i \in 1 .. n : new[(a % 4) + i] = bytes[i]
        /\ \A j \in 1 .. 4 : j \notin (a % 4) + 1 .. (a % 4) + n => word # NULL /\ new[j] = word[j]
    <2>. HIDE DEF word
    <2>. QED  BY <1>3, NewWordIs
  <1>. HIDE DEF new, word
  <1>5. t = [text |-> text, data |-> s.data, stack |-> s.stack, kdata |-> s.kdata]
    <2>1. t = [s EXCEPT !.text = text]
      OBVIOUS
    <2>. HIDE DEF text
    <2>. QED  BY <2>1 DEF Fine, Good, Shape
  <1>6. /\ text \in [1 .. TextWords -> {NULL} \cup [1 .. 4 -> Bytes]] /\ text[k] = new
        /\ \A i \in 1 .. TextWords : i # k => text[i] = s.text[i]
    BY <1>1, <1>2, <1>4
  <1>. HIDE DEF text, t
  <1>7. Fine(t)
    BY <1>5, <1>6 DEF Fine, Good, Shape, InLimits, Whole
  <1>8. /\ MappedOf(t) = MappedOf(s)
        /\ \A x \in Int : Region(t, x) = Region(s, x)
    BY <1>5, <1>7, SameRegions
  <1>9. \A x \in a .. a + n - 1 : TextIndex(x) = k /\ x % 4 = (a % 4) + (x - a)
                                  /\ Region(s, x) = "text"
    <2>1. n \in {1, 2, 4} /\ a % n = 0
      OBVIOUS
    <2>. HIDE DEF n
    <2>2. \A x \in a .. a + n - 1 : TextIndex(x) = TextIndex(a)
            /\ x % 4 = (a % 4) + (x - a) /\ Region(s, x) = "text"
      BY <2>1, TextPlace
    <2>. QED  BY <2>2 DEF k
  <1>10. n \in Nat
    OBVIOUS
  <1>. HIDE DEF n
  <1>11. ASSUME NEW x \in a .. a + n - 1
         PROVE  x \in MappedOf(t) /\ ByteOf(t, x) = bytes[(x - a) + 1]
    <2>1. x \in Int /\ Region(t, x) = "text" /\ TextIndex(x) = k
      BY <1>8, <1>9
    <2>2. ByteOf(t, x) = new[(x % 4) + 1] /\ x \in MappedOf(t)
      BY <1>4, <1>5, <1>6, <1>7, <2>1, Held
    <2>3. (x % 4) + 1 = (a % 4) + ((x - a) + 1) /\ (x - a) + 1 \in 1 .. n
      BY <1>4, <1>9, <1>10
    <2>. QED  BY <1>4, <2>2, <2>3
  <1>12. ASSUME NEW x \in MappedOf(s), x \notin a .. a + n - 1
         PROVE  ByteOf(t, x) = ByteOf(s, x)
    <2>1. x \in Int /\ Region(t, x) = Region(s, x)
      BY <1>8, MappedIsInt
    <2>2. CASE Region(s, x) = "text"
      <3>1. TextIndex(x) \in 1 .. TextWords
        <4>1. 1 \in {1, 2, 4} /\ x % 1 = 0
          BY <2>1
        <4>. QED  BY <2>1, <2>2, <4>1, TextPlace
      <3>2. /\ ByteOf(t, x) = IF text[TextIndex(x)] = NULL THEN 0
                              ELSE text[TextIndex(x)][(x % 4) + 1]
            /\ ByteOf(s, x) = IF s.text[TextIndex(x)] = NULL THEN 0
                              ELSE s.text[TextIndex(x)][(x % 4) + 1]
        BY <1>5, <1>7, <2>1, <2>2, Held
      <3>3. CASE TextIndex(x) # k
        BY <1>6, <3>1, <3>2, <3>3
      <3>4. CASE TextIndex(x) = k
        <4>1. TEXT_BOT \in Nat /\ TEXT_BOT % 4 = 0
          BY Layout
        <4>2. x - (x % 4) = a - (a % 4)
          BY <2>1, <3>4, <4>1 DEF k, TextIndex
        <4>3. (x % 4) + 1 \in 1 .. 4 /\ (x % 4) + 1 \notin (a % 4) + 1 .. (a % 4) + n
          BY <1>4, <1>10, <1>12, <2>1, <4>2
        <4>4. word # NULL /\ new[(x % 4) + 1] = word[(x % 4) + 1]
          BY <1>4, <4>3
        <4>. QED  BY <1>4, <1>6, <3>2, <3>4, <4>4 DEF word
      <3>. QED  BY <3>3, <3>4
    <2>3. CASE Region(s, x) # "text"
      <3>1. Region(s, x) \in {"data", "stack", "kdata"}
        BY <2>1, <2>3, Held
      <3>2. t.data = s.data /\ t.stack = s.stack /\ t.kdata = s.kdata
        BY <1>5
      <3>. QED  BY <1>7, <2>1, <3>1, <3>2, HeldAlike
    <2>. QED  BY <2>2, <2>3
  <1>13. Flat!Kept(View(s), View(t), a .. a + n - 1)
    <2>. DEFINE c == a .. a + n - 1
    <2>. HIDE DEF c
    <2>1. \A x \in MappedOf(s) : x \in MappedOf(t) /\ (x \notin c => ByteOf(t, x) = ByteOf(s, x))
      BY <1>8, <1>12 DEF c
    <2>2. \A x \in MappedOf(t) : x \notin MappedOf(s) => ByteOf(t, x) = 0
      BY <1>8
    <2>. QED  BY <2>1, <2>2, KeptIf DEF c
  <1>. QED  BY <1>7, <1>11, <1>13 DEF Stored, Shows, t, n, new, word, k

LEMMA StackBotType == ASSUME NEW s, Len(s.stack) \in Nat PROVE stack_bot(s) \in Int
  BY Sizes DEF stack_bot

\* What a touched address makes of the stack.
LEMMA StackTouched ==
  ASSUME NEW s, Fine(s), NEW a \in Int, Region(s, a) = "below the stack",
         Len(expand_stack(s, stack_bot(s) - a + 4).stack) <= StackLimit
  PROVE  LET t == expand_stack(s, stack_bot(s) - a + 4)
         IN  /\ Fine(t) /\ StackGrown(s, t) /\ stack_bot(t) <= a /\ a < stack_bot(s)
             /\ Region(t, a) = "stack"
             /\ Flat!Kept(View(s), View(t), {})
  <1>. DEFINE n == stack_bot(s) - a + 4
              t == expand_stack(s, n)
  <1>1. n \in Int
    BY TopsAndBases DEF Fine
  <1>2. stack_bot(t) <= a
    <2>1. a >= stack_bot(t)
      BY Reached DEF Fine
    <2>2. stack_bot(t) \in Int
      <3>1. Len(t.stack) \in Nat
        BY Touched, Zenon DEF Fine
      <3>. QED  BY <3>1, StackBotType, Zenon
    <2>. HIDE DEF t
    <2>. QED  BY <2>1, <2>2
  <1>. HIDE DEF n
  <1>3. Fine(t) /\ StackGrown(s, t)
    BY <1>1, StackGrownBy DEF n
  <1>. HIDE DEF t
  <1>4. a < stack_bot(s)
    BY Regions
  <1>5. Region(t, a) = "stack"
    BY <1>2, <1>3, <1>4, StackGrownView
  <1>6. Flat!Kept(View(s), View(t), {})
    <2>1. \A x \in MappedOf(s) : x \in MappedOf(t) /\ ByteOf(t, x) = ByteOf(s, x)
      BY <1>3, StackGrownView
    <2>2. \A x \in MappedOf(t) : x \notin MappedOf(s) => ByteOf(t, x) = 0
      BY <1>3, StackGrownView
    <2>. QED  BY <2>1, <2>2, KeptIf
  <1>. QED  BY <1>2, <1>3, <1>4, <1>5, <1>6 DEF n, t

LEMMA KeptSame == ASSUME NEW s PROVE Flat!Kept(View(s), View(s), {})
  BY KeptIf

LEMMA KindsOfRegion ==
  ASSUME NEW s, NEW a
  PROVE  Region(s, a) \in {"data", "stack", "kdata", "text", "below the stack", "device", "none"}
  BY DEF Region

\* What a store leaves: the bytes where they belong, or what was there.
LEMMA SetStores ==
  ASSUME NEW s, Fine(s), NEW a \in Int, NEW bytes \in Seq(Bytes), Len(bytes) \in {1, 2, 4}
  PROVE  LET r == set_mem(s, a, bytes)
         IN  /\ Fine(r.m) /\ r.bytes = bytes
             /\ r.outcome \in {"ok", "AdES", "DBE", "device", "run_error", "crash"}
             /\ r.outcome = "ok" => Stored(s, r.m, a, bytes)
             /\ r.outcome # "ok" => Flat!Kept(View(s), View(r.m), {})
  <1>. DEFINE region == Region(s, a)
              n      == Len(bytes)
              word   == s.text[TextIndex(a)]
              grown  == expand_stack(s, stack_bot(s) - a + 4)
              r      == set_mem(s, a, bytes)
              Claim(q) ==
                /\ Fine(q.m) /\ q.bytes = bytes
                /\ q.outcome \in {"ok", "AdES", "DBE", "device", "run_error", "crash"}
                /\ q.outcome = "ok" => Stored(s, q.m, a, bytes)
                /\ q.outcome # "ok" => Flat!Kept(View(s), View(q.m), {})
  <1>1. \A outcome \in {"AdES", "DBE", "device", "run_error", "crash"} :
          Claim(Done(s, outcome, bytes))
    BY KeptSame DEF Done
  <1>2. CASE a % n # 0
    <2>1. r = Done(s, "AdES", bytes)
      BY <1>2 DEF set_mem
    <2>. QED  BY <1>1, <2>1
  <1>3. CASE a % n = 0 /\ region \in {"data", "stack", "kdata"}
    <2>1. r = Done(Into(s, region, a, bytes), "ok", bytes)
      BY <1>3 DEF set_mem
    <2>2. Fine(Into(s, region, a, bytes)) /\ Stored(s, Into(s, region, a, bytes), a, bytes)
      BY <1>3, IntoFine, IntoView
    <2>. QED  BY <2>1, <2>2 DEF Done
  <1>4. CASE a % n = 0 /\ region = "text"
    <2>. DEFINE t == [s EXCEPT !.text[TextIndex(a)] = NewWord(word, a, bytes)]
    <2>1. r = IF n < 4 /\ word = NULL THEN Done(s, "crash", bytes) ELSE Done(t, "ok", bytes)
      BY <1>4 DEF set_mem, NewWord
    <2>2. CASE n < 4 /\ word = NULL
      BY <1>1, <2>1, <2>2
    <2>3. CASE ~(n < 4 /\ word = NULL)
      <3>1. n = 4 \/ word # NULL
        <4>1. n \in {1, 2, 4}
          OBVIOUS
        <4>. HIDE DEF n
        <4>. QED  BY <2>3, <4>1
      <3>2. Fine(t) /\ Stored(s, t, a, bytes)
        BY <1>4, <3>1, TextStored
      <3>3. r = Done(t, "ok", bytes)
        BY <2>1, <2>3
      <3>. HIDE DEF t
      <3>. QED  BY <3>2, <3>3 DEF Done
    <2>. QED  BY <2>2, <2>3
  <1>5. CASE a % n = 0 /\ region = "below the stack"
    <2>. DEFINE into == Into(grown, "stack", a, bytes)
    <2>1. r = IF Len(grown.stack) > StackLimit THEN Done(s, "run_error", bytes)
              ELSE IF a >= stack_bot(grown) THEN Done(into, "ok", bytes)
              ELSE Done(grown, "DBE", bytes)
      BY <1>5 DEF set_mem
    <2>2. CASE Len(grown.stack) > StackLimit
      <3>1. r = Done(s, "run_error", bytes)
        BY <2>1, <2>2
      <3>. QED  BY <1>1, <3>1
    <2>3. CASE ~(Len(grown.stack) > StackLimit)
      <3>1. Len(grown.stack) <= StackLimit
        <4>1. Len(grown.stack) \in Int
          BY Touched DEF Fine
        <4>. HIDE DEF grown
        <4>. QED  BY <2>3, <4>1, Sizes
      <3>2. /\ Fine(grown) /\ stack_bot(grown) <= a /\ Region(grown, a) = "stack"
            /\ Flat!Kept(View(s), View(grown), {})
        BY <1>5, <3>1, StackTouched
      <3>. HIDE DEF grown
      <3>3. a >= stack_bot(grown)
        <4>1. stack_bot(grown) \in Int
          BY <3>2, Layout
        <4>. QED  BY <3>2, <4>1
      <3>4. r = Done(into, "ok", bytes)
        BY <2>1, <2>3, <3>3
      <3>5. Fine(into) /\ Stored(grown, into, a, bytes)
        BY <1>5, <3>2, IntoFine, IntoView
      <3>. HIDE DEF into
      <3>6. Stored(s, into, a, bytes)
        <4>. DEFINE c == a .. a + Len(bytes) - 1
        <4>1. Flat!Kept(View(grown), View(into), c) /\ Shows(into, a, bytes)
          BY <3>5 DEF Stored
        <4>2. {} \cup c = c
          OBVIOUS
        <4>. HIDE DEF c
        <4>3. Flat!Kept(View(s), View(into), {} \cup c)
          BY <3>2, <4>1, KeptTwice
        <4>. QED  BY <4>1, <4>2, <4>3 DEF Stored, c
      <3>. QED  BY <3>4, <3>5, <3>6 DEF Done
    <2>. QED  BY <2>2, <2>3
  <1>6. CASE a % n = 0 /\ region = "device"
    <2>1. r = Done(s, "device", bytes)
      BY <1>6 DEF set_mem
    <2>. QED  BY <1>1, <2>1
  <1>7. CASE a % n = 0 /\ region = "none"
    <2>1. r = Done(s, "DBE", bytes)
      BY <1>7 DEF set_mem
    <2>. QED  BY <1>1, <2>1
  <1>. QED  BY <1>2, <1>3, <1>4, <1>5, <1>6, <1>7, KindsOfRegion

-----------------------------------------------------------------------------
(***************************************************************************)
(* Reading.                                                                *)
(***************************************************************************)
LEMMA PartOf ==
  ASSUME NEW seq \in Seq(Bytes), NEW at \in Nat, NEW n \in Nat \ {0}, at + n <= Len(seq)
  PROVE  /\ SubSeq(seq, at + 1, at + n) \in Seq(Bytes) /\ Len(SubSeq(seq, at + 1, at + n)) = n
         /\ \A i \in 1 .. n : SubSeq(seq, at + 1, at + n)[i] = seq[at + i]
  <1>. DEFINE l == Len(seq)
              b == at + 1
              e == at + n
              part == SubSeq(seq, b, e)
  <1>1. l \in Nat /\ e <= l
    BY LenProperties
  <1>2. b \in Int /\ e \in Int /\ b <= e /\ (e - b) + 1 = n
    OBVIOUS
  <1>. HIDE DEF l
  <1>3. \A i \in b .. e : seq[i] \in Bytes
    <2>. SUFFICES ASSUME NEW i \in b .. e  PROVE seq[i] \in Bytes
      OBVIOUS
    <2>1. i \in 1 .. l
      BY <1>1
    <2>. QED  BY <2>1, ElementOfSeq DEF l
  <1>4. part = [i \in 1 .. (e - b) + 1 |-> seq[(b + i) - 1]]
    OBVIOUS
  <1>5. part = [i \in 1 .. n |-> seq[at + i]]
    <2>1. \A i \in 1 .. n : (b + i) - 1 = at + i
      OBVIOUS
    <2>. HIDE DEF part
    <2>. QED  BY <1>2, <1>4, <2>1
  <1>. HIDE DEF part
  <1>6. part \in [1 .. n -> Bytes]
    BY <1>3, <1>5
  <1>7. part \in Seq(Bytes) /\ Len(part) = n
    BY <1>6
  <1>. QED  BY <1>5, <1>7 DEF part

\* What a load gives: the bytes of memory, which stays as it was.
LEMMA Reads ==
  ASSUME NEW s, Fine(s), NEW a \in Int, NEW n \in {1, 2, 4}
  PROVE  LET r == read_mem(s, a, n)
         IN  /\ Fine(r.m) /\ r.bytes \in Seq(Bytes)
             /\ r.outcome \in {"ok", "AdEL", "DBE", "device", "run_error", "crash"}
             /\ Flat!Kept(View(s), View(r.m), {})
             /\ r.outcome = "ok" => Shows(r.m, a, r.bytes)
  <1>. DEFINE region == Region(s, a)
              word   == s.text[TextIndex(a)]
              grown  == expand_stack(s, stack_bot(s) - a + 4)
              r      == read_mem(s, a, n)
              Claim(q) ==
                /\ Fine(q.m) /\ q.bytes \in Seq(Bytes)
                /\ q.outcome \in {"ok", "AdEL", "DBE", "device", "run_error", "crash"}
                /\ Flat!Kept(View(s), View(q.m), {})
                /\ q.outcome = "ok" => Shows(q.m, a, q.bytes)
  <1>1. \A outcome \in {"AdEL", "DBE", "device", "run_error", "crash"} :
          Claim(Done(s, outcome, <<>>))
    BY KeptSame, EmptySeq DEF Done
  <1>2. ASSUME NEW bytes \in Seq(Bytes), Shows(s, a, bytes)  PROVE Claim(Done(s, "ok", bytes))
    BY <1>2, KeptSame DEF Done
  <1>3. CASE a % n # 0
    <2>1. r = Done(s, "AdEL", <<>>)
      BY <1>3 DEF read_mem
    <2>. QED  BY <1>1, <2>1
  <1>4. CASE a % n = 0 /\ region \in {"data", "stack", "kdata"}
    <2>. DEFINE base  == Base(s, region)
                at    == a - base
                bytes == SubSeq(s[region], at + 1, at + n)
    <2>1. r = Done(s, "ok", bytes)
      BY <1>4 DEF read_mem
    <2>2. at \in Nat /\ at + n <= Len(s[region]) /\ s[region] \in Seq(Bytes) /\ base \in Int
      BY <1>4, Inside, Lengths, TopsAndBases DEF Fine
    <2>3. /\ bytes \in Seq(Bytes) /\ Len(bytes) = n
          /\ \A i \in 1 .. n : bytes[i] = s[region][at + i]
      <3>1. n \in Nat \ {0}
        OBVIOUS
      <3>. HIDE DEF at
      <3>. QED  BY <2>2, <3>1, PartOf
    <2>. HIDE DEF bytes
    <2>4. ASSUME NEW x \in a .. a + n - 1
          PROVE  x \in MappedOf(s) /\ ByteOf(s, x) = bytes[(x - a) + 1]
      <3>1. base <= x /\ x < base + Len(s[region])
        <4>. DEFINE l == Len(s[region])
        <4>1. l \in Nat /\ at + n <= l
          BY <1>4, <2>2, Lengths
        <4>. HIDE DEF l, base
        <4>2. base <= x /\ x < base + l
          BY <2>2, <4>1
        <4>. QED  BY <4>2 DEF l
      <3>2. Region(s, x) = region
        BY <1>4, <3>1, Extent
      <3>3. x \in MappedOf(s) /\ ByteOf(s, x) = s[region][(x - base) + 1]
        BY <1>4, <3>2, Held DEF Base
      <3>. HIDE DEF base, region
      <3>4. (x - a) + 1 \in 1 .. n /\ (x - base) + 1 = at + ((x - a) + 1)
        BY <2>2
      <3>. QED  BY <2>3, <3>3, <3>4
    <2>5. Shows(s, a, bytes)
      BY <2>3, <2>4 DEF Shows
    <2>. QED  BY <1>2, <2>1, <2>3, <2>5
  <1>5. CASE a % n = 0 /\ region = "text"
    <2>. DEFINE at    == a % 4
                bytes == IF word = NULL THEN Zeros(4) ELSE SubSeq(word, at + 1, at + n)
    <2>1. r = IF word = NULL /\ n < 4 THEN Done(s, "crash", <<>>) ELSE Done(s, "ok", bytes)
      <3>1. n < 4 \/ n = 4
        OBVIOUS
      <3>. QED  BY <1>5, <3>1 DEF read_mem
    <2>2. /\ TextIndex(a) \in 1 .. TextWords /\ at \in 0 .. 3 /\ at + n <= 4
          /\ \A x \in a .. a + n - 1 : TextIndex(x) = TextIndex(a)
               /\ x % 4 = at + (x - a) /\ Region(s, x) = "text"
      BY <1>5, TextPlace
    <2>3. word \in {NULL} \cup [1 .. 4 -> Bytes]
      BY <2>2 DEF Fine, Whole
    <2>. HIDE DEF word
    <2>4. ASSUME ~(word = NULL /\ n < 4)
          PROVE  /\ bytes \in Seq(Bytes) /\ Len(bytes) = n
                 /\ \A i \in 1 .. n : bytes[i] = IF word = NULL THEN 0 ELSE word[at + i]
      <3>1. CASE word = NULL
        <4>1. n = 4 /\ bytes = Zeros(4)
          BY <2>4, <3>1
        <4>2. Zeros(4) \in Seq(Bytes) /\ Len(Zeros(4)) = 4 /\ \A i \in 1 .. 4 : Zeros(4)[i] = 0
          <5>1. 4 \in Int /\ 4 > 0
            OBVIOUS
          <5>2. Zeros(4) \in Seq(Bytes) /\ Len(Zeros(4)) = 4
            BY <5>1, ZerosType
          <5>. QED  BY <5>1, <5>2, ZerosAre
        <4>. QED  BY <3>1, <4>1, <4>2
      <3>2. CASE word # NULL
        <4>1. word \in [1 .. 4 -> Bytes]
          BY <2>3, <3>2
        <4>2. word \in Seq(Bytes) /\ Len(word) = 4
          BY <4>1, WordIs, Zenon
        <4>3. at \in Nat /\ n \in Nat \ {0}
          BY <2>2
        <4>4. bytes = SubSeq(word, at + 1, at + n)
          BY <3>2
        <4>. HIDE DEF at, bytes
        <4>5. /\ bytes \in Seq(Bytes) /\ Len(bytes) = n
              /\ \A i \in 1 .. n : bytes[i] = word[at + i]
          BY <2>2, <4>2, <4>3, <4>4, PartOf
        <4>. QED  BY <3>2, <4>5
      <3>. QED  BY <3>1, <3>2
    <2>. HIDE DEF bytes
    <2>5. ASSUME ~(word = NULL /\ n < 4)  PROVE Shows(s, a, bytes)
      <3>1. ASSUME NEW x \in a .. a + n - 1
            PROVE  x \in MappedOf(s) /\ ByteOf(s, x) = bytes[(x - a) + 1]
        <4>1. x \in MappedOf(s) /\ ByteOf(s, x) = IF word = NULL THEN 0 ELSE word[(x % 4) + 1]
          BY <2>2, Held DEF word
        <4>2. (x - a) + 1 \in 1 .. n /\ (x % 4) + 1 = at + ((x - a) + 1)
          BY <2>2
        <4>. HIDE DEF at
        <4>. QED  BY <2>4, <2>5, <4>1, <4>2
      <3>2. Len(bytes) = n
        BY <2>4, <2>5
      <3>. QED  BY <3>1, <3>2 DEF Shows
    <2>6. CASE word = NULL /\ n < 4
      BY <1>1, <2>1, <2>6
    <2>7. CASE ~(word = NULL /\ n < 4)
      BY <1>2, <2>1, <2>4, <2>5, <2>7
    <2>. QED  BY <2>6, <2>7
  <1>6. CASE a % n = 0 /\ region = "below the stack"
    <2>1. r = IF Len(grown.stack) > StackLimit THEN Done(s, "run_error", <<>>)
              ELSE Done(grown, "ok", Zeros(n))
      BY <1>6 DEF read_mem, ReadBelowStack
    <2>2. CASE Len(grown.stack) > StackLimit
      <3>1. r = Done(s, "run_error", <<>>)
        BY <2>1, <2>2
      <3>. QED  BY <1>1, <3>1
    <2>3. CASE ~(Len(grown.stack) > StackLimit)
      <3>1. Len(grown.stack) <= StackLimit
        <4>1. Len(grown.stack) \in Int
          BY Touched DEF Fine
        <4>. HIDE DEF grown
        <4>. QED  BY <2>3, <4>1, Sizes
      <3>2. /\ Fine(grown) /\ StackGrown(s, grown) /\ stack_bot(grown) <= a /\ a < stack_bot(s)
            /\ Flat!Kept(View(s), View(grown), {})
        BY <1>6, <3>1, StackTouched
      <3>3. r = Done(grown, "ok", Zeros(n))
        BY <2>1, <2>3
      <3>. HIDE DEF grown
      <3>4. n \in Int /\ n > 0
        OBVIOUS
      <3>5. Zeros(n) \in Seq(Bytes) /\ Len(Zeros(n)) = n /\ \A i \in 1 .. n : Zeros(n)[i] = 0
        <4>1. Zeros(n) \in Seq(Bytes) /\ Len(Zeros(n)) = n
          BY <3>4, ZerosType
        <4>. QED  BY <3>4, <4>1, ZerosAre
      <3>6. stack_bot(s) \in Int /\ stack_bot(grown) \in Int /\ stack_bot(s) % 4 = 0
        <4>1. stack_bot(s) \in Int /\ stack_bot(grown) \in Int
          BY <3>2, Layout
        <4>2. Len(s.stack) \in Nat /\ Len(s.stack) % 4 = 0
          BY Lengths
        <4>3. STACK_TOP \in Nat /\ STACK_TOP % 4 = 0
          BY Layout
        <4>. DEFINE l == Len(s.stack)
        <4>4. stack_bot(s) = STACK_TOP - l /\ l \in Nat /\ l % 4 = 0
          BY <4>2 DEF stack_bot
        <4>. HIDE DEF l
        <4>5. (STACK_TOP - l) % 4 = 0
          BY <4>3, <4>4, WordsAdded
        <4>. QED  BY <4>1, <4>4, <4>5
      <3>7. a + n <= stack_bot(s)
        <4>. DEFINE sb == stack_bot(s)
        <4>1. sb \in Int /\ sb % 4 = 0 /\ a < sb /\ a % n = 0
          BY <1>6, <3>2, <3>6
        <4>. HIDE DEF sb
        <4>2. a + n <= sb
          BY <4>1
        <4>. QED  BY <4>2 DEF sb
      <3>8. ASSUME NEW x \in a .. a + n - 1
            PROVE  x \in MappedOf(grown) /\ ByteOf(grown, x) = Zeros(n)[(x - a) + 1]
        <4>1. x \in Int /\ stack_bot(grown) <= x /\ x < stack_bot(s) /\ (x - a) + 1 \in 1 .. n
          BY <3>2, <3>4, <3>6, <3>7
        <4>2. Region(grown, x) = "stack" /\ ByteOf(grown, x) = 0
          BY <3>2, <4>1, StackGrownView
        <4>. QED  BY <3>2, <3>5, <4>1, <4>2, Held
      <3>9. Shows(grown, a, Zeros(n))
        BY <3>5, <3>8 DEF Shows
      <3>. DEFINE z == Zeros(n)
      <3>. HIDE DEF z
      <3>10. Claim(Done(grown, "ok", z))
        BY <3>2, <3>5, <3>9 DEF Done, z
      <3>. QED  BY <3>3, <3>10 DEF z
    <2>. QED  BY <2>2, <2>3
  <1>7. CASE a % n = 0 /\ region = "device"
    <2>1. r = Done(s, "device", <<>>)
      BY <1>7 DEF read_mem
    <2>. QED  BY <1>1, <2>1
  <1>8. CASE a % n = 0 /\ region = "none"
    <2>1. r = Done(s, "DBE", <<>>)
      BY <1>8 DEF read_mem
    <2>. QED  BY <1>1, <2>1
  <1>. QED  BY <1>3, <1>4, <1>5, <1>6, <1>7, <1>8, KindsOfRegion

-----------------------------------------------------------------------------
(***************************************************************************)
(* The assembler's counters, and the growth they ask for.                  *)
(***************************************************************************)
LEMMA QuantumIs ==
  /\ Quantum \in Nat /\ Quantum >= 8 /\ Quantum <= KDataSize
  /\ ROUND_UP(1, Quantum) = Quantum /\ ROUND_UP(Quantum, 4) = Quantum
  <1>1. Quantum \in Nat \ {0} /\ Quantum % 8 = 0 /\ Quantum <= KDataSize
    BY SegmentsOK DEF SegmentsOK
  <1>2. Quantum >= 8
    BY <1>1
  <1>3. ROUND_UP(1, Quantum) = Quantum
    <2>1. ROUND_UP(1, Quantum) = ((1 + Quantum - 1) \div Quantum) * Quantum
      BY DEF ROUND_UP
    <2>2. 1 + Quantum - 1 = Quantum
      BY <1>1
    <2>3. \A q \in Nat \ {0} : q \div q = 1
      <3>. SUFFICES ASSUME NEW q \in Nat \ {0}  PROVE q \div q = 1
        OBVIOUS
      <3>. DEFINE d == q \div q
                  r == q % q
      <3>1. d \in Int /\ r \in 0 .. q - 1 /\ q = q * d + r
        OBVIOUS
      <3>. HIDE DEF d, r
      <3>2. d >= 1
        <4>. SUFFICES ASSUME d <= 0  PROVE FALSE
          BY <3>1
        <4>1. q * d <= 0
          BY <3>1
        <4>. QED  BY <3>1, <4>1
      <3>3. d < 2
        <4>. SUFFICES ASSUME d >= 2  PROVE FALSE
          BY <3>1
        <4>1. q * d >= q * 2
          BY <3>1
        <4>. QED  BY <3>1, <4>1
      <3>4. d = 1
        BY <3>1, <3>2, <3>3
      <3>. QED  BY <3>4 DEF d
    <2>4. Quantum \div Quantum = 1
      BY <1>1, <2>3, Zenon
    <2>5. (1 + Quantum - 1) \div Quantum = 1
      BY <2>2, <2>4, Zenon
    <2>. QED  BY <1>1, <2>1, <2>5
  <1>4. ROUND_UP(Quantum, 4) = Quantum
    BY <1>1 DEF ROUND_UP
  <1>. QED  BY <1>1, <1>2, <1>3, <1>4

LEMMA IncrementKept ==
  ASSUME NEW s, Fine(s), pc \in [data : Int, kdata : Int], NEW kernel \in BOOLEAN,
         NEW n \in Int, NEW junk \in Bytes
  PROVE  LET t == Increment(s, kernel, n, junk).m
         IN  /\ Fine(t) /\ Flat!Kept(View(s), View(t), {})
             /\ \A a \in MappedOf(s) :
                  a \in MappedOf(t)
                  /\ (~kernel \/ Region(s, a) # "kdata" => ByteOf(t, a) = ByteOf(s, a))
  <1>. DEFINE next  == (IF kernel THEN pc.kdata ELSE pc.data) + n
              top   == IF kernel THEN k_data_top(s) ELSE data_top(s)
              extra == ROUND_UP((next - top) + 1, Quantum)
              grown == IF kernel THEN expand_k_data(s, extra, junk) ELSE expand_data(s, extra)
              r     == Increment(s, kernel, n, junk)
              Claim(t) ==
                /\ Fine(t) /\ Flat!Kept(View(s), View(t), {})
                /\ \A a \in MappedOf(s) :
                     a \in MappedOf(t)
                     /\ (~kernel \/ Region(s, a) # "kdata" => ByteOf(t, a) = ByteOf(s, a))
  <1>1. next \in Int /\ top \in Int
    <2>1. data_top(s) \in Int /\ k_data_top(s) \in Int
      BY Layout
    <2>. QED  BY <2>1
  <1>2. r = IF top > next THEN Done(s, "ok", <<>>) ELSE grown
    BY DEF Increment
  <1>. HIDE DEF next, top
  <1>3. extra \in Int /\ (next >= top => extra > 0)
    <2>. DEFINE x == (next - top) + 1
    <2>1. x \in Int /\ (next >= top => x > 0)
      BY <1>1
    <2>. HIDE DEF x
    <2>2. ROUND_UP(x, Quantum) \in Int
      BY <2>1, Sizes, Rounded
    <2>3. x > 0 => ROUND_UP(x, Quantum) > 0
      <3>. SUFFICES ASSUME x > 0  PROVE ROUND_UP(x, Quantum) > 0
        OBVIOUS
      <3>. DEFINE y == x + Quantum - 1
                  q == y \div Quantum
      <3>1. y \in Int /\ y >= Quantum /\ Quantum \in Nat \ {0}
        BY <2>1, Sizes
      <3>. HIDE DEF y
      <3>2. q \in Int /\ q >= 1
        <4>. DEFINE z == y % Quantum
        <4>1. q \in Int /\ z \in 0 .. Quantum - 1 /\ y = Quantum * q + z
          BY <3>1
        <4>. HIDE DEF q, z
        <4>2. q >= 1
          <5>. SUFFICES ASSUME q <= 0  PROVE FALSE
            BY <4>1
          <5>1. Quantum * q <= 0
            BY <3>1, <4>1
          <5>. QED  BY <3>1, <4>1, <5>1
        <4>. QED  BY <4>1, <4>2
      <3>3. ROUND_UP(x, Quantum) = q * Quantum
        BY DEF ROUND_UP, y
      <3>. HIDE DEF q
      <3>4. q * Quantum > 0
        BY <3>1, <3>2
      <3>. QED  BY <3>3, <3>4
    <2>. QED  BY <2>1, <2>2, <2>3 DEF x
  <1>. HIDE DEF extra
  <1>4. Claim(s)
    BY KeptSame
  <1>5. Claim(expand_data(s, extra).m)
    <2>. DEFINE t == expand_data(s, extra).m
    <2>1. Fine(t) /\ (t = s \/ DataGrown(s, t))
      BY <1>3, DataGrownBy
    <2>. HIDE DEF t
    <2>2. ASSUME t = s  PROVE Claim(t)
      BY <1>4, <2>2
    <2>3. ASSUME DataGrown(s, t)  PROVE Claim(t)
      <3>1. /\ \A a \in MappedOf(s) : a \in MappedOf(t) /\ ByteOf(t, a) = ByteOf(s, a)
            /\ \A a \in MappedOf(t) : a \notin MappedOf(s) => ByteOf(t, a) = 0
        BY <2>1, <2>3, DataGrownView
      <3>2. Flat!Kept(View(s), View(t), {})
        BY <3>1, KeptIf
      <3>. QED  BY <2>1, <3>1, <3>2
    <2>4. Claim(t)
      BY <2>1, <2>2, <2>3
    <2>. QED  BY <2>4 DEF t
  <1>6. ASSUME kernel, next >= top  PROVE Claim(expand_k_data(s, extra, junk).m)
    <2>. DEFINE t == expand_k_data(s, extra, junk).m
    <2>1. extra \in Nat \ {0}
      BY <1>3, <1>6
    <2>2. Fine(t) /\ (t = s \/ KernelGrown(s, t))
      BY <2>1, KernelGrownBy
    <2>. HIDE DEF t
    <2>3. ASSUME t = s  PROVE Claim(t)
      BY <1>4, <2>3
    <2>4. ASSUME KernelGrown(s, t)  PROVE Claim(t)
      <3>1. /\ Flat!Kept(View(s), View(t), {})
            /\ \A a \in MappedOf(s) : a \in MappedOf(t)
            /\ \A a \in MappedOf(s) : Region(s, a) # "kdata" => ByteOf(t, a) = ByteOf(s, a)
        BY <2>2, <2>4, KernelGrownKept
      <3>. QED  BY <1>6, <2>2, <3>1
    <2>5. Claim(t)
      BY <2>2, <2>3, <2>4
    <2>. QED  BY <2>5 DEF t
  <1>. HIDE DEF Claim
  <1>7. CASE top > next
    <2>1. r.m = s
      BY <1>2, <1>7 DEF Done
    <2>2. Claim(r.m)
      BY <1>4, <2>1
    <2>. QED  BY <2>2 DEF Claim
  <1>8. CASE next >= top
    <2>1. r = grown
      BY <1>1, <1>2, <1>8
    <2>. HIDE DEF r
    <2>2. Claim(r.m)
      BY <1>5, <1>6, <1>8, <2>1
    <2>. QED  BY <2>2 DEF Claim, r
  <1>. QED  BY <1>1, <1>7, <1>8

\* A datum of the kernel outlives the growth it brings about: the bytes that are
\* lost then are at a quarter of the segment's size.
LEMMA DatumStays ==
  ASSUME NEW s, Fine(s), pc \in [data : Int, kdata : Int], NEW n \in {1, 2, 4},
         pc.kdata % n = 0, Region(s, pc.kdata) = "kdata", NEW junk \in Bytes,
         NEW x \in pc.kdata .. pc.kdata + n - 1
  PROVE  LET t == Increment(s, TRUE, n, junk).m
         IN  x \in MappedOf(s) /\ x \in MappedOf(t) /\ ByteOf(t, x) = ByteOf(s, x)
  <1>. DEFINE a     == pc.kdata
              next  == a + n
              top   == k_data_top(s)
              old   == Len(s.kdata)
              extra == ROUND_UP((next - top) + 1, Quantum)
              r     == Increment(s, TRUE, n, junk)
              g     == expand_k_data(s, Quantum, junk)
  <1>1. r = IF top > next THEN Done(s, "ok", <<>>) ELSE expand_k_data(s, extra, junk)
    BY DEF Increment
  <1>2. a \in Int /\ K_DATA_BOT \in Int /\ old \in Nat /\ old >= Quantum /\ old % 4 = 0
    <2>0. K_DATA_BOT \in Nat
      BY Layout
    <2>1. old \in Nat /\ KDataSize <= old /\ old % 4 = 0
      BY Lengths, Zenon
    <2>2. KDataSize \in Nat /\ Quantum \in Nat /\ Quantum <= KDataSize
      BY QuantumIs, Sizes
    <2>. HIDE DEF old
    <2>. QED  BY <2>0, <2>1, <2>2
  <1>3. a - K_DATA_BOT \in Nat /\ (a - K_DATA_BOT) + n <= old
    <2>1. a - Base(s, Region(s, a)) \in Nat
          /\ (a - Base(s, Region(s, a))) + n <= Len(s[Region(s, a)])
      BY <1>2, Inside
    <2>. QED  BY <2>1 DEF Base
  <1>4. top = K_DATA_BOT + old
    BY DEF k_data_top
  <1>5. x \in Int /\ Region(s, x) = "kdata" /\ x \in MappedOf(s)
    <2>1. x \in Int /\ K_DATA_BOT <= x /\ x < top
      <3>. HIDE DEF old, top
      <3>. QED  BY <1>2, <1>3, <1>4
    <2>2. Region(s, x) = "kdata"
      BY <2>1, Regions
    <2>. QED  BY <2>1, <2>2, Held
  <1>6. CASE top > next
    <2>1. r = Done(s, "ok", <<>>)
      BY <1>1, <1>6
    <2>2. r.m = s
      <3>. HIDE DEF r
      <3>. QED  BY <2>1 DEF Done
    <2>. QED  BY <1>5, <2>2
  <1>7. CASE ~(top > next)
    <2>1. (next - top) + 1 = 1
      <3>1. a \in Int /\ K_DATA_BOT \in Int /\ old \in Int /\ n \in Int
            /\ (a - K_DATA_BOT) + n <= old /\ top = K_DATA_BOT + old /\ next = a + n
            /\ ~(top > next)
        BY <1>2, <1>3, <1>4, <1>7
      <3>. HIDE DEF a, next, old, top
      <3>. QED  BY <3>1
    <2>2. extra = Quantum
      <3>. HIDE DEF next, top
      <3>. QED  BY <2>1, QuantumIs
    <2>3. r = g
      BY <1>1, <1>7, <2>2
    <2>4. Quantum \in Nat \ {0}
      BY QuantumIs
    <2>5. /\ Fine(g.m)
          /\ g.m = s \/ (/\ KernelGrown(s, g.m)
                         /\ \A i \in 1 .. old : i > (old + Quantum) \div 4
                                                  => g.m.kdata[i] = s.kdata[i])
      <3>. DEFINE u == ROUND_UP(Quantum, 4)
      <3>1. /\ Fine(g.m)
            /\ g.m = s \/ (/\ KernelGrown(s, g.m)
                           /\ \A i \in 1 .. old : i > (old + u) \div 4
                                                    => g.m.kdata[i] = s.kdata[i])
        BY <2>4, KernelGrownBy
      <3>2. u = Quantum
        BY QuantumIs
      <3>. HIDE DEF u, g, old
      <3>. QED  BY <3>1, <3>2
    <2>. DEFINE t == g.m
                i == (x - K_DATA_BOT) + 1
    <2>. HIDE DEF g
    <2>6. CASE t = s
      BY <1>5, <2>3, <2>6
    <2>7. CASE t # s
      <3>1. KernelGrown(s, t) /\ Fine(t)
        BY <2>5, <2>7
      <3>2. Region(t, x) = "kdata" /\ x \in MappedOf(t)
        BY <1>5, <3>1, KernelGrownKept
      <3>3. i \in 1 .. old /\ i > (old + Quantum) \div 4
        <4>. HIDE DEF old
        <4>1. Quantum \in Nat /\ Quantum >= 8
          BY QuantumIs
        <4>2. x >= a /\ x < a + n /\ x \in Int
          BY <1>2
        <4>3. old - n <= a - K_DATA_BOT
          <5>1. a \in Int /\ K_DATA_BOT \in Int /\ old \in Nat /\ n \in Int
                /\ top = K_DATA_BOT + old /\ next = a + n /\ (next - top) + 1 = 1
            BY <1>2, <1>4, <2>1
          <5>. HIDE DEF a, next, top
          <5>. QED  BY <5>1
        <4>4. i \in 1 .. old /\ i > old - 4
          <5>1. a \in Int /\ K_DATA_BOT \in Int /\ old \in Nat /\ n \in 1 .. 4
                /\ a - K_DATA_BOT >= 0 /\ (a - K_DATA_BOT) + n <= old
            BY <1>2, <1>3
          <5>. HIDE DEF a
          <5>. QED  BY <4>2, <4>3, <5>1
        <4>5. (old + Quantum) \div 4 <= old - 4
          BY <1>2, <4>1
        <4>. QED  BY <1>2, <4>1, <4>4, <4>5
      <3>4. t.kdata[i] = s.kdata[i]
        BY <2>5, <2>7, <3>3
      <3>5. ByteOf(t, x) = t.kdata[i] /\ ByteOf(s, x) = s.kdata[i]
        BY <1>5, <3>1, <3>2, Held
      <3>. QED  BY <1>5, <2>3, <3>2, <3>4, <3>5
    <2>. QED  BY <2>6, <2>7
  <1>. QED  BY <1>6, <1>7

-----------------------------------------------------------------------------
(***************************************************************************)
(* The steps, and what they are of the flat memory.                        *)
(***************************************************************************)
\* A step of the flat memory.
FlatStep(before, after, o) ==
  \/ Flat!Load(before, after, o) \/ Flat!Store(before, after, o) \/ Flat!Grant(before, after, o)
  \/ Flat!Grow(before, after, o) \/ Flat!Refused(before, after, o) \/ Flat!Reset(after, o)
\* What the flat memory sees of an operation.
Seen(op, a, r) ==
  [op |-> op, addr |-> a, bytes |-> r.bytes,
   outcome |-> IF r.outcome = "IBE" THEN "ok" ELSE r.outcome]

LEMMA FlatNext ==
  ASSUME NEW op, NEW a, NEW r, Ends(op, a, r), FlatStep(View(m), View(r.m), Seen(op, a, r))
  PROVE  Flat!Next
  <1>1. /\ m' = r.m
        /\ last' = [op |-> op, addr |-> a, bytes |-> r.bytes, outcome |-> r.outcome]
    BY DEF Ends
  <1>2. [last EXCEPT !.outcome = IF @ = "IBE" THEN "ok" ELSE @]' = Seen(op, a, r)
    BY <1>1 DEF Seen
  <1>3. View(m)' = View(r.m)
    <2>1. View(m)' = View(m')
      OBVIOUS
    <2>. QED  BY <1>1, <2>1
  <1>4. /\ View(m) = [x \in Mapped |-> ByteAt(x)]
        /\ View(r.m) = [x \in Mapped |-> ByteAt(x)]'
    BY <1>3, ViewIs
  <1>. QED  BY <1>2, <1>4 DEF Flat!Next, FlatStep

LEMMA HoldsIf ==
  ASSUME NEW t, NEW op, NEW a, NEW r, Shows(t, a, r.bytes)
  PROVE  Flat!Holds(View(t), Seen(op, a, r)) /\ Flat!Place(Seen(op, a, r)) = a .. a + Len(r.bytes) - 1
  BY DEF Flat!Holds, Flat!Place, Seen, Shows, View

LEMMA EmptyFine == Fine(Empty) /\ \A x \in MappedOf(Empty) : ByteOf(Empty, x) = 0
  <1>1. /\ DataSize % 4 = 0 /\ StackSize % 4 = 0 /\ KDataSize % 4 = 0 /\ TextWords \in Nat
    BY SegmentsOK DEF SegmentsOK
  <1>2. \A k \in Nat : Zeros(k) \in Seq(Bytes) /\ Len(Zeros(k)) = k /\ \A i \in 1 .. k : Zeros(k)[i] = 0
    <2>. SUFFICES ASSUME NEW k \in Nat
                  PROVE  Zeros(k) \in Seq(Bytes) /\ Len(Zeros(k)) = k
                         /\ \A i \in 1 .. k : Zeros(k)[i] = 0
      OBVIOUS
    <2>1. Zeros(k) \in Seq(Bytes) /\ Len(Zeros(k)) = k
      BY ZerosType
    <2>. QED  BY <2>1, ZerosAre
  <1>3. /\ Empty.data = Zeros(DataSize) /\ Empty.stack = Zeros(StackSize)
        /\ Empty.kdata = Zeros(KDataSize) /\ Empty.text = [i \in 1 .. TextWords |-> NULL]
    BY DEF Empty
  <1>4. Whole(Empty)
    BY <1>1, <1>2, <1>3, Sizes DEF Whole
  <1>5. Fine(Empty)
    BY <1>4, EmptyGood DEF Fine
  <1>6. ASSUME NEW x \in MappedOf(Empty)  PROVE ByteOf(Empty, x) = 0
    <2>1. x \in Int /\ Region(Empty, x) \in {"text", "data", "stack", "kdata"}
      BY <1>5, MappedIsInt, Held
    <2>2. CASE Region(Empty, x) = "text"
      <3>1. 1 \in {1, 2, 4} /\ x % 1 = 0
        BY <2>1
      <3>2. TextIndex(x) \in 1 .. TextWords
        BY <1>5, <2>1, <2>2, <3>1, TextPlace
      <3>. QED  BY <1>3, <1>5, <2>1, <2>2, <3>2, Held
    <2>3. CASE Region(Empty, x) \in {"data", "stack", "kdata"}
      <3>. DEFINE region == Region(Empty, x)
                  at == x - Base(Empty, region)
      <3>1. at \in Nat /\ at + 1 <= Len(Empty[region])
        <4>1. 1 \in {1, 2, 4} /\ x % 1 = 0
          BY <2>1
        <4>. QED  BY <1>5, <2>1, <2>3, <4>1, Inside
      <3>2. Len(Empty[region]) \in Nat /\ \A i \in 1 .. Len(Empty[region]) : Empty[region][i] = 0
        <4>1. Empty[region] \in {Zeros(DataSize), Zeros(StackSize), Zeros(KDataSize)}
          BY <1>3, <2>3
        <4>2. \A k \in {DataSize, StackSize, KDataSize} :
                Len(Zeros(k)) \in Nat /\ \A i \in 1 .. Len(Zeros(k)) : Zeros(k)[i] = 0
          BY <1>2, Sizes
        <4>3. \A z \in {Zeros(DataSize), Zeros(StackSize), Zeros(KDataSize)} :
                Len(z) \in Nat /\ \A i \in 1 .. Len(z) : z[i] = 0
          BY <4>2, Zenon
        <4>. QED  BY <4>1, <4>3, Zenon
      <3>3. ByteOf(Empty, x) = Empty[region][at + 1]
        BY <2>3 DEF ByteOf
      <3>4. at + 1 \in 1 .. Len(Empty[region])
        BY <3>1, <3>2
      <3>. QED  BY <3>2, <3>3, <3>4
    <2>. QED  BY <2>1, <2>2, <2>3
  <1>. QED  BY <1>5, <1>6

LEMMA DatumLength ==
  ASSUME NEW word \in Words, NEW n \in {1, 2, 4}
  PROVE  Len(SubSeq(word, 1, n)) = n /\ Len(word) = 4
  <1>1. word \in [1 .. 4 -> Bytes]
    BY SegmentsOK DEF SegmentsOK, Bytes
  <1>2. word \in Seq(Bytes) /\ Len(word) = 4
    BY <1>1, WordIs, Zenon
  <1>3. n \in Int /\ 1 <= n /\ (n - 1) + 1 = n /\ \A i \in 1 .. n : word[i] \in Bytes
    BY <1>1
  <1>4. Len(SubSeq(word, 1, n)) = n
    BY <1>3, SubSeqProperties
  <1>. QED  BY <1>2, <1>4

LEMMA IncrementEnds ==
  ASSUME NEW s, Fine(s), pc \in [data : Int, kdata : Int], NEW kernel \in BOOLEAN,
         NEW n \in Int, NEW junk \in Bytes
  PROVE  LET r == Increment(s, kernel, n, junk)
         IN  r.bytes = <<>> /\ r.outcome \in {"ok", "run_error", "fatal_error"}
  <1>. DEFINE next  == (IF kernel THEN pc.kdata ELSE pc.data) + n
              top   == IF kernel THEN k_data_top(s) ELSE data_top(s)
              extra == ROUND_UP((next - top) + 1, Quantum)
              r     == Increment(s, kernel, n, junk)
  <1>1. r = IF top > next THEN Done(s, "ok", <<>>)
            ELSE IF kernel THEN expand_k_data(s, extra, junk) ELSE expand_data(s, extra)
    BY DEF Increment
  <1>2. extra \in Int
    <2>1. data_top(s) \in Int /\ k_data_top(s) \in Int
      BY Layout
    <2>. DEFINE x == (next - top) + 1
    <2>2. x \in Int
      BY <2>1
    <2>. HIDE DEF x
    <2>3. ROUND_UP(x, Quantum) \in Int
      BY <2>2, Sizes, Rounded
    <2>. QED  BY <2>3 DEF x
  <1>. HIDE DEF extra, next, top
  <1>3. LET q == expand_data(s, extra)
        IN  q.bytes = <<>> /\ q.outcome \in {"ok", "run_error", "fatal_error"}
    BY <1>2, DataGrownBy
  <1>4. LET q == expand_k_data(s, extra, junk)
        IN  q.bytes = <<>> /\ q.outcome \in {"ok", "run_error", "fatal_error"}
    BY DEF expand_k_data, Done
  <1>. HIDE DEF r
  <1>. QED  BY <1>1, <1>3, <1>4 DEF Done, r

\* The inductive invariant of the whole: Sound, in whole words, with the counters of
\* the assembler not below the segments they fill.
Counted == /\ pc \in [data : Int, kdata : Int]
           /\ pc.data >= DATA_BOT /\ pc.kdata >= K_DATA_BOT
Ended == last.bytes \in Seq(Bytes) /\ last.outcome \in Outcomes
Arranged == Fine(m) /\ Counted /\ Ended

LEMMA EndsIs ==
  ASSUME NEW op, NEW a, NEW r, Ends(op, a, r)
  PROVE  /\ m' = r.m /\ last'.bytes = r.bytes /\ last'.outcome = r.outcome
         /\ (Fine(r.m) /\ r.bytes \in Seq(Bytes) /\ r.outcome \in Outcomes
               => Fine(m)' /\ Ended')
  <1>1. m' = r.m /\ last'.bytes = r.bytes /\ last'.outcome = r.outcome
    BY DEF Ends
  <1>2. Fine(m)' = Fine(m')
    OBVIOUS
  <1>. QED  BY <1>1, <1>2 DEF Ended

LEMMA ResetSeen ==
  ASSUME make_memory
  PROVE  Fine(m)' /\ Ended' /\ Flat!Next
  <1>. DEFINE r == Done(Empty, "ok", <<>>)
  <1>1. Ends("reset", 0, r)
    BY DEF make_memory
  <1>2. r.m = Empty /\ r.bytes = <<>> /\ r.outcome = "ok"
    BY DEF Done
  <1>. HIDE DEF r
  <1>3. Fine(m)' /\ Ended'
    BY <1>1, <1>2, EndsIs, EmptyFine, EmptySeq DEF Outcomes
  <1>4. FlatStep(View(m), View(r.m), Seen("reset", 0, r))
    <2>1. \A x \in DOMAIN View(Empty) : View(Empty)[x] = 0
      BY EmptyFine DEF View
    <2>2. Seen("reset", 0, r).op = "reset"
      BY DEF Seen
    <2>. QED  BY <1>2, <2>1, <2>2 DEF FlatStep, Flat!Reset
  <1>. QED  BY <1>1, <1>3, <1>4, FlatNext

LEMMA LoadSeen ==
  ASSUME Fine(m), NEW a \in Int, NEW n \in {1, 2, 4}, Load(a, n)
  PROVE  Fine(m)' /\ Ended' /\ Flat!Next
  <1>. DEFINE r == read_mem(m, a, n)
              o == Seen("load", a, r)
  <1>1. Ends("load", a, r)
    BY DEF Load
  <1>2. /\ Fine(r.m) /\ r.bytes \in Seq(Bytes)
        /\ r.outcome \in {"ok", "AdEL", "DBE", "device", "run_error", "crash"}
        /\ Flat!Kept(View(m), View(r.m), {})
        /\ r.outcome = "ok" => Shows(r.m, a, r.bytes)
    BY Reads
  <1>. HIDE DEF r
  <1>3. Fine(m)' /\ Ended'
    BY <1>1, <1>2, EndsIs DEF Outcomes
  <1>4. o.op = "load" /\ o.outcome = r.outcome
    BY <1>2 DEF Seen
  <1>5. r.outcome = "ok" => Flat!Holds(View(r.m), o)
    BY <1>2, HoldsIf
  <1>. HIDE DEF o
  <1>6. FlatStep(View(m), View(r.m), o)
    BY <1>2, <1>4, <1>5 DEF FlatStep, Flat!Load, Flat!Refused
  <1>. QED  BY <1>1, <1>3, <1>6, FlatNext DEF o

\* What stores and what is refused.
LEMMA StoreSeen ==
  ASSUME NEW a \in Int, NEW r, r.outcome = "IBE" \/ r.outcome \in Outcomes,
         r.outcome \in {"ok", "IBE"} => Stored(m, r.m, a, r.bytes),
         r.outcome \notin {"ok", "IBE"} => Flat!Kept(View(m), View(r.m), {})
  PROVE  FlatStep(View(m), View(r.m), Seen("store", a, r))
  <1>. DEFINE o == Seen("store", a, r)
  <1>1. o.op = "store" /\ o.outcome = IF r.outcome = "IBE" THEN "ok" ELSE r.outcome
    BY DEF Seen
  <1>2. CASE r.outcome \in {"ok", "IBE"}
    <2>1. o.outcome = "ok"
      BY <1>1, <1>2
    <2>2. Flat!Kept(View(m), View(r.m), a .. a + Len(r.bytes) - 1) /\ Shows(r.m, a, r.bytes)
      BY <1>2 DEF Stored
    <2>3. Flat!Holds(View(r.m), o) /\ Flat!Place(o) = a .. a + Len(r.bytes) - 1
      BY <2>2, HoldsIf
    <2>. HIDE DEF o
    <2>4. Flat!Store(View(m), View(r.m), o)
      BY <1>1, <2>1, <2>2, <2>3 DEF Flat!Store
    <2>. QED  BY <2>4 DEF FlatStep, o
  <1>3. CASE r.outcome \notin {"ok", "IBE"}
    <2>1. o.outcome # "ok"
      BY <1>1, <1>3
    <2>. HIDE DEF o
    <2>2. Flat!Refused(View(m), View(r.m), o)
      BY <1>3, <2>1 DEF Flat!Refused
    <2>. QED  BY <2>2 DEF FlatStep, o
  <1>. QED  BY <1>2, <1>3

LEMMA StoresSeen ==
  ASSUME Fine(m), NEW a \in Int, NEW n \in {1, 2, 4}, NEW word \in Words, Store(a, n, word)
  PROVE  Fine(m)' /\ Ended' /\ Flat!Next
  <1>. DEFINE bytes == SubSeq(word, 1, n)
              r == set_mem(m, a, bytes)
  <1>1. Ends("store", a, r)
    BY DEF Store
  <1>2. bytes \in Seq(Bytes) /\ Len(bytes) \in {1, 2, 4}
    BY Datum, DatumLength
  <1>. HIDE DEF bytes
  <1>3. /\ Fine(r.m) /\ r.bytes = bytes
        /\ r.outcome \in {"ok", "AdES", "DBE", "device", "run_error", "crash"}
        /\ r.outcome = "ok" => Stored(m, r.m, a, bytes)
        /\ r.outcome # "ok" => Flat!Kept(View(m), View(r.m), {})
    BY <1>2, SetStores
  <1>. HIDE DEF r
  <1>4. Fine(m)' /\ Ended'
    BY <1>1, <1>2, <1>3, EndsIs DEF Outcomes
  <1>5. FlatStep(View(m), View(r.m), Seen("store", a, r))
    BY <1>3, StoreSeen DEF Outcomes
  <1>. QED  BY <1>1, <1>4, <1>5, FlatNext

LEMMA InstSeen ==
  ASSUME Fine(m), NEW a \in Int, NEW word \in Words, StoreInst(a, word)
  PROVE  Fine(m)' /\ Ended' /\ Flat!Next
  <1>. DEFINE r == set_mem_inst(m, a, word)
              stored == set_mem(m, a, word)
              t == [m EXCEPT !.text[TextIndex(a)] = word]
  <1>1. Ends("store", a, r)
    BY DEF StoreInst
  <1>2. word \in Seq(Bytes) /\ Len(word) = 4
    BY Datum, DatumLength
  <1>3. /\ Fine(r.m) /\ r.bytes = word /\ r.outcome \in Outcomes
        /\ r.outcome \in {"ok", "IBE"} => Stored(m, r.m, a, word)
        /\ r.outcome \notin {"ok", "IBE"} => Flat!Kept(View(m), View(r.m), {})
    <2>1. CASE Region(m, a) = "text" /\ a % 4 = 0
      <3>1. r = Done(t, "ok", word)
        BY <2>1 DEF set_mem_inst
      <3>2. NewWord(m.text[TextIndex(a)], a, word) = word
        BY <1>2 DEF NewWord
      <3>3. Fine(t) /\ Stored(m, t, a, word)
        BY <1>2, <2>1, <3>2, TextStored
      <3>. HIDE DEF t, r
      <3>4. r.m = t /\ r.bytes = word /\ r.outcome = "ok"
        BY <3>1 DEF Done
      <3>. QED  BY <3>3, <3>4 DEF Outcomes
    <2>2. CASE ~(Region(m, a) = "text" /\ a % 4 = 0)
      <3>1. r = [stored EXCEPT !.outcome = IF @ = "ok" THEN "IBE" ELSE @]
        BY <2>2 DEF set_mem_inst
      <3>2. /\ Fine(stored.m) /\ stored.bytes = word
            /\ stored.outcome \in {"ok", "AdES", "DBE", "device", "run_error", "crash"}
            /\ stored.outcome = "ok" => Stored(m, stored.m, a, word)
            /\ stored.outcome # "ok" => Flat!Kept(View(m), View(stored.m), {})
        BY <1>2, SetStores
      <3>3. stored = Done(stored.m, stored.outcome, stored.bytes)
        BY SetShape
      <3>. HIDE DEF stored, r
      <3>4. /\ r.m = stored.m /\ r.bytes = stored.bytes
            /\ r.outcome = IF stored.outcome = "ok" THEN "IBE" ELSE stored.outcome
        BY <3>1, <3>3 DEF Done
      <3>. QED  BY <3>2, <3>4 DEF Outcomes
    <2>. QED  BY <2>1, <2>2
  <1>. HIDE DEF r
  <1>4. Fine(m)' /\ Ended'
    BY <1>1, <1>2, <1>3, EndsIs
  <1>5. FlatStep(View(m), View(r.m), Seen("store", a, r))
    BY <1>3, StoreSeen
  <1>. QED  BY <1>1, <1>4, <1>5, FlatNext

\* What sbrk gives out lies behind the data that were there, and is zero.
LEMMA SbrkSeen ==
  ASSUME Fine(m), NEW n \in SbrkSizes, sbrk(n)
  PROVE  Fine(m)' /\ Ended' /\ Flat!Next
  <1>. DEFINE grown == expand_data(m, n)
              r == IF grown.outcome = "ok" THEN [grown EXCEPT !.bytes = Zeros(n)] ELSE grown
              a == data_top(m)
              o == Seen("sbrk", a, r)
  <1>1. Ends("sbrk", a, r)
    BY DEF sbrk
  <1>2. n \in Int /\ n < IntLimit
    <2>1. n \in -IntLimit .. IntLimit - 1
      BY SegmentsOK DEF SegmentsOK
    <2>. QED  BY <2>1, IntSize
  <1>3. /\ Fine(grown.m) /\ grown.bytes = <<>>
        /\ grown.outcome = "ok" => /\ DataGrown(m, grown.m) /\ n >= 0
                                   /\ Len(grown.m.data) >= Len(m.data) + n
        /\ grown.outcome # "ok" => grown.m = m /\ grown.outcome \in {"run_error", "fatal_error"}
    BY <1>2, DataGrownBy
  <1>4. grown = Done(grown.m, grown.outcome, grown.bytes)
    BY <1>2, DataGrow DEF Fine
  <1>. HIDE DEF grown
  <1>5. /\ r.m = grown.m /\ r.outcome = grown.outcome
        /\ r.bytes = IF grown.outcome = "ok" THEN Zeros(n) ELSE <<>>
    BY <1>3, <1>4 DEF Done
  <1>6. Zeros(n) \in Seq(Bytes) /\ (n >= 0 => Len(Zeros(n)) = n)
    <2>1. Zeros(n) \in Seq(Bytes) /\ Len(Zeros(n)) = IF n > 0 THEN n ELSE 0
      BY <1>2, ZerosType
    <2>. QED  BY <1>2, <2>1
  <1>. HIDE DEF r
  <1>7. Fine(m)' /\ Ended'
    BY <1>1, <1>3, <1>5, <1>6, EndsIs, EmptySeq DEF Outcomes
  <1>8. o.op = "sbrk" /\ o.outcome = r.outcome
    BY <1>3, <1>5 DEF Seen
  <1>9. CASE grown.outcome = "ok"
    <2>. DEFINE t == grown.m
    <2>1. Fine(t) /\ DataGrown(m, t) /\ n >= 0 /\ r.bytes = Zeros(n) /\ r.m = t
      BY <1>3, <1>5, <1>9
    <2>. HIDE DEF t
    <2>2. a \in Int /\ data_top(t) \in Int /\ a + n <= data_top(t)
      <3>1. a \in Int /\ data_top(t) \in Int /\ DATA_BOT \in Nat
        BY <2>1, Layout
      <3>. DEFINE old == Len(m.data)
                  new == Len(t.data)
      <3>2. a = DATA_BOT + old /\ data_top(t) = DATA_BOT + new
        BY DEF data_top
      <3>3. old \in Nat /\ new \in Nat /\ new >= old + n
        BY <1>3, <1>9, <2>1, Lengths DEF t
      <3>. HIDE DEF old, new
      <3>4. a + n <= data_top(t)
        <4>. DEFINE u == data_top(t)
                    v == data_top(m)
        <4>1. u = DATA_BOT + new /\ v = DATA_BOT + old
          BY <3>2
        <4>. HIDE DEF u, v
        <4>2. v + n <= u
          BY <1>2, <3>1, <3>3, <4>1
        <4>. QED  BY <4>2 DEF u, v
      <3>. QED  BY <3>1, <3>4
    <2>3. \A x \in a .. a + n - 1 :
            x \in MappedOf(t) /\ ByteOf(t, x) = 0 /\ x \notin MappedOf(m)
      <3>. SUFFICES ASSUME NEW x \in a .. a + n - 1
                    PROVE  x \in MappedOf(t) /\ ByteOf(t, x) = 0 /\ x \notin MappedOf(m)
        OBVIOUS
      <3>1. x \in Int /\ a <= x /\ x < data_top(t)
        <4>. DEFINE u == data_top(t)
                    v == data_top(m)
        <4>1. v \in Int /\ u \in Int /\ v + n <= u /\ x \in v .. v + n - 1
          BY <2>2
        <4>. HIDE DEF u, v
        <4>2. x \in Int /\ v <= x /\ x < u
          BY <1>2, <4>1
        <4>. QED  BY <4>2 DEF u, v
      <3>2. Region(t, x) = "data" /\ ByteOf(t, x) = 0 /\ x \notin MappedOf(m)
        BY <2>1, <3>1, DataGrownView
      <3>. QED  BY <2>1, <3>1, <3>2, Held
    <2>4. Len(r.bytes) = n
      BY <1>6, <2>1
    <2>5. Shows(t, a, r.bytes)
      <3>. SUFFICES ASSUME NEW x \in a .. a + n - 1
                    PROVE  x \in MappedOf(t) /\ ByteOf(t, x) = r.bytes[(x - a) + 1]
        BY <2>4 DEF Shows
      <3>1. (x - a) + 1 \in 1 .. n
        <4>. DEFINE v == data_top(m)
        <4>1. v \in Int /\ x \in v .. v + n - 1
          BY <2>2
        <4>. HIDE DEF v
        <4>2. (x - v) + 1 \in 1 .. n
          BY <1>2, <4>1
        <4>. QED  BY <4>2 DEF v
      <3>2. r.bytes[(x - a) + 1] = 0
        BY <1>2, <2>1, <2>4, <3>1, ZerosAre
      <3>. QED  BY <2>3, <3>2
    <2>6. Flat!Kept(View(m), View(t), {})
      <3>1. /\ \A x \in MappedOf(m) : x \in MappedOf(t) /\ ByteOf(t, x) = ByteOf(m, x)
            /\ \A x \in MappedOf(t) : x \notin MappedOf(m) => ByteOf(t, x) = 0
        BY <2>1, DataGrownView
      <3>. QED  BY <3>1, KeptIf
    <2>7. Flat!Holds(View(t), o) /\ Flat!Place(o) = a .. a + n - 1
      <3>. HIDE DEF a
      <3>1. Flat!Holds(View(t), o)
        BY <2>5, HoldsIf
      <3>2. Flat!Place(o) = a .. a + Len(r.bytes) - 1
        BY DEF Flat!Place, Seen
      <3>. QED  BY <2>4, <3>1, <3>2, Zenon
    <2>8. (a .. a + n - 1) \cap DOMAIN View(m) = {}
      BY <2>3 DEF View
    <2>. HIDE DEF o, a
    <2>9. Flat!Grant(View(m), View(r.m), o)
      BY <1>5, <1>8, <1>9, <2>1, <2>6, <2>7, <2>8 DEF Flat!Grant
    <2>10. FlatStep(View(m), View(r.m), o)
      BY <2>9 DEF FlatStep
    <2>. QED  BY <1>1, <1>7, <2>10, FlatNext DEF o
  <1>10. CASE grown.outcome # "ok"
    <2>1. r.m = m /\ o.outcome # "ok"
      BY <1>3, <1>5, <1>8, <1>10
    <2>. HIDE DEF o
    <2>2. Flat!Refused(View(m), View(r.m), o)
      BY <2>1, KeptSame DEF Flat!Refused
    <2>3. FlatStep(View(m), View(r.m), o)
      BY <2>2 DEF FlatStep
    <2>. QED  BY <1>1, <1>7, <2>3, FlatNext DEF o
  <1>. QED  BY <1>9, <1>10

LEMMA KeptThen ==
  ASSUME NEW A, NEW B, NEW C, NEW p, Flat!Kept(A, B, p), Flat!Kept(B, C, {})
  PROVE  Flat!Kept(A, C, p)
  <1>1. Flat!Kept(A, C, p \cup {})
    BY KeptTwice
  <1>2. p \cup {} = p
    OBVIOUS
  <1>. QED  BY <1>1, <1>2

\* A datum is where it was stored after the growth behind it.
LEMMA PlacedShows ==
  ASSUME Counted, NEW s, Fine(s), NEW kernel \in BOOLEAN, NEW n \in {1, 2, 4},
         NEW junk \in Bytes, NEW a \in Int, a = IF kernel THEN pc.kdata ELSE pc.data, a % n = 0,
         NEW bytes, Len(bytes) = n, Shows(s, a, bytes)
  PROVE  Shows(Increment(s, kernel, n, junk).m, a, bytes)
  <1>. DEFINE t == Increment(s, kernel, n, junk).m
  <1>1. \A x \in MappedOf(s) :
          x \in MappedOf(t) /\ (~kernel \/ Region(s, x) # "kdata" => ByteOf(t, x) = ByteOf(s, x))
    BY IncrementKept DEF Counted
  <1>2. \A x \in a .. a + n - 1 : x \in MappedOf(s) /\ ByteOf(s, x) = bytes[(x - a) + 1]
    BY DEF Shows
  <1>3. CASE ~kernel
    <2>. HIDE DEF t
    <2>1. \A x \in a .. a + n - 1 : x \in MappedOf(t) /\ ByteOf(t, x) = bytes[(x - a) + 1]
      BY <1>1, <1>2, <1>3
    <2>. QED  BY <2>1 DEF Shows, t
  <1>4. CASE kernel
    <2>1. a = pc.kdata /\ kernel = TRUE /\ a >= K_DATA_BOT
      BY <1>4 DEF Counted
    <2>2. Region(s, a) = "kdata"
      <3>1. a \in a .. a + n - 1
        OBVIOUS
      <3>2. Region(s, a) \in {"text", "data", "stack", "kdata"}
        BY <1>2, <3>1, Held
      <3>3. /\ K_DATA_BOT \in Int /\ STACK_TOP \in Int /\ STACK_TOP <= K_DATA_BOT
            /\ stack_bot(s) \in Int /\ data_top(s) \in Int /\ DATA_BOT \in Int
            /\ data_top(s) <= K_DATA_BOT /\ TEXT_BOT + 4 * TextWords <= K_DATA_BOT
            /\ TEXT_BOT + 4 * TextWords \in Int
        <4>. DEFINE tt == TEXT_BOT + 4 * TextWords
                    dt == data_top(s)
                    sb == stack_bot(s)
        <4>1. /\ TEXT_BOT \in Nat /\ TextWords \in Nat
              /\ DATA_BOT \in Nat /\ STACK_TOP \in Nat /\ K_DATA_BOT \in Nat
              /\ dt \in Int /\ sb \in Int /\ tt <= DATA_BOT /\ DATA_BOT <= dt
              /\ dt <= DATA_BOT + DataLimit /\ DATA_BOT + DataLimit <= sb
              /\ sb <= STACK_TOP /\ STACK_TOP <= K_DATA_BOT
          BY Layout
        <4>2. tt \in Int
          BY <4>1
        <4>. HIDE DEF tt, dt, sb
        <4>3. dt <= K_DATA_BOT /\ tt <= K_DATA_BOT
          BY <4>1, <4>2, Sizes
        <4>. QED  BY <4>1, <4>2, <4>3 DEF tt, dt, sb
      <3>4. /\ Region(s, a) = "data"  => a < data_top(s)
            /\ Region(s, a) = "stack" => a < STACK_TOP
            /\ Region(s, a) = "text"  => a < TEXT_BOT + 4 * TextWords
        BY Regions
      <3>5. Region(s, a) # "data" /\ Region(s, a) # "stack" /\ Region(s, a) # "text"
        <4>. DEFINE tt == TEXT_BOT + 4 * TextWords
                    dt == data_top(s)
        <4>1. /\ K_DATA_BOT \in Int /\ STACK_TOP \in Int /\ dt \in Int /\ tt \in Int
              /\ STACK_TOP <= K_DATA_BOT /\ dt <= K_DATA_BOT /\ tt <= K_DATA_BOT
          BY <3>3
        <4>2. /\ Region(s, a) = "data"  => a < dt
              /\ Region(s, a) = "stack" => a < STACK_TOP
              /\ Region(s, a) = "text"  => a < tt
          BY <3>4
        <4>. HIDE DEF tt, dt
        <4>. QED  BY <2>1, <4>1, <4>2
      <3>. QED  BY <3>2, <3>5
    <2>3. \A x \in a .. a + n - 1 : x \in MappedOf(t) /\ ByteOf(t, x) = ByteOf(s, x)
      <3>1. /\ pc \in [data : Int, kdata : Int] /\ pc.kdata % n = 0
            /\ Region(s, pc.kdata) = "kdata"
        BY <2>1, <2>2 DEF Counted
      <3>2. \A x \in pc.kdata .. pc.kdata + n - 1 :
              LET u == Increment(s, TRUE, n, junk).m
              IN  x \in MappedOf(u) /\ ByteOf(u, x) = ByteOf(s, x)
        BY <3>1, DatumStays
      <3>. QED  BY <2>1, <3>2, Zenon
    <2>. HIDE DEF t
    <2>4. \A x \in a .. a + n - 1 : x \in MappedOf(t) /\ ByteOf(t, x) = bytes[(x - a) + 1]
      BY <1>2, <2>3
    <2>. QED  BY <2>4 DEF Shows, t
  <1>. QED  BY <1>3, <1>4

\* A datum is stored, and the memory behind it grows.
LEMMA PlacedSeen ==
  ASSUME Fine(m), Counted, NEW kernel \in BOOLEAN, NEW n \in {1, 2, 4}, NEW word \in Words,
         PlaceDatum(kernel, n, word)
  PROVE  Fine(m)' /\ Ended' /\ Flat!Next
  <1>. DEFINE a      == IF kernel THEN pc.kdata ELSE pc.data
              bytes  == SubSeq(word, 1, n)
              stored == set_mem(m, a, bytes)
  <1>1. PICK junk \in Junk : Ends("store", a,
               [stored EXCEPT !.m = Increment(stored.m, kernel, n, junk).m])
    BY DEF PlaceDatum
  <1>. DEFINE t == Increment(stored.m, kernel, n, junk).m
              r == [stored EXCEPT !.m = t]
  <1>2. bytes \in Seq(Bytes) /\ Len(bytes) = n
    BY Datum, DatumLength
  <1>3. a \in Int /\ a % n = 0 /\ junk \in Bytes /\ n \in Int
    BY SegmentsOK DEF SegmentsOK, Bytes, Counted, PlaceDatum
  <1>4. Ends("store", a, r)
    BY <1>1
  <1>. HIDE DEF a, bytes
  <1>5. /\ Fine(stored.m) /\ stored.bytes = bytes
        /\ stored.outcome \in {"ok", "AdES", "DBE", "device", "run_error", "crash"}
        /\ stored.outcome = "ok" => Stored(m, stored.m, a, bytes)
        /\ stored.outcome # "ok" => Flat!Kept(View(m), View(stored.m), {})
    BY <1>2, <1>3, SetStores
  <1>6. stored = Done(stored.m, stored.outcome, stored.bytes)
    BY SetShape
  <1>. HIDE DEF stored
  <1>7. Fine(t) /\ Flat!Kept(View(stored.m), View(t), {})
    BY <1>3, <1>5, IncrementKept DEF Counted
  <1>8. stored.outcome = "ok" => Stored(m, t, a, bytes)
    <2>. SUFFICES ASSUME stored.outcome = "ok"  PROVE Stored(m, t, a, bytes)
      OBVIOUS
    <2>. DEFINE place == a .. a + Len(bytes) - 1
    <2>1. Shows(stored.m, a, bytes) /\ Flat!Kept(View(m), View(stored.m), place)
      BY <1>5 DEF Stored
    <2>2. Shows(t, a, bytes)
      BY <1>2, <1>3, <1>5, <2>1, PlacedShows DEF a
    <2>. HIDE DEF place, t
    <2>3. Flat!Kept(View(m), View(t), place)
      BY <1>7, <2>1, KeptThen
    <2>. QED  BY <2>2, <2>3 DEF Stored, place
  <1>9. stored.outcome # "ok" => Flat!Kept(View(m), View(t), {})
    <2>. HIDE DEF t
    <2>. QED  BY <1>5, <1>7, KeptThen
  <1>10. r.m = t /\ r.bytes = bytes /\ r.outcome = stored.outcome
    <2>. HIDE DEF t
    <2>. QED  BY <1>5, <1>6 DEF Done
  <1>. HIDE DEF r, t
  <1>11. Fine(m)' /\ Ended'
    BY <1>2, <1>4, <1>5, <1>7, <1>10, EndsIs DEF Outcomes
  <1>12. FlatStep(View(m), View(r.m), Seen("store", a, r))
    BY <1>3, <1>5, <1>8, <1>9, <1>10, StoreSeen DEF Outcomes
  <1>. QED  BY <1>4, <1>11, <1>12, FlatNext

LEMMA GrowthSeen ==
  ASSUME NEW r, Ends("grow", 0, r), Fine(r.m), r.bytes = <<>>,
         r.outcome \in {"ok", "run_error", "fatal_error"}, Flat!Kept(View(m), View(r.m), {})
  PROVE  Fine(m)' /\ Ended' /\ Flat!Next
  <1>1. Fine(m)' /\ Ended'
    BY EndsIs, EmptySeq DEF Outcomes
  <1>2. Seen("grow", 0, r).op = "grow"
    BY DEF Seen
  <1>3. FlatStep(View(m), View(r.m), Seen("grow", 0, r))
    BY <1>2 DEF FlatStep, Flat!Grow
  <1>. QED  BY <1>1, <1>3, FlatNext

LEMMA SpaceSeen ==
  ASSUME Fine(m), Counted, NEW kernel \in BOOLEAN, NEW n \in Skips, Space(kernel, n)
  PROVE  Fine(m)' /\ Ended' /\ Flat!Next
  <1>1. PICK junk \in Junk : Ends("grow", 0, Increment(m, kernel, n, junk))
    BY DEF Space
  <1>. DEFINE r == Increment(m, kernel, n, junk)
  <1>2. n \in Int /\ junk \in Bytes
    BY SegmentsOK DEF SegmentsOK, Bytes
  <1>3. Fine(r.m) /\ Flat!Kept(View(m), View(r.m), {})
    BY <1>2, IncrementKept DEF Counted
  <1>4. r.bytes = <<>> /\ r.outcome \in {"ok", "run_error", "fatal_error"}
    BY <1>2, IncrementEnds DEF Counted
  <1>5. Ends("grow", 0, r)
    BY <1>1
  <1>. HIDE DEF r
  <1>. QED  BY <1>3, <1>4, <1>5, GrowthSeen

LEMMA AlignSeen ==
  ASSUME Fine(m), NEW kernel \in BOOLEAN, NEW n \in Skips, Align(kernel, n)
  PROVE  Fine(m)' /\ Ended' /\ Flat!Next
  <1>. DEFINE r == Done(m, "ok", <<>>)
  <1>1. Ends("grow", 0, r)
    BY DEF Align
  <1>2. r.m = m /\ r.bytes = <<>> /\ r.outcome = "ok"
    BY DEF Done
  <1>. HIDE DEF r
  <1>. QED  BY <1>1, <1>2, KeptSame, GrowthSeen

-----------------------------------------------------------------------------
\* Rounding up does not make a number smaller.
LEMMA RoundedUp ==
  ASSUME NEW a \in Int, NEW n \in Nat \ {0}
  PROVE  ROUND_UP(a, n) \in Int /\ ROUND_UP(a, n) >= a
  <1>. DEFINE x == a + n - 1
              q == x \div n
  <1>1. x \in Int
    OBVIOUS
  <1>. HIDE DEF x
  <1>2. q \in Int /\ x % n \in 0 .. n - 1 /\ x % n = x - n * q
    BY <1>1
  <1>3. ROUND_UP(a, n) = q * n
    BY DEF ROUND_UP, x
  <1>. HIDE DEF q
  <1>. DEFINE p == n * q
  <1>4. p \in Int /\ p >= x - n + 1 /\ q * n = p
    BY <1>1, <1>2
  <1>. HIDE DEF p
  <1>. QED  BY <1>3, <1>4 DEF x

LEMMA CountedOn ==
  ASSUME Counted, NEW kernel \in BOOLEAN, NEW n \in Nat, pc' = Moved(kernel, n)
  PROVE  Counted'
  <1>1. /\ pc \in [data : Int, kdata : Int] /\ pc.data >= DATA_BOT /\ pc.kdata >= K_DATA_BOT
        /\ DATA_BOT \in Int /\ K_DATA_BOT \in Int
    BY Sizes DEF Counted
  <1>2. pc' = [data |-> IF kernel THEN pc.data ELSE pc.data + n,
               kdata |-> IF kernel THEN pc.kdata + n ELSE pc.kdata]
    BY <1>1 DEF Moved
  <1>. QED  BY <1>1, <1>2 DEF Counted

LEMMA CountedInit == ASSUME pc = FirstPc PROVE Counted
  BY Sizes DEF Counted, FirstPc
LEMMA CountedReset == ASSUME pc' = FirstPc PROVE Counted'
  BY Sizes DEF Counted, FirstPc
LEMMA CountedSame == ASSUME Counted, pc' = pc PROVE Counted'
  BY DEF Counted

LEMMA AlignCounted ==
  ASSUME Counted, NEW kernel \in BOOLEAN, NEW n \in Skips, Align(kernel, n)
  PROVE  Counted'
  <1>. DEFINE a == IF kernel THEN pc.kdata ELSE pc.data
              k == ROUND_UP(a, n) - a
  <1>1. pc' = Moved(kernel, k)
    BY DEF Align
  <1>2. a \in Int /\ n \in Nat \ {0}
    BY SegmentsOK DEF SegmentsOK, Counted
  <1>. HIDE DEF a
  <1>3. k \in Nat
    <2>. DEFINE u == ROUND_UP(a, n)
    <2>1. u \in Int /\ u >= a
      BY <1>2, RoundedUp
    <2>. HIDE DEF u
    <2>2. u - a \in Nat
      BY <1>2, <2>1
    <2>. QED  BY <2>2 DEF u
  <1>. HIDE DEF k
  <1>. QED  BY <1>1, <1>3, CountedOn

LEMMA ArrangedInit == Init => Arranged /\ Flat!Init
  <1>. SUFFICES ASSUME Init  PROVE Arranged /\ Flat!Init
    OBVIOUS
  <1>1. m = Empty /\ pc = FirstPc /\ last.bytes = <<>> /\ last.outcome = "ok" /\ last.op = "reset"
    BY DEF Init
  <1>2. Arranged
    BY <1>1, EmptyFine, CountedInit, EmptySeq DEF Arranged, Ended, Outcomes
  <1>3. \A x \in DOMAIN View(m) : View(m)[x] = 0
    BY <1>1, EmptyFine DEF View
  <1>4. [last EXCEPT !.outcome = IF @ = "IBE" THEN "ok" ELSE @].op = "reset"
    BY DEF Init
  <1>. QED  BY <1>2, <1>3, <1>4, ViewIs DEF Flat!Init

LEMMA ArrangedStep ==
  Arranged /\ [Next]_vars
    => Arranged' /\ [Flat!Next]_(Flat!vars)
  <1>. SUFFICES ASSUME Arranged, [Next]_vars  PROVE Arranged' /\ [Flat!Next]_(Flat!vars)
    OBVIOUS
  <1>0. Fine(m) /\ Counted
    BY DEF Arranged
  <1>a. Addresses \subseteq Int /\ Skips \subseteq Nat /\ {1, 2, 4} \subseteq Nat
    BY SegmentsOK DEF SegmentsOK
  <1>b. SUFFICES \/ Fine(m)' /\ Ended' /\ Flat!Next /\ Counted'
                 \/ Arranged' /\ UNCHANGED Flat!vars
    BY DEF Arranged
  <1>1. CASE make_memory
    BY <1>1, ResetSeen, CountedReset DEF make_memory
  <1>2. ASSUME NEW a \in Addresses, NEW n \in {1, 2, 4}, Load(a, n)
        PROVE  Fine(m)' /\ Ended' /\ Flat!Next /\ Counted'
    <2>1. pc' = pc /\ a \in Int
      BY <1>2, <1>a DEF Load
    <2>. QED  BY <1>0, <1>2, <2>1, LoadSeen, CountedSame
  <1>3. ASSUME NEW a \in Addresses, NEW n \in {1, 2, 4}, NEW word \in Words, Store(a, n, word)
        PROVE  Fine(m)' /\ Ended' /\ Flat!Next /\ Counted'
    <2>1. pc' = pc /\ a \in Int
      BY <1>3, <1>a DEF Store
    <2>. QED  BY <1>0, <1>3, <2>1, StoresSeen, CountedSame
  <1>4. ASSUME NEW a \in Addresses, NEW word \in Words, StoreInst(a, word)
        PROVE  Fine(m)' /\ Ended' /\ Flat!Next /\ Counted'
    <2>1. pc' = pc /\ a \in Int
      BY <1>4, <1>a DEF StoreInst
    <2>. QED  BY <1>0, <1>4, <2>1, InstSeen, CountedSame
  <1>5. ASSUME NEW n \in SbrkSizes, sbrk(n)
        PROVE  Fine(m)' /\ Ended' /\ Flat!Next /\ Counted'
    <2>1. pc' = pc
      BY <1>5 DEF sbrk
    <2>. QED  BY <1>0, <1>5, <2>1, SbrkSeen, CountedSame
  <1>6. ASSUME NEW kernel \in BOOLEAN, NEW n \in {1, 2, 4}, NEW word \in Words,
               PlaceDatum(kernel, n, word)
        PROVE  Fine(m)' /\ Ended' /\ Flat!Next /\ Counted'
    <2>1. pc' = Moved(kernel, n) /\ n \in Nat
      BY <1>6, <1>a DEF PlaceDatum
    <2>. QED  BY <1>0, <1>6, <2>1, PlacedSeen, CountedOn
  <1>7. ASSUME NEW kernel \in BOOLEAN, NEW n \in Skips, Space(kernel, n)
        PROVE  Fine(m)' /\ Ended' /\ Flat!Next /\ Counted'
    <2>1. pc' = Moved(kernel, n) /\ n \in Nat
      BY <1>7, <1>a DEF Space
    <2>. QED  BY <1>0, <1>7, <2>1, SpaceSeen, CountedOn
  <1>8. ASSUME NEW kernel \in BOOLEAN, NEW n \in Skips, Align(kernel, n)
        PROVE  Fine(m)' /\ Ended' /\ Flat!Next /\ Counted'
    BY <1>0, <1>8, AlignSeen, AlignCounted
  <1>9. CASE UNCHANGED vars
    <2>1. m' = m /\ pc' = pc /\ last' = last
      BY <1>9 DEF vars
    <2>2. Fine(m)' /\ Ended'
      BY <2>1 DEF Arranged, Ended
    <2>3. Counted'
      BY <1>0, <2>1, CountedSame
    <2>4. UNCHANGED Flat!vars
      <3>1. View(m)' = View(m)
        BY <2>1
      <3>. QED  BY <2>1, <3>1, ViewIs DEF Flat!vars
    <2>. QED  BY <2>2, <2>3, <2>4 DEF Arranged
  <1>. QED  BY <1>1, <1>2, <1>3, <1>4, <1>5, <1>6, <1>7, <1>8, <1>9 DEF Next

LEMMA ArrangedTyped == Arranged => TypeOK
  <1>. SUFFICES ASSUME Arranged  PROVE TypeOK
    OBVIOUS
  <1>1. /\ m.data \in Seq(Bytes) /\ m.stack \in Seq(Bytes) /\ m.kdata \in Seq(Bytes)
        /\ Len(m.data) % 4 = 0 /\ Len(m.stack) % 4 = 0 /\ Len(m.kdata) % 4 = 0
    BY Lengths DEF Arranged
  <1>2. m.text \in [1 .. TextWords -> {NULL} \cup [1 .. 4 -> Bytes]]
    BY DEF Arranged, Fine, Whole
  <1>3. pc.data \in Nat /\ pc.kdata \in Nat
    <2>1. DATA_BOT \in Nat /\ K_DATA_BOT \in Nat
      BY SegmentsOK DEF SegmentsOK
    <2>. QED  BY <2>1 DEF Arranged, Counted
  <1>. QED  BY <1>1, <1>2, <1>3 DEF Arranged, Ended, TypeOK

\* However the segments are used and grow, they hold whole words of bytes, which is
\* what lets an aligned load or store of CPU/mem.cpp find all of its bytes inside
\* one segment, and the assembler's counters stay addresses.
THEOREM Typing == Spec => []TypeOK
  <1>1. Init => Arranged
    BY ArrangedInit
  <1>2. Arranged /\ [Next]_vars => Arranged'
    BY ArrangedStep
  <1>. QED  BY <1>1, <1>2, ArrangedTyped, PTL DEF Spec

\* For segments of any layout and size, the functions of CPU/mem.cpp and the
\* assembler's data are one flat memory: a load gives the bytes stored last, a store
\* changes its own bytes and no other, growth of the stack, of the data by sbrk or
\* of those of a file keeps what was there and adds zeros, what sbrk gives out was
\* nobody's, and what is refused changes nothing.  The kernel's data are left out
\* while they grow.
THEOREM SegmentsAreFlatMemory == Spec => ImplementsFlatMemory
  <1>1. Init => Arranged /\ Flat!Init
    BY ArrangedInit
  <1>2. Arranged /\ [Next]_vars
          => Arranged' /\ [Flat!Next]_(Flat!vars)
    BY ArrangedStep
  <1>. QED  BY <1>1, <1>2, PTL DEF Spec, ImplementsFlatMemory, Flat!Spec
===============================================================================
