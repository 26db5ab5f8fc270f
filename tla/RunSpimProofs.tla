---------------------------- MODULE RunSpimProofs ----------------------------
(***************************************************************************)
(* Proofs about RunSpim, for every value of its constants.                 *)
(*   1. Types, the stack of calls, the latency of interrupts, the exit and *)
(*      the handler.                                                       *)
(*   2. Delayed branches: the nested call of run_spim for a delay slot.    *)
(*   3. RunSpim implements UserMachine.                                    *)
(***************************************************************************)
EXTENDS RunSpim, TLAPS, SequenceTheorems

-----------------------------------------------------------------------------
(***************************************************************************)
(* The stack of calls.                                                     *)
(***************************************************************************)
\* Replacing the innermost call leaves its callers alone.
LEMMA ReplaceTop ==
  ASSUME NEW S, NEW s \in Seq(S), s # <<>>, NEW f \in S
  PROVE  LET t == <<f>> \o Tail(s)
         IN  /\ t \in Seq(S) /\ t # <<>>
             /\ Len(t) = Len(s)
             /\ t[1] = f
             /\ \A i \in 2 .. Len(s) : t[i] = s[i]
  OBVIOUS

\* A nested call becomes the innermost one.
LEMMA PushCall ==
  ASSUME NEW S, NEW s \in Seq(S), NEW f \in S
  PROVE  LET t == <<f>> \o s
         IN  /\ t \in Seq(S) /\ t # <<>>
             /\ Len(t) = Len(s) + 1
             /\ t[1] = f
             /\ \A i \in 2 .. Len(t) : t[i] = s[i - 1]
  OBVIOUS

\* When it returns, the next one is replaced.
LEMMA PopCall ==
  ASSUME NEW S, NEW s \in Seq(S), Len(s) > 1, NEW f \in S
  PROVE  LET t == <<f>> \o Tail(Tail(s))
         IN  /\ t \in Seq(S) /\ t # <<>>
             /\ Len(t) = Len(s) - 1
             /\ t[1] = f
             /\ \A i \in 2 .. Len(t) : t[i] = s[i + 1]
  <1>. DEFINE u == Tail(s)
  <1>1. s # <<>>
    OBVIOUS
  <1>2. /\ u \in Seq(S) /\ Len(u) = Len(s) - 1
        /\ \A i \in 1 .. Len(u) : u[i] = s[i + 1]
    BY <1>1, HeadTailProperties
  <1>. HIDE DEF u
  <1>3. u # <<>>
    BY <1>2
  <1>. DEFINE t == <<f>> \o Tail(u)
  <1>4. /\ t \in Seq(S) /\ t # <<>> /\ Len(t) = Len(u) /\ t[1] = f
        /\ \A i \in 2 .. Len(u) : t[i] = u[i]
    BY <1>2, <1>3, ReplaceTop
  <1>. HIDE DEF t
  <1>5. \A i \in 2 .. Len(t) : t[i] = s[i + 1]
    BY <1>2, <1>4
  <1>. QED  BY <1>2, <1>4, <1>5 DEF t, u

LEMMA NextToTop ==
  ASSUME NEW S, NEW s \in Seq(S), Len(s) > 1
  PROVE  Head(Tail(s)) = s[2] /\ s[2] \in S
  <1>1. s # <<>> /\ 2 \in 1 .. Len(s)
    OBVIOUS
  <1>2. /\ Tail(s) \in Seq(S) /\ Len(Tail(s)) = Len(s) - 1
        /\ \A i \in 1 .. Len(Tail(s)) : Tail(s)[i] = s[i + 1]
    BY <1>1, HeadTailProperties
  <1>3. Tail(s)[1] = s[2]
    BY <1>2
  <1>4. Head(Tail(s)) = Tail(s)[1]
    BY <1>2
  <1>. QED  BY <1>1, <1>3, <1>4

\* A call whose chunk is no longer than the interval between two checks.
BoundedCall == {f \in CallType : MappedIO => f.chunk <= IO_INTERVAL}

LEMMA BoundedIsCall == BoundedCall \subseteq CallType
  BY DEF BoundedCall

\* What the steps make of one call.
LEMMA IssuedCall ==
  ASSUME NEW f \in BoundedCall, PC \in Addr
  PROVE  /\ Issued(f) \in BoundedCall
         /\ Issued(f).chunk = f.chunk /\ Issued(f).left = f.left
         /\ Issued(f).ok = f.ok
  <1>1. /\ Issued(f) \in CallType
        /\ Issued(f).chunk = f.chunk /\ Issued(f).left = f.left
        /\ Issued(f).ok = f.ok
    BY BoundedIsCall DEF Issued, CallType
  <1>. QED  BY <1>1 DEF BoundedCall

LEMMA CallStepDone ==
  ASSUME NEW f \in BoundedCall, f.chunk > 0
  PROVE  /\ OneStepDone(f) \in BoundedCall
         /\ OneStepDone(f).chunk = f.chunk - 1
         /\ OneStepDone(f).left = f.left
         /\ OneStepDone(f).ok = f.ok
  <1>1. /\ OneStepDone(f) \in CallType
        /\ OneStepDone(f).chunk = f.chunk - 1
        /\ OneStepDone(f).left = f.left
        /\ OneStepDone(f).ok = f.ok
    BY BoundedIsCall DEF OneStepDone, CallType
  <1>2. f.chunk \in Nat /\ IO_INTERVAL \in Nat
    BY BoundedIsCall, ParametersOK DEF ParametersOK, CallType
  <1>3. ASSUME MappedIO PROVE f.chunk - 1 <= IO_INTERVAL
    <2>1. f.chunk <= IO_INTERVAL
      BY <1>3 DEF BoundedCall
    <2>. QED  BY <1>2, <2>1
  <1>. QED  BY <1>1, <1>3 DEF BoundedCall

LEMMA CallReturning ==
  ASSUME NEW f \in BoundedCall, NEW ok \in {0, 1}
  PROVE  /\ Returning(f, ok) \in BoundedCall
         /\ Returning(f, ok).chunk = 0
         /\ Returning(f, ok).left = 0
         /\ Returning(f, ok).ok = ok
  <1>1. /\ Returning(f, ok) \in CallType
        /\ Returning(f, ok).chunk = 0
        /\ Returning(f, ok).left = 0
        /\ Returning(f, ok).ok = ok
    BY BoundedIsCall DEF Returning, CallType
  <1>2. 0 <= IO_INTERVAL
    BY ParametersOK DEF ParametersOK
  <1>. QED  BY <1>1, <1>2 DEF BoundedCall

LEMMA CallNextChunk ==
  ASSUME NEW f \in BoundedCall, f.left > 0
  PROVE  /\ NextChunk(f) \in BoundedCall
         /\ NextChunk(f).chunk > 0
         /\ NextChunk(f).chunk + NextChunk(f).left = f.left
         /\ MappedIO => NextChunk(f).chunk <= IO_INTERVAL
         /\ NextChunk(f).ok = f.ok
  <1>. DEFINE n == ChunkSize(f)
  <1>0. f \in CallType
    BY BoundedIsCall
  <1>1. n \in 1 .. f.left
    BY <1>0, ParametersOK DEF ParametersOK, ChunkSize, CallType
  <1>2. MappedIO => n <= IO_INTERVAL
    BY <1>0, ParametersOK DEF ParametersOK, ChunkSize, CallType
  <1>3. /\ NextChunk(f).chunk = n
        /\ NextChunk(f).left = f.left - n
        /\ NextChunk(f).ok = f.ok
    BY <1>0 DEF NextChunk, CallType
  <1>. HIDE DEF n
  <1>4. [f EXCEPT !.chunk = n, !.left = @ - n] \in CallType
    <2>1. n \in Nat /\ f.left - n \in Nat
      BY <1>0, <1>1 DEF CallType
    <2>. DEFINE l == f.left - n
    <2>. HIDE DEF l
    <2>2. [f EXCEPT !.chunk = n, !.left = l] \in CallType
      BY <1>0, <2>1 DEF CallType, l
    <2>. QED  BY <2>2 DEF l
  <1>5. NextChunk(f) \in CallType
    BY <1>4 DEF NextChunk, n
  <1>6. n > 0 /\ n + (f.left - n) = f.left
    BY <1>0, <1>1 DEF CallType
  <1>. QED  BY <1>2, <1>3, <1>5, <1>6 DEF BoundedCall

LEMMA NewCall ==
  ASSUME NEW steps \in Nat, NEW slot \in Addr,
         NEW ret \in {"abs", "region", "epc"}, NEW target \in Addr
  PROVE  /\ Call(steps, slot, ret, target) \in BoundedCall
         /\ Call(steps, slot, ret, target).chunk = 0
         /\ Call(steps, slot, ret, target).left = steps
         /\ Call(steps, slot, ret, target).ok = 1
  <1>1. /\ Call(steps, slot, ret, target) \in CallType
        /\ Call(steps, slot, ret, target).chunk = 0
        /\ Call(steps, slot, ret, target).left = steps
        /\ Call(steps, slot, ret, target).ok = 1
    BY DEF Call, CallType
  <1>2. 0 <= IO_INTERVAL
    BY ParametersOK DEF ParametersOK
  <1>. QED  BY <1>1, <1>2 DEF BoundedCall

-----------------------------------------------------------------------------
(***************************************************************************)
(* A well formed stack: every call that waits for a nested one is in the   *)
(* middle of a chunk, and a nested call has one step in all.               *)
(***************************************************************************)
FramesOK ==
  /\ frames \in Seq(BoundedCall)
  /\ \A i \in 2 .. Len(frames) : frames[i].chunk > 0
  /\ \A i \in 1 .. Len(frames) - 1 : frames[i].chunk + frames[i].left <= 1

LEMMA TopTyped ==
  ASSUME FramesOK, frames # <<>>
  PROVE  /\ Top \in BoundedCall /\ Top = frames[1]
         /\ Top.ret \in {"abs", "region", "epc"} /\ Top.target \in Addr
         /\ Top.ok \in {0, 1} /\ Top.chunk \in Nat /\ Top.left \in Nat
  <1>1. Top \in BoundedCall /\ Top = frames[1]
    BY DEF FramesOK, Top
  <1>. QED  BY <1>1, BoundedIsCall DEF CallType

LEMMA TopReplaced ==
  ASSUME FramesOK, frames # <<>>, NEW f \in BoundedCall, frames' = WithTop(f),
         f.chunk + f.left <= Top.chunk + Top.left
  PROVE  /\ FramesOK' /\ frames' # <<>>
         /\ Len(frames') = Len(frames)
         /\ Top' = f
  <1>1. /\ frames' \in Seq(BoundedCall) /\ frames' # <<>>
        /\ Len(frames') = Len(frames) /\ frames'[1] = f
        /\ \A i \in 2 .. Len(frames) : frames'[i] = frames[i]
    BY ReplaceTop DEF FramesOK, WithTop
  <1>2. Len(frames) \in Nat
    BY DEF FramesOK
  <1>3. \A i \in 2 .. Len(frames') : frames'[i].chunk > 0
    BY <1>1 DEF FramesOK
  <1>4. ASSUME NEW i \in 1 .. Len(frames') - 1
        PROVE  frames'[i].chunk + frames'[i].left <= 1
    <2>1. frames[i].chunk + frames[i].left <= 1
      BY <1>1, <1>2, <1>4 DEF FramesOK
    <2>2. CASE i = 1
      <3>1. f.chunk \in Nat /\ f.left \in Nat
        BY BoundedIsCall DEF CallType
      <3>2. Top.chunk + Top.left <= 1
        BY <2>1, <2>2, TopTyped
      <3>. QED  BY <1>1, <2>2, <3>1, <3>2, TopTyped
    <2>3. CASE i # 1
      <3>1. i \in 2 .. Len(frames)
        BY <1>1, <1>2, <1>4, <2>3
      <3>. QED  BY <1>1, <2>1, <3>1
    <2>. QED  BY <2>2, <2>3
  <1>5. FramesOK'
    BY <1>1, <1>3, <1>4 DEF FramesOK
  <1>. QED  BY <1>1, <1>5 DEF FramesOK, Top

LEMMA TopStepped ==
  ASSUME FramesOK, frames # <<>>, Top.chunk > 0, PC \in Addr, Done
  PROVE  /\ FramesOK' /\ frames' # <<>>
         /\ Len(frames') = Len(frames)
         /\ Top'.chunk = Top.chunk - 1
         /\ Top'.left = Top.left
  <1>. DEFINE f == OneStepDone(Issued(Top))
  <1>1. /\ Issued(Top) \in BoundedCall
        /\ Issued(Top).chunk = Top.chunk /\ Issued(Top).left = Top.left
    BY TopTyped, IssuedCall
  <1>2. f \in BoundedCall /\ f.chunk = Top.chunk - 1 /\ f.left = Top.left
    BY <1>1, CallStepDone
  <1>3. frames' = WithTop(f)
    BY DEF Done
  <1>. HIDE DEF f
  <1>4. f.chunk + f.left <= Top.chunk + Top.left
    BY <1>2, TopTyped
  <1>5. FramesOK' /\ frames' # <<>> /\ Len(frames') = Len(frames) /\ Top' = f
    BY <1>2, <1>3, <1>4, TopReplaced
  <1>. QED  BY <1>2, <1>5

LEMMA TopReturning ==
  ASSUME FramesOK, frames # <<>>, PC \in Addr, NEW ok \in {0, 1},
         frames' = WithTop(Returning(Issued(Top), ok))
  PROVE  /\ FramesOK' /\ frames' # <<>>
         /\ Len(frames') = Len(frames)
         /\ Top'.chunk = 0 /\ Top'.left = 0 /\ Top'.ok = ok
  <1>. DEFINE f == Returning(Issued(Top), ok)
  <1>1. Issued(Top) \in BoundedCall
    BY TopTyped, IssuedCall
  <1>2. f \in BoundedCall /\ f.chunk = 0 /\ f.left = 0 /\ f.ok = ok
    BY <1>1, CallReturning
  <1>. HIDE DEF f
  <1>3. f.chunk + f.left <= Top.chunk + Top.left
    BY <1>2, TopTyped
  <1>4. frames' = WithTop(f)
    BY DEF f
  <1>5. FramesOK' /\ frames' # <<>> /\ Len(frames') = Len(frames) /\ Top' = f
    BY <1>2, <1>3, <1>4, TopReplaced
  <1>. QED  BY <1>2, <1>5

LEMMA TopNextChunk ==
  ASSUME FramesOK, StartChunk
  PROVE  /\ FramesOK' /\ frames' # <<>>
         /\ Len(frames') = Len(frames)
         /\ Top'.chunk > 0
         /\ Top'.chunk + Top'.left = Top.left
  <1>. DEFINE f == NextChunk(Top)
  <1>1. frames # <<>> /\ Top.left > 0 /\ Top.chunk = 0 /\ frames' = WithTop(f)
    BY DEF StartChunk
  <1>2. f \in BoundedCall /\ f.chunk > 0 /\ f.chunk + f.left = Top.left
    BY <1>1, TopTyped, CallNextChunk
  <1>. HIDE DEF f
  <1>3. f.chunk + f.left <= Top.chunk + Top.left
    BY <1>1, <1>2, TopTyped
  <1>4. FramesOK' /\ frames' # <<>> /\ Len(frames') = Len(frames) /\ Top' = f
    BY <1>1, <1>2, <1>3, TopReplaced
  <1>. QED  BY <1>2, <1>4

\* A jump with a delay slot calls run_spim.
LEMMA SlotCalled ==
  ASSUME FramesOK, frames # <<>>, Top.chunk > 0, PC \in Addr,
         NEW slot \in Addr, NEW ret \in {"abs", "region", "epc"},
         NEW target \in Addr,
         frames' = <<Call(1, slot, ret, target)>> \o WithTop(Issued(Top))
  PROVE  /\ FramesOK' /\ frames' # <<>>
         /\ Len(frames') = Len(frames) + 1
         /\ Top'.chunk = 0 /\ Top'.left = 1
  <1>. DEFINE c == Call(1, slot, ret, target)
              s == WithTop(Issued(Top))
  <1>2. /\ Issued(Top) \in BoundedCall
        /\ Issued(Top).chunk = Top.chunk /\ Issued(Top).left = Top.left
    BY TopTyped, IssuedCall
  <1>3. /\ s \in Seq(BoundedCall) /\ s # <<>> /\ Len(s) = Len(frames)
        /\ s[1] = Issued(Top)
        /\ \A i \in 2 .. Len(frames) : s[i] = frames[i]
    BY <1>2, ReplaceTop DEF FramesOK, WithTop
  <1>4. c \in BoundedCall /\ c.chunk = 0 /\ c.left = 1
    BY NewCall
  <1>. HIDE DEF c, s
  <1>5. frames' = <<c>> \o s
    BY DEF c, s
  <1>6. /\ frames' \in Seq(BoundedCall) /\ frames' # <<>>
        /\ Len(frames') = Len(s) + 1 /\ frames'[1] = c
        /\ \A i \in 2 .. Len(frames') : frames'[i] = s[i - 1]
    <2>. DEFINE t == <<c>> \o s
    <2>1. /\ t \in Seq(BoundedCall) /\ t # <<>> /\ Len(t) = Len(s) + 1
          /\ t[1] = c
          /\ \A i \in 2 .. Len(t) : t[i] = s[i - 1]
      BY <1>3, <1>4, PushCall
    <2>. HIDE DEF t
    <2>2. frames' = t
      BY <1>5 DEF t
    <2>. QED  BY <2>1, <2>2
  <1>7. Len(s) \in Nat
    BY <1>3
  <1>8. s[1].chunk = Top.chunk /\ s[1].left = Top.left
    BY <1>2, <1>3
  <1>9. ASSUME NEW i \in 1 .. Len(s) PROVE s[i].chunk > 0
    <2>1. CASE i = 1
      BY <1>8, <2>1
    <2>2. CASE i # 1
      <3>1. i \in 2 .. Len(frames)
        BY <1>3, <1>7, <1>9, <2>2
      <3>. QED  BY <1>3, <3>1 DEF FramesOK
    <2>. QED  BY <2>1, <2>2
  <1>10. \A i \in 2 .. Len(frames') : frames'[i].chunk > 0
    BY <1>6, <1>7, <1>9
  <1>11. ASSUME NEW i \in 1 .. Len(s) - 1
         PROVE  s[i].chunk + s[i].left <= 1
    <2>1. frames[i].chunk + frames[i].left <= 1
      BY <1>3, <1>7, <1>11 DEF FramesOK
    <2>2. CASE i = 1
      BY <1>8, <2>1, <2>2, TopTyped
    <2>3. CASE i # 1
      <3>1. i \in 2 .. Len(frames)
        BY <1>3, <1>7, <1>11, <2>3
      <3>. QED  BY <1>3, <2>1, <3>1
    <2>. QED  BY <2>2, <2>3
  <1>12. ASSUME NEW i \in 1 .. Len(frames') - 1
         PROVE  frames'[i].chunk + frames'[i].left <= 1
    <2>1. CASE i = 1
      BY <1>4, <1>6, <2>1
    <2>2. CASE i # 1
      <3>1. i - 1 \in 1 .. Len(s) - 1 /\ i \in 2 .. Len(frames')
        BY <1>6, <1>7, <1>12, <2>2
      <3>2. s[i - 1].chunk + s[i - 1].left <= 1
        BY <1>11, <3>1
      <3>. QED  BY <1>6, <3>1, <3>2
    <2>. QED  BY <2>1, <2>2
  <1>13. FramesOK'
    BY <1>6, <1>10, <1>12 DEF FramesOK
  <1>. QED  BY <1>3, <1>4, <1>6, <1>13 DEF Top

\* The jump goes on when the call returns.
LEMMA SlotReturned ==
  ASSUME FramesOK, Len(frames) > 1,
         frames' = <<OneStepDone(Caller)>> \o Tail(Tail(frames))
  PROVE  /\ FramesOK' /\ frames' # <<>>
         /\ Len(frames') = Len(frames) - 1
         /\ Caller \in BoundedCall /\ Caller.chunk > 0
         /\ Top'.chunk = Caller.chunk - 1
         /\ Top'.left = Caller.left
         /\ Len(frames') > 1 => Caller.chunk + Caller.left <= 1
  <1>. DEFINE f == OneStepDone(Caller)
  <1>0. Len(frames) \in Nat
    BY DEF FramesOK
  <1>1. Caller = frames[2] /\ Caller \in BoundedCall
    BY NextToTop DEF FramesOK, Caller
  <1>2. Caller.chunk > 0
    BY <1>0, <1>1 DEF FramesOK
  <1>3. f \in BoundedCall /\ f.chunk = Caller.chunk - 1 /\ f.left = Caller.left
    BY <1>1, <1>2, CallStepDone
  <1>4. /\ frames' \in Seq(BoundedCall) /\ frames' # <<>>
        /\ Len(frames') = Len(frames) - 1
        /\ frames'[1] = f
        /\ \A i \in 2 .. Len(frames') : frames'[i] = frames[i + 1]
    BY <1>3, PopCall DEF FramesOK
  <1>. HIDE DEF f
  <1>5. \A i \in 2 .. Len(frames') : frames'[i].chunk > 0
    BY <1>0, <1>4 DEF FramesOK
  <1>6. Len(frames') > 1 => Caller.chunk + Caller.left <= 1
    BY <1>0, <1>1, <1>4 DEF FramesOK
  <1>7. ASSUME NEW i \in 1 .. Len(frames') - 1
        PROVE  frames'[i].chunk + frames'[i].left <= 1
    <2>1. CASE i = 1
      <3>1. Caller.chunk \in Nat /\ Caller.left \in Nat
        BY <1>1, BoundedIsCall DEF CallType
      <3>2. Caller.chunk + Caller.left <= 1
        BY <1>0, <1>4, <1>6, <1>7
      <3>. QED  BY <1>3, <1>4, <2>1, <3>1, <3>2
    <2>2. CASE i # 1
      <3>1. i \in 2 .. Len(frames') /\ i + 1 \in 1 .. Len(frames) - 1
        BY <1>0, <1>4, <1>7, <2>2
      <3>. QED  BY <1>4, <3>1 DEF FramesOK
    <2>. QED  BY <2>1, <2>2
  <1>8. FramesOK'
    BY <1>4, <1>5, <1>7 DEF FramesOK
  <1>. QED  BY <1>1, <1>2, <1>3, <1>4, <1>6, <1>8 DEF Top

-----------------------------------------------------------------------------
(***************************************************************************)
(* Types.                                                                  *)
(***************************************************************************)
LEMMA Addresses ==
  /\ \A a \in Addr : Plus4(a) \in Addr /\ Minus4(a) \in Addr
  /\ 0 \in Addr /\ Bad \in Addr /\ EXCEPTION_ADDR \in Addr
  /\ StartAddrs \subseteq Addr
  BY ParametersOK DEF ParametersOK, Addr, Text, Bad, Plus4, Minus4

LEMMA InstrTyped ==
  ASSUME text \in Programs
  PROVE  Instr.target \in Addr
  <1>1. text \in [Text -> [op : Ops, target : Addr]]
    BY ParametersOK DEF ParametersOK
  <1>2. CASE PC \in Text
    BY <1>1, <1>2 DEF Instr
  <1>3. CASE PC \notin Text
    BY <1>3, Addresses DEF Instr
  <1>. QED  BY <1>2, <1>3

LEMMA TargetTyped ==
  ASSUME NEW ret \in {"abs", "region", "epc"}, NEW target \in Addr, NEW pc,
         EPC \in Addr
  PROVE  Target(ret, target, pc) \in Addr
  BY Addresses DEF Target

\* The registers of CP0, for what raises an exception and what does not.
CP0OK ==
  /\ EPC \in Addr
  /\ EXL \in {0, 1} /\ IE \in {0, 1} /\ BD \in {0, 1}
  /\ ExcCode \in Codes

LEMMA RaiseTyped ==
  ASSUME CP0OK, PC \in Addr, NEW code \in Codes, Raise(code), IE' \in {0, 1}
  PROVE  CP0OK'
  BY Addresses DEF CP0OK, Raise

\* What the rest of the state must satisfy.
RestOK ==
  /\ text \in Programs
  /\ PC \in Addr
  /\ IP \subseteq Lines
  /\ exception_occurred \in {0, 1} /\ running_in_delay_slot \in {0, 1}
  /\ exited \in {0, 1}
  /\ driver \in {"run", "idle"}
  /\ continuable \in {0, 1}
  /\ waited \in Nat

Typed == FramesOK /\ CP0OK /\ RestOK

LEMMA TypedIsTypeOK == Typed => TypeOK
  <1>1. Seq(BoundedCall) \subseteq Seq(CallType)
    BY BoundedIsCall
  <1>. QED  BY <1>1 DEF Typed, FramesOK, CP0OK, RestOK, TypeOK

LEMMA TypedInit == Init => Typed
  BY Addresses DEF Init, Typed, FramesOK, CP0OK, RestOK, Codes

\* A jump, with or without a delay slot.
LEMMA JumpTyped ==
  ASSUME Typed, frames # <<>>, Top.chunk > 0,
         NEW ret \in {"abs", "region", "epc"}, NEW target \in Addr,
         Jump(ret, target)
  PROVE  /\ FramesOK' /\ PC' \in Addr /\ running_in_delay_slot' \in {0, 1}
  <1>. USE DEF Typed, RestOK
  <1>1. CASE DelayedBranches
    <2>1. /\ PC' = Plus4(PC) /\ running_in_delay_slot' = 1
          /\ frames' = <<Call(1, Plus4(PC), ret, target)>>
                          \o WithTop(Issued(Top))
      BY <1>1 DEF Jump
    <2>2. FramesOK'
      BY <2>1, SlotCalled, Addresses
    <2>. QED  BY <2>1, <2>2, Addresses
  <1>2. CASE ~DelayedBranches
    <2>1. /\ PC' = Target(ret, target, PC) /\ Done
          /\ UNCHANGED running_in_delay_slot
      BY <1>2 DEF Jump
    <2>2. FramesOK'
      BY <2>1, TopStepped
    <2>3. PC' \in Addr
      BY <2>1, TargetTyped DEF CP0OK
    <2>. QED  BY <2>1, <2>2, <2>3
  <1>. QED  BY <1>1, <1>2

\* One instruction.
LEMMA ExecuteTyped ==
  ASSUME Typed, NEW ticks \in {{}, {TimerLine}}, Poll(ticks), Execute
  PROVE  Typed'
  <1>1. /\ frames # <<>> /\ Top.chunk > 0 /\ FramesOK /\ PC \in Addr
        /\ CP0OK /\ text \in Programs
    BY DEF Typed, RestOK, Poll
  <1>2. /\ text' \in Programs /\ IP' \subseteq Lines /\ driver' \in {"run", "idle"}
        /\ continuable' \in {0, 1} /\ waited' \in Nat
    BY DEF Typed, RestOK, Poll, Lines
  <1>. DEFINE Rest == /\ PC' \in Addr
                      /\ exception_occurred' \in {0, 1}
                      /\ running_in_delay_slot' \in {0, 1}
                      /\ exited' \in {0, 1}
  <1>3. SUFFICES FramesOK' /\ CP0OK' /\ Rest
    BY <1>2 DEF Typed, RestOK
  <1>4. running_in_delay_slot \in {0, 1} /\ exited \in {0, 1}
    BY DEF Typed, RestOK
  <1>5. ASSUME Advance PROVE FramesOK' /\ Rest
    BY <1>1, <1>4, <1>5, TopStepped, Addresses DEF Advance
  <1>6. CASE Plain
    BY <1>1, <1>5, <1>6 DEF Plain, CP0OK
  <1>7. CASE Fault
    <2>1. PICK code \in Codes : Except(code)
      BY <1>7 DEF Fault, Codes
    <2>2. CP0OK'
      BY <1>1, <1>7, <2>1, RaiseTyped DEF Fault, Except, CP0OK
    <2>3. FramesOK'
      BY <1>1, <1>7, TopStepped DEF Fault
    <2>. QED  BY <1>4, <1>7, <2>1, <2>2, <2>3, Addresses DEF Fault, Except
  <1>8. CASE SetIE
    BY <1>1, <1>5, <1>8 DEF SetIE, CP0OK
  <1>9. CASE SkipEPC
    BY <1>1, <1>5, <1>9, Addresses DEF SkipEPC, CP0OK
  <1>10. CASE NotTaken
    <2>1. FramesOK'
      BY <1>1, <1>10, TopStepped DEF NotTaken
    <2>2. PC' \in Addr
      BY <1>1, <1>10, Addresses DEF NotTaken
    <2>. QED  BY <1>1, <1>4, <1>10, <2>1, <2>2 DEF NotTaken, CP0OK
  <1>11. CASE JumpOrBranch
    <2>1. FramesOK' /\ PC' \in Addr /\ running_in_delay_slot' \in {0, 1}
      BY <1>1, <1>11, InstrTyped, JumpTyped DEF JumpOrBranch
    <2>. QED  BY <1>1, <1>4, <1>11, <2>1 DEF JumpOrBranch, CP0OK
  <1>12. CASE ExceptionReturn
    <2>1. FramesOK' /\ PC' \in Addr /\ running_in_delay_slot' \in {0, 1}
      BY <1>1, <1>12, Addresses, JumpTyped DEF ExceptionReturn
    <2>. QED  BY <1>1, <1>4, <1>12, <2>1 DEF ExceptionReturn, CP0OK
  <1>13. CASE Exit
    <2>1. FramesOK'
      BY <1>1, <1>13, TopReturning DEF Exit
    <2>. QED  BY <1>1, <1>4, <1>13, <2>1 DEF Exit, CP0OK
  <1>14. CASE DebuggerBreak
    <2>1. FramesOK'
      BY <1>1, <1>14, TopReturning DEF DebuggerBreak
    <2>2. CP0OK'
      BY <1>1, <1>14, RaiseTyped DEF DebuggerBreak, Codes, CP0OK
    <2>. QED  BY <1>1, <1>4, <1>14, <2>1, <2>2 DEF DebuggerBreak
  <1>. QED  BY <1>6, <1>7, <1>8, <1>9, <1>10, <1>11, <1>12, <1>13, <1>14
            DEF Execute

\* The actions, with the bound variables of Next picked.
LEMMA StepCases ==
  ASSUME Next
  PROVE  \/ \E lines \in SUBSET DeviceLines : CheckInterrupt(lines)
         \/ \E ticks \in {{}, {TimerLine}} : Poll(ticks) /\ Execute
         \/ Acknowledge
         \/ ReturnFromSlot
         \/ Return
         \/ LongJump
         \/ \E pc \in StartAddrs \cup {PC} : RunProgram(pc)
         \/ EndRunProgram
  BY DEF Next, Machine, Terminal, OuterLoop, Step, NonInstruction, TypeControlC

LEMMA TypedStep ==
  ASSUME Typed, [Next]_vars
  PROVE  Typed'
  <1>0. CASE UNCHANGED vars
    BY <1>0 DEF vars, cp0, Typed, FramesOK, CP0OK, RestOK
  <1>1. ASSUME NEW lines \in SUBSET DeviceLines, CheckInterrupt(lines)
        PROVE  Typed'
    <2>1. FramesOK'
      BY <1>1, TopNextChunk DEF CheckInterrupt, Typed
    <2>2. IP' \subseteq Lines /\ IE' = IE
      BY <1>1 DEF CheckInterrupt, StartChunk, Typed, RestOK, Lines
    <2>3. /\ text' \in Programs /\ driver' \in {"run", "idle"}
          /\ running_in_delay_slot' \in {0, 1} /\ continuable' \in {0, 1}
          /\ exited' \in {0, 1} /\ waited' \in Nat
      BY <1>1 DEF CheckInterrupt, StartChunk, Typed, RestOK
    <2>4. CASE Except("Int")
      <3>1. CP0OK'
        BY <2>2, <2>4, RaiseTyped DEF Typed, CP0OK, RestOK, Except, Codes
      <3>2. PC' \in Addr /\ exception_occurred' \in {0, 1}
        BY <2>4, Addresses DEF Except
      <3>. QED  BY <2>1, <2>2, <2>3, <3>1, <3>2 DEF Typed, RestOK
    <2>5. CASE UNCHANGED <<PC, EXL, BD, ExcCode, EPC, exception_occurred>>
      BY <2>1, <2>2, <2>3, <2>5 DEF Typed, CP0OK, RestOK
    <2>. QED  BY <1>1, <2>4, <2>5 DEF CheckInterrupt
  <1>2. ASSUME NEW ticks \in {{}, {TimerLine}}, Poll(ticks) /\ Execute
        PROVE  Typed'
    BY <1>2, ExecuteTyped
  <1>3. CASE Acknowledge
    <2>1. FramesOK'
      BY <1>3, TopStepped DEF Acknowledge, Advance, Typed, RestOK
    <2>2. PC' \in Addr
      BY <1>3, Addresses DEF Acknowledge, Advance, Typed, RestOK
    <2>. QED  BY <1>3, <2>1, <2>2
              DEF Acknowledge, Advance, Typed, CP0OK, RestOK, Codes
  <1>4. CASE ReturnFromSlot
    <2>1. FramesOK'
      BY <1>4, SlotReturned DEF ReturnFromSlot, Typed
    <2>2. Top.ret \in {"abs", "region", "epc"} /\ Top.target \in Addr
      BY <1>4, TopTyped DEF ReturnFromSlot, Finished, Typed
    <2>3. PC' \in Addr
      BY <1>4, <2>2, Addresses, TargetTyped
         DEF ReturnFromSlot, Typed, CP0OK
    <2>. QED  BY <1>4, <2>1, <2>3
              DEF ReturnFromSlot, cp0, Typed, CP0OK, RestOK
  <1>5. CASE Return
    <2>1. Top.ok \in {0, 1}
      BY <1>5, TopTyped DEF Return, Finished, Typed
    <2>. QED  BY <1>5, <2>1 DEF Return, cp0, Typed, FramesOK, CP0OK, RestOK
  <1>6. CASE LongJump
    BY <1>6 DEF LongJump, cp0, Typed, FramesOK, CP0OK, RestOK
  <1>7. ASSUME NEW pc \in StartAddrs \cup {PC}, RunProgram(pc)
        PROVE  Typed'
    <2>1. RunSteps \in Nat
      BY ParametersOK DEF ParametersOK
    <2>2. Call(RunSteps, Bad, "abs", Bad) \in BoundedCall
      BY <2>1, NewCall, Addresses
    <2>3. FramesOK'
      BY <1>7, <2>2 DEF RunProgram, CallRunSpim, FramesOK
    <2>4. PC' \in Addr
      BY <1>7, Addresses DEF RunProgram, CallRunSpim, Typed, RestOK
    <2>. QED  BY <1>7, <2>3, <2>4
              DEF RunProgram, CallRunSpim, cp0, Typed, CP0OK, RestOK
  <1>8. CASE EndRunProgram
    BY <1>8 DEF EndRunProgram, Typed, FramesOK, CP0OK, RestOK
  <1>. QED  BY <1>0, <1>1, <1>2, <1>3, <1>4, <1>5, <1>6, <1>7, <1>8, StepCases

LEMMA TypedInvariant == Spec => []Typed
  BY TypedInit, TypedStep, PTL DEF Spec

\* Every variable keeps its type whatever the program, interrupts and ^C do;
\* the invariant that carries it says that a call that waits for a nested one
\* has steps left, so that no return makes a count negative.
THEOREM Typing == Spec => []TypeOK
  BY TypedInvariant, TypedIsTypeOK, PTL

-----------------------------------------------------------------------------
(***************************************************************************)
(* The latency of interrupts, with mapped IO.  A chunk pays for the        *)
(* instructions it may delay an interrupt by, and the check at its head    *)
(* leaves none pending that could be taken.  The nested run of a delay     *)
(* slot makes a check of its own, so that it comes back with waited at 0.  *)
(***************************************************************************)
Prompt ==
  /\ waited < IO_INTERVAL
  /\ frames # <<>> /\ Top.chunk > 0 =>
       /\ waited + Top.chunk <= IO_INTERVAL
       /\ waited + Top.chunk = IO_INTERVAL => ~Interruptible(IP)
  /\ InSlot =>
       /\ Top.left = 0 => waited = 0
       /\ Top.chunk > 0 => ~Interruptible(IP)

LEMMA IntervalTyped == IO_INTERVAL \in Nat /\ IO_INTERVAL > 0
  BY ParametersOK DEF ParametersOK

LEMMA HeadBounded ==
  ASSUME NEW s \in Seq(BoundedCall), s # <<>>, MappedIO
  PROVE  Head(s).chunk \in Nat /\ Head(s).chunk <= IO_INTERVAL
  <1>1. Head(s) \in BoundedCall
    OBVIOUS
  <1>. QED  BY <1>1, BoundedIsCall DEF BoundedCall, CallType

LEMMA TopBounded ==
  ASSUME FramesOK, frames # <<>>, MappedIO
  PROVE  /\ Top.chunk <= IO_INTERVAL
         /\ InSlot => Top.chunk + Top.left <= 1
  <1>1. Top.chunk <= IO_INTERVAL
    BY TopTyped DEF BoundedCall
  <1>2. ASSUME Len(frames) > 1 PROVE frames[1].chunk + frames[1].left <= 1
    BY <1>2 DEF FramesOK
  <1>. QED  BY <1>1, <1>2, TopTyped DEF InSlot

\* An instruction that leaves the stack as deep as it is.
LEMMA PromptStep ==
  ASSUME Typed, Prompt, MappedIO, frames # <<>>, Top.chunk > 0,
         FramesOK', frames' # <<>>, Len(frames') = Len(frames),
         \/ Top'.chunk = Top.chunk - 1 /\ Top'.left = Top.left
         \/ Top'.chunk = 0 /\ Top'.left = 0,
         waited' = IF Interruptible(IP) THEN waited + 1 ELSE 0
  PROVE  Prompt'
  <1>1. /\ waited \in Nat /\ Top.chunk \in Nat /\ Top.left \in Nat
        /\ IO_INTERVAL \in Nat /\ IO_INTERVAL > 0
    BY IntervalTyped, TopTyped DEF Typed, RestOK
  <1>2. /\ waited' < IO_INTERVAL
        /\ Top'.chunk > 0 => waited' + Top'.chunk < IO_INTERVAL
    <2>1. CASE Interruptible(IP)
      BY <1>1, <2>1 DEF Prompt
    <2>2. CASE ~Interruptible(IP)
      <3>1. Top.chunk <= IO_INTERVAL
        BY TopBounded DEF Typed
      <3>. QED  BY <1>1, <2>2, <3>1
    <2>. QED  BY <2>1, <2>2
  <1>3. ASSUME InSlot PROVE waited' = 0 /\ Top'.chunk = 0
    <2>1. ~Interruptible(IP)
      BY <1>3 DEF Prompt
    <2>2. Top.chunk + Top.left <= 1
      BY <1>3, TopBounded DEF Typed
    <2>. QED  BY <1>1, <2>1, <2>2
  <1>4. InSlot' <=> InSlot
    BY DEF InSlot
  <1>5. waited' \in Nat
    BY <1>1
  <1>6. Top'.chunk > 0 =>
          /\ waited' + Top'.chunk <= IO_INTERVAL
          /\ waited' + Top'.chunk # IO_INTERVAL
    <2>1. Top'.chunk \in Int
      BY <1>1
    <2>. QED  BY <1>1, <1>2, <1>5, <2>1
  <1>. QED  BY <1>2, <1>3, <1>4, <1>6 DEF Prompt

\* A jump, with or without a delay slot.
LEMMA PromptJump ==
  ASSUME Typed, Prompt, MappedIO, frames # <<>>, Top.chunk > 0,
         waited' = IF Interruptible(IP) THEN waited + 1 ELSE 0,
         NEW ret \in {"abs", "region", "epc"}, NEW target \in Addr,
         Jump(ret, target)
  PROVE  Prompt'
  <1>1. /\ waited \in Nat /\ Top.chunk \in Nat /\ Top.left \in Nat
        /\ IO_INTERVAL \in Nat /\ IO_INTERVAL > 0 /\ PC \in Addr /\ FramesOK
    BY IntervalTyped, TopTyped DEF Typed, RestOK
  <1>2. CASE DelayedBranches
    <2>1. frames' = <<Call(1, Plus4(PC), ret, target)>>
                      \o WithTop(Issued(Top))
      BY <1>2 DEF Jump
    <2>2. Top'.chunk = 0 /\ Top'.left = 1
      BY <1>1, <2>1, SlotCalled, Addresses
    <2>3. waited' < IO_INTERVAL
      BY <1>1 DEF Prompt
    <2>. QED  BY <2>2, <2>3 DEF Prompt
  <1>3. CASE ~DelayedBranches
    BY <1>1, <1>3, TopStepped, PromptStep DEF Jump
  <1>. QED  BY <1>2, <1>3

LEMMA PromptExecute ==
  ASSUME Typed, Prompt, MappedIO,
         NEW ticks \in {{}, {TimerLine}}, Poll(ticks), Execute
  PROVE  Prompt'
  <1>1. /\ frames # <<>> /\ Top.chunk > 0 /\ FramesOK /\ PC \in Addr
        /\ waited' = IF Interruptible(IP) THEN waited + 1 ELSE 0
        /\ Instr.target \in Addr
    BY InstrTyped DEF Poll, Typed, RestOK
  <1>2. CASE Done
    BY <1>1, <1>2, TopStepped, PromptStep
  <1>3. CASE JumpOrBranch
    BY <1>1, <1>3, PromptJump DEF JumpOrBranch
  <1>4. CASE ExceptionReturn
    BY <1>1, <1>4, PromptJump, Addresses DEF ExceptionReturn
  <1>5. CASE Exit
    BY <1>1, <1>5, TopReturning, PromptStep DEF Exit
  <1>6. CASE DebuggerBreak
    BY <1>1, <1>6, TopReturning, PromptStep DEF DebuggerBreak
  <1>. QED  BY <1>2, <1>3, <1>4, <1>5, <1>6
            DEF Execute, Plain, Fault, SetIE, SkipEPC, NotTaken, Advance

LEMMA PromptNext ==
  ASSUME Typed, Typed', Prompt, MappedIO, [Next]_vars
  PROVE  Prompt'
  <1>. IO_INTERVAL \in Nat /\ IO_INTERVAL > 0 /\ waited \in Nat
    BY IntervalTyped DEF Typed, RestOK
  <1>0. CASE UNCHANGED vars
    BY <1>0 DEF vars, cp0, Prompt, InSlot, Interruptible, Top
  <1>1. ASSUME NEW lines \in SUBSET DeviceLines, CheckInterrupt(lines)
        PROVE  Prompt'
    <2>1. waited' = 0
      BY <1>1 DEF CheckInterrupt, StartChunk
    <2>2. ~Interruptible(IP)'
      BY <1>1 DEF CheckInterrupt, StartChunk, Except, Raise, Interruptible
    <2>3. FramesOK' /\ frames' # <<>>
      BY <1>1, TopNextChunk DEF CheckInterrupt, Typed
    <2>4. Top'.chunk <= IO_INTERVAL /\ Top'.chunk \in Nat
      BY <2>3, HeadBounded DEF FramesOK, Top
    <2>. QED  BY <2>1, <2>2, <2>4 DEF Prompt
  <1>2. ASSUME NEW ticks \in {{}, {TimerLine}}, Poll(ticks) /\ Execute
        PROVE  Prompt'
    BY <1>2, PromptExecute
  <1>3. CASE Acknowledge
    <2>1. waited' = 0 /\ IP' = {} /\ ~Interruptible(IP)'
      BY <1>3 DEF Acknowledge, Interruptible
    <2>2. FramesOK' /\ frames' # <<>>
      BY <1>3, TopStepped DEF Acknowledge, Advance, Typed, RestOK
    <2>3. Top'.chunk <= IO_INTERVAL /\ Top'.chunk \in Nat
      BY <2>2, HeadBounded DEF FramesOK, Top
    <2>. QED  BY <2>1, <2>3 DEF Prompt
  <1>4. CASE ReturnFromSlot
    <2>1. waited' = 0
      BY <1>4 DEF ReturnFromSlot, Finished, Prompt, InSlot
    <2>2. /\ Caller \in BoundedCall
          /\ Top'.chunk = Caller.chunk - 1 /\ Top'.left = Caller.left
          /\ Len(frames') > 1 => Caller.chunk + Caller.left <= 1
      BY <1>4, SlotReturned DEF ReturnFromSlot, Typed
    <2>3. Caller.chunk \in Nat /\ Caller.left \in Nat
      BY <2>2, BoundedIsCall DEF CallType
    <2>4. Caller.chunk <= IO_INTERVAL
      BY <2>2 DEF BoundedCall
    <2>5. Caller.chunk > 0
      BY <1>4, SlotReturned DEF ReturnFromSlot, Typed
    <2>6. InSlot' => Top'.chunk = 0
      BY <2>2, <2>3, <2>5 DEF InSlot
    <2>7. waited' + Top'.chunk < IO_INTERVAL
      BY <2>1, <2>2, <2>3, <2>4
    <2>8. Top'.chunk \in Int
      BY <2>2, <2>3
    <2>. QED  BY <2>1, <2>6, <2>7, <2>8 DEF Prompt
  <1>5. CASE Return
    BY <1>5 DEF Return, Prompt, InSlot
  <1>6. CASE LongJump
    BY <1>6 DEF LongJump, Prompt, InSlot
  <1>7. ASSUME NEW pc \in StartAddrs \cup {PC}, RunProgram(pc)
        PROVE  Prompt'
    <2>1. waited' = 0 /\ frames' = <<Call(RunSteps, Bad, "abs", Bad)>>
      BY <1>7 DEF RunProgram, CallRunSpim
    <2>2. Top'.chunk = 0 /\ ~InSlot'
      BY <2>1 DEF Top, InSlot, Call
    <2>. QED  BY <2>1, <2>2 DEF Prompt
  <1>8. CASE EndRunProgram
    BY <1>8 DEF EndRunProgram, Prompt, InSlot
  <1>. QED  BY <1>0, <1>1, <1>2, <1>3, <1>4, <1>5, <1>6, <1>7, <1>8, StepCases

\* An interrupt that may be taken never waits for IO_INTERVAL instructions,
\* delayed branches or not: run_spim checks for it often enough.
THEOREM Latency == Spec => []InterruptLatency
  <1>1. CASE MappedIO
    <2>1. Init => Prompt
      BY IntervalTyped DEF Init, Prompt, InSlot
    <2>2. Typed /\ Typed' /\ Prompt /\ [Next]_vars => Prompt'
      BY <1>1, PromptNext
    <2>3. Prompt => InterruptLatency
      BY DEF Prompt, InterruptLatency
    <2>. QED  BY <2>1, <2>2, <2>3, TypedInvariant, PTL DEF Spec
  <1>2. CASE ~MappedIO
    <2>1. InterruptLatency
      BY <1>2 DEF InterruptLatency
    <2>. QED  BY <2>1, PTL
  <1>. QED  BY <1>1, <1>2

-----------------------------------------------------------------------------
(***************************************************************************)
(* The exit syscall, without delayed branches: run_spim is never nested,   *)
(* so its "return false" reaches run_program.                              *)
(***************************************************************************)
Shallow == Len(frames) <= 1

LEMMA ShallowNext ==
  ASSUME Typed, Shallow, ~DelayedBranches, [Next]_vars
  PROVE  Shallow'
  <1>. Len(frames) \in Nat /\ FramesOK
    BY DEF Typed, FramesOK
  <1>0. CASE UNCHANGED vars
    BY <1>0 DEF vars, Shallow
  <1>1. ASSUME NEW lines \in SUBSET DeviceLines, CheckInterrupt(lines)
        PROVE  Shallow'
    BY <1>1, TopNextChunk DEF CheckInterrupt, Shallow
  <1>2. ASSUME NEW ticks \in {{}, {TimerLine}}, Poll(ticks) /\ Execute
        PROVE  Shallow'
    <2>1. frames # <<>> /\ Top.chunk > 0 /\ PC \in Addr
      BY <1>2 DEF Poll, Typed, RestOK
    <2>2. CASE Done
      BY <2>1, <2>2, TopStepped DEF Shallow
    <2>3. CASE Exit
      BY <2>1, <2>3, TopReturning DEF Exit, Shallow
    <2>4. CASE DebuggerBreak
      BY <2>1, <2>4, TopReturning DEF DebuggerBreak, Shallow
    <2>. QED  BY <1>2, <2>2, <2>3, <2>4
              DEF Execute, Plain, Fault, SetIE, SkipEPC, NotTaken, Advance,
                  JumpOrBranch, ExceptionReturn, Jump
  <1>3. CASE Acknowledge
    BY <1>3, TopStepped DEF Acknowledge, Advance, Typed, RestOK, Shallow
  <1>4. CASE ReturnFromSlot
    BY <1>4 DEF ReturnFromSlot, Shallow
  <1>5. CASE Return
    BY <1>5 DEF Return, Shallow
  <1>6. CASE LongJump
    BY <1>6 DEF LongJump, Shallow
  <1>7. ASSUME NEW pc \in StartAddrs \cup {PC}, RunProgram(pc)
        PROVE  Shallow'
    BY <1>7 DEF RunProgram, CallRunSpim, Shallow
  <1>8. CASE EndRunProgram
    BY <1>8 DEF EndRunProgram, Shallow
  <1>. QED  BY <1>0, <1>1, <1>2, <1>3, <1>4, <1>5, <1>6, <1>7, <1>8, StepCases

\* Then running_in_delay_slot is never set.
Flat == Shallow /\ running_in_delay_slot = 0

LEMMA FlatNext ==
  ASSUME Typed, Flat, ~DelayedBranches, [Next]_vars
  PROVE  Flat'
  <1>. Len(frames) \in Nat
    BY DEF Typed, FramesOK
  <1>0. CASE UNCHANGED vars
    BY <1>0 DEF vars, Flat, Shallow
  <1>1. Shallow'
    BY ShallowNext DEF Flat
  <1>2. CASE Next
    <2>1. ASSUME NEW ticks, Poll(ticks), Execute
          PROVE  running_in_delay_slot' = running_in_delay_slot
      BY <2>1 DEF Execute, Plain, Fault, SetIE, SkipEPC, NotTaken, Advance,
         JumpOrBranch, ExceptionReturn, Jump, Exit, DebuggerBreak
    <2>. QED BY <1>1, <1>2, <2>1, StepCases
             DEF Flat, Shallow, CheckInterrupt, StartChunk, Acknowledge, Advance,
                 ReturnFromSlot, Return, LongJump, RunProgram, EndRunProgram
  <1>. QED BY <1>0, <1>2

LEMMA ExitNext ==
  ASSUME Typed, Shallow, ExitStopsRun, [Next]_vars
  PROVE  ExitStopsRun'
  <1>. exited \in {0, 1}
    BY DEF Typed, RestOK
  <1>0. CASE UNCHANGED vars
    BY <1>0 DEF vars, ExitStopsRun, Finished, Top
  <1>1. ASSUME NEW lines \in SUBSET DeviceLines, CheckInterrupt(lines)
        PROVE  ExitStopsRun'
    BY <1>1, TopTyped DEF CheckInterrupt, StartChunk, ExitStopsRun, Finished, Typed
  <1>2. ASSUME NEW ticks \in {{}, {TimerLine}}, Poll(ticks) /\ Execute
        PROVE  ExitStopsRun'
    <2>1. /\ frames # <<>> /\ Top.chunk > 0 /\ PC \in Addr /\ FramesOK
          /\ Top.chunk \in Nat
      BY <1>2, TopTyped DEF Poll, Typed, RestOK
    <2>2. exited = 0
      BY <2>1 DEF ExitStopsRun, Finished
    <2>3. CASE Exit
      <3>1. frames' # <<>> /\ Top'.chunk = 0 /\ Top'.left = 0 /\ Top'.ok = 0
        BY <2>1, <2>3, TopReturning DEF Exit
      <3>. QED  BY <3>1 DEF ExitStopsRun, Finished
    <2>4. CASE UNCHANGED exited
      BY <2>2, <2>4 DEF ExitStopsRun
    <2>. QED  BY <1>2, <2>3, <2>4
              DEF Execute, Plain, Fault, SetIE, SkipEPC, NotTaken, Advance,
                  JumpOrBranch, ExceptionReturn, DebuggerBreak
  <1>3. CASE Acknowledge
    BY <1>3, TopTyped DEF Acknowledge, Advance, ExitStopsRun, Finished, Typed
  <1>4. CASE ReturnFromSlot
    <2>1. Len(frames) \in Nat
      BY DEF Typed, FramesOK
    <2>. QED  BY <1>4, <2>1 DEF ReturnFromSlot, Shallow
  <1>5. CASE Return
    BY <1>5 DEF Return, ExitStopsRun, Finished
  <1>6. CASE LongJump
    BY <1>6 DEF LongJump, ExitStopsRun
  <1>7. ASSUME NEW pc \in StartAddrs \cup {PC}, RunProgram(pc)
        PROVE  ExitStopsRun'
    BY <1>7 DEF RunProgram, ExitStopsRun
  <1>8. CASE EndRunProgram
    BY <1>8 DEF EndRunProgram, ExitStopsRun
  <1>. QED  BY <1>0, <1>1, <1>2, <1>3, <1>4, <1>5, <1>6, <1>7, <1>8, StepCases

\* Without delayed branches an exit ends the run at once, in whatever chunk it
\* falls, and run_program learns that the program cannot continue.
THEOREM ExitStops == ~DelayedBranches => (Spec => []ExitStopsRun)
  <1>1. SUFFICES ASSUME ~DelayedBranches PROVE Spec => []ExitStopsRun
    OBVIOUS
  <1>2. Init => Shallow /\ ExitStopsRun
    BY DEF Init, Shallow, ExitStopsRun
  <1>3. Typed /\ Shallow /\ [Next]_vars => Shallow'
    BY <1>1, ShallowNext
  <1>4. Typed /\ Shallow /\ ExitStopsRun /\ [Next]_vars => ExitStopsRun'
    BY ExitNext
  <1>. QED  BY <1>2, <1>3, <1>4, TypedInvariant, PTL DEF Spec

-----------------------------------------------------------------------------
\* No interrupt, end of a chunk or of a run, return from a delay slot or ^C
\* moves EPC or changes the cause while a handler is active.
THEOREM Undisturbed == Spec => HandlerUndisturbed
  <1>. DEFINE Kept ==
         EXL = 1 /\ EXL' = 1 =>
           /\ EPC' # EPC => Instr.op \in {"skip", "skipfault"}
           /\ ExcCode' # ExcCode =>
                Instr.op \in {"bad", "trap", "break", "bkpt", "ack"}
  <1>1. ASSUME [Next]_vars PROVE Kept
    <2>0. CASE UNCHANGED vars
      BY <2>0 DEF vars, cp0
    <2>1. ASSUME NEW lines \in SUBSET DeviceLines, CheckInterrupt(lines)
          PROVE  Kept
      <3>1. CASE Interruptible(IP')
        BY <3>1 DEF Interruptible
      <3>2. CASE ~Interruptible(IP')
        BY <2>1, <3>2 DEF CheckInterrupt
      <3>. QED  BY <3>1, <3>2
    <2>2. ASSUME NEW ticks \in {{}, {TimerLine}}, Poll(ticks) /\ Execute
          PROVE  Kept
      BY <2>2 DEF Execute, Plain, Fault, SetIE, SkipEPC, NotTaken, JumpOrBranch,
                  ExceptionReturn, Exit, DebuggerBreak, Except, Raise
    <2>3. CASE Acknowledge
      BY <2>3 DEF Acknowledge
    <2>. QED  BY <1>1, <2>0, <2>1, <2>2, <2>3, StepCases
              DEF ReturnFromSlot, Return, LongJump, RunProgram, EndRunProgram, cp0
  <1>. QED  BY <1>1, PTL DEF Spec, HandlerUndisturbed

-----------------------------------------------------------------------------
(***************************************************************************)
(* Part 2.  With delayed branches: the nested call of run_spim that        *)
(* executes a delay slot.                                                  *)
(***************************************************************************)

-----------------------------------------------------------------------------
(***************************************************************************)
(* What the steps make of the fields of a call that never change, and of   *)
(* its history.                                                            *)
(***************************************************************************)
LEMMA CallKept ==
  ASSUME NEW f \in CallType
  PROVE  /\ OneStepDone(f).slot = f.slot /\ OneStepDone(f).issued = f.issued
         /\ NextChunk(f).slot = f.slot /\ NextChunk(f).issued = f.issued
         /\ NextChunk(f).ret = f.ret /\ NextChunk(f).target = f.target
         /\ Issued(f).slot = f.slot /\ Issued(f).issued = f.issued \cup {PC}
         /\ OneStepDone(Issued(f)).slot = f.slot
         /\ OneStepDone(Issued(f)).issued = f.issued \cup {PC}
         /\ OneStepDone(Issued(f)).ret = f.ret
         /\ OneStepDone(Issued(f)).target = f.target
         /\ \A ok \in {0, 1} :
              /\ Returning(Issued(f), ok).slot = f.slot
              /\ Returning(Issued(f), ok).issued = f.issued \cup {PC}
  BY DEF CallType, OneStepDone, NextChunk, Issued, Returning

\* The stack after a step that replaces its innermost call, adds one to it or
\* takes one from it.
LEMMA StackReplaced ==
  ASSUME FramesOK, frames # <<>>, NEW f \in BoundedCall, frames' = WithTop(f)
  PROVE  /\ Len(frames') = Len(frames) /\ Top' = f
         /\ \A i \in 2 .. Len(frames) : frames'[i] = frames[i]
  <1>1. /\ frames' # <<>> /\ frames' \in Seq(BoundedCall)
        /\ Len(frames') = Len(frames) /\ frames'[1] = f
        /\ \A i \in 2 .. Len(frames) : frames'[i] = frames[i]
    BY ReplaceTop DEF FramesOK, WithTop
  <1>. QED BY <1>1 DEF Top

LEMMA StackPushed ==
  ASSUME FramesOK, frames # <<>>, NEW c \in BoundedCall, NEW f \in BoundedCall,
         frames' = <<c>> \o WithTop(f)
  PROVE  /\ Len(frames') = Len(frames) + 1 /\ Top' = c /\ frames'[2] = f
         /\ \A i \in 3 .. Len(frames') : frames'[i] = frames[i - 1]
  <1>. DEFINE s == WithTop(f)
  <1>1. /\ s \in Seq(BoundedCall) /\ Len(s) = Len(frames) /\ s[1] = f
        /\ \A i \in 2 .. Len(frames) : s[i] = frames[i]
    BY ReplaceTop DEF FramesOK, WithTop
  <1>. HIDE DEF s
  <1>2. frames' = <<c>> \o s
    BY DEF s
  <1>. DEFINE t == <<c>> \o s
  <1>3. /\ t \in Seq(BoundedCall) /\ t # <<>> /\ Len(t) = Len(s) + 1 /\ t[1] = c
        /\ \A i \in 2 .. Len(t) : t[i] = s[i - 1]
    BY <1>1, PushCall
  <1>. HIDE DEF t
  <1>4. frames' = t
    BY <1>2 DEF t
  <1>5. Len(frames) \in Nat /\ Len(frames) > 0
    BY DEF FramesOK
  <1>6. frames'[2] = f
    BY <1>1, <1>3, <1>4, <1>5
  <1>7. ASSUME NEW i \in 3 .. Len(frames') PROVE frames'[i] = frames[i - 1]
    <2>1. i \in 2 .. Len(t) /\ i - 1 \in 2 .. Len(frames)
      BY <1>1, <1>3, <1>4, <1>5
    <2>. QED BY <1>1, <1>3, <1>4, <2>1
  <1>8. Top' = c
    BY <1>3, <1>4 DEF Top
  <1>. QED BY <1>1, <1>3, <1>4, <1>6, <1>7, <1>8

LEMMA StackPopped ==
  ASSUME FramesOK, Len(frames) > 1, NEW f \in BoundedCall,
         frames' = <<f>> \o Tail(Tail(frames))
  PROVE  /\ Len(frames') = Len(frames) - 1 /\ Top' = f
         /\ \A i \in 2 .. Len(frames') : frames'[i] = frames[i + 1]
  <1>. DEFINE t == <<f>> \o Tail(Tail(frames))
  <1>1. /\ t \in Seq(BoundedCall) /\ t # <<>> /\ Len(t) = Len(frames) - 1 /\ t[1] = f
        /\ \A i \in 2 .. Len(t) : t[i] = frames[i + 1]
    BY PopCall DEF FramesOK
  <1>. HIDE DEF t
  <1>2. frames' = t
    BY DEF t
  <1>. QED BY <1>1, <1>2 DEF Top

\* At the prompt no call of run_spim is active.
Idle == driver = "idle" => frames = <<>>

LEMMA IdleNext ==
  ASSUME Typed, Idle, [Next]_vars
  PROVE  Idle'
  <1>1. ASSUME NEW lines, CheckInterrupt(lines) PROVE Idle'
    BY <1>1 DEF CheckInterrupt, StartChunk, Idle
  <1>2. ASSUME NEW ticks, Poll(ticks) PROVE Idle'
    BY <1>2 DEF Poll, Idle
  <1>3. CASE ReturnFromSlot
    BY <1>3 DEF ReturnFromSlot, Finished, Idle
  <1>. QED
    BY <1>1, <1>2, <1>3, StepCases
       DEF vars, Acknowledge, Return, LongJump, RunProgram, EndRunProgram, Idle

LEMMA IdleInvariant == Spec => []Idle
  <1>1. Init => Idle
    BY DEF Init, Idle
  <1>2. Typed /\ Idle /\ [Next]_vars => Idle'
    BY IdleNext
  <1>. QED BY <1>1, <1>2, TypedInvariant, PTL DEF Spec

-----------------------------------------------------------------------------
(***************************************************************************)
(* The slot is executed, whatever it holds, as long as no interrupt is     *)
(* enabled: a call that waits for a nested one, or has finished, has       *)
(* issued its slot, and a call that has not is at it.                      *)
(***************************************************************************)
Ran(f) == f.slot \in f.issued

SlotsRun ==
  /\ \A i \in 2 .. Len(frames) - 1 : Ran(frames[i])
  /\ InSlot => IF Finished THEN Ran(Top) ELSE PC = Top.slot
  /\ IE = 0

\* The innermost call, nested or not, executes its instruction.
LEMMA SlotIssued ==
  ASSUME Typed, SlotsRun, frames # <<>>, Top.chunk > 0, IE' = 0,
         NEW ok \in {0, 1},
         \/ frames' = WithTop(OneStepDone(Issued(Top)))
         \/ frames' = WithTop(Returning(Issued(Top), ok))
  PROVE  SlotsRun'
  <1>. DEFINE f == Top
  <1>1. /\ FramesOK /\ PC \in Addr /\ f \in BoundedCall /\ f \in CallType
        /\ f.chunk \in Nat /\ f.left \in Nat /\ Len(frames) \in Nat
    BY TopTyped, BoundedIsCall DEF Typed, RestOK, FramesOK
  <1>2. Len(frames) > 1 => f.chunk + f.left <= 1
    BY <1>1, TopTyped DEF FramesOK
  <1>3. PICK g \in BoundedCall :
          /\ frames' = WithTop(g)
          /\ g.slot = f.slot /\ g.issued = f.issued \cup {PC}
          /\ Len(frames) > 1 => g.chunk = 0 /\ g.left = 0
    <2>1. CASE frames' = WithTop(OneStepDone(Issued(Top)))
      <3>1. /\ OneStepDone(Issued(f)) \in BoundedCall
            /\ OneStepDone(Issued(f)).chunk = f.chunk - 1
            /\ OneStepDone(Issued(f)).left = f.left
        BY <1>1, IssuedCall, CallStepDone
      <3>. QED BY <1>1, <1>2, <2>1, <3>1, CallKept
    <2>2. CASE frames' = WithTop(Returning(Issued(Top), ok))
      <3>1. /\ Returning(Issued(f), ok) \in BoundedCall
            /\ Returning(Issued(f), ok).chunk = 0
            /\ Returning(Issued(f), ok).left = 0
        BY <1>1, IssuedCall, CallReturning
      <3>. QED BY <1>1, <2>2, <3>1, CallKept
    <2>. QED BY <2>1, <2>2
  <1>4. /\ Len(frames') = Len(frames) /\ Top' = g
        /\ \A i \in 2 .. Len(frames) : frames'[i] = frames[i]
    BY <1>1, <1>3, StackReplaced
  <1>5. InSlot => PC = Top.slot
    BY <1>1 DEF SlotsRun, Finished
  <1>6. InSlot' => Ran(Top)' /\ Finished'
    BY <1>1, <1>3, <1>4, <1>5 DEF InSlot, Ran, Finished
  <1>7. \A i \in 2 .. Len(frames') - 1 : Ran(frames[i]) /\ frames'[i] = frames[i]
    BY <1>1, <1>4 DEF SlotsRun
  <1>. QED BY <1>6, <1>7 DEF SlotsRun, Ran

\* A jump calls run_spim, and the call that makes it has issued its slot.
LEMMA SlotEntered ==
  ASSUME Typed, SlotsRun, frames # <<>>, Top.chunk > 0, IE' = 0,
         NEW ret \in {"abs", "region", "epc"}, NEW target \in Addr,
         Jump(ret, target)
  PROVE  SlotsRun'
  <1>1. CASE ~DelayedBranches
    BY <1>1, SlotIssued DEF Jump, Done
  <1>2. CASE DelayedBranches
    <2>. DEFINE c == Call(1, Plus4(PC), ret, target)
                g == Issued(Top)
    <2>1. /\ FramesOK /\ PC \in Addr /\ Top \in BoundedCall /\ Top \in CallType
          /\ Top.chunk \in Nat /\ Len(frames) \in Nat /\ frames # <<>>
      BY TopTyped, BoundedIsCall DEF Typed, RestOK, FramesOK
    <2>2. c \in BoundedCall /\ c.left = 1 /\ c.slot = Plus4(PC)
      <3>1. c.slot = Plus4(PC)
        BY DEF Call
      <3>2. Plus4(PC) \in Addr /\ 1 \in Nat
        BY <2>1, Addresses
      <3>3. c \in BoundedCall /\ c.left = 1
        BY <3>2, NewCall
      <3>. QED BY <3>1, <3>3
    <2>3. g \in BoundedCall /\ g.slot = Top.slot /\ g.issued = Top.issued \cup {PC}
      BY <2>1, IssuedCall, CallKept
    <2>4. PC' = Plus4(PC) /\ frames' = <<c>> \o WithTop(g)
      BY <1>2 DEF Jump
    <2>. HIDE DEF c, g
    <2>5. /\ Len(frames') = Len(frames) + 1 /\ Top' = c /\ frames'[2] = g
          /\ \A i \in 3 .. Len(frames') : frames'[i] = frames[i - 1]
      BY <2>1, <2>2, <2>3, <2>4, StackPushed
    <2>6. InSlot => Ran(g)
      BY <2>1, <2>3 DEF SlotsRun, Finished, Ran
    <2>7. ASSUME NEW i \in 2 .. Len(frames') - 1 PROVE Ran(frames'[i])
      <3>1. CASE i = 2
        BY <2>1, <2>5, <2>6, <2>7, <3>1 DEF InSlot
      <3>2. CASE i # 2
        <4>1. i - 1 \in 2 .. Len(frames) - 1 /\ i \in 3 .. Len(frames')
          BY <2>1, <2>5, <2>7, <3>2
        <4>. QED BY <2>5, <4>1 DEF SlotsRun
      <3>. QED BY <3>1, <3>2
    <2>8. ~Finished' /\ PC' = Top'.slot
      BY <2>2, <2>4, <2>5 DEF Finished
    <2>. QED BY <2>7, <2>8 DEF SlotsRun, Ran
  <1>. QED BY <1>1, <1>2

LEMMA SlotsRunNext ==
  ASSUME Typed, SlotsRun, InterruptsOff(text), [Next]_vars
  PROVE  SlotsRun'
  <1>. Len(frames) \in Nat /\ FramesOK
    BY DEF Typed, FramesOK
  <1>0. CASE UNCHANGED vars
    BY <1>0 DEF vars, cp0, SlotsRun, InSlot, Finished, Top
  <1>1. ASSUME NEW lines \in SUBSET DeviceLines, CheckInterrupt(lines)
        PROVE  SlotsRun'
    <2>1. /\ frames # <<>> /\ Top.left > 0 /\ Top.chunk = 0 /\ IE' = IE
          /\ frames' = WithTop(NextChunk(Top)) /\ PC' = PC
      BY <1>1 DEF CheckInterrupt, StartChunk, Interruptible, SlotsRun
    <2>2. /\ NextChunk(Top) \in BoundedCall /\ NextChunk(Top).chunk > 0
          /\ NextChunk(Top).slot = Top.slot
      BY <2>1, TopTyped, CallNextChunk, CallKept, BoundedIsCall
    <2>3. /\ Len(frames') = Len(frames) /\ Top' = NextChunk(Top)
          /\ \A i \in 2 .. Len(frames) : frames'[i] = frames[i]
      BY <2>1, <2>2, StackReplaced
    <2>4. InSlot => PC = Top.slot
      BY <2>1 DEF SlotsRun, Finished
    <2>5. \A i \in 2 .. Len(frames') - 1 : Ran(frames[i]) /\ frames'[i] = frames[i]
      BY <2>3 DEF SlotsRun
    <2>6. NextChunk(Top).chunk # 0
      BY <2>2, BoundedIsCall DEF CallType
    <2>. QED BY <2>1, <2>2, <2>3, <2>4, <2>5, <2>6 DEF SlotsRun, InSlot, Finished, Ran
  <1>2. ASSUME NEW ticks \in {{}, {TimerLine}}, Poll(ticks) /\ Execute
        PROVE  SlotsRun'
    <2>1. frames # <<>> /\ Top.chunk > 0 /\ Instr.target \in Addr /\ IE = 0
      BY <1>2, InstrTyped DEF Poll, Typed, RestOK, SlotsRun
    <2>2. IE' = 0
      <3>1. Instr.op # "ei"
        BY DEF Instr, InterruptsOff
      <3>. QED
        BY <1>2, <2>1, <3>1 DEF Execute, Plain, Fault, SetIE, SkipEPC, NotTaken,
           JumpOrBranch, ExceptionReturn, Exit, DebuggerBreak
    <2>3. CASE Done
      BY <2>1, <2>2, <2>3, SlotIssued DEF Done
    <2>4. CASE JumpOrBranch
      BY <2>1, <2>2, <2>4, SlotEntered DEF JumpOrBranch
    <2>5. CASE ExceptionReturn
      BY <2>1, <2>2, <2>5, SlotEntered, Addresses DEF ExceptionReturn
    <2>6. CASE Exit
      BY <2>1, <2>2, <2>6, SlotIssued DEF Exit
    <2>7. CASE DebuggerBreak
      BY <2>1, <2>2, <2>7, SlotIssued DEF DebuggerBreak
    <2>. QED BY <1>2, <2>3, <2>4, <2>5, <2>6, <2>7
             DEF Execute, Plain, Fault, SetIE, SkipEPC, NotTaken, Advance
  <1>3. CASE Acknowledge
    BY <1>3, SlotIssued DEF Acknowledge, Advance, Done, SlotsRun
  <1>4. CASE ReturnFromSlot
    <2>1. /\ Caller \in BoundedCall /\ Caller.chunk > 0
          /\ Len(frames') > 1 => Caller.chunk + Caller.left <= 1
      BY <1>4, SlotReturned DEF ReturnFromSlot
    <2>2. Caller = frames[2]
      BY <1>4, NextToTop DEF ReturnFromSlot, FramesOK, Caller
    <2>. DEFINE g == OneStepDone(Caller)
    <2>3. /\ g \in BoundedCall /\ g.chunk = Caller.chunk - 1 /\ g.left = Caller.left
          /\ g.slot = Caller.slot /\ g.issued = Caller.issued
      BY <2>1, CallStepDone, CallKept, BoundedIsCall
    <2>4. Caller.chunk \in Nat /\ Caller.left \in Nat
      BY <2>1, BoundedIsCall DEF CallType
    <2>5. frames' = <<g>> \o Tail(Tail(frames)) /\ Len(frames) > 1 /\ IE' = IE
      BY <1>4 DEF ReturnFromSlot, cp0
    <2>. HIDE DEF g
    <2>6. /\ Len(frames') = Len(frames) - 1 /\ Top' = g
          /\ \A i \in 2 .. Len(frames') : frames'[i] = frames[i + 1]
      BY <2>3, <2>5, StackPopped
    <2>7. ASSUME InSlot' PROVE Finished' /\ Ran(g)
      <3>1. Len(frames) > 2 /\ 2 \in 2 .. Len(frames) - 1
        BY <2>6, <2>7 DEF InSlot
      <3>2. Ran(frames[2])
        BY <3>1 DEF SlotsRun
      <3>3. Len(frames') > 1 /\ frames' # <<>>
        BY <2>6, <3>1
      <3>4. g.chunk = 0 /\ g.left = 0
        BY <2>1, <2>3, <2>4, <3>3
      <3>. QED BY <2>2, <2>3, <2>6, <3>2, <3>3, <3>4 DEF Finished, Ran
    <2>8. ASSUME NEW i \in 2 .. Len(frames') - 1 PROVE Ran(frames'[i])
      <3>1. i \in 2 .. Len(frames') /\ i + 1 \in 2 .. Len(frames) - 1
        BY <2>6, <2>8
      <3>. QED BY <2>6, <3>1 DEF SlotsRun
    <2>. QED BY <2>5, <2>6, <2>7, <2>8 DEF SlotsRun, Ran
  <1>5. CASE Return
    BY <1>5 DEF Return, cp0, SlotsRun, InSlot
  <1>6. CASE LongJump
    BY <1>6 DEF LongJump, cp0, SlotsRun, InSlot
  <1>7. ASSUME NEW pc \in StartAddrs \cup {PC}, RunProgram(pc)
        PROVE  SlotsRun'
    BY <1>7 DEF RunProgram, CallRunSpim, cp0, SlotsRun, InSlot
  <1>8. CASE EndRunProgram
    BY <1>8 DEF EndRunProgram, SlotsRun, InSlot
  <1>. QED  BY <1>0, <1>1, <1>2, <1>3, <1>4, <1>5, <1>6, <1>7, <1>8, StepCases

\* The nested call of run_spim executes the instruction in the delay slot
\* before control is transferred, whatever is there (a jump of its own, a fault,
\* an exit) and wherever a run ends or ^C falls, as long as the program never
\* enables interrupts: one taken at the head of the nested call is all it does.
THEOREM SlotExecuted ==
  ASSUME \A p \in Programs : InterruptsOff(p)
  PROVE  Spec => DelaySlotRuns
  <1>1. Init => SlotsRun
    BY DEF Init, SlotsRun, InSlot
  <1>2. Typed /\ SlotsRun /\ [Next]_vars => SlotsRun'
    BY SlotsRunNext DEF Typed, RestOK
  <1>3. Typed /\ SlotsRun /\ Idle /\ [Next]_vars
          => [InSlot /\ Len(frames') = Len(frames) - 1 => Top.slot \in Top.issued]_vars
    <2>. SUFFICES ASSUME Typed, SlotsRun, Idle, Next, InSlot,
                         Len(frames') = Len(frames) - 1
                  PROVE  Ran(Top)
      BY DEF Ran
    <2>. Len(frames) \in Nat /\ Len(frames) > 1 /\ FramesOK
      BY DEF Typed, FramesOK, InSlot
    <2>1. ASSUME NEW lines, CheckInterrupt(lines) PROVE FALSE
      BY <2>1, TopNextChunk DEF CheckInterrupt
    <2>2. ASSUME NEW ticks, Poll(ticks), Execute PROVE FALSE
      <3>1. frames # <<>> /\ Top.chunk > 0 /\ PC \in Addr /\ Instr.target \in Addr
        BY <2>2, InstrTyped DEF Poll, Typed, RestOK
      <3>2. ~Done
        BY <3>1, TopStepped
      <3>3. \A ok \in {0, 1} : frames' # WithTop(Returning(Issued(Top), ok))
        BY <3>1, TopReturning
      <3>4. ASSUME NEW ret \in {"abs", "region", "epc"}, NEW t \in Addr, Jump(ret, t)
            PROVE  FALSE
        BY <3>1, <3>2, <3>4, SlotCalled, Addresses DEF Jump
      <3>. QED BY <2>2, <3>1, <3>2, <3>3, <3>4, Addresses
               DEF Execute, Plain, Fault, SetIE, SkipEPC, NotTaken, Advance,
                   JumpOrBranch, ExceptionReturn, Exit, DebuggerBreak
    <2>3. ~Acknowledge
      BY TopStepped DEF Acknowledge, Advance, Typed, RestOK
    <2>4. ASSUME frames' = <<>> \/ frames' = frames PROVE FALSE
      BY <2>4
    <2>5. CASE ReturnFromSlot
      BY <2>5 DEF ReturnFromSlot, SlotsRun
    <2>6. ASSUME NEW pc, RunProgram(pc) PROVE FALSE
      BY <2>6 DEF RunProgram, Idle
    <2>. QED BY <2>1, <2>2, <2>3, <2>4, <2>5, <2>6, StepCases
             DEF Return, LongJump, EndRunProgram
  <1>. QED
    BY <1>1, <1>2, <1>3, TypedInvariant, IdleInvariant, PTL DEF Spec, DelaySlotRuns

-----------------------------------------------------------------------------
(***************************************************************************)
(* running_in_delay_slot.  It is one flag for all nested calls, so it is   *)
(* exact only while they are nested once: a slot, and the instruction of   *)
(* the handler that an interrupt makes the nested call execute instead,    *)
(* must not jump; and nothing may longjmp out of the slot.                 *)
(***************************************************************************)
Flagged ==
  /\ SlotFlagExact
  /\ Len(frames) <= 2
  /\ InSlot /\ ~Finished => Instr.op \notin Jumps \cup {"none"}
  /\ InterruptsOff(text) => IE = 0

\* The ways a step can go when the user does not type ^C.
LEMMA QuietCases ==
  ASSUME Next, ~ControlC
  PROVE  \/ \E lines \in SUBSET DeviceLines : CheckInterrupt(lines)
         \/ \E ticks \in {{}, {TimerLine}} : Poll(ticks) /\ Execute
         \/ Acknowledge
         \/ ReturnFromSlot
         \/ Return
         \/ NonInstruction
         \/ \E pc \in StartAddrs \cup {PC} : RunProgram(pc)
         \/ EndRunProgram
  BY DEF Next, Machine, Terminal, OuterLoop, Step, TypeControlC

\* What an instruction that does not jump does to the stack.
LEMMA NoJump ==
  ASSUME Typed, NEW ticks, Poll(ticks), Execute, Instr.op \notin Jumps \/ NotTaken
  PROVE  /\ frames # <<>> /\ Len(frames') = Len(frames)
         /\ running_in_delay_slot' = running_in_delay_slot
         /\ InSlot => Finished'
         /\ frames' # <<>>
  <1>1. /\ frames # <<>> /\ Top.chunk > 0 /\ PC \in Addr /\ FramesOK
        /\ Top.chunk \in Nat /\ Top.left \in Nat /\ Len(frames) \in Nat
    BY TopTyped DEF Poll, Typed, RestOK, FramesOK
  <1>2. InSlot => Top.chunk + Top.left <= 1
    BY <1>1, TopTyped DEF InSlot, FramesOK
  <1>3. ASSUME Done
        PROVE  /\ Len(frames') = Len(frames) /\ frames' # <<>>
               /\ InSlot => Finished'
    BY <1>1, <1>2, <1>3, TopStepped DEF Finished
  <1>4. ASSUME NEW ok \in {0, 1}, frames' = WithTop(Returning(Issued(Top), ok))
        PROVE  /\ Len(frames') = Len(frames) /\ frames' # <<>>
               /\ InSlot => Finished'
    BY <1>1, <1>4, TopReturning DEF Finished
  <1>5. CASE NotTaken
    BY <1>1, <1>3, <1>5 DEF NotTaken
  <1>6. CASE Exit
    BY <1>1, <1>4, <1>6 DEF Exit
  <1>7. CASE DebuggerBreak
    BY <1>1, <1>4, <1>7 DEF DebuggerBreak
  <1>8. CASE Plain \/ Fault \/ SetIE \/ SkipEPC
    BY <1>1, <1>3, <1>8 DEF Plain, Fault, SetIE, SkipEPC, Advance
  <1>. QED BY <1>1, <1>5, <1>6, <1>7, <1>8
           DEF Execute, JumpOrBranch, ExceptionReturn, Jumps

LEMMA OneCall ==
  ASSUME FramesOK, frames # <<>>, ~InSlot
  PROVE  Len(frames) = 1
  <1>1. Len(frames) \in Nat /\ Len(frames) # 0
    BY DEF FramesOK
  <1>2. ASSUME NEW n \in Nat, n # 0, ~(n > 1) PROVE n = 1
    BY <1>2
  <1>3. ~(Len(frames) > 1)
    BY DEF InSlot
  <1>. QED BY <1>1, <1>2, <1>3

LEMMA FlaggedNext ==
  ASSUME Typed, Idle, Flagged, QuietSlots(text), ~ControlC, [Next]_vars
  PROVE  Flagged'
  <1>. /\ Len(frames) \in Nat /\ FramesOK /\ running_in_delay_slot \in {0, 1}
       /\ EXCEPTION_ADDR \in Text /\ PC \in Addr
    BY ParametersOK DEF ParametersOK, Typed, FramesOK, RestOK, Text
  <1>0. CASE UNCHANGED vars
    BY <1>0 DEF vars, cp0, Flagged, SlotFlagExact, InSlot, Finished, Top, Instr,
       InterruptsOff
  <1>1. ASSUME NEW lines \in SUBSET DeviceLines, CheckInterrupt(lines)
        PROVE  Flagged'
    <2>1. /\ frames # <<>> /\ ~Finished /\ IE' = IE /\ text' = text
          /\ running_in_delay_slot' = running_in_delay_slot
      BY <1>1 DEF CheckInterrupt, StartChunk, Finished
    <2>2. Len(frames') = Len(frames)
      BY <1>1, TopNextChunk DEF CheckInterrupt
    <2>3. InSlot => Instr'.op \notin Jumps \cup {"none"}
      <3>1. CASE Interruptible(IP')
        <4>1. IE = 1 /\ PC' = EXCEPTION_ADDR
          BY <1>1, <3>1 DEF CheckInterrupt, Interruptible, Except
        <4>2. text[EXCEPTION_ADDR].op \notin Jumps \cup {"none"}
          BY <4>1 DEF Flagged, QuietSlots
        <4>3. Instr' = text[EXCEPTION_ADDR]
          BY <2>1, <4>1 DEF Instr
        <4>. QED BY <4>2, <4>3
      <3>2. CASE ~Interruptible(IP')
        <4>1. Instr' = Instr
          BY <1>1, <2>1, <3>2 DEF CheckInterrupt, Instr
        <4>. QED BY <2>1, <4>1 DEF Flagged
      <3>. QED BY <3>1, <3>2
    <2>. QED BY <2>1, <2>2, <2>3 DEF Flagged, SlotFlagExact, InSlot, InterruptsOff
  <1>2. ASSUME NEW ticks \in {{}, {TimerLine}}, Poll(ticks) /\ Execute
        PROVE  Flagged'
    <2>1. frames # <<>> /\ Top.chunk > 0 /\ text' = text /\ ~Finished
      BY <1>2, TopTyped DEF Poll, Finished
    <2>2. InterruptsOff(text)' => IE' = 0
      <3>1. InterruptsOff(text) => Instr.op # "ei"
        BY DEF Instr, InterruptsOff
      <3>2. InterruptsOff(text)' => InterruptsOff(text)
        BY <2>1 DEF InterruptsOff
      <3>3. Instr.op # "ei" => IE' \in {0, IE}
        BY <1>2 DEF Execute, Plain, Fault, SetIE, SkipEPC, NotTaken,
           JumpOrBranch, ExceptionReturn, Exit, DebuggerBreak
      <3>. QED BY <3>1, <3>2, <3>3 DEF Flagged
    <2>3. CASE Instr.op \notin Jumps \/ NotTaken
      BY <1>2, <2>2, <2>3, NoJump DEF Flagged, SlotFlagExact, InSlot
    <2>4. CASE JumpOrBranch \/ ExceptionReturn
      <3>1. ~InSlot /\ Instr.op \in Jumps
        BY <2>1, <2>4 DEF JumpOrBranch, ExceptionReturn, Jumps, Flagged
      <3>2. PICK ret \in {"abs", "region", "epc"}, target \in Addr : Jump(ret, target)
        BY <2>4, InstrTyped, Addresses DEF JumpOrBranch, ExceptionReturn, Typed, RestOK
      <3>3. CASE DelayedBranches
        <4>1. /\ Len(frames') = Len(frames) + 1 /\ running_in_delay_slot' = 1
              /\ PC' = Plus4(PC)
          BY <2>1, <3>2, <3>3, SlotCalled, Addresses DEF Jump
        <4>2. Len(frames) = 1
          BY <2>1, <3>1, OneCall
        <4>3. Instr'.op \notin Jumps \cup {"none"}
          <5>1. PC \in Text /\ text[PC].op \in Jumps
            BY <3>1 DEF Instr, Jumps
          <5>2. CASE Plus4(PC) \in Text
            <6>1. Plus4(PC) = PC + 1
              BY <5>1, ParametersOK DEF ParametersOK, Plus4, Bad, Text
            <6>2. Instr' = text[PC + 1] /\ PC + 1 \in Text
              BY <2>1, <4>1, <5>2, <6>1 DEF Instr
            <6>. QED BY <5>1, <6>2 DEF QuietSlots
          <5>3. CASE Plus4(PC) \notin Text
            BY <4>1, <5>3 DEF Instr, Jumps
          <5>. QED BY <5>2, <5>3
        <4>. QED BY <2>2, <4>1, <4>2, <4>3 DEF Flagged, SlotFlagExact, InSlot
      <3>4. CASE ~DelayedBranches
        <4>1. Len(frames') = Len(frames)
              /\ running_in_delay_slot' = running_in_delay_slot
          BY <2>1, <3>2, <3>4, TopStepped DEF Jump
        <4>. QED BY <2>2, <3>1, <4>1 DEF Flagged, SlotFlagExact, InSlot
      <3>. QED BY <3>3, <3>4
    <2>. QED BY <1>2, <2>3, <2>4
             DEF Execute, Plain, Fault, SetIE, SkipEPC, Exit, DebuggerBreak, Jumps
  <1>3. CASE Acknowledge
    <2>1. /\ Len(frames') = Len(frames) /\ frames' # <<>>
          /\ Top'.chunk = Top.chunk - 1 /\ Top'.left = Top.left /\ frames # <<>>
          /\ text' = text /\ IE' = IE /\ Top.chunk > 0
          /\ running_in_delay_slot' = running_in_delay_slot
      BY <1>3, TopStepped DEF Acknowledge, Advance
    <2>2. InSlot => Top.chunk + Top.left <= 1 /\ Top.chunk \in Nat /\ Top.left \in Nat
      BY <2>1, TopTyped DEF InSlot, FramesOK
    <2>. QED BY <2>1, <2>2 DEF Flagged, SlotFlagExact, InSlot, Finished, InterruptsOff
  <1>4. CASE ReturnFromSlot
    <2>1. Len(frames') = Len(frames) - 1 /\ Len(frames) > 1
      BY <1>4, SlotReturned DEF ReturnFromSlot
    <2>2. running_in_delay_slot' = 0 /\ text' = text /\ IE' = IE
      BY <1>4 DEF ReturnFromSlot, cp0
    <2>. QED BY <2>1, <2>2 DEF Flagged, SlotFlagExact, InSlot, InterruptsOff
  <1>5. CASE Return
    BY <1>5 DEF Return, cp0, Flagged, SlotFlagExact, InSlot, InterruptsOff
  <1>6. CASE NonInstruction
    <2>1. ~InSlot
      BY <1>6, TopTyped DEF NonInstruction, Flagged, Finished
    <2>. QED BY <1>6, <2>1 DEF NonInstruction, LongJump, cp0, Flagged,
             SlotFlagExact, InSlot, InterruptsOff
  <1>7. ASSUME NEW pc \in StartAddrs \cup {PC}, RunProgram(pc)
        PROVE  Flagged'
    <2>1. frames = <<>> /\ Len(frames') = 1 /\ text' = text /\ IE' = IE
          /\ running_in_delay_slot' = running_in_delay_slot
      BY <1>7 DEF RunProgram, CallRunSpim, cp0, Idle
    <2>. QED BY <2>1 DEF Flagged, SlotFlagExact, InSlot, InterruptsOff
  <1>8. CASE EndRunProgram
    BY <1>8 DEF EndRunProgram, Flagged, SlotFlagExact, InSlot, InterruptsOff
  <1>. QED  BY <1>0, <1>1, <1>2, <1>3, <1>4, <1>5, <1>6, <1>7, <1>8, QuietCases

\* running_in_delay_slot is true exactly while a nested call of run_spim
\* executes a delay slot.  Without delayed branches there is none.  With them
\* it needs that no ^C and no empty word abandons a slot, and that no slot
\* jumps: each of the three leaves the flag wrong.
THEOREM SlotFlags ==
  ASSUME ~DelayedBranches \/ (~ControlC /\ \A p \in Programs : QuietSlots(p))
  PROVE  Spec => []SlotFlagExact
  <1>1. CASE ~DelayedBranches
    <2>1. Init => Flat
      BY DEF Init, Flat, Shallow
    <2>2. Typed /\ Flat /\ [Next]_vars => Flat'
      BY <1>1, FlatNext
    <2>3. Typed /\ Flat => SlotFlagExact
      BY DEF Typed, FramesOK, Flat, Shallow, SlotFlagExact, InSlot
    <2>. QED BY <2>1, <2>2, <2>3, TypedInvariant, PTL DEF Spec
  <1>2. CASE ~ControlC /\ \A p \in Programs : QuietSlots(p)
    <2>1. Init => Flagged
      BY DEF Init, Flagged, SlotFlagExact, InSlot
    <2>2. Typed /\ Idle /\ Flagged /\ [Next]_vars => Flagged'
      BY <1>2, FlaggedNext DEF Typed, RestOK
    <2>3. Flagged => SlotFlagExact
      BY DEF Flagged
    <2>. QED
      BY <2>1, <2>2, <2>3, TypedInvariant, IdleInvariant, PTL DEF Spec
  <1>. QED BY <1>1, <1>2

-----------------------------------------------------------------------------
(***************************************************************************)
(* UserMachine with delayed branches.  During the nested call the program  *)
(* is at the slot, and goes to the target next; when that call has         *)
(* finished the program is at the target, though PC is not there yet.      *)
(***************************************************************************)
Slotted ==
  /\ PC \in Text /\ EXL = 0 /\ IE = 0 /\ exception_occurred = 0
  /\ Len(frames) <= 2
  /\ InSlot =>
       /\ Top.target \in Text
       /\ IF Finished THEN Target(Top.ret, Top.target, PC) = Top.target
          ELSE /\ text[PC].op = "plain"
               /\ Target(Top.ret, Top.target, PC + 1) = Top.target

SlottedGuest == Typed /\ Idle /\ PlainSlots(text) /\ Slotted

LEMMA SlottedText ==
  ASSUME SlottedGuest
  PROVE  /\ LastAddr \in Nat /\ Text = 0 .. LastAddr /\ Bad = LastAddr + 1
         /\ PC \in Text /\ Instr = text[PC]
         /\ \A a \in Text : /\ Plus4(a) = a + 1
                            /\ User!After(a) = Plus4(a)
                            /\ User!After(a + 1) = Plus4(Plus4(a))
         /\ FramesOK
         /\ Len(frames) \in Nat
         /\ User!Op = text[PC].op \/ SlotDone
  <1>1. /\ LastAddr \in Nat /\ Text = 0 .. LastAddr /\ Bad = LastAddr + 1
        /\ PC \in Text
    BY ParametersOK DEF ParametersOK, SlottedGuest, Slotted, Text, Bad
  <1>2. Instr = text[PC]
    BY <1>1 DEF Instr
  <1>3. \A a \in Text : /\ Plus4(a) = a + 1
                        /\ User!After(a) = Plus4(a)
                        /\ User!After(a + 1) = Plus4(Plus4(a))
    BY <1>1 DEF Plus4, User!After
  <1>4. User!Op = text[PC].op \/ SlotDone
    BY <1>1 DEF User!Op, UserPC, SlottedGuest, Slotted
  <1>. QED
    BY <1>1, <1>2, <1>3, <1>4 DEF SlottedGuest, Typed, FramesOK

Simulated == Slotted' /\ [User!Next]_(User!vars)

\* The program is where PC is, with or without a call of run_spim.
LEMMA NotNested ==
  ASSUME SlottedGuest, text' = text, ~InSlot, ~InSlot',
         UNCHANGED <<EXL, IE, exception_occurred>>, PC' \in Text,
         frames' \in Seq(BoundedCall),
         \/ PC' = PC
         \/ PC' = Plus4(PC) /\ text[PC].op \in {"plain", "branch"}
         \/ PC' = Plus4(Plus4(PC)) /\ text[PC].op = "likely"
  PROVE  Simulated
  <1>1. Slotted'
    BY DEF SlottedGuest, Slotted, InSlot
  <1>2. UserPC = PC /\ UserNPC = Plus4(PC) /\ UserPC' = PC' /\ UserNPC' = Plus4(PC')
    BY <1>1 DEF SlottedGuest, Slotted, UserPC, UserNPC, SlotDone
  <1>3. User!Op = text[PC].op
    BY SlottedText DEF SlotDone
  <1>4. [User!Next]_(User!vars)
    <2>1. CASE PC' = PC
      BY <1>2, <2>1 DEF User!vars
    <2>2. CASE PC' = Plus4(PC) /\ text[PC].op \in {"plain", "branch"}
      BY <1>2, <1>3, <2>2, SlottedText DEF User!Next, User!Sequential
    <2>3. CASE PC' = Plus4(Plus4(PC)) /\ text[PC].op = "likely"
      BY <1>2, <1>3, <2>3, SlottedText DEF User!Next, User!Annul
    <2>. QED BY <2>1, <2>2, <2>3
  <1>. QED BY <1>1, <1>4 DEF Simulated

\* The instruction in the slot: the program goes to the target.
LEMMA SlotSimulated ==
  ASSUME SlottedGuest, text' = text, InSlot, ~Finished, InSlot', Finished',
         UNCHANGED <<EXL, IE, exception_occurred, EPC>>, PC' = Plus4(PC),
         Len(frames') = Len(frames),
         Top'.target = Top.target, Top'.ret = Top.ret
  PROVE  Simulated
  <1>. DEFINE t == Top.target
  <1>1. /\ text[PC].op = "plain" /\ PC' = PC + 1 /\ PC + 1 \in Text
        /\ t \in Text /\ Target(Top.ret, t, PC + 1) = t
    BY SlottedText DEF SlottedGuest, Slotted, PlainSlots
  <1>2. Target(Top.ret, t, PC)' = t
    BY <1>1 DEF Target
  <1>3. Slotted'
    BY <1>1, <1>2 DEF SlottedGuest, Slotted
  <1>4. UserPC = PC /\ UserNPC = t /\ UserPC' = t /\ UserNPC' = Plus4(t)
    BY <1>2, <1>3 DEF SlottedGuest, Slotted, UserPC, UserNPC, SlotDone
  <1>5. User!Op = "plain"
    BY <1>1, SlottedText DEF SlotDone
  <1>6. User!Next
    BY <1>1, <1>4, <1>5, SlottedText DEF User!Next, User!Sequential
  <1>. QED BY <1>3, <1>6 DEF Simulated

\* A jump calls run_spim for its slot.
LEMMA JumpSimulated ==
  ASSUME SlottedGuest, DelayedBranches, NEW ticks, Poll(ticks), JumpOrBranch
  PROVE  Simulated
  <1>. DEFINE t == text[PC].target
              ret == IF text[PC].op = "j" THEN "region" ELSE "abs"
  <1>. HIDE DEF t, ret
  <1>1. /\ Instr = text[PC] /\ PC \in Text /\ text[PC].op \in {"branch", "likely", "jr", "j"}
        /\ frames # <<>> /\ Top.chunk > 0 /\ text' = text
        /\ Plus4(PC) = PC + 1 /\ FramesOK /\ ~Finished
    <2>1. /\ Instr = text[PC] /\ PC \in Text /\ Plus4(PC) = PC + 1 /\ FramesOK
      BY SlottedText
    <2>2. text[PC].op \in {"branch", "likely", "jr", "j"}
      BY <2>1 DEF JumpOrBranch
    <2>3. frames # <<>> /\ Top.chunk > 0 /\ text' = text
      BY DEF Poll
    <2>4. Top.chunk \in Nat
      BY <2>1, <2>3, TopTyped, BoundedIsCall DEF CallType
    <2>. QED BY <2>1, <2>2, <2>3, <2>4 DEF Finished
  <1>. USE DEF t, ret
  <1>2. /\ PC + 1 \in Text /\ text[PC + 1].op = "plain" /\ t \in Text
        /\ text[PC].op = "j" => (InKernel(t) <=> InKernel(PC + 2))
    BY <1>1 DEF SlottedGuest, PlainSlots, Jumps
  <1>3. ~InSlot
    BY <1>1 DEF SlottedGuest, Slotted
  <1>4. Target(ret, t, PC + 2) = t /\ ret \in {"abs", "region", "epc"}
    BY <1>2 DEF Target
  <1>5. /\ PC' = PC + 1
        /\ frames' = <<Call(1, Plus4(PC), ret, t)>> \o WithTop(Issued(Top))
        /\ UNCHANGED <<EXL, IE, exception_occurred>>
    <2>1. exception_occurred' = exception_occurred
      BY DEF JumpOrBranch, SlottedGuest, Slotted
    <2>. QED BY <1>1, <2>1 DEF JumpOrBranch, Jump
  <1>6. t \in Addr /\ Plus4(PC) \in Addr /\ PC \in Addr
    BY <1>1, <1>2, SlottedText DEF Addr
  <1>7. /\ Len(frames') = 2 /\ frames' # <<>> /\ Top'.left = 1
        /\ Top'.target = t /\ Top'.ret = ret
    <2>. HIDE DEF t, ret
    <2>1. Len(frames') = Len(frames) + 1 /\ Top'.left = 1 /\ frames' # <<>>
      BY <1>1, <1>4, <1>5, <1>6, SlotCalled
    <2>2. Len(frames) = 1
      BY <1>1, <1>3, OneCall
    <2>3. Issued(Top) \in BoundedCall /\ Call(1, Plus4(PC), ret, t) \in BoundedCall
      BY <1>1, <1>4, <1>6, TopTyped, IssuedCall, NewCall
    <2>4. Top' = Call(1, Plus4(PC), ret, t)
      BY <1>1, <1>5, <2>3, StackPushed
    <2>. QED BY <2>1, <2>2, <2>4 DEF Call
  <1>. HIDE DEF t, ret
  <1>8. ~Finished' /\ InSlot'
    BY <1>7 DEF Finished, InSlot
  <1>9. Target(Top.ret, Top.target, PC + 1)' = t
    <2>1. PC' + 1 = PC + 2
      BY <1>1, <1>5, SlottedText
    <2>2. ret # "epc"
      BY DEF ret
    <2>. QED BY <1>4, <1>7, <2>1, <2>2 DEF Target
  <1>10. Slotted'
    BY <1>1, <1>2, <1>5, <1>7, <1>8, <1>9 DEF SlottedGuest, Slotted
  <1>11. UserPC = PC /\ UserNPC = PC + 1 /\ UserPC' = PC + 1 /\ UserNPC' = t
    BY <1>1, <1>3, <1>5, <1>7, <1>8, <1>10
       DEF SlottedGuest, Slotted, UserPC, UserNPC, SlotDone
  <1>12. User!Op = text[PC].op
    BY <1>3, SlottedText DEF SlotDone
  <1>13. User!Next
    BY <1>1, <1>11, <1>12 DEF User!Next, User!Transfer, t
  <1>. QED BY <1>10, <1>13 DEF Simulated

\* A chunk starts: no interrupt is enabled, so nothing else happens.
LEMMA ChunkSimulated ==
  ASSUME SlottedGuest, NEW lines, CheckInterrupt(lines)
  PROVE  Simulated
  <1>1. /\ frames # <<>> /\ Top.left > 0 /\ Top.chunk = 0 /\ FramesOK
        /\ frames' = WithTop(NextChunk(Top)) /\ text' = text
        /\ UNCHANGED <<PC, EXL, IE, exception_occurred, EPC>>
    BY DEF CheckInterrupt, StartChunk, Interruptible, SlottedGuest, Slotted, Typed
  <1>2. /\ NextChunk(Top) \in BoundedCall /\ NextChunk(Top).chunk > 0
        /\ NextChunk(Top).target = Top.target /\ NextChunk(Top).ret = Top.ret
    BY <1>1, TopTyped, CallNextChunk, CallKept, BoundedIsCall
  <1>3. Len(frames') = Len(frames) /\ Top' = NextChunk(Top) /\ ~Finished /\ ~Finished'
    <2>1. NextChunk(Top).chunk # 0 /\ Top.left # 0
      BY <1>1, <1>2, TopTyped, BoundedIsCall DEF CallType
    <2>. QED BY <1>1, <1>2, <2>1, StackReplaced DEF Finished
  <1>4. /\ Target(Top.ret, Top.target, PC + 1)' = Target(Top.ret, Top.target, PC + 1)
        /\ Top'.target = Top.target
    BY <1>1, <1>2, <1>3 DEF Target
  <1>5. Slotted'
    BY <1>1, <1>3, <1>4 DEF SlottedGuest, Slotted, InSlot
  <1>6. UNCHANGED User!vars
    BY <1>1, <1>3, <1>4 DEF User!vars, UserPC, UserNPC, SlotDone, InSlot,
       SlottedGuest, Slotted
  <1>. QED BY <1>5, <1>6 DEF Simulated

\* The nested call returns: PC catches up.
LEMMA ReturnSimulated ==
  ASSUME SlottedGuest, ReturnFromSlot
  PROVE  Simulated
  <1>1. /\ Finished /\ InSlot /\ Len(frames) \in Nat /\ FramesOK
        /\ UNCHANGED <<text, EXL, IE>>
    BY DEF ReturnFromSlot, cp0, InSlot, SlottedGuest, Typed, FramesOK
  <1>2. PC' = Top.target /\ Top.target \in Text /\ exception_occurred' = 0
    BY <1>1 DEF ReturnFromSlot, SlottedGuest, Slotted
  <1>3. Len(frames') = Len(frames) - 1
    BY <1>1, SlotReturned DEF ReturnFromSlot
  <1>4. Len(frames) = 2 /\ ~InSlot'
    BY <1>1, <1>3 DEF InSlot, SlottedGuest, Slotted
  <1>5. Slotted'
    BY <1>1, <1>2, <1>3, <1>4 DEF SlottedGuest, Slotted
  <1>6. UserPC = Top.target /\ UserNPC = Plus4(Top.target)
    BY <1>1 DEF UserPC, UserNPC, SlotDone, SlottedGuest, Slotted
  <1>7. UserPC' = Top.target /\ UserNPC' = Plus4(Top.target)
    BY <1>1, <1>2, <1>4, <1>5 DEF UserPC, UserNPC, SlotDone, Slotted
  <1>. QED BY <1>1, <1>5, <1>6, <1>7 DEF Simulated, User!vars

LEMMA SlottedNext ==
  ASSUME SlottedGuest, Typed', DelayedBranches, ~ControlC, StartAddrs = {},
         [Next]_vars
  PROVE  Simulated /\ text' = text
  <1>. FramesOK /\ FramesOK' /\ frames' \in Seq(BoundedCall) /\ PC \in Text
    BY DEF SlottedGuest, Slotted, Typed, FramesOK
  <1>0. CASE UNCHANGED vars
    <2>1. Slotted'
      BY <1>0 DEF vars, cp0, SlottedGuest, Slotted, InSlot, Finished, Top, Target
    <2>2. UNCHANGED User!vars
      BY <1>0 DEF vars, cp0, User!vars, UserPC, UserNPC, SlotDone, InSlot, Finished,
         Top, Target
    <2>. QED BY <1>0, <2>1, <2>2 DEF vars, Simulated
  <1>1. ASSUME NEW lines \in SUBSET DeviceLines, CheckInterrupt(lines)
        PROVE  Simulated /\ text' = text
    BY <1>1, ChunkSimulated DEF CheckInterrupt, StartChunk
  <1>2. ASSUME NEW ticks \in {{}, {TimerLine}}, Poll(ticks) /\ Execute
        PROVE  Simulated /\ text' = text
    <2>1. /\ text' = text /\ frames # <<>> /\ Top.chunk > 0 /\ Instr = text[PC]
          /\ ~Finished
      BY <1>2, SlottedText, TopTyped DEF Poll, Finished
    <2>2. /\ text[PC].op \in {"plain", "branch", "likely", "jr", "j", "exit", "none"}
          /\ text[PC].op \in {"plain", "branch"} => Plus4(PC) \in Text
          /\ text[PC].op = "likely" => Plus4(Plus4(PC)) \in Text
      <3>1. /\ text[PC].op \in {"plain", "branch", "likely", "jr", "j", "exit", "none"}
            /\ text[PC].op \in {"plain", "branch"} => PC + 1 \in Text
            /\ text[PC].op = "likely" => PC + 1 \in Text /\ (PC + 1) + 1 \in Text
        BY DEF SlottedGuest, PlainSlots, Jumps
      <3>. QED BY <3>1, SlottedText
    <2>3. /\ Plain \/ NotTaken \/ JumpOrBranch \/ Exit
          /\ EXL' = EXL /\ IE' = IE /\ exception_occurred' = exception_occurred
      <3>1. Plain \/ NotTaken \/ JumpOrBranch \/ Exit
        BY <1>2, <2>1, <2>2 DEF Execute, Fault, SetIE, SkipEPC, ExceptionReturn,
           DebuggerBreak
      <3>. QED BY <3>1 DEF Plain, NotTaken, JumpOrBranch, Exit, Advance,
                           SlottedGuest, Slotted
    <2>4. CASE JumpOrBranch
      BY <1>2, <2>1, <2>4, JumpSimulated
    <2>5. CASE ~JumpOrBranch /\ ~InSlot
      <3>1. Instr.op \notin Jumps \/ NotTaken
        BY <2>1, <2>3, <2>5 DEF Plain, Exit, Jumps
      <3>2. ~InSlot'
        BY <1>2, <2>5, <3>1, NoJump DEF InSlot, SlottedGuest
      <3>3. \/ PC' = PC
            \/ PC' = Plus4(PC) /\ text[PC].op \in {"plain", "branch"}
            \/ PC' = Plus4(Plus4(PC)) /\ text[PC].op = "likely"
        BY <2>1, <2>2, <2>3, <2>5 DEF Plain, NotTaken, Exit, Advance
      <3>4. PC' \in Text
        BY <2>2, <3>3
      <3>. QED BY <2>1, <2>3, <2>5, <3>2, <3>3, <3>4, NotNested
    <2>6. CASE InSlot /\ ~JumpOrBranch
      <3>1. text[PC].op = "plain"
        BY <2>1, <2>6 DEF SlottedGuest, Slotted
      <3>2. PC' = Plus4(PC) /\ EPC' = EPC
            /\ frames' = WithTop(OneStepDone(Issued(Top)))
        BY <2>1, <2>3, <2>6, <3>1 DEF Plain, NotTaken, Exit, Advance, Done
      <3>3. Len(frames') = Len(frames) /\ Finished'
        <4>1. Instr.op \notin Jumps
          BY <2>1, <3>1 DEF Jumps
        <4>. QED BY <1>2, <2>6, <4>1, NoJump DEF SlottedGuest
      <3>4. OneStepDone(Issued(Top)) \in BoundedCall /\ Top \in CallType
        <4>1. Issued(Top) \in BoundedCall /\ Issued(Top).chunk = Top.chunk
          BY <2>1, TopTyped, IssuedCall, SlottedText DEF Addr
        <4>. QED BY <2>1, <4>1, TopTyped, CallStepDone, BoundedIsCall
      <3>5. Top'.target = Top.target /\ Top'.ret = Top.ret
        BY <2>1, <3>2, <3>4, StackReplaced, CallKept
      <3>6. InSlot'
        BY <2>6, <3>3 DEF InSlot
      <3>. QED BY <2>1, <2>3, <2>6, <3>2, <3>3, <3>5, <3>6, SlotSimulated
    <2>. QED BY <2>4, <2>5, <2>6
  <1>3. ~Acknowledge
    <2>1. text[PC].op # "ack"
      BY DEF SlottedGuest, PlainSlots
    <2>. QED BY <2>1, SlottedText DEF Acknowledge
  <1>4. CASE ReturnFromSlot
    BY <1>4, ReturnSimulated DEF ReturnFromSlot
  <1>5. CASE Return
    BY <1>5, NotNested DEF Return, cp0, InSlot
  <1>6. CASE NonInstruction
    <2>1. ~InSlot
      BY <1>6, SlottedText, TopTyped DEF NonInstruction, Finished, SlottedGuest, Slotted
    <2>. QED BY <1>6, <2>1, NotNested DEF NonInstruction, LongJump, cp0, InSlot
  <1>7. ASSUME NEW pc \in StartAddrs \cup {PC}, RunProgram(pc)
        PROVE  Simulated /\ text' = text
    <2>1. frames = <<>> /\ PC' = PC /\ Len(frames') = 1 /\ text' = text
          /\ UNCHANGED <<EXL, IE, exception_occurred>>
      BY <1>7 DEF RunProgram, CallRunSpim, cp0, SlottedGuest, Slotted, Idle
    <2>. QED BY <2>1, NotNested DEF InSlot
  <1>8. CASE EndRunProgram
    BY <1>8, NotNested DEF EndRunProgram, SlottedGuest, Slotted, InSlot
  <1>. QED  BY <1>0, <1>1, <1>2, <1>3, <1>4, <1>5, <1>6, <1>7, <1>8, QuietCases

\* With delayed branches the guest of run_spim sees UserMachine too: the
\* instruction after a jump is executed, once and before the target's, wherever
\* chunks and runs end, a jump's slot included.  Slots hold plain instructions,
\* interrupts stay off and nothing faults; ^C, which may fall between a jump and
\* its slot, is left out.
THEOREM SlotsAreUserMachine ==
  ASSUME DelayedBranches, ~ControlC, StartAddrs = {},
         \A p \in Programs : PlainSlots(p)
  PROVE  Spec => ImplementsUserMachine
  <1>. DEFINE Inv == PlainSlots(text) /\ Slotted
  <1>1. Init => Inv /\ User!Init
    <2>. SUFFICES ASSUME Init PROVE Inv /\ User!Init
      OBVIOUS
    <2>1. LastAddr \in Nat /\ 0 \in Text /\ Bad = LastAddr + 1
      BY ParametersOK DEF ParametersOK, Text, Bad
    <2>2. Inv
      BY <2>1 DEF Init, Slotted, InSlot
    <2>. QED
      BY <2>1, <2>2 DEF Init, User!Init, User!After, UserPC, UserNPC, InSlot,
                        SlotDone, Plus4
  <1>2. Typed /\ Typed' /\ Idle /\ Inv /\ [Next]_vars
          => Inv' /\ [User!Next]_(User!vars)
    <2>. SUFFICES ASSUME Typed, Typed', Idle, Inv, [Next]_vars
                  PROVE  Inv' /\ [User!Next]_(User!vars)
      OBVIOUS
    <2>1. Simulated /\ text' = text
      BY SlottedNext DEF SlottedGuest
    <2>2. PlainSlots(text)'
      BY <2>1 DEF PlainSlots
    <2>. QED BY <2>1, <2>2 DEF Simulated
  <1>. QED
    BY <1>1, <1>2, TypedInvariant, IdleInvariant, PTL
       DEF Spec, ImplementsUserMachine, User!Spec

-----------------------------------------------------------------------------
(***************************************************************************)
(* Part 3.  Without delayed branches, and for well-behaved guests: RunSpim *)
(* implements UserMachine.                                                 *)
(***************************************************************************)

-----------------------------------------------------------------------------
(***************************************************************************)
(* The inductive invariant.  Outside the handler the PC is the program's;  *)
(* in the handler EPC is.  Before the handler has moved EPC or cleared the *)
(* cause, a cause other than an interrupt means that EPC is at an          *)
(* instruction that may fault: only such an instruction is skipped.  A     *)
(* breakpoint leaves EXL set with the PC still in the program, until       *)
(* run_program turns it off: there PC and EPC agree.                       *)
(***************************************************************************)
Faulting(a) == a = Bad \/ text[a].op \in {"trap", "break"}

AtBreakpoint == PC \in UserText /\ PC = EPC /\ text[PC].op = "bkpt"

Placed(code, done) ==
  /\ EXL = 0 => PC \in UserAddr
  /\ EXL = 1 =>
       /\ EPC \in UserAddr
       /\ PC \in code \/ AtBreakpoint
       /\ PC \in code \ done /\ ExcCode # "Int" /\ Skips(text, code)
            => Faulting(EPC)
  /\ exception_occurred = 1 => PC \in UserText

Guest == Typed /\ Flat /\ UserProgram(text)

\* Where the program is, when run_spim is not nested.
Where == IF EXL = 1 THEN EPC ELSE PC

\* What a step of RunSpim may do to it.
Moves ==
  \/ Where' = Where
  \/ /\ Where' = Plus4(Where)
     /\ IF Where = Bad THEN TRUE
        ELSE text[Where].op \in {"plain", "trap", "break", "branch", "ei", "di"}
  \/ /\ Where' = Plus4(Plus4(Where))
     /\ Where \in Text /\ text[Where].op = "likely"
  \/ /\ Where \in Text /\ Where' = text[Where].target
     /\ text[Where].op \in {"branch", "likely", "jr", "j"}

LEMMA GuestText ==
  ASSUME Guest
  PROVE  /\ text \in [Text -> [op : Ops, target : Addr]]
         /\ LastAddr \in Nat /\ KText \in Text
         /\ UserText \subseteq Text /\ UserAddr \subseteq Addr
         /\ Bad \in Addr /\ Bad \notin Text
         /\ PC \in Addr /\ EPC \in Addr
         /\ EXL \in {0, 1} /\ exception_occurred \in {0, 1}
  BY ParametersOK DEF ParametersOK, Guest, Typed, RestOK, CP0OK, UserText,
                      UserAddr, Text, Addr, Bad

LEMMA HandlerText ==
  ASSUME NEW code, NEW done, Handler(text, code, done)
  PROVE  /\ code \subseteq KText .. LastAddr
         /\ code \subseteq Text /\ code \cap UserAddr = {}
         /\ EXCEPTION_ADDR \in code \ done
  BY ParametersOK DEF ParametersOK, Handler, UserText, UserAddr, Text, Bad

\* A move is a step of UserMachine or none at all.
LEMMA MovesSimulated ==
  ASSUME ~DelayedBranches, Guest, Guest', text' = text, Moves
  PROVE  [User!Next]_(User!vars)
  <1>1. /\ UserPC = Where /\ UserNPC = Plus4(Where)
        /\ UserPC' = Where' /\ UserNPC' = Plus4(Where')
    BY DEF Guest, Flat, Shallow, UserPC, UserNPC, InSlot, SlotDone, Where,
           Typed, FramesOK
  <1>2. /\ Where \in Addr /\ Where' \in Addr
        /\ LastAddr \in Nat /\ Bad = LastAddr + 1 /\ Text = 0 .. LastAddr
        /\ Addr = 0 .. LastAddr + 1
    BY GuestText DEF Where, Guest, Typed, RestOK, CP0OK, Bad, Text, Addr
  <1>3. \A a \in Addr : User!After(a) = Plus4(a) /\ Plus4(a) \in Addr
    BY <1>2 DEF User!After, Plus4
  <1>4. User!Op = IF Where = Bad THEN "bad" ELSE text[Where].op
    BY <1>1, <1>2 DEF User!Op
  <1>. DEFINE w == Where
              v == Where'
  <1>5. CASE v = w
    BY <1>1, <1>5 DEF User!vars
  <1>6. CASE /\ v = Plus4(w)
             /\ IF w = Bad THEN TRUE
                ELSE text[w].op \in {"plain", "trap", "break", "branch", "ei", "di"}
    BY <1>1, <1>2, <1>3, <1>4, <1>6 DEF User!Next, User!Sequential
  <1>7. CASE v = Plus4(Plus4(w)) /\ w \in Text /\ text[w].op = "likely"
    BY <1>1, <1>2, <1>3, <1>4, <1>7 DEF User!Next, User!Annul
  <1>8. CASE /\ w \in Text /\ v = text[w].target
             /\ text[w].op \in {"branch", "likely", "jr", "j"}
    BY <1>1, <1>2, <1>3, <1>4, <1>8 DEF User!Next, User!Transfer
  <1>. QED BY <1>5, <1>6, <1>7, <1>8 DEF Moves

-----------------------------------------------------------------------------
(***************************************************************************)
(* One instruction of the program.                                         *)
(***************************************************************************)
Kept(code, done) == Placed(code, done)' /\ Moves

\* An instruction that leaves the program where it is.
LEMMA ProgramGoesOn ==
  ASSUME Guest, text' = text, NEW code, NEW done, EXL = 0, EXL' = 0,
         exception_occurred' = 0, PC' \in UserAddr, Moves
  PROVE  Kept(code, done)
  BY DEF Kept, Placed

\* An exception, or an interrupt: the handler starts.
LEMMA HandlerStarts ==
  ASSUME Guest, text' = text, NEW code, NEW done, Handler(text, code, done),
         EXL = 0, PC \in UserAddr, running_in_delay_slot = 0,
         NEW cause, Except(cause), cause = "Int" \/ Faulting(PC)
  PROVE  Kept(code, done)
  <1>1. /\ PC' = EXCEPTION_ADDR /\ EPC' = PC /\ ExcCode' = cause /\ EXL' = 1
        /\ exception_occurred' = 0
    BY DEF Except, Raise
  <1>2. EXCEPTION_ADDR \in code
    BY HandlerText
  <1>3. Faulting(PC) => Faulting(EPC)'
    BY <1>1 DEF Faulting
  <1>4. Placed(code, done)'
    BY <1>1, <1>2, <1>3 DEF Placed
  <1>. QED BY <1>1, <1>4 DEF Kept, Moves, Where

LEMMA ProgramStep ==
  ASSUME Guest, ~DelayedBranches, NEW code, NEW done,
         Handler(text, code, done), Placed(code, done),
         EXL = 0, text' = text, Execute
  PROVE  Kept(code, done)
  <1>1. PC \in UserAddr /\ running_in_delay_slot = 0 /\ Where = PC
    BY DEF Placed, Guest, Flat, Where
  <1>2. CASE PC = Bad
    <2>1. Instr.op = "bad"
      BY <1>2, GuestText DEF Instr
    <2>2. Except("IBE")
      BY <2>1 DEF Execute, Plain, Fault, SetIE, SkipEPC, NotTaken, JumpOrBranch,
         ExceptionReturn, Exit, DebuggerBreak
    <2>. QED BY <1>1, <1>2, <2>2, HandlerStarts DEF Faulting
  <1>3. CASE PC \in UserText
    <2>1. /\ Instr = text[PC] /\ PC # Bad /\ PC \in Text /\ PC + 1 = Plus4(PC)
          /\ text[PC].op # "bad"
      BY <1>3, GuestText DEF Instr, Plus4, Ops, Text
    <2>2. /\ text[PC].op \notin {"eret", "ack", "skip", "skipfault"}
          /\ text[PC].op \in {"plain", "trap", "break", "branch", "ei", "di"}
               => Plus4(PC) \in UserText
          /\ text[PC].op = "likely" => PC + 2 \in UserText
          /\ text[PC].op \in {"branch", "likely", "jr", "j"}
               => text[PC].target \in UserAddr
      BY <1>3, <2>1 DEF Guest, UserProgram
    <2>3. ASSUME Advance, EXL' = EXL,
                 text[PC].op \in {"plain", "trap", "ei", "di"}
          PROVE  Kept(code, done)
      <3>1. PC' = Plus4(PC) /\ exception_occurred' = 0
        BY <2>3 DEF Advance
      <3>2. Moves
        BY <1>1, <2>1, <2>3, <3>1 DEF Moves, Where
      <3>. QED BY <2>2, <2>3, <3>1, <3>2, ProgramGoesOn DEF UserAddr
    <2>4. CASE Plain
      BY <2>1, <2>3, <2>4 DEF Plain
    <2>5. CASE Fault
      <3>1. /\ text[PC].op \in {"trap", "break"}
            /\ Except("Fault") \/ Except("Bp")
        BY <2>1, <2>5 DEF Fault
      <3>. QED BY <1>1, <3>1, HandlerStarts DEF Faulting
    <2>6. CASE SetIE
      BY <2>1, <2>3, <2>6 DEF SetIE
    <2>7. ~SkipEPC /\ ~ExceptionReturn
      BY <2>1, <2>2 DEF SkipEPC, ExceptionReturn
    <2>8. CASE NotTaken
      <3>1. CASE text[PC].op = "likely"
        <4>1. PC' = Plus4(Plus4(PC)) /\ exception_occurred' = 0 /\ EXL' = 0
          BY <2>1, <2>8, <3>1 DEF NotTaken
        <4>2. Plus4(Plus4(PC)) = PC + 2
          BY <2>1, <2>2, <3>1, GuestText DEF Plus4, Bad, Text, UserText
        <4>3. Moves
          BY <1>1, <2>1, <3>1, <4>1 DEF Moves, Where
        <4>. QED BY <2>2, <3>1, <4>1, <4>2, <4>3, ProgramGoesOn DEF UserAddr
      <3>2. CASE text[PC].op = "branch"
        <4>1. PC' = Plus4(PC) /\ exception_occurred' = 0 /\ EXL' = 0
          BY <2>1, <2>8, <3>2 DEF NotTaken
        <4>2. Moves
          BY <1>1, <2>1, <3>2, <4>1 DEF Moves, Where
        <4>. QED BY <2>2, <3>2, <4>1, <4>2, ProgramGoesOn DEF UserAddr
      <3>. QED BY <2>1, <2>8, <3>1, <3>2 DEF NotTaken
    <2>9. CASE JumpOrBranch
      <3>1. text[PC].op \in {"branch", "likely", "jr", "j"}
        BY <2>1, <2>9 DEF JumpOrBranch
      <3>2. PC' = text[PC].target /\ exception_occurred' = 0 /\ EXL' = 0
        <4>. DEFINE t == text[PC].target
        <4>1. t \in UserAddr /\ PC < KText
          BY <1>3, <2>2, <3>1, GuestText DEF UserText, Text
        <4>. HIDE DEF t
        <4>2. Target("region", t, PC) = t
          <5>1. ~InKernel(PC) /\ (t # Bad => ~InKernel(t))
            BY <4>1, <1>3, GuestText DEF InKernel, UserAddr, UserText, Text
          <5>2. Target("region", t, PC) = IF ~InKernel(t) THEN t ELSE Bad
            BY <5>1 DEF Target
          <5>. QED BY <5>1, <5>2
        <4>3. Target("abs", t, PC) = t
          BY DEF Target
        <4>. QED BY <2>1, <2>9, <4>2, <4>3 DEF JumpOrBranch, Jump, t
      <3>3. Moves
        BY <1>1, <2>1, <3>1, <3>2 DEF Moves, Where
      <3>. QED BY <2>2, <3>1, <3>2, <3>3, ProgramGoesOn
    <2>10. CASE Exit
      <3>1. PC' = PC /\ EXL' = 0 /\ exception_occurred' = 0
        BY <2>10 DEF Exit
      <3>2. Moves
        BY <1>1, <3>1 DEF Moves, Where
      <3>. QED BY <1>1, <3>1, <3>2, ProgramGoesOn
    <2>11. CASE DebuggerBreak
      <3>1. /\ text[PC].op = "bkpt" /\ PC' = PC /\ EXL' = 1 /\ EPC' = PC
            /\ exception_occurred' = 1
        BY <1>1, <2>1, <2>11 DEF DebuggerBreak, Raise
      <3>2. AtBreakpoint'
        BY <1>3, <3>1 DEF AtBreakpoint
      <3>3. PC \notin code
        BY <1>1, HandlerText
      <3>4. Placed(code, done)'
        BY <1>1, <1>3, <3>1, <3>2, <3>3 DEF Placed
      <3>. QED BY <1>1, <3>1, <3>4 DEF Kept, Moves, Where
    <2>. QED BY <2>4, <2>5, <2>6, <2>7, <2>8, <2>9, <2>10, <2>11 DEF Execute
  <1>. QED BY <1>1, <1>2, <1>3 DEF UserAddr

-----------------------------------------------------------------------------
(***************************************************************************)
(* One instruction of the handler.                                         *)
(***************************************************************************)
LEMMA InHandler ==
  ASSUME Guest, NEW code, NEW done, Handler(text, code, done), PC \in code
  PROVE  /\ PC \in Text /\ Instr = text[PC] /\ text[PC].op # "bad"
         /\ text[PC].op \notin {"bkpt", "skip"}
         /\ text[PC].op \in {"trap", "break"} => ~Skips(text, code)
         /\ text[PC].op = "skipfault" => PC \notin done
         /\ \A b \in Successors(text, PC) :
              /\ b \in code
              /\ text[PC].op = "skipfault" \/ (PC \in done /\ text[PC].op # "ack")
                   => b \in done
  <1>1. PC \in Text /\ Instr = text[PC] /\ text[PC].op # "bad"
    BY GuestText, HandlerText DEF Instr, Ops
  <1>. QED BY <1>1 DEF Handler

\* The handler goes on, with EPC where it is.
LEMMA HandlerGoesOn ==
  ASSUME Guest, text' = text, NEW code, NEW done, Handler(text, code, done),
         Placed(code, done), PC \in code, EXL = 1, EXL' = 1, EPC' = EPC,
         exception_occurred' = 0, PC' \in Successors(text, PC),
         text[PC].op # "skipfault",
         \/ ExcCode' = ExcCode /\ text[PC].op # "ack"
         \/ ExcCode' = "Int"
  PROVE  Kept(code, done)
  <1>1. /\ PC' \in code
        /\ PC \in done /\ text[PC].op # "ack" => PC' \in done
    BY InHandler
  <1>2. ASSUME PC' \in code \ done, ExcCode' # "Int", Skips(text, code)
        PROVE  Faulting(EPC)'
    <2>1. PC \in code \ done /\ ExcCode # "Int"
      BY <1>1, <1>2
    <2>. QED BY <1>2, <2>1 DEF Placed, Faulting
  <1>3. Skips(text, code)' => Skips(text, code)
    BY DEF Skips
  <1>4. Placed(code, done)'
    BY <1>1, <1>2, <1>3 DEF Placed
  <1>. QED BY <1>4 DEF Kept, Moves, Where

LEMMA HandlerStep ==
  ASSUME Guest, ~DelayedBranches, NEW code, NEW done,
         Handler(text, code, done), Placed(code, done),
         EXL = 1, PC \in code, text' = text, Execute
  PROVE  Kept(code, done)
  <1>1. /\ PC \in Text /\ Instr = text[PC] /\ text[PC].op # "bad"
        /\ text[PC].op \notin {"bkpt", "skip"}
        /\ text[PC].op \in {"trap", "break"} => ~Skips(text, code)
        /\ text[PC].op = "skipfault" => PC \notin done
    BY InHandler
  <1>2. /\ Plus4(PC) \in Addr /\ Plus4(Plus4(PC)) \in Addr
        /\ text[PC].target \in Addr
        /\ EPC \in UserAddr /\ Where = EPC
    BY <1>1, GuestText, Addresses DEF Placed, Where
  <1>3. CASE Plain
    <2>1. Plus4(PC) \in Successors(text, PC)
      BY <1>1, <1>2, <1>3 DEF Plain, Successors
    <2>. QED BY <1>1, <1>3, <2>1, HandlerGoesOn DEF Plain, Advance
  <1>4. CASE Fault
    <2>1. PICK cause \in Codes : Except(cause)
      BY <1>4 DEF Fault, Codes
    <2>2. ~Skips(text, code)
      BY <1>1, <1>4 DEF Fault
    <2>3. /\ PC' = EXCEPTION_ADDR /\ EPC' = EPC /\ EXL' = 1
          /\ exception_occurred' = 0
      BY <2>1 DEF Except, Raise
    <2>4. PC' \in code /\ ~Skips(text, code)'
      BY <2>2, <2>3, HandlerText DEF Skips
    <2>. QED BY <1>2, <2>3, <2>4 DEF Kept, Placed, Moves, Where
  <1>5. CASE SetIE
    <2>1. Plus4(PC) \in Successors(text, PC)
      BY <1>1, <1>2, <1>5 DEF SetIE, Successors
    <2>. QED BY <1>1, <1>5, <2>1, HandlerGoesOn DEF SetIE, Advance
  <1>6. CASE SkipEPC
    <2>1. /\ text[PC].op = "skipfault" /\ PC \in code \ done
          /\ EPC' = IF ExcCode # "Int" THEN Plus4(EPC) ELSE EPC
          /\ PC' = Plus4(PC) /\ exception_occurred' = 0 /\ EXL' = 1
      BY <1>1, <1>6 DEF SkipEPC, Advance
    <2>2. PC' \in Successors(text, PC)
      BY <1>2, <2>1 DEF Successors
    <2>3. PC' \in code /\ PC' \in done
      BY <2>1, <2>2, InHandler
    <2>4. CASE ExcCode = "Int"
      BY <1>2, <2>1, <2>3, <2>4 DEF Kept, Placed, Moves, Where
    <2>5. CASE ExcCode # "Int"
      <3>1. Faulting(EPC)
        BY <2>1, <2>5 DEF Placed, Skips
      <3>2. Plus4(EPC) \in UserAddr
        <4>1. CASE EPC = Bad
          BY <1>2, <4>1 DEF Plus4
        <4>2. CASE EPC # Bad
          <5>1. EPC \in UserText /\ text[EPC].op \in {"trap", "break"}
            BY <1>2, <3>1, <4>2 DEF Faulting, UserAddr
          <5>2. EPC + 1 \in UserText
            BY <5>1 DEF Guest, UserProgram
          <5>. QED BY <4>2, <5>2 DEF Plus4, UserAddr
        <4>. QED BY <4>1, <4>2
      <3>3. Moves
        BY <1>2, <2>1, <2>5, <3>1 DEF Moves, Where, Faulting
      <3>4. Placed(code, done)'
        BY <2>1, <2>3, <2>5, <3>2 DEF Placed
      <3>. QED BY <3>3, <3>4 DEF Kept
    <2>. QED BY <2>4, <2>5
  <1>7. CASE NotTaken
    <2>1. PC' \in Successors(text, PC)
      BY <1>1, <1>2, <1>7 DEF NotTaken, Successors
    <2>. QED BY <1>1, <1>7, <2>1, HandlerGoesOn DEF NotTaken
  <1>8. CASE JumpOrBranch
    <2>. DEFINE t == text[PC].target
    <2>1. t \in Successors(text, PC)
      BY <1>1, <1>2, <1>8 DEF JumpOrBranch, Successors
    <2>2. InKernel(t) /\ InKernel(PC)
      <3>1. t \in code
        BY <2>1, InHandler
      <3>. QED BY <3>1, HandlerText, GuestText DEF InKernel
    <2>. HIDE DEF t
    <2>3. Target("region", t, PC) = t /\ Target("abs", t, PC) = t
      BY <2>2 DEF Target
    <2>4. PC' = t /\ exception_occurred' = 0
          /\ UNCHANGED <<EXL, ExcCode, EPC>>
      BY <1>1, <1>8, <2>3 DEF JumpOrBranch, Jump, t
    <2>5. text[PC].op \notin {"skipfault", "ack"}
      BY <1>1, <1>8 DEF JumpOrBranch
    <2>. QED BY <2>1, <2>4, <2>5, HandlerGoesOn
  <1>9. CASE ExceptionReturn
    <2>1. EXL' = 0 /\ PC' = EPC /\ exception_occurred' = 0
      BY <1>9 DEF ExceptionReturn, Jump, Target
    <2>. QED BY <1>2, <2>1 DEF Kept, Placed, Moves, Where
  <1>10. CASE Exit
    <2>1. UNCHANGED <<PC, EXL, EPC, ExcCode>> /\ exception_occurred' = 0
      BY <1>10 DEF Exit
    <2>2. Faulting(EPC) => Faulting(EPC)'
      BY <2>1 DEF Faulting
    <2>3. Skips(text, code)' => Skips(text, code)
      BY DEF Skips
    <2>4. Placed(code, done)'
      BY <1>2, <2>1, <2>2, <2>3 DEF Placed
    <2>. QED BY <2>1, <2>4 DEF Kept, Moves, Where
  <1>11. ~DebuggerBreak
    BY <1>1 DEF DebuggerBreak
  <1>. QED BY <1>3, <1>4, <1>5, <1>6, <1>7, <1>8, <1>9, <1>10, <1>11 DEF Execute

\* A breakpoint that was left with EXL set, by ^C, is reached again.
LEMMA BreakpointAgain ==
  ASSUME Guest, NEW code, NEW done, Handler(text, code, done),
         Placed(code, done), EXL = 1, AtBreakpoint, text' = text, Execute
  PROVE  Kept(code, done)
  <1>1. Instr.op = "bkpt" /\ PC \notin code
    <2>1. PC \in UserAddr /\ PC \in Text
      BY GuestText DEF AtBreakpoint, UserAddr
    <2>. QED BY <2>1, HandlerText DEF AtBreakpoint, Instr
  <1>2. DebuggerBreak
    BY <1>1 DEF Execute, Plain, Fault, SetIE, SkipEPC, NotTaken, JumpOrBranch,
       ExceptionReturn, Exit
  <1>3. PC' = PC /\ EXL' = 1 /\ EPC' = EPC
    BY <1>2 DEF DebuggerBreak, Raise
  <1>4. AtBreakpoint'
    BY <1>3 DEF AtBreakpoint
  <1>. QED BY <1>1, <1>3, <1>4 DEF Kept, Placed, Moves, Where, AtBreakpoint

-----------------------------------------------------------------------------
(***************************************************************************)
(* Every step.                                                             *)
(***************************************************************************)
\* Nothing the guest sees changes.
LEMMA Unseen ==
  ASSUME Guest, text' = text, NEW code, NEW done, Placed(code, done),
         UNCHANGED <<PC, EXL, EPC, ExcCode>>,
         exception_occurred' \in {0, exception_occurred}
  PROVE  Kept(code, done)
  <1>1. (AtBreakpoint => AtBreakpoint') /\ (Faulting(EPC) => Faulting(EPC)')
    BY DEF AtBreakpoint, Faulting
  <1>2. Skips(text, code)' => Skips(text, code)
    BY DEF Skips
  <1>3. Placed(code, done)'
    BY <1>1, <1>2, GuestText DEF Placed
  <1>. QED BY <1>3 DEF Kept, Moves, Where

LEMMA PlacedNext ==
  ASSUME Guest, ~DelayedBranches, StartAddrs = {}, NEW code, NEW done,
         Handler(text, code, done), Placed(code, done), [Next]_vars
  PROVE  text' = text /\ Kept(code, done)
  <1>0. CASE UNCHANGED vars
    BY <1>0, Unseen DEF vars, cp0
  <1>1. ASSUME NEW lines \in SUBSET DeviceLines, CheckInterrupt(lines)
        PROVE  text' = text /\ Kept(code, done)
    <2>1. text' = text
      BY <1>1 DEF CheckInterrupt, StartChunk
    <2>2. CASE Interruptible(IP')
      <3>1. EXL = 0 /\ Except("Int")
        BY <1>1, <2>2 DEF CheckInterrupt, Interruptible
      <3>2. PC \in UserAddr /\ running_in_delay_slot = 0
        BY <3>1 DEF Placed, Guest, Flat
      <3>. QED BY <2>1, <3>1, <3>2, HandlerStarts
    <2>3. CASE ~Interruptible(IP')
      BY <1>1, <2>1, <2>3, Unseen DEF CheckInterrupt
    <2>. QED BY <2>2, <2>3
  <1>2. ASSUME NEW ticks \in {{}, {TimerLine}}, Poll(ticks) /\ Execute
        PROVE  text' = text /\ Kept(code, done)
    <2>1. text' = text
      BY <1>2 DEF Poll
    <2>2. CASE EXL = 0
      BY <1>2, <2>1, <2>2, ProgramStep
    <2>3. CASE EXL = 1
      <3>1. PC \in code \/ AtBreakpoint
        BY <2>3 DEF Placed
      <3>. QED BY <1>2, <2>1, <2>3, <3>1, HandlerStep, BreakpointAgain
    <2>. QED BY <2>2, <2>3, GuestText
  <1>3. CASE Acknowledge
    <2>1. /\ text' = text /\ Instr.op = "ack" /\ EXL' = EXL /\ EPC' = EPC
          /\ ExcCode' = "Int" /\ PC' = Plus4(PC) /\ exception_occurred' = 0
      BY <1>3 DEF Acknowledge, Advance
    <2>2. PC \in Text /\ text[PC].op = "ack"
      BY <2>1 DEF Instr
    <2>3. PC \notin UserText
      BY <2>2 DEF Guest, UserProgram
    <2>4. EXL = 1 /\ PC \in code
      BY <2>2, <2>3, GuestText DEF Placed, UserAddr, AtBreakpoint
    <2>5. PC' \in Successors(text, PC)
      BY <2>1, <2>2, GuestText, Addresses DEF Successors
    <2>. QED BY <2>1, <2>2, <2>4, <2>5, HandlerGoesOn
  <1>4. ~ReturnFromSlot
    BY DEF ReturnFromSlot, Guest, Flat, Shallow, Typed, FramesOK
  <1>5. CASE Return
    BY <1>5, Unseen DEF Return, cp0
  <1>6. CASE LongJump
    BY <1>6, Unseen DEF LongJump, cp0
  <1>7. ASSUME NEW pc \in StartAddrs \cup {PC}, RunProgram(pc)
        PROVE  text' = text /\ Kept(code, done)
    BY <1>7, Unseen DEF RunProgram, CallRunSpim, cp0
  <1>8. CASE EndRunProgram
    <2>1. CASE EXL' = EXL
      BY <1>8, <2>1, Unseen DEF EndRunProgram
    <2>2. CASE EXL' # EXL
      <3>1. /\ exception_occurred = 1 /\ EXL = 1 /\ EXL' = 0
            /\ UNCHANGED <<text, PC, EPC, exception_occurred>>
        BY <1>8, <2>2, GuestText DEF EndRunProgram
      <3>2. PC \in UserText /\ PC \notin code
        BY <3>1, HandlerText DEF Placed, UserAddr
      <3>3. PC = EPC
        BY <3>1, <3>2 DEF Placed, AtBreakpoint
      <3>. QED BY <3>1, <3>2, <3>3 DEF Kept, Placed, Moves, Where, UserAddr
    <2>. QED BY <2>1, <2>2
  <1>. QED BY <1>0, <1>1, <1>2, <1>3, <1>4, <1>5, <1>6, <1>7, <1>8, StepCases

\* The invariant, with the handler's parts of the text picked.
Inhabited ==
  /\ Flat /\ UserProgram(text)
  /\ \E code, done \in SUBSET (KText .. LastAddr) :
       Handler(text, code, done) /\ Placed(code, done)

LEMMA InhabitedNext ==
  ASSUME Typed, Typed', Inhabited, ~DelayedBranches, StartAddrs = {}, [Next]_vars
  PROVE  Inhabited' /\ [User!Next]_(User!vars)
  <1>1. PICK code \in SUBSET (KText .. LastAddr), done \in SUBSET (KText .. LastAddr) :
          Handler(text, code, done) /\ Placed(code, done)
    BY DEF Inhabited
  <1>2. text' = text /\ Placed(code, done)' /\ Moves
    BY <1>1, PlacedNext DEF Guest, Inhabited, Kept
  <1>3. Flat'
    BY FlatNext DEF Inhabited
  <1>4. UserProgram(text)' /\ Handler(text, code, done)'
    BY <1>1, <1>2 DEF Inhabited, UserProgram, Handler, Skips, Successors
  <1>5. Inhabited'
    BY <1>2, <1>3, <1>4 DEF Inhabited
  <1>6. Guest /\ Guest'
    BY <1>3, <1>4 DEF Guest, Inhabited
  <1>. QED BY <1>2, <1>5, <1>6, MovesSimulated

\* Without delayed branches the guest of run_spim sees UserMachine: however
\* interrupts, faults, the ends of chunks and runs, debugger breaks and ^C fall,
\* its program executes one instruction after the other, none skipped or
\* repeated.  The guest is well behaved (WellBehaved), and no run starts at an
\* address of the user's, which is a jump the program does not make.
THEOREM GuestIsUserMachine ==
  ASSUME ~DelayedBranches, StartAddrs = {}, \A p \in Programs : WellBehaved(p)
  PROVE  Spec => ImplementsUserMachine
  <1>1. Init => Inhabited /\ User!Init
    <2>. SUFFICES ASSUME Init PROVE Inhabited /\ User!Init
      OBVIOUS
    <2>1. WellBehaved(text) /\ Typed
      BY TypedInit DEF Init
    <2>2. Flat
      BY DEF Init, Flat, Shallow
    <2>3. PICK code \in SUBSET (KText .. LastAddr), done \in SUBSET (KText .. LastAddr) :
            Handler(text, code, done)
      BY <2>1 DEF WellBehaved
    <2>4. UserProgram(text) /\ 0 \in UserText
      BY <2>1 DEF WellBehaved, UserProgram
    <2>5. Placed(code, done)
      BY <2>4 DEF Init, Placed, UserAddr
    <2>6. Inhabited
      BY <2>2, <2>3, <2>4, <2>5 DEF Inhabited
    <2>7. User!Init
      <3>1. LastAddr \in Nat /\ Bad = LastAddr + 1
        BY ParametersOK DEF ParametersOK, Bad
      <3>. QED BY <3>1 DEF Init, User!Init, User!After, UserPC, UserNPC, InSlot,
                           SlotDone, Plus4
    <2>. QED BY <2>6, <2>7
  <1>2. Typed /\ Typed' /\ Inhabited /\ [Next]_vars
          => Inhabited' /\ [User!Next]_(User!vars)
    BY InhabitedNext
  <1>. QED
    BY <1>1, <1>2, TypedInvariant, PTL DEF Spec, ImplementsUserMachine, User!Spec

=============================================================================
