--------------------------- MODULE MappedIOProofs ---------------------------
(***************************************************************************)
(* Proofs about MappedIO, for all delays, any number of characters, and    *)
(* any writes of the guest to the device and to Cause.                     *)
(***************************************************************************)
EXTENDS MappedIO, SequenceTheorems, TLAPS

\* Every way the state can change, as one fact to split a step on.
LEMMA StepCases ==
  ASSUME [Next]_vars
  PROVE  \/ check_memory_mapped_IO
         \/ ReadControlC
         \/ \E enable \in BOOLEAN : WriteTransCtrl(enable)
         \/ \E enable \in BOOLEAN : WriteRecvCtrl(enable)
         \/ WriteTransBuffer
         \/ ReadRecvBuffer
         \/ AccessUnused
         \/ \E bits \in CauseWrites : WriteCause(bits)
         \/ Type
         \/ StartRun
         \/ EndRun
         \/ Reinitialize
         \/ UNCHANGED vars
  BY DEF Next, Device, Guest, User

\* The delays are positive: what most steps use of the assumption.
LEMMA Delays == RECV_INTERVAL \in Nat \ {0} /\ TRANS_LATENCY \in Nat \ {0}
  BY ParametersOK DEF ParametersOK

\* TypeOK is an invariant of the device and its users.
THEOREM Typing == Spec => []TypeOK
<1> USE Delays
<1>1. Init => TypeOK
  BY DEF Init, TypeOK, READY, ControlBits
<1>2. TypeOK /\ [Next]_vars => TypeOK'
  <2> SUFFICES ASSUME TypeOK, [Next]_vars PROVE TypeOK'
    OBVIOUS
  <2> USE DEF TypeOK, recv, trans, console, irq, READY, INT_ENABLE, ControlBits
  <2>1. CASE check_memory_mapped_IO
    <3> USE <2>1 DEF check_memory_mapped_IO, CheckReceiver, CheckTransmitter,
                     Takes, Older
    <3>1. recv_timer' \in 0 .. RECV_INTERVAL
      BY DEF RecvTimer
    <3>2. ip' \subseteq Lines
      BY DEF RecvRaises, TransRaises, Lines
    <3>3. recv_buffer' \in Nat /\ taken' \in 0 .. typed'
      OBVIOUS
    <3>4. trans_timer' \in 0 .. TRANS_LATENCY
      OBVIOUS
    <3> QED BY <3>1, <3>2, <3>3, <3>4
  <2>2. CASE ReadControlC
    BY <2>2 DEF ReadControlC, Takes
  <2>3. CASE \E enable \in BOOLEAN : WriteTransCtrl(enable)
    BY <2>3 DEF WriteTransCtrl, Lines
  <2>4. CASE \E enable \in BOOLEAN : WriteRecvCtrl(enable)
    BY <2>4 DEF WriteRecvCtrl, Lines
  <2>5. CASE WriteTransBuffer
    BY <2>5 DEF WriteTransBuffer
  <2>6. CASE ReadRecvBuffer
    BY <2>6 DEF ReadRecvBuffer
  <2>7. CASE \E bits \in CauseWrites : WriteCause(bits)
    BY <2>7, ParametersOK DEF ParametersOK, WriteCause
  <2>8. CASE AccessUnused \/ StartRun \/ EndRun \/ Reinitialize
    BY <2>8 DEF AccessUnused, StartRun, EndRun, Reinitialize
  <2>9. CASE Type
    BY <2>9 DEF Type
  <2>10. CASE UNCHANGED vars
    BY <2>10 DEF vars
  <2> QED BY <2>1, <2>2, <2>3, <2>4, <2>5, <2>6, <2>7, <2>8, <2>9, <2>10,
             StepCases
<1> QED BY <1>1, <1>2, PTL DEF Spec

-----------------------------------------------------------------------------
(***************************************************************************)
(* Timing.  The timers agree with the history clocks: a busy transmitter   *)
(* has served exactly trans_age of its latency, and an unread character    *)
(* has been offered for what its timer has lost.                           *)
(***************************************************************************)
TransClock ==
  IF READY \in trans_control THEN trans_timer = 0 /\ trans_age > TRANS_LATENCY
                 ELSE trans_age + trans_timer = TRANS_LATENCY

RecvClock ==
  READY \in recv_control => recv_age + recv_timer >= RECV_INTERVAL

Clocks == TransClock /\ RecvClock

LEMMA ClocksInit == Init => Clocks
  BY Delays DEF READY, Init, Clocks, TransClock, RecvClock

LEMMA ClocksStep ==
  ASSUME TypeOK, Clocks, [Next]_vars
  PROVE  Clocks'
<1> USE Delays DEF TypeOK, Clocks, TransClock, RecvClock,
                         recv, trans, console, irq, READY, INT_ENABLE, ControlBits
<1>1. CASE check_memory_mapped_IO
  <2> USE <1>1 DEF check_memory_mapped_IO, Older, Takes
  <2>1. TransClock'
    BY DEF CheckTransmitter
  <2>2. RecvClock'
    BY DEF CheckReceiver, RecvTimer
  <2> QED BY <2>1, <2>2
<1>2. CASE WriteTransBuffer
  BY <1>2 DEF WriteTransBuffer
<1>3. CASE ReadRecvBuffer
  BY <1>3 DEF ReadRecvBuffer
<1>4. CASE \E enable \in BOOLEAN : WriteTransCtrl(enable)
  <2>1. READY \in trans_control' <=> READY \in trans_control
    BY <1>4 DEF WriteTransCtrl
  <2> QED BY <1>4, <2>1 DEF WriteTransCtrl
<1>7. CASE \E enable \in BOOLEAN : WriteRecvCtrl(enable)
  <2>1. READY \in recv_control' <=> READY \in recv_control
    BY <1>7 DEF WriteRecvCtrl
  <2> QED BY <1>7, <2>1 DEF WriteRecvCtrl
<1>5. CASE \/ ReadControlC \/ AccessUnused \/ Type \/ StartRun \/ EndRun
           \/ Reinitialize
           \/ \E bits \in CauseWrites : WriteCause(bits)
  BY <1>5 DEF ReadControlC, AccessUnused, Type, StartRun, EndRun, Reinitialize,
              WriteCause
<1>6. CASE UNCHANGED vars
  BY <1>6 DEF vars
<1> QED BY <1>1, <1>2, <1>3, <1>4, <1>5, <1>6, <1>7, StepCases

LEMMA ClocksInvariant == Spec => [](TypeOK /\ Clocks)
<1>1. TypeOK /\ Clocks /\ [Next]_vars => Clocks'
  BY ClocksStep
<1> QED BY <1>1, ClocksInit, Typing, PTL DEF Spec

\* Output is paced: between two characters the transmitter is busy for more
\* than TRANS_LATENCY checks, whatever runs are ended and started meanwhile.
THEOREM Pacing == Spec => OutputPaced
<1>1. TypeOK /\ Clocks /\ [Next]_vars
        => [(READY \in trans_control \ trans_control')
              => trans_age > TRANS_LATENCY]_vars
  BY DEF Clocks, TransClock
<1> QED BY <1>1, ClocksInvariant, PTL DEF Spec, OutputPaced

\* Only a check that takes a character changes the receiver's buffer.
LEMMA BufferChanges ==
  ASSUME [Next]_vars, recv_buffer' # recv_buffer
  PROVE  check_memory_mapped_IO /\ Takes
<1>1. check_memory_mapped_IO
  BY StepCases DEF ReadControlC, WriteTransCtrl, WriteRecvCtrl,
       WriteTransBuffer, ReadRecvBuffer, AccessUnused, WriteCause, Type,
       StartRun, EndRun, Reinitialize, vars, recv
<1> QED BY <1>1 DEF check_memory_mapped_IO, CheckReceiver

\* An unread character is not overwritten before its interval is over.
THEOREM LateOverwrite == Spec => OverwrittenLate
<1>1. TypeOK /\ Clocks /\ [Next]_vars
        => [(READY \in recv_control /\ recv_buffer' # recv_buffer)
              => recv_age >= RECV_INTERVAL]_vars
  BY BufferChanges, Delays
     DEF TypeOK, Clocks, RecvClock, Takes
<1> QED BY <1>1, ClocksInvariant, PTL DEF Spec, OverwrittenLate

-----------------------------------------------------------------------------
(***************************************************************************)
(* Interrupt lines.                                                        *)
(***************************************************************************)
\* With a guest that only clears Cause, as the supplied handler does, both
\* lines are exactly "READY and enabled" but for those the guest has cleared:
\* the device loses no interrupt and raises none that is spurious.
THEOREM Level ==
  ASSUME CauseWrites \subseteq {{}}
  PROVE  Spec => []LevelTriggered
<1> USE DEF LevelTriggered, RECV_INT_LEVEL, TRANS_INT_LEVEL, READY, INT_ENABLE,
            ControlBits
<1>1. Init => LevelTriggered
  BY DEF Init
<1>2. TypeOK /\ LevelTriggered /\ [Next]_vars => LevelTriggered'
  <2> SUFFICES ASSUME TypeOK, LevelTriggered, [Next]_vars
               PROVE  LevelTriggered'
    OBVIOUS
  <2> USE DEF recv, trans, console, irq
  <2>1. CASE check_memory_mapped_IO
    <3> USE <2>1 DEF check_memory_mapped_IO, TypeOK
    <3>1. RECV_INT_LEVEL \in ip' \cup cleared' <=> ControlBits \subseteq recv_control'
      BY DEF CheckReceiver, RecvRaises, TransRaises
    <3>2. TRANS_INT_LEVEL \in ip' \cup cleared' <=> ControlBits \subseteq trans_control'
      BY DEF CheckTransmitter, RecvRaises, TransRaises
    <3> QED BY <3>1, <3>2
  <2>2. CASE \E enable \in BOOLEAN : WriteTransCtrl(enable)
    <3>1. CASE WriteTransCtrl(TRUE)
      BY <3>1 DEF WriteTransCtrl, TypeOK
    <3>2. CASE WriteTransCtrl(FALSE)
      BY <3>2 DEF WriteTransCtrl, TypeOK
    <3> QED BY <2>2, <3>1, <3>2
  <2>3. CASE \E enable \in BOOLEAN : WriteRecvCtrl(enable)
    <3>1. CASE WriteRecvCtrl(TRUE)
      BY <3>1 DEF WriteRecvCtrl, TypeOK
    <3>2. CASE WriteRecvCtrl(FALSE)
      BY <3>2 DEF WriteRecvCtrl, TypeOK
    <3> QED BY <2>3, <3>1, <3>2
  <2>4. CASE WriteTransBuffer
    BY <2>4 DEF WriteTransBuffer
  <2>5. CASE ReadRecvBuffer
    BY <2>5 DEF ReadRecvBuffer
  <2>6. CASE Reinitialize \/ \E bits \in CauseWrites : WriteCause(bits)
    BY <2>6 DEF Reinitialize, WriteCause
  <2>7. CASE \/ ReadControlC \/ AccessUnused \/ Type \/ StartRun \/ EndRun
             \/ UNCHANGED vars
    BY <2>7 DEF ReadControlC, AccessUnused, Type, StartRun, EndRun, vars
  <2> QED BY <2>1, <2>2, <2>3, <2>4, <2>5, <2>6, <2>7, StepCases
<1> QED BY <1>1, <1>2, Typing, PTL DEF Spec

-----------------------------------------------------------------------------
(***************************************************************************)
(* Order.  InOrderOnce is not inductive: it holds because the buffer never *)
(* holds, while READY, a character that has been read before.              *)
(***************************************************************************)
Fresh ==
  READY \in recv_control =>
    recv_buffer >= 1 /\ \A i \in DOMAIN got : got[i] < recv_buffer

Ordered ==
  /\ recv_buffer <= taken
  /\ Fresh
  /\ \A i \in DOMAIN got : got[i] \in 1 .. recv_buffer
  /\ \A i, j \in DOMAIN got : i < j => got[i] < got[j]

LEMMA OrderedStep ==
  ASSUME TypeOK, Ordered, [Next]_vars
  PROVE  Ordered'
<1> USE DEF TypeOK, Ordered, Fresh, recv, trans, console, irq, READY, INT_ENABLE
<1>1. CASE check_memory_mapped_IO
  <2> USE <1>1 DEF check_memory_mapped_IO, CheckReceiver
  <2>1. CASE Takes
    BY <2>1
  <2>2. CASE ~Takes
    BY <2>2
  <2> QED BY <2>1, <2>2
<1>2. CASE ReadRecvBuffer
  <2> USE <1>2 DEF ReadRecvBuffer
  <2>1. CASE READY \in recv_control
    <3>1. got' = Append(got, recv_buffer)
      BY <2>1
    <3>2. DOMAIN got' = 1 .. Len(got) + 1 /\ DOMAIN got = 1 .. Len(got)
      BY <3>1
    <3>3. \A i \in DOMAIN got' :
            got'[i] = IF i = Len(got) + 1 THEN recv_buffer ELSE got[i]
      BY <3>1, <3>2
    <3>4. \A i, j \in DOMAIN got' : i < j => got'[i] < got'[j]
      BY <2>1, <3>2, <3>3
    <3>5. \A i \in DOMAIN got' : got'[i] \in 1 .. recv_buffer'
      BY <2>1, <3>2, <3>3
    <3> QED BY <3>4, <3>5
  <2>2. CASE READY \notin recv_control
    BY <2>2
  <2> QED BY <2>1, <2>2
<1>3. CASE \E enable \in BOOLEAN : WriteRecvCtrl(enable)
  BY <1>3 DEF WriteRecvCtrl
<1>4. CASE ReadControlC
  BY <1>4 DEF ReadControlC
<1>5. CASE \E enable \in BOOLEAN : WriteTransCtrl(enable)
  BY <1>5 DEF WriteTransCtrl
<1>6. CASE \E bits \in CauseWrites : WriteCause(bits)
  BY <1>6 DEF WriteCause
<1>7. CASE \/ WriteTransBuffer \/ AccessUnused \/ Type \/ StartRun \/ EndRun
           \/ Reinitialize
  BY <1>7 DEF WriteTransBuffer, AccessUnused, Type, StartRun, EndRun,
              Reinitialize
<1>8. CASE UNCHANGED vars
  BY <1>8 DEF vars
<1> QED BY <1>1, <1>2, <1>3, <1>4, <1>5, <1>6, <1>7, <1>8, StepCases

\* Characters read while READY arrive in the order typed, each at most once.
THEOREM InOrder == Spec => []InOrderOnce
<1>1. Init => Ordered
  BY DEF Init, Ordered, Fresh, READY
<1>2. TypeOK /\ Ordered /\ [Next]_vars => Ordered'
  BY OrderedStep
<1>3. TypeOK /\ Ordered => InOrderOnce
  BY DEF TypeOK, Ordered, InOrderOnce
<1> QED BY <1>1, <1>2, <1>3, Typing, PTL DEF Spec
=============================================================================
