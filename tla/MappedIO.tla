------------------------------ MODULE MappedIO ------------------------------
(***************************************************************************)
(* The memory-mapped terminal of SPIM (CPU/mem.cpp, "Memory-mapped IO      *)
(* routines"): a receiver and a transmitter of one character each, with a  *)
(* READY bit, an interrupt-enable bit and a delay timer, that drive two    *)
(* pending-interrupt bits of the Cause register.  run_spim calls           *)
(* check_memory_mapped_IO every IO_INTERVAL instructions; the guest program*)
(* reads and writes the four registers in between.                         *)
(*                                                                         *)
(* Characters are numbered in the order in which they are typed, and the   *)
(* console holds the characters taken+1 .. typed.                          *)
(***************************************************************************)
EXTENDS Integers, Sequences

CONSTANTS
  RECV_INTERVAL,  \* checks a character stays in the receiver buffer
  TRANS_LATENCY,  \* checks the transmitter is busy with a character
  MaxTyped,       \* bound: characters typed at the console
  CauseWrites,    \* sets of device IP bits the guest may leave in Cause (mtc0)
  Reinitializes   \* whether the user may reinitialize the world between runs

RECV_INT_LEVEL  == 3
TRANS_INT_LEVEL == 2
Lines == {RECV_INT_LEVEL, TRANS_INT_LEVEL}

READY      == 1
INT_ENABLE == 2
ControlBits == {READY, INT_ENABLE}

ASSUME ParametersOK ==
  /\ RECV_INTERVAL \in Nat \ {0}
  /\ TRANS_LATENCY \in Nat \ {0}
  /\ MaxTyped \in Nat
  /\ CauseWrites \subseteq SUBSET Lines
  /\ Reinitializes \in BOOLEAN

VARIABLES
  recv_control,           \* the bits set: READY, INT_ENABLE
  recv_buffer,            \* the character received last
  recv_timer,             \* recv_buffer_full_timer
  trans_control,          \* the bits set: READY, INT_ENABLE
  trans_timer,            \* trans_buffer_full_timer
  ip,                     \* the device bits of the IP field of Cause
  typed,                  \* characters typed at the console so far
  taken,                  \* characters get_console_char has read
  mode,                   \* "run" while a run_spim is in progress, else "idle"
  cleared,    \* history: lines the guest, or a reinitialization, has taken out
              \*   of Cause since the device last set or cleared them itself
  got,        \* history: the characters the guest read while READY was set
  recv_age,   \* history: checks since a character last came in
  trans_age   \* history: checks since a character last went out

recv == <<recv_control, recv_buffer, recv_timer>>
trans == <<trans_control, trans_timer>>
console == <<typed, taken>>
irq == <<ip, cleared>>
vars == <<recv, trans, irq, console, mode, got, recv_age, trans_age>>

-----------------------------------------------------------------------------
Init ==
  /\ recv_control = {} /\ recv_buffer = 0 /\ recv_timer = 0
  /\ trans_control = {READY} /\ trans_timer = 0
  /\ ip = {} /\ cleared = {}
  /\ typed = 0 /\ taken = 0
  /\ mode = "idle"
  /\ got = <<>>
  /\ recv_age = RECV_INTERVAL + 1
  /\ trans_age = TRANS_LATENCY + 1

(***************************************************************************)
(* check_memory_mapped_IO: the receiver's part, then the transmitter's.    *)
(***************************************************************************)
\* Mutant: new input waits until the guest has read the old character.
TakesWhenEmpty == recv_timer = 0 /\ READY \notin recv_control /\ taken < typed

Takes == recv_timer = 0 /\ taken < typed

Older(clock, limit) == IF clock > limit THEN clock ELSE clock + 1

\* Mutants: the timer is decremented below zero; the timer is not restarted.
RecvTimerUnguarded == recv_timer - 1
RecvTimerIdle == IF recv_timer > 0 THEN recv_timer - 1 ELSE 0

RecvTimer ==
  IF recv_timer > 0 THEN recv_timer - 1
  ELSE IF Takes THEN RECV_INTERVAL
  ELSE recv_timer

CheckReceiver ==
  /\ recv_timer' = RecvTimer
  /\ recv_control' = IF Takes THEN recv_control \cup {READY} ELSE recv_control
  /\ recv_buffer' = IF Takes THEN taken + 1 ELSE recv_buffer
  /\ taken' = IF Takes THEN taken + 1 ELSE taken
  /\ recv_age' = IF Takes THEN 0 ELSE Older(recv_age, RECV_INTERVAL)

\* Mutants: the timer never runs; READY comes back one check early.
CheckTransmitterStuck ==
  /\ trans_timer' = trans_timer
  /\ trans_control' = IF trans_timer = 0 THEN trans_control \cup {READY}
                      ELSE trans_control
  /\ trans_age' = Older(trans_age, TRANS_LATENCY)
CheckTransmitterEarly ==
  /\ trans_timer' = IF trans_timer > 1 THEN trans_timer - 1 ELSE 0
  /\ trans_control' = IF trans_timer <= 1 THEN trans_control \cup {READY}
                      ELSE trans_control
  /\ trans_age' = Older(trans_age, TRANS_LATENCY)

CheckTransmitter ==
  /\ trans_timer' = IF trans_timer > 0 THEN trans_timer - 1 ELSE trans_timer
  /\ trans_control' = IF trans_timer = 0 THEN trans_control \cup {READY}
                      ELSE trans_control
  /\ trans_age' = Older(trans_age, TRANS_LATENCY)

RecvRaises == IF Takes /\ INT_ENABLE \in recv_control THEN {RECV_INT_LEVEL} ELSE {}
TransRaises ==
  IF /\ trans_timer = 0
     /\ READY \notin trans_control
     /\ INT_ENABLE \in trans_control
  THEN {TRANS_INT_LEVEL} ELSE {}

check_memory_mapped_IO ==
  /\ mode = "run"
  /\ CheckReceiver
  /\ CheckTransmitter
  /\ ip' = ip \cup RecvRaises \cup TransRaises
  /\ cleared' = cleared \ (RecvRaises \cup TransRaises)
  /\ UNCHANGED <<typed, mode, got>>

\* The character read is ^C: control_c_seen leaves the check, and the run,
\* before the receiver and the transmitter are updated.
ReadControlC ==
  /\ mode = "run"
  /\ Takes
  /\ taken' = taken + 1
  /\ mode' = "idle"
  /\ UNCHANGED <<recv, trans, irq, typed, got, recv_age, trans_age>>

-----------------------------------------------------------------------------
(***************************************************************************)
(* write_memory_mapped_IO and read_memory_mapped_IO.                       *)
(***************************************************************************)
WriteTransCtrl(enable) ==
  /\ mode = "run"
  /\ trans_control' = IF enable THEN trans_control \cup {INT_ENABLE}
                    ELSE trans_control \ {INT_ENABLE}
  /\ ip' = IF ~enable THEN ip \ {TRANS_INT_LEVEL}
           ELSE IF READY \in trans_control THEN ip \cup {TRANS_INT_LEVEL}
           ELSE ip
  /\ cleared' = cleared \ {TRANS_INT_LEVEL}
  /\ UNCHANGED <<recv, trans_timer, console, mode, got,
                 recv_age, trans_age>>

\* Mutant: the pending interrupt survives the write.
WriteTransBufferPending ==
  /\ mode = "run"
  /\ READY \in trans_control
  /\ trans_control' = trans_control \ {READY}
  /\ trans_timer' = TRANS_LATENCY
  /\ trans_age' = 0
  /\ UNCHANGED <<recv, irq, console, mode, got, recv_age>>

\* A write to a busy transmitter is ignored.
WriteTransBuffer ==
  /\ mode = "run"
  /\ READY \in trans_control
  /\ trans_control' = trans_control \ {READY}
  /\ trans_timer' = TRANS_LATENCY
  /\ ip' = ip \ {TRANS_INT_LEVEL}
  /\ cleared' = cleared \ {TRANS_INT_LEVEL}
  /\ trans_age' = 0
  /\ UNCHANGED <<recv, console, mode, got, recv_age>>

WriteRecvCtrl(enable) ==
  /\ mode = "run"
  /\ recv_control' = IF enable THEN recv_control \cup {INT_ENABLE}
                   ELSE recv_control \ {INT_ENABLE}
  /\ ip' = IF ~enable THEN ip \ {RECV_INT_LEVEL}
           ELSE IF READY \in recv_control THEN ip \cup {RECV_INT_LEVEL}
           ELSE ip
  /\ cleared' = cleared \ {RECV_INT_LEVEL}
  /\ UNCHANGED <<recv_buffer, recv_timer, trans, console, mode,
                 got, recv_age, trans_age>>

\* Mutant: READY survives the read.
ReadRecvBufferReady ==
  /\ mode = "run"
  /\ recv_timer' = 0
  /\ ip' = ip \ {RECV_INT_LEVEL}
  /\ cleared' = cleared \ {RECV_INT_LEVEL}
  /\ got' = IF READY \in recv_control /\ Len(got) <= MaxTyped
            THEN Append(got, recv_buffer) ELSE got
  /\ UNCHANGED <<recv_control, recv_buffer, trans, console, mode,
                 recv_age, trans_age>>

ReadRecvBuffer ==
  /\ mode = "run"
  /\ recv_control' = recv_control \ {READY}
  /\ recv_timer' = 0
  /\ ip' = ip \ {RECV_INT_LEVEL}
  /\ cleared' = cleared \ {RECV_INT_LEVEL}
  /\ got' = IF READY \in recv_control THEN Append(got, recv_buffer) ELSE got
  /\ UNCHANGED <<recv_buffer, trans, console, mode, recv_age,
                 trans_age>>

\* An access to an unused address of the IO area is a run_error.
AccessUnused ==
  /\ mode = "run"
  /\ mode' = "idle"
  /\ UNCHANGED <<recv, trans, irq, console, got, recv_age, trans_age>>

\* mtc0 to the Cause register stores the IP bits as the program gives them.
WriteCause(bits) ==
  /\ mode = "run"
  /\ ip' = bits
  /\ cleared' = (cleared \cup ip) \ bits
  /\ UNCHANGED <<recv, trans, console, mode, got, recv_age, trans_age>>

-----------------------------------------------------------------------------
(***************************************************************************)
(* The user: typing, starting and ending runs, and initialize_world, which *)
(* clears Cause but has no access to the device's variables.               *)
(***************************************************************************)
Type ==
  /\ typed < MaxTyped
  /\ typed' = typed + 1
  /\ UNCHANGED <<recv, trans, irq, taken, mode, got, recv_age, trans_age>>

StartRun ==
  /\ mode = "idle"
  /\ mode' = "run"
  /\ UNCHANGED <<recv, trans, irq, console, got, recv_age, trans_age>>

EndRun ==
  /\ mode = "run"
  /\ mode' = "idle"
  /\ UNCHANGED <<recv, trans, irq, console, got, recv_age, trans_age>>

Reinitialize ==
  /\ Reinitializes /\ mode = "idle"
  /\ ip' = {}
  /\ cleared' = cleared \cup ip
  /\ UNCHANGED <<recv, trans, console, mode, got, recv_age, trans_age>>

Device == check_memory_mapped_IO \/ ReadControlC

Guest ==
  \/ \E enable \in BOOLEAN : WriteTransCtrl(enable) \/ WriteRecvCtrl(enable)
  \/ WriteTransBuffer
  \/ ReadRecvBuffer
  \/ AccessUnused
  \/ \E bits \in CauseWrites : WriteCause(bits)

User == Type \/ StartRun \/ EndRun \/ Reinitialize

Next == Device \/ Guest \/ User

\* run_spim checks the device as long as it runs.
Fairness == WF_vars(check_memory_mapped_IO)

Spec == Init /\ [][Next]_vars /\ Fairness

-----------------------------------------------------------------------------
(* Properties. *)

\* Type invariant.
TypeOK ==
  /\ recv_control \subseteq ControlBits
  /\ recv_buffer \in Nat /\ recv_timer \in 0 .. RECV_INTERVAL
  /\ trans_control \subseteq ControlBits
  /\ trans_timer \in 0 .. TRANS_LATENCY
  /\ ip \subseteq Lines /\ cleared \subseteq Lines
  /\ typed \in Nat /\ taken \in 0 .. typed
  /\ mode \in {"run", "idle"}
  /\ got \in Seq(Nat)
  /\ recv_age \in Nat /\ trans_age \in Nat

\* Both device interrupts are level triggered, whatever the order of checks,
\* enables, reads and writes (the RAISE_INTERRUPT and CLEAR_INTERRUPT calls of
\* the three IO functions): a device that is READY with its interrupt enabled
\* has its line pending, unless the guest itself has cleared it in Cause, and
\* no other line is pending.
LevelTriggered ==
  /\ RECV_INT_LEVEL \in ip \cup cleared <=> ControlBits \subseteq recv_control
  /\ TRANS_INT_LEVEL \in ip \cup cleared <=> ControlBits \subseteq trans_control

\* A guest that reads the receiver only when READY sees the characters in the
\* order typed, none of them twice and none it was not sent.
InOrderOnce ==
  /\ \A i, j \in DOMAIN got : i < j => got[i] < got[j]
  /\ \A i \in DOMAIN got : got[i] \in 1 .. taken

\* A character that is lost in the receiver buffer (overwritten unread) had
\* been offered for more than RECV_INTERVAL checks: the promise of spim.h,
\* "Number of IO_INTERVALs that a character remains in receiver buffer, even
\* if another character is available".
OverwrittenLate ==
  [][(READY \in recv_control /\ recv_buffer' # recv_buffer)
       => recv_age >= RECV_INTERVAL]_vars

\* Two characters leave the transmitter more than TRANS_LATENCY checks apart,
\* across interrupted and restarted runs.
OutputPaced ==
  [][(READY \in trans_control \ trans_control')
       => trans_age > TRANS_LATENCY]_vars

\* While the run goes on a busy transmitter becomes ready again.
TransmitterRecovers ==
  READY \notin trans_control ~> READY \in trans_control \/ mode = "idle"

\* While the run goes on every character typed is taken from the console, read
\* by the guest or not.
InputTaken ==
  \A k \in 1 .. MaxTyped : typed >= k ~> taken >= k \/ mode = "idle"
=============================================================================
