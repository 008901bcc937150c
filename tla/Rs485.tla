-------------------------------- MODULE Rs485 --------------------------------
(***************************************************************************)
(* The RS485 driver of src/comm/rs485.c on a half-duplex bus.  A task      *)
(* hands a message to xRs485SendMessage, which writes the first byte,      *)
(* arms the DRE interrupt and waits for a notification; the interrupt      *)
(* handler writes the rest, and when the last byte has left it releases    *)
(* the bus, gives the pin back to the receiver and notifies the task.      *)
(* While nothing is sent, the handler collects frames of the other         *)
(* stations: a byte with the address mark starts a frame, and the byte     *)
(* that fills the buffer copies it to a queue.                             *)
(*                                                                         *)
(* The task may be interrupted between any two of its stores.  The parts   *)
(* of vRs485InterruptHandler are actions of their own: a flag that rises   *)
(* after its part was passed makes the next run of the handler.            *)
(***************************************************************************)
EXTENDS Integers

CONSTANTS
  Sizes,         \* sizes of the messages the task sends
  rxBufferSize,
  FrameLengths,  \* lengths of the frames other stations send
  QueueLength,   \* frames rxQueue holds
  MaxErrors,     \* bytes of other stations that are lost or received in error
  NONE

ASSUME SizeAssumption ==
  /\ Sizes \subseteq Nat \ {0}
  /\ rxBufferSize \in Nat \ {0}
  /\ FrameLengths \subseteq Nat \ {0}
  /\ QueueLength \in Nat \ {0}
  /\ MaxErrors \in Nat

VARIABLES
  pc,                 \* where the task is in xRs485SendMessage
  result,             \* what xTaskNotifyWait returned
  timedOut,           \* history: some call has timed out
  message,            \* status->txBuffer: which of two messages
  txBufferSize,
  txBufferIndex,
  notified,           \* the task's notification is pending
  txen,               \* CTRLB.TXEN, drives the bus
  rxpin,              \* the receive pin: "usart" or "off"
  dreEnabled,         \* INTENSET.DRE
  txcEnabled,         \* INTENSET.TXC
  data,               \* the DATA register; NONE when INTFLAG.DRE is set
  shift,              \* the shift register
  txc,                \* INTFLAG.TXC
  sent,               \* history: bytes of the message that left, in order
  rxBuffer,
  rxBufferIndex,
  queued,             \* frames waiting in rxQueue; their bytes are left out
  peer,               \* the frame another station is sending
  errors,
  spoilt              \* history: the frame on the bus has an error that counting cannot show

sendVars == <<pc, result, timedOut, message, txBufferSize>>
txVars   == <<txBufferIndex, notified, txen, rxpin, dreEnabled, txcEnabled>>
usart    == <<data, shift, txc, sent>>
rxVars   == <<rxBuffer, rxBufferIndex, queued, peer, errors, spoilt>>
vars     == <<sendVars, txVars, usart, rxVars>>

Steps == {"idle", "size", "index", "txen", "pin", "data", "flag", "arm", "wait", "clear"}

\* A byte on the bus: the message or frame it belongs to, and its place.
Byte == [of : 0 .. 1, at : Nat]

ASSUME NoneAssumption == NONE \notin Byte

TypeOK ==
  /\ pc \in Steps
  /\ result \in BOOLEAN /\ timedOut \in BOOLEAN
  /\ message \in 0 .. 1
  /\ txBufferSize \in Nat /\ txBufferIndex \in Nat
  /\ notified \in BOOLEAN
  /\ txen \in BOOLEAN
  /\ rxpin \in {"usart", "off"}
  /\ dreEnabled \in BOOLEAN /\ txcEnabled \in BOOLEAN
  /\ data \in Byte \cup {NONE} /\ shift \in Byte \cup {NONE}
  /\ txc \in BOOLEAN
  /\ sent \in Nat
  /\ rxBuffer \in [0 .. rxBufferSize - 1 -> Byte \cup {NONE}]
  /\ rxBufferIndex \in 0 .. rxBufferSize + 1
  /\ queued \in 0 .. QueueLength
  /\ peer \in [of : 0 .. 1, at : Nat, length : FrameLengths \cup {0}]
  /\ errors \in 0 .. MaxErrors
  /\ spoilt \in BOOLEAN

-----------------------------------------------------------------------------
(***************************************************************************)
(* xRs485Init leaves the receiver on and the transmitter off.              *)
(***************************************************************************)
Init ==
  /\ pc = "idle" /\ result = FALSE /\ timedOut = FALSE
  /\ message = 0 /\ txBufferSize = 0 /\ txBufferIndex = 0
  /\ notified = FALSE
  /\ txen = FALSE /\ rxpin = "usart"
  /\ dreEnabled = FALSE /\ txcEnabled = FALSE
  /\ data = NONE /\ shift = NONE /\ txc = FALSE /\ sent = 0
  /\ rxBuffer = [i \in 0 .. rxBufferSize - 1 |-> NONE]
  /\ rxBufferIndex = 0
  /\ queued = 0
  /\ peer = [of |-> 0, at |-> 0, length |-> 0]
  /\ errors = 0 /\ spoilt = FALSE

-----------------------------------------------------------------------------
(***************************************************************************)
(* The USART.                                                              *)
(***************************************************************************)
\* A store to DATA clears TXC and moves on at once to an idle shift register.
WriteData(b) ==
  /\ IF shift = NONE THEN shift' = b /\ data' = NONE
                     ELSE data' = b /\ UNCHANGED shift
  /\ txc' = FALSE

ShiftOut ==
  /\ shift # NONE
  /\ sent' = IF shift = [of |-> message, at |-> sent] THEN sent + 1 ELSE sent
  /\ shift' = data
  /\ data' = NONE
  /\ txc' = (data = NONE)
  /\ UNCHANGED <<sendVars, txVars, rxVars>>

-----------------------------------------------------------------------------
(***************************************************************************)
(* xRs485SendMessage, one step per store.                                  *)
(***************************************************************************)
Advance(from, to) ==
  /\ pc = from
  /\ pc' = to
  /\ UNCHANGED <<timedOut, rxVars>>

\* status->txBuffer = message.  A caller respects the bus: it does not start
\* in the middle of another station's frame.
SendMessage ==
  /\ Advance("idle", "size")
  /\ peer.at = 0
  /\ message' = 1 - message
  /\ sent' = 0
  /\ UNCHANGED <<result, txBufferSize, txVars, data, shift, txc>>

SetSize ==
  /\ Advance("size", "index")
  /\ txBufferSize' \in Sizes
  /\ UNCHANGED <<result, message, txVars, usart>>

SetIndex ==
  /\ Advance("index", "txen")
  /\ txBufferIndex' = 1
  /\ UNCHANGED <<result, message, txBufferSize, notified, txen, rxpin, dreEnabled, txcEnabled, usart>>

EnableTransmitter ==
  /\ Advance("txen", "pin")
  /\ txen' = TRUE
  /\ UNCHANGED <<result, message, txBufferSize, txBufferIndex, notified, rxpin, dreEnabled, txcEnabled, usart>>

TakeReceivePin ==
  /\ Advance("pin", "data")
  /\ rxpin' = "off"
  /\ UNCHANGED <<result, message, txBufferSize, txBufferIndex, notified, txen, dreEnabled, txcEnabled, usart>>

WriteFirstByte ==
  /\ Advance("data", "flag")
  /\ WriteData([of |-> message, at |-> 0])
  /\ UNCHANGED <<result, message, txBufferSize, txVars, sent>>

ClearTxc ==
  /\ Advance("flag", "arm")
  /\ txc' = FALSE
  /\ UNCHANGED <<result, message, txBufferSize, txVars, data, shift, sent>>

ArmDre ==
  /\ Advance("arm", "wait")
  /\ dreEnabled' = TRUE
  /\ UNCHANGED <<result, message, txBufferSize, txBufferIndex, notified, txen, rxpin, txcEnabled, usart>>

\* xTaskNotifyWait: a notification that is already pending ends it at once.
WaitNotified ==
  /\ Advance("wait", "clear")
  /\ notified
  /\ notified' = FALSE
  /\ result' = TRUE
  /\ UNCHANGED <<message, txBufferSize, txBufferIndex, txen, rxpin, dreEnabled, txcEnabled, usart>>

WaitTimedOut ==
  /\ pc = "wait" /\ pc' = "clear"
  /\ ~notified
  /\ timedOut' = TRUE
  /\ result' = FALSE
  /\ UNCHANGED <<message, txBufferSize, txVars, usart, rxVars>>

\* INTENCLR is given TXC || DRE, a logical or: 1, the bit of DRE alone.
ClearInterrupts ==
  /\ Advance("clear", "idle")
  /\ dreEnabled' = FALSE
  /\ UNCHANGED <<result, message, txBufferSize, txBufferIndex, notified, txen, rxpin, txcEnabled, usart>>

SendStep ==
  \/ SetSize
  \/ SetIndex
  \/ EnableTransmitter
  \/ TakeReceivePin
  \/ WriteFirstByte
  \/ ClearTxc
  \/ ArmDre
  \/ WaitNotified
  \/ ClearInterrupts

-----------------------------------------------------------------------------
(***************************************************************************)
(* vRs485InterruptHandler.                                                 *)
(***************************************************************************)
\* Mutant: after the last byte nobody waits for the line to fall silent.
InterruptDre_WithoutTxc ==
  /\ dreEnabled /\ data = NONE
  /\ IF txBufferIndex < txBufferSize
     THEN WriteData([of |-> message, at |-> txBufferIndex]) /\ txBufferIndex' = txBufferIndex + 1
     ELSE UNCHANGED <<data, shift, txc, txBufferIndex>>
  /\ dreEnabled' = (txBufferIndex' < txBufferSize)
  /\ UNCHANGED <<txcEnabled, sendVars, notified, txen, rxpin, sent, rxVars>>

InterruptDre ==
  /\ dreEnabled /\ data = NONE
  /\ IF txBufferIndex < txBufferSize
     THEN WriteData([of |-> message, at |-> txBufferIndex]) /\ txBufferIndex' = txBufferIndex + 1
     ELSE UNCHANGED <<data, shift, txc, txBufferIndex>>
  /\ IF txBufferIndex' >= txBufferSize
     THEN dreEnabled' = FALSE /\ txcEnabled' = TRUE
     ELSE UNCHANGED <<dreEnabled, txcEnabled>>
  /\ UNCHANGED <<sendVars, notified, txen, rxpin, sent, rxVars>>

\* Mutant: the index is not compared once more.
InterruptTxc_AnyByte ==
  /\ txcEnabled /\ txc
  /\ txc' = FALSE
  /\ dreEnabled' = FALSE
  /\ txen' = FALSE
  /\ rxpin' = "usart"
  /\ notified' = TRUE
  /\ UNCHANGED <<sendVars, txBufferIndex, txcEnabled, data, shift, sent, rxVars>>

\* TXC is left over from an earlier message while the first byte leaves: then
\* only the flag is cleared.  The logical or of ClearInterrupts is here too.
InterruptTxc ==
  /\ txcEnabled /\ txc
  /\ ~(dreEnabled /\ data = NONE)   \* that part of the handler comes first
  /\ txc' = FALSE
  /\ IF txBufferIndex >= txBufferSize
     THEN /\ dreEnabled' = FALSE
          /\ txen' = FALSE
          /\ rxpin' = "usart"
          /\ notified' = TRUE
     ELSE UNCHANGED <<dreEnabled, txen, rxpin, notified>>
  /\ UNCHANGED <<sendVars, txBufferIndex, txcEnabled, data, shift, sent, rxVars>>

\* Mutant: the address mark does not restart the frame.
StartIndex_KeepsOn(mark) == rxBufferIndex

StartIndex(mark) == IF mark THEN 0 ELSE rxBufferIndex

\* Mutant: the index goes on counting behind a full buffer.
ReceiveByte_GoesOn(b, mark) ==
  LET i == StartIndex(mark)
  IN /\ rxBuffer' = IF i < rxBufferSize THEN [rxBuffer EXCEPT ![i] = b] ELSE rxBuffer
     /\ rxBufferIndex' = i + 1
     /\ queued' = IF i + 1 = rxBufferSize /\ queued < QueueLength THEN queued + 1 ELSE queued

\* The RXC part: the queue copies the buffer, or drops it when it is full, and
\* the index is moved past the end so that later bytes are ignored.
ReceiveByte(b, mark) ==
  LET i == StartIndex(mark)
      n == IF i < rxBufferSize THEN i + 1 ELSE i
  IN /\ rxBuffer' = IF i < rxBufferSize THEN [rxBuffer EXCEPT ![i] = b] ELSE rxBuffer
     /\ rxBufferIndex' = IF n = rxBufferSize THEN n + 1 ELSE n
     /\ queued' = IF n = rxBufferSize /\ queued < QueueLength THEN queued + 1 ELSE queued

-----------------------------------------------------------------------------
(***************************************************************************)
(* The other stations.  They respect the bus too, and are silent while the *)
(* task sends.  The first byte of a frame carries the address mark.        *)
(***************************************************************************)
\* The frame on the bus after one more byte of a frame of n bytes.
NextByte(n) ==
  IF peer.at + 1 = n THEN [of |-> 1 - peer.of, at |-> 0, length |-> 0]
  ELSE [of |-> peer.of, at |-> peer.at + 1, length |-> n]

OnBus(n) ==
  /\ pc = "idle"
  /\ IF peer.at = 0 THEN n \in FrameLengths ELSE n = peer.length
  /\ peer' = NextByte(n)
  /\ UNCHANGED <<sendVars, txVars, usart>>

\* The byte at peer.at, heard as it was sent.  With it a frame begins anew.
PeerByte ==
  \E n \in FrameLengths :
    /\ OnBus(n)
    /\ IF rxpin = "usart"
       THEN /\ ReceiveByte([of |-> peer.of, at |-> peer.at], peer.at = 0)
            /\ spoilt' = (spoilt /\ peer.at # 0)
       ELSE UNCHANGED <<rxBuffer, rxBufferIndex, queued, spoilt>>
    /\ UNCHANGED errors

\* Two losses go unnoticed: one from a frame longer than the buffer, whose
\* next bytes take its place, and that of an address byte while an unfinished
\* frame is in the buffer, which the bytes behind it then go on with.
Unnoticed(n) ==
  \/ n > rxBufferSize
  \/ peer.at = 0 /\ rxBufferIndex \in 1 .. rxBufferSize - 1

\* BUFOVF: the error loop clears the flags, and the byte is not in DATA.
LoseByte ==
  \E n \in FrameLengths :
    /\ OnBus(n)
    /\ errors < MaxErrors
    /\ errors' = errors + 1
    /\ spoilt' = ((spoilt /\ peer.at # 0) \/ Unnoticed(n))
    /\ UNCHANGED <<rxBuffer, rxBufferIndex, queued>>

\* PERR or FERR: the flags are cleared just so, and the byte that is read from
\* DATA is taken for good, whatever it and its address mark have become.
GarbleByte ==
  \E n \in FrameLengths, b \in {[of |-> peer.of, at |-> peer.at], NONE}, mark \in BOOLEAN :
    /\ OnBus(n)
    /\ rxpin = "usart"
    /\ errors < MaxErrors
    /\ errors' = errors + 1
    /\ spoilt' = TRUE
    /\ ReceiveByte(b, mark)

\* The application takes a frame from rxQueue.
TakeFrame ==
  /\ queued > 0
  /\ queued' = queued - 1
  /\ UNCHANGED <<sendVars, txVars, usart, rxBuffer, rxBufferIndex, peer, errors, spoilt>>

-----------------------------------------------------------------------------
Next ==
  \/ SendMessage
  \/ SendStep
  \/ WaitTimedOut
  \/ ShiftOut
  \/ InterruptDre
  \/ InterruptTxc
  \/ PeerByte
  \/ LoseByte
  \/ GarbleByte
  \/ TakeFrame

\* The USART shifts what it has, enabled interrupts are taken, a task inside
\* the call is scheduled again.  No call has to time out.
Fairness ==
  /\ WF_vars(ShiftOut)
  /\ WF_vars(InterruptDre)
  /\ WF_vars(InterruptTxc)
  /\ WF_vars(SendStep)

Spec == Init /\ [][Next]_vars /\ Fairness

-----------------------------------------------------------------------------
(***************************************************************************)
(* Properties.                                                             *)
(***************************************************************************)

\* When xRs485SendMessage is about to return pdPASS, every byte of the message
\* has left in order, the bus is released and the receiver listens again:
\* for a port on which no call has timed out (rs485.c:198), and although the
\* TXC interrupt stays enabled from one message to the next (rs485.c:251).
SuccessMeansSent ==
  pc = "clear" /\ result /\ ~timedOut =>
    /\ sent = txBufferSize
    /\ shift = NONE /\ data = NONE
    /\ ~txen /\ rxpin = "usart"

\* With no time-out at all a message of two bytes or more comes to its end:
\* the chain of DRE and TXC interrupts is not broken by the order in which
\* the task arms them (rs485.c:194-197).  A message of one byte can be: its
\* TXC flag may be cleared after it was set for good.
SendReturns ==
  pc = "wait" /\ txBufferSize > 1 /\ ~timedOut ~> pc # "wait"

\* Until it is notified something is left that serves the waiting task: the
\* USART has a byte to shift, or an interrupt is due that is enabled.  It is
\* what SendReturns rests on: no interrupt that the task is waiting for is
\* cleared or disabled before it was taken (rs485.c:194-197, 238-258).
SenderIsServed ==
  pc = "wait" /\ txBufferSize > 1 /\ ~timedOut /\ ~notified =>
    shift # NONE \/ (dreEnabled /\ data = NONE) \/ (txcEnabled /\ txc)

\* What the handler copies to rxQueue is the frame another station is sending,
\* from its address byte on and without a byte of an earlier one, and it is
\* copied once, whatever became of the frames before it, and although bytes of
\* it were lost to an overflow (rs485.c:224-235): unless one of its own bytes
\* was received in error or lost unnoticed.
Frame(f) == [i \in 0 .. rxBufferSize - 1 |-> [of |-> f, at |-> i]]

FramesWhole ==
  [][queued' > queued /\ ~timedOut /\ ~spoilt' =>
       rxBuffer' = Frame(peer.of) /\ peer.at = rxBufferSize - 1]_vars

\* What the two INTENCLR stores name, SERCOM_USART_INTENCLR_TXC and
\* SERCOM_USART_INTENCLR_DRE (rs485.c:200 and 251): after the call neither
\* transmit interrupt is enabled.
DisarmedOnReturn ==
  [][pc = "clear" /\ pc' = "idle" => ~txcEnabled' /\ ~dreEnabled']_vars
=============================================================================
