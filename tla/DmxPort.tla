------------------------------- MODULE DmxPort -------------------------------
(***************************************************************************)
(* One DMX512 / RDM port (src/dmx/dmx.c): a SERCOM USART whose interrupt   *)
(* handler fills one of DMX_BUFFERING receive buffers and, at the same     *)
(* time, sends a frame that a task or the receive callback handed over.    *)
(* A receive buffer may itself be the frame being sent (a repeater), so    *)
(* the status marks of a buffer are written by both sides.                 *)
(*                                                                         *)
(* The interrupt handler is not pre-empted by tasks, so what it does for   *)
(* one byte is one step.  A task may be interrupted anywhere, so each      *)
(* store that xDmxSendFrame makes from a task is a step of its own.        *)
(***************************************************************************)
EXTENDS Integers, FiniteSets

CONSTANTS
  DMX_BUFFERING,           \* number of receive buffers of the port
  DMX_MAX_SLOTS,           \* slots of a frame, the start code not counted
  RDM_MINIMUMFRAMELENGTH,  \* bytes of the shortest RDM message
  breakByteCount,          \* byte times the line is held low for a break
  Bytes,                   \* the values a received byte may have
  DMX_STARTCODE,
  RDM_STARTCODE,
  Frames,                  \* buffers owned by the application
  Tasks,                   \* tasks that send frames of the application
  CallbackForwards,        \* may the callback send the buffer it is given?
  CallbackReplies,         \* what else it may pass to xDmxSendFrame
  NULL

RxBuffers == 0 .. DMX_BUFFERING - 1
Buffers   == RxBuffers \cup Frames

ASSUME SizeAssumption ==
  /\ DMX_BUFFERING \in Nat \ {0, 1}
  /\ DMX_MAX_SLOTS \in Nat \ {0}
  /\ breakByteCount \in Nat
  /\ Bytes \subseteq Nat
  \* 255 + 2 is far below 513, and the length byte is part of the minimum
  /\ \A b \in Bytes : b + 2 <= DMX_MAX_SLOTS + 1
  /\ RDM_MINIMUMFRAMELENGTH \in 3 .. DMX_MAX_SLOTS + 1
  /\ DMX_STARTCODE # RDM_STARTCODE

ASSUME UsageAssumption ==
  /\ Frames \cap RxBuffers = {}
  /\ NULL \notin Buffers
  /\ CallbackForwards \in BOOLEAN
  /\ CallbackReplies \subseteq Frames \cup {NULL}
  /\ CallbackForwards \/ CallbackReplies # {}

VARIABLES
  status,            \* read / written / valid marks of each buffer
  slotCount,         \* bytes of each buffer, the start code counted on receive
  rxState,
  currentRxBuffer,
  lastValidRxBuffer,
  messageLength,     \* rdm.messageLength of the buffer being received
  overrun,           \* history: bytes of the frame being received were lost
  txState,
  currentTxSlot,
  currentTxBuffer,
  txpin,             \* what drives the line: "usart", or the pin "low"/"high"
  txcEnabled,        \* INTENSET.TXC
  pc, frame, loaded, \* where a task is in xDmxSendFrame, and its locals
  nullDereference    \* currentRxBuffer was dereferenced while NULL

rxVars   == <<rxState, currentRxBuffer, lastValidRxBuffer, messageLength, overrun>>
txVars   == <<txState, currentTxSlot, currentTxBuffer, txpin, txcEnabled>>
taskVars == <<pc, frame, loaded>>
vars     == <<status, slotCount, rxVars, txVars, taskVars, nullDereference>>

RxStates == {"Idle", "StartCode", "Slots", "Rdm"}
TxStates == {"Idle", "Break", "Mark", "StartCode", "Slots"}
Steps    == {"idle", "load", "store", "state", "pins", "slot", "buffer", "arm"}
Status   == [read : BOOLEAN, written : BOOLEAN, valid : BOOLEAN]

Clear == [read |-> FALSE, written |-> FALSE, valid |-> FALSE]

TypeOK ==
  /\ status \in [Buffers -> Status]
  /\ slotCount \in [Buffers -> 0 .. DMX_MAX_SLOTS + 1]
  /\ rxState \in RxStates
  /\ currentRxBuffer \in RxBuffers \cup {NULL}
  /\ lastValidRxBuffer \in RxBuffers \cup {NULL}
  /\ messageLength \in Bytes \cup {0}
  /\ overrun \in BOOLEAN
  /\ txState \in TxStates
  /\ currentTxSlot \in Nat
  /\ currentTxBuffer \in Buffers \cup {NULL}
  /\ txpin \in {"usart", "low", "high"}
  /\ txcEnabled \in BOOLEAN
  /\ pc \in [Tasks -> Steps]
  /\ frame \in [Tasks -> Frames \cup {NULL}]
  /\ loaded \in [Tasks -> Status]
  /\ nullDereference \in BOOLEAN

-----------------------------------------------------------------------------
(***************************************************************************)
(* The buffer pool.                                                        *)
(***************************************************************************)

\* The first buffer of S in the order the loops of the code visit them.
First(S) == CHOOSE b \in S : \A c \in S : b <= c

\* Mutant: the pool does not look at the read mark.
Unclaimed_IgnoresRead(st) == {b \in RxBuffers : ~st[b].written}

Unclaimed(st) == {b \in RxBuffers : ~st[b].written /\ ~st[b].read}
Unused(st)    == {b \in Unclaimed(st) : ~st[b].valid}

pDmxPortGetNextBuffer(st) ==
  IF Unused(st) # {} THEN First(Unused(st))
  ELSE IF Unclaimed(st) # {} THEN First(Unclaimed(st))
  ELSE NULL

\* Mutant: a finished buffer keeps its written mark.
Finish_KeepsWritten(st, b) == [st EXCEPT ![b].valid = TRUE]

Finish(st, b) == [st EXCEPT ![b].written = FALSE, ![b].valid = TRUE]

\* The marks and the count of the buffer that was picked; its valid mark stays.
Claim(st, b) == IF b = NULL THEN st ELSE [st EXCEPT ![b].written = TRUE]
Empty(sc, b) == IF b = NULL THEN sc ELSE [sc EXCEPT ![b] = 0]

-----------------------------------------------------------------------------
(***************************************************************************)
(* xDmxInitSercom: everything cleared, the first buffer claimed.           *)
(***************************************************************************)
Init ==
  /\ status = Claim([b \in Buffers |-> Clear], 0)
  /\ slotCount = [b \in Buffers |-> IF b \in RxBuffers THEN 0 ELSE DMX_MAX_SLOTS]
  /\ rxState = "Idle"
  /\ currentRxBuffer = 0
  /\ lastValidRxBuffer = NULL
  /\ messageLength = 0
  /\ overrun = FALSE
  /\ txState = "Idle"
  /\ currentTxSlot = 0
  /\ currentTxBuffer = NULL
  /\ txpin = "usart"
  /\ txcEnabled = FALSE
  /\ pc = [t \in Tasks |-> "idle"]
  /\ frame = [t \in Tasks |-> NULL]
  /\ loaded = [t \in Tasks |-> Clear]
  /\ nullDereference = FALSE

-----------------------------------------------------------------------------
(***************************************************************************)
(* xDmxSendFrame called by the receive callback, in interrupt context: no  *)
(* task runs before it returns.  st holds the marks at the call.           *)
(***************************************************************************)
\* Mutant: the interrupt is not enabled; nobody starts the transmission.
CallbackSend_Unarmed(f, st) ==
  IF f = NULL \/ txState # "Idle"
  THEN status' = st /\ UNCHANGED txVars
  ELSE /\ status' = [st EXCEPT ![f].read = TRUE]
       /\ txState' = "Break"
       /\ txpin' = "low"
       /\ currentTxSlot' = 1
       /\ currentTxBuffer' = f
       /\ UNCHANGED txcEnabled

CallbackSend(f, st) ==
  IF f = NULL \/ txState # "Idle"
  THEN status' = st /\ UNCHANGED txVars
  ELSE /\ status' = [st EXCEPT ![f].read = TRUE]
       /\ txState' = "Break"
       /\ txpin' = "low"
       /\ currentTxSlot' = 1
       /\ currentTxBuffer' = f
       /\ txcEnabled' = TRUE

\* What the application's callback may pass to xDmxSendFrame for buffer b.
CallbackFrames(b) == CallbackReplies \cup (IF CallbackForwards THEN {b} ELSE {})

(***************************************************************************)
(* vDmxPortPushNewFrame and vDmxPortPushNewRdmMessage: they differ in the  *)
(* callback only.  sc holds the counts when the frame is complete.  The    *)
(* next buffer is picked before the callback sees the frame.               *)
(***************************************************************************)
PushFrame(sc) ==
  LET done == Finish(status, currentRxBuffer)
      next == pDmxPortGetNextBuffer(done)
  IN /\ lastValidRxBuffer' = currentRxBuffer
     /\ currentRxBuffer' = next
     /\ slotCount' = Empty(sc, next)
     /\ \E f \in CallbackFrames(currentRxBuffer) : CallbackSend(f, Claim(done, next))

\* A load or a store through currentRxBuffer while it is NULL.
Fault ==
  /\ nullDereference' = TRUE
  /\ UNCHANGED <<status, slotCount, rxVars, txVars, taskVars>>

(***************************************************************************)
(* vDmxInterruptHandler, the RXC part: one step per byte read from DATA.   *)
(* Bytes that arrive in rxState "Idle" change nothing.                     *)
(***************************************************************************)
ReceiveStartCode(data) ==
  /\ rxState = "StartCode"
  /\ IF currentRxBuffer = NULL THEN Fault
     ELSE /\ slotCount' = [slotCount EXCEPT ![currentRxBuffer] = 1]
          /\ rxState' = CASE data = DMX_STARTCODE -> "Slots"
                          [] data = RDM_STARTCODE -> "Rdm"
                          [] OTHER -> "Idle"
          /\ UNCHANGED <<status, currentRxBuffer, lastValidRxBuffer, messageLength,
                         overrun, txVars, taskVars, nullDereference>>

\* Mutant: the test for a full frame is off by one.
DmxComplete_OffByOne(n) == n > DMX_MAX_SLOTS + 1

DmxComplete(n) == n > DMX_MAX_SLOTS

\* Mutant: equality misses a message whose length byte is below the minimum.
RdmComplete_Equal(n, length) == n = length + 2 /\ n >= RDM_MINIMUMFRAMELENGTH

RdmComplete(n, length) == n >= length + 2 /\ n >= RDM_MINIMUMFRAMELENGTH

\* Without a buffer the byte is dropped (and the state is kept): a stutter.
ReceiveSlot ==
  /\ rxState = "Slots"
  /\ currentRxBuffer # NULL
  /\ LET n  == slotCount[currentRxBuffer] + 1
         sc == [slotCount EXCEPT ![currentRxBuffer] = n]
     IN IF DmxComplete(n)
        THEN PushFrame(sc) /\ rxState' = "Idle"
        ELSE /\ slotCount' = sc
             /\ UNCHANGED <<status, rxState, currentRxBuffer, lastValidRxBuffer, txVars>>
  /\ UNCHANGED <<messageLength, overrun, taskVars, nullDereference>>

ReceiveRdm(data) ==
  /\ rxState = "Rdm"
  /\ currentRxBuffer # NULL
  /\ messageLength' = IF slotCount[currentRxBuffer] = 2 THEN data ELSE messageLength
  /\ LET n  == slotCount[currentRxBuffer] + 1
         sc == [slotCount EXCEPT ![currentRxBuffer] = n]
     IN IF RdmComplete(n, messageLength')
        THEN PushFrame(sc) /\ rxState' = "Idle"
        ELSE /\ slotCount' = sc
             /\ UNCHANGED <<status, rxState, currentRxBuffer, lastValidRxBuffer, txVars>>
  /\ UNCHANGED <<overrun, taskVars, nullDereference>>

\* FERR with the line low: whatever was received so far is pushed, and the
\* next byte is a start code.  (FERR with the line high drops the byte.)
ReceiveBreak ==
  IF currentRxBuffer = NULL THEN Fault
  ELSE /\ IF slotCount[currentRxBuffer] # 0
          THEN PushFrame(slotCount)
          ELSE UNCHANGED <<status, slotCount, currentRxBuffer, lastValidRxBuffer, txVars>>
       /\ rxState' = "StartCode"
       /\ overrun' = FALSE
       /\ UNCHANGED <<messageLength, taskVars, nullDereference>>

\* BUFOVF: the flag is cleared and nothing else is done; only the history
\* remembers that the frame misses bytes.
ReceiveOverflow ==
  /\ rxState # "Idle"
  /\ overrun' = TRUE
  /\ UNCHANGED <<status, slotCount, rxState, currentRxBuffer, lastValidRxBuffer,
                 messageLength, txVars, taskVars, nullDereference>>

-----------------------------------------------------------------------------
(***************************************************************************)
(* vDmxInterruptHandler, the TXC part.  INTENSET.DRE is never set, so the  *)
(* DRE loop below it never runs.                                           *)
(***************************************************************************)
\* Mutant: the read mark of the frame is not taken back.
EndTransmission_KeepsRead ==
  /\ txcEnabled' = FALSE
  /\ txState' = "Idle"
  /\ status' = IF currentTxBuffer = NULL THEN status
               ELSE [status EXCEPT ![currentTxBuffer].valid = FALSE]

\* Mutant: the interrupt is disabled but the port is left busy.
EndTransmission_StaysBusy ==
  /\ txcEnabled' = FALSE
  /\ UNCHANGED <<txState, status>>

vDmxEndTransmission ==
  /\ txcEnabled' = FALSE
  /\ txState' = "Idle"
  /\ status' = IF currentTxBuffer = NULL THEN status
               ELSE [status EXCEPT ![currentTxBuffer].valid = FALSE,
                                   ![currentTxBuffer].read = FALSE]

TransmitBreak ==
  /\ txState = "Break"
  /\ currentTxSlot' = currentTxSlot + 1
  /\ txState' = IF currentTxSlot' >= breakByteCount THEN "Mark" ELSE "Break"
  /\ UNCHANGED <<status, currentTxBuffer, txpin, txcEnabled>>

TransmitMark ==
  /\ txState = "Mark"
  /\ txpin' = IF txpin = "usart" THEN "usart" ELSE "high"
  /\ txState' = "StartCode"
  /\ UNCHANGED <<status, currentTxSlot, currentTxBuffer, txcEnabled>>

TransmitStartCode ==
  /\ txState = "StartCode"
  /\ txpin' = "usart"
  /\ currentTxSlot' = 1
  /\ txState' = "Slots"
  /\ UNCHANGED <<status, currentTxBuffer, txcEnabled>>

\* Sends dmx[currentTxSlot], then counts.
TransmitSlot ==
  /\ txState = "Slots"
  /\ currentTxSlot' = currentTxSlot + 1
  /\ IF currentTxSlot' > slotCount[currentTxBuffer]
     THEN vDmxEndTransmission
     ELSE UNCHANGED <<status, txState, txcEnabled>>
  /\ UNCHANGED <<currentTxBuffer, txpin>>

\* The default case: a task armed the interrupt after the end of the frame.
TransmitNothing ==
  /\ txState = "Idle"
  /\ vDmxEndTransmission
  /\ UNCHANGED <<currentTxSlot, currentTxBuffer, txpin>>

TransmitComplete ==
  /\ txcEnabled
  /\ \/ TransmitBreak
     \/ TransmitMark
     \/ TransmitStartCode
     \/ TransmitSlot
     \/ TransmitNothing
  /\ UNCHANGED <<slotCount, rxVars, taskVars, nullDereference>>

-----------------------------------------------------------------------------
(***************************************************************************)
(* xDmxSendFrame called by a task, one step per store.  The read mark is a *)
(* bit of a byte: setting it is a load and a store.                        *)
(***************************************************************************)
Advance(t, from, to) ==
  /\ pc[t] = from
  /\ pc' = [pc EXCEPT ![t] = to]
  /\ UNCHANGED <<slotCount, rxVars, nullDereference>>

\* With txState # "Idle" the call returns pdFAIL and changes nothing.
SendCheck(t, f) ==
  /\ Advance(t, "idle", "load")
  /\ txState = "Idle"
  /\ frame' = [frame EXCEPT ![t] = f]
  /\ UNCHANGED <<status, txVars, loaded>>

SendLoadStatus(t) ==
  /\ Advance(t, "load", "store")
  /\ loaded' = [loaded EXCEPT ![t] = status[frame[t]]]
  /\ UNCHANGED <<status, txVars, frame>>

SendMarkRead(t) ==
  /\ Advance(t, "store", "state")
  /\ status' = [status EXCEPT ![frame[t]] = [loaded[t] EXCEPT !.read = TRUE]]
  /\ UNCHANGED <<txVars, frame, loaded>>

SendSetState(t) ==
  /\ Advance(t, "state", "pins")
  /\ txState' = "Break"
  /\ UNCHANGED <<status, currentTxSlot, currentTxBuffer, txpin, txcEnabled, frame, loaded>>

SendTakePin(t) ==
  /\ Advance(t, "pins", "slot")
  /\ txpin' = "low"
  /\ UNCHANGED <<status, txState, currentTxSlot, currentTxBuffer, txcEnabled, frame, loaded>>

SendSetSlot(t) ==
  /\ Advance(t, "slot", "buffer")
  /\ currentTxSlot' = 1
  /\ UNCHANGED <<status, txState, currentTxBuffer, txpin, txcEnabled, frame, loaded>>

SendSetBuffer(t) ==
  /\ Advance(t, "buffer", "arm")
  /\ currentTxBuffer' = frame[t]
  /\ UNCHANGED <<status, txState, currentTxSlot, txpin, txcEnabled, frame, loaded>>

SendArm(t) ==
  /\ Advance(t, "arm", "idle")
  /\ txcEnabled' = TRUE
  /\ frame' = [frame EXCEPT ![t] = NULL]
  /\ loaded' = [loaded EXCEPT ![t] = Clear]
  /\ UNCHANGED <<status, txState, currentTxSlot, currentTxBuffer, txpin>>

SendStep(t) ==
  \/ SendLoadStatus(t)
  \/ SendMarkRead(t)
  \/ SendSetState(t)
  \/ SendTakePin(t)
  \/ SendSetSlot(t)
  \/ SendSetBuffer(t)
  \/ SendArm(t)

-----------------------------------------------------------------------------
Receive ==
  \/ \E data \in Bytes : ReceiveStartCode(data)
  \/ ReceiveSlot
  \/ \E data \in Bytes : ReceiveRdm(data)
  \/ ReceiveBreak
  \/ ReceiveOverflow

Next ==
  /\ ~nullDereference
  /\ \/ Receive
     \/ TransmitComplete
     \/ \E t \in Tasks : SendStep(t) \/ \E f \in Frames : SendCheck(t, f)

\* The USART finishes every byte it was given, and a task inside
\* xDmxSendFrame is scheduled again; nobody has to send or receive.
Fairness ==
  /\ WF_vars(~nullDereference /\ TransmitComplete)
  /\ \A t \in Tasks : WF_vars(~nullDereference /\ SendStep(t))

Spec == Init /\ [][Next]_vars /\ Fairness

-----------------------------------------------------------------------------
(***************************************************************************)
(* Properties.                                                             *)
(***************************************************************************)

\* The interrupt handler never goes through a NULL currentRxBuffer
\* (dmx.c:211 and dmx.c:227 do not test it): a buffer to receive into is
\* always found although the transmitter withholds the one it sends.
NullNeverDereferenced == ~nullDereference

\* The marks on the receive buffers say what the two sides do with them:
\* "written" is on the buffer being received and nowhere else, "read" on the
\* buffer being sent and nowhere else, so that none is lost for reception.
MarksTellTheTruth ==
  \A b \in RxBuffers :
    /\ status[b].written <=> b = currentRxBuffer
    /\ status[b].read <=> txState # "Idle" /\ currentTxBuffer = b

\* The next byte of a frame is stored inside dmx[DMX_MAX_SLOTS + 1], also for
\* an RDM message whose length is taken from the message itself.
ReceiveInBounds ==
  rxState \in {"Slots", "Rdm"} /\ currentRxBuffer # NULL =>
    slotCount[currentRxBuffer] \in 1 .. DMX_MAX_SLOTS

\* A port that repeats every frame it receives never receives into the
\* buffer it is sending, whatever the two speeds are.
SentBufferNotOverwritten ==
  txState # "Idle" => currentTxBuffer # currentRxBuffer

\* The frame handed to xDmxSendFrame keeps its length until it is sent.
SentFrameStable ==
  [][txState # "Idle" /\ txState' # "Idle"
       => slotCount'[currentTxBuffer] = slotCount[currentTxBuffer]]_vars

\* A frame accepted by xDmxSendFrame comes to its end and frees the port.
TransmissionEnds == txState # "Idle" ~> txState = "Idle"

\* A port that is busy has someone to free it: a transmitter that is armed and
\* knows its frame, or a task that has still to arm it.  It is what
\* TransmissionEnds rests on: no end of one frame disarms the port under
\* another sender for good (dmx.c:180, dmx.c:327).
BusyPortIsServed ==
  txState # "Idle" =>
    \/ txcEnabled /\ currentTxBuffer # NULL
    \/ \E t \in Tasks : pc[t] \in {"pins", "slot", "buffer", "arm"}

\* A frame is pushed in the steps that start an empty buffer.
Pushes ==
  /\ currentRxBuffer # NULL
  /\ slotCount[currentRxBuffer] # 0
  /\ currentRxBuffer' # NULL => slotCount'[currentRxBuffer'] = 0

\* What dmx.c:205 says of an overflow, "Reset port since data is invalid":
\* a frame that lost bytes is not pushed to the application.
OverrunFrameDiscarded == [][Pushes => ~overrun]_vars

\* What the declaration at dmx.h:41 says of a frame, DMX_MAX_SLOTS + 1 bytes:
\* the transmitter sends no byte from behind them.
TransmitInBounds ==
  txState = "Slots" /\ txcEnabled => currentTxSlot <= DMX_MAX_SLOTS
=============================================================================
