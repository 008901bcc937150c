----------------------------- MODULE Rs485_proofs -----------------------------
(***************************************************************************)
(* Proofs about the RS485 driver: types, what a successful call of         *)
(* xRs485SendMessage means, that a waiting call is served, and what the    *)
(* handler copies to rxQueue, for messages, frames and buffers of every    *)
(* size.                                                                   *)
(***************************************************************************)
EXTENDS Rs485, TLAPS

(***************************************************************************)
(* The inductive invariant.  The task and the interrupt handler hand the   *)
(* message over to each other three times (first byte, DRE, TXC); each     *)
(* part says who has it.                                                   *)
(***************************************************************************)
\* Before the first byte: nothing is on its way and no interrupt is due.
Quiet ==
  /\ data = NONE /\ shift = NONE /\ ~txc
  /\ ~dreEnabled /\ ~notified

\* The bytes below txBufferIndex are with the USART, in order; those it has
\* no more are counted in sent.
InOrder ==
  /\ shift # NONE => shift = [of |-> message, at |-> sent]
  /\ data # NONE => shift # NONE /\ data = [of |-> message, at |-> sent + 1]
  /\ txBufferIndex = sent + (IF shift = NONE THEN 0 ELSE 1) + (IF data = NONE THEN 0 ELSE 1)
  /\ txc => shift = NONE
  /\ txBufferIndex <= txBufferSize

\* The message is on its way.
Running ==
  /\ InOrder
  /\ txen /\ rxpin = "off"
  /\ ~notified

\* The last byte has left and the bus is released.
Released ==
  /\ data = NONE /\ shift = NONE /\ ~txc
  /\ ~txen /\ rxpin = "usart"
  /\ sent = txBufferSize /\ txBufferIndex = txBufferSize

SendInv ==
  ~timedOut =>
    /\ pc \in {"index", "txen", "pin", "data", "flag", "arm", "wait", "clear"}
         => (pc = "index" \/ txBufferIndex >= 1) /\ txBufferSize >= 1
    /\ pc \in {"idle", "size", "index", "txen", "pin", "data"} => Quiet
    /\ pc \in {"size", "index", "txen", "pin", "data"} => sent = 0
    /\ pc \in {"txen", "pin", "data"} => txBufferIndex = 1
    /\ pc \in {"pin", "data"} => txen
    /\ pc \in {"idle", "size", "index", "txen", "pin"} => rxpin = "usart"
    /\ pc = "data" => rxpin = "off"
    /\ pc \in {"flag", "arm", "wait"} => Running \/ (Released /\ notified)
    /\ pc \in {"flag", "arm"} => ~dreEnabled
    /\ pc = "clear" => result /\ Released /\ ~notified

\* A message of two bytes or more, up to the notification: DRE stays armed as
\* long as bytes are left to write, and then TXC is, and comes after them.
WakeInv ==
  ~timedOut /\ ~notified /\ txBufferSize > 1 =>
    /\ pc \in {"flag", "arm"} => txBufferIndex < txBufferSize
    /\ pc = "wait" /\ dreEnabled => txBufferIndex < txBufferSize
    /\ pc = "wait" /\ ~dreEnabled =>
         /\ txBufferIndex = txBufferSize
         /\ txcEnabled
         /\ shift # NONE \/ txc

\* The buffer holds the frame on the bus as far as it has been heard.
Whole ==
  /\ rxBufferIndex = IF peer.at < rxBufferSize THEN peer.at ELSE rxBufferSize + 1
  /\ \A i \in 0 .. rxBufferSize - 1 :
       i < peer.at => rxBuffer[i] = [of |-> peer.of, at |-> i]

\* Some byte of it was lost, and the rest of it cannot fill the buffer.
Damaged ==
  /\ peer.length <= rxBufferSize
  /\ rxBufferIndex < peer.at \/ rxBufferIndex = rxBufferSize + 1

\* Only this part holds after a time-out and while the frame is spoilt.
BusInv ==
  /\ rxBufferIndex # rxBufferSize
  /\ peer.at > 0 => peer.length \in FrameLengths /\ peer.at < peer.length

FrameInv ==
  /\ BusInv
  /\ ~timedOut /\ ~spoilt /\ peer.at > 0 => Whole \/ Damaged

IInv == TypeOK /\ SendInv /\ WakeInv /\ FrameInv

USE SizeAssumption, NoneAssumption DEF Byte

-----------------------------------------------------------------------------
(***************************************************************************)
(* Types.                                                                  *)
(***************************************************************************)
LEMMA NoneIsNoByte ==
  ASSUME NEW m \in 0 .. 1, NEW n \in Nat
  PROVE  [of |-> m, at |-> n] # NONE /\ [of |-> m, at |-> n] \in Byte
  OBVIOUS

LEMMA InitType == Init => TypeOK
<1> SUFFICES ASSUME Init PROVE TypeOK
  OBVIOUS
<1>1. rxBuffer \in [0 .. rxBufferSize - 1 -> Byte \cup {NONE}]
  BY DEF Init
<1>2. peer \in [of : 0 .. 1, at : Nat, length : FrameLengths \cup {0}]
  BY DEF Init
<1>3. /\ rxBufferIndex \in 0 .. rxBufferSize + 1
      /\ queued \in 0 .. QueueLength /\ errors \in 0 .. MaxErrors
  BY DEF Init
<1> QED
  BY <1>1, <1>2, <1>3 DEF Init, TypeOK, Steps

LEMMA WriteDataType ==
  ASSUME TypeOK, NEW b \in Byte, WriteData(b)
  PROVE  data' \in Byte \cup {NONE} /\ shift' \in Byte \cup {NONE} /\ txc' \in BOOLEAN
  BY DEF TypeOK, WriteData

LEMMA ReceiveType ==
  ASSUME TypeOK, NEW b \in Byte \cup {NONE}, NEW mark, ReceiveByte(b, mark)
  PROVE  /\ rxBuffer' \in [0 .. rxBufferSize - 1 -> Byte \cup {NONE}]
         /\ rxBufferIndex' \in 0 .. rxBufferSize + 1
         /\ queued' \in 0 .. QueueLength
<1>1. StartIndex(mark) \in 0 .. rxBufferSize + 1
  BY DEF TypeOK, StartIndex
<1>2. rxBuffer' \in [0 .. rxBufferSize - 1 -> Byte \cup {NONE}]
  BY <1>1 DEF TypeOK, ReceiveByte
<1>3. rxBufferIndex' \in 0 .. rxBufferSize + 1
  BY <1>1 DEF TypeOK, ReceiveByte
<1>4. queued' \in 0 .. QueueLength
  BY <1>1 DEF TypeOK, ReceiveByte
<1> QED
  BY <1>2, <1>3, <1>4

LEMMA BusType ==
  ASSUME TypeOK, NEW n \in FrameLengths, OnBus(n)
  PROVE  peer' \in [of : 0 .. 1, at : Nat, length : FrameLengths \cup {0}]
  BY DEF TypeOK, OnBus, NextByte

LEMMA NextType ==
  ASSUME TypeOK, [Next]_vars
  PROVE  TypeOK'
<1>1. CASE SendMessage
  BY <1>1 DEF TypeOK, SendMessage, Advance, Steps, rxVars, txVars
<1>2. CASE SetSize
  BY <1>2 DEF TypeOK, SetSize, Advance, Steps, rxVars, txVars, usart
<1>3. CASE SetIndex
  BY <1>3 DEF TypeOK, SetIndex, Advance, Steps, rxVars, usart
<1>4. CASE EnableTransmitter
  BY <1>4 DEF TypeOK, EnableTransmitter, Advance, Steps, rxVars, usart
<1>5. CASE TakeReceivePin
  BY <1>5 DEF TypeOK, TakeReceivePin, Advance, Steps, rxVars, usart
<1>6. CASE WriteFirstByte
  <2>1. [of |-> message, at |-> 0] \in Byte
    BY DEF TypeOK
  <2>2. /\ data' \in Byte \cup {NONE} /\ shift' \in Byte \cup {NONE}
        /\ txc' \in BOOLEAN
    BY <1>6, <2>1, WriteDataType DEF WriteFirstByte
  <2> QED
    BY <1>6, <2>2 DEF TypeOK, WriteFirstByte, Advance, Steps, rxVars, txVars
<1>7. CASE ClearTxc
  BY <1>7 DEF TypeOK, ClearTxc, Advance, Steps, rxVars, txVars
<1>8. CASE ArmDre
  BY <1>8 DEF TypeOK, ArmDre, Advance, Steps, rxVars, usart
<1>9. CASE WaitNotified
  BY <1>9 DEF TypeOK, WaitNotified, Advance, Steps, rxVars, usart
<1>10. CASE ClearInterrupts
  BY <1>10 DEF TypeOK, ClearInterrupts, Advance, Steps, rxVars, usart
<1>11. CASE WaitTimedOut
  BY <1>11 DEF TypeOK, WaitTimedOut, Steps, rxVars, txVars, usart
<1>12. CASE ShiftOut
  BY <1>12 DEF TypeOK, ShiftOut, sendVars, rxVars, txVars
<1>13. CASE InterruptDre
  <2>1. /\ data' \in Byte \cup {NONE} /\ shift' \in Byte \cup {NONE}
        /\ txc' \in BOOLEAN /\ txBufferIndex' \in Nat
    <3>1. CASE txBufferIndex < txBufferSize
      <4>1. [of |-> message, at |-> txBufferIndex] \in Byte
        BY DEF TypeOK
      <4> QED
        BY <1>13, <3>1, <4>1, WriteDataType DEF TypeOK, InterruptDre
    <3>2. CASE ~(txBufferIndex < txBufferSize)
      BY <1>13, <3>2 DEF TypeOK, InterruptDre
    <3> QED
      BY <3>1, <3>2
  <2>2. dreEnabled' \in BOOLEAN /\ txcEnabled' \in BOOLEAN
    BY <1>13 DEF TypeOK, InterruptDre
  <2> QED
    BY <1>13, <2>1, <2>2 DEF TypeOK, InterruptDre, sendVars, rxVars
<1>14. CASE InterruptTxc
  BY <1>14 DEF TypeOK, InterruptTxc, sendVars, rxVars
<1>15. CASE PeerByte
  <2>1. PICK n \in FrameLengths :
          /\ OnBus(n)
          /\ IF rxpin = "usart"
             THEN /\ ReceiveByte([of |-> peer.of, at |-> peer.at], peer.at = 0)
                  /\ spoilt' = (spoilt /\ peer.at # 0)
             ELSE UNCHANGED <<rxBuffer, rxBufferIndex, queued, spoilt>>
          /\ UNCHANGED errors
    BY <1>15 DEF PeerByte
  <2>2. peer' \in [of : 0 .. 1, at : Nat, length : FrameLengths \cup {0}]
    BY <2>1, BusType
  <2>3. /\ rxBuffer' \in [0 .. rxBufferSize - 1 -> Byte \cup {NONE}]
        /\ rxBufferIndex' \in 0 .. rxBufferSize + 1
        /\ queued' \in 0 .. QueueLength
    <3>1. CASE rxpin = "usart"
      <4>1. [of |-> peer.of, at |-> peer.at] \in Byte
        BY DEF TypeOK
      <4> QED
        BY <2>1, <3>1, <4>1, ReceiveType
    <3>2. CASE rxpin # "usart"
      BY <2>1, <3>2 DEF TypeOK
    <3> QED
      BY <3>1, <3>2
  <2>4. spoilt' \in BOOLEAN
    BY <2>1, Zenon DEF TypeOK
  <2> QED
    BY <2>1, <2>2, <2>3, <2>4 DEF TypeOK, OnBus, sendVars, txVars, usart
<1>16. CASE LoseByte
  <2>1. PICK n \in FrameLengths :
          /\ OnBus(n)
          /\ errors < MaxErrors
          /\ errors' = errors + 1
          /\ spoilt' = ((spoilt /\ peer.at # 0) \/ Unnoticed(n))
          /\ UNCHANGED <<rxBuffer, rxBufferIndex, queued>>
    BY <1>16 DEF LoseByte
  <2>2. peer' \in [of : 0 .. 1, at : Nat, length : FrameLengths \cup {0}]
    BY <2>1, BusType
  <2>3. spoilt' \in BOOLEAN
    BY <2>1
  <2> QED
    BY <2>1, <2>2, <2>3 DEF TypeOK, OnBus, sendVars, txVars, usart
<1>19. CASE GarbleByte
  <2>1. PICK n \in FrameLengths, b \in {[of |-> peer.of, at |-> peer.at], NONE},
             mark \in BOOLEAN :
          /\ OnBus(n)
          /\ errors < MaxErrors
          /\ errors' = errors + 1
          /\ spoilt' = TRUE
          /\ ReceiveByte(b, mark)
    BY <1>19 DEF GarbleByte
  <2>2. peer' \in [of : 0 .. 1, at : Nat, length : FrameLengths \cup {0}]
    BY <2>1, BusType
  <2>3. b \in Byte \cup {NONE}
    BY DEF TypeOK
  <2>4. /\ rxBuffer' \in [0 .. rxBufferSize - 1 -> Byte \cup {NONE}]
        /\ rxBufferIndex' \in 0 .. rxBufferSize + 1
        /\ queued' \in 0 .. QueueLength
    BY <2>1, <2>3, ReceiveType
  <2> QED
    BY <2>1, <2>2, <2>4 DEF TypeOK, OnBus, sendVars, txVars, usart
<1>17. CASE TakeFrame
  BY <1>17 DEF TypeOK, TakeFrame, sendVars, txVars, usart
<1>18. CASE UNCHANGED vars
  BY <1>18 DEF TypeOK, vars, sendVars, txVars, usart, rxVars
<1> QED
  BY <1>1, <1>2, <1>3, <1>4, <1>5, <1>6, <1>7, <1>8, <1>9, <1>10, <1>11, <1>12,
     <1>13, <1>14, <1>15, <1>16, <1>17, <1>18, <1>19 DEF Next, SendStep

\* Every variable of the driver keeps its type; in particular the receive
\* index never passes the end of rxBuffer by more than the one step that
\* rs485.c:234 makes to ignore the rest of a frame.
THEOREM TypeCorrect == Spec => []TypeOK
<1>1. Init => TypeOK
  BY InitType
<1>2. TypeOK /\ [Next]_vars => TypeOK'
  BY NextType
<1> QED
  BY <1>1, <1>2, PTL DEF Spec

-----------------------------------------------------------------------------
(***************************************************************************)
(* What success means.                                                     *)
(***************************************************************************)
LEMMA InitSend == Init => SendInv
  BY DEF Init, SendInv, Quiet

\* The steps of the task.
LEMMA SetupKeeps ==
  ASSUME TypeOK, SendInv,
         SendMessage \/ SetSize \/ SetIndex \/ EnableTransmitter \/ TakeReceivePin
  PROVE  SendInv'
<1>1. CASE SendMessage
  BY <1>1 DEF SendMessage, Advance, TypeOK, SendInv, Quiet, Steps, txVars
<1>2. CASE SetSize
  BY <1>2 DEF SetSize, Advance, TypeOK, SendInv, Quiet, Steps, txVars, usart
<1>3. CASE SetIndex
  BY <1>3 DEF SetIndex, Advance, TypeOK, SendInv, Quiet, Steps, usart
<1>4. CASE EnableTransmitter
  BY <1>4 DEF EnableTransmitter, Advance, TypeOK, SendInv, Quiet, Steps, usart
<1>5. CASE TakeReceivePin
  BY <1>5 DEF TakeReceivePin, Advance, TypeOK, SendInv, Quiet, Steps, usart
<1> QED
  BY <1>1, <1>2, <1>3, <1>4, <1>5

LEMMA FirstByteKeeps ==
  ASSUME TypeOK, SendInv, WriteFirstByte
  PROVE  SendInv'
<1>1. [of |-> message, at |-> 0] # NONE
  BY NoneIsNoByte DEF TypeOK
<1> QED
  BY <1>1 DEF WriteFirstByte, WriteData, Advance, TypeOK, SendInv, Quiet, Running, InOrder,
              Steps, txVars

LEMMA WaitKeeps ==
  ASSUME TypeOK, SendInv,
         ClearTxc \/ ArmDre \/ WaitNotified \/ WaitTimedOut \/ ClearInterrupts
  PROVE  SendInv'
<1>1. CASE ClearTxc
  BY <1>1 DEF ClearTxc, Advance, TypeOK, SendInv, Running, Released, InOrder, Steps, txVars
<1>2. CASE ArmDre
  BY <1>2 DEF ArmDre, Advance, TypeOK, SendInv, Running, Released, InOrder, Steps, usart
<1>3. CASE WaitNotified
  BY <1>3 DEF WaitNotified, Advance, TypeOK, SendInv, Running, Released, InOrder, Steps, usart
<1>4. CASE WaitTimedOut
  BY <1>4 DEF WaitTimedOut, SendInv
<1>5. CASE ClearInterrupts
  BY <1>5 DEF ClearInterrupts, Advance, TypeOK, SendInv, Quiet, Released, Steps, usart
<1> QED
  BY <1>1, <1>2, <1>3, <1>4, <1>5

\* The steps of the USART and of the handler.
LEMMA ShiftKeeps ==
  ASSUME TypeOK, SendInv, ShiftOut
  PROVE  SendInv'
  BY NoneIsNoByte
     DEF ShiftOut, TypeOK, SendInv, Quiet, Running, Released, InOrder, Steps, sendVars, txVars

LEMMA DreKeeps ==
  ASSUME TypeOK, SendInv, InterruptDre
  PROVE  SendInv'
<1> SUFFICES ASSUME ~timedOut PROVE SendInv'
  BY DEF SendInv, InterruptDre, sendVars
<1>1. [of |-> message, at |-> txBufferIndex] # NONE
  BY NoneIsNoByte DEF TypeOK
<1>2. pc \in {"wait", "clear"}
  BY DEF SendInv, InterruptDre, Quiet, TypeOK, Steps
<1>3. CASE txBufferIndex < txBufferSize
  BY <1>1, <1>2, <1>3
     DEF InterruptDre, WriteData, TypeOK, SendInv, Running, Released, InOrder, sendVars
<1>4. CASE ~(txBufferIndex < txBufferSize)
  BY <1>2, <1>4 DEF InterruptDre, TypeOK, SendInv, Running, Released, InOrder, sendVars
<1> QED
  BY <1>3, <1>4

LEMMA TxcKeeps ==
  ASSUME TypeOK, SendInv, InterruptTxc
  PROVE  SendInv'
<1> SUFFICES ASSUME ~timedOut PROVE SendInv'
  BY DEF SendInv, InterruptTxc, sendVars
<1>1. pc \in {"flag", "arm", "wait"} /\ Running
  BY DEF SendInv, InterruptTxc, Quiet, Released, TypeOK, Steps
<1>2. shift = NONE /\ data = NONE /\ sent = txBufferIndex
  BY <1>1 DEF Running, InOrder, InterruptTxc, TypeOK
<1>3. CASE txBufferIndex >= txBufferSize
  <2>1. Released' /\ notified' /\ pc' = pc
    BY <1>1, <1>2, <1>3 DEF InterruptTxc, Running, InOrder, Released, TypeOK, sendVars
  <2> QED
    BY <1>1, <2>1, <1>3 DEF InterruptTxc, SendInv, TypeOK, sendVars
<1>4. CASE ~(txBufferIndex >= txBufferSize)
  BY <1>1, <1>2, <1>4 DEF InterruptTxc, SendInv, Running, InOrder, TypeOK, sendVars
<1> QED
  BY <1>3, <1>4

LEMMA NextSend ==
  ASSUME TypeOK, SendInv, [Next]_vars
  PROVE  SendInv'
<1>1. CASE PeerByte \/ LoseByte \/ GarbleByte \/ TakeFrame \/ UNCHANGED vars
  <2>1. UNCHANGED <<sendVars, txVars, usart>>
    BY <1>1 DEF PeerByte, LoseByte, GarbleByte, TakeFrame, OnBus, vars
  <2> QED
    BY <2>1 DEF SendInv, Quiet, Running, Released, InOrder, sendVars, txVars, usart
<1> QED
  BY <1>1, SetupKeeps, FirstByteKeeps, WaitKeeps, ShiftKeeps, DreKeeps, TxcKeeps
     DEF Next, SendStep

-----------------------------------------------------------------------------
(***************************************************************************)
(* The chain of interrupts is not broken.                                  *)
(***************************************************************************)
LEMMA InitWake == Init => WakeInv
  BY DEF Init, WakeInv

LEMMA TaskWakes ==
  ASSUME TypeOK, SendInv, WakeInv, SendMessage \/ SendStep \/ WaitTimedOut
  PROVE  WakeInv'
<1>1. CASE SendMessage
  BY <1>1 DEF SendMessage, Advance, WakeInv
<1>2. CASE SetSize \/ SetIndex \/ EnableTransmitter \/ TakeReceivePin
  BY <1>2 DEF SetSize, SetIndex, EnableTransmitter, TakeReceivePin, Advance, WakeInv
<1>3. CASE WriteFirstByte
  <2>1. ~timedOut => txBufferIndex = 1
    BY <1>3 DEF WriteFirstByte, Advance, SendInv
  <2> QED
    BY <1>3, <2>1 DEF WriteFirstByte, Advance, WakeInv, TypeOK, txVars
<1>4. CASE ClearTxc
  BY <1>4 DEF ClearTxc, Advance, WakeInv, txVars
<1>5. CASE ArmDre
  BY <1>5 DEF ArmDre, Advance, WakeInv, usart
<1>6. CASE WaitNotified \/ WaitTimedOut \/ ClearInterrupts
  BY <1>6 DEF WaitNotified, WaitTimedOut, ClearInterrupts, Advance, WakeInv
<1> QED
  BY <1>1, <1>2, <1>3, <1>4, <1>5, <1>6 DEF SendStep

LEMMA ShiftWakes ==
  ASSUME TypeOK, SendInv, WakeInv, ShiftOut
  PROVE  WakeInv'
<1>1. data = NONE => txc'
  BY DEF ShiftOut
<1> QED
  BY <1>1 DEF ShiftOut, WakeInv, sendVars, txVars

LEMMA DreWakes ==
  ASSUME TypeOK, SendInv, WakeInv, InterruptDre
  PROVE  WakeInv'
<1> SUFFICES ASSUME ~timedOut, ~notified, txBufferSize > 1, pc = "wait" PROVE WakeInv'
  <2>1. ~timedOut => pc \in {"wait", "clear"}
    BY DEF SendInv, InterruptDre, Quiet, TypeOK, Steps
  <2> QED
    BY <2>1 DEF WakeInv, InterruptDre, sendVars
<1>1. txBufferIndex < txBufferSize
  BY DEF WakeInv, InterruptDre
<1>2. [of |-> message, at |-> txBufferIndex] # NONE
  BY NoneIsNoByte DEF TypeOK
<1>3. shift' # NONE /\ txBufferIndex' = txBufferIndex + 1
  BY <1>1, <1>2 DEF InterruptDre, WriteData
<1>4. CASE txBufferIndex' >= txBufferSize
  BY <1>1, <1>3, <1>4 DEF InterruptDre, WakeInv, TypeOK, sendVars
<1>5. CASE ~(txBufferIndex' >= txBufferSize)
  BY <1>1, <1>3, <1>5 DEF InterruptDre, WakeInv, TypeOK, sendVars
<1> QED
  BY <1>4, <1>5

LEMMA TxcWakes ==
  ASSUME TypeOK, SendInv, WakeInv, InterruptTxc
  PROVE  WakeInv'
<1>1. CASE txBufferIndex >= txBufferSize
  BY <1>1 DEF InterruptTxc, WakeInv
<1>2. CASE ~(txBufferIndex >= txBufferSize)
  BY <1>2 DEF InterruptTxc, WakeInv, TypeOK, sendVars
<1> QED
  BY <1>1, <1>2

LEMMA NextWake ==
  ASSUME TypeOK, SendInv, WakeInv, [Next]_vars
  PROVE  WakeInv'
<1>1. CASE PeerByte \/ LoseByte \/ GarbleByte \/ TakeFrame \/ UNCHANGED vars
  <2>1. UNCHANGED <<sendVars, txVars, usart>>
    BY <1>1 DEF PeerByte, LoseByte, GarbleByte, TakeFrame, OnBus, vars
  <2> QED
    BY <2>1 DEF WakeInv, sendVars, txVars, usart
<1> QED
  BY <1>1, TaskWakes, ShiftWakes, DreWakes, TxcWakes DEF Next

-----------------------------------------------------------------------------
(***************************************************************************)
(* What is copied to rxQueue.                                              *)
(***************************************************************************)
LEMMA InitFrame == Init => FrameInv
  BY DEF Init, FrameInv, BusInv

\* A byte at its place in the frame on the bus, and what the handler makes
\* of it: it starts a frame, or goes on with a whole one or a damaged one.
LEMMA AddressStarts ==
  ASSUME TypeOK, peer.at = 0,
         NEW b, b = [of |-> peer.of, at |-> peer.at], ReceiveByte(b, peer.at = 0)
  PROVE  /\ rxBuffer'[0] = [of |-> peer.of, at |-> 0]
         /\ rxBufferIndex' = IF 1 < rxBufferSize THEN 1 ELSE rxBufferSize + 1
         /\ queued' > queued => rxBufferSize = 1
<1>1. StartIndex(peer.at = 0) = 0
  BY DEF StartIndex
<1>2. 0 < rxBufferSize /\ 0 \in 0 .. rxBufferSize - 1
  OBVIOUS
<1>3. rxBuffer'[0] = b
  <2>1. rxBuffer' = [rxBuffer EXCEPT ![StartIndex(peer.at = 0)] = b]
    BY <1>1, <1>2 DEF ReceiveByte
  <2> QED
    BY <1>1, <1>2, <2>1 DEF TypeOK
<1>4. rxBufferIndex' = IF 1 = rxBufferSize THEN 2 ELSE 1
  BY <1>1 DEF ReceiveByte
<1>5. queued' > queued => rxBufferSize = 1
  BY <1>1 DEF ReceiveByte, TypeOK
<1> QED
  BY <1>3, <1>4, <1>5

LEMMA WholeGoesOn ==
  ASSUME TypeOK, Whole, peer.at > 0,
         NEW b, b = [of |-> peer.of, at |-> peer.at], ReceiveByte(b, peer.at = 0)
  PROVE  /\ \A i \in 0 .. rxBufferSize - 1 :
              i < peer.at + 1 => rxBuffer'[i] = [of |-> peer.of, at |-> i]
         /\ rxBufferIndex' = IF peer.at + 1 < rxBufferSize THEN peer.at + 1
                                                          ELSE rxBufferSize + 1
         /\ queued' > queued => peer.at = rxBufferSize - 1
<1>1. StartIndex(peer.at = 0) = rxBufferIndex /\ peer.at \in Nat
  BY DEF StartIndex, TypeOK
<1>2. CASE peer.at < rxBufferSize
  <2>1. rxBufferIndex = peer.at
    BY <1>2 DEF Whole
  <2>2. rxBuffer' = [rxBuffer EXCEPT ![peer.at] = b]
    BY <1>1, <1>2, <2>1 DEF ReceiveByte
  <2>3. \A i \in 0 .. rxBufferSize - 1 :
          i < peer.at + 1 => rxBuffer'[i] = [of |-> peer.of, at |-> i]
    BY <1>1, <2>2 DEF TypeOK, Whole
  <2>4. rxBufferIndex' = IF peer.at + 1 < rxBufferSize THEN peer.at + 1
                                                       ELSE rxBufferSize + 1
    BY <1>1, <1>2, <2>1 DEF ReceiveByte
  <2>5. queued' > queued => peer.at = rxBufferSize - 1
    BY <1>1, <1>2, <2>1 DEF ReceiveByte, TypeOK
  <2> QED
    BY <2>3, <2>4, <2>5
<1>3. CASE ~(peer.at < rxBufferSize)
  <2>1. rxBufferIndex = rxBufferSize + 1
    BY <1>3 DEF Whole
  <2>2. UNCHANGED <<rxBuffer, rxBufferIndex, queued>>
    BY <1>1, <2>1 DEF ReceiveByte
  <2>3. \A i \in 0 .. rxBufferSize - 1 :
          i < peer.at + 1 => rxBuffer'[i] = [of |-> peer.of, at |-> i]
    BY <1>1, <1>3, <2>2 DEF Whole
  <2> QED
    BY <1>1, <1>3, <2>1, <2>2, <2>3 DEF TypeOK
<1> QED
  BY <1>2, <1>3

LEMMA DamagedGoesOn ==
  ASSUME TypeOK, Damaged, peer.at > 0, peer.at < peer.length,
         NEW b, b = [of |-> peer.of, at |-> peer.at], ReceiveByte(b, peer.at = 0)
  PROVE  /\ rxBufferIndex' < peer.at + 1 \/ rxBufferIndex' = rxBufferSize + 1
         /\ rxBufferIndex' # rxBufferSize
         /\ ~(queued' > queued)
<1>1. /\ peer.at \in Nat /\ peer.length \in FrameLengths \cup {0}
      /\ rxBufferIndex \in Nat /\ queued \in Nat
  BY DEF TypeOK
<1>2. StartIndex(peer.at = 0) = rxBufferIndex
  BY <1>1 DEF StartIndex
<1>3. peer.length \in Nat
  <2>1. FrameLengths \subseteq Nat /\ {0} \subseteq Nat
    OBVIOUS
  <2> QED
    BY <1>1, <2>1, Zenon
<1>4. CASE rxBufferIndex < peer.at
  <2>1. rxBufferIndex + 1 < rxBufferSize
    BY <1>1, <1>3, <1>4 DEF Damaged
  <2>2. rxBufferIndex' = rxBufferIndex + 1 /\ queued' = queued
    BY <1>1, <1>2, <2>1 DEF ReceiveByte
  <2> QED
    BY <1>1, <1>4, <2>1, <2>2
<1>5. CASE rxBufferIndex = rxBufferSize + 1
  BY <1>1, <1>2, <1>5 DEF ReceiveByte
<1> QED
  BY <1>4, <1>5 DEF Damaged

\* The frame after one more byte on the bus.
LEMMA BusGoesOn ==
  ASSUME TypeOK, NEW n \in FrameLengths, OnBus(n),
         peer.at > 0 => peer.at < peer.length
  PROVE  /\ peer.at > 0 => n = peer.length
         /\ peer.at < n
         /\ \/ peer'.at = 0
            \/ /\ peer'.at = peer.at + 1 /\ peer'.at < n
               /\ peer'.of = peer.of /\ peer'.length = n
<1>1. peer.at \in Nat /\ n \in Nat /\ n > 0
  BY DEF TypeOK
<1>2. (peer.at > 0 => n = peer.length) /\ peer.at < n
  BY <1>1 DEF OnBus
<1>3. CASE peer.at + 1 = n
  BY <1>2, <1>3 DEF OnBus, NextByte
<1>4. CASE peer.at + 1 # n
  BY <1>1, <1>2, <1>4 DEF OnBus, NextByte
<1> QED
  BY <1>2, <1>3, <1>4

\* The bus part is kept by whatever is received.
LEMMA BusKeeps ==
  ASSUME TypeOK, BusInv, PeerByte \/ LoseByte \/ GarbleByte
  PROVE  BusInv'
<1>1. \A b, mark : ReceiveByte(b, mark) => rxBufferIndex' # rxBufferSize
  <2> SUFFICES ASSUME NEW b, NEW mark, ReceiveByte(b, mark)
               PROVE  rxBufferIndex' # rxBufferSize
    OBVIOUS
  <2>1. StartIndex(mark) \in 0 .. rxBufferSize + 1 /\ StartIndex(mark) # rxBufferSize
    BY DEF StartIndex, TypeOK, BusInv
  <2> QED
    BY <2>1 DEF ReceiveByte
<1>2. rxBufferIndex' # rxBufferSize
  BY <1>1 DEF PeerByte, LoseByte, GarbleByte, BusInv
<1>3. PICK n \in FrameLengths : OnBus(n)
  BY DEF PeerByte, LoseByte, GarbleByte
<1>4. peer'.at = 0 \/ (peer'.at < n /\ peer'.length = n)
  BY <1>3, BusGoesOn DEF BusInv
<1> QED
  BY <1>2, <1>4 DEF BusInv

LEMMA PeerByteKeeps ==
  ASSUME TypeOK, SendInv, FrameInv, PeerByte
  PROVE  FrameInv'
<1>0. BusInv'
  BY BusKeeps DEF FrameInv
<1> SUFFICES ASSUME ~timedOut, ~spoilt', peer'.at > 0 PROVE (Whole \/ Damaged)'
  BY <1>0 DEF FrameInv, PeerByte, OnBus, sendVars
<1>1. rxpin = "usart"
  BY DEF PeerByte, OnBus, SendInv
<1>2. PICK n \in FrameLengths : /\ OnBus(n)
                                /\ ReceiveByte([of |-> peer.of, at |-> peer.at], peer.at = 0)
                                /\ spoilt' = (spoilt /\ peer.at # 0)
  BY <1>1 DEF PeerByte
<1>3. /\ peer.at > 0 => n = peer.length /\ peer.at < peer.length
      /\ peer'.at = peer.at + 1 /\ peer'.at < n
      /\ peer'.of = peer.of /\ peer'.length = n
  BY <1>2, BusGoesOn DEF FrameInv, BusInv
<1>4. /\ peer.at \in Nat /\ n \in Nat
      /\ rxBufferSize \in Nat /\ rxBufferSize > 0
  BY DEF TypeOK
<1>5. CASE peer.at = 0
  <2>1. /\ rxBuffer'[0] = [of |-> peer.of, at |-> 0]
        /\ rxBufferIndex' = IF 1 < rxBufferSize THEN 1 ELSE rxBufferSize + 1
    BY <1>2, <1>5, AddressStarts
  <2> QED
    BY <1>3, <1>4, <1>5, <2>1 DEF Whole
<1>6. CASE peer.at # 0 /\ Whole
  <2>1. /\ \A i \in 0 .. rxBufferSize - 1 :
              i < peer.at + 1 => rxBuffer'[i] = [of |-> peer.of, at |-> i]
        /\ rxBufferIndex' = IF peer.at + 1 < rxBufferSize THEN peer.at + 1
                                                          ELSE rxBufferSize + 1
    BY <1>2, <1>4, <1>6, WholeGoesOn
  <2> QED
    BY <1>3, <2>1 DEF Whole
<1>7. CASE peer.at # 0 /\ Damaged
  <2>1. peer.at > 0 /\ peer.at < peer.length /\ n = peer.length
    BY <1>3, <1>4, <1>7
  <2>2. rxBufferIndex' < peer.at + 1 \/ rxBufferIndex' = rxBufferSize + 1
    BY <1>2, <1>7, <2>1, DamagedGoesOn
  <2> QED
    BY <1>3, <1>7, <2>1, <2>2 DEF Damaged
<1>8. peer.at = 0 \/ Whole \/ Damaged
  <2>1. peer.at = 0 \/ ~spoilt
    BY <1>2, Zenon
  <2> QED
    BY <1>4, <2>1 DEF FrameInv
<1> QED
  BY <1>5, <1>6, <1>7, <1>8

LEMMA LoseByteKeeps ==
  ASSUME TypeOK, FrameInv, LoseByte
  PROVE  FrameInv'
<1>0. BusInv'
  BY BusKeeps DEF FrameInv
<1> SUFFICES ASSUME ~timedOut, ~spoilt', peer'.at > 0 PROVE Damaged'
  BY <1>0 DEF FrameInv, LoseByte, OnBus, sendVars
<1>1. PICK n \in FrameLengths :
        /\ OnBus(n)
        /\ spoilt' = ((spoilt /\ peer.at # 0) \/ Unnoticed(n))
        /\ UNCHANGED <<rxBuffer, rxBufferIndex, queued>>
  BY DEF LoseByte
<1>2. (~spoilt \/ peer.at = 0) /\ ~Unnoticed(n)
  BY <1>1
<1>3. /\ peer.at > 0 => n = peer.length
      /\ peer'.at = peer.at + 1 /\ peer'.at < n /\ peer'.length = n
  BY <1>1, BusGoesOn DEF FrameInv, BusInv
<1>4. /\ peer.at \in Nat /\ n \in Nat
      /\ rxBufferIndex \in 0 .. rxBufferSize + 1 /\ rxBufferIndex # rxBufferSize
      /\ rxBufferIndex' = rxBufferIndex
  BY <1>1 DEF TypeOK, FrameInv, BusInv
<1>5. n <= rxBufferSize
  BY <1>2, <1>4 DEF Unnoticed
<1>6. rxBufferIndex < peer.at + 1 \/ rxBufferIndex = rxBufferSize + 1
  <2>1. CASE peer.at = 0
    BY <1>2, <1>4, <2>1 DEF Unnoticed
  <2>2. CASE peer.at # 0
    <3>1. Whole \/ Damaged
      BY <1>2, <1>4, <2>2 DEF FrameInv
    <3> QED
      BY <1>3, <1>4, <1>5, <3>1 DEF Whole, Damaged
  <2> QED
    BY <2>1, <2>2
<1> QED
  BY <1>3, <1>4, <1>5, <1>6 DEF Damaged

\* A frame with a byte received in error is spoilt: nothing is said of it.
LEMMA GarbleByteKeeps ==
  ASSUME TypeOK, FrameInv, GarbleByte
  PROVE  FrameInv'
<1>1. BusInv'
  BY BusKeeps DEF FrameInv
<1>2. spoilt'
  BY DEF GarbleByte
<1> QED
  BY <1>1, <1>2 DEF FrameInv

LEMMA NextFrame ==
  ASSUME TypeOK, SendInv, FrameInv, [Next]_vars
  PROVE  FrameInv'
<1>1. CASE PeerByte \/ LoseByte \/ GarbleByte
  BY <1>1, PeerByteKeeps, LoseByteKeeps, GarbleByteKeeps
<1>2. CASE WaitTimedOut
  BY <1>2 DEF WaitTimedOut, FrameInv, BusInv, rxVars
<1>3. CASE TakeFrame \/ UNCHANGED vars
  <2>1. UNCHANGED <<timedOut, rxBuffer, rxBufferIndex, peer, spoilt>>
    BY <1>3 DEF TakeFrame, vars, sendVars, rxVars
  <2> QED
    BY <2>1 DEF FrameInv, BusInv, Whole, Damaged
<1>4. CASE SendMessage \/ SendStep \/ ShiftOut \/ InterruptDre \/ InterruptTxc
  <2>1. UNCHANGED <<timedOut, rxVars>>
    BY <1>4 DEF SendMessage, SendStep, SetSize, SetIndex, EnableTransmitter, TakeReceivePin,
                WriteFirstByte, ClearTxc, ArmDre, WaitNotified, ClearInterrupts, Advance,
                ShiftOut, InterruptDre, InterruptTxc, sendVars
  <2> QED
    BY <2>1 DEF FrameInv, BusInv, Whole, Damaged, rxVars
<1> QED
  BY <1>1, <1>2, <1>3, <1>4 DEF Next

\* A step that puts a frame into rxQueue puts a whole one there.
LEMMA QueuedIsWhole ==
  ASSUME TypeOK, SendInv, FrameInv, [Next]_vars, queued' > queued, ~timedOut, ~spoilt'
  PROVE  rxBuffer' = Frame(peer.of) /\ peer.at = rxBufferSize - 1
<1>1. queued \in Nat
  BY DEF TypeOK
<1>2. PeerByte
  <2>1. CASE SendMessage \/ SendStep \/ WaitTimedOut \/ ShiftOut \/ InterruptDre
             \/ InterruptTxc \/ LoseByte \/ UNCHANGED vars
    <3>1. queued' = queued
      BY <2>1 DEF SendMessage, SendStep, SetSize, SetIndex, EnableTransmitter,
                  TakeReceivePin, WriteFirstByte, ClearTxc, ArmDre, WaitNotified,
                  ClearInterrupts, WaitTimedOut, Advance, ShiftOut, InterruptDre,
                  InterruptTxc, LoseByte, rxVars, vars
    <3> QED
      BY <1>1, <3>1
  <2>2. CASE TakeFrame
    BY <1>1, <2>2 DEF TakeFrame
  <2>3. ~GarbleByte
    BY DEF GarbleByte
  <2> QED
    BY <2>1, <2>2, <2>3 DEF Next
<1>3. /\ ReceiveByte([of |-> peer.of, at |-> peer.at], peer.at = 0)
      /\ peer.at # 0 => ~spoilt
  BY <1>2 DEF PeerByte, OnBus, SendInv
<1>4. peer.at \in Nat /\ rxBuffer' \in [0 .. rxBufferSize - 1 -> Byte \cup {NONE}]
  <2>1. [of |-> peer.of, at |-> peer.at] \in Byte
    BY DEF TypeOK
  <2> QED
    BY <1>3, <2>1, ReceiveType DEF TypeOK
<1>5. \A i \in 0 .. rxBufferSize - 1 : rxBuffer'[i] = [of |-> peer.of, at |-> i]
  <2>1. CASE peer.at = 0
    BY <1>3, <2>1, AddressStarts
  <2>2. CASE peer.at # 0
    <3>1. ~Damaged
      BY <1>3, <1>4, <2>2, DamagedGoesOn DEF FrameInv, BusInv
    <3>2. Whole
      BY <1>3, <1>4, <2>2, <3>1 DEF FrameInv
    <3> QED
      BY <1>3, <1>4, <2>2, <3>2, WholeGoesOn
  <2> QED
    BY <2>1, <2>2
<1>6. peer.at = rxBufferSize - 1
  <2>1. CASE peer.at = 0
    BY <1>3, <2>1, AddressStarts
  <2>2. CASE peer.at # 0
    <3>1. ~Damaged
      BY <1>3, <1>4, <2>2, DamagedGoesOn DEF FrameInv, BusInv
    <3> QED
      BY <1>3, <1>4, <2>2, <3>1, WholeGoesOn DEF FrameInv
  <2> QED
    BY <2>1, <2>2
<1>7. rxBuffer' = Frame(peer.of)
  BY <1>4, <1>5 DEF Frame
<1> QED
  BY <1>6, <1>7

-----------------------------------------------------------------------------
LEMMA InitInv == Init => IInv
  BY InitType, InitSend, InitWake, InitFrame DEF IInv

LEMMA NextInv == IInv /\ [Next]_vars => IInv'
  BY NextType, NextSend, NextWake, NextFrame DEF IInv

\* On a port where no call has timed out, a call that is about to return
\* pdPASS has sent its whole message and released the bus: for messages of
\* every size and every interleaving of task, USART and handler.
THEOREM SuccessIsTransmission == Spec => []SuccessMeansSent
<1>1. IInv => SuccessMeansSent
  BY DEF IInv, SendInv, Released, SuccessMeansSent
<1> QED
  BY <1>1, InitInv, NextInv, PTL DEF Spec

\* A call that waits with a message of two bytes or more is never left with
\* nothing under way that would notify it, whatever the order in which the
\* task's stores, the handler and the USART take their steps: the safety half
\* of SendReturns, which rs485.c:194-197 relies on.
THEOREM WaitingSenderIsServed == Spec => []SenderIsServed
<1>1. IInv => SenderIsServed
  <2> SUFFICES ASSUME IInv, pc = "wait", txBufferSize > 1, ~timedOut, ~notified
               PROVE  shift # NONE \/ (dreEnabled /\ data = NONE) \/ (txcEnabled /\ txc)
    BY DEF SenderIsServed
  <2>1. data # NONE => shift # NONE
    BY DEF IInv, SendInv, Running, InOrder
  <2>2. CASE dreEnabled
    BY <2>1, <2>2
  <2>3. CASE ~dreEnabled
    BY <2>3 DEF IInv, WakeInv
  <2> QED
    BY <2>2, <2>3
<1> QED
  BY <1>1, InitInv, NextInv, PTL DEF Spec

\* What the handler copies to rxQueue is one frame, from its address byte on:
\* for buffers of every size, frames of every length, shorter ones included,
\* and any number of lost bytes and of frames received in error before it, if
\* no byte of its own was received in error or lost unnoticed.
THEOREM FramesAreWhole == Spec => FramesWhole
<1>1. IInv /\ [Next]_vars
        => [queued' > queued /\ ~timedOut /\ ~spoilt' =>
              rxBuffer' = Frame(peer.of) /\ peer.at = rxBufferSize - 1]_vars
  BY QueuedIsWhole DEF IInv
<1> QED
  BY <1>1, InitInv, NextInv, PTL DEF Spec, FramesWhole
=============================================================================
