---------------------------- MODULE DmxPort_proofs ----------------------------
(***************************************************************************)
(* Theorems about DmxPort, for any number (at least two) of receive        *)
(* buffers, any frame size, any set of sending tasks and any line speeds.  *)
(*                                                                         *)
(*   TypeInv      types, and what bounds them: holds for every use         *)
(*   PoolInv      the marks of the buffers: holds if only the callback     *)
(*                sends, or only tasks with frames of their own do         *)
(*   ServedInv    who frees a busy port: holds for every use               *)
(*   RepeaterInv  sending and receiving buffers differ: holds if the       *)
(*                callback sends every frame that arrives                  *)
(***************************************************************************)
EXTENDS DmxPort, WellFoundedInduction, TLAPS

SendersHoldFrames == \A t \in Tasks : pc[t] # "idle" => frame[t] \in Frames

TypeInv == TypeOK /\ ReceiveInBounds /\ SendersHoldFrames

-----------------------------------------------------------------------------

\* The scans of pDmxPortGetNextBuffer end at a buffer of the set they look for.
LEMMA FirstIsMember ==
  ASSUME NEW S \in SUBSET RxBuffers, S # {}
  PROVE  First(S) \in S
<1>1. S \subseteq Nat
  BY SizeAssumption DEF RxBuffers
<1>2. PICK b \in S : \A c \in S : ~(<<c, b>> \in OpToRel(<, Nat))
  <2>1. IsWellFoundedOn(OpToRel(<, Nat), Nat)
    BY NatLessThanWellFounded
  <2>. QED
    BY <1>1, <2>1, WFMin
<1>3. ASSUME NEW c \in S, c < b PROVE FALSE
  <2>1. <<c, b>> \in {ss \in Nat \X Nat : ss[1] < ss[2]}
    BY <1>1, <1>3
  <2>2. OpToRel(<, Nat) = {ss \in Nat \X Nat : ss[1] < ss[2]}
    BY Zenon DEF OpToRel
  <2>. QED
    BY <1>2, <2>1, <2>2
<1>4. \A c \in S : b <= c
  BY <1>1, <1>3
<1>. QED
  BY <1>4, Zenon DEF First

\* What pDmxPortGetNextBuffer returns, for any marks st.
LEMMA NextBuffer ==
  ASSUME NEW st
  PROVE  /\ pDmxPortGetNextBuffer(st) \in Unclaimed(st) \cup {NULL}
         /\ Unclaimed(st) # {} => pDmxPortGetNextBuffer(st) \in Unclaimed(st)
         /\ Unused(st) # {} => pDmxPortGetNextBuffer(st) \in Unused(st)
<1>1. Unused(st) \in SUBSET RxBuffers /\ Unclaimed(st) \in SUBSET RxBuffers
  BY DEF Unused, Unclaimed
<1>2. Unused(st) # {} => First(Unused(st)) \in Unused(st)
  BY <1>1, FirstIsMember
<1>3. Unclaimed(st) # {} => First(Unclaimed(st)) \in Unclaimed(st)
  BY <1>1, FirstIsMember
<1>4. Unused(st) \subseteq Unclaimed(st)
  BY DEF Unused
<1>. QED
  BY <1>2, <1>3, <1>4 DEF pDmxPortGetNextBuffer

\* Pushing a frame keeps the types, whatever the callback sends.
LEMMA PushFrameType ==
  ASSUME TypeOK, currentRxBuffer # NULL,
         NEW sc \in [Buffers -> 0 .. DMX_MAX_SLOTS + 1], PushFrame(sc)
  PROVE  /\ status' \in [Buffers -> Status]
         /\ slotCount' \in [Buffers -> 0 .. DMX_MAX_SLOTS + 1]
         /\ currentRxBuffer' \in RxBuffers \cup {NULL}
         /\ lastValidRxBuffer' \in RxBuffers
         /\ txState' \in TxStates
         /\ currentTxSlot' \in Nat
         /\ currentTxBuffer' \in Buffers \cup {NULL}
         /\ txpin' \in {"usart", "low", "high"}
         /\ txcEnabled' \in BOOLEAN
<1> DEFINE done == Finish(status, currentRxBuffer)
           next == pDmxPortGetNextBuffer(done)
           marks == Claim(done, next)
<1>1. currentRxBuffer \in RxBuffers /\ currentRxBuffer \in Buffers
  BY DEF TypeOK, Buffers
<1>2. done \in [Buffers -> Status]
  BY <1>1 DEF Finish, TypeOK, Status
<1>3. next \in RxBuffers \cup {NULL}
  BY NextBuffer DEF Unclaimed
<1>4. marks \in [Buffers -> Status]
  <2> HIDE DEF done, next
  <2>. QED
    BY <1>2, <1>3 DEF Claim, Status, Buffers
<1>5. Empty(sc, next) \in [Buffers -> 0 .. DMX_MAX_SLOTS + 1]
  <2> HIDE DEF done, next
  <2>. QED
    BY <1>3, SizeAssumption DEF Empty, Buffers
<1>6. /\ lastValidRxBuffer' = currentRxBuffer
      /\ currentRxBuffer' = next
      /\ slotCount' = Empty(sc, next)
      /\ \E f \in CallbackFrames(currentRxBuffer) : CallbackSend(f, marks)
  BY DEF PushFrame
<1>7. PICK f \in CallbackFrames(currentRxBuffer) : CallbackSend(f, marks)
  BY <1>6
<1>8. f \in Buffers \cup {NULL}
  BY <1>1, <1>7, UsageAssumption DEF CallbackFrames, Buffers
<1>9. /\ status' \in [Buffers -> Status]
      /\ txState' \in TxStates
      /\ currentTxSlot' \in Nat
      /\ currentTxBuffer' \in Buffers \cup {NULL}
      /\ txpin' \in {"usart", "low", "high"}
      /\ txcEnabled' \in BOOLEAN
  <2> HIDE DEF marks
  <2>1. CASE f = NULL \/ txState # "Idle"
    BY <1>4, <1>7, <2>1 DEF CallbackSend, TypeOK, txVars
  <2>2. CASE ~(f = NULL \/ txState # "Idle")
    <3>1. f \in Buffers
      BY <1>8, <2>2
    <3>2. [marks EXCEPT ![f].read = TRUE] \in [Buffers -> Status]
      BY <1>4, <3>1 DEF Status
    <3>3. /\ status' = [marks EXCEPT ![f].read = TRUE]
          /\ txState' = "Break"
          /\ txpin' = "low"
          /\ currentTxSlot' = 1
          /\ currentTxBuffer' = f
          /\ txcEnabled' = TRUE
      BY <1>7, <2>2, Zenon DEF CallbackSend
    <3>. QED
      BY <3>1, <3>2, <3>3 DEF TxStates
  <2>. QED
    BY <2>1, <2>2
<1>. QED
  BY <1>1, <1>3, <1>5, <1>6, <1>9

-----------------------------------------------------------------------------
\* A message that is not complete yet leaves room for its next byte.
LEMMA IncompleteFits ==
  ASSUME NEW length \in Bytes \cup {0}, NEW n \in 2 .. DMX_MAX_SLOTS + 1,
         ~RdmComplete(n, length)
  PROVE  n \in 1 .. DMX_MAX_SLOTS
<1>1. length \in Nat /\ length + 2 <= DMX_MAX_SLOTS + 1
  <2>1. CASE length = 0
    BY <2>1, SizeAssumption
  <2>2. CASE length \in Bytes
    BY <2>2, SizeAssumption
  <2>. QED
    BY <2>1, <2>2
<1>2. RDM_MINIMUMFRAMELENGTH \in Nat /\ RDM_MINIMUMFRAMELENGTH <= DMX_MAX_SLOTS + 1
  BY SizeAssumption
<1>3. DMX_MAX_SLOTS \in Nat
  BY SizeAssumption
<1>. QED
  BY <1>1, <1>2, <1>3 DEF RdmComplete

\* Receiving keeps TypeInv: one lemma per handler branch that stores bytes.
LEMMA ReceiveType ==
  ASSUME TypeInv, Receive
  PROVE  TypeInv'
<1>. USE DEF TypeInv
<1>1. SendersHoldFrames'
  BY DEF Receive, ReceiveStartCode, ReceiveSlot, ReceiveRdm, ReceiveBreak,
         ReceiveOverflow, Fault, taskVars, SendersHoldFrames
<1>2. CASE Fault
  BY <1>1, <1>2 DEF Fault, TypeOK, ReceiveInBounds, rxVars, txVars, taskVars
<1>3. ASSUME NEW data \in Bytes, ReceiveStartCode(data), currentRxBuffer # NULL
      PROVE  TypeInv'
  <2>1. slotCount' = [slotCount EXCEPT ![currentRxBuffer] = 1]
    BY <1>3 DEF ReceiveStartCode
  <2>2. currentRxBuffer \in Buffers /\ currentRxBuffer' = currentRxBuffer
    BY <1>3 DEF ReceiveStartCode, TypeOK, Buffers
  <2>3. /\ slotCount' \in [Buffers -> 0 .. DMX_MAX_SLOTS + 1]
        /\ slotCount'[currentRxBuffer'] \in 1 .. DMX_MAX_SLOTS
    BY <2>1, <2>2, SizeAssumption DEF TypeOK
  <2>4. rxState' \in RxStates
    BY <1>3 DEF ReceiveStartCode, RxStates
  <2>. QED
    BY <1>1, <1>3, <2>3, <2>4 DEF ReceiveStartCode, TypeOK, ReceiveInBounds, txVars, taskVars
<1>4. CASE ReceiveSlot
  <2> DEFINE n == slotCount[currentRxBuffer] + 1
             sc == [slotCount EXCEPT ![currentRxBuffer] = n]
  <2>1. currentRxBuffer \in Buffers /\ n \in 2 .. DMX_MAX_SLOTS + 1
    BY <1>4, SizeAssumption DEF ReceiveSlot, TypeOK, ReceiveInBounds, Buffers
  <2>2. sc \in [Buffers -> 0 .. DMX_MAX_SLOTS + 1]
    BY <2>1, SizeAssumption DEF TypeOK
  <2>3. CASE DmxComplete(n)
    <3>1. PushFrame(sc) /\ rxState' = "Idle" /\ currentRxBuffer # NULL
      BY <1>4, <2>3 DEF ReceiveSlot
    <3>. QED
      BY <1>1, <1>4, <2>2, <3>1, PushFrameType
         DEF ReceiveSlot, TypeOK, ReceiveInBounds, RxStates, taskVars
  <2>4. CASE ~DmxComplete(n)
    <3>1. /\ slotCount' = sc
          /\ UNCHANGED <<status, rxState, currentRxBuffer, lastValidRxBuffer, txVars>>
      BY <1>4, <2>4 DEF ReceiveSlot
    <3>2. slotCount'[currentRxBuffer'] \in 1 .. DMX_MAX_SLOTS
      BY <2>1, <2>4, <3>1, SizeAssumption DEF DmxComplete, TypeOK
    <3>. QED
      BY <1>1, <1>4, <2>2, <3>1, <3>2 DEF ReceiveSlot, TypeOK, ReceiveInBounds, txVars, taskVars
  <2>. QED
    BY <2>3, <2>4
<1>5. ASSUME NEW data \in Bytes, ReceiveRdm(data)
      PROVE  TypeInv'
  <2> DEFINE n == slotCount[currentRxBuffer] + 1
             sc == [slotCount EXCEPT ![currentRxBuffer] = n]
  <2>1. currentRxBuffer \in Buffers /\ n \in 2 .. DMX_MAX_SLOTS + 1
    BY <1>5, SizeAssumption DEF ReceiveRdm, TypeOK, ReceiveInBounds, Buffers
  <2>2. sc \in [Buffers -> 0 .. DMX_MAX_SLOTS + 1]
    BY <2>1, SizeAssumption DEF TypeOK
  <2>3. messageLength' \in Bytes \cup {0}
    BY <1>5 DEF ReceiveRdm, TypeOK
  <2>4. CASE RdmComplete(n, messageLength')
    <3>1. PushFrame(sc) /\ rxState' = "Idle" /\ currentRxBuffer # NULL
      BY <1>5, <2>4 DEF ReceiveRdm
    <3>. QED
      BY <1>1, <1>5, <2>2, <2>3, <3>1, PushFrameType
         DEF ReceiveRdm, TypeOK, ReceiveInBounds, RxStates, taskVars
  <2>5. CASE ~RdmComplete(n, messageLength')
    <3>1. /\ slotCount' = sc
          /\ UNCHANGED <<status, rxState, currentRxBuffer, lastValidRxBuffer, txVars>>
      BY <1>5, <2>5 DEF ReceiveRdm
    <3>3. n \in 1 .. DMX_MAX_SLOTS
      <4> HIDE DEF n
      <4>. QED
        BY <2>1, <2>3, <2>5, IncompleteFits
    <3>4. slotCount'[currentRxBuffer'] \in 1 .. DMX_MAX_SLOTS
      BY <2>1, <3>1, <3>3, SizeAssumption DEF TypeOK
    <3>. QED
      BY <1>1, <1>5, <2>2, <2>3, <3>1, <3>4
         DEF ReceiveRdm, TypeOK, ReceiveInBounds, txVars, taskVars
  <2>. QED
    BY <2>4, <2>5
<1>6. CASE ReceiveBreak /\ currentRxBuffer # NULL
  <2>1. CASE slotCount[currentRxBuffer] # 0
    <3>1. PushFrame(slotCount) /\ slotCount \in [Buffers -> 0 .. DMX_MAX_SLOTS + 1]
      BY <1>6, <2>1 DEF ReceiveBreak, TypeOK
    <3>. QED
      BY <1>1, <1>6, <3>1, PushFrameType
         DEF ReceiveBreak, TypeOK, ReceiveInBounds, RxStates, taskVars
  <2>2. CASE slotCount[currentRxBuffer] = 0
    BY <1>1, <1>6, <2>2 DEF ReceiveBreak, TypeOK, ReceiveInBounds, RxStates, txVars, taskVars
  <2>. QED
    BY <2>1, <2>2
<1>7. CASE ReceiveOverflow
  BY <1>1, <1>7 DEF ReceiveOverflow, TypeOK, ReceiveInBounds, txVars, taskVars
<1>. QED
  BY <1>2, <1>3, <1>4, <1>5, <1>6, <1>7 DEF Receive, ReceiveStartCode, ReceiveBreak

LEMMA TransmitType ==
  ASSUME TypeInv, TransmitComplete
  PROVE  TypeInv'
<1>. USE DEF TypeInv
<1>1. SendersHoldFrames'
  BY DEF TransmitComplete, taskVars, SendersHoldFrames
<1>2. ReceiveInBounds'
  BY DEF TransmitComplete, rxVars, ReceiveInBounds
<1>3. ASSUME vDmxEndTransmission, UNCHANGED currentTxBuffer
      PROVE  /\ status' \in [Buffers -> Status]
             /\ txState' \in TxStates
             /\ txcEnabled' \in BOOLEAN
  BY <1>3 DEF vDmxEndTransmission, TypeOK, TxStates, Status
<1>4. /\ status' \in [Buffers -> Status]
      /\ txState' \in TxStates
      /\ currentTxSlot' \in Nat
      /\ currentTxBuffer' \in Buffers \cup {NULL}
      /\ txpin' \in {"usart", "low", "high"}
      /\ txcEnabled' \in BOOLEAN
  <2>1. CASE TransmitBreak
    BY <2>1 DEF TransmitBreak, TypeOK, TxStates
  <2>2. CASE TransmitMark
    BY <2>2 DEF TransmitMark, TypeOK, TxStates
  <2>3. CASE TransmitStartCode
    BY <2>3 DEF TransmitStartCode, TypeOK, TxStates
  <2>4. CASE TransmitSlot
    BY <1>3, <2>4 DEF TransmitSlot, TypeOK
  <2>5. CASE TransmitNothing
    BY <1>3, <2>5 DEF TransmitNothing, TypeOK
  <2>. QED
    BY <2>1, <2>2, <2>3, <2>4, <2>5 DEF TransmitComplete
<1>. QED
  BY <1>1, <1>2, <1>4 DEF TransmitComplete, TypeOK, rxVars, taskVars

LEMMA SendType ==
  ASSUME TypeInv, NEW t \in Tasks, SendStep(t) \/ \E f \in Frames : SendCheck(t, f)
  PROVE  TypeInv'
<1>. USE DEF TypeInv
<1>1. ReceiveInBounds'
  BY DEF SendStep, SendLoadStatus, SendMarkRead, SendSetState, SendTakePin, SendSetSlot,
         SendSetBuffer, SendArm, SendCheck, Advance, rxVars, ReceiveInBounds
<1>. USE DEF Advance, TypeOK, SendersHoldFrames, Steps, rxVars, txVars
<1>2. ASSUME NEW f \in Frames, SendCheck(t, f) PROVE TypeInv'
  BY <1>1, <1>2 DEF SendCheck
<1>3. CASE SendLoadStatus(t)
  BY <1>1, <1>3 DEF SendLoadStatus, Buffers
<1>4. CASE SendMarkRead(t)
  <2>1. [loaded[t] EXCEPT !.read = TRUE] \in Status
    BY DEF Status
  <2>. QED
    BY <1>1, <1>4, <2>1 DEF SendMarkRead
<1>5. CASE SendSetState(t)
  BY <1>1, <1>5 DEF SendSetState, TxStates
<1>6. CASE SendTakePin(t)
  BY <1>1, <1>6 DEF SendTakePin
<1>7. CASE SendSetSlot(t)
  BY <1>1, <1>7 DEF SendSetSlot
<1>8. CASE SendSetBuffer(t)
  BY <1>1, <1>8 DEF SendSetBuffer, Buffers
<1>9. CASE SendArm(t)
  <2>1. Clear \in Status
    BY DEF Clear, Status
  <2>. QED
    BY <1>1, <1>9, <2>1 DEF SendArm
<1>. QED
  BY <1>2, <1>3, <1>4, <1>5, <1>6, <1>7, <1>8, <1>9 DEF SendStep

LEMMA InitType == Init => TypeInv
<1>1. 0 \in RxBuffers /\ DMX_MAX_SLOTS \in Nat
  BY SizeAssumption DEF RxBuffers
<1>2. Clear \in Status
  BY DEF Clear, Status
<1>3. ASSUME Init
      PROVE  /\ status \in [Buffers -> Status]
             /\ slotCount \in [Buffers -> 0 .. DMX_MAX_SLOTS + 1]
  <2>1. 0 # NULL /\ 0 \in Buffers
    BY <1>1, UsageAssumption DEF Buffers
  <2>2. status = [[b \in Buffers |-> Clear] EXCEPT ![0].written = TRUE]
    BY <1>3, <2>1 DEF Init, Claim
  <2>3. status \in [Buffers -> Status]
    BY <1>2, <2>1, <2>2 DEF Status
  <2>4. slotCount \in [Buffers -> 0 .. DMX_MAX_SLOTS + 1]
    BY <1>1, <1>3 DEF Init
  <2>. QED
    BY <2>3, <2>4
<1>4. ASSUME Init PROVE TypeOK
  BY <1>1, <1>2, <1>3, <1>4 DEF Init, TypeOK, RxStates, TxStates, Steps
<1>5. ASSUME Init PROVE ReceiveInBounds /\ SendersHoldFrames
  BY <1>5 DEF Init, ReceiveInBounds, SendersHoldFrames
<1>. QED
  BY <1>4, <1>5 DEF TypeInv

\* Types are kept by every step.
LEMMA NextType == TypeInv /\ [Next]_vars => TypeInv'
<1>1. ASSUME TypeInv, UNCHANGED vars PROVE TypeInv'
  BY <1>1 DEF TypeInv, TypeOK, ReceiveInBounds, SendersHoldFrames, vars, rxVars, txVars, taskVars
<1>. QED
  BY <1>1, ReceiveType, TransmitType, SendType DEF Next

\* Types are kept, however many tasks and callbacks send, whatever they send
\* and whatever arrives.
THEOREM TypeCorrect == Spec => []TypeOK
<1>1. TypeInv => TypeOK
  BY DEF TypeInv
<1>. QED
  BY InitType, NextType, <1>1, PTL DEF Spec

\* Every byte received is stored inside its frame, under no condition either.
THEOREM ReceivesInBounds == Spec => []ReceiveInBounds
<1>1. TypeInv => ReceiveInBounds
  BY DEF TypeInv
<1>. QED
  BY InitType, NextType, <1>1, PTL DEF Spec

-----------------------------------------------------------------------------
\* The port is sent to from one side only: from the receive callback, or by
\* tasks that send frames of their own.
OneSidedUse == Tasks = {} \/ (~CallbackForwards /\ CallbackReplies = {NULL})

PoolInv ==
  /\ TypeInv
  /\ NullNeverDereferenced
  /\ currentRxBuffer # NULL
  /\ MarksTellTheTruth
  /\ Tasks # {} => currentTxBuffer \notin RxBuffers

\* Finishing the current buffer takes its written mark and leaves the rest.
LEMMA FinishMarks ==
  ASSUME TypeOK, MarksTellTheTruth, currentRxBuffer # NULL
  PROVE  /\ Finish(status, currentRxBuffer) \in [Buffers -> Status]
         /\ \A b \in RxBuffers :
              /\ ~Finish(status, currentRxBuffer)[b].written
              /\ Finish(status, currentRxBuffer)[b].read = status[b].read
              /\ b # currentRxBuffer =>
                   Finish(status, currentRxBuffer)[b].valid = status[b].valid
<1>1. currentRxBuffer \in Buffers /\ RxBuffers \subseteq Buffers
  BY DEF TypeOK, Buffers
<1>. QED
  BY <1>1 DEF Finish, TypeOK, MarksTellTheTruth, Status

\* A frame is pushed: the transmitter holds at most one buffer, so that one of
\* the others is free, and it is the only one marked written.
LEMMA PushFrameClaims ==
  ASSUME TypeOK, MarksTellTheTruth, currentRxBuffer # NULL, NEW sc, PushFrame(sc)
  PROVE  \E marks \in [Buffers -> Status] :
           /\ currentRxBuffer' \in RxBuffers
           /\ ~status[currentRxBuffer'].read
           /\ lastValidRxBuffer' = currentRxBuffer
           /\ \A b \in RxBuffers :
                /\ marks[b].written <=> b = currentRxBuffer'
                /\ marks[b].read = status[b].read
                /\ b # currentRxBuffer => marks[b].valid = status[b].valid
           /\ (\E b \in RxBuffers :
                 b # currentRxBuffer /\ ~status[b].read /\ ~status[b].valid)
                => currentRxBuffer' # currentRxBuffer
           /\ \E f \in CallbackFrames(currentRxBuffer) : CallbackSend(f, marks)
<1> DEFINE done == Finish(status, currentRxBuffer)
           next == pDmxPortGetNextBuffer(done)
           marks == Claim(done, next)
<1>1. /\ done \in [Buffers -> Status]
      /\ \A b \in RxBuffers :
           /\ ~done[b].written
           /\ done[b].read = status[b].read
           /\ b # currentRxBuffer => done[b].valid = status[b].valid
  BY FinishMarks
<1>2. currentRxBuffer \in RxBuffers /\ done[currentRxBuffer].valid
  BY <1>1 DEF TypeOK, Finish, Buffers
<1>3. 0 \in RxBuffers /\ 1 \in RxBuffers
  BY SizeAssumption DEF RxBuffers
<1>4. ~status[0].read \/ ~status[1].read
  BY <1>3 DEF MarksTellTheTruth
<1>5. Unclaimed(done) # {}
  <2> HIDE DEF done
  <2>. QED
    BY <1>1, <1>3, <1>4 DEF Unclaimed
<1>6. next \in Unclaimed(done) /\ (Unused(done) # {} => next \in Unused(done))
  BY <1>5, NextBuffer
<1>7. next \in RxBuffers /\ ~status[next].read /\ next # NULL
  <2> HIDE DEF done, next
  <2>. QED
    BY <1>1, <1>6, UsageAssumption DEF Unclaimed, Buffers
<1>8. marks = [done EXCEPT ![next].written = TRUE]
  BY <1>7 DEF Claim
<1>9. /\ marks \in [Buffers -> Status]
      /\ \A b \in RxBuffers :
           /\ marks[b].written <=> b = next
           /\ marks[b].read = status[b].read
           /\ b # currentRxBuffer => marks[b].valid = status[b].valid
  <2> HIDE DEF done, next, marks
  <2>1. RxBuffers \subseteq Buffers
    BY DEF Buffers
  <2>. QED
    BY <1>1, <1>7, <1>8, <2>1 DEF Status
<1>10. ASSUME NEW b \in RxBuffers, b # currentRxBuffer, ~status[b].read, ~status[b].valid
       PROVE  next # currentRxBuffer
  <2> HIDE DEF done, next
  <2>1. b \in Unused(done)
    BY <1>1, <1>10 DEF Unused, Unclaimed
  <2>2. currentRxBuffer \notin Unused(done)
    BY <1>2 DEF Unused
  <2>. QED
    BY <1>6, <2>1, <2>2
<1>11. /\ lastValidRxBuffer' = currentRxBuffer
       /\ currentRxBuffer' = next
       /\ \E f \in CallbackFrames(currentRxBuffer) : CallbackSend(f, marks)
  BY DEF PushFrame
<1>. HIDE DEF done, next, marks
<1>. QED
  BY <1>7, <1>9, <1>10, <1>11

LEMMA PushFramePool ==
  ASSUME PoolInv, OneSidedUse, NEW sc, PushFrame(sc)
  PROVE  /\ currentRxBuffer' # NULL
         /\ MarksTellTheTruth'
         /\ Tasks # {} => currentTxBuffer' \notin RxBuffers
<1>. USE DEF PoolInv
<1>1. TypeOK
  BY DEF TypeInv
<1>2. PICK marks \in [Buffers -> Status] :
        /\ currentRxBuffer' \in RxBuffers
        /\ ~status[currentRxBuffer'].read
        /\ \A b \in RxBuffers :
             /\ marks[b].written <=> b = currentRxBuffer'
             /\ marks[b].read = status[b].read
        /\ \E f \in CallbackFrames(currentRxBuffer) : CallbackSend(f, marks)
  BY <1>1, PushFrameClaims
<1>3. currentRxBuffer' # NULL
  BY <1>2, UsageAssumption DEF Buffers
<1>4. PICK f \in CallbackFrames(currentRxBuffer) : CallbackSend(f, marks)
  BY <1>2
<1>5. CASE f = NULL \/ txState # "Idle"
  <2>1. status' = marks /\ txState' = txState /\ currentTxBuffer' = currentTxBuffer
    BY <1>4, <1>5 DEF CallbackSend, txVars
  <2>. QED
    BY <1>2, <1>3, <2>1 DEF MarksTellTheTruth
<1>6. CASE f # NULL /\ txState = "Idle"
  <2>1. /\ status' = [marks EXCEPT ![f].read = TRUE]
        /\ txState' = "Break"
        /\ currentTxBuffer' = f
    BY <1>4, <1>6 DEF CallbackSend
  <2>2. f \in Buffers /\ Tasks = {}
    BY <1>1, <1>4, <1>6, UsageAssumption DEF CallbackFrames, OneSidedUse, TypeOK, Buffers
  <2>3. ASSUME NEW b \in RxBuffers
        PROVE  /\ status'[b].written <=> b = currentRxBuffer'
               /\ status'[b].read <=> b = f
    <3>1. marks[b].read = FALSE
      BY <1>2, <1>6 DEF MarksTellTheTruth, TypeInv, TypeOK, Status, Buffers
    <3>2. status'[b].written = marks[b].written
      BY <2>1, <2>2 DEF Buffers, Status
    <3>3. status'[b].read = IF b = f THEN TRUE ELSE marks[b].read
      BY <2>1, <2>2 DEF Buffers, Status
    <3>. QED
      BY <1>2, <3>1, <3>2, <3>3
  <2>. QED
    BY <1>3, <2>1, <2>2, <2>3 DEF MarksTellTheTruth
<1>. QED
  BY <1>3, <1>5, <1>6

LEMMA ReceivePool ==
  ASSUME PoolInv, OneSidedUse, Receive
  PROVE  /\ NullNeverDereferenced'
         /\ currentRxBuffer' # NULL
         /\ MarksTellTheTruth'
         /\ Tasks # {} => currentTxBuffer' \notin RxBuffers
<1>. USE DEF PoolInv
<1>1. CASE \E sc : PushFrame(sc) /\ UNCHANGED nullDereference
  BY <1>1, PushFramePool DEF NullNeverDereferenced
<1>2. CASE UNCHANGED <<status, currentRxBuffer, txState, currentTxBuffer, nullDereference>>
  BY <1>2 DEF NullNeverDereferenced, MarksTellTheTruth
<1>3. \/ \E sc : PushFrame(sc) /\ UNCHANGED nullDereference
      \/ UNCHANGED <<status, currentRxBuffer, txState, currentTxBuffer, nullDereference>>
  <2>1. ASSUME NEW data \in Bytes, ReceiveStartCode(data) PROVE <1>3
    BY <2>1 DEF ReceiveStartCode, txVars
  <2>2. CASE ReceiveSlot
    BY <2>2 DEF ReceiveSlot, txVars
  <2>3. ASSUME NEW data \in Bytes, ReceiveRdm(data) PROVE <1>3
    BY <2>3 DEF ReceiveRdm, txVars
  <2>4. CASE ReceiveBreak
    BY <2>4 DEF ReceiveBreak, txVars
  <2>5. CASE ReceiveOverflow
    BY <2>5 DEF ReceiveOverflow, txVars
  <2>. QED
    BY <2>1, <2>2, <2>3, <2>4, <2>5 DEF Receive
<1>. QED
  BY <1>1, <1>2, <1>3

\* Ending a transmission gives the buffer back to the pool.
LEMMA EndTransmissionMarks ==
  ASSUME TypeOK, MarksTellTheTruth, vDmxEndTransmission, UNCHANGED <<currentRxBuffer, currentTxBuffer>>
  PROVE  /\ MarksTellTheTruth'
         /\ txState' = "Idle"
         /\ currentTxBuffer \in RxBuffers => ~status'[currentTxBuffer].valid
<1>1. RxBuffers \subseteq Buffers /\ NULL \notin RxBuffers
  BY UsageAssumption DEF Buffers
<1>2. CASE currentTxBuffer = NULL
  BY <1>1, <1>2 DEF vDmxEndTransmission, MarksTellTheTruth
<1>3. CASE currentTxBuffer # NULL
  <2>1. currentTxBuffer \in Buffers
    BY <1>3 DEF TypeOK
  <2>2. /\ status' = [status EXCEPT ![currentTxBuffer].valid = FALSE,
                                    ![currentTxBuffer].read = FALSE]
        /\ txState' = "Idle"
    BY <1>3 DEF vDmxEndTransmission
  <2>3. ASSUME NEW b \in RxBuffers
        PROVE  /\ status'[b].written = status[b].written
               /\ b = currentTxBuffer => ~status'[b].read /\ ~status'[b].valid
               /\ b # currentTxBuffer => status'[b] = status[b]
    BY <1>1, <2>1, <2>2 DEF TypeOK, Status
  <2>4. ASSUME NEW b \in RxBuffers
        PROVE  ~status'[b].read /\ (status'[b].written <=> b = currentRxBuffer)
    BY <2>3, <2>4 DEF MarksTellTheTruth
  <2>. QED
    BY <2>2, <2>3, <2>4 DEF MarksTellTheTruth
<1>. QED
  BY <1>2, <1>3

LEMMA TransmitPool ==
  ASSUME PoolInv, TransmitComplete
  PROVE  /\ NullNeverDereferenced'
         /\ currentRxBuffer' # NULL
         /\ MarksTellTheTruth'
         /\ Tasks # {} => currentTxBuffer' \notin RxBuffers
<1>. USE DEF PoolInv
<1>1. TypeOK
  BY DEF TypeInv
<1>2. UNCHANGED <<currentRxBuffer, currentTxBuffer, nullDereference>>
  BY DEF TransmitComplete, TransmitBreak, TransmitMark, TransmitStartCode, TransmitSlot,
         TransmitNothing, rxVars
<1>3. CASE vDmxEndTransmission
  BY <1>1, <1>2, <1>3, EndTransmissionMarks DEF NullNeverDereferenced
<1>4. CASE UNCHANGED status /\ txState # "Idle" /\ txState' # "Idle"
  BY <1>2, <1>4 DEF MarksTellTheTruth, NullNeverDereferenced
<1>5. \/ vDmxEndTransmission
      \/ UNCHANGED status /\ txState # "Idle" /\ txState' # "Idle"
  BY DEF TransmitComplete, TransmitBreak, TransmitMark, TransmitStartCode, TransmitSlot,
         TransmitNothing
<1>. QED
  BY <1>2, <1>3, <1>4, <1>5 DEF NullNeverDereferenced

\* A task touches the marks of its own frame only.
LEMMA SendPool ==
  ASSUME PoolInv, OneSidedUse,
         NEW t \in Tasks, SendStep(t) \/ \E f \in Frames : SendCheck(t, f)
  PROVE  /\ NullNeverDereferenced'
         /\ currentRxBuffer' # NULL
         /\ MarksTellTheTruth'
         /\ Tasks # {} => currentTxBuffer' \notin RxBuffers
<1>. USE DEF PoolInv
<1>1. UNCHANGED <<currentRxBuffer, nullDereference>>
  BY DEF SendStep, SendLoadStatus, SendMarkRead, SendSetState, SendTakePin, SendSetSlot,
         SendSetBuffer, SendArm, SendCheck, Advance, rxVars
<1>2. currentTxBuffer \notin RxBuffers
  OBVIOUS
<1>3. CASE SendMarkRead(t)
  <2>1. /\ status' = [status EXCEPT ![frame[t]] = [loaded[t] EXCEPT !.read = TRUE]]
        /\ UNCHANGED <<txState, currentTxBuffer>>
        /\ pc[t] = "store"
    BY <1>3 DEF SendMarkRead, Advance, txVars
  <2>2. frame[t] \notin RxBuffers
    BY <2>1, UsageAssumption DEF TypeInv, SendersHoldFrames
  <2>3. \A b \in RxBuffers : status'[b] = status[b]
    BY <2>1, <2>2 DEF TypeInv, TypeOK, Buffers
  <2>. QED
    BY <1>1, <1>2, <2>1, <2>3 DEF MarksTellTheTruth, NullNeverDereferenced
<1>4. CASE SendSetBuffer(t)
  <2>1. status' = status /\ currentTxBuffer' = frame[t] /\ pc[t] = "buffer"
    BY <1>4 DEF SendSetBuffer, Advance
  <2>2. frame[t] \notin RxBuffers
    BY <2>1, UsageAssumption DEF TypeInv, SendersHoldFrames
  <2>. QED
    BY <1>1, <1>2, <2>1, <2>2 DEF MarksTellTheTruth, NullNeverDereferenced
<1>5. CASE UNCHANGED <<status, currentTxBuffer>>
  BY <1>1, <1>2, <1>5 DEF MarksTellTheTruth, NullNeverDereferenced
<1>6. SendMarkRead(t) \/ SendSetBuffer(t) \/ UNCHANGED <<status, currentTxBuffer>>
  BY DEF SendStep, SendLoadStatus, SendSetState, SendTakePin, SendSetSlot, SendArm,
         SendCheck, txVars
<1>. QED
  BY <1>3, <1>4, <1>5, <1>6

LEMMA InitPool == Init => PoolInv
<1>1. ASSUME Init PROVE MarksTellTheTruth /\ currentRxBuffer # NULL
  <2>1. 0 \in RxBuffers /\ 0 # NULL /\ RxBuffers \subseteq Buffers
    BY SizeAssumption, UsageAssumption DEF RxBuffers, Buffers
  <2>2. status = [[b \in Buffers |-> Clear] EXCEPT ![0].written = TRUE]
    BY <1>1, <2>1 DEF Init, Claim
  <2>3. currentRxBuffer = 0 /\ txState = "Idle"
    BY <1>1 DEF Init
  <2>4. \A b \in RxBuffers : ~status[b].read /\ (status[b].written <=> b = 0)
    BY <2>1, <2>2 DEF Clear
  <2>. QED
    BY <2>1, <2>3, <2>4 DEF MarksTellTheTruth
<1>2. ASSUME Init PROVE NullNeverDereferenced /\ currentTxBuffer \notin RxBuffers
  BY <1>2, UsageAssumption DEF Init, NullNeverDereferenced, Buffers
<1>. QED
  BY <1>1, <1>2, InitType DEF PoolInv

LEMMA NextPool == OneSidedUse /\ PoolInv /\ [Next]_vars => PoolInv'
<1> SUFFICES ASSUME OneSidedUse, PoolInv, [Next]_vars
             PROVE  PoolInv'
  OBVIOUS
<1>1. TypeInv'
  BY NextType DEF PoolInv
<1>2. CASE Receive
  BY <1>1, <1>2, ReceivePool DEF PoolInv
<1>3. CASE TransmitComplete
  BY <1>1, <1>3, TransmitPool DEF PoolInv
<1>4. ASSUME NEW t \in Tasks, SendStep(t) \/ \E f \in Frames : SendCheck(t, f)
      PROVE  PoolInv'
  BY <1>1, <1>4, SendPool DEF PoolInv
<1>5. CASE UNCHANGED vars
  BY <1>1, <1>5 DEF PoolInv, NullNeverDereferenced, MarksTellTheTruth, vars, rxVars, txVars
<1>. QED
  BY <1>2, <1>3, <1>4, <1>5 DEF Next

\* With one-sided use a receive buffer is always found, for any number of
\* buffers from two on.
THEOREM ReceiverAlwaysHasABuffer == OneSidedUse /\ Spec => []NullNeverDereferenced
<1>1. PoolInv => NullNeverDereferenced
  BY DEF PoolInv
<1>2. ASSUME OneSidedUse PROVE Spec => []NullNeverDereferenced
  BY <1>1, <1>2, InitPool, NextPool, PTL DEF Spec
<1>. QED
  BY <1>2

\* And the marks on the buffers are those of the two sides.
THEOREM MarksAreKept == OneSidedUse /\ Spec => []MarksTellTheTruth
<1>1. PoolInv => MarksTellTheTruth
  BY DEF PoolInv
<1>2. ASSUME OneSidedUse PROVE Spec => []MarksTellTheTruth
  BY <1>1, <1>2, InitPool, NextPool, PTL DEF Spec
<1>. QED
  BY <1>2

-----------------------------------------------------------------------------
\* A task arms the port after it has said which frame to send, and the frame
\* is not taken back.
ServedInv ==
  /\ BusyPortIsServed
  /\ txcEnabled \/ (\E t \in Tasks : pc[t] = "arm") => currentTxBuffer # NULL

\* A receive step leaves the transmitter alone, or its callback starts it.
LEMMA ReceiveServes ==
  ASSUME TypeInv, ServedInv, Receive
  PROVE  ServedInv'
<1>1. UNCHANGED taskVars
  BY DEF Receive, ReceiveStartCode, ReceiveSlot, ReceiveRdm, ReceiveBreak, ReceiveOverflow,
         Fault
<1>2. ASSUME NEW sc, PushFrame(sc), currentRxBuffer # NULL
      PROVE  UNCHANGED txVars \/ (txcEnabled' /\ currentTxBuffer' # NULL)
  <2>1. PICK f, marks : CallbackSend(f, marks)
    BY <1>2 DEF PushFrame
  <2>. QED
    BY <2>1 DEF CallbackSend
<1>3. UNCHANGED txVars \/ (txcEnabled' /\ currentTxBuffer' # NULL)
  BY <1>2 DEF Receive, ReceiveStartCode, ReceiveSlot, ReceiveRdm, ReceiveBreak,
              ReceiveOverflow, Fault
<1>4. CASE UNCHANGED txVars
  BY <1>1, <1>4 DEF ServedInv, BusyPortIsServed, txVars, taskVars
<1>5. CASE txcEnabled' /\ currentTxBuffer' # NULL
  BY <1>5 DEF ServedInv, BusyPortIsServed
<1>. QED
  BY <1>3, <1>4, <1>5

LEMMA TransmitServes ==
  ASSUME TypeInv, ServedInv, TransmitComplete
  PROVE  ServedInv'
<1>1. UNCHANGED <<pc, currentTxBuffer>> /\ txcEnabled /\ currentTxBuffer # NULL
  BY DEF TransmitComplete, TransmitBreak, TransmitMark, TransmitStartCode, TransmitSlot,
         TransmitNothing, taskVars, ServedInv
<1>2. txcEnabled' \/ txState' = "Idle"
  BY <1>1 DEF TransmitComplete, TransmitBreak, TransmitMark, TransmitStartCode, TransmitSlot,
         TransmitNothing, vDmxEndTransmission
<1>. QED
  BY <1>1, <1>2 DEF ServedInv, BusyPortIsServed

LEMMA SendServes ==
  ASSUME TypeInv, ServedInv,
         NEW t \in Tasks, SendStep(t) \/ \E f \in Frames : SendCheck(t, f)
  PROVE  ServedInv'
<1>1. pc \in [Tasks -> Steps] /\ (pc[t] # "idle" => frame[t] # NULL)
  BY UsageAssumption DEF TypeInv, TypeOK, SendersHoldFrames, Buffers
<1>2. CASE \E f \in Frames : SendCheck(t, f)
  BY <1>1, <1>2 DEF SendCheck, Advance, ServedInv, BusyPortIsServed, txVars
<1>3. CASE SendLoadStatus(t)
  BY <1>1, <1>3 DEF SendLoadStatus, Advance, ServedInv, BusyPortIsServed, txVars
<1>4. CASE SendMarkRead(t)
  BY <1>1, <1>4 DEF SendMarkRead, Advance, ServedInv, BusyPortIsServed, txVars
<1>5. CASE SendSetState(t) \/ SendTakePin(t) \/ SendSetSlot(t)
  <2>1. pc'[t] \in {"pins", "slot", "buffer"} /\ \A u \in Tasks : pc'[u] = "arm" => pc[u] = "arm"
    BY <1>1, <1>5 DEF SendSetState, SendTakePin, SendSetSlot, Advance
  <2>. QED
    BY <1>5, <2>1 DEF SendSetState, SendTakePin, SendSetSlot, ServedInv, BusyPortIsServed
<1>6. CASE SendSetBuffer(t)
  <2>1. pc'[t] = "arm" /\ currentTxBuffer' # NULL
    BY <1>1, <1>6 DEF SendSetBuffer, Advance
  <2>. QED
    BY <2>1 DEF ServedInv, BusyPortIsServed
<1>7. CASE SendArm(t)
  <2>1. txcEnabled' /\ currentTxBuffer' = currentTxBuffer /\ pc[t] = "arm"
    BY <1>7 DEF SendArm, Advance
  <2>. QED
    BY <2>1 DEF ServedInv, BusyPortIsServed
<1>. QED
  BY <1>2, <1>3, <1>4, <1>5, <1>6, <1>7 DEF SendStep

\* However many tasks send at a time and whatever the callback does, a busy
\* port is never left disarmed with nobody about to arm it, and an armed one
\* knows what to send: the safety half of TransmissionEnds.
THEOREM ABusyPortIsServed == Spec => []BusyPortIsServed
<1>1. Init => TypeInv /\ ServedInv
  BY InitType DEF Init, ServedInv, BusyPortIsServed
<1>2. TypeInv /\ ServedInv /\ [Next]_vars => (TypeInv /\ ServedInv)'
  <2>1. ASSUME ServedInv, UNCHANGED vars PROVE ServedInv'
    BY <2>1 DEF ServedInv, BusyPortIsServed, vars, txVars, taskVars
  <2>. QED
    BY <2>1, NextType, ReceiveServes, TransmitServes, SendServes DEF Next
<1>3. TypeInv /\ ServedInv => BusyPortIsServed
  BY DEF ServedInv
<1>. QED
  BY <1>1, <1>2, <1>3, PTL DEF Spec

-----------------------------------------------------------------------------
\* The callback sends every frame it is given and nothing else.
RepeaterUse == Tasks = {} /\ CallbackForwards /\ CallbackReplies = {}

\* While the transmitter is idle some other buffer is unused, so that the
\* frame being pushed is not picked again before the callback sends it.
RepeaterInv ==
  /\ PoolInv
  /\ SentBufferNotOverwritten
  /\ txState # "Idle" => currentTxBuffer \in RxBuffers
  /\ txState = "Idle" =>
       \E b \in RxBuffers : b # currentRxBuffer /\ ~status[b].valid

\* Pushing a frame: the buffer being sent is neither picked nor emptied.
LEMMA PushFrameRepeater ==
  ASSUME RepeaterInv, RepeaterUse, NEW sc, PushFrame(sc)
  PROVE  /\ txState' # "Idle"
         /\ currentTxBuffer' \in RxBuffers
         /\ currentTxBuffer' # currentRxBuffer'
         /\ txState # "Idle" => currentRxBuffer' # currentTxBuffer
         /\ slotCount' = Empty(sc, currentRxBuffer')
<1>. USE DEF RepeaterInv, PoolInv
<1>1. TypeOK /\ currentRxBuffer \in RxBuffers
  BY DEF TypeInv, TypeOK
<1>2. PICK marks \in [Buffers -> Status] :
        /\ ~status[currentRxBuffer'].read
        /\ (\E b \in RxBuffers :
              b # currentRxBuffer /\ ~status[b].read /\ ~status[b].valid)
             => currentRxBuffer' # currentRxBuffer
        /\ \E f \in CallbackFrames(currentRxBuffer) : CallbackSend(f, marks)
  BY <1>1, PushFrameClaims
<1>3. CallbackSend(currentRxBuffer, marks)
  BY <1>2 DEF CallbackFrames, RepeaterUse
<1>4. slotCount' = Empty(sc, currentRxBuffer')
  BY DEF PushFrame
<1>5. CASE txState # "Idle"
  <2>1. txState' = txState /\ currentTxBuffer' = currentTxBuffer
    BY <1>3, <1>5 DEF CallbackSend, txVars
  <2>2. status[currentTxBuffer].read
    BY <1>5 DEF MarksTellTheTruth
  <2>. QED
    BY <1>2, <1>4, <1>5, <2>1, <2>2
<1>6. CASE txState = "Idle"
  <2>1. txState' = "Break" /\ currentTxBuffer' = currentRxBuffer
    BY <1>1, <1>3, <1>6 DEF CallbackSend
  <2>2. \E b \in RxBuffers : b # currentRxBuffer /\ ~status[b].read /\ ~status[b].valid
    BY <1>6 DEF MarksTellTheTruth
  <2>. QED
    BY <1>1, <1>2, <1>4, <1>6, <2>1, <2>2
<1>. QED
  BY <1>5, <1>6

\* Every receive step either pushes the bytes it has, or adds at most one byte
\* to the current buffer and leaves the two sides where they are.
LEMMA ReceiveShape ==
  ASSUME RepeaterInv, Receive
  PROVE  \E sc :
           /\ \A b \in RxBuffers : b # currentRxBuffer => sc[b] = slotCount[b]
           /\ \/ PushFrame(sc)
              \/ /\ slotCount' = sc
                 /\ UNCHANGED <<status, currentRxBuffer, txVars>>
<1> DEFINE P(sc) ==
      /\ \A b \in RxBuffers : b # currentRxBuffer => sc[b] = slotCount[b]
      /\ \/ PushFrame(sc)
         \/ /\ slotCount' = sc
            /\ UNCHANGED <<status, currentRxBuffer, txVars>>
    plus(n) == [slotCount EXCEPT ![currentRxBuffer] = n]
<1>1. slotCount \in [Buffers -> 0 .. DMX_MAX_SLOTS + 1] /\ RxBuffers \subseteq Buffers
  BY DEF RepeaterInv, PoolInv, TypeInv, TypeOK, Buffers
<1>2. ASSUME NEW n
      PROVE  \A b \in RxBuffers : b # currentRxBuffer => plus(n)[b] = slotCount[b]
  BY <1>1
<1>3. ASSUME NEW data \in Bytes, ReceiveStartCode(data) PROVE P(plus(1))
  <2>1. currentRxBuffer # NULL
    BY DEF RepeaterInv, PoolInv
  <2>. QED
    BY <1>2, <1>3, <2>1 DEF ReceiveStartCode
<1>4. ASSUME ReceiveSlot PROVE P(plus(slotCount[currentRxBuffer] + 1))
  BY <1>2, <1>4 DEF ReceiveSlot
<1>5. ASSUME NEW data \in Bytes, ReceiveRdm(data)
      PROVE  P(plus(slotCount[currentRxBuffer] + 1))
  BY <1>2, <1>5 DEF ReceiveRdm
<1>6. ASSUME ReceiveBreak PROVE P(slotCount)
  BY <1>6 DEF ReceiveBreak, Fault, rxVars
<1>7. ASSUME ReceiveOverflow PROVE P(slotCount)
  BY <1>7 DEF ReceiveOverflow
<1>. HIDE DEF P, plus
<1>8. \E sc : P(sc)
  BY <1>3, <1>4, <1>5, <1>6, <1>7 DEF Receive
<1>. QED
  BY <1>8 DEF P

\* What one step of a repeater does to the invariant, and to the count of the
\* frame being sent.
LEMMA RepeaterStep ==
  ASSUME RepeaterUse, RepeaterInv, [Next]_vars
  PROVE  /\ RepeaterInv'
         /\ txState # "Idle" /\ txState' # "Idle"
              => slotCount'[currentTxBuffer] = slotCount[currentTxBuffer]
<1>1. PoolInv'
  <2>1. OneSidedUse /\ PoolInv
    BY DEF RepeaterInv, RepeaterUse, OneSidedUse
  <2>. QED
    BY <2>1, NextPool, Zenon
<1>2. TypeOK /\ RxBuffers \subseteq Buffers /\ NULL \notin RxBuffers
  BY UsageAssumption DEF RepeaterInv, PoolInv, TypeInv, Buffers
<1>3. CASE Receive
  <2>1. PICK sc :
           /\ \A b \in RxBuffers : b # currentRxBuffer => sc[b] = slotCount[b]
           /\ \/ PushFrame(sc)
              \/ /\ slotCount' = sc
                 /\ UNCHANGED <<status, currentRxBuffer, txVars>>
    BY <1>3, ReceiveShape
  <2>2. CASE PushFrame(sc)
    <3>1. RepeaterInv'
      BY <1>1, <2>2, PushFrameRepeater DEF RepeaterInv, SentBufferNotOverwritten
    <3>2. ASSUME txState # "Idle" PROVE slotCount'[currentTxBuffer] = slotCount[currentTxBuffer]
      <4>1. currentRxBuffer' # currentTxBuffer /\ slotCount' = Empty(sc, currentRxBuffer')
        BY <2>2, <3>2, PushFrameRepeater
      <4>2. sc[currentTxBuffer] = slotCount[currentTxBuffer]
        BY <2>1, <3>2 DEF RepeaterInv, SentBufferNotOverwritten
      <4>. QED
        BY <4>1, <4>2 DEF Empty
    <3>. QED
      BY <3>1, <3>2
  <2>3. CASE slotCount' = sc /\ UNCHANGED <<status, currentRxBuffer, txVars>>
    BY <1>1, <2>1, <2>3 DEF RepeaterInv, SentBufferNotOverwritten, txVars
  <2>. QED
    BY <2>1, <2>2, <2>3
<1>4. CASE TransmitComplete
  <2>1. UNCHANGED <<currentRxBuffer, currentTxBuffer, slotCount>>
    BY <1>4 DEF TransmitComplete, TransmitBreak, TransmitMark, TransmitStartCode,
                TransmitSlot, TransmitNothing, rxVars
  <2>2. CASE vDmxEndTransmission
    <3>1. txState' = "Idle"
      BY <2>2 DEF vDmxEndTransmission
    <3>2. \A b \in RxBuffers : ~status[b].valid => ~status'[b].valid
      BY <1>2, <2>2 DEF vDmxEndTransmission, TypeOK, Status
    <3>3. CASE txState = "Idle"
      BY <1>1, <2>1, <3>1, <3>2, <3>3 DEF RepeaterInv, SentBufferNotOverwritten
    <3>4. CASE txState # "Idle"
      <4>1. /\ currentTxBuffer \in RxBuffers
            /\ currentTxBuffer # currentRxBuffer
            /\ ~status'[currentTxBuffer].valid
        BY <1>2, <2>1, <2>2, <3>4, EndTransmissionMarks
           DEF RepeaterInv, PoolInv, SentBufferNotOverwritten
      <4>. QED
        BY <1>1, <2>1, <3>1, <4>1 DEF RepeaterInv, SentBufferNotOverwritten
    <3>. QED
      BY <3>3, <3>4
  <2>3. CASE UNCHANGED status /\ txState # "Idle" /\ txState' # "Idle"
    BY <1>1, <2>1, <2>3 DEF RepeaterInv, SentBufferNotOverwritten
  <2>4. \/ vDmxEndTransmission
        \/ UNCHANGED status /\ txState # "Idle" /\ txState' # "Idle"
    BY <1>4 DEF TransmitComplete, TransmitBreak, TransmitMark, TransmitStartCode,
                TransmitSlot, TransmitNothing
  <2>. QED
    BY <2>2, <2>3, <2>4
<1>5. CASE UNCHANGED vars
  BY <1>1, <1>5 DEF RepeaterInv, SentBufferNotOverwritten, vars, rxVars, txVars
<1>. QED
  BY <1>3, <1>4, <1>5 DEF Next, RepeaterUse

LEMMA InitRepeater == Init => RepeaterInv
<1> SUFFICES ASSUME Init PROVE RepeaterInv
  OBVIOUS
<1>1. /\ 0 \in RxBuffers /\ 1 \in RxBuffers /\ 0 # NULL
      /\ RxBuffers \subseteq Buffers
  BY SizeAssumption, UsageAssumption DEF RxBuffers, Buffers
<1>2. status = [[b \in Buffers |-> Clear] EXCEPT ![0].written = TRUE]
  BY <1>1 DEF Init, Claim
<1>3. 1 # currentRxBuffer
  BY DEF Init
<1>4. status[1] = Clear
  BY <1>1, <1>2
<1>5. ~status[1].valid
  BY <1>4 DEF Clear
<1>. QED
  BY <1>1, <1>3, <1>5, InitPool DEF Init, RepeaterInv, SentBufferNotOverwritten

\* A port that repeats every frame never receives into the buffer it sends.
THEOREM RepeaterNeverOverwrites ==
  RepeaterUse /\ Spec => []SentBufferNotOverwritten
<1>1. RepeaterInv => SentBufferNotOverwritten
  BY DEF RepeaterInv
<1>2. RepeaterUse /\ RepeaterInv /\ [Next]_vars => RepeaterInv'
  BY RepeaterStep
<1>3. ASSUME RepeaterUse PROVE Spec => []SentBufferNotOverwritten
  BY <1>1, <1>2, <1>3, InitRepeater, PTL DEF Spec
<1>. QED
  BY <1>3

\* The frame it sends keeps the length it was received with.
THEOREM RepeaterSendsStableFrames ==
  RepeaterUse /\ Spec => SentFrameStable
<1> DEFINE Stable == txState # "Idle" /\ txState' # "Idle"
                       => slotCount'[currentTxBuffer] = slotCount[currentTxBuffer]
<1>1. RepeaterUse /\ RepeaterInv /\ [Next]_vars => RepeaterInv'
  BY RepeaterStep
<1>2. RepeaterUse /\ RepeaterInv /\ [Next]_vars => [Stable]_vars
  BY RepeaterStep
<1>3. ASSUME RepeaterUse PROVE Spec => [][Stable]_vars
  BY <1>1, <1>2, <1>3, InitRepeater, PTL DEF Spec
<1>. QED
  BY <1>3 DEF SentFrameStable
=============================================================================
