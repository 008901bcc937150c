-------------------------- MODULE SamMacTxLink_proofs --------------------------
(***************************************************************************)
(* Theorems about the other two parts of samx5xmac.c.                      *)
(*                                                                         *)
(* SamMacTx, for a ring and a pool of any size, any allocator, and a       *)
(* transmit interrupt between any two steps of the task.                   *)
(*                                                                         *)
(* SamMacLink, for any bound on the notifications and any sequence of      *)
(* answers from the PHY.                                                   *)
(***************************************************************************)
EXTENDS SamMacTx, SamMacLink, TLAPS

-----------------------------------------------------------------------------
(* Sending                                                                 *)

\* The call has its descriptor of the ring and has not filled it.
Filling == txpc \in {"loadHalt", "halt", "fill"}

\* What a call has in hand while it goes through xSAMx5xMAC_OutputFrame.
CallInv ==
  /\ txpc \notin {"idle", "previous"} => txDesc \in txStack
  /\ txpc \notin {"idle", "release", "previous"} => txBuffer[txDesc] # NoBuffer
  /\ txpc \in {"enable", "interrupts", "loadStart", "start", "detach"}
       => txAddress[txSlot] = txBuffer[txDesc]
  /\ txpc = "release" => txBuffer[txDesc] = NoBuffer
  /\ Filling => Used[txSlot] /\ previousBuffer = txAddress[txSlot]
  /\ txpc \in {"idle", "search"} => previousBuffer = NoBuffer
  /\ (zeroCopy /\ txpc # "idle") => xReleaseAfterSend
  /\ \A d \in TxDescriptors \ txStack : txBuffer[d] = NoBuffer

\* TxEveryBlockOnce, block by block.
Apart ==
  /\ \A x, y \in TxSlots : (txAddress[x] # NoBuffer /\ txAddress[x] = txAddress[y]) => x = y
  /\ \A d, e \in TxDescriptors : (txBuffer[d] # NoBuffer /\ txBuffer[d] = txBuffer[e]) => d = e
  /\ \A d \in TxDescriptors \ Sending, x \in TxSlots :
       txBuffer[d] # NoBuffer => txBuffer[d] # txAddress[x]

NotFree ==
  /\ \A x \in TxSlots : txAddress[x] \notin txHeap
  /\ \A d \in TxDescriptors : txBuffer[d] \notin txHeap

\* The block of the descriptor's last frame, from the call that takes it off
\* the ring to the one that gives it back.
Previous ==
  previousBuffer # NoBuffer =>
    /\ previousBuffer \notin txHeap
    /\ \A d \in TxDescriptors : txBuffer[d] # previousBuffer
    /\ ~Filling => \A x \in TxSlots : txAddress[x] # previousBuffer

NoneLost ==
  \A b \in TxBlocks : \/ b \in txHeap \/ b = previousBuffer
                      \/ \E x \in TxSlots : txAddress[x] = b
                      \/ \E d \in TxDescriptors : txBuffer[d] = b

TxMemoryInv == zeroCopy => Apart /\ NotFree /\ Previous /\ NoneLost

\* A frame the MAC is not done with is on a descriptor that is marked so.
WaitInv == \A b \in unsent : \E x \in TxSlots : ~Used[x] /\ txAddress[x] = b

TxInv == TxTypeOK /\ CallInv /\ TxMemoryInv /\ WaitInv

-----------------------------------------------------------------------------
(* What the steps do to the memory.                                        *)

LEMMA TxGiven ==
  ASSUME TxTypeOK, NEW d \in MayGive(TxDescriptors \ txStack), NEW b \in MayGive(txHeap)
  PROVE  d \in TxDescriptors /\ d \notin txStack /\ b \in txHeap /\ b \in TxBlocks /\ b # NoBuffer
<1>1. TxDescriptors \ txStack \in SUBSET TxDescriptors /\ txHeap \in SUBSET TxBlocks
  BY DEF TxTypeOK
<1>2. d \in TxDescriptors \ txStack /\ b \in txHeap
  BY <1>1, TxAssumption DEF TxAssumption
<1> QED
  BY <1>1, <1>2, TxAssumption DEF TxAssumption

\* A descriptor goes back, with its block if there is one on it.
LEMMA ReleaseFacts ==
  ASSUME TxTypeOK, NEW d \in txStack, Release(d)
  PROVE  /\ d \in TxDescriptors /\ txStack' = txStack \ {d}
         /\ txBuffer'[d] = NoBuffer
         /\ \A e \in TxDescriptors \ {d} : txBuffer'[e] = txBuffer[e]
         /\ txHeap' = txHeap \cup ({txBuffer[d]} \ {NoBuffer})
         /\ txBuffer' \in [TxDescriptors -> TxBlocks \cup {NoBuffer}]
         /\ txHeap' \subseteq TxBlocks
  BY DEF TxTypeOK, Release

LEMMA TxMemoryRelease ==
  ASSUME TxTypeOK, Apart, NotFree, NoneLost, previousBuffer = NoBuffer,
         NEW d \in txStack, Release(d), d \notin Sending, Sending' = {},
         Sending = {}, txAddress' = txAddress, previousBuffer' = NoBuffer
  PROVE  Apart' /\ NotFree' /\ Previous' /\ NoneLost'
<1>1. /\ d \in TxDescriptors /\ txBuffer'[d] = NoBuffer
      /\ \A e \in TxDescriptors \ {d} : txBuffer'[e] = txBuffer[e]
      /\ txHeap' = txHeap \cup ({txBuffer[d]} \ {NoBuffer})
  BY ReleaseFacts
<1>2. NoBuffer \notin TxBlocks /\ NoBuffer \notin txHeap
  BY TxAssumption DEF TxAssumption, TxTypeOK
<1>3. Apart'
  BY <1>1 DEF Apart
<1>4. NotFree'
  BY <1>1, <1>2 DEF NotFree, Apart
<1>5. NoneLost'
  BY <1>1, <1>2 DEF NoneLost
<1> QED
  BY <1>3, <1>4, <1>5 DEF Previous

LEMMA TxMemorySame ==
  ASSUME TxMemoryInv, UNCHANGED <<zeroCopy, memVars, previousBuffer>>,
         Sending' = Sending, Filling' <=> Filling
  PROVE  TxMemoryInv'
  BY DEF TxMemoryInv, Apart, NotFree, Previous, NoneLost, memVars

-----------------------------------------------------------------------------
(* Every step keeps the types.                                             *)

LEMMA TxTypeStep ==
  ASSUME TxTypeOK, CallInv, [TxNext]_txVars
  PROVE  TxTypeOK'
<1>0. ipconfigNUM_TX_BUFFERS \in Nat \ {0} /\ 0 \in TxSlots
  BY TxAssumption DEF TxAssumption, TxSlots
<1>00. \A x \in TxSlots : NextSlot(x) \in TxSlots
  BY <1>0 DEF TxSlots, NextSlot
<1> USE <1>0, <1>00 DEF TxTypeOK
<1>1. CASE TransmitComplete
  BY <1>1 DEF TransmitComplete, macVars, callVars, memVars
<1>2. CASE TransmitFails
  <2>1. \/ Used' = [Used EXCEPT ![tbqp] = TRUE] /\ unsent' = unsent \ {txAddress[tbqp]}
        \/ Used' = Used /\ unsent' = unsent
    BY <1>2 DEF TransmitFails
  <2>2. Used' \in [TxSlots -> BOOLEAN] /\ unsent' \subseteq TxBlocks
    BY <2>1
  <2> QED
    BY <1>2, <2>2 DEF TransmitFails, macVars, callVars, memVars
<1>3. CASE TransmitHalts
  BY <1>3 DEF TransmitHalts, macVars, callVars, memVars
<1>4. CASE vSAMx5xMAC_TransmitInterrupt
  BY <1>4 DEF vSAMx5xMAC_TransmitInterrupt, macVars, callVars, memVars
<1>5. CASE SendFrame
  <2>1. PICK d \in txStack, release \in {TRUE, zeroCopy} : xSAMx5xMAC_OutputFrame(d, release)
    BY <1>5 DEF SendFrame
  <2> QED
    BY <2>1 DEF xSAMx5xMAC_OutputFrame, macVars, memVars
<1>6. CASE GetNextTransmitBuffer
  BY <1>6 DEF GetNextTransmitBuffer, macVars, callVars, memVars
<1>7. CASE NoTransmitBuffer
  <2>1. CASE xReleaseAfterSend
    <3>1. txDesc \in txStack /\ Release(txDesc)
      BY <1>7, <2>1 DEF NoTransmitBuffer, CallInv
    <3>2. /\ txBuffer' \in [TxDescriptors -> TxBlocks \cup {NoBuffer}]
          /\ txHeap' \subseteq TxBlocks /\ txStack' = txStack \ {txDesc}
      BY <3>1, ReleaseFacts
    <3> QED
      BY <1>7, <3>2 DEF NoTransmitBuffer, Return, macVars
  <2>2. CASE ~xReleaseAfterSend
    BY <1>7, <2>2 DEF NoTransmitBuffer, Return, macVars
  <2> QED
    BY <2>1, <2>2
<1>8. CASE FillTransmitBuffer
  <2>1. txDesc \in TxDescriptors /\ txBuffer[txDesc] \in TxBlocks
    BY <1>8 DEF FillTransmitBuffer, CallInv
  <2> QED
    BY <1>8, <2>1 DEF FillTransmitBuffer
<1>9. CASE EnableTransmitter
  BY <1>9 DEF EnableTransmitter, macVars, callVars, memVars
<1>18. CASE LoadNCR
  BY <1>18 DEF LoadNCR, macVars, callVars, memVars
<1>19. CASE HaltTransmission
  BY <1>19 DEF HaltTransmission, macVars, callVars, memVars
<1>10. CASE EnableInterrupts
  BY <1>10 DEF EnableInterrupts, macVars, callVars, memVars
<1>11. CASE StartTransmission
  BY <1>11 DEF StartTransmission, macVars, callVars, memVars
<1>12. CASE DetachBlock
  BY <1>12 DEF DetachBlock, macVars, callVars, memVars
<1>13. CASE ReleaseDescriptor
  <2>1. txDesc \in txStack /\ Release(txDesc)
    BY <1>13 DEF ReleaseDescriptor, CallInv
  <2>2. /\ txBuffer' \in [TxDescriptors -> TxBlocks \cup {NoBuffer}]
        /\ txHeap' \subseteq TxBlocks /\ txStack' = txStack \ {txDesc}
    BY <2>1, ReleaseFacts
  <2> QED
    BY <1>13, <2>2 DEF ReleaseDescriptor, macVars
<1>14. CASE ReleasePrevious
  BY <1>14 DEF ReleasePrevious, Return, macVars, callVars, memVars
<1>15. CASE GetBuffer
  <2>1. PICK d \in MayGive(TxDescriptors \ txStack), b \in MayGive(txHeap) :
             /\ txStack' = txStack \cup {d}
             /\ txHeap' = txHeap \ {b}
             /\ txBuffer' = [txBuffer EXCEPT ![d] = b]
    BY <1>15 DEF GetBuffer
  <2>2. d \in TxDescriptors /\ b \in TxBlocks
    BY TxGiven
  <2> QED
    BY <1>15, <2>1, <2>2 DEF GetBuffer, macVars, callVars
<1>16. CASE ReleaseBuffer
  <2>1. PICK d \in txStack : Release(d)
    BY <1>16 DEF ReleaseBuffer
  <2>2. /\ txBuffer' \in [TxDescriptors -> TxBlocks \cup {NoBuffer}]
        /\ txHeap' \subseteq TxBlocks /\ txStack' = txStack \ {d}
    BY <2>1, ReleaseFacts
  <2> QED
    BY <1>16, <2>2 DEF ReleaseBuffer, macVars, callVars
<1>17. CASE UNCHANGED txVars
  BY <1>17 DEF txVars, macVars, callVars, memVars
<1> QED
  BY <1>1, <1>2, <1>3, <1>4, <1>5, <1>6, <1>7, <1>8, <1>9, <1>10, <1>11, <1>12, <1>13, <1>14, <1>15, <1>16, <1>17,
     <1>18, <1>19 DEF TxNext, TxTask

-----------------------------------------------------------------------------
(* What a call has in hand.                                                *)

LEMMA CallStep ==
  ASSUME TxTypeOK, CallInv, [TxNext]_txVars
  PROVE  CallInv'
<1> USE DEF CallInv, Filling
<1>1. CASE TransmitComplete
  <2>1. tbqp \in TxSlots /\ txSlot \in TxSlots /\ Used' = [Used EXCEPT ![tbqp] = TRUE]
    BY <1>1 DEF TransmitComplete, TxTypeOK
  <2>2. Used[txSlot] => Used'[txSlot]
    BY <2>1 DEF TxTypeOK
  <2> QED
    BY <1>1, <2>2 DEF TransmitComplete, callVars, memVars
<1>2. CASE TransmitFails
  <2>1. tbqp \in TxSlots /\ txSlot \in TxSlots
    BY DEF TxTypeOK
  <2>2. Used' = [Used EXCEPT ![tbqp] = TRUE] \/ Used' = Used
    BY <1>2 DEF TransmitFails
  <2>3. Used[txSlot] => Used'[txSlot]
    BY <2>1, <2>2 DEF TxTypeOK
  <2> QED
    BY <1>2, <2>3 DEF TransmitFails, callVars, memVars
<1>3. CASE TransmitHalts
  BY <1>3 DEF TransmitHalts, macVars, callVars, memVars
<1>4. CASE vSAMx5xMAC_TransmitInterrupt
  BY <1>4 DEF vSAMx5xMAC_TransmitInterrupt, macVars, callVars, memVars
<1>5. CASE SendFrame
  <2>1. PICK d \in txStack, release \in {TRUE, zeroCopy} : xSAMx5xMAC_OutputFrame(d, release)
    BY <1>5 DEF SendFrame
  <2>2. zeroCopy => release
    BY <2>1
  <2>3. zeroCopy' = zeroCopy /\ (zeroCopy' => xReleaseAfterSend')
    BY <2>1, <2>2, Zenon DEF xSAMx5xMAC_OutputFrame
  <2>4. /\ txpc' = "search" /\ txDesc' = d /\ txBuffer[d] # NoBuffer /\ previousBuffer = NoBuffer
        /\ UNCHANGED <<previousBuffer, txBuffer, txStack>>
    BY <2>1 DEF xSAMx5xMAC_OutputFrame, memVars
  <2> QED
    BY <2>1, <2>3, <2>4
<1>6. CASE GetNextTransmitBuffer
  BY <1>6 DEF GetNextTransmitBuffer, macVars, callVars, memVars
<1>7. CASE NoTransmitBuffer
  <2>1. txpc' = "idle" /\ previousBuffer' = NoBuffer /\ zeroCopy' = zeroCopy
    BY <1>7 DEF NoTransmitBuffer, Return
  <2>2. \A d \in TxDescriptors \ txStack' : txBuffer'[d] = NoBuffer
    <3>1. CASE xReleaseAfterSend
      <4>1. txDesc \in txStack /\ Release(txDesc)
        BY <1>7, <3>1 DEF NoTransmitBuffer
      <4>2. /\ txStack' = txStack \ {txDesc} /\ txBuffer'[txDesc] = NoBuffer
            /\ \A e \in TxDescriptors \ {txDesc} : txBuffer'[e] = txBuffer[e]
        BY <4>1, ReleaseFacts
      <4> QED
        BY <4>2
    <3>2. CASE ~xReleaseAfterSend
      BY <1>7, <3>2 DEF NoTransmitBuffer
    <3> QED
      BY <3>1, <3>2
  <2> QED
    BY <2>1, <2>2
<1>8. CASE FillTransmitBuffer
  <2>1. txSlot \in TxSlots /\ txAddress'[txSlot] = txBuffer[txDesc]
    BY <1>8 DEF FillTransmitBuffer, TxTypeOK
  <2> QED
    BY <1>8, <2>1 DEF FillTransmitBuffer
<1>9. CASE EnableTransmitter
  BY <1>9 DEF EnableTransmitter, macVars, callVars, memVars
<1>18. CASE LoadNCR
  BY <1>18 DEF LoadNCR, macVars, callVars, memVars
<1>19. CASE HaltTransmission
  BY <1>19 DEF HaltTransmission, macVars, callVars, memVars
<1>10. CASE EnableInterrupts
  BY <1>10 DEF EnableInterrupts, macVars, callVars, memVars
<1>11. CASE StartTransmission
  BY <1>11 DEF StartTransmission, macVars, callVars, memVars
<1>12. CASE DetachBlock
  <2>1. txDesc \in TxDescriptors /\ txBuffer' = [txBuffer EXCEPT ![txDesc] = NoBuffer]
    BY <1>12 DEF DetachBlock, TxTypeOK
  <2>2. /\ txBuffer'[txDesc] = NoBuffer
        /\ \A e \in TxDescriptors : txBuffer[e] = NoBuffer => txBuffer'[e] = NoBuffer
    BY <2>1 DEF TxTypeOK
  <2> QED
    BY <1>12, <2>2 DEF DetachBlock, macVars
<1>13. CASE ReleaseDescriptor
  <2>1. txDesc \in txStack /\ Release(txDesc)
    BY <1>13 DEF ReleaseDescriptor
  <2>2. /\ txStack' = txStack \ {txDesc} /\ txBuffer'[txDesc] = NoBuffer
        /\ \A e \in TxDescriptors \ {txDesc} : txBuffer'[e] = txBuffer[e]
    BY <2>1, ReleaseFacts
  <2> QED
    BY <1>13, <2>2 DEF ReleaseDescriptor, macVars
<1>14. CASE ReleasePrevious
  BY <1>14 DEF ReleasePrevious, Return, macVars, callVars, memVars
<1>15. CASE GetBuffer
  <2>1. PICK d \in MayGive(TxDescriptors \ txStack), b \in MayGive(txHeap) :
             /\ txStack' = txStack \cup {d}
             /\ txHeap' = txHeap \ {b}
             /\ txBuffer' = [txBuffer EXCEPT ![d] = b]
    BY <1>15 DEF GetBuffer
  <2>2. d \in TxDescriptors /\ d \notin txStack /\ b \in TxBlocks /\ b # NoBuffer /\ b \in txHeap
    BY TxGiven
  <2>3. /\ txBuffer'[d] = b
        /\ \A e \in TxDescriptors \ {d} : txBuffer'[e] = txBuffer[e]
    BY <2>1, <2>2 DEF TxTypeOK
  <2> QED
    BY <1>15, <2>1, <2>2, <2>3 DEF GetBuffer, macVars, callVars
<1>16. CASE ReleaseBuffer
  <2>1. PICK d \in txStack : Release(d)
    BY <1>16 DEF ReleaseBuffer
  <2>2. /\ txStack' = txStack \ {d} /\ txBuffer'[d] = NoBuffer
        /\ \A e \in TxDescriptors \ {d} : txBuffer'[e] = txBuffer[e]
    BY <2>1, ReleaseFacts
  <2> QED
    BY <1>16, <2>2 DEF ReleaseBuffer, macVars, callVars
<1>17. CASE UNCHANGED txVars
  BY <1>17 DEF txVars, macVars, callVars, memVars
<1> QED
  BY <1>1, <1>2, <1>3, <1>4, <1>5, <1>6, <1>7, <1>8, <1>9, <1>10, <1>11, <1>12, <1>13, <1>14, <1>15, <1>16, <1>17,
     <1>18, <1>19 DEF TxNext, TxTask

-----------------------------------------------------------------------------
(* Every block is on one place.                                            *)

LEMMA TxMemoryStep ==
  ASSUME TxTypeOK, CallInv, TxMemoryInv, [TxNext]_txVars
  PROVE  TxMemoryInv'
<1> USE DEF Filling
<1>1. CASE TransmitComplete
  BY <1>1, TxMemorySame DEF TransmitComplete, macVars, callVars, memVars, Sending
<1>2. CASE TransmitFails
  BY <1>2, TxMemorySame DEF TransmitFails, macVars, callVars, memVars, Sending
<1>3. CASE TransmitHalts
  BY <1>3, TxMemorySame DEF TransmitHalts, macVars, callVars, memVars, Sending
<1>4. CASE vSAMx5xMAC_TransmitInterrupt
  BY <1>4, TxMemorySame DEF vSAMx5xMAC_TransmitInterrupt, macVars, callVars, memVars, Sending
<1>5. CASE SendFrame
  <2>1. PICK d \in txStack, release \in {TRUE, zeroCopy} : xSAMx5xMAC_OutputFrame(d, release)
    BY <1>5 DEF SendFrame
  <2> QED
    BY <2>1, TxMemorySame DEF xSAMx5xMAC_OutputFrame, Sending, macVars, memVars
<1>6. CASE GetNextTransmitBuffer
  <2>1. CASE Used[txSlot] /\ txpc' = "loadHalt" /\ previousBuffer' = txAddress[txSlot]
    <3>1. /\ UNCHANGED <<zeroCopy, memVars>> /\ txSlot \in TxSlots
          /\ Sending = {} /\ Sending' = {} /\ previousBuffer = NoBuffer
      BY <1>6 DEF GetNextTransmitBuffer, CallInv, TxTypeOK, Sending
    <3>2. NoBuffer \notin TxBlocks
      BY TxAssumption DEF TxAssumption
    <3> QED
      BY <2>1, <3>1, <3>2 DEF TxMemoryInv, Apart, NotFree, Previous, NoneLost, memVars
  <2>2. CASE UNCHANGED <<txpc, previousBuffer>>
    BY <1>6, <2>2, TxMemorySame DEF GetNextTransmitBuffer, Sending
  <2> QED
    BY <1>6, <2>1, <2>2 DEF GetNextTransmitBuffer
<1>7. CASE NoTransmitBuffer
  <2> SUFFICES ASSUME zeroCopy, zeroCopy' PROVE Apart' /\ NotFree' /\ Previous' /\ NoneLost'
    BY <1>7 DEF TxMemoryInv, NoTransmitBuffer
  <2>1. xReleaseAfterSend /\ txpc = "search" /\ txpc' = "idle" /\ txDesc \in txStack /\ Release(txDesc)
    BY <1>7 DEF NoTransmitBuffer, Return, CallInv
  <2>2. Sending = {} /\ Sending' = {}
    BY <2>1 DEF Sending
  <2>3. txAddress' = txAddress /\ previousBuffer = NoBuffer /\ previousBuffer' = NoBuffer
    BY <1>7, <2>1 DEF NoTransmitBuffer, Return, CallInv
  <2> QED
    BY <2>1, <2>2, <2>3, TxMemoryRelease DEF TxMemoryInv
<1>8. CASE FillTransmitBuffer
  <2> SUFFICES ASSUME zeroCopy, zeroCopy' PROVE Apart' /\ NotFree' /\ Previous' /\ NoneLost'
    BY <1>8 DEF TxMemoryInv, FillTransmitBuffer
  <2>1. /\ txDesc \in TxDescriptors /\ txSlot \in TxSlots
        /\ txBuffer[txDesc] # NoBuffer /\ previousBuffer = txAddress[txSlot]
    BY <1>8 DEF FillTransmitBuffer, CallInv, TxTypeOK
  <2>2. Sending = {} /\ Sending' = {txDesc}
    BY <1>8 DEF FillTransmitBuffer, Sending
  <2>3. /\ txAddress'[txSlot] = txBuffer[txDesc]
        /\ \A x \in TxSlots \ {txSlot} : txAddress'[x] = txAddress[x]
    BY <1>8, <2>1 DEF FillTransmitBuffer, TxTypeOK
  <2>4. UNCHANGED <<txBuffer, txHeap, previousBuffer>> /\ ~Filling'
    BY <1>8 DEF FillTransmitBuffer
  <2>5. Apart'
    BY <2>1, <2>2, <2>3, <2>4 DEF TxMemoryInv, Apart
  <2>6. NotFree'
    BY <2>1, <2>3, <2>4 DEF TxMemoryInv, NotFree
  <2>7. Previous'
    BY <2>1, <2>3, <2>4 DEF TxMemoryInv, Previous, Apart
  <2>8. NoneLost'
    BY <2>1, <2>3, <2>4 DEF TxMemoryInv, NoneLost
  <2> QED
    BY <2>5, <2>6, <2>7, <2>8
<1>9. CASE EnableTransmitter
  BY <1>9, TxMemorySame DEF EnableTransmitter, macVars, callVars, memVars, Sending
<1>18. CASE LoadNCR
  BY <1>18, TxMemorySame DEF LoadNCR, macVars, callVars, memVars, Sending
<1>19. CASE HaltTransmission
  BY <1>19, TxMemorySame DEF HaltTransmission, macVars, callVars, memVars, Sending
<1>10. CASE EnableInterrupts
  BY <1>10, TxMemorySame DEF EnableInterrupts, macVars, callVars, memVars, Sending
<1>11. CASE StartTransmission
  <2> SUFFICES ASSUME zeroCopy' PROVE TxMemoryInv'
    BY DEF TxMemoryInv
  <2>1. xReleaseAfterSend /\ txpc = "start" /\ txpc' = "detach"
    BY <1>11 DEF StartTransmission, CallInv
  <2> QED
    BY <1>11, <2>1, TxMemorySame DEF StartTransmission, Sending
<1>12. CASE DetachBlock
  <2> SUFFICES ASSUME zeroCopy, zeroCopy' PROVE Apart' /\ NotFree' /\ Previous' /\ NoneLost'
    BY <1>12 DEF TxMemoryInv, DetachBlock
  <2>1. /\ txDesc \in TxDescriptors /\ txSlot \in TxSlots
        /\ txAddress[txSlot] = txBuffer[txDesc]
    BY <1>12 DEF DetachBlock, CallInv, TxTypeOK
  <2>2. Sending = {txDesc} /\ Sending' = {}
    BY <1>12 DEF DetachBlock, Sending
  <2>3. /\ txBuffer'[txDesc] = NoBuffer
        /\ \A d \in TxDescriptors \ {txDesc} : txBuffer'[d] = txBuffer[d]
    BY <1>12, <2>1 DEF DetachBlock, TxTypeOK
  <2>4. UNCHANGED <<txAddress, txHeap, previousBuffer>> /\ ~Filling
    BY <1>12 DEF DetachBlock
  <2>5. NoBuffer \notin txHeap
    BY TxAssumption DEF TxAssumption, TxTypeOK
  <2>6. Apart'
    BY <2>1, <2>2, <2>3, <2>4 DEF TxMemoryInv, Apart
  <2>7. NotFree'
    BY <2>3, <2>4, <2>5 DEF TxMemoryInv, NotFree
  <2>8. Previous'
    BY <2>3, <2>4 DEF TxMemoryInv, Previous
  <2>9. NoneLost'
    BY <2>1, <2>3, <2>4 DEF TxMemoryInv, NoneLost
  <2> QED
    BY <2>6, <2>7, <2>8, <2>9
<1>13. CASE ReleaseDescriptor
  <2> SUFFICES ASSUME zeroCopy, zeroCopy' PROVE Apart' /\ NotFree' /\ Previous' /\ NoneLost'
    BY <1>13 DEF TxMemoryInv, ReleaseDescriptor
  <2>1. txDesc \in txStack /\ Release(txDesc) /\ txBuffer[txDesc] = NoBuffer
    BY <1>13 DEF ReleaseDescriptor, CallInv
  <2>2. Sending = {} /\ Sending' = {} /\ ~Filling
    BY <1>13 DEF ReleaseDescriptor, Sending
  <2>3. UNCHANGED <<txAddress, previousBuffer>>
    BY <1>13 DEF ReleaseDescriptor
  <2>4. txDesc \in TxDescriptors /\ txHeap' = txHeap
    BY <2>1, ReleaseFacts
  <2>5. \A d \in TxDescriptors : txBuffer'[d] = txBuffer[d]
    BY <2>1, ReleaseFacts
  <2> QED
    BY <2>2, <2>3, <2>4, <2>5 DEF TxMemoryInv, Apart, NotFree, Previous, NoneLost
<1>14. CASE ReleasePrevious
  <2> SUFFICES ASSUME zeroCopy, zeroCopy' PROVE Apart' /\ NotFree' /\ Previous' /\ NoneLost'
    BY <1>14 DEF TxMemoryInv, ReleasePrevious
  <2>1. /\ Sending = {} /\ Sending' = {} /\ ~Filling
        /\ previousBuffer' = NoBuffer
        /\ txHeap' = txHeap \cup ({previousBuffer} \ {NoBuffer})
        /\ UNCHANGED <<txAddress, txBuffer>>
    BY <1>14 DEF ReleasePrevious, Return, Sending
  <2>2. NoBuffer \notin TxBlocks
    BY TxAssumption DEF TxAssumption
  <2>3. Apart'
    BY <2>1 DEF TxMemoryInv, Apart
  <2>4. NotFree'
    BY <2>1 DEF TxMemoryInv, NotFree, Previous
  <2>5. NoneLost'
    BY <2>1, <2>2 DEF TxMemoryInv, NoneLost
  <2> QED
    BY <2>1, <2>3, <2>4, <2>5 DEF Previous
<1>15. CASE GetBuffer
  <2> SUFFICES ASSUME zeroCopy, zeroCopy' PROVE Apart' /\ NotFree' /\ Previous' /\ NoneLost'
    BY <1>15 DEF TxMemoryInv, GetBuffer
  <2>1. PICK d \in MayGive(TxDescriptors \ txStack), b \in MayGive(txHeap) :
             /\ txStack' = txStack \cup {d}
             /\ txHeap' = txHeap \ {b}
             /\ txBuffer' = [txBuffer EXCEPT ![d] = b]
    BY <1>15 DEF GetBuffer
  <2>2. d \in TxDescriptors /\ d \notin txStack /\ b \in TxBlocks /\ b # NoBuffer /\ b \in txHeap
    BY TxGiven
  <2>3. /\ txBuffer'[d] = b
        /\ \A e \in TxDescriptors \ {d} : txBuffer'[e] = txBuffer[e]
    BY <2>1, <2>2 DEF TxTypeOK
  <2>4. /\ Sending = {} /\ Sending' = {} /\ previousBuffer = NoBuffer
        /\ UNCHANGED <<txAddress, previousBuffer>>
    BY <1>15 DEF GetBuffer, CallInv, Sending, callVars
  <2>5. txBuffer[d] = NoBuffer
    BY <2>2 DEF CallInv
  <2>6. Apart'
    BY <2>1, <2>2, <2>3, <2>4 DEF TxMemoryInv, Apart, NotFree
  <2>7. NotFree'
    BY <2>1, <2>2, <2>3, <2>4 DEF TxMemoryInv, NotFree
  <2>8. NoneLost'
    <3> SUFFICES ASSUME NEW a \in TxBlocks
                 PROVE  \/ a \in txHeap' \/ a = previousBuffer'
                        \/ \E x \in TxSlots : txAddress'[x] = a
                        \/ \E e \in TxDescriptors : txBuffer'[e] = a
      BY DEF NoneLost
    <3>1. CASE a = b
      BY <3>1, <2>2, <2>3
    <3>2. CASE a # b /\ \E e \in TxDescriptors : txBuffer[e] = a
      <4>1. PICK e \in TxDescriptors : txBuffer[e] = a
        BY <3>2
      <4>2. e # d
        BY <4>1, <2>5, TxAssumption DEF TxAssumption
      <4> QED
        BY <4>1, <4>2, <2>3
    <3>3. CASE a # b /\ ~(\E e \in TxDescriptors : txBuffer[e] = a)
      BY <3>3, <2>1, <2>4 DEF TxMemoryInv, NoneLost
    <3> QED
      BY <3>1, <3>2, <3>3
  <2> QED
    BY <2>4, <2>6, <2>7, <2>8 DEF Previous
<1>16. CASE ReleaseBuffer
  <2> SUFFICES ASSUME zeroCopy, zeroCopy' PROVE Apart' /\ NotFree' /\ Previous' /\ NoneLost'
    BY <1>16 DEF TxMemoryInv, ReleaseBuffer
  <2>1. PICK d \in txStack : Release(d)
    BY <1>16 DEF ReleaseBuffer
  <2>2. /\ Sending = {} /\ Sending' = {} /\ previousBuffer = NoBuffer
        /\ UNCHANGED <<txAddress, previousBuffer>>
    BY <1>16 DEF ReleaseBuffer, CallInv, Sending, callVars
  <2>3. Apart /\ NotFree /\ NoneLost /\ d \notin Sending /\ previousBuffer' = NoBuffer /\ txAddress' = txAddress
    BY <2>2 DEF TxMemoryInv
  <2> QED
    BY <2>1, <2>2, <2>3, TxMemoryRelease
<1>17. CASE UNCHANGED txVars
  BY <1>17, TxMemorySame DEF txVars, callVars, Sending
<1> QED
  BY <1>1, <1>2, <1>3, <1>4, <1>5, <1>6, <1>7, <1>8, <1>9, <1>10, <1>11, <1>12, <1>13, <1>14, <1>15, <1>16, <1>17,
     <1>18, <1>19 DEF TxNext, TxTask

-----------------------------------------------------------------------------
(* A frame that waits is in the ring.                                      *)

LEMMA WaitStep ==
  ASSUME TxTypeOK, CallInv, WaitInv, [TxNext]_txVars
  PROVE  WaitInv'
<1> USE DEF WaitInv, Filling
<1>1. CASE TransmitComplete
  <2>1. tbqp \in TxSlots
    BY DEF TxTypeOK
  <2>2. /\ \A x \in TxSlots \ {tbqp} : Used'[x] = Used[x]
        /\ unsent' = unsent \ {txAddress[tbqp]} /\ txAddress' = txAddress
    BY <1>1, <2>1 DEF TransmitComplete, TxTypeOK, memVars
  <2> QED
    BY <2>1, <2>2
<1>2. CASE TransmitFails
  <2>1. tbqp \in TxSlots
    BY DEF TxTypeOK
  <2>2. txAddress' = txAddress
    BY <1>2 DEF TransmitFails, memVars
  <2>3. CASE Used' = [Used EXCEPT ![tbqp] = TRUE] /\ unsent' = unsent \ {txAddress[tbqp]}
    <3>1. \A x \in TxSlots \ {tbqp} : Used'[x] = Used[x]
      BY <2>1, <2>3 DEF TxTypeOK
    <3> QED
      BY <2>1, <2>2, <2>3, <3>1
  <2>4. CASE UNCHANGED <<Used, unsent>>
    BY <2>2, <2>4
  <2> QED
    BY <1>2, <2>3, <2>4 DEF TransmitFails
<1>3. CASE TransmitHalts
  BY <1>3 DEF TransmitHalts, macVars, callVars, memVars
<1>4. CASE vSAMx5xMAC_TransmitInterrupt
  BY <1>4 DEF vSAMx5xMAC_TransmitInterrupt, macVars, callVars, memVars
<1>5. CASE SendFrame
  BY <1>5 DEF SendFrame, xSAMx5xMAC_OutputFrame, macVars, callVars, memVars
<1>6. CASE GetNextTransmitBuffer
  BY <1>6 DEF GetNextTransmitBuffer, macVars, callVars, memVars
<1>7. CASE NoTransmitBuffer
  BY <1>7 DEF NoTransmitBuffer, Return, Release, macVars, callVars, memVars
<1>8. CASE FillTransmitBuffer
  <2>1. txSlot \in TxSlots /\ Used[txSlot]
    BY <1>8 DEF FillTransmitBuffer, CallInv, TxTypeOK
  <2>2. /\ ~Used'[txSlot] /\ txAddress'[txSlot] = txBuffer[txDesc]
        /\ \A x \in TxSlots \ {txSlot} : Used'[x] = Used[x] /\ txAddress'[x] = txAddress[x]
        /\ unsent' = unsent \cup {txBuffer[txDesc]}
    BY <1>8, <2>1 DEF FillTransmitBuffer, TxTypeOK
  <2> QED
    BY <2>1, <2>2
<1>9. CASE EnableTransmitter
  BY <1>9 DEF EnableTransmitter, macVars, callVars, memVars
<1>18. CASE LoadNCR
  BY <1>18 DEF LoadNCR, macVars, callVars, memVars
<1>19. CASE HaltTransmission
  BY <1>19 DEF HaltTransmission, macVars, callVars, memVars
<1>10. CASE EnableInterrupts
  BY <1>10 DEF EnableInterrupts, macVars, callVars, memVars
<1>11. CASE StartTransmission
  BY <1>11 DEF StartTransmission, macVars, callVars, memVars
<1>12. CASE DetachBlock
  BY <1>12 DEF DetachBlock, macVars, callVars, memVars
<1>13. CASE ReleaseDescriptor
  BY <1>13 DEF ReleaseDescriptor, Release, macVars, callVars, memVars
<1>14. CASE ReleasePrevious
  BY <1>14 DEF ReleasePrevious, Return, macVars, callVars, memVars
<1>15. CASE GetBuffer
  BY <1>15 DEF GetBuffer, macVars, callVars, memVars
<1>16. CASE ReleaseBuffer
  BY <1>16 DEF ReleaseBuffer, Release, macVars, callVars, memVars
<1>17. CASE UNCHANGED txVars
  BY <1>17 DEF txVars, macVars, callVars, memVars
<1> QED
  BY <1>1, <1>2, <1>3, <1>4, <1>5, <1>6, <1>7, <1>8, <1>9, <1>10, <1>11, <1>12, <1>13, <1>14, <1>15, <1>16, <1>17,
     <1>18, <1>19 DEF TxNext, TxTask

-----------------------------------------------------------------------------
(* Theorems.                                                               *)

LEMMA InitTx == TxInit => TxInv
<1> SUFFICES ASSUME TxInit PROVE TxInv
  OBVIOUS
<1>0. 0 \in TxSlots /\ NoBuffer \notin TxBlocks /\ NoBuffer \notin TxDescriptors
  BY TxAssumption DEF TxAssumption, TxSlots
<1> USE DEF TxInit, Filling
<1>1. TxTypeOK
  BY <1>0 DEF TxTypeOK
<1>2. CallInv
  BY DEF CallInv
<1>3. TxMemoryInv
  BY <1>0 DEF TxMemoryInv, Apart, NotFree, Previous, NoneLost
<1>4. WaitInv
  BY DEF WaitInv
<1> QED
  BY <1>1, <1>2, <1>3, <1>4 DEF TxInv

\* The invariant is inductive over the steps of MAC, interrupt and sender.
THEOREM TxInvariance == TxSpec => []TxInv
<1>1. TxInv /\ [TxNext]_txVars => TxInv'
  BY TxTypeStep, CallStep, TxMemoryStep, WaitStep DEF TxInv
<1> QED
  BY InitTx, <1>1, PTL DEF TxSpec

\* Every variable keeps its type.
THEOREM TxTypeCorrect == TxSpec => []TxTypeOK
<1>1. TxInv => TxTypeOK
  BY DEF TxInv
<1> QED
  BY TxInvariance, <1>1, PTL

\* With a zero-copy stack, every block is free, on a network buffer, in the
\* ring, or on its way from the ring to the heap, and only in one of these.
THEOREM TxBlocksAreKept == TxSpec => []TxEveryBlockOnce
<1>1. TxInv => TxEveryBlockOnce
  <2> SUFFICES ASSUME TxInv, zeroCopy PROVE TxEveryBlockOnce
    BY DEF TxEveryBlockOnce
  <2> DEFINE out == {d \in TxDescriptors \ Sending : txBuffer[d] # NoBuffer}
             ring == {x \in TxSlots : txAddress[x] # NoBuffer}
  <2>0. Apart /\ NotFree /\ Previous /\ NoneLost
    BY DEF TxInv, TxMemoryInv
  <2>1. /\ \A x, y \in ring : txAddress[x] = txAddress[y] => x = y
        /\ \A x \in ring : txAddress[x] \notin txHeap
        /\ \A d \in out : txBuffer[d] \notin txHeap
        /\ \A d \in out, x \in ring : txBuffer[d] # txAddress[x]
        /\ \A d, e \in out : txBuffer[d] = txBuffer[e] => d = e
    BY <2>0 DEF Apart, NotFree
  <2>2. ASSUME NEW b \in TxBlocks \ txHeap
        PROVE  b \in {txAddress[x] : x \in ring} \cup {txBuffer[d] : d \in out}
                       \cup ({previousBuffer} \ {NoBuffer})
    <3>1. b # NoBuffer
      BY TxAssumption DEF TxAssumption
    <3>2. CASE b = previousBuffer \/ \E x \in TxSlots : txAddress[x] = b
      BY <3>1, <3>2
    <3>3. CASE \E d \in TxDescriptors : txBuffer[d] = b
      <4>1. PICK d \in TxDescriptors : txBuffer[d] = b
        BY <3>3
      <4>2. CASE d \in Sending
        <5>1. txAddress[txSlot] = b /\ txSlot \in TxSlots
          BY <4>1, <4>2 DEF TxInv, CallInv, TxTypeOK, Sending
        <5> QED
          BY <3>1, <5>1
      <4>3. CASE d \notin Sending
        BY <3>1, <4>1, <4>3
      <4> QED
        BY <4>2, <4>3
    <3> QED
      BY <2>0, <3>2, <3>3 DEF NoneLost
  <2>3. {txAddress[x] : x \in ring} \cup {txBuffer[d] : d \in out}
          \cup ({previousBuffer} \ {NoBuffer}) \subseteq TxBlocks \ txHeap
    BY <2>0 DEF TxInv, TxTypeOK, NotFree, Previous
  <2>4. TxBlocks \ txHeap = {txAddress[x] : x \in ring} \cup {txBuffer[d] : d \in out}
                              \cup ({previousBuffer} \ {NoBuffer})
    BY <2>2, <2>3
  <2> QED
    BY <2>1, <2>4 DEF TxEveryBlockOnce
<1> QED
  BY TxInvariance, <1>1, PTL

\* No block is given back while the MAC still has to send it.
THEOREM UnsentAreKept == TxSpec => []NoneFreeUnsent
<1>1. TxInv => NoneFreeUnsent
  BY DEF TxInv, TxMemoryInv, NotFree, WaitInv, NoneFreeUnsent
<1> QED
  BY TxInvariance, <1>1, PTL

-----------------------------------------------------------------------------
(* The link                                                                *)

\* What the receiver's enable bit is when nobody stored an old copy of it.
ReceiverInv ==
  ~undone => (RXEN <=> IF phypc = "flag" THEN news.status ELSE LinkIsUp)

Seen(p) == wasUp[p] <=> isUp[p]

\* How far one round of the maintenance task has brought the driver's view.
GenericInv ==
  phy = "generic" =>
    /\ phypc \notin {"port1", "port2"}
    /\ phypc # "rest" => news.next = "rest"
    /\ (phypc # "rest" \/ negotiated) => Seen(1)
    /\ phypc \in {"store", "flag"} => (news.status <=> wasUp[1] /\ compatible)
    /\ phypc \in {"rest", "give"} => (LinkIsUp <=> wasUp[1] /\ compatible)

SwitchInv ==
  phy = "ksz9893" =>
    /\ phypc = "rest" => /\ Seen(1) /\ Seen(2)
                         /\ LinkIsUp <=> isUp[1] \/ isUp[2]
    /\ phypc = "port1" => (LinkIsUp <=> wasUp[1] \/ wasUp[2])
    /\ phypc = "port2" => /\ Seen(1)
                          /\ Seen(2) => (LinkIsUp <=> isUp[1] \/ isUp[2])
                          /\ (isUp[1] /\ ~isUp[2]) => LinkIsUp
    /\ (phypc \in {"store", "flag"} /\ news.next = "port2") =>
         Seen(1) /\ (news.status <=> isUp[1]) /\ (isUp[1] \/ ~isUp[2])
    /\ (phypc = "give" /\ news.next = "port2") =>
         Seen(1) /\ isUp[1] /\ LinkIsUp
    /\ (phypc \in {"store", "flag"} /\ news.next = "rest") =>
         Seen(1) /\ Seen(2) /\ (news.status <=> isUp[2]) /\ (isUp[2] \/ ~isUp[1])
    /\ (phypc = "give" /\ news.next = "rest") =>
         Seen(1) /\ Seen(2) /\ isUp[2] /\ LinkIsUp

LinkInv == LinkTypeOK /\ ReceiverInv /\ GenericInv /\ SwitchInv

-----------------------------------------------------------------------------
(* Every step keeps the types.                                             *)

LEMMA InitLink == LinkInit => LinkInv
<1> SUFFICES ASSUME LinkInit PROVE LinkInv
  OBVIOUS
<1> USE LinkAssumption DEF LinkInit, Ports, NoNews
<1>0. 0 \in 0 .. MaxNotifications
  BY DEF LinkAssumption
<1>1. LinkTypeOK
  BY <1>0 DEF LinkTypeOK
<1>2. ReceiverInv
  BY DEF ReceiverInv
<1>3. GenericInv
  BY DEF GenericInv, Seen
<1>4. SwitchInv
  BY DEF SwitchInv, Seen
<1> QED
  BY <1>1, <1>2, <1>3, <1>4 DEF LinkInv

LEMMA LinkTypeStep == LinkTypeOK /\ [LinkNext]_linkVars => LinkTypeOK'
<1> SUFFICES ASSUME LinkTypeOK, [LinkNext]_linkVars PROVE LinkTypeOK'
  OBVIOUS
<1> USE LinkAssumption DEF LinkTypeOK, Ports
<1>1. CASE CreateTasks
  BY <1>1 DEF CreateTasks, ipVars, portVars
<1>2. CASE TasksCreated
  BY <1>2 DEF TasksCreated, ipVars, portVars
<1>3. CASE InitializeAgain
  BY <1>3 DEF InitializeAgain, ipVars, portVars
<1>4. CASE TakeNotification
  BY <1>4 DEF TakeNotification, ipVars, portVars
<1>5. CASE TestLink
  BY <1>5 DEF TestLink, ipVars, portVars
<1>6. CASE Retry
  BY <1>6 DEF Retry, ipVars, portVars
<1>7. CASE OutputLoadsNCR
  BY <1>7 DEF OutputLoadsNCR, ipVars, portVars
<1>8. CASE OutputStoresNCR
  BY <1>8 DEF OutputStoresNCR, ipVars, portVars
<1>9. CASE LinkStoresRXEN
  BY <1>9 DEF LinkStoresRXEN, ipVars, portVars, NoNews
<1>10. CASE SetLinkIsUp
  <2>1. news.status \in BOOLEAN /\ news.next \in {"rest", "port2"}
    OBVIOUS
  <2>2. /\ LinkIsUp' = news.status
        /\ phypc' = "give" \/ phypc' = news.next
        /\ news' = news \/ news' = NoNews
        /\ UNCHANGED <<portVars, ipVars, notified, RXEN, undone>>
    BY <1>10 DEF SetLinkIsUp
  <2>3. LinkIsUp' \in BOOLEAN
    BY <2>1, <2>2
  <2> HIDE DEF LinkTypeOK
  <2>4. phypc' \in {"rest", "port1", "port2", "store", "flag", "give"}
    BY <2>1, <2>2
  <2>5. NoNews \in [status : BOOLEAN, next : {"rest", "port2"}]
    BY DEF NoNews
  <2>6. news' \in [status : BOOLEAN, next : {"rest", "port2"}]
    BY <2>2, <2>5 DEF LinkTypeOK
  <2> QED
    BY <2>2, <2>3, <2>4, <2>6 DEF ipVars, portVars, LinkTypeOK
<1>11. CASE GiveNotification
  BY <1>11 DEF GiveNotification, ipVars, portVars, NoNews
<1>12. ASSUME NEW status \in BOOLEAN, NEW complete \in BOOLEAN, NEW agree \in BOOLEAN,
              GenericStatus(status, complete, agree)
       PROVE  LinkTypeOK'
  BY <1>12 DEF GenericStatus, ipVars, portVars
<1>13. ASSUME NEW status1 \in BOOLEAN, NEW status2 \in BOOLEAN, KSZ9893Read(status1, status2)
       PROVE  LinkTypeOK'
  BY <1>13 DEF KSZ9893Read, ipVars, portVars
<1>14. ASSUME NEW p \in Ports, KSZ9893Port(p)
       PROVE  LinkTypeOK'
  BY <1>14 DEF KSZ9893Port, At, After, ipVars, portVars
<1>15. CASE UNCHANGED linkVars
  BY <1>15 DEF linkVars, ipVars, portVars
<1> QED
  BY <1>1, <1>2, <1>3, <1>4, <1>5, <1>6, <1>7, <1>8, <1>9, <1>10, <1>11, <1>12, <1>13, <1>14, <1>15
     DEF LinkNext, InitializeStep, LinkStatusChanged

-----------------------------------------------------------------------------
(* The receiver: only a store of an old copy parts RXEN from the link.     *)

LEMMA ReceiverStep == LinkTypeOK /\ ReceiverInv /\ [LinkNext]_linkVars => ReceiverInv'
<1> SUFFICES ASSUME LinkTypeOK, ReceiverInv, [LinkNext]_linkVars PROVE ReceiverInv'
  OBVIOUS
<1> USE DEF LinkTypeOK, ReceiverInv, Ports
<1>1. CASE CreateTasks
  BY <1>1 DEF CreateTasks, ipVars, portVars
<1>2. CASE TasksCreated
  BY <1>2 DEF TasksCreated, ipVars, portVars
<1>3. CASE InitializeAgain
  BY <1>3 DEF InitializeAgain, ipVars, portVars
<1>4. CASE TakeNotification
  BY <1>4 DEF TakeNotification, ipVars, portVars
<1>5. CASE TestLink
  BY <1>5 DEF TestLink, ipVars, portVars
<1>6. CASE Retry
  BY <1>6 DEF Retry, ipVars, portVars
<1>7. CASE OutputLoadsNCR
  BY <1>7 DEF OutputLoadsNCR, ipVars, portVars
<1>8. CASE OutputStoresNCR
  BY <1>8 DEF OutputStoresNCR, ipVars, portVars
<1>9. CASE LinkStoresRXEN
  BY <1>9 DEF LinkStoresRXEN, ipVars, portVars, NoNews
<1>10. CASE SetLinkIsUp
  BY <1>10 DEF SetLinkIsUp, ipVars, portVars, NoNews
<1>11. CASE GiveNotification
  BY <1>11 DEF GiveNotification, ipVars, portVars, NoNews
<1>12. ASSUME NEW status \in BOOLEAN, NEW complete \in BOOLEAN, NEW agree \in BOOLEAN,
              GenericStatus(status, complete, agree)
       PROVE  ReceiverInv'
  BY <1>12 DEF GenericStatus, ipVars, portVars
<1>13. ASSUME NEW status1 \in BOOLEAN, NEW status2 \in BOOLEAN, KSZ9893Read(status1, status2)
       PROVE  ReceiverInv'
  BY <1>13 DEF KSZ9893Read, ipVars, portVars
<1>14. ASSUME NEW p \in Ports, KSZ9893Port(p)
       PROVE  ReceiverInv'
  BY <1>14 DEF KSZ9893Port, At, After, ipVars, portVars
<1>15. CASE UNCHANGED linkVars
  BY <1>15 DEF linkVars, ipVars, portVars
<1> QED
  BY <1>1, <1>2, <1>3, <1>4, <1>5, <1>6, <1>7, <1>8, <1>9, <1>10, <1>11, <1>12, <1>13, <1>14, <1>15
     DEF LinkNext, InitializeStep, LinkStatusChanged

-----------------------------------------------------------------------------
(* The round of the maintenance task.                                      *)

LEMMA GenericStep == LinkInv /\ [LinkNext]_linkVars => GenericInv'
<1> SUFFICES ASSUME LinkInv, [LinkNext]_linkVars PROVE GenericInv'
  OBVIOUS
<1> USE DEF LinkInv, LinkTypeOK, GenericInv, Seen, Ports
<1>1. CASE CreateTasks
  BY <1>1 DEF CreateTasks, ipVars, portVars
<1>2. CASE TasksCreated
  BY <1>2 DEF TasksCreated, ipVars, portVars
<1>3. CASE InitializeAgain
  BY <1>3 DEF InitializeAgain, ipVars, portVars
<1>4. CASE TakeNotification
  BY <1>4 DEF TakeNotification, ipVars, portVars
<1>5. CASE TestLink
  BY <1>5 DEF TestLink, ipVars, portVars
<1>6. CASE Retry
  BY <1>6 DEF Retry, ipVars, portVars
<1>7. CASE OutputLoadsNCR
  BY <1>7 DEF OutputLoadsNCR, ipVars, portVars
<1>8. CASE OutputStoresNCR
  BY <1>8 DEF OutputStoresNCR, ipVars, portVars
<1>9. CASE LinkStoresRXEN
  BY <1>9 DEF LinkStoresRXEN, ipVars, portVars, NoNews
<1>10. CASE SetLinkIsUp
  BY <1>10 DEF SetLinkIsUp, ipVars, portVars, NoNews
<1>11. CASE GiveNotification
  BY <1>11 DEF GiveNotification, ipVars, portVars, NoNews
<1>12. ASSUME NEW status \in BOOLEAN, NEW complete \in BOOLEAN, NEW agree \in BOOLEAN,
              GenericStatus(status, complete, agree)
       PROVE  GenericInv'
  BY <1>12 DEF GenericStatus, ipVars, portVars
<1>13. ASSUME NEW status1 \in BOOLEAN, NEW status2 \in BOOLEAN, KSZ9893Read(status1, status2)
       PROVE  GenericInv'
  BY <1>13 DEF KSZ9893Read, ipVars, portVars
<1>14. ASSUME NEW p \in Ports, KSZ9893Port(p)
       PROVE  GenericInv'
  BY <1>14 DEF KSZ9893Port, At, After, ipVars, portVars
<1>15. CASE UNCHANGED linkVars
  BY <1>15 DEF linkVars, ipVars, portVars
<1> QED
  BY <1>1, <1>2, <1>3, <1>4, <1>5, <1>6, <1>7, <1>8, <1>9, <1>10, <1>11, <1>12, <1>13, <1>14, <1>15
     DEF LinkNext, InitializeStep, LinkStatusChanged

LEMMA SwitchStep == LinkInv /\ [LinkNext]_linkVars => SwitchInv'
<1> SUFFICES ASSUME LinkInv, [LinkNext]_linkVars PROVE SwitchInv'
  OBVIOUS
<1> USE DEF LinkInv, LinkTypeOK, SwitchInv, Seen, Ports
<1>1. CASE CreateTasks
  BY <1>1 DEF CreateTasks, ipVars, portVars
<1>2. CASE TasksCreated
  BY <1>2 DEF TasksCreated, ipVars, portVars
<1>3. CASE InitializeAgain
  BY <1>3 DEF InitializeAgain, ipVars, portVars
<1>4. CASE TakeNotification
  BY <1>4 DEF TakeNotification, ipVars, portVars
<1>5. CASE TestLink
  BY <1>5 DEF TestLink, ipVars, portVars
<1>6. CASE Retry
  BY <1>6 DEF Retry, ipVars, portVars
<1>7. CASE OutputLoadsNCR
  BY <1>7 DEF OutputLoadsNCR, ipVars, portVars
<1>8. CASE OutputStoresNCR
  BY <1>8 DEF OutputStoresNCR, ipVars, portVars
<1>9. CASE LinkStoresRXEN
  BY <1>9 DEF LinkStoresRXEN, ipVars, portVars, NoNews
<1>10. CASE SetLinkIsUp
  BY <1>10 DEF SetLinkIsUp, ipVars, portVars, NoNews
<1>11. CASE GiveNotification
  BY <1>11 DEF GiveNotification, ipVars, portVars, NoNews
<1>12. ASSUME NEW status \in BOOLEAN, NEW complete \in BOOLEAN, NEW agree \in BOOLEAN,
              GenericStatus(status, complete, agree)
       PROVE  SwitchInv'
  BY <1>12 DEF GenericStatus, ipVars, portVars
<1>13. ASSUME NEW status1 \in BOOLEAN, NEW status2 \in BOOLEAN, KSZ9893Read(status1, status2)
       PROVE  SwitchInv'
  BY <1>13 DEF KSZ9893Read, ipVars, portVars
<1>14. ASSUME NEW p \in Ports, KSZ9893Port(p)
       PROVE  SwitchInv'
  BY <1>14 DEF KSZ9893Port, At, After, ipVars, portVars
<1>15. CASE UNCHANGED linkVars
  BY <1>15 DEF linkVars, ipVars, portVars
<1> QED
  BY <1>1, <1>2, <1>3, <1>4, <1>5, <1>6, <1>7, <1>8, <1>9, <1>10, <1>11, <1>12, <1>13, <1>14, <1>15
     DEF LinkNext, InitializeStep, LinkStatusChanged

-----------------------------------------------------------------------------
(* Theorems.                                                               *)

\* The invariant is inductive over the steps of the IP task and of both
\* maintenance tasks.
THEOREM LinkInvariance == LinkSpec => []LinkInv
<1>1. LinkInv /\ [LinkNext]_linkVars => LinkInv'
  BY LinkTypeStep, ReceiverStep, GenericStep, SwitchStep DEF LinkInv
<1> QED
  BY InitLink, <1>1, PTL DEF LinkSpec

\* Every variable keeps its type, and the notifications their bound.
THEOREM LinkTypeCorrect == LinkSpec => []LinkTypeOK
<1>1. LinkInv => LinkTypeOK
  BY DEF LinkInv
<1> QED
  BY LinkInvariance, <1>1, PTL

\* Between two rounds of the maintenance task the link is what the ports were
\* when they were read last, whatever changed together (ksz9893.c:107-137).
THEOREM LinkIsThatOfThePorts == LinkSpec => []LinkFollowsPorts
<1>1. LinkInv => LinkFollowsPorts
  BY DEF LinkInv, LinkTypeOK, GenericInv, SwitchInv, LinkFollowsPorts, Seen, Ports
<1> QED
  BY LinkInvariance, <1>1, PTL

\* A driver that believes in a link and does not listen, or the other way
\* round, has had its NCR overwritten with an old copy (samx5xmac.c:446).
THEOREM OnlyStaleStoreDeafens == LinkSpec => []DeafOnlyAfterStaleStore
<1>1. LinkInv => DeafOnlyAfterStaleStore
  BY DEF LinkInv, LinkTypeOK, ReceiverInv, DeafOnlyAfterStaleStore
<1> QED
  BY LinkInvariance, <1>1, PTL
================================================================================
