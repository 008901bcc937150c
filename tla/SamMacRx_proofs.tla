---------------------------- MODULE SamMacRx_proofs ----------------------------
(***************************************************************************)
(* Theorems about SamMacRx, for a ring, a pool and an event queue of any   *)
(* size, any allocator, and a MAC that may fill a descriptor between any   *)
(* two stores of the receive task.                                         *)
(***************************************************************************)
EXTENDS SamMacRx, FiniteSetTheorems, TLAPS

\* The receive task has a network buffer from the call that gets it to the
\* one that passes it on.
HandInv ==
  pxDescriptor # NULL <=> rxpc \in {"swap", "load", "store", "consider"}

\* A network buffer is in one place.
NoRepeats(s) == \A i, j \in 1 .. Len(s) : s[i] = s[j] => i = j

PlaceInv ==
  /\ NoRepeats(queue)
  /\ Queued \cap stack = {}
  /\ pxDescriptor \notin Queued \cup stack

\* RxEveryBlockOnce, block by block.
MemoryInv ==
  /\ \A x, y \in Slots : address[x] = address[y] => x = y
  /\ \A d \in Descriptors, x \in Slots : pucEthernetBuffer[d] # address[x]
  /\ \A d, e \in Descriptors :
       (pucEthernetBuffer[d] # NULL /\ pucEthernetBuffer[d] = pucEthernetBuffer[e]) => d = e
  /\ \A x \in Slots : address[x] \notin heap
  /\ \A d \in Descriptors : pucEthernetBuffer[d] \notin heap
  /\ \A d \in Descriptors : pucEthernetBuffer[d] # NULL <=> d \in Queued \cup stack \cup InHand
  /\ \A b \in Blocks : \/ b \in heap
                       \/ \E x \in Slots : address[x] = b
                       \/ \E d \in Descriptors : pucEthernetBuffer[d] = b

\* A descriptor that is marked filled, or whose mark the task is about to put
\* back, has a frame; so has what the task took out.
FrameInv ==
  /\ \A x \in Slots : Ownership[x] => address[x] \in unread
  /\ rxpc \in {"get", "swap"} => Ownership[slot]
  /\ (rxpc = "store" /\ word) => address[slot] \in unread
  /\ rxpc \in {"load", "store", "consider"} => pucEthernetBuffer[pxDescriptor] \in unread

PointerInv ==
  /\ BackPointerIsRight
  /\ rxpc = "consider" => pxDescriptor \in backPointer

\* The Wrap bit is on the last descriptor, unless the task holds it back.
Last == ipconfigNUM_RX_BUFFERS - 1

WrapInv ==
  /\ \A x \in Slots : Wrap[x] <=> (x = Last /\ ~(rxpc \in {"load", "store"} /\ slot = x))
  /\ rxpc \in {"load", "store"} => (temp_wrap <=> slot = Last)

RxInv ==
  /\ RxTypeOK
  /\ HandInv /\ PlaceInv /\ MemoryInv /\ FrameInv /\ PointerInv /\ WrapInv

-----------------------------------------------------------------------------
(* Sequences and allocators.                                               *)

LEMMA TailFacts ==
  ASSUME NEW S, NEW s \in Seq(S), s # <<>>, NoRepeats(s)
  PROVE  /\ Head(s) \in S /\ Tail(s) \in Seq(S)
         /\ Len(Tail(s)) = Len(s) - 1
         /\ NoRepeats(Tail(s))
         /\ \E i \in 1 .. Len(s) : s[i] = Head(s)
         /\ {Tail(s)[i] : i \in 1 .. Len(Tail(s))} = {s[i] : i \in 1 .. Len(s)} \ {Head(s)}
<1> DEFINE t == Tail(s)
<1>1. /\ t \in Seq(S) /\ Len(t) = Len(s) - 1 /\ Head(s) = s[1]
      /\ Len(s) \in Nat /\ Len(s) >= 1 /\ s[1] \in S
      /\ \A i \in 1 .. Len(t) : t[i] = s[i + 1]
  OBVIOUS
<1> HIDE DEF t
<1>2. NoRepeats(t)
  BY <1>1 DEF NoRepeats
<1>3. \A i \in 1 .. Len(t) : t[i] \in {s[j] : j \in 1 .. Len(s)} /\ t[i] # Head(s)
  BY <1>1 DEF NoRepeats
<1>4. ASSUME NEW i \in 1 .. Len(s), s[i] # Head(s)
      PROVE  s[i] \in {t[j] : j \in 1 .. Len(t)}
  <2>1. i - 1 \in 1 .. Len(t) /\ t[i - 1] = s[i]
    BY <1>1, <1>4
  <2> QED
    BY <2>1
<1>5. {t[i] : i \in 1 .. Len(t)} = {s[i] : i \in 1 .. Len(s)} \ {Head(s)}
  BY <1>3, <1>4
<1>6. \E i \in 1 .. Len(s) : s[i] = Head(s)
  BY <1>1
<1> QED
  BY <1>1, <1>2, <1>5, <1>6 DEF t

LEMMA AppendFacts ==
  ASSUME NEW S, NEW s \in Seq(S), NEW e \in S
  PROVE  /\ Append(s, e) \in Seq(S)
         /\ Len(Append(s, e)) = Len(s) + 1
         /\ {Append(s, e)[i] : i \in 1 .. Len(Append(s, e))} = {s[i] : i \in 1 .. Len(s)} \cup {e}
         /\ (NoRepeats(s) /\ \A i \in 1 .. Len(s) : s[i] # e) => NoRepeats(Append(s, e))
<1> DEFINE t == Append(s, e)
<1>1. /\ t \in Seq(S) /\ Len(t) = Len(s) + 1 /\ Len(s) \in Nat
      /\ t[Len(s) + 1] = e
      /\ \A i \in 1 .. Len(s) : t[i] = s[i]
  OBVIOUS
<1> HIDE DEF t
<1>2. (NoRepeats(s) /\ \A i \in 1 .. Len(s) : s[i] # e) => NoRepeats(t)
  BY <1>1 DEF NoRepeats
<1>3. {s[i] : i \in 1 .. Len(s)} \cup {e} \subseteq {t[i] : i \in 1 .. Len(t)}
  BY <1>1
<1>4. {t[i] : i \in 1 .. Len(t)} \subseteq {s[i] : i \in 1 .. Len(s)} \cup {e}
  BY <1>1
<1> QED
  BY <1>1, <1>2, <1>3, <1>4 DEF t

LEMMA QueuedType == RxTypeOK => Queued \subseteq Descriptors
  BY DEF RxTypeOK, Queued

LEMMA QueueTail ==
  ASSUME RxTypeOK, PlaceInv, ReceiveEvent
  PROVE  /\ NoRepeats(queue') /\ Queued' = Queued \ {Head(queue)} /\ Head(queue) \in Queued
         /\ stack' = stack \cup {Head(queue)} /\ pxDescriptor' = pxDescriptor
<1>1. queue \in Seq(Descriptors) /\ queue # <<>>
  BY DEF ReceiveEvent, RxTypeOK
<1>2. queue' = Tail(queue) /\ stack' = stack \cup {Head(queue)} /\ pxDescriptor' = pxDescriptor
  BY DEF ReceiveEvent
<1>3. NoRepeats(queue)
  BY DEF PlaceInv
<1>4. NoRepeats(queue')
  BY <1>1, <1>2, <1>3, TailFacts
<1>5. Queued' = {queue'[i] : i \in 1 .. Len(queue')}
  BY DEF Queued
<1>6. Queued' = Queued \ {Head(queue)} /\ Head(queue) \in Queued
  <2>1. /\ {Tail(queue)[i] : i \in 1 .. Len(Tail(queue))} =
             {queue[i] : i \in 1 .. Len(queue)} \ {Head(queue)}
        /\ Head(queue) \in {queue[i] : i \in 1 .. Len(queue)}
    BY <1>1, <1>3, TailFacts
  <2>2. Queued' = {Tail(queue)[i] : i \in 1 .. Len(Tail(queue))}
    BY <1>2, <1>5
  <2> QED BY <2>1, <2>2, Zenon DEF Queued
<1> QED
  BY <1>2, <1>4, <1>6

\* What the allocators give is free.
LEMMA Given ==
  ASSUME RxTypeOK, MemoryInv, NEW d \in Gives(FreeDescriptors), NEW b \in Gives(heap)
  PROVE  /\ d \in Descriptors /\ d # NULL
         /\ d \notin Queued /\ d \notin stack /\ d \notin InHand
         /\ b \in heap /\ b \in Blocks /\ b # NULL
<1>1. FreeDescriptors \in SUBSET Descriptors /\ heap \in SUBSET Blocks
  BY DEF FreeDescriptors, RxTypeOK
<1>2. d \in FreeDescriptors /\ b \in heap
  BY <1>1, RxAssumption DEF RxAssumption
<1>3. NULL \notin Descriptors /\ NULL \notin Blocks
  BY RxAssumption DEF RxAssumption
<1> QED
  BY <1>1, <1>2, <1>3 DEF FreeDescriptors, MemoryInv

-----------------------------------------------------------------------------
(* Every step keeps the types.                                             *)

LEMMA RxTypeStep ==
  ASSUME RxTypeOK, HandInv, MemoryInv, [RxNext]_rxVars
  PROVE  RxTypeOK'
<1> USE RxAssumption DEF RxTypeOK, Slots
<1>1. CASE Receive
  BY <1>1 DEF Receive, RxAssumption
<1>2. CASE GetNextReceiveBuffer
  BY <1>2 DEF GetNextReceiveBuffer, RxAssumption
<1>3. CASE WaitForFrame
  BY <1>3 DEF WaitForFrame, RxAssumption
<1>4. CASE GetDescriptor
  <2>1. PICK d \in Gives(FreeDescriptors), b \in Gives(heap) :
             /\ pxDescriptor' = d
             /\ pucEthernetBuffer' = [pucEthernetBuffer EXCEPT ![d] = b]
             /\ backPointer' = backPointer \cup {d}
             /\ heap' = heap \ {b}
    BY <1>4 DEF GetDescriptor
  <2>2. d \in Descriptors /\ b \in Blocks
    BY Given
  <2> QED
    BY <1>4, <2>1, <2>2 DEF GetDescriptor
<1>5. CASE GetDescriptorFails
  BY <1>5 DEF GetDescriptorFails
<1>6. CASE Swap
  <2>1. pxDescriptor \in Descriptors
    BY <1>6 DEF Swap, HandInv
  <2>2. pucEthernetBuffer[pxDescriptor] \in Blocks
    BY <1>6, <2>1 DEF MemoryInv, InHand, HandInv, Swap
  <2> QED
    BY <1>6, <2>1, <2>2 DEF Swap
<1>7. CASE LoadWord
  BY <1>7 DEF LoadWord
<1>8. CASE StoreWrap
  <2>1. pxDescriptor \in Descriptors
    BY <1>8 DEF StoreWrap, HandInv
  <2> QED
    BY <1>8, <2>1 DEF StoreWrap
<1>9. CASE SendToIPTask
  <2>1. pxDescriptor \in Descriptors
    BY <1>9 DEF SendToIPTask, HandInv
  <2>2. queue' \in Seq(Descriptors) /\ Len(queue') = Len(queue) + 1
    BY <1>9, <2>1, AppendFacts DEF SendToIPTask
  <2>3. Len(queue') <= ipconfigEVENT_QUEUE_LENGTH
    BY <1>9, <2>2, QueueAssumption DEF SendToIPTask, QueueAssumption
  <2>4. 0 \in Slots
    BY DEF RxAssumption
  <2> QED
    BY <1>9, <2>2, <2>3, <2>4 DEF SendToIPTask, NextFrame
<1>10. CASE DropFrame
  <2>1. pxDescriptor \in Descriptors
    BY <1>10 DEF DropFrame, HandInv
  <2>2. pucEthernetBuffer[pxDescriptor] \in Blocks
    BY <1>10, <2>1 DEF MemoryInv, InHand, HandInv, DropFrame
  <2>3. 0 \in Slots
    BY DEF RxAssumption
  <2> QED
    BY <1>10, <2>1, <2>2, <2>3 DEF DropFrame, NextFrame
<1>11. CASE ReceiveEvent
  <2>1. Head(queue) \in Descriptors /\ Tail(queue) \in Seq(Descriptors) /\ Len(Tail(queue)) <= Len(queue)
    BY <1>11 DEF ReceiveEvent
  <2>2. Len(queue') <= ipconfigEVENT_QUEUE_LENGTH
    BY <1>11, <2>1, QueueAssumption DEF ReceiveEvent, QueueAssumption
  <2> QED
    BY <1>11, <2>1, <2>2 DEF ReceiveEvent
<1>12. CASE StackRelease
  <2>1. PICK d \in stack :
             /\ stack' = stack \ {d}
             /\ heap' = heap \cup ({pucEthernetBuffer[d]} \ {NULL})
             /\ backPointer' = backPointer \ {d}
             /\ pucEthernetBuffer' = [pucEthernetBuffer EXCEPT ![d] = NULL]
    BY <1>12 DEF StackRelease
  <2>2. d \in Descriptors /\ pucEthernetBuffer[d] \in Blocks
    BY <2>1 DEF MemoryInv
  <2> QED
    BY <1>12, <2>1, <2>2 DEF StackRelease
<1>13. CASE StackGet
  <2>1. PICK d \in Gives(FreeDescriptors), b \in Gives(heap) :
             /\ stack' = stack \cup {d}
             /\ pucEthernetBuffer' = [pucEthernetBuffer EXCEPT ![d] = b]
             /\ backPointer' = backPointer \cup {d}
             /\ heap' = heap \ {b}
    BY <1>13 DEF StackGet
  <2>2. d \in Descriptors /\ b \in Blocks
    BY Given
  <2> QED
    BY <1>13, <2>1, <2>2 DEF StackGet
<1>14. CASE UNCHANGED rxVars
  BY <1>14 DEF rxVars
<1>15. CASE StackGives
  BY <1>15 DEF StackGives
<1>16. CASE StackGetFails
  BY <1>16 DEF StackGetFails
<1> QED
  BY <1>1, <1>2, <1>3, <1>4, <1>5, <1>6, <1>7, <1>8, <1>9, <1>10, <1>11, <1>12, <1>13, <1>14,
     <1>15, <1>16 DEF RxNext, RxTask, Stack

-----------------------------------------------------------------------------
(* Who has which network buffer.                                           *)

LEMMA HandStep ==
  ASSUME RxTypeOK, HandInv, MemoryInv, [RxNext]_rxVars
  PROVE  HandInv'
<1> USE DEF HandInv, RxTypeOK
<1>1. CASE Receive
  BY <1>1 DEF Receive
<1>2. CASE GetNextReceiveBuffer
  BY <1>2 DEF GetNextReceiveBuffer
<1>3. CASE WaitForFrame
  BY <1>3 DEF WaitForFrame
<1>4. CASE GetDescriptor
  <2>1. PICK d \in Gives(FreeDescriptors), b \in Gives(heap) :
             /\ pxDescriptor' = d
             /\ pucEthernetBuffer' = [pucEthernetBuffer EXCEPT ![d] = b]
             /\ backPointer' = backPointer \cup {d}
             /\ heap' = heap \ {b}
    BY <1>4 DEF GetDescriptor
  <2>2. d \in Descriptors /\ b \in Blocks
    BY Given
  <2>3. d # NULL
    BY Given
  <2> QED
    BY <1>4, <2>1, <2>3 DEF GetDescriptor
<1>5. CASE GetDescriptorFails
  BY <1>5 DEF GetDescriptorFails
<1>6. CASE Swap
  BY <1>6 DEF Swap
<1>7. CASE LoadWord
  BY <1>7 DEF LoadWord
<1>8. CASE StoreWrap
  BY <1>8 DEF StoreWrap
<1>9. CASE SendToIPTask
  BY <1>9 DEF SendToIPTask, NextFrame
<1>10. CASE DropFrame
  BY <1>10 DEF DropFrame, NextFrame
<1>11. CASE ReceiveEvent
  BY <1>11 DEF ReceiveEvent
<1>12. CASE StackRelease
  BY <1>12 DEF StackRelease
<1>13. CASE StackGet
  BY <1>13 DEF StackGet
<1>14. CASE UNCHANGED rxVars
  BY <1>14 DEF rxVars
<1>15. CASE StackGives
  BY <1>15 DEF StackGives
<1>16. CASE StackGetFails
  BY <1>16 DEF StackGetFails
<1> QED
  BY <1>1, <1>2, <1>3, <1>4, <1>5, <1>6, <1>7, <1>8, <1>9, <1>10, <1>11, <1>12, <1>13, <1>14,
     <1>15, <1>16 DEF RxNext, RxTask, Stack

LEMMA PlaceStep ==
  ASSUME RxTypeOK, HandInv, PlaceInv, MemoryInv, [RxNext]_rxVars
  PROVE  PlaceInv'
<1> USE DEF PlaceInv
<1>1. CASE Receive
  BY <1>1 DEF Receive, Queued
<1>2. CASE GetNextReceiveBuffer
  BY <1>2 DEF GetNextReceiveBuffer, Queued
<1>3. CASE WaitForFrame
  BY <1>3 DEF WaitForFrame, Queued
<1>4. CASE GetDescriptor
  <2>1. PICK d \in Gives(FreeDescriptors), b \in Gives(heap) :
             /\ pxDescriptor' = d
             /\ pucEthernetBuffer' = [pucEthernetBuffer EXCEPT ![d] = b]
             /\ backPointer' = backPointer \cup {d}
             /\ heap' = heap \ {b}
    BY <1>4 DEF GetDescriptor
  <2>2. d \in Descriptors /\ b \in Blocks
    BY Given
  <2>3. d \notin Queued /\ d \notin stack
    BY Given
  <2> QED
    BY <1>4, <2>1, <2>3 DEF GetDescriptor, Queued
<1>5. CASE GetDescriptorFails
  BY <1>5 DEF GetDescriptorFails, Queued
<1>6. CASE Swap
  BY <1>6 DEF Swap, Queued
<1>7. CASE LoadWord
  BY <1>7 DEF LoadWord, Queued
<1>8. CASE StoreWrap
  BY <1>8 DEF StoreWrap, Queued
<1>9. CASE SendToIPTask
  <2>1. pxDescriptor \in Descriptors /\ queue \in Seq(Descriptors)
    BY <1>9 DEF SendToIPTask, HandInv, RxTypeOK
  <2>2. queue' = Append(queue, pxDescriptor) /\ pxDescriptor' = NULL /\ stack' = stack
    BY <1>9 DEF SendToIPTask, NextFrame
  <2>3. Queued' = Queued \cup {pxDescriptor}
    BY <2>1, <2>2, AppendFacts DEF Queued
  <2>4. NoRepeats(queue')
    BY <2>1, <2>2, AppendFacts DEF Queued
  <2>5. NULL \notin Queued \cup stack \cup {pxDescriptor}
    BY <2>1, QueuedType, RxAssumption DEF RxAssumption, RxTypeOK
  <2> QED
    BY <2>2, <2>3, <2>4, <2>5
<1>10. CASE DropFrame
  <2>1. NULL \notin Queued \cup stack
    BY QueuedType, RxAssumption DEF RxAssumption, RxTypeOK
  <2> QED
    BY <1>10, <2>1 DEF DropFrame, NextFrame, Queued
<1>11. CASE ReceiveEvent
  <2> HIDE DEF PlaceInv
  <2>1. /\ NoRepeats(queue') /\ Queued' = Queued \ {Head(queue)} /\ Head(queue) \in Queued
        /\ stack' = stack \cup {Head(queue)} /\ pxDescriptor' = pxDescriptor
    BY <1>11, QueueTail
  <2> QED
    BY <2>1 DEF PlaceInv
<1>12. CASE StackRelease
  BY <1>12 DEF StackRelease, Queued
<1>13. CASE StackGet
  <2>1. PICK d \in Gives(FreeDescriptors), b \in Gives(heap) :
             /\ stack' = stack \cup {d}
             /\ pucEthernetBuffer' = [pucEthernetBuffer EXCEPT ![d] = b]
             /\ backPointer' = backPointer \cup {d}
             /\ heap' = heap \ {b}
    BY <1>13 DEF StackGet
  <2>2. d \in Descriptors /\ b \in Blocks
    BY Given
  <2>3. d \notin Queued /\ d # NULL /\ d \notin InHand
    BY Given
  <2> QED
    BY <1>13, <2>1, <2>3 DEF StackGet, Queued, InHand
<1>14. CASE UNCHANGED rxVars
  BY <1>14 DEF rxVars, Queued
<1>15. CASE StackGives
  BY <1>15 DEF StackGives, Queued
<1>16. CASE StackGetFails
  BY <1>16 DEF StackGetFails, Queued
<1> QED
  BY <1>1, <1>2, <1>3, <1>4, <1>5, <1>6, <1>7, <1>8, <1>9, <1>10, <1>11, <1>12, <1>13, <1>14,
     <1>15, <1>16 DEF RxNext, RxTask, Stack

-----------------------------------------------------------------------------
(* Every block is on one place.                                            *)

\* A network buffer gets a block from the heap.
LEMMA MemoryGet ==
  ASSUME RxTypeOK, MemoryInv, NEW d \in Descriptors, NEW b \in heap,
         d \notin Queued \cup stack \cup InHand,
         pucEthernetBuffer' = [pucEthernetBuffer EXCEPT ![d] = b],
         heap' = heap \ {b}, address' = address,
         (Queued \cup stack \cup InHand)' = Queued \cup stack \cup InHand \cup {d}
  PROVE  MemoryInv'
<1>1. b \in Blocks /\ b # NULL /\ pucEthernetBuffer[d] = NULL
  BY RxAssumption DEF RxTypeOK, RxAssumption, MemoryInv
<1>2. /\ pucEthernetBuffer'[d] = b
      /\ \A e \in Descriptors \ {d} : pucEthernetBuffer'[e] = pucEthernetBuffer[e]
  BY DEF RxTypeOK
<1>3. \A x \in Slots : address[x] # b
  BY DEF MemoryInv
<1>4. \A e \in Descriptors : pucEthernetBuffer[e] # b
  BY DEF MemoryInv
<1>5. \A e \in Descriptors, x \in Slots : pucEthernetBuffer'[e] # address'[x]
  BY <1>2, <1>3 DEF MemoryInv
<1>6. \A e, f \in Descriptors :
        (pucEthernetBuffer'[e] # NULL /\ pucEthernetBuffer'[e] = pucEthernetBuffer'[f]) => e = f
  BY <1>2, <1>4 DEF MemoryInv
<1>7. /\ \A x \in Slots : address'[x] \notin heap'
      /\ \A e \in Descriptors : pucEthernetBuffer'[e] \notin heap'
  BY <1>2 DEF MemoryInv
<1>8. \A e \in Descriptors :
        pucEthernetBuffer'[e] # NULL <=> e \in (Queued \cup stack \cup InHand)'
  BY <1>1, <1>2 DEF MemoryInv
<1>9. ASSUME NEW a \in Blocks
      PROVE  \/ a \in heap'
             \/ \E x \in Slots : address'[x] = a
             \/ \E e \in Descriptors : pucEthernetBuffer'[e] = a
  <2>1. CASE a = b
    BY <2>1, <1>2
  <2>2. CASE a # b /\ a \in heap
    BY <2>2
  <2>3. CASE \E x \in Slots : address[x] = a
    BY <2>3
  <2>4. CASE \E e \in Descriptors : pucEthernetBuffer[e] = a
    <3>1. PICK e \in Descriptors : pucEthernetBuffer[e] = a
      BY <2>4
    <3>2. e # d
      BY <1>1, <3>1, RxAssumption DEF RxAssumption
    <3> QED
      BY <3>1, <3>2, <1>2
  <2> QED
    BY <2>1, <2>2, <2>3, <2>4 DEF MemoryInv
<1>10. \A x, y \in Slots : address'[x] = address'[y] => x = y
  BY DEF MemoryInv
<1> QED
  BY <1>5, <1>6, <1>7, <1>8, <1>9, <1>10 DEF MemoryInv

\* A network buffer gives its block back.
LEMMA MemoryRelease ==
  ASSUME RxTypeOK, MemoryInv, NEW d \in Queued \cup stack \cup InHand, d \in Descriptors,
         pucEthernetBuffer' = [pucEthernetBuffer EXCEPT ![d] = NULL],
         heap' = heap \cup ({pucEthernetBuffer[d]} \ {NULL}), address' = address,
         (Queued \cup stack \cup InHand)' = (Queued \cup stack \cup InHand) \ {d}
  PROVE  MemoryInv'
<1>1. pucEthernetBuffer[d] \in Blocks /\ pucEthernetBuffer[d] # NULL /\ NULL \notin Blocks
  BY RxAssumption DEF RxTypeOK, RxAssumption, MemoryInv
<1>2. /\ pucEthernetBuffer'[d] = NULL
      /\ \A e \in Descriptors \ {d} : pucEthernetBuffer'[e] = pucEthernetBuffer[e]
  BY DEF RxTypeOK
<1>3. \A x \in Slots : address[x] \in Blocks
  BY DEF RxTypeOK
<1>4. NULL \notin heap
  BY <1>1 DEF RxTypeOK
<1> QED
  BY <1>1, <1>2, <1>3, <1>4 DEF MemoryInv

LEMMA MemorySame ==
  ASSUME MemoryInv, UNCHANGED <<pucEthernetBuffer, heap, address>>,
         (Queued \cup stack \cup InHand)' = Queued \cup stack \cup InHand
  PROVE  MemoryInv'
  BY DEF MemoryInv

LEMMA MemoryStep ==
  ASSUME RxTypeOK, HandInv, PlaceInv, MemoryInv, [RxNext]_rxVars
  PROVE  MemoryInv'
<1>1. CASE Receive
  BY <1>1, MemorySame DEF Receive, Queued, InHand
<1>2. CASE GetNextReceiveBuffer
  BY <1>2, MemorySame DEF GetNextReceiveBuffer, Queued, InHand
<1>3. CASE WaitForFrame
  BY <1>3, MemorySame DEF WaitForFrame, Queued, InHand
<1>4. CASE GetDescriptor
  <2>1. PICK d \in Gives(FreeDescriptors), b \in Gives(heap) :
             /\ pxDescriptor' = d
             /\ pucEthernetBuffer' = [pucEthernetBuffer EXCEPT ![d] = b]
             /\ backPointer' = backPointer \cup {d}
             /\ heap' = heap \ {b}
    BY <1>4 DEF GetDescriptor
  <2>2. d \in Descriptors /\ b \in Blocks
    BY Given
  <2>3. d \notin Queued \cup stack \cup InHand /\ d # NULL /\ b \in heap
    BY Given
  <2>4. (Queued \cup stack \cup InHand)' = Queued \cup stack \cup InHand \cup {d}
    <3>1. InHand = {} /\ InHand' = {d}
      BY <1>4, <2>1, <2>3 DEF GetDescriptor, HandInv, InHand
    <3> QED
      BY <1>4, <3>1 DEF GetDescriptor, Queued
  <2>5. address' = address
    BY <1>4 DEF GetDescriptor
  <2> QED
    BY <2>1, <2>2, <2>3, <2>4, <2>5, MemoryGet
<1>5. CASE GetDescriptorFails
  BY <1>5, MemorySame DEF GetDescriptorFails, Queued, InHand
<1>6. CASE Swap
  <2>1. pxDescriptor \in Descriptors /\ slot \in Slots
    BY <1>6 DEF Swap, HandInv, RxTypeOK
  <2>2. (Queued \cup stack \cup InHand)' = Queued \cup stack \cup InHand
    BY <1>6 DEF Swap, Queued, InHand
  <2>3. /\ pucEthernetBuffer'[pxDescriptor] = address[slot]
        /\ \A e \in Descriptors \ {pxDescriptor} : pucEthernetBuffer'[e] = pucEthernetBuffer[e]
        /\ address'[slot] = pucEthernetBuffer[pxDescriptor]
        /\ \A x \in Slots \ {slot} : address'[x] = address[x]
        /\ heap' = heap
    BY <1>6, <2>1 DEF Swap, RxTypeOK
  <2>4. pxDescriptor \in Queued \cup stack \cup InHand
    BY <1>6 DEF Swap, HandInv, InHand
  <2>5. pucEthernetBuffer[pxDescriptor] # NULL /\ address[slot] # NULL
    BY <2>1, <2>4, RxAssumption DEF MemoryInv, RxTypeOK, RxAssumption
  <2>6. \A b : (\E x \in Slots : address[x] = b) \/ (\E d \in Descriptors : pucEthernetBuffer[d] = b)
            => (\E x \in Slots : address'[x] = b) \/ (\E d \in Descriptors : pucEthernetBuffer'[d] = b)
    BY <2>1, <2>3
  <2> QED
    BY <2>1, <2>2, <2>3, <2>4, <2>5, <2>6 DEF MemoryInv
<1>7. CASE LoadWord
  BY <1>7, MemorySame DEF LoadWord, Queued, InHand
<1>8. CASE StoreWrap
  BY <1>8, MemorySame DEF StoreWrap, Queued, InHand
<1>9. CASE SendToIPTask
  <2>1. pxDescriptor \in Descriptors /\ queue \in Seq(Descriptors)
    BY <1>9 DEF SendToIPTask, HandInv, RxTypeOK
  <2>2. queue' = Append(queue, pxDescriptor) /\ pxDescriptor' = NULL /\ stack' = stack
    BY <1>9 DEF SendToIPTask, NextFrame
  <2>3. Queued' = Queued \cup {pxDescriptor}
    BY <2>1, <2>2, AppendFacts DEF Queued
  <2>4. InHand = {pxDescriptor} /\ InHand' = {}
    BY <1>9, <2>2 DEF SendToIPTask, HandInv, InHand
  <2> QED
    BY <1>9, <2>2, <2>3, <2>4, MemorySame DEF SendToIPTask
<1>10. CASE DropFrame
  <2>1. pxDescriptor \in Descriptors /\ pxDescriptor # NULL
    BY <1>10 DEF DropFrame, HandInv, RxTypeOK
  <2>2. InHand = {pxDescriptor} /\ InHand' = {}
    BY <1>10, <2>1 DEF DropFrame, NextFrame, InHand
  <2>3. (Queued \cup stack \cup InHand)' = (Queued \cup stack \cup InHand) \ {pxDescriptor}
    BY <1>10, <2>2 DEF DropFrame, PlaceInv, Queued
  <2> QED
    BY <1>10, <2>1, <2>2, <2>3, MemoryRelease DEF DropFrame
<1>11. CASE ReceiveEvent
  <2>1. queue \in Seq(Descriptors) /\ queue # <<>>
    BY <1>11 DEF ReceiveEvent, RxTypeOK
  <2>2. queue' = Tail(queue) /\ stack' = stack \cup {Head(queue)} /\ pxDescriptor' = pxDescriptor
    BY <1>11 DEF ReceiveEvent
  <2>3. NoRepeats(queue)
    BY DEF PlaceInv
  <2>4. NoRepeats(queue') /\ Queued' = Queued \ {Head(queue)} /\ Head(queue) \in Queued
    BY <2>1, <2>2, <2>3, TailFacts DEF Queued
  <2>5. (Queued \cup stack \cup InHand)' = Queued \cup stack \cup InHand
    BY <2>2, <2>4 DEF InHand
  <2> QED
    BY <1>11, <2>5, MemorySame DEF ReceiveEvent
<1>12. CASE StackRelease
  <2>1. PICK d \in stack :
             /\ stack' = stack \ {d}
             /\ heap' = heap \cup ({pucEthernetBuffer[d]} \ {NULL})
             /\ backPointer' = backPointer \ {d}
             /\ pucEthernetBuffer' = [pucEthernetBuffer EXCEPT ![d] = NULL]
    BY <1>12 DEF StackRelease
  <2>2. d \in Descriptors /\ d \notin Queued /\ d \notin InHand
    BY <2>1 DEF RxTypeOK, PlaceInv, InHand
  <2>3. (Queued \cup stack \cup InHand)' = (Queued \cup stack \cup InHand) \ {d}
    BY <1>12, <2>1, <2>2 DEF StackRelease, Queued, InHand
  <2> QED
    BY <1>12, <2>1, <2>2, <2>3, MemoryRelease DEF StackRelease
<1>13. CASE StackGet
  <2>1. PICK d \in Gives(FreeDescriptors), b \in Gives(heap) :
             /\ stack' = stack \cup {d}
             /\ pucEthernetBuffer' = [pucEthernetBuffer EXCEPT ![d] = b]
             /\ backPointer' = backPointer \cup {d}
             /\ heap' = heap \ {b}
    BY <1>13 DEF StackGet
  <2>2. d \in Descriptors /\ b \in Blocks
    BY Given
  <2>3. d \notin Queued \cup stack \cup InHand /\ b \in heap
    BY Given
  <2>4. (Queued \cup stack \cup InHand)' = Queued \cup stack \cup InHand \cup {d}
    BY <1>13, <2>1 DEF StackGet, Queued, InHand
  <2>5. address' = address
    BY <1>13 DEF StackGet
  <2> QED
    BY <2>1, <2>2, <2>3, <2>4, <2>5, MemoryGet
<1>14. CASE UNCHANGED rxVars
  BY <1>14, MemorySame DEF rxVars, Queued, InHand
<1>15. CASE StackGives
  BY <1>15, MemorySame DEF StackGives, Queued, InHand
<1>16. CASE StackGetFails
  BY <1>16, MemorySame DEF StackGetFails, Queued, InHand
<1> QED
  BY <1>1, <1>2, <1>3, <1>4, <1>5, <1>6, <1>7, <1>8, <1>9, <1>10, <1>11, <1>12, <1>13, <1>14,
     <1>15, <1>16 DEF RxNext, RxTask, Stack

-----------------------------------------------------------------------------
(* Frames, pointers and the end of the ring.                               *)

LEMMA FrameStep ==
  ASSUME RxTypeOK, HandInv, PlaceInv, MemoryInv, FrameInv, [RxNext]_rxVars
  PROVE  FrameInv'
<1> USE DEF FrameInv
<1>1. CASE Receive
  <2>1. /\ \A x \in Slots : Ownership'[x] => Ownership[x] \/ x = rbqp
        /\ unread' = unread \cup {address[rbqp]}
        /\ \A x \in Slots : Ownership[x] => Ownership'[x]
        /\ UNCHANGED <<address, rxpc, slot, word, pxDescriptor, pucEthernetBuffer>>
    BY <1>1 DEF Receive, RxTypeOK
  <2>2. slot \in Slots
    BY DEF RxTypeOK
  <2> QED
    BY <2>1, <2>2
<1>2. CASE GetNextReceiveBuffer
  BY <1>2 DEF GetNextReceiveBuffer, RxTypeOK
<1>3. CASE WaitForFrame
  BY <1>3 DEF WaitForFrame
<1>4. CASE GetDescriptor
  BY <1>4 DEF GetDescriptor
<1>5. CASE GetDescriptorFails
  BY <1>5 DEF GetDescriptorFails
<1>6. CASE Swap
  <2>1. slot \in Slots /\ pxDescriptor \in Descriptors
    BY <1>6 DEF Swap, HandInv, RxTypeOK
  <2>2. /\ pucEthernetBuffer'[pxDescriptor] = address[slot] /\ pxDescriptor' = pxDescriptor
        /\ \A x \in Slots \ {slot} : address'[x] = address[x] /\ (Ownership'[x] <=> Ownership[x])
        /\ ~Ownership'[slot]
        /\ Ownership[slot] /\ unread' = unread /\ rxpc' = "load"
    BY <1>6, <2>1 DEF Swap, RxTypeOK
  <2> QED
    BY <2>1, <2>2
<1>7. CASE LoadWord
  <2>1. slot \in Slots
    BY DEF RxTypeOK
  <2> QED
    BY <1>7, <2>1 DEF LoadWord
<1>8. CASE StoreWrap
  <2>1. slot \in Slots
    BY DEF RxTypeOK
  <2>2. /\ Ownership'[slot] = word /\ \A x \in Slots \ {slot} : Ownership'[x] = Ownership[x]
        /\ UNCHANGED <<address, unread, slot, pxDescriptor, pucEthernetBuffer>>
        /\ rxpc = "store" /\ rxpc' = "consider"
    BY <1>8, <2>1 DEF StoreWrap, RxTypeOK
  <2> QED
    BY <2>1, <2>2
<1>9. CASE SendToIPTask
  <2>1. pxDescriptor \in Descriptors
    BY <1>9 DEF SendToIPTask, HandInv, RxTypeOK
  <2>2. \A x \in Slots : address[x] # pucEthernetBuffer[pxDescriptor]
    BY <2>1 DEF MemoryInv
  <2> QED
    BY <1>9, <2>2 DEF SendToIPTask, NextFrame
<1>10. CASE DropFrame
  <2>1. pxDescriptor \in Descriptors
    BY <1>10 DEF DropFrame, HandInv, RxTypeOK
  <2>2. \A x \in Slots : address[x] # pucEthernetBuffer[pxDescriptor]
    BY <2>1 DEF MemoryInv
  <2> QED
    BY <1>10, <2>2 DEF DropFrame, NextFrame
<1>11. CASE ReceiveEvent
  BY <1>11 DEF ReceiveEvent
<1>12. CASE StackRelease
  <2>1. PICK d \in stack :
             /\ stack' = stack \ {d}
             /\ heap' = heap \cup ({pucEthernetBuffer[d]} \ {NULL})
             /\ backPointer' = backPointer \ {d}
             /\ pucEthernetBuffer' = [pucEthernetBuffer EXCEPT ![d] = NULL]
    BY <1>12 DEF StackRelease
  <2>2. d \in Descriptors /\ d # pxDescriptor
    BY <2>1, <1>12 DEF RxTypeOK, MemoryInv, StackRelease, PlaceInv
  <2> QED
    BY <1>12, <2>1, <2>2 DEF StackRelease, HandInv, RxTypeOK
<1>13. CASE StackGet
  <2>1. PICK d \in Gives(FreeDescriptors), b \in Gives(heap) :
             /\ stack' = stack \cup {d}
             /\ pucEthernetBuffer' = [pucEthernetBuffer EXCEPT ![d] = b]
             /\ backPointer' = backPointer \cup {d}
             /\ heap' = heap \ {b}
    BY <1>13 DEF StackGet
  <2>2. d \in Descriptors /\ b \in Blocks
    BY Given
  <2>3. d # pxDescriptor
    BY Given DEF InHand
  <2> QED
    BY <1>13, <2>1, <2>2, <2>3 DEF StackGet, HandInv, RxTypeOK
<1>14. CASE UNCHANGED rxVars
  BY <1>14 DEF rxVars
<1>15. CASE StackGives
  BY <1>15 DEF StackGives
<1>16. CASE StackGetFails
  BY <1>16 DEF StackGetFails
<1> QED
  BY <1>1, <1>2, <1>3, <1>4, <1>5, <1>6, <1>7, <1>8, <1>9, <1>10, <1>11, <1>12, <1>13, <1>14,
     <1>15, <1>16 DEF RxNext, RxTask, Stack

LEMMA PointerStep ==
  ASSUME RxTypeOK, HandInv, PlaceInv, MemoryInv, PointerInv, [RxNext]_rxVars
  PROVE  PointerInv'
<1> USE DEF PointerInv, BackPointerIsRight
<1>1. CASE Receive
  BY <1>1 DEF Receive, Queued
<1>2. CASE GetNextReceiveBuffer
  BY <1>2 DEF GetNextReceiveBuffer, Queued
<1>3. CASE WaitForFrame
  BY <1>3 DEF WaitForFrame, Queued
<1>4. CASE GetDescriptor
  <2>1. PICK d \in Gives(FreeDescriptors), b \in Gives(heap) :
             /\ pxDescriptor' = d
             /\ pucEthernetBuffer' = [pucEthernetBuffer EXCEPT ![d] = b]
             /\ backPointer' = backPointer \cup {d}
             /\ heap' = heap \ {b}
    BY <1>4 DEF GetDescriptor
  <2>2. d \in Descriptors /\ b \in Blocks
    BY Given
  <2> QED
    BY <1>4, <2>1 DEF GetDescriptor, Queued
<1>5. CASE GetDescriptorFails
  BY <1>5 DEF GetDescriptorFails, Queued
<1>6. CASE Swap
  <2>1. pxDescriptor \notin Queued \cup stack
    BY DEF PlaceInv
  <2> QED
    BY <1>6, <2>1 DEF Swap, Queued
<1>7. CASE LoadWord
  BY <1>7 DEF LoadWord, Queued
<1>8. CASE StoreWrap
  BY <1>8 DEF StoreWrap, Queued
<1>9. CASE SendToIPTask
  <2>1. pxDescriptor \in Descriptors /\ queue \in Seq(Descriptors)
    BY <1>9 DEF SendToIPTask, HandInv, RxTypeOK
  <2>2. queue' = Append(queue, pxDescriptor) /\ pxDescriptor' = NULL /\ stack' = stack
    BY <1>9 DEF SendToIPTask, NextFrame
  <2>3. Queued' = Queued \cup {pxDescriptor}
    BY <2>1, <2>2, AppendFacts DEF Queued
  <2> QED
    BY <1>9, <2>2, <2>3 DEF SendToIPTask, NextFrame
<1>10. CASE DropFrame
  <2>1. pxDescriptor \notin Queued \cup stack
    BY DEF PlaceInv
  <2> QED
    BY <1>10, <2>1 DEF DropFrame, NextFrame, Queued
<1>11. CASE ReceiveEvent
  <2>1. Queued' = Queued \ {Head(queue)} /\ Head(queue) \in Queued /\ stack' = stack \cup {Head(queue)}
    BY <1>11, QueueTail
  <2> QED
    BY <1>11, <2>1 DEF ReceiveEvent
<1>12. CASE StackRelease
  <2>1. PICK d \in stack :
             /\ stack' = stack \ {d}
             /\ heap' = heap \cup ({pucEthernetBuffer[d]} \ {NULL})
             /\ backPointer' = backPointer \ {d}
             /\ pucEthernetBuffer' = [pucEthernetBuffer EXCEPT ![d] = NULL]
    BY <1>12 DEF StackRelease
  <2>2. d \notin Queued /\ d # pxDescriptor
    BY <2>1 DEF PlaceInv
  <2> QED
    BY <1>12, <2>1, <2>2 DEF StackRelease, Queued
<1>13. CASE StackGet
  <2>1. PICK d \in Gives(FreeDescriptors), b \in Gives(heap) :
             /\ stack' = stack \cup {d}
             /\ pucEthernetBuffer' = [pucEthernetBuffer EXCEPT ![d] = b]
             /\ backPointer' = backPointer \cup {d}
             /\ heap' = heap \ {b}
    BY <1>13 DEF StackGet
  <2>2. d \in Descriptors /\ b \in Blocks
    BY Given
  <2> QED
    BY <1>13, <2>1 DEF StackGet, Queued
<1>14. CASE UNCHANGED rxVars
  BY <1>14 DEF rxVars, Queued
<1>15. CASE StackGives
  BY <1>15 DEF StackGives, Queued
<1>16. CASE StackGetFails
  BY <1>16 DEF StackGetFails, Queued
<1> QED
  BY <1>1, <1>2, <1>3, <1>4, <1>5, <1>6, <1>7, <1>8, <1>9, <1>10, <1>11, <1>12, <1>13, <1>14,
     <1>15, <1>16 DEF RxNext, RxTask, Stack

LEMMA WrapStep ==
  ASSUME RxTypeOK, WrapInv, [RxNext]_rxVars
  PROVE  WrapInv'
<1>0. slot \in Slots
  BY DEF RxTypeOK
<1> USE <1>0 DEF WrapInv, RxTypeOK
<1>1. CASE Receive
  BY <1>1 DEF Receive
<1>2. CASE GetNextReceiveBuffer
  BY <1>2 DEF GetNextReceiveBuffer
<1>3. CASE WaitForFrame
  BY <1>3 DEF WaitForFrame
<1>4. CASE GetDescriptor
  BY <1>4 DEF GetDescriptor
<1>5. CASE GetDescriptorFails
  BY <1>5 DEF GetDescriptorFails
<1>6. CASE Swap
  BY <1>6 DEF Swap
<1>7. CASE LoadWord
  BY <1>7 DEF LoadWord
<1>8. CASE StoreWrap
  BY <1>8 DEF StoreWrap
<1>9. CASE SendToIPTask
  BY <1>9 DEF SendToIPTask, NextFrame
<1>10. CASE DropFrame
  BY <1>10 DEF DropFrame, NextFrame
<1>11. CASE ReceiveEvent
  BY <1>11 DEF ReceiveEvent
<1>12. CASE StackRelease
  BY <1>12 DEF StackRelease
<1>13. CASE StackGet
  BY <1>13 DEF StackGet
<1>14. CASE UNCHANGED rxVars
  BY <1>14 DEF rxVars
<1>15. CASE StackGives
  BY <1>15 DEF StackGives
<1>16. CASE StackGetFails
  BY <1>16 DEF StackGetFails
<1> QED
  BY <1>1, <1>2, <1>3, <1>4, <1>5, <1>6, <1>7, <1>8, <1>9, <1>10, <1>11, <1>12, <1>13, <1>14,
     <1>15, <1>16 DEF RxNext, RxTask, Stack

-----------------------------------------------------------------------------
(* Frames and the places of the event queue.                               *)

LEMMA IntervalCount ==
  ASSUME NEW n \in Nat
  PROVE  /\ IsFiniteSet(1 .. n) /\ Cardinality(1 .. n) = n
         /\ IsFiniteSet(0 .. n - 1) /\ Cardinality(0 .. n - 1) = n
<1>1. \A a, b \in Int : /\ IsFiniteSet(a .. b)
                        /\ Cardinality(a .. b) = IF a > b THEN 0 ELSE b - a + 1
  BY FS_Interval
<1>2. /\ IsFiniteSet(1 .. n) /\ Cardinality(1 .. n) = IF 1 > n THEN 0 ELSE n - 1 + 1
      /\ IsFiniteSet(0 .. n - 1)
      /\ Cardinality(0 .. n - 1) = IF 0 > n - 1 THEN 0 ELSE (n - 1) - 0 + 1
  BY <1>1
<1> QED
  BY <1>2

\* Each frame under way is in a network buffer of its own, and so is the one in
\* hand: there are no more of them than descriptors.
LEMMA FramesHaveDescriptors ==
  ASSUME RxTypeOK, PlaceInv
  PROVE  Len(queue) + Cardinality(InHand) <= Cardinality(Descriptors)
<1>1. queue \in Seq(Descriptors) /\ Len(queue) \in Nat
  BY DEF RxTypeOK
<1>2. IsFiniteSet(1 .. Len(queue)) /\ Cardinality(1 .. Len(queue)) = Len(queue)
  BY <1>1, IntervalCount
<1>3. IsFiniteSet(Queued) /\ Cardinality(Queued) = Len(queue)
  <2> DEFINE f == [i \in 1 .. Len(queue) |-> queue[i]]
  <2>1. /\ f \in [1 .. Len(queue) -> Queued]
        /\ \A q \in Queued : \E i \in 1 .. Len(queue) : f[i] = q
    BY DEF Queued
  <2>2. \A i, j \in 1 .. Len(queue) : f[i] = f[j] => i = j
    BY DEF PlaceInv, NoRepeats
  <2> HIDE DEF f
  <2>3. f \in Surjection(1 .. Len(queue), Queued) /\ f \in Injection(1 .. Len(queue), Queued)
    BY <2>1, <2>2, Zenon DEF Surjection, Injection, IsInjective
  <2>4. IsFiniteSet(Queued)
    BY <1>2, <2>3, FS_Surjection
  <2>5. Cardinality(1 .. Len(queue)) = Cardinality(Queued)
    BY <2>3, <2>4, FS_Injection
  <2> QED
    BY <1>2, <2>4, <2>5
<1>4. InHand \subseteq Descriptors /\ Queued \subseteq Descriptors /\ Queued \cap InHand = {}
  BY QueuedType DEF RxTypeOK, InHand, PlaceInv
<1>5. IsFiniteSet(Descriptors)
  BY RxAssumption DEF RxAssumption
<1>6. IsFiniteSet(InHand)
  BY <1>4, <1>5, FS_Subset
<1>7. /\ IsFiniteSet(Queued \cup InHand)
      /\ Cardinality(Queued \cup InHand)
           = Cardinality(Queued) + Cardinality(InHand) - Cardinality(Queued \cap InHand)
  BY <1>3, <1>6, FS_Union
<1>8. Cardinality(Queued \cap InHand) = 0
  BY <1>4, FS_EmptySet
<1>9. Queued \cup InHand \subseteq Descriptors
  BY <1>4
<1>10. Cardinality(Queued \cup InHand) <= Cardinality(Descriptors)
  BY <1>5, <1>9, FS_Subset
<1>11. Cardinality(InHand) \in Nat /\ Cardinality(Descriptors) \in Nat
  BY <1>5, <1>6, FS_CardinalityType
<1> QED
  BY <1>1, <1>3, <1>7, <1>8, <1>10, <1>11

-----------------------------------------------------------------------------
(* Theorems.                                                               *)

LEMMA InitRx == RxInit => RxInv
<1> SUFFICES ASSUME RxInit PROVE RxInv
  OBVIOUS
<1>0. 0 \in Slots
  BY RxAssumption DEF RxAssumption, Slots
<1> USE DEF RxInit
<1>1. RxTypeOK
  <2>1. <<>> \in Seq(Descriptors) /\ Len(<<>>) = 0
    OBVIOUS
  <2>2. 0 <= ipconfigEVENT_QUEUE_LENGTH
    BY QueueAssumption DEF QueueAssumption
  <2> QED
    BY <1>0, <2>1, <2>2, RxAssumption DEF RxTypeOK, RxAssumption, Slots
<1>2. Queued = {} /\ stack = {} /\ InHand = {}
  BY DEF Queued, InHand
<1>3. HandInv /\ PlaceInv
  BY <1>2 DEF HandInv, PlaceInv, NoRepeats
<1>4. MemoryInv
  BY <1>1, <1>2, RxAssumption DEF MemoryInv, RxTypeOK, RxAssumption
<1>5. FrameInv /\ PointerInv
  BY <1>2 DEF FrameInv, PointerInv, BackPointerIsRight
<1>6. WrapInv
  BY DEF WrapInv, Last
<1> QED
  BY <1>1, <1>3, <1>4, <1>5, <1>6 DEF RxInv

\* The invariant is inductive over the steps of MAC, receive task and stack.
THEOREM RxInvariance == RxSpec => []RxInv
<1>1. RxInv /\ [RxNext]_rxVars => RxInv'
  BY RxTypeStep, HandStep, PlaceStep, MemoryStep, FrameStep, PointerStep, WrapStep
  DEF RxInv
<1> QED
  BY InitRx, <1>1, PTL DEF RxSpec

\* Every variable keeps its type, and the event queue its length.
THEOREM RxTypeCorrect == RxSpec => []RxTypeOK
<1>1. RxInv => RxTypeOK
  BY DEF RxInv
<1> QED
  BY RxInvariance, <1>1, PTL

\* With the rule for the length of the event queue (FreeRTOSIPConfigDefaults.h:93)
\* frames never take its last five places.
THEOREM FramesNeverFillTheQueue == RxSpec => []FramesLeaveRoom
<1>1. RxInv => FramesLeaveRoom
  <2> SUFFICES ASSUME RxInv PROVE FramesLeaveRoom
    OBVIOUS
  <2>1. Len(queue) + Cardinality(InHand) <= Cardinality(Descriptors)
    BY FramesHaveDescriptors DEF RxInv
  <2>2. Len(queue) \in Nat
    BY DEF RxInv, RxTypeOK
  <2>3. Cardinality(InHand) \in Nat /\ Cardinality(Descriptors) \in Nat
    <3>1. InHand \in SUBSET Descriptors /\ IsFiniteSet(Descriptors)
      BY RxAssumption DEF RxInv, RxTypeOK, InHand, RxAssumption
    <3> QED
      BY <3>1, FS_Subset, FS_CardinalityType
  <2> QED
    BY <2>1, <2>2, <2>3, QueueAssumption DEF QueueAssumption, FramesLeaveRoom
<1> QED
  BY RxInvariance, <1>1, PTL

\* The exchange of blocks between ring and network buffers loses none and
\* gives none to two owners.
THEOREM RxBlocksAreKept == RxSpec => []RxEveryBlockOnce
<1>1. RxInv => RxEveryBlockOnce
  <2> SUFFICES ASSUME RxInv PROVE RxEveryBlockOnce
    OBVIOUS
  <2> DEFINE out == {d \in Descriptors : pucEthernetBuffer[d] # NULL}
  <2>1. Queued \cup stack \cup InHand \subseteq Descriptors
    BY QueuedType DEF RxInv, RxTypeOK, InHand
  <2>2. Queued \cup stack \cup InHand = out
    BY <2>1 DEF RxInv, MemoryInv
  <2>3. Blocks \ heap \subseteq {address[x] : x \in Slots} \cup {pucEthernetBuffer[d] : d \in out}
    BY RxAssumption DEF RxInv, MemoryInv, RxAssumption
  <2>4. {address[x] : x \in Slots} \cup {pucEthernetBuffer[d] : d \in out} \subseteq Blocks \ heap
    BY DEF RxInv, MemoryInv, RxTypeOK
  <2>5. Blocks \ heap = {address[x] : x \in Slots} \cup {pucEthernetBuffer[d] : d \in out}
    BY <2>3, <2>4
  <2>6. /\ \A x, y \in Slots : address[x] = address[y] => x = y
        /\ \A x \in Slots : address[x] \notin heap
        /\ \A d \in out : pucEthernetBuffer[d] \notin heap
        /\ \A d \in out, x \in Slots : pucEthernetBuffer[d] # address[x]
        /\ \A d, e \in out : pucEthernetBuffer[d] = pucEthernetBuffer[e] => d = e
    BY DEF RxInv, MemoryInv
  <2> QED
    BY <2>2, <2>5, <2>6 DEF RxEveryBlockOnce
<1> QED
  BY RxInvariance, <1>1, PTL

\* What the receive task passes on is a frame nobody has looked at.
THEOREM OnlyFramesAreTaken == RxSpec => []TakesFramesOnly
<1>1. RxInv => TakesFramesOnly
  BY DEF RxInv, FrameInv, TakesFramesOnly
<1> QED
  BY RxInvariance, <1>1, PTL

\* The pointer ahead of a block leads to the descriptor that holds it.
THEOREM PointersAreRight == RxSpec => []BackPointerIsRight
<1>1. RxInv => BackPointerIsRight
  BY DEF RxInv, PointerInv
<1> QED
  BY RxInvariance, <1>1, PTL

\* The MAC can run past the end of the ring between the stores of lines 150
\* and 151 and at no other moment.
THEOREM RingIsLeftBetweenStores == RxSpec => LeavesRingOnlyBetweenStores
<1>1. RxInv /\ [RxNext]_rxVars =>
        ((rbqp \in Slots /\ rbqp' \notin Slots) => rxpc \in {"load", "store"} /\ slot = rbqp)
  <2> SUFFICES ASSUME RxInv, [RxNext]_rxVars, rbqp \in Slots, rbqp' \notin Slots
               PROVE  rxpc \in {"load", "store"} /\ slot = rbqp
    OBVIOUS
  <2>1. CASE Receive
    <3>1. rbqp' = IF Wrap[rbqp] THEN 0 ELSE rbqp + 1
      BY <2>1 DEF Receive
    <3>2. 0 \in Slots
      BY RxAssumption DEF RxAssumption, Slots
    <3>3. ~Wrap[rbqp]
      BY <3>1, <3>2
    <3>4. rbqp = Last
      BY <3>1, <3>3, RxAssumption DEF RxAssumption, Slots, Last
    <3> QED
      BY <3>3, <3>4 DEF RxInv, WrapInv
  <2>2. CASE ~Receive
    <3>1. rbqp' = rbqp
      BY <2>2 DEF RxNext, RxTask, rxVars, GetNextReceiveBuffer, WaitForFrame, GetDescriptor,
           GetDescriptorFails, Swap, LoadWord, StoreWrap, SendToIPTask, DropFrame,
           ReceiveEvent, StackRelease, StackGet,
           StackGives, StackGetFails, Stack
    <3> QED
      BY <3>1
  <2> QED
    BY <2>1, <2>2
<1> QED
  BY RxInvariance, <1>1, PTL DEF LeavesRingOnlyBetweenStores, RxSpec

-----------------------------------------------------------------------------
(* The receive side as a user of BufferPool.                               *)

Ring == {address[x] : x \in Slots}

LEMMA PoolViews ==
  /\ UNION {rxHeld[u] : u \in {"driver", "stack"}} = InHand \cup Queued \cup stack
  /\ UNION {rxRaw[u] : u \in {"driver", "stack"}} = Ring
<1>1. rxHeld["driver"] = InHand /\ rxHeld["stack"] = Queued \cup stack
  BY DEF rxHeld
<1>2. rxRaw["driver"] = Ring /\ rxRaw["stack"] = {}
  BY DEF rxRaw, Ring
<1>3. UNION {rxHeld[u] : u \in {"driver", "stack"}} = rxHeld["driver"] \cup rxHeld["stack"]
  OBVIOUS
<1>4. UNION {rxRaw[u] : u \in {"driver", "stack"}} = rxRaw["driver"] \cup rxRaw["stack"]
  OBVIOUS
<1> QED
  BY <1>1, <1>2, <1>3, <1>4

\* How the view follows when one of the two has other descriptors than before.
LEMMA DriverHolds ==
  ASSUME NEW X, InHand' = X, (Queued \cup stack)' = Queued \cup stack
  PROVE  rxHeld' = [rxHeld EXCEPT !["driver"] = X]
  BY DEF rxHeld

LEMMA StackHolds ==
  ASSUME NEW X, (Queued \cup stack)' = X, InHand' = InHand
  PROVE  rxHeld' = [rxHeld EXCEPT !["stack"] = X]
  BY DEF rxHeld

LEMMA RingIsRaw ==
  /\ Ring' = Ring => rxRaw' = rxRaw
  /\ \A X : Ring' = X => rxRaw' = [rxRaw EXCEPT !["driver"] = X]
  BY DEF rxRaw, Ring

\* What the allocator may give, the pool has.
LEMMA PoolHas ==
  ASSUME RxInv, NEW d \in Gives(FreeDescriptors), NEW b \in Gives(heap)
  PROVE  d \in RxPool!Free /\ b \in RxPool!Unused
<1>1. /\ d \in Descriptors /\ d \notin Queued /\ d \notin stack /\ d \notin InHand
      /\ b \in heap /\ b \in Blocks
  BY Given DEF RxInv
<1>2. d \in RxPool!Free
  BY <1>1, PoolViews DEF RxPool!Free
<1>3. \A e \in Descriptors : pucEthernetBuffer[e] # b
  BY <1>1 DEF RxInv, MemoryInv
<1>4. b \notin Ring
  BY <1>1 DEF RxInv, MemoryInv, Ring
<1>5. b \in RxPool!Unused
  BY <1>1, <1>3, <1>4, PoolViews DEF RxPool!Unused
<1> QED
  BY <1>2, <1>5

\* The block of one descriptor of the ring is exchanged for another.
LEMMA RingExchange ==
  ASSUME RxTypeOK, NEW b,
         \A x, y \in Slots : address[x] = address[y] => x = y,
         address' = [address EXCEPT ![slot] = b]
  PROVE  Ring' = (Ring \ {address[slot]}) \cup {b}
<1>1. slot \in Slots /\ address \in [Slots -> Blocks]
  BY DEF RxTypeOK
<1>2. address'[slot] = b /\ \A x \in Slots : x # slot => address'[x] = address[x]
  BY <1>1
<1>3. ASSUME NEW x \in Slots PROVE address'[x] \in (Ring \ {address[slot]}) \cup {b}
  <2>1. CASE x = slot
    BY <1>2, <2>1
  <2>2. CASE x # slot
    BY <1>1, <1>2, <2>2 DEF Ring
  <2> QED
    BY <2>1, <2>2
<1>4. ASSUME NEW c \in (Ring \ {address[slot]}) \cup {b}
      PROVE  \E x \in Slots : address'[x] = c
  <2>1. CASE c = b
    BY <1>1, <1>2, <2>1
  <2>2. CASE c # b
    <3>1. PICK x \in Slots : address[x] = c /\ x # slot
      BY <1>4, <2>2 DEF Ring
    <3> QED
      BY <1>2, <3>1
  <2> QED
    BY <2>1, <2>2
<1> QED
  BY <1>3, <1>4 DEF Ring

\* Each step of the receive side is a step of the pool, or none.
LEMMA PoolRuleStep ==
  ASSUME RxInv, [RxNext]_rxVars
  PROVE  [RxPool!Next]_<<rxHeld, rxRaw, pucEthernetBuffer>>
<1> DEFINE d == pxDescriptor
<1>1. CASE \/ Receive \/ GetNextReceiveBuffer \/ WaitForFrame \/ GetDescriptorFails
           \/ LoadWord \/ StoreWrap \/ StackGives \/ StackGetFails \/ UNCHANGED rxVars
  <2>1. UNCHANGED <<address, pucEthernetBuffer, queue, stack, pxDescriptor>>
    BY <1>1 DEF Receive, GetNextReceiveBuffer, WaitForFrame, GetDescriptorFails, LoadWord,
                StoreWrap, StackGives, StackGetFails, rxVars
  <2> QED
    BY <2>1 DEF rxHeld, rxRaw, InHand, Queued
<1>2. CASE ReceiveEvent
  <2>1. (Queued \cup stack)' = Queued \cup stack
    BY <1>2, QueueTail DEF RxInv
  <2>2. UNCHANGED <<address, pucEthernetBuffer, pxDescriptor>>
    BY <1>2 DEF ReceiveEvent
  <2> QED
    BY <2>1, <2>2 DEF rxHeld, rxRaw, InHand
<1>3. CASE GetDescriptor
  <2>1. PICK e \in Gives(FreeDescriptors), b \in Gives(heap) :
          /\ pxDescriptor' = e
          /\ pucEthernetBuffer' = [pucEthernetBuffer EXCEPT ![e] = b]
    BY <1>3 DEF GetDescriptor
  <2>2. UNCHANGED <<address, queue, stack>>
    BY <1>3 DEF GetDescriptor
  <2>3. e # NULL
    BY <2>1, Given DEF RxInv
  <2>4. InHand = {} /\ InHand' = {e}
    BY <1>3, <2>1, <2>3 DEF GetDescriptor, RxInv, HandInv, InHand
  <2>5. rxHeld' = [rxHeld EXCEPT !["driver"] = {e}]
    BY <2>2, <2>4, DriverHolds DEF Queued
  <2>6. rxHeld["driver"] = {}
    BY <2>4 DEF rxHeld
  <2>7. rxHeld' = [rxHeld EXCEPT !["driver"] = @ \cup {e}]
    BY <2>5, <2>6
  <2>8. rxRaw' = rxRaw
    BY <2>2, RingIsRaw DEF Ring
  <2>9. RxPool!Get("driver")
    BY <2>1, <2>7, <2>8, PoolHas DEF RxPool!Get
  <2> QED
    BY <2>9 DEF RxPool!Next
<1>4. CASE Swap
  <2>1. /\ pucEthernetBuffer' = [pucEthernetBuffer EXCEPT ![d] = address[slot]]
        /\ address' = [address EXCEPT ![slot] = pucEthernetBuffer[d]]
        /\ UNCHANGED <<pxDescriptor, queue, stack>>
    BY <1>4 DEF Swap
  <2>2. d # NULL /\ d \in Descriptors /\ InHand = {d}
    BY <1>4 DEF Swap, RxInv, HandInv, RxTypeOK, InHand
  <2>3. pucEthernetBuffer[d] # NULL
    BY <2>2 DEF RxInv, MemoryInv
  <2>4. Ring' = (Ring \ {address[slot]}) \cup {pucEthernetBuffer[d]}
    BY <2>1, RingExchange DEF RxInv, MemoryInv
  <2>5. rxRaw' = [rxRaw EXCEPT !["driver"] = (@ \ {address[slot]}) \cup {pucEthernetBuffer[d]}]
    <3>1. rxRaw["driver"] = Ring
      BY DEF rxRaw, Ring
    <3> QED
      BY <2>4, <3>1, RingIsRaw
  <2>6. rxHeld' = rxHeld /\ d \in rxHeld["driver"]
    BY <2>1, <2>2 DEF rxHeld, InHand, Queued
  <2>7. address[slot] \in rxRaw["driver"]
    BY DEF rxRaw, RxInv, RxTypeOK
  <2>8. RxPool!Exchange("driver")
    BY <2>1, <2>3, <2>5, <2>6, <2>7 DEF RxPool!Exchange
  <2> QED
    BY <2>8 DEF RxPool!Next
<1>5. CASE SendToIPTask
  <2>1. /\ queue' = Append(queue, d) /\ pxDescriptor' = NULL
        /\ UNCHANGED <<address, pucEthernetBuffer, stack>>
    BY <1>5 DEF SendToIPTask, NextFrame
  <2>2. d # NULL /\ d \in Descriptors /\ InHand = {d} /\ InHand' = {}
    BY <1>5, <2>1 DEF SendToIPTask, RxInv, HandInv, RxTypeOK, InHand
  <2>3. Queued' = Queued \cup {d}
    BY <2>1, <2>2, AppendFacts DEF Queued, RxInv, RxTypeOK
  <2>4. rxHeld' = [rxHeld EXCEPT !["driver"] = @ \ {d}, !["stack"] = @ \cup {d}]
    BY <2>1, <2>2, <2>3 DEF rxHeld
  <2>5. rxRaw' = rxRaw /\ d \in rxHeld["driver"]
    BY <2>1, <2>2 DEF rxRaw, rxHeld
  <2>6. RxPool!Pass("driver", "stack")
    BY <2>1, <2>4, <2>5 DEF RxPool!Pass
  <2> QED
    BY <2>6 DEF RxPool!Next
<1>6. CASE DropFrame
  <2>1. /\ pucEthernetBuffer' = [pucEthernetBuffer EXCEPT ![d] = NULL] /\ pxDescriptor' = NULL
        /\ UNCHANGED <<address, queue, stack>>
    BY <1>6 DEF DropFrame, NextFrame
  <2>2. d # NULL /\ InHand = {d} /\ InHand' = {}
    BY <1>6, <2>1 DEF DropFrame, RxInv, HandInv, InHand
  <2>3. rxHeld' = [rxHeld EXCEPT !["driver"] = @ \ {d}]
    BY <2>1, <2>2 DEF rxHeld, Queued
  <2>4. rxRaw' = rxRaw /\ d \in rxHeld["driver"]
    BY <2>1, <2>2 DEF rxRaw, rxHeld
  <2>5. RxPool!Release("driver")
    BY <2>1, <2>3, <2>4 DEF RxPool!Release
  <2> QED
    BY <2>5 DEF RxPool!Next
<1>7. CASE StackRelease
  <2>1. PICK e \in stack :
          /\ stack' = stack \ {e}
          /\ pucEthernetBuffer' = [pucEthernetBuffer EXCEPT ![e] = NULL]
    BY <1>7 DEF StackRelease
  <2>2. UNCHANGED <<address, queue, pxDescriptor>>
    BY <1>7 DEF StackRelease
  <2>3. e \notin Queued
    BY <2>1 DEF RxInv, PlaceInv
  <2>4. rxHeld' = [rxHeld EXCEPT !["stack"] = @ \ {e}]
    BY <2>1, <2>2, <2>3 DEF rxHeld, Queued, InHand
  <2>5. rxRaw' = rxRaw /\ e \in rxHeld["stack"]
    BY <2>1, <2>2 DEF rxRaw, rxHeld
  <2>6. RxPool!Release("stack")
    BY <2>1, <2>4, <2>5 DEF RxPool!Release
  <2> QED
    BY <2>6 DEF RxPool!Next
<1>8. CASE StackGet
  <2>1. PICK e \in Gives(FreeDescriptors), b \in Gives(heap) :
          /\ stack' = stack \cup {e}
          /\ pucEthernetBuffer' = [pucEthernetBuffer EXCEPT ![e] = b]
    BY <1>8 DEF StackGet
  <2>2. UNCHANGED <<address, queue, pxDescriptor>>
    BY <1>8 DEF StackGet
  <2>3. rxHeld' = [rxHeld EXCEPT !["stack"] = @ \cup {e}]
    BY <2>1, <2>2 DEF rxHeld, Queued, InHand
  <2>4. rxRaw' = rxRaw
    BY <2>2 DEF rxRaw
  <2>5. RxPool!Get("stack")
    BY <2>1, <2>3, <2>4, PoolHas DEF RxPool!Get
  <2> QED
    BY <2>5 DEF RxPool!Next
<1> QED
  BY <1>1, <1>2, <1>3, <1>4, <1>5, <1>6, <1>7, <1>8 DEF RxNext, RxTask, Stack

\* Whatever the receive task and the stack do with descriptors and blocks is
\* what BufferPool lets its users do, although the ring and the descriptors
\* exchange blocks behind its back (lines 142 to 151).
THEOREM PoolRulesAreKept == RxSpec => RxKeepsPoolRules
<1>1. RxInv /\ [RxNext]_rxVars => [RxPool!Next]_<<rxHeld, rxRaw, pucEthernetBuffer>>
  BY PoolRuleStep
<1> QED
  BY RxInvariance, <1>1, PTL DEF RxSpec, RxKeepsPoolRules
=============================================================================
