------------------------------- MODULE SamMacRx -------------------------------
(***************************************************************************)
(* The receive side of samx5xmac.c.  The MAC fills the blocks of a ring of *)
(* receive descriptors, one frame to a block, and stops at a descriptor    *)
(* that software still owns.  The receive task looks for a filled          *)
(* descriptor, exchanges its block for a fresh one, and passes the frame   *)
(* on to the IP task through the event queue.                              *)
(*                                                                         *)
(* The ring shares its words with the hardware, which does not wait for    *)
(* the task: address, Ownership and Wrap are one word, and a store to a    *)
(* bit field is a load and a store.  Each of them is a step here.          *)
(*                                                                         *)
(* A call of the buffer management is one step as far as it succeeds:      *)
(* NetworkBuffers shows that it may be seen that way.  A get that does not *)
(* wait may also fail while a descriptor is on the list of free ones: the  *)
(* semaphore is given after the list has it.  ungiven counts what is still *)
(* to be given.  Lengths and the contents of the frames are left out.      *)
(***************************************************************************)
EXTENDS Integers, Sequences, FiniteSets

CONSTANTS
  ipconfigNUM_RX_BUFFERS,
  Descriptors,                  \* network buffer descriptors of the pool
  Blocks,                       \* pieces of memory for one frame
  ipconfigEVENT_QUEUE_LENGTH,
  Gives(_),                     \* what an allocator may give out of what it has
  NULL

Slots == 0 .. ipconfigNUM_RX_BUFFERS - 1

ASSUME RxAssumption ==
  /\ ipconfigNUM_RX_BUFFERS \in Nat \ {0}
  /\ \A S \in (SUBSET Descriptors) \cup (SUBSET Blocks) :
       Gives(S) \subseteq S /\ (S # {} => Gives(S) # {})
  /\ IsFiniteSet(Descriptors) /\ NULL \notin Descriptors
  /\ IsFiniteSet(Blocks) /\ NULL \notin Blocks

\* The rule of FreeRTOSIPConfigDefaults.h: the build stops without it.
ASSUME QueueAssumption ==
  /\ ipconfigEVENT_QUEUE_LENGTH \in Nat
  /\ ipconfigEVENT_QUEUE_LENGTH >= Cardinality(Descriptors) + 5

VARIABLES
  Ownership, Wrap, address, \* ethReceiveBuffers[x].Word0, with TRUE for a set bit
  rbqp,                     \* the descriptor the MAC goes to next; beyond the ring
                            \*   when it missed the Wrap bit
  rxpc,                     \* where the receive task stands
  slot,                     \* the descriptor it looks at
  pxDescriptor,             \* the network buffer it works on
  temp_wrap,
  word,                     \* the word that is loaded to set its Wrap bit
  pucEthernetBuffer,        \* block of each network buffer, NULL while the pool has it
  backPointer,              \* the descriptors that are named ahead of the block they hold
  heap,                     \* blocks the heap can give out
  queue,                    \* frames under way to the IP task
  stack,                    \* network buffers of the IP stack and the application
  ungiven,                  \* descriptors the list has and the semaphore does not count
  unread                    \* blocks with a frame no task has looked at

rxVars == <<Ownership, Wrap, address, rbqp, rxpc, slot,
            pxDescriptor, temp_wrap, word, pucEthernetBuffer, backPointer, heap,
            queue, stack, ungiven, unread>>

Queued == {queue[i] : i \in 1 .. Len(queue)}

InHand == IF pxDescriptor = NULL THEN {} ELSE {pxDescriptor}

FreeDescriptors == {d \in Descriptors : pucEthernetBuffer[d] = NULL}

\* What xNetworkBufferSemaphore counts.
Available == Cardinality(FreeDescriptors) - ungiven

RxTypeOK ==
  /\ Ownership \in [Slots -> BOOLEAN]
  /\ Wrap \in [Slots -> BOOLEAN]
  /\ address \in [Slots -> Blocks]
  /\ rbqp \in Nat
  /\ rxpc \in {"scan", "wait", "get", "swap", "load", "store", "consider", "fault"}
  /\ slot \in Slots
  /\ pxDescriptor \in Descriptors \cup {NULL}
  /\ temp_wrap \in BOOLEAN /\ word \in BOOLEAN
  /\ pucEthernetBuffer \in [Descriptors -> Blocks \cup {NULL}]
  /\ backPointer \subseteq Descriptors
  /\ heap \subseteq Blocks
  /\ queue \in Seq(Descriptors) /\ Len(queue) <= ipconfigEVENT_QUEUE_LENGTH
  /\ stack \subseteq Descriptors
  /\ ungiven \in Nat
  /\ unread \subseteq Blocks

\* xSAMx5xMAC_InitBuffers; the task is about to search for the first time.
RxInit ==
  /\ Ownership = [x \in Slots |-> FALSE]
  /\ Wrap = [x \in Slots |-> x = ipconfigNUM_RX_BUFFERS - 1]
  /\ address \in [Slots -> Blocks]
  /\ \A x, y \in Slots : address[x] = address[y] => x = y
  /\ heap = Blocks \ {address[x] : x \in Slots}
  /\ rbqp = 0
  /\ rxpc = "scan" /\ slot = 0
  /\ pxDescriptor = NULL
  /\ temp_wrap = FALSE /\ word = FALSE
  /\ pucEthernetBuffer = [d \in Descriptors |-> NULL]
  /\ backPointer = {}
  /\ queue = <<>> /\ stack = {}
  /\ ungiven = 0
  /\ unread = {}

-----------------------------------------------------------------------------
(* The hardware                                                            *)

\* A frame arrives.  The descriptor after one with the Wrap bit is the first.
Receive ==
  /\ rbqp \in Slots
  /\ ~Ownership[rbqp]
  /\ unread' = unread \cup {address[rbqp]}
  /\ Ownership' = [Ownership EXCEPT ![rbqp] = TRUE]
  /\ rbqp' = IF Wrap[rbqp] THEN 0 ELSE rbqp + 1
  /\ UNCHANGED <<Wrap, address, rxpc, slot, pxDescriptor,
                 temp_wrap, word, pucEthernetBuffer, backPointer, heap, queue, stack, ungiven>>

-----------------------------------------------------------------------------
(* vSAMx5xMAC_DeferredRxInterruptHandlerTask                               *)

\* Mutant: the last descriptor is never looked at.
GetNextReceiveBuffer_StopsShort ==
  /\ rxpc = "scan"
  /\ IF Ownership[slot] THEN rxpc' = "get" /\ UNCHANGED slot
     ELSE IF slot + 1 < ipconfigNUM_RX_BUFFERS - 1 THEN slot' = slot + 1 /\ UNCHANGED rxpc
     ELSE rxpc' = "wait" /\ UNCHANGED slot
  /\ UNCHANGED <<Ownership, Wrap, address, rbqp, pxDescriptor,
                 temp_wrap, word, pucEthernetBuffer, backPointer, heap, queue,
                 stack, unread, ungiven>>

\* One turn of the loop of pxSAMx5xMAC_GetNextReceiveBuffer.
GetNextReceiveBuffer ==
  /\ rxpc = "scan"
  /\ \/ /\ Ownership[slot]
        /\ rxpc' = "get"
        /\ UNCHANGED slot
     \/ /\ ~Ownership[slot] /\ slot + 1 \in Slots
        /\ slot' = slot + 1
        /\ UNCHANGED rxpc
     \/ /\ ~Ownership[slot] /\ slot + 1 \notin Slots
        /\ rxpc' = "wait"
        /\ UNCHANGED slot
  /\ UNCHANGED <<Ownership, Wrap, address, rbqp, pxDescriptor,
                 temp_wrap, word, pucEthernetBuffer, backPointer, heap, queue,
                 stack, unread, ungiven>>

\* A notification ends the wait, and so does its limit of 250 ms.
WaitForFrame ==
  /\ rxpc = "wait"
  /\ rxpc' = "scan"
  /\ slot' = 0
  /\ UNCHANGED <<Ownership, Wrap, address, rbqp, pxDescriptor,
                 temp_wrap, word, pucEthernetBuffer, backPointer, heap, queue,
                 stack, unread, ungiven>>

\* A descriptor with a block on it, for the one the frame is in.
GetDescriptor ==
  /\ rxpc = "get"
  /\ Available > 0
  /\ \E d \in Gives(FreeDescriptors), b \in Gives(heap) :
       /\ pxDescriptor' = d
       /\ pucEthernetBuffer' = [pucEthernetBuffer EXCEPT ![d] = b]
       /\ backPointer' = backPointer \cup {d}
       /\ heap' = heap \ {b}
  /\ rxpc' = "swap"
  /\ UNCHANGED <<Ownership, Wrap, address, rbqp, slot,
                 temp_wrap, word, queue, stack, unread, ungiven>>

\* There is none, or the semaphore does not count it yet, and the get does not
\* wait; or there is no memory: the rest of the program takes from the same
\* heap, so that this may be at any time.  Line 144 uses NULL as a descriptor,
\* and what the program does from there on is not defined.
GetDescriptorFails ==
  /\ rxpc = "get"
  /\ rxpc' = "fault"
  /\ UNCHANGED <<Ownership, Wrap, address, rbqp, slot,
                 pxDescriptor, temp_wrap, word, pucEthernetBuffer, backPointer,
                 heap, queue, stack, unread, ungiven>>

\* Mutant: the ring keeps its block.
Swap_KeepsBlock ==
  /\ rxpc = "swap"
  /\ pucEthernetBuffer' = [pucEthernetBuffer EXCEPT ![pxDescriptor] = address[slot]]
  /\ Ownership' = [Ownership EXCEPT ![slot] = FALSE]
  /\ temp_wrap' = Wrap[slot]
  /\ Wrap' = [Wrap EXCEPT ![slot] = FALSE]
  /\ backPointer' = backPointer \ {pxDescriptor}
  /\ rxpc' = "load"
  /\ UNCHANGED <<address, rbqp, slot, pxDescriptor, word,
                 heap, queue, stack, unread, ungiven>>

\* The store of the address clears both bits of the word: from here on the
\* MAC may fill the new block.  What stands ahead of the other block is the
\* descriptor it came to the ring with.
Swap ==
  /\ rxpc = "swap"
  /\ pucEthernetBuffer' = [pucEthernetBuffer EXCEPT ![pxDescriptor] = address[slot]]
  /\ address' = [address EXCEPT ![slot] = pucEthernetBuffer[pxDescriptor]]
  /\ Ownership' = [Ownership EXCEPT ![slot] = FALSE]
  /\ temp_wrap' = Wrap[slot]
  /\ Wrap' = [Wrap EXCEPT ![slot] = FALSE]
  /\ backPointer' = backPointer \ {pxDescriptor}
  /\ rxpc' = "load"
  /\ UNCHANGED <<rbqp, slot, pxDescriptor, word,
                 heap, queue, stack, unread, ungiven>>

\* Mutant: the word with the Ownership bit that was found there is put back.
LoadWord_WithOwnership ==
  /\ rxpc = "load"
  /\ word' = TRUE
  /\ rxpc' = "store"
  /\ UNCHANGED <<Ownership, Wrap, address, rbqp, slot,
                 pxDescriptor, temp_wrap, pucEthernetBuffer, backPointer, heap,
                 queue, stack, unread, ungiven>>

LoadWord ==
  /\ rxpc = "load"
  /\ word' = Ownership[slot]
  /\ rxpc' = "store"
  /\ UNCHANGED <<Ownership, Wrap, address, rbqp, slot,
                 pxDescriptor, temp_wrap, pucEthernetBuffer, backPointer, heap,
                 queue, stack, unread, ungiven>>

\* Mutant: the bit is forgotten.
StoreWrap_Forgets ==
  /\ rxpc = "store"
  /\ Ownership' = [Ownership EXCEPT ![slot] = word]
  /\ rxpc' = "consider"
  /\ UNCHANGED <<Wrap, address, rbqp, slot, pxDescriptor,
                 temp_wrap, word, pucEthernetBuffer, heap, queue, stack, unread,
                 backPointer, ungiven>>

\* Mutant: the back pointer is left to the call that allocated another block.
StoreWrap_NoBackPointer ==
  /\ rxpc = "store"
  /\ Ownership' = [Ownership EXCEPT ![slot] = word]
  /\ Wrap' = [Wrap EXCEPT ![slot] = temp_wrap]
  /\ rxpc' = "consider"
  /\ UNCHANGED <<address, rbqp, slot, pxDescriptor,
                 temp_wrap, word, pucEthernetBuffer, heap, queue, stack, unread,
                 backPointer, ungiven>>

\* The store of the whole word, and of the back pointer.
StoreWrap ==
  /\ rxpc = "store"
  /\ Ownership' = [Ownership EXCEPT ![slot] = word]
  /\ Wrap' = [Wrap EXCEPT ![slot] = temp_wrap]
  /\ backPointer' = backPointer \cup {pxDescriptor}
  /\ rxpc' = "consider"
  /\ UNCHANGED <<address, rbqp, slot, pxDescriptor,
                 temp_wrap, word, pucEthernetBuffer, heap, queue, stack, unread, ungiven>>

\* The locals of the loop's body go out of scope.
NextFrame ==
  /\ rxpc' = "scan"
  /\ slot' = 0
  /\ pxDescriptor' = NULL
  /\ temp_wrap' = FALSE
  /\ word' = FALSE

\* Mutant: the descriptor is released although the queue took it.
SendToIPTask_Releases ==
  /\ rxpc = "consider"
  /\ Len(queue) < ipconfigEVENT_QUEUE_LENGTH
  /\ queue' = Append(queue, pxDescriptor)
  /\ unread' = unread \ {pucEthernetBuffer[pxDescriptor]}
  /\ heap' = heap \cup ({pucEthernetBuffer[pxDescriptor]} \ {NULL})
  /\ backPointer' = backPointer \ {pxDescriptor}
  /\ pucEthernetBuffer' = [pucEthernetBuffer EXCEPT ![pxDescriptor] = NULL]
  /\ NextFrame
  /\ UNCHANGED <<Ownership, Wrap, address, rbqp, stack, ungiven>>

\* The IP task is to process the frame.
SendToIPTask ==
  /\ rxpc = "consider"
  /\ Len(queue) < ipconfigEVENT_QUEUE_LENGTH
  /\ queue' = Append(queue, pxDescriptor)
  /\ unread' = unread \ {pucEthernetBuffer[pxDescriptor]}
  /\ NextFrame
  /\ UNCHANGED <<Ownership, Wrap, address, rbqp, pucEthernetBuffer, backPointer, heap, stack, ungiven>>

\* Mutant: the frame is dropped and the descriptor with it.
DropFrame_Leaks ==
  /\ rxpc = "consider"
  /\ unread' = unread \ {pucEthernetBuffer[pxDescriptor]}
  /\ pucEthernetBuffer' = [pucEthernetBuffer EXCEPT ![pxDescriptor] = NULL]
  /\ NextFrame
  /\ UNCHANGED <<Ownership, Wrap, address, rbqp, backPointer, heap, queue, stack, ungiven>>

\* It is not for this node, or the queue takes no more: other events use it too.
DropFrame ==
  /\ rxpc = "consider"
  /\ unread' = unread \ {pucEthernetBuffer[pxDescriptor]}
  /\ heap' = heap \cup ({pucEthernetBuffer[pxDescriptor]} \ {NULL})
  /\ backPointer' = backPointer \ {pxDescriptor}
  /\ pucEthernetBuffer' = [pucEthernetBuffer EXCEPT ![pxDescriptor] = NULL]
  /\ NextFrame
  /\ UNCHANGED <<Ownership, Wrap, address, rbqp, queue, stack, ungiven>>

RxTask ==
  \/ GetNextReceiveBuffer \/ WaitForFrame
  \/ GetDescriptor \/ GetDescriptorFails
  \/ Swap \/ LoadWord \/ StoreWrap
  \/ SendToIPTask \/ DropFrame

-----------------------------------------------------------------------------
(* The IP task and the rest of the stack                                   *)

ReceiveEvent ==
  /\ queue # <<>>
  /\ stack' = stack \cup {Head(queue)}
  /\ queue' = Tail(queue)
  /\ UNCHANGED <<Ownership, Wrap, address, rbqp, rxpc, slot,
                 pxDescriptor, temp_wrap, word, pucEthernetBuffer, backPointer,
                 heap, unread, ungiven>>

\* The memory goes back and the descriptor to the list; the semaphore is given
\* later, and the receive task, which has a higher priority, may come between.
StackRelease ==
  /\ \E d \in stack :
       /\ stack' = stack \ {d}
       /\ heap' = heap \cup ({pucEthernetBuffer[d]} \ {NULL})
       /\ backPointer' = backPointer \ {d}
       /\ pucEthernetBuffer' = [pucEthernetBuffer EXCEPT ![d] = NULL]
  /\ ungiven' = ungiven + 1
  /\ UNCHANGED <<Ownership, Wrap, address, rbqp, rxpc, slot,
                 pxDescriptor, temp_wrap, word, queue, unread>>

StackGives ==
  /\ ungiven > 0
  /\ ungiven' = ungiven - 1
  /\ UNCHANGED <<Ownership, Wrap, address, rbqp, rxpc, slot,
                 pxDescriptor, temp_wrap, word, pucEthernetBuffer, backPointer,
                 heap, queue, stack, unread>>

\* The stack gets buffers of its own for what it sends.
StackGet ==
  /\ Available > 0
  /\ \E d \in Gives(FreeDescriptors), b \in Gives(heap) :
       /\ stack' = stack \cup {d}
       /\ heap' = heap \ {b}
       /\ pucEthernetBuffer' = [pucEthernetBuffer EXCEPT ![d] = b]
       /\ backPointer' = backPointer \cup {d}
  /\ UNCHANGED <<Ownership, Wrap, address, rbqp, rxpc, slot,
                 pxDescriptor, temp_wrap, word, queue, unread, ungiven>>

\* It has taken the semaphore and finds no memory; StackGives gives it back.
StackGetFails ==
  /\ Available > 0
  /\ ungiven' = ungiven + 1
  /\ UNCHANGED <<Ownership, Wrap, address, rbqp, rxpc, slot,
                 pxDescriptor, temp_wrap, word, pucEthernetBuffer, backPointer,
                 heap, queue, stack, unread>>

Stack == ReceiveEvent \/ StackRelease \/ StackGives \/ StackGet \/ StackGetFails

\* After the fault the receive task takes no step that the model knows.
RxNext ==
  \/ Receive
  \/ RxTask
  \/ Stack

RxSpec == RxInit /\ [][RxNext]_rxVars

RxFairSpec == RxSpec /\ WF_rxVars(RxTask)

-----------------------------------------------------------------------------
(* Properties                                                              *)

\* The rule that keeps room in the queue for the other events of the IP task
\* (FreeRTOSIPConfigDefaults.h:93) does what it is for: frames alone never
\* take the last five places, nor does the one in hand (line 160), since each
\* frame holds a descriptor until the IP task has it, and no two the same.
FramesLeaveRoom ==
  Len(queue) + Cardinality(InHand) + 5 <= ipconfigEVENT_QUEUE_LENGTH

\* A block the MAC may write to, or that is filled and waits, is on one ring
\* descriptor, and nobody else holds it: no frame is overwritten while
\* the stack reads it, and none is freed under the MAC (lines 142-151).
RxEveryBlockOnce ==
  LET handedOut == {d \in Descriptors : pucEthernetBuffer[d] # NULL}
  IN /\ \A x, y \in Slots : address[x] = address[y] => x = y
     /\ \A x \in Slots : address[x] \notin heap
     /\ \A d \in handedOut : pucEthernetBuffer[d] \notin heap
     /\ \A d \in handedOut, x \in Slots : pucEthernetBuffer[d] # address[x]
     /\ \A d, e \in handedOut : pucEthernetBuffer[d] = pucEthernetBuffer[e] => d = e
     /\ Queued \cup stack \cup InHand = handedOut
     /\ Blocks \ heap = {address[x] : x \in Slots} \cup {pucEthernetBuffer[d] : d \in handedOut}

\* What the receive task takes for a frame is one, and is taken once,
\* although it finds filled descriptors by search and not in the order of
\* arrival (lines 110-118).
TakesFramesOnly ==
  rxpc = "consider" => pucEthernetBuffer[pxDescriptor] \in unread

\* The stack finds the descriptor of a block through the pointer ahead of
\* it (line 153): whatever the stack or the queue holds has its own pointer there.
BackPointerIsRight ==
  Queued \cup stack \subseteq backPointer

\* The MAC leaves the ring at one moment only: when it fills the last
\* descriptor after the address was stored there (line 150) and before
\* the Wrap bit was (line 151).
LeavesRingOnlyBetweenStores ==
  [][(rbqp \in Slots /\ rbqp' \notin Slots)
       => rxpc \in {"load", "store"} /\ slot = rbqp]_rxVars

\* The exchange of blocks keeps to the rules of the buffer management: seen
\* through the pointers in the ring and in the descriptors, the driver and
\* the stack only ever do what BufferPool lets its users do.
rxHeld == [u \in {"driver", "stack"} |-> IF u = "driver" THEN InHand ELSE Queued \cup stack]

rxRaw == [u \in {"driver", "stack"} |-> IF u = "driver" THEN {address[x] : x \in Slots} ELSE {}]

RxPool == INSTANCE BufferPool WITH
  Users <- {"driver", "stack"}, held <- rxHeld, raw <- rxRaw, storage <- pucEthernetBuffer

RxKeepsPoolRules == [][RxPool!Next]_<<rxHeld, rxRaw, pucEthernetBuffer>>

\* No filled descriptor waits for ever, although the search starts at the
\* first one each time and the MAC may refill it at once: the MAC comes to a
\* stop at the descriptor that waits.  Only the fault of line 144 ends this.
EverySlotTaken ==
  \A x \in Slots : Ownership[x] ~> ~Ownership[x] \/ rxpc = "fault"
=============================================================================
