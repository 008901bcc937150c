---------------------------- MODULE NetworkBuffers ----------------------------
(***************************************************************************)
(* The network buffer management that the Ethernet drivers call, in its    *)
(* two implementations: BufferAllocation_2.c, where a descriptor gets      *)
(* memory from the heap when it is handed out, and samx5xmac_buffers.c,    *)
(* where every descriptor owns a static block.  Both keep the free         *)
(* descriptors in a list and count them with a semaphore, which is taken   *)
(* before the list is touched and given after it, outside of the critical  *)
(* section that protects the list: a call is a sequence of steps, and the  *)
(* calls of several tasks interleave.                                      *)
(*                                                                         *)
(* Abstracted: the sizes of the blocks, the low-water mark of the list     *)
(* (only ever printed) and the contents of the frames.  A request of zero  *)
(* bytes is no special case: line 221 of BufferAllocation_2.c adds two     *)
(* bytes to every request, so the test for zero at line 249 always passes. *)
(***************************************************************************)
EXTENDS Integers, Sequences, FiniteSets

CONSTANTS
  ipconfigNUM_NETWORK_BUFFER_DESCRIPTORS,
  Users,            \* tasks, and queues or rings they fill
  Blocks,           \* pieces of memory for one frame
  ucEthTxBuffers,   \* the static block of each descriptor
  NULL

Descriptors == 0 .. ipconfigNUM_NETWORK_BUFFER_DESCRIPTORS - 1

ASSUME PoolAssumption ==
  /\ ipconfigNUM_NETWORK_BUFFER_DESCRIPTORS \in Nat \ {0}
  /\ IsFiniteSet(Users)
  /\ NULL \notin Descriptors
  /\ NULL \notin Blocks
  /\ ucEthTxBuffers \in [Descriptors -> Blocks]
  /\ \A d, e \in Descriptors : ucEthTxBuffers[d] = ucEthTxBuffers[e] => d = e

VARIABLES
  implementation,           \* "heap" or "static": the file that is linked
  xNetworkBufferSemaphore,  \* its count
  xFreeBuffersList,
  pucEthernetBuffer,        \* of each descriptor
  heap,                     \* blocks the heap can give out
  held, raw,                \* what each user was given and did not give back
  pc,                       \* where each user stands in a call
  pxDesc,                   \* the descriptor the call is about
  pucBuffer                 \* the block a resize has allocated

vars == <<implementation, xNetworkBufferSemaphore, xFreeBuffersList,
          pucEthernetBuffer, heap, held, raw, pc, pxDesc, pucBuffer>>

Labels == {"idle", "take", "unlink", "allocate", "free", "insert", "give", "resize"}

TypeOK ==
  /\ implementation \in {"heap", "static"}
  /\ xNetworkBufferSemaphore \in 0 .. ipconfigNUM_NETWORK_BUFFER_DESCRIPTORS
  /\ xFreeBuffersList \in Seq(Descriptors)
  /\ pucEthernetBuffer \in [Descriptors -> Blocks \cup {NULL}]
  /\ heap \subseteq Blocks
  /\ held \in [Users -> SUBSET Descriptors]
  /\ raw \in [Users -> SUBSET Blocks]
  /\ pc \in [Users -> Labels]
  /\ pxDesc \in [Users -> Descriptors \cup {NULL}]
  /\ pucBuffer \in [Users -> Blocks \cup {NULL}]

\* xNetworkBuffersInitialise, which runs before any task asks for a buffer.
Init ==
  /\ xNetworkBufferSemaphore = ipconfigNUM_NETWORK_BUFFER_DESCRIPTORS
  /\ xFreeBuffersList = [i \in 1 .. ipconfigNUM_NETWORK_BUFFER_DESCRIPTORS |-> i - 1]
  /\ \/ /\ implementation = "heap"
        /\ pucEthernetBuffer = [d \in Descriptors |-> NULL]
        /\ heap = Blocks
     \/ /\ implementation = "static"
        /\ pucEthernetBuffer = ucEthTxBuffers
        /\ heap = {}
  /\ held = [u \in Users |-> {}]
  /\ raw = [u \in Users |-> {}]
  /\ pc = [u \in Users |-> "idle"]
  /\ pxDesc = [u \in Users |-> NULL]
  /\ pucBuffer = [u \in Users |-> NULL]

Goto(u, label) == pc' = [pc EXCEPT ![u] = label]

Elements(s) == {s[i] : i \in 1 .. Len(s)}

Listed == Elements(xFreeBuffersList)

-----------------------------------------------------------------------------
(* pxGetNetworkBufferWithDescriptor                                        *)

pxGetNetworkBufferWithDescriptor(u) ==
  /\ pc[u] = "idle"
  /\ Goto(u, "take")
  /\ UNCHANGED <<implementation, xNetworkBufferSemaphore, xFreeBuffersList,
                 pucEthernetBuffer, heap, held, raw, pxDesc, pucBuffer>>

\* Mutant: taken although nothing is there.
TakeSemaphore_AtZero(u) ==
  /\ pc[u] = "take"
  /\ xNetworkBufferSemaphore' = xNetworkBufferSemaphore - 1
  /\ Goto(u, "unlink")
  /\ UNCHANGED <<implementation, xFreeBuffersList, pucEthernetBuffer, heap,
                 held, raw, pxDesc, pucBuffer>>


TakeSemaphore(u) ==
  /\ pc[u] = "take"
  /\ xNetworkBufferSemaphore > 0
  /\ xNetworkBufferSemaphore' = xNetworkBufferSemaphore - 1
  /\ Goto(u, "unlink")
  /\ UNCHANGED <<implementation, xFreeBuffersList, pucEthernetBuffer, heap,
                 held, raw, pxDesc, pucBuffer>>

\* The block time is over (it may be zero): the caller gets NULL.
TakeTimesOut(u) ==
  /\ pc[u] = "take"
  /\ xNetworkBufferSemaphore = 0
  /\ Goto(u, "idle")
  /\ UNCHANGED <<implementation, xNetworkBufferSemaphore, xFreeBuffersList,
                 pucEthernetBuffer, heap, held, raw, pxDesc, pucBuffer>>

\* Mutant: the head is read and stays in the list.
UnlinkHead_Stays(u) ==
  /\ pc[u] = "unlink"
  /\ xFreeBuffersList # <<>>
  /\ pxDesc' = [pxDesc EXCEPT ![u] = Head(xFreeBuffersList)]
  /\ Goto(u, "allocate")
  /\ UNCHANGED <<implementation, xNetworkBufferSemaphore, xFreeBuffersList,
                 pucEthernetBuffer, heap, held, raw, pucBuffer>>

\* The critical section.  The head of an empty list is no descriptor.
UnlinkHead(u) ==
  /\ pc[u] = "unlink"
  /\ xFreeBuffersList # <<>>
  /\ xFreeBuffersList' = Tail(xFreeBuffersList)
  /\ pxDesc' = [pxDesc EXCEPT ![u] = Head(xFreeBuffersList)]
  /\ Goto(u, "allocate")
  /\ UNCHANGED <<implementation, xNetworkBufferSemaphore, pucEthernetBuffer,
                 heap, held, raw, pucBuffer>>

\* The static descriptor is complete: it is returned.
ReturnStatic(u) ==
  /\ implementation = "static"
  /\ pc[u] = "allocate"
  /\ held' = [held EXCEPT ![u] = @ \cup {pxDesc[u]}]
  /\ pxDesc' = [pxDesc EXCEPT ![u] = NULL]
  /\ Goto(u, "idle")
  /\ UNCHANGED <<implementation, xNetworkBufferSemaphore, xFreeBuffersList,
                 pucEthernetBuffer, heap, raw, pucBuffer>>

Allocate(u) ==
  /\ implementation = "heap"
  /\ pc[u] = "allocate"
  /\ \E b \in heap :
       /\ heap' = heap \ {b}
       /\ pucEthernetBuffer' = [pucEthernetBuffer EXCEPT ![pxDesc[u]] = b]
  /\ held' = [held EXCEPT ![u] = @ \cup {pxDesc[u]}]
  /\ pxDesc' = [pxDesc EXCEPT ![u] = NULL]
  /\ Goto(u, "idle")
  /\ UNCHANGED <<implementation, xNetworkBufferSemaphore, xFreeBuffersList,
                 raw, pucBuffer>>

\* Mutant: the caller gets NULL and nobody keeps the descriptor.
AllocateFails_Leaks(u) ==
  /\ implementation = "heap"
  /\ pc[u] = "allocate"
  /\ Goto(u, "idle")
  /\ UNCHANGED <<implementation, xNetworkBufferSemaphore, xFreeBuffersList,
                 pucEthernetBuffer, heap, held, raw, pxDesc, pucBuffer>>

\* No memory: the descriptor is released again and the caller gets NULL.
AllocateFails(u) ==
  /\ implementation = "heap"
  /\ pc[u] = "allocate"
  /\ Goto(u, "free")
  /\ UNCHANGED <<implementation, xNetworkBufferSemaphore, xFreeBuffersList,
                 pucEthernetBuffer, heap, held, raw, pxDesc, pucBuffer>>

-----------------------------------------------------------------------------
(* vReleaseNetworkBufferAndDescriptor                                      *)

vReleaseNetworkBufferAndDescriptor(u) ==
  /\ pc[u] = "idle"
  /\ \E d \in held[u] :
       /\ pxDesc' = [pxDesc EXCEPT ![u] = d]
       /\ held' = [held EXCEPT ![u] = @ \ {d}]
  /\ Goto(u, IF implementation = "heap" THEN "free" ELSE "insert")
  /\ UNCHANGED <<implementation, xNetworkBufferSemaphore, xFreeBuffersList,
                 pucEthernetBuffer, heap, raw, pucBuffer>>

\* Mutant: the pointer to the freed block stays in the descriptor.
FreeStorage_KeepsPointer(u) ==
  /\ pc[u] = "free"
  /\ heap' = heap \cup ({pucEthernetBuffer[pxDesc[u]]} \ {NULL})
  /\ Goto(u, "insert")
  /\ UNCHANGED <<implementation, xNetworkBufferSemaphore, xFreeBuffersList,
                 pucEthernetBuffer, held, raw, pxDesc, pucBuffer>>

\* Mutant: the semaphore is given before the descriptor is in the list.
FreeStorage_GivesFirst(u) ==
  /\ pc[u] = "free"
  /\ xNetworkBufferSemaphore < ipconfigNUM_NETWORK_BUFFER_DESCRIPTORS
  /\ xNetworkBufferSemaphore' = xNetworkBufferSemaphore + 1
  /\ heap' = heap \cup ({pucEthernetBuffer[pxDesc[u]]} \ {NULL})
  /\ pucEthernetBuffer' = [pucEthernetBuffer EXCEPT ![pxDesc[u]] = NULL]
  /\ Goto(u, "insert")
  /\ UNCHANGED <<implementation, xFreeBuffersList, held, raw, pxDesc, pucBuffer>>


FreeStorage(u) ==
  /\ pc[u] = "free"
  /\ heap' = heap \cup ({pucEthernetBuffer[pxDesc[u]]} \ {NULL})
  /\ pucEthernetBuffer' = [pucEthernetBuffer EXCEPT ![pxDesc[u]] = NULL]
  /\ Goto(u, "insert")
  /\ UNCHANGED <<implementation, xNetworkBufferSemaphore, xFreeBuffersList,
                 held, raw, pxDesc, pucBuffer>>

\* The critical section.
InsertEnd(u) ==
  /\ pc[u] = "insert"
  /\ IF pxDesc[u] \in Listed
       THEN /\ Goto(u, "idle")
            /\ pxDesc' = [pxDesc EXCEPT ![u] = NULL]
            /\ UNCHANGED xFreeBuffersList
       ELSE /\ Goto(u, "give")
            /\ xFreeBuffersList' = Append(xFreeBuffersList, pxDesc[u])
            /\ UNCHANGED pxDesc
  /\ UNCHANGED <<implementation, xNetworkBufferSemaphore, pucEthernetBuffer,
                 heap, held, raw, pucBuffer>>

GiveSemaphore(u) ==
  /\ pc[u] = "give"
  /\ xNetworkBufferSemaphore' =
       IF xNetworkBufferSemaphore < ipconfigNUM_NETWORK_BUFFER_DESCRIPTORS
         THEN xNetworkBufferSemaphore + 1
         ELSE xNetworkBufferSemaphore
  /\ pxDesc' = [pxDesc EXCEPT ![u] = NULL]
  /\ Goto(u, "idle")
  /\ UNCHANGED <<implementation, xFreeBuffersList, pucEthernetBuffer, heap,
                 held, raw, pucBuffer>>

-----------------------------------------------------------------------------
(* Blocks without a descriptor, and a descriptor with another block.       *)

pucGetNetworkBuffer(u) ==
  /\ implementation = "heap"
  /\ pc[u] = "idle"
  /\ \E b \in heap :
       /\ heap' = heap \ {b}
       /\ raw' = [raw EXCEPT ![u] = @ \cup {b}]
  /\ UNCHANGED <<implementation, xNetworkBufferSemaphore, xFreeBuffersList,
                 pucEthernetBuffer, held, pc, pxDesc, pucBuffer>>

vReleaseNetworkBuffer(u) ==
  /\ pc[u] = "idle"
  /\ \E b \in raw[u] :
       /\ heap' = heap \cup {b}
       /\ raw' = [raw EXCEPT ![u] = @ \ {b}]
  /\ UNCHANGED <<implementation, xNetworkBufferSemaphore, xFreeBuffersList,
                 pucEthernetBuffer, held, pc, pxDesc, pucBuffer>>

\* The new block is there and the frame is copied; without memory the call
\* returns NULL and the descriptor stays as it was.
pxResizeNetworkBufferWithDescriptor(u) ==
  /\ implementation = "heap"
  /\ pc[u] = "idle"
  /\ \E d \in held[u], b \in heap :
       /\ pucEthernetBuffer[d] # NULL
       /\ heap' = heap \ {b}
       /\ pucBuffer' = [pucBuffer EXCEPT ![u] = b]
       /\ pxDesc' = [pxDesc EXCEPT ![u] = d]
  /\ Goto(u, "resize")
  /\ UNCHANGED <<implementation, xNetworkBufferSemaphore, xFreeBuffersList,
                 pucEthernetBuffer, held, raw>>

\* Mutant: the old block is not given back.
ResizeSwap_KeepsOld(u) ==
  /\ pc[u] = "resize"
  /\ pucEthernetBuffer' = [pucEthernetBuffer EXCEPT ![pxDesc[u]] = pucBuffer[u]]
  /\ pucBuffer' = [pucBuffer EXCEPT ![u] = NULL]
  /\ pxDesc' = [pxDesc EXCEPT ![u] = NULL]
  /\ Goto(u, "idle")
  /\ UNCHANGED <<implementation, xNetworkBufferSemaphore, xFreeBuffersList,
                 heap, held, raw>>


ResizeSwap(u) ==
  /\ pc[u] = "resize"
  /\ heap' = heap \cup {pucEthernetBuffer[pxDesc[u]]}
  /\ pucEthernetBuffer' = [pucEthernetBuffer EXCEPT ![pxDesc[u]] = pucBuffer[u]]
  /\ pucBuffer' = [pucBuffer EXCEPT ![u] = NULL]
  /\ pxDesc' = [pxDesc EXCEPT ![u] = NULL]
  /\ Goto(u, "idle")
  /\ UNCHANGED <<implementation, xNetworkBufferSemaphore, xFreeBuffersList,
                 held, raw>>

-----------------------------------------------------------------------------
(* What the driver does with what it holds: the transmit path keeps the    *)
(* block and releases the descriptor, the receive path exchanges blocks,   *)
(* and descriptors travel through queues.                                  *)

Detach(u) ==
  /\ implementation = "heap"
  /\ pc[u] = "idle"
  /\ \E d \in held[u] :
       /\ pucEthernetBuffer[d] # NULL
       /\ raw' = [raw EXCEPT ![u] = @ \cup {pucEthernetBuffer[d]}]
       /\ pucEthernetBuffer' = [pucEthernetBuffer EXCEPT ![d] = NULL]
  /\ UNCHANGED <<implementation, xNetworkBufferSemaphore, xFreeBuffersList,
                 heap, held, pc, pxDesc, pucBuffer>>

Exchange(u) ==
  /\ implementation = "heap"
  /\ pc[u] = "idle"
  /\ \E d \in held[u], b \in raw[u] :
       /\ pucEthernetBuffer[d] # NULL
       /\ raw' = [raw EXCEPT ![u] = (@ \ {b}) \cup {pucEthernetBuffer[d]}]
       /\ pucEthernetBuffer' = [pucEthernetBuffer EXCEPT ![d] = b]
  /\ UNCHANGED <<implementation, xNetworkBufferSemaphore, xFreeBuffersList,
                 heap, held, pc, pxDesc, pucBuffer>>

Pass(u, v) ==
  /\ u # v
  /\ pc[u] = "idle"
  /\ \E d \in held[u] :
       held' = [held EXCEPT ![u] = @ \ {d}, ![v] = @ \cup {d}]
  /\ UNCHANGED <<implementation, xNetworkBufferSemaphore, xFreeBuffersList,
                 pucEthernetBuffer, heap, raw, pc, pxDesc, pucBuffer>>

UserStep(u) ==
  \/ pxGetNetworkBufferWithDescriptor(u) \/ TakeSemaphore(u) \/ TakeTimesOut(u)
  \/ UnlinkHead(u) \/ ReturnStatic(u) \/ Allocate(u) \/ AllocateFails(u)
  \/ vReleaseNetworkBufferAndDescriptor(u) \/ FreeStorage(u)
  \/ InsertEnd(u) \/ GiveSemaphore(u)
  \/ pucGetNetworkBuffer(u) \/ vReleaseNetworkBuffer(u)
  \/ pxResizeNetworkBufferWithDescriptor(u) \/ ResizeSwap(u)
  \/ Detach(u) \/ Exchange(u)

Next ==
  \/ \E u \in Users : UserStep(u)
  \/ \E u, v \in Users : Pass(u, v)

Spec == Init /\ [][Next]_vars

-----------------------------------------------------------------------------
(* Properties                                                              *)

\* Descriptors a call has taken off the list, or has not yet put back.
InCall(u) == pc[u] \in {"allocate", "free", "insert"}

\* A task that has taken the semaphore finds a descriptor in the list: the
\* release puts the descriptor back before it gives the semaphore, so the
\* code may take the head of the list without a test (BufferAllocation_2.c:232).
SemaphoreIsCovered ==
  \A u \in Users : pc[u] = "unlink" => xFreeBuffersList # <<>>

\* No descriptor is in two hands, in two calls or twice in the list, and none
\* is lost, whatever calls fail on the way.
NoRepeats(s) == \A i, j \in 1 .. Len(s) : s[i] = s[j] => i = j

EveryDescriptorOnce ==
  /\ NoRepeats(xFreeBuffersList)
  /\ \A u \in Users : InCall(u) => pxDesc[u] \notin Listed
  /\ \A u, v \in Users :
       /\ held[u] \cap Listed = {}
       /\ InCall(u) => pxDesc[u] \notin held[v]
       /\ u # v => held[u] \cap held[v] = {}
       /\ u # v /\ InCall(u) /\ InCall(v) => pxDesc[u] # pxDesc[v]
  /\ \A d \in Descriptors : \/ d \in Listed
                            \/ \E u \in Users : d \in held[u] \/ (InCall(u) /\ pxDesc[u] = d)

\* The assertion of BufferAllocation_2.c:248: a descriptor that is taken off the list has no
\* memory hanging on it, which would be lost.
UnlinkedHasNoMemory ==
  implementation = "heap" =>
    \A u \in Users : pc[u] = "allocate" => pucEthernetBuffer[pxDesc[u]] = NULL

\* Every block of memory is in the heap or in exactly one other place: none
\* leaks, and none is freed while somebody can reach it.
NoBlockTwice ==
  /\ \A d, e \in Descriptors :
       pucEthernetBuffer[d] = pucEthernetBuffer[e] => d = e \/ pucEthernetBuffer[d] = NULL
  /\ \A d \in Descriptors, u \in Users :
       /\ pucEthernetBuffer[d] \notin heap \cup raw[u]
       /\ pucEthernetBuffer[d] = pucBuffer[u] => pucBuffer[u] = NULL
  /\ \A u, v \in Users :
       /\ raw[u] \cap heap = {}
       /\ u # v => raw[u] \cap raw[v] = {}
       /\ pucBuffer[u] \notin heap \cup raw[v]
       /\ u # v /\ pucBuffer[u] = pucBuffer[v] => pucBuffer[u] = NULL

NoBlockLost ==
  implementation = "heap" =>
    \A b \in Blocks \ heap : \/ \E d \in Descriptors : pucEthernetBuffer[d] = b
                            \/ \E u \in Users : b \in raw[u] \/ pucBuffer[u] = b

EveryBlockOnce == NoBlockTwice /\ NoBlockLost

\* Seen from outside, each call is one step of the abstract pool: a descriptor
\* and its memory belong to the caller from the end of the call that gets them
\* to the start of the call that releases them.
Storage == [d \in Descriptors |->
              IF \E u \in Users : d \in held[u] THEN pucEthernetBuffer[d] ELSE NULL]

Pool == INSTANCE BufferPool WITH storage <- Storage

ImplementsPool == Pool!Spec
=============================================================================
