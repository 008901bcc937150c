------------------------------- MODULE SamMacTx -------------------------------
(***************************************************************************)
(* The transmit side of samx5xmac.c.  xSAMx5xMAC_OutputFrame puts the      *)
(* block of a frame on the first descriptor of the ring that the MAC is    *)
(* done with, starts the transmitter, and gives back the block that the    *)
(* descriptor had kept since its last frame.  The transmit interrupt       *)
(* switches the transmitter off, which stops it in the middle of whatever  *)
(* it sends and returns it to the start of the ring.                       *)
(*                                                                         *)
(* The calls of the buffer management are single steps: NetworkBuffers     *)
(* shows that they may be seen that way.  A bit of NCR is set by a load    *)
(* and a store of the whole register, and the store brings back the TXEN   *)
(* that was loaded, although the interrupt may have cleared it in between. *)
(* What the PHY task does to NCR is the subject of SamMacLink.             *)
(***************************************************************************)
EXTENDS Integers, FiniteSets

CONSTANTS
  ipconfigNUM_TX_BUFFERS,
  TxDescriptors,            \* network buffer descriptors the stack sends with
  TxBlocks,
  MayGive(_),               \* what an allocator may give out of what it has
  NoBuffer                  \* NULL

TxSlots == 0 .. ipconfigNUM_TX_BUFFERS - 1

ASSUME TxAssumption ==
  /\ ipconfigNUM_TX_BUFFERS \in Nat \ {0}
  /\ \A S \in (SUBSET TxDescriptors) \cup (SUBSET TxBlocks) : MayGive(S) \subseteq S
  /\ NoBuffer \notin TxDescriptors
  /\ NoBuffer \notin TxBlocks

VARIABLES
  zeroCopy,             \* ipconfigZERO_COPY_TX_DRIVER, fixed when it is built
  Used, txAddress,      \* ethTransmitBuffers; the last one always has its Wrap bit
  TXEN,
  going,                \* the MAC goes through the ring
  tbqp,                 \* the descriptor it is at
  txFlag,               \* a flag the transmit interrupt is for
  txIrq,                \* its interrupts are enabled
  txpc,                 \* where the task that sends stands
  ncr,                  \* TXEN in the copy of NCR it has loaded
  txSlot, txDesc, xReleaseAfterSend, previousBuffer,
  txBuffer,             \* pucEthernetBuffer of each descriptor
  txHeap,
  txStack,              \* descriptors the stack holds
  unsent                \* blocks with a frame the MAC was not done with

macVars == <<Used, TXEN, going, tbqp, txFlag, txIrq, unsent>>
callVars == <<txpc, ncr, txSlot, txDesc, xReleaseAfterSend, previousBuffer>>
memVars == <<txAddress, txBuffer, txHeap, txStack>>

txVars == <<zeroCopy, macVars, callVars, memVars>>

TxTypeOK ==
  /\ zeroCopy \in BOOLEAN
  /\ Used \in [TxSlots -> BOOLEAN]
  /\ txAddress \in [TxSlots -> TxBlocks \cup {NoBuffer}]
  /\ TXEN \in BOOLEAN /\ going \in BOOLEAN /\ tbqp \in TxSlots
  /\ txFlag \in BOOLEAN /\ txIrq \in BOOLEAN
  /\ txpc \in {"idle", "search", "loadHalt", "halt", "fill", "enable", "interrupts",
               "loadStart", "start", "detach", "release", "previous"}
  /\ ncr \in BOOLEAN
  /\ txSlot \in TxSlots
  /\ txDesc \in TxDescriptors \cup {NoBuffer}
  /\ xReleaseAfterSend \in BOOLEAN
  /\ previousBuffer \in TxBlocks \cup {NoBuffer}
  /\ txBuffer \in [TxDescriptors -> TxBlocks \cup {NoBuffer}]
  /\ txHeap \subseteq TxBlocks
  /\ txStack \subseteq TxDescriptors
  /\ unsent \subseteq TxBlocks

\* xSAMx5xMAC_InitBuffers
TxInit ==
  /\ zeroCopy \in BOOLEAN
  /\ Used = [x \in TxSlots |-> TRUE]
  /\ txAddress = [x \in TxSlots |-> NoBuffer]
  /\ TXEN = FALSE /\ going = FALSE /\ tbqp = 0
  /\ txFlag = FALSE /\ txIrq = FALSE
  /\ txpc = "idle" /\ ncr = FALSE /\ txSlot = 0 /\ txDesc = NoBuffer
  /\ xReleaseAfterSend = FALSE /\ previousBuffer = NoBuffer
  /\ txBuffer = [d \in TxDescriptors |-> NoBuffer]
  /\ txHeap = TxBlocks
  /\ txStack = {}
  /\ unsent = {}

-----------------------------------------------------------------------------
(* The hardware                                                            *)

NextSlot(x) == IF x = ipconfigNUM_TX_BUFFERS - 1 THEN 0 ELSE x + 1

\* The frame on the descriptor has left whole.  The MAC goes on, unless a halt
\* was asked for meanwhile.
TransmitComplete ==
  /\ going /\ ~Used[tbqp]
  /\ Used' = [Used EXCEPT ![tbqp] = TRUE]
  /\ unsent' = unsent \ {txAddress[tbqp]}
  /\ tbqp' = NextSlot(tbqp)
  /\ going' \in BOOLEAN
  /\ txFlag' = TRUE
  /\ UNCHANGED <<zeroCopy, TXEN, txIrq, callVars, memVars>>

\* The MAC gives the frame up (TUR, TFC, RLEX) and may mark the descriptor so.
TransmitFails ==
  /\ going /\ ~Used[tbqp]
  /\ \/ /\ Used' = [Used EXCEPT ![tbqp] = TRUE]
        /\ unsent' = unsent \ {txAddress[tbqp]}
     \/ UNCHANGED <<Used, unsent>>
  /\ tbqp' = 0
  /\ going' = FALSE
  /\ txFlag' = TRUE
  /\ UNCHANGED <<zeroCopy, TXEN, txIrq, callVars, memVars>>

\* A used descriptor ends the transmission.
TransmitHalts ==
  /\ going /\ Used[tbqp]
  /\ going' = FALSE
  /\ UNCHANGED <<zeroCopy, Used, TXEN, tbqp, txFlag, txIrq, unsent,
                 callVars, memVars>>

\* GMAC_Handler and vSAMx5xMAC_TransmitInterrupt, which no task interrupts.
vSAMx5xMAC_TransmitInterrupt ==
  /\ txFlag /\ txIrq
  /\ txFlag' = FALSE
  /\ txIrq' = FALSE
  /\ TXEN' = FALSE
  /\ going' = FALSE
  /\ tbqp' = 0
  /\ UNCHANGED <<zeroCopy, Used, unsent, callVars, memVars>>

-----------------------------------------------------------------------------
(* xSAMx5xMAC_OutputFrame                                                  *)

xSAMx5xMAC_OutputFrame(d, release) ==
  /\ txpc = "idle"
  /\ d \in txStack
  /\ txBuffer[d] # NoBuffer
  /\ txpc' = "search" /\ txSlot' = 0
  /\ txDesc' = d
  /\ xReleaseAfterSend' = release
  /\ UNCHANGED <<zeroCopy, macVars, ncr, previousBuffer, memVars>>

\* One turn of the loop of pxSAMx5xMAC_GetNextTransmitBuffer, up to the last.
GetNextTransmitBuffer ==
  /\ txpc = "search"
  /\ \/ /\ Used[txSlot]
        /\ txpc' = "loadHalt"
        /\ previousBuffer' = txAddress[txSlot]
        /\ UNCHANGED txSlot
     \/ /\ ~Used[txSlot] /\ txSlot + 1 \in TxSlots
        /\ txSlot' = txSlot + 1
        /\ UNCHANGED <<txpc, previousBuffer>>
  /\ UNCHANGED <<zeroCopy, macVars, ncr, txDesc, xReleaseAfterSend, memVars>>

Return ==
  /\ txpc' = "idle" /\ txSlot' = 0
  /\ txDesc' = NoBuffer
  /\ xReleaseAfterSend' = FALSE
  /\ previousBuffer' = NoBuffer
  /\ UNCHANGED ncr

\* The descriptor and the block on it, if there still is one, go back.
Release(d) ==
  /\ txStack' = txStack \ {d}
  /\ txHeap' = txHeap \cup ({txBuffer[d]} \ {NoBuffer})
  /\ txBuffer' = [txBuffer EXCEPT ![d] = NoBuffer]

NoTransmitBuffer ==
  /\ txpc = "search"
  /\ ~Used[txSlot] /\ txSlot + 1 \notin TxSlots
  /\ IF xReleaseAfterSend THEN Release(txDesc) ELSE UNCHANGED <<txStack, txHeap, txBuffer>>
  /\ Return
  /\ UNCHANGED <<zeroCopy, macVars, txAddress>>

\* GMAC->NCR.bit.THALT = 1 and TSTART = 1 begin with a load.
LoadNCR ==
  /\ ncr' = TXEN
  /\ \/ txpc = "loadHalt" /\ txpc' = "halt"
     \/ txpc = "loadStart" /\ txpc' = "start"
  /\ UNCHANGED <<zeroCopy, macVars, txSlot, txDesc, xReleaseAfterSend, previousBuffer,
                 memVars>>

\* THALT lets the MAC finish what it is at and stop, unless TSTART comes first.
HaltTransmission ==
  /\ txpc = "halt"
  /\ TXEN' = ncr
  /\ ncr' = FALSE
  /\ txpc' = "fill"
  /\ UNCHANGED <<zeroCopy, Used, going, tbqp, txFlag, txIrq, unsent, txSlot, txDesc,
                 xReleaseAfterSend, previousBuffer, memVars>>

\* *pxTransmitBuffer = newBuffer: a frame for the MAC.
FillTransmitBuffer ==
  /\ txpc = "fill"
  /\ txAddress' = [txAddress EXCEPT ![txSlot] = txBuffer[txDesc]]
  /\ Used' = [Used EXCEPT ![txSlot] = FALSE]
  /\ unsent' = unsent \cup {txBuffer[txDesc]}
  /\ txpc' = "enable"
  /\ UNCHANGED <<zeroCopy, TXEN, going, tbqp, txFlag, txIrq, ncr, txSlot,
                 txDesc, xReleaseAfterSend, previousBuffer, txBuffer, txHeap, txStack>>

\* This store sets TXEN itself: what was loaded does not matter.
EnableTransmitter ==
  /\ txpc = "enable"
  /\ TXEN' = TRUE
  /\ txpc' = "interrupts"
  /\ UNCHANGED <<zeroCopy, Used, going, tbqp, txFlag, txIrq, unsent, ncr, txSlot, txDesc,
                 xReleaseAfterSend, previousBuffer, memVars>>

EnableInterrupts ==
  /\ txpc = "interrupts"
  /\ txIrq' = TRUE
  /\ txpc' = "loadStart"
  /\ UNCHANGED <<zeroCopy, Used, TXEN, going, tbqp, txFlag, unsent,
                 ncr, txSlot, txDesc, xReleaseAfterSend, previousBuffer, memVars>>

\* TSTART does nothing when the interrupt cleared TXEN before the load; when it
\* did so after the load, the store brings TXEN back and the MAC starts.
StartTransmission ==
  /\ txpc = "start"
  /\ TXEN' = ncr /\ going' = ncr
  /\ ncr' = FALSE
  /\ txpc' = IF xReleaseAfterSend THEN "detach" ELSE "previous"
  /\ UNCHANGED <<zeroCopy, Used, tbqp, txFlag, txIrq, unsent, txSlot, txDesc,
                 xReleaseAfterSend, previousBuffer, memVars>>

\* Mutant: the descriptor goes back with the block that is being sent.
DetachBlock_Forgets ==
  /\ txpc = "detach"
  /\ txpc' = "release"
  /\ UNCHANGED <<zeroCopy, macVars, ncr, txSlot, txDesc, xReleaseAfterSend, previousBuffer,
                 memVars>>

DetachBlock ==
  /\ txpc = "detach"
  /\ txBuffer' = [txBuffer EXCEPT ![txDesc] = NoBuffer]
  /\ txpc' = "release"
  /\ UNCHANGED <<zeroCopy, macVars, ncr, txSlot, txDesc, xReleaseAfterSend, previousBuffer,
                 txAddress, txHeap, txStack>>

ReleaseDescriptor ==
  /\ txpc = "release"
  /\ Release(txDesc)
  /\ txpc' = "previous"
  /\ UNCHANGED <<zeroCopy, macVars, ncr, txSlot, txDesc, xReleaseAfterSend, previousBuffer,
                 txAddress>>

\* Mutant: the block of the new frame is given back, not that of the old one.
ReleasePrevious_GivesNew ==
  /\ txpc = "previous"
  /\ txHeap' = txHeap \cup ({txAddress[txSlot]} \ {NoBuffer})
  /\ Return
  /\ UNCHANGED <<zeroCopy, macVars, txAddress, txBuffer, txStack>>

ReleasePrevious ==
  /\ txpc = "previous"
  /\ txHeap' = txHeap \cup ({previousBuffer} \ {NoBuffer})
  /\ Return
  /\ UNCHANGED <<zeroCopy, macVars, txAddress, txBuffer, txStack>>

TxTask ==
  \/ GetNextTransmitBuffer \/ NoTransmitBuffer
  \/ LoadNCR \/ HaltTransmission \/ FillTransmitBuffer
  \/ EnableTransmitter \/ EnableInterrupts \/ StartTransmission
  \/ DetachBlock \/ ReleaseDescriptor \/ ReleasePrevious

-----------------------------------------------------------------------------
(* The stack                                                               *)

\* TCP asks for release only when the driver is a zero-copy one; ARP and UDP
\* always do.
SendFrame ==
  \E d \in txStack, release \in {TRUE, zeroCopy} : xSAMx5xMAC_OutputFrame(d, release)

GetBuffer ==
  /\ txpc = "idle"
  /\ \E d \in MayGive(TxDescriptors \ txStack), b \in MayGive(txHeap) :
       /\ txStack' = txStack \cup {d}
       /\ txHeap' = txHeap \ {b}
       /\ txBuffer' = [txBuffer EXCEPT ![d] = b]
  /\ UNCHANGED <<zeroCopy, macVars, callVars, txAddress>>

ReleaseBuffer ==
  /\ txpc = "idle"
  /\ \E d \in txStack : Release(d)
  /\ UNCHANGED <<zeroCopy, macVars, callVars, txAddress>>

TxNext ==
  \/ TransmitComplete \/ TransmitFails \/ TransmitHalts
  \/ vSAMx5xMAC_TransmitInterrupt
  \/ SendFrame \/ TxTask
  \/ GetBuffer \/ ReleaseBuffer

TxSpec == TxInit /\ [][TxNext]_txVars

-----------------------------------------------------------------------------
(* Properties                                                              *)

\* The descriptor of a call that has put its block into the ring and not yet
\* taken it off the descriptor.
Sending == IF txpc \in {"enable", "interrupts", "loadStart", "start", "detach"}
           THEN {txDesc} ELSE {}

\* Once the driver has a frame, its block belongs to the ring alone: it is
\* neither free nor on another descriptor, nor on two places of the ring, and
\* no block is lost.  That takes a stack built for a zero-copy driver:
\* otherwise TCP keeps the descriptor, and the ring later frees a block that
\* the stack still uses.
TxEveryBlockOnce ==
  zeroCopy =>
    LET handedOut == {d \in TxDescriptors \ Sending : txBuffer[d] # NoBuffer}
        ring == {x \in TxSlots : txAddress[x] # NoBuffer}
    IN /\ \A x, y \in ring : txAddress[x] = txAddress[y] => x = y
       /\ \A x \in ring : txAddress[x] \notin txHeap
       /\ \A d \in handedOut : txBuffer[d] \notin txHeap
       /\ \A d \in handedOut, x \in ring : txBuffer[d] # txAddress[x]
       /\ \A d, e \in handedOut : txBuffer[d] = txBuffer[e] => d = e
       /\ TxBlocks \ txHeap = {txAddress[x] : x \in ring} \cup {txBuffer[d] : d \in handedOut}
                               \cup ({previousBuffer} \ {NoBuffer})

\* No block is free while its frame waits in the ring, however the interrupt
\* stops the transmitter and returns it to the start of the ring (line 240).
NoneFreeUnsent == zeroCopy => unsent \cap txHeap = {}
=============================================================================
