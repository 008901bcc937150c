------------------------------- MODULE Enc28j60 -------------------------------
(***************************************************************************)
(* The network interface of an ENC28J60 (NetworkInterface.c): the IP task  *)
(* initialises the controller, again and again until that succeeds, and    *)
(* sends frames; the NIC task looks for packets and for changes of the     *)
(* link.  A semaphore gives one of them the controller, from when the      *)
(* initialisation is over.                                                 *)
(*                                                                         *)
(* The receive buffer of the controller is a ring of RxUnits packets, and  *)
(* a pointer into it the number of a packet.  The controller keeps one     *)
(* free, as ERXWRPT = ERXRDPT means an empty ring.  A change of the link   *)
(* raises LINKIF, or will when PHIE is set.  The bank of a register        *)
(* matters up to the configuration: every later access selects its bank    *)
(* in a critical section, from a lastBank that is right.  (RXERIF, which   *)
(* the NIC task only clears, has no part here.)                            *)
(***************************************************************************)
EXTENDS Integers

CONSTANT RxUnits                \* packets the receive buffer has room for

ASSUME EncAssumption == RxUnits \in Nat /\ RxUnits >= 2

VARIABLES
  connected, bank,              \* the controller answers; BSEL in its ECON1
  link, LINKIF, TXRTS,
  ECON1_RXEN, ERXWRPT, ERXRDPT, EPKTCNT,
  lastBank, linkUp, nextPckPtr, \* of the driver
  semph_spi_free,               \* 0 or 1; 0 also before it is created
  iptask, nictask                   \* where the two tasks stand

phyVars == <<link, LINKIF>>
rxRing == <<ECON1_RXEN, ERXWRPT, ERXRDPT, EPKTCNT>>
controller == <<connected, bank, phyVars, TXRTS, rxRing>>
driver == <<lastBank, linkUp, nextPckPtr>>
encVars == <<controller, driver, semph_spi_free, iptask, nictask>>

Banks == 0 .. 3

EncTypeOK ==
  /\ connected \in BOOLEAN /\ bank \in Banks
  /\ link \in BOOLEAN /\ LINKIF \in BOOLEAN /\ TXRTS \in BOOLEAN /\ ECON1_RXEN \in BOOLEAN
  /\ ERXWRPT \in 0 .. RxUnits - 1 /\ ERXRDPT \in 0 .. RxUnits - 1
  /\ EPKTCNT \in 0 .. RxUnits
  /\ lastBank \in Banks /\ linkUp \in BOOLEAN /\ nextPckPtr \in 0 .. RxUnits - 1
  /\ semph_spi_free \in 0 .. 1
  /\ iptask \in {"reset", "revision", "retry", "configure", "give",
                 "up", "send", "write", "done"}
  /\ nictask \in {"none", "wait", "take", "eir", "phir", "phstat", "count",
                  "buffer", "erxrdpt", "pktdec"}

EncInit ==
  /\ connected \in BOOLEAN /\ bank = 0
  /\ link = FALSE /\ LINKIF = FALSE /\ TXRTS = FALSE
  /\ ECON1_RXEN = FALSE /\ ERXWRPT = 0 /\ ERXRDPT = 0 /\ EPKTCNT = 0
  /\ lastBank = 0 /\ linkUp = FALSE /\ nextPckPtr = 0
  /\ semph_spi_free = 0
  /\ iptask = "reset" /\ nictask = "none"

-----------------------------------------------------------------------------
(* The controller and its cable                                            *)

Following(p) == (p + 1) % RxUnits

\* Its registers after a reset, or when it gets its supply
ResetState ==
  /\ bank' = 0
  /\ link' = FALSE /\ LINKIF' = FALSE /\ TXRTS' = FALSE
  /\ ECON1_RXEN' = FALSE /\ ERXWRPT' = 0 /\ ERXRDPT' = 0 /\ EPKTCNT' = 0

\* While the stack waits for it, the controller may come and go.
Connect ==
  /\ iptask = "retry"
  /\ connected' = ~connected
  /\ ResetState
  /\ UNCHANGED <<driver, semph_spi_free, iptask, nictask>>

LinkChanges ==
  /\ connected
  /\ link' = ~link /\ LINKIF' = TRUE
  /\ UNCHANGED <<connected, bank, TXRTS, rxRing, driver, semph_spi_free, iptask, nictask>>

PacketArrives ==
  /\ ECON1_RXEN /\ link
  /\ Following(ERXWRPT) # ERXRDPT
  /\ ERXWRPT' = Following(ERXWRPT)
  /\ EPKTCNT' = EPKTCNT + 1
  /\ UNCHANGED <<connected, bank, phyVars, TXRTS, ECON1_RXEN, ERXRDPT, driver,
                 semph_spi_free, iptask, nictask>>

FrameSent ==
  /\ TXRTS /\ TXRTS' = FALSE
  /\ UNCHANGED <<connected, bank, phyVars, rxRing, driver, semph_spi_free, iptask, nictask>>

-----------------------------------------------------------------------------
(* xNetworkInterfaceInitialise                                             *)

\* ENC_BankSel: nothing is sent for a bank that is the last one already, and
\* nobody hears what is sent without a controller.
ENC_BankSel(b) ==
  /\ lastBank' = b
  /\ bank' = IF connected /\ lastBank # b THEN b ELSE bank

ResetController ==
  /\ iptask = "reset"
  /\ IF connected THEN ResetState ELSE UNCHANGED <<bank, phyVars, TXRTS, rxRing>>
  /\ iptask' = "revision"
  /\ UNCHANGED <<connected, driver, semph_spi_free, nictask>>

\* EREVID is register 0x12 of bank 3; the one of bank 0, EDMANDL, is 0 after
\* a reset.  An open line reads as 0 or 0xFF.
RevisionIsRead == connected /\ bank' = 3

ReadRevision ==
  /\ iptask = "revision"
  /\ ENC_BankSel(3)
  /\ IF RevisionIsRead
     THEN iptask' = "configure" /\ nictask' = "wait"
     ELSE iptask' = "retry" /\ UNCHANGED nictask
  /\ UNCHANGED <<connected, phyVars, TXRTS, rxRing, linkUp, nextPckPtr, semph_spi_free>>

\* The IP task waits and calls again (prvProcessNetworkDownEvent).
RetryInitialise ==
  /\ iptask = "retry" /\ iptask' = "reset"
  /\ UNCHANGED <<controller, driver, semph_spi_free, nictask>>

\* The last register with a bank of its own is MAADR6, in bank 3.
Configure ==
  /\ iptask = "configure"
  /\ ERXWRPT' = 0 /\ ERXRDPT' = 0 /\ nextPckPtr' = 0
  /\ ECON1_RXEN' = TRUE
  /\ ENC_BankSel(3)
  /\ iptask' = "give"
  /\ UNCHANGED <<connected, phyVars, TXRTS, EPKTCNT, linkUp, semph_spi_free, nictask>>

GiveSemaphore ==
  /\ iptask = "give"
  /\ semph_spi_free' = 1
  /\ iptask' = "up"
  /\ UNCHANGED <<controller, driver, nictask>>

-----------------------------------------------------------------------------
(* xNetworkInterfaceOutput                                                 *)

StartOutput ==
  /\ iptask = "up" /\ iptask' = "send"
  /\ UNCHANGED <<controller, driver, semph_spi_free, nictask>>

TakeForOutput ==
  /\ iptask = "send"
  /\ \/ semph_spi_free = 1 /\ semph_spi_free' = 0 /\ iptask' = "write"
     \/ semph_spi_free = 0 /\ iptask' = "up" /\ UNCHANGED semph_spi_free      \* in a second
  /\ UNCHANGED <<controller, driver, nictask>>

\* The return of line 252 keeps the semaphore.
WriteFrame ==
  /\ iptask = "write"
  /\ IF linkUp /\ TXRTS
     THEN iptask' = "up" /\ UNCHANGED TXRTS
     ELSE iptask' = "done" /\ TXRTS' = (TXRTS \/ linkUp)
  /\ UNCHANGED <<connected, bank, phyVars, rxRing, driver, semph_spi_free, nictask>>

OutputDone ==
  /\ iptask = "done"
  /\ semph_spi_free' = 1
  /\ iptask' = "up"
  /\ UNCHANGED <<controller, driver, nictask>>

IpTask ==
  \/ ResetController \/ ReadRevision \/ RetryInitialise \/ Configure \/ GiveSemaphore
  \/ TakeForOutput \/ WriteFrame \/ OutputDone

-----------------------------------------------------------------------------
(* nicIntTask.  Its wait ends by an interrupt or after half a second.      *)

NicGoes(from, to) == nictask = from /\ nictask' = to

WaitEnds ==
  /\ NicGoes("wait", "take")
  /\ UNCHANGED <<controller, driver, semph_spi_free, iptask>>

TakeForNic ==
  /\ \/ NicGoes("take", "eir") /\ semph_spi_free = 1 /\ semph_spi_free' = 0
     \/ NicGoes("take", "wait") /\ semph_spi_free = 0 /\ UNCHANGED semph_spi_free
  /\ UNCHANGED <<controller, driver, iptask>>

ReadEIR ==
  /\ NicGoes("eir", IF LINKIF THEN "phir" ELSE "count")
  /\ UNCHANGED <<controller, driver, semph_spi_free, iptask>>

\* Reading PHIR clears the flag.
ReadPHIR ==
  /\ NicGoes("phir", "phstat")
  /\ LINKIF' = FALSE
  /\ UNCHANGED <<connected, bank, link, TXRTS, rxRing, driver, semph_spi_free, iptask>>

\* Mutant: a change is taken for the opposite of what was.
ReadPHSTAT2_Toggles ==
  /\ NicGoes("phstat", "count")
  /\ linkUp' = ~linkUp
  /\ UNCHANGED <<connected, bank, phyVars, TXRTS, rxRing, lastBank, nextPckPtr,
                 semph_spi_free, iptask>>

ReadPHSTAT2 ==
  /\ NicGoes("phstat", "count")
  /\ linkUp' = link
  /\ UNCHANGED <<connected, bank, phyVars, TXRTS, rxRing, lastBank, nextPckPtr,
                 semph_spi_free, iptask>>

\* With a packet: ERDPT is set, and the header read, which says where the
\* next packet is.
ReadHeader ==
  /\ NicGoes("count", "buffer") /\ EPKTCNT > 0
  /\ nextPckPtr' = Following(nextPckPtr)
  /\ UNCHANGED <<connected, bank, phyVars, TXRTS, rxRing, lastBank, linkUp, semph_spi_free,
                 iptask>>

\* Mutant: a packet there is no buffer for is left to the next turn.
TakePacket_Leaves ==
  /\ \/ NicGoes("buffer", "erxrdpt")
     \/ NicGoes("buffer", "count")
  /\ UNCHANGED <<controller, driver, semph_spi_free, iptask>>

\* The packet is read into a buffer and sent to the IP task, or is not, for
\* want of a buffer or of a place in the queue; the buffer is then released.
TakePacket ==
  /\ NicGoes("buffer", "erxrdpt")
  /\ UNCHANGED <<controller, driver, semph_spi_free, iptask>>

FreePacket ==
  /\ NicGoes("erxrdpt", "pktdec")
  /\ ERXRDPT' = nextPckPtr
  /\ UNCHANGED <<connected, bank, phyVars, TXRTS, ECON1_RXEN, ERXWRPT, EPKTCNT, driver,
                 semph_spi_free, iptask>>

CountPacket ==
  /\ NicGoes("pktdec", "count")
  /\ EPKTCNT' = EPKTCNT - 1
  /\ UNCHANGED <<connected, bank, phyVars, TXRTS, ECON1_RXEN, ERXWRPT, ERXRDPT, driver,
                 semph_spi_free, iptask>>

NicDone ==
  /\ NicGoes("count", "wait") /\ EPKTCNT = 0
  /\ semph_spi_free' = 1
  /\ UNCHANGED <<controller, driver, iptask>>

nicIntTask ==
  \/ WaitEnds \/ TakeForNic
  \/ ReadEIR \/ ReadPHIR \/ ReadPHSTAT2
  \/ ReadHeader \/ TakePacket \/ FreePacket \/ CountPacket \/ NicDone

EncNext ==
  \/ Connect \/ LinkChanges \/ PacketArrives \/ FrameSent
  \/ IpTask \/ StartOutput
  \/ nicIntTask

EncSpec == EncInit /\ [][EncNext]_encVars

-----------------------------------------------------------------------------
(* Properties                                                              *)

\* What the driver believes of the link is so, or LINKIF tells it that it
\* changed, however often the link changes while the two registers of the
\* PHY are read (lines 110 to 115).
LinkIsKnown == ~LINKIF /\ nictask # "phstat" => linkUp = link

\* nextPckPtr is where the oldest packet starts that the controller counts,
\* or the one behind it while that is taken, and ERXRDPT protects it until
\* it was taken, whether there was a buffer for it or not (lines 118 to 158).
NextPacketIsRight ==
  /\ nextPckPtr = (ERXWRPT - EPKTCNT +
                   (IF nictask \in {"buffer", "erxrdpt", "pktdec"} THEN 1 ELSE 0)) % RxUnits
  /\ (ERXWRPT - ERXRDPT) % RxUnits = EPKTCNT - (IF nictask = "pktdec" THEN 1 ELSE 0)

\* What the comment "SPI disconnected" at line 184 says of a revision of 0 or
\* 0xFF: the initialisation fails for want of a controller only.
FailMeansDisconnected ==
  [][iptask = "revision" /\ iptask' = "retry" => ~connected]_encVars
=============================================================================
