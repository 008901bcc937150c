------------------------------- MODULE MCDrivers -------------------------------
(* The three parts of samx5xmac.c that have a module of their own, the shift   *)
(* registers and the ENC28J60.  They share no variable, so that a behaviour of *)
(* one says nothing about another: each behaviour of this specification is one *)
(* of a single part, while the others keep their initial state.                *)
EXTENDS SamMacRx, SamMacTx, SamMacLink, SpiShift, Enc28j60, TLC

VARIABLE part

\* First fit.
Lowest(S) == {x \in S : \A y \in S : x <= y}

\* The blocks are alike, so the ring may start with the first ones; what a part
\* may choose at its start matters to that part only.
Init ==
  /\ part \in {"rx", "tx", "link", "spi", "enc"}
  /\ RxInit /\ TxInit /\ LinkInit /\ SpiInit /\ EncInit
  /\ address = [x \in Slots |-> 11 + x]
  /\ part = "tx" \/ zeroCopy
  /\ part = "link" \/ phy = "ksz9893"
  /\ part = "spi" \/ ~polled
  /\ part = "enc" \/ connected

Rx == part = "rx" /\ RxNext /\ UNCHANGED <<part, txVars, linkVars, spiVars, encVars>>
Tx == part = "tx" /\ TxNext /\ UNCHANGED <<part, rxVars, linkVars, spiVars, encVars>>
Link == part = "link" /\ LinkNext /\ UNCHANGED <<part, rxVars, txVars, spiVars, encVars>>
Spi == part = "spi" /\ SpiNext /\ UNCHANGED <<part, rxVars, txVars, linkVars, encVars>>
Enc == part = "enc" /\ EncNext /\ UNCHANGED <<part, rxVars, txVars, linkVars, spiVars>>

Next == Rx \/ Tx \/ Link \/ Spi \/ Enc

Spec ==
  /\ Init /\ [][Next]_<<part, rxVars, txVars, linkVars, spiVars, encVars>>
  /\ WF_rxVars(part = "rx" /\ RxTask)
  /\ WF_linkVars(part = "link" /\ InitializeStep)
  /\ WF_linkVars(part = "link" /\ LinkStatusChanged)
  /\ WF_spiVars(part = "spi" /\ ByteEnds)
  /\ WF_spiVars(part = "spi" /\ SpiTask)
  /\ WF_spiVars(part = "spi" /\ vSpiRegistersSpiInterruptHandler)
-----------------------------------------------------------------------------
\* Every variable of the five parts keeps its type; the event queue, the
\* notifications and the receive buffer of the SERCOM keep their bounds.
TypeOK == RxTypeOK /\ TxTypeOK /\ LinkTypeOK /\ SpiTypeOK /\ EncTypeOK
=============================================================================
