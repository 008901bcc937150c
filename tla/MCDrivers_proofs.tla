--------------------------- MODULE MCDrivers_proofs ---------------------------
(***************************************************************************)
(* What is proved of each of the five parts also holds when they are put   *)
(* together, for every value of the constants of all of them.              *)
(***************************************************************************)
EXTENDS MCDrivers, SamMacRx_proofs, SamMacTxLink_proofs, SpiDevices_proofs

LEMMA PartsStart ==
  Init => RxInit /\ TxInit /\ LinkInit /\ SpiInit /\ EncInit
  BY DEF Init

\* A step of one part leaves the variables of the others alone.
LEMMA PartsStep ==
  ASSUME [Next]_<<part, rxVars, txVars, linkVars, spiVars, encVars>>
  PROVE  /\ [RxNext]_rxVars /\ [TxNext]_txVars /\ [LinkNext]_linkVars
         /\ [SpiNext]_spiVars /\ [EncNext]_encVars
  BY DEF Next, Rx, Tx, Link, Spi, Enc

\* Each behaviour of the composition is a behaviour of every part.
THEOREM EachPartIsItself == Spec => RxSpec /\ TxSpec /\ LinkSpec /\ SpiSpec /\ EncSpec
<1>1. [Next]_<<part, rxVars, txVars, linkVars, spiVars, encVars>>
        => /\ [RxNext]_rxVars /\ [TxNext]_txVars /\ [LinkNext]_linkVars
           /\ [SpiNext]_spiVars /\ [EncNext]_encVars
  BY PartsStep
<1> QED
  BY PartsStart, <1>1, PTL DEF Spec, RxSpec, TxSpec, LinkSpec, SpiSpec, EncSpec

\* Types, and the bounds of queue, notifications and buffers, of all parts.
THEOREM TypeCorrect == Spec => []TypeOK
<1>1. RxTypeOK /\ TxTypeOK /\ LinkTypeOK /\ SpiTypeOK /\ EncTypeOK => TypeOK
  BY DEF TypeOK
<1> QED
  BY EachPartIsItself, RxTypeCorrect, TxTypeCorrect, LinkTypeCorrect, SpiTypeCorrect,
     EncTypeCorrect, <1>1, PTL

\* The invariants of the drivers: those that the run checks on one instance.
THEOREM DriversAreSafe ==
  Spec => [](/\ FramesLeaveRoom /\ RxEveryBlockOnce /\ TakesFramesOnly /\ BackPointerIsRight
             /\ TxEveryBlockOnce /\ NoneFreeUnsent
             /\ LinkFollowsPorts /\ DeafOnlyAfterStaleStore
             /\ ReadIsWhole /\ LatchShowsWholeMessages
             /\ LinkIsKnown /\ NextPacketIsRight)
  BY EachPartIsItself, FramesNeverFillTheQueue, RxBlocksAreKept, OnlyFramesAreTaken, PointersAreRight,
     TxBlocksAreKept, UnsentAreKept, LinkIsThatOfThePorts, OnlyStaleStoreDeafens,
     SpiMessageIsWhole, SpiLatchIsWhole, DriverKnowsTheLink, RingIsInStep, PTL

\* And what their steps may never do.
THEOREM DriversStepSafely == Spec => LeavesRingOnlyBetweenStores /\ RxKeepsPoolRules
  BY EachPartIsItself, RingIsLeftBetweenStores, PoolRulesAreKept, PTL
===============================================================================
