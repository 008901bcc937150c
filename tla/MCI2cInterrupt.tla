---------------------------- MODULE MCI2cInterrupt ----------------------------
(* Bounded instances of I2cInterrupt: two requesters, so that one transaction *)
(* follows another, of one and of two bytes, so that a transfer has a last    *)
(* byte with and without one before it.                                       *)
EXTENDS I2cInterrupt, TLC

CONSTANTS r1, r2

SmallRequesters == {r1, r2}
SmallLengths    == r1 :> 1 @@ r2 :> 2
=============================================================================
