--------------------------- MODULE MCNetworkBuffers ---------------------------
(* Bounded instances of NetworkBuffers: three users that race for two         *)
(* descriptors, and one block more than there are descriptors.                *)
EXTENDS NetworkBuffers, TLC

CONSTANTS u1, u2, u3, b1, b2, b3

ThreeUsers  == {u1, u2, u3}
SmallBlocks == {b1, b2, b3}
StaticBlock == 0 :> b1 @@ 1 :> b2
=============================================================================
