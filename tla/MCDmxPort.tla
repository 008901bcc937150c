------------------------------ MODULE MCDmxPort ------------------------------
(* Bounded instances of DmxPort: three receive buffers as in dmx.h, frames   *)
(* of three slots and RDM messages of three or four bytes.                   *)
EXTENDS DmxPort

\* 0 is the DMX start code, 2 the RDM one, 1 neither; as length bytes they
\* make RDM messages that end by the minimum and by their length.
SmallBytes == {0, 1, 2}
=============================================================================
