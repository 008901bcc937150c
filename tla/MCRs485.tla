------------------------------- MODULE MCRs485 -------------------------------
(* Bounded instances of Rs485: messages of one byte and of three, so that a  *)
(* message has a first, a middle and a last byte, or one that is both.       *)
EXTENDS Rs485

SmallSizes == {1, 3}

\* A frame that leaves room in the buffer of two bytes, one that fills it
\* exactly, and a longer one.
SmallFrames == 1 .. 3
=============================================================================
