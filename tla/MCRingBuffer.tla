---------------------------- MODULE MCRingBuffer ----------------------------
(* Instances of RingBuffer for TLC.  A limit of 3 has every position of    *)
(* head and end, wrapped or at the limit; calls of up to 4 bytes exceed it.*)
EXTENDS RingBuffer
Bits == {0, 1}
=============================================================================
