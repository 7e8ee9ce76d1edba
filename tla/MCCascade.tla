------------------------------ MODULE MCCascade ------------------------------
(* Instances of Cascade for TLC: three sub-allocators of two numbers, so   *)
(* that a run of four crosses two borders; an alignment of 4 that leaves   *)
(* half a block at the end, and one above the capacity.                    *)
EXTENDS Cascade
OneToFour == 1..4
Powers == {1, 2, 4, 8}
=============================================================================
