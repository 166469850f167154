---------------------------- MODULE MCUDPSnapshot ----------------------------
(* UDPSnapshot for TLC. *)
EXTENDS UDPSnapshot, TLC
Symmetry == Permutations(Instruments)
=============================================================================
