------------------------- MODULE MCCoapConnection -------------------------
(* Instances of CoapConnection for TLC.                                    *)
EXTENDS CoapConnection, TLC

Symmetry == Permutations(Packets)
=============================================================================
