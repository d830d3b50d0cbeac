---------------------------- MODULE MCCoapClient ----------------------------
(* Instances of CoapClient for TLC.                                        *)
EXTENDS CoapClient, TLC

Symmetry == Permutations(Tokens)
=============================================================================
