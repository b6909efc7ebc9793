---------------------------- MODULE MCEmmcVendor ----------------------------
(* Small instances of EmmcVendor. *)
EXTENDS EmmcVendor, TLC
Symmetry == Permutations(Ids)
=============================================================================
