---------------------------- MODULE MCMtdVendor ----------------------------
(* Small instances of MtdVendor. *)
EXTENDS MtdVendor
=============================================================================
