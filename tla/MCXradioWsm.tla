---------------------------- MODULE MCXradioWsm ----------------------------
(***************************************************************************)
(* One caller or one locker, two frames and three input buffers of the     *)
(* firmware, with one repeated answer and one failed transfer.             *)
(***************************************************************************)
EXTENDS XradioWsm

=============================================================================
