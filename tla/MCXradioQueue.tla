---------------------------- MODULE MCXradioQueue ----------------------------
(* XradioQueue for TLC.  The CPUs are interchangeable; the frames are sent  *)
(* in one order.                                                           *)
EXTENDS XradioQueue, TLC

Symmetry == Permutations(Cpus)

=============================================================================
