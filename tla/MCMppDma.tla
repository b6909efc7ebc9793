------------------------------ MODULE MCMppDma ------------------------------
(* Small instances of MppDma: f1 and f2 are dup'ed descriptors of one buffer. *)
EXTENDS MppDma, TLC

CONSTANTS f1, f2, f3, f4, da, db, dc

DupAndOther == (f1 :> da) @@ (f2 :> da) @@ (f3 :> db)
ThreeBuffers == (f1 :> da) @@ (f3 :> db) @@ (f4 :> dc)

Symmetry == Permutations(Tasks) \cup Permutations(Clients) \cup Permutations({f1, f2} \cap Fds)
=============================================================================
