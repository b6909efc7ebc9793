----------------------------- MODULE MCMppTask -----------------------------
EXTENDS MppTask, TLC
Symmetry == Permutations(Sessions) \cup Permutations(Tasks) \cup Permutations(Devices)

\* Tasks are interchangeable: with liveness properties, which exclude symmetry
\* reduction, it is enough to look at one order in which they are allocated.
AllocatedInOrder ==
    \A t \in Tasks : alloc[t] = "none" /\ alloc'[t] # "none" =>
        t = CHOOSE u \in {v \in Tasks : alloc[v] = "none"} : TRUE
=============================================================================
