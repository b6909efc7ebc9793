---------------------------- MODULE KernelLists ----------------------------
(***************************************************************************)
(* The kernel's doubly linked lists (struct list_head) as sequences.  An   *)
(* entry is on a list at most once; list_add_tail is Append.               *)
(***************************************************************************)
EXTENDS Integers, Sequences, FiniteSets

\* The entries of a list.
Elems(l) == {l[i] : i \in DOMAIN l}

\* No entry is on the list twice, as in every list made with list_head links.
NoDup(l) == \A i, j \in DOMAIN l : l[i] = l[j] => i = j

\* list_del_init: remove an entry wherever it is in the list; an entry that is
\* on no list is left alone.
ListDel(l, x) ==
    IF x \in Elems(l)
    THEN LET i == CHOOSE i \in DOMAIN l : l[i] = x
         IN  [j \in 1 .. (Len(l) - 1) |-> IF j < i THEN l[j] ELSE l[j + 1]]
    ELSE l

\* The entries of a list that are in S, in the order of the list.
ListKeep(l, S) ==
    LET at == {k \in DOMAIN l : l[k] \in S}
    IN  [n \in 1 .. Cardinality(at) |->
           l[CHOOSE k \in at : Cardinality({j \in at : j <= k}) = n]]

=============================================================================
