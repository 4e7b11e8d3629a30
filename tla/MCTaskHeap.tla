----------------------------- MODULE MCTaskHeap -----------------------------
(* Instance of TaskHeap for TLC: every list of at most three tasks to begin *)
(* with; addresses and ids are interchangeable.                             *)
EXTENDS TaskHeap, TLC

ShortLists == UNION {[1..n -> Task] : n \in 0..3}

Symmetry == Permutations(Items) \cup Permutations(Ids)

=============================================================================
