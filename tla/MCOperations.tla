---------------------------- MODULE MCOperations ----------------------------
(* Operations for TLC; FreshSpec starts before any store was created. *)
EXTENDS Operations

\* Locations and snapshot ids are only compared.
Symmetry == Permutations(Locations) \cup Permutations(IDs)

FreshSpec ==
    /\ Init /\ \A l \in Locations : stores[l] = "none"
    /\ [][Next]_vars
=============================================================================
