--------------------------- MODULE MCSharedStores ---------------------------
(* SharedStores for TLC. *)
EXTENDS SharedStores, TLC

\* Processes and snapshot ids are only compared.
Symmetry == Permutations(Procs) \cup Permutations(IDs)
=============================================================================
