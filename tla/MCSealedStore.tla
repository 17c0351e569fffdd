---------------------------- MODULE MCSealedStore ----------------------------
(* Small instances of SealedStore. *)
EXTENDS SealedStore, TLC

Symmetry == Permutations(Keys) \cup Permutations(Updates) \cup Permutations(Evid)
=============================================================================
