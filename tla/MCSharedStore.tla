---------------------------- MODULE MCSharedStore ----------------------------
(* Small instances of SharedStore: one project with one test. *)
EXTENDS SharedStore, TLC

CONSTANTS p1, t1

OneInP1 == {1}
OneInP1Project == [t \in {1} |-> p1]
OneTenantP1 == [p \in {p1} |-> t1]

PairCapture == {Kinds}

Symmetry == Permutations(Sidecars) \cup Permutations(Clients) \cup Permutations(RunIds)
=============================================================================
