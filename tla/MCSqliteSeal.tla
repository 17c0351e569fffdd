---------------------------- MODULE MCSqliteSeal ----------------------------
(* Small instances of SqliteSeal. *)
EXTENDS SqliteSeal, TLC

\* Two columns: one with an envelope nobody can open, one with a row to come.
TwoColumns == {<<(1 :> Plain @@ 2 :> Foreign), (1 :> Absent @@ 2 :> Plain)>>}

Symmetry == Permutations(Clients)
=============================================================================
