---------------------------- MODULE MCScheduler ----------------------------
(* Small instances of Scheduler. *)
EXTENDS Scheduler, TLC

Symmetry == Permutations(Schedules) \cup Permutations(Proofs) \cup Permutations(Workers)
=============================================================================
