------------------------------- MODULE MCCustody -------------------------------
(* A small instance of Custody. *)
EXTENDS Custody, TLC

\* Core, however it finds the keychain, and a process beside it that only checks
\* the record and wants no key file.
CoreAndOthers ==
  [records: {TRUE}, allowFile: {TRUE}, keychain: {"on", "readonly", "away"}]
    \cup [records: {FALSE}, allowFile: {FALSE}, keychain: {"on"}]

Symmetry == Permutations(Keys) \cup Permutations(Procs)
=============================================================================
