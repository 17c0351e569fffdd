---------------------------- MODULE MCChecksStore ----------------------------
(* Small instances of ChecksStore. *)
EXTENDS ChecksStore, TLC

CONSTANTS p1, p2, t1, t2

\* Two projects with one test each.
OneEach == {1, 2}
OneEachProject == [t \in {1, 2} |-> IF t = 1 THEN p1 ELSE p2]
OneTenant == [p \in {p1, p2} |-> t1]
TwoTenants == [p \in {p1, p2} |-> IF p = p1 THEN t1 ELSE t2]

\* One project with two tests.
TwoInP1 == {1, 2}
TwoInP1Project == [t \in {1, 2} |-> p1]
OneTenantP1 == [p \in {p1} |-> t1]

\* The browser keeps a screenshot, with or without a DOM snapshot (dropped when
\* it is too large); an API test, or a missing browser, keeps nothing.
FullCapture == {{"png"}, Kinds}
NoCapture == {{}}

Symmetry == Permutations(Workers) \cup Permutations(RunIds)
=============================================================================
