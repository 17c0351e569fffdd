---------------------------- MODULE MCVectorIndex ----------------------------
\* Instances of VectorIndex for TLC.
EXTENDS VectorIndex, TLC
CONSTANTS k1, k2, k3, a, b, h1

Symmetric == Permutations(Keys)
=============================================================================
