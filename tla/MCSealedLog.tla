----------------------------- MODULE MCSealedLog -----------------------------
\* Instances of SealedLog for TLC: the bounds are given in the .cfg files.
EXTENDS SealedLog
=============================================================================
