---------------------------- MODULE MCBackendPool ----------------------------
EXTENDS BackendPool, TLC

CONSTANTS s1, s2, s3, i1, i2

Symmetry == Permutations(Sessions) \cup Permutations(Ips)
=============================================================================
