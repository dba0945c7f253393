----------------------------- MODULE MCSessions ------------------------------
EXTENDS Sessions, TLC
CONSTANTS s1, s2, s3, duct, pipe
Symmetry == Permutations(Sessions)
==============================================================================
