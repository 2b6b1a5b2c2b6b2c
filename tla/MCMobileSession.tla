---------------------------- MODULE MCMobileSession ----------------------------
EXTENDS MobileSession, TLC
Symmetry == Permutations(People) \cup Permutations(Slots)
=============================================================================
