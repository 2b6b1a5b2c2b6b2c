---------------------------- MODULE MCAdminConsole ----------------------------
EXTENDS AdminConsole, TLC
Symmetry == Permutations(Slots)
=============================================================================
