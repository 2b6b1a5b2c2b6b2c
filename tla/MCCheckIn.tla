------------------------------- MODULE MCCheckIn -------------------------------
(* CheckIn for TLC: the symmetric sets of model values; an admin corrects one count. *)
EXTENDS CheckIn, TLC
OneCount == {[done |-> 1, skipped |-> 0], [done |-> 0, skipped |-> 1]}
Symmetry == Permutations(Days) \cup Permutations(Slots)
=============================================================================
