-------------------------------- MODULE MCTrips --------------------------------
(* Trips for TLC: the symmetric sets of model values. *)
EXTENDS Trips, TLC
Symmetry == Permutations(People) \cup Permutations(Slots)
=============================================================================
