------------------------------ MODULE MCFieldOps ------------------------------
(* FieldOps for TLC: the symmetric sets of model values. *)
EXTENDS FieldRules, TLC

Symmetry == Permutations(Slots) \cup Permutations(Submissions)
            \cup Permutations(Workorders) \cup Permutations(Attachments)
=============================================================================
