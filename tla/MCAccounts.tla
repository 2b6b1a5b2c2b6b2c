------------------------------ MODULE MCAccounts ------------------------------
(* Accounts for TLC: three identities, two of them with one email address.   *)
EXTENDS Accounts, TLC

CONSTANTS ann, bob, cid

MCEmail == [p \in People |-> IF p = ann THEN ann ELSE bob]
Symmetry == Permutations(Slots)
=============================================================================
