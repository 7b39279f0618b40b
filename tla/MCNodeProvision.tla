--------------------------- MODULE MCNodeProvision ---------------------------
(* Instances of NodeProvision for TLC. *)
EXTENDS NodeProvision, TLC

Symmetry == Permutations(Creators)
=============================================================================
