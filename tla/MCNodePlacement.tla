--------------------------- MODULE MCNodePlacement ---------------------------
(* Instances of NodePlacement for TLC. *)
EXTENDS NodePlacement, TLC

Symmetry == Permutations(Nodes) \cup Permutations(Svcs) \cup Permutations(Removers)
=============================================================================
