---------------------------- MODULE MCCodeHosts ----------------------------
(* Small instances of CodeHosts for TLC. *)
EXTENDS CodeHosts, TLC

\* Rows are not symmetric: they are used in the order of their keys.
Symmetry == Permutations(Users) \cup Permutations(Services) \cup Permutations(Workers)
=============================================================================
