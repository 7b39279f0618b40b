----------------------------- MODULE MCAutoscale -----------------------------
(* Instances of Autoscale for TLC. *)
EXTENDS Autoscale, TLC

Symmetry == Permutations(Hosts)
=============================================================================
