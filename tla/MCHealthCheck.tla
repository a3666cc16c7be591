----------------------------- MODULE MCHealthCheck -----------------------------
(* Instances of HealthCheck for TLC. *)
EXTENDS HealthCheck, TLC

\* Nodes run the same code and no operator of the model tells them apart.
NodeSymmetry == Permutations(Nodes)
================================================================================
