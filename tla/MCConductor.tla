---------------------------- MODULE MCConductor ----------------------------
(* Conductor for one or two runs; the cfg files choose the cluster and the *)
(* faults.  Runs and chains are interchangeable.                           *)
EXTENDS Conductor, TLC

Symmetry == Permutations(Runs) \cup Permutations(Handlers)
=============================================================================
