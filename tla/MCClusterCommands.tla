------------------------- MODULE MCClusterCommands -------------------------
(* ClusterCommands with two variables at boot and a batch of two files, as  *)
(* launch_on_cluster has it.                                               *)
EXTENDS ClusterCommands

CONSTANTS v1, v2, k1, k2

MCVarNames == <<v1, v2>>
MCCopies == <<k1, k2>>
=============================================================================
