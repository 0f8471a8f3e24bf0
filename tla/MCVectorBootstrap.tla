------------------------- MODULE MCVectorBootstrap -------------------------
(* Instances of VectorBootstrap for TLC. *)
EXTENDS VectorBootstrap

CONSTANTS api, worker, replica
=============================================================================
