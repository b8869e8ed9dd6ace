------------------------------ MODULE MCPipeline ------------------------------
(***************************************************************************)
(* Pipeline for TLC: two producers and the one consumer that               *)
(* MoreAvailableMeansQueued is about.  No symmetry, as liveness is checked. *)
(***************************************************************************)
EXTENDS Pipeline
=============================================================================
