---------------------------- MODULE MCTaskStore ----------------------------
(* TaskStore for TLC. *)
EXTENDS TaskStoreRefinement
=============================================================================
