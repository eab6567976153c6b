------------------------------ MODULE MCMrtr ------------------------------
(* Mrtr for TLC. *)
EXTENDS MrtrProperties

\* One optional task tool stands for the four that share a branch.
MCCalls == (AllCalls \ OptionalTaskTools) \cup {"slow_compute"}
=============================================================================
