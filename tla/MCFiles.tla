------------------------------ MODULE MCFiles ------------------------------
(* Two uploads, two messages and the cleanups of two replicas.             *)
EXTENDS Files
=============================================================================
