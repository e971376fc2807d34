------------------------------ MODULE MCLogin ------------------------------
(* Two callers, two keys, one permit, and a limit that is exceeded.        *)
EXTENDS Login
=============================================================================
