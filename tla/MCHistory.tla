----------------------------- MODULE MCHistory -----------------------------
(* The history model for TLC: a thread reply, a system message and two     *)
(* root messages, a window of two, two requests at a time and one change.  *)
EXTENDS History, TLC

Symmetries == Permutations(Req)
=============================================================================
