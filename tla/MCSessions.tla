----------------------------- MODULE MCSessions -----------------------------
(* The sessions of a user who logs in twice while two requests run at a    *)
(* time and two account changes commit.                                    *)
EXTENDS Sessions, TLC

Symmetries == Permutations(Sid) \union Permutations(Req)
=============================================================================
