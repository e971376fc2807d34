---------------------------- MODULE MCMembership ----------------------------
(***************************************************************************)
(* The members of a private channel, the direct conversation of two users, *)
(* their presence in a room and reactions there, who may post, the         *)
(* administrators and the recovery of an account.  The seven share no      *)
(* variable and every property is about one of them, so a behaviour that   *)
(* violates it also does when the others rest: a behaviour moves the one   *)
(* its part names and leaves the others in their initial states.  Presence *)
(* is explored twice, with a watching tab and no shutdown, and with a      *)
(* shutdown and no watching tab; the first ends with the first event that  *)
(* the watching tab misses, after which no property is about what it sees, *)
(* and what it sees changes nothing for the others.                        *)
(***************************************************************************)
EXTENDS Membership, Direct, Presence, Reactions, Posting, Accounts, Recovery,
        TLC

VARIABLE part

workspaceVars == <<vars, directVars, presenceVars, reactionVars, postingVars,
                   accountVars, recoveryVars, part>>

WorkspaceInit ==
    /\ Init /\ DirectInit /\ PresenceInit /\ ReactionsInit /\ PostingInit
    /\ AccountsInit /\ RecoveryInit
    /\ part \in {"members", "direct", "presence", "shutdown", "reactions",
                 "posting", "accounts", "recovery"}
    /\ part # "posting" => public /\ powers

WorkspaceNext ==
    /\ UNCHANGED part
    /\ \/ /\ part = "members"
          /\ UNCHANGED <<directVars, presenceVars, reactionVars, postingVars,
                         accountVars, recoveryVars>>
          /\ Next
       \/ /\ part = "direct"
          /\ UNCHANGED <<vars, presenceVars, reactionVars, postingVars,
                         accountVars, recoveryVars>>
          /\ DirectNext
       \/ /\ part = "presence"
          /\ UNCHANGED <<vars, directVars, reactionVars, postingVars,
                         accountVars, recoveryVars>>
          /\ PresenceNext /\ down' = -1 /\ ~missed'
       \/ /\ part = "shutdown"
          /\ UNCHANGED <<vars, directVars, reactionVars, postingVars,
                         accountVars, recoveryVars>>
          /\ PresenceNext /\ watch' = "away"
       \/ /\ part = "reactions"
          /\ UNCHANGED <<vars, directVars, presenceVars, postingVars,
                         accountVars, recoveryVars>>
          /\ ReactionsNext
       \/ /\ part = "posting"
          /\ UNCHANGED <<vars, directVars, presenceVars, reactionVars,
                         accountVars, recoveryVars>>
          /\ PostingNext
       \/ /\ part = "accounts"
          /\ UNCHANGED <<vars, directVars, presenceVars, reactionVars,
                         postingVars, recoveryVars>>
          /\ AccountsNext
       \/ /\ part = "recovery"
          /\ UNCHANGED <<vars, directVars, presenceVars, reactionVars,
                         postingVars, accountVars>>
          /\ RecoveryNext

WorkspaceSpec == WorkspaceInit /\ [][WorkspaceNext]_workspaceVars

(* Requests, rows, tabs, presses, bans, calls and mails are the same two   *)
(* model values and the accounts are the users, so that one permutation    *)
(* serves all components.                                                  *)
Symmetries == Permutations(Req) \union Permutations(User \ {Creator})
=============================================================================
