---------------------------- MODULE DurableQueue ----------------------------
(***************************************************************************)
(* What a durable job queue promises its producers, whatever its workers,  *)
(* claims and crashes look like: a job is put once, its handler may run    *)
(* several times but never more than Limit times, the job is completed     *)
(* only after some run of its handler succeeded, and completion is final.  *)
(* The transactional outbox (module Outbox) implements this contract.      *)
(***************************************************************************)
EXTENDS Integers

CONSTANTS Job, Limit

VARIABLES
    phase,          \* [Job -> {"absent", "pending", "done"}]
    accomplished,   \* jobs whose handler succeeded at least once
    tries           \* [Job -> Nat], runs of the job's handler

queueVars == <<phase, accomplished, tries>>

QueueInit ==
    /\ phase = [j \in Job |-> "absent"]
    /\ accomplished = {}
    /\ tries = [j \in Job |-> 0]

Put(j) ==
    /\ phase[j] = "absent"
    /\ phase' = [phase EXCEPT ![j] = "pending"]
    /\ UNCHANGED <<accomplished, tries>>

(* A handler may run again even after completion: delivery is at least     *)
(* once, so a worker that lost its claim can still finish its own run.     *)
Try(j, ok) ==
    /\ phase[j] # "absent"
    /\ tries[j] < Limit
    /\ tries' = [tries EXCEPT ![j] = @ + 1]
    /\ accomplished' = IF ok THEN accomplished \union {j} ELSE accomplished
    /\ UNCHANGED phase

Complete(j) ==
    /\ phase[j] = "pending"
    /\ j \in accomplished
    /\ phase' = [phase EXCEPT ![j] = "done"]
    /\ UNCHANGED <<accomplished, tries>>

QueueNext ==
    \E j \in Job :
        \/ Put(j)
        \/ Try(j, TRUE)
        \/ Try(j, FALSE)
        \/ Complete(j)

QueueSpec == QueueInit /\ [][QueueNext]_queueVars
=============================================================================
