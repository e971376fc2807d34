---------------------------- MODULE MCMessaging ----------------------------
(* One recipient, and either two sessions of the sender and two connections*)
(* whose handlers overlap, with the delivery loops at a stand, or one      *)
(* session, one connection at a time and two delivery tasks.  Liveness is  *)
(* about the second: a loop at a stand is not fair.                        *)
EXTENDS Messaging

CONSTANTS u1, r2

VARIABLES part

MCJob == {u1} \X (1..2)

MCInit == Init /\ part \in {"replays", "deliveries"}

MCNext ==
    /\ \/ part = "replays" /\ Next /\ UNCHANGED task
       \/ part = "deliveries" /\ Next /\ UNCHANGED session /\ cur' # r2
    /\ UNCHANGED part

MCSpec == MCInit /\ [][MCNext]_<<vars, part>> /\ DeliveryFairness
=============================================================================
