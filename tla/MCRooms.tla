------------------------------ MODULE MCRooms ------------------------------
(* Two sockets that move between two rooms while the Pub/Sub connection    *)
(* comes and goes and a message and a membership event are sent.           *)
EXTENDS Rooms, TLC

Symmetries == Permutations(Socket)
=============================================================================
