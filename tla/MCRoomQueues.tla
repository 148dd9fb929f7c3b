---------------------------- MODULE MCRoomQueues ----------------------------
(* Instances of RoomQueues for TLC. *)
EXTENDS RoomQueues, TLC

Symmetry ==
    Permutations(Senders) \cup Permutations(Rooms) \cup Permutations(Queues)
=============================================================================
