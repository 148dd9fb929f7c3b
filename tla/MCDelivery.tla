----------------------------- MODULE MCDelivery -----------------------------
(* Instances of Delivery for TLC. *)
EXTENDS Delivery, TLC

Symmetry == Permutations(Conns)

\* A second message is received only while a single user has logged in.
Bound == n <= 1 \/ \E u \in Rooms : \A c \in Conns : uid[c] \in {None, u}
=============================================================================
