----------------------------- MODULE MCDelivery -----------------------------
(* Delivery, and with it Membership, on small instances. *)
EXTENDS Delivery, TLC

Symmetry == Permutations(Client) \cup Permutations(Channel)
=============================================================================
