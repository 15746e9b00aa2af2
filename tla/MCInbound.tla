------------------------------ MODULE MCInbound ------------------------------
(* Inbound on small instances. *)
EXTENDS Inbound, TLC

Symmetry == Permutations(Client)
=============================================================================
