------------------------------ MODULE MCSession ------------------------------
(* An instance of Session for TLC: clients and nicknames are only compared. *)
EXTENDS Session, TLC

Symmetry == Permutations(Client) \cup Permutations(Nick)
=============================================================================
