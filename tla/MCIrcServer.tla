----------------------------- MODULE MCIrcServer -----------------------------
(* IrcServer on a small instance. *)
EXTENDS IrcServer, TLC

Symmetry == Permutations(Client) \cup Permutations(Nick)
=============================================================================
