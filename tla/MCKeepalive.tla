---------------------------- MODULE MCKeepalive ----------------------------
(* Keepalive on a small instance. *)
EXTENDS Keepalive
=============================================================================
