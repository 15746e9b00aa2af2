---------------------------- MODULE MCCommandText ----------------------------
(* CommandText on short texts. *)
EXTENDS CommandText
=============================================================================
