---------------------------- MODULE NickRegistry ----------------------------
(***************************************************************************)
(* What the server promises about nicknames: a nickname has at most one    *)
(* owner; a client takes a free one, giving up the one it had, or loses    *)
(* its nickname by leaving; nobody can take a nickname that is owned.      *)
(***************************************************************************)
CONSTANTS Client, Nick, Nobody

VARIABLE owner    \* who bears each nickname

Init == owner = [n \in Nick |-> Nobody]

\* What is left of the table when c gives up its nickname.
Without(c) == [n \in Nick |-> IF owner[n] = c THEN Nobody ELSE owner[n]]

Take(c, n) ==
  /\ owner[n] = Nobody
  /\ owner' = [Without(c) EXCEPT ![n] = c]

Leave(c) == owner' = Without(c)

Next == \E c \in Client : Leave(c) \/ \E n \in Nick : Take(c, n)

Spec == Init /\ [][Next]_owner
=============================================================================
