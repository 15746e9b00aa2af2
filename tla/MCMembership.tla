---------------------------- MODULE MCMembership ----------------------------
(***************************************************************************)
(* Instances of Membership for TLC.  Addresses, channel names, keys and    *)
(* topics are only compared with each other, so permuting them is sound.   *)
(***************************************************************************)
EXTENDS Membership, TLC

Symmetry ==
  Permutations(Client) \cup Permutations(Channel) \cup Permutations(Key)
    \cup Permutations(Topic)
=============================================================================
