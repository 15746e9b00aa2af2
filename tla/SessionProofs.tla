---------------------------- MODULE SessionProofs ----------------------------
(***************************************************************************)
(* Proofs about Session, for any set of clients and nicknames.             *)
(***************************************************************************)
EXTENDS Session, SequenceLemmas

-----------------------------------------------------------------------------
(***************************************************************************)
(* SessionInv is inductive.                                                *)
(***************************************************************************)

LEMMA InitEstablishesInv == Init => SessionInv
<1>. SUFFICES ASSUME Init PROVE SessionInv
  OBVIOUS
<1>1. Live = {}
  BY DEF Init, Live, ToSet
<1>2. TypeOK
  BY <1>1 DEF Init, TypeOK, MaxAttempts
<1>3. IsInjective(cls)
  BY DEF Init, IsInjective
<1>. QED
  BY <1>1, <1>2, <1>3
  DEF Init, SessionInv, NickUnique, RegisteredIffComplete, LiveOnce

LEMMA LiveAreClients == SessionInv => Live \subseteq Client
BY DEF SessionInv, TypeOK, Live, ToSet

\* Whoever connects was not in cls.
LEMMA ConnectEffect ==
  ASSUME SessionInv, NEW c \in Client, Connect(c)
  PROVE  /\ cls' \in Seq(Client)
         /\ IsInjective(cls')
         /\ Live' = Live \cup {c}
         /\ nickname[c] = NoNick
BY AppendOfDistinct DEF SessionInv, TypeOK, LiveOnce, Connect, Live

LEMMA ConnectKeepsInv ==
  ASSUME SessionInv, NEW c \in Client, Connect(c)
  PROVE  SessionInv'
<1>. USE ConnectEffect DEF SessionInv, Connect
<1>1. TypeOK'
  BY DEF TypeOK
<1>2. NickUnique'
  BY DEF NickUnique
<1>3. RegisteredIffComplete' /\ LiveOnce'
  BY DEF RegisteredIffComplete, LiveOnce
<1>. QED  BY <1>1, <1>2, <1>3

\* Whoever is deleted was in cls once.
LEMMA DeleteEffect ==
  ASSUME SessionInv, NEW c \in Client, Delete(c)
  PROVE  /\ cls' \in Seq(Client)
         /\ IsInjective(cls')
         /\ Live' = Live \ {c}
BY RemoveFirstKeeps, RemoveFirstOfDistinct
DEF SessionInv, TypeOK, LiveOnce, Delete, Live

LEMMA DeleteKeepsInv ==
  ASSUME SessionInv, NEW c \in Client, Delete(c)
  PROVE  SessionInv'
<1>0. cls' \in Seq(Client) /\ IsInjective(cls') /\ Live' = Live \ {c}
  BY DeleteEffect
<1>. USE DEF SessionInv, Delete, TypeOK
<1>1. TypeOK'
  BY <1>0 DEF MaxAttempts
<1>2. NickUnique'
  BY <1>0, LiveAreClients DEF NickUnique
<1>3. RegisteredIffComplete'
  BY DEF RegisteredIffComplete
<1>4. LiveOnce'
  BY <1>0 DEF LiveOnce
<1>. QED  BY <1>1, <1>2, <1>3, <1>4

\* PASS and CAP touch neither names nor registration.
LEMMA PassCapKeepsInv ==
  ASSUME SessionInv, NEW c \in Client,
         PassAccepted(c) \/ PassRejected(c) \/ CapEnd(c)
  PROVE  SessionInv'
<1>. USE DEF SessionInv, TypeOK, Live
<1>1. CASE PassAccepted(c)
  BY <1>1
  DEF PassAccepted, NickUnique, RegisteredIffComplete, LiveOnce
<1>2. CASE PassRejected(c)
  BY <1>2
  DEF PassRejected, NickUnique, RegisteredIffComplete, LiveOnce, MaxAttempts
<1>3. CASE CapEnd(c)
  BY <1>3
  DEF CapEnd, NickUnique, RegisteredIffComplete, LiveOnce
<1>. QED  BY <1>1, <1>2, <1>3

LEMMA SetNickKeepsInv ==
  ASSUME SessionInv, NEW c \in Client, NEW n \in Nick, SetNick(c, n)
  PROVE  SessionInv'
<1>. USE SessionAssumption DEF SessionInv, SetNick, TypeOK, Live
<1>1. TypeOK'
  BY DEF CanRegister
<1>2. NickUnique'
  BY DEF NickUnique, NickInUse
<1>3. RegisteredIffComplete'
  BY DEF RegisteredIffComplete, CanRegister
<1>4. LiveOnce'
  BY DEF LiveOnce
<1>. QED  BY <1>1, <1>2, <1>3, <1>4

LEMMA SetUserKeepsInv ==
  ASSUME SessionInv, NEW c \in Client, SetUser(c)
  PROVE  SessionInv'
<1>. USE DEF SessionInv, SetUser, TypeOK, Live
<1>1. TypeOK'
  BY DEF CanRegister
<1>2. NickUnique'
  BY DEF NickUnique
<1>3. RegisteredIffComplete'
  BY DEF RegisteredIffComplete, CanRegister
<1>4. LiveOnce'
  BY DEF LiveOnce
<1>. QED  BY <1>1, <1>2, <1>3, <1>4

LEMMA NextKeepsInv == SessionInv /\ [Next]_vars => SessionInv'
<1>. SUFFICES ASSUME SessionInv, [Next]_vars PROVE SessionInv'
  OBVIOUS
<1>1. CASE UNCHANGED vars
  BY <1>1
  DEF vars, SessionInv, TypeOK, NickUnique, RegisteredIffComplete, LiveOnce,
      Live
<1>2. CASE Next
  BY <1>2, ConnectKeepsInv, DeleteKeepsInv, PassCapKeepsInv, SetNickKeepsInv,
     SetUserKeepsInv
  DEF Next, Quit, PassRejectedForGood
<1>. QED  BY <1>1, <1>2

-----------------------------------------------------------------------------
\* In every state nicknames are unique among the live clients, registered or
\* not, and a client is registered exactly when it is complete.
THEOREM SessionInvariant == Spec => []SessionInv
BY InitEstablishesInv, NextKeepsInv, PTL DEF Spec

-----------------------------------------------------------------------------
(***************************************************************************)
(* Session implements NickRegistry.                                        *)
(***************************************************************************)

\* Where nicknames are unique, the owner of one is whoever bears it.
LEMMA OneBearer ==
  ASSUME SessionInv, NEW n \in Nick
  PROVE  \/ Bearers(n) = {} /\ Owner(n) = Nobody
         \/ \E d \in Client : Bearers(n) = {d} /\ Owner(n) = d
<1>1. CASE Bearers(n) = {}
  BY <1>1 DEF Owner
<1>2. CASE Bearers(n) # {}
  <2>1. PICK d : d \in Bearers(n)
    BY <1>2
  <2>2. d \in Client
    BY <2>1, LiveAreClients DEF Bearers
  <2>3. Bearers(n) = {d}
    BY <2>1, SessionAssumption DEF Bearers, SessionInv, NickUnique
  <2>. QED  BY <2>2, <2>3 DEF Owner
<1>. QED  BY <1>1, <1>2

\* A client that is no longer among the bearers of a nickname frees it.
LEMMA BearerGone ==
  ASSUME SessionInv, NEW n \in Nick, NEW c \in Client,
         Bearers(n)' = Bearers(n) \ {c}
  PROVE  Owner(n)' = IF Owner(n) = c THEN Nobody ELSE Owner(n)
<1>1. CASE Bearers(n) = {} /\ Owner(n) = Nobody
  BY <1>1 DEF Owner
<1>2. ASSUME NEW d \in Client, Bearers(n) = {d}, Owner(n) = d
      PROVE  Owner(n)' = IF Owner(n) = c THEN Nobody ELSE Owner(n)
  <2>1. CASE d = c
    BY <1>2, <2>1 DEF Owner
  <2>2. CASE d # c
    <3>1. Bearers(n)' = {d}
      BY <1>2, <2>2
    <3>. QED  BY <1>2, <2>2, <3>1 DEF Owner
  <2>. QED  BY <2>1, <2>2
<1>. QED  BY <1>1, <1>2, OneBearer

\* The table of owners that the refinement mapping describes.
Owners == [n \in Nick |-> Owner(n)]

\* Deleting a client is Leave, and no other owner is affected.
LEMMA DeleteIsLeave ==
  ASSUME SessionInv, NEW c \in Client, Delete(c)
  PROVE  Registry!Leave(c)
<1>1. ASSUME NEW n \in Nick
      PROVE  Bearers(n)' = Bearers(n) \ {c}
  BY DeleteEffect, LiveAreClients, SessionAssumption
  DEF Bearers, Delete, SessionInv, TypeOK
<1>2. \A n \in Nick : Owner(n)' = IF Owner(n) = c THEN Nobody ELSE Owner(n)
  BY <1>1, BearerGone
<1>. QED  BY <1>2 DEF Registry!Leave, Registry!Without

\* A client that takes a nickname gives up the one it had; one that takes its
\* own again changes nothing.
LEMMA SetNickIsTake ==
  ASSUME SessionInv, NEW c \in Client, NEW n \in Nick, SetNick(c, n)
  PROVE  Registry!Take(c, n) \/ Owners' = Owners
<1>. DEFINE left(m) == IF Owner(m) = c THEN Nobody ELSE Owner(m)
<1>1. Bearers(n) \subseteq {c}
  BY DEF SetNick, NickInUse, Bearers
<1>2. Bearers(n)' = {c}
  BY LiveAreClients DEF SetNick, NickInUse, Bearers, SessionInv, TypeOK, Live
<1>3. ASSUME NEW m \in Nick, m # n
      PROVE  Bearers(m)' = Bearers(m) \ {c}
  BY <1>3, LiveAreClients DEF SetNick, Bearers, SessionInv, TypeOK, Live
<1>4. Owner(n)' = c
  BY <1>2 DEF Owner
<1>5. \A m \in Nick : m # n => Owner(m)' = left(m)
  BY <1>3, BearerGone
<1>6. CASE nickname[c] = n
  <2>1. nickname' = nickname /\ cls' = cls
    BY <1>6 DEF SetNick, SessionInv, TypeOK
  <2>. QED  BY <2>1 DEF Owners, Owner, Bearers, Live
<1>7. CASE nickname[c] # n
  <2>1. Owner(n) = Nobody
    BY <1>1, <1>7 DEF Owner, Bearers
  <2>. QED  BY <1>4, <1>5, <2>1 DEF Registry!Take, Registry!Without
<1>. QED  BY <1>6, <1>7

\* The steps that leave the bearer of every nickname as it is.
LEMMA OtherStepsStutter ==
  ASSUME SessionInv, NEW c \in Client,
         \/ Connect(c) \/ PassAccepted(c) \/ PassRejected(c) \/ CapEnd(c)
         \/ SetUser(c)
  PROVE  Owners' = Owners
<1>1. ASSUME NEW n \in Nick PROVE Bearers(n)' = Bearers(n)
  <2>1. CASE Connect(c)
    BY <2>1, ConnectEffect, SessionAssumption DEF Connect, Bearers
  <2>2. CASE ~Connect(c)
    BY <2>2 DEF PassAccepted, PassRejected, CapEnd, SetUser, Bearers, Live
  <2>. QED  BY <2>1, <2>2
<1>2. ASSUME NEW n \in Nick PROVE Owner(n)' = Owner(n)
  <2>1. CASE Bearers(n) = {} /\ Owner(n) = Nobody
    BY <1>1, <2>1 DEF Owner
  <2>2. ASSUME NEW d \in Client, Bearers(n) = {d}, Owner(n) = d
        PROVE  Owner(n)' = Owner(n)
    <3>1. Bearers(n)' = {d}
      BY <1>1, <2>2
    <3>. QED  BY <2>2, <3>1 DEF Owner
  <2>. QED  BY <2>1, <2>2, OneBearer
<1>. QED  BY <1>2 DEF Owners

LEMMA StepImplements ==
  SessionInv /\ [Next]_vars => [Registry!Next]_Owners
<1>. SUFFICES ASSUME SessionInv, [Next]_vars PROVE Registry!Next \/ Owners' = Owners
  OBVIOUS
<1>1. CASE UNCHANGED vars
  BY <1>1 DEF vars, Owners, Owner, Bearers, Live
<1>2. CASE Next
  BY <1>2, DeleteIsLeave, SetNickIsTake, OtherStepsStutter
  DEF Next, Quit, PassRejectedForGood, Registry!Next
<1>. QED  BY <1>1, <1>2

LEMMA InitImplements == Init => Registry!Init
BY DEF Init, Registry!Init, Owner, Bearers, Live, ToSet

\* Every behaviour of sessions is one of NickRegistry: a nickname in use can
\* not be taken, and a client holds one at a time.
THEOREM SessionImplementsRegistry == Spec => ImplementsRegistry
<1>1. SessionInv /\ [Next]_vars => [Registry!Next]_Owners
  BY StepImplements
<1>. QED
  BY <1>1, InitImplements, SessionInvariant, PTL
  DEF Spec, ImplementsRegistry, Registry!Spec, Owners
=============================================================================
