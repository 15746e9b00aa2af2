-------------------------- MODULE MembershipProofs --------------------------
(***************************************************************************)
(* Proofs about Membership, for any set of clients, channels, keys and     *)
(* topics and any bound.                                                   *)
(***************************************************************************)
EXTENDS Membership, SequenceLemmas, FiniteSetTheorems

-----------------------------------------------------------------------------
\* The helpers of Membership.

LEMMA RemoveUserOnce ==
  ASSUME NEW users \in Seq(Client), IsInjective(users), NEW c
  PROVE  /\ RemoveUser(users, c) \in Seq(Client)
         /\ IsInjective(RemoveUser(users, c))
         /\ ToSet(RemoveUser(users, c)) = ToSet(users) \ {c}
BY RemoveFirstKeeps, RemoveFirstOfDistinct DEF RemoveUser

LEMMA AddUserOnce ==
  ASSUME NEW users \in Seq(Client), IsInjective(users), NEW c \in Client
  PROVE  /\ AddUser(users, c) \in Seq(Client)
         /\ IsInjective(AddUser(users, c))
         /\ ToSet(AddUser(users, c)) = ToSet(users) \cup {c}
BY AppendOfDistinct DEF AddUser

\* The list may keep ch, but it loses nothing else.
LEMMA RemoveJoinedKeeps ==
  ASSUME NEW list \in Seq(Channel), NEW ch
  PROVE  /\ RemoveJoined(list, ch) \in Seq(Channel)
         /\ ToSet(list) \ {ch} \subseteq ToSet(RemoveJoined(list, ch))
<1>1. CASE list # <<>> /\ Head(list) = ch
  BY <1>1, TailKeeps DEF RemoveJoined
<1>2. CASE ~(list # <<>> /\ Head(list) = ch)
  BY <1>2 DEF RemoveJoined
<1>. QED  BY <1>1, <1>2

LEMMA EmptyIffNoElement ==
  ASSUME NEW S, NEW s \in Seq(S)
  PROVE  s = <<>> <=> ToSet(s) = {}
BY DEF ToSet

LEMMA OpsAfterPartType ==
  ASSUME TypeOK, MembersAreRegisteredOnce, NEW ch \in Channel, NEW c \in Client
  PROVE  /\ Promoted(ch, c) \subseteq Members(ch) \ {c}
         /\ OpsAfterPart(ch, c) \in SUBSET Client
<1>. DEFINE rest == RemoveUser(channelUsers[ch], c)
<1>1. rest \in Seq(Client) /\ ToSet(rest) = Members(ch) \ {c}
  BY RemoveUserOnce DEF TypeOK, MembersAreRegisteredOnce, Members
<1>2. rest # <<>> => Head(rest) \in ToSet(rest)
  BY <1>1, TailKeeps
<1>3. ToSet(rest) \subseteq Client
  BY <1>1 DEF ToSet
<1>. HIDE DEF rest
<1>4. Promoted(ch, c) \subseteq ToSet(rest)
  BY <1>2 DEF Promoted, rest
<1>. QED  BY <1>1, <1>3, <1>4 DEF OpsAfterPart, TypeOK

-----------------------------------------------------------------------------
(***************************************************************************)
(* MembershipInv is inductive.  Each lemma is about the actions that       *)
(* change one group of variables.                                          *)
(***************************************************************************)

LEMMA InitEstablishesInv == Init => MembershipInv
<1>. SUFFICES ASSUME Init PROVE MembershipInv
  OBVIOUS
<1>. USE DEF Init
<1>1. TypeOK
  BY MembershipAssumption DEF TypeOK
<1>2. \A ch \in Channel : channelUsers[ch] = <<>> /\ Members(ch) = {}
  BY DEF Members, ToSet
<1>3. \A ch \in Channel : IsInjective(channelUsers[ch])
  BY <1>2 DEF IsInjective
<1>. QED
  BY <1>1, <1>2, <1>3
  DEF MembershipInv, MembershipRecorded, MembersAreRegisteredOnce,
      OccupiedChannelExists

\* Actions that leave the lists of members and of joined channels alone, and
\* take neither a registration nor a channel away.
LEMMA QuietStepKeepsInv ==
  ASSUME MembershipInv, TypeOK',
         UNCHANGED <<channelUsers, joinedChannels>>,
         registered \subseteq registered',
         channels \subseteq channels'
  PROVE  MembershipInv'
BY DEF MembershipInv, MembershipRecorded, MembersAreRegisteredOnce,
       OccupiedChannelExists, Members

LEMMA ConnectKeepsInv ==
  ASSUME MembershipInv, NEW c \in Client, Connect(c)
  PROVE  MembershipInv'
<1>. USE DEF MembershipInv
<1>1. TypeOK'
  BY DEF Connect, TypeOK, memberVars, settingVars
<1>2. \A ch \in Channel : c \notin Members(ch)
  BY DEF Connect, TypeOK, MembersAreRegisteredOnce
<1>3. MembershipRecorded'
  BY <1>2 DEF Connect, TypeOK, MembershipRecorded, Members, memberVars
<1>. QED
  BY <1>1, <1>3
  DEF Connect, memberVars, MembersAreRegisteredOnce, OccupiedChannelExists,
      Members

LEMMA RegisterKeepsInv ==
  ASSUME MembershipInv, NEW c \in Client, Register(c)
  PROVE  MembershipInv'
<1>1. TypeOK'
  BY DEF MembershipInv, Register, TypeOK, memberVars, settingVars
<1>. QED
  BY <1>1, QuietStepKeepsInv DEF Register, memberVars

LEMMA InviteKeepsInv ==
  ASSUME MembershipInv, NEW c \in Client, NEW t \in Client, NEW ch \in Channel,
         Invite(c, t, ch)
  PROVE  MembershipInv'
<1>1. TypeOK'
  BY DEF MembershipInv, Invite, TypeOK, memberVars, settingVars
<1>. QED
  BY <1>1, QuietStepKeepsInv DEF Invite, memberVars

LEMMA SetTopicKeepsInv ==
  ASSUME MembershipInv, NEW c \in Client, NEW ch \in Channel,
         NEW tp \in Topic \cup {NoTopic}, SetTopic(c, ch, tp)
  PROVE  MembershipInv'
<1>1. TypeOK'
  BY DEF MembershipInv, SetTopic, TypeOK, clientVars, memberVars
<1>. QED
  BY <1>1, QuietStepKeepsInv DEF SetTopic, clientVars, memberVars

LEMMA ModeKeepsInv ==
  ASSUME MembershipInv, NEW c \in Client, NEW ch \in Channel, Mode(c, ch)
  PROVE  MembershipInv'
<1>. DEFINE Quiet == TypeOK' /\ UNCHANGED <<clientVars, channels, channelUsers>>
<1>. USE DEF MembershipInv, TypeOK, clientVars, memberVars, settingVars
<1>1. ASSUME NEW t \in Client, GrantOp(c, t, ch) PROVE Quiet
  BY <1>1 DEF GrantOp
<1>2. ASSUME NEW t \in Client, RevokeOp(c, t, ch) PROVE Quiet
  BY <1>2 DEF RevokeOp
<1>3. ASSUME NEW x \in ModeLetter, SetFlag(c, ch, x) PROVE Quiet
  BY <1>3 DEF SetFlag
<1>4. ASSUME NEW x \in ModeLetter, ClearFlag(c, ch, x) PROVE Quiet
  BY <1>4 DEF ClearFlag
<1>5. ASSUME NEW k \in Key, SetKey(c, ch, k) PROVE Quiet
  BY <1>5 DEF SetKey
<1>6. ASSUME ClearKey(c, ch) PROVE Quiet
  BY <1>6 DEF ClearKey
<1>7. ASSUME NEW n \in 0..MaxClient, SetLimit(c, ch, n) PROVE Quiet
  BY <1>7 DEF SetLimit
<1>8. ASSUME ClearLimit(c, ch) PROVE Quiet
  BY <1>8 DEF ClearLimit
<1>9. Quiet
  BY <1>1, <1>2, <1>3, <1>4, <1>5, <1>6, <1>7, <1>8 DEF Mode
<1>. QED
  BY <1>9, QuietStepKeepsInv

\* A new member is registered, and JOIN records the channel with it.
LEMMA JoinKeepsInv ==
  ASSUME MembershipInv, NEW c \in Client, NEW ch \in Channel, NEW key,
         Join(c, ch, key)
  PROVE  MembershipInv'
<1>. USE DEF MembershipInv
<1>1. /\ channelUsers[ch] \in Seq(Client)
      /\ IsInjective(channelUsers[ch])
      /\ joinedChannels[c] \in Seq(Channel)
  BY DEF TypeOK, MembersAreRegisteredOnce
<1>2. /\ channelUsers' = [channelUsers EXCEPT ![ch] = AddUser(@, c)]
      /\ joinedChannels' = [joinedChannels EXCEPT ![c] = Append(@, ch)]
      /\ c \in registered
  BY DEF Join
<1>3. /\ AddUser(channelUsers[ch], c) \in Seq(Client)
      /\ IsInjective(AddUser(channelUsers[ch], c))
      /\ ToSet(AddUser(channelUsers[ch], c)) = Members(ch) \cup {c}
  BY <1>1, AddUserOnce DEF Members
<1>4. /\ Append(joinedChannels[c], ch) \in Seq(Channel)
      /\ ToSet(Append(joinedChannels[c], ch)) = ToSet(joinedChannels[c]) \cup {ch}
  BY <1>1, AppendOfDistinct
<1>5. TypeOK'
  <2>1. channelUsers' \in [Channel -> Seq(Client)]
    BY <1>2, <1>3 DEF TypeOK
  <2>2. joinedChannels' \in [Client -> Seq(Channel)]
    BY <1>2, <1>4 DEF TypeOK
  <2>. QED  BY <2>1, <2>2 DEF Join, TypeOK, settingVars
<1>6. MembershipRecorded'
  BY <1>2, <1>3, <1>4 DEF MembershipRecorded, Members, TypeOK
<1>7. MembersAreRegisteredOnce'
  BY <1>2, <1>3 DEF Join, MembersAreRegisteredOnce, Members, TypeOK
<1>8. OccupiedChannelExists'
  BY <1>2 DEF Join, OccupiedChannelExists, TypeOK
<1>. QED  BY <1>5, <1>6, <1>7, <1>8

\* PART and KICK take one client out of one channel, and both prune the list
\* of that channel only.
LEMMA LeaveKeepsInv ==
  ASSUME MembershipInv, NEW c \in Client, NEW ch \in Channel,
         channelUsers' = [channelUsers EXCEPT ![ch] = RemoveUser(@, c)],
         joinedChannels' = [joinedChannels EXCEPT ![c] = RemoveJoined(@, ch)],
         ops' \in [Channel -> SUBSET Client],
         invitations' \in [Client -> SUBSET Channel],
         UNCHANGED <<cls, registered, channels, settingVars>>
  PROVE  MembershipInv'
<1>. USE DEF MembershipInv
<1>1. /\ channelUsers[ch] \in Seq(Client)
      /\ IsInjective(channelUsers[ch])
      /\ joinedChannels[c] \in Seq(Channel)
  BY DEF TypeOK, MembersAreRegisteredOnce
<1>2. /\ RemoveUser(channelUsers[ch], c) \in Seq(Client)
      /\ IsInjective(RemoveUser(channelUsers[ch], c))
      /\ ToSet(RemoveUser(channelUsers[ch], c)) = Members(ch) \ {c}
  BY <1>1, RemoveUserOnce DEF Members
<1>3. /\ RemoveJoined(joinedChannels[c], ch) \in Seq(Channel)
      /\ ToSet(joinedChannels[c]) \ {ch}
           \subseteq ToSet(RemoveJoined(joinedChannels[c], ch))
  BY <1>1, RemoveJoinedKeeps
<1>4. TypeOK'
  <2>1. channelUsers' \in [Channel -> Seq(Client)]
    BY <1>2 DEF TypeOK
  <2>2. joinedChannels' \in [Client -> Seq(Channel)]
    BY <1>3 DEF TypeOK
  <2>. QED  BY <2>1, <2>2 DEF TypeOK, settingVars
<1>5. MembershipRecorded'
  BY <1>2, <1>3 DEF MembershipRecorded, Members, TypeOK
<1>6. MembersAreRegisteredOnce'
  BY <1>2 DEF MembersAreRegisteredOnce, Members, TypeOK
<1>7. OccupiedChannelExists'
  <2>1. channelUsers[ch] = <<>> => RemoveUser(channelUsers[ch], c) = <<>>
    BY <1>1, <1>2, EmptyIffNoElement DEF Members
  <2>. QED  BY <2>1 DEF OccupiedChannelExists, TypeOK
<1>. QED  BY <1>4, <1>5, <1>6, <1>7

LEMMA PartKeepsInv ==
  ASSUME MembershipInv, NEW c \in Client, NEW ch \in Channel, Part(c, ch)
  PROVE  MembershipInv'
<1>1. OpsAfterPart(ch, c) \in SUBSET Client
  BY OpsAfterPartType DEF MembershipInv
<1>2. /\ ops' \in [Channel -> SUBSET Client]
      /\ invitations' \in [Client -> SUBSET Channel]
  BY <1>1 DEF Part, MembershipInv, TypeOK
<1>. QED
  BY <1>2, LeaveKeepsInv DEF Part

LEMMA KickKeepsInv ==
  ASSUME MembershipInv, NEW c \in Client, NEW t \in Client, NEW ch \in Channel,
         Kick(c, t, ch)
  PROVE  MembershipInv'
<1>1. /\ ops' \in [Channel -> SUBSET Client]
      /\ invitations' \in [Client -> SUBSET Channel]
  BY DEF Kick, MembershipInv, TypeOK
<1>. QED
  BY <1>1, LeaveKeepsInv DEF Kick

\* QUIT takes the client out of every channel that its list names, which by
\* MembershipRecorded are all the channels it is a member of.
LEMMA QuitKeepsInv ==
  ASSUME MembershipInv, NEW c \in Client, Quit(c)
  PROVE  MembershipInv'
<1>. USE DEF MembershipInv
<1>1. ASSUME NEW ch \in Channel
      PROVE  /\ channelUsers[ch] \in Seq(Client)
             /\ RemoveUser(channelUsers[ch], c) \in Seq(Client)
             /\ IsInjective(RemoveUser(channelUsers[ch], c))
             /\ ToSet(RemoveUser(channelUsers[ch], c)) = Members(ch) \ {c}
  BY RemoveUserOnce DEF TypeOK, MembersAreRegisteredOnce, Members
<1>2. ASSUME NEW ch \in Channel, c \in Members(ch)
      PROVE  ch \in LeftByQuit(c)
  <2>1. channelUsers[ch] # <<>>
    BY <1>1, <1>2, EmptyIffNoElement DEF Members
  <2>. QED
    BY <1>2, <2>1
    DEF LeftByQuit, IsMember, MembershipRecorded, OccupiedChannelExists
<1>3. ASSUME NEW ch \in Channel
      PROVE  /\ channelUsers'[ch] \in Seq(Client)
             /\ IsInjective(channelUsers'[ch])
             /\ Members(ch)' = Members(ch) \ {c}
  <2>1. CASE ch \in LeftByQuit(c)
    BY <1>1, <2>1 DEF Quit, Members
  <2>2. CASE ch \notin LeftByQuit(c)
    BY <1>1, <1>2, <2>2 DEF Quit, Members, MembersAreRegisteredOnce
  <2>. QED  BY <2>1, <2>2
<1>4. TypeOK'
  <2>1. channelUsers' \in [Channel -> Seq(Client)]
    BY <1>3 DEF Quit
  <2>2. ops' \in [Channel -> SUBSET Client]
    BY OpsAfterPartType DEF Quit, TypeOK
  <2>3. joinedChannels' \in [Client -> Seq(Channel)]
    BY DEF Quit, TypeOK
  <2>. QED  BY <2>1, <2>2, <2>3 DEF Quit, TypeOK, settingVars
<1>5. MembershipRecorded'
  BY <1>3 DEF Quit, MembershipRecorded, TypeOK
<1>6. MembersAreRegisteredOnce'
  BY <1>3 DEF Quit, MembersAreRegisteredOnce
<1>7. OccupiedChannelExists'
  <2>1. ASSUME NEW ch \in Channel, channelUsers'[ch] # <<>>
        PROVE  ch \in channels'
    <3>1. Members(ch) # {}
      BY <1>3, <2>1, EmptyIffNoElement DEF Members
    <3>2. channelUsers[ch] # <<>>
      BY <1>1, <3>1, EmptyIffNoElement DEF Members
    <3>. QED  BY <3>2 DEF Quit, OccupiedChannelExists
  <2>. QED  BY <2>1 DEF OccupiedChannelExists
<1>. QED  BY <1>4, <1>5, <1>6, <1>7

LEMMA NextKeepsInv == MembershipInv /\ [Next]_vars => MembershipInv'
<1>. SUFFICES ASSUME MembershipInv, [Next]_vars PROVE MembershipInv'
  OBVIOUS
<1>1. CASE UNCHANGED vars
  BY <1>1
  DEF vars, clientVars, memberVars, settingVars, MembershipInv, TypeOK,
      MembershipRecorded, MembersAreRegisteredOnce, OccupiedChannelExists,
      Members
<1>2. CASE Next
  BY <1>2, ConnectKeepsInv, RegisterKeepsInv, QuitKeepsInv, JoinKeepsInv,
     PartKeepsInv, KickKeepsInv, InviteKeepsInv, SetTopicKeepsInv,
     ModeKeepsInv
  DEF Next
<1>. QED  BY <1>1, <1>2

-----------------------------------------------------------------------------
\* Every state satisfies MembershipInv: what PART and KICK leave in a client's
\* joinedChannels names every channel of which it is still a member.
THEOREM MembershipInvariant == Spec => []MembershipInv
BY InitEstablishesInv, NextKeepsInv, PTL DEF Spec

\* No channel ever holds a pointer to a client that was deleted, whichever
\* way the client left.
THEOREM MembersAreLive == Spec => []NoDanglingMember
<1>1. MembershipInv => NoDanglingMember
  BY DEF MembershipInv, TypeOK, MembersAreRegisteredOnce, NoDanglingMember
<1>. QED  BY <1>1, MembershipInvariant, PTL

-----------------------------------------------------------------------------
(***************************************************************************)
(* What no step may do.  LeaveEffect says what the actions by which a      *)
(* client leaves a channel have in common, and ChannelStep which actions   *)
(* change the members or the operators of a channel at all.                *)
(***************************************************************************)

\* What Part, Kick and Quit of client c do to the members of channel ch.
Leaves(c, ch) ==
  /\ c \in Members(ch)
  /\ channelUsers'[ch] = RemoveUser(channelUsers[ch], c)

\* Whoever leaves is the only one to leave.
LEMMA LeaveEffect ==
  ASSUME MembershipInv, NEW c \in Client, NEW ch \in Channel, Leaves(c, ch)
  PROVE  /\ Members(ch)' = Members(ch) \ {c}
         /\ Len(channelUsers'[ch]) <= Len(channelUsers[ch])
<1>1. channelUsers[ch] \in Seq(Client) /\ IsInjective(channelUsers[ch])
  BY DEF MembershipInv, TypeOK, MembersAreRegisteredOnce
<1>2. Members(ch)' = Members(ch) \ {c}
  BY <1>1, RemoveUserOnce DEF Leaves, Members
<1>3. Len(RemoveUser(channelUsers[ch], c)) = Len(channelUsers[ch]) - 1
  BY <1>1, RemoveFirstAt DEF Leaves, RemoveUser, Members
<1>. QED  BY <1>1, <1>2, <1>3 DEF Leaves

\* What a step may do to the members and the operators of a channel.
LEMMA ChannelStep ==
  ASSUME MembershipInv, [Next]_vars, NEW ch \in Channel
  PROVE  \/ UNCHANGED <<ops[ch], channelUsers[ch]>>
         \/ \E c \in Client, key \in Key \cup {NoKey} : Join(c, ch, key)
         \/ \E c \in Client : /\ Leaves(c, ch)
                              /\ Part(c, ch) \/ Quit(c)
                              /\ ops'[ch] = OpsAfterPart(ch, c)
         \/ \E c, t \in Client : Leaves(t, ch) /\ Kick(c, t, ch)
         \/ \E c, t \in Client : GrantOp(c, t, ch) \/ RevokeOp(c, t, ch)
<1>. USE DEF MembershipInv, TypeOK
<1>1. CASE UNCHANGED vars
  BY <1>1 DEF vars, memberVars
<1>2. ASSUME NEW c \in Client, Connect(c) \/ Register(c)
      PROVE  UNCHANGED <<ops[ch], channelUsers[ch]>>
  BY <1>2 DEF Connect, Register, memberVars
<1>3. ASSUME NEW c \in Client, Quit(c)
      PROVE  \/ UNCHANGED <<ops[ch], channelUsers[ch]>>
             \/ Leaves(c, ch) /\ ops'[ch] = OpsAfterPart(ch, c)
  BY <1>3 DEF Quit, Leaves, LeftByQuit, IsMember
<1>4. ASSUME NEW c \in Client, NEW d \in Channel, NEW key \in Key \cup {NoKey},
             Join(c, d, key)
      PROVE  UNCHANGED <<ops[ch], channelUsers[ch]>> \/ d = ch
  BY <1>4 DEF Join
<1>5. ASSUME NEW c \in Client, NEW d \in Channel, Part(c, d)
      PROVE  \/ UNCHANGED <<ops[ch], channelUsers[ch]>>
             \/ d = ch /\ Leaves(c, ch) /\ ops'[ch] = OpsAfterPart(ch, c)
  BY <1>5 DEF Part, Leaves, IsMember
<1>6. ASSUME NEW c \in Client, NEW t \in Client, NEW d \in Channel,
             Kick(c, t, d)
      PROVE  UNCHANGED <<ops[ch], channelUsers[ch]>> \/ (d = ch /\ Leaves(t, ch))
  BY <1>6 DEF Kick, Leaves
<1>7. ASSUME NEW c \in Client, NEW t \in Client, NEW d \in Channel,
             Invite(c, t, d)
      PROVE  UNCHANGED <<ops[ch], channelUsers[ch]>>
  BY <1>7 DEF Invite, memberVars
<1>8. ASSUME NEW c \in Client, NEW d \in Channel,
             NEW tp \in Topic \cup {NoTopic}, SetTopic(c, d, tp)
      PROVE  UNCHANGED <<ops[ch], channelUsers[ch]>>
  BY <1>8 DEF SetTopic, memberVars
<1>9. ASSUME NEW c \in Client, NEW d \in Channel, Mode(c, d)
      PROVE  \/ UNCHANGED <<ops[ch], channelUsers[ch]>>
             \/ \E t \in Client : GrantOp(c, t, ch) \/ RevokeOp(c, t, ch)
  <2>1. ASSUME NEW t \in Client, GrantOp(c, t, d) \/ RevokeOp(c, t, d)
        PROVE  UNCHANGED <<ops[ch], channelUsers[ch]>> \/ d = ch
    BY <2>1 DEF GrantOp, RevokeOp
  <2>2. ASSUME ~\E t \in Client : GrantOp(c, t, d) \/ RevokeOp(c, t, d)
        PROVE  UNCHANGED <<ops[ch], channelUsers[ch]>>
    BY <1>9, <2>2 DEF Mode, SetFlag, ClearFlag, SetKey, ClearKey, SetLimit,
                      ClearLimit, memberVars
  <2>. QED  BY <2>1, <2>2
<1>. QED
  BY <1>1, <1>2, <1>3, <1>4, <1>5, <1>6, <1>7, <1>8, <1>9 DEF Next

\* A client whose pointer leaves channelUsers while it stays connected was
\* parted or kicked, and either command spends its invitation.
THEOREM LeavingSpends == Spec => LeavingVoidsInvitation
<1>1. ASSUME MembershipInv, [Next]_vars, NEW ch \in Channel, NEW x \in cls',
             x \in Members(ch), x \notin Members(ch)'
      PROVE  ch \notin invitations'[x]
  <2>. USE <1>1 DEF MembershipInv, TypeOK
  <2>1. CASE UNCHANGED channelUsers[ch]
    BY <1>1, <2>1 DEF Members
  <2>2. ASSUME NEW c \in Client, NEW key, Join(c, ch, key)
        PROVE  FALSE
    BY <1>1, <2>2, AddUserOnce DEF Join, Members, MembersAreRegisteredOnce
  <2>3. ASSUME NEW c \in Client, Leaves(c, ch), Part(c, ch)
        PROVE  ch \notin invitations'[x]
    <3>1. x = c
      BY <1>1, <2>3, LeaveEffect
    <3>. QED  BY <2>3, <3>1 DEF Part
  <2>4. ASSUME NEW c \in Client, NEW t \in Client, Leaves(t, ch), Kick(c, t, ch)
        PROVE  ch \notin invitations'[x]
    <3>1. x = t
      BY <1>1, <2>4, LeaveEffect
    <3>. QED  BY <2>4, <3>1 DEF Kick
  <2>5. ASSUME NEW c \in Client, Leaves(c, ch), Quit(c)
        PROVE  FALSE
    <3>1. x = c
      BY <1>1, <2>5, LeaveEffect
    <3>. QED  BY <1>1, <2>5, <3>1 DEF Quit
  <2>6. ASSUME NEW c \in Client, NEW t \in Client,
               GrantOp(c, t, ch) \/ RevokeOp(c, t, ch)
        PROVE  UNCHANGED channelUsers[ch]
    BY <2>6 DEF GrantOp, RevokeOp
  <2>. QED
    BY <1>1, <2>1, <2>2, <2>3, <2>4, <2>5, <2>6, ChannelStep
<1>2. MembershipInv /\ [Next]_vars => SpendsInvitation
  BY <1>1 DEF SpendsInvitation
<1>3. MembershipInv /\ [Next]_vars => [SpendsInvitation]_vars
  BY <1>2
<1>. QED
  BY <1>3, MembershipInvariant, PTL DEF Spec, LeavingVoidsInvitation

\* JOIN is the only command that adds a member, and it counts the members
\* before it does.
THEOREM JoinRespectsLimit == Spec => AdmittedWithinLimit
<1>1. ASSUME MembershipInv, [Next]_vars, NEW ch \in Channel, "l" \in modes[ch],
             Len(channelUsers'[ch]) > Len(channelUsers[ch])
      PROVE  Len(channelUsers'[ch]) <= maxUser[ch]
  <2>0. channelUsers[ch] \in Seq(Client) /\ maxUser[ch] \in Nat
    BY <1>1, MembershipAssumption DEF MembershipInv, TypeOK
  <2>1. CASE UNCHANGED channelUsers[ch]
    BY <1>1, <2>0, <2>1
  <2>2. ASSUME NEW c \in Client, NEW key, Join(c, ch, key)
        PROVE  Len(channelUsers'[ch]) <= maxUser[ch]
    <3>1. Len(channelUsers[ch]) < maxUser[ch]
      BY <1>1, <2>2 DEF Join, Admits
    <3>2. channelUsers'[ch] = AddUser(channelUsers[ch], c)
      BY <1>1, <2>2 DEF Join, MembershipInv, TypeOK
    <3>3. Len(AddUser(channelUsers[ch], c)) <= Len(channelUsers[ch]) + 1
      BY <2>0 DEF AddUser
    <3>4. Len(AddUser(channelUsers[ch], c)) \in Nat
      BY <2>0 DEF AddUser
    <3>. QED  BY <2>0, <3>1, <3>2, <3>3, <3>4
  <2>3. ASSUME NEW c \in Client, Leaves(c, ch)
        PROVE  FALSE
    <3>1. channelUsers'[ch] \in Seq(Client)
      BY <1>1, <2>0, <2>3, RemoveUserOnce
      DEF Leaves, MembershipInv, MembersAreRegisteredOnce
    <3>. QED  BY <1>1, <2>0, <2>3, <3>1, LeaveEffect
  <2>4. ASSUME NEW c \in Client, NEW t \in Client,
               GrantOp(c, t, ch) \/ RevokeOp(c, t, ch)
        PROVE  UNCHANGED channelUsers[ch]
    BY <2>4 DEF GrantOp, RevokeOp
  <2>. QED  BY <1>1, <2>1, <2>2, <2>3, <2>4, ChannelStep
<1>2. MembershipInv /\ [Next]_vars => [GrowsWithinLimit]_vars
  BY <1>1 DEF GrowsWithinLimit
<1>. QED
  BY <1>2, MembershipInvariant, PTL DEF Spec, AdmittedWithinLimit

\* Only MODE +o puts the pointer of a client outside the channel into ops.
THEOREM GrantsMakeOutsiders == Spec => OutsidersOnlyByGrant
<1>1. ASSUME MembershipInv, [Next]_vars, NEW ch \in Channel,
             NEW x \in ops'[ch] \ Members(ch)'
      PROVE  \/ x \in ops[ch] \ Members(ch)
             \/ \E s \in Client : GrantOp(s, x, ch)
  <2>. DEFINE Before == x \in ops[ch] \ Members(ch)
              Granted == \E s \in Client : GrantOp(s, x, ch)
  <2>. USE DEF MembershipInv, TypeOK
  <2>1. ASSUME UNCHANGED <<ops[ch], channelUsers[ch]>>
        PROVE  Before
    BY <1>1, <2>1 DEF Members
  <2>2. ASSUME NEW c \in Client, NEW key, Join(c, ch, key)
        PROVE  Before
    <3>1. Members(ch)' = Members(ch) \cup {c}
      BY <1>1, <2>2, AddUserOnce DEF Join, Members, MembersAreRegisteredOnce
    <3>. QED  BY <1>1, <2>2, <3>1 DEF Join
  <2>3. ASSUME NEW c \in Client, Leaves(c, ch), ops'[ch] = OpsAfterPart(ch, c)
        PROVE  Before
    <3>1. Members(ch)' = Members(ch) \ {c}
      BY <1>1, <2>3, LeaveEffect
    <3>2. Promoted(ch, c) \subseteq Members(ch) \ {c}
      BY <1>1, OpsAfterPartType
    <3>. QED  BY <1>1, <2>3, <3>1, <3>2 DEF OpsAfterPart
  <2>4. ASSUME NEW c \in Client, NEW t \in Client, Leaves(t, ch), Kick(c, t, ch)
        PROVE  Before
    <3>1. Members(ch)' = Members(ch) \ {t}
      BY <1>1, <2>4, LeaveEffect
    <3>. QED  BY <1>1, <2>4, <3>1 DEF Kick
  <2>5. ASSUME NEW c \in Client, NEW t \in Client, GrantOp(c, t, ch)
        PROVE  Before \/ Granted
    <3>1. CASE x = t
      BY <2>5, <3>1
    <3>2. CASE x # t
      BY <1>1, <2>5, <3>2 DEF GrantOp, Members
    <3>. QED  BY <3>1, <3>2
  <2>6. ASSUME NEW c \in Client, NEW t \in Client, RevokeOp(c, t, ch)
        PROVE  Before
    BY <1>1, <2>6 DEF RevokeOp, Members
  <2>. HIDE DEF Before, Granted, MembershipInv, TypeOK
  <2>7. Before \/ Granted
    BY <1>1, <2>1, <2>2, <2>3, <2>4, <2>5, <2>6, ChannelStep
  <2>. QED  BY <2>7 DEF Before, Granted
<1>2. MembershipInv /\ [Next]_vars => [OutsiderWasGranted]_vars
  BY <1>1 DEF OutsiderWasGranted
<1>. QED
  BY <1>2, MembershipInvariant, PTL DEF Spec, OutsidersOnlyByGrant

\* PART and QUIT promote a member when the only operator goes, and MODE -o and
\* KICK leave the one who sends them in ops.
THEOREM OperatorsSucceed == Spec => OperatorSuccession
<1>1. ASSUME MembershipInv, [Next]_vars, NEW ch \in Channel,
             ops[ch] # {}, ops[ch] \subseteq Members(ch),
             channelUsers'[ch] # <<>>,
             ~\E c \in Client : Kick(c, c, ch)
      PROVE  ops'[ch] \cap Members(ch)' # {}
  <2>. USE DEF MembershipInv, TypeOK
  <2>1. CASE UNCHANGED <<ops[ch], channelUsers[ch]>>
    BY <1>1, <2>1 DEF Members
  <2>2. ASSUME NEW c \in Client, NEW key, Join(c, ch, key)
        PROVE  ops'[ch] \cap Members(ch)' # {}
    <3>1. Members(ch)' = Members(ch) \cup {c}
      BY <1>1, <2>2, AddUserOnce DEF Join, Members, MembersAreRegisteredOnce
    <3>2. ops[ch] \subseteq ops'[ch]
      BY <1>1, <2>2 DEF Join
    <3>. QED  BY <1>1, <3>1, <3>2
  <2>3. ASSUME NEW c \in Client, Leaves(c, ch), ops'[ch] = OpsAfterPart(ch, c)
        PROVE  ops'[ch] \cap Members(ch)' # {}
    <3>. DEFINE rest == RemoveUser(channelUsers[ch], c)
    <3>1. Members(ch)' = Members(ch) \ {c}
      BY <1>1, <2>3, LeaveEffect
    <3>2. CASE \E d \in ops[ch] : d # c
      BY <1>1, <2>3, <3>1, <3>2 DEF OpsAfterPart
    <3>3. CASE ops[ch] = {c}
      <4>1. rest # <<>> /\ rest \in Seq(Client) /\ ToSet(rest) = Members(ch) \ {c}
        BY <1>1, <2>3, RemoveUserOnce
        DEF Leaves, Members, MembersAreRegisteredOnce
      <4>2. Head(rest) \in ToSet(rest)
        BY <4>1, TailKeeps
      <4>3. Cardinality(ops[ch]) = 1
        BY <3>3, FS_Singleton
      <4>4. Promoted(ch, c) = {Head(rest)}
        BY <4>1, <4>3 DEF Promoted
      <4>. QED  BY <2>3, <3>1, <3>3, <4>1, <4>2, <4>4 DEF OpsAfterPart
    <3>. QED  BY <1>1, <3>2, <3>3
  <2>4. ASSUME NEW c \in Client, NEW t \in Client, Leaves(t, ch), Kick(c, t, ch)
        PROVE  ops'[ch] \cap Members(ch)' # {}
    <3>1. Members(ch)' = Members(ch) \ {t}
      BY <1>1, <2>4, LeaveEffect
    <3>2. c \in ops[ch] /\ c # t /\ ops'[ch] = ops[ch] \ {t}
      BY <1>1, <2>4 DEF Kick
    <3>. QED  BY <1>1, <3>1, <3>2
  <2>5. ASSUME NEW c \in Client, NEW t \in Client,
               GrantOp(c, t, ch) \/ RevokeOp(c, t, ch)
        PROVE  ops'[ch] \cap Members(ch)' # {}
    <3>1. c \in Members(ch) /\ Members(ch)' = Members(ch)
      BY <2>5 DEF GrantOp, RevokeOp, IsMemberOperator, IsMember, Members
    <3>2. c \in ops'[ch]
      BY <1>1, <2>5 DEF GrantOp, RevokeOp, IsMemberOperator
    <3>. QED  BY <3>1, <3>2
  <2>. QED
    BY <1>1, <2>1, <2>2, <2>3, <2>4, <2>5, ChannelStep
<1>2. MembershipInv /\ [Next]_vars => [KeepsAnOperator]_vars
  BY <1>1 DEF KeepsAnOperator
<1>. QED
  BY <1>2, MembershipInvariant, PTL DEF Spec, OperatorSuccession

\* Whoever is new in ops was put there by MODE +o, by JOIN or by the promotion
\* that follows the PART of the only operator.
THEOREM OperatorsComeByAppointment == Spec => OperatorsAreAppointed
<1>1. ASSUME MembershipInv, [Next]_vars, NEW ch \in Channel,
             NEW x \in ops'[ch] \ ops[ch]
      PROVE  \/ \E s \in Client : GrantOp(s, x, ch)
             \/ channelUsers'[ch] = <<x>>
             \/ \E d \in Members(ch) \ Members(ch)' :
                  ops[ch] = {d} /\ x = Head(channelUsers'[ch])
  <2>. DEFINE Granted == \E s \in Client : GrantOp(s, x, ch)
              Succeeds == \E d \in Members(ch) \ Members(ch)' :
                            ops[ch] = {d} /\ x = Head(channelUsers'[ch])
  <2>. USE DEF MembershipInv, TypeOK
  <2>1. ASSUME NEW c \in Client, NEW key, Join(c, ch, key)
        PROVE  channelUsers'[ch] = <<x>>
    <3>1. x = c /\ Len(channelUsers'[ch]) = 1
      BY <1>1, <2>1 DEF Join
    <3>2. channelUsers'[ch] \in Seq(Client) /\ c \in ToSet(channelUsers'[ch])
      BY <1>1, <2>1, AddUserOnce DEF Join, MembersAreRegisteredOnce
    <3>. QED  BY <3>1, <3>2 DEF ToSet
  <2>2. ASSUME NEW c \in Client, Leaves(c, ch), ops'[ch] = OpsAfterPart(ch, c)
        PROVE  Succeeds
    <3>1. c \in ops[ch] /\ x \in Promoted(ch, c)
      BY <1>1, <2>2 DEF OpsAfterPart
    <3>2. Cardinality(ops[ch]) = 1 /\ x = Head(RemoveUser(channelUsers[ch], c))
      BY <3>1 DEF Promoted
    <3>3. ops[ch] = {c}
      <4>1. IsFiniteSet(ops[ch])
        BY <1>1, MembershipAssumption, FS_Subset
      <4>2. PICK d : ops[ch] = {d}
        BY <3>2, <4>1, FS_Singleton
      <4>. QED  BY <3>1, <4>2
    <3>4. c \in Members(ch) \ Members(ch)'
      BY <1>1, <2>2, LeaveEffect DEF Leaves
    <3>. QED  BY <2>2, <3>2, <3>3, <3>4 DEF Leaves
  <2>3. ASSUME NEW c \in Client, NEW t \in Client, Kick(c, t, ch)
        PROVE  FALSE
    BY <1>1, <2>3 DEF Kick
  <2>4. ASSUME NEW c \in Client, NEW t \in Client,
               GrantOp(c, t, ch) \/ RevokeOp(c, t, ch)
        PROVE  Granted
    <3>1. GrantOp(c, t, ch) /\ x = t
      BY <1>1, <2>4 DEF GrantOp, RevokeOp
    <3>. QED  BY <3>1
  <2>. HIDE DEF Granted, Succeeds, MembershipInv, TypeOK
  <2>5. Granted \/ channelUsers'[ch] = <<x>> \/ Succeeds
    BY <1>1, <2>1, <2>2, <2>3, <2>4, ChannelStep
  <2>. QED  BY <2>5 DEF Granted, Succeeds
<1>2. MembershipInv /\ [Next]_vars => [BecomesOperator]_vars
  BY <1>1 DEF BecomesOperator
<1>. QED
  BY <1>2, MembershipInvariant, PTL DEF Spec, OperatorsAreAppointed

-----------------------------------------------------------------------------
\* An empty channel has no member to change its modes or to invite, and JOIN
\* turns everybody away.
THEOREM DeadChannelsStay == Spec => DeadChannelStaysDead
<1>1. ASSUME MembershipInv, [Next]_vars, NEW ch \in Channel, Dead(ch)
      PROVE  Dead(ch)'
  <2>. USE DEF MembershipInv, TypeOK
  <2>0. /\ ch \in channels
        /\ channelUsers[ch] = <<>>
        /\ Members(ch) = {}
        /\ Len(channelUsers[ch]) = 0
    BY <1>1 DEF Dead, Members, ToSet
  <2>1. CASE UNCHANGED vars
    BY <1>1, <2>1
    DEF vars, clientVars, memberVars, settingVars, Dead
  <2>2. ASSUME NEW c \in Client, Connect(c)
        PROVE  Dead(ch)'
    BY <1>1, <2>2 DEF Connect, Dead, memberVars, settingVars
  <2>3. ASSUME NEW c \in Client, Register(c)
        PROVE  Dead(ch)'
    BY <1>1, <2>3 DEF Register, Dead, memberVars, settingVars
  <2>4. ASSUME NEW c \in Client, Quit(c)
        PROVE  Dead(ch)'
    BY <1>1, <2>0, <2>4 DEF Quit, LeftByQuit, IsMember, Dead, settingVars
  <2>5. ASSUME NEW c \in Client, NEW d \in Channel, NEW key, Join(c, d, key)
        PROVE  Dead(ch)'
    <3>1. d # ch
      <4>1. CASE "i" \in modes[ch] /\ \A x \in cls : ch \notin invitations[x]
        BY <1>1, <2>5, <4>1 DEF Join, Admits
      <4>2. CASE "l" \in modes[ch] /\ maxUser[ch] = 0
        BY <2>0, <2>5, <4>2 DEF Join, Admits
      <4>. QED  BY <1>1, <4>1, <4>2 DEF Dead
    <3>. QED  BY <1>1, <2>5, <3>1 DEF Join, Dead, settingVars
  <2>6. ASSUME NEW c \in Client, NEW d \in Channel, Part(c, d)
        PROVE  Dead(ch)'
    <3>1. d # ch
      BY <2>0, <2>6 DEF Part, IsMember
    <3>. QED  BY <1>1, <2>6, <3>1 DEF Part, Dead, settingVars
  <2>7. ASSUME NEW c \in Client, NEW t \in Client, NEW d \in Channel,
               Kick(c, t, d)
        PROVE  Dead(ch)'
    <3>1. d # ch
      BY <2>0, <2>7 DEF Kick
    <3>. QED  BY <1>1, <2>7, <3>1 DEF Kick, Dead, settingVars
  <2>8. ASSUME NEW c \in Client, NEW t \in Client, NEW d \in Channel,
               Invite(c, t, d)
        PROVE  Dead(ch)'
    <3>1. d # ch
      BY <2>0, <2>8 DEF Invite, IsMemberOperator, IsMember
    <3>. QED  BY <1>1, <2>8, <3>1 DEF Invite, Dead, memberVars, settingVars
  <2>9. ASSUME NEW c \in Client, NEW d \in Channel, NEW tp, SetTopic(c, d, tp)
        PROVE  Dead(ch)'
    BY <1>1, <2>9 DEF SetTopic, Dead, clientVars, memberVars
  <2>10. ASSUME NEW c \in Client, NEW d \in Channel, Mode(c, d)
         PROVE  Dead(ch)'
    <3>1. IsMemberOperator(c, d)
      BY <2>10 DEF Mode, GrantOp, RevokeOp, SetFlag, ClearFlag, SetKey,
                   ClearKey, SetLimit, ClearLimit
    <3>2. d # ch
      BY <2>0, <3>1 DEF IsMemberOperator, IsMember
    <3>3. /\ modes'[ch] = modes[ch]
          /\ maxUser'[ch] = maxUser[ch]
          /\ UNCHANGED <<clientVars, channels, channelUsers>>
      BY <1>1, <2>10, <3>2 DEF Mode, GrantOp, RevokeOp, SetFlag, ClearFlag, SetKey,
                         ClearKey, SetLimit, ClearLimit, memberVars, settingVars
    <3>. QED  BY <1>1, <3>3 DEF Dead, clientVars
  <2>. QED
    BY <1>1, <2>1, <2>2, <2>3, <2>4, <2>5, <2>6, <2>7, <2>8, <2>9, <2>10
    DEF Next
<1>2. MembershipInv /\ [Next]_vars => [StaysDead]_vars
  BY <1>1 DEF StaysDead
<1>. QED
  BY <1>2, MembershipInvariant, PTL DEF Spec, DeadChannelStaysDead
=============================================================================
