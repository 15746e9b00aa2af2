--------------------------- MODULE IrcServerProofs ---------------------------
(***************************************************************************)
(* Proofs about IrcServer, for any clients, nicknames and channels.  What  *)
(* is proved of Session and of Membership is used as it stands.            *)
(***************************************************************************)
EXTENDS IrcServer, SessionProofs

MP == INSTANCE MembershipProofs WITH cls <- Live, registered <- Registered

-----------------------------------------------------------------------------
(***************************************************************************)
(* The Membership that M names is the one of MembershipProofs.             *)
(***************************************************************************)

LEMMA SameConnect == ASSUME NEW c PROVE M!Connect(c) <=> MP!Connect(c)
BY Zenon DEF M!Connect, MP!Connect, M!memberVars, MP!memberVars,
   M!settingVars, MP!settingVars

LEMMA SameRegister == ASSUME NEW c PROVE M!Register(c) <=> MP!Register(c)
BY Zenon DEF M!Register, MP!Register, M!memberVars, MP!memberVars,
   M!settingVars, MP!settingVars

LEMMA SameMembers ==
  ASSUME NEW ch, NEW c
  PROVE  /\ M!Members(ch) = MP!Members(ch)
         /\ M!Members(ch)' = MP!Members(ch)'
         /\ M!IsMember(c, ch) <=> MP!IsMember(c, ch)
BY Zenon DEF M!Members, MP!Members, M!ToSet, MP!ToSet, M!IsMember, MP!IsMember

LEMMA SameQuit ==
  ASSUME NEW c
  PROVE  /\ M!Quit(c) <=> MP!Quit(c)
         /\ M!LeftByQuit(c) = MP!LeftByQuit(c)
BY Zenon
DEF M!Quit, MP!Quit, M!LeftByQuit, MP!LeftByQuit, M!IsMember, MP!IsMember,
    M!Members, MP!Members, M!ToSet, MP!ToSet, M!RemoveUser, MP!RemoveUser,
    M!OpsAfterPart, MP!OpsAfterPart, M!Promoted, MP!Promoted,
    M!RemoveFirst, MP!RemoveFirst, M!RemoveAt, MP!RemoveAt, M!SelectInSeq,
    MP!SelectInSeq, M!Min, MP!Min, M!Cardinality, MP!Cardinality,
    M!settingVars, MP!settingVars

LEMMA SameJoin ==
  ASSUME NEW c, NEW ch, NEW key
  PROVE  M!Join(c, ch, key) <=> MP!Join(c, ch, key)
BY Zenon
DEF M!Join, MP!Join, M!Admits, MP!Admits, M!AddUser, MP!AddUser, M!ToSet,
    MP!ToSet, M!settingVars, MP!settingVars

LEMMA SamePart ==
  ASSUME NEW c, NEW ch
  PROVE  M!Part(c, ch) <=> MP!Part(c, ch)
BY Zenon
DEF M!Part, MP!Part, M!IsMember, MP!IsMember, M!Members, MP!Members, M!ToSet,
    MP!ToSet, M!RemoveUser, MP!RemoveUser, M!OpsAfterPart, MP!OpsAfterPart,
    M!Promoted, MP!Promoted, M!RemoveJoined, MP!RemoveJoined, M!RemoveFirst,
    MP!RemoveFirst, M!RemoveAt, MP!RemoveAt, M!SelectInSeq, MP!SelectInSeq,
    M!Min, MP!Min, M!Cardinality, MP!Cardinality, M!settingVars,
    MP!settingVars

LEMMA SameKick ==
  ASSUME NEW c, NEW t, NEW ch
  PROVE  M!Kick(c, t, ch) <=> MP!Kick(c, t, ch)
BY Zenon
DEF M!Kick, MP!Kick, M!Members, MP!Members, M!ToSet, MP!ToSet, M!RemoveUser,
    MP!RemoveUser, M!RemoveJoined, MP!RemoveJoined, M!RemoveFirst,
    MP!RemoveFirst, M!RemoveAt, MP!RemoveAt, M!SelectInSeq, MP!SelectInSeq,
    M!Min, MP!Min, M!settingVars, MP!settingVars

LEMMA SameInvite ==
  ASSUME NEW c, NEW t, NEW ch
  PROVE  M!Invite(c, t, ch) <=> MP!Invite(c, t, ch)
BY Zenon
DEF M!Invite, MP!Invite, M!IsMemberOperator, MP!IsMemberOperator, M!IsMember,
    MP!IsMember, M!Members, MP!Members, M!ToSet, MP!ToSet, M!memberVars,
    MP!memberVars, M!settingVars, MP!settingVars

LEMMA SameSetTopic ==
  ASSUME NEW c, NEW ch, NEW tp
  PROVE  M!SetTopic(c, ch, tp) <=> MP!SetTopic(c, ch, tp)
BY Zenon
DEF M!SetTopic, MP!SetTopic, M!clientVars, MP!clientVars, M!memberVars,
    MP!memberVars

LEMMA SameMode ==
  ASSUME NEW c, NEW ch
  PROVE  M!Mode(c, ch) <=> MP!Mode(c, ch)
BY Zenon
DEF M!Mode, MP!Mode, M!IsMemberOperator, MP!IsMemberOperator, M!IsMember,
    MP!IsMember, M!Members, MP!Members, M!ToSet, MP!ToSet, M!GrantOp,
    MP!GrantOp, M!RevokeOp, MP!RevokeOp, M!SetFlag, MP!SetFlag, M!ClearFlag,
    MP!ClearFlag, M!SetKey, MP!SetKey, M!ClearKey, MP!ClearKey, M!SetLimit,
    MP!SetLimit, M!ClearLimit, MP!ClearLimit, M!clientVars, MP!clientVars,
    M!memberVars, MP!memberVars, M!settingVars, MP!settingVars

LEMMA SameNext == M!Next <=> MP!Next
BY SameConnect, SameRegister, SameQuit, SameJoin, SamePart, SameKick,
   SameInvite, SameSetTopic, SameMode
DEF M!Next, MP!Next

LEMMA SameVars == M!vars = MP!vars /\ M!vars' = MP!vars'
BY Zenon DEF M!vars, MP!vars, M!clientVars, MP!clientVars, M!memberVars,
   MP!memberVars, M!settingVars, MP!settingVars

LEMMA MembershipStart == M!Init => MP!MembershipInv
BY MP!InitEstablishesInv, ServerAssumption
DEF M!Init, MP!Init, MP!IsFiniteSet, IsFiniteSet

LEMMA MembershipStep ==
  MP!MembershipInv /\ [M!Next]_(M!vars) => MP!MembershipInv'
<1>1. MP!MembershipInv /\ [MP!Next]_(MP!vars) => MP!MembershipInv'
  BY MP!NextKeepsInv, ServerAssumption DEF MP!IsFiniteSet, IsFiniteSet
<1>. QED  BY <1>1, SameNext, SameVars

-----------------------------------------------------------------------------
(***************************************************************************)
(* Sessions: every step of the server is one of Session or leaves it be.   *)
(***************************************************************************)

LEMMA StepOfSession == [ServerNext]_serverVars => [Next]_vars
BY DEF ServerNext, Command, ConnectClient, RemoveClient, Authenticate,
       ChangeNick, ChannelCommand, JoinChannel, PartChannel, KickByNick,
       InviteByNick, ChangeTopic, StartMode, ModeLetterOf, EndMode, Next,
       serverVars

\* Nicknames are unique and registrations complete in the composed server.
THEOREM ServerSessions == ServerSpec => []SessionInv
<1>1. ServerInit => SessionInv
  BY InitEstablishesInv DEF ServerInit
<1>2. SessionInv /\ [ServerNext]_serverVars => SessionInv'
  BY StepOfSession, NextKeepsInv
<1>. QED  BY <1>1, <1>2, PTL DEF ServerSpec

\* The composed server never gives a nickname away that is in use.
THEOREM ServerImplementsRegistry == ServerSpec => ImplementsRegistry
<1>1. ServerSpec => Spec
  <2>1. ServerInit => Init
    BY DEF ServerInit
  <2>. QED  BY <2>1, StepOfSession, PTL DEF ServerSpec, Spec
<1>. QED  BY <1>1, SessionImplementsRegistry, PTL

-----------------------------------------------------------------------------
\* findClientByNick returns a live client that bears the name, or NULL.
LEMMA FoundBears ==
  ASSUME SessionInv, NEW n, FindClientByNick(n) # Nobody
  PROVE  /\ FindClientByNick(n) \in Live
         /\ FindClientByNick(n) \in Client
         /\ nickname[FindClientByNick(n)] = n
<1>. DEFINE I == {i \in 1..Len(cls) : nickname[cls[i]] = n}
<1>1. SelectInSeq(cls, LAMBDA c : nickname[c] = n) = IF I # {} THEN Min(I) ELSE 0
  BY DEF SelectInSeq
<1>2. I # {} /\ I \subseteq Nat
  BY <1>1 DEF FindClientByNick
<1>3. Min(I) \in I
  <2>. HIDE DEF I
  <2>. QED  BY <1>2, MinIsLeast
<1>4. PICK i \in 1..Len(cls) : i = Min(I) /\ nickname[cls[i]] = n
  BY <1>3
<1>5. FindClientByNick(n) = cls[i]
  BY <1>1, <1>2, <1>4 DEF FindClientByNick
<1>6. cls \in Seq(Client)
  BY DEF SessionInv, TypeOK
<1>7. cls[i] \in Client /\ cls[i] \in Live
  BY <1>6 DEF Live, ToSet
<1>. QED  BY <1>4, <1>5, <1>7

\* ... and it finds whoever bears a name.
LEMMA BearerIsFound ==
  ASSUME SessionInv, NEW c \in Live, nickname[c] # NoNick
  PROVE  FindClientByNick(nickname[c]) = c
<1>. DEFINE n == nickname[c]
            I == {i \in 1..Len(cls) : nickname[cls[i]] = n}
<1>1. SelectInSeq(cls, LAMBDA d : nickname[d] = n) = IF I # {} THEN Min(I) ELSE 0
  BY DEF SelectInSeq
<1>2. cls \in Seq(Client)
  BY DEF SessionInv, TypeOK
<1>3. I # {} /\ I \subseteq Nat
  BY <1>2 DEF Live, ToSet
<1>4. Min(I) \in I
  <2>. HIDE DEF I
  <2>. QED  BY <1>3, MinIsLeast
<1>5. PICK i \in 1..Len(cls) : i = Min(I) /\ nickname[cls[i]] = n
  BY <1>4
<1>6. FindClientByNick(n) = cls[i]
  BY <1>1, <1>3, <1>5 DEF FindClientByNick
<1>7. cls[i] \in Live
  BY <1>2 DEF Live, ToSet
<1>. QED  BY <1>5, <1>6, <1>7 DEF SessionInv, NickUnique

-----------------------------------------------------------------------------
(***************************************************************************)
(* Channels: every step of the server is one of Membership or leaves it    *)
(* be.  Of MODE this is so because its sender remains a member and an      *)
(* operator from the first letter to the last.                             *)
(***************************************************************************)

ModeTypeOK == mode \in {NoMode} \cup (Client \X Channel)

ChannelInv ==
  SessionInv /\ MP!MembershipInv /\ ModeTypeOK /\ SenderStaysOperator

LEMMA MemberFacts ==
  ASSUME MP!MembershipInv, NEW ch \in Channel, NEW c \in M!Members(ch)
  PROVE  /\ c \in Live
         /\ c \in Client
         /\ isRegistered[c]
         /\ ch \in channels
         /\ ch \in ToSet(joinedChannels[c])
<1>1. c \in MP!Members(ch)
  BY SameMembers
<1>2. c \in Registered /\ c \in Live
  BY <1>1
  DEF MP!MembershipInv, MP!TypeOK, MP!MembersAreRegisteredOnce
<1>3. ch \in ToSet(joinedChannels[c])
  BY <1>1 DEF MP!MembershipInv, MP!MembershipRecorded, MP!ToSet, ToSet
<1>4. channelUsers[ch] # <<>>
  BY <1>1 DEF MP!Members, MP!ToSet
<1>5. ch \in channels
  BY <1>4 DEF MP!MembershipInv, MP!OccupiedChannelExists
<1>. QED  BY <1>2, <1>3, <1>5 DEF Registered

LEMMA ChannelsUnchanged ==
  ASSUME UNCHANGED <<vars, channelVars>>
  PROVE  UNCHANGED M!vars
BY DEF vars, channelVars, Live, Registered, M!vars, M!clientVars,
       M!memberVars, M!settingVars

\* PASS, CAP, NICK and USER: some of them register the client.
LEMMA RegistrationOfMembership ==
  ASSUME SessionInv, NEW c \in Client, UNCHANGED channelVars,
         \/ PassAccepted(c) \/ PassRejected(c) \/ CapEnd(c) \/ SetUser(c)
         \/ \E n \in Nick : SetNick(c, n)
  PROVE  M!Register(c) \/ UNCHANGED M!vars
<1>1. /\ c \in Live
      /\ Live' = Live
      /\ \/ isRegistered' = isRegistered
         \/ isRegistered' = [isRegistered EXCEPT ![c] = TRUE]
  BY DEF PassAccepted, PassRejected, CapEnd, SetUser, SetNick, Live,
         SessionInv, TypeOK, CanRegister
<1>2. CASE isRegistered' = isRegistered
  BY <1>1, <1>2
  DEF Registered, channelVars, M!vars, M!clientVars, M!memberVars,
      M!settingVars
<1>3. CASE isRegistered' = [isRegistered EXCEPT ![c] = TRUE]
  <2>1. Registered' = Registered \cup {c}
    BY <1>3 DEF Registered, SessionInv, TypeOK
  <2>2. CASE c \in Registered
    <3>1. Registered' = Registered
      BY <2>1, <2>2
    <3>. QED
      BY <1>1, <3>1
      DEF channelVars, M!vars, M!clientVars, M!memberVars, M!settingVars
  <2>3. CASE c \notin Registered
    BY <1>1, <2>1, <2>3
    DEF channelVars, M!Register, M!memberVars, M!settingVars
  <2>. QED  BY <2>2, <2>3
<1>. QED  BY <1>1, <1>2, <1>3

LEMMA CommandOfMembership ==
  ASSUME SessionInv, NEW c \in Client, Command(c)
  PROVE  M!Next \/ UNCHANGED M!vars
<1>1. CASE ConnectClient(c) \/ RemoveClient(c)
  BY <1>1 DEF ConnectClient, RemoveClient, M!Next
<1>2. CASE Authenticate(c) \/ \E n \in Nick : ChangeNick(c, n)
  <2>1. M!Register(c) \/ UNCHANGED M!vars
    BY <1>2, RegistrationOfMembership DEF Authenticate, ChangeNick
  <2>. QED  BY <2>1 DEF M!Next
<1>3. ASSUME NEW ch \in Channel, ChannelCommand(c, ch)
      PROVE  M!Next \/ UNCHANGED M!vars
  <2>1. ASSUME NEW key \in Key \cup {NoKey}, JoinChannel(c, ch, key)
        PROVE  M!Next
    BY <2>1 DEF JoinChannel, M!Next
  <2>2. ASSUME PartChannel(c, ch) PROVE M!Next
    BY <2>2 DEF PartChannel, M!Next
  <2>3. ASSUME NEW n \in Nick \cup {NoNick},
               KickByNick(c, n, ch) \/ InviteByNick(c, n, ch)
        PROVE  M!Next
    BY <2>3, FoundBears DEF KickByNick, InviteByNick, M!Next
  <2>4. ASSUME NEW tp \in Topic \cup {NoTopic}, ChangeTopic(c, ch, tp)
        PROVE  M!Next
    BY <2>4 DEF ChangeTopic, M!Next
  <2>5. ASSUME StartMode(c, ch) PROVE UNCHANGED M!vars
    BY <2>5, ChannelsUnchanged DEF StartMode
  <2>. QED
    BY <1>3, <2>1, <2>2, <2>3, <2>4, <2>5 DEF ChannelCommand
<1>. QED  BY <1>1, <1>2, <1>3 DEF Command

\* No letter takes the sender's standing: -o of its own nickname is refused.
LEMMA LetterOfMembership ==
  ASSUME SessionInv, MP!MembershipInv, NEW c \in Client, NEW ch \in Channel,
         c \in M!Members(ch), c \in ops[ch], ModeLetterOf(c, ch)
  PROVE  M!Next /\ c \in M!Members(ch)' /\ c \in ops'[ch]
<1>1. /\ UNCHANGED <<M!clientVars, channels, channelUsers, topic>>
      /\ M!Members(ch)' = M!Members(ch)
  BY DEF ModeLetterOf, vars, Live, Registered, M!clientVars, M!Members
<1>2. M!IsMemberOperator(c, ch)
  BY MemberFacts DEF M!IsMemberOperator, M!IsMember
<1>3. ops \in [Channel -> SUBSET Client]
  BY DEF MP!MembershipInv, MP!TypeOK
<1>4. ASSUME NEW n \in Nick \cup {NoNick}, LetterO(c, ch, n)
      PROVE  M!Mode(c, ch) /\ c \in ops'[ch]
  <2>. DEFINE t == FindClientByNick(n)
  <2>1. t \in Client /\ t \in Live \ {c}
    BY <1>4, FoundBears DEF LetterO, IsSender
  <2>2. /\ \/ ops' = [ops EXCEPT ![ch] = @ \cup {t}]
           \/ ops' = [ops EXCEPT ![ch] = @ \ {t}]
        /\ UNCHANGED <<modes, pw, maxUser>>
    BY <1>4 DEF LetterO
  <2>. HIDE DEF t
  <2>3. M!GrantOp(c, t, ch) \/ M!RevokeOp(c, t, ch)
    BY <1>1, <1>2, <2>1, <2>2 DEF M!GrantOp, M!RevokeOp, M!settingVars
  <2>. QED  BY <1>3, <2>1, <2>2, <2>3 DEF M!Mode
<1>5. ASSUME NEW x \in ModeLetter, LetterFlag(ch, x)
      PROVE  M!Mode(c, ch) /\ c \in ops'[ch]
  BY <1>1, <1>2, <1>5
  DEF LetterFlag, M!SetFlag, M!ClearFlag, M!Mode, M!memberVars
<1>6. ASSUME NEW k \in Key, LetterK(ch, k)
      PROVE  M!Mode(c, ch) /\ c \in ops'[ch]
  BY <1>1, <1>2, <1>6
  DEF LetterK, M!SetKey, M!ClearKey, M!Mode, M!memberVars
<1>7. ASSUME NEW limit \in 0..MaxClient, LetterL(ch, limit)
      PROVE  M!Mode(c, ch) /\ c \in ops'[ch]
  BY <1>1, <1>2, <1>7, ServerAssumption
  DEF LetterL, M!SetLimit, M!ClearLimit, M!Mode, M!memberVars
<1>8. M!Mode(c, ch) /\ c \in ops'[ch]
  BY <1>4, <1>5, <1>6, <1>7 DEF ModeLetterOf
<1>. QED  BY <1>1, <1>8 DEF M!Next

LEMMA StepOfMembership ==
  ASSUME ChannelInv, [ServerNext]_serverVars
  PROVE  [M!Next]_(M!vars)
<1>1. ASSUME NEW c \in Client, Command(c) PROVE M!Next \/ UNCHANGED M!vars
  BY <1>1, CommandOfMembership DEF ChannelInv
<1>2. CASE mode # NoMode /\ ModeLetterOf(mode[1], mode[2])
  BY <1>2, LetterOfMembership DEF ChannelInv, ModeTypeOK, SenderStaysOperator
<1>3. CASE EndMode \/ UNCHANGED serverVars
  BY <1>3, ChannelsUnchanged DEF EndMode, serverVars
<1>. QED  BY <1>1, <1>2, <1>3 DEF ServerNext

LEMMA ModeKeeps ==
  ASSUME ChannelInv, [ServerNext]_serverVars
  PROVE  ModeTypeOK' /\ SenderStaysOperator'
<1>. USE DEF ModeTypeOK, SenderStaysOperator
<1>1. ASSUME NEW c \in Client, NEW ch \in Channel, Command(c), StartMode(c, ch)
      PROVE  ModeTypeOK' /\ SenderStaysOperator'
  <2>1. mode' = <<c, ch>> /\ c \in M!Members(ch) /\ c \in ops[ch]
    BY <1>1 DEF StartMode, MayChangeModes
  <2>2. UNCHANGED <<channelUsers, ops>>
    BY <1>1 DEF StartMode, channelVars
  <2>. QED  BY <2>1, <2>2 DEF M!Members
<1>2. ASSUME NEW c \in Client, Command(c),
             \A ch \in Channel : ~StartMode(c, ch)
      PROVE  mode' = NoMode
  BY <1>2
  DEF Command, ConnectClient, RemoveClient, Authenticate, ChangeNick,
      ChannelCommand, JoinChannel, PartChannel, KickByNick, InviteByNick,
      ChangeTopic
<1>3. CASE mode # NoMode /\ ModeLetterOf(mode[1], mode[2])
  <2>1. PICK c \in Client, ch \in Channel : mode = <<c, ch>>
    BY <1>3 DEF ChannelInv
  <2>2. mode[1] = c /\ mode[2] = ch
    BY <2>1
  <2>3. c \in M!Members(ch)' /\ c \in ops'[ch]
    BY <1>3, <2>2, LetterOfMembership DEF ChannelInv
  <2>4. mode' = mode
    BY <1>3 DEF ModeLetterOf
  <2>. QED  BY <2>1, <2>2, <2>3, <2>4
<1>4. CASE EndMode
  BY <1>4 DEF EndMode
<1>5. CASE UNCHANGED serverVars
  BY <1>5 DEF serverVars, channelVars, ChannelInv, M!Members
<1>. QED  BY <1>1, <1>2, <1>3, <1>4, <1>5 DEF ServerNext

LEMMA ChannelInvariant == ServerSpec => []ChannelInv
<1>1. ServerInit => ChannelInv
  BY InitEstablishesInv, MembershipStart
  DEF ServerInit, ChannelInv, ModeTypeOK, SenderStaysOperator
<1>2. ChannelInv /\ [ServerNext]_serverVars => ChannelInv'
  BY StepOfSession, NextKeepsInv, StepOfMembership, MembershipStep, ModeKeeps
  DEF ChannelInv
<1>. QED  BY <1>1, <1>2, PTL DEF ServerSpec

\* From the first letter of a MODE command to the last its sender is a member
\* and an operator of the channel: chanCommands may look once.
THEOREM SenderStays == ServerSpec => []SenderStaysOperator
BY ChannelInvariant, PTL DEF ChannelInv

\* The composed server does to its channels what Membership allows, so what
\* is proved there holds of it.
THEOREM ServerImplementsMembership == ServerSpec => ImplementsMembership
<1>1. ServerInit => M!Init
  BY DEF ServerInit
<1>2. ChannelInv /\ [ServerNext]_serverVars => [M!Next]_(M!vars)
  BY StepOfMembership
<1>. QED
  BY <1>1, <1>2, ChannelInvariant, PTL
  DEF ServerSpec, ImplementsMembership, M!Spec

\* The same, of the Membership that MembershipProofs is about.
LEMMA ServerIsMembership == ServerSpec => MP!Spec
<1>1. ServerInit => MP!Init
  BY DEF ServerInit, M!Init, MP!Init
<1>2. ChannelInv /\ [ServerNext]_serverVars => [MP!Next]_(MP!vars)
  BY StepOfMembership, SameNext, SameVars
<1>. QED
  BY <1>1, <1>2, ChannelInvariant, PTL DEF ServerSpec, MP!Spec

\* Of the whole server, where registration, nicknames and the MODE loop decide
\* who may do what: no channel holds a client that was deleted, and a client
\* that leaves has spent its invitation.
THEOREM ServerForgetsWhoLeft ==
  ServerSpec => /\ []MP!NoDanglingMember
                /\ MP!LeavingVoidsInvitation
<1>1. MP!Spec => []MP!NoDanglingMember
  BY MP!MembersAreLive, ServerAssumption DEF MP!IsFiniteSet, IsFiniteSet
<1>2. MP!Spec => MP!LeavingVoidsInvitation
  BY MP!LeavingSpends, ServerAssumption DEF MP!IsFiniteSet, IsFiniteSet
<1>. QED
  BY ServerIsMembership, <1>1, <1>2, PTL

\* A channel of the server keeps an operator among its members as long as all
\* operators are members and the last one does not kick itself; pointers of
\* others are in ops only since a MODE +o; and nobody becomes an operator but by
\* MODE +o, by joining alone or as the successor of the only one.
THEOREM ServerKeepsOperators ==
  ServerSpec => /\ MP!OperatorSuccession
                /\ MP!OutsidersOnlyByGrant
                /\ MP!OperatorsAreAppointed
<1>1. MP!Spec => MP!OperatorSuccession
  BY MP!OperatorsSucceed, ServerAssumption DEF MP!IsFiniteSet, IsFiniteSet
<1>2. MP!Spec => MP!OutsidersOnlyByGrant
  BY MP!GrantsMakeOutsiders, ServerAssumption DEF MP!IsFiniteSet, IsFiniteSet
<1>3. MP!Spec => MP!OperatorsAreAppointed
  BY MP!OperatorsComeByAppointment, ServerAssumption DEF MP!IsFiniteSet, IsFiniteSet
<1>. QED
  BY ServerIsMembership, <1>1, <1>2, <1>3, PTL

\* JOIN takes no channel of the server past its limit, and one that admits
\* nobody is lost for good.
THEOREM ServerAdmitsWithinLimits ==
  ServerSpec => /\ MP!AdmittedWithinLimit
                /\ MP!DeadChannelStaysDead
<1>1. MP!Spec => MP!AdmittedWithinLimit
  BY MP!JoinRespectsLimit, ServerAssumption DEF MP!IsFiniteSet, IsFiniteSet
<1>2. MP!Spec => MP!DeadChannelStaysDead
  BY MP!DeadChannelsStay, ServerAssumption DEF MP!IsFiniteSet, IsFiniteSet
<1>. QED
  BY ServerIsMembership, <1>1, <1>2, PTL

-----------------------------------------------------------------------------
(***************************************************************************)
(* Names.  A client lists the members of the channels it is in, by their   *)
(* present nicknames, and nobody of the others: that is inductive, where   *)
(* NamesResolve alone does not say what a client that joins has listed.    *)
(***************************************************************************)

Called(ch) == {nickname[d] : d \in M!Members(ch)}

Lists(m, ch) == IF m \in M!Members(ch) THEN Called(ch) ELSE {}

ListsTrue == \A m \in Client, ch \in Channel : names[m][ch] = Lists(m, ch)

IrcInv == ChannelInv /\ ServerTypeOK /\ ListsTrue

\* Members have nicknames, which they share with no other client.
LEMMA MemberIsNamed ==
  ASSUME ChannelInv, NEW ch \in Channel, NEW c \in M!Members(ch)
  PROVE  /\ nickname[c] \in Nick
         /\ \A d \in Live \ {c} : nickname[d] # nickname[c]
<1>1. c \in Live /\ c \in Client /\ isRegistered[c]
  BY MemberFacts DEF ChannelInv
<1>2. nickname[c] \in Nick
  BY <1>1 DEF ChannelInv, SessionInv, TypeOK, RegisteredIffComplete
<1>. QED
  BY <1>1, <1>2, SessionAssumption DEF ChannelInv, SessionInv, NickUnique

LEMMA MembersAreLive ==
  ASSUME ChannelInv, NEW ch \in Channel
  PROVE  M!Members(ch) \subseteq Live /\ M!Members(ch) \subseteq Client
BY MemberFacts DEF ChannelInv

LEMMA InvImpliesNames ==
  ASSUME IrcInv
  PROVE  NamesInv /\ MessagesHaveKnownSenders
<1>1. ASSUME NEW ch \in Channel, NEW m \in M!Members(ch)
      PROVE  names[m][ch] = {nickname[d] : d \in M!Members(ch)}
  BY <1>1, MembersAreLive DEF IrcInv, ListsTrue, Lists, Called
<1>2. ASSUME NEW ch \in Channel, NEW m \in M!Members(ch)
      PROVE  FindClientByNick(nickname[m]) = m
  <2>1. m \in Live /\ nickname[m] # NoNick /\ SessionInv
    BY MembersAreLive, MemberIsNamed, SessionAssumption DEF IrcInv, ChannelInv
  <2>. QED  BY <2>1, BearerIsFound
<1>3. ASSUME NEW ch \in Channel, NEW c \in Registered, M!IsMember(c, ch)
      PROVE  PrivmsgReceivers(c, ch) =
               {m \in Client \ {c} : nickname[c] \in names[m][ch]}
  <2>1. c \in M!Members(ch) /\ nickname[c] \in Called(ch)
    BY <1>3 DEF M!IsMember, Called
  <2>2. \A m \in Client : nickname[c] \in names[m][ch] <=> m \in M!Members(ch)
    BY <2>1 DEF IrcInv, ListsTrue, Lists
  <2>3. M!Members(ch) \subseteq Client
    BY MembersAreLive DEF IrcInv
  <2>. QED  BY <1>3, <2>2, <2>3 DEF PrivmsgReceivers
<1>. QED
  BY <1>1, <1>2, <1>3
  DEF NamesInv, NamesResolve, MessagesHaveKnownSenders, IrcInv

-----------------------------------------------------------------------------
\* What the handlers do to the members of a channel.

LEMMA JoinMembers ==
  ASSUME MP!MembershipInv, NEW c \in Client, NEW ch \in Channel, NEW key,
         M!Join(c, ch, key)
  PROVE  \A d \in Channel :
           M!Members(d)' = IF d = ch THEN M!Members(d) \cup {c}
                                     ELSE M!Members(d)
<1>. DEFINE users == MP!AddUser(channelUsers[ch], c)
<1>1. channelUsers' = [channelUsers EXCEPT ![ch] = users]
  BY SameJoin DEF MP!Join
<1>2. channelUsers \in [Channel -> Seq(Client)] /\ MP!IsInjective(channelUsers[ch])
  BY DEF MP!MembershipInv, MP!TypeOK, MP!MembersAreRegisteredOnce
<1>3. MP!ToSet(users) = MP!ToSet(channelUsers[ch]) \cup {c}
  BY <1>2, MP!AddUserOnce, ServerAssumption DEF MP!IsFiniteSet, IsFiniteSet
<1>. HIDE DEF users
<1>. QED  BY <1>1, <1>2, <1>3, SameMembers DEF MP!Members

\* One client leaves some channels, in each of which it is listed once.
LEMMA LeaveMembers ==
  ASSUME MP!MembershipInv, NEW c, NEW left \in SUBSET Channel,
         channelUsers' = [d \in Channel |->
           IF d \in left THEN MP!RemoveUser(channelUsers[d], c)
                         ELSE channelUsers[d]]
  PROVE  \A d \in Channel :
           M!Members(d)' = IF d \in left THEN M!Members(d) \ {c}
                                         ELSE M!Members(d)
<1>1. ASSUME NEW d \in Channel
      PROVE  MP!ToSet(MP!RemoveUser(channelUsers[d], c)) =
               MP!ToSet(channelUsers[d]) \ {c}
  <2>1. channelUsers[d] \in Seq(Client) /\ MP!IsInjective(channelUsers[d])
    BY DEF MP!MembershipInv, MP!TypeOK, MP!MembersAreRegisteredOnce
  <2>. QED
    BY <2>1, MP!RemoveUserOnce, ServerAssumption DEF MP!IsFiniteSet, IsFiniteSet
<1>2. ASSUME NEW d \in Channel
      PROVE  MP!Members(d)' = IF d \in left THEN MP!Members(d) \ {c}
                                            ELSE MP!Members(d)
  BY <1>1 DEF MP!Members
<1>. QED  BY <1>2, SameMembers

LEMMA PartMembers ==
  ASSUME MP!MembershipInv, NEW c \in Client, NEW ch \in Channel, NEW s \in Client,
         M!Part(c, ch) \/ M!Kick(s, c, ch)
  PROVE  \A d \in Channel :
           M!Members(d)' = IF d \in {ch} THEN M!Members(d) \ {c}
                                         ELSE M!Members(d)
<1>1. channelUsers \in [Channel -> Seq(Client)]
  BY DEF MP!MembershipInv, MP!TypeOK
<1>2. channelUsers' = [channelUsers EXCEPT ![ch] = MP!RemoveUser(@, c)]
  BY SamePart, SameKick DEF MP!Part, MP!Kick
<1>. DEFINE left == {ch}
<1>3. channelUsers' = [d \in Channel |->
           IF d \in left THEN MP!RemoveUser(channelUsers[d], c)
                         ELSE channelUsers[d]]
  BY <1>1, <1>2
<1>4. left \in SUBSET Channel
  OBVIOUS
<1>. HIDE DEF left
<1>5. \A d \in Channel :
        M!Members(d)' = IF d \in left THEN M!Members(d) \ {c} ELSE M!Members(d)
  BY <1>3, <1>4, LeaveMembers
<1>. QED  BY <1>5 DEF left

\* QUIT leaves no channel: joinedChannels names all that c is in.
LEMMA QuitMembers ==
  ASSUME MP!MembershipInv, NEW c \in Client, M!Quit(c)
  PROVE  \A d \in Channel :
           /\ M!Members(d)' = IF d \in M!LeftByQuit(c) THEN M!Members(d) \ {c}
                                                       ELSE M!Members(d)
           /\ c \in M!Members(d) => d \in M!LeftByQuit(c)
<1>. DEFINE left == M!LeftByQuit(c) \cap Channel
<1>1. channelUsers' = [d \in Channel |->
           IF d \in left THEN MP!RemoveUser(channelUsers[d], c)
                         ELSE channelUsers[d]]
  BY SameQuit DEF MP!Quit
<1>2. \A d \in Channel :
        M!Members(d)' = IF d \in left THEN M!Members(d) \ {c} ELSE M!Members(d)
  BY <1>1, LeaveMembers
<1>3. ASSUME NEW d \in Channel, c \in M!Members(d)
      PROVE  d \in M!LeftByQuit(c)
  <2>1. d \in channels /\ d \in ToSet(joinedChannels[c])
    BY <1>3, MemberFacts
  <2>2. c \in MP!Members(d) /\ d \in MP!ToSet(joinedChannels[c])
    BY <1>3, <2>1, SameMembers DEF MP!ToSet, ToSet
  <2>3. d \in MP!LeftByQuit(c)
    BY <2>1, <2>2 DEF MP!LeftByQuit, MP!IsMember
  <2>. QED  BY <2>3, SameQuit
<1>. QED  BY <1>2, <1>3

-----------------------------------------------------------------------------
\* What the handlers do to the lists.

NamesTypeOK == names \in [Client -> [Channel -> SUBSET Nick]]

\* Where neither members nor their nicknames change, the right list remains.
LEMMA ListRemains ==
  ASSUME NEW m, NEW ch,
         M!Members(ch)' = M!Members(ch),
         \A d \in M!Members(ch) : nickname'[d] = nickname[d]
  PROVE  Lists(m, ch)' = Lists(m, ch)
BY DEF Lists, Called

LEMMA LeaveKeepsLists ==
  ASSUME IrcInv, NEW c \in Client, NEW left,
         names' = Unlisted(left, c),
         \A d \in Channel : M!Members(d)' =
           IF d \in left THEN M!Members(d) \ {c} ELSE M!Members(d),
         \A d \in left : c \in M!Members(d),
         \A d \in Channel \ left :
           c \in M!Members(d) => nickname'[c] = nickname[c],
         \A d \in Client \ {c} : nickname'[d] = nickname[d]
  PROVE  NamesTypeOK' /\ ListsTrue'
<1>0. names \in [Client -> [Channel -> SUBSET Nick]]
  BY DEF IrcInv, ServerTypeOK
<1>1. NamesTypeOK'
  BY <1>0 DEF NamesTypeOK, Unlisted
<1>2. ASSUME NEW m \in Client, NEW ch \in Channel
      PROVE  names'[m][ch] = Lists(m, ch)'
  <2>1. names[m][ch] = Lists(m, ch)
    BY DEF IrcInv, ListsTrue
  <2>2. names'[m][ch] =
          IF ch \notin left \/ m \notin M!Members(ch) THEN names[m][ch]
          ELSE IF m = c THEN {}
          ELSE names[m][ch] \ {nickname[c]}
    BY DEF Unlisted
  <2>3. M!Members(ch) \subseteq Client /\ M!Members(ch) \subseteq Live
    BY MembersAreLive DEF IrcInv
  <2>4. CASE ch \notin left
    <3>1. M!Members(ch)' = M!Members(ch)
      BY <2>4
    <3>2. \A d \in M!Members(ch) : nickname'[d] = nickname[d]
      BY <2>3, <2>4
    <3>. QED  BY <2>1, <2>2, <2>4, <3>1, <3>2, ListRemains
  <2>5. CASE ch \in left /\ (m \notin M!Members(ch) \/ m = c)
    <3>1. m \notin M!Members(ch)'
      BY <2>5
    <3>2. Lists(m, ch)' = {}
      BY <3>1 DEF Lists
    <3>. QED  BY <2>1, <2>2, <2>5, <3>2 DEF Lists
  <2>6. CASE ch \in left /\ m \in M!Members(ch) /\ m # c
    <3>1. M!Members(ch)' = M!Members(ch) \ {c} /\ m \in M!Members(ch)'
      BY <2>6
    <3>2. \A d \in M!Members(ch) \ {c} :
            nickname'[d] = nickname[d] /\ nickname[d] # nickname[c]
      BY <2>3, <2>6, MemberIsNamed DEF IrcInv
    <3>3. Called(ch)' = Called(ch) \ {nickname[c]}
      BY <2>6, <3>1, <3>2 DEF Called
    <3>. QED  BY <2>1, <2>2, <2>6, <3>1, <3>3 DEF Lists
  <2>. QED  BY <2>4, <2>5, <2>6
<1>. QED  BY <1>1, <1>2 DEF ListsTrue

LEMMA JoinKeepsLists ==
  ASSUME IrcInv, NEW c \in Client, NEW ch \in Channel, NEW key,
         JoinChannel(c, ch, key)
  PROVE  NamesTypeOK' /\ ListsTrue'
<1>. DEFINE users == ToSet(channelUsers'[ch])
            told == Listed(ch, users, nickname[c])
<1>0. names \in [Client -> [Channel -> SUBSET Nick]]
  BY DEF IrcInv, ServerTypeOK
<1>1. /\ M!Join(c, ch, key)
      /\ names' = [told EXCEPT ![c][ch] = {nickname[u] : u \in users}]
      /\ UNCHANGED nickname
  BY DEF JoinChannel, vars
<1>2. \A d \in Channel : M!Members(d)' =
        IF d = ch THEN M!Members(d) \cup {c} ELSE M!Members(d)
  BY <1>1, JoinMembers DEF IrcInv, ChannelInv
<1>3. users = M!Members(ch)'
  BY DEF M!Members, M!ToSet, ToSet
<1>4. nickname[c] \in Nick
  BY <1>1, SessionAssumption
  DEF M!Join, Registered, IrcInv, ChannelInv, SessionInv, TypeOK,
      RegisteredIffComplete
<1>5. M!Members(ch) \subseteq Client /\ \A d \in M!Members(ch) : nickname[d] \in Nick
  BY MembersAreLive, MemberIsNamed DEF IrcInv
<1>. HIDE DEF users
<1>6. {nickname[u] : u \in users} \in SUBSET Nick
  BY <1>2, <1>3, <1>4, <1>5
<1>7. told \in [Client -> [Channel -> SUBSET Nick]]
  BY <1>0, <1>4 DEF Listed
<1>8. /\ names'[c][ch] = {nickname[u] : u \in users}
      /\ \A m \in Client, d \in Channel :
           m # c \/ d # ch => names'[m][d] = told[m][d]
      /\ NamesTypeOK'
  <2>. HIDE DEF told
  <2>. QED  BY <1>1, <1>6, <1>7 DEF NamesTypeOK
<1>9. Called(ch)' = {nickname[u] : u \in users}
  BY <1>1, <1>3 DEF Called
<1>10. Called(ch)' = Called(ch) \cup {nickname[c]}
  BY <1>1, <1>2 DEF Called
<1>11. ASSUME NEW m \in Client, NEW d \in Channel
       PROVE  names'[m][d] = Lists(m, d)'
  <2>1. names[m][d] = Lists(m, d)
    BY DEF IrcInv, ListsTrue
  <2>2. CASE m = c /\ d = ch
    <3>1. c \in M!Members(ch)'
      BY <1>2
    <3>. QED  BY <1>8, <1>9, <2>2, <3>1 DEF Lists
  <2>3. CASE d # ch
    <3>1. Lists(m, d)' = Lists(m, d)
      BY <1>1, <1>2, <2>3, ListRemains
    <3>2. told[m][d] = names[m][d]
      BY <2>3 DEF Listed
    <3>. QED  BY <1>8, <2>1, <2>3, <3>1, <3>2
  <2>4. CASE d = ch /\ m # c
    <3>1. m \in users <=> m \in M!Members(ch)
      BY <1>2, <1>3, <2>4
    <3>2. m \in M!Members(ch)' <=> m \in M!Members(ch)
      BY <1>2, <2>4
    <3>3. told[m][d] = IF m \in users THEN names[m][d] \cup {nickname[c]}
                                      ELSE names[m][d]
      BY <2>4 DEF Listed
    <3>. QED  BY <1>8, <1>10, <2>1, <2>4, <3>1, <3>2, <3>3 DEF Lists
  <2>. QED  BY <2>2, <2>3, <2>4
<1>. QED  BY <1>8, <1>11 DEF ListsTrue

\* A nickname changes in every list that has it: the client is in no channel
\* but those of its joinedChannels, and no other client bears the name.
LEMMA RenameKeepsLists ==
  ASSUME IrcInv, NEW c \in Client, NEW n \in Nick, ChangeNick(c, n)
  PROVE  NamesTypeOK' /\ ListsTrue'
<1>0. names \in [Client -> [Channel -> SUBSET Nick]]
  BY DEF IrcInv, ServerTypeOK
<1>1. /\ c \in Live
      /\ nickname'[c] = n
      /\ \A d \in Client \ {c} : nickname'[d] = nickname[d]
      /\ names' = IF isRegistered[c] THEN Renamed(c) ELSE names
      /\ UNCHANGED channelUsers
  BY DEF ChangeNick, SetNick, channelVars, IrcInv, ChannelInv, SessionInv,
         TypeOK
<1>2. NamesTypeOK'
  BY <1>0, <1>1 DEF NamesTypeOK, Renamed
<1>3. ASSUME NEW m \in Client, NEW ch \in Channel
      PROVE  names'[m][ch] = Lists(m, ch)'
  <2>1. names[m][ch] = Lists(m, ch)
    BY DEF IrcInv, ListsTrue
  <2>2. M!Members(ch)' = M!Members(ch)
    BY <1>1 DEF M!Members
  <2>3. M!Members(ch) \subseteq Client /\ M!Members(ch) \subseteq Live
    BY MembersAreLive DEF IrcInv
  <2>4. isRegistered[c] =>
          names'[m][ch] =
            IF m \in RenameAudience(c) /\ nickname[c] \in names[m][ch]
            THEN (names[m][ch] \ {nickname[c]}) \cup {n}
            ELSE names[m][ch]
    BY <1>1 DEF Renamed, OldNick
  <2>5. CASE c \notin M!Members(ch)
    <3>1. \A d \in M!Members(ch) : nickname'[d] = nickname[d]
      BY <1>1, <2>3, <2>5
    <3>2. Lists(m, ch)' = Lists(m, ch)
      BY <2>2, <3>1, ListRemains
    <3>3. nickname[c] \notin names[m][ch]
      <4>1. \A d \in M!Members(ch) : nickname[d] # nickname[c]
        BY <1>1, <2>5, MemberIsNamed DEF IrcInv
      <4>. QED  BY <2>1, <4>1 DEF Lists, Called
    <3>. QED  BY <1>1, <2>1, <2>4, <3>2, <3>3
  <2>6. CASE c \in M!Members(ch) /\ m \notin M!Members(ch)
    BY <1>1, <2>1, <2>2, <2>4, <2>6 DEF Lists
  <2>7. CASE c \in M!Members(ch) /\ m \in M!Members(ch)
    <3>1. isRegistered[c] /\ ch \in ToSet(joinedChannels[c])
      BY <2>7, MemberFacts DEF IrcInv, ChannelInv
    <3>2. joinedChannels[c] # <<>>
      BY <3>1 DEF ToSet
    <3>3. m \in RenameAudience(c)
      BY <2>7, <3>1, <3>2 DEF RenameAudience
    <3>4. nickname[c] \in Called(ch) /\ names[m][ch] = Called(ch)
      BY <2>1, <2>7 DEF Called, Lists
    <3>5. names'[m][ch] = (Called(ch) \ {nickname[c]}) \cup {n}
      BY <2>4, <3>1, <3>3, <3>4
    <3>6. \A d \in M!Members(ch) \ {c} :
            nickname'[d] = nickname[d] /\ nickname[d] # nickname[c]
      BY <1>1, <2>3, <2>7, MemberIsNamed DEF IrcInv
    <3>7. Called(ch)' = (Called(ch) \ {nickname[c]}) \cup {n}
      BY <1>1, <2>2, <2>7, <3>6 DEF Called
    <3>. QED  BY <2>2, <2>7, <3>5, <3>7 DEF Lists
  <2>. QED  BY <2>5, <2>6, <2>7
<1>. QED  BY <1>2, <1>3 DEF ListsTrue

LEMMA ConnectKeepsLists ==
  ASSUME IrcInv, NEW c \in Client, ConnectClient(c)
  PROVE  NamesTypeOK' /\ ListsTrue'
<1>0. names \in [Client -> [Channel -> SUBSET Nick]]
  BY DEF IrcInv, ServerTypeOK
<1>1. /\ c \notin Live
      /\ names' = [names EXCEPT ![c] = [ch \in Channel |-> {}]]
      /\ UNCHANGED <<nickname, channelUsers>>
  BY DEF ConnectClient, Connect, M!Connect, M!memberVars
<1>2. NamesTypeOK'
  BY <1>0, <1>1 DEF NamesTypeOK
<1>3. ASSUME NEW m \in Client, NEW ch \in Channel
      PROVE  names'[m][ch] = Lists(m, ch)'
  <2>1. names[m][ch] = Lists(m, ch)
    BY DEF IrcInv, ListsTrue
  <2>2. Lists(m, ch)' = Lists(m, ch)
    BY <1>1 DEF Lists, Called, M!Members
  <2>3. c \notin M!Members(ch)
    BY <1>1, MembersAreLive DEF IrcInv
  <2>. QED  BY <1>0, <1>1, <2>1, <2>2, <2>3 DEF Lists
<1>. QED  BY <1>2, <1>3 DEF ListsTrue

LEMMA RemoveKeepsLists ==
  ASSUME IrcInv, NEW c \in Client, RemoveClient(c)
  PROVE  NamesTypeOK' /\ ListsTrue'
<1>. DEFINE left == M!LeftByQuit(c)
<1>1. M!Quit(c) /\ names' = Unlisted(left, c)
  BY DEF RemoveClient
<1>2. \A d \in Channel :
        /\ M!Members(d)' = IF d \in left THEN M!Members(d) \ {c} ELSE M!Members(d)
        /\ c \in M!Members(d) => d \in left
  BY <1>1, QuitMembers DEF IrcInv, ChannelInv
<1>3. \A d \in left : c \in M!Members(d)
  BY DEF M!LeftByQuit, M!IsMember
<1>4. \A d \in Client \ {c} : nickname'[d] = nickname[d]
  BY DEF RemoveClient, Quit, PassRejectedForGood, Delete, IrcInv, ChannelInv,
         SessionInv, TypeOK
<1>. HIDE DEF left
<1>. QED  BY <1>1, <1>2, <1>3, <1>4, LeaveKeepsLists

LEMMA PartKeepsLists ==
  ASSUME IrcInv, NEW c \in Client, NEW ch \in Channel, PartChannel(c, ch)
  PROVE  NamesTypeOK' /\ ListsTrue'
<1>. DEFINE left == {ch}
<1>1. M!Part(c, ch) /\ names' = Unlisted(left, c) /\ UNCHANGED nickname
  BY DEF PartChannel, vars
<1>2. \A d \in Channel :
        M!Members(d)' = IF d \in left THEN M!Members(d) \ {c} ELSE M!Members(d)
  BY <1>1, PartMembers DEF IrcInv, ChannelInv
<1>3. \A d \in left : c \in M!Members(d)
  BY <1>1 DEF M!Part, M!IsMember
<1>. HIDE DEF left
<1>. QED  BY <1>1, <1>2, <1>3, LeaveKeepsLists

LEMMA KickKeepsLists ==
  ASSUME IrcInv, NEW c \in Client, NEW ch \in Channel, NEW n,
         KickByNick(c, n, ch)
  PROVE  NamesTypeOK' /\ ListsTrue'
<1>. DEFINE left == {ch}
            t == FindClientByNick(n)
<1>1. M!Kick(c, t, ch) /\ names' = Unlisted(left, t) /\ UNCHANGED nickname
  BY DEF KickByNick, vars
<1>2. t \in Client
  BY FoundBears DEF KickByNick, IrcInv, ChannelInv
<1>3. \A d \in left : t \in M!Members(d)
  BY <1>1 DEF M!Kick
<1>. HIDE DEF t
<1>4. \A d \in Channel :
        M!Members(d)' = IF d \in left THEN M!Members(d) \ {t} ELSE M!Members(d)
  BY <1>1, <1>2, PartMembers DEF IrcInv, ChannelInv
<1>. HIDE DEF left
<1>. QED  BY <1>1, <1>2, <1>3, <1>4, LeaveKeepsLists

\* All other steps leave members, nicknames and lists alone.
LEMMA QuietKeepsLists ==
  ASSUME IrcInv, UNCHANGED <<channelUsers, nickname, names>>
  PROVE  NamesTypeOK' /\ ListsTrue'
<1>1. NamesTypeOK'
  BY DEF IrcInv, ServerTypeOK, NamesTypeOK
<1>2. ASSUME NEW m \in Client, NEW ch \in Channel
      PROVE  names'[m][ch] = Lists(m, ch)'
  <2>1. Lists(m, ch)' = Lists(m, ch)
    BY ListRemains DEF M!Members
  <2>. QED  BY <2>1 DEF IrcInv, ListsTrue
<1>. QED  BY <1>1, <1>2 DEF ListsTrue

LEMMA StepKeepsLists ==
  ASSUME IrcInv, [ServerNext]_serverVars
  PROVE  NamesTypeOK' /\ ListsTrue'
<1>1. ASSUME NEW c \in Client, Authenticate(c)
      PROVE  NamesTypeOK' /\ ListsTrue'
  BY <1>1, QuietKeepsLists
  DEF Authenticate, PassAccepted, PassRejected, CapEnd, SetUser, channelVars
<1>2. ASSUME NEW c \in Client, NEW ch \in Channel, ChannelCommand(c, ch)
      PROVE  NamesTypeOK' /\ ListsTrue'
  <2>1. ASSUME NEW n, InviteByNick(c, n, ch)
        PROVE  NamesTypeOK' /\ ListsTrue'
    BY <2>1, QuietKeepsLists DEF InviteByNick, M!Invite, M!memberVars, vars
  <2>2. ASSUME NEW tp, ChangeTopic(c, ch, tp)
        PROVE  NamesTypeOK' /\ ListsTrue'
    BY <2>2, QuietKeepsLists DEF ChangeTopic, M!SetTopic, M!memberVars, vars
  <2>3. ASSUME StartMode(c, ch) PROVE NamesTypeOK' /\ ListsTrue'
    BY <2>3, QuietKeepsLists DEF StartMode, channelVars, vars
  <2>. QED
    BY <1>2, <2>1, <2>2, <2>3, JoinKeepsLists, PartKeepsLists, KickKeepsLists
    DEF ChannelCommand
<1>3. ASSUME NEW c \in Client, Command(c)
      PROVE  NamesTypeOK' /\ ListsTrue'
  BY <1>1, <1>2, <1>3, ConnectKeepsLists, RemoveKeepsLists, RenameKeepsLists
  DEF Command
<1>4. CASE mode # NoMode /\ ModeLetterOf(mode[1], mode[2])
  BY <1>4, QuietKeepsLists DEF ModeLetterOf, vars
<1>5. CASE EndMode \/ UNCHANGED serverVars
  BY <1>5, QuietKeepsLists DEF EndMode, serverVars, channelVars, vars
<1>. QED  BY <1>3, <1>4, <1>5 DEF ServerNext

LEMMA NamesInvariant == ServerSpec => []IrcInv
<1>1. ServerInit => NamesTypeOK /\ ListsTrue
  BY DEF ServerInit, NamesTypeOK, ListsTrue, Lists, M!Init, M!Members, M!ToSet
<1>2. IrcInv /\ [ServerNext]_serverVars => (NamesTypeOK /\ ListsTrue)'
  BY StepKeepsLists
<1>3. IrcInv <=> ChannelInv /\ NamesTypeOK /\ ListsTrue
  BY DEF IrcInv, ChannelInv, ServerTypeOK, ModeTypeOK, NamesTypeOK
<1>. QED  BY <1>1, <1>2, <1>3, ChannelInvariant, PTL DEF ServerSpec

\* However clients register, join, leave and change their nicknames, members
\* list each other truly and every name in a list is an address: the client
\* that findClientByNick returns for it is the member meant.
THEOREM NamesAlwaysResolve == ServerSpec => []NamesInv
BY NamesInvariant, InvImpliesNames, PTL

\* A message to a channel is sent to everyone who lists its sender there, and
\* to nobody else.
THEOREM SendersAreKnown == ServerSpec => []MessagesHaveKnownSenders
BY NamesInvariant, InvImpliesNames, PTL
=============================================================================
