--------------------------- MODULE DeliveryProofs ---------------------------
(***************************************************************************)
(* Proofs about Delivery: every behaviour of it is one of Membership, so   *)
(* that the theorems of MembershipProofs hold of it; what the members of a *)
(* channel are told of its users, operators and nicknames is true.         *)
(***************************************************************************)
EXTENDS Delivery, MembershipProofs

DeliveryVars == <<vars, viewVars>>

\* What is proved of the pictures, on top of MembershipInv.
Pictures == ViewInv /\ NicknamesAreKnown

\* Each handler with its messages is that handler, and only NICK, which no
\* variable of Membership knows of, leaves all of them alone.
LEMMA StepIsMembershipStep == [DeliveryNext]_DeliveryVars => [Next]_vars
<1>. SUFFICES ASSUME DeliveryNext PROVE Next \/ UNCHANGED vars
  BY Zenon DEF DeliveryVars
<1>1. PICK c \in Client :
        \/ TellConnect(c)
        \/ Register(c) /\ UNCHANGED viewVars
        \/ TellRename(c)
        \/ TellQuit(c)
        \/ \E ch \in Channel :
             \/ \E key \in Key \cup {NoKey} : TellJoin(c, ch, key)
             \/ TellPart(c, ch)
             \/ \E t \in Client :
                  TellKick(c, t, ch) \/ TellGrantOp(c, t, ch) \/ TellRevokeOp(c, t, ch)
             \/ TellNoList(c, ch)
  BY Zenon DEF DeliveryNext
<1>2. CASE TellConnect(c) \/ Register(c) \/ TellQuit(c)
  BY <1>2, Zenon DEF TellConnect, TellQuit, Next
<1>3. CASE TellRename(c)
  BY <1>3, Zenon DEF TellRename
<1>4. ASSUME NEW ch \in Channel, NEW key \in Key \cup {NoKey}, TellJoin(c, ch, key)
      PROVE  Next
  BY <1>4, Zenon DEF TellJoin, Next
<1>5. ASSUME NEW ch \in Channel, TellPart(c, ch)
      PROVE  Next
  BY <1>5, Zenon DEF TellPart, Next
<1>6. ASSUME NEW ch \in Channel, NEW t \in Client,
             TellKick(c, t, ch) \/ TellGrantOp(c, t, ch) \/ TellRevokeOp(c, t, ch)
      PROVE  Next
  BY <1>6, Zenon DEF TellKick, TellGrantOp, TellRevokeOp, Mode, Next
<1>7. ASSUME NEW ch \in Channel, TellNoList(c, ch)
      PROVE  Next
  BY <1>7, Zenon DEF TellNoList, Mode, Next
<1>. QED  BY <1>1, <1>2, <1>3, <1>4, <1>5, <1>6, <1>7

\* What clients are told is only added to Membership: whatever holds of it
\* holds of Delivery.
THEOREM DeliveryImplementsMembership == DeliverySpec => Spec
<1>1. DeliveryInit => Init
  BY DEF DeliveryInit
<1>. QED
  BY <1>1, StepIsMembershipStep, PTL DEF DeliverySpec, Spec, DeliveryVars

-----------------------------------------------------------------------------
\* The users of a channel are addresses of clients.
LEMMA MembersAreClients ==
  ASSUME MembershipInv, NEW ch \in Channel
  PROVE  Members(ch) \subseteq Client
BY DEF MembershipInv, TypeOK, MembersAreRegisteredOnce

\* Without members every picture is true.
LEMMA InitEstablishesPictures == DeliveryInit => Pictures
<1>. SUFFICES ASSUME DeliveryInit PROVE Pictures
  OBVIOUS
<1>1. \A ch \in Channel : Members(ch) = {}
  BY DEF DeliveryInit, Init, Members, ToSet
<1>. QED
  BY <1>1
  DEF DeliveryInit, Pictures, ViewInv, ViewsOK, ListsAreTrue, MarksAreTrue,
      NicknamesAreKnown

\* Steps that neither change a channel's members or operators nor send
\* anything.
LEMMA QuietKeepsPictures ==
  ASSUME Pictures, UNCHANGED <<channelUsers, ops>>, UNCHANGED viewVars
  PROVE  Pictures'
BY DEF Pictures, ViewInv, ViewsOK, ListsAreTrue, MarksAreTrue,
       NicknamesAreKnown, viewVars, Members

\* An address that is used again belongs to no member, so that nobody shows it.
LEMMA ConnectKeepsPictures ==
  ASSUME MembershipInv, Pictures, NEW c \in Client, TellConnect(c)
  PROVE  Pictures'
<1>. USE DEF TellConnect, Pictures, ViewInv, ViewsOK
<1>1. /\ \A ch \in Channel : c \notin Members(ch) /\ Members(ch)' = Members(ch)
      /\ UNCHANGED ops
  BY DEF MembershipInv, MembersAreRegisteredOnce, TypeOK, Connect, memberVars,
         Members
<1>2. ViewsOK' /\ ListsAreTrue'
  BY <1>1 DEF ListsAreTrue
<1>3. MarksAreTrue'
  BY <1>1 DEF MarksAreTrue
<1>4. NicknamesAreKnown'
  <2>1. ASSUME NEW ch \in Channel, NEW m \in Members(ch)
        PROVE  stale'[m] \subseteq stale[m]
    BY <1>1, <2>1, MembersAreClients
  <2>. QED  BY <1>1, <2>1 DEF NicknamesAreKnown
<1>. QED  BY <1>2, <1>3, <1>4

\* The new member is told of all, all are told of the new member, and the
\* operator that JOIN may make is marked in the list that follows.
LEMMA JoinKeepsPictures ==
  ASSUME MembershipInv, Pictures, NEW c \in Client, NEW ch \in Channel,
         NEW key \in Key \cup {NoKey}, TellJoin(c, ch, key)
  PROVE  Pictures'
<1>. USE DEF Pictures, ViewInv, ViewsOK
<1>. DEFINE users == ToSet(channelUsers'[ch])
<1>1. /\ Members(ch)' = users
      /\ users = Members(ch) \cup {c}
      /\ \A d \in Channel \ {ch} : Members(d)' = Members(d) /\ ops'[d] = ops[d]
      /\ ops'[ch] = IF Len(channelUsers'[ch]) = 1 THEN ops[ch] \cup {c} ELSE ops[ch]
  <2>1. channelUsers[ch] \in Seq(Client) /\ IsInjective(channelUsers[ch])
    BY DEF MembershipInv, TypeOK, MembersAreRegisteredOnce
  <2>2. users = Members(ch) \cup {c}
    BY <2>1, AddUserOnce DEF TellJoin, Join, Members, MembershipInv, TypeOK
  <2>. QED
    BY <2>2 DEF TellJoin, Join, Members, MembershipInv, TypeOK
<1>2. /\ nickList' = [m \in Client |->
            IF m = c THEN [nickList[m] EXCEPT ![ch] = users]
            ELSE IF m \in users THEN [nickList[m] EXCEPT ![ch] = @ \cup {c}]
            ELSE nickList[m]]
      /\ opMarks' = [opMarks EXCEPT ![c][ch] = ops'[ch] \cap users]
      /\ stale' = [m \in Client |->
            IF m = c THEN stale[m] \ users
            ELSE IF m \in users THEN stale[m] \ {c}
            ELSE stale[m]]
  BY DEF TellJoin, NamesMarks
<1>3. \A d \in Channel : Members(d) \subseteq Client
  BY MembersAreClients
<1>4. Len(channelUsers'[ch]) = 1 => Members(ch)' = {c}
  <2>1. channelUsers'[ch] \in Seq(Client)
    BY JoinKeepsInv DEF TellJoin, MembershipInv, TypeOK
  <2>2. Len(channelUsers'[ch]) = 1 => \A x, y \in users : x = y
    BY <2>1 DEF ToSet
  <2>. QED  BY <1>1, <2>2
<1>. HIDE DEF users
<1>5. ViewsOK'
  BY <1>1, <1>2, <1>3
<1>6. ListsAreTrue'
  <2>1. ASSUME NEW m \in Client
        PROVE  nickList'[m][ch] = IF m \in users THEN users ELSE {}
    <3>1. CASE m = c
      BY <1>1, <1>2, <3>1
    <3>2. CASE m # c
      BY <1>1, <1>2, <3>2 DEF ListsAreTrue
    <3>. QED  BY <3>1, <3>2
  <2>2. ASSUME NEW m \in Client, NEW d \in Channel, d # ch
        PROVE  nickList'[m][d] = nickList[m][d]
    BY <1>2, <2>2
  <2>3. ASSUME NEW m \in Client, NEW d \in Channel
        PROVE  nickList'[m][d] = IF m \in Members(d)' THEN Members(d)' ELSE {}
    <3>1. CASE d = ch
      BY <1>1, <2>1, <3>1
    <3>2. CASE d # ch
      BY <1>1, <2>2, <3>2 DEF ListsAreTrue
    <3>. QED  BY <3>1, <3>2
  <2>. QED  BY <2>3 DEF ListsAreTrue
<1>7. MarksAreTrue'
  <2>1. ASSUME NEW m \in Members(ch)'
        PROVE  /\ opMarks'[m][ch] \subseteq ops'[ch] \cap users
               /\ m \in opMarks'[m][ch] <=> m \in ops'[ch]
    <3>1. CASE m = c
      BY <1>1, <1>2, <3>1
    <3>2. CASE m # c
      <4>1. ops'[ch] = ops[ch] /\ m \in Members(ch) /\ m \in Client
        BY <1>1, <1>3, <1>4, <2>1, <3>2
      <4>. QED  BY <1>1, <1>2, <3>2, <4>1 DEF MarksAreTrue
    <3>. QED  BY <3>1, <3>2
  <2>2. ASSUME NEW d \in Channel, d # ch, NEW m \in Members(d)'
        PROVE  /\ opMarks'[m][d] \subseteq ops'[d] \cap Members(d)'
               /\ m \in opMarks'[m][d] <=> m \in ops'[d]
    <3>1. m \in Client
      BY <1>1, <1>3, <2>2
    <3>. QED  BY <1>1, <1>2, <2>2, <3>1 DEF MarksAreTrue
  <2>. QED  BY <1>1, <2>1, <2>2 DEF MarksAreTrue
<1>8. NicknamesAreKnown'
  <2>1. ASSUME NEW d \in Channel, NEW m \in Members(d)'
        PROVE  stale'[m] \cap Members(d)' = {}
    <3>1. m \in Client
      BY <1>1, <1>3, <2>1
    <3>2. stale'[m] \subseteq stale[m]
      BY <1>2, <3>1
    <3>3. CASE d # ch
      BY <1>1, <2>1, <3>2, <3>3 DEF NicknamesAreKnown
    <3>4. CASE d = ch
      BY <1>1, <1>2, <2>1, <3>1, <3>4 DEF NicknamesAreKnown
    <3>. QED  BY <3>3, <3>4
  <2>. QED  BY <2>1 DEF NicknamesAreKnown
<1>. QED  BY <1>5, <1>6, <1>7, <1>8

\* PART and QUIT: those who hear of it are the members, the client that goes
\* among them.
LEMMA HearPartKeepsPictures ==
  ASSUME MembershipInv, Pictures, NEW c \in Client, NEW left \in SUBSET Channel,
         HearPart(c, left),
         \A ch \in Channel :
           IF ch \in left
           THEN /\ Members(ch)' = Members(ch) \ {c}
                /\ ops'[ch] = OpsAfterPart(ch, c)
           ELSE Members(ch)' = Members(ch) /\ ops'[ch] = ops[ch]
  PROVE  Pictures'
<1>. USE DEF Pictures, ViewInv, ViewsOK
<1>1. \A ch \in Channel : /\ Members(ch) \subseteq Client
                          /\ Promoted(ch, c) \subseteq Members(ch) \ {c}
  BY MembersAreClients, OpsAfterPartType DEF MembershipInv
<1>2. /\ nickList' = [m \in Client |-> [ch \in Channel |->
            IF ch \notin left \/ m \notin Members(ch) THEN nickList[m][ch]
            ELSE IF m = c THEN {}
            ELSE nickList[m][ch] \ {c}]]
      /\ opMarks' = [m \in Client |-> [ch \in Channel |->
            IF ch \notin left \/ m \notin Members(ch) THEN opMarks[m][ch]
            ELSE IF m = c THEN {}
            ELSE (opMarks[m][ch] \ {c}) \cup PartPromotes(ch, c)]]
      /\ UNCHANGED stale
  BY DEF HearPart
<1>3. \A ch \in Channel : PartPromotes(ch, c) \subseteq Members(ch) \ {c}
  BY <1>1 DEF PartPromotes
<1>4. ViewsOK'
  <2>1. \A ch \in Channel : PartPromotes(ch, c) \in SUBSET Client
    BY <1>1, <1>3
  <2>. QED  BY <1>2, <2>1
<1>5. ListsAreTrue'
  BY <1>2, ZenonT(40) DEF ListsAreTrue
<1>6. MarksAreTrue'
  <2>1. ASSUME NEW ch \in left, NEW m \in Members(ch)'
        PROVE  /\ opMarks'[m][ch] \subseteq ops'[ch] \cap Members(ch)'
               /\ m \in opMarks'[m][ch] <=> m \in ops'[ch]
    <3>1. m \in Members(ch) /\ m # c /\ m \in Client
      BY <1>1, <2>1
    <3>2. opMarks'[m][ch] = (opMarks[m][ch] \ {c}) \cup PartPromotes(ch, c)
      BY <1>2, <2>1, <3>1
    <3>3. /\ opMarks[m][ch] \subseteq ops[ch] \cap Members(ch)
          /\ m \in opMarks[m][ch] <=> m \in ops[ch]
      BY <2>1, <3>1 DEF MarksAreTrue
    <3>4. ops'[ch] = (ops[ch] \cup PartPromotes(ch, c)) \ {c}
      BY <2>1 DEF OpsAfterPart, PartPromotes
    <3>. QED  BY <1>3, <2>1, <3>1, <3>2, <3>3, <3>4
  <2>2. ASSUME NEW ch \in Channel \ left, NEW m \in Members(ch)'
        PROVE  /\ opMarks'[m][ch] \subseteq ops'[ch] \cap Members(ch)'
               /\ m \in opMarks'[m][ch] <=> m \in ops'[ch]
    <3>1. m \in Client /\ m \in Members(ch)
      BY <1>1, <2>2
    <3>2. opMarks'[m][ch] = opMarks[m][ch]
      BY <1>2, <2>2, <3>1
    <3>. QED  BY <2>2, <3>1, <3>2 DEF MarksAreTrue
  <2>. QED  BY <2>1, <2>2 DEF MarksAreTrue
<1>7. NicknamesAreKnown'
  BY <1>2 DEF NicknamesAreKnown
<1>. QED  BY <1>4, <1>5, <1>6, <1>7

\* PART tells the members and then removes the only entry of the client.
LEMMA PartKeepsPictures ==
  ASSUME MembershipInv, Pictures, NEW c \in Client, NEW ch \in Channel,
         TellPart(c, ch)
  PROVE  Pictures'
<1>1. Leaves(c, ch) /\ Members(ch)' = Members(ch) \ {c}
  <2>1. Leaves(c, ch)
    BY DEF TellPart, Part, IsMember, Leaves, MembershipInv, TypeOK
  <2>. QED  BY <2>1, LeaveEffect
<1>2. /\ ops'[ch] = OpsAfterPart(ch, c)
      /\ \A d \in Channel \ {ch} : Members(d)' = Members(d) /\ ops'[d] = ops[d]
  BY DEF TellPart, Part, Members, MembershipInv, TypeOK
<1>. QED
  BY <1>1, <1>2, HearPartKeepsPictures DEF TellPart

\* QUIT is a PART from every channel that the client is in.
LEMMA QuitKeepsPictures ==
  ASSUME MembershipInv, Pictures, NEW c \in Client, TellQuit(c)
  PROVE  Pictures'
<1>1. LeftByQuit(c) \in SUBSET Channel
  BY DEF LeftByQuit, IsMember, MembershipInv, TypeOK
<1>2. ASSUME NEW ch \in LeftByQuit(c)
      PROVE  /\ Members(ch)' = Members(ch) \ {c}
             /\ ops'[ch] = OpsAfterPart(ch, c)
  <2>1. Leaves(c, ch) /\ ops'[ch] = OpsAfterPart(ch, c)
    BY <1>1, <1>2 DEF TellQuit, Quit, Leaves, LeftByQuit, IsMember
  <2>. QED  BY <1>1, <2>1, LeaveEffect
<1>3. ASSUME NEW ch \in Channel \ LeftByQuit(c)
      PROVE  Members(ch)' = Members(ch) /\ ops'[ch] = ops[ch]
  BY <1>3 DEF TellQuit, Quit, Members
<1>. QED
  BY <1>1, <1>2, <1>3, HearPartKeepsPictures DEF TellQuit

\* KICK is sent while the target is still a member.
LEMMA KickKeepsPictures ==
  ASSUME MembershipInv, Pictures, NEW c \in Client, NEW t \in Client,
         NEW ch \in Channel, TellKick(c, t, ch)
  PROVE  Pictures'
<1>. USE DEF Pictures, ViewInv, ViewsOK
<1>1. /\ Members(ch)' = Members(ch) \ {t}
      /\ ops'[ch] = ops[ch] \ {t}
      /\ \A d \in Channel \ {ch} : Members(d)' = Members(d) /\ ops'[d] = ops[d]
  <2>1. Leaves(t, ch)
    BY DEF TellKick, Kick, Leaves, MembershipInv, TypeOK
  <2>2. Members(ch)' = Members(ch) \ {t}
    BY <2>1, LeaveEffect
  <2>. QED  BY <2>2 DEF TellKick, Kick, Members, MembershipInv, TypeOK
<1>2. /\ nickList' = [m \in Client |->
            IF m \notin Members(ch) THEN nickList[m]
            ELSE [nickList[m] EXCEPT ![ch] = IF m = t THEN {} ELSE @ \ {t}]]
      /\ opMarks' = [m \in Client |->
            IF m \notin Members(ch) THEN opMarks[m]
            ELSE [opMarks[m] EXCEPT ![ch] = IF m = t THEN {} ELSE @ \ {t}]]
      /\ UNCHANGED stale
  BY DEF TellKick, KickAudience
<1>3. \A d \in Channel : Members(d) \subseteq Client
  BY MembersAreClients
<1>4. ViewsOK'
  BY <1>2
<1>5. ListsAreTrue'
  <2>1. ASSUME NEW m \in Client, NEW d \in Channel
        PROVE  nickList'[m][d] = IF m \in Members(d)' THEN Members(d)' ELSE {}
    <3>1. CASE d = ch
      BY <1>1, <1>2, <3>1, ZenonT(40) DEF ListsAreTrue
    <3>2. CASE d # ch
      <4>1. nickList'[m][d] = nickList[m][d]
        BY <1>2, <3>2
      <4>. QED  BY <1>1, <3>2, <4>1 DEF ListsAreTrue
    <3>. QED  BY <3>1, <3>2
  <2>. QED  BY <2>1 DEF ListsAreTrue
<1>6. MarksAreTrue'
  <2>1. ASSUME NEW d \in Channel, NEW m \in Members(d)'
        PROVE  /\ opMarks'[m][d] \subseteq ops'[d] \cap Members(d)'
               /\ m \in opMarks'[m][d] <=> m \in ops'[d]
    <3>1. m \in Members(d) /\ m \in Client
      BY <1>1, <1>3, <2>1
    <3>2. CASE d = ch
      <4>1. m # t /\ opMarks'[m][ch] = opMarks[m][ch] \ {t}
        BY <1>1, <1>2, <2>1, <3>1, <3>2
      <4>. QED  BY <1>1, <3>1, <3>2, <4>1 DEF MarksAreTrue
    <3>3. CASE d # ch
      <4>1. opMarks'[m][d] = opMarks[m][d]
        BY <1>2, <3>1, <3>3
      <4>. QED  BY <1>1, <3>1, <3>3, <4>1 DEF MarksAreTrue
    <3>. QED  BY <3>2, <3>3
  <2>. QED  BY <2>1 DEF MarksAreTrue
<1>7. NicknamesAreKnown'
  BY <1>1, <1>2 DEF NicknamesAreKnown
<1>. QED  BY <1>4, <1>5, <1>6, <1>7

\* A grant outside the channel is sent to the members, who have no name to put
\* the mark to.
LEMMA OpKeepsPictures ==
  ASSUME MembershipInv, Pictures, NEW c \in Client, NEW t \in Client,
         NEW ch \in Channel, TellGrantOp(c, t, ch) \/ TellRevokeOp(c, t, ch)
  PROVE  Pictures'
<1>. USE DEF Pictures, ViewInv, ViewsOK
<1>1. /\ \A d \in Channel : Members(d) \subseteq Client /\ Members(d)' = Members(d)
      /\ \A d \in Channel \ {ch} : ops'[d] = ops[d]
      /\ UNCHANGED <<nickList, stale>>
  BY MembersAreClients
  DEF TellGrantOp, TellRevokeOp, GrantOp, RevokeOp, Members, MembershipInv, TypeOK
<1>2. /\ opMarks' \in [Client -> [Channel -> SUBSET Client]]
      /\ \A d \in Channel \ {ch}, m \in Client : opMarks'[m][d] = opMarks[m][d]
  <2>1. CASE TellGrantOp(c, t, ch)
    <3>1. opMarks' = [m \in Client |->
            IF t \notin ops[ch] /\ m \in Members(ch) /\ t \in nickList[m][ch]
            THEN [opMarks[m] EXCEPT ![ch] = @ \cup {t}] ELSE opMarks[m]]
      BY <2>1 DEF TellGrantOp
    <3>2. opMarks' \in [Client -> [Channel -> SUBSET Client]]
      BY <3>1
    <3>3. \A d \in Channel \ {ch}, m \in Client : opMarks'[m][d] = opMarks[m][d]
      BY <3>1
    <3>. QED  BY <3>2, <3>3
  <2>2. CASE TellRevokeOp(c, t, ch)
    <3>1. opMarks' = [m \in Client |->
            IF t \in ops[ch] /\ m \in Members(ch)
            THEN [opMarks[m] EXCEPT ![ch] = @ \ {t}] ELSE opMarks[m]]
      BY <2>2 DEF TellRevokeOp
    <3>2. opMarks' \in [Client -> [Channel -> SUBSET Client]]
      BY <3>1
    <3>3. \A d \in Channel \ {ch}, m \in Client : opMarks'[m][d] = opMarks[m][d]
      BY <3>1
    <3>. QED  BY <3>2, <3>3
  <2>. QED  BY <2>1, <2>2
<1>3. ASSUME NEW m \in Members(ch)
      PROVE  /\ opMarks'[m][ch] \subseteq ops'[ch] \cap Members(ch)
             /\ m \in opMarks'[m][ch] <=> m \in ops'[ch]
  <2>1. m \in Client /\ nickList[m][ch] = Members(ch)
    BY <1>1, <1>3 DEF ListsAreTrue
  <2>2. /\ opMarks[m][ch] \subseteq ops[ch] \cap Members(ch)
        /\ m \in opMarks[m][ch] <=> m \in ops[ch]
    BY <1>3 DEF MarksAreTrue
  <2>3. CASE TellGrantOp(c, t, ch)
    <3>1. ops'[ch] = ops[ch] \cup {t}
      BY <2>3 DEF TellGrantOp, GrantOp, MembershipInv, TypeOK
    <3>2. opMarks'[m][ch] =
            IF t \notin ops[ch] /\ t \in Members(ch) THEN opMarks[m][ch] \cup {t}
                                                    ELSE opMarks[m][ch]
      BY <1>3, <2>1, <2>3 DEF TellGrantOp
    <3>. QED  BY <1>3, <2>2, <3>1, <3>2
  <2>4. CASE TellRevokeOp(c, t, ch)
    <3>1. ops'[ch] = ops[ch] \ {t}
      BY <2>4 DEF TellRevokeOp, RevokeOp, MembershipInv, TypeOK
    <3>2. opMarks'[m][ch] =
            IF t \in ops[ch] THEN opMarks[m][ch] \ {t} ELSE opMarks[m][ch]
      BY <1>3, <2>1, <2>4 DEF TellRevokeOp
    <3>. QED  BY <1>3, <2>2, <3>1, <3>2
  <2>. QED  BY <2>3, <2>4
<1>4. MarksAreTrue'
  <2>1. ASSUME NEW d \in Channel, NEW m \in Members(d)'
        PROVE  /\ opMarks'[m][d] \subseteq ops'[d] \cap Members(d)'
               /\ m \in opMarks'[m][d] <=> m \in ops'[d]
    <3>1. m \in Members(d) /\ m \in Client /\ Members(d)' = Members(d)
      BY <1>1, <2>1
    <3>2. CASE d = ch
      BY <1>3, <3>1, <3>2
    <3>3. CASE d # ch
      BY <1>1, <1>2, <3>1, <3>3 DEF MarksAreTrue
    <3>. QED  BY <3>2, <3>3
  <2>. QED  BY <2>1 DEF MarksAreTrue
<1>5. ListsAreTrue' /\ NicknamesAreKnown'
  BY <1>1 DEF ListsAreTrue, NicknamesAreKnown
<1>. QED  BY <1>1, <1>2, <1>4, <1>5

\* A new nickname goes to every channel in joinedChannels, which are at least
\* those that the client is in (MembershipRecorded).
LEMMA RenameKeepsPictures ==
  ASSUME MembershipInv, Pictures, NEW c \in Client, TellRename(c)
  PROVE  Pictures'
<1>. USE DEF Pictures, ViewInv, ViewsOK
<1>1. UNCHANGED <<channelUsers, ops, nickList, opMarks>>
  BY DEF TellRename, vars, memberVars
<1>2. stale' = [m \in Client |->
        IF m \in RenameAudience(c) THEN stale[m] \ {c}
        ELSE IF m \in Acquainted(c) THEN stale[m] \cup {c}
        ELSE stale[m]]
  BY DEF TellRename
<1>3. ViewsOK' /\ ListsAreTrue' /\ MarksAreTrue'
  BY <1>1, <1>2 DEF ListsAreTrue, MarksAreTrue, Members
<1>4. ASSUME NEW ch \in Channel, NEW m \in Members(ch)
      PROVE  stale'[m] \cap Members(ch) = {}
  <2>1. m \in Client /\ stale[m] \cap Members(ch) = {}
    BY <1>4, MembersAreClients DEF NicknamesAreKnown
  <2>2. CASE c \in Members(ch)
    <3>1. ch \in ToSet(joinedChannels[c])
      BY <2>2 DEF MembershipInv, MembershipRecorded
    <3>2. joinedChannels[c] # <<>>
      BY <3>1 DEF ToSet
    <3>3. m \in RenameAudience(c)
      BY <1>4, <3>1, <3>2 DEF RenameAudience
    <3>. QED  BY <1>2, <2>1, <3>3
  <2>3. CASE c \notin Members(ch)
    BY <1>2, <2>1, <2>3
  <2>. QED  BY <2>2, <2>3
<1>5. NicknamesAreKnown'
  BY <1>1, <1>4 DEF NicknamesAreKnown, Members
<1>. QED  BY <1>3, <1>5

\* Every step keeps the pictures true, on states of Membership that can occur.
LEMMA NextKeepsPictures ==
  ASSUME MembershipInv, Pictures, [DeliveryNext]_DeliveryVars
  PROVE  Pictures'
<1>1. CASE UNCHANGED DeliveryVars
  BY <1>1, QuietKeepsPictures DEF DeliveryVars, vars, memberVars
<1>2. ASSUME NEW c \in Client,
             \/ TellConnect(c)
             \/ TellRename(c)
             \/ TellQuit(c)
      PROVE  Pictures'
  BY <1>2, ConnectKeepsPictures, RenameKeepsPictures, QuitKeepsPictures
<1>3. ASSUME NEW c \in Client, Register(c), UNCHANGED viewVars
      PROVE  Pictures'
  BY <1>3, QuietKeepsPictures DEF Register, memberVars
<1>4. ASSUME NEW c \in Client, NEW ch \in Channel, NEW key \in Key \cup {NoKey},
             TellJoin(c, ch, key)
      PROVE  Pictures'
  BY <1>4, JoinKeepsPictures
<1>5. ASSUME NEW c \in Client, NEW ch \in Channel, TellPart(c, ch)
      PROVE  Pictures'
  BY <1>5, PartKeepsPictures
<1>6. ASSUME NEW c \in Client, NEW ch \in Channel, NEW t \in Client,
             TellKick(c, t, ch) \/ TellGrantOp(c, t, ch) \/ TellRevokeOp(c, t, ch)
      PROVE  Pictures'
  BY <1>6, KickKeepsPictures, OpKeepsPictures
<1>7. ASSUME NEW c \in Client, NEW ch \in Channel, TellNoList(c, ch)
      PROVE  Pictures'
  <2>1. UNCHANGED <<channelUsers, ops>> /\ UNCHANGED viewVars
    BY <1>7 DEF TellNoList, Invite, SetTopic, SetFlag, ClearFlag, SetKey,
                ClearKey, SetLimit, ClearLimit, memberVars
  <2>. QED  BY <2>1, QuietKeepsPictures
<1>. QED
  BY <1>1, <1>2, <1>3, <1>4, <1>5, <1>6, <1>7, Zenon DEF DeliveryNext

\* The pictures are inductive beside the invariant of Membership.
LEMMA PicturesInvariant == DeliverySpec => [](MembershipInv /\ Pictures)
<1>1. DeliveryInit => MembershipInv /\ Pictures
  BY InitEstablishesInv, InitEstablishesPictures DEF DeliveryInit
<1>2. MembershipInv /\ Pictures /\ [DeliveryNext]_DeliveryVars
        => (MembershipInv /\ Pictures)'
  BY NextKeepsInv, StepIsMembershipStep, NextKeepsPictures
<1>. QED  BY <1>1, <1>2, PTL DEF DeliverySpec, DeliveryVars

\* The lists that clients show of a channel they are in are the members, and
\* each member knows whether it is an operator.
THEOREM PicturesAreTrue == DeliverySpec => []ViewInv
<1>1. Pictures => ViewInv
  BY DEF Pictures
<1>. QED  BY <1>1, PicturesInvariant, PTL

\* NICK reaches everybody who shares a channel with the client.
THEOREM RenamesAreHeard == DeliverySpec => []NicknamesAreKnown
<1>1. Pictures => NicknamesAreKnown
  BY DEF Pictures
<1>. QED  BY <1>1, PicturesInvariant, PTL
=============================================================================
