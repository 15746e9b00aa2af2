------------------------------- MODULE Delivery -------------------------------
(***************************************************************************)
(* What the members of a channel are told.  Every command that changes a   *)
(* channel sends messages (JOIN with the list of names, PART, KICK,        *)
(* MODE +o and -o, NICK) from which each client builds its own picture of  *)
(* the channel; nothing else ever corrects that picture.  This module adds *)
(* the pictures to Membership.                                             *)
(*                                                                         *)
(* Messages arrive in the order they are sent; a send that fails because   *)
(* the socket is full, whose result nobody looks at, is left out.  Clients *)
(* do what the protocol asks of them: who is told of its own PART or KICK  *)
(* closes the channel, and a mark of operator goes to a name in the list.  *)
(***************************************************************************)
EXTENDS Membership

VARIABLES
  nickList,         \* nickList[m][ch]: whom m shows as users of ch
  opMarks,          \* opMarks[m][ch]: whom of them m shows as operators
  stale             \* stale[m]: whose present nickname m has not been told

viewVars == <<nickList, opMarks, stale>>

DeliveryInit ==
  /\ Init
  /\ nickList = [m \in Client |-> [ch \in Channel |-> {}]]
  /\ opMarks = [m \in Client |-> [ch \in Channel |-> {}]]
  /\ stale = [m \in Client |-> {}]

-----------------------------------------------------------------------------
\* The client at the other end of a new connection knows nothing, and nobody
\* knows the one that takes over the address.
TellConnect(c) ==
  /\ Connect(c)
  /\ nickList' = [nickList EXCEPT ![c] = [ch \in Channel |-> {}]]
  /\ opMarks' = [opMarks EXCEPT ![c] = [ch \in Channel |-> {}]]
  /\ stale' = [m \in Client |-> IF m = c THEN {} ELSE stale[m] \ {c}]

\* Mutant of NamesMarks: the names are listed before the first operator is
\* made.
MarksBeforeGrant(ch) == ops[ch] \cap ToSet(channelUsers'[ch])

\* Who has an "@" in the reply of names.
NamesMarks(ch) == ops'[ch] \cap ToSet(channelUsers'[ch])

\* JOIN goes to all members, the new one included, who then gets the names.
TellJoin(c, ch, key) ==
  /\ Join(c, ch, key)
  /\ LET users == ToSet(channelUsers'[ch])
     IN  /\ nickList' = [m \in Client |->
              IF m = c THEN [nickList[m] EXCEPT ![ch] = users]
              ELSE IF m \in users THEN [nickList[m] EXCEPT ![ch] = @ \cup {c}]
              ELSE nickList[m]]
         /\ opMarks' = [opMarks EXCEPT ![c][ch] = NamesMarks(ch)]
         /\ stale' = [m \in Client |->
              IF m = c THEN stale[m] \ users
              ELSE IF m \in users THEN stale[m] \ {c}
              ELSE stale[m]]

\* Who appears with a MODE +o from the server when c has left ch.
PartPromotes(ch, c) == IF c \in ops[ch] THEN Promoted(ch, c) ELSE {}

\* The members of the channels that c leaves hear of its PART and, those who
\* remain, of the promotion that may follow.
HearPart(c, left) ==
  /\ nickList' = [m \in Client |-> [ch \in Channel |->
       IF ch \notin left \/ m \notin Members(ch) THEN nickList[m][ch]
       ELSE IF m = c THEN {}
       ELSE nickList[m][ch] \ {c}]]
  /\ opMarks' = [m \in Client |-> [ch \in Channel |->
       IF ch \notin left \/ m \notin Members(ch) THEN opMarks[m][ch]
       ELSE IF m = c THEN {}
       ELSE (opMarks[m][ch] \ {c}) \cup PartPromotes(ch, c)]]
  /\ UNCHANGED stale

TellPart(c, ch) == Part(c, ch) /\ HearPart(c, {ch})

TellQuit(c) == Quit(c) /\ HearPart(c, LeftByQuit(c))

\* Mutant of KickAudience: the message is sent after the removal.
KickRemainder(ch, t) == Members(ch) \ {t}

\* Whom KICK is sent to: the target is still a member.
KickAudience(ch, t) == Members(ch)

TellKick(c, t, ch) ==
  /\ Kick(c, t, ch)
  /\ nickList' = [m \in Client |->
       IF m \notin KickAudience(ch, t) THEN nickList[m]
       ELSE [nickList[m] EXCEPT ![ch] = IF m = t THEN {} ELSE @ \ {t}]]
  /\ opMarks' = [m \in Client |->
       IF m \notin KickAudience(ch, t) THEN opMarks[m]
       ELSE [opMarks[m] EXCEPT ![ch] = IF m = t THEN {} ELSE @ \ {t}]]
  /\ UNCHANGED stale

\* MODE +o and -o are sent only if they change something.
TellGrantOp(c, t, ch) ==
  /\ GrantOp(c, t, ch)
  /\ opMarks' = [m \in Client |->
       IF t \notin ops[ch] /\ m \in Members(ch) /\ t \in nickList[m][ch]
       THEN [opMarks[m] EXCEPT ![ch] = @ \cup {t}] ELSE opMarks[m]]
  /\ UNCHANGED <<nickList, stale>>

TellRevokeOp(c, t, ch) ==
  /\ RevokeOp(c, t, ch)
  /\ opMarks' = [m \in Client |->
       IF t \in ops[ch] /\ m \in Members(ch)
       THEN [opMarks[m] EXCEPT ![ch] = @ \ {t}] ELSE opMarks[m]]
  /\ UNCHANGED <<nickList, stale>>

-----------------------------------------------------------------------------
\* Mutant of RenameAudience: the handler stops at the first channel.
FirstChannelOnly(c) ==
  IF joinedChannels[c] = <<>> THEN {c} ELSE Members(Head(joinedChannels[c]))

\* nickNameHandle goes through joinedChannels, where the channels that c has
\* left may still be: their members are told, and c itself is told by its own
\* channels or, if the list is empty, directly.
RenameAudience(c) ==
  IF joinedChannels[c] = <<>> THEN {c}
  ELSE UNION {Members(ch) : ch \in ToSet(joinedChannels[c])}

\* Those who knew the nickname of c before: c, and whoever meets it.
Acquainted(c) ==
  {c} \cup UNION {Members(ch) : ch \in {d \in Channel : IsMember(c, d)}}

TellRename(c) ==
  /\ c \in registered
  /\ stale' = [m \in Client |->
       IF m \in RenameAudience(c) THEN stale[m] \ {c}
       ELSE IF m \in Acquainted(c) THEN stale[m] \cup {c}
       ELSE stale[m]]
  /\ UNCHANGED <<vars, nickList, opMarks>>

-----------------------------------------------------------------------------
\* The commands after which no picture of a channel's users changes.
TellNoList(c, ch) ==
  /\ \/ \E t \in Client : Invite(c, t, ch)
     \/ \E tp \in Topic \cup {NoTopic} : SetTopic(c, ch, tp)
     \/ \E x \in ModeLetter : SetFlag(c, ch, x) \/ ClearFlag(c, ch, x)
     \/ \E k \in Key : SetKey(c, ch, k)
     \/ ClearKey(c, ch)
     \/ \E n \in 0..MaxClient : SetLimit(c, ch, n)
     \/ ClearLimit(c, ch)
  /\ UNCHANGED viewVars

DeliveryNext ==
  \E c \in Client :
    \/ TellConnect(c)
    \/ Register(c) /\ UNCHANGED viewVars
    \/ TellRename(c)
    \/ TellQuit(c)
    \/ \E ch \in Channel :
         \/ \E key \in Key \cup {NoKey} : TellJoin(c, ch, key)
         \/ TellPart(c, ch)
         \/ \E t \in Client :
              TellKick(c, t, ch) \/ TellGrantOp(c, t, ch) \/ TellRevokeOp(c, t, ch)
         \/ TellNoList(c, ch)

DeliverySpec == DeliveryInit /\ [][DeliveryNext]_<<vars, viewVars>>

-----------------------------------------------------------------------------
ViewsOK ==
  /\ nickList \in [Client -> [Channel -> SUBSET Client]]
  /\ opMarks \in [Client -> [Channel -> SUBSET Client]]
  /\ stale \in [Client -> SUBSET Client]

\* Every member shows exactly the members, however it and they came and went;
\* a client that is in the channel no longer, or not yet, shows nothing.
ListsAreTrue ==
  \A ch \in Channel, m \in Client :
    nickList[m][ch] = IF m \in Members(ch) THEN Members(ch) ELSE {}

\* A member knows whether it is an operator itself, though it may have become
\* one by a grant before it joined, by joining an empty channel, or by the
\* departure of another; and it takes nobody for an operator who is none.
MarksAreTrue ==
  \A ch \in Channel : \A m \in Members(ch) :
    /\ opMarks[m][ch] \subseteq ops[ch] \cap Members(ch)
    /\ m \in opMarks[m][ch] <=> m \in ops[ch]

ViewInv == ViewsOK /\ ListsAreTrue /\ MarksAreTrue

\* Members know each other's present nickname: NICK reaches every channel of
\* the client through joinedChannels, which is never short of one.
NicknamesAreKnown ==
  \A ch \in Channel : \A m \in Members(ch) : stale[m] \cap Members(ch) = {}
=============================================================================
