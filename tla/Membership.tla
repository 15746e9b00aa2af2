----------------------------- MODULE Membership -----------------------------
(***************************************************************************)
(* Channels and their members: the state that JOIN, PART, KICK, INVITE,    *)
(* TOPIC, MODE and a departing client share between the Client objects     *)
(* (joinedChannels, invitations) and the Channel objects (channelUsers,    *)
(* ops, modes, pw, maxUser, topic).                                        *)
(*                                                                         *)
(* A member of Client stands for the ADDRESS of a Client object.  The code *)
(* compares and stores raw pointers, and the allocator may hand the        *)
(* address of a deleted client to the next one, so Connect may reuse any   *)
(* address that is not live, whatever still points to it.                  *)
(*                                                                         *)
(* The server is one thread and a handler runs to its end before the next  *)
(* one, so a handler is one action.  A refused command changes no state    *)
(* and is a stuttering step.  A MODE command of several letters is the     *)
(* sequence of its one-letter commands: no letter alters the standing of   *)
(* the client who sent it.                                                 *)
(***************************************************************************)
EXTENDS Integers, Sequences, FiniteSets, SequencesExt

CONSTANTS
  Client,           \* addresses the allocator may give to a Client object
  Channel,          \* channel names with a valid mask
  Key, NoKey,       \* parameters of MODE +k, and the absence of one
  Topic, NoTopic,   \* topics, and the empty one that a new channel has
  MaxClient,        \* MAX_CLIENT, the largest limit that MODE +l accepts
  ModeLetter,       \* the letters that clients use in MODE, besides o
  MaxJoined         \* bound: length of a joinedChannels list

ASSUME MembershipAssumption ==
  /\ IsFiniteSet(Client)
  /\ NoKey \notin Key
  /\ NoTopic \notin Topic
  /\ MaxClient \in Nat
  /\ ModeLetter \subseteq {"i", "t", "k", "l"}
  /\ MaxJoined \in Nat

VARIABLES
  cls,              \* Server::cls, as a set: the live clients
  registered,       \* clients whose isRegistered is true
  joinedChannels,   \* Client::joinedChannels, in order, with duplicates
  invitations,      \* Client::invitations
  channels,         \* Server::channels: the names with a Channel object
  channelUsers,     \* Channel::channelUsers, in order of arrival
  ops,              \* Channel::ops; addOperator keeps it free of duplicates
  modes, pw, maxUser, topic

clientVars  == <<cls, registered, joinedChannels, invitations>>
memberVars  == <<channelUsers, ops>>
settingVars == <<modes, pw, maxUser, topic>>
vars == <<clientVars, channels, memberVars, settingVars>>

TypeOK ==
  /\ cls \subseteq Client
  /\ registered \subseteq cls
  /\ joinedChannels \in [Client -> Seq(Channel)]
  /\ invitations \in [Client -> SUBSET Channel]
  /\ channels \subseteq Channel
  /\ channelUsers \in [Channel -> Seq(Client)]
  /\ ops \in [Channel -> SUBSET Client]
  /\ modes \in [Channel -> SUBSET {"i", "t", "k", "l"}]
  /\ pw \in [Channel -> Key \cup {NoKey}]
  /\ maxUser \in [Channel -> 0..MaxClient]
  /\ topic \in [Channel -> Topic \cup {NoTopic}]

Init ==
  /\ cls = {}
  /\ registered = {}
  /\ joinedChannels = [c \in Client |-> <<>>]
  /\ invitations = [c \in Client |-> {}]
  /\ channels = {}
  /\ channelUsers = [ch \in Channel |-> <<>>]
  /\ ops = [ch \in Channel |-> {}]
  /\ modes = [ch \in Channel |-> {}]
  /\ pw = [ch \in Channel |-> NoKey]
  /\ maxUser = [ch \in Channel |-> 0]
  /\ topic = [ch \in Channel |-> NoTopic]

-----------------------------------------------------------------------------
\* The methods of Channel and Client that the handlers are made of.

Members(ch) == ToSet(channelUsers[ch])

IsMember(c, ch) == ch \in channels /\ c \in Members(ch)

AddUser(users, c) == IF c \in ToSet(users) THEN users ELSE Append(users, c)

RemoveUser(users, c) == RemoveFirst(users, c)

\* Mutant of RemoveJoined: the head goes, whatever its name.
RemoveJoinedUnchecked(list, ch) == IF list # <<>> THEN Tail(list) ELSE list

\* The loop of removeJoinedChannel returns after its first iteration, so
\* only the head of the list can ever be removed.
RemoveJoined(list, ch) ==
  IF list # <<>> /\ Head(list) = ch THEN Tail(list) ELSE list

\* Mutant of Promoted: someone is promoted only if two or more remain.
PromotedAmongTwo(ch, c) ==
  LET rest == RemoveUser(channelUsers[ch], c)
  IN  IF Len(rest) > 1 /\ Cardinality(ops[ch]) = 1 THEN {Head(rest)} ELSE {}

\* Mutant of Promoted: it is not asked whether other operators remain.
PromotedAmongOthers(ch, c) ==
  LET rest == RemoveUser(channelUsers[ch], c)
  IN  IF rest # <<>> THEN {Head(rest)} ELSE {}

\* Who PART promotes when c, an operator, has left ch: the member who
\* arrived first, if c was the only entry of ops.
Promoted(ch, c) ==
  LET rest == RemoveUser(channelUsers[ch], c)
  IN  IF rest # <<>> /\ Cardinality(ops[ch]) = 1 THEN {Head(rest)} ELSE {}

\* Mutant of OpsAfterPart: c loses its entry only if another is promoted.
OpsAfterPromotion(ch, c) ==
  IF c \in ops[ch] /\ Promoted(ch, c) # {}
  THEN (ops[ch] \cup Promoted(ch, c)) \ {c} ELSE ops[ch]

OpsAfterPart(ch, c) ==
  IF c \in ops[ch] THEN (ops[ch] \cup Promoted(ch, c)) \ {c} ELSE ops[ch]

-----------------------------------------------------------------------------
\* Client objects come and go.

Connect(c) ==
  /\ c \notin cls
  /\ cls' = cls \cup {c}
  /\ joinedChannels' = [joinedChannels EXCEPT ![c] = <<>>]
  /\ invitations' = [invitations EXCEPT ![c] = {}]
  /\ UNCHANGED <<registered, channels, memberVars, settingVars>>

\* The NICK or USER command that completes a client's registration.
Register(c) ==
  /\ c \in cls \ registered
  /\ registered' = registered \cup {c}
  /\ UNCHANGED <<cls, joinedChannels, invitations, channels, memberVars,
                 settingVars>>

\* Mutant of LeftByQuit: the loop goes through joinedChannels itself, which
\* PART shortens, so that it skips every other entry.
LeftByQuitInPlace(c) ==
  {joinedChannels[c][i] : i \in {j \in DOMAIN joinedChannels[c] : j % 2 = 1}}

\* The channels of which quitHandle makes c leave: it goes through a copy of
\* joinedChannels, and PART refuses those where c is not a member.
LeftByQuit(c) == {ch \in ToSet(joinedChannels[c]) : IsMember(c, ch)}

Quit(c) ==
  /\ c \in cls
  /\ channelUsers' = [ch \in Channel |->
       IF ch \in LeftByQuit(c) THEN RemoveUser(channelUsers[ch], c)
                               ELSE channelUsers[ch]]
  /\ ops' = [ch \in Channel |->
       IF ch \in LeftByQuit(c) THEN OpsAfterPart(ch, c) ELSE ops[ch]]
  /\ cls' = cls \ {c}
  /\ registered' = registered \ {c}
  /\ joinedChannels' = [joinedChannels EXCEPT ![c] = <<>>]
  /\ invitations' = [invitations EXCEPT ![c] = {}]
  /\ UNCHANGED <<channels, settingVars>>

-----------------------------------------------------------------------------
\* Channel commands.

\* Mutant of Admits: the limit is off by one.
AdmitsOneTooMany(ch, c, key) ==
  /\ "i" \in modes[ch] => ch \in invitations[c]
  /\ "l" \in modes[ch] => Len(channelUsers[ch]) <= maxUser[ch]
  /\ "k" \in modes[ch] => key = pw[ch]

\* The checks of joinHandle that admit a client, in the order of the code.
Admits(ch, c, key) ==
  /\ "i" \in modes[ch] => ch \in invitations[c]
  /\ "l" \in modes[ch] => Len(channelUsers[ch]) < maxUser[ch]
  /\ "k" \in modes[ch] => key = pw[ch]

Join(c, ch, key) ==
  /\ c \in registered
  /\ Admits(ch, c, key)
  /\ Len(joinedChannels[c]) < MaxJoined
  /\ channels' = channels \cup {ch}
  /\ channelUsers' = [channelUsers EXCEPT ![ch] = AddUser(@, c)]
  /\ ops' = [ops EXCEPT ![ch] =
               IF Len(channelUsers'[ch]) = 1 THEN @ \cup {c} ELSE @]
  /\ joinedChannels' = [joinedChannels EXCEPT ![c] = Append(@, ch)]
  /\ UNCHANGED <<cls, registered, invitations, settingVars>>

Part(c, ch) ==
  /\ c \in cls
  /\ IsMember(c, ch)
  /\ channelUsers' = [channelUsers EXCEPT ![ch] = RemoveUser(@, c)]
  /\ ops' = [ops EXCEPT ![ch] = OpsAfterPart(ch, c)]
  /\ invitations' = [invitations EXCEPT ![c] = @ \ {ch}]
  /\ joinedChannels' = [joinedChannels EXCEPT ![c] = RemoveJoined(@, ch)]
  /\ UNCHANGED <<cls, registered, channels, settingVars>>

\* Mutant of Kick: the invitation of t is forgotten.
KickKeepsInvitation(c, t, ch) ==
  /\ c \in cls
  /\ ch \in channels
  /\ c \in ops[ch]
  /\ t \in cls
  /\ t \in Members(ch)
  /\ ops' = [ops EXCEPT ![ch] = @ \ {t}]
  /\ joinedChannels' = [joinedChannels EXCEPT ![t] = RemoveJoined(@, ch)]
  /\ channelUsers' = [channelUsers EXCEPT ![ch] = RemoveUser(@, t)]
  /\ UNCHANGED <<cls, registered, invitations, channels, settingVars>>

\* KICK asks only that the sender is in ops, not that it is a member.
Kick(c, t, ch) ==
  /\ c \in cls
  /\ ch \in channels
  /\ c \in ops[ch]
  /\ t \in cls
  /\ t \in Members(ch)
  /\ ops' = [ops EXCEPT ![ch] = @ \ {t}]
  /\ joinedChannels' = [joinedChannels EXCEPT ![t] = RemoveJoined(@, ch)]
  /\ invitations' = [invitations EXCEPT ![t] = @ \ {ch}]
  /\ channelUsers' = [channelUsers EXCEPT ![ch] = RemoveUser(@, t)]
  /\ UNCHANGED <<cls, registered, channels, settingVars>>

\* Mutant of IsMemberOperator: the sender need not be a member.
IsOperatorOnly(c, ch) == c \in cls /\ ch \in channels /\ c \in ops[ch]

\* What INVITE and MODE ask of the sender.
IsMemberOperator(c, ch) == c \in cls /\ IsMember(c, ch) /\ c \in ops[ch]

Invite(c, t, ch) ==
  /\ IsMemberOperator(c, ch)
  /\ t \in cls
  /\ t \notin Members(ch)
  /\ invitations' = [invitations EXCEPT ![t] = @ \cup {ch}]
  /\ UNCHANGED <<cls, registered, joinedChannels, channels, memberVars,
                 settingVars>>

\* TOPIC asks neither for registration nor for membership.
SetTopic(c, ch, tp) ==
  /\ c \in cls
  /\ ch \in channels
  /\ "t" \in modes[ch] => c \in ops[ch]
  /\ topic' = [topic EXCEPT ![ch] = tp]
  /\ UNCHANGED <<clientVars, channels, memberVars, modes, pw, maxUser>>

-----------------------------------------------------------------------------
\* MODE, one letter at a time.

\* The target is whichever client findClientByNick returns, in the channel or
\* not, registered or not: the empty name finds a client without a nickname.
GrantOp(c, t, ch) ==
  /\ IsMemberOperator(c, ch)
  /\ t \in cls \ {c}
  /\ ops' = [ops EXCEPT ![ch] = @ \cup {t}]
  /\ UNCHANGED <<clientVars, channels, channelUsers, settingVars>>

RevokeOp(c, t, ch) ==
  /\ IsMemberOperator(c, ch)
  /\ t \in cls \ {c}
  /\ ops' = [ops EXCEPT ![ch] = @ \ {t}]
  /\ UNCHANGED <<clientVars, channels, channelUsers, settingVars>>

\* +i, -i, +t and -t
SetFlag(c, ch, x) ==
  /\ IsMemberOperator(c, ch)
  /\ x \in {"i", "t"} \cap ModeLetter
  /\ modes' = [modes EXCEPT ![ch] = @ \cup {x}]
  /\ UNCHANGED <<clientVars, channels, memberVars, pw, maxUser, topic>>

ClearFlag(c, ch, x) ==
  /\ IsMemberOperator(c, ch)
  /\ x \in {"i", "t"} \cap ModeLetter
  /\ modes' = [modes EXCEPT ![ch] = @ \ {x}]
  /\ UNCHANGED <<clientVars, channels, memberVars, pw, maxUser, topic>>

SetKey(c, ch, k) ==
  /\ IsMemberOperator(c, ch)
  /\ "k" \in ModeLetter
  /\ modes' = [modes EXCEPT ![ch] = @ \cup {"k"}]
  /\ pw' = [pw EXCEPT ![ch] = k]
  /\ UNCHANGED <<clientVars, channels, memberVars, maxUser, topic>>

ClearKey(c, ch) ==
  /\ IsMemberOperator(c, ch)
  /\ "k" \in ModeLetter
  /\ pw' = [pw EXCEPT ![ch] = NoKey]
  /\ modes' = [modes EXCEPT ![ch] = @ \ {"k"}]
  /\ UNCHANGED <<clientVars, channels, memberVars, maxUser, topic>>

\* The digits of the parameter are read by atoi: 0 is accepted.
SetLimit(c, ch, n) ==
  /\ IsMemberOperator(c, ch)
  /\ "l" \in ModeLetter
  /\ n <= MaxClient
  /\ modes' = [modes EXCEPT ![ch] = @ \cup {"l"}]
  /\ maxUser' = [maxUser EXCEPT ![ch] = n]
  /\ UNCHANGED <<clientVars, channels, memberVars, pw, topic>>

ClearLimit(c, ch) ==
  /\ IsMemberOperator(c, ch)
  /\ "l" \in ModeLetter
  /\ modes' = [modes EXCEPT ![ch] = @ \ {"l"}]
  /\ UNCHANGED <<clientVars, channels, memberVars, pw, maxUser, topic>>

Mode(c, ch) ==
  \/ \E t \in Client : GrantOp(c, t, ch) \/ RevokeOp(c, t, ch)
  \/ \E x \in ModeLetter : SetFlag(c, ch, x) \/ ClearFlag(c, ch, x)
  \/ \E k \in Key : SetKey(c, ch, k)
  \/ ClearKey(c, ch)
  \/ \E n \in 0..MaxClient : SetLimit(c, ch, n)
  \/ ClearLimit(c, ch)

Next ==
  \E c \in Client :
    \/ Connect(c)
    \/ Register(c)
    \/ Quit(c)
    \/ \E ch \in Channel :
         \/ \E key \in Key \cup {NoKey} : Join(c, ch, key)
         \/ Part(c, ch)
         \/ \E t \in Client : Kick(c, t, ch) \/ Invite(c, t, ch)
         \/ \E tp \in Topic \cup {NoTopic} : SetTopic(c, ch, tp)
         \/ Mode(c, ch)

Spec == Init /\ [][Next]_vars
-----------------------------------------------------------------------------
(***************************************************************************)
(* Properties that hold whatever the clients do.                           *)
(***************************************************************************)

\* Every pointer in channelUsers is to a live client: Channel::broadcast
\* calls getFd on each of them, long after the client may have gone.
NoDanglingMember == \A ch \in Channel : Members(ch) \subseteq cls

\* A member has the channel in its joinedChannels list, however PART and KICK
\* prune it: the list is all that quitHandle has to find the channels a
\* client must leave before its object is deleted.
MembershipRecorded ==
  \A ch \in Channel : \A c \in Members(ch) : ch \in ToSet(joinedChannels[c])

\* Only registered clients are members, and each is listed once: PART, KICK
\* and QUIT remove one entry and rely on there being no other.
MembersAreRegisteredOnce ==
  \A ch \in Channel :
    /\ Members(ch) \subseteq registered
    /\ IsInjective(channelUsers[ch])

\* A channel with a member has a Channel object, so findChannel finds it when
\* the member leaves.
OccupiedChannelExists ==
  \A ch \in Channel : channelUsers[ch] # <<>> => ch \in channels

\* The inductive invariant behind NoDanglingMember.
MembershipInv ==
  /\ TypeOK
  /\ MembershipRecorded
  /\ MembersAreRegisteredOnce
  /\ OccupiedChannelExists

\* However a client leaves a channel, by PART or by KICK, the invitation that
\* let it in is spent: it cannot come back to a +i channel without a new one.
SpendsInvitation ==
  \A ch \in Channel : \A c \in cls' :
    c \in Members(ch) /\ c \notin Members(ch)' => ch \notin invitations'[c]

LeavingVoidsInvitation == [][SpendsInvitation]_vars

\* PART, KICK and QUIT never leave behind in ops the pointer of a member who
\* goes: an operator who is not a member was made one by MODE +o of a client
\* outside the channel, and of those alone the pointer survives the object.
OutsiderWasGranted ==
  \A ch \in Channel : \A c \in ops'[ch] \ Members(ch)' :
    \/ c \in ops[ch] \ Members(ch)
    \/ \E s \in Client : GrantOp(s, c, ch)

OutsidersOnlyByGrant == [][OutsiderWasGranted]_vars

\* While all its operators are members, a channel that keeps a member keeps
\* an operator among them, through PART, KICK, QUIT and MODE -o, unless the
\* last operator kicks itself.
KeepsAnOperator ==
  \A ch \in Channel :
    /\ ops[ch] # {}
    /\ ops[ch] \subseteq Members(ch)
    /\ channelUsers'[ch] # <<>>
    => \/ ops'[ch] \cap Members(ch)' # {}
       \/ \E c \in Client : Kick(c, c, ch)

OperatorSuccession == [][KeepsAnOperator]_vars

\* There are three ways to become an operator, over all commands: by MODE +o of
\* an operator who is a member; by JOIN, alone in the channel; and by being the
\* first of those who remain when the only operator leaves by PART or QUIT.
\* So nobody but a client alone in it restores one to a channel without.
BecomesOperator ==
  \A ch \in Channel : \A c \in ops'[ch] \ ops[ch] :
    \/ \E s \in Client : GrantOp(s, c, ch)
    \/ channelUsers'[ch] = <<c>>
    \/ \E d \in Members(ch) \ Members(ch)' :
         ops[ch] = {d} /\ c = Head(channelUsers'[ch])

OperatorsAreAppointed == [][BecomesOperator]_vars

\* Channels are never deleted and keep their modes when the last member
\* leaves.  An empty channel that admits nobody, because it is +i and no
\* client is invited or +l with limit 0, is lost for the server's lifetime.
Dead(ch) ==
  /\ ch \in channels
  /\ channelUsers[ch] = <<>>
  /\ \/ "i" \in modes[ch] /\ \A c \in cls : ch \notin invitations[c]
     \/ "l" \in modes[ch] /\ maxUser[ch] = 0

StaysDead == \A ch \in Channel : Dead(ch) => Dead(ch)'

DeadChannelStaysDead == [][StaysDead]_vars

\* JOIN never takes a +l channel past its limit, though MODE +l may set a
\* limit below the number of members already there.
GrowsWithinLimit ==
  \A ch \in Channel :
    "l" \in modes[ch] /\ Len(channelUsers'[ch]) > Len(channelUsers[ch])
      => Len(channelUsers'[ch]) <= maxUser[ch]

AdmittedWithinLimit == [][GrowsWithinLimit]_vars

(***************************************************************************)
(* What the text of the program says and the program does not do.          *)
(***************************************************************************)

\* modes.cpp:169, the reply to a refused +l: its parameter "has to be a
\* positive integer".
LimitIsPositive == \A ch \in Channel : "l" \in modes[ch] => maxUser[ch] > 0
=============================================================================
